---------------------------- MODULE FetchProofs ----------------------------
(***************************************************************************)
(* Proofs about Fetch: whatever the upstream project does between          *)
(* "git ls-remote" and "git fetch", a name gives a commit it had           *)
(* meanwhile, a commit id gives that commit, and "update" does not go      *)
(* back.                                                                   *)
(***************************************************************************)
EXTENDS Fetch, Induction

-----------------------------------------------------------------------------
(* Revisions.                                                              *)

(* What a revision's argument is, by the kind of the revision.             *)
LEMMA RevisionKinds ==
  ASSUME NEW rev \in Revision
  PROVE  /\ rev.kind \in {"none", "ref", "name", "id"}
         /\ rev.kind = "none" => rev = NoRevision
         /\ rev.kind = "ref" => rev.arg \in Ref \cup {HEAD}
BY DEF Revision, NoRevision

(* HEAD and the refspec of all refs are no refs, and not the same.         *)
LEMMA RefKinds == HEAD \notin Ref /\ Every \notin Ref /\ HEAD # Every
BY DEF HEAD, Every, Ref, NoCommit

(* Only the upstream repository decides what is reachable, and what a      *)
(* revision stands for.                                                    *)
LEMMA UpstreamDecides ==
  ASSUME UNCHANGED upstream
  PROVE  Reachable' = Reachable /\ \A rev : Named(rev)' = Named(rev)
BY DEF upstream, Reachable, Tips, Present, History, Commit, Named, At

-----------------------------------------------------------------------------
(* The history of a commit: the recursion over its parents, and what it    *)
(* gives.                                                                  *)

\* "past" in History, up to commit n of the commits par.
IsPast(past, par, n) ==
  past = [d \in 0 .. n |-> IF d = NoCommit THEN {} ELSE {d} \cup past[par[d]]]

\* Every commit comes after its parent.
Ordered(par, n) == \A d \in 1 .. n : par[d] \in 0 .. d - 1

(* What it is at a commit.                                                 *)
LEMMA PastAt ==
  ASSUME NEW past, NEW par, NEW n, IsPast(past, par, n), NEW d \in 0 .. n
  PROVE  /\ d = NoCommit => past[d] = {}
         /\ d # NoCommit => past[d] = {d} \cup past[par[d]]
BY DEF IsPast

(* Two such functions agree as far as the parents do.                      *)
LEMMA PastAgrees ==
  ASSUME NEW par, NEW qar, NEW m \in Nat, NEW n \in Nat, NEW f, NEW g, NEW k \in Nat,
         IsPast(f, par, m), IsPast(g, qar, n), k <= m, k <= n,
         Ordered(par, k), \A d \in 1 .. k : par[d] = qar[d]
  PROVE  \A d \in 0 .. k : f[d] = g[d]
<1> DEFINE T == {d \in 0 .. k : f[d] # g[d]}
<1> SUFFICES ASSUME T # {} PROVE FALSE
  OBVIOUS
<1>1. PICK d \in T : \A e \in T : d <= e
  <2>1. T \in SUBSET Nat
    OBVIOUS
  <2> HIDE DEF T
  <2> QED BY <2>1, Least
<1>2. /\ d = NoCommit => f[d] = {} /\ g[d] = {}
      /\ d # NoCommit => f[d] = {d} \cup f[par[d]] /\ g[d] = {d} \cup g[qar[d]]
  <2>1. d \in 0 .. m /\ d \in 0 .. n
    OBVIOUS
  <2> QED BY <2>1, PastAt
<1>3. d # NoCommit
  BY <1>2
<1>4. par[d] \in 0 .. d - 1 /\ par[d] = qar[d] /\ par[d] \in 0 .. k
  BY <1>3 DEF Ordered, NoCommit
<1>5. f[par[d]] = g[par[d]]
  BY <1>1, <1>4
<1> QED BY <1>2, <1>4, <1>5

(* There is one, however many commits there are.                           *)
LEMMA PastExists ==
  ASSUME NEW par, NEW n \in Nat, Ordered(par, n)
  PROVE  \E past : IsPast(past, par, n)
<1> DEFINE T == {m \in Nat : m <= n /\ ~\E past : IsPast(past, par, m)}
<1> SUFFICES ASSUME T # {} PROVE FALSE
  OBVIOUS
<1>1. PICK m \in T : \A l \in T : m <= l
  <2>1. T \in SUBSET Nat
    OBVIOUS
  <2> HIDE DEF T
  <2> QED BY <2>1, Least
<1>2. m # 0
  <2>1. IsPast([d \in 0 .. 0 |-> {}], par, 0)
    BY DEF IsPast, NoCommit
  <2> QED BY <2>1
<1>3. PICK past : IsPast(past, par, m - 1)
  BY <1>1, <1>2
<1> DEFINE more == [d \in 0 .. m |-> IF d = m THEN {m} \cup past[par[m]] ELSE past[d]]
<1>4. ASSUME NEW d \in 0 .. m
      PROVE  more[d] = IF d = NoCommit THEN {} ELSE {d} \cup more[par[d]]
  <2>1. d # NoCommit => par[d] \in 0 .. d - 1 /\ par[d] \in 0 .. m - 1
    BY DEF Ordered, NoCommit
  <2>2. CASE d = m
    BY <1>2, <2>1, <2>2 DEF NoCommit
  <2>3. CASE d # m
    <3>1. /\ d = NoCommit => past[d] = {}
          /\ d # NoCommit => past[d] = {d} \cup past[par[d]]
      BY <1>3, <2>3, PastAt
    <3>2. more[d] = past[d]
      BY <2>3
    <3>3. d # NoCommit => more[par[d]] = past[par[d]]
      BY <2>1
    <3> HIDE DEF more
    <3> QED BY <3>1, <3>2, <3>3
  <2> QED BY <2>2, <2>3
<1>5. IsPast(more, par, m)
  BY <1>4 DEF IsPast
<1> QED BY <1>5

\* A commit of History, whatever the commits.
PastIn(par, c) == (CHOOSE past : IsPast(past, par, c))[c]

(* The history of a commit is the commit and the history of its parent.    *)
LEMMA PastInStep ==
  ASSUME NEW par, NEW c \in Nat \ {NoCommit}, Ordered(par, c)
  PROVE  /\ par[c] = NoCommit => PastIn(par, c) = {c}
         /\ par[c] # NoCommit => PastIn(par, c) = {c} \cup PastIn(par, par[c])
<1>1. PICK past : IsPast(past, par, c)
  BY PastExists DEF NoCommit
<1>2. ASSUME NEW d \in 0 .. c PROVE PastIn(par, d) = past[d]
  <2>1. d \in Nat /\ d <= c /\ Ordered(par, d)
    BY DEF Ordered, NoCommit
  <2>2. IsPast(CHOOSE f : IsPast(f, par, d), par, d)
    BY <2>1, PastExists
  <2>3. (CHOOSE f : IsPast(f, par, d))[d] = past[d]
    BY <1>1, <2>1, <2>2, PastAgrees DEF NoCommit
  <2> QED BY <2>3 DEF PastIn
<1>3. par[c] \in 0 .. c /\ c \in 0 .. c /\ c # NoCommit
  BY DEF Ordered, NoCommit
<1>4. past[c] = {c} \cup past[par[c]]
  BY <1>1, <1>3, PastAt
<1>5. par[c] = NoCommit => past[par[c]] = {}
  BY <1>1, <1>3, PastAt
<1> QED BY <1>2, <1>3, <1>4, <1>5 DEF NoCommit

(* It has only commits up to that one.                                     *)
LEMMA PastInBelow ==
  ASSUME NEW par, NEW c \in Nat \ {NoCommit}, Ordered(par, c)
  PROVE  c \in PastIn(par, c) /\ PastIn(par, c) \subseteq 1 .. c
<1> DEFINE T == {d \in 1 .. c : ~(PastIn(par, d) \subseteq 1 .. d)}
<1>1. T = {}
  <2> SUFFICES ASSUME T # {} PROVE FALSE
    OBVIOUS
  <2>1. PICK d \in T : \A e \in T : d <= e
    <3>1. T \in SUBSET Nat
      OBVIOUS
    <3> HIDE DEF T
    <3> QED BY <3>1, Least
  <2>2. d \in Nat \ {NoCommit} /\ Ordered(par, d) /\ par[d] \in 0 .. d - 1
    BY DEF Ordered, NoCommit
  <2>3. /\ par[d] = NoCommit => PastIn(par, d) = {d}
        /\ par[d] # NoCommit => PastIn(par, d) = {d} \cup PastIn(par, par[d])
    BY <2>2, PastInStep
  <2>4. par[d] # NoCommit => PastIn(par, par[d]) \subseteq 1 .. par[d]
    BY <2>1, <2>2 DEF NoCommit
  <2>5. PastIn(par, d) \subseteq 1 .. d
    BY <2>2, <2>3, <2>4 DEF NoCommit
  <2> QED BY <2>1, <2>5
<1>2. c \in 1 .. c
  BY DEF NoCommit
<1> QED BY <1>1, <1>2, PastInStep

(* It stays, whatever commits are added.                                   *)
LEMMA PastInStays ==
  ASSUME NEW par, NEW qar, NEW c \in Nat \ {NoCommit}, Ordered(par, c), \A d \in 1 .. c : par[d] = qar[d]
  PROVE  PastIn(par, c) = PastIn(qar, c)
<1>1. Ordered(qar, c)
  BY DEF Ordered
<1>2. /\ IsPast(CHOOSE f : IsPast(f, par, c), par, c)
      /\ IsPast(CHOOSE f : IsPast(f, qar, c), qar, c)
  BY <1>1, PastExists DEF NoCommit
<1>3. (CHOOSE f : IsPast(f, par, c))[c] = (CHOOSE f : IsPast(f, qar, c))[c]
  BY <1>2, PastAgrees DEF NoCommit
<1> QED BY <1>3 DEF PastIn

(* The histories of a state and of the next one are of that form.          *)
LEMMA HistoryIsPast ==
  /\ History = [c \in Commit |-> PastIn(parent, c)]
  /\ History' = [c \in Commit' |-> PastIn(parent', c)]
BY DEF History, PastIn, IsPast

\* The part of TypeOK about the upstream project.
UpstreamTypes ==
  /\ parent \in Seq(Nat) /\ Len(parent) <= MaxCommit /\ \A c \in Commit : parent[c] \in 0 .. c - 1
  /\ refs \in [Ref -> Commit \cup {NoCommit}] /\ default \in Branch

\* Whatever is reachable, at a ref or named by a revision is a commit of it.
UpstreamIsSound ==
    /\ \A c \in Commit : c \in History[c] /\ History[c] \subseteq Commit
    /\ Tips \subseteq Commit /\ Tips \subseteq Reachable /\ Reachable \subseteq Commit
    /\ \A r \in Ref \cup {HEAD} : At(r) \in Commit \cup {NoCommit}
    /\ \A rev \in Revision : Named(rev) \subseteq Commit

(* The types of the upstream project say so.                               *)
LEMMA UpstreamSound == UpstreamTypes => UpstreamIsSound
<1> SUFFICES ASSUME UpstreamTypes PROVE UpstreamIsSound
  OBVIOUS
<1>1. ASSUME NEW c \in Commit PROVE c \in History[c] /\ History[c] \subseteq Commit
  <2>1. c \in Nat \ {NoCommit} /\ Ordered(parent, c) /\ 1 .. c \subseteq Commit
    BY DEF UpstreamTypes, Commit, Ordered, NoCommit
  <2>2. c \in PastIn(parent, c) /\ PastIn(parent, c) \subseteq 1 .. c
    BY <2>1, PastInBelow
  <2> QED BY <2>1, <2>2, HistoryIsPast
<1>2. Tips \subseteq Commit
  BY DEF Tips, Present, UpstreamTypes
<1>3. Tips \subseteq Reachable /\ Reachable \subseteq Commit
  BY <1>1, <1>2 DEF Reachable
<1>4. \A r \in Ref \cup {HEAD} : At(r) \in Commit \cup {NoCommit}
  BY DEF At, Ref, UpstreamTypes
<1>5. ASSUME NEW rev \in Revision PROVE Named(rev) \subseteq Commit
  <2>1. HEAD \in Ref \cup {HEAD}
    OBVIOUS
  <2>2. CASE rev.kind = "none"
    BY <2>1, <2>2, <1>4 DEF Named
  <2>3. CASE rev.kind = "ref"
    BY <2>3, <1>4, RevisionKinds DEF Named
  <2>4. CASE rev.kind = "name"
    BY <2>4, <1>2 DEF Named, Tips
  <2>5. CASE rev.kind = "id"
    BY <2>5, <1>3 DEF Named
  <2> QED BY <2>2, <2>3, <2>4, <2>5, RevisionKinds
<1> QED BY <1>1, <1>2, <1>3, <1>4, <1>5 DEF UpstreamIsSound

(* And in the next state.                                                  *)
LEMMA UpstreamStaysSound == UpstreamTypes' => UpstreamIsSound'
BY UpstreamSound, PTL

(* The upstream project only gets more commits.                            *)
LEMMA UpstreamTypesStep ==
  UpstreamTypes /\ Upstream => UpstreamTypes' /\ Commit \subseteq Commit'
<1> SUFFICES ASSUME UpstreamTypes, Upstream PROVE UpstreamTypes' /\ Commit \subseteq Commit'
  OBVIOUS
<1>1. ASSUME NEW n \in Branch, Push(n) PROVE UpstreamTypes' /\ Commit \subseteq Commit'
  <2> DEFINE r == <<"heads", n>>
  <2>1. r \in Ref /\ refs[r] \in 0 .. Len(parent) /\ Len(parent) \in Nat
    BY <1>1 DEF Ref, UpstreamTypes, Commit, NoCommit
  <2>2. /\ parent' = Append(parent, refs[r]) /\ refs' = [refs EXCEPT ![r] = Len(parent) + 1] /\ default' = default
        /\ Len(parent) < MaxCommit
    BY <1>1 DEF Push
  <2> HIDE DEF r
  <2>3. /\ parent' \in Seq(Nat) /\ Len(parent') = Len(parent) + 1 /\ parent'[Len(parent) + 1] = refs[r]
        /\ \A c \in 1 .. Len(parent) : parent'[c] = parent[c]
    BY <2>1, <2>2 DEF UpstreamTypes
  <2>4. Commit' = Commit \cup {Len(parent) + 1}
    BY <2>1, <2>3 DEF Commit
  <2>5. ASSUME NEW c \in Commit' PROVE parent'[c] \in 0 .. c - 1
    <3>1. CASE c \in Commit
      BY <2>3, <3>1 DEF Commit, UpstreamTypes
    <3>2. CASE c = Len(parent) + 1
      BY <2>1, <2>3, <3>2
    <3> QED BY <2>4, <3>1, <3>2
  <2>6. refs' \in [Ref -> Commit' \cup {NoCommit}]
    BY <2>1, <2>2, <2>4 DEF UpstreamTypes
  <2>7. Len(parent') <= MaxCommit
    BY <2>1, <2>2, <2>3, FetchAssumption
  <2> QED BY <2>2, <2>3, <2>4, <2>5, <2>6, <2>7 DEF UpstreamTypes
<1>2. CASE parent' = parent /\ refs' \in [Ref -> Commit \cup {NoCommit}] /\ default' \in Branch
  BY <1>2 DEF UpstreamTypes, Commit
<1>3. ASSUME NEW r \in Ref, NEW c \in Commit, Create(r, c)
      PROVE  parent' = parent /\ refs' \in [Ref -> Commit \cup {NoCommit}] /\ default' \in Branch
  BY <1>3 DEF Create, UpstreamTypes
<1>4. ASSUME NEW r \in Ref, Delete(r)
      PROVE  parent' = parent /\ refs' \in [Ref -> Commit \cup {NoCommit}] /\ default' \in Branch
  BY <1>4 DEF Delete, UpstreamTypes
<1>5. ASSUME NEW n \in Branch, SetDefault(n)
      PROVE  parent' = parent /\ refs' \in [Ref -> Commit \cup {NoCommit}] /\ default' \in Branch
  BY <1>5 DEF SetDefault, UpstreamTypes
<1> QED BY <1>1, <1>2, <1>3, <1>4, <1>5 DEF Upstream

(* A commit keeps its history, and what a branch or tag has it keeps until *)
(* a ref is deleted.                                                       *)
LEMMA HistoryGrows ==
  UpstreamTypes /\ Upstream =>
    /\ \A c \in Commit : History'[c] = History[c]
    /\ \A r \in Present : refs[r] \in Commit /\ (History[refs[r]] \subseteq History'[refs'[r]] \/ rewritten')
<1> SUFFICES ASSUME UpstreamTypes, Upstream
             PROVE  /\ \A c \in Commit : History'[c] = History[c]
                    /\ \A r \in Present : refs[r] \in Commit /\ (History[refs[r]] \subseteq History'[refs'[r]] \/ rewritten')
  OBVIOUS
<1>1. Commit \subseteq Commit' /\ UpstreamTypes'
  BY UpstreamTypesStep
<1>2. ASSUME NEW c \in Commit PROVE History'[c] = History[c]
  <2>1. c \in Nat \ {NoCommit} /\ Ordered(parent, c) /\ 1 .. c \subseteq 1 .. Len(parent)
    BY DEF UpstreamTypes, Commit, Ordered, NoCommit
  <2>2. \A d \in 1 .. Len(parent) : parent[d] = parent'[d]
    <3>1. CASE parent' = parent
      BY <3>1
    <3>2. ASSUME NEW n \in Branch, Push(n) PROVE \A d \in 1 .. Len(parent) : parent[d] = parent'[d]
      <4>1. refs[<<"heads", n>>] \in Nat
        BY DEF Ref, UpstreamTypes, Commit, NoCommit
      <4> QED BY <3>2, <4>1 DEF Push, UpstreamTypes
    <3> QED BY <3>1, <3>2 DEF Upstream, Create, Delete, SetDefault
  <2>3. PastIn(parent, c) = PastIn(parent', c)
    BY <2>1, <2>2, PastInStays
  <2> QED BY <1>1, <2>3, HistoryIsPast
<1>3. ASSUME NEW r \in Present PROVE refs[r] \in Commit /\ (History[refs[r]] \subseteq History'[refs'[r]] \/ rewritten')
  <2>1. refs[r] \in Commit
    BY DEF Present, UpstreamTypes
  <2>2. CASE refs'[r] = refs[r]
    BY <2>1, <2>2, <1>2
  <2>3. CASE rewritten'
    BY <2>1, <2>3
  <2>4. ASSUME NEW n \in Branch, Push(n), r = <<"heads", n>>
        PROVE  History[refs[r]] \subseteq History'[refs'[r]]
    <3> DEFINE c == Len(parent) + 1
    <3>1. /\ parent' = Append(parent, refs[r]) /\ refs'[r] = c
          /\ refs[r] \in Nat /\ refs[r] # NoCommit /\ Len(parent) \in Nat
      BY <2>1, <2>4 DEF Push, UpstreamTypes, Present, Commit, NoCommit
    <3>2. c \in Commit' /\ parent'[c] = refs[r] /\ c \in Nat \ {NoCommit}
      BY <3>1 DEF Commit, UpstreamTypes, NoCommit
    <3>3. Ordered(parent', c)
      BY <1>1, <3>1, <3>2 DEF UpstreamTypes, Commit, Ordered
    <3> HIDE DEF c
    <3>4. PastIn(parent', refs[r]) \subseteq PastIn(parent', c)
      <4>0. c \in Nat \ {NoCommit} /\ parent'[c] # NoCommit
        BY <3>1, <3>2
      <4>1. PastIn(parent', c) = {c} \cup PastIn(parent', parent'[c])
        BY <3>3, <4>0, PastInStep
      <4> QED BY <3>2, <4>1
    <3> QED BY <1>1, <1>2, <2>1, <3>1, <3>2, <3>4, HistoryIsPast
  <2> QED
    BY <2>1, <2>2, <2>3, <2>4 DEF Upstream, Push, Create, Delete, SetDefault, Present, UpstreamTypes
<1> QED BY <1>2, <1>3

-----------------------------------------------------------------------------
(* The command.                                                            *)

(* While the upstream project changes, the history records what becomes of *)
(* the revision.                                                           *)
LEMMA UpstreamStep == CommandInv /\ Upstream => CommandInv'
<1> SUFFICES ASSUME CommandInv, Upstream PROVE CommandInv'
  OBVIOUS
<1>1. Observe
  BY DEF Upstream, Push, Create, Delete, SetDefault
<1>2. UNCHANGED <<cmd, meta>>
  BY <1>1 DEF Observe
<1>3. cmd.pc # "idle" => Named(cmd.revision)' \subseteq seen'
  BY <1>1 DEF Observe
<1>4. kept' \subseteq Reachable'
  BY <1>1 DEF Observe
<1> QED BY <1>2, <1>3, <1>4 DEF CommandInv

(* The two lookups keep to the revision that is asked for.                 *)
LEMMA SubpatchStep == CommandInv /\ Subpatch => CommandInv'
<1> SUFFICES ASSUME CommandInv, Subpatch PROVE CommandInv'
  OBVIOUS
<1>1. ASSUME NEW rev \in Revision, Begin(rev) PROVE CommandInv'
  <2>1. /\ cmd'.pc = "resolve" /\ cmd'.revision = rev /\ meta' = meta
        /\ seen' = Named(rev) /\ kept' = Reachable
        /\ cmd' \in [pc : {"idle", "resolve", "fetch"}, revision : Revision, ref : Ref \cup {HEAD, Every}]
    BY <1>1 DEF Begin
  <2>2. Reachable' = Reachable /\ Named(rev)' = Named(rev)
    BY <1>1, UpstreamDecides DEF Begin
  <2>3. Named(cmd.revision)' = Named(rev)'
    BY <2>1 DEF Named
  <2> QED BY <2>1, <2>2, <2>3 DEF CommandInv
<1>2. CASE \E rev \in Revision : Add(rev) \/ Update(rev)
  <2>1. \E rev \in Revision : Begin(rev)
    BY <1>2 DEF Add, Update, CommandInv
  <2> QED BY <1>1, <2>1
<1>3. CASE Resolve
  <2>1. PICK ref \in IF cmd.revision.kind \in {"none", "id"} THEN {Every} ELSE GuessRef(cmd.revision) :
          cmd' = [cmd EXCEPT !.pc = "fetch", !.ref = ref]
    BY <1>3 DEF Resolve
  <2> DEFINE rev == cmd.revision
  <2>2. /\ rev \in Revision /\ cmd.pc = "resolve" /\ cmd'.pc = "fetch" /\ cmd'.revision = rev /\ cmd'.ref = ref
        /\ UNCHANGED <<upstream, meta, seen, kept>>
    BY <1>3, <2>1 DEF Resolve, CommandInv
  <2>3. /\ rev.kind \in {"none", "id"} => ref = Every
        /\ rev.kind = "ref" => ref = rev.arg /\ ref \in Ref \cup {HEAD}
        /\ rev.kind = "name" => ref \in Ref /\ ref[2] = rev.arg[2]
    BY <2>1, <2>2, RevisionKinds DEF GuessRef, Present
  <2>4. cmd' \in [pc : {"idle", "resolve", "fetch"}, revision : Revision, ref : Ref \cup {HEAD, Every}]
    BY <2>1, <2>2, <2>3, RevisionKinds DEF CommandInv
  <2>5. Reachable' = Reachable /\ Named(cmd.revision)' = Named(cmd.revision)
    <3>1. Named(cmd.revision)' = Named(rev)'
      BY <2>2 DEF Named
    <3> QED BY <2>2, <3>1, UpstreamDecides
  <2> QED BY <2>2, <2>3, <2>4, <2>5, RevisionKinds DEF CommandInv
<1>4. CASE ResolveFails \/ Fetch \/ FetchFails
  <2>1. End /\ UNCHANGED upstream
    BY <1>4 DEF ResolveFails, Fetch, FetchFails, Fails
  <2>2. meta'.revision \in Revision
    BY <1>4 DEF ResolveFails, Fetch, FetchFails, Fails, CommandInv
  <2>3. /\ cmd'.pc = "idle" /\ kept' = {}
        /\ cmd' \in [pc : {"idle", "resolve", "fetch"}, revision : Revision, ref : Ref \cup {HEAD, Every}]
    BY <2>1 DEF End, Idle, NoRevision, Revision
  <2> QED BY <2>2, <2>3 DEF CommandInv
<1> QED BY <1>2, <1>3, <1>4 DEF Subpatch

(* A fetch brings a commit; under a name, one of a ref of that name.       *)
LEMMA FetchedCommit ==
  ASSUME TypeOK, CommandInv, cmd.pc = "fetch", NEW c \in Fetched
  PROVE  /\ c \in Commit
         /\ cmd.revision.kind \in {"ref", "name"} /\ cmd.revision.arg # HEAD =>
              cmd.ref \in Present /\ IsOf(cmd.ref, cmd.revision) /\ c = refs[cmd.ref]
<1>1. UpstreamTypes /\ UpstreamIsSound
  BY UpstreamSound DEF TypeOK, UpstreamTypes
<1>2. cmd.revision \in Revision /\ cmd.ref \in Ref \cup {HEAD, Every}
  BY DEF TypeOK
<1>3. CASE cmd.ref # Every
  <2>1. c = At(cmd.ref) /\ c # NoCommit /\ cmd.ref \in Ref \cup {HEAD}
    <3>1. cmd.revision.kind \in {"ref", "name"} /\ cmd.revision # NoRevision
      BY <1>2, <1>3, RevisionKinds DEF CommandInv, NoRevision
    <3> QED BY <1>2, <1>3, <3>1 DEF Fetched
  <2>2. c \in Commit
    BY <1>1, <2>1 DEF UpstreamIsSound
  <2>3. ASSUME cmd.revision.kind \in {"ref", "name"}, cmd.revision.arg # HEAD
        PROVE  cmd.ref \in Present /\ IsOf(cmd.ref, cmd.revision) /\ c = refs[cmd.ref]
    <3>1. cmd.ref \in Ref /\ IsOf(cmd.ref, cmd.revision)
      BY <1>2, <1>3, <2>1, <2>3, RevisionKinds DEF CommandInv, IsOf
    <3> QED BY <2>1, <3>1, RefKinds DEF At, Present
  <2> QED BY <2>2, <2>3
<1>4. CASE cmd.ref = Every
  <2>1. cmd.revision.kind \in {"none", "id"}
    BY <1>2, <1>4, RevisionKinds, RefKinds DEF CommandInv
  <2>2. Fetched \subseteq Tips \cup Reachable
    BY <1>2, <1>4, <2>1, RevisionKinds DEF Fetched, Objects, First, Tips, NoRevision
  <2> QED BY <1>1, <2>1, <2>2 DEF UpstreamIsSound
<1> QED BY <1>3, <1>4

-----------------------------------------------------------------------------
(* The types.                                                              *)

(* Every step keeps them: what is fetched is a commit of the upstream      *)
(* project, and so is everything that was seen or kept.                    *)
LEMMA TypesStep == TypeOK /\ CommandInv /\ [Next]_vars => TypeOK'
<1> SUFFICES ASSUME TypeOK, CommandInv, [Next]_vars PROVE TypeOK'
  OBVIOUS
<1>1. UpstreamTypes /\ UpstreamIsSound
  BY UpstreamSound DEF TypeOK, UpstreamTypes
<1>2. CASE Upstream
  <2>1. UpstreamTypes' /\ UpstreamIsSound' /\ Commit \subseteq Commit'
    BY <1>1, <1>2, UpstreamTypesStep, UpstreamStaysSound
  <2>2. UNCHANGED <<cmd, meta>> /\ Observe
    BY <1>2 DEF Upstream, Push, Create, Delete, SetDefault, Observe
  <2>3. Named(cmd.revision)' \subseteq Commit'
    <3>1. PICK rev \in Revision : rev = cmd.revision
      BY DEF TypeOK
    <3>2. Named(rev)' \subseteq Commit'
      BY <2>1 DEF UpstreamIsSound
    <3>3. Named(cmd.revision)' = Named(rev)'
      BY <2>2, <3>1 DEF Named
    <3> QED BY <3>2, <3>3
  <2>4. seen' \subseteq Commit' /\ kept' \subseteq Commit'
    BY <2>1, <2>2, <2>3 DEF Observe, TypeOK, UpstreamIsSound
  <2>5. meta' \in [revision : Revision, objectId : Commit'] \cup {NoMeta}
    BY <2>1, <2>2 DEF TypeOK
  <2>6. rewritten' \in BOOLEAN
    BY <1>2 DEF Upstream, Push, Create, Delete, SetDefault, TypeOK
  <2>7. cmd' \in [pc : {"idle", "resolve", "fetch"}, revision : Revision, ref : Ref \cup {HEAD, Every}]
    BY <2>2 DEF TypeOK
  <2> QED BY <2>1, <2>4, <2>5, <2>6, <2>7 DEF TypeOK, UpstreamTypes
<1>3. CASE Subpatch
  <2>1. CommandInv'
    BY <1>3, SubpatchStep
  <2>2. UNCHANGED upstream
    BY <1>3 DEF Subpatch, Add, Update, Begin, Resolve, ResolveFails, Fetch, FetchFails, Fails
  <2>3. Commit' = Commit /\ UpstreamTypes'
    BY <1>1, <2>2 DEF upstream, Commit, UpstreamTypes
  <2>4. seen' \subseteq Commit /\ kept' \subseteq Commit
    <3>1. ASSUME NEW rev \in Revision, Begin(rev) PROVE seen' \subseteq Commit /\ kept' \subseteq Commit
      BY <1>1, <3>1 DEF Begin, UpstreamIsSound
    <3>2. (\E rev \in Revision : Add(rev) \/ Update(rev)) => \E rev \in Revision : Begin(rev)
      BY DEF Add, Update, CommandInv
    <3>3. (seen' = {} /\ kept' = {}) \/ UNCHANGED <<seen, kept>> \/ \E rev \in Revision : Begin(rev)
      BY <1>3, <3>2 DEF Subpatch, Resolve, ResolveFails, Fetch, FetchFails, Fails, End
    <3> QED BY <3>1, <3>3 DEF TypeOK
  <2>5. meta' \in [revision : Revision, objectId : Commit] \cup {NoMeta} /\ rewritten' \in BOOLEAN
    <3>1. CASE Fetch
      <4>1. PICK c \in Fetched : meta' = [revision |-> cmd.revision, objectId |-> c]
        BY <3>1 DEF Fetch
      <4>2. cmd.revision \in Revision /\ rewritten' = FALSE
        BY <3>1 DEF Fetch, TypeOK
      <4>3. c \in Commit
        BY <3>1, <4>1, FetchedCommit DEF Fetch
      <4> QED BY <4>1, <4>2, <4>3
    <3>2. CASE ~Fetch
      BY <1>3, <3>2 DEF Subpatch, Add, Update, Begin, Resolve, ResolveFails, FetchFails, Fails, TypeOK
    <3> QED BY <3>1, <3>2
  <2>6. cmd' \in [pc : {"idle", "resolve", "fetch"}, revision : Revision, ref : Ref \cup {HEAD, Every}]
    BY <2>1 DEF CommandInv
  <2> QED BY <2>3, <2>4, <2>5, <2>6 DEF TypeOK, UpstreamTypes
<1>4. CASE UNCHANGED vars
  BY <1>4 DEF vars, TypeOK, Commit
<1> QED BY <1>2, <1>3, <1>4 DEF Next

-----------------------------------------------------------------------------
(* Going forward.                                                          *)

(* A ref that has the integrated commit keeps it until refs are deleted;   *)
(* a fetch integrates the commit of the ref it fetched.                    *)
LEMMA ForwardStep == TypeOK /\ FetchInv /\ [Next]_vars => ForwardInv'
<1> SUFFICES ASSUME TypeOK, FetchInv, [Next]_vars PROVE ForwardInv'
  OBVIOUS
<1>1. UpstreamTypes /\ CommandInv /\ ForwardInv
  BY DEF TypeOK, UpstreamTypes, FetchInv
<1>2. CASE Upstream
  <2> SUFFICES ASSUME meta # NoMeta, meta.revision.kind \in {"ref", "name"}, meta.revision.arg # HEAD, ~rewritten'
               PROVE  \E r \in Present' : IsOf(r, meta.revision) /\ meta.objectId \in History'[refs'[r]]
    BY <1>2 DEF ForwardInv, IsOf, Upstream, Push, Create, Delete, SetDefault, Observe
  <2>1. ~rewritten
    BY <1>2 DEF Upstream, Push, Create, Delete, SetDefault, TypeOK
  <2>2. PICK r \in Present : IsOf(r, meta.revision) /\ meta.objectId \in History[refs[r]]
    BY <1>1, <2>1 DEF ForwardInv
  <2>3. History[refs[r]] \subseteq History'[refs'[r]]
    BY <1>1, <1>2, HistoryGrows
  <2>4. r \in Present'
    <3>1. r \in Ref /\ refs[r] # NoCommit /\ Len(parent) \in Nat /\ refs \in [Ref -> Commit \cup {NoCommit}]
      BY DEF Present, TypeOK
    <3>2. refs'[r] # NoCommit
      <4>1. ASSUME NEW n \in Branch, Push(n) PROVE refs'[r] # NoCommit
        BY <3>1, <4>1 DEF Push, NoCommit
      <4>2. ASSUME NEW s \in Ref, NEW c \in Commit, Create(s, c) PROVE refs'[r] # NoCommit
        BY <3>1, <4>2 DEF Create, Present
      <4> QED BY <1>2, <2>1, <3>1, <4>1, <4>2 DEF Upstream, Delete, SetDefault
    <3> QED BY <3>1, <3>2 DEF Present
  <2> QED BY <2>2, <2>3, <2>4
<1>3. CASE Fetch
  <2>1. PICK c \in Fetched : meta' = [revision |-> cmd.revision, objectId |-> c]
    BY <1>3 DEF Fetch
  <2>2. /\ c \in Commit
        /\ cmd.revision.kind \in {"ref", "name"} /\ cmd.revision.arg # HEAD =>
              cmd.ref \in Present /\ IsOf(cmd.ref, cmd.revision) /\ c = refs[cmd.ref]
    BY <1>1, <1>3, <2>1, FetchedCommit DEF Fetch
  <2>3. c \in History[c]
    BY <1>1, <2>2, UpstreamSound DEF UpstreamIsSound
  <2>4. refs' = refs /\ Present' = Present /\ History' = History
    BY <1>3 DEF Fetch, upstream, Present, History, Commit
  <2> QED BY <2>1, <2>2, <2>3, <2>4 DEF ForwardInv, IsOf
<1>4. CASE UNCHANGED <<upstream, meta, rewritten>>
  <2>1. refs' = refs /\ meta' = meta /\ rewritten' = rewritten /\ Present' = Present /\ History' = History
    BY <1>4 DEF upstream, Present, History, Commit
  <2> QED BY <1>1, <2>1 DEF ForwardInv, IsOf
<1> QED BY <1>2, <1>3, <1>4 DEF Next, Subpatch, Add, Update, Begin, Resolve, ResolveFails, FetchFails, Fails, vars, upstream

-----------------------------------------------------------------------------
(* Theorems.                                                               *)

(* The types and the inductive invariant hold in every state of program    *)
(* and upstream.                                                           *)
LEMMA FetchTypesInvariant == Spec => [](TypeOK /\ FetchInv)
<1>1. Init => TypeOK /\ FetchInv
  <2> SUFFICES ASSUME Init PROVE TypeOK /\ FetchInv
    OBVIOUS
  <2>1. Len(parent) = 1 /\ parent \in Seq(Nat) /\ Commit = {1} /\ parent[1] = NoCommit
    BY DEF Init, Commit, NoCommit
  <2>2. Len(parent) <= MaxCommit /\ \A c \in Commit : parent[c] \in 0 .. c - 1
    BY <2>1, FetchAssumption DEF NoCommit
  <2>3. refs \in [Ref -> Commit \cup {NoCommit}] /\ default \in Branch
    BY <2>1 DEF Init
  <2>4. /\ NoRevision \in Revision /\ cmd = Idle /\ meta = NoMeta
        /\ seen = {} /\ kept = {} /\ rewritten = FALSE
    BY DEF Init, NoRevision, Revision
  <2>5. cmd \in [pc : {"idle", "resolve", "fetch"}, revision : Revision, ref : Ref \cup {HEAD, Every}]
    BY <2>4 DEF Idle
  <2> QED BY <2>1, <2>2, <2>3, <2>4, <2>5 DEF Idle, NoMeta, FetchInv, CommandInv, ForwardInv, TypeOK
<1>2. CommandInv /\ UNCHANGED vars => CommandInv'
  <2> SUFFICES ASSUME CommandInv, UNCHANGED vars PROVE CommandInv'
    OBVIOUS
  <2>1. Reachable' = Reachable /\ Named(cmd.revision)' = Named(cmd.revision)
    BY DEF vars, upstream, Reachable, Tips, Present, History, Commit, Named, At
  <2> QED BY <2>1 DEF CommandInv, vars
<1>3. TypeOK /\ FetchInv /\ [Next]_vars => (TypeOK /\ FetchInv)'
  BY <1>2, UpstreamStep, SubpatchStep, TypesStep, ForwardStep DEF Next, FetchInv
<1> QED BY <1>1, <1>3, PTL DEF Spec

(* Every state is well typed: only commits of the upstream project are     *)
(* named, kept and integrated, and each comes after its parent.            *)
THEOREM FetchTypes == Spec => []TypeOK
BY FetchTypesInvariant, PTL

(* The inductive invariant holds in every state of program and upstream.   *)
THEOREM FetchInvariant == Spec => []FetchInv
BY FetchTypesInvariant, PTL

(* What is integrated under a name or ref is a commit that a branch or tag *)
(* of that name had while the command ran.                                 *)
THEOREM NameMeansItsCommit == Spec => NamedWhileRunning
<1>1. ASSUME CommandInv, Fetch, cmd.revision.kind \in {"ref", "name"}
      PROVE  meta'.objectId \in seen
  <2>1. PICK c \in Fetched : meta' = [revision |-> cmd.revision, objectId |-> c]
    BY <1>1 DEF Fetch
  <2>2. cmd.pc = "fetch" /\ cmd.revision \in Revision /\ Named(cmd.revision) \subseteq seen
    BY <1>1 DEF Fetch, CommandInv
  <2>3. /\ cmd.ref # Every
        /\ cmd.revision.kind = "ref" => cmd.ref = cmd.revision.arg
        /\ cmd.revision.kind = "name" => cmd.ref \in Ref /\ cmd.ref[2] = cmd.revision.arg[2]
    BY <1>1, <2>2, RevisionKinds, RefKinds DEF CommandInv
  <2>4. c = At(cmd.ref) /\ c # NoCommit
    BY <2>1, <2>3, <1>1, RevisionKinds, <2>2 DEF Fetched, NoRevision
  <2>5. c \in Named(cmd.revision)
    BY <1>1, <2>3, <2>4, RefKinds DEF Named, At, Present
  <2> QED BY <2>1, <2>2, <2>5
<1>2. FetchInv => CommandInv
  BY DEF FetchInv
<1> QED BY <1>1, <1>2, FetchInvariant, PTL DEF Spec, NamedWhileRunning

(* A commit id is integrated as given, and when whole histories are        *)
(* fetched, one that stays reachable during the command is found.          *)
THEOREM IdMeansItself == ~Shallow => (Spec => IdFound)
<1> SUFFICES ASSUME ~Shallow PROVE Spec => IdFound
  OBVIOUS
<1>1. ASSUME CommandInv, [Next]_vars, cmd.revision.kind = "id", cmd.pc = "fetch", cmd'.pc = "idle"
      PROVE  \/ meta'.objectId = cmd.revision.arg[2] /\ meta'.revision = cmd.revision
             \/ meta' = meta /\ cmd.revision.arg[2] \notin kept
  <2>1. cmd.ref = Every /\ cmd.revision # NoRevision
    BY <1>1 DEF CommandInv, NoRevision
  <2>2. Fetched = {cmd.revision.arg[2]} \cap Reachable
    BY <1>1, <2>1 DEF Fetched, Objects
  <2>3. Fetch \/ FetchFails
    <3>1. ~Upstream /\ cmd' # cmd
      BY <1>1 DEF Upstream, Push, Create, Delete, SetDefault, Observe
    <3>2. \A rev : ~Add(rev) /\ ~Update(rev)
      BY <1>1 DEF Add, Update, Begin
    <3> QED BY <1>1, <3>1, <3>2 DEF Next, Subpatch, Resolve, ResolveFails, vars
  <2>4. CASE Fetch
    BY <2>2, <2>4 DEF Fetch
  <2>5. CASE FetchFails
    BY <1>1, <2>2, <2>5 DEF FetchFails, Fails, CommandInv
  <2> QED BY <2>3, <2>4, <2>5
<1>2. FetchInv => CommandInv
  BY DEF FetchInv
<1> QED BY <1>1, <1>2, FetchInvariant, PTL DEF Spec, IdFound

(* While the upstream project deletes nothing, an "update" to the revision *)
(* of the last integration has all of its commits, unless a tag now goes   *)
(* by the name of the branch.                                              *)
THEOREM UpdateNeverGoesBack == Spec => UpdateGoesForward
<1>1. ASSUME TypeOK, FetchInv, Fetch, meta # NoMeta, meta.revision = cmd.revision,
             cmd.revision.kind \in {"ref", "name"}, cmd.revision.arg # HEAD, ~rewritten
      PROVE  \/ meta.objectId \in History[meta'.objectId]
             \/ cmd.revision.kind = "name" /\ <<"tags", cmd.revision.arg[2]>> \in Present
  <2>1. PICK c \in Fetched : meta' = [revision |-> cmd.revision, objectId |-> c]
    BY <1>1 DEF Fetch
  <2>2. cmd.ref \in Present /\ IsOf(cmd.ref, cmd.revision) /\ c = refs[cmd.ref]
    BY <1>1, <2>1, FetchedCommit DEF Fetch, FetchInv
  <2>3. PICK r \in Present : IsOf(r, cmd.revision) /\ meta.objectId \in History[refs[r]]
    BY <1>1 DEF FetchInv, ForwardInv
  <2>4. CASE r = cmd.ref
    BY <2>1, <2>2, <2>3, <2>4
  <2>5. CASE r # cmd.ref
    <3>1. cmd.revision.kind = "name" /\ r[2] = cmd.revision.arg[2] /\ cmd.ref[2] = cmd.revision.arg[2]
      BY <1>1, <2>2, <2>3, <2>5 DEF IsOf
    <3>2. r = <<"tags", cmd.revision.arg[2]>> \/ cmd.ref = <<"tags", cmd.revision.arg[2]>>
      BY <2>2, <2>3, <2>5, <3>1 DEF Present, Ref
    <3> QED BY <2>2, <2>3, <3>1, <3>2
  <2> QED BY <2>4, <2>5
<1> QED BY <1>1, FetchTypesInvariant, PTL DEF Spec, UpdateGoesForward
=============================================================================
