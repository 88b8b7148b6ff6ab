------------------------------- MODULE Fetch -------------------------------
(***************************************************************************)
(* Which commit of the upstream repository "add" and "update" integrate.   *)
(*                                                                         *)
(* The revision on the command line or in the metadata is looked up with   *)
(* "git ls-remote", and what it was found to be is then fetched by a       *)
(* second git process.  The upstream project goes on in between: commits   *)
(* are pushed, branches and tags come and go, and the default branch, its  *)
(* HEAD, is switched.                                                      *)
(***************************************************************************)
EXTENDS Integers, Sequences

CONSTANTS
  Branch,     \* names of branches, in their sort order
  Tag,        \* names of tags, in their sort order
  MaxCommit,  \* bound on the commits of the upstream project
  Shallow     \* fetch with "--depth 1"

ASSUME FetchAssumption == Branch \subseteq Nat /\ Tag \subseteq Nat /\ MaxCommit \in Nat \ {0} /\ Shallow \in BOOLEAN

VARIABLES
  parent,     \* the parent of each commit, in the order of their creation
  refs,       \* the commit of each branch and tag
  default,    \* the branch HEAD names
  cmd,        \* the command that runs
  meta,       \* revision and objectId in the subproject's metadata
  seen,       \* history: commits the revision named while the command ran
  kept,       \* history: commits that were reachable all the while
  rewritten   \* history: a ref was deleted since the last integration

vars == <<parent, refs, default, cmd, meta, seen, kept, rewritten>>
upstream == <<parent, refs, default>>

NoCommit == 0
Commit == 1 .. Len(parent)
Ref == ({"heads"} \X Branch) \cup ({"tags"} \X Tag)
HEAD == <<"HEAD", NoCommit>>
Every == <<"*", NoCommit>>   \* the refspec "*:*"

\* A revision: none given, "HEAD", a name, a full ref name, or a commit id.
Revision ==
  {[kind |-> "none", arg |-> Every], [kind |-> "ref", arg |-> HEAD]}
  \cup [kind : {"ref"}, arg : Ref]
  \cup [kind : {"name"}, arg : {"name"} \X (Branch \cup Tag)]
  \cup [kind : {"id"}, arg : {"id"} \X (1 .. MaxCommit)]

NoRevision == [kind |-> "none", arg |-> Every]
Idle == [pc |-> "idle", revision |-> NoRevision, ref |-> Every]
NoMeta == [revision |-> NoRevision, objectId |-> NoCommit]

TypeOK ==
  /\ parent \in Seq(Nat) /\ Len(parent) <= MaxCommit /\ \A c \in Commit : parent[c] \in 0 .. c - 1
  /\ refs \in [Ref -> Commit \cup {NoCommit}] /\ default \in Branch
  /\ cmd \in [pc : {"idle", "resolve", "fetch"}, revision : Revision, ref : Ref \cup {HEAD, Every}]
  /\ meta \in [revision : Revision, objectId : Commit] \cup {NoMeta}
  /\ seen \subseteq Commit /\ kept \subseteq Commit /\ rewritten \in BOOLEAN

Init ==
  /\ parent = <<NoCommit>>
  /\ \E n \in Branch :
       /\ refs = [r \in Ref |-> IF r = <<"heads", n>> THEN 1 ELSE NoCommit]
       /\ default = n
  /\ cmd = Idle /\ meta = NoMeta
  /\ seen = {} /\ kept = {} /\ rewritten = FALSE

-----------------------------------------------------------------------------
(* The upstream repository.                                                *)
History ==
  [c \in Commit |-> LET past[d \in 0 .. c] ==
                          IF d = NoCommit THEN {} ELSE {d} \cup past[parent[d]]
                    IN past[c]]

Present == {r \in Ref : refs[r] # NoCommit}
Tips == {refs[r] : r \in Present}
Reachable == UNION {History[c] : c \in Tips}

At(ref) == IF ref = HEAD THEN refs[<<"heads", default>>] ELSE refs[ref]

\* The commits a revision stands for, as the documentation has it.
Named(rev) ==
  CASE rev.kind = "none" -> {At(HEAD)} \ {NoCommit}
    [] rev.kind = "ref"  -> {At(rev.arg)} \ {NoCommit}
    [] rev.kind = "name" -> {refs[r] : r \in {s \in Present : s[2] = rev.arg[2]}}
    [] rev.kind = "id"   -> {rev.arg[2]} \cap Reachable

Observe ==
  /\ UNCHANGED <<cmd, meta>>
  /\ seen' = IF cmd.pc = "idle" THEN {} ELSE seen \cup Named(cmd.revision)'
  /\ kept' = IF cmd.pc = "idle" THEN {} ELSE kept \cap Reachable'

Push(n) ==
  /\ <<"heads", n>> \in Present /\ Len(parent) < MaxCommit
  /\ parent' = Append(parent, refs[<<"heads", n>>])
  /\ refs' = [refs EXCEPT ![<<"heads", n>>] = Len(parent) + 1]
  /\ UNCHANGED <<default, rewritten>> /\ Observe

Create(r, c) ==
  /\ r \notin Present /\ c \in Reachable
  /\ refs' = [refs EXCEPT ![r] = c]
  /\ UNCHANGED <<parent, default, rewritten>> /\ Observe

Delete(r) ==
  /\ r \in Present
  /\ refs' = [refs EXCEPT ![r] = NoCommit]
  /\ rewritten' = TRUE
  /\ UNCHANGED <<parent, default>> /\ Observe

SetDefault(n) ==
  /\ default' = n
  /\ UNCHANGED <<parent, refs, rewritten>> /\ Observe

-----------------------------------------------------------------------------
(* The command: git_resolve_to_clone_config and CacheHelperGit.fetch.      *)
Begin(rev) ==
  /\ cmd.pc = "idle"
  /\ cmd' = [pc |-> "resolve", revision |-> rev, ref |-> Every]
  /\ seen' = Named(rev) /\ kept' = Reachable
  /\ UNCHANGED <<upstream, meta, rewritten>>

Add(rev) == meta = NoMeta /\ Begin(rev)

\* "update" without a revision takes the one in the metadata.
Update(rev) ==
  /\ meta # NoMeta
  /\ Begin(IF rev = NoRevision THEN meta.revision ELSE rev)

End == cmd' = Idle /\ seen' = {} /\ kept' = {}

Fails == End /\ UNCHANGED <<upstream, meta, rewritten>>

\* Mutation: any tag is taken, whatever its name.
GuessAnyTag(rev) ==
  CASE rev.kind = "ref"  -> {r \in {rev.arg} : At(r) # NoCommit}
    [] rev.kind = "name" -> {r \in Present : r[1] = "tags" \/ r[2] = rev.arg[2]}

\* The ref that "git ls-remote" lists for the revision: a tag before a branch.
GuessRef(rev) ==
  CASE rev.kind = "ref"  -> {r \in {rev.arg} : At(r) # NoCommit}
    [] rev.kind = "name" ->
         LET tag == <<"tags", rev.arg[2]>>
         IN IF tag \in Present THEN {tag} ELSE {<<"heads", rev.arg[2]>>} \cap Present

Resolve ==
  /\ cmd.pc = "resolve"
  /\ \E ref \in IF cmd.revision.kind \in {"none", "id"} THEN {Every} ELSE GuessRef(cmd.revision) :
       cmd' = [cmd EXCEPT !.pc = "fetch", !.ref = ref]
  /\ UNCHANGED <<upstream, meta, seen, kept, rewritten>>

ResolveFails ==
  /\ cmd.pc = "resolve" /\ cmd.revision.kind \in {"ref", "name"} /\ GuessRef(cmd.revision) = {}
  /\ Fails

Before(r, s) == IF r[1] = s[1] THEN r[2] <= s[2] ELSE r[1] = "heads"

\* The first line of FETCH_HEAD, when all refs are fetched.
First == {refs[r] : r \in {s \in Present : \A u \in Present : Before(s, u)}}

Objects == IF Shallow THEN Tips ELSE Reachable

\* Mutations: the id asked for is only looked up; every fetch is "*:*"; the
\* exit code of git is not checked.
FetchedHead ==
  IF cmd.ref # Every THEN {At(cmd.ref)} \ {NoCommit}
  ELSE IF cmd.revision.kind = "id" /\ cmd.revision.arg[2] \notin Objects THEN {} ELSE First
FetchedFirst ==
  IF cmd.revision.kind = "id" THEN {cmd.revision.arg[2]} \cap Objects ELSE First
FetchedUnchecked ==
  IF cmd.ref # Every THEN {At(cmd.ref)} ELSE First

\* The object id of a successful fetch, if there is one.
Fetched ==
  CASE cmd.ref # Every             -> {At(cmd.ref)} \ {NoCommit}
    [] cmd.revision.kind = "id"    -> {cmd.revision.arg[2]} \cap Objects
    [] cmd.revision = NoRevision   -> First

Fetch ==
  /\ cmd.pc = "fetch"
  /\ \E c \in Fetched : meta' = [revision |-> cmd.revision, objectId |-> c]
  /\ rewritten' = FALSE
  /\ End /\ UNCHANGED upstream

FetchFails == cmd.pc = "fetch" /\ Fetched = {} /\ Fails

-----------------------------------------------------------------------------
Upstream ==
  \/ \E n \in Branch : Push(n)
  \/ \E r \in Ref, c \in Commit : Create(r, c)
  \/ \E r \in Ref : Delete(r)
  \/ \E n \in Branch : SetDefault(n)

Subpatch ==
  \/ \E rev \in Revision : Add(rev)
  \/ \E rev \in Revision : Update(rev)
  \/ Resolve \/ ResolveFails \/ Fetch \/ FetchFails

Next == Upstream \/ Subpatch

Spec == Init /\ [][Next]_vars

-----------------------------------------------------------------------------
\* What "git ls-remote" found is a ref of the revision, and the history missed
\* none of the commits it named, nor kept one that became unreachable.
CommandInv ==
  /\ cmd \in [pc : {"idle", "resolve", "fetch"}, revision : Revision, ref : Ref \cup {HEAD, Every}]
  /\ meta.revision \in Revision
  /\ cmd.pc = "fetch" =>
       /\ cmd.revision.kind \in {"none", "id"} => cmd.ref = Every
       /\ cmd.revision.kind = "ref" => cmd.ref = cmd.revision.arg
       /\ cmd.revision.kind = "name" => cmd.ref \in Ref /\ cmd.ref[2] = cmd.revision.arg[2]
  /\ cmd.pc # "idle" => Named(cmd.revision) \subseteq seen
  /\ kept \subseteq Reachable

\* A ref the revision may stand for.
IsOf(r, rev) == IF rev.kind = "ref" THEN r = rev.arg ELSE r[2] = rev.arg[2]

\* As long as nothing is deleted, a ref of the revision that was integrated has
\* the commit that was.
ForwardInv ==
  meta # NoMeta /\ meta.revision.kind \in {"ref", "name"} /\ meta.revision.arg # HEAD /\ ~rewritten =>
    \E r \in Present : IsOf(r, meta.revision) /\ meta.objectId \in History[refs[r]]

(* The inductive invariant of the fetch, and of what comes after it.       *)
FetchInv == CommandInv /\ ForwardInv

(* A commit that is integrated under a name is one that a branch or tag of *)
(* that name had while the command ran.                                    *)
NamedWhileRunning ==
  [][Fetch /\ cmd.revision.kind \in {"ref", "name"} => meta'.objectId \in seen]_vars

(* A commit id is integrated as it is given, and an id that some branch or *)
(* tag reaches during the whole command is found.                          *)
IdFound ==
  [][cmd.revision.kind = "id" /\ cmd.pc = "fetch" /\ cmd'.pc = "idle" =>
       \/ meta'.objectId = cmd.revision.arg[2] /\ meta'.revision = cmd.revision
       \/ meta' = meta /\ cmd.revision.arg[2] \notin kept]_vars

(* While the upstream project deletes nothing, "update" never takes a      *)
(* subproject back behind the commit it has, unless a tag now goes by the  *)
(* name that a branch had: tags are preferred.                             *)
UpdateGoesForward ==
  [][Fetch /\ meta # NoMeta /\ meta.revision = cmd.revision /\ cmd.revision.kind \in {"ref", "name"}
          /\ cmd.revision.arg # HEAD /\ ~rewritten =>
       \/ meta.objectId \in History[meta'.objectId]
       \/ cmd.revision.kind = "name" /\ <<"tags", cmd.revision.arg[2]>> \in Present]_vars

(* "If no --revision argument is given, subpatch uses the remote default   *)
(* branch": when there is one, the commit is one it had meanwhile.         *)
DefaultBranchUsed ==
  [][Fetch /\ cmd.revision = NoRevision /\ At(HEAD) # NoCommit => meta'.objectId \in seen]_vars
=============================================================================
