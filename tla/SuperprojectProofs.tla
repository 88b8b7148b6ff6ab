-------------------------- MODULE SuperprojectProofs --------------------------
(***************************************************************************)
(* Proofs about Superproject: whatever directories, repositories,          *)
(* filesystems, arguments and urls there are, the paths are taken for what *)
(* the shell means, the list of a superproject names subprojects of it,    *)
(* and what is listed in one directory is found in another.                *)
(*                                                                         *)
(* The lemmas about paths are those of PathProofs.  The inductive          *)
(* invariant is TypeOK /\ SuperInv /\ EntriesAreSubprojects; the           *)
(* properties of states and of steps follow from it.                       *)
(***************************************************************************)
EXTENDS PathProofs

-----------------------------------------------------------------------------
(* The search, in a state.                                                 *)

(* The superproject that is found is a repository above, and the nearest   *)
(* one; no .subpatch is nearer.                                            *)
LEMMA ToplevelFacts ==
  ASSUME TypeOK, NEW d \in Place, Toplevel(d) # NoPlace
  PROVE  LET r == Toplevel(d)
         IN /\ r = Repository(d) /\ Configuration(d) \in {NoPlace, r}
            /\ r \in repos /\ r \in Searched[d] /\ r \in Place
            /\ r \in Seq(Name) /\ d \in Seq(Name) /\ IsPrefix(r, d)
            /\ SuperToCwd(d) \in Seq(Nat) /\ SuperToCwd(d) = Rel(d, r)
            /\ SuperToCwd(d) = <<>> => d = r
<1> DEFINE r == Toplevel(d)
<1>1. r = Repository(d) /\ Configuration(d) \in {NoPlace, r}
  BY DEF Toplevel
<1> HIDE DEF r
<1>2. r \in repos /\ r \in Searched[d]
  BY <1>1, NearestFacts DEF Repository, r
<1>3. r \in Place /\ r \in Seq(Name) /\ d \in Seq(Name) /\ IsPrefix(r, d)
  BY <1>2, SearchedFacts
<1>4. SuperToCwd(d) = SubSeq(d, Len(r) + 1, Len(d))
  BY DEF SuperToCwd, r
<1>5. SuperToCwd(d) \in Seq(Nat) /\ SuperToCwd(d) = Rel(d, r) /\ (SuperToCwd(d) = <<>> => d = r)
  <2>1. IsPrefix(r, d) /\ SubSeq(d, Len(r) + 1, Len(d)) = Rel(d, r)
    BY <1>3, RelBelow
  <2> QED BY <1>3, <1>4, <2>1, PathFromTop
<1> QED BY <1>1, <1>2, <1>3, <1>5 DEF r

(* The path in .subpatch is a path.                                        *)
LEMMA SuperToSubType ==
  ASSUME TypeOK, NEW d \in Place, NEW arg \in Seq(Nat), Toplevel(d) # NoPlace
  PROVE  /\ Resolve(d, arg) \in Seq(Name) /\ CwdToSub(d, arg) \in Seq(Nat) /\ SuperToSub(d, arg) \in Seq(Nat)
         /\ CwdToSub(d, arg) = Rel(Resolve(d, arg), d)
<1>1. d \in Seq(Name) /\ SuperToCwd(d) \in Seq(Nat)
  BY ToplevelFacts
<1>2. Resolve(d, arg) \in Seq(Name) /\ CwdToSub(d, arg) \in Seq(Nat) /\ CwdToSub(d, arg) = Rel(Resolve(d, arg), d)
  BY <1>1, ResolveType, RelFacts DEF CwdToSub
<1>3. SuperToCwd(d) \o CwdToSub(d, arg) \in Seq(Nat)
  BY <1>1, <1>2, ConcatProperties
<1>4. Rel(Resolve(d, SuperToCwd(d) \o CwdToSub(d, arg)), d) \in Seq(Nat)
  BY <1>1, <1>3, ResolveType, RelFacts
<1> QED BY <1>2, <1>4 DEF SuperToSub

(* Inside the superproject it is the names from the toplevel directory.    *)
LEMMA InsideFacts ==
  ASSUME TypeOK, NEW d \in Place, NEW arg \in Seq(Nat), Toplevel(d) # NoPlace, IsInside(d, arg)
  PROVE  LET r == Toplevel(d)
             t == Resolve(d, arg)
         IN /\ r \in Seq(Name) /\ t \in Seq(Name) /\ IsPrefix(r, t)
            /\ SuperToSub(d, arg) = Rel(t, r) /\ StatusPath(d, arg) = Rel(t, r)
            /\ Rel(t, r) \in Seq(Name) /\ r \o Rel(t, r) = t
<1> DEFINE r == Toplevel(d)
           t == Resolve(d, arg)
           s == SubSeq(d, Len(r) + 1, Len(d))
<1>1. t \in Seq(Name) /\ CwdToSub(d, arg) = Rel(t, d)
  BY SuperToSubType
<1>2. r \in Seq(Name) /\ d \in Seq(Name) /\ IsPrefix(r, d)
  BY ToplevelFacts
<1>3. IsPrefix(r, t)
  BY DEF IsInside
<1>4. SuperToCwd(d) = s
  BY DEF SuperToCwd
<1> HIDE DEF r, t, s
<1>5. /\ Rel(Resolve(d, s \o Rel(t, d)), d) = Rel(t, r)
      /\ Normal(s \o Rel(t, d)) = Rel(t, r)
      /\ s = <<>> => d = r
  BY <1>1, <1>2, <1>3, PathFromTop DEF s
<1>6. SuperToSub(d, arg) = Rel(t, r) /\ StatusPath(d, arg) = Rel(t, r)
  BY <1>1, <1>4, <1>5 DEF SuperToSub, StatusPath
<1>7. Rel(t, r) \in Seq(Name) /\ r \o Rel(t, r) = t
  BY <1>1, <1>2, <1>3, RelBelow
<1> QED BY <1>1, <1>2, <1>3, <1>6, <1>7 DEF r, t

-----------------------------------------------------------------------------
(* The list in .subpatch.                                                  *)

\* w is the list with the entry put between the others.
Inserted(w, list, entry) ==
  \E k \in 1 .. Len(w) :
    /\ w[k] = entry
    /\ \A i \in 1 .. Len(w) : i < k => i \in 1 .. Len(list) /\ w[i] = list[i]
    /\ \A i \in 1 .. Len(w) : i > k => i - 1 \in 1 .. Len(list) /\ w[i] = list[i - 1]

(* A new path is put between the others, which keep their order.           *)
LEMMA WithEntryFacts ==
  ASSUME NEW S, NEW list \in Seq(S), NEW entry \in S
  PROVE  LET w == WithEntry(list, entry)
         IN /\ w \in Seq(S) /\ Len(w) = Len(list) + 1
            /\ Inserted(w, list, entry)
<1> DEFINE w == WithEntry(list, entry)
<1>1. CASE list = <<>>
  <2>1. w = <<entry>> /\ Len(list) = 0
    BY <1>1 DEF WithEntry
  <2>2. w \in Seq(S) /\ Len(w) = 1 /\ w[1] = entry
    BY <2>1
  <2>3. 1 \in 1 .. Len(w) /\ \A i \in 1 .. Len(w) : i = 1
    BY <2>2
  <2> HIDE DEF w
  <2>4. Inserted(w, list, entry)
    BY <2>2, <2>3 DEF Inserted
  <2> QED BY <2>1, <2>2, <2>4 DEF w
<1>2. CASE list # <<>>
  <2> DEFINE k == IF Before(list[1], entry) THEN 2 ELSE 1
             a == SubSeq(list, 1, k - 1)
             b == SubSeq(list, k, Len(list))
             c == a \o <<entry>>
  <2>1. w = c \o b
    BY <1>2 DEF WithEntry, InsertAt
  <2>2. Len(list) \in Nat \ {0} /\ k \in 1 .. 2
    BY <1>2, EmptySeq
  <2> HIDE DEF k
  <2>3. k - 1 \in 0 .. Len(list) /\ (k - 1) + 1 = k
    BY <2>2
  <2>4. a \in Seq(S) /\ Len(a) = k - 1 /\ \A i \in 1 .. k - 1 : a[i] = list[i]
    BY <2>3, FirstFacts
  <2>5. b \in Seq(S) /\ Len(b) = Len(list) - (k - 1) /\ \A i \in 1 .. Len(list) - (k - 1) : b[i] = list[(k - 1) + i]
    <3> DEFINE l == k - 1
    <3>1. l \in 0 .. Len(list) /\ b = SubSeq(list, l + 1, Len(list))
      BY <2>3
    <3> HIDE DEF l, b
    <3>2. b \in Seq(S) /\ Len(b) = Len(list) - l /\ \A i \in 1 .. Len(list) - l : b[i] = list[l + i]
      BY <3>1, RestFacts
    <3> QED BY <3>2 DEF l
  <2> HIDE DEF a, b
  <2>6. <<entry>> \in Seq(S) /\ Len(<<entry>>) = 1 /\ <<entry>>[1] = entry
    OBVIOUS
  <2> DEFINE e == <<entry>>
  <2>7. e \in Seq(S) /\ Len(e) = 1 /\ e[1] = entry
    BY <2>6
  <2> HIDE DEF e
  <2>8. c \in Seq(S) /\ Len(c) = Len(a) + Len(e) /\ \A i \in 1 .. Len(a) + Len(e) : c[i] = IF i <= Len(a) THEN a[i] ELSE e[i - Len(a)]
    BY <2>4, <2>7, ConcatProperties DEF e
  <2> HIDE DEF c
  <2>9. w \in Seq(S) /\ Len(w) = Len(c) + Len(b) /\ \A i \in 1 .. Len(c) + Len(b) : w[i] = IF i <= Len(c) THEN c[i] ELSE b[i - Len(c)]
    BY <2>1, <2>5, <2>8, ConcatProperties
  <2> HIDE DEF w
  <2>10. Len(c) = k /\ Len(w) = Len(list) + 1 /\ k \in 1 .. Len(w)
    BY <2>2, <2>4, <2>5, <2>7, <2>8, <2>9
  <2>11. w[k] = entry
    <3>1. k \in 1 .. Len(a) + Len(e) /\ ~(k <= Len(a)) /\ k - Len(a) = 1 /\ k \in 1 .. Len(c) + Len(b) /\ k <= Len(c)
      BY <2>2, <2>4, <2>5, <2>7, <2>8, <2>10
    <3> QED BY <2>7, <2>8, <2>9, <3>1
  <2>12. ASSUME NEW i \in 1 .. Len(w), i < k PROVE i \in 1 .. Len(list) /\ w[i] = list[i]
    <3>1. /\ i \in 1 .. Len(a) + Len(e) /\ i <= Len(a) /\ i \in 1 .. Len(c) + Len(b) /\ i <= Len(c)
          /\ i \in 1 .. k - 1 /\ i \in 1 .. Len(list)
      BY <2>2, <2>4, <2>5, <2>7, <2>8, <2>10, <2>12
    <3> QED BY <2>4, <2>8, <2>9, <3>1
  <2>13. ASSUME NEW i \in 1 .. Len(w), i > k PROVE i - 1 \in 1 .. Len(list) /\ w[i] = list[i - 1]
    <3>1. /\ i \in 1 .. Len(c) + Len(b) /\ ~(i <= Len(c)) /\ i - Len(c) \in 1 .. Len(list) - (k - 1)
          /\ (k - 1) + (i - Len(c)) = i - 1 /\ i - 1 \in 1 .. Len(list)
      BY <2>2, <2>5, <2>9, <2>10, <2>13
    <3>2. w[i] = b[i - Len(c)] /\ b[i - Len(c)] = list[(k - 1) + (i - Len(c))]
      BY <2>5, <2>9, <3>1
    <3> QED BY <3>1, <3>2
  <2>14. Inserted(w, list, entry)
    BY <2>10, <2>11, <2>12, <2>13 DEF Inserted
  <2> QED BY <2>9, <2>10, <2>14 DEF w
<1> QED BY <1>1, <1>2

\* w has the elements of the list and the entry.
HasEntry(w, list, entry) ==
  /\ w # <<>> /\ ToSet(w) = ToSet(list) \cup {entry}
  /\ \A i \in DOMAIN w : w[i] = entry \/ \E j \in DOMAIN list : w[i] = list[j]
  /\ \E i \in DOMAIN w : w[i] = entry
  /\ \A j \in DOMAIN list : \E i \in DOMAIN w : w[i] = list[j]
  /\ IsInjective(list) /\ (\A j \in DOMAIN list : list[j] # entry) => IsInjective(w)

(* So the list has the old paths and the new one, and repeats none unless  *)
(* it had the new one or repeated one before.                              *)
LEMMA WithEntryHas ==
  ASSUME NEW S, NEW list \in Seq(S), NEW entry \in S
  PROVE  WithEntry(list, entry) \in Seq(S) /\ HasEntry(WithEntry(list, entry), list, entry)
<1> DEFINE w == WithEntry(list, entry)
<1>1. w \in Seq(S) /\ Len(w) = Len(list) + 1 /\ Len(list) \in Nat /\ Inserted(w, list, entry)
  BY WithEntryFacts, LenProperties
<1> HIDE DEF w
<1>2. PICK k \in 1 .. Len(w) :
        /\ w[k] = entry
        /\ \A i \in 1 .. Len(w) : i < k => i \in 1 .. Len(list) /\ w[i] = list[i]
        /\ \A i \in 1 .. Len(w) : i > k => i - 1 \in 1 .. Len(list) /\ w[i] = list[i - 1]
  BY <1>1 DEF Inserted
<1>3. DOMAIN w = 1 .. Len(w) /\ DOMAIN list = 1 .. Len(list)
  BY <1>1, LenProperties
<1>4. \A i \in DOMAIN w : w[i] = entry \/ \E j \in DOMAIN list : w[i] = list[j]
  <2> TAKE i \in DOMAIN w
  <2>1. i = k \/ i < k \/ i > k
    BY <1>1, <1>3
  <2> QED BY <1>2, <1>3, <2>1
<1>5. \A j \in DOMAIN list : \E i \in DOMAIN w : w[i] = list[j]
  <2> TAKE j \in DOMAIN list
  <2>1. CASE j < k
    <3>1. j \in 1 .. Len(w)
      BY <1>1, <1>3
    <3> QED BY <1>2, <1>3, <2>1, <3>1
  <2>2. CASE ~(j < k)
    <3>1. j + 1 \in 1 .. Len(w) /\ j + 1 > k /\ (j + 1) - 1 = j
      BY <1>1, <1>3, <2>2
    <3> QED BY <1>2, <1>3, <3>1
  <2> QED BY <2>1, <2>2
<1>6. ToSet(w) = ToSet(list) \cup {entry}
  BY <1>2, <1>3, <1>4, <1>5 DEF ToSet
<1>7. ASSUME IsInjective(list), \A j \in DOMAIN list : list[j] # entry PROVE IsInjective(w)
  <2> SUFFICES ASSUME NEW i \in DOMAIN w, NEW j \in DOMAIN w, w[i] = w[j] PROVE i = j
    BY DEF IsInjective
  <2>1. i \in Nat /\ j \in Nat /\ k \in Nat /\ i \in 1 .. Len(w) /\ j \in 1 .. Len(w)
    BY <1>1, <1>3
  <2>2. i = k <=> j = k
    BY <1>2, <1>3, <1>7, <2>1
  <2>3. ASSUME i # k, j # k PROVE i = j
    <3> DEFINE old(n) == IF n < k THEN n ELSE n - 1
    <3>1. \A n \in 1 .. Len(w) : n # k => old(n) \in DOMAIN list /\ w[n] = list[old(n)]
      BY <1>2, <1>3, <2>1
    <3>2. old(i) = old(j)
      BY <1>7, <2>1, <2>3, <3>1 DEF IsInjective
    <3> QED BY <2>1, <2>3, <3>2
  <2> QED BY <2>2, <2>3
<1>8. w # <<>> /\ \E i \in DOMAIN w : w[i] = entry
  BY <1>2, <1>3
<1> QED BY <1>1, <1>4, <1>5, <1>6, <1>7, <1>8 DEF w, HasEntry

-----------------------------------------------------------------------------
(* The steps.                                                              *)

\* What "init" and "add" have in common, when they get to make the subproject.
Inits(d, arg, url) ==
  /\ Toplevel(d) # NoPlace /\ MayInit(d, arg)
  /\ DoInit(d, arg, ListOrNew(d), url)
  /\ repos' = repos
  /\ \/ url = Empty /\ from' = from
     \/ /\ url \in Url \cup {Remote} /\ MayAdd(d, url) /\ IsInside(d, arg)
        /\ from' = [from EXCEPT ![Resolve(d, arg)] = FetchedAt(d, arg, url)]

(* A step configures a superproject, makes a subproject or updates one.    *)
LEMMA StepIs ==
  ASSUME [Next]_vars
  PROVE  \/ UNCHANGED vars
         \/ \E d \in dirs :
              \/ Configure(d)
              \/ \E arg \in Arg, url \in Url \cup {Remote, Empty} :
                   InReach(d, arg) /\ (Inits(d, arg, url) \/ Update(d, arg, url))
<1> SUFFICES ASSUME NEW d \in dirs,
                    \/ Configure(d)
                    \/ \E arg \in Arg :
                         /\ InReach(d, arg)
                         /\ \/ InitSub(d, arg)
                            \/ \E url \in Url \cup {Remote} :
                                 AddRefused(d, arg, url) \/ AddFails(d, arg, url) \/ Add(d, arg, url)
                            \/ \E url \in Url \cup {Remote, Empty} : Update(d, arg, url)
             PROVE  \/ Configure(d)
                    \/ \E arg \in Arg, url \in Url \cup {Remote, Empty} :
                         InReach(d, arg) /\ (Inits(d, arg, url) \/ Update(d, arg, url))
  BY DEF Next
<1>1. ASSUME NEW arg \in Arg, InitSub(d, arg) PROVE Inits(d, arg, Empty)
  BY <1>1 DEF InitSub, Inits, ListOrNew, IsConfigured
<1>2. ASSUME NEW arg \in Arg, NEW url \in Url \cup {Remote}, AddRefused(d, arg, url) PROVE Configure(d)
  BY <1>2 DEF AddRefused, MayAdd, Configure
<1>3. ASSUME NEW arg \in Arg, NEW url \in Url \cup {Remote}, AddFails(d, arg, url) PROVE Inits(d, arg, Empty)
  BY <1>3 DEF AddFails, MayAdd, Inits
<1>4. ASSUME NEW arg \in Arg, NEW url \in Url \cup {Remote}, Add(d, arg, url) PROVE Inits(d, arg, url)
  BY <1>4 DEF Add, MayAdd, Inits
<1> QED BY <1>1, <1>2, <1>3, <1>4

(* What a target is before it is made, and what is written for it.         *)
LEMMA InitsFacts ==
  ASSUME TypeOK, DirsInv, NEW d \in dirs, NEW arg \in Arg, NEW url \in Url \cup {Remote, Empty},
         InReach(d, arg), Inits(d, arg, url)
  PROVE  LET r == Toplevel(d)
             t == Resolve(d, arg)
             list == ListOrNew(d)
             entry == SuperToSub(d, arg)
         IN /\ d \in Place /\ arg \in Seq(Nat) /\ r \in Place /\ t \in Place /\ t \notin dirs
            /\ meta[t] = NoFile /\ from[t] = NoPlace /\ \A s \in repos : ~IsPrefix(t, s)
            /\ list \in Seq(Seq(Nat)) /\ entry \in Seq(Nat) /\ entry # <<>>
            /\ conf[r] = NoFile => list = <<>>
            /\ conf[r] # NoFile => list = conf[r]
            /\ dirs' = dirs \cup Prefixes(t)
            /\ meta'[t] = (IF IsInside(d, arg) THEN url ELSE Stray)
            /\ \A q \in Place \ {t} : meta'[q] = meta[q]
            /\ conf'[r] = (IF IsInside(d, arg) THEN WithEntry(list, entry) ELSE list)
            /\ \A q \in Place \ {r} : conf'[q] = conf[q]
            /\ \A q \in Place \ {t} : from'[q] = from[q]
<1> DEFINE r == Toplevel(d)
           t == Resolve(d, arg)
           list == ListOrNew(d)
           entry == SuperToSub(d, arg)
<1>1. d \in Place /\ arg \in Seq(Nat) /\ r # NoPlace
  BY PlaceAssumption DEF TypeOK, Inits
<1>2. r \in Place /\ entry \in Seq(Nat)
  BY <1>1, ToplevelFacts, SuperToSubType
<1>3. t \in Place /\ t \notin dirs /\ entry # <<>>
  BY DEF InReach, Inits, MayInit
<1>4. meta[t] = NoFile /\ from[t] = NoPlace
  BY <1>3, SentinelAssumption DEF DirsInv
<1>5. list \in Seq(Seq(Nat)) /\ (conf[r] = NoFile => list = <<>>) /\ (conf[r] # NoFile => list = conf[r])
  BY <1>1, <1>2 DEF ListOrNew, IsConfigured, TypeOK
<1>6. ASSUME NEW s \in repos, IsPrefix(t, s) PROVE FALSE
  <2>1. s \in Seq(Name) /\ t \in Seq(Name) /\ Prefixes(s) \subseteq dirs
    BY <1>3, PlaceAssumption DEF DirsInv, TypeOK, Name
  <2>2. t \in Prefixes(s)
    BY <1>6, <2>1, PrefixesFacts
  <2> QED BY <1>3, <2>1, <2>2
<1>7. DoInit(d, arg, list, url)
  BY DEF Inits
<1>8. /\ dirs' = dirs \cup Prefixes(t)
      /\ meta' = [meta EXCEPT ![t] = IF IsInside(d, arg) THEN url ELSE Stray]
      /\ conf' = [conf EXCEPT ![r] = IF IsInside(d, arg) THEN WithEntry(list, entry) ELSE list]
  BY <1>7 DEF DoInit
<1>9. from' = from \/ from' = [from EXCEPT ![t] = FetchedAt(d, arg, url)]
  BY DEF Inits
<1> HIDE DEF r, t, list, entry
<1>10. /\ meta'[t] = (IF IsInside(d, arg) THEN url ELSE Stray)
       /\ \A q \in Place \ {t} : meta'[q] = meta[q]
       /\ conf'[r] = (IF IsInside(d, arg) THEN WithEntry(list, entry) ELSE list)
       /\ \A q \in Place \ {r} : conf'[q] = conf[q]
       /\ \A q \in Place \ {t} : from'[q] = from[q]
  BY <1>2, <1>3, <1>8, <1>9 DEF TypeOK
<1> QED BY <1>1, <1>2, <1>3, <1>4, <1>5, <1>6, <1>8, <1>10 DEF r, t, list, entry

(* What an update finds, and what it leaves.                               *)
LEMMA UpdateFacts ==
  ASSUME TypeOK, DirsInv, NEW d \in dirs, NEW arg \in Arg, NEW given \in Url \cup {Remote, Empty},
         InReach(d, arg), Update(d, arg, given)
  PROVE  LET r == Toplevel(d)
             t == Resolve(d, arg)
         IN /\ d \in Place /\ arg \in Seq(Nat) /\ r \in Place /\ t \in Place
            /\ r # NoPlace /\ conf[r] # NoFile /\ IsInside(d, arg) /\ meta[t] # NoFile
            /\ \E j \in DOMAIN conf[r] : conf[r][j] = SuperToSub(d, arg)
            /\ repos' = repos /\ conf' = conf /\ dirs' = dirs \ EmptiedBelow(t)
            /\ meta'[t] \in Url \cup {Remote}
            /\ from'[t] = Elsewhere \/
                 /\ from'[t] = FetchedAt(d, arg, meta'[t])
                 /\ IsRelative(meta'[t]) => SuperToCwd(d) = <<>>
            /\ \A q \in TrackedBelow(t) : meta'[q] = NoFile /\ from'[q] = NoPlace
            /\ \A q \in Place \ (TrackedBelow(t) \cup {t}) : meta'[q] = meta[q] /\ from'[q] = from[q]
<1> DEFINE r == Toplevel(d)
           t == Resolve(d, arg)
           url == IF given = Empty THEN meta[t] ELSE given
<1>1. d \in Place /\ arg \in Seq(Nat) /\ r # NoPlace /\ conf[r] # NoFile
  BY PlaceAssumption DEF TypeOK, Update, IsConfigured
<1>2. r \in Place /\ conf[r] \in Seq(Seq(Nat))
  BY <1>1, ToplevelFacts DEF TypeOK
<1>3. t \in Place
  BY DEF InReach
<1>4. IsInside(d, arg) /\ IsListed(d, arg) /\ meta[t] # NoFile /\ url \notin {Empty, Stray}
  BY DEF Update
<1>5. \E j \in DOMAIN conf[r] : conf[r][j] = SuperToSub(d, arg)
  BY <1>2, <1>4, LenProperties DEF IsListed, Contains
<1>6. url \in Url \cup {Remote}
  BY <1>3, <1>4 DEF TypeOK
<1>7. /\ meta' = [q \in Place |-> IF q = t THEN url ELSE IF q \in TrackedBelow(t) THEN NoFile ELSE meta[q]]
      /\ dirs' = dirs \ EmptiedBelow(t)
      /\ from' = [q \in Place |->
                    IF q # t THEN (IF q \in TrackedBelow(t) THEN NoPlace ELSE from[q])
                    ELSE IF IsRelative(url) /\ SuperToCwd(d) # <<>> THEN Elsewhere
                    ELSE FetchedAt(d, arg, url)]
      /\ repos' = repos /\ conf' = conf
  BY DEF Update
<1>8. t \notin TrackedBelow(t) /\ TrackedBelow(t) \subseteq Place
  BY DEF TrackedBelow, Below, IsStrictPrefix
<1> HIDE DEF r, t, url
<1>9. /\ meta'[t] = url
      /\ from'[t] = Elsewhere \/ (from'[t] = FetchedAt(d, arg, url) /\ (IsRelative(url) => SuperToCwd(d) = <<>>))
  BY <1>3, <1>7
<1>10. /\ \A q \in TrackedBelow(t) : meta'[q] = NoFile /\ from'[q] = NoPlace
       /\ \A q \in Place \ (TrackedBelow(t) \cup {t}) : meta'[q] = meta[q] /\ from'[q] = from[q]
  BY <1>7, <1>8
<1> QED BY <1>1, <1>2, <1>3, <1>4, <1>5, <1>6, <1>7, <1>9, <1>10 DEF r, t

-----------------------------------------------------------------------------
(* The inductive invariant: types and directories.                         *)

(* What an update leaves: the repositories, the subprojects that git does  *)
(* not track or that are not below, and the parents of what is left.       *)
LEMMA NotEmptied ==
  ASSUME TypeOK, DirsInv, NEW t \in Place, meta[t] # NoFile, NEW p \in dirs,
         \/ p \in repos
         \/ meta[p] # NoFile /\ p \notin TrackedBelow(t)
         \/ \E q \in dirs \ EmptiedBelow(t) : IsPrefix(p, q)
  PROVE  p \notin EmptiedBelow(t)
<1> SUFFICES ASSUME p \in EmptiedBelow(t) PROVE FALSE
  OBVIOUS
<1>1. p \in Place /\ p \in Seq(Name) /\ t \in Seq(Name) /\ dirs \subseteq Seq(Name)
  BY PlaceAssumption DEF TypeOK, Name
<1>2. /\ IsPrefix(t, p) /\ Below(p, t)
      /\ \A s \in dirs : IsPrefix(p, s) => meta[s] # Stray /\ \E q \in TrackedBelow(t) : IsPrefix(s, q)
  BY DEF EmptiedBelow, Below, IsStrictPrefix
<1>3. meta[p] # Stray
  BY <1>1, <1>2, PrefixOrder
<1>4. p \notin repos
  BY <1>2 DEF DirsInv
<1>5. ~(meta[p] # NoFile /\ p \notin TrackedBelow(t))
  BY <1>1, <1>2, <1>3 DEF TrackedBelow
<1>6. ASSUME NEW q \in dirs \ EmptiedBelow(t), IsPrefix(p, q) PROVE FALSE
  <2>1. Below(q, t)
    <3>1. IsPrefix(t, q)
      BY <1>1, <1>2, <1>6, PrefixOrder
    <3>2. q = t => p = t
      BY <1>1, <1>2, <1>6, PrefixOrder
    <3> QED BY <1>2, <3>1, <3>2 DEF Below, IsStrictPrefix
  <2>2. \A s \in dirs : IsPrefix(q, s) => IsPrefix(p, s)
    BY <1>1, <1>6, PrefixOrder
  <2>3. q \in EmptiedBelow(t)
    BY <1>2, <2>1, <2>2 DEF EmptiedBelow
  <2> QED BY <1>6, <2>3
<1> QED BY <1>4, <1>5, <1>6

(* Every step keeps the types.                                             *)
LEMMA TypesStep ==
  ASSUME TypeOK, DirsInv, [Next]_vars
  PROVE  TypeOK'
<1> DEFINE Lists == Seq(Seq(Nat)) \cup {NoFile}
           Urls == Url \cup {Remote, Empty, Stray, NoFile}
           Origins == Seq(Nat) \cup {Remote, Elsewhere, NoPlace}
<1>1. CASE UNCHANGED vars
  BY <1>1 DEF vars, TypeOK
<1>2. ASSUME NEW d \in dirs, Configure(d) PROVE TypeOK'
  <2> DEFINE r == Toplevel(d)
             list == <<>>
  <2>1. conf' = [conf EXCEPT ![r] = list] /\ UNCHANGED <<repos, dirs, meta, from>>
    BY <1>2 DEF Configure
  <2>2. list \in Seq(Seq(Nat))
    OBVIOUS
  <2> HIDE DEF r, list
  <2>3. conf' \in [Place -> Lists]
    BY <2>1, <2>2 DEF TypeOK
  <2> QED BY <2>1, <2>3 DEF TypeOK
<1>3. ASSUME NEW d \in dirs, NEW arg \in Arg, NEW url \in Url \cup {Remote, Empty}, InReach(d, arg), Inits(d, arg, url)
      PROVE  TypeOK'
  <2> DEFINE r == Toplevel(d)
             t == Resolve(d, arg)
             list == ListOrNew(d)
             entry == SuperToSub(d, arg)
  <2>1. /\ d \in Place /\ arg \in Seq(Nat) /\ r \in Place /\ t \in Place
        /\ list \in Seq(Seq(Nat)) /\ entry \in Seq(Nat) /\ dirs' = dirs \cup Prefixes(t)
    BY <1>3, InitsFacts
  <2>2. repos' \subseteq Place /\ dirs' \subseteq Place /\ repos' \subseteq dirs'
    BY <1>3, <2>1, PlaceAssumption DEF Inits, TypeOK
  <2>3. conf' \in [Place -> Lists]
    <3>1. WithEntry(list, entry) \in Seq(Seq(Nat))
      BY <2>1, WithEntryHas
    <3>2. conf' = [conf EXCEPT ![r] = IF IsInside(d, arg) THEN WithEntry(list, entry) ELSE list]
      BY <1>3 DEF Inits, DoInit
    <3> HIDE DEF r, list, entry
    <3> QED BY <2>1, <3>1, <3>2 DEF TypeOK
  <2>4. meta' \in [Place -> Urls]
    <3>1. meta' = [meta EXCEPT ![t] = IF IsInside(d, arg) THEN url ELSE Stray]
      BY <1>3 DEF Inits, DoInit
    <3> HIDE DEF t
    <3> QED BY <3>1 DEF TypeOK
  <2>5. from' \in [Place -> Origins]
    <3>1. CASE from' = from
      BY <3>1 DEF TypeOK
    <3>2. CASE url \in Url \cup {Remote} /\ from' = [from EXCEPT ![t] = FetchedAt(d, arg, url)]
      <4>1. FetchedAt(d, arg, url) \in Origins
        <5>1. url = Remote => FetchedAt(d, arg, url) = Remote
          BY DEF FetchedAt, IsRelative
        <5>2. url # Remote => FetchedAt(d, arg, url) \in Seq(Nat)
          BY <2>1, <3>2, FetchedType, PlaceAssumption DEF Name
        <5> QED BY <5>1, <5>2
      <4> HIDE DEF t
      <4> QED BY <3>2, <4>1 DEF TypeOK
    <3> QED BY <1>3, <3>1, <3>2 DEF Inits
  <2> QED BY <2>2, <2>3, <2>4, <2>5 DEF TypeOK
<1>4. ASSUME NEW d \in dirs, NEW arg \in Arg, NEW given \in Url \cup {Remote, Empty}, InReach(d, arg), Update(d, arg, given)
      PROVE  TypeOK'
  <2> DEFINE t == Resolve(d, arg)
             url == IF given = Empty THEN meta[t] ELSE given
  <2>1. /\ d \in Place /\ arg \in Seq(Nat) /\ t \in Place /\ meta[t] # NoFile
        /\ repos' = repos /\ conf' = conf /\ dirs' = dirs \ EmptiedBelow(t)
    BY <1>4, UpdateFacts
  <2>2. repos' \subseteq Place /\ dirs' \subseteq Place /\ repos' \subseteq dirs'
    <3>1. \A p \in repos : p \in dirs /\ p \notin EmptiedBelow(t)
      BY <2>1, NotEmptied DEF TypeOK
    <3> QED BY <2>1, <3>1 DEF TypeOK
  <2>3. url \in Url \cup {Remote}
    BY <1>4, <2>1 DEF Update, TypeOK
  <2>4. meta' \in [Place -> Urls]
    <3>1. meta' = [q \in Place |-> IF q = t THEN url ELSE IF q \in TrackedBelow(t) THEN NoFile ELSE meta[q]]
      BY <1>4 DEF Update
    <3> HIDE DEF t, url
    <3> QED BY <2>3, <3>1 DEF TypeOK
  <2>5. from' \in [Place -> Origins]
    <3>1. from' = [q \in Place |->
                     IF q # t THEN (IF q \in TrackedBelow(t) THEN NoPlace ELSE from[q])
                     ELSE IF IsRelative(url) /\ SuperToCwd(d) # <<>> THEN Elsewhere
                     ELSE FetchedAt(d, arg, url)]
      BY <1>4 DEF Update
    <3>2. FetchedAt(d, arg, url) \in Origins
      <4> HIDE DEF url
      <4>1. url = Remote => FetchedAt(d, arg, url) = Remote
        BY DEF FetchedAt, IsRelative
      <4>2. url # Remote => FetchedAt(d, arg, url) \in Seq(Nat)
        BY <2>1, <2>3, FetchedType, PlaceAssumption DEF Name
      <4> QED BY <4>1, <4>2
    <3> HIDE DEF t, url
    <3> QED BY <3>1, <3>2 DEF TypeOK
  <2> QED BY <2>1, <2>2, <2>4, <2>5 DEF TypeOK
<1> QED BY <1>1, <1>2, <1>3, <1>4, StepIs

(* Every step keeps the directories in order.                              *)
LEMMA DirsStep ==
  ASSUME TypeOK, DirsInv, [Next]_vars
  PROVE  DirsInv'
<1>1. CASE UNCHANGED vars
  BY <1>1 DEF vars, DirsInv
<1>2. ASSUME NEW d \in dirs, Configure(d) PROVE DirsInv'
  BY <1>2 DEF Configure, DirsInv
<1>3. ASSUME NEW d \in dirs, NEW arg \in Arg, NEW url \in Url \cup {Remote, Empty}, InReach(d, arg), Inits(d, arg, url)
      PROVE  DirsInv'
  <2> DEFINE t == Resolve(d, arg)
  <2>1. /\ t \in Place /\ t \notin dirs /\ from[t] = NoPlace /\ \A s \in repos : ~IsPrefix(t, s)
        /\ dirs' = dirs \cup Prefixes(t)
        /\ meta'[t] = (IF IsInside(d, arg) THEN url ELSE Stray)
        /\ \A q \in Place \ {t} : meta'[q] = meta[q] /\ from'[q] = from[q]
    BY <1>3, InitsFacts
  <2>2. repos' = repos
    BY <1>3 DEF Inits
  <2>3. from'[t] # NoPlace => meta'[t] \in Url \cup {Remote}
    <3>1. CASE from' = from
      BY <2>1, <3>1
    <3>2. CASE url \in Url \cup {Remote} /\ IsInside(d, arg)
      BY <2>1, <3>2
    <3> QED BY <1>3, <3>1, <3>2 DEF Inits
  <2>4. t \in Seq(Name) /\ t \in Prefixes(t)
    BY <2>1, PlaceAssumption, PrefixesFacts DEF Name
  <2>5. \A p \in Prefixes(t) : Prefixes(p) \subseteq Prefixes(t)
    BY <2>4, PrefixesOfPrefix
  <2> HIDE DEF t
  <2>6. \A p \in dirs' : Prefixes(p) \subseteq dirs'
    BY <2>1, <2>5 DEF DirsInv
  <2>7. \A p \in Place : meta'[p] # NoFile => p \in dirs' /\ \A r \in repos' : ~IsPrefix(p, r)
    BY <2>1, <2>2, <2>4 DEF DirsInv
  <2>8. \A p \in Place : from'[p] # NoPlace => meta'[p] \in Url \cup {Remote}
    BY <2>1, <2>3 DEF DirsInv
  <2> QED BY <2>6, <2>7, <2>8 DEF DirsInv
<1>4. ASSUME NEW d \in dirs, NEW arg \in Arg, NEW given \in Url \cup {Remote, Empty}, InReach(d, arg), Update(d, arg, given)
      PROVE  DirsInv'
  <2> DEFINE t == Resolve(d, arg)
  <2>1. /\ t \in Place /\ meta[t] # NoFile /\ repos' = repos /\ dirs' = dirs \ EmptiedBelow(t)
        /\ meta'[t] \in Url \cup {Remote}
        /\ \A q \in TrackedBelow(t) : meta'[q] = NoFile /\ from'[q] = NoPlace
        /\ \A q \in Place \ (TrackedBelow(t) \cup {t}) : meta'[q] = meta[q] /\ from'[q] = from[q]
    BY <1>4, UpdateFacts
  <2> HIDE DEF t
  <2>2. ASSUME NEW p \in dirs', NEW q \in Prefixes(p) PROVE q \in dirs'
    <3>1. p \in dirs /\ p \in Seq(Name) /\ q \in dirs
      BY <2>1, PlaceAssumption DEF DirsInv, TypeOK, Name
    <3>2. IsPrefix(q, p)
      BY <3>1, PrefixesFacts
    <3> QED BY <2>1, <3>1, <3>2, NotEmptied
  <2>3. ASSUME NEW p \in Place, meta'[p] # NoFile PROVE p \in dirs' /\ \A r \in repos' : ~IsPrefix(p, r)
    <3>1. meta[p] # NoFile /\ p \notin TrackedBelow(t)
      <4>1. p = t => p \notin TrackedBelow(t)
        BY DEF TrackedBelow, Below, IsStrictPrefix
      <4> QED BY <2>1, <2>3, <4>1
    <3>2. p \in dirs /\ \A r \in repos : ~IsPrefix(p, r)
      BY <3>1 DEF DirsInv
    <3> QED BY <2>1, <3>1, <3>2, NotEmptied
  <2>4. ASSUME NEW p \in Place, from'[p] # NoPlace PROVE meta'[p] \in Url \cup {Remote}
    BY <2>1, <2>4 DEF DirsInv
  <2> QED BY <2>2, <2>3, <2>4 DEF DirsInv
<1> QED BY <1>1, <1>2, <1>3, <1>4, StepIs

-----------------------------------------------------------------------------
(* The inductive invariant: lists and origins.                             *)

(* No repository is between the superproject and a target, so the search   *)
(* finds from there, if anything, that superproject.                       *)
LEMMA ReachFacts ==
  ASSUME TypeOK, NEW d \in Place, NEW arg \in Seq(Nat), InReach(d, arg), IsInside(d, arg)
  PROVE  /\ \A s \in repos : IsPrefix(s, Resolve(d, arg)) => ~Below(s, Toplevel(d))
         /\ Repository(Resolve(d, arg)) \in {Toplevel(d), NoPlace}
<1> DEFINE r == Toplevel(d)
           t == Resolve(d, arg)
           n == Repository(t)
<1>1. t \in Place /\ r # NoPlace /\ \A s \in repos : IsPrefix(s, t) => ~Below(s, r)
  BY DEF InReach
<1>2. r \in repos /\ r \in Seq(Name) /\ t \in Seq(Name) /\ IsPrefix(r, t)
  BY <1>1, ToplevelFacts, InsideFacts
<1>3. ASSUME n # NoPlace PROVE n = r
  <2>1. n \in repos \cap Searched[t] /\ \A q \in repos \cap Searched[t] : Len(q) <= Len(n)
    BY <1>1, <1>3, NearestFacts DEF Repository
  <2> HIDE DEF r, t, n
  <2>2. n \in Seq(Name) /\ IsPrefix(n, t)
    BY <1>1, <2>1, SearchedFacts
  <2>3. Len(n) \in Nat /\ Len(r) \in Nat /\ ~Below(n, r)
    BY <1>1, <1>2, <2>1, <2>2, LenProperties
  <2>4. Len(n) <= Len(r) /\ IsPrefix(n, r)
    BY <1>2, <2>2, <2>3, PrefixChain
  <2>5. r \in Searched[t]
    BY <1>1, <1>2, <2>1, <2>4, SearchedBetween
  <2>6. Len(n) = Len(r)
    BY <1>2, <2>1, <2>3, <2>4, <2>5
  <2> QED BY <1>2, <2>2, <2>6, PrefixChain
<1> QED BY <1>1, <1>3

(* What is fetched for a target in the superproject, by a url with a host  *)
(* or in the toplevel directory, is what the url names there.              *)
LEMMA FetchedIs ==
  ASSUME TypeOK, NEW d \in Place, NEW arg \in Seq(Nat), Toplevel(d) # NoPlace, IsInside(d, arg),
         NEW url \in Url \cup {Remote}, IsRelative(url) => SuperToCwd(d) = <<>>
  PROVE  FetchedAt(d, arg, url) = AskedAt(Toplevel(d), url)
<1>1. CASE url = Remote
  BY <1>1 DEF FetchedAt, AskedAt, IsRelative
<1>2. CASE url # Remote
  <2>1. d = Toplevel(d)
    BY <1>2, ToplevelFacts DEF IsRelative
  <2>2. Toplevel(d) \in Seq(Name) /\ Resolve(d, arg) \in Seq(Name) /\ IsPrefix(Toplevel(d), Resolve(d, arg))
    BY InsideFacts
  <2>3. url \in Seq(Nat) \cup {Remote}
    BY PlaceAssumption
  <2> DEFINE r == Toplevel(d)
  <2>4. r \in Seq(Name) /\ Resolve(r, arg) \in Seq(Name) /\ IsPrefix(r, Resolve(r, arg)) /\ d = r
    BY <2>1, <2>2
  <2> HIDE DEF r
  <2>5. FetchedAt(r, arg, url) = AskedAt(r, url)
    BY <2>3, <2>4, FetchedFromTop
  <2> QED BY <2>4, <2>5 DEF r
<1> QED BY <1>1, <1>2

(* Every step keeps what is listed inside of its superproject.             *)
LEMMA ListsStep ==
  ASSUME TypeOK, DirsInv, ListsInv, [Next]_vars
  PROVE  ListsInv'
<1> DEFINE Listed(r, entry) ==
             /\ r \in repos /\ entry # <<>> /\ r \o entry \in Place
             /\ \A s \in repos : IsPrefix(s, r \o entry) => ~Below(s, r)
<1>1. ASSUME repos' = repos,
             \A r \in Place : conf'[r] # NoFile => \A i \in DOMAIN conf'[r] : Listed(r, conf'[r][i])
      PROVE  ListsInv'
  BY <1>1 DEF ListsInv
<1>2. \A r \in Place : conf[r] # NoFile => \A i \in DOMAIN conf[r] : Listed(r, conf[r][i])
  BY DEF ListsInv
<1>3. CASE UNCHANGED vars
  <2>1. repos' = repos /\ conf' = conf
    BY <1>3 DEF vars
  <2> HIDE DEF Listed
  <2> QED BY <1>1, <1>2, <2>1
<1>4. ASSUME NEW d \in dirs, Configure(d) PROVE ListsInv'
  <2> DEFINE top == Toplevel(d)
             list == <<>>
  <2>1. repos' = repos /\ conf' = [conf EXCEPT ![top] = list]
    BY <1>4 DEF Configure
  <2>2. DOMAIN list = {}
    OBVIOUS
  <2> HIDE DEF Listed, top, list
  <2>3. ASSUME NEW r \in Place, conf'[r] # NoFile, NEW i \in DOMAIN conf'[r] PROVE Listed(r, conf'[r][i])
    <3>1. r # top /\ conf'[r] = conf[r]
      BY <2>1, <2>2, <2>3 DEF TypeOK
    <3> QED BY <1>2, <2>3, <3>1
  <2> QED BY <1>1, <2>1, <2>3
<1>5. ASSUME NEW d \in dirs, NEW arg \in Arg, NEW url \in Url \cup {Remote, Empty}, InReach(d, arg), Inits(d, arg, url)
      PROVE  ListsInv'
  <2> DEFINE top == Toplevel(d)
             t == Resolve(d, arg)
             list == ListOrNew(d)
             entry == SuperToSub(d, arg)
  <2>1. /\ d \in Place /\ arg \in Seq(Nat) /\ top \in Place /\ t \in Place
        /\ list \in Seq(Seq(Nat)) /\ entry \in Seq(Nat) /\ entry # <<>>
        /\ conf[top] = NoFile => list = <<>>
        /\ conf[top] # NoFile => list = conf[top]
        /\ conf'[top] = (IF IsInside(d, arg) THEN WithEntry(list, entry) ELSE list)
        /\ \A q \in Place \ {top} : conf'[q] = conf[q]
    BY <1>5, InitsFacts
  <2>2. top # NoPlace /\ repos' = repos
    BY <1>5 DEF Inits
  <2>3. top \in repos
    BY <2>1, <2>2, ToplevelFacts
  <2>4. IsInside(d, arg) => Listed(top, entry)
    <3>1. IsInside(d, arg) => top \o entry = t
      BY <2>1, <2>2, InsideFacts
    <3> QED BY <1>5, <2>1, <2>3, <3>1, ReachFacts
  <2>5. \A j \in DOMAIN list : Listed(top, list[j])
    <3>1. DOMAIN <<>> = {}
      OBVIOUS
    <3> HIDE DEF Listed, list, top
    <3> QED BY <1>2, <2>1, <3>1
  <2>6. IsInside(d, arg) => \A i \in DOMAIN WithEntry(list, entry) :
                              \/ WithEntry(list, entry)[i] = entry
                              \/ \E j \in DOMAIN list : WithEntry(list, entry)[i] = list[j]
    BY <2>1, WithEntryHas DEF HasEntry
  <2> HIDE DEF Listed, top, list, entry
  <2>7. ASSUME NEW r \in Place, conf'[r] # NoFile, NEW i \in DOMAIN conf'[r] PROVE Listed(r, conf'[r][i])
    <3>1. CASE r # top
      BY <1>2, <2>1, <2>7, <3>1
    <3>2. CASE r = top /\ IsInside(d, arg)
      BY <2>1, <2>4, <2>5, <2>6, <2>7, <3>2
    <3>3. CASE r = top /\ ~IsInside(d, arg)
      BY <2>1, <2>5, <2>7, <3>3
    <3> QED BY <3>1, <3>2, <3>3
  <2> QED BY <1>1, <2>2, <2>7
<1>6. ASSUME NEW d \in dirs, NEW arg \in Arg, NEW given \in Url \cup {Remote, Empty}, InReach(d, arg), Update(d, arg, given)
      PROVE  ListsInv'
  <2>1. repos' = repos /\ conf' = conf
    BY <1>6 DEF Update
  <2> HIDE DEF Listed
  <2> QED BY <1>1, <1>2, <2>1
<1> HIDE DEF Listed
<1> QED BY <1>3, <1>4, <1>5, <1>6, StepIs

(* Every step keeps, or writes, where a release was fetched from.          *)
LEMMA FromStep ==
  ASSUME TypeOK, DirsInv, FromInv, [Next]_vars
  PROVE  FromInv'
<1> DEFINE Known(q, origin, url) ==
             origin \notin {NoPlace, Elsewhere} /\ Repository(q) # NoPlace => origin = AskedAt(Repository(q), url)
<1>1. \A q \in Place : Known(q, from[q], meta[q])
  BY DEF FromInv
<1>2. ASSUME repos' = repos, \A q \in Place : Known(q, from'[q], meta'[q]) PROVE FromInv'
  <2>1. \A q : Repository(q)' = Repository(q)
    BY <1>2 DEF Repository
  <2> QED BY <1>2, <2>1 DEF FromInv
<1>3. ASSUME NEW d \in dirs, NEW arg \in Arg, InReach(d, arg), IsInside(d, arg), NEW url \in Url \cup {Remote},
             IsRelative(url) => SuperToCwd(d) = <<>>
      PROVE  Known(Resolve(d, arg), FetchedAt(d, arg, url), url)
  <2>1. d \in Place /\ arg \in Seq(Nat) /\ Toplevel(d) # NoPlace
    BY <1>3, PlaceAssumption DEF TypeOK, InReach
  <2>2. FetchedAt(d, arg, url) = AskedAt(Toplevel(d), url)
    BY <1>3, <2>1, FetchedIs
  <2>3. Repository(Resolve(d, arg)) \in {Toplevel(d), NoPlace}
    BY <1>3, <2>1, ReachFacts
  <2> QED BY <2>2, <2>3
<1> HIDE DEF Known
<1>4. CASE UNCHANGED vars
  BY <1>1, <1>2, <1>4 DEF vars
<1>5. ASSUME NEW d \in dirs, Configure(d) PROVE FromInv'
  BY <1>1, <1>2, <1>5 DEF Configure
<1>6. ASSUME NEW d \in dirs, NEW arg \in Arg, NEW url \in Url \cup {Remote, Empty}, InReach(d, arg), Inits(d, arg, url)
      PROVE  FromInv'
  <2> DEFINE t == Resolve(d, arg)
  <2>1. /\ t \in Place /\ from[t] = NoPlace /\ meta'[t] = (IF IsInside(d, arg) THEN url ELSE Stray)
        /\ \A q \in Place \ {t} : meta'[q] = meta[q] /\ from'[q] = from[q]
    BY <1>6, InitsFacts
  <2>2. repos' = repos
    BY <1>6 DEF Inits
  <2>3. Known(t, from'[t], meta'[t])
    <3>1. CASE from' = from
      BY <2>1, <3>1 DEF Known
    <3>2. CASE /\ url \in Url \cup {Remote} /\ MayAdd(d, url) /\ IsInside(d, arg)
               /\ from' = [from EXCEPT ![t] = FetchedAt(d, arg, url)]
      <4>1. from'[t] = FetchedAt(d, arg, url) /\ meta'[t] = url
        BY <2>1, <3>2 DEF TypeOK
      <4>2. Known(t, FetchedAt(d, arg, url), url)
        BY <1>3, <1>6, <3>2 DEF MayAdd
      <4> QED BY <4>1, <4>2
    <3> QED BY <1>6, <3>1, <3>2 DEF Inits
  <2> HIDE DEF t
  <2>4. \A q \in Place : Known(q, from'[q], meta'[q])
    BY <1>1, <2>1, <2>3
  <2> QED BY <1>2, <2>2, <2>4
<1>7. ASSUME NEW d \in dirs, NEW arg \in Arg, NEW given \in Url \cup {Remote, Empty}, InReach(d, arg), Update(d, arg, given)
      PROVE  FromInv'
  <2> DEFINE t == Resolve(d, arg)
  <2>1. /\ IsInside(d, arg) /\ t \in Place /\ repos' = repos
        /\ meta'[t] \in Url \cup {Remote}
        /\ from'[t] = Elsewhere \/
             /\ from'[t] = FetchedAt(d, arg, meta'[t])
             /\ IsRelative(meta'[t]) => SuperToCwd(d) = <<>>
        /\ \A q \in TrackedBelow(t) : meta'[q] = NoFile /\ from'[q] = NoPlace
        /\ \A q \in Place \ (TrackedBelow(t) \cup {t}) : meta'[q] = meta[q] /\ from'[q] = from[q]
    BY <1>7, UpdateFacts
  <2>2. Known(t, from'[t], meta'[t])
    <3>1. CASE from'[t] = Elsewhere
      BY <3>1 DEF Known
    <3>2. CASE from'[t] = FetchedAt(d, arg, meta'[t]) /\ (IsRelative(meta'[t]) => SuperToCwd(d) = <<>>)
      <4> DEFINE url == meta'[t]
      <4>1. url \in Url \cup {Remote} /\ (IsRelative(url) => SuperToCwd(d) = <<>>)
        BY <2>1, <3>2
      <4>2. Known(t, FetchedAt(d, arg, url), url)
        <5> HIDE DEF url
        <5> QED BY <1>3, <1>7, <2>1, <4>1
      <4> QED BY <3>2, <4>2
    <3> QED BY <2>1, <3>1, <3>2
  <2> HIDE DEF t
  <2>3. ASSUME NEW q \in Place PROVE Known(q, from'[q], meta'[q])
    <3>1. CASE q \in TrackedBelow(t)
      BY <2>1, <3>1 DEF Known
    <3>2. CASE q \notin TrackedBelow(t)
      BY <1>1, <2>1, <2>2, <3>2
    <3> QED BY <3>1, <3>2
  <2> QED BY <1>2, <2>1, <2>3
<1> QED BY <1>4, <1>5, <1>6, <1>7, StepIs

(* At first there are directories and repositories, and empty lists.       *)
LEMMA AtFirst ==
  ASSUME Init
  PROVE  TypeOK /\ SuperInv /\ EntriesAreSubprojects
<1>1. /\ repos \subseteq Place /\ dirs \subseteq Place /\ \A p \in dirs \cup repos : Prefixes(p) \subseteq dirs
      /\ conf \in [Place -> {NoFile, <<>>}]
      /\ meta = [p \in Place |-> NoFile] /\ from = [p \in Place |-> NoPlace]
  BY DEF Init
<1>2. TypeOK
  <2>1. \A p \in repos : p \in Prefixes(p)
    BY <1>1, PrefixesFacts, PlaceAssumption DEF Name
  <2>2. repos \subseteq dirs
    BY <1>1, <2>1
  <2>3. <<>> \in Seq(Seq(Nat))
    OBVIOUS
  <2>4. conf \in [Place -> Seq(Seq(Nat)) \cup {NoFile}]
    BY <1>1, <2>3
  <2> QED BY <1>1, <2>2, <2>4 DEF TypeOK
<1>3. DirsInv /\ FromInv
  BY <1>1 DEF DirsInv, FromInv
<1>4. ListsInv /\ EntriesAreSubprojects
  <2>1. DOMAIN <<>> = {}
    OBVIOUS
  <2>2. \A r \in Place : conf[r] = NoFile \/ conf[r] = <<>>
    BY <1>1
  <2> QED BY <2>1, <2>2 DEF ListsInv, EntriesAreSubprojects, IsSuperproject
<1> QED BY <1>2, <1>3, <1>4 DEF SuperInv

-----------------------------------------------------------------------------
(* The inductive invariant: the entries.                                   *)

(* No subproject of a superproject is below one that is being updated:     *)
(* not of the same list, which is flat, and not of another one, which      *)
(* would have a repository between.                                        *)
LEMMA NoneBelow ==
  ASSUME TypeOK, DirsInv, ListsInv,
         NEW r \in Place, conf[r] # NoFile, NEW j \in DOMAIN conf[r],
         NEW s \in Place, conf[s] # NoFile, NEW i \in DOMAIN conf[s], Flat(s),
         meta[r \o conf[r][j]] # NoFile
  PROVE  ~Below(s \o conf[s][i], r \o conf[r][j])
<1> DEFINE a == conf[r][j]
           b == conf[s][i]
           t == r \o a
           p == s \o b
<1> SUFFICES ASSUME Below(p, t) PROVE FALSE
  OBVIOUS
<1>1. a \in Seq(Nat) /\ b \in Seq(Nat)
  <2>1. conf[r] \in Seq(Seq(Nat)) /\ conf[s] \in Seq(Seq(Nat))
    BY DEF TypeOK
  <2> QED BY <2>1, ElementOfSeq, LenProperties
<1>2. /\ r \in repos /\ s \in repos /\ t \in Place /\ p \in Place
      /\ \A q \in repos : IsPrefix(q, t) => ~Below(q, r)
      /\ \A q \in repos : IsPrefix(q, p) => ~Below(q, s)
  BY DEF ListsInv
<1>3. r \in Seq(Name) /\ s \in Seq(Name) /\ t \in Seq(Name) /\ p \in Seq(Name)
  BY <1>2, PlaceAssumption DEF Name
<1>4. IsPrefix(r, t) /\ IsPrefix(s, p)
  <2>1. r \in Seq(Nat) /\ s \in Seq(Nat)
    BY <1>3, SeqMonotonic DEF Name
  <2> QED BY <1>1, <2>1, ConcatPrefix
<1>5. IsPrefix(t, p)
  BY DEF Below, IsStrictPrefix
<1> HIDE DEF a, b, t, p
<1>6. IsPrefix(t, p) /\ IsPrefix(r, p)
  BY <1>3, <1>4, <1>5, PrefixOrder
<1>7. CASE s = r
  <2>1. r \in Seq(Nat) /\ t = r \o a /\ p = r \o b
    BY <1>3, <1>7, SeqMonotonic DEF Name, t, p
  <2>2. IsPrefix(a, b) /\ a # b
    BY <1>1, <1>6, <2>1, PrefixBehind DEF Below, IsStrictPrefix
  <2>3. ~Below(b, a)
    BY <1>7 DEF Flat, a, b
  <2> QED BY <2>2, <2>3 DEF Below, IsStrictPrefix
<1>8. CASE s # r
  <2>1. Len(r) \in Nat /\ Len(s) \in Nat /\ Len(t) \in Nat
    BY <1>3, LenProperties
  <2>2. ~Below(r, s)
    BY <1>2, <1>6
  <2>3. Below(s, r)
    <3>1. /\ Len(r) = Len(s) => r = s
          /\ Below(r, s) <=> Len(s) < Len(r)
          /\ Below(s, r) <=> Len(r) < Len(s)
      BY <1>3, <1>4, <1>6, PrefixChain
    <3> QED BY <1>8, <2>1, <2>2, <3>1
  <2>4. IsPrefix(s, t) \/ IsPrefix(t, s)
    <3>1. /\ Len(s) <= Len(t) => IsPrefix(s, t)
          /\ Len(t) <= Len(s) => IsPrefix(t, s)
      BY <1>3, <1>4, <1>6, PrefixChain
    <3> QED BY <2>1, <3>1
  <2>5. ~IsPrefix(s, t)
    BY <1>2, <2>3
  <2>6. ~IsPrefix(t, s)
    BY <1>2 DEF DirsInv, t, a
  <2> QED BY <2>4, <2>5, <2>6
<1> QED BY <1>7, <1>8

(* Every step keeps the entries subprojects.                               *)
LEMMA EntriesStep ==
  ASSUME TypeOK, DirsInv, ListsInv, EntriesAreSubprojects, [Next]_vars
  PROVE  EntriesAreSubprojects'
<1> DEFINE Good(list) == \A i, j \in DOMAIN list : ~Below(list[i], list[j])
           Kept(r, list) ==
             \A i \in DOMAIN list : r \o list[i] \in dirs' /\ meta'[r \o list[i]] \notin {NoFile, Stray}
<1>1. ASSUME \A r \in Place : conf'[r] \notin {NoFile, <<>>} /\ Good(conf'[r]) =>
               IsInjective(conf'[r]) /\ Kept(r, conf'[r])
      PROVE  EntriesAreSubprojects'
  BY <1>1 DEF EntriesAreSubprojects, IsSuperproject, Flat
<1>2. ASSUME NEW r \in Place, conf[r] \notin {NoFile, <<>>}, Good(conf[r])
      PROVE  /\ IsInjective(conf[r])
             /\ \A i \in DOMAIN conf[r] : r \o conf[r][i] \in dirs /\ meta[r \o conf[r][i]] \notin {NoFile, Stray}
  BY <1>2 DEF EntriesAreSubprojects, IsSuperproject, Flat
<1>3. CASE UNCHANGED vars
  BY <1>1, <1>2, <1>3 DEF vars
<1>4. ASSUME NEW d \in dirs, Configure(d) PROVE EntriesAreSubprojects'
  <2> DEFINE top == Toplevel(d)
             list == <<>>
  <2>1. conf' = [conf EXCEPT ![top] = list] /\ dirs' = dirs /\ meta' = meta
    BY <1>4 DEF Configure
  <2> HIDE DEF top
  <2>2. ASSUME NEW r \in Place, conf'[r] \notin {NoFile, <<>>} PROVE conf'[r] = conf[r]
    BY <2>1, <2>2 DEF TypeOK
  <2> HIDE DEF list, Good
  <2>3. ASSUME NEW r \in Place, conf'[r] \notin {NoFile, <<>>}, Good(conf'[r])
        PROVE  IsInjective(conf'[r]) /\ Kept(r, conf'[r])
    BY <1>2, <2>1, <2>2, <2>3
  <2> HIDE DEF Kept
  <2> QED BY <1>1, <2>3
<1>5. ASSUME NEW d \in dirs, NEW arg \in Arg, NEW url \in Url \cup {Remote, Empty}, InReach(d, arg), Inits(d, arg, url)
      PROVE  EntriesAreSubprojects'
  <2> DEFINE top == Toplevel(d)
             t == Resolve(d, arg)
             list == ListOrNew(d)
             entry == SuperToSub(d, arg)
             w == WithEntry(list, entry)
  <2>1. /\ d \in Place /\ arg \in Seq(Nat) /\ top \in Place /\ t \in Place /\ t \notin dirs
        /\ list \in Seq(Seq(Nat)) /\ entry \in Seq(Nat)
        /\ conf[top] = NoFile => list = <<>>
        /\ conf[top] # NoFile => list = conf[top]
        /\ dirs' = dirs \cup Prefixes(t)
        /\ meta'[t] = (IF IsInside(d, arg) THEN url ELSE Stray)
        /\ \A q \in Place \ {t} : meta'[q] = meta[q]
        /\ conf'[top] = (IF IsInside(d, arg) THEN w ELSE list)
        /\ \A q \in Place \ {top} : conf'[q] = conf[q]
    BY <1>5, InitsFacts
  <2>2. url \notin {NoFile, Stray}
    BY SentinelAssumption
  <2>3. dirs \subseteq Place /\ top # NoPlace
    BY <1>5 DEF TypeOK, Inits
  <2>4. IsInside(d, arg) => top \o entry = t /\ t \in dirs'
    <3>1. t \in Prefixes(t)
      BY <2>1, PrefixesFacts, PlaceAssumption DEF Name
    <3> QED BY <2>1, <2>3, <3>1, InsideFacts
  <2> HIDE DEF top, t, list, entry
  <2>5. /\ w # <<>>
        /\ \A i \in DOMAIN w : w[i] = entry \/ \E j \in DOMAIN list : w[i] = list[j]
        /\ \A j \in DOMAIN list : \E i \in DOMAIN w : w[i] = list[j]
        /\ IsInjective(list) /\ (\A j \in DOMAIN list : list[j] # entry) => IsInjective(w)
    <3>1. HasEntry(w, list, entry)
      BY <2>1, WithEntryHas
    <3> HIDE DEF w
    <3> QED BY <3>1 DEF HasEntry
  <2> HIDE DEF w
  <2>6. \A p \in dirs : p \in dirs' /\ (meta[p] \notin {NoFile, Stray} => meta'[p] \notin {NoFile, Stray})
    BY <2>1, <2>3
  <2>7. ASSUME NEW r \in Place, conf[r] \notin {NoFile, <<>>}, Good(conf[r])
        PROVE  IsInjective(conf[r]) /\ Kept(r, conf[r])
    <3>1. /\ IsInjective(conf[r])
          /\ \A i \in DOMAIN conf[r] : r \o conf[r][i] \in dirs /\ meta[r \o conf[r][i]] \notin {NoFile, Stray}
      <4> HIDE DEF Good
      <4> QED BY <1>2, <2>7
    <3> QED BY <2>6, <3>1
  <2>8. ASSUME Good(list) PROVE IsInjective(list) /\ Kept(top, list) /\ \A j \in DOMAIN list : top \o list[j] \in dirs
    <3>1. CASE list = <<>>
      <4>1. DOMAIN list = {}
        BY <3>1
      <4> QED BY <4>1 DEF IsInjective
    <3>2. CASE list # <<>>
      <4>1. conf[top] \notin {NoFile, <<>>} /\ list = conf[top]
        BY <2>1, <3>2
      <4>2. \A j \in DOMAIN conf[top] : top \o conf[top][j] \in dirs
        <5> HIDE DEF Good
        <5> QED BY <1>2, <2>1, <2>8, <4>1
      <4> HIDE DEF Good, Kept
      <4> QED BY <2>1, <2>7, <2>8, <4>1, <4>2
    <3> QED BY <3>1, <3>2
  <2>9. ASSUME Good(w), IsInside(d, arg) PROVE IsInjective(w) /\ Kept(top, w)
    <3>1. Good(list)
      BY <2>5, <2>9
    <3>2. \A j \in DOMAIN list : list[j] # entry
      BY <2>1, <2>4, <2>8, <2>9, <3>1
    <3>3. Kept(top, list) /\ IsInjective(list)
      <4> HIDE DEF Good, Kept
      <4> QED BY <2>8, <3>1
    <3>4. meta'[t] \notin {NoFile, Stray}
      BY <2>1, <2>2, <2>9
    <3> QED BY <2>4, <2>5, <2>9, <3>2, <3>3, <3>4
  <2> HIDE DEF Good, Kept
  <2>10. ASSUME NEW r \in Place, conf'[r] \notin {NoFile, <<>>}, Good(conf'[r])
         PROVE  IsInjective(conf'[r]) /\ Kept(r, conf'[r])
    <3>1. CASE r # top
      BY <2>1, <2>7, <2>10, <3>1
    <3>2. CASE r = top /\ IsInside(d, arg)
      BY <2>1, <2>9, <2>10, <3>2
    <3>3. CASE r = top /\ ~IsInside(d, arg)
      BY <2>1, <2>8, <2>10, <3>3
    <3> QED BY <3>1, <3>2, <3>3
  <2> QED BY <1>1, <2>10
<1>6. ASSUME NEW d \in dirs, NEW arg \in Arg, NEW given \in Url \cup {Remote, Empty}, InReach(d, arg), Update(d, arg, given)
      PROVE  EntriesAreSubprojects'
  <2> DEFINE r == Toplevel(d)
             t == Resolve(d, arg)
  <2>1. /\ d \in Place /\ arg \in Seq(Nat) /\ r \in Place /\ r # NoPlace /\ t \in Place
        /\ conf[r] # NoFile /\ IsInside(d, arg) /\ meta[t] # NoFile
        /\ \E j \in DOMAIN conf[r] : conf[r][j] = SuperToSub(d, arg)
        /\ conf' = conf /\ dirs' = dirs \ EmptiedBelow(t)
        /\ meta'[t] \in Url \cup {Remote}
        /\ \A q \in Place \ (TrackedBelow(t) \cup {t}) : meta'[q] = meta[q]
    BY <1>6, UpdateFacts
  <2>2. PICK j \in DOMAIN conf[r] : r \o conf[r][j] = t
    <3>1. SuperToSub(d, arg) = Rel(t, r) /\ r \o Rel(t, r) = t
      BY <2>1, InsideFacts
    <3> QED BY <2>1, <3>1
  <2> HIDE DEF r, t
  <2>3. ASSUME NEW s \in Place, conf'[s] \notin {NoFile, <<>>}, Good(conf'[s]), NEW i \in DOMAIN conf[s]
        PROVE  s \o conf[s][i] \in dirs' /\ meta'[s \o conf[s][i]] \notin {NoFile, Stray}
    <3> DEFINE p == s \o conf[s][i]
    <3>1. p \in dirs /\ meta[p] \notin {NoFile, Stray}
      <4> HIDE DEF Good
      <4> QED BY <1>2, <2>1, <2>3
    <3>2. Flat(s)
      BY <2>1, <2>3 DEF Flat
    <3>3. ~Below(p, t)
      BY <2>1, <2>2, <2>3, <3>2, NoneBelow
    <3>4. p \notin TrackedBelow(t) /\ p \notin EmptiedBelow(t)
      BY <3>3 DEF TrackedBelow, EmptiedBelow
    <3> HIDE DEF p
    <3>5. p \in dirs' /\ meta'[p] \notin {NoFile, Stray}
      <4>1. p = t => meta'[p] \notin {NoFile, Stray}
        BY <2>1, SentinelAssumption
      <4>2. p \in Place
        BY <3>1 DEF TypeOK
      <4> QED BY <2>1, <3>1, <3>4, <4>1, <4>2
    <3> QED BY <3>5 DEF p
  <2>4. ASSUME NEW s \in Place, conf'[s] \notin {NoFile, <<>>}, Good(conf'[s])
        PROVE  IsInjective(conf'[s]) /\ Kept(s, conf'[s])
    <3>1. IsInjective(conf'[s])
      <4> HIDE DEF Good
      <4> QED BY <1>2, <2>1, <2>4
    <3>2. Kept(s, conf'[s])
      BY <2>1, <2>3, <2>4
    <3> QED BY <3>1, <3>2
  <2> HIDE DEF Good, Kept
  <2> QED BY <1>1, <2>4
<1> HIDE DEF Good, Kept
<1> QED BY <1>3, <1>4, <1>5, <1>6, StepIs

(* All of it is inductive.                                                 *)
LEMMA Inductive ==
  ASSUME TypeOK, SuperInv, EntriesAreSubprojects, [Next]_vars
  PROVE  TypeOK' /\ SuperInv' /\ EntriesAreSubprojects'
<1>1. DirsInv /\ ListsInv /\ FromInv
  BY DEF SuperInv
<1>2. DirsInv' /\ ListsInv' /\ FromInv'
  BY <1>1, DirsStep, ListsStep, FromStep
<1> QED BY <1>1, <1>2, TypesStep, EntriesStep DEF SuperInv

(* In every state directories have their parents, a subproject contains no *)
(* repository, what is listed is in the superproject and in no repository  *)
(* inside it, and the origin of a release is where its url leads from the  *)
(* repository around it.                                                   *)
THEOREM SuperInvariant == Spec => [](TypeOK /\ SuperInv)
<1>1. Init => TypeOK /\ SuperInv /\ EntriesAreSubprojects
  BY AtFirst
<1>2. TypeOK /\ SuperInv /\ EntriesAreSubprojects /\ [Next]_vars => (TypeOK /\ SuperInv /\ EntriesAreSubprojects)'
  BY Inductive
<1> QED BY <1>1, <1>2, PTL DEF Spec

(* The variables keep their types: every list is of paths, every path of a *)
(* target is made of names, every repository is a directory that exists.   *)
THEOREM SuperTypes == Spec => []TypeOK
BY SuperInvariant, PTL

(* A superproject lists no path twice, none outside of itself, and each is *)
(* a directory with a .subproject that git tracks, as long as no listed    *)
(* path is inside another.                                                 *)
THEOREM ListIsSound == Spec => []EntriesAreSubprojects
<1>1. Init => TypeOK /\ SuperInv /\ EntriesAreSubprojects
  BY AtFirst
<1>2. TypeOK /\ SuperInv /\ EntriesAreSubprojects /\ [Next]_vars => (TypeOK /\ SuperInv /\ EntriesAreSubprojects)'
  BY Inductive
<1> QED BY <1>1, <1>2, PTL DEF Spec

-----------------------------------------------------------------------------
(* What follows in each state.                                             *)

(* From every directory, with any "..", a path into the superproject is    *)
(* taken for the place the shell means, by relpath as by normpath.         *)
THEOREM PathsAreRight == Spec => []PathsAgree
<1>1. ASSUME TypeOK PROVE PathsAgree
  <2> SUFFICES ASSUME NEW d \in dirs, Toplevel(d) # NoPlace, NEW arg \in Arg, IsInside(d, arg)
               PROVE  /\ SuperToSub(d, arg) = Rel(Resolve(d, arg), Toplevel(d))
                      /\ StatusPath(d, arg) = SuperToSub(d, arg)
    BY DEF PathsAgree
  <2>1. d \in Place /\ arg \in Seq(Nat)
    BY <1>1, PlaceAssumption DEF TypeOK
  <2> QED BY <1>1, <2>1, InsideFacts
<1> QED BY <1>1, SuperTypes, PTL

(* A release that was fetched by a relative url came from where the url    *)
(* leads from the toplevel directory, and the next update there fetches    *)
(* from the same place.                                                    *)
THEOREM SameOriginNextTime == Spec => []UpdateStays
<1>1. ASSUME TypeOK, SuperInv PROVE UpdateStays
  <2> SUFFICES ASSUME NEW r \in repos, NEW d \in dirs, Below(d, r), Toplevel(d) = r, from[d] \notin {NoPlace, Elsewhere}
               PROVE  /\ from[d] = AskedAt(r, meta[d])
                      /\ FetchedAt(r, Rel(d, r), meta[d]) = from[d]
    BY DEF UpdateStays
  <2>1. d \in Place /\ r \in Place
    BY <1>1 DEF TypeOK
  <2>2. Toplevel(d) # NoPlace
    BY <2>1, PlaceAssumption, SentinelAssumption, SeqMonotonic DEF Name
  <2>3. Repository(d) = r /\ r \in Seq(Name) /\ d \in Seq(Name) /\ IsPrefix(r, d)
    BY <1>1, <2>1, <2>2, ToplevelFacts
  <2>4. from[d] = AskedAt(r, meta[d]) /\ meta[d] \in Url \cup {Remote}
    BY <1>1, <2>1, <2>2, <2>3 DEF SuperInv, FromInv, DirsInv
  <2>5. Resolve(r, Rel(d, r)) = d
    BY <2>3, RelFacts
  <2>6. meta[d] \in Seq(Nat) \cup {Remote}
    BY <2>4, PlaceAssumption
  <2> DEFINE url == meta[d]
             path == Rel(d, r)
  <2> HIDE DEF url, path
  <2>7. FetchedAt(r, path, url) = AskedAt(r, url)
    BY <2>3, <2>5, <2>6, FetchedFromTop DEF url, path
  <2> QED BY <2>4, <2>7 DEF url, path
<1> QED BY <1>1, SuperInvariant, PTL

(* The first entry with the same names is found if there is one.           *)
LEMMA SelectedFacts ==
  ASSUME NEW list \in Seq(Seq(Nat)), NEW path
  PROVE  LET at == SelectInSeq(list, LAMBDA entry : SameNames(entry, path))
         IN /\ at = 0 => \A i \in DOMAIN list : ~SameNames(list[i], path)
            /\ at # 0 => at \in DOMAIN list /\ SameNames(list[at], path)
<1> DEFINE I == {i \in 1 .. Len(list) : SameNames(list[i], path)}
           at == SelectInSeq(list, LAMBDA entry : SameNames(entry, path))
           Is(x) == x \in I /\ \A y \in I : x <= y
<1>1. DOMAIN list = 1 .. Len(list) /\ Len(list) \in Nat
  BY LenProperties
<1>2. (I # {} => at = Min(I)) /\ (I = {} => at = 0)
  BY DEF SelectInSeq
<1>3. ASSUME I # {} PROVE Min(I) \in I
  <2>1. I \in SUBSET Nat
    BY <1>1
  <2> HIDE DEF I
  <2>2. \E x \in I : \A y \in I : x <= y
    BY <1>3, <2>1, Least
  <2> QED BY <2>2 DEF Min
<1> HIDE DEF at
<1> QED BY <1>1, <1>2, <1>3 DEF at

(* A patch command works on a subproject in its own directory only.        *)
LEMMA SelectedFollows ==
  ASSUME TypeOK, ListsInv
  PROVE  SelectedIsHere
<1> SUFFICES ASSUME NEW d \in dirs, IsConfigured(d), Flat(Toplevel(d))
             PROVE  WorksOn(d) = IF Contains(conf[Toplevel(d)], SuperToCwd(d)) THEN SuperToCwd(d) ELSE NoPlace
  BY DEF SelectedIsHere
<1> DEFINE r == Toplevel(d)
           list == conf[r]
           s == SuperToCwd(d)
           at == SelectInSeq(list, LAMBDA entry : SameNames(entry, s))
<1>1. d \in Place /\ r # NoPlace /\ list # NoFile
  BY DEF TypeOK, IsConfigured
<1>2. r \in Place /\ s \in Seq(Nat) /\ list \in Seq(Seq(Nat))
  BY <1>1, ToplevelFacts DEF TypeOK
<1>3. /\ at = 0 => \A i \in DOMAIN list : ~SameNames(list[i], s)
      /\ at # 0 => at \in DOMAIN list /\ SameNames(list[at], s)
  BY <1>2, SelectedFacts
<1>4. Selected(d) = IF at = 0 THEN NoPlace ELSE list[at]
  BY DEF Selected
<1>5. \A i, j \in DOMAIN list : ~Below(list[i], list[j])
  BY DEF Flat
<1>6. \A i \in DOMAIN list : list[i] # <<>>
  BY <1>1, <1>2 DEF ListsInv
<1>7. Contains(list, s) <=> \E i \in DOMAIN list : list[i] = s
  BY <1>2, LenProperties DEF Contains
<1>8. WorksOn(d) = IF Selected(d) # NoPlace /\ Len(Selected(d)) = Len(s) THEN Selected(d) ELSE NoPlace
  BY DEF WorksOn
<1> HIDE DEF r, list, s, at
<1>9. \A i \in DOMAIN list : list[i] \in Seq(Nat) /\ list[i] # NoPlace
  BY <1>2, ElementOfSeq, LenProperties, SentinelAssumption
<1>10. ASSUME NEW e \in Seq(Nat), SameNames(e, s)
       PROVE  /\ Len(e) = Len(s) => e = s
              /\ IsPrefix(e, s) \/ IsPrefix(s, e)
  <2>1. /\ DOMAIN e = 1 .. Len(e) /\ DOMAIN s = 1 .. Len(s) /\ Len(e) \in Nat /\ Len(s) \in Nat
        /\ \A i \in DOMAIN e \cap DOMAIN s : e[i] = s[i]
    BY <1>2, <1>10, LenProperties DEF SameNames
  <2>2. Len(e) = Len(s) => e = s
    BY <1>2, <2>1, SeqEqual
  <2>3. Len(e) <= Len(s) => IsPrefix(e, s)
    <3>1. Len(e) <= Len(s) => \A i \in 1 .. Len(e) : e[i] = s[i]
      BY <2>1
    <3> QED BY <1>2, <3>1, PrefixIs
  <2>4. Len(s) <= Len(e) => IsPrefix(s, e)
    <3>1. Len(s) <= Len(e) => \A i \in 1 .. Len(s) : s[i] = e[i]
      BY <2>1
    <3> QED BY <1>2, <3>1, PrefixIs
  <2>5. Len(e) <= Len(s) \/ Len(s) <= Len(e)
    BY <2>1
  <2> QED BY <2>2, <2>3, <2>4, <2>5
<1>11. CASE Contains(list, s)
  <2>1. PICK i \in DOMAIN list : list[i] = s
    BY <1>7, <1>11
  <2>2. SameNames(list[i], s)
    BY <1>6, <2>1 DEF SameNames
  <2>3. at \in DOMAIN list /\ SameNames(list[at], s) /\ Selected(d) = list[at]
    BY <1>3, <1>4, <2>2
  <2>4. ~Below(list[at], s) /\ ~Below(s, list[at])
    BY <1>5, <2>1, <2>3
  <2>5. list[at] = s
    BY <1>9, <1>10, <2>3, <2>4 DEF Below, IsStrictPrefix
  <2>6. WorksOn(d) = s
    BY <1>8, <1>9, <2>3, <2>5
  <2> QED BY <1>11, <2>6 DEF r, list, s
<1>12. CASE ~Contains(list, s)
  <2>1. WorksOn(d) = NoPlace
    <3> SUFFICES ASSUME Selected(d) # NoPlace, Len(Selected(d)) = Len(s) PROVE FALSE
      BY <1>8
    <3>1. at \in DOMAIN list /\ SameNames(list[at], s) /\ Selected(d) = list[at]
      BY <1>3, <1>4
    <3>2. list[at] = s
      BY <1>9, <1>10, <3>1
    <3> QED BY <1>7, <1>12, <3>1, <3>2
  <2> QED BY <1>12, <2>1 DEF r, list, s
<1> QED BY <1>11, <1>12

(* In no directory of a superproject does a patch command take one         *)
(* subproject for another one.                                             *)
THEOREM OnlyInItsDirectory == Spec => []SelectedIsHere
<1>1. TypeOK /\ SuperInv => SelectedIsHere
  BY SelectedFollows DEF SuperInv
<1> QED BY <1>1, SuperInvariant, PTL

-----------------------------------------------------------------------------
(* What follows for each step.                                             *)

(* No command makes or removes a repository or a .subpatch file, but for   *)
(* the new ones beside the .git of a superproject.                         *)
LEMMA NewConfigurations ==
  ASSUME TypeOK, DirsInv, [Next]_vars
  PROVE  /\ repos' = repos
         /\ \A q \in Place : conf[q] # NoFile => conf'[q] # NoFile
         /\ \A q \in Place : conf'[q] # NoFile => conf[q] # NoFile \/ q \in repos
<1>1. CASE UNCHANGED vars
  BY <1>1 DEF vars
<1>2. ASSUME NEW d \in dirs, NEW top, top = Toplevel(d), top # NoPlace, repos' = repos,
             \A q \in Place \ {top} : conf'[q] = conf[q], conf'[top] # NoFile
      PROVE  /\ repos' = repos
             /\ \A q \in Place : conf[q] # NoFile => conf'[q] # NoFile
             /\ \A q \in Place : conf'[q] # NoFile => conf[q] # NoFile \/ q \in repos
  <2>1. top \in repos
    BY <1>2, ToplevelFacts DEF TypeOK
  <2> QED BY <1>2, <2>1
<1>3. <<>> # NoFile /\ \A list \in Seq(Seq(Nat)) : list # NoFile
  <2>1. <<>> \in Seq(Seq(Nat))
    OBVIOUS
  <2> QED BY <2>1, SentinelAssumption
<1>4. ASSUME NEW d \in dirs, Configure(d)
      PROVE  /\ repos' = repos
             /\ \A q \in Place : conf[q] # NoFile => conf'[q] # NoFile
             /\ \A q \in Place : conf'[q] # NoFile => conf[q] # NoFile \/ q \in repos
  <2> DEFINE top == Toplevel(d)
             list == <<>>
  <2>1. top # NoPlace /\ conf' = [conf EXCEPT ![top] = list] /\ repos' = repos
    BY <1>4 DEF Configure
  <2>2. top \in Place
    BY <2>1, ToplevelFacts DEF TypeOK
  <2>3. list # NoFile
    BY <1>3
  <2>4. top = Toplevel(d)
    OBVIOUS
  <2> HIDE DEF top, list
  <2>5. (\A q \in Place \ {top} : conf'[q] = conf[q]) /\ conf'[top] = list
    BY <2>1, <2>2 DEF TypeOK
  <2> QED BY <1>2, <2>1, <2>3, <2>4, <2>5
<1>5. ASSUME NEW d \in dirs, NEW arg \in Arg, NEW url \in Url \cup {Remote, Empty}, InReach(d, arg), Inits(d, arg, url)
      PROVE  /\ repos' = repos
             /\ \A q \in Place : conf[q] # NoFile => conf'[q] # NoFile
             /\ \A q \in Place : conf'[q] # NoFile => conf[q] # NoFile \/ q \in repos
  <2> DEFINE top == Toplevel(d)
             list == ListOrNew(d)
             entry == SuperToSub(d, arg)
  <2>1. /\ list \in Seq(Seq(Nat)) /\ entry \in Seq(Nat)
        /\ conf'[top] = (IF IsInside(d, arg) THEN WithEntry(list, entry) ELSE list)
        /\ \A q \in Place \ {top} : conf'[q] = conf[q]
    BY <1>5, InitsFacts
  <2>2. top # NoPlace /\ repos' = repos /\ top = Toplevel(d)
    BY <1>5 DEF Inits
  <2>3. WithEntry(list, entry) \in Seq(Seq(Nat))
    BY <2>1, WithEntryHas
  <2> HIDE DEF top, list, entry
  <2>4. conf'[top] # NoFile
    BY <1>3, <2>1, <2>3
  <2> QED BY <1>2, <2>1, <2>2, <2>4
<1>6. ASSUME NEW d \in dirs, NEW arg \in Arg, NEW given \in Url \cup {Remote, Empty}, Update(d, arg, given)
      PROVE  repos' = repos /\ conf' = conf
  BY <1>6 DEF Update
<1> QED BY <1>1, <1>4, <1>5, <1>6, StepIs

(* A command leaves every directory in the superproject it is in.          *)
THEOREM StaysInSuperproject == Spec => SuperprojectStays
<1>1. ASSUME TypeOK, SuperInv, [Next]_vars, NEW d \in dirs, NEW r, r = Toplevel(d), r # NoPlace,
             conf[r] # NoFile \/ repos \cap Searched[r] = {r}
      PROVE  Toplevel(d)' = r
  <2> DEFINE C == {p \in Place : conf[p] # NoFile}
             D == {p \in Place : conf'[p] # NoFile}
             R == repos \cap Searched[d]
  <2>1. repos' = repos /\ C \subseteq D /\ D \subseteq C \cup repos
    BY <1>1, NewConfigurations DEF SuperInv
  <2>2. /\ d \in Place /\ r = Repository(d) /\ Configuration(d) \in {NoPlace, r}
        /\ r \in R /\ r \in Place /\ r \in Seq(Name) /\ d \in Seq(Name) /\ IsPrefix(r, d)
    BY <1>1, ToplevelFacts DEF TypeOK
  <2>3. Repository(d)' = r
    BY <2>1, <2>2 DEF Repository
  <2>4. Configuration(d) = Nearest(C, d) /\ Configuration(d)' = Nearest(D, d)
    BY DEF Configuration
  <2>5. \A q \in R : Len(q) <= Len(r)
    BY <1>1, <2>2, NearestFacts DEF Repository
  <2>6. r \in C <=> conf[r] # NoFile
    BY <2>2
  <2> HIDE DEF C, D
  <2>7. /\ Nearest(C, d) # NoPlace => Nearest(C, d) \in C /\ \A q \in C \cap Searched[d] : Len(q) <= Len(Nearest(C, d))
        /\ Nearest(C, d) = NoPlace => C \cap Searched[d] = {}
    BY <2>2, NearestFacts
  <2>8. CASE conf[r] # NoFile
    <3>1. Nearest(C, d) = r
      BY <2>2, <2>4, <2>6, <2>7, <2>8
    <3>2. r \in D \cap Searched[d] /\ \A q \in D \cap Searched[d] : Len(q) <= Len(r)
      BY <1>1, <2>1, <2>2, <2>5, <2>6, <2>7, <2>8, <3>1
    <3>3. Nearest(D, d) = r
      BY <2>2, <3>2, NearestFacts
    <3> QED BY <2>3, <2>4, <3>3 DEF Toplevel
  <2>9. CASE conf[r] = NoFile
    <3>1. C \cap Searched[d] = {}
      BY <2>2, <2>4, <2>6, <2>7, <2>9
    <3>2. ASSUME NEW q \in D \cap Searched[d] PROVE q = r
      <4>1. q \in R /\ Len(q) <= Len(r)
        BY <2>1, <2>5, <3>1
      <4>2. q \in Seq(Name) /\ IsPrefix(q, d)
        BY <2>2, <4>1, SearchedFacts
      <4>3. IsPrefix(q, r)
        BY <2>2, <4>1, <4>2, PrefixChain
      <4>4. q \in repos \cap Searched[r]
        BY <2>2, <4>1, <4>3, SearchedBetween
      <4> QED BY <1>1, <2>9, <4>4
    <3>3. Nearest(D, d) \in {r, NoPlace}
      <4>1. Nearest(D, d) # NoPlace => Nearest(D, d) \in D \cap Searched[d]
        BY <2>2, NearestFacts
      <4> QED BY <3>2, <4>1
    <3> QED BY <2>3, <2>4, <3>3 DEF Toplevel
  <2> QED BY <2>8, <2>9
<1>2. ASSUME TypeOK, SuperInv, [Next]_vars
      PROVE  \A d \in dirs \cap dirs' :
               LET r == Toplevel(d)
               IN r # NoPlace /\ (conf[r] # NoFile \/ repos \cap Searched[r] = {r}) => Toplevel(d)' = r
  BY <1>1, <1>2
<1> QED BY <1>2, SuperInvariant, PTL DEF Spec, SuperprojectStays

(* In a directory where the search finds r, and r lists it, the patch      *)
(* commands find r and that entry.                                         *)
LEMMA FoundThere ==
  ASSUME SelectedIsHere', NEW r \in Place, NEW t \in Place, t \in dirs', Flat(r)',
         conf'[r] \in Seq(Seq(Nat)), \E i \in DOMAIN conf'[r] : conf'[r][i] = Rel(t, r),
         r \in repos' \cap Searched[t], \A q \in repos' \cap Searched[t] : Len(q) <= Len(r),
         \A q \in Place \cap Searched[t] : conf'[q] # NoFile => Len(q) <= Len(r)
  PROVE  Toplevel(t)' = r /\ WorksOn(t)' = Rel(t, r)
<1> DEFINE D == {p \in Place : conf'[p] # NoFile}
<1>1. r \in Seq(Name) /\ t \in Seq(Name) /\ IsPrefix(r, t) /\ conf'[r] # NoFile /\ r # NoPlace
  BY SearchedFacts, SentinelAssumption, SeqMonotonic DEF Name
<1>2. Repository(t)' = r
  <2>1. Nearest(repos', t) = r
    BY NearestFacts
  <2> QED BY <2>1 DEF Repository
<1>3. Configuration(t)' = r
  <2>1. r \in D \cap Searched[t] /\ \A q \in D \cap Searched[t] : Len(q) <= Len(r)
    BY <1>1
  <2>2. Configuration(t)' = Nearest(D, t)
    BY DEF Configuration
  <2> HIDE DEF D
  <2> QED BY <2>1, <2>2, NearestFacts
<1>4. Toplevel(t)' = r
  BY <1>2, <1>3 DEF Toplevel
<1>5. IsConfigured(t)' /\ Flat(Toplevel(t))'
  BY <1>1, <1>4 DEF IsConfigured, Flat
<1>6. SuperToCwd(t)' = Rel(t, r)
  <2>1. SuperToCwd(t)' = SubSeq(t, Len(r) + 1, Len(t))
    BY <1>4 DEF SuperToCwd
  <2> QED BY <1>1, <2>1, RelBelow
<1>7. Contains(conf'[r], Rel(t, r))
  BY LenProperties DEF Contains
<1>8. WorksOn(t)' = IF Contains(conf'[r], Rel(t, r)) THEN Rel(t, r) ELSE NoPlace
  BY <1>4, <1>5, <1>6 DEF SelectedIsHere
<1> QED BY <1>4, <1>7, <1>8

(* What a command lists in one directory, the patch commands find in the   *)
(* directory of the new subproject.                                        *)
THEOREM FoundWhereListed == Spec => ListedThenFound
<1> DEFINE Finds(r) ==
             \E p \in dirs' \ dirs :
               /\ ToSet(conf'[r]) = {Rel(p, r)} \cup (IF conf[r] = NoFile THEN {} ELSE ToSet(conf[r]))
               /\ Filesystem(p) = Filesystem(r) /\ (\A q \in Prefixes(p) : Below(q, r) => conf[q] = NoFile) =>
                    Toplevel(p)' = r /\ WorksOn(p)' = Rel(p, r)
<1>1. ASSUME TypeOK, SuperInv, SelectedIsHere', NEW r \in Place, conf'[r] # conf[r], conf'[r] # <<>>, Flat(r)',
             NEW d \in dirs, NEW arg \in Arg, NEW url \in Url \cup {Remote, Empty}, InReach(d, arg), Inits(d, arg, url)
      PROVE  Finds(r)
  <2> DEFINE t == Resolve(d, arg)
             list == ListOrNew(d)
             entry == SuperToSub(d, arg)
  <2>1. /\ d \in Place /\ arg \in Seq(Nat) /\ t \in Place /\ t \notin dirs
        /\ list \in Seq(Seq(Nat)) /\ entry \in Seq(Nat) /\ dirs' = dirs \cup Prefixes(t)
        /\ conf[Toplevel(d)] = NoFile => list = <<>>
        /\ conf[Toplevel(d)] # NoFile => list = conf[Toplevel(d)]
        /\ conf'[Toplevel(d)] = (IF IsInside(d, arg) THEN WithEntry(list, entry) ELSE list)
        /\ \A q \in Place \ {Toplevel(d)} : conf'[q] = conf[q]
    BY <1>1, InitsFacts DEF SuperInv
  <2>2. Toplevel(d) # NoPlace /\ repos' = repos
    BY <1>1 DEF Inits
  <2>3. r = Toplevel(d) /\ IsInside(d, arg)
    BY <1>1, <2>1
  <2>4. /\ r \in repos /\ r \in Seq(Name) /\ t \in Seq(Name) /\ IsPrefix(r, t) /\ entry = Rel(t, r)
        /\ \A s \in repos : IsPrefix(s, t) => ~Below(s, r)
    BY <1>1, <2>1, <2>2, <2>3, ToplevelFacts, InsideFacts, ReachFacts
  <2> HIDE DEF t, list, entry
  <2>5. conf'[r] = WithEntry(list, entry)
    BY <2>1, <2>3
  <2>6. conf'[r] \in Seq(Seq(Nat)) /\ HasEntry(conf'[r], list, entry)
    BY <2>1, <2>5, WithEntryHas
  <2>7. t \in dirs' \ dirs
    BY <2>1, <2>4, PrefixesFacts
  <2>8. ToSet(conf'[r]) = {Rel(t, r)} \cup (IF conf[r] = NoFile THEN {} ELSE ToSet(conf[r]))
    <3>1. ToSet(conf'[r]) = ToSet(list) \cup {Rel(t, r)}
      BY <2>4, <2>6 DEF HasEntry
    <3>2. list = <<>> => ToSet(list) = {}
      BY DEF ToSet
    <3> QED BY <2>1, <2>3, <3>1, <3>2
  <2>9. ASSUME Filesystem(t) = Filesystem(r), \A q \in Prefixes(t) : Below(q, r) => conf[q] = NoFile
        PROVE  Toplevel(t)' = r /\ WorksOn(t)' = Rel(t, r)
    <3>1. r \in Searched[t]
      BY <2>1, <2>4, <2>9, SearchedFacts, PrefixesFacts
    <3>2. ASSUME NEW q \in Searched[t], ~(Len(q) <= Len(r)) PROVE Below(q, r) /\ IsPrefix(q, t) /\ q \in Prefixes(t) /\ q # r
      <4>1. q \in Seq(Name) /\ IsPrefix(q, t) /\ q \in Prefixes(t)
        BY <2>1, SearchedFacts
      <4>2. Len(q) \in Nat /\ Len(r) \in Nat
        BY <2>4, <4>1, LenProperties
      <4>3. Below(q, r)
        BY <2>4, <3>2, <4>1, <4>2, PrefixChain
      <4> QED BY <4>1, <4>3 DEF Below, IsStrictPrefix
    <3>3. \A q \in repos' \cap Searched[t] : Len(q) <= Len(r)
      BY <2>2, <2>4, <3>2
    <3>4. \A q \in Place \cap Searched[t] : conf'[q] # NoFile => Len(q) <= Len(r)
      BY <2>1, <2>3, <2>9, <3>2
    <3>5. \E i \in DOMAIN conf'[r] : conf'[r][i] = Rel(t, r)
      BY <2>4, <2>6 DEF HasEntry
    <3>6. r \in repos' \cap Searched[t]
      BY <2>2, <2>4, <3>1
    <3> QED BY <1>1, <2>1, <2>6, <2>7, <3>3, <3>4, <3>5, <3>6, FoundThere
  <2> QED BY <2>7, <2>8, <2>9
<1>2. ASSUME TypeOK, SuperInv, [Next]_vars, SelectedIsHere', NEW r \in Place, conf'[r] # conf[r], conf'[r] # <<>>, Flat(r)'
      PROVE  Finds(r)
  <2> HIDE DEF Finds
  <2>1. ASSUME UNCHANGED vars PROVE FALSE
    BY <1>2, <2>1 DEF vars
  <2>2. ASSUME NEW d \in dirs, Configure(d) PROVE FALSE
    <3> DEFINE top == Toplevel(d)
               list == <<>>
    <3>1. conf' = [conf EXCEPT ![top] = list]
      BY <2>2 DEF Configure
    <3> HIDE DEF top
    <3>2. conf'[r] = conf[r] \/ conf'[r] = list
      BY <1>2, <3>1 DEF TypeOK
    <3> QED BY <1>2, <3>2
  <2>3. ASSUME NEW d \in dirs, NEW arg \in Arg, NEW given \in Url \cup {Remote, Empty}, Update(d, arg, given) PROVE FALSE
    BY <1>2, <2>3 DEF Update
  <2> QED BY <1>1, <1>2, <2>1, <2>2, <2>3, StepIs
<1>3. TypeOK /\ SuperInv /\ [Next]_vars /\ SelectedIsHere' =>
        [\A r \in Place : conf'[r] # conf[r] /\ conf'[r] # <<>> /\ Flat(r)' => Finds(r)]_vars
  <2> HIDE DEF Finds
  <2> QED BY <1>2
<1> QED BY <1>3, SuperInvariant, OnlyInItsDirectory, PTL DEF Spec, ListedThenFound
=============================================================================
