------------------------- MODULE PatchStackProofs -------------------------
(***************************************************************************)
(* Proofs about PatchStack: the inductive invariant StackInv, and from it  *)
(* the safety properties of the patch commands for every set of files,     *)
(* contents, patch names, releases and patch files.                        *)
(***************************************************************************)
EXTENDS PatchStack, FiniteSetTheorems, Induction

-----------------------------------------------------------------------------
(* Diffs.                                                                  *)

(* Reversing a patch and applying a patch yield a patch and a tree.        *)
LEMMA DiffTypes ==
  ASSUME NEW d \in Diff, NEW t \in Tree
  PROVE  Reversed(d) \in Diff /\ Patched(d, t) \in Tree
<1>1. PICK S \in SUBSET File : d \in [S -> Hunk]
  BY DEF Diff
<1>2. \A f \in S : d[f].old \in Content /\ d[f].new \in Content /\ d[f].old # d[f].new
  BY <1>1 DEF Hunk
<1>3. Reversed(d) \in [S -> Hunk]
  BY <1>1, <1>2 DEF Reversed, Hunk
<1>4. Patched(d, t) \in Tree
  BY <1>1, <1>2 DEF Patched, Tree
<1> QED BY <1>3, <1>4 DEF Diff

(* "git diff" of two trees is the patch that leads from one to the other.  *)
LEMMA DiffOfTrees ==
  ASSUME NEW t \in Tree, NEW u \in Tree
  PROVE  /\ DiffOf(t, u) \in Diff
         /\ Applies(DiffOf(t, u), t)
         /\ Patched(DiffOf(t, u), t) = u
<1> DEFINE S == {g \in File : t[g] # u[g]}
<1>1. DiffOf(t, u) \in [S -> Hunk]
  BY DEF DiffOf, Hunk, Tree
<1>2. Applies(DiffOf(t, u), t)
  BY DEF DiffOf, Applies
<1>3. Patched(DiffOf(t, u), t) = u
  BY DEF DiffOf, Patched, Tree
<1> QED BY <1>1, <1>2, <1>3 DEF Diff

-----------------------------------------------------------------------------
(* The order of the patch files in a directory.                            *)

(* A directory lists finitely many patch files.                            *)
LEMMA ListingFinite ==
  ASSUME NEW dir
  PROVE  /\ IsFiniteSet(Listing(dir)) /\ Count(dir) \in Nat
         /\ \A n \in Name : /\ IsFiniteSet({m \in Listing(dir) : m < n})
                            /\ Rank(dir, n) \in Nat
<1>1. IsFiniteSet(Listing(dir))
  BY NameAssumption, FS_Subset DEF Listing
<1>2. ASSUME NEW n \in Name PROVE IsFiniteSet({m \in Listing(dir) : m < n})
  BY <1>1, FS_Subset
<1> QED BY <1>1, <1>2, FS_CardinalityType DEF Count, Rank

(* Every listed patch has an index below the count.                        *)
LEMMA RankBelowCount ==
  ASSUME NEW dir, NEW n \in Listing(dir)
  PROVE  Rank(dir, n) <= Count(dir) - 1
<1> DEFINE S == {m \in Listing(dir) : m < n}
<1>1. n \in Name /\ n \in Nat
  BY NameAssumption DEF Listing
<1>2. S \subseteq Listing(dir) \ {n}
  BY <1>1
<1>3. IsFiniteSet(Listing(dir) \ {n}) /\ Cardinality(Listing(dir) \ {n}) = Count(dir) - 1
  BY ListingFinite, FS_RemoveElement DEF Count
<1>4. Cardinality(S) <= Cardinality(Listing(dir) \ {n})
  BY <1>2, <1>3, FS_Subset
<1> QED BY <1>3, <1>4 DEF Rank

(* Sort order and index agree.                                             *)
LEMMA RankOrder ==
  ASSUME NEW dir, NEW n \in Listing(dir), NEW m \in Listing(dir)
  PROVE  n < m <=> Rank(dir, n) < Rank(dir, m)
<1> DEFINE B(x) == {k \in Listing(dir) : k < x}
<1>1. \A x \in Listing(dir) : x \in Name /\ x \in Nat
  BY NameAssumption DEF Listing
<1>2. ASSUME NEW x \in Listing(dir), NEW y \in Listing(dir), x < y
      PROVE  Rank(dir, x) < Rank(dir, y)
  <2>1. IsFiniteSet(B(x)) /\ IsFiniteSet(B(y)) /\ x \notin B(x)
    BY <1>1, ListingFinite
  <2>2. B(x) \cup {x} \subseteq B(y)
    BY <1>1, <1>2
  <2>3. Cardinality(B(x) \cup {x}) = Cardinality(B(x)) + 1
    BY <2>1, FS_AddElement
  <2>4. Cardinality(B(x) \cup {x}) <= Cardinality(B(y))
    BY <2>1, <2>2, FS_Subset
  <2>5. Cardinality(B(x)) \in Nat /\ Cardinality(B(y)) \in Nat
    BY <2>1, FS_CardinalityType
  <2> QED BY <2>3, <2>4, <2>5 DEF Rank
<1>3. Rank(dir, n) \in Nat /\ Rank(dir, m) \in Nat
  BY <1>1, ListingFinite
<1> QED BY <1>1, <1>2, <1>3

(* All patches are applied at the last index, none at -1.                  *)
LEMMA UpToEnds ==
  ASSUME NEW dir
  PROVE  UpTo(dir, Count(dir) - 1) = Listing(dir) /\ UpTo(dir, -1) = {}
<1>1. \A n \in Listing(dir) : Rank(dir, n) \in Nat
  BY ListingFinite, NameAssumption DEF Listing
<1> QED BY <1>1, RankBelowCount DEF UpTo

-----------------------------------------------------------------------------
(* Stacks of patches.                                                      *)

(* A stack depends on the patch files in it only.                          *)
LEMMA StackedSame ==
  ASSUME NEW b, NEW t, NEW dir, NEW dir2, NEW on,
         \A n \in on : dir2[n] = dir[n],
         Stacked(b, dir, on, t)
  PROVE  Stacked(b, dir2, on, t)
<1> SUFFICES ASSUME NEW f \in File
             PROVE  LET T == {n \in on : f \in DOMAIN dir2[n]}
                    IN /\ T = {} => t[f] = b[f]
                       /\ \A n \in T :
                            /\ (\A m \in T : m >= n) => dir2[n][f].old = b[f]
                            /\ (\A m \in T : m <= n) => dir2[n][f].new = t[f]
                            /\ \A m \in T : (n < m /\ \A k \in T : k <= n \/ m <= k)
                                 => dir2[n][f].new = dir2[m][f].old
  BY DEF Stacked
<1> DEFINE T == {n \in on : f \in DOMAIN dir[n]}
<1>1. {n \in on : f \in DOMAIN dir2[n]} = T /\ \A n \in T : dir2[n][f] = dir[n][f]
  OBVIOUS
<1>2. /\ T = {} => t[f] = b[f]
      /\ \A n \in T :
           /\ (\A m \in T : m >= n) => dir[n][f].old = b[f]
           /\ (\A m \in T : m <= n) => dir[n][f].new = t[f]
           /\ \A m \in T : (n < m /\ \A k \in T : k <= n \/ m <= k) => dir[n][f].new = dir[m][f].old
  BY DEF Stacked
<1> HIDE DEF T
<1> QED BY <1>1, <1>2

(* A patch that fits goes on top of the stack.                             *)
LEMMA StackedPush ==
  ASSUME NEW b \in Tree, NEW t \in Tree, NEW dir, NEW on \in SUBSET Name, NEW n \in Name,
         \A m \in on : m < n,
         dir[n] \in Diff, Applies(dir[n], t), Stacked(b, dir, on, t)
  PROVE  Stacked(b, dir, on \cup {n}, Patched(dir[n], t))
<1> DEFINE u == Patched(dir[n], t)
           T(f) == {m \in on : f \in DOMAIN dir[m]}
           U(f) == {m \in on \cup {n} : f \in DOMAIN dir[m]}
<1>0. n \in Nat /\ on \subseteq Nat
  BY NameAssumption
<1>1. SUFFICES ASSUME NEW f \in File
               PROVE  /\ U(f) = {} => u[f] = b[f]
                      /\ \A m \in U(f) :
                           /\ (\A k \in U(f) : k >= m) => dir[m][f].old = b[f]
                           /\ (\A k \in U(f) : k <= m) => dir[m][f].new = u[f]
                           /\ \A k \in U(f) : (m < k /\ \A j \in U(f) : j <= m \/ k <= j)
                                => dir[m][f].new = dir[k][f].old
  BY DEF Stacked
<1>2. /\ T(f) = {} => t[f] = b[f]
      /\ \A m \in T(f) :
           /\ (\A k \in T(f) : k >= m) => dir[m][f].old = b[f]
           /\ (\A k \in T(f) : k <= m) => dir[m][f].new = t[f]
           /\ \A k \in T(f) : (m < k /\ \A j \in T(f) : j <= m \/ k <= j)
                => dir[m][f].new = dir[k][f].old
  BY DEF Stacked
<1>3. CASE f \notin DOMAIN dir[n]
  <2>1. U(f) = T(f) BY <1>3
  <2>2. u[f] = t[f] BY <1>3 DEF Patched
  <2> QED BY <1>2, <2>1, <2>2
<1>4. CASE f \in DOMAIN dir[n]
  <2>1. U(f) = T(f) \cup {n} /\ n \notin T(f) /\ T(f) \subseteq Nat
    <3>1. n \notin on BY <1>0
    <3> QED BY <1>0, <1>4, <3>1
  <2>2. u[f] = dir[n][f].new /\ t[f] = dir[n][f].old
    BY <1>4 DEF Patched, Applies
  <2>3. \A m \in T(f) : m < n
    OBVIOUS
  <2>4. U(f) # {} BY <2>1
  <2>5. ASSUME NEW m \in U(f), \A k \in U(f) : k >= m
        PROVE  dir[m][f].old = b[f]
    <3>1. CASE m = n
      <4>1. T(f) = {} BY <1>0, <2>1, <2>3, <2>5, <3>1
      <4> QED BY <1>2, <2>2, <3>1, <4>1
    <3>2. CASE m \in T(f)
      BY <1>2, <2>1, <2>5, <3>2
    <3> QED BY <2>1, <3>1, <3>2
  <2>6. ASSUME NEW m \in U(f), \A k \in U(f) : k <= m
        PROVE  dir[m][f].new = u[f]
    <3>1. m = n BY <1>0, <2>1, <2>3, <2>6
    <3> QED BY <2>2, <3>1
  <2>7. ASSUME NEW m \in U(f), NEW k \in U(f), m < k, \A j \in U(f) : j <= m \/ k <= j
        PROVE  dir[m][f].new = dir[k][f].old
    <3>1. m \in T(f) BY <1>0, <2>1, <2>3, <2>7
    <3>2. CASE k \in T(f)
      BY <1>2, <2>1, <2>7, <3>1, <3>2
    <3>3. CASE k = n
      <4>1. \A j \in T(f) : j <= m
        BY <1>0, <2>1, <2>3, <2>7, <3>3
      <4> QED BY <1>2, <2>2, <3>1, <3>3, <4>1
    <3> QED BY <2>1, <3>2, <3>3
  <2> QED BY <2>4, <2>5, <2>6, <2>7
<1> QED BY <1>3, <1>4

(* The patch on top of the stack can be taken off again.                   *)
LEMMA StackedPop ==
  ASSUME NEW b \in Tree, NEW t \in Tree, NEW dir, NEW on \in SUBSET Name, NEW n \in on,
         \A m \in on : m <= n,
         dir[n] \in Diff, Stacked(b, dir, on, t)
  PROVE  /\ Applies(Reversed(dir[n]), t)
         /\ Stacked(b, dir, on \ {n}, Patched(Reversed(dir[n]), t))
<1> DEFINE u == Patched(Reversed(dir[n]), t)
           T(f) == {m \in on : f \in DOMAIN dir[m]}
           U(f) == {m \in on \ {n} : f \in DOMAIN dir[m]}
<1>0. n \in Nat /\ on \subseteq Nat
  BY NameAssumption
<1>1. DOMAIN dir[n] \subseteq File /\ DOMAIN Reversed(dir[n]) = DOMAIN dir[n]
  BY DEF Diff, Reversed
<1>2. ASSUME NEW f \in File
      PROVE  /\ T(f) = {} => t[f] = b[f]
             /\ \A m \in T(f) :
                  /\ (\A k \in T(f) : k >= m) => dir[m][f].old = b[f]
                  /\ (\A k \in T(f) : k <= m) => dir[m][f].new = t[f]
                  /\ \A k \in T(f) : (m < k /\ \A j \in T(f) : j <= m \/ k <= j)
                       => dir[m][f].new = dir[k][f].old
  BY DEF Stacked
<1>3. Applies(Reversed(dir[n]), t)
  <2>1. ASSUME NEW f \in DOMAIN dir[n] PROVE t[f] = dir[n][f].new
    BY <1>1, <1>2
  <2> QED BY <1>1, <2>1 DEF Applies, Reversed
<1>4. ASSUME NEW f \in File
      PROVE  /\ U(f) = {} => u[f] = b[f]
             /\ \A m \in U(f) :
                  /\ (\A k \in U(f) : k >= m) => dir[m][f].old = b[f]
                  /\ (\A k \in U(f) : k <= m) => dir[m][f].new = u[f]
                  /\ \A k \in U(f) : (m < k /\ \A j \in U(f) : j <= m \/ k <= j)
                       => dir[m][f].new = dir[k][f].old
  <2>1. CASE f \notin DOMAIN dir[n]
    <3>1. U(f) = T(f) BY <2>1
    <3>2. u[f] = t[f] BY <1>1, <2>1 DEF Patched
    <3> QED BY <1>2, <3>1, <3>2
  <2>2. CASE f \in DOMAIN dir[n]
    <3>1. T(f) = U(f) \cup {n} /\ n \notin U(f) /\ U(f) \subseteq Nat
      BY <1>0, <2>2
    <3>2. u[f] = dir[n][f].old
      BY <1>1, <2>2 DEF Patched, Reversed
    <3>3. \A m \in U(f) : m < n
      BY <1>0
    <3>4. U(f) = {} => u[f] = b[f]
      BY <1>0, <1>2, <3>1, <3>2
    <3>5. ASSUME NEW m \in U(f), \A k \in U(f) : k >= m
          PROVE  dir[m][f].old = b[f]
      <4>1. \A k \in T(f) : k >= m BY <1>0, <3>1, <3>3, <3>5
      <4> QED BY <1>2, <3>1, <4>1
    <3>6. ASSUME NEW m \in U(f), \A k \in U(f) : k <= m
          PROVE  dir[m][f].new = u[f]
      <4>1. m < n /\ \A j \in T(f) : j <= m \/ n <= j
        BY <1>0, <3>1, <3>3, <3>6
      <4> QED BY <1>2, <3>1, <3>2, <4>1
    <3>7. ASSUME NEW m \in U(f), NEW k \in U(f), m < k, \A j \in U(f) : j <= m \/ k <= j
          PROVE  dir[m][f].new = dir[k][f].old
      <4>1. \A j \in T(f) : j <= m \/ k <= j BY <1>0, <3>1, <3>3, <3>7
      <4> QED BY <1>2, <3>1, <3>7, <4>1
    <3> QED BY <3>4, <3>5, <3>6, <3>7
  <2> QED BY <2>1, <2>2
<1>5. Stacked(b, dir, on \ {n}, u)
  BY <1>4 DEF Stacked
<1> QED BY <1>3, <1>5

-----------------------------------------------------------------------------
(* Types and control flow.                                                 *)

(* appliedIndex, written or by default, is an integer.                      *)
LEMMA IndexTypes ==
  ASSUME NEW s \in Snapshot
  PROVE  /\ s.files \in Tree /\ s.patches \in PatchDir /\ s.meta \in Meta
         /\ Count(s.patches) \in Nat /\ AppliedIndex(s) \in Int
         /\ Listing(s.patches) \subseteq Name
         /\ \A n \in Listing(s.patches) : s.patches[n] \in Diff
<1>1. Count(s.patches) \in Nat
  BY ListingFinite
<1>2. s.files \in Tree /\ s.patches \in PatchDir /\ s.meta \in Meta
  BY DEF Snapshot
<1>3. AppliedIndex(s) \in Int
  BY <1>1, <1>2 DEF Meta, AppliedIndex
<1>4. Listing(s.patches) \subseteq Name
  BY NameAssumption DEF Listing
<1>5. ASSUME NEW n \in Listing(s.patches) PROVE s.patches[n] \in Diff
  <2>1. n \in Name /\ s.patches[n] # NoPatch
    BY NameAssumption DEF Listing
  <2> QED BY <1>2, <2>1 DEF PatchDir
<1> QED BY <1>1, <1>2, <1>3, <1>4, <1>5

(* What git applies for a listed patch file is a diff.                      *)
LEMMA CommandText ==
  ASSUME ControlInv, NEW n \in cmd.todo, cmd.pc = "git"
  PROVE  /\ n \in Name /\ PatchText(n) \in Diff
         /\ cmd.op \in {"pop", "push"} => work.patches[n] \in Diff
<1>1. work \in Snapshot /\ work.files \in Tree
  BY IndexTypes DEF ControlInv, TypeOK
<1>2. CASE cmd.op = "apply"
  BY <1>2 DEF ControlInv, CmdInv, Idle, PatchText
<1>3. CASE cmd.op \in {"pop", "push"}
  <2>1. n \in Listing(work.patches) BY <1>3 DEF ControlInv, CmdInv, Idle
  <2>2. n \in Name /\ work.patches[n] \in Diff BY <1>1, <2>1, IndexTypes
  <2>3. Reversed(work.patches[n]) \in Diff BY <1>1, <2>2, DiffTypes
  <2> QED BY <1>3, <2>2, <2>3 DEF PatchText
<1> QED BY <1>2, <1>3 DEF ControlInv, CmdInv, Idle

(* A freshly added subproject is well-formed, with no command running.     *)
LEMMA ControlInit == Init => ControlInv
<1> SUFFICES ASSUME Init PROVE ControlInv
  OBVIOUS
<1>1. PICK t \in Release :
        LET s == [files |-> t, patches |-> [n \in Name |-> NoPatch],
                  meta |-> [checksum |-> t, applied |-> NoIndex]]
        IN head = s /\ index = s /\ work = s /\ cmd = Idle /\ lock = Unlocked
           /\ intact = TRUE /\ headIntact = TRUE
  BY DEF Init
<1>2. t \in Tree BY InputAssumption
<1> QED BY <1>1, <1>2 DEF ControlInv, TypeOK, CmdInv, Snapshot, PatchDir, Meta, Command, Idle

(* Every step keeps the types and the control flow of the commands.        *)
LEMMA ControlStep == ControlInv /\ [Next]_vars => ControlInv'
<1> SUFFICES ASSUME ControlInv, [Next]_vars PROVE ControlInv'
  OBVIOUS
<1> USE DEF ControlInv
<1>t. /\ head \in Snapshot /\ index \in Snapshot /\ work \in Snapshot
      /\ cmd \in Command /\ lock \in Tree \cup {Unlocked}
      /\ intact \in BOOLEAN /\ headIntact \in BOOLEAN /\ CmdInv
  BY DEF TypeOK
<1>i. Idle \in Command /\ Idle.op = "none" /\ Idle.pc = "idle"
  BY DEF Idle, Command
<1>1. ASSUME NEW n \in Name, GitApplyPatch(n) PROVE ControlInv'
  <2>1. lock \in Tree /\ PatchText(n) \in Diff
    BY <1>1, CommandText DEF GitApplyPatch
  <2>2. lock' \in Tree /\ work' \in Snapshot /\ work'.patches = work.patches
    BY <1>1, <1>t, <2>1, DiffTypes, IndexTypes DEF GitApplyPatch, Snapshot
  <2>3. cmd' \in Command /\ cmd'.op = cmd.op /\ cmd'.pc = "git" /\ cmd'.todo \subseteq cmd.todo
        /\ cmd'.name = cmd.name /\ cmd'.mail = cmd.mail
    BY <1>1, <1>t DEF GitApplyPatch, Command
  <2>4. CmdInv'
    BY <1>1, <1>t, <1>i, <2>2, <2>3 DEF CmdInv, GitApplyPatch
  <2> QED BY <1>1, <1>t, <2>2, <2>3, <2>4 DEF TypeOK, GitApplyPatch
<1>2. ASSUME NEW n \in Name, GitApplyFails(n) PROVE ControlInv'
  BY <1>2, <1>t, <1>i DEF GitApplyFails, TypeOK, CmdInv
<1>3. ASSUME GitApplyIndex PROVE ControlInv'
  <2>1. lock \in Tree /\ index' \in Snapshot
    BY <1>3, <1>t DEF GitApplyIndex, Snapshot
  <2>2. cmd' \in Command /\ cmd'.op = cmd.op /\ cmd'.todo = cmd.todo
        /\ cmd'.name = cmd.name /\ cmd'.mail = cmd.mail
        /\ cmd'.pc = IF cmd.op = "apply" THEN "copy" ELSE "meta"
    BY <1>3, <1>t DEF GitApplyIndex, Command
  <2>3. CmdInv'
    BY <1>3, <1>t, <1>i, <2>2 DEF CmdInv, GitApplyIndex
  <2> QED BY <1>3, <1>t, <2>1, <2>2, <2>3 DEF TypeOK, GitApplyIndex
<1>4. ASSUME NEW n \in Name, NEW d \in Mail, ApplyStart(n, d) PROVE ControlInv'
  <2>1. d \in Diff BY InputAssumption
  <2>2. cmd' = [op |-> "apply", pc |-> "git", todo |-> {n}, name |-> n, to |-> 0, mail |-> d]
    BY <1>4 DEF ApplyStart, Idle
  <2>3. cmd' \in Command
    BY <2>1, <2>2, NameAssumption DEF Command
  <2>4. CmdInv'
    BY <2>1, <2>2 DEF CmdInv
  <2> QED BY <1>4, <1>t, <2>3, <2>4, IndexTypes DEF ApplyStart, TypeOK
<1>5. ASSUME ApplyCopy PROVE ControlInv'
  <2>1. cmd.op = "apply" /\ cmd.name \in Name /\ cmd.mail \in Diff
    BY <1>5, <1>t, <1>i DEF ApplyCopy, CmdInv
  <2>2. work' \in Snapshot
    BY <1>5, <1>t, <2>1 DEF ApplyCopy, Snapshot, PatchDir
  <2>3. cmd' \in Command /\ CmdInv' /\ cmd'.pc # "git"
    BY <1>5, <1>t, <1>i, <2>1 DEF ApplyCopy, Command, CmdInv
  <2> QED BY <1>5, <1>t, <2>2, <2>3 DEF ApplyCopy, TypeOK
<1>6. ASSUME ApplyAdd PROVE ControlInv'
  <2>1. cmd.name \in Name
    BY <1>6, <1>t, <1>i DEF ApplyAdd, CmdInv
  <2>2. index' \in Snapshot
    BY <1>6, <1>t, <2>1 DEF ApplyAdd, Snapshot, PatchDir
  <2> QED BY <1>6, <1>t, <1>i, <2>2 DEF ApplyAdd, TypeOK, CmdInv
<1>7. ASSUME NEW op \in {"pop", "push"}, NEW target \in Int, cmd = Idle, Move(op, target)
      PROVE  ControlInv'
  <2> DEFINE names == cmd'.todo
  <2>1. names \subseteq Listing(work.patches) /\ names \subseteq Name
    BY <1>7, <1>t, IndexTypes DEF Move, UpTo, Idle
  <2>2. \E N : cmd' = [op |-> op, pc |-> "git", todo |-> N, name |-> 0, to |-> target, mail |-> NoPatch]
    BY <1>7 DEF Move, Idle
  <2>3. cmd' \in Command /\ cmd'.op = op /\ cmd'.pc = "git"
    BY <2>1, <2>2 DEF Command
  <2>4. lock' \in Tree
    BY <1>7, <1>t, IndexTypes DEF Move
  <2>5. CmdInv'
    BY <1>7, <2>1, <2>3 DEF Move, CmdInv
  <2> QED BY <1>7, <1>t, <2>3, <2>4, <2>5 DEF Move, TypeOK
<1>8. ASSUME NEW all \in BOOLEAN, PopStart(all) PROVE ControlInv'
  BY <1>7, <1>8, <1>t, IndexTypes DEF PopStart
<1>9. ASSUME NEW all \in BOOLEAN, PushStart(all) PROVE ControlInv'
  BY <1>7, <1>9, <1>t, IndexTypes DEF PushStart
<1>10. ASSUME MoveMeta PROVE ControlInv'
  <2>1. Recorded(cmd.to) \in Int \cup {NoIndex}
    BY <1>t DEF Recorded, Command
  <2>2. work' \in Snapshot /\ work'.patches = work.patches
    BY <1>10, <1>t, <2>1 DEF MoveMeta, Snapshot, Meta
  <2>3. cmd' \in Command /\ cmd'.pc = "add" /\ cmd'.op = cmd.op /\ cmd'.todo = cmd.todo
    BY <1>10, <1>t DEF MoveMeta, Command
  <2>4. cmd.op \in {"pop", "push"} /\ cmd.todo \subseteq Listing(work.patches)
    BY <1>10, <1>t, <1>i DEF MoveMeta, CmdInv
  <2>5. CmdInv'
    BY <2>2, <2>3, <2>4 DEF CmdInv
  <2> QED BY <1>10, <1>t, <2>2, <2>3, <2>5 DEF MoveMeta, TypeOK
<1>11. ASSUME MoveAdd PROVE ControlInv'
  <2>1. index' \in Snapshot
    BY <1>11, <1>t DEF MoveAdd, Snapshot
  <2> QED BY <1>11, <1>t, <1>i, <2>1 DEF MoveAdd, TypeOK, CmdInv
<1>12. ASSUME NEW n \in Name, SyncWrite(n) PROVE ControlInv'
  <2> DEFINE d == DiffOf(head.files, index.files)
  <2>1. d \in Diff BY <1>t, IndexTypes, DiffOfTrees
  <2>2. work' \in Snapshot /\ work'.meta = work.meta
        /\ work'.patches = [work.patches EXCEPT ![n] = d] /\ work'.patches[n] = d
    BY <1>12, <1>t, <2>1 DEF SyncWrite, Snapshot, PatchDir
  <2>3. Listing(work'.patches) = Listing(work.patches)
    BY <1>12, <1>t, <2>1, <2>2, SentinelAssumption DEF SyncWrite, Listing, Snapshot, PatchDir
  <2>4. /\ Rank(work'.patches, n) = Rank(work.patches, n)
        /\ AppliedIndex(work') = AppliedIndex(work)
    BY <2>2, <2>3 DEF Rank, AppliedIndex, Count
  <2>5. cmd' = [op |-> "sync", pc |-> "add", todo |-> {}, name |-> n, to |-> 0, mail |-> NoPatch]
    BY <1>12 DEF SyncWrite, Idle
  <2>8. cmd' \in Command
    BY <2>5, NameAssumption DEF Command
  <2>6. Rank(work.patches, n) \in Nat BY ListingFinite
  <2>7. CmdInv'
    BY <1>12, <2>2, <2>3, <2>4, <2>5, <2>6 DEF SyncWrite, CmdInv, UpTo
  <2> QED BY <1>12, <1>t, <2>2, <2>5, <2>7, <2>8 DEF SyncWrite, TypeOK
<1>13. ASSUME SyncAdd PROVE ControlInv'
  <2>1. cmd.name \in Name
    BY <1>13, <1>t, <1>i, NameAssumption DEF SyncAdd, CmdInv, UpTo, Listing
  <2>2. index' \in Snapshot
    BY <1>13, <1>t, <2>1 DEF SyncAdd, Snapshot, PatchDir
  <2>3. intact' \in BOOLEAN
    BY <1>13 DEF SyncAdd, OnTopOfHead
  <2> QED BY <1>13, <1>t, <1>i, <2>2, <2>3 DEF SyncAdd, TypeOK, CmdInv
<1>14. ASSUME NEW t \in Release, Update(t) PROVE ControlInv'
  <2>1. t \in Tree BY InputAssumption
  <2>2. Unpacked(t, index.files, work.files) \in Tree
    BY <1>t, <2>1, IndexTypes DEF Unpacked, Tree, Content
  <2>3. work' \in Snapshot /\ index' \in Snapshot
    BY <1>14, <1>t, <2>1, <2>2 DEF Update, Snapshot, Meta
  <2> QED BY <1>14, <1>t, <1>i, <2>3 DEF Update, TypeOK, CmdInv
<1>15. ASSUME ChecksumWrite PROVE ControlInv'
  <2>1. work' \in Snapshot
    BY <1>15, <1>t, IndexTypes DEF ChecksumWrite, Snapshot, Meta
  <2> QED BY <1>15, <1>t, <1>i, <2>1 DEF ChecksumWrite, TypeOK, CmdInv
<1>16. ASSUME NEW f \in File, NEW v \in Content, Edit(f, v) PROVE ControlInv'
  <2>1. work' \in Snapshot
    BY <1>16, <1>t DEF Edit, Snapshot, Tree
  <2> QED BY <1>16, <1>t, <1>i, <2>1 DEF Edit, TypeOK, CmdInv
<1>17. ASSUME Stage PROVE ControlInv'
  BY <1>17, <1>t, <1>i DEF Stage, TypeOK, CmdInv
<1>18. ASSUME Commit PROVE ControlInv'
  BY <1>18, <1>t, <1>i DEF Commit, TypeOK, CmdInv
<1>19. ASSUME ResetMerge PROVE ControlInv'
  <2>1. work' \in Snapshot
    BY <1>19, <1>t DEF ResetMerge, Merged, Snapshot, Tree, PatchDir
  <2> QED BY <1>19, <1>t, <1>i, <2>1 DEF ResetMerge, TypeOK, CmdInv
<1>20. ASSUME ResetHard PROVE ControlInv'
  BY <1>20, <1>t, <1>i DEF ResetHard, TypeOK, CmdInv
<1>21. ASSUME Interrupt PROVE ControlInv'
  BY <1>21, <1>t, <1>i DEF Interrupt, TypeOK, CmdInv
<1>22. ASSUME UNCHANGED vars PROVE ControlInv'
  BY <1>22, <1>t DEF vars, TypeOK, CmdInv, AppliedIndex, UpTo, Listing, Rank, Count
<1> QED
  BY <1>1, <1>2, <1>3, <1>4, <1>5, <1>6, <1>8, <1>9, <1>10, <1>11, <1>12, <1>13, <1>14,
     <1>15, <1>16, <1>17, <1>18, <1>19, <1>20, <1>21, <1>22 DEF Next, Subpatch, User

-----------------------------------------------------------------------------
(* The stack.                                                              *)

(* Without applied patches the files are the base.                         *)
LEMMA StackedNone ==
  ASSUME NEW b, NEW dir
  PROVE  Stacked(b, dir, {}, b)
BY DEF Stacked

(* The applied patches of a series with a canonical appliedIndex.          *)
LEMMA AppliedSets ==
  ASSUME NEW s \in Snapshot
  PROVE  /\ s.meta.applied = NoIndex => Applied(s) = Listing(s.patches)
         /\ s.meta.applied # NoIndex => Applied(s) = UpTo(s.patches, s.meta.applied)
         /\ Canonical(s) => AppliedIndex(s) \in -1 .. (Count(s.patches) - 1)
         /\ Applied(s) \subseteq Listing(s.patches)
<1>1. Count(s.patches) \in Nat BY ListingFinite
<1> QED BY <1>1, UpToEnds DEF Applied, AppliedIndex, Canonical, UpTo

(* The inductive invariant holds for a freshly added subproject.           *)
LEMMA StackInit == Init => StackInv
<1> SUFFICES ASSUME Init PROVE StackInv
  OBVIOUS
<1>1. ControlInv BY ControlInit
<1>2. PICK t \in Release :
        LET s == [files |-> t, patches |-> [n \in Name |-> NoPatch],
                  meta |-> [checksum |-> t, applied |-> NoIndex]]
        IN head = s /\ index = s /\ work = s /\ cmd = Idle /\ lock = Unlocked
           /\ intact = TRUE /\ headIntact = TRUE
  BY DEF Init
<1>3. index \in Snapshot /\ Listing(index.patches) = {}
  BY <1>1, <1>2, NameAssumption DEF ControlInv, TypeOK, Listing
<1>4. Applied(index) = {} /\ Canonical(index)
  BY <1>2, <1>3, AppliedSets DEF Canonical
<1>5. Lint(index)
  BY <1>2, <1>4, StackedNone DEF Lint
<1> QED BY <1>1, <1>2, <1>4, <1>5 DEF StackInv, HeadInv, IndexInv, IdleInv, Idle

(* Every step keeps the claim about the last commit.                       *)
LEMMA HeadStep == StackInv /\ [Next]_vars => HeadInv'
<1> SUFFICES ASSUME StackInv, [Next]_vars, headIntact' PROVE Lint(head)' /\ Canonical(head)'
  BY DEF HeadInv
<1>1. CASE Commit
  <2>1. intact /\ cmd = Idle BY <1>1 DEF Commit
  <2>2. Lint(index) /\ Canonical(index)
    BY <2>1 DEF StackInv, IndexInv, IdleInv
  <2> QED BY <1>1, <2>2 DEF Commit, Lint, Canonical, Applied, AppliedIndex
<1>2. CASE UNCHANGED <<head, headIntact>>
  <2>1. Lint(head) /\ Canonical(head)
    BY <1>2 DEF StackInv, HeadInv
  <2> QED BY <1>2, <2>1 DEF Lint, Canonical, Applied, AppliedIndex
<1> QED
  BY <1>1, <1>2 DEF Next, Subpatch, User, GitApplyPatch, GitApplyFails, GitApplyIndex, ApplyStart,
     ApplyCopy, ApplyAdd, PopStart, PushStart, Move, MoveMeta, MoveAdd, SyncWrite, SyncAdd, Update,
     ChecksumWrite, Edit, Stage, ResetMerge, ResetHard, Interrupt, vars

(* One patch file of a pop or push: the lock stays a stack.                *)
LEMMA MovePatch ==
  ASSUME StackInv, intact, NEW n \in Name, GitApplyPatch(n), cmd.op \in {"pop", "push"}
  PROVE  /\ TodoInv'
         /\ Stacked(index.meta.checksum, index.patches, Reached', lock')
<1> DEFINE dir == index.patches
           base == index.meta.checksum
           to == cmd.to
<1>1. /\ cmd.pc = "git" /\ n \in cmd.todo /\ IsNext(n)
      /\ lock' = Patched(PatchText(n), lock)
      /\ cmd' = [cmd EXCEPT !.todo = cmd.todo \ {n}]
      /\ index' = index /\ cmd \in Command
  BY DEF GitApplyPatch, StackInv, ControlInv, TypeOK
<1>2. cmd'.op = cmd.op /\ cmd'.to = to /\ cmd'.todo = cmd.todo \ {n} /\ to \in Int
  BY <1>1 DEF Command
<1>3. MoveInv /\ lock \in Tree /\ index \in Snapshot
  BY <1>1 DEF StackInv, IndexInv, ControlInv, TypeOK
<1>4. /\ TodoInv /\ Stacked(base, dir, Reached, lock) /\ work.patches = dir
      /\ base \in Tree /\ Listing(dir) \subseteq Name
  BY <1>1, <1>3, IndexTypes DEF MoveInv, Meta
<1>5. dir[n] \in Diff /\ Applies(PatchText(n), lock)
  BY <1>1, <1>4, CommandText DEF StackInv, GitApplyPatch, Fits
<1>6. \A m \in Listing(dir) : m \in Nat /\ Rank(dir, m) \in Nat
  BY <1>4, ListingFinite, NameAssumption
<1>7. CASE cmd.op = "pop"
  <2>1. /\ \A m \in cmd.todo : m \in Listing(dir) /\ Rank(dir, m) > to /\ m <= n
        /\ \A m \in cmd.todo, k \in Listing(dir) : Rank(dir, k) > to /\ k < m => k \in cmd.todo
    BY <1>1, <1>4, <1>7 DEF TodoInv, IsNext
  <2>2. Reached = UpTo(dir, to) \cup cmd.todo /\ Reached' = UpTo(dir, to) \cup (cmd.todo \ {n})
    BY <1>1, <1>2, <1>7 DEF Reached
  <2>3. n \notin UpTo(dir, to) BY <1>1, <1>2, <1>6, <2>1 DEF UpTo
  <2>4. Reached' = Reached \ {n} BY <2>2, <2>3
  <2>5. \A m \in Reached : m \in Name /\ m <= n
    <3>1. ASSUME NEW m \in UpTo(dir, to) PROVE m \in Name /\ m <= n
      <4>1. m \in Listing(dir) /\ Rank(dir, m) < Rank(dir, n)
        BY <1>1, <1>2, <1>6, <2>1 DEF UpTo
      <4> QED BY <1>1, <1>4, <1>6, <2>1, <4>1, RankOrder
    <3> QED BY <1>4, <2>1, <2>2, <3>1
  <2>6. Stacked(base, dir, Reached \ {n}, Patched(Reversed(dir[n]), lock))
    BY <1>1, <1>3, <1>4, <1>5, <2>2, <2>5, StackedPop
  <2>7. PatchText(n) = Reversed(dir[n])
    BY <1>4, <1>7 DEF PatchText
  <2>8. ASSUME NEW m \in cmd.todo \ {n}, NEW k \in Listing(dir), Rank(dir, k) > to, k < m
        PROVE  k \in cmd.todo \ {n}
    BY <1>6, <2>1, <2>8
  <2>9. TodoInv'
    BY <1>1, <1>2, <1>7, <2>1, <2>8 DEF TodoInv
  <2> QED BY <1>1, <2>4, <2>6, <2>7, <2>9
<1>8. CASE cmd.op = "push"
  <2>1. /\ \A m \in cmd.todo : m \in UpTo(dir, to) /\ n <= m
        /\ \A m \in cmd.todo, k \in UpTo(dir, to) : k > m => k \in cmd.todo
    BY <1>1, <1>4, <1>8 DEF TodoInv, IsNext
  <2>2. Reached = UpTo(dir, to) \ cmd.todo /\ Reached' = UpTo(dir, to) \ (cmd.todo \ {n})
    BY <1>1, <1>2, <1>8 DEF Reached
  <2>3. Reached' = Reached \cup {n} BY <1>1, <2>1, <2>2
  <2>4. UpTo(dir, to) \subseteq Listing(dir) BY DEF UpTo
  <2>5. \A m \in Reached : m \in Name /\ m < n
    BY <1>1, <1>4, <1>6, <2>1, <2>2, <2>4
  <2>6. PatchText(n) = dir[n]
    BY <1>4, <1>8 DEF PatchText
  <2>7. Stacked(base, dir, Reached \cup {n}, Patched(dir[n], lock))
    BY <1>3, <1>4, <1>5, <2>5, <2>6, StackedPush
  <2>8. ASSUME NEW m \in cmd.todo \ {n}, NEW k \in UpTo(dir, to), k > m
        PROVE  k \in cmd.todo \ {n}
    BY <1>1, <1>6, <2>1, <2>4, <2>8
  <2>9. TodoInv'
    BY <1>1, <1>2, <1>8, <2>1, <2>8 DEF TodoInv
  <2> QED BY <1>1, <2>3, <2>6, <2>7, <2>9
<1> QED BY <1>7, <1>8

(* The patch file of an apply: it goes on top of the whole series.         *)
LEMMA ApplyPatch ==
  ASSUME StackInv, intact, NEW n \in Name, GitApplyPatch(n), cmd.op = "apply"
  PROVE  Stacked(index.meta.checksum, Extended, Listing(index.patches) \cup {cmd.name}, lock')
<1> DEFINE dir == index.patches
           base == index.meta.checksum
<1>1. /\ cmd.pc = "git" /\ n \in cmd.todo /\ lock' = Patched(PatchText(n), lock)
      /\ index \in Snapshot /\ lock \in Tree
  BY DEF GitApplyPatch, StackInv, ControlInv, TypeOK
<1>2. cmd.name \in Name /\ n = cmd.name /\ cmd.mail \in Diff
  BY <1>1 DEF StackInv, ControlInv, CmdInv, Idle
<1>3. /\ index.meta.applied = NoIndex /\ \A m \in Listing(dir) : m < n
      /\ IdleInv /\ lock = index.files
  BY <1>1, <1>2 DEF StackInv, IndexInv, ApplyInv
<1>4. base \in Tree /\ Listing(dir) \subseteq Name /\ dir \in PatchDir
  BY <1>1, IndexTypes DEF Meta
<1>5. Stacked(base, dir, Listing(dir), lock)
  BY <1>1, <1>3, AppliedSets DEF IdleInv, Lint
<1>6. /\ \A m \in Listing(dir) : Extended[m] = dir[m]
      /\ Extended[n] = cmd.mail
  BY <1>2, <1>3, <1>4, NameAssumption DEF Extended, PatchDir
<1>7. Stacked(base, Extended, Listing(dir), lock)
  BY <1>5, <1>6, StackedSame
<1>8. PatchText(n) = cmd.mail /\ Applies(cmd.mail, lock)
  BY DEF PatchText, GitApplyPatch, Fits
<1>9. Stacked(base, Extended, Listing(dir) \cup {n}, Patched(Extended[n], lock))
  BY <1>1, <1>2, <1>3, <1>4, <1>6, <1>7, <1>8, StackedPush
<1> QED BY <1>1, <1>2, <1>6, <1>8, <1>9

(* The state read by the claims about the index.                           *)
LEMMA IndexSame ==
  ASSUME UNCHANGED <<index, cmd>>, work'.meta = work.meta, work'.patches = work.patches,
         IdleInv
  PROVE  IdleInv'
BY DEF IdleInv, Lint, Canonical, Applied, AppliedIndex

(* Every step keeps the claims about the staged subproject.                *)
LEMMA IndexStep == StackInv /\ [Next]_vars => IndexInv'
<1> SUFFICES ASSUME StackInv, [Next]_vars, intact'
             PROVE  /\ cmd' = Idle => IdleInv'
                    /\ cmd'.op \in {"pop", "push"} => MoveInv'
                    /\ cmd'.op = "apply" => ApplyInv'
  BY DEF IndexInv
<1> DEFINE Goal == /\ cmd' = Idle => IdleInv'
                   /\ cmd'.op \in {"pop", "push"} => MoveInv'
                   /\ cmd'.op = "apply" => ApplyInv'
<1>t. /\ head \in Snapshot /\ index \in Snapshot /\ work \in Snapshot
      /\ cmd \in Command /\ CmdInv /\ (cmd.pc = "git" => lock \in Tree)
      /\ Listing(index.patches) \subseteq Name
  BY IndexTypes DEF StackInv, ControlInv, TypeOK
<1>i. Idle.op = "none" /\ Idle.pc = "idle" /\ Idle.todo = {}
  BY DEF Idle
<1>v. intact => /\ cmd = Idle => IdleInv
                /\ cmd.op \in {"pop", "push"} => MoveInv
                /\ cmd.op = "apply" => ApplyInv
  BY DEF StackInv, IndexInv
<1>0. ASSUME cmd' = Idle, IdleInv' PROVE Goal
  BY <1>0, <1>i
<1>1. ASSUME NEW n \in Name, GitApplyPatch(n) PROVE Goal
  <2>1. /\ intact /\ cmd.pc = "git" /\ index' = index /\ n \in cmd.todo
        /\ cmd' = [cmd EXCEPT !.todo = cmd.todo \ {n}]
        /\ work' = [work EXCEPT !.files = Patched(PatchText(n), work.files)]
    BY <1>1 DEF GitApplyPatch
  <2>2. /\ cmd'.op = cmd.op /\ cmd'.pc = "git" /\ cmd'.to = cmd.to
        /\ cmd'.name = cmd.name /\ cmd'.mail = cmd.mail /\ cmd'.todo = cmd.todo \ {n}
        /\ work'.meta = work.meta /\ work'.patches = work.patches
    BY <1>t, <2>1 DEF Command, Snapshot
  <2>3. ASSUME cmd.op \in {"pop", "push"} PROVE MoveInv'
    <3>1. IdleInv' BY <1>v, <2>1, <2>2, <2>3 DEF MoveInv, IdleInv, Lint, Canonical, Applied, AppliedIndex
    <3>2. TodoInv' /\ Stacked(index.meta.checksum, index.patches, Reached', lock')
      BY <1>1, <2>1, <2>3, MovePatch
    <3> QED BY <1>v, <2>1, <2>2, <2>3, <3>1, <3>2 DEF MoveInv, Canonical
  <2>4. ASSUME cmd.op = "apply" PROVE ApplyInv'
    <3>1. IdleInv' BY <1>v, <2>1, <2>2, <2>4 DEF ApplyInv, IdleInv, Lint, Canonical, Applied, AppliedIndex
    <3>2. Stacked(index.meta.checksum, Extended, Listing(index.patches) \cup {cmd.name}, lock')
      BY <1>1, <2>1, <2>4, ApplyPatch
    <3>3. cmd'.todo = {}
      BY <1>t, <2>1, <2>2, <2>4 DEF CmdInv, Idle
    <3> QED BY <1>v, <2>1, <2>2, <2>4, <3>1, <3>2, <3>3 DEF ApplyInv, Extended
  <2> QED BY <1>i, <2>2, <2>3, <2>4
<1>2. ASSUME NEW n \in Name, GitApplyFails(n) PROVE Goal
  <2>1. intact /\ cmd.pc = "git" /\ cmd' = Idle /\ UNCHANGED <<index, work>>
    BY <1>2 DEF GitApplyFails
  <2>2. IdleInv
    BY <1>i, <1>t, <1>v, <2>1 DEF CmdInv, MoveInv, ApplyInv
  <2> QED BY <1>0, <2>1, <2>2 DEF IdleInv, Lint, Canonical, Applied, AppliedIndex
<1>3. ASSUME GitApplyIndex PROVE Goal
  <2>1. /\ intact /\ cmd.pc = "git" /\ cmd.todo = {} /\ work' = work
        /\ cmd.op = "apply" => cmd.name \in DotPatch
        /\ index' = [index EXCEPT !.files = lock]
        /\ cmd' = [cmd EXCEPT !.pc = IF cmd.op = "apply" THEN "copy" ELSE "meta"]
    BY <1>3 DEF GitApplyIndex
  <2>2. /\ cmd'.op = cmd.op /\ cmd'.pc = IF cmd.op = "apply" THEN "copy" ELSE "meta"
        /\ cmd'.to = cmd.to /\ cmd'.name = cmd.name /\ cmd'.mail = cmd.mail
        /\ index'.files = lock /\ index'.meta = index.meta /\ index'.patches = index.patches
    BY <1>t, <2>1 DEF Command, Snapshot
  <2>3. ASSUME cmd.op \in {"pop", "push"} PROVE MoveInv'
    <3>1. Reached = UpTo(index.patches, cmd.to)
      BY <2>1 DEF Reached
    <3> QED BY <1>v, <2>1, <2>2, <2>3, <3>1 DEF MoveInv, IdleInv, Canonical
  <2>4. ASSUME cmd.op = "apply" PROVE ApplyInv'
    BY <1>v, <2>1, <2>2, <2>4 DEF ApplyInv, IdleInv, Extended
  <2> QED BY <1>i, <2>2, <2>3, <2>4
<1>4. ASSUME NEW n \in Name, NEW d \in Mail, ApplyStart(n, d) PROVE Goal
  <2>1. /\ intact /\ cmd = Idle /\ UNCHANGED <<index, work>> /\ lock' = index.files
        /\ work.meta.applied = NoIndex /\ \A m \in Listing(work.patches) : m < n
        /\ cmd' = [op |-> "apply", pc |-> "git", todo |-> {n}, name |-> n, to |-> 0, mail |-> d]
    BY <1>4 DEF ApplyStart, Idle
  <2>2. IdleInv BY <1>v, <2>1
  <2>3. IdleInv' BY <2>1, <2>2 DEF IdleInv, Lint, Canonical, Applied, AppliedIndex
  <2>4. ApplyInv'
    BY <2>1, <2>2, <2>3 DEF ApplyInv, IdleInv
  <2> QED BY <1>i, <2>1, <2>4
<1>5. ASSUME ApplyCopy PROVE Goal
  <2>1. cmd.op = "apply" /\ cmd.name \in Name /\ intact /\ cmd.pc = "copy" /\ index' = index
    BY <1>5, <1>i, <1>t DEF ApplyCopy, CmdInv
  <2>2. /\ cmd'.op = "apply" /\ cmd'.pc = "add" /\ cmd'.name = cmd.name /\ cmd'.mail = cmd.mail
        /\ work'.meta = work.meta /\ work'.patches = [work.patches EXCEPT ![cmd.name] = cmd.mail]
    BY <1>5, <1>t, <2>1 DEF ApplyCopy, Command, Snapshot
  <2>3. ApplyInv'
    BY <1>v, <2>1, <2>2 DEF ApplyInv, Extended
  <2> QED BY <1>i, <2>2, <2>3
<1>6. ASSUME ApplyAdd PROVE Goal
  <2>1. /\ cmd.op = "apply" /\ cmd.name \in Name /\ cmd.mail \in Diff /\ intact
        /\ cmd.pc = "add" /\ cmd' = Idle /\ work' = work
        /\ index' = [index EXCEPT !.patches[cmd.name] = work.patches[cmd.name]]
    BY <1>6, <1>i, <1>t DEF ApplyAdd, CmdInv
  <2>2. ApplyInv /\ work.patches = Extended
    BY <1>v, <2>1 DEF ApplyInv
  <2>3. /\ index'.patches = Extended /\ index'.meta = index.meta /\ index'.files = index.files
        /\ index' \in Snapshot
    BY <1>t, <2>1, <2>2 DEF Extended, Snapshot, PatchDir
  <2>4. Listing(Extended) = Listing(index.patches) \cup {cmd.name}
    <3>1. cmd.name \in DotPatch /\ cmd.mail # NoPatch
      BY <2>1, <2>2, SentinelAssumption DEF ApplyInv
    <3>2. \A n \in Name : Extended[n] = IF n = cmd.name THEN cmd.mail ELSE index.patches[n]
      BY <1>t DEF Extended, Snapshot, PatchDir
    <3> QED BY <3>1, <3>2, NameAssumption DEF Listing
  <2>5. Applied(index') = Listing(Extended)
    BY <2>2, <2>3, AppliedSets DEF ApplyInv
  <2>6. Stacked(index'.meta.checksum, Extended, Applied(index'), index'.files)
    BY <2>1, <2>2, <2>3, <2>4, <2>5 DEF ApplyInv
  <2>7. Lint(index')
    BY <2>3, <2>6 DEF Lint
  <2>8. Canonical(index')
    BY <2>2, <2>3 DEF ApplyInv, Canonical
  <2>9. work'.meta = index'.meta /\ work'.patches = index'.patches
    BY <2>1, <2>2, <2>3 DEF ApplyInv
  <2> QED BY <1>0, <2>1, <2>7, <2>8, <2>9 DEF IdleInv, Lint, Canonical, Applied, AppliedIndex
<1>7. ASSUME intact, cmd = Idle, NEW op \in {"pop", "push"}, NEW target \in Int, Move(op, target),
             target \in -1 .. (Count(work.patches) - 1),
             op = "pop" => target < AppliedIndex(work),
             op = "push" => target > AppliedIndex(work)
      PROVE  Goal
  <2> DEFINE dir == index.patches
             at == AppliedIndex(index)
             names == cmd'.todo
  <2>1. IdleInv /\ UNCHANGED <<index, work>> /\ lock' = index.files
    BY <1>v, <1>7 DEF Move
  <2>2. work.meta = index.meta /\ work.patches = dir /\ AppliedIndex(work) = at
    BY <2>1 DEF IdleInv, AppliedIndex
  <2>3. /\ cmd'.op = op /\ cmd'.pc = "git" /\ cmd'.to = target /\ cmd' # Idle
        /\ names = UpTo(dir, IF op = "pop" THEN at ELSE target)
                   \ UpTo(dir, IF op = "pop" THEN target ELSE at)
    BY <1>7, <2>2 DEF Move, Idle
  <2>4. \A m \in Listing(dir) : m \in Nat /\ Rank(dir, m) \in Nat
    BY <1>t, ListingFinite, NameAssumption
  <2>5. at \in Int /\ Count(dir) \in Nat BY <1>t, IndexTypes
  <2>6. Reached' = UpTo(dir, at)
    <3>1. CASE op = "pop"
      <4>1. UpTo(dir, target) \subseteq UpTo(dir, at)
        BY <1>7, <2>2, <2>4, <2>5, <3>1 DEF UpTo
      <4> QED BY <2>1, <2>3, <3>1, <4>1 DEF Reached
    <3>2. CASE op = "push"
      <4>1. UpTo(dir, at) \subseteq UpTo(dir, target)
        BY <1>7, <2>2, <2>4, <2>5, <3>2 DEF UpTo
      <4> QED BY <2>1, <2>3, <3>2, <4>1 DEF Reached
    <3> QED BY <3>1, <3>2
  <2>7. Stacked(index.meta.checksum, dir, Reached', lock')
    BY <2>1, <2>6 DEF IdleInv, Lint, Applied
  <2>8. TodoInv'
    <3>1. CASE op = "pop"
      <4>1. ASSUME NEW m \in names
            PROVE  /\ m \in Listing(dir) /\ Rank(dir, m) > target
                   /\ \A k \in Listing(dir) : Rank(dir, k) > target /\ k < m => k \in names
        <5>1. m \in Listing(dir) /\ Rank(dir, m) <= at /\ Rank(dir, m) > target
          BY <1>7, <2>3, <2>4, <3>1 DEF UpTo
        <5>2. ASSUME NEW k \in Listing(dir), Rank(dir, k) > target, k < m PROVE k \in names
          <6>1. Rank(dir, k) < Rank(dir, m) BY <5>1, <5>2, RankOrder
          <6> QED BY <1>7, <2>3, <2>4, <2>5, <3>1, <5>1, <5>2, <6>1 DEF UpTo
        <5> QED BY <5>1, <5>2
      <4> QED BY <2>1, <2>3, <3>1, <4>1 DEF TodoInv
    <3>2. CASE op = "push"
      <4>1. ASSUME NEW m \in names
            PROVE  /\ m \in UpTo(dir, target)
                   /\ \A k \in UpTo(dir, target) : k > m => k \in names
        <5>1. m \in Listing(dir) /\ Rank(dir, m) > at /\ m \in UpTo(dir, target)
          BY <2>3, <2>4, <2>5, <3>2 DEF UpTo
        <5>2. ASSUME NEW k \in UpTo(dir, target), k > m PROVE k \in names
          <6>1. k \in Listing(dir) BY DEF UpTo
          <6>2. Rank(dir, m) < Rank(dir, k) BY <2>4, <5>1, <5>2, <6>1, RankOrder
          <6> QED BY <2>3, <2>4, <2>5, <3>2, <5>1, <6>1, <6>2 DEF UpTo
        <5> QED BY <5>1, <5>2
      <4> QED BY <2>1, <2>3, <3>2, <4>1 DEF TodoInv
    <3> QED BY <3>1, <3>2
  <2>9. IdleInv'
    BY <2>1 DEF IdleInv, Lint, Canonical, Applied, AppliedIndex
  <2>10. Canonical(index)' BY <2>9 DEF IdleInv
  <2>11. MoveInv'
    BY <1>7, <2>1, <2>2, <2>3, <2>7, <2>8, <2>9, <2>10 DEF MoveInv
  <2> QED BY <1>7, <2>3, <2>11
<1>8. ASSUME NEW all \in BOOLEAN, PopStart(all) PROVE Goal
  <2>1. intact /\ cmd = Idle /\ AppliedIndex(work) # -1
    BY <1>8 DEF PopStart, Move
  <2>2. AppliedIndex(work) \in -1 .. (Count(work.patches) - 1) /\ Count(work.patches) \in Nat
    BY <1>t, <1>v, <2>1, AppliedSets, IndexTypes DEF IdleInv, AppliedIndex, Canonical
  <2>3. Move("pop", IF all THEN -1 ELSE AppliedIndex(work) - 1)
    BY <1>8 DEF PopStart
  <2> QED BY <1>7, <2>1, <2>2, <2>3
<1>9. ASSUME NEW all \in BOOLEAN, PushStart(all) PROVE Goal
  <2>1. intact /\ cmd = Idle /\ AppliedIndex(work) # Count(work.patches) - 1
    BY <1>9 DEF PushStart, Move
  <2>2. AppliedIndex(work) \in -1 .. (Count(work.patches) - 1) /\ Count(work.patches) \in Nat
    BY <1>t, <1>v, <2>1, AppliedSets, IndexTypes DEF IdleInv, AppliedIndex, Canonical
  <2>3. Move("push", IF all THEN Count(work.patches) - 1 ELSE AppliedIndex(work) + 1)
    BY <1>9 DEF PushStart
  <2> QED BY <1>7, <2>1, <2>2, <2>3
<1>10. ASSUME MoveMeta PROVE Goal
  <2>1. /\ cmd.op \in {"pop", "push"} /\ intact /\ cmd.pc = "meta" /\ index' = index
        /\ work' = [work EXCEPT !.meta.applied = Recorded(cmd.to)]
        /\ cmd' = [cmd EXCEPT !.pc = "add"]
    BY <1>10, <1>i, <1>t DEF MoveMeta, CmdInv
  <2>2. MoveInv BY <1>v, <2>1
  <2>3. /\ cmd'.op = cmd.op /\ cmd'.pc = "add" /\ cmd'.to = cmd.to
        /\ work'.patches = work.patches
        /\ work'.meta = [index.meta EXCEPT !.applied = Recorded(cmd.to)]
    BY <1>t, <2>1, <2>2 DEF MoveInv, Command, Snapshot
  <2>4. Recorded(cmd.to)' = Recorded(cmd.to)
    BY <2>3 DEF Recorded
  <2>5. MoveInv'
    BY <2>1, <2>2, <2>3, <2>4 DEF MoveInv, Canonical
  <2> QED BY <1>i, <2>1, <2>3, <2>5
<1>11. ASSUME MoveAdd PROVE Goal
  <2>1. /\ cmd.op \in {"pop", "push"} /\ intact /\ cmd.pc = "add" /\ cmd' = Idle /\ work' = work
        /\ index' = [index EXCEPT !.meta = work.meta]
    BY <1>11 DEF MoveAdd
  <2>2. MoveInv BY <1>v, <2>1
  <2>3. /\ index'.patches = index.patches /\ index'.files = index.files
        /\ index'.meta = [index.meta EXCEPT !.applied = Recorded(cmd.to)]
        /\ index'.meta.applied = Recorded(cmd.to) /\ index'.meta.checksum = index.meta.checksum
        /\ work'.meta = index'.meta /\ work'.patches = index'.patches
        /\ index' \in Snapshot
    <3>1. index'.meta = [index.meta EXCEPT !.applied = Recorded(cmd.to)] /\ index'.meta \in Meta
      BY <1>t, <2>1, <2>2, IndexTypes DEF MoveInv, Snapshot
    <3>2. index' \in Snapshot /\ index'.patches = index.patches /\ index'.files = index.files
      BY <1>t, <2>1, <3>1 DEF Snapshot
    <3>3. index.meta \in Meta BY <1>t, IndexTypes
    <3> QED BY <2>1, <2>2, <3>1, <3>2, <3>3 DEF MoveInv, Meta
  <2>4. cmd.to \in -1 .. (Count(index.patches) - 1) /\ work.patches = index.patches
        /\ Count(index.patches) \in Nat
    BY <1>t, <2>2, IndexTypes DEF MoveInv
  <2>5. Applied(index') = UpTo(index.patches, cmd.to)
    <3>1. CASE cmd.to = Count(index.patches) - 1
      <4>1. index'.meta.applied = NoIndex BY <2>3, <2>4, <3>1 DEF Recorded
      <4>2. Applied(index') = Listing(index'.patches) BY <2>3, <4>1, AppliedSets
      <4> QED BY <2>3, <3>1, <4>2, UpToEnds
    <3>2. CASE cmd.to # Count(index.patches) - 1
      <4>1. index'.meta.applied = cmd.to /\ cmd.to # NoIndex
        BY <2>3, <2>4, <3>2, SentinelAssumption DEF Recorded
      <4> QED BY <2>3, <4>1, AppliedSets
    <3> QED BY <3>1, <3>2
  <2>6. Lint(index')
    BY <2>1, <2>2, <2>3, <2>5 DEF MoveInv, Lint
  <2>7. Canonical(index')
    BY <2>3, <2>4 DEF Canonical, Recorded
  <2> QED BY <1>0, <2>1, <2>3, <2>6, <2>7 DEF IdleInv, Lint, Canonical, Applied, AppliedIndex
<1>12. ASSUME NEW n \in Name, SyncWrite(n) PROVE Goal
  <2>1. cmd'.op = "sync" BY <1>12 DEF SyncWrite, Idle
  <2> QED BY <1>i, <2>1
<1>13. ASSUME SyncAdd PROVE Goal
  <2> DEFINE n == cmd.name
             d == DiffOf(head.files, index.files)
  <2>1. OnTopOfHead /\ cmd' = Idle /\ work' = work
        /\ index' = [index EXCEPT !.patches[n] = work.patches[n]]
        /\ cmd.op = "sync" /\ cmd.pc = "add"
    BY <1>13 DEF SyncAdd
  <2>2. /\ n \in UpTo(work.patches, AppliedIndex(work)) /\ Rank(work.patches, n) = AppliedIndex(work)
        /\ work.patches[n] = d
    BY <1>i, <1>t, <2>1 DEF CmdInv
  <2>3. n \in Listing(work.patches) /\ n \in Name /\ n \in Nat
    BY <2>2, NameAssumption DEF UpTo, Listing
  <2>4. /\ index'.patches = work.patches /\ index'.meta = work.meta /\ index'.files = index.files
        /\ index' \in Snapshot
    BY <1>t, <2>1, <2>3 DEF OnTopOfHead, Snapshot, PatchDir
  <2>5. d \in Diff /\ Applies(d, head.files) /\ Patched(d, head.files) = index.files
    BY <1>t, IndexTypes, DiffOfTrees
  <2>6. Stacked(head.meta.checksum, head.patches, Applied(head), head.files)
    BY <2>1 DEF OnTopOfHead, StackInv, HeadInv, Lint
  <2>7. /\ Applied(head) = Applied(work) \ {n} /\ Applied(head) \subseteq Name
        /\ \A m \in Applied(head) : work.patches[m] = head.patches[m]
    BY <1>t, <2>1, AppliedSets, IndexTypes DEF OnTopOfHead
  <2>8. Stacked(head.meta.checksum, work.patches, Applied(head), head.files)
    BY <2>6, <2>7, StackedSame
  <2>9. ASSUME NEW m \in Applied(head) PROVE m < n
    <3>1. m \in Listing(work.patches) /\ Rank(work.patches, m) <= Rank(work.patches, n) /\ m # n
      BY <2>2, <2>7 DEF Applied, UpTo
    <3>2. /\ m \in Nat /\ Rank(work.patches, m) \in Nat /\ Rank(work.patches, n) \in Nat
      BY <2>3, <2>7, NameAssumption, ListingFinite
    <3>3. n < m <=> Rank(work.patches, n) < Rank(work.patches, m)
      BY <2>3, <3>1, RankOrder
    <3> QED BY <2>3, <3>1, <3>2, <3>3
  <2>10. head.meta.checksum \in Tree /\ head.files \in Tree
    BY <1>t, IndexTypes DEF Meta
  <2>11. Stacked(head.meta.checksum, work.patches, Applied(head) \cup {n}, index.files)
    <3>1. work.patches[n] \in Diff /\ Applies(work.patches[n], head.files)
          /\ Patched(work.patches[n], head.files) = index.files
      BY <2>2, <2>5
    <3>2. Applied(head) \in SUBSET Name /\ \A m \in Applied(head) : m < n
      BY <2>7, <2>9
    <3> HIDE DEF n, d
    <3>3. n \in Name BY <2>3
    <3>4. Stacked(head.meta.checksum, work.patches, Applied(head) \cup {n},
                  Patched(work.patches[n], head.files))
      BY <2>8, <2>10, <3>1, <3>2, <3>3, StackedPush
    <3> QED BY <3>1, <3>4
  <2>12. Applied(head) \cup {n} = Applied(work) /\ Applied(index') = Applied(work)
    BY <2>2, <2>4, <2>7 DEF Applied, AppliedIndex
  <2>13. work.meta.checksum = head.meta.checksum
    BY <2>1 DEF OnTopOfHead
  <2>14. Lint(index')
    BY <2>4, <2>11, <2>12, <2>13 DEF Lint
  <2>15. Canonical(index')
    BY <2>1, <2>4 DEF OnTopOfHead, Canonical
  <2> QED BY <1>0, <2>1, <2>4, <2>14, <2>15 DEF IdleInv, Lint, Canonical, Applied, AppliedIndex
<1>14. ASSUME NEW t \in Release, Update(t) PROVE Goal
  <2>1. /\ intact /\ cmd = Idle /\ cmd' = Idle
        /\ Count(work.patches) > 0 => AppliedIndex(work) = -1
        /\ work' = [work EXCEPT !.files = Unpacked(t, index.files, work.files), !.meta.checksum = t]
        /\ index' = [index EXCEPT !.files = t, !.meta = work'.meta]
    BY <1>14 DEF Update
  <2>2. IdleInv BY <1>v, <2>1
  <2>3. /\ index'.patches = index.patches /\ index'.files = t /\ work'.patches = work.patches
        /\ index'.meta = work'.meta /\ work'.meta = [index.meta EXCEPT !.checksum = t]
        /\ index'.meta.applied = index.meta.applied /\ index'.meta.checksum = t
    <3>1. work'.meta = [work.meta EXCEPT !.checksum = t] /\ work.meta \in Meta
      BY <1>t, <2>1, IndexTypes DEF Snapshot
    <3>2. work'.meta.applied = work.meta.applied /\ work'.meta.checksum = t
      BY <3>1 DEF Meta
    <3> QED BY <1>t, <2>1, <2>2, <3>1, <3>2 DEF IdleInv, Snapshot
  <2>4. Applied(index') = {}
    <3>1. Applied(index') = UpTo(index.patches, AppliedIndex(work))
      BY <2>2, <2>3 DEF Applied, AppliedIndex, IdleInv
    <3>2. CASE Count(index.patches) > 0
      BY <2>1, <2>2, <3>1, <3>2, UpToEnds DEF IdleInv
    <3>3. CASE ~(Count(index.patches) > 0)
      <4>1. Count(index.patches) = 0 /\ IsFiniteSet(Listing(index.patches))
        BY <3>3, ListingFinite
      <4>2. Listing(index.patches) = {}
        BY <4>1, FS_EmptySet DEF Count
      <4> QED BY <3>1, <4>2 DEF UpTo
    <3> QED BY <3>2, <3>3
  <2>5. Lint(index') BY <2>3, <2>4, StackedNone DEF Lint
  <2>6. Canonical(index')
    BY <2>2, <2>3 DEF IdleInv, Canonical
  <2>7. work'.patches = index'.patches
    BY <2>2, <2>3 DEF IdleInv
  <2> QED BY <1>0, <2>1, <2>3, <2>5, <2>6, <2>7 DEF IdleInv, Lint, Canonical, Applied, AppliedIndex
<1>15. ASSUME ChecksumWrite PROVE Goal
  <2>1. /\ intact /\ cmd = Idle /\ UNCHANGED <<index, cmd>> /\ work'.meta = work.meta
        /\ work' = [work EXCEPT !.meta.checksum = index.files]
    BY <1>15 DEF ChecksumWrite
  <2>2. work'.patches = work.patches
    BY <1>t, <2>1 DEF Snapshot
  <2> QED BY <1>0, <1>v, <2>1, <2>2, IndexSame
<1>16. ASSUME NEW f \in File, NEW v \in Content, Edit(f, v) PROVE Goal
  <2>1. intact /\ cmd = Idle /\ UNCHANGED <<index, cmd>> /\ work' = [work EXCEPT !.files[f] = v]
    BY <1>16 DEF Edit
  <2>2. work'.meta = work.meta /\ work'.patches = work.patches
    BY <1>t, <2>1 DEF Snapshot
  <2> QED BY <1>0, <1>v, <2>1, <2>2, IndexSame
<1>17. ASSUME Stage PROVE Goal
  <2>1. intact /\ cmd = Idle /\ UNCHANGED <<index, cmd, work>>
    BY <1>17 DEF Stage
  <2> QED BY <1>0, <1>v, <2>1, IndexSame
<1>18. ASSUME Commit PROVE Goal
  <2>1. intact /\ cmd = Idle /\ UNCHANGED <<index, cmd, work>>
    BY <1>18 DEF Commit
  <2> QED BY <1>0, <1>v, <2>1, IndexSame
<1>19. ASSUME ResetMerge PROVE Goal
  <2>1. /\ intact /\ headIntact /\ cmd = Idle /\ cmd' = Idle /\ index' = head
        /\ work'.meta = Merged(head.meta, index.meta, work.meta)
        /\ work'.patches = [n \in Name |-> Merged(head.patches[n], index.patches[n], work.patches[n])]
    BY <1>19 DEF ResetMerge
  <2>2. work.meta = index.meta /\ work.patches = index.patches
    BY <1>v, <2>1 DEF IdleInv
  <2>3. work'.meta = head.meta
    BY <2>1, <2>2 DEF Merged
  <2>4. work'.patches = head.patches
    BY <1>t, <2>1, <2>2 DEF Merged, Snapshot, PatchDir
  <2>5. Lint(head) /\ Canonical(head)
    BY <2>1 DEF StackInv, HeadInv
  <2> QED BY <1>0, <2>1, <2>3, <2>4, <2>5 DEF IdleInv, Lint, Canonical, Applied, AppliedIndex
<1>20. ASSUME ResetHard PROVE Goal
  <2>1. headIntact /\ cmd' = Idle /\ index' = head /\ work' = head
    BY <1>20 DEF ResetHard
  <2>2. Lint(head) /\ Canonical(head)
    BY <2>1 DEF StackInv, HeadInv
  <2> QED BY <1>0, <1>20, <2>1, <2>2 DEF IdleInv, Lint, Canonical, Applied, AppliedIndex
<1>21. ASSUME Interrupt PROVE Goal
  <2>1. intact /\ cmd.pc = "git" /\ cmd' = Idle /\ UNCHANGED <<index, work>>
    BY <1>21 DEF Interrupt
  <2>2. IdleInv
    BY <1>i, <1>t, <1>v, <2>1 DEF CmdInv, MoveInv, ApplyInv
  <2> QED BY <1>0, <2>1, <2>2 DEF IdleInv, Lint, Canonical, Applied, AppliedIndex
<1>22. ASSUME UNCHANGED vars PROVE Goal
  BY <1>v, <1>22 DEF vars, IdleInv, MoveInv, ApplyInv, TodoInv, Reached, Extended, Recorded,
     Lint, Canonical, Applied, AppliedIndex
<1> QED
  BY <1>1, <1>2, <1>3, <1>4, <1>5, <1>6, <1>8, <1>9, <1>10, <1>11, <1>12, <1>13, <1>14,
     <1>15, <1>16, <1>17, <1>18, <1>19, <1>20, <1>21, <1>22 DEF Next, Subpatch, User

-----------------------------------------------------------------------------
(* The theorems.                                                           *)

(* StackInv, which says what holds at every point of every command, is an  *)
(* invariant of the patch commands: of files named *.patch, since "intact" *)
(* does not outlast the application of another.                            *)
THEOREM StackInvariant == Spec => []StackInv
<1>1. Init => StackInv
  BY StackInit
<1>2. StackInv /\ [Next]_vars => StackInv'
  BY ControlStep, HeadStep, IndexStep DEF StackInv
<1> QED BY <1>1, <1>2, PTL DEF Spec

(* The state of the subproject and of a running command is well-formed.    *)
THEOREM TypeCorrect == Spec => []TypeOK
<1>1. StackInv => TypeOK
  BY DEF StackInv, ControlInv
<1> QED BY <1>1, StackInvariant, PTL

(* After any sequence of commands, failures, interrupts of "git apply",    *)
(* commits and reverts, popping all patches of the staged subproject gives *)
(* the tree whose checksum is in its metadata, as long as only files named *)
(* *.patch are applied.                                                    *)
THEOREM StagedSeriesUnwinds == Spec => []IndexLint
<1>1. StackInv => IndexLint
  BY DEF StackInv, IndexInv, IdleInv, IndexLint
<1> QED BY <1>1, StackInvariant, PTL

(* The same holds, with the same proviso, for every commit of it.          *)
THEOREM CommittedSeriesUnwinds == Spec => []HeadLint
<1>1. StackInv => HeadLint
  BY DEF StackInv, HeadInv, HeadLint
<1> QED BY <1>1, StackInvariant, PTL

(* Finished commands leave no unstaged change of metadata or patch files,  *)
(* so that "git reset --merge" reverts them as a whole.                    *)
THEOREM CommandsAreStaged == Spec => []NothingUnstaged
<1>1. StackInv => NothingUnstaged
  BY DEF StackInv, IndexInv, IdleInv, NothingUnstaged
<1> QED BY <1>1, StackInvariant, PTL

(* appliedIndex is in range, and absent when all patches are applied.      *)
THEOREM CursorStaysInRange == Spec => []CursorInRange
<1>1. StackInv => CursorInRange
  BY DEF StackInv, IndexInv, IdleInv, CursorInRange
<1> QED BY <1>1, StackInvariant, PTL

(* The patch file that a pop comes to is the top of the stack in the lock. *)
LEMMA PopNext ==
  ASSUME StackInv, intact, cmd.op = "pop", cmd.pc = "git", NEW n \in cmd.todo, IsNext(n)
  PROVE  Applies(Reversed(work.patches[n]), lock)
<1> DEFINE dir == index.patches
<1>1. MoveInv /\ lock \in Tree /\ index \in Snapshot
      /\ cmd \in Command /\ work.patches = dir
  BY DEF StackInv, IndexInv, ControlInv, TypeOK, MoveInv
<1>2. /\ TodoInv /\ Stacked(index.meta.checksum, dir, Reached, lock)
      /\ index.meta.checksum \in Tree /\ Listing(dir) \subseteq Name
  BY <1>1, IndexTypes DEF MoveInv, Meta
<1>3. \A m \in Listing(dir) : m \in Nat /\ Rank(dir, m) \in Nat
  BY <1>2, ListingFinite, NameAssumption
<1>4. Reached = UpTo(dir, cmd.to) \cup cmd.todo /\ cmd.to \in Int
  BY <1>1 DEF Reached, Command
<1>5. \A m \in cmd.todo : m \in Listing(dir) /\ Rank(dir, m) > cmd.to /\ m <= n
  BY <1>2 DEF TodoInv, IsNext
<1>6. ASSUME NEW m \in UpTo(dir, cmd.to) PROVE m \in Listing(dir) /\ m <= n
  <2>1. m \in Listing(dir) /\ Rank(dir, m) < Rank(dir, n)
    BY <1>3, <1>4, <1>5 DEF UpTo
  <2> QED BY <1>3, <1>5, <2>1, RankOrder
<1>7. Reached \in SUBSET Name /\ n \in Reached /\ \A m \in Reached : m <= n
  BY <1>2, <1>4, <1>5, <1>6
<1>8. dir[n] \in Diff
  BY <1>1, <1>5, IndexTypes
<1> QED BY <1>1, <1>2, <1>7, <1>8, StackedPop

(* Without local edits in the files, "pop" and "pop -a" never fail, as     *)
(* long as only files named *.patch are applied.                           *)
THEOREM PopNeverFails == Spec => []PopFits
<1>1. ASSUME StackInv, intact, cmd.op = "pop", cmd.pc = "git", work.files = lock,
             NEW n \in cmd.todo, IsNext(n)
      PROVE  Fits(PatchText(n), lock, work.files)
  BY <1>1, PopNext DEF Fits, PatchText
<1>2. StackInv => PopFits
  BY <1>1 DEF PopFits
<1> QED BY <1>2, StackInvariant, PTL

-----------------------------------------------------------------------------
(* Lint and pop -a.                                                        *)

(* The patch files have all the numbers from 0 on.                         *)
LEMMA RankOnto ==
  ASSUME NEW dir, NEW i \in 0 .. Count(dir) - 1
  PROVE  \E n \in Listing(dir) : Rank(dir, n) = i
<1> DEFINE N == 0 .. Count(dir) - 1
           f == [n \in Listing(dir) |-> Rank(dir, n)]
<1>1. Count(dir) \in Nat
  BY ListingFinite
<1>2. f \in [Listing(dir) -> N]
  <2> SUFFICES ASSUME NEW n \in Listing(dir) PROVE Rank(dir, n) \in N
    OBVIOUS
  <2>1. Rank(dir, n) \in Nat
    BY ListingFinite, NameAssumption DEF Listing
  <2>2. Rank(dir, n) <= Count(dir) - 1
    BY RankBelowCount
  <2> QED BY <1>1, <2>1, <2>2
<1>3. ASSUME NEW n \in Listing(dir), NEW m \in Listing(dir), f[n] = f[m] PROVE n = m
  <2>1. n \in Nat /\ m \in Nat
    BY NameAssumption DEF Listing
  <2>2. Rank(dir, n) \in Nat /\ Rank(dir, n) = Rank(dir, m)
    BY <1>2, <1>3
  <2>3. ~(n < m) /\ ~(m < n)
    BY <2>2, RankOrder
  <2> QED BY <2>1, <2>3
<1>4. f \in Injection(Listing(dir), N)
  BY <1>2, <1>3 DEF Injection, IsInjective
<1>5. IsFiniteSet(N) /\ Cardinality(N) = Count(dir)
  BY <1>1, FS_Interval
<1>6. f \in Surjection(Listing(dir), N)
  <2> HIDE DEF f, N
  <2> QED BY <1>4, <1>5, FS_Injection DEF Count
<1>7. i \in N
  OBVIOUS
<1>8. PICK n \in Listing(dir) : f[n] = i
  <2> HIDE DEF f, N
  <2> QED BY <1>6, <1>7 DEF Surjection
<1> QED BY <1>8

(* The patch file of a number is the last one up to it.                    *)
LEMMA PatchAtFacts ==
  ASSUME NEW dir, NEW i \in 0 .. Count(dir) - 1
  PROVE  \E n \in Listing(dir) : /\ PatchAt(dir, i) = dir[n]
                                 /\ n \in UpTo(dir, i) /\ \A m \in UpTo(dir, i) : m <= n
                                 /\ UpTo(dir, i) \ {n} = UpTo(dir, i - 1)
<1> DEFINE n == CHOOSE n \in Listing(dir) : Rank(dir, n) = i
<1>1. n \in Listing(dir) /\ Rank(dir, n) = i
  BY RankOnto
<1>2. PatchAt(dir, i) = dir[n]
  BY DEF PatchAt
<1> HIDE DEF n
<1>3. i \in Int
  BY ListingFinite
<1>4. \A m \in Listing(dir) : m \in Nat /\ Rank(dir, m) \in Nat
  BY ListingFinite, NameAssumption DEF Listing
<1>5. ASSUME NEW m \in UpTo(dir, i) PROVE m <= n
  <2>1. m \in Listing(dir) /\ Rank(dir, m) <= i
    BY DEF UpTo
  <2>2. ~(n < m)
    BY <1>1, <1>3, <1>4, <2>1, RankOrder
  <2> QED BY <1>1, <1>4, <2>1, <2>2
<1>6. ASSUME NEW m \in Listing(dir), m # n PROVE Rank(dir, m) # i
  <2>1. m < n \/ n < m
    BY <1>1, <1>4, <1>6
  <2>2. Rank(dir, m) < Rank(dir, n) \/ Rank(dir, n) < Rank(dir, m)
    BY <1>1, <2>1, RankOrder
  <2> QED BY <1>1, <1>3, <1>4, <2>2
<1>7. n \in UpTo(dir, i)
  BY <1>1, <1>3 DEF UpTo
<1>8. UpTo(dir, i) \ {n} = UpTo(dir, i - 1)
  BY <1>1, <1>3, <1>4, <1>6 DEF UpTo
<1> QED BY <1>1, <1>2, <1>5, <1>7, <1>8

(* Popping a patch gives a tree or fails.                                  *)
LEMMA PoppedType ==
  ASSUME NEW d \in Diff, NEW t \in Tree \cup {NoPatch}
  PROVE  Popped(d, t) \in Tree \cup {NoPatch}
<1>1. CASE t = NoPatch
  BY <1>1 DEF Popped
<1>2. CASE t \in Tree
  <2>1. Reversed(d) \in Diff
    BY <1>2, DiffTypes
  <2>2. Patched(Reversed(d), t) \in Tree
    BY <1>2, <2>1, DiffTypes
  <2> QED BY <2>2 DEF Popped
<1> QED BY <1>1, <1>2

(* pop -a passes through one tree after the other, and all applied patches *)
(* are there.                                                              *)
LEMMA PopAllWalk ==
  ASSUME NEW s \in Snapshot, Consistent(s)
  PROVE  LET count == AppliedIndex(s) + 1
         IN /\ count \in Nat /\ count <= Count(s.patches)
            /\ \E after \in [0 .. count -> Tree \cup {NoPatch}] :
                 /\ after[0] = s.files /\ PopAll(s) = after[count]
                 /\ \A k \in 1 .. count : after[k] = Popped(PatchAt(s.patches, count - k), after[k - 1])
<1> DEFINE count == AppliedIndex(s) + 1
           dir == s.patches
           S == Tree \cup {NoPatch}
           g == [p \in (1 .. count) \X S |-> Popped(PatchAt(dir, count - p[1]), p[2])]
           def(f) == [k \in 0 .. count |->
                       IF k = 0 THEN s.files ELSE Popped(PatchAt(s.patches, count - k), f[k - 1])]
           all == CHOOSE f : f = def(f)
<1>1. count \in Nat /\ count <= Count(dir) /\ Count(dir) \in Nat
  BY IndexTypes DEF Consistent, AppliedIndex, Snapshot, Meta
<1>2. PopAll(s) = all[count]
  BY DEF PopAll
<1> HIDE DEF count
<1>3. g \in [(1 .. count) \X S -> S]
  <2> SUFFICES ASSUME NEW k \in 1 .. count, NEW t \in S PROVE Popped(PatchAt(dir, count - k), t) \in S
    OBVIOUS
  <2>1. count - k \in 0 .. Count(dir) - 1
    BY <1>1
  <2>2. PatchAt(dir, count - k) \in Diff
    BY <2>1, PatchAtFacts, IndexTypes
  <2> QED BY <2>2, PoppedType
<1>4. s.files \in S
  BY IndexTypes
<1>5. PICK f : Solves(f, count, S, s.files, g)
  <2> HIDE DEF g, S
  <2> QED BY <1>1, <1>3, <1>4, Recursion
<1>6. \A k \in 1 .. count : f[k] = Popped(PatchAt(dir, count - k), f[k - 1])
  <2> SUFFICES ASSUME NEW k \in 1 .. count PROVE f[k] = Popped(PatchAt(dir, count - k), f[k - 1])
    OBVIOUS
  <2>1. k - 1 \in 0 .. count
    BY <1>1
  <2>2. <<k, f[k - 1]>> \in (1 .. count) \X S
    BY <1>5, <2>1 DEF Solves
  <2> QED BY <1>5, <2>2 DEF Solves
<1>7. f = def(f)
  <2>1. \A k \in 0 .. count : k # 0 => k \in 1 .. count
    BY <1>1
  <2> HIDE DEF g, S
  <2> QED BY <1>5, <1>6, <2>1 DEF Solves
<1>8. all = def(all)
  <2> HIDE DEF def
  <2> QED BY <1>7
<1> HIDE DEF all
<1>9. all[0] = s.files /\ \A k \in 1 .. count : all[k] = Popped(PatchAt(dir, count - k), all[k - 1])
  <2>1. \A k \in 1 .. count : k \in 0 .. count /\ k # 0
    BY <1>1
  <2>2. 0 \in 0 .. count
    BY <1>1
  <2> QED BY <1>8, <2>1, <2>2
<1>10. \A k \in 0 .. count : all[k] = f[k]
  <2>1. all[0] = f[0]
    BY <1>5, <1>9 DEF Solves
  <2>2. \A k \in 1 .. count : all[k - 1] = f[k - 1] => all[k] = f[k]
    BY <1>6, <1>9
  <2>3. StayEqual(all, f, count)
    BY <2>1, <2>2 DEF StayEqual
  <2> HIDE DEF g, S, dir
  <2> QED BY <1>1, <2>3, Agree
<1>11. PopAll(s) = f[count]
  BY <1>1, <1>2, <1>10
<1> QED BY <1>1, <1>5, <1>6, <1>11 DEF count, Solves

(* Popping the top patch tells whether the patches are stacked.            *)
LEMMA StackedPopped ==
  ASSUME NEW b \in Tree, NEW t \in Tree, NEW dir, NEW on \in SUBSET Name, NEW n \in on,
         \A m \in on : m <= n, dir[n] \in Diff
  PROVE  Stacked(b, dir, on, t) <=> /\ Popped(dir[n], t) # NoPatch
                                    /\ Stacked(b, dir, on \ {n}, Popped(dir[n], t))
<1> DEFINE r == Reversed(dir[n])
           u == Patched(r, t)
<1>1. r \in Diff /\ u \in Tree
  <2>1. r \in Diff
    BY DiffTypes
  <2> HIDE DEF r
  <2> QED BY <2>1, DiffTypes
<1>2. t # NoPatch /\ u # NoPatch
  BY <1>1, SentinelAssumption
<1>3. Popped(dir[n], t) = IF Applies(r, t) THEN u ELSE NoPatch
  BY <1>2 DEF Popped
<1>4. ASSUME Stacked(b, dir, on, t) PROVE Applies(r, t) /\ Stacked(b, dir, on \ {n}, u)
  BY <1>4, StackedPop
<1>5. ASSUME Applies(r, t), Stacked(b, dir, on \ {n}, u) PROVE Stacked(b, dir, on, t)
  <2>1. DOMAIN r = DOMAIN dir[n] /\ DOMAIN dir[n] \subseteq File
    BY DEF Diff, Reversed
  <2>2. Applies(dir[n], u)
    BY <2>1 DEF Applies, Patched, Reversed
  <2>3. Patched(dir[n], u) = t
    BY <1>5, <2>1 DEF Applies, Patched, Reversed, Tree
  <2>4. \A m \in on \ {n} : m < n
    BY NameAssumption
  <2>5. on = (on \ {n}) \cup {n} /\ n \in Name /\ on \ {n} \in SUBSET Name
    OBVIOUS
  <2> HIDE DEF u, r
  <2> QED BY <1>1, <1>5, <2>2, <2>3, <2>4, <2>5, StackedPush
<1> HIDE DEF u, r
<1> QED BY <1>2, <1>3, <1>4, <1>5

(* A tree that no patch is stacked on is the base.                         *)
LEMMA StackedEmpty ==
  ASSUME NEW b \in Tree, NEW t \in Tree, NEW dir
  PROVE  Stacked(b, dir, {}, t) <=> t = b
BY DEF Stacked, Tree

(* Lint is what pop -a and the comparison of the checksum compute, for any *)
(* subproject whose appliedIndex is in range.                              *)
LEMMA LintPops ==
  ASSUME NEW s \in Snapshot, Consistent(s)
  PROVE  Lint(s) <=> PopAll(s) = s.meta.checksum
<1> DEFINE count == AppliedIndex(s) + 1
           dir == s.patches
           b == s.meta.checksum
           on(k) == UpTo(dir, count - k - 1)
<1>1. count \in Nat /\ count <= Count(dir) /\ Count(dir) \in Nat /\ AppliedIndex(s) \in Int
  BY PopAllWalk, IndexTypes
<1>2. PICK after \in [0 .. count -> Tree \cup {NoPatch}] :
        /\ after[0] = s.files /\ PopAll(s) = after[count]
        /\ \A k \in 1 .. count : after[k] = Popped(PatchAt(dir, count - k), after[k - 1])
  BY PopAllWalk
<1>3. b \in Tree /\ s.files \in Tree /\ \A n \in Listing(dir) : dir[n] \in Diff
  BY IndexTypes DEF Meta
<1> DEFINE Holds(k) == Lint(s) <=> after[k] # NoPatch /\ Stacked(b, dir, on(k), after[k])
           T == {k \in 0 .. count : ~Holds(k)}
<1>4. Holds(0)
  <2>1. on(0) = Applied(s)
    BY <1>1 DEF Applied
  <2>2. s.files # NoPatch
    BY <1>3, SentinelAssumption
  <2> QED BY <1>2, <2>1, <2>2 DEF Lint
<1>5. ASSUME NEW k \in 1 .. count, Holds(k - 1) PROVE Holds(k)
  <2>1. count - k \in 0 .. Count(dir) - 1 /\ k - 1 \in 0 .. count
    BY <1>1
  <2>2. PICK n \in Listing(dir) : /\ PatchAt(dir, count - k) = dir[n]
                                  /\ n \in UpTo(dir, count - k) /\ \A m \in UpTo(dir, count - k) : m <= n
                                  /\ UpTo(dir, count - k) \ {n} = UpTo(dir, count - k - 1)
    BY <2>1, PatchAtFacts
  <2>3. count - (k - 1) - 1 = count - k
    BY <1>1
  <2>4. on(k - 1) = UpTo(dir, count - k) /\ on(k) = on(k - 1) \ {n} /\ on(k - 1) \in SUBSET Name
    BY <2>2, <2>3, NameAssumption DEF UpTo, Listing
  <2>5. after[k] = Popped(dir[n], after[k - 1])
    BY <1>2, <2>2
  <2>6. CASE after[k - 1] = NoPatch
    BY <1>5, <2>5, <2>6 DEF Popped
  <2>7. CASE after[k - 1] \in Tree
    <3>1. after[k - 1] # NoPatch
      BY <2>7, SentinelAssumption
    <3>2. dir[n] \in Diff /\ n \in on(k - 1) /\ \A m \in on(k - 1) : m <= n
      BY <1>3, <2>2, <2>4
    <3> DEFINE t == after[k - 1]
               o == on(k - 1)
    <3>3. Stacked(b, dir, o, t) <=> Popped(dir[n], t) # NoPatch /\ Stacked(b, dir, o \ {n}, Popped(dir[n], t))
      <4>1. b \in Tree /\ t \in Tree /\ o \in SUBSET Name /\ n \in o
        BY <1>3, <2>4, <2>7, <3>2
      <4>2. \A m \in o : m <= n
        BY <3>2
      <4>3. dir[n] \in Diff
        BY <3>2
      <4> HIDE DEF t, o, b, dir
      <4> QED BY <4>1, <4>2, <4>3, StackedPopped
    <3> QED BY <1>5, <2>4, <2>5, <3>1, <3>3
  <2> QED BY <1>2, <2>1, <2>6, <2>7
<1>6. T = {}
  <2> SUFFICES ASSUME T # {} PROVE FALSE
    OBVIOUS
  <2>1. T \in SUBSET Nat
    OBVIOUS
  <2>2. PICK k \in T : \A j \in T : k <= j
    <3> HIDE DEF T
    <3> QED BY <2>1, Least
  <2> HIDE DEF Holds
  <2>3. k \in 1 .. count
    BY <1>4, <2>2
  <2>4. k - 1 \notin T /\ k - 1 \in 0 .. count
    BY <1>1, <2>2, <2>3
  <2> QED BY <1>5, <2>2, <2>3, <2>4
<1>7. Holds(count)
  <2> HIDE DEF Holds
  <2>1. count \in 0 .. count
    BY <1>1
  <2> QED BY <1>6, <2>1
<1>8. on(count) = {}
  <2>1. \A n \in Listing(dir) : Rank(dir, n) \in Nat
    BY ListingFinite, NameAssumption DEF Listing
  <2>2. count - count - 1 = -1
    BY <1>1
  <2> QED BY <2>1, <2>2 DEF UpTo
<1>9. PopAll(s) \in Tree \cup {NoPatch} /\ b # NoPatch
  BY <1>1, <1>2, <1>3, SentinelAssumption
<1>10. CASE PopAll(s) = NoPatch
  BY <1>2, <1>7, <1>9, <1>10
<1>11. CASE PopAll(s) \in Tree
  <2>1. PopAll(s) # NoPatch
    BY <1>11, SentinelAssumption
  <2>2. Stacked(b, dir, {}, PopAll(s)) <=> PopAll(s) = b
    BY <1>3, <1>11, StackedEmpty
  <2> QED BY <1>2, <1>7, <1>8, <2>1, <2>2
<1> QED BY <1>9, <1>10, <1>11

(* So the invariants about Lint are about what pop -a does to the staged   *)
(* subproject, a broken one too.                                           *)
THEOREM LintSaysPopAll == Spec => []LintIsPopAll
<1>1. ASSUME TypeOK PROVE LintIsPopAll
  BY <1>1, LintPops DEF TypeOK, LintIsPopAll
<1> QED BY <1>1, TypeCorrect, PTL
=============================================================================
