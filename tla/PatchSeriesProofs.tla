------------------------- MODULE PatchSeriesProofs -------------------------
(***************************************************************************)
(* Proof that PatchStack implements PatchSeries: the commands, with all    *)
(* their steps, failures and interrupts, have on the staged subproject the *)
(* effects of the abstract series, for every set of files, contents, patch *)
(* names, releases and patch files.                                        *)
(***************************************************************************)
EXTENDS PatchStackSeries, PatchStackProofs

-----------------------------------------------------------------------------
(* Positions in the series.                                                *)

(* The patches up to an index are a lower part of the series.              *)
LEMMA UpToIsLower ==
  ASSUME NEW dir, NEW i \in Int
  PROVE  /\ UpTo(dir, i) \subseteq Listing(dir)
         /\ \A n \in UpTo(dir, i), m \in Listing(dir) \ UpTo(dir, i) : n < m
<1>1. \A n \in Listing(dir) : n \in Nat /\ Rank(dir, n) \in Nat
  BY NameAssumption, ListingFinite DEF Listing
<1>2. ASSUME NEW n \in UpTo(dir, i), NEW m \in Listing(dir) \ UpTo(dir, i) PROVE n < m
  <2>1. n \in Listing(dir) /\ Rank(dir, n) < Rank(dir, m)
    BY <1>1 DEF UpTo
  <2> QED BY <2>1, RankOrder
<1> QED BY <1>2 DEF UpTo

(* One index further there is one patch more, or none.                     *)
LEMMA UpToNext ==
  ASSUME NEW dir, NEW i \in Int
  PROVE  \/ UpTo(dir, i + 1) = UpTo(dir, i)
         \/ \E n \in Listing(dir) \ UpTo(dir, i) : UpTo(dir, i + 1) = UpTo(dir, i) \cup {n}
<1>1. \A n \in Listing(dir) : n \in Nat /\ Rank(dir, n) \in Nat
  BY NameAssumption, ListingFinite DEF Listing
<1>2. UpTo(dir, i) \subseteq UpTo(dir, i + 1)
  BY <1>1 DEF UpTo
<1>3. CASE \E n \in Listing(dir) : Rank(dir, n) = i + 1
  <2> PICK n \in Listing(dir) : Rank(dir, n) = i + 1
    BY <1>3
  <2>1. ASSUME NEW m \in UpTo(dir, i + 1), m # n PROVE m \in UpTo(dir, i)
    <3>1. m \in Listing(dir) /\ Rank(dir, m) <= i + 1
      BY DEF UpTo
    <3>2. Rank(dir, m) # Rank(dir, n)
      <4>1. (n < m <=> Rank(dir, n) < Rank(dir, m)) /\ (m < n <=> Rank(dir, m) < Rank(dir, n))
        BY <3>1, RankOrder
      <4> QED BY <1>1, <2>1, <3>1, <4>1
    <3> QED BY <1>1, <3>1, <3>2 DEF UpTo
  <2>2. n \in UpTo(dir, i + 1) /\ n \notin UpTo(dir, i)
    BY <1>1 DEF UpTo
  <2> QED BY <1>2, <2>1, <2>2
<1>4. CASE \A n \in Listing(dir) : Rank(dir, n) # i + 1
  BY <1>1, <1>4 DEF UpTo
<1> QED BY <1>3, <1>4

-----------------------------------------------------------------------------
(* Commands under way.                                                     *)

(* A freshly added subproject has nothing under way.                       *)
LEMMA SeriesInit == Init => SeriesInv
BY DEF Init, Idle, SeriesInv

(* A command keeps to what it started to do.                               *)
LEMMA SeriesStep == StackInv /\ SeriesInv /\ [Next]_vars => SeriesInv'
<1> SUFFICES ASSUME StackInv, SeriesInv, [Next]_vars, intact' PROVE SeriesInv'
  BY DEF SeriesInv
<1>t. /\ index \in Snapshot /\ work \in Snapshot /\ cmd \in Command /\ CmdInv
  BY DEF StackInv, ControlInv, TypeOK
<1>i. Idle.op = "none" /\ Idle.pc = "idle"
  BY DEF Idle
<1>v. intact /\ cmd = Idle => work.meta = index.meta /\ work.patches = index.patches
  BY DEF StackInv, IndexInv, IdleInv
<1>0. ASSUME cmd' = Idle PROVE SeriesInv'
  BY <1>0, <1>i DEF SeriesInv
<1>1. ASSUME cmd'.op = cmd.op, cmd'.to = cmd.to, cmd'.op \in {"apply", "pop", "push"}, intact,
             index'.patches = index.patches, index'.meta = index.meta
      PROVE  SeriesInv'
  BY <1>1 DEF SeriesInv, Targets, AppliedIndex
<1>2. ASSUME NEW n \in Name, GitApplyPatch(n) PROVE SeriesInv'
  <2>1. cmd'.op = cmd.op /\ cmd'.to = cmd.to /\ cmd.pc = "git"
    BY <1>2, <1>t DEF GitApplyPatch, Command
  <2> QED BY <1>1, <1>2, <1>i, <1>t, <2>1 DEF GitApplyPatch, CmdInv
<1>3. ASSUME GitApplyIndex \/ ApplyCopy \/ MoveMeta PROVE SeriesInv'
  <2>1. /\ cmd'.op = cmd.op /\ cmd'.to = cmd.to /\ cmd.pc \in {"git", "copy", "meta"} /\ intact
        /\ index'.patches = index.patches /\ index'.meta = index.meta
    BY <1>3, <1>t DEF GitApplyIndex, ApplyCopy, MoveMeta, Command, Snapshot
  <2> QED BY <1>1, <1>i, <1>t, <2>1 DEF CmdInv
<1>4. ASSUME NEW n \in Name, NEW d \in Mail, ApplyStart(n, d) PROVE SeriesInv'
  BY <1>4 DEF ApplyStart, Idle, SeriesInv
<1>5. ASSUME intact, cmd = Idle, NEW op \in {"pop", "push"}, NEW target, Move(op, target),
             target \in {-1, Count(work.patches) - 1, AppliedIndex(work) - 1, AppliedIndex(work) + 1}
      PROVE  SeriesInv'
  <2>1. cmd'.op = op /\ cmd'.to = target /\ UNCHANGED <<index, work>>
    BY <1>5 DEF Move, Idle
  <2>2. target \in Targets
    BY <1>5, <1>v DEF Targets, AppliedIndex
  <2>3. target \in Targets'
    BY <2>1, <2>2 DEF Targets, AppliedIndex
  <2> QED BY <2>1, <2>3 DEF SeriesInv
<1>6. ASSUME NEW all \in BOOLEAN, PopStart(all) PROVE SeriesInv'
  <2>1. intact /\ cmd = Idle /\ Move("pop", IF all THEN -1 ELSE AppliedIndex(work) - 1)
    BY <1>6 DEF PopStart, Move
  <2> QED BY <1>5, <2>1
<1>7. ASSUME NEW all \in BOOLEAN, PushStart(all) PROVE SeriesInv'
  <2>1. intact /\ cmd = Idle
        /\ Move("push", IF all THEN Count(work.patches) - 1 ELSE AppliedIndex(work) + 1)
    BY <1>7 DEF PushStart, Move
  <2> QED BY <1>5, <2>1
<1>8. ASSUME NEW n \in Name, SyncWrite(n) PROVE SeriesInv'
  <2>1. /\ intact /\ cmd = Idle /\ n \in Listing(work.patches) /\ index' = index
        /\ cmd'.op = "sync" /\ cmd'.name = n
    BY <1>8 DEF SyncWrite, Idle
  <2>2. work'.meta = work.meta /\ \A m \in Name \ {n} : work'.patches[m] = work.patches[m]
    BY <1>8, <1>t DEF SyncWrite, Snapshot, PatchDir
  <2> QED BY <1>v, <2>1, <2>2 DEF SeriesInv
<1>9. ASSUME NEW t \in Release, Update(t) PROVE SeriesInv'
  <2>1. cmd' = Idle BY <1>9 DEF Update
  <2> QED BY <1>0, <2>1
<1>10. ASSUME (\E n \in Name : GitApplyFails(n)) \/ ApplyAdd \/ MoveAdd \/ SyncAdd \/ ChecksumWrite \/ User
       PROVE  SeriesInv'
  <2>1. cmd' = Idle
    BY <1>10 DEF GitApplyFails, ApplyAdd, MoveAdd, SyncAdd, ChecksumWrite, User, Edit, Stage, Commit,
       ResetMerge, ResetHard, Interrupt
  <2> QED BY <1>0, <2>1
<1>11. ASSUME UNCHANGED vars PROVE SeriesInv'
  BY <1>11 DEF vars, SeriesInv, Targets, AppliedIndex
<1> QED BY <1>2, <1>3, <1>4, <1>6, <1>7, <1>8, <1>9, <1>10, <1>11 DEF Next, Subpatch

-----------------------------------------------------------------------------
(* Steps of the abstract series.                                           *)

(* A freshly added subproject is an empty series.                          *)
LEMMA SeriesStart == Init => Series!Init
<1> SUFFICES ASSUME Init PROVE Series!Init
  OBVIOUS
<1>1. PICK t \in Release :
        LET s == [files |-> t, patches |-> [n \in Name |-> NoPatch],
                  meta |-> [checksum |-> t, applied |-> NoIndex]]
        IN head = s /\ index = s
  BY DEF Init
<1>2. /\ Listed(index.patches) = [n \in DotPatch |-> NoPatch]
      /\ head = index /\ index.meta.checksum \in Release
  BY <1>1, NameAssumption DEF Listed
<1>3. Listing(index.patches) = {}
  BY <1>1, NameAssumption DEF Listing
<1>4. Applied(index) = {}
  BY <1>3 DEF Applied, UpTo
<1> QED BY <1>2, <1>4 DEF Series!Init

(* The abstract series is of the same patches.                             *)
LEMMA SameDiffs == Series!Diff = Diff
BY DEF Series!Diff, Series!Hunk, Series!Content, Diff, Hunk, Content

(* The patches of the abstract series are the listed files.                *)
LEMMA SeriesAll == Series!All = Listing(index.patches)
BY DEF Series!All, Listing, Listed

(* Changing one file of the series changes the abstract series there.      *)
LEMMA ListedExcept ==
  ASSUME NEW dir \in PatchDir, NEW n \in DotPatch, NEW d
  PROVE  Listed([dir EXCEPT ![n] = d]) = [Listed(dir) EXCEPT ![n] = d]
BY NameAssumption DEF Listed, PatchDir

(* The series of a directory with one more patch.                          *)
LEMMA ListingExcept ==
  ASSUME NEW dir \in PatchDir, NEW n \in DotPatch, NEW d \in Diff
  PROVE  Listing([dir EXCEPT ![n] = d]) = Listing(dir) \cup {n}
<1>1. \A m \in DotPatch : [dir EXCEPT ![n] = d][m] = IF m = n THEN d ELSE dir[m]
  BY NameAssumption DEF PatchDir
<1>2. d # NoPatch
  BY SentinelAssumption
<1> QED BY <1>1, <1>2 DEF Listing

(* A step that stages nothing and commits nothing is no step of the series.*)
LEMMA NothingStaged ==
  ASSUME index'.patches = index.patches, index'.meta = index.meta, head' = head
  PROVE  UNCHANGED Series!vars
BY DEF Series!vars, Listed, Applied, AppliedIndex

(* The patch that "apply" stages is new, and on top of all others.         *)
LEMMA ApplyIsNew == StackInv /\ intact /\ ApplyAdd => Series!New
<1> SUFFICES ASSUME StackInv, intact, ApplyAdd PROVE Series!New
  OBVIOUS
<1> DEFINE dir == index.patches
<1>1. /\ index \in Snapshot /\ head' = head /\ cmd.op = "apply" /\ cmd.pc = "add"
      /\ index' = [index EXCEPT !.patches[cmd.name] = work.patches[cmd.name]]
  BY DEF ApplyAdd, StackInv, ControlInv, TypeOK
<1>2. cmd.name \in Name /\ cmd.mail \in Diff
  BY <1>1 DEF StackInv, ControlInv, CmdInv, Idle
<1>3. /\ index.meta.applied = NoIndex /\ work.patches = Extended /\ cmd.name \in DotPatch
      /\ \A m \in Listing(dir) : m < cmd.name
  BY <1>1 DEF StackInv, IndexInv, ApplyInv
<1>4. /\ index'.patches = [dir EXCEPT ![cmd.name] = cmd.mail] /\ index'.meta = index.meta
      /\ index' \in Snapshot
  BY <1>1, <1>2, <1>3 DEF Extended, Snapshot, PatchDir
<1>d. dir \in PatchDir
  BY <1>1 DEF Snapshot
<1>5. /\ Listing(index'.patches) = Listing(dir) \cup {cmd.name}
      /\ Listed(index'.patches) = [Listed(dir) EXCEPT ![cmd.name] = cmd.mail]
  <2> HIDE DEF dir
  <2>1. Listing([dir EXCEPT ![cmd.name] = cmd.mail]) = Listing(dir) \cup {cmd.name}
    BY <1>2, <1>3, <1>d, ListingExcept
  <2>2. Listed([dir EXCEPT ![cmd.name] = cmd.mail]) = [Listed(dir) EXCEPT ![cmd.name] = cmd.mail]
    BY <1>3, <1>d, ListedExcept
  <2> QED BY <1>4, <2>1, <2>2
<1>6. Applied(index) = Listing(dir) /\ Applied(index') = Listing(index'.patches)
  BY <1>1, <1>3, <1>4, AppliedSets
<1>7. Series!All = Listing(dir)
  BY SeriesAll
<1>8. Applied(head)' = Applied(head)
  BY <1>1 DEF Applied, AppliedIndex
<1> QED BY <1>1, <1>2, <1>3, <1>4, <1>5, <1>6, <1>7, <1>8, SameDiffs DEF Series!New

(* What a pop or push stages is one patch more or less, or all or none.    *)
LEMMA MoveIsMove == StackInv /\ SeriesInv /\ intact /\ MoveAdd => Series!Move \/ UNCHANGED Series!vars
<1> SUFFICES ASSUME StackInv, SeriesInv, intact, MoveAdd PROVE Series!Move \/ UNCHANGED Series!vars
  OBVIOUS
<1> DEFINE dir == index.patches
           S == UpTo(dir, cmd.to)
<1>1. /\ index \in Snapshot /\ head' = head /\ work' = work /\ MoveInv /\ cmd.pc = "add"
      /\ index' = [index EXCEPT !.meta = work.meta] /\ cmd.op \in {"pop", "push"}
  BY DEF MoveAdd, StackInv, ControlInv, TypeOK, IndexInv
<1>2. /\ index'.patches = dir /\ index'.meta = [index.meta EXCEPT !.applied = Recorded(cmd.to)]
      /\ cmd.to \in -1 .. (Count(dir) - 1) /\ work.patches = dir
      /\ Count(dir) \in Nat /\ AppliedIndex(index) \in Int /\ index.meta \in Meta
  BY <1>1, IndexTypes DEF MoveInv, Snapshot
<1>3. index'.meta.applied = Recorded(cmd.to) /\ index'.meta.checksum = index.meta.checksum
  BY <1>2 DEF Meta
<1>4. Applied(index') = S
  <2>1. CASE cmd.to = Count(dir) - 1
    BY <1>2, <1>3, <2>1 DEF Recorded, Applied, AppliedIndex
  <2>2. CASE cmd.to # Count(dir) - 1
    BY <1>2, <1>3, <2>2, SentinelAssumption DEF Recorded, Applied, AppliedIndex
  <2> QED BY <2>1, <2>2
<1>5. Series!All = Listing(dir)
  BY SeriesAll
<1>6. Series!LowerPart(S)
  BY <1>2, <1>5, UpToIsLower DEF Series!LowerPart
<1>7. Applied(head)' = Applied(head)
  BY <1>1 DEF Applied, AppliedIndex
<1>8. \/ S = {} \/ S = Listing(dir) \/ S = Applied(index)
      \/ \E n \in Listing(dir) : S = Applied(index) \cup {n} \/ S = Applied(index) \ {n}
  <2> DEFINE at == AppliedIndex(index)
  <2>1. CASE cmd.to = -1 \/ cmd.to = Count(dir) - 1
    BY <2>1, UpToEnds
  <2>2. CASE cmd.to = at + 1
    BY <1>2, <2>2, UpToNext DEF Applied
  <2>3. CASE cmd.to = at - 1
    <3>1. at = (at - 1) + 1 /\ at - 1 \in Int
      BY <1>2
    <3>2. \/ UpTo(dir, at) = S
          \/ \E n \in Listing(dir) \ S : UpTo(dir, at) = S \cup {n}
      BY <2>3, <3>1, UpToNext
    <3> QED BY <3>2 DEF Applied
  <2> QED BY <1>1, <2>1, <2>2, <2>3 DEF SeriesInv, Targets
<1>9. CASE S = Applied(index)
  BY <1>1, <1>2, <1>3, <1>4, <1>7, <1>9 DEF Series!vars
<1>10. CASE S # Applied(index)
  <2>1. S \in SUBSET Series!All
    BY <1>6 DEF Series!LowerPart
  <2> HIDE DEF S
  <2> QED BY <1>1, <1>2, <1>3, <1>4, <1>5, <1>6, <1>7, <1>8, <1>10, <2>1 DEF Series!Move
<1> QED BY <1>9, <1>10

(* What "sync" stages is another text of the top patch.                    *)
LEMMA SyncIsRewrite == StackInv /\ SeriesInv /\ intact /\ SyncAdd => Series!Rewrite
<1> SUFFICES ASSUME StackInv, SeriesInv, intact, SyncAdd PROVE Series!Rewrite
  OBVIOUS
<1> DEFINE dir == index.patches
           n == cmd.name
           d == DiffOf(head.files, index.files)
<1>1. /\ index \in Snapshot /\ work \in Snapshot /\ head \in Snapshot /\ head' = head
      /\ cmd.op = "sync" /\ cmd.pc = "add"
      /\ index' = [index EXCEPT !.patches[n] = work.patches[n]]
  BY DEF SyncAdd, StackInv, ControlInv, TypeOK
<1>2. Rank(work.patches, n) = AppliedIndex(work) /\ work.patches[n] = d
  BY <1>1 DEF StackInv, ControlInv, CmdInv, Idle
<1>3. /\ n \in Listing(dir) /\ n \in DotPatch /\ n \in Name /\ work.meta = index.meta
      /\ \A m \in Name \ {n} : work.patches[m] = dir[m]
  BY <1>1, NameAssumption DEF SeriesInv, Listing
<1>4. d \in Diff
  BY <1>1, IndexTypes, DiffOfTrees
<1>5. /\ index'.patches = [dir EXCEPT ![n] = d] /\ index'.meta = index.meta
  BY <1>1, <1>2, <1>3 DEF Snapshot
<1>6. /\ Listing(work.patches) = Listing(dir) /\ Listing(index'.patches) = Listing(dir)
      /\ Listed(index'.patches) = [Listed(dir) EXCEPT ![n] = d]
  <2> HIDE DEF d, dir, n
  <2>1. dir \in PatchDir
    BY <1>1 DEF dir, Snapshot
  <2>2. Listing([dir EXCEPT ![n] = d]) = Listing(dir) \cup {n}
    BY <1>3, <1>4, <2>1, ListingExcept
  <2>3. Listing(index'.patches) = Listing(dir)
    BY <1>3, <1>5, <2>2
  <2>4. Listing(work.patches) = Listing(dir)
    <3>1. \A m \in DotPatch \ {n} : work.patches[m] = dir[m]
      BY <1>3, NameAssumption
    <3>2. work.patches[n] # NoPatch /\ dir[n] # NoPatch
      BY <1>2, <1>3, <1>4, SentinelAssumption DEF Listing
    <3> QED BY <3>1, <3>2 DEF Listing
  <2>5. Listed([dir EXCEPT ![n] = d]) = [Listed(dir) EXCEPT ![n] = d]
    BY <1>3, <2>1, ListedExcept
  <2> QED BY <1>5, <2>3, <2>4, <2>5
<1>7. /\ Applied(index') = Applied(index) /\ Rank(dir, n) = AppliedIndex(index)
  BY <1>2, <1>3, <1>5, <1>6 DEF Applied, AppliedIndex, UpTo, Rank, Count
<1>8. Series!Top(n)
  <2>1. \A m \in Listing(dir) : m \in Nat /\ Rank(dir, m) \in Nat
    BY NameAssumption, ListingFinite DEF Listing
  <2>2. n \in Applied(index)
    BY <1>3, <1>7, <2>1 DEF Applied, UpTo
  <2>3. ASSUME NEW m \in Applied(index) PROVE m <= n
    <3>1. m \in Listing(dir) /\ Rank(dir, m) <= Rank(dir, n)
      BY <1>7 DEF Applied, UpTo
    <3>2. n < m <=> Rank(dir, n) < Rank(dir, m)
      BY <1>3, <3>1, RankOrder
    <3> QED BY <1>3, <2>1, <3>1, <3>2
  <2> QED BY <2>2, <2>3 DEF Series!Top
<1>9. Applied(head)' = Applied(head)
  BY <1>1 DEF Applied, AppliedIndex
<1>10. index'.meta.checksum = index.meta.checksum /\ head' = head
  BY <1>1, <1>5
<1> HIDE DEF d, dir, n
<1> QED BY <1>3, <1>4, <1>6, <1>7, <1>8, <1>9, <1>10, SameDiffs DEF Series!Rewrite, dir

(* "update" gives a series that is popped another base.                    *)
LEMMA UpdateIsRebase ==
  ASSUME StackInv, intact, NEW t \in Release, Update(t)
  PROVE  Series!Rebase
<1>1. /\ index \in Snapshot /\ work \in Snapshot /\ cmd = Idle /\ head' = head
      /\ Count(work.patches) > 0 => AppliedIndex(work) = -1
      /\ work' = [work EXCEPT !.files = Unpacked(t, index.files, work.files), !.meta.checksum = t]
      /\ index' = [index EXCEPT !.files = t, !.meta = work'.meta]
  BY DEF Update, StackInv, ControlInv, TypeOK
<1>2. work.meta = index.meta /\ work.patches = index.patches
  BY <1>1 DEF StackInv, IndexInv, IdleInv
<1>3. /\ index'.patches = index.patches /\ index'.meta.applied = index.meta.applied
      /\ index'.meta.checksum = t
  <2>1. index'.patches = index.patches /\ index'.meta = [work.meta EXCEPT !.checksum = t]
    BY <1>1 DEF Snapshot
  <2>2. work.meta \in Meta BY <1>1, IndexTypes
  <2> QED BY <1>2, <2>1, <2>2 DEF Meta
<1>4. Applied(index) = {}
  <2>1. CASE Count(index.patches) > 0
    BY <1>1, <1>2, <2>1, UpToEnds DEF Applied, AppliedIndex
  <2>2. CASE ~(Count(index.patches) > 0)
    <3>1. Count(index.patches) = 0 /\ IsFiniteSet(Listing(index.patches))
      BY <2>2, ListingFinite
    <3>2. Listing(index.patches) = {}
      BY <3>1, FS_EmptySet DEF Count
    <3> QED BY <3>2 DEF Applied, UpTo
  <2> QED BY <2>1, <2>2
<1>5. Applied(index)' = Applied(index) /\ Applied(head)' = Applied(head)
  BY <1>1, <1>3 DEF Applied, AppliedIndex
<1> QED BY <1>1, <1>3, <1>4, <1>5 DEF Series!Rebase

(* Every step of the program is a step of the series, or none.             *)
LEMMA SeriesNext ==
  StackInv /\ SeriesInv /\ [Next]_vars /\ intact /\ intact' => Series!Next \/ UNCHANGED Series!vars
<1> SUFFICES ASSUME StackInv, SeriesInv, [Next]_vars, intact, intact'
             PROVE  Series!Next \/ UNCHANGED Series!vars
  OBVIOUS
<1>t. index \in Snapshot
  BY DEF StackInv, ControlInv, TypeOK
<1>1. CASE (\E n \in Name : GitApplyPatch(n)) \/ (\E n \in Name : GitApplyFails(n)) \/ GitApplyIndex
  <2>1. index'.patches = index.patches /\ index'.meta = index.meta /\ head' = head
    BY <1>1, <1>t DEF GitApplyPatch, GitApplyFails, GitApplyIndex, Snapshot
  <2> QED BY <2>1, NothingStaged
<1>2. CASE \/ (\E n \in Name, d \in Mail : ApplyStart(n, d)) \/ (\E all \in BOOLEAN : PopStart(all))
           \/ (\E all \in BOOLEAN : PushStart(all)) \/ (\E n \in Name : SyncWrite(n))
  <2>1. index' = index /\ head' = head
    BY <1>2 DEF ApplyStart, PopStart, PushStart, Move, SyncWrite
  <2> QED BY <2>1, NothingStaged
<1>3. CASE ApplyCopy \/ MoveMeta \/ ChecksumWrite \/ Interrupt \/ (\E f \in File, v \in Content : Edit(f, v))
  <2>1. index' = index /\ head' = head
    BY <1>3 DEF ApplyCopy, MoveMeta, ChecksumWrite, Interrupt, Edit
  <2> QED BY <2>1, NothingStaged
<1>4. CASE ApplyAdd
  BY <1>4, ApplyIsNew DEF Series!Next
<1>5. CASE MoveAdd
  BY <1>5, MoveIsMove DEF Series!Next
<1>6. CASE SyncAdd
  BY <1>6, SyncIsRewrite DEF Series!Next
<1>7. CASE \E t \in Release : Update(t)
  BY <1>7, UpdateIsRebase DEF Series!Next
<1>8. CASE Stage
  <2>1. index' = index /\ head' = head
    BY <1>8 DEF Stage
  <2> QED BY <2>1, NothingStaged
<1>9. CASE Commit
  <2>1. Series!Save
    BY <1>9 DEF Commit, Series!Save, Applied, AppliedIndex
  <2> QED BY <2>1 DEF Series!Next
<1>10. CASE ResetMerge \/ ResetHard
  <2>1. Series!Revert
    BY <1>10 DEF ResetMerge, ResetHard, Series!Revert, Applied, AppliedIndex
  <2> QED BY <2>1 DEF Series!Next
<1>11. CASE UNCHANGED vars
  BY <1>11, NothingStaged DEF vars
<1> QED BY <1>1, <1>2, <1>3, <1>4, <1>5, <1>6, <1>7, <1>8, <1>9, <1>10, <1>11 DEF Next, Subpatch, User

-----------------------------------------------------------------------------
(* Theorems.                                                               *)

(* A running command will stage what the abstract series allows.           *)
THEOREM SeriesInvariant == Spec => []SeriesInv
BY SeriesInit, SeriesStep, StackInvariant, PTL DEF Spec

(* The patch commands, with all their steps, failures and interrupts,      *)
(* implement the abstract series of patches while only files named *.patch *)
(* are applied; to apply another one is no step of the series.             *)
THEOREM StackImplementsSeries == Spec => ImplementsSeries
<1>1. StackInv /\ SeriesInv /\ [Next]_vars => [intact /\ intact' => Series!Next]_(Series!vars)
  BY SeriesNext
<1> QED BY <1>1, SeriesStart, StackInvariant, SeriesInvariant, PTL DEF Spec, ImplementsSeries
=============================================================================
