---------------------------- MODULE PatchStack ----------------------------
(***************************************************************************)
(* The patch series of one subproject and the commands that work on it:    *)
(* apply, pop, push, sync, update and subtree checksum --write.            *)
(*                                                                         *)
(* A subproject lives in the three trees of git: the last commit (head),   *)
(* the staging area (index) and the working tree (work).  Each holds the   *)
(* subtree's files, the directory of patch files and the metadata file     *)
(* .subproject.  A command runs as the sequence of effects of its code, so *)
(* it can fail or be interrupted between two of them.  The user edits      *)
(* files, stages, commits and reverts between commands.                    *)
(***************************************************************************)
EXTENDS Git, Integers, FiniteSets

CONSTANTS
  Name,      \* names of files to "apply", in their sort order
  DotPatch,  \* those that end in ".patch"
  NoPatch,   \* "there is no patch file of this name"
  NoIndex,   \* appliedIndex is not in the metadata
  Release,   \* trees the upstream project offers to "update"
  Mail       \* patch files the user may pass to "apply"

ASSUME NameAssumption == Name \subseteq Nat /\ IsFiniteSet(Name) /\ DotPatch \subseteq Name
ASSUME SentinelAssumption == NoPatch \notin Diff \cup Tree /\ NoIndex \notin Int
ASSUME InputAssumption == Release \subseteq Tree /\ Mail \subseteq Diff

VARIABLES
  head, index, work,    \* the subproject in each of git's trees
  cmd,                  \* the command that runs, and how far it is
  lock,                 \* the files in git's index.lock while "git apply" runs
  intact, headIntact    \* history: see the section on the user's part

vars == <<head, index, work, cmd, lock, intact, headIntact>>

-----------------------------------------------------------------------------
(* The subproject as the program reads it.                                 *)
Meta == [checksum : Tree, applied : Int \cup {NoIndex}]
PatchDir == [Name -> Diff \cup {NoPatch}]
Snapshot == [files : Tree, patches : PatchDir, meta : Meta]

\* Other files in the directory "patches" are not of the series.
Listing(dir) == {n \in DotPatch : dir[n] # NoPatch}
Count(dir) == Cardinality(Listing(dir))
Rank(dir, n) == Cardinality({m \in Listing(dir) : m < n})
UpTo(dir, i) == {n \in Listing(dir) : Rank(dir, n) <= i}

AppliedIndex(s) == IF s.meta.applied = NoIndex THEN Count(s.patches) - 1 ELSE s.meta.applied
Applied(s) == UpTo(s.patches, AppliedIndex(s))

Consistent(s) == s.meta.applied # NoIndex =>
  s.meta.applied >= -1 /\ s.meta.applied < Count(s.patches)

\* appliedIndex as pop and push record it.
Canonical(s) == s.meta.applied # NoIndex => s.meta.applied \in -1 .. (Count(s.patches) - 2)

-----------------------------------------------------------------------------
(* A command in progress.  "to" is the appliedIndex a pop or push goes to, *)
(* "todo" the patch files "git apply" has still to process, "mail" the     *)
(* patch file given to apply.                                              *)
Idle == [op |-> "none", pc |-> "idle", todo |-> {}, name |-> 0, to |-> 0, mail |-> NoPatch]

Command ==
  [op : {"none", "apply", "pop", "push", "sync"},
   pc : {"idle", "git", "meta", "copy", "add"},
   todo : SUBSET Name, name : Int, to : Int, mail : Diff \cup {NoPatch}]

\* No index.lock exists.
Unlocked == [f \in {} |-> Absent]

TypeOK ==
  /\ head \in Snapshot /\ index \in Snapshot /\ work \in Snapshot
  /\ cmd \in Command
  /\ lock \in Tree \cup {Unlocked}
  /\ intact \in BOOLEAN /\ headIntact \in BOOLEAN

\* A freshly added and committed subproject.
Init ==
  \E t \in Release :
    LET s == [files |-> t, patches |-> [n \in Name |-> NoPatch],
              meta |-> [checksum |-> t, applied |-> NoIndex]]
    IN /\ head = s /\ index = s /\ work = s
       /\ cmd = Idle /\ lock = Unlocked
       /\ intact = TRUE /\ headIntact = TRUE

-----------------------------------------------------------------------------
(* "git apply --index": each patch file is checked against the index and   *)
(* the worktree and written to the worktree at once; the index is written  *)
(* when the last patch file has gone through, and not at all on a failure. *)
\* Mutation: patches are popped in the order they are pushed in.
IsFirst(n) == \A m \in cmd.todo : n <= m

IsNext(n) == \A m \in cmd.todo : IF cmd.op = "pop" THEN m <= n ELSE n <= m

PatchText(n) ==
  CASE cmd.op = "pop"   -> Reversed(work.patches[n])
    [] cmd.op = "push"  -> work.patches[n]
    [] cmd.op = "apply" -> cmd.mail

Fits(d, idx, wrk) == Applies(d, idx) /\ \A f \in DOMAIN d : wrk[f] = idx[f]

GitApplyPatch(n) ==
  /\ cmd.pc = "git" /\ n \in cmd.todo /\ IsNext(n)
  /\ Fits(PatchText(n), lock, work.files)
  /\ lock' = Patched(PatchText(n), lock)
  /\ work' = [work EXCEPT !.files = Patched(PatchText(n), work.files)]
  /\ cmd' = [cmd EXCEPT !.todo = cmd.todo \ {n}]
  /\ UNCHANGED <<head, index, intact, headIntact>>

\* The exception ends the command; what earlier patch files wrote stays.
GitApplyFails(n) ==
  /\ cmd.pc = "git" /\ n \in cmd.todo /\ IsNext(n)
  /\ ~Fits(PatchText(n), lock, work.files)
  /\ cmd' = Idle /\ lock' = Unlocked
  /\ UNCHANGED <<head, index, work, intact, headIntact>>

GitApplyIndex ==
  /\ cmd.pc = "git" /\ cmd.todo = {}
  /\ index' = [index EXCEPT !.files = lock]
  /\ cmd' = [cmd EXCEPT !.pc = IF cmd.op = "apply" THEN "copy" ELSE "meta"]
  /\ lock' = Unlocked
  /\ intact' = (intact /\ (cmd.op = "apply" => cmd.name \in DotPatch))
  /\ UNCHANGED <<head, work, headIntact>>

-----------------------------------------------------------------------------
(* subpatch apply: only on top of the whole series, under a new name that  *)
(* sorts last; "git apply --check" comes first.  The name need not end in  *)
(* ".patch": such a file is applied and staged, but not listed.            *)
\* Mutation: any unused name is taken.
ApplyStartUnsorted(n, d) ==
  /\ cmd = Idle /\ Consistent(work)
  /\ work.meta.applied = NoIndex /\ n \notin Listing(work.patches)
  /\ Fits(d, index.files, work.files)
  /\ cmd' = [Idle EXCEPT !.op = "apply", !.pc = "git", !.todo = {n}, !.name = n, !.mail = d]
  /\ lock' = index.files
  /\ UNCHANGED <<head, index, work, intact, headIntact>>

ApplyStart(n, d) ==
  /\ cmd = Idle /\ Consistent(work)
  /\ work.meta.applied = NoIndex
  /\ n \notin Listing(work.patches)
  /\ \A m \in Listing(work.patches) : m < n
  /\ Fits(d, index.files, work.files)
  /\ cmd' = [Idle EXCEPT !.op = "apply", !.pc = "git", !.todo = {n}, !.name = n, !.mail = d]
  /\ lock' = index.files
  /\ UNCHANGED <<head, index, work, intact, headIntact>>

ApplyCopy ==
  /\ cmd.pc = "copy"
  /\ work' = [work EXCEPT !.patches[cmd.name] = cmd.mail]
  /\ cmd' = [cmd EXCEPT !.pc = "add"]
  /\ UNCHANGED <<head, index, lock, intact, headIntact>>

ApplyAdd ==
  /\ cmd.op = "apply" /\ cmd.pc = "add"
  /\ index' = [index EXCEPT !.patches[cmd.name] = work.patches[cmd.name]]
  /\ cmd' = Idle
  /\ UNCHANGED <<head, work, lock, intact, headIntact>>

-----------------------------------------------------------------------------
(* subpatch pop and push, with and without --all.                          *)
Move(op, target) ==
  LET at == AppliedIndex(work)
      names == UpTo(work.patches, IF op = "pop" THEN at ELSE target)
               \ UpTo(work.patches, IF op = "pop" THEN target ELSE at)
  IN /\ cmd' = [Idle EXCEPT !.op = op, !.pc = "git", !.todo = names, !.to = target]
     /\ lock' = index.files
     /\ UNCHANGED <<head, index, work, intact, headIntact>>

\* Mutation: "pop --all" goes to index 0.
PopStartToFirst(all) ==
  /\ cmd = Idle /\ Consistent(work)
  /\ Count(work.patches) > 0 /\ AppliedIndex(work) # -1
  /\ Move("pop", IF all THEN 0 ELSE AppliedIndex(work) - 1)

PopStart(all) ==
  /\ cmd = Idle /\ Consistent(work)
  /\ Count(work.patches) > 0 /\ AppliedIndex(work) # -1
  /\ Move("pop", IF all THEN -1 ELSE AppliedIndex(work) - 1)

PushStart(all) ==
  /\ cmd = Idle /\ Consistent(work)
  /\ Count(work.patches) > 0 /\ AppliedIndex(work) # Count(work.patches) - 1
  /\ Move("push", IF all THEN Count(work.patches) - 1 ELSE AppliedIndex(work) + 1)

\* Mutations: the index before the move, and the default is written out.
RecordedBefore(i) == AppliedIndex(work)
RecordedAlways(i) == i

\* The default of appliedIndex is "all", so it is dropped when that is so.
Recorded(i) == IF i = Count(work.patches) - 1 THEN NoIndex ELSE i

MoveMeta ==
  /\ cmd.pc = "meta"
  /\ work' = [work EXCEPT !.meta.applied = Recorded(cmd.to)]
  /\ cmd' = [cmd EXCEPT !.pc = "add"]
  /\ UNCHANGED <<head, index, lock, intact, headIntact>>

\* Mutation: the metadata is not added to the index.
MoveAddNot ==
  /\ cmd.op \in {"pop", "push"} /\ cmd.pc = "add" /\ cmd' = Idle
  /\ UNCHANGED <<head, index, work, lock, intact, headIntact>>

MoveAdd ==
  /\ cmd.op \in {"pop", "push"} /\ cmd.pc = "add"
  /\ index' = [index EXCEPT !.meta = work.meta]
  /\ cmd' = Idle
  /\ UNCHANGED <<head, work, lock, intact, headIntact>>

-----------------------------------------------------------------------------
(* subpatch sync: the current patch becomes the difference between the     *)
(* subtree in HEAD and the subtree in the index.                           *)
SyncWrite(n) ==
  /\ cmd = Idle /\ Consistent(work)
  /\ n \in Listing(work.patches) /\ Rank(work.patches, n) = AppliedIndex(work)
  /\ work' = [work EXCEPT !.patches[n] = DiffOf(head.files, index.files)]
  /\ cmd' = [Idle EXCEPT !.op = "sync", !.pc = "add", !.name = n]
  /\ UNCHANGED <<head, index, lock, intact, headIntact>>

\* HEAD holds the series up to the patch just below the current one, which
\* is how the documented sequence "pop, commit, push, edit, sync" leaves it.
OnTopOfHead ==
  /\ headIntact
  /\ work.meta = index.meta /\ index.meta.checksum = head.meta.checksum
  /\ Canonical(work)
  /\ Applied(head) = Applied(work) \ {cmd.name}
  /\ \A n \in Name \ {cmd.name} : work.patches[n] = index.patches[n]
  /\ \A n \in Applied(head) : head.patches[n] = index.patches[n]

SyncAdd ==
  /\ cmd.op = "sync" /\ cmd.pc = "add"
  /\ index' = [index EXCEPT !.patches[cmd.name] = work.patches[cmd.name]]
  /\ cmd' = Idle
  /\ intact' = OnTopOfHead
  /\ UNCHANGED <<head, work, lock, headIntact>>

-----------------------------------------------------------------------------
(* subpatch update, when nothing interferes, and subtree checksum --write, *)
(* which leaves the metadata unstaged.                                     *)
Unstaged(i, w) ==
  \/ \E f \in File : i.files[f] # Absent /\ w.files[f] # i.files[f]
  \/ \E n \in Name : i.patches[n] # NoPatch /\ w.patches[n] # i.patches[n]
  \/ w.meta # i.meta

\* Tracked files are removed, the release is moved over what is left.
Unpacked(t, i, w) ==
  [f \in File |-> IF t[f] # Absent THEN t[f] ELSE IF i[f] # Absent THEN Absent ELSE w[f]]

\* Mutation: the patches need not be popped.
UpdateApplied(t) ==
  /\ cmd = Idle /\ ~Unstaged(index, work) /\ Consistent(work)
  /\ work' = [work EXCEPT !.files = Unpacked(t, index.files, work.files), !.meta.checksum = t]
  /\ index' = [index EXCEPT !.files = t, !.meta = work'.meta]
  /\ UNCHANGED <<head, cmd, lock, intact, headIntact>>

Update(t) ==
  /\ cmd = Idle /\ ~Unstaged(index, work) /\ Consistent(work)
  /\ Count(work.patches) > 0 => AppliedIndex(work) = -1
  /\ work' = [work EXCEPT !.files = Unpacked(t, index.files, work.files), !.meta.checksum = t]
  /\ index' = [index EXCEPT !.files = t, !.meta = work'.meta]
  /\ UNCHANGED <<head, cmd, lock, intact, headIntact>>

ChecksumWrite ==
  /\ cmd = Idle
  /\ work' = [work EXCEPT !.meta.checksum = index.files]
  /\ intact' = (intact /\ work'.meta = work.meta)
  /\ UNCHANGED <<head, index, cmd, lock, headIntact>>

-----------------------------------------------------------------------------
(* The user's part.  "intact" tells whether the subproject in the index    *)
(* has only been through steps the tool answers for: it is lost by staging *)
(* edits by hand, by an interrupt that leaves files and metadata apart, by *)
(* writing another checksum, by a sync against another HEAD and by         *)
(* applying a file whose name does not end in ".patch"; it comes back with *)
(* a sync on top of HEAD or a revert to an intact commit.                  *)
Edit(f, v) ==
  /\ cmd = Idle
  /\ work' = [work EXCEPT !.files[f] = v]
  /\ UNCHANGED <<head, index, cmd, lock, intact, headIntact>>

Stage ==
  /\ cmd = Idle
  /\ index' = work
  /\ intact' = (intact /\ work = index)
  /\ UNCHANGED <<head, work, cmd, lock, headIntact>>

Commit ==
  /\ cmd = Idle
  /\ head' = index /\ headIntact' = intact
  /\ UNCHANGED <<index, work, cmd, lock, intact>>

ResetMerge ==
  /\ cmd = Idle
  /\ \A f \in File : MergeAllowed(head.files[f], index.files[f], work.files[f], Absent)
  /\ \A n \in Name : MergeAllowed(head.patches[n], index.patches[n], work.patches[n], NoPatch)
  /\ MergeAllowed(head.meta, index.meta, work.meta, NoPatch)
  /\ index' = head
  /\ work' = [files |-> [f \in File |-> Merged(head.files[f], index.files[f], work.files[f])],
              patches |-> [n \in Name |-> Merged(head.patches[n], index.patches[n], work.patches[n])],
              meta |-> Merged(head.meta, index.meta, work.meta)]
  /\ intact' = (intact /\ headIntact)
  /\ UNCHANGED <<head, cmd, lock, headIntact>>

\* git reset --hard and git clean -fd
ResetHard ==
  /\ cmd = Idle
  /\ index' = head /\ work' = head /\ intact' = headIntact
  /\ UNCHANGED <<head, cmd, lock, headIntact>>

\* Ctrl-C or a kill between two effects of a command.
Interrupt ==
  /\ cmd # Idle
  /\ cmd' = Idle /\ lock' = Unlocked
  /\ intact' = (intact /\ cmd.pc = "git")
  /\ UNCHANGED <<head, index, work, headIntact>>

-----------------------------------------------------------------------------
Subpatch ==
  \/ \E n \in Name : GitApplyPatch(n)
  \/ \E n \in Name : GitApplyFails(n)
  \/ GitApplyIndex
  \/ \E n \in Name, d \in Mail : ApplyStart(n, d)
  \/ ApplyCopy \/ ApplyAdd
  \/ \E all \in BOOLEAN : PopStart(all)
  \/ \E all \in BOOLEAN : PushStart(all)
  \/ MoveMeta \/ MoveAdd
  \/ \E n \in Name : SyncWrite(n)
  \/ SyncAdd
  \/ \E t \in Release : Update(t)
  \/ ChecksumWrite

User ==
  \/ \E f \in File, v \in Content : Edit(f, v)
  \/ Stage \/ Commit \/ ResetMerge \/ ResetHard \/ Interrupt

Next == Subpatch \/ User

Spec == Init /\ [][Next]_vars

-----------------------------------------------------------------------------
(* The patch files named in "on" lead, hunk by hunk, from the tree "base"  *)
(* to the tree t: popping them would give base back.                       *)
Stacked(base, dir, on, t) ==
  \A f \in File :
    LET T == {n \in on : f \in DOMAIN dir[n]}
    IN /\ T = {} => t[f] = base[f]
       /\ \A n \in T :
            /\ (\A m \in T : m >= n) => dir[n][f].old = base[f]
            /\ (\A m \in T : m <= n) => dir[n][f].new = t[f]
            /\ \A m \in T : (n < m /\ \A k \in T : k <= n \/ m <= k) => dir[n][f].new = dir[m][f].old

\* "subpatch pop -a" and then "subpatch subtree checksum --verify" succeed.
Lint(s) == Stacked(s.meta.checksum, s.patches, Applied(s), s.files)

(* What "subpatch pop -a" makes of the files of a subproject, one patch    *)
(* file after the other, or NoPatch when one of them does not fit.         *)
PatchAt(dir, i) == dir[CHOOSE n \in Listing(dir) : Rank(dir, n) = i]

Popped(d, t) ==
  IF t # NoPatch /\ Applies(Reversed(d), t) THEN Patched(Reversed(d), t) ELSE NoPatch

PopAll(s) ==
  LET count == AppliedIndex(s) + 1
      after[k \in 0 .. count] ==
        IF k = 0 THEN s.files ELSE Popped(PatchAt(s.patches, count - k), after[k - 1])
  IN after[count]

(* The claim of the invariants, Lint, says what the code does: it holds    *)
(* exactly when "pop -a" goes through and "subtree checksum --verify" then *)
(* compares equal, for broken subprojects too.                             *)
LintIsPopAll ==
  cmd = Idle /\ Consistent(index) => (Lint(index) <=> PopAll(index) = index.meta.checksum)

(* Whatever sequence of commands, failures, interrupts of "git apply",     *)
(* commits and reverts led here, the staged subproject unwinds to the tree *)
(* whose checksum its metadata records.  A file not named *.patch was not  *)
(* applied since: its changes are in the subtree, and it in no series.     *)
IndexLint == intact /\ cmd = Idle => Lint(index)

(* Every commit of such a subproject, to which a revert goes back, does.   *)
HeadLint == headIntact => Lint(head)

(* Between commands the metadata and the patch files have no unstaged      *)
(* change: "git reset --merge", which subpatch prints as the way back,     *)
(* reverts a finished command as a whole.                                  *)
NothingUnstaged == intact /\ cmd = Idle => work.meta = index.meta /\ work.patches = index.patches

(* appliedIndex stays between -1 and the count of patches minus 1, and is  *)
(* never written for a series that is applied as a whole.                  *)
CursorInRange == intact /\ cmd = Idle => Canonical(index)

(* "pop" of a subproject without local edits never fails: at every patch   *)
(* file that git reaches, the reversed patch fits.  As above, only files   *)
(* named *.patch were applied.                                             *)
PopFits ==
  (intact /\ cmd.op = "pop" /\ cmd.pc = "git" /\ work.files = lock) =>
    \A n \in cmd.todo : IsNext(n) => Fits(PatchText(n), lock, work.files)

-----------------------------------------------------------------------------
(* The inductive invariant: what holds at each point of each command.      *)
IdleInv == Lint(index) /\ Canonical(index) /\ work.meta = index.meta /\ work.patches = index.patches

\* The names whose patches are in the lock while a pop or push runs.
Reached ==
  IF cmd.op = "pop" THEN UpTo(index.patches, cmd.to) \cup cmd.todo
                    ELSE UpTo(index.patches, cmd.to) \ cmd.todo

\* "todo" is the end of the range of patches, counted from where git goes to.
TodoInv ==
  IF cmd.op = "pop"
  THEN \A n \in cmd.todo : /\ n \in Listing(index.patches) /\ Rank(index.patches, n) > cmd.to
                           /\ \A m \in Listing(index.patches) :
                                Rank(index.patches, m) > cmd.to /\ m < n => m \in cmd.todo
  ELSE \A n \in cmd.todo : /\ n \in UpTo(index.patches, cmd.to)
                           /\ \A m \in UpTo(index.patches, cmd.to) : m > n => m \in cmd.todo

MoveInv ==
  /\ Canonical(index)
  /\ work.patches = index.patches
  /\ cmd.to \in -1 .. (Count(index.patches) - 1)
  /\ cmd.pc = "git" => /\ IdleInv /\ TodoInv
                       /\ Stacked(index.meta.checksum, index.patches, Reached, lock)
  /\ cmd.pc # "git" =>
       Stacked(index.meta.checksum, index.patches, UpTo(index.patches, cmd.to), index.files)
  /\ cmd.pc = "meta" => work.meta = index.meta
  /\ cmd.pc = "add" => work.meta = [index.meta EXCEPT !.applied = Recorded(cmd.to)]

\* The series with the patch that apply adds.
Extended == [index.patches EXCEPT ![cmd.name] = cmd.mail]

ApplyInv ==
  LET all == Listing(index.patches) \cup {cmd.name}
  IN /\ index.meta.applied = NoIndex /\ work.meta = index.meta
     /\ \A m \in Listing(index.patches) : m < cmd.name
     /\ cmd.pc = "git" => IdleInv
     /\ cmd.pc = "git" /\ cmd.todo # {} => lock = index.files
     /\ cmd.pc = "git" /\ cmd.todo = {} => Stacked(index.meta.checksum, Extended, all, lock)
     /\ cmd.pc # "git" => /\ cmd.name \in DotPatch
                          /\ Stacked(index.meta.checksum, Extended, all, index.files)
     /\ cmd.pc = "copy" => work.patches = index.patches
     /\ cmd.pc = "add" => work.patches = Extended

CmdInv ==
  \/ cmd = Idle
  \/ /\ cmd.op = "apply" /\ cmd.pc \in {"git", "copy", "add"}
     /\ cmd.name \in Name /\ cmd.mail \in Diff /\ cmd.todo \subseteq {cmd.name}
  \/ /\ cmd.op \in {"pop", "push"} /\ cmd.pc \in {"git", "meta", "add"}
     /\ cmd.todo \subseteq Listing(work.patches)
  \/ /\ cmd.op = "sync" /\ cmd.pc = "add"
     /\ cmd.name \in UpTo(work.patches, AppliedIndex(work))
     /\ Rank(work.patches, cmd.name) = AppliedIndex(work)
     /\ work.patches[cmd.name] = DiffOf(head.files, index.files)

ControlInv == TypeOK /\ CmdInv /\ (cmd.pc = "git" => lock \in Tree)

HeadInv == headIntact => Lint(head) /\ Canonical(head)

IndexInv == intact => /\ cmd = Idle => IdleInv
                      /\ cmd.op \in {"pop", "push"} => MoveInv
                      /\ cmd.op = "apply" => ApplyInv

StackInv == ControlInv /\ HeadInv /\ IndexInv
=============================================================================
