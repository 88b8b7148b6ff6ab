# Verification of subpatch

subpatch keeps a copy of an upstream project as plain files in a git
repository (the superproject), with a series of patch files on top. This
directory holds TLA+ models of its commands, TLC runs that check them on small
instances, and TLAPS proofs about the patch series, the integration of a
subproject, the choice of its commit, the config files, and the paths and lists
of the superproject, for instances of any size.

Line numbers refer to `src/` at the commit the models were written from.

## 1. The system

subpatch is a command line program. Each invocation is one process that runs
one command sequentially, calls `git` as a child process for nearly every
change, and exits. There is no daemon and no thread. All state is in the file
system: the three trees of git (HEAD, index, worktree), two kinds of config
files, patch files, and a temporary cache repository. What makes it hard is
not concurrency inside the program. It is

* the order of the effects of one command over three trees, with an external
  command that may fail, or a Ctrl-C, between any two of them;
* sequences of commands, mixed with the user's own edits, `git add`,
  `git commit`, `git reset --merge`, that nobody wrote a test for;
* the upstream project, which changes between two git processes of one command;
* the working directory: it alone decides which superproject and which
  subproject a command works on and what a relative path or url means.

| Component | Code | State | Operations | Interacts with |
|---|---|---|---|---|
| Patch series | `src/main.py` (`cmd_apply`, `cmd_pop`, `cmd_push`, `do_patch_applys`, `cmd_sync`, `cmd_subtree_checksum`) | subtree, `patches/*.patch`, `appliedIndex`, `checksum` in each git tree | `apply`, `pop`, `push`, `sync`, `update`, `subtree checksum --write` | calls `git apply --index`, `git diff`, `git add`; reads and writes `.subproject` through the config filters |
| Integration | `src/main.py` (`cmd_configure`, `cmd_init`, `cmd_add`, `cmd_update`, `do_init`, `do_unpack`), `src/cache.py` | `.subpatch`, `.subproject`, subtree, directory `cache/` | `configure`, `init`, `add`, `update` | fetches through the cache, replaces the subtree, records release and checksum |
| Choice of the commit | `src/cache.py`, `src/libgit.py` | the cache repository; `revision` and `objectId` | `git ls-remote`, `git fetch` | the upstream repository, through two separate processes |
| Config files | `src/libconfig.py`, `config_*`/`metadata_*` in `src/main.py` | `.subpatch`, `.subproject` as lines | five writers built from four line filters, the readers | all commands; users edit the files too |
| Discovery and selection | `src/super.py`, `gen_super_paths`, `gen_sub_paths_*`, `checks_for_cmds_with_single_subproject` in `src/main.py`, `src/util.py` | none of its own; reads where `.git`, `.subpatch`, `.subproject` are | from the working directory to a superproject and a subproject; where a relative url leads | all commands; `configure`, `init`, `add`, `update` change what it finds |
| Status, list | `cmd_status`, `cmd_list` | none | print | read metadata and `git status` |
| git wrappers | `src/libgit.py` | none | run git, parse its output | all commands |
| Command line | `src/main.py` (`main`), `src/util.py` | none | parse arguments, report errors, exit codes | dispatches commands |
| Bundling | `scripts/pybundle.py` | none | build tool | none |

What makes each component correct:

* **Patch series**: the subproject that is staged, and every commit of it,
  unwinds through its applied patches to exactly the tree whose checksum the
  metadata records; a finished command is wholly staged; `pop` never fails
  without local edits; `appliedIndex` stays in its range. This needs that all
  files in the series are listed: finding 7 is a file that is not.
* **Integration**: a finished `add` or `update` has staged exactly the release
  and spared the user's untracked files; whatever a command did, or did before
  it failed, `git reset --merge` takes back, and the command can be run again
  (finding 3 and a failed `git init`, section 6, are the exceptions);
  the config file lists a subproject, once, exactly when its metadata is there,
  and no signal at any point lets a commit list one without.
* **Choice of the commit**: the commit is one the revision stood for while the
  command ran; an id that can be found is found; `update` does not go back.
* **Config files**: what is written is read back; everything else is kept.
* **Discovery and selection**: from any directory, all commands agree on the
  superproject, and a path is taken for the place the shell means; what is
  listed is found again from inside; a patch command works in the directory of
  its subproject only; a release comes from the place its url names at the
  toplevel, the next one too.

## 2. Modules

| Module | Models |
|---|---|
| `Git` | trees, diffs, patch application, the three-way rule of `git reset --merge` (external, as the commands use it) |
| `PatchStack` | the patch commands over HEAD, index and worktree, and the user between them; `PopAll`, the reference for `Lint` |
| `PatchSeries` | abstract: a base tree, a series, the applied part, the last commit |
| `PatchStackSeries` | the refinement `PatchStack` => `PatchSeries` |
| `MCPatchStack` | a small instance |
| `MCPatchReports` | the instance with what the tests say of `sync` after `push`, and the code's comments of `pop` after `apply` |
| `PatchStackProofs` | the proofs about `PatchStack` |
| `PatchSeriesProofs` | the proof of the refinement |
| `Integrate`, `MCIntegrate` | `configure`, `init`, `add`, `update` as steps, and a small instance |
| `IntegrateProofs` | the proofs about `Integrate` |
| `ConfigFile` | the line filters and the writers; the refinement `ConfigFile` => `ConfigMap` |
| `ConfigMap` | abstract: a map from (section, key) to values |
| `MCConfigFile` | all small files |
| `ConfigProofs` | the proofs about `ConfigFile` |
| `Fetch` | the resolution of a revision and the fetch, racing with the upstream project |
| `FetchProofs` | the proofs about `Fetch` |
| `Superproject`, `MCSuperproject` | directories, repositories, lists of subprojects: the search, the paths, the selection, relative urls, and the commands that change them; a small instance |
| `PathProofs` | lemmas about paths: where they lead, `relpath`, `normpath`, the upward search |
| `SuperprojectProofs` | the proofs about `Superproject` |
| `Induction` | what the proofs use for induction and for recursive functions |

How they compose. `Integrate` opens up the `Update` that is one atomic action in
`PatchStack`: `UnpackExact` of `Integrate` says its end is what `PatchStack`
assumes. `Fetch` decides which release `Integrate` gets. `ConfigFile` is how
the metadata and config fields that `PatchStack` and `Integrate` treat as
records get onto disk; `ConfigMap` is the interface the two rely on.
`Superproject` decides which subproject the other modules are about: it has
many of them, in several superprojects, and each command is one step, whose
inside is `Integrate`.

### PatchStack

`head`, `index` and `work` are the subproject in git's three trees, each a
record of the subtree's files, the patch directory and the metadata. `cmd` is
the running command with its program counter:

| `cmd.pc` | code |
|---|---|
| `git` | `git apply --index` works through `cmd.todo`, one patch file per step. git writes the worktree as it goes and the index (`lock` is `index.lock`) at the end. A patch file that does not fit ends the command with the worktree half done and the index untouched |
| `meta` | `metadata_set_applied_index` or `metadata_drop_applied_index` |
| `copy` | `shutil.copy` of the new patch file |
| `add` | `git add` of the metadata or patch file |

`PopStart`, `PushStart`, `ApplyStart`, `SyncWrite` and `Update` carry the
guards (early returns and `AppException`s) of the commands. A command that a
guard refuses changes nothing and is no step. `Edit`, `Stage`, `Commit`,
`ResetMerge`, `ResetHard`, `Interrupt` are the user's. A patch file is a diff:
for each path it touches, the contents it takes away and those it brings.
Contexts, fuzz and several hunks per file are not modelled; a model path can be
read as a region of a file.

`apply` takes a file of any name, but the series has only those that end in
`.patch` (`main.py:272`). `DotPatch` is the set of these names; `Listing` keeps
to it, as `read_patches_dim` does, and `ApplyStart` does not, as `cmd_apply`
does not. A file of another name is applied, copied and staged, and no command
knows of it afterwards.

The tool cannot answer for everything a user may do: files staged by hand on
top of the patches do break the series until `sync`. The history variable
`intact` says whether the index has been through nothing else than commands
that ran to their end, failed or were interrupted in `git apply`, commits,
reverts and edits that were not staged; `headIntact` is the same of HEAD. It is
lost at the step that writes the index for an applied file not named `*.patch`:
that this is the tool's own doing is finding 7, and the properties hold up to
there. It is lost too by an interrupt after `git apply`, against which the
program has nothing: metadata and files are then apart.
Neither is read by any action of the program. What makes a subproject intact
again is also part of it: a `sync` on top of the state below the current patch,
as the documentation describes the workflow, or a revert to an intact commit.

### Integrate

`.subpatch` is the number of its entries for the subproject, `.subproject`
names a release and a checksum, and a checksum stands for the tree it is of.
Each command is the chain of its effects (`cmd.step`, in the order of the code):

    add:     touchConfig addConfig | mkdir touchMeta addMeta list addList |
             mkCache createCache fetch | drop extract move* addFiles writeMeta addMeta2 clean
    update:                               mkCache ... clean

`update` starts when its checks pass (`UpdateAccepted`): the metadata is there
and names a url unless `--url` does, and nothing in the subproject is unstaged.
`cache` is `"made"` between `mkdir` and the end of `git init`, then a
`"repository"`.

`Fail` is an external command that fails: the step has no effect, and `except
Exception` or `finally` clean up as the code does around that step (`Unwind`):
no handler is around `git init`, the cache directory stays. `CtrlC` is
`KeyboardInterrupt`, which only `finally` sees. `Kill` cleans up nothing.
Either may leave a config file truncated that was about to be written (`Cut`).
`past` is history, counted from when the repository was last in agreement with
its HEAD (`Settled`): `"commands"` when only commands ran and no signal stopped
one (`pristine`), `"signals"` when one did and the user at most committed,
reverted or removed the cache, `"touched"` when files were edited, staged or
removed by hand.

`Patches` are paths in a directory `patches` of the upstream project that are
not named like patch files: `Drop` and the checksum (`Subtree`) leave them out,
`Move` and `AddFiles` do not.

### ConfigFile

A file is a sequence of lines, each a section header (with or without a
subsection), a key with a value, or a comment (blank lines count as comments).
The filters are per-line loops with a state in the code; here they are said of
the whole file (`Inside` is the loop's state after each line). `Written` is
`config_unparse2` and the next parse: a line without newline is glued to the
one after it. `Above` is how git reads a key, by the last header above it,
whatever the filters think they are inside of. `SetForUnpack` writes url,
checksum and objectId, and the revision if one is given. `update` passes on the
revision it reads when it is given none, so an unpack without one is of a file
without one (`Inputs`). `WellFormed` says which files the
filters are made for; a section may occur again in one, but not right after
itself (nor with only `[subtree]` between, which the filters may remove).

### Fetch

`parent`, `refs`, `default` are the upstream repository; `Push`, `Create`,
`Delete` and `SetDefault` change it at any time. `Resolve` is
`git_resolve_to_clone_config` (`git ls-remote`), `Fetch` is
`CacheHelperGit.fetch` (`git fetch` and the first line of `FETCH_HEAD`). `seen`
and `kept` record what the revision stood for and what was reachable during the
command, `rewritten` whether a ref was deleted since the last integration.

### Superproject

A path is a sequence of names, a relative one may go `Up`; `""` and `"."` are
the empty path. `repos`, `dirs`, `conf`, `meta` say which places have `.git`,
exist, have a `.subpatch` (with its list) or a `.subproject` (with its url).

| Operator | Code |
|---|---|
| `Repository`, `Configuration`, `Toplevel` | `find_superproject`: two searches upwards in one loop, which ends at the border of a filesystem; `check_superproject_data` |
| `SuperToCwd`, `CwdToSub`, `SuperToSub` | `gen_super_paths`, `gen_sub_paths_from_cwd_and_relpath`, with the join and the `os.path.relpath` of the code |
| `StatusPath` | the same conversion in `cmd_status`, by `os.path.normpath` |
| `Selected`, `WorksOn` | `is_inside_subproject_and_return_path` and the checks of the patch commands |
| `WithEntry` | the place `config_set_key_value2` appends the path at |
| `AskedAt`, `FetchedAt` | a relative url in `git ls-remote` and in `git fetch`, which runs in the cache directory with one `../` for each name of the path to it |

`Configure`, `InitSub`, `Add`, `AddFails` (the fetch fails), `AddRefused` (the
superproject is configured before the path is refused) and `Update` are the
commands, run in any directory with any path. `IsInside` is the one thing that
keeps a path outside of the superproject out of the list: `git add` fails for
it. `from` is history: where the release in a subproject was fetched from. The
search, the relative path and the path `git` resolves are defined
independently (`Resolve` walks the names, `Rel` compares, `Normal` reduces), so
that the properties compare different computations.

## 3. Runs

| Run | Shows | Bounds |
|---|---|---|
| `patchstack` | the invariants of the series, `Lint` against its reference, and the refinement of `PatchSeries` | two files, two contents, two names of patch files and one between them that is not listed, two mails that stack in one order and conflict in the other, two releases; one commit, and one of: edit, interrupt, checksum written, the other name applied |
| `integrate` | rollback, retry, exactness, listing, untracked files | three paths, one of them in `patches`, two releases (one lacks files of the other), three commands, one signal, one mishap of the user |
| `config_file` | the writers read back, keep the rest, are idempotent, undo each other and refine the map | every well-formed file of up to three lines, over two values and three unpacks; TLC goes on from files of up to eight lines |
| `fetch` | which commit is taken | two branches, a tag with the name of a branch, three commits; all revisions |
| `superproject` | agreement of paths, lists, selection, urls and superprojects | nine places below `/`: a repository, a directory in it that may be a repository too, a directory that is another filesystem; eleven paths with up to two `..`; one relative url and a remote one; three subprojects |
| seven violation runs | the findings below | as above; `rollback_git_add` is the run in which `git add` may fail, `no_newline` has files of four lines |

Why this is enough. Patches meet only at a path, so two paths and two patches
show every way two patches touch a path together, apart, and in the wrong
order; two names make first, last, and "in between" of `appliedIndex` (-1, 0,
not recorded) all occur; the third name sorts between the two, so a file that
is not listed is applied below and above listed ones. The states after a mishap
are explored until neither the index nor HEAD is intact (`Claimed`): from there
on nothing is claimed until a step makes one of them intact again, and only
`sync` (which needs an intact HEAD) and reverts do. In `integrate`, three
commands are an `add` that fails, its repetition, and an `update`. In
`config_file`, three lines are a section of the program or of the user with a
key and one more line, before, in or behind it; from an empty file on, the
sequences of writes make files with both sections and all keys (an unpack
writes up to six lines), which are longer than the bound on the first file. In
`fetch`, a command is two steps and a race needs one step of the upstream
between them; three commits leave one that is not the tip of any ref. In
`superproject`, three subprojects are a nested one, its neighbour and one
elsewhere; the places are deep enough for a subproject two levels below a
working directory that is itself below the toplevel, and the paths lead up,
across, out of the superproject and back into it. Commands, `pop`/`push` counts
and configuration writes are unbounded otherwise.

Properties, beyond one `TypeOK` each:

* `IndexLint`, `HeadLint`: `subpatch pop -a` and `subtree checksum --verify`
  would succeed, after any history. `LintIsPopAll` checks that the closed form
  used for it says this, on broken subprojects too.
* `NothingUnstaged`, `CursorInRange`, `PopFits`: see section 1.
* `StackInv`, `SeriesInv`, `FetchInv`, `SuperInv`: the inductive invariants of
  the proofs, checked too.
* `ImplementsSeries`: every command, whatever its steps and where it fails, is
  one step of the abstract series on the staged subproject, or none.
* `RollbackWorks`, `RetryPossible`, `ListedWithMetadata`: after a command that
  ended, well or with an error. `git reset --merge` is what subpatch itself
  prints as the way back. After a failed `git init` they except the cache
  directory that it leaves (section 6). After an `add` that failed later the
  metadata is empty, and the `update` that `RetryPossible` is about has `--url`.
* `CommitsAreSound`: after signals too, at every step, in the index and in HEAD.
* `IntegrateInv`, `RollbackInv`: the inductive invariants of the proofs, checked
  too.
* `UntrackedKept`: wherever `add` or `update` stops, unless the release has a
  file at that path.
* `UnpackExact`: at the end of `add` and `update`, from any state of index and
  disk, interrupted commands and staged edits included.
* `ReadsBack`, `OtherLinesKept`, `SectionsStaySorted`, `SetTwiceIsOnce`,
  `DropUndoesSet`, `ImplementsMap`: the config files.
* `NamedWhileRunning`, `IdFound`, `UpdateGoesForward`: the fetch.
* `PathsAgree`, `SelectedIsHere`: in every reachable state, from every directory
  with every path, against what the shell and the list say.
* `EntriesAreSubprojects`, `UpdateStays`: the lists and the urls after any calls
  in any directories. `ListedThenFound`, `SuperprojectStays`: what one call
  lists is found from inside, and no call takes a directory out of its
  superproject. The conditions in them are the cases where the code does not
  hold them; the comment at each says which.

Deadlock is checked in every run. Every property has a mutant of a mapped
definition that breaks it (a dropped guard, a swapped order, a missing
`git add`); the mutant operators stand before the definition they mutate,
marked `Mutation`.

**Fairness and liveness.** No property is a liveness property, so no
specification states fairness. A command is one process that runs a finite chain
of steps with no loop that waits for another process; that the chain ends is
true of the model by its shape and would say nothing of the code, where what
could hang is `git` itself (a fetch has no timeout) and the walk that renames
files while it walks (`main.py:427`), which is one step per file here.

## 4. What is proved

### The patch series

`PatchStackProofs` proves, for every set of paths, contents, patch names,
releases and patch files:

| Theorem | Statement |
|---|---|
| `StackInvariant` | `Spec => []StackInv` |
| `TypeCorrect` | `Spec => []TypeOK` |
| `StagedSeriesUnwinds` | `Spec => []IndexLint` |
| `CommittedSeriesUnwinds` | `Spec => []HeadLint` |
| `CommandsAreStaged` | `Spec => []NothingUnstaged` |
| `CursorStaysInRange` | `Spec => []CursorInRange` |
| `PopNeverFails` | `Spec => []PopFits` |
| `LintSaysPopAll` | `Spec => []LintIsPopAll` |
| `SeriesInvariant` (`PatchSeriesProofs`) | `Spec => []SeriesInv` |
| `StackImplementsSeries` (`PatchSeriesProofs`) | `Spec => ImplementsSeries` |

Assumptions: names are a finite set of numbers (their sort order), those of
patch files (`DotPatch`) are among them, the sentinels are not what they stand
beside, releases are trees, mails are diffs.

All but `TypeCorrect` and `LintSaysPopAll` are about an intact subproject: one
to which, among other things, only files named `*.patch` were applied (section
2). Finding 7 shows that this cannot be dropped.

The argument. `IndexLint` only speaks of the time between commands, so it says
nothing about the next step and is not inductive. `StackInv` adds what holds in
the middle of each command: while `git apply` runs, the files in the lock are
the base with the patches *reached so far* stacked on it (`MoveInv`,
`TodoInv`); after it, the staged files are those of the target index, not yet
recorded in the metadata; for `apply`, the same with the series extended by the
new patch. It needs `Canonical` (the recorded index is never count - 1) because
`AppliedIndex` of a file without the key changes its meaning when a patch is
added, and it needs `work = index` of patch files and metadata because the
program reads the worktree but stages into the index.

`Stacked` says per path that the applied patches form a chain from the base to
the present contents. That form, instead of a fold over the series, is what the
provers can work with: `StackedPush` and `StackedPop` show that one patch file
at the top extends or shortens the chain. `RankOrder`, `RankBelowCount` and
`UpToEnds` are the facts about positions in the sorted directory. The step is
then one case per action of `Next` (`ControlStep`, `HeadStep`, `IndexStep`),
and the theorems combine them by temporal logic. `PopNeverFails` follows from the
invariant and the top patch's own link in the chain.

`LintSaysPopAll` closes the gap between that form and the program: `PopAll` is
the loop, one patch file after the other, and `LintPops` shows that for any
subproject whose index is in range, a broken one too, it ends with the checksum
exactly when the patches are stacked. `StackedPopped` is the step, in both
directions; `RankOnto` says that every position has a patch file; the loop is a
recursive function, which `Recursion` (see below) gives a value.

The refinement has one lemma for each step of the abstract series: `ApplyIsNew`,
`MoveIsMove`, `SyncIsRewrite`, `UpdateIsRebase`; commits and reverts are in
`SeriesNext`, and all other steps leave what is staged alone (`NothingStaged`).
It needs `SeriesInv`, for the abstract step happens when a command stages its
result, and depends on what the command was started with: a pop or push on
where it goes, a `sync` on its patch being in the series. `UpToIsLower` and
`UpToNext` are the facts about positions.

### The integration

`IntegrateProofs` proves, for every set of paths, contents, releases and
signals:

| Theorem | Statement |
|---|---|
| `IntegrateInvariant` | `Spec => []IntegrateInv` |
| `IntegrateTypes` | `Spec => []TypeOK` |
| `CommitsSound` | `Spec => []CommitsAreSound` |
| `ReleaseUnpacked` | `Spec => UnpackExact` |
| `UntrackedSpared` | `Spec => UntrackedKept` |
| `RollbackInvariant` | `FailsClean => (Spec => []RollbackInv)` |
| `RollbackAlwaysWorks` | `FailsClean => (Spec => []RollbackWorks)` |
| `RetryAlwaysPossible` | `FailsClean => (Spec => []RetryPossible)` |
| `AlwaysListedOnce` | `FailsClean => (Spec => []ListedWithMetadata)` |

Assumptions (`IntegrateAssumption`): releases are trees, "no file" is neither
an entry count nor the contents of a metadata file. The last four also need
`FailsClean`: the external commands that fail are those that fail before they
wrote something still to be staged (`git init`, fetch, `git rm`, extraction, the
checksum). It cannot be dropped: finding 3 is the rollback after a `git add`
that fails. A `git init` that fails stages nothing, but leaves the cache
directory (section 6); the properties name it as the one thing that stays. The
first five hold whatever fails.

The argument. Every step of a command relies on what the steps before it did,
so the invariant says what that is, at each step. `RouteInv`: only `add` and
`update` get to the steps that unpack, with a release. `UnpackInv`: after
`drop` no path of the subtree is staged; while files are moved, those no longer
in `todo` are on disk as in the release and `todo` has no other paths; after
`git add` the index agrees too (`FilledSubtree`); after that the metadata does.
The end of the chain is `UnpackExact`, from any state of index and disk at its
start, because no part of it speaks of them. `UntrackedKept` needs the part
about `todo`: nothing else is written. `SoundInv`: the metadata is staged
before `.subpatch` lists the subproject, and a truncated `.subpatch` is empty,
so neither an index nor the commit of one can be unsound; once files were
touched by hand nothing is claimed until they agree with a sound commit
(`SinceSettled`).

The rollback is another matter: it is about disk against index, and a signal
may leave them apart. `RollbackInv` says that they are equal but for what the
step under way has written and the next one stages (`StagedInv`), and that the
directory is there when something is in it (`DirInv`, without which a settled
subproject would not say that a missing one has no files). Between commands
that leaves `index = work` (`StagedWhenIdle`), where `git reset --merge` cannot
be refused, restores HEAD, and removes the directory exactly when HEAD has
none and no cache directory is in it. A user's step or a signal ends this until
the subproject is settled again, when all of it holds anew (`SettledStaged`).

### The choice of the commit

`FetchProofs` proves, for every set of branches and tags and any number of
commits:

| Theorem | Statement |
|---|---|
| `FetchInvariant` | `Spec => []FetchInv` |
| `FetchTypes` | `Spec => []TypeOK` |
| `NameMeansItsCommit` | `Spec => NamedWhileRunning` |
| `IdMeansItself` | `~Shallow => (Spec => IdFound)` |
| `UpdateNeverGoesBack` | `Spec => UpdateGoesForward` |

Assumptions: branches and tags are numbers (their sort order), and there may be
a commit at all (`MaxCommit`).

The argument. What `git ls-remote` found is a ref of the revision that was
asked for, and stays so whatever becomes of the ref; when it is gone the fetch
fails. The record of what the revision stood for follows every step of the
upstream repository (`CommandInv`), so the commit that is fetched is in it.
`IdMeansItself` needs whole histories: finding 6 is what `--depth 1` does.

`UpdateNeverGoesBack` needs more: that as long as no ref was deleted, each
branch or tag that had the integrated commit in its history still has
(`ForwardInv`). A push only adds to the history of its branch (`HistoryGrows`),
and the history of a commit depends on the commits below it only
(`PastInStays`): an induction over the commits, since a parent has a smaller
number than its child.

### The config files

`ConfigProofs` proves, for files of any length, with any values, comments,
foreign sections and subsections in any order:

| Theorem | Statement |
|---|---|
| `ConfigTypes` | `Spec => []TypeOK` |
| `WrittenIsRead` | `Spec => ReadsBack` |
| `UserLinesKept` | `Spec => OtherLinesKept` |
| `SectionsSorted` | `Spec => SectionsStaySorted` |
| `SetTwice` | `Spec => []SetTwiceIsOnce` |
| `SetThenDrop` | `Spec => []DropUndoesSet` |
| `FilesAreMaps` | `Spec => ImplementsMap` |

Assumptions: values are numbers (their sort order), what an unpack records are
values (`UnpackAssumption`), and `FilesWhole`: the files
that are there at the start end with a newline and are well-formed. Finding 4 is
what happens to a file that does not end with a newline. The files of the run
`config_file` satisfy `FilesWhole`: it is `TypeOK` in the initial states.

The argument. A filter is said of a whole file, as the concatenation of what it
passes on for each line. `FlattenAppend` cuts off the last line, so that a
filter is a recursion again, and each proof goes up the lines of the old file
(`Upwards`). What is passed on up to some line is compared with the lines up to
there: `Follows` says that the two are the same but for the lines the writer is
about (`SameBut`), that both end below the same header, that what was passed on
is well-formed so far, and sorted if the lines are. Three steps are all that
happens to a line: it is passed on (`PassOn`), a line of the writer's own is put
in front of it (`PutIn`), or it is left out (`LeaveOut`); `SetsFollow`,
`AddSectionKeeps`, `DropKeyFollows` and `DropSectionKeeps` are the four filters
in terms of them. At the end of the file `Follows` is `Keeps`.

Three places are not as simple. A key is put where the filter is inside the
section, the properties ask what stands below the header: that these are the
same, although a header of a section that the filter is in ends it, needs that
a section does not follow itself (`InsideFacts`). `DropSectionIfEmpty` holds the
header back until the first key, so in between what it passed on lacks the
header the lines have: `Dropped` is the form of `Follows` for that time, and a
well-formed file is one also without the headers of `[subtree]`, for that is
what it may become. And a path is added between others in the order of the
values: that its value lands between theirs, once, is `SetKeyInserts`.

`Writes` says what each command does to a file: what it keeps, and the values
its key then has. The theorems follow from it; for `FilesAreMaps`, that the
lines kept include those of all other slots, for a writer of one key (`EntryOne`)
and for an unpack, which is one step for all of its slots (`EntryMany`).

`SetTwice` and `SetThenDrop` are about two filters in a row. They hold in every
well-formed file, so the proofs are of `TypeOK => SetTwiceIsOnce` and `TypeOK =>
DropUndoesSet`, and the rest is `ConfigTypes`. A second write changes nothing
when it finds what it wants at the first place where it would put it. For a
section that is `Leads`: its header is the first one of that name or a greater
one; for a key `Ahead`: each place for the key has a line of the key at it or
before it. `AddSectionKeeps` and `SetKeyAhead` say that the first write leaves
its header and its line there, `AddSectionDone` and `SetKeyDone` that a filter
then passes on just the lines it reads. An unpack has two sections and up to
four keys, so what the rest of it does must not spoil that: a section is not
overtaken by smaller ones and by keys (`LeadsKept`, `FromApart`), and neither
the line of another key nor the header of a smaller section is a place for the
key before its own (`AheadKept`, `AheadHeader`). A key is `Settled` once it is
written and stays so through the other writes (`SettledStays`): all of them are
at the end (`UnpackRecords`, of which `RecordsOne` is one write).

For `SetThenDrop`, `DropKey` gives back the file with the section added, for all
lines but those of the key are kept and there were none of the key
(`SetThenDropKey`, `OnlyAll`). That `DropSectionIfEmpty` then takes the header
out again is not a matter of lines kept, since the header of `[subtree]` is what
both change. `DropSteps` runs the filter along the file that `AddSection` makes:
it is at the same line as the old file or one header behind it (`Drops`), and it
catches up at the key that follows a header of the section (`HeaderFilled`, the
condition in `DropUndoesSet`), or, behind the header that was added, at the next
header or at the end (`DropsUndo`).

### The superproject

`SuperprojectProofs` proves, for every set of places, repositories,
filesystems, paths of any length with any number of `..`, and urls:

| Theorem | Statement |
|---|---|
| `SuperInvariant` | `Spec => [](TypeOK /\ SuperInv)` |
| `SuperTypes` | `Spec => []TypeOK` |
| `ListIsSound` | `Spec => []EntriesAreSubprojects` |
| `PathsAreRight` | `Spec => []PathsAgree` |
| `SameOriginNextTime` | `Spec => []UpdateStays` |
| `OnlyInItsDirectory` | `Spec => []SelectedIsHere` |
| `StaysInSuperproject` | `Spec => SuperprojectStays` |
| `FoundWhereListed` | `Spec => ListedThenFound` |

Assumptions: places are closed under "the directory above", and the sentinels
are not what they stand beside.

The argument has two halves. `PathProofs` is about paths alone: `Rel` from a
directory and `Resolve` from there come back (`RelFacts`); `Resolve` of two
paths, one after the other, is `Resolve` of the one after that of the other
(`ResolveConcat`); what `..` removes and what `normpath` makes of it
(`ResolveUps`, `NormalUps`). Together they give `PathFromTop`, that the path of
`gen_sub_paths_from_cwd_and_relpath` and the one of `status` are the one from
the toplevel to where the path leads, and from that `PathsAgree`; and
`FetchedFromTop`, that the `../` put in front of a relative url undo the way to
the cache directory, and from that `UpdateStays`. `NearestFacts` is the search:
what it finds is the lowest directory on the way up, before the border of the
filesystem, that has the file.

The other half is about states. `SuperInv` says that directories have their
parents, that what a subproject is in is no repository, and only tracked ones
have an origin (`DirsInv`); that a list is in a repository, its paths are in
it, and no repository is between the two (`ListsInv`, without which a second
superproject could list the same directory); that an origin is where the url
leads from the repository around it, which needs not be a superproject any more
(`FromInv`). `EntriesAreSubprojects` is then an invariant relative to it
(`EntriesStep`): a list is only appended to after the directory and its
`.subproject` were made, `NoneBelow` keeps a new subproject from being one that
is listed already, and `NotEmptied` keeps `update` from removing a listed one
unless the two are nested. `SelectedFollows` is that the comparison of the
first names finds the one entry that is a prefix of the working directory.
`StaysInSuperproject` and `FoundWhereListed` follow the search through the step
(`NewConfigurations`, `FoundThere`).

### Induction

The library's induction theorems are about an operator, which the provers at
hand cannot instantiate. `Induction` has what takes its place: a non-empty set
of numbers has a least element (`Least`), and a greatest one if it is bounded
(`Greatest`), so a proof looks at the least counterexample; two functions that
start equal and stay so agree (`Agree`); a recursion has a solution
(`Recursion`); a set that has zero and with each number the next has all
(`Upwards`).

### Model-checked only

No property of a passing run: each is a theorem. The findings are
counterexamples, found by TLC.

## 5. Findings

Each has a run whose counterexample shows it.

1. `sync_fresh_push`: `sync` takes the difference between HEAD and the index,
   so right after `pop`, `push` it replaces the patch by an empty one, unless
   HEAD is the state below the patch (`main.py:1136`). A test says that `sync`
   after a fresh `push` does not change the patch.
2. `cache_assertion`: Ctrl-C during the download leaves `cache/`, and the next
   `update` ends in an assertion (`main.py:619`, `main.py:337`).
3. `rollback_git_add`: when the `git add` of the metadata fails, say because
   another git holds `index.lock`, `git reset --merge` is refused ("not
   uptodate. Cannot merge."), though a comment calls the staging area the
   rollback mechanism (`main.py:459`, `main.py:713`).
4. `no_newline`: a line written after a last line without newline is glued to
   it (`libconfig.py:157`).
5. `default_branch`: without `--revision` the first ref in sort order is
   integrated, not the default branch (`libgit.py:402`, `cache.py:111`).
6. `commit_id`: with `--depth 1`, a commit id that is not the tip of a ref is
   not found, though the documentation says the whole history is downloaded for
   it (`libgit.py:386`). `Shallow = FALSE` is what the tests use over http, and
   what the run `fetch` checks.
7. `apply_other_name`: `apply` takes a file whose name does not end in `.patch`,
   applies and stages it, and says that there is one patch more; the series
   does not have it (`main.py:272`). A `pop` then reverses the patch below it,
   or fails if both touch the same lines, and after `pop -a` the checksum does
   not verify.

## 6. What is not modelled

* In `Integrate`: a subproject with patches (that is `PatchStack`), an upstream
  with the top-level names `cache` or `.subproject` or with `patches/*.patch`,
  failures of `mkdir` or rename, edits by the user while a command runs (between
  the check at `main.py:517` and the removal), and the walk over the extracted
  files as such, which renames them while it walks (`main.py:427`: the files are
  moved one after the other here); `git add` fails only in the run
  `rollback_git_add`.
* In `PatchStack`: a subproject after an interrupt between `git apply` and the
  metadata (its steps are modelled, nothing is claimed of it).
* In `Superproject`: a repository between a superproject and its subproject, a
  superproject at `/` (where `main.py:853` cuts off the first letter), paths
  through symbolic links, absolute urls, and names of directories that
  `get_url_type` takes for a host (`github`).
* Seen while modelling, without a run: when `git init` of the cache repository
  fails, the directory `cache/` that was made for it stays (`main.py:338`,
  `main.py:339`; the cleanup begins at the fetch), so `git reset --merge` leaves
  the subproject's directory, the next `add` says "Directory already exists" and
  an `update` ends in the assertion at `main.py:337`, as after finding 2; in a
  directory that contains a subproject further down, the patch commands die of
  an assertion instead of "Current work directory must be inside a subproject!"
  (`main.py:872`, `main.py:1006`); `update` without `--url` after an `add`
  that failed dies of an assertion (`main.py:511`), as the metadata is empty;
  `push` prints the name of the patch below
  the one it pushed (`main.py:1321`); `update` overwrites an untracked file that
  is at the path of a file of the release (`main.py:437`); files of an upstream
  directory `cache` are staged and then removed from disk with the cache
  repository (`main.py:357`); files of an upstream directory `patches` stay when
  a later release lacks them, and `patches/*.patch` become the subproject's own
  series (`main.py:402`); `update` of a subproject removes a subproject inside
  it and leaves it listed; `update` with a relative url in a subdirectory
  records a url that means another place from the toplevel.
* The text of patch files: `sync` splices a new diff below the `---` line and
  keeps a file without that line as it is.
* Two processes at once. `README.internal.md` says subpatch is not made for it.
* In `ConfigFile`: keys outside their section and a section that follows itself
  at once, which the filters do not handle; `WellFormed` names the condition
  and `TypeOK` checks that the writers keep it. The bytes of a line.
* In `Fetch`: annotated tags are not told from the commits they name.
* What `status` and `list` print, argument parsing, wording, exit codes,
  bundling: no state changes. The path `status` takes is in `Superproject`.

Hazards without a property are listed in `PROJECT.json` with the reason.

## 7. Plan

In this order:

1. *Done*: `PatchStack` with its refinement, `Integrate`, `ConfigFile`,
   `Fetch`, `Superproject`; the proofs of all their properties.
2. `Integrate` with patches, as the refinement of `PatchStack!Update`; `Fetch`
   supplying its release.
3. Patch files the user removes, and the text filter of `sync`.
