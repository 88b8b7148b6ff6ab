----------------------------- MODULE Integrate -----------------------------
(***************************************************************************)
(* How a subproject comes into the superproject and is replaced by another *)
(* release: configure, init, add and update.                               *)
(*                                                                         *)
(* These commands write several files and run several git commands: the    *)
(* config file .subpatch, the metadata .subproject, the subtree and a      *)
(* cache repository in the subproject's directory.  Each step can be the   *)
(* last one: an external command fails and the exception unwinds, or the   *)
(* user presses Ctrl-C, or the process is killed.  There is no journal:    *)
(* the staging area of git is the way back ("git reset --merge").          *)
(*                                                                         *)
(* The model follows one subproject, at one path, without patches.         *)
(***************************************************************************)
EXTENDS Git, Integers

CONSTANTS
  Release,    \* trees the upstream project offers
  NoRelease,  \* no release is being integrated
  NoFile,     \* the file .subpatch or .subproject does not exist
  Empty,      \* an empty .subproject: the subtree is unpopulated
  Patches,    \* paths in the directory "patches", not patch files of the series
  Failing,    \* steps whose external command may fail
  Signals     \* what may stop the process: "ctrl-c", "kill"

VARIABLES
  head, index, work,  \* .subpatch, .subproject and subtree in git's trees
  dir,                \* the subproject's directory exists
  cache,              \* the cache directory in it: "made" from mkdir to the end of git init
  cmd,                \* the command that runs, and its next step
  past                \* history: what happened since the subproject was Settled

vars == <<head, index, work, dir, cache, cmd, past>>

ASSUME IntegrateAssumption ==
  /\ Release \subseteq Tree /\ NoRelease \notin Release
  /\ NoFile \notin Nat \cup {Empty} \cup [release : Release, checksum : Tree] /\ Patches \subseteq File

\* .subpatch as the number of its entries for the subproject.
Config == Nat \cup {NoFile}
Meta == [release : Release, checksum : Tree] \cup {Empty, NoFile}
Snapshot == [config : Config, meta : Meta, files : Tree]

Idle == [op |-> "none", step |-> "idle", to |-> NoRelease, todo |-> {}]

FetchSteps == {"fetch"}
UnpackSteps == {"drop", "extract", "move", "addFiles", "writeMeta", "addMeta2"}
InitSteps == {"touchConfig", "addConfig", "mkdir", "touchMeta", "addMeta", "list", "addList"}

Command ==
  [op : {"none", "configure", "init", "add", "update"},
   step : {"idle", "mkCache", "createCache", "clean"} \cup InitSteps \cup FetchSteps \cup UnpackSteps,
   to : Release \cup {NoRelease}, todo : SUBSET File]

TypeOK ==
  /\ head \in Snapshot /\ index \in Snapshot /\ work \in Snapshot
  /\ dir \in BOOLEAN /\ cache \in {"none", "made", "repository"} /\ cmd \in Command
  /\ past \in {"commands", "signals", "touched"}

NoTree == [f \in File |-> Absent]
Nothing == [config |-> NoFile, meta |-> NoFile, files |-> NoTree]

\* The files of the subtree: the checksum is of these.
Subtree(t) == [f \in File |-> IF f \in Patches THEN Absent ELSE t[f]]

Listed(s) == s.config \notin {NoFile, 0}

\* A snapshot lists the subproject, once, when it has it.
ListedOnce(s) == IF s.meta = NoFile THEN ~Listed(s) ELSE s.config = 1

\* The last commit does, and the index and the disk do not differ from it.
Settled ==
  /\ ListedOnce(head)
  /\ index = head /\ work = head /\ cache = "none" /\ (dir <=> head.meta # NoFile)

\* Since then only commands ran, and no signal stopped one; or a signal did,
\* or the user committed or reverted to something else than Settled; or files
\* were changed or staged by hand.
Since(what) == IF Settled' THEN "commands" ELSE IF past = "touched" THEN past ELSE what
pristine == past = "commands"

\* A git repository that has not heard of subpatch.
Init ==
  /\ head = Nothing /\ index = Nothing /\ work = Nothing
  /\ dir = FALSE /\ cache = "none" /\ cmd = Idle /\ past = "commands"

-----------------------------------------------------------------------------
(* Starting a command.                                                     *)
Unstaged ==
  \/ \E f \in File : index.files[f] # Absent /\ work.files[f] # index.files[f]
  \/ index.meta # NoFile /\ work.meta # index.meta

Start(op, step, to) ==
  /\ cmd = Idle
  /\ cmd' = [op |-> op, step |-> step, to |-> to, todo |-> {}]
  /\ UNCHANGED <<head, index, work, dir, cache, past>>

Configure == work.config = NoFile /\ Start("configure", "touchConfig", NoRelease)

InitSub == work.config # NoFile /\ Start("init", "mkdir", NoRelease)

Add(r) == Start("add", IF work.config = NoFile THEN "touchConfig" ELSE "mkdir", r)

\* Without --url it is the metadata that has to name the url.
UpdateAccepted(url) ==
  /\ Listed(work) /\ work.meta # NoFile
  /\ url \/ work.meta # Empty
  /\ ~Unstaged

Update(r, url) == UpdateAccepted(url) /\ Start("update", "mkCache", r)

-----------------------------------------------------------------------------
(* The steps of a command.                                                 *)
Goto(step) == cmd' = [cmd EXCEPT !.step = step]

TouchConfig ==
  /\ cmd.step = "touchConfig"
  /\ work' = [work EXCEPT !.config = 0] /\ Goto("addConfig")
  /\ UNCHANGED <<head, index, dir, cache, past>>

AddConfig ==
  /\ cmd.step = "addConfig"
  /\ index' = [index EXCEPT !.config = work.config]
  /\ IF cmd.op = "configure" THEN cmd' = Idle ELSE Goto("mkdir")
  /\ UNCHANGED <<head, work, dir, cache, past>>

Mkdir ==
  /\ cmd.step = "mkdir" /\ ~dir
  /\ dir' = TRUE /\ Goto("touchMeta")
  /\ UNCHANGED <<head, index, work, cache, past>>

\* "Directory already exists. Cannot add subproject!"
MkdirRefused ==
  /\ cmd.step = "mkdir" /\ dir
  /\ cmd' = Idle
  /\ UNCHANGED <<head, index, work, dir, cache, past>>

TouchMeta ==
  /\ cmd.step = "touchMeta"
  /\ work' = [work EXCEPT !.meta = Empty] /\ Goto("addMeta")
  /\ UNCHANGED <<head, index, dir, cache, past>>

\* Mutation: the metadata is not added to the index.
AddMetaNot ==
  /\ cmd.step = "addMeta" /\ Goto("list")
  /\ UNCHANGED <<head, index, work, dir, cache, past>>

AddMeta ==
  /\ cmd.step = "addMeta"
  /\ index' = [index EXCEPT !.meta = work.meta] /\ Goto("list")
  /\ UNCHANGED <<head, work, dir, cache, past>>

\* The entry is appended to the config file, whether there is one or not.
ListSub ==
  /\ cmd.step = "list"
  /\ work' = [work EXCEPT !.config = IF work.config = NoFile THEN 1 ELSE work.config + 1]
  /\ Goto("addList")
  /\ UNCHANGED <<head, index, dir, cache, past>>

AddList ==
  /\ cmd.step = "addList"
  /\ index' = [index EXCEPT !.config = work.config]
  /\ IF cmd.op = "init" THEN cmd' = Idle ELSE Goto("mkCache")
  /\ UNCHANGED <<head, work, dir, cache, past>>

MkCache ==
  /\ cmd.step = "mkCache" /\ cache = "none"
  /\ cache' = "made" /\ Goto("createCache")
  /\ UNCHANGED <<head, index, work, dir, past>>

\* assert (not os.path.isdir(cwd_to_cache_relpath))
MkCacheRefused ==
  /\ cmd.step = "mkCache" /\ cache # "none"
  /\ cmd' = Idle
  /\ UNCHANGED <<head, index, work, dir, cache, past>>

\* git init and git fetch write to the cache only.
CreateCache ==
  /\ cmd.step = "createCache" /\ Goto("fetch")
  /\ cache' = "repository"
  /\ UNCHANGED <<head, index, work, dir, past>>

Fetch ==
  /\ cmd.step = "fetch" /\ Goto("drop")
  /\ UNCHANGED <<head, index, work, dir, cache, past>>

\* Mutation: the files are removed from the disk only.
DropUnstaged ==
  /\ cmd.step = "drop" /\ Goto("extract")
  /\ work' = [work EXCEPT !.files =
       [f \in File |-> IF index.files[f] # Absent THEN Absent ELSE work.files[f]]]
  /\ UNCHANGED <<head, index, dir, cache, past>>

\* Mutation: the whole directory is emptied.
DropAll ==
  /\ cmd.step = "drop" /\ Goto("extract")
  /\ index' = [index EXCEPT !.files = NoTree] /\ work' = [work EXCEPT !.files = NoTree]
  /\ UNCHANGED <<head, dir, cache, past>>

\* git rm -f of every tracked file of the subtree; "patches" is not part of it
Drop ==
  /\ cmd.step = "drop" /\ Goto("extract")
  /\ index' = [index EXCEPT !.files = [f \in File |-> IF f \in Patches THEN index.files[f] ELSE Absent]]
  /\ work' = [work EXCEPT !.files =
       [f \in File |-> IF f \notin Patches /\ index.files[f] # Absent THEN Absent ELSE work.files[f]]]
  /\ UNCHANGED <<head, dir, cache, past>>

Extract ==
  /\ cmd.step = "extract"
  /\ cmd' = [cmd EXCEPT !.step = "move", !.todo = {f \in File : cmd.to[f] # Absent}]
  /\ UNCHANGED <<head, index, work, dir, cache, past>>

\* os.rename of one extracted file, over whatever is there
Move(f) ==
  /\ cmd.step = "move" /\ f \in cmd.todo
  /\ work' = [work EXCEPT !.files[f] = cmd.to[f]]
  /\ cmd' = [cmd EXCEPT !.todo = cmd.todo \ {f}]
  /\ UNCHANGED <<head, index, dir, cache, past>>

MoveEnds ==
  /\ cmd.step = "move" /\ cmd.todo = {} /\ Goto("addFiles")
  /\ UNCHANGED <<head, index, work, dir, cache, past>>

\* Mutation: the index holds the moved paths and no other entry.
AddFilesOnly ==
  /\ cmd.step = "addFiles" /\ Goto("writeMeta")
  /\ index' = [index EXCEPT !.files = [f \in {g \in File : cmd.to[g] # Absent} |-> work.files[f]]]
  /\ UNCHANGED <<head, work, dir, cache, past>>

AddFiles ==
  /\ cmd.step = "addFiles" /\ Goto("writeMeta")
  /\ index' = [index EXCEPT !.files =
       [f \in File |-> IF cmd.to[f] # Absent THEN work.files[f] ELSE index.files[f]]]
  /\ UNCHANGED <<head, work, dir, cache, past>>

\* Mutation: the checksum is taken from the disk.
WriteMetaOfDisk ==
  /\ cmd.step = "writeMeta" /\ Goto("addMeta2")
  /\ work' = [work EXCEPT !.meta = [release |-> cmd.to, checksum |-> work.files]]
  /\ UNCHANGED <<head, index, dir, cache, past>>

WriteMeta ==
  /\ cmd.step = "writeMeta" /\ Goto("addMeta2")
  /\ work' = [work EXCEPT !.meta = [release |-> cmd.to, checksum |-> Subtree(index.files)]]
  /\ UNCHANGED <<head, index, dir, cache, past>>

AddMeta2 ==
  /\ cmd.step = "addMeta2" /\ Goto("clean")
  /\ index' = [index EXCEPT !.meta = work.meta]
  /\ UNCHANGED <<head, work, dir, cache, past>>

\* shutil.rmtree of the cache directory
Clean ==
  /\ cmd.step = "clean"
  /\ cache' = "none" /\ cmd' = Idle
  /\ UNCHANGED <<head, index, work, dir, past>>

-----------------------------------------------------------------------------
(* The end of a command before its last step.                              *)
\* Mutation: no clean up after a failed fetch.
RemovesAfterUnpack(caught) == cmd.step \in UnpackSteps

RemovesCache(caught) == cmd.step \in UnpackSteps \cup (IF caught THEN FetchSteps ELSE {})

Unwind(caught) ==
  /\ cmd' = Idle
  /\ IF RemovesCache(caught)
     THEN cache' = "none"
     ELSE UNCHANGED cache
  /\ UNCHANGED <<head, index, dir>>

\* A config file is opened for writing, and so emptied, before its new lines
\* are written.
Cut ==
  \/ UNCHANGED work
  \/ cmd.step = "list" /\ work' = [work EXCEPT !.config = 0]
  \/ cmd.step = "writeMeta" /\ work' = [work EXCEPT !.meta = Empty]

\* An external command fails: "except Exception" and "finally" clean up.
Fail == cmd.step \in Failing /\ Unwind(TRUE) /\ UNCHANGED <<work, past>>

\* KeyboardInterrupt is no Exception: only "finally" cleans up.
CtrlC ==
  /\ cmd # Idle /\ "ctrl-c" \in Signals
  /\ Cut /\ Unwind(FALSE)
  /\ past' = Since("signals")

Kill ==
  /\ cmd # Idle /\ "kill" \in Signals
  /\ Cut /\ cmd' = Idle
  /\ UNCHANGED <<head, index, dir, cache>>
  /\ past' = Since("signals")

-----------------------------------------------------------------------------
(* The user between two commands.                                          *)
ResetAllowed ==
  /\ MergeAllowed(head.config, index.config, work.config, NoFile)
  /\ MergeAllowed(head.meta, index.meta, work.meta, NoFile)
  /\ \A f \in File : MergeAllowed(head.files[f], index.files[f], work.files[f], Absent)

ResetWork ==
  [config |-> Merged(head.config, index.config, work.config),
   meta   |-> Merged(head.meta, index.meta, work.meta),
   files  |-> [f \in File |-> Merged(head.files[f], index.files[f], work.files[f])]]

\* git removes a directory with the last file in it.
ResetDir ==
  \/ cache # "none" \/ ResetWork.meta # NoFile \/ ResetWork.files # NoTree
  \/ dir /\ ResetWork.meta = work.meta /\ ResetWork.files = work.files

ResetMerge ==
  /\ cmd = Idle /\ ResetAllowed
  /\ index' = head /\ work' = ResetWork /\ dir' = ResetDir
  /\ UNCHANGED <<head, cache, cmd>>
  /\ past' = Since("signals")

Commit ==
  /\ cmd = Idle
  /\ head' = index
  /\ UNCHANGED <<index, work, dir, cache, cmd>>
  /\ past' = Since("signals")

\* git add -u
Stage ==
  /\ cmd = Idle
  /\ index' = [config |-> IF index.config = NoFile THEN NoFile ELSE work.config,
               meta   |-> IF index.meta = NoFile THEN NoFile ELSE work.meta,
               files  |-> [f \in File |-> IF index.files[f] = Absent THEN Absent ELSE work.files[f]]]
  /\ UNCHANGED <<head, work, dir, cache, cmd>>
  /\ past' = Since("touched")

Edit(f, v) ==
  /\ cmd = Idle /\ dir
  /\ work' = [work EXCEPT !.files[f] = v]
  /\ UNCHANGED <<head, index, dir, cache, cmd>>
  /\ past' = Since("touched")

\* rm -r cache, and rm -r of the whole subproject
RemoveCache ==
  /\ cmd = Idle /\ cache # "none"
  /\ cache' = "none"
  /\ UNCHANGED <<head, index, work, dir, cmd>>
  /\ past' = Since(past)

RemoveDir ==
  /\ cmd = Idle /\ dir
  /\ dir' = FALSE /\ cache' = "none"
  /\ work' = [work EXCEPT !.meta = NoFile, !.files = NoTree]
  /\ UNCHANGED <<head, index, cmd>>
  /\ past' = Since("touched")

-----------------------------------------------------------------------------
Starts ==
  \/ Configure \/ InitSub
  \/ \E r \in Release : Add(r) \/ (\E url \in BOOLEAN : Update(r, url))

Steps ==
  \/ TouchConfig \/ AddConfig \/ Mkdir \/ MkdirRefused \/ TouchMeta \/ AddMeta
  \/ ListSub \/ AddList \/ MkCache \/ MkCacheRefused \/ CreateCache \/ Fetch
  \/ Drop \/ Extract \/ (\E f \in File : Move(f)) \/ MoveEnds \/ AddFiles
  \/ WriteMeta \/ AddMeta2 \/ Clean

Stops == Fail \/ CtrlC \/ Kill

User ==
  \/ ResetMerge \/ Commit \/ Stage \/ RemoveCache \/ RemoveDir
  \/ \E f \in File, v \in Content : Edit(f, v)

Next == Starts \/ Steps \/ Stops \/ User

Spec == Init /\ [][Next]_vars

-----------------------------------------------------------------------------
(* "git reset --merge" takes back whatever a command did, or did of it     *)
(* before it failed: it is not refused, brings the files of the last       *)
(* commit back and leaves no directory behind that bars the next "add".    *)
(* The exception is a failed git init: the cache directory, with no        *)
(* repository in it, stays, and the directory around it.                   *)
RollbackWorks ==
  pristine /\ cmd = Idle =>
    /\ ResetAllowed /\ ResetWork = head /\ cache # "repository"
    /\ cache = "none" => (ResetDir <=> head.meta # NoFile)

(* After a command that ended, well or with an error, "update" of the      *)
(* listed subproject is accepted: the metadata is there, no unstaged       *)
(* change stands in its way and no cache but what a failed git init left.  *)
(* An "add" that failed left the metadata empty: it takes --url then.      *)
RetryPossible ==
  pristine /\ cmd = Idle /\ Listed(work) => UpdateAccepted(work.meta = Empty) /\ cache # "repository"

(* When "add" or "update" ends, the staged subtree is the release and      *)
(* nothing else, the metadata names it with its checksum, and the files on *)
(* disk agree: whatever the user had staged, edited or interrupted before. *)
(* A directory "patches" of the release goes over the one that is there.   *)
UnpackExact ==
  [][Clean => /\ Subtree(index.files) = Subtree(cmd.to)
              /\ index.meta = [release |-> cmd.to, checksum |-> Subtree(cmd.to)] /\ work'.meta = index.meta
              /\ \A f \in File : cmd.to[f] # Absent =>
                    index.files[f] = cmd.to[f] /\ work'.files[f] = cmd.to[f]]_vars

(* The config file lists the subproject when there is its metadata file,   *)
(* in the index and on disk, and lists it once, however often commands     *)
(* failed and were repeated.                                               *)
ListedWithMetadata ==
  pristine /\ cmd = Idle => ListedOnce(index) /\ ListedOnce(work)

(* However signals cut the commands, and whatever is committed or reverted *)
(* then, neither the index nor a commit lists the subproject without its   *)
(* metadata file, on which all commands, "status" of the other subprojects *)
(* too, would fail.                                                        *)
CommitsAreSound ==
  past # "touched" => /\ Listed(index) => index.meta # NoFile
                      /\ Listed(head) => head.meta # NoFile

(* "add" and "update", to whatever point they come, leave an untracked     *)
(* file of the user where it is and do not modify it, unless the release   *)
(* has a file at that path.                                                *)
UntrackedKept ==
  [][cmd.op \in {"add", "update"} =>
       \A f \in File : index.files[f] = Absent /\ work.files[f] # Absent /\ cmd.to[f] = Absent =>
                       work'.files[f] = work.files[f]]_vars

-----------------------------------------------------------------------------
(* The inductive invariant: what holds at each point of each command.      *)
CacheSteps == {"mkCache", "createCache", "clean"} \cup FetchSteps \cup UnpackSteps
ConfigSteps == {"touchConfig", "addConfig"}

\* Which command is at which step, and what it integrates.
RouteInv ==
  /\ cmd.op \in {"add", "update"} => cmd.to \in Release
  /\ cmd.step \in CacheSteps => cmd.op \in {"add", "update"}
  /\ cmd.step \in InitSteps => cmd.op \in {"add", "init"} \cup (IF cmd.step \in ConfigSteps THEN {"configure"} ELSE {})

\* How far the unpacking is.
UnpackInv ==
  /\ cmd.step \in {"extract", "move", "addFiles"} => Subtree(index.files) = NoTree
  /\ cmd.step = "move" => \A f \in cmd.todo : cmd.to[f] # Absent
  /\ cmd.step \in {"move", "addFiles", "writeMeta", "addMeta2", "clean"} =>
       \A f \in File : cmd.to[f] # Absent /\ ~(cmd.step = "move" /\ f \in cmd.todo) => work.files[f] = cmd.to[f]
  /\ cmd.step \in {"writeMeta", "addMeta2", "clean"} =>
       /\ Subtree(index.files) = Subtree(cmd.to)
       /\ \A f \in File : cmd.to[f] # Absent => index.files[f] = cmd.to[f]
  /\ cmd.step \in {"addMeta2", "clean"} => work.meta = [release |-> cmd.to, checksum |-> Subtree(cmd.to)]
  /\ cmd.step = "clean" => index.meta = work.meta

\* .subproject is staged before .subpatch lists the subproject.
SoundInv ==
  past # "touched" =>
    /\ Listed(index) => index.meta # NoFile
    /\ Listed(head) => head.meta # NoFile
    /\ cmd.step = "addConfig" => work.config = 0
    /\ cmd.step = "addMeta" => work.meta # NoFile
    /\ cmd.step \in {"list", "addList"} => index.meta # NoFile

(* At each point of each command, it is the one that runs, has unpacked so *)
(* far, and has staged the metadata before it lists the subproject.        *)
IntegrateInv == TypeOK /\ RouteInv /\ UnpackInv /\ SoundInv

\* The subproject's directory is there for what is in it.
DirInv ==
  /\ ~dir => work.meta = NoFile /\ work.files = NoTree
  /\ cmd.step \in {"touchMeta", "addMeta", "list", "addList"} \cup CacheSteps => dir

\* What of the disk is staged, and what is listed, while only commands run.
StagedInv ==
  pristine =>
    /\ ListedOnce(head) /\ (head.meta = NoFile => head.files = NoTree)
    /\ cmd.step \notin CacheSteps \ {"mkCache", "createCache"} => cache # "repository"
    /\ cmd.step = "createCache" => cache = "made"
    /\ cmd.step \notin {"addConfig", "addList"} => index.config = work.config
    /\ cmd.step \notin {"addMeta", "addMeta2"} => index.meta = work.meta
    /\ cmd.step \notin {"move", "addFiles"} => index.files = work.files
    /\ \A f \in File : cmd.step = "addFiles" /\ cmd.to[f] = Absent => index.files[f] = work.files[f]
    /\ \A f \in File : cmd.step = "move" /\ (cmd.to[f] = Absent \/ f \in cmd.todo) =>
                        index.files[f] = work.files[f]
    /\ (cmd.step = "touchConfig" => work.config = NoFile) /\ (cmd.step = "mkdir" => work.config # NoFile)
    /\ cmd.step \in {"touchMeta", "addMeta", "list"} => work.config = 0
    /\ cmd.step \notin {"touchMeta", "addMeta", "list"} => ListedOnce(work)
    /\ cmd.step # "touchMeta" => (dir <=> work.meta # NoFile)

(* While only commands run, with their external commands failing or not,   *)
(* disk and index differ at most in what the next "git add" stages: the    *)
(* argument for RollbackWorks, RetryPossible and ListedWithMetadata.       *)
RollbackInv == DirInv /\ StagedInv

\* The steps that fail before they write anything that is to be staged.
FailsClean == Failing \subseteq {"createCache", "fetch", "drop", "extract", "writeMeta"}

-----------------------------------------------------------------------------
(* What an assertion says; a run shows where the code does not keep it.    *)

(* "assert (not os.path.isdir(cwd_to_cache_relpath))": when a command is   *)
(* about to create the cache, there is none.                               *)
CacheAssertion == cmd.step = "mkCache" => cache = "none"
=============================================================================
