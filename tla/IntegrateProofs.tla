-------------------------- MODULE IntegrateProofs --------------------------
(***************************************************************************)
(* Proofs about Integrate, for every set of paths, contents, releases and  *)
(* signals: "add" and "update" stage exactly the release, spare untracked  *)
(* files, and leave no commit that lists the subproject without its        *)
(* metadata, whatever external command fails; and while none fails between *)
(* a write and its "git add", "git reset --merge" takes everything back.   *)
(***************************************************************************)
EXTENDS Integrate, TLAPS

-----------------------------------------------------------------------------
(* Types.                                                                  *)

(* The subtree of a tree, and a tree with one file changed, are trees.     *)
LEMMA TreeTypes ==
  /\ NoTree \in Tree /\ \A t \in Tree : Subtree(t) \in Tree
  /\ \A t \in Tree, f \in File, v \in Content : [t EXCEPT ![f] = v] \in Tree
BY DEF NoTree, Tree, Content, Subtree

(* The fields of a snapshot, and a snapshot from its fields.               *)
LEMMA SnapshotTypes ==
  ASSUME NEW s \in Snapshot
  PROVE  /\ s.config \in Config /\ s.meta \in Meta /\ s.files \in Tree
         /\ \A c \in Config : [s EXCEPT !.config = c] \in Snapshot
         /\ \A m \in Meta : [s EXCEPT !.meta = m] \in Snapshot
         /\ \A t \in Tree : [s EXCEPT !.files = t] \in Snapshot
BY DEF Snapshot

(* A command goes on as a command.                                         *)
LEMMA CommandTypes ==
  /\ Idle \in Command
  /\ \A c \in Command, step \in {"mkCache", "createCache", "clean"} \cup InitSteps \cup FetchSteps \cup UnpackSteps :
       [c EXCEPT !.step = step] \in Command
  /\ \A c \in Command, S \in SUBSET File : [c EXCEPT !.todo = S] \in Command
BY DEF Command, Idle

(* The program has its types right from the start.                         *)
LEMMA InitTypes == Init => TypeOK
<1>1. Nothing \in Snapshot
  BY TreeTypes DEF Nothing, Snapshot, Config, Meta
<1> QED BY <1>1, CommandTypes DEF Init, TypeOK

(* Starting a command keeps the types.                                     *)
LEMMA StartTypes == TypeOK /\ Starts => TypeOK'
<1> SUFFICES ASSUME TypeOK, Starts PROVE TypeOK'
  OBVIOUS
<1>1. CASE Configure
  BY <1>1, IntegrateAssumption DEF TypeOK, Configure, Start, Command, InitSteps
<1>2. CASE InitSub
  BY <1>2, IntegrateAssumption DEF TypeOK, InitSub, Start, Command, InitSteps
<1>3. CASE \E r \in Release : Add(r)
  BY <1>3 DEF TypeOK, Add, Start, Command, InitSteps
<1>4. CASE \E r \in Release, url \in BOOLEAN : Update(r, url)
  BY <1>4 DEF TypeOK, Update, Start, Command
<1> QED BY <1>1, <1>2, <1>3, <1>4 DEF Starts

(* Each step of a command keeps the types.                                 *)
LEMMA StepTypes == TypeOK /\ RouteInv /\ Steps => TypeOK'
<1> SUFFICES ASSUME TypeOK, RouteInv, Steps PROVE TypeOK'
  OBVIOUS
<1> USE DEF TypeOK, Goto, InitSteps, FetchSteps, UnpackSteps
<1>0. /\ NoFile \in Config /\ 0 \in Config /\ 1 \in Config
      /\ NoFile \in Meta /\ Empty \in Meta
  BY DEF Config, Meta
<1>1. CASE TouchConfig
  BY <1>0, <1>1, SnapshotTypes, CommandTypes DEF TouchConfig
<1>2. CASE AddConfig
  BY <1>0, <1>2, SnapshotTypes, CommandTypes DEF AddConfig
<1>3. CASE Mkdir \/ MkdirRefused
  BY <1>3, CommandTypes DEF Mkdir, MkdirRefused
<1>4. CASE TouchMeta
  BY <1>0, <1>4, SnapshotTypes, CommandTypes DEF TouchMeta
<1>5. CASE AddMeta
  BY <1>5, SnapshotTypes, CommandTypes DEF AddMeta
<1>6. CASE ListSub
  <2>1. (IF work.config = NoFile THEN 1 ELSE work.config + 1) \in Config
    BY SnapshotTypes DEF Config
  <2> QED BY <1>6, <2>1, SnapshotTypes, CommandTypes DEF ListSub
<1>7. CASE AddList
  BY <1>7, SnapshotTypes, CommandTypes DEF AddList
<1>8. CASE MkCache \/ MkCacheRefused \/ CreateCache \/ Fetch
  BY <1>8, CommandTypes DEF MkCache, MkCacheRefused, CreateCache, Fetch
<1>9. CASE Drop
  <2>1. \A s \in Snapshot : s.files \in [File -> Content] /\ Absent \in Content
    BY SnapshotTypes DEF Tree, Content
  <2>2. /\ [f \in File |-> IF f \in Patches THEN index.files[f] ELSE Absent] \in Tree
        /\ [f \in File |-> IF f \notin Patches /\ index.files[f] # Absent THEN Absent ELSE work.files[f]] \in Tree
    BY <2>1 DEF Tree
  <2> QED BY <1>9, <2>2, SnapshotTypes, CommandTypes DEF Drop
<1>10. CASE Extract
  <2>1. [cmd EXCEPT !.step = "move", !.todo = {f \in File : cmd.to[f] # Absent}] \in Command
    BY DEF Command
  <2> QED BY <1>10, <2>1 DEF Extract
<1>11. CASE \E f \in File : Move(f)
  <2> PICK f \in File : Move(f)
    BY <1>11
  <2>1. cmd.to[f] \in Content
    <3>1. cmd.to \in Tree
      BY IntegrateAssumption DEF Move, RouteInv, CacheSteps
    <3> QED BY <3>1 DEF Tree
  <2>2. [work EXCEPT !.files[f] = cmd.to[f]] \in Snapshot
    BY <2>1, TreeTypes, SnapshotTypes
  <2>3. cmd' \in Command
    BY DEF Move, Command
  <2> QED BY <2>2, <2>3 DEF Move
<1>12. CASE MoveEnds
  BY <1>12, CommandTypes DEF MoveEnds
<1>13. CASE AddFiles
  <2>1. [f \in File |-> IF cmd.to[f] # Absent THEN work.files[f] ELSE index.files[f]] \in Tree
    BY SnapshotTypes DEF Tree
  <2> QED BY <1>13, <2>1, SnapshotTypes, CommandTypes DEF AddFiles
<1>14. CASE WriteMeta
  <2>1. cmd.to \in Release
    BY <1>14 DEF WriteMeta, RouteInv, CacheSteps
  <2>2. [release |-> cmd.to, checksum |-> Subtree(index.files)] \in Meta
    BY <2>1, SnapshotTypes, TreeTypes DEF Meta
  <2> QED BY <1>14, <2>2, SnapshotTypes, CommandTypes DEF WriteMeta
<1>15. CASE AddMeta2
  BY <1>15, SnapshotTypes, CommandTypes DEF AddMeta2
<1>16. CASE Clean
  BY <1>16, CommandTypes DEF Clean
<1> QED BY <1>1, <1>2, <1>3, <1>4, <1>5, <1>6, <1>7, <1>8, <1>9, <1>10, <1>11, <1>12, <1>13,
           <1>14, <1>15, <1>16 DEF Steps

(* A command that stops early keeps the types.                             *)
LEMMA StopTypes == TypeOK /\ Stops => TypeOK'
<1> SUFFICES ASSUME TypeOK, Stops PROVE TypeOK'
  OBVIOUS
<1> USE DEF TypeOK
<1>1. Since("signals") \in {"commands", "signals", "touched"}
  BY DEF Since
<1>2. [work EXCEPT !.config = 0] \in Snapshot /\ [work EXCEPT !.meta = Empty] \in Snapshot
  BY SnapshotTypes DEF Config, Meta
<1>3. CASE Fail
  BY <1>3, CommandTypes DEF Fail, Unwind
<1>4. CASE CtrlC
  BY <1>4, <1>1, <1>2, CommandTypes DEF CtrlC, Cut, Unwind
<1>5. CASE Kill
  BY <1>5, <1>1, <1>2, CommandTypes DEF Kill, Cut
<1> QED BY <1>3, <1>4, <1>5 DEF Stops

(* What the user does between commands keeps the types.                    *)
LEMMA UserTypes == TypeOK /\ User => TypeOK'
<1> SUFFICES ASSUME TypeOK, User PROVE TypeOK'
  OBVIOUS
<1> USE DEF TypeOK
<1>1. \A what \in {"signals", "touched", past} : Since(what) \in {"commands", "signals", "touched"}
  BY DEF Since
<1>2. NoFile \in Config /\ NoFile \in Meta /\ Absent \in Content
  BY DEF Config, Meta, Content
<1>3. CASE ResetMerge
  <2>1. [f \in File |-> Merged(head.files[f], index.files[f], work.files[f])] \in Tree
    BY SnapshotTypes DEF Tree, Merged
  <2>2. ResetWork \in Snapshot
    BY <2>1, SnapshotTypes DEF ResetWork, Snapshot, Merged
  <2>3. ResetDir \in BOOLEAN
    BY DEF ResetDir
  <2> QED BY <1>1, <1>3, <2>2, <2>3 DEF ResetMerge
<1>4. CASE Commit
  BY <1>1, <1>4 DEF Commit
<1>5. CASE Stage
  <2>1. [f \in File |-> IF index.files[f] = Absent THEN Absent ELSE work.files[f]] \in Tree
    BY <1>2, SnapshotTypes DEF Tree
  <2>2. index' \in Snapshot
    BY <1>2, <1>5, <2>1, SnapshotTypes DEF Stage, Snapshot
  <2> QED BY <1>1, <1>5, <2>2 DEF Stage
<1>6. CASE \E f \in File, v \in Content : Edit(f, v)
  <2> PICK f \in File, v \in Content : Edit(f, v)
    BY <1>6
  <2>1. [work EXCEPT !.files[f] = v] \in Snapshot
    BY TreeTypes, SnapshotTypes
  <2> QED BY <1>1, <2>1 DEF Edit
<1>7. CASE RemoveCache
  BY <1>1, <1>7 DEF RemoveCache
<1>8. CASE RemoveDir
  <2>1. [work EXCEPT !.meta = NoFile, !.files = NoTree] \in Snapshot
    BY <1>2, TreeTypes DEF Snapshot
  <2> QED BY <1>1, <1>8, <2>1 DEF RemoveDir
<1> QED BY <1>3, <1>4, <1>5, <1>6, <1>7, <1>8 DEF User

(* Every step of the program keeps the types.                              *)
LEMMA TypesKept == TypeOK /\ RouteInv /\ [Next]_vars => TypeOK'
<1>1. TypeOK /\ UNCHANGED vars => TypeOK'
  BY DEF TypeOK, vars
<1> QED BY <1>1, StartTypes, StepTypes, StopTypes, UserTypes DEF Next

-----------------------------------------------------------------------------
(* The command that runs, and its step.                                    *)

(* Whatever ends a command, or is done between two, leaves no command.     *)
LEMMA NoCommandAfter == (Stops \/ User) => cmd' = Idle
BY DEF Stops, Fail, CtrlC, Kill, Unwind, User, ResetMerge, Commit, Stage, Edit, RemoveCache, RemoveDir

(* "add" and "update" alone get to the steps that fetch and unpack, and    *)
(* have a release to integrate.                                            *)
LEMMA RouteKept == TypeOK /\ RouteInv /\ [Next]_vars => RouteInv'
<1> SUFFICES ASSUME TypeOK, RouteInv, [Next]_vars PROVE RouteInv'
  OBVIOUS
<1> USE DEF RouteInv, CacheSteps, ConfigSteps, InitSteps, FetchSteps, UnpackSteps
<1>0. cmd \in Command
  BY DEF TypeOK
<1>1. CASE Starts
  BY <1>1 DEF Starts, Configure, InitSub, Add, Update, Start
<1>2. CASE Steps
  <2> USE <1>0 DEF Command, Goto, Idle
  <2>1. CASE TouchConfig \/ AddConfig \/ Mkdir \/ MkdirRefused \/ TouchMeta \/ AddMeta \/ ListSub
    BY <2>1 DEF TouchConfig, AddConfig, Mkdir, MkdirRefused, TouchMeta, AddMeta, ListSub
  <2>2. CASE AddList \/ MkCache \/ MkCacheRefused \/ CreateCache \/ Fetch \/ Drop
    BY <2>2 DEF AddList, MkCache, MkCacheRefused, CreateCache, Fetch, Drop
  <2>3. CASE Extract \/ (\E f \in File : Move(f)) \/ MoveEnds \/ AddFiles
    BY <2>3 DEF Extract, Move, MoveEnds, AddFiles
  <2>4. CASE WriteMeta \/ AddMeta2 \/ Clean
    BY <2>4 DEF WriteMeta, AddMeta2, Clean
  <2> QED BY <1>2, <2>1, <2>2, <2>3, <2>4 DEF Steps
<1>3. CASE Stops \/ User
  BY <1>3, NoCommandAfter DEF Idle
<1>4. CASE UNCHANGED vars
  BY <1>4 DEF vars
<1> QED BY <1>1, <1>2, <1>3, <1>4 DEF Next

-----------------------------------------------------------------------------
(* Unpacking.                                                              *)

(* A tree with the subtree emptied, and then filled with the files of a    *)
(* release, has the subtree of the release.                                *)
LEMMA FilledSubtree ==
  ASSUME NEW t \in Tree, NEW w \in Tree, NEW r \in Tree, Subtree(t) = NoTree,
         \A f \in File : r[f] # Absent => w[f] = r[f]
  PROVE  Subtree([f \in File |-> IF r[f] # Absent THEN w[f] ELSE t[f]]) = Subtree(r)
<1>1. \A f \in File \ Patches : t[f] = Absent
  BY DEF Subtree, NoTree
<1> QED BY <1>1 DEF Subtree

(* Each step of the unpacking brings the files as far as the next step     *)
(* takes them to be.                                                       *)
LEMMA UnpackStep == TypeOK /\ RouteInv /\ UnpackInv /\ Steps => UnpackInv'
<1> SUFFICES ASSUME TypeOK, RouteInv, UnpackInv, Steps PROVE UnpackInv'
  OBVIOUS
<1>0. /\ cmd \in Command /\ work \in Snapshot /\ index \in Snapshot
      /\ index.files \in Tree /\ work.files \in Tree
  BY SnapshotTypes DEF TypeOK
<1> USE <1>0 DEF Goto, Idle
<1>1. CASE TouchConfig \/ AddConfig \/ Mkdir \/ MkdirRefused \/ TouchMeta \/ AddMeta \/ ListSub
  BY <1>1 DEF UnpackInv, Command, TouchConfig, AddConfig, Mkdir, MkdirRefused, TouchMeta, AddMeta, ListSub
<1>2. CASE AddList \/ MkCache \/ MkCacheRefused \/ CreateCache \/ Fetch \/ Clean
  BY <1>2 DEF UnpackInv, Command, AddList, MkCache, MkCacheRefused, CreateCache, Fetch, Clean
<1>3. CASE Drop
  <2>1. cmd'.step = "extract"
    BY <1>3 DEF Drop, Command
  <2>2. index'.files = [f \in File |-> IF f \in Patches THEN index.files[f] ELSE Absent]
    BY <1>3 DEF Drop, Snapshot
  <2>3. Subtree(index'.files) = NoTree
    BY <2>2 DEF Subtree, NoTree
  <2> QED BY <2>1, <2>3 DEF UnpackInv
<1>4. CASE Extract
  <2>1. /\ cmd'.step = "move" /\ cmd'.to = cmd.to
        /\ cmd'.todo = {f \in File : cmd.to[f] # Absent}
        /\ cmd.step = "extract" /\ index' = index
    BY <1>4 DEF Extract, Command
  <2> QED BY <2>1 DEF UnpackInv
<1>5. CASE \E f \in File : Move(f)
  <2> PICK f \in File : Move(f)
    BY <1>5
  <2>1. /\ cmd.step = "move" /\ cmd'.step = "move" /\ cmd'.to = cmd.to
        /\ cmd'.todo = cmd.todo \ {f} /\ index' = index
    BY DEF Move, Command
  <2>2. \A g \in File : work'.files[g] = IF g = f THEN cmd.to[f] ELSE work.files[g]
    BY DEF Move, Snapshot, Tree
  <2> QED BY <2>1, <2>2 DEF UnpackInv
<1>6. CASE MoveEnds
  <2>1. /\ cmd.step = "move" /\ cmd.todo = {} /\ cmd'.step = "addFiles" /\ cmd'.to = cmd.to
        /\ index' = index /\ work' = work
    BY <1>6 DEF MoveEnds, Command
  <2> QED BY <2>1 DEF UnpackInv
<1>7. CASE AddFiles
  <2>1. /\ cmd.step = "addFiles" /\ cmd'.step = "writeMeta" /\ cmd'.to = cmd.to /\ work' = work
        /\ index'.files = [f \in File |-> IF cmd.to[f] # Absent THEN work.files[f] ELSE index.files[f]]
    BY <1>7 DEF AddFiles, Command, Snapshot
  <2>2. cmd.to \in Tree
    BY <2>1, IntegrateAssumption DEF RouteInv, CacheSteps, UnpackSteps
  <2>3. \A f \in File : cmd.to[f] # Absent => work.files[f] = cmd.to[f]
    BY <2>1 DEF UnpackInv
  <2>4. Subtree(index'.files) = Subtree(cmd.to)
    BY <2>1, <2>2, <2>3, FilledSubtree DEF UnpackInv
  <2> QED BY <2>1, <2>3, <2>4 DEF UnpackInv
<1>8. CASE WriteMeta
  <2>1. /\ cmd.step = "writeMeta" /\ cmd'.step = "addMeta2" /\ cmd'.to = cmd.to /\ index' = index
        /\ work'.files = work.files
        /\ work'.meta = [release |-> cmd.to, checksum |-> Subtree(index.files)]
    BY <1>8 DEF WriteMeta, Command, Snapshot
  <2> QED BY <2>1 DEF UnpackInv
<1>9. CASE AddMeta2
  <2>1. /\ cmd.step = "addMeta2" /\ cmd'.step = "clean" /\ cmd'.to = cmd.to /\ work' = work
        /\ index'.files = index.files /\ index'.meta = work.meta
    BY <1>9 DEF AddMeta2, Command, Snapshot
  <2> QED BY <2>1 DEF UnpackInv
<1> QED BY <1>1, <1>2, <1>3, <1>4, <1>5, <1>6, <1>7, <1>8, <1>9 DEF Steps

(* So does every step of the program: nothing else goes on to unpack.      *)
LEMMA UnpackKept == TypeOK /\ RouteInv /\ UnpackInv /\ [Next]_vars => UnpackInv'
<1>1. Starts => cmd'.step \notin {"extract", "move", "addFiles", "writeMeta", "addMeta2", "clean"}
  BY DEF Starts, Configure, InitSub, Add, Update, Start
<1>2. Starts => UnpackInv'
  BY <1>1 DEF UnpackInv
<1>3. Stops \/ User => UnpackInv'
  BY NoCommandAfter DEF UnpackInv, Idle
<1>4. UnpackInv /\ UNCHANGED vars => UnpackInv'
  BY DEF UnpackInv, vars
<1> QED BY <1>2, <1>3, <1>4, UnpackStep DEF Next

-----------------------------------------------------------------------------
(* Listing after staging the metadata.                                     *)

(* A settled subproject is listed with its metadata, and a step that makes *)
(* up for a change by hand settles it.                                     *)
LEMMA SinceSettled ==
  ASSUME NEW what \in {"signals", "touched", past}, past' = Since(what), past' # "touched"
  PROVE  \/ /\ Listed(head)' => head'.meta # NoFile
            /\ Listed(index)' => index'.meta # NoFile
         \/ what # "touched" /\ past # "touched"
<1>1. CASE Settled'
  BY <1>1 DEF Settled, ListedOnce, Listed
<1>2. CASE ~Settled'
  BY <1>2 DEF Since
<1> QED BY <1>1, <1>2

(* The metadata is staged before the config file lists the subproject: no  *)
(* step of a command makes the staged state unsound.                       *)
LEMMA SoundStep == IntegrateInv /\ Steps => SoundInv'
<1> SUFFICES ASSUME IntegrateInv, Steps, past' # "touched" PROVE SoundInv'
  BY DEF SoundInv
<1>0. /\ cmd \in Command /\ work \in Snapshot /\ index \in Snapshot /\ head \in Snapshot
  BY DEF IntegrateInv, TypeOK
<1>s. /\ past' = past /\ head' = head
  BY DEF Steps, TouchConfig, AddConfig, Mkdir, MkdirRefused, TouchMeta, AddMeta, ListSub, AddList,
         MkCache, MkCacheRefused, CreateCache, Fetch, Drop, Extract, Move, MoveEnds, AddFiles,
         WriteMeta, AddMeta2, Clean
<1>r. SoundInv /\ RouteInv /\ UnpackInv /\ past # "touched"
  BY <1>s DEF IntegrateInv
<1> USE <1>0, <1>s, <1>r DEF Goto, Idle, Listed
<1>1. CASE TouchConfig
  <2>1. work'.config = 0 /\ cmd'.step = "addConfig" /\ index' = index
    BY <1>1 DEF TouchConfig, Snapshot, Command
  <2> QED BY <2>1 DEF SoundInv
<1>2. CASE AddConfig
  <2>1. /\ index'.config = work.config /\ work.config = 0
        /\ cmd'.step \in {"idle", "mkdir"} /\ index'.meta = index.meta
    BY <1>2 DEF AddConfig, SoundInv, Snapshot, Command
  <2> QED BY <2>1 DEF SoundInv
<1>3. CASE Mkdir \/ MkdirRefused \/ MkCache \/ MkCacheRefused \/ CreateCache \/ Fetch \/ Clean
  BY <1>3 DEF SoundInv, Command, Mkdir, MkdirRefused, MkCache, MkCacheRefused, CreateCache, Fetch, Clean
<1>4. CASE TouchMeta
  <2>1. work'.meta = Empty /\ cmd'.step = "addMeta" /\ index' = index
    BY <1>4 DEF TouchMeta, Snapshot, Command
  <2> QED BY <2>1, IntegrateAssumption DEF SoundInv
<1>5. CASE AddMeta
  <2>1. index'.meta = work.meta /\ work.meta # NoFile /\ index'.config = index.config /\ cmd'.step = "list"
    BY <1>5 DEF AddMeta, SoundInv, Snapshot, Command
  <2> QED BY <2>1 DEF SoundInv
<1>6. CASE ListSub
  <2>1. cmd.step = "list" /\ cmd'.step = "addList" /\ index' = index
    BY <1>6 DEF ListSub, Command
  <2> QED BY <2>1 DEF SoundInv
<1>7. CASE AddList
  <2>1. index'.meta = index.meta /\ index.meta # NoFile /\ cmd'.step \in {"idle", "mkCache"}
    BY <1>7 DEF AddList, SoundInv, Snapshot, Command
  <2> QED BY <2>1 DEF SoundInv
<1>8. CASE Drop \/ AddFiles
  <2>1. index'.meta = index.meta /\ index'.config = index.config /\ cmd'.step \in {"extract", "writeMeta"}
    BY <1>8 DEF Drop, AddFiles, Snapshot, Command
  <2> QED BY <2>1 DEF SoundInv
<1>9. CASE Extract \/ (\E f \in File : Move(f)) \/ MoveEnds \/ WriteMeta
  <2>1. index' = index /\ cmd'.step \in {"move", "addFiles", "addMeta2"}
    BY <1>9 DEF Extract, Move, MoveEnds, WriteMeta, Command
  <2> QED BY <2>1 DEF SoundInv
<1>10. CASE AddMeta2
  <2>1. /\ cmd.step = "addMeta2" /\ cmd'.step = "clean"
        /\ index'.meta = work.meta /\ index'.config = index.config
    BY <1>10 DEF AddMeta2, Snapshot, Command
  <2>2. cmd.to \in Release /\ Subtree(cmd.to) \in Tree
    BY <2>1, TreeTypes, IntegrateAssumption DEF RouteInv, CacheSteps, UnpackSteps
  <2>3. index'.meta # NoFile
    BY <2>1, <2>2, IntegrateAssumption DEF UnpackInv
  <2> QED BY <2>1, <2>3 DEF SoundInv
<1> QED BY <1>1, <1>2, <1>3, <1>4, <1>5, <1>6, <1>7, <1>8, <1>9, <1>10 DEF Steps

(* A cut config file has an empty staged version or none; a commit and a   *)
(* reset move the index and the last commit to each other.                 *)
LEMMA SoundKept == IntegrateInv /\ [Next]_vars => SoundInv'
<1> SUFFICES ASSUME IntegrateInv, [Next]_vars PROVE SoundInv'
  OBVIOUS
<1>0. SoundInv
  BY DEF IntegrateInv
<1>1. CASE Starts
  <2>1. /\ UNCHANGED <<head, index, work, past>>
        /\ cmd'.step \in {"touchConfig", "mkdir", "mkCache"}
    BY <1>1 DEF Starts, Configure, InitSub, Add, Update, Start
  <2> QED BY <1>0, <2>1 DEF SoundInv, Listed
<1>2. CASE Steps
  BY <1>2, SoundStep
<1>3. CASE Fail
  BY <1>0, <1>3 DEF Fail, Unwind, SoundInv, Listed, Idle
<1>4. CASE CtrlC \/ Kill
  <2> SUFFICES ASSUME past' # "touched" PROVE SoundInv'
    BY DEF SoundInv
  <2>1. /\ past' = Since("signals") /\ cmd' = Idle /\ UNCHANGED <<head, index>>
    BY <1>4 DEF CtrlC, Kill, Unwind
  <2> QED BY <1>0, <2>1, SinceSettled DEF SoundInv, Listed, Idle
<1>5. CASE User
  <2> SUFFICES ASSUME past' # "touched" PROVE SoundInv'
    BY DEF SoundInv
  <2>1. cmd' = Idle
    BY <1>5, NoCommandAfter
  <2>2. PICK what \in {"signals", "touched", past} :
          /\ past' = Since(what)
          /\ what # "touched" => head' \in {head, index} /\ index' \in {head, index}
    BY <1>5 DEF User, ResetMerge, Commit, Stage, Edit, RemoveCache, RemoveDir
  <2> QED BY <1>0, <2>1, <2>2, SinceSettled DEF SoundInv, Listed, Idle
<1>6. CASE UNCHANGED vars
  BY <1>0, <1>6 DEF vars, SoundInv, Listed
<1> QED BY <1>1, <1>2, <1>3, <1>4, <1>5, <1>6 DEF Next, Stops

-----------------------------------------------------------------------------
(* Rolling back.                                                           *)

(* The steps that need the directory keep it.                              *)
LEMMA DirKept == IntegrateInv /\ DirInv /\ [Next]_vars => DirInv'
<1> SUFFICES ASSUME IntegrateInv, DirInv, [Next]_vars PROVE DirInv'
  OBVIOUS
<1>0. /\ cmd \in Command /\ work \in Snapshot /\ dir \in BOOLEAN
      /\ \A f \in File : work.files[f] \in Content
  BY SnapshotTypes DEF IntegrateInv, TypeOK, Tree
<1> USE <1>0 DEF CacheSteps, FetchSteps, UnpackSteps
<1>1. CASE Starts
  <2>1. /\ UNCHANGED <<work, dir>>
        /\ cmd'.step \in {"touchConfig", "mkdir"} \/ (cmd'.step = "mkCache" /\ work.meta # NoFile)
    BY <1>1 DEF Starts, Configure, InitSub, Add, Update, UpdateAccepted, Start
  <2> QED BY <2>1 DEF DirInv
<1>2. CASE Steps
  <2> USE DEF Goto, Idle
  <2>1. CASE TouchConfig \/ AddConfig \/ MkdirRefused \/ MkCacheRefused \/ Clean
    <3>1. UNCHANGED dir /\ work'.meta = work.meta /\ work'.files = work.files
      BY <2>1 DEF TouchConfig, AddConfig, MkdirRefused, MkCacheRefused, Clean, Snapshot
    <3>2. cmd'.step \in {"addConfig", "idle", "mkdir"}
      BY <2>1 DEF TouchConfig, AddConfig, MkdirRefused, MkCacheRefused, Clean, Command
    <3> QED BY <3>1, <3>2 DEF DirInv
  <2>2. CASE Mkdir
    BY <2>2 DEF Mkdir, DirInv
  <2>3. CASE TouchMeta \/ AddMeta \/ ListSub \/ AddList \/ MkCache \/ CreateCache \/ Fetch
    BY <2>3 DEF TouchMeta, AddMeta, ListSub, AddList, MkCache, CreateCache, Fetch, DirInv
  <2>4. CASE Drop \/ Extract \/ (\E f \in File : Move(f)) \/ MoveEnds \/ AddFiles \/ WriteMeta \/ AddMeta2
    BY <2>4 DEF Drop, Extract, Move, MoveEnds, AddFiles, WriteMeta, AddMeta2, DirInv
  <2> QED BY <1>2, <2>1, <2>2, <2>3, <2>4 DEF Steps
<1>3. CASE Stops \/ User
  <2>1. cmd'.step = "idle"
    BY <1>3, NoCommandAfter DEF Idle
  <2> SUFFICES ASSUME ~dir' PROVE work'.meta = NoFile /\ work'.files = NoTree
    BY <2>1 DEF DirInv
  <2>2. CASE Stops
    <3>1. ~dir /\ work'.files = work.files /\ (work'.meta = work.meta \/ cmd.step = "writeMeta")
      BY <2>2 DEF Stops, Fail, CtrlC, Kill, Unwind, Cut, Snapshot
    <3> QED BY <3>1 DEF DirInv
  <2>3. CASE ResetMerge
    BY <2>3 DEF ResetMerge, ResetDir
  <2>4. CASE RemoveDir
    BY <2>4 DEF RemoveDir, Snapshot
  <2>5. CASE Commit \/ Stage \/ RemoveCache \/ (\E f \in File, v \in Content : Edit(f, v))
    BY <2>5 DEF Commit, Stage, RemoveCache, Edit, DirInv
  <2> QED BY <1>3, <2>2, <2>3, <2>4, <2>5 DEF User
<1>4. CASE UNCHANGED vars
  BY <1>4 DEF vars, DirInv
<1> QED BY <1>1, <1>2, <1>3, <1>4 DEF Next

(* Each step of a command stages what the one before wrote.                *)
LEMMA StagedStep == IntegrateInv /\ RollbackInv /\ Steps => StagedInv'
<1> SUFFICES ASSUME IntegrateInv, RollbackInv, Steps, pristine' PROVE StagedInv'
  BY DEF StagedInv
<1>0. /\ cmd \in Command /\ work \in Snapshot /\ index \in Snapshot /\ dir \in BOOLEAN
      /\ \A f \in File : work.files[f] \in Content /\ index.files[f] \in Content
  BY SnapshotTypes DEF IntegrateInv, TypeOK, Tree
<1>s. /\ past' = past /\ head' = head /\ pristine
  BY DEF Steps, TouchConfig, AddConfig, Mkdir, MkdirRefused, TouchMeta, AddMeta, ListSub, AddList,
         MkCache, MkCacheRefused, CreateCache, Fetch, Drop, Extract, Move, MoveEnds, AddFiles,
         WriteMeta, AddMeta2, Clean, pristine
<1>r. /\ StagedInv /\ DirInv /\ UnpackInv /\ RouteInv
      /\ cmd.step = "addConfig" => work.config = 0
      /\ cmd.step = "addMeta" => work.meta # NoFile
  BY <1>s DEF IntegrateInv, RollbackInv, SoundInv, pristine
<1>c. NoFile # 0 /\ NoFile # 1 /\ NoFile # Empty
  BY IntegrateAssumption
<1> USE <1>0, <1>s, <1>c DEF Goto, Idle, Listed, ListedOnce, CacheSteps, FetchSteps, UnpackSteps
<1>1. CASE TouchConfig
  <2>1. /\ cmd.step = "touchConfig" /\ work'.config = 0 /\ cmd'.step = "addConfig"
        /\ work'.meta = work.meta /\ work'.files = work.files /\ UNCHANGED <<index, dir, cache>>
    BY <1>1 DEF TouchConfig, Snapshot, Command
  <2> QED BY <1>r, <2>1 DEF StagedInv
<1>2. CASE AddConfig
  <2>1. /\ cmd.step = "addConfig" /\ cmd'.step \in {"idle", "mkdir"} /\ index'.config = work.config
        /\ index'.meta = index.meta /\ index'.files = index.files /\ UNCHANGED <<work, dir, cache>>
    BY <1>2 DEF AddConfig, Snapshot, Command
  <2> QED BY <1>r, <2>1 DEF StagedInv
<1>3. CASE Mkdir
  <2>1. /\ cmd.step = "mkdir" /\ cmd'.step = "touchMeta" /\ ~dir /\ UNCHANGED <<index, work, cache>>
    BY <1>3 DEF Mkdir, Command
  <2> QED BY <1>r, <2>1 DEF StagedInv
<1>4. CASE MkdirRefused \/ MkCacheRefused
  <2>1. /\ cmd.step \in {"mkdir", "mkCache"} /\ cmd'.step = "idle" /\ UNCHANGED <<index, work, dir, cache>>
    BY <1>4 DEF MkdirRefused, MkCacheRefused, Command
  <2> QED BY <1>r, <2>1 DEF StagedInv
<1>5. CASE TouchMeta
  <2>1. /\ cmd.step = "touchMeta" /\ cmd'.step = "addMeta" /\ work'.meta = Empty /\ work'.config = work.config
        /\ work'.files = work.files /\ UNCHANGED <<index, dir, cache>>
    BY <1>5 DEF TouchMeta, Snapshot, Command
  <2> QED BY <1>r, <2>1 DEF StagedInv, DirInv
<1>6. CASE AddMeta
  <2>1. /\ cmd.step = "addMeta" /\ cmd'.step = "list" /\ index'.meta = work.meta
        /\ index'.config = index.config /\ index'.files = index.files /\ UNCHANGED <<work, dir, cache>>
    BY <1>6 DEF AddMeta, Snapshot, Command
  <2> QED BY <1>r, <2>1 DEF StagedInv
<1>7. CASE ListSub
  <2>1. /\ cmd.step = "list" /\ cmd'.step = "addList" /\ work.config = 0
    BY <1>r, <1>7 DEF ListSub, StagedInv, Command
  <2>2. /\ work'.config = 1 /\ work'.meta = work.meta
        /\ work'.files = work.files /\ UNCHANGED <<index, dir, cache>>
    BY <1>7, <2>1 DEF ListSub, Snapshot
  <2> QED BY <1>r, <2>1, <2>2 DEF StagedInv, DirInv
<1>8. CASE AddList
  <2>1. /\ cmd.step = "addList" /\ cmd'.step \in {"idle", "mkCache"} /\ index'.config = work.config
        /\ index'.meta = index.meta /\ index'.files = index.files /\ UNCHANGED <<work, dir, cache>>
    BY <1>8 DEF AddList, Snapshot, Command
  <2> QED BY <1>r, <2>1 DEF StagedInv
<1>9. CASE MkCache \/ CreateCache \/ Fetch
  <2>1. /\ cmd.step \in {"mkCache", "createCache", "fetch"} /\ cmd'.step \in {"createCache", "fetch", "drop"}
        /\ UNCHANGED <<index, work, dir>> /\ (cmd'.step = "createCache" => cache' = "made")
    BY <1>9 DEF MkCache, CreateCache, Fetch, Command
  <2> QED BY <1>r, <2>1 DEF StagedInv
<1>10. CASE Drop
  <2>1. /\ cmd.step = "drop" /\ cmd'.step = "extract" /\ index'.config = index.config /\ index'.meta = index.meta
        /\ work'.config = work.config /\ work'.meta = work.meta /\ UNCHANGED dir
    BY <1>10 DEF Drop, Snapshot, Command
  <2>2. index.files = work.files
    BY <1>r, <2>1 DEF StagedInv
  <2>3. /\ index'.files = [f \in File |-> IF f \in Patches THEN index.files[f] ELSE Absent]
        /\ work'.files = [f \in File |-> IF f \notin Patches /\ index.files[f] # Absent THEN Absent ELSE work.files[f]]
    BY <1>10 DEF Drop, Snapshot
  <2>4. index'.files = work'.files
    BY <2>2, <2>3
  <2> QED BY <1>r, <2>1, <2>4 DEF StagedInv
<1>11. CASE Extract
  <2>1. /\ cmd.step = "extract" /\ cmd'.step = "move" /\ UNCHANGED <<index, work, dir>>
    BY <1>11 DEF Extract, Command
  <2> QED BY <1>r, <2>1 DEF StagedInv
<1>12. CASE \E f \in File : Move(f)
  <2> PICK f \in File : Move(f)
    BY <1>12
  <2>1. /\ cmd.step = "move" /\ cmd'.step = "move" /\ cmd'.to = cmd.to /\ f \in cmd.todo
        /\ cmd'.todo = cmd.todo \ {f} /\ UNCHANGED <<index, dir>>
        /\ work'.config = work.config /\ work'.meta = work.meta
    BY DEF Move, Command, Snapshot
  <2>2. /\ cmd.to[f] # Absent
        /\ \A g \in File : g # f => work'.files[g] = work.files[g]
    BY <1>r, <2>1 DEF Move, Snapshot, Tree, UnpackInv
  <2> QED BY <1>r, <2>1, <2>2 DEF StagedInv
<1>13. CASE MoveEnds
  <2>1. /\ cmd.step = "move" /\ cmd'.step = "addFiles" /\ cmd'.to = cmd.to /\ UNCHANGED <<index, work, dir>>
    BY <1>13 DEF MoveEnds, Command
  <2> QED BY <1>r, <2>1 DEF StagedInv
<1>14. CASE AddFiles
  <2>1. /\ cmd.step = "addFiles" /\ cmd'.step = "writeMeta" /\ UNCHANGED <<work, dir>>
        /\ index'.config = index.config /\ index'.meta = index.meta
        /\ index'.files = [f \in File |-> IF cmd.to[f] # Absent THEN work.files[f] ELSE index.files[f]]
    BY <1>14 DEF AddFiles, Command, Snapshot
  <2>2. index'.files = work.files
    <3>1. \A f \in File : cmd.to[f] = Absent => index.files[f] = work.files[f]
      BY <1>r, <2>1 DEF StagedInv
    <3>2. work.files = [f \in File |-> work.files[f]]
      BY DEF Snapshot, Tree
    <3> QED BY <2>1, <3>1, <3>2
  <2> QED BY <1>r, <2>1, <2>2 DEF StagedInv
<1>15. CASE WriteMeta
  <2>1. /\ cmd.step = "writeMeta" /\ cmd'.step = "addMeta2" /\ UNCHANGED <<index, dir>>
        /\ work'.config = work.config /\ work'.files = work.files
        /\ work'.meta = [release |-> cmd.to, checksum |-> Subtree(index.files)]
    BY <1>15 DEF WriteMeta, Command, Snapshot
  <2>2. cmd.to \in Release /\ Subtree(index.files) \in Tree
    BY <1>r, <2>1, TreeTypes, SnapshotTypes DEF RouteInv
  <2>3. work'.meta # NoFile
    BY <2>1, <2>2, IntegrateAssumption
  <2>4. dir /\ work.meta # NoFile
    BY <1>r, <2>1 DEF StagedInv, DirInv
  <2> QED BY <1>r, <2>1, <2>3, <2>4 DEF StagedInv
<1>16. CASE AddMeta2
  <2>1. /\ cmd.step = "addMeta2" /\ cmd'.step = "clean" /\ UNCHANGED <<work, dir>>
        /\ index'.config = index.config /\ index'.files = index.files /\ index'.meta = work.meta
    BY <1>16 DEF AddMeta2, Command, Snapshot
  <2> QED BY <1>r, <2>1 DEF StagedInv
<1>17. CASE Clean
  <2>1. /\ cmd.step = "clean" /\ cmd'.step = "idle" /\ cache' = "none" /\ UNCHANGED <<index, work, dir>>
    BY <1>17 DEF Clean, Command
  <2> QED BY <1>r, <2>1 DEF StagedInv
<1> QED BY <1>1, <1>2, <1>3, <1>4, <1>5, <1>6, <1>7, <1>8, <1>9, <1>10, <1>11, <1>12, <1>13,
           <1>14, <1>15, <1>16, <1>17 DEF Steps

(* Where all is settled and no command runs, everything is staged.         *)
LEMMA SettledStaged == DirInv' /\ Settled' /\ cmd' = Idle => StagedInv'
BY DEF DirInv, Settled, StagedInv, ListedOnce, Listed, Idle, CacheSteps, FetchSteps, UnpackSteps

(* So does every step of the program: a failure of an external command     *)
(* finds everything staged, a signal ends the commands-only history.       *)
LEMMA StagedKept == FailsClean /\ IntegrateInv /\ RollbackInv /\ [Next]_vars => StagedInv'
<1> SUFFICES ASSUME FailsClean, IntegrateInv, RollbackInv, [Next]_vars PROVE StagedInv'
  OBVIOUS
<1>0. StagedInv /\ DirInv'
  BY DirKept DEF RollbackInv
<1>1. CASE Starts
  <2>1. /\ UNCHANGED <<head, index, work, dir, cache, past>> /\ cmd = Idle
        /\ \/ cmd'.step = "touchConfig" /\ work.config = NoFile
           \/ cmd'.step = "mkdir" /\ work.config # NoFile
           \/ cmd'.step = "mkCache"
    BY <1>1 DEF Starts, Configure, InitSub, Add, Update, Start
  <2> QED BY <1>0, <2>1 DEF StagedInv, pristine, ListedOnce, Listed, Idle, CacheSteps, FetchSteps, UnpackSteps
<1>2. CASE Steps
  BY <1>2, StagedStep
<1>3. CASE Fail
  <2>1. /\ cmd.step \in {"createCache", "fetch", "drop", "extract", "writeMeta"} /\ cmd'.step = "idle"
        /\ cache' = "none" \/ (cmd.step = "createCache" /\ cache' = cache)
        /\ UNCHANGED <<head, index, work, dir, past>>
    BY <1>3 DEF Fail, FailsClean, Unwind, RemovesCache, FetchSteps, UnpackSteps, Idle
  <2> QED BY <1>0, <2>1 DEF StagedInv, pristine, ListedOnce, Listed, CacheSteps
<1>4. CASE RemoveCache
  <2>1. /\ cmd = Idle /\ cmd' = Idle /\ cache' = "none"
        /\ UNCHANGED <<head, index, work, dir>>
        /\ past' = past \/ Settled'
    BY <1>4 DEF RemoveCache, Since
  <2>2. CASE past' = past
    BY <1>0, <2>1, <2>2 DEF StagedInv, pristine, ListedOnce, Listed, Idle, CacheSteps
  <2>3. CASE Settled'
    BY <1>0, <2>1, <2>3, SettledStaged
  <2> QED BY <2>1, <2>2, <2>3
<1>5. CASE CtrlC \/ Kill \/ (User /\ ~RemoveCache)
  <2> SUFFICES ASSUME pristine' PROVE StagedInv'
    BY DEF StagedInv
  <2>1. cmd' = Idle /\ \E what \in {"signals", "touched"} : past' = Since(what)
    BY <1>5, NoCommandAfter DEF Stops, CtrlC, Kill, User, ResetMerge, Commit, Stage, Edit, RemoveDir
  <2>2. Settled'
    BY <2>1 DEF Since, pristine
  <2> QED BY <1>0, <2>1, <2>2, SettledStaged
<1>6. CASE UNCHANGED vars
  BY <1>0, <1>6 DEF vars, StagedInv, pristine, ListedOnce, Listed
<1> QED BY <1>1, <1>2, <1>3, <1>4, <1>5, <1>6 DEF Next, Stops

-----------------------------------------------------------------------------
(* Theorems.                                                               *)

(* The inductive invariant holds in every state of the program.            *)
THEOREM IntegrateInvariant == Spec => []IntegrateInv
<1>1. Init => IntegrateInv
  <2>1. Init => RouteInv /\ UnpackInv /\ SoundInv
    BY DEF Init, Idle, Nothing, RouteInv, CacheSteps, InitSteps, FetchSteps, UnpackSteps,
           UnpackInv, SoundInv, Listed
  <2> QED BY <2>1, InitTypes DEF IntegrateInv
<1>2. IntegrateInv /\ [Next]_vars => IntegrateInv'
  BY TypesKept, RouteKept, UnpackKept, SoundKept DEF IntegrateInv
<1> QED BY <1>1, <1>2, PTL DEF Spec

(* The files, the index and the commits hold what their types say, the     *)
(* command is always one of the program and at one of its steps.           *)
THEOREM IntegrateTypes == Spec => []TypeOK
<1>1. IntegrateInv => TypeOK
  BY DEF IntegrateInv
<1> QED BY <1>1, IntegrateInvariant, PTL

(* No commit, and no index to be committed, lists the subproject without   *)
(* its metadata, wherever signals stopped the commands before.             *)
THEOREM CommitsSound == Spec => []CommitsAreSound
<1>1. IntegrateInv => CommitsAreSound
  BY DEF IntegrateInv, SoundInv, CommitsAreSound
<1> QED BY <1>1, IntegrateInvariant, PTL

(* "add" and "update" end with the release and nothing else staged, its    *)
(* checksum in the metadata, and the same files on disk.                   *)
THEOREM ReleaseUnpacked == Spec => UnpackExact
<1>1. ASSUME IntegrateInv, Clean
      PROVE  /\ Subtree(index.files) = Subtree(cmd.to)
             /\ index.meta = [release |-> cmd.to, checksum |-> Subtree(cmd.to)] /\ work'.meta = index.meta
             /\ \A f \in File : cmd.to[f] # Absent =>
                   index.files[f] = cmd.to[f] /\ work'.files[f] = cmd.to[f]
  BY <1>1 DEF IntegrateInv, UnpackInv, Clean
<1> QED BY <1>1, IntegrateInvariant, PTL DEF Spec, UnpackExact

(* No step of "add" and "update", and no failure or signal in between,     *)
(* changes an untracked file at a path the release has no file at.         *)
THEOREM UntrackedSpared == Spec => UntrackedKept
<1>1. ASSUME IntegrateInv, [Next]_vars, cmd.op \in {"add", "update"}, NEW f \in File,
             index.files[f] = Absent, work.files[f] # Absent, cmd.to[f] = Absent
      PROVE  work'.files[f] = work.files[f]
  <2>0. /\ work \in Snapshot /\ cmd # Idle /\ work.files \in Tree
    BY <1>1, SnapshotTypes DEF IntegrateInv, TypeOK, Idle
  <2>1. CASE Starts
    BY <2>1 DEF Starts, Configure, InitSub, Add, Update, Start
  <2>2. CASE Stops
    BY <2>0, <2>2 DEF Stops, Fail, CtrlC, Kill, Cut, Snapshot
  <2>3. CASE User
    BY <2>0, <2>3 DEF User, ResetMerge, Commit, Stage, Edit, RemoveCache, RemoveDir
  <2>4. CASE Drop
    BY <1>1, <2>0, <2>4 DEF Drop, Snapshot
  <2>5. CASE \E g \in File : Move(g)
    <3> PICK g \in File : Move(g)
      BY <2>5
    <3>1. g # f
      BY <1>1 DEF Move, IntegrateInv, UnpackInv
    <3> QED BY <2>0, <3>1 DEF Move, Snapshot, Tree
  <2>6. CASE Steps /\ ~Drop /\ ~(\E g \in File : Move(g))
    BY <2>0, <2>6 DEF Steps, TouchConfig, AddConfig, Mkdir, MkdirRefused, TouchMeta, AddMeta, ListSub,
       AddList, MkCache, MkCacheRefused, CreateCache, Fetch, Extract, MoveEnds, AddFiles,
       WriteMeta, AddMeta2, Clean, Snapshot
  <2>7. CASE UNCHANGED vars
    BY <2>7 DEF vars
  <2> QED BY <1>1, <2>1, <2>2, <2>3, <2>4, <2>5, <2>6, <2>7 DEF Next
<1>2. IntegrateInv /\ [Next]_vars =>
        (cmd.op \in {"add", "update"} =>
           \A f \in File : index.files[f] = Absent /\ work.files[f] # Absent /\ cmd.to[f] = Absent =>
                           work'.files[f] = work.files[f])
  BY <1>1
<1> QED BY <1>2, IntegrateInvariant, PTL DEF Spec, UntrackedKept

(* While only commands run, and fail only before they wrote what they are  *)
(* to stage, disk and index differ in the step under way alone, and no     *)
(* repository is left in the cache directory.                              *)
THEOREM RollbackInvariant == FailsClean => (Spec => []RollbackInv)
<1> SUFFICES ASSUME FailsClean PROVE Spec => []RollbackInv
  OBVIOUS
<1>1. Init => RollbackInv
  BY DEF Init, Nothing, Idle, RollbackInv, DirInv, StagedInv, ListedOnce, Listed,
         CacheSteps, FetchSteps, UnpackSteps
<1>2. IntegrateInv /\ RollbackInv /\ [Next]_vars => RollbackInv'
  BY DirKept, StagedKept DEF RollbackInv
<1> QED BY <1>1, <1>2, IntegrateInvariant, PTL DEF Spec

(* After commands, failed ones too, the disk is as the index.              *)
LEMMA StagedWhenIdle ==
  TypeOK /\ RollbackInv /\ pristine /\ cmd = Idle =>
    /\ index = work /\ ListedOnce(work) /\ cache # "repository" /\ (dir <=> work.meta # NoFile)
    /\ head.meta = NoFile => head.files = NoTree
BY DEF TypeOK, RollbackInv, StagedInv, Snapshot, Idle, CacheSteps, FetchSteps, UnpackSteps

(* "git reset --merge" takes back whatever commands did, the failed ones   *)
(* too, and leaves nothing behind that bars the next one, but for the      *)
(* cache directory of a failed git init.                                   *)
THEOREM RollbackAlwaysWorks == FailsClean => (Spec => []RollbackWorks)
<1>1. ASSUME TypeOK, RollbackInv, pristine, cmd = Idle
      PROVE  /\ ResetAllowed /\ ResetWork = head
             /\ cache # "repository" /\ (cache = "none" => (ResetDir <=> head.meta # NoFile))
  <2>1. /\ index = work /\ cache # "repository" /\ (dir <=> work.meta # NoFile)
        /\ head.meta = NoFile => head.files = NoTree
    BY <1>1, StagedWhenIdle
  <2>2. ResetAllowed
    BY <2>1 DEF ResetAllowed, MergeAllowed
  <2>3. head \in Snapshot /\ head.files \in Tree
    BY <1>1, SnapshotTypes DEF TypeOK
  <2>4. [f \in File |-> Merged(head.files[f], index.files[f], work.files[f])] = head.files
    BY <2>1, <2>3 DEF Merged, Tree
  <2>5. ResetWork = head
    BY <2>1, <2>3, <2>4 DEF ResetWork, Snapshot, Merged
  <2>6. cache = "none" => (ResetDir <=> head.meta # NoFile)
    BY <2>1, <2>5 DEF ResetDir
  <2> QED BY <2>1, <2>2, <2>5, <2>6
<1>2. TypeOK /\ RollbackInv => RollbackWorks
  BY <1>1 DEF RollbackWorks
<1> QED BY <1>2, IntegrateTypes, RollbackInvariant, PTL

(* After commands, "update" of a listed subproject is accepted, with --url *)
(* if nothing was integrated so far.                                       *)
THEOREM RetryAlwaysPossible == FailsClean => (Spec => []RetryPossible)
<1>1. TypeOK /\ RollbackInv => RetryPossible
  BY StagedWhenIdle DEF RetryPossible, UpdateAccepted, ListedOnce, Listed, Unstaged
<1> QED BY <1>1, IntegrateTypes, RollbackInvariant, PTL

(* After commands the subproject is listed once if it has its metadata,    *)
(* and not at all otherwise: as long as no git add fails.                  *)
THEOREM AlwaysListedOnce == FailsClean => (Spec => []ListedWithMetadata)
<1>1. TypeOK /\ RollbackInv => ListedWithMetadata
  BY StagedWhenIdle DEF ListedWithMetadata
<1> QED BY <1>1, IntegrateTypes, RollbackInvariant, PTL
=============================================================================
