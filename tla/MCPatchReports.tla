-------------------------- MODULE MCPatchReports --------------------------
(***************************************************************************)
(* What the tests say of "sync" after a "push" and the docs of "pop" after *)
(* an "apply", next to what the code does.                                 *)
(***************************************************************************)
EXTENDS MCPatchStack

\* The command that has just ended, when it is a "pop", "push" or "apply".
VARIABLE last

ReportInit == MCInit /\ last = Idle
ReportNext == MCNext /\ last' = IF MoveAdd \/ ApplyAdd THEN cmd ELSE Idle
ReportSpec == ReportInit /\ [][ReportNext]_<<vars, mishaps, commits, last>>

(* "Running 'sync' after a fresh 'push' does not change the diff" of the   *)
(* patch file.                                                             *)
SyncKeepsFreshPush ==
  [][last.op = "push" /\ cmd'.op = "sync" => work'.patches = work.patches]_<<vars, last>>

(* After "apply" there is "one additional patch", and it is applied: a     *)
(* "pop" that follows reverts it.                                          *)
PopTakesBackApply ==
  [][last.op = "apply" /\ cmd'.op = "pop" => last.name \in cmd'.todo]_<<vars, last>>
=============================================================================
