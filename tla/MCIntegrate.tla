---------------------------- MODULE MCIntegrate ----------------------------
(* Integrate on a small instance: three paths, two releases.               *)
EXTENDS Integrate

CONSTANTS f, g, p, a, b

MCFile == {f, g, p}
MCVal == {a, b}
\* One release lacks files of the other.
MCRelease == {[x \in MCFile |-> IF x = f THEN a ELSE Absent], [x \in MCFile |-> b]}

\* Bounds: commands started, signals, and steps of the user's own.
CONSTANTS MaxStarts, MaxSignals, MaxMishaps
VARIABLES starts, signals, mishaps

counts == <<starts, signals, mishaps>>
MCInit == Init /\ starts = 0 /\ signals = 0 /\ mishaps = 0

Mishap == (\E x \in File, v \in Content : Edit(x, v) /\ work' # work) \/ RemoveDir

Tool ==
  \/ Starts /\ starts < MaxStarts /\ starts' = starts + 1 /\ UNCHANGED <<signals, mishaps>>
  \/ (Steps \/ Fail \/ ResetMerge) /\ UNCHANGED counts
  \/ (CtrlC \/ Kill) /\ signals < MaxSignals /\ signals' = signals + 1 /\ UNCHANGED <<starts, mishaps>>

Others ==
  \/ (Stage \/ Commit \/ RemoveCache) /\ UNCHANGED counts
  \/ Mishap /\ mishaps < MaxMishaps /\ mishaps' = mishaps + 1 /\ UNCHANGED <<starts, signals>>

MCSpec == MCInit /\ [][Tool \/ Others]_<<vars, counts>>
=============================================================================
