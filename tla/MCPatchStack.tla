--------------------------- MODULE MCPatchStack ---------------------------
(* PatchStack on a small instance: two files with two contents each.       *)
EXTENDS PatchStackSeries, TLC

CONSTANTS f, g, a, b

MCFile == {f, g}
MCVal == {a, b}

\* Two releases that differ in the file g; the first one was added.
MCAdded == [x \in MCFile |-> a]
MCRelease == {MCAdded, [x \in MCFile |-> IF x = f THEN a ELSE b]}

Swap(x, u, v) == x :> [old |-> u, new |-> v]

\* A patch for one file and a patch for both that fits on top of the first:
\* they stack in one order, conflict in the other and with themselves.
MCMail == {Swap(f, a, b), Swap(f, b, a) @@ Swap(g, a, b)}

\* Bounds on the steps of the user that TLC explores: one of them may be to
\* apply a file that is not named *.patch.  Edits are of the file
\* that all patches touch.
CONSTANTS MaxMishaps, MaxCommits
VARIABLES mishaps, commits

MCInit == Init /\ head.files = MCAdded /\ mishaps = 0 /\ commits = 0

Other == \E n \in Name \ DotPatch, d \in Mail : ApplyStart(n, d)

Mishap ==
  \/ Other
  \/ \E v \in Val : Edit(f, v) /\ work' # work
  \/ Interrupt
  \/ ChecksumWrite /\ work' # work

MCNext ==
  \/ Mishap /\ mishaps < MaxMishaps /\ mishaps' = mishaps + 1 /\ UNCHANGED commits
  \/ Commit /\ commits < MaxCommits /\ commits' = commits + 1 /\ UNCHANGED mishaps
  \/ ((Subpatch /\ ~Other) \/ Stage \/ ResetMerge \/ ResetHard) /\ UNCHANGED <<mishaps, commits>>

\* Once neither the index nor HEAD is intact nothing is claimed any more:
\* only a sync or a revert to an intact HEAD makes the index intact again.
Claimed == intact \/ headIntact

MCSpec == MCInit /\ [][MCNext]_<<vars, mishaps, commits>>

=============================================================================
