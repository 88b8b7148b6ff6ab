---------------------------- MODULE PatchSeries ----------------------------
(***************************************************************************)
(* What the patch commands of subpatch promise, without git's three trees  *)
(* and without the steps of a command: a subproject is a base tree and a   *)
(* series of patches over it, of which a lower part is applied.  Only the  *)
(* top of that part is pushed, popped or rewritten, and the whole can be   *)
(* saved by a commit and brought back.                                     *)
(***************************************************************************)
EXTENDS Git, Integers

CONSTANTS Name, NoPatch, Release

VARIABLES
  base,     \* the tree the patches start from
  series,   \* the patch of each name, or NoPatch
  on,       \* the names of the applied patches
  saved     \* base, series and on in the last commit

vars == <<base, series, on, saved>>

All == {n \in Name : series[n] # NoPatch}

\* The applied patches come before the others.
LowerPart(S) == S \subseteq All /\ \A n \in S, m \in All \ S : n < m

Top(n) == n \in on /\ \A m \in on : m <= n

Init ==
  /\ base \in Release /\ series = [n \in Name |-> NoPatch] /\ on = {}
  /\ saved = <<base, series, on>>

\* A new patch goes on top of a series that is applied as a whole.
New ==
  /\ on = All
  /\ \E n \in Name, d \in Diff :
       /\ \A m \in All : m < n
       /\ series' = [series EXCEPT ![n] = d] /\ on' = on \cup {n}
  /\ UNCHANGED <<base, saved>>

\* One patch or all that can be popped or pushed.
Move ==
  /\ \E S \in SUBSET All :
       /\ LowerPart(S) /\ on' = S
       /\ \/ S = {} \/ S = All
          \/ \E n \in All : S = on \cup {n} \/ S = on \ {n}
  /\ UNCHANGED <<base, series, saved>>

Rewrite ==
  /\ \E n \in Name, d \in Diff : Top(n) /\ series' = [series EXCEPT ![n] = d]
  /\ UNCHANGED <<base, on, saved>>

\* A new release replaces the base only below a series that is popped.
Rebase ==
  /\ on = {} /\ base' \in Release
  /\ UNCHANGED <<series, on, saved>>

Save == saved' = <<base, series, on>> /\ UNCHANGED <<base, series, on>>

Revert == <<base', series', on'>> = saved /\ UNCHANGED saved

Next == New \/ Move \/ Rewrite \/ Rebase \/ Save \/ Revert

Spec == Init /\ [][Next]_vars
=============================================================================
