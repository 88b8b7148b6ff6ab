------------------------- MODULE PatchStackSeries -------------------------
(***************************************************************************)
(* The patch commands implement the abstract series of patches.            *)
(***************************************************************************)
EXTENDS PatchStack

\* The files of the directory "patches" that are in the series.
Listed(dir) == [n \in DotPatch |-> dir[n]]

(* The abstract series of patches, seen in the staged subproject.          *)
Series == INSTANCE PatchSeries WITH
  Name   <- DotPatch,
  base   <- index.meta.checksum,
  series <- Listed(index.patches),
  on     <- Applied(index),
  saved  <- <<head.meta.checksum, Listed(head.patches), Applied(head)>>

(* A command, whatever its steps, failures and interrupts, has on the      *)
(* staged subproject the effect of one step of the abstract series or none *)
(* at all, as long as the subproject is the work of the tool and only      *)
(* files named *.patch are applied to it.                                  *)
ImplementsSeries == Series!Init /\ [][intact /\ intact' => Series!Next]_(Series!vars)

-----------------------------------------------------------------------------
\* How far a pop or push goes from where the series is.
Targets == {-1, Count(index.patches) - 1, AppliedIndex(index) - 1, AppliedIndex(index) + 1}

(* What a command that is under way will stage: a pop or push one patch or *)
(* all of them, a sync the text of a patch that is there.                  *)
SeriesInv ==
  intact =>
    /\ cmd.op \in {"pop", "push"} => cmd.to \in Targets
    /\ cmd.op = "sync" => /\ cmd.name \in Listing(index.patches) /\ work.meta = index.meta
                          /\ \A n \in Name \ {cmd.name} : work.patches[n] = index.patches[n]
=============================================================================
