-------------------------------- MODULE Git --------------------------------
(***************************************************************************)
(* What subpatch uses of git: file trees, diffs between them, the patch    *)
(* application of "git apply" and the three-way rule of                    *)
(* "git reset --merge".  A tree maps every path of a subproject to its     *)
(* contents; a path without a file has the contents Absent.                *)
(***************************************************************************)
CONSTANTS
  File,    \* paths of a subtree (or disjoint regions of them)
  Val,     \* contents of a file
  Absent   \* "there is no file at this path"

ASSUME AbsentAssumption == Absent \notin Val

Content == Val \cup {Absent}
Tree == [File -> Content]

-----------------------------------------------------------------------------
(* A diff maps each path it touches to the contents it removes and adds.   *)
Hunk == {h \in [old : Content, new : Content] : h.old # h.new}
Diff == UNION {[S -> Hunk] : S \in SUBSET File}

\* Mutation: unchanged paths get a hunk too.
DiffOfAll(t, u) == [f \in File |-> [old |-> t[f], new |-> u[f]]]

DiffOf(t, u) == [f \in {g \in File : t[g] # u[g]} |-> [old |-> t[f], new |-> u[f]]]

\* Mutation: the diff is not reversed.
NotReversed(d) == d

Reversed(d) == [f \in DOMAIN d |-> [old |-> d[f].new, new |-> d[f].old]]

\* Every touched path holds what the diff expects there.
Applies(d, t) == \A f \in DOMAIN d : t[f] = d[f].old

Patched(d, t) == [f \in File |-> IF f \in DOMAIN d THEN d[f].new ELSE t[f]]

-----------------------------------------------------------------------------
(* "git reset --merge" at one path: the contents in HEAD, the index and    *)
(* the worktree.  An unstaged change of an otherwise unchanged path is     *)
(* kept, a staged change is reverted in both places, and a path with both  *)
(* kinds of change makes git refuse the whole reset.                       *)
MergeAllowed(h, i, w, absent) == i = h \/ w = i \/ w = absent
Merged(h, i, w) == IF i = h THEN w ELSE h
=============================================================================
