--------------------------- MODULE MCSuperproject ---------------------------
(* Superproject in a few directories.                                      *)
EXTENDS Superproject

\* A repository 1 with two directories: 1/1, which may be a repository too, and
\* 1/2, another filesystem.  The other places may become subprojects.
MCPlace ==
  {<<>>, <<1>>, <<1, 1>>, <<1, 2>>} \cup
  {<<1, 1, 1>>, <<1, 1, 2>>, <<1, 1, 1, 1>>, <<1, 2, 1>>, <<2>>}
MCMount == {<<1, 2>>}

MCArg ==
  {<<>>, <<1>>, <<2>>, <<Up>>, <<1, 1>>, <<1, 2>>, <<2, 1>>, <<Up, 1>>, <<Up, 2>>, <<2, Up, 1>>, <<Up, Up, 2>>}
MCUrl == {<<Up, 2>>}

\* Bound: the directories, repositories and files that are there first.
MCInit ==
  /\ Init
  /\ dirs = {<<>>, <<1>>, <<1, 1>>, <<1, 2>>}
  /\ repos \in {{<<1>>}, {<<1>>, <<1, 1>>}}
  /\ \A d \in Place : conf[d] # NoFile => d \in {<<1>>, <<1, 1>>}

MCSpec == MCInit /\ [][Next]_vars

\* Bound: TLC does not go on from a longer list, or more subprojects.
CONSTANT MaxSubs
Few ==
  /\ Cardinality({p \in Place : meta[p] # NoFile}) <= MaxSubs
  /\ \A p \in Place : conf[p] # NoFile => Len(conf[p]) <= MaxSubs
=============================================================================
