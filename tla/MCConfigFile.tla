---------------------------- MODULE MCConfigFile ----------------------------
(* ConfigFile from every well-formed file of a few lines.                  *)
EXTENDS ConfigFile

CONSTANTS InitLines, NoNewline, MaxLines

Plain(S) == {HeaderLine(s, FALSE) : s \in S}

\* A foreign section, the namesake of one of the program's, too.
Lines(S, K) ==
  Plain(S) \cup {HeaderLine(Subtree, TRUE), Comment, KeyLine(Other, 1)}
  \cup {KeyLine(k, v) : k \in K, v \in Value}

\* NoNewline: the last line may end without a newline.
WholeFiles(of, L) ==
  {lines \in UNION {[1 .. n -> L] : n \in 0 .. InitLines} : WellFormed(of, lines)}
Cut(lines) == [lines EXCEPT ![Len(lines)].eol = FALSE]
WithCut(F) == F \cup IF NoNewline THEN {Cut(lines) : lines \in F \ {<<>>}} ELSE {}

MCFiles ==
  (".subpatch" :> WithCut(WholeFiles(".subpatch", Lines({Subprojects, Upstream}, {Path}))))
  @@ (".subproject" :> WithCut(WholeFiles(".subproject", Lines({Subtree, Upstream}, {AppliedIndex, Checksum, ObjectId, Revision, Url}))))

\* Bound: an update with a revision and two without, with equal and with
\* different values.
MCUnpack ==
  {[url |-> 1, revision |-> 2, id |-> 1, sum |-> 2], [url |-> 2, revision |-> NotGiven, id |-> 2, sum |-> 1],
   [url |-> 1, revision |-> NotGiven, id |-> 2, sum |-> 2]}

\* Bound: TLC does not go on from longer files.
Short == Len(file) <= MaxLines
=============================================================================
