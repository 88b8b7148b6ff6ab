----------------------------- MODULE ConfigFile -----------------------------
(***************************************************************************)
(* The files .subpatch and .subproject, which the user may edit too, in    *)
(* the format of git's config files, and the line filters that change      *)
(* them.  A filter reads a file line by line and keeps what it does not    *)
(* have to change, comments and unknown sections included.                 *)
(*                                                                         *)
(* Names of sections, keys and values are numbers in their sort order.     *)
(***************************************************************************)
EXTENDS Naturals, SequencesExt

CONSTANTS
  Value,     \* values of keys
  Garbled,   \* what is read from a line that another one was written into
  NotGiven,  \* no revision
  Unpack,    \* what an unpack records
  Files      \* files to start from, by name

ASSUME ValueAssumption == Value \subseteq Nat /\ Garbled \in Nat \ Value

ASSUME UnpackAssumption ==
  /\ NotGiven \notin Value
  /\ Unpack \subseteq [url : Value, revision : Value \cup {NotGiven}, id : Value, sum : Value]

VARIABLES
  name,   \* which of the two files it is
  file    \* its lines

vars == <<name, file>>

\* The sections and keys the program writes; Other stands for any further key.
Subprojects == 1
Subtree == 2
Upstream == 3
Section == {Subprojects, Subtree, Upstream}

AppliedIndex == 1
Checksum == 2
Other == 3
ObjectId == 4
Path == 5
Revision == 6
Url == 7
Key == {AppliedIndex, Checksum, Other, ObjectId, Path, Revision, Url}

-----------------------------------------------------------------------------
(* Lines.  "sub" tells whether a header has a subsection, "eol" whether    *)
(* the line ends with a newline: the last line of a file may not.          *)
HeaderLine(s, sub) == [kind |-> "header", section |-> s, sub |-> sub, eol |-> TRUE]
KeyLine(k, v) == [kind |-> "key", key |-> k, value |-> v, eol |-> TRUE]
Comment == [kind |-> "comment", eol |-> TRUE]

Line ==
  [kind : {"header"}, section : Nat, sub : BOOLEAN, eol : BOOLEAN]
  \cup [kind : {"key"}, key : Key, value : Value \cup {Garbled}, eol : BOOLEAN]
  \cup [kind : {"comment"}, eol : BOOLEAN]

IsPlain(line) == line.kind = "header" /\ ~line.sub
IsHeader(line, s) == IsPlain(line) /\ line.section = s
IsKey(line, k) == line.kind = "key" /\ line.key = k

\* Mutation: a header of the section does not end it.
InsideNext(lines, s) ==
  LET in[i \in 0 .. Len(lines)] ==
        IF i = 0 THEN FALSE
        ELSE in[i - 1] \/ IsHeader(lines[i], s)
  IN in

\* After which lines the filters are in the section: any header ends it.
Inside(lines, s) ==
  LET in[i \in 0 .. Len(lines)] ==
        IF i = 0 THEN FALSE
        ELSE IF lines[i].kind = "header" THEN ~in[i - 1] /\ IsHeader(lines[i], s)
        ELSE in[i - 1]
  IN in

-----------------------------------------------------------------------------
(* The filters.  Each passes on, for each line, a few lines or none.       *)
\* Mutation: an equal header does not count as found.
AddSectionAgain(lines, s) ==
  LET at == {i \in DOMAIN lines : IsPlain(lines[i]) /\ lines[i].section > s}
  IN IF at = {} THEN Append(lines, HeaderLine(s, FALSE))
     ELSE InsertAt(lines, Min(at), HeaderLine(s, FALSE))

\* The section is put before the first one with a bigger name, unless it is
\* found before that.
AddSection(lines, s) ==
  LET at == {i \in DOMAIN lines : IsPlain(lines[i]) /\ lines[i].section >= s}
      new(i) == IF i = Min(at) /\ ~IsHeader(lines[i], s) THEN <<HeaderLine(s, FALSE)>> ELSE <<>>
  IN IF at = {} THEN Append(lines, HeaderLine(s, FALSE))
     ELSE FlattenSeq([i \in DOMAIN lines |-> new(i) \o <<lines[i]>>])

\* Mutation: later lines of the key are kept.
SetFirstKey(lines, s, k, v, append) ==
  LET in == Inside(lines, s)
      at == {i \in DOMAIN lines : in[i - 1] /\ IsKey(lines[i], k)}
  IN IF at = {} THEN InsertAt(lines, 1 + Min({i \in DOMAIN lines : IsHeader(lines[i], s)}), KeyLine(k, v))
     ELSE IF append THEN InsertAt(lines, Min(at), KeyLine(k, v))
     ELSE [lines EXCEPT ![Min(at)] = KeyLine(k, v)]

\* The new line comes at the first place "at": the line of the key, a bigger
\* key or the end of the section.  Lines of the key are replaced or, with
\* "append", kept.
SetKey(lines, s, k, v, append) ==
  LET in == Inside(lines, s)
      at == {i \in DOMAIN lines : in[i - 1] /\ (lines[i].kind = "key" => lines[i].key >= k)
                                            /\ lines[i].kind # "comment"}
      new(i) == IF i = Min(at) THEN <<KeyLine(k, v)>> ELSE <<>>
      out(i) ==
        CASE i \notin at                 -> <<lines[i]>>
          [] i \in at /\ ~IsKey(lines[i], k) -> new(i) \o <<lines[i]>>
          [] i \in at /\ IsKey(lines[i], k) ->
               IF ~append THEN new(i)
               ELSE IF lines[i].value > v THEN new(i) \o <<lines[i]>>
               ELSE <<lines[i]>> \o new(i)
  IN FlattenSeq([i \in DOMAIN lines |-> out(i)])
     \o (IF at = {} /\ in[Len(lines)] THEN <<KeyLine(k, v)>> ELSE <<>>)

\* Mutation: comments of the section are not passed on.
DropKeyAndComments(lines, s, k) ==
  LET in == Inside(lines, s)
  IN FlattenSeq([i \in DOMAIN lines |->
       IF in[i - 1] /\ (IsKey(lines[i], k) \/ lines[i].kind = "comment") THEN <<>> ELSE <<lines[i]>>])

DropKey(lines, s, k) ==
  LET in == Inside(lines, s)
  IN FlattenSeq([i \in DOMAIN lines |->
       IF in[i - 1] /\ IsKey(lines[i], k) THEN <<>> ELSE <<lines[i]>>])

\* Mutation: the header is dropped whatever follows.
DropHeader(lines, s) == SelectSeq(lines, LAMBDA line : ~IsHeader(line, s))

\* The header is held back until the first key of the section, past comments.
DropSectionIfEmpty(lines, s) ==
  LET in == Inside(lines, s)
      entry(i) == ~in[i - 1] /\ in[i]
      first(i) ==
        LET h == Max({j \in 1 .. i : entry(j)})
        IN \A j \in h + 1 .. i - 1 : lines[j].kind # "key"
  IN FlattenSeq([i \in DOMAIN lines |->
       IF entry(i) THEN <<>>
       ELSE IF in[i - 1] /\ lines[i].kind = "key" /\ first(i)
            THEN <<lines[Max({j \in 1 .. i : entry(j)})], lines[i]>>
       ELSE <<lines[i]>>])

-----------------------------------------------------------------------------
(* Writing the lines back joins a line without newline with the next one;  *)
(* the file is read again as the first of the two.                         *)
Joined(line, next) ==
  IF line.kind = "key" THEN [line EXCEPT !.value = Garbled, !.eol = next.eol]
                       ELSE [line EXCEPT !.eol = next.eol]

Written(lines) ==
  LET open == {i \in 1 .. Len(lines) - 1 : ~lines[i].eol}
  IN IF open = {} THEN lines
     ELSE LET i == Min(open)
          IN SubSeq(lines, 1, i - 1) \o <<Joined(lines[i], lines[i + 1])>>
             \o SubSeq(lines, i + 2, Len(lines))

-----------------------------------------------------------------------------
(* The writers.                                                            *)
Listed(lines, v) == SetKey(AddSection(lines, Subprojects), Subprojects, Path, v, TRUE)

\* Mutation: the value is added to the ones that are there.
SetAppends(lines, k, v) == SetKey(AddSection(lines, Subtree), Subtree, k, v, TRUE)

Set(lines, k, v) == SetKey(AddSection(lines, Subtree), Subtree, k, v, FALSE)

SetUpstream(lines, k, v) == SetKey(lines, Upstream, k, v, FALSE)

SetForUnpack(lines, r) ==
  LET named == SetUpstream(AddSection(lines, Upstream), Url, r.url)
      at == IF r.revision = NotGiven THEN named ELSE SetUpstream(named, Revision, r.revision)
  IN SetUpstream(Set(at, Checksum, r.sum), ObjectId, r.id)

DropIndex(lines) == DropSectionIfEmpty(DropKey(lines, Subtree, AppliedIndex), Subtree)

Write(of, lines) ==
  /\ name = of
  /\ file' = Written(lines) /\ UNCHANGED name

config_add_subproject(v) == Write(".subpatch", Listed(file, v))
metadata_set_for_unpack(r) == Write(".subproject", SetForUnpack(file, r))
metadata_set_applied_index(v) == Write(".subproject", Set(file, AppliedIndex, v))
metadata_set_subtree_checksum(v) == Write(".subproject", Set(file, Checksum, v))
metadata_drop_applied_index == Write(".subproject", DropIndex(file))

Only(lines, X) == FlattenSeq([i \in DOMAIN lines |-> IF lines[i] \in X THEN <<lines[i]>> ELSE <<>>])

KeyLines(k) == {line \in Line : IsKey(line, k)}

Read(lines, k) ==
  LET found == Only(lines, KeyLines(k))
  IN IF found = <<>> THEN {} ELSE {Last(found).value}

\* The revision of an unpack that is given none: update takes the one it reads.
Inputs == {r \in Unpack : r.revision = NotGiven => Read(file, Revision) = {}}

Init == name \in DOMAIN Files /\ file \in Files[name]

Next ==
  \/ \E v \in Value : config_add_subproject(v)
  \/ \E r \in Inputs : metadata_set_for_unpack(r)
  \/ \E v \in Value : metadata_set_applied_index(v)
  \/ \E v \in Value : metadata_set_subtree_checksum(v)
  \/ metadata_drop_applied_index

Spec == Init /\ [][Next]_vars

-----------------------------------------------------------------------------
(* Reading.  The program takes the last line of a key, in whatever section *)
(* it is; git assigns a key to the section above it.                       *)
\* parse_config takes every section that has a header for [subprojects].
PathsRead(lines) ==
  {lines[i].value : i \in {j \in DOMAIN lines :
     IsKey(lines[j], Path) /\ \E h \in 1 .. j : lines[h].kind = "header"}}

\* The last header above line i, those of the sections in S left out; a
\* comment if there is none.
Above(lines, i, S) ==
  LET at == {j \in 1 .. i - 1 : lines[j].kind = "header" /\ \A s \in S : ~IsHeader(lines[j], s)}
  IN IF at = {} THEN Comment ELSE lines[Max(at)]

ValuesOf(lines, s, sub, k) ==
  LET below(h) == h.kind = "header" /\ h.section = s /\ h.sub = sub
  IN FlattenSeq([i \in DOMAIN lines |->
       IF IsKey(lines[i], k) /\ below(Above(lines, i, {})) THEN <<lines[i].value>> ELSE <<>>])

\* Files the filters are made for: keys stand below a header, the program's
\* keys in their own section, and a section that the program writes into does
\* not follow itself, not even when [subtree] is dropped.
Home(k) ==
  IF k = Path THEN Subprojects ELSE IF k \in {ObjectId, Revision, Url} THEN Upstream ELSE Subtree

Owned(of) == IF of = ".subpatch" THEN {Subprojects} ELSE {Subtree, Upstream}

AtHome(h, line) ==
  line.kind = "key" => h.kind = "header" /\ (line.key # Other => IsHeader(h, Home(line.key)))

Apart(of, h, line) == \A s \in Owned(of) : IsHeader(line, s) => ~IsHeader(h, s)

WellFormed(of, lines) ==
  \A i \in DOMAIN lines :
    /\ AtHome(Above(lines, i, {}), lines[i])
    /\ \A S \in SUBSET (Owned(of) \cap {Subtree}) : Apart(of, Above(lines, i, S), lines[i])

\* Lines that are whole: as they are read from a file that ends with a newline.
Whole == {line \in Line : line.eol /\ (line.kind = "key" => line.value \in Value)}

-----------------------------------------------------------------------------
TypeOK == name \in DOMAIN Files /\ file \in Seq(Whole) /\ WellFormed(name, file)

(* What a command writes into a file, the next command reads: a value that *)
(* is set is the one read, a dropped one reads as not there and an added   *)
(* path is in the list.  An unpack without a revision leaves what is read. *)
ReadsBack ==
  [][/\ \A v \in Value : config_add_subproject(v) => v \in PathsRead(file')
     /\ \A r \in Unpack : metadata_set_for_unpack(r) =>
          /\ Read(file', Url) = {r.url}
          /\ Read(file', ObjectId) = {r.id}
          /\ Read(file', Checksum) = {r.sum}
          /\ Read(file', Revision) =
               IF r.revision = NotGiven THEN Read(file, Revision) ELSE {r.revision}
     /\ \A v \in Value : metadata_set_applied_index(v) => Read(file', AppliedIndex) = {v}
     /\ \A v \in Value : metadata_set_subtree_checksum(v) => Read(file', Checksum) = {v}
     /\ metadata_drop_applied_index => Read(file', AppliedIndex) = {}]_vars

(* The lines a writer is not about - comments, keys of the user, keys of   *)
(* other sections - stay in the file, in their order.                      *)
Unrelated(lines, K) == Only(lines, {line \in Line : line.kind # "header" /\ \A k \in K : ~IsKey(line, k)})

UnpackKeys(r) ==
  {Url, ObjectId, Checksum} \cup (IF r.revision = NotGiven THEN {} ELSE {Revision})

OtherLinesKept ==
  [][LET about(K) == Unrelated(file', K) = Unrelated(file, K)
     IN /\ \A v \in Value : config_add_subproject(v) => about({Path})
        /\ \A r \in Unpack : metadata_set_for_unpack(r) => about(UnpackKeys(r))
        /\ \A v \in Value : metadata_set_subtree_checksum(v) => about({Checksum})
        /\ metadata_drop_applied_index \/ (\E v \in Value : metadata_set_applied_index(v)) =>
             about({AppliedIndex})]_vars

(* A file with each section once and in order, as all files are that only  *)
(* subpatch has written, stays one.                                        *)
Sorted(lines) ==
  \A i, j \in DOMAIN lines : i < j /\ IsPlain(lines[i]) /\ IsPlain(lines[j]) =>
    lines[i].section < lines[j].section

SectionsStaySorted == [][Sorted(file) => Sorted(file')]_vars

(* Writing the same again leaves the file alone: "update" to the same      *)
(* release shows no change in git.                                         *)
SetTwiceIsOnce ==
  name = ".subproject" =>
    /\ \A v \in Value :
         Set(Set(file, AppliedIndex, v), AppliedIndex, v) = Set(file, AppliedIndex, v)
    /\ \A r \in Unpack : SetForUnpack(SetForUnpack(file, r), r) = SetForUnpack(file, r)

(* "pop" and then "push" of the top patch leave .subproject as it was:     *)
(* setting appliedIndex and dropping it again brings the same file back.   *)
(* (A comment between the header and its first key is moved above the      *)
(* header, so such files are left out.)                                    *)
KeyFollows(lines, i) == i < Len(lines) /\ lines[i + 1].kind = "key"

DropUndoesSet ==
  (/\ name = ".subproject" /\ Read(file, AppliedIndex) = {}
   /\ \A i \in DOMAIN file : IsHeader(file[i], Subtree) => KeyFollows(file, i))
  => \A v \in Value : DropIndex(Set(file, AppliedIndex, v)) = file

\* The program's keys in their sections, and the user's key in each section.
SlotOf(k) == <<Home(k), FALSE, k>>

Slots ==
  {SlotOf(k) : k \in Key \ {Other}}
  \cup {<<s, FALSE, Other>> : s \in Section} \cup {<<Subtree, TRUE, Other>>}

(* Each writer changes the values it is about and no others, as git reads  *)
(* the file.                                                               *)
Map == INSTANCE ConfigMap WITH
  Slot <- Slots,
  Together <- {{SlotOf(AppliedIndex)}, {SlotOf(Checksum)}}
              \cup {{SlotOf(k) : k \in UnpackKeys(r)} : r \in Unpack},
  Multi <- {SlotOf(Path)},
  Optional <- {SlotOf(AppliedIndex)},
  entry <- [x \in Slots |-> ValuesOf(file, x[1], x[2], x[3])]

ImplementsMap == Map!Spec
=============================================================================
