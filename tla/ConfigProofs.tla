---------------------------- MODULE ConfigProofs ----------------------------
(***************************************************************************)
(* Proofs about ConfigFile: what the writers of .subpatch and .subproject  *)
(* leave in a file, for every file of whole lines in which each key stands *)
(* in its section.                                                         *)
(*                                                                         *)
(* A filter passes a file on line by line.  The proofs go the same way:    *)
(* what is passed on up to line i, and what is said of it - the header it  *)
(* ends below, its lines of some kind, its values - follows from what was  *)
(* passed on before and from line i.                                       *)
(*                                                                         *)
(* That a second write undoes or repeats the first is proved from the      *)
(* place where the first one put its line: Leads for the header, Ahead     *)
(* for the key.                                                            *)
(***************************************************************************)
EXTENDS ConfigFile, SequenceTheorems, Induction

-----------------------------------------------------------------------------
(* Sequences.                                                              *)

(* A function on 1 .. n is a sequence.                                     *)
LEMMA FunctionIsSeq ==
  ASSUME NEW S, NEW n \in Nat, NEW s \in [1 .. n -> S]
  PROVE  s \in Seq(S) /\ Len(s) = n
<1>1. s \in Seq(S)
  BY SeqDef
<1>2. Len(s) \in Nat /\ DOMAIN s = 1 .. Len(s) /\ DOMAIN s = 1 .. n
  BY <1>1, LenProperties
<1> QED BY <1>1, <1>2

(* A sequence and one more element.                                        *)
LEMMA AppendFacts ==
  ASSUME NEW S, NEW s \in Seq(S), NEW x \in S
  PROVE  /\ Append(s, x) \in Seq(S) /\ Len(s) \in Nat /\ Len(Append(s, x)) = Len(s) + 1
         /\ DOMAIN s = 1 .. Len(s) /\ DOMAIN Append(s, x) = 1 .. Len(s) + 1
         /\ \A i \in 1 .. Len(s) : Append(s, x)[i] = s[i]
         /\ Append(s, x)[Len(s) + 1] = x
<1>1. Len(s) \in Nat /\ DOMAIN s = 1 .. Len(s)
  BY LenProperties
<1>2. Append(s, x) \in Seq(S) /\ Len(Append(s, x)) = Len(s) + 1
  BY AppendProperties
<1>3. DOMAIN Append(s, x) = 1 .. Len(s) + 1
  BY <1>2, LenProperties
<1>4. \A i \in 1 .. Len(s) : Append(s, x)[i] = s[i]
  BY AppendProperties
<1>5. Append(s, x)[Len(s) + 1] = x
  BY AppendProperties
<1> QED BY <1>1, <1>2, <1>3, <1>4, <1>5

(* What short sequences add to a longer one.                               *)
LEMMA ConcatShort ==
  ASSUME NEW S, NEW s \in Seq(S)
  PROVE  /\ s \o <<>> = s
         /\ \A x \in S : s \o <<x>> = Append(s, x)
         /\ \A x, y \in S : s \o <<x, y>> = Append(Append(s, x), y)
         /\ \A x, y \in S : <<x>> \o <<y>> = <<x, y>>
<1>1. s \o <<>> = s
  BY ConcatEmptySeq
<1>2. \A x \in S : s \o <<x>> = Append(s, x)
  BY AppendIsConcat
<1>3. ASSUME NEW x \in S, NEW y \in S
      PROVE  s \o <<x, y>> = Append(Append(s, x), y) /\ <<x>> \o <<y>> = <<x, y>>
  <2>1. <<x>> \in Seq(S) /\ <<y>> \in Seq(S)
    OBVIOUS
  <2>2. <<x>> \o <<y>> = <<x, y>>
    <3>1. <<x>> \o <<y>> = Append(<<x>>, y)
      BY <2>1, AppendIsConcat
    <3>2. Append(<<x>>, y) \in Seq(S) /\ Len(Append(<<x>>, y)) = 2
          /\ Append(<<x>>, y)[1] = x /\ Append(<<x>>, y)[2] = y
      BY <2>1, AppendFacts
    <3>3. <<x, y>> \in Seq(S) /\ Len(<<x, y>>) = 2 /\ <<x, y>>[1] = x /\ <<x, y>>[2] = y
      OBVIOUS
    <3>4. Append(<<x>>, y) = <<x, y>>
      <4> DEFINE a == Append(<<x>>, y)
                 b == <<x, y>>
      <4>1. \A i \in 1 .. 2 : a[i] = b[i]
        <5> HIDE DEF a, b
        <5> QED BY <3>2, <3>3 DEF a, b
      <4> HIDE DEF a, b
      <4> QED BY <3>2, <3>3, <4>1, SeqEqual DEF a, b
    <3> QED BY <3>1, <3>4
  <2>3. Append(s, x) \in Seq(S)
    BY AppendFacts
  <2>4. Append(Append(s, x), y) = (s \o <<x>>) \o <<y>>
    BY <2>3, AppendIsConcat
  <2>5. (s \o <<x>>) \o <<y>> = s \o (<<x>> \o <<y>>)
    BY <2>1, ConcatAssociative
  <2> QED BY <2>2, <2>4, <2>5
<1> QED BY <1>1, <1>2, <1>3

\* f[i] is what the first i of n sequences make together.
Grows(f, ss, n, S) ==
  f \in [0 .. n -> Seq(S)] /\ f[0] = <<>> /\ \A i \in 1 .. n : f[i] = f[i - 1] \o ss[i]

(* FlattenSeq is the end of such growth.                                   *)
LEMMA FlattenGrows ==
  ASSUME NEW S, NEW n \in Nat, NEW ss \in [1 .. n -> Seq(S)]
  PROVE  \E f : Grows(f, ss, n, S) /\ FlattenSeq(ss) = f[n]
<1> DEFINE Q == Seq(S)
           g == [p \in (1 .. n) \X Q |-> p[2] \o ss[p[1]]]
           def(h) == [i \in 1 .. Len(ss) |-> IF i = 1 THEN ss[i] ELSE h[i - 1] \o ss[i]]
           flat == CHOOSE h : h = def(h)
<1>1. Len(ss) = n /\ ss \in Seq(Q) /\ \A i \in 1 .. n : ss[i] \in Q
  <2> HIDE DEF Q
  <2> QED BY FunctionIsSeq DEF Q
<1>2. FlattenSeq(ss) = IF n = 0 THEN ss ELSE flat[n]
  BY <1>1 DEF FlattenSeq
<1>3. \A s, t \in Q : s \o t \in Q
  BY ConcatProperties
<1>4. g \in [(1 .. n) \X Q -> Q]
  <2> HIDE DEF Q
  <2> QED BY <1>1, <1>3
<1>5. <<>> \in Q
  OBVIOUS
<1>6. PICK f : Solves(f, n, Q, <<>>, g)
  <2> HIDE DEF g, Q
  <2> QED BY <1>1, <1>4, <1>5, Recursion
<1>7. f \in [0 .. n -> Q] /\ f[0] = <<>>
  <2> HIDE DEF g, Q
  <2> QED BY <1>6 DEF Solves
<1>8. ASSUME NEW i \in 1 .. n PROVE f[i] = f[i - 1] \o ss[i]
  <2> HIDE DEF Q
  <2>1. i - 1 \in 0 .. n
    BY <1>1
  <2>2. <<i, f[i - 1]>> \in (1 .. n) \X Q
    BY <1>7, <2>1
  <2> QED BY <1>6, <2>2 DEF Solves
<1>9. Grows(f, ss, n, S)
  BY <1>7, <1>8 DEF Grows
<1>10. CASE n = 0
  <2>1. ss = <<>>
    BY <1>1, <1>10, EmptySeq
  <2> QED BY <1>2, <1>7, <1>9, <1>10, <2>1
<1>11. CASE n # 0
  <2> DEFINE h == [i \in 1 .. n |-> f[i]]
  <2>1. h = def(h)
    <3>1. ASSUME NEW i \in 1 .. n PROVE f[i] = IF i = 1 THEN ss[i] ELSE h[i - 1] \o ss[i]
      <4>1. CASE i = 1
        <5>1. f[1] = <<>> \o ss[1]
          <6>1. i - 1 = 0
            BY <4>1
          <6> QED BY <1>7, <1>8, <4>1, <6>1
        <5>2. ss[1] \in Seq(S)
          BY <1>1, <4>1
        <5>3. <<>> \o ss[1] = ss[1]
          BY <5>2, ConcatEmptySeq
        <5> QED BY <4>1, <5>1, <5>3
      <4>2. CASE i # 1
        <5>1. i - 1 \in 1 .. n
          BY <1>1, <4>2
        <5> QED BY <1>8, <4>2, <5>1
      <4> QED BY <4>1, <4>2
    <3> QED BY <1>1, <3>1
  <2>2. flat = def(flat)
    <3> HIDE DEF def, h
    <3> QED BY <2>1
  <2> HIDE DEF flat
  <2>3. \A i \in 1 .. n : flat[i] = IF i = 1 THEN ss[i] ELSE flat[i - 1] \o ss[i]
    BY <1>1, <2>2
  <2> DEFINE T == {i \in 0 .. n : i = 0 \/ flat[i] = f[i]}
  <2>4. ASSUME NEW i \in 1 .. n, i - 1 \in T PROVE i \in T
    <3>1. CASE i = 1
      <4>1. f[1] = <<>> \o ss[1]
        <5>1. i - 1 = 0
          BY <3>1
        <5> QED BY <1>7, <1>8, <3>1, <5>1
      <4>2. ss[1] \in Seq(S)
        BY <1>1, <3>1
      <4>3. <<>> \o ss[1] = ss[1]
        BY <4>2, ConcatEmptySeq
      <4> QED BY <1>1, <2>3, <3>1, <4>1, <4>3
    <3>2. CASE i # 1
      <4>1. flat[i - 1] = f[i - 1]
        BY <1>1, <2>4, <3>2
      <4>2. flat[i] = f[i]
        <5> HIDE DEF T
        <5> QED BY <1>8, <2>3, <3>2, <4>1
      <4> QED BY <4>2
    <3> QED BY <3>1, <3>2
  <2>5. Climbs(T, n)
    <3>1. 0 \in T
      BY <1>1
    <3> HIDE DEF T
    <3> QED BY <2>4, <3>1 DEF Climbs
  <2>6. n \in T
    <3> HIDE DEF T
    <3> QED BY <1>1, <2>5, Upwards
  <2> QED BY <1>2, <1>9, <1>11, <2>6
<1> QED BY <1>10, <1>11

(* Flattening goes element by element.                                     *)
LEMMA FlattenAppend ==
  ASSUME NEW S, NEW n \in Nat, NEW ss \in [1 .. n -> Seq(S)], NEW tt \in [1 .. n + 1 -> Seq(S)],
         \A i \in 1 .. n : tt[i] = ss[i]
  PROVE  /\ FlattenSeq(ss) \in Seq(S) /\ (n = 0 => FlattenSeq(ss) = <<>>)
         /\ FlattenSeq(tt) = FlattenSeq(ss) \o tt[n + 1]
<1>1. PICK f : Grows(f, ss, n, S) /\ FlattenSeq(ss) = f[n]
  BY FlattenGrows
<1>2. PICK g : Grows(g, tt, n + 1, S) /\ FlattenSeq(tt) = g[n + 1]
  <2>1. n + 1 \in Nat
    OBVIOUS
  <2> QED BY <2>1, FlattenGrows
<1>3. StayEqual(f, g, n)
  <2>1. f[0] = g[0]
    BY <1>1, <1>2 DEF Grows
  <2>2. ASSUME NEW i \in 1 .. n, f[i - 1] = g[i - 1] PROVE f[i] = g[i]
    <3>1. f[i] = f[i - 1] \o ss[i]
      BY <1>1 DEF Grows
    <3>2. g[i] = g[i - 1] \o tt[i]
      <4>1. i \in 1 .. n + 1
        OBVIOUS
      <4> QED BY <1>2, <4>1 DEF Grows
    <3> QED BY <2>2, <3>1, <3>2
  <2> QED BY <2>1, <2>2 DEF StayEqual
<1>4. f[n] = g[n]
  BY <1>3, Agree
<1>5. g[n + 1] = g[n] \o tt[n + 1]
  <2> DEFINE m == n + 1
  <2>1. m \in 1 .. m /\ m - 1 = n
    OBVIOUS
  <2> HIDE DEF m
  <2>2. g[m] = g[m - 1] \o tt[m]
    BY <1>2, <2>1 DEF Grows, m
  <2> QED BY <2>1, <2>2 DEF m
<1>6. f[n] \in Seq(S) /\ (n = 0 => f[n] = <<>>)
  BY <1>1 DEF Grows
<1> QED BY <1>1, <1>2, <1>4, <1>5, <1>6

-----------------------------------------------------------------------------
(* Lines, one after the other.                                             *)

\* The header a file ends below.
Top(lines, S) == Above(lines, Len(lines) + 1, S)

\* A header that is not of one of the sections S.
HeaderBut(line, S) == line.kind = "header" /\ \A s \in S : ~IsHeader(line, s)

\* Sections without subsection.
Sections(lines) == {lines[i].section : i \in {j \in DOMAIN lines : IsPlain(lines[j])}}

\* Sections that may be left out.
Skipped(of) == SUBSET (Owned(of) \cap {Subtree})

\* The line x can come next.
Fits(of, lines, x) ==
  AtHome(Top(lines, {}), x) /\ \A S \in Skipped(of) : Apart(of, Top(lines, S), x)

(* The greatest and the least element of a set of positions.               *)
LEMMA EndsFacts ==
  ASSUME NEW n \in Nat, NEW T \in SUBSET (0 .. n), T # {}
  PROVE  /\ Max(T) \in T /\ \A x \in T : x <= Max(T)
         /\ Min(T) \in T /\ \A x \in T : Min(T) <= x
<1>1. T \in SUBSET Nat /\ \A x \in T : x <= n
  OBVIOUS
<1>2. \E x \in T : \A y \in T : y <= x
  BY <1>1, Greatest
<1>3. \E x \in T : \A y \in T : x >= y
  BY <1>1, <1>2
<1>4. \E x \in T : \A y \in T : x <= y
  BY <1>1, Least
<1>5. Max(T) \in T /\ \A x \in T : Max(T) >= x
  BY <1>3 DEF Max
<1>6. Min(T) \in T /\ \A x \in T : Min(T) <= x
  BY <1>4 DEF Min
<1> QED BY <1>1, <1>5, <1>6

(* What is above the next line.                                            *)
LEMMA AboveNext ==
  ASSUME NEW lines \in Seq(Line), NEW i \in 1 .. Len(lines), NEW S
  PROVE  Above(lines, i + 1, S) = IF HeaderBut(lines[i], S) THEN lines[i] ELSE Above(lines, i, S)
<1> DEFINE at(j) == {l \in 1 .. j - 1 : HeaderBut(lines[l], S)}
<1>1. \A j : Above(lines, j, S) = IF at(j) = {} THEN Comment ELSE lines[Max(at(j))]
  BY DEF Above, HeaderBut
<1>2. i \in Nat /\ i >= 1 /\ i + 1 - 1 = i
  BY LenProperties
<1>3. CASE HeaderBut(lines[i], S)
  <2>1. at(i + 1) \in SUBSET (0 .. i) /\ i \in at(i + 1)
    BY <1>2, <1>3
  <2> HIDE DEF at
  <2>2. Max(at(i + 1)) \in 0 .. i /\ i <= Max(at(i + 1))
    BY <1>2, <2>1, EndsFacts
  <2>3. Max(at(i + 1)) = i
    BY <1>2, <2>2
  <2> QED BY <1>1, <1>3, <2>1, <2>3
<1>4. CASE ~HeaderBut(lines[i], S)
  <2>1. at(i + 1) = at(i)
    BY <1>2, <1>4
  <2> HIDE DEF at
  <2> QED BY <1>1, <1>4, <2>1
<1> QED BY <1>3, <1>4

(* The first line has nothing above it.                                    *)
LEMMA AboveFirst ==
  ASSUME NEW lines, NEW S
  PROVE  Above(lines, 1, S) = Comment
<1>1. 1 .. 1 - 1 = {}
  OBVIOUS
<1> QED BY <1>1 DEF Above

(* One more line at the end changes nothing above the others.              *)
LEMMA AboveAppend ==
  ASSUME NEW lines \in Seq(Line), NEW x \in Line, NEW S
  PROVE  /\ \A i \in 1 .. Len(lines) + 1 : Above(Append(lines, x), i, S) = Above(lines, i, S)
         /\ Top(Append(lines, x), S) = IF HeaderBut(x, S) THEN x ELSE Top(lines, S)
<1> DEFINE n == Len(lines)
           a == Append(lines, x)
<1>1. /\ n \in Nat /\ a \in Seq(Line) /\ Len(a) = n + 1
      /\ a[n + 1] = x /\ \A i \in 1 .. n : a[i] = lines[i]
  BY AppendFacts
<1> HIDE DEF n, a
<1>2. ASSUME NEW i \in 1 .. n + 1 PROVE Above(a, i, S) = Above(lines, i, S)
  <2> DEFINE at(b) == {l \in 1 .. i - 1 : HeaderBut(b[l], S)}
  <2>1. \A b : Above(b, i, S) = IF at(b) = {} THEN Comment ELSE b[Max(at(b))]
    BY DEF Above, HeaderBut
  <2>2. \A l \in 1 .. i - 1 : a[l] = lines[l]
    BY <1>1
  <2>3. at(a) = at(lines)
    BY <2>2
  <2>4. CASE at(lines) # {}
    <3>1. at(lines) \in SUBSET (0 .. n) /\ \A l \in at(lines) : l \in 1 .. i - 1
      BY <1>1
    <3> HIDE DEF at
    <3>2. Max(at(lines)) \in at(lines)
      BY <1>1, <2>4, <3>1, EndsFacts
    <3>3. a[Max(at(lines))] = lines[Max(at(lines))]
      BY <2>2, <3>1, <3>2
    <3> QED BY <2>1, <2>3, <3>3
  <2>5. CASE at(lines) = {}
    <3> HIDE DEF at
    <3> QED BY <2>1, <2>3, <2>5
  <2> QED BY <2>4, <2>5
<1>3. Above(a, n + 1 + 1, S) = IF HeaderBut(x, S) THEN x ELSE Above(a, n + 1, S)
  <2>1. n + 1 \in 1 .. Len(a)
    BY <1>1
  <2> QED BY <1>1, <2>1, AboveNext
<1>4. Above(a, n + 1, S) = Above(lines, n + 1, S)
  BY <1>1, <1>2
<1>5. Top(a, S) = Above(a, n + 1 + 1, S) /\ Top(lines, S) = Above(lines, n + 1, S)
  BY <1>1 DEF Top, n
<1> QED BY <1>2, <1>3, <1>4, <1>5 DEF n, a

(* A file goes on with a line that fits.                                   *)
LEMMA FitsAppend ==
  ASSUME NEW lines \in Seq(Line), NEW x \in Line, NEW of
  PROVE  WellFormed(of, Append(lines, x)) <=> WellFormed(of, lines) /\ Fits(of, lines, x)
<1> DEFINE n == Len(lines)
           a == Append(lines, x)
           ok(b, i) == /\ AtHome(Above(b, i, {}), b[i])
                       /\ \A S \in Skipped(of) : Apart(of, Above(b, i, S), b[i])
<1>1. /\ n \in Nat /\ DOMAIN lines = 1 .. n /\ DOMAIN a = 1 .. n + 1
      /\ a[n + 1] = x /\ \A i \in 1 .. n : a[i] = lines[i]
  BY AppendFacts
<1>2. \A S : \A i \in 1 .. n + 1 : Above(a, i, S) = Above(lines, i, S)
  BY AboveAppend
<1> HIDE DEF a
<1>3. \A i \in 1 .. n : ok(a, i) <=> ok(lines, i)
  <2>1. \A i \in 1 .. n : i \in 1 .. n + 1
    BY <1>1
  <2> QED BY <1>1, <1>2, <2>1
<1>4. ok(a, n + 1) <=> Fits(of, lines, x)
  <2>1. n + 1 \in 1 .. n + 1
    BY <1>1
  <2>2. \A S : Above(a, n + 1, S) = Top(lines, S)
    BY <1>2, <2>1 DEF Top
  <2> QED BY <1>1, <2>2 DEF Fits
<1>5. WellFormed(of, a) <=> \A i \in 1 .. n + 1 : ok(a, i)
  BY <1>1 DEF WellFormed, Skipped
<1>6. WellFormed(of, lines) <=> \A i \in 1 .. n : ok(lines, i)
  BY <1>1 DEF WellFormed, Skipped
<1> HIDE DEF ok, n
<1>7. WellFormed(of, a) <=> (\A i \in 1 .. n : ok(a, i)) /\ ok(a, n + 1)
  BY <1>1, <1>5
<1> QED BY <1>3, <1>4, <1>6, <1>7 DEF a

(* The empty file.                                                         *)
LEMMA EmptyFile == 
  /\ <<>> \in Seq(Line) /\ Len(<<>>) = 0 /\ DOMAIN <<>> = {}
  /\ \A of : WellFormed(of, <<>>)
  /\ \A S : Top(<<>>, S) = Comment
<1>1. <<>> \in Seq(Line) /\ Len(<<>>) = 0 /\ DOMAIN <<>> = {}
  OBVIOUS
<1>2. \A S : Top(<<>>, S) = Comment
  BY <1>1, AboveFirst DEF Top
<1> QED BY <1>1, <1>2 DEF WellFormed, Skipped

(* The lines of a kind, line by line.                                      *)
LEMMA OnlyAppend ==
  ASSUME NEW lines \in Seq(Line), NEW x \in Line, NEW X
  PROVE  /\ Only(lines, X) \in Seq(Line) /\ (lines = <<>> => Only(lines, X) = <<>>)
         /\ Only(Append(lines, x), X) =
              IF x \in X THEN Append(Only(lines, X), x) ELSE Only(lines, X)
<1> DEFINE n == Len(lines)
           a == Append(lines, x)
           one(b, i) == IF b[i] \in X THEN <<b[i]>> ELSE <<>>
           ss == [i \in 1 .. n |-> one(lines, i)]
           tt == [i \in 1 .. n + 1 |-> one(a, i)]
<1>1. /\ n \in Nat /\ DOMAIN lines = 1 .. n /\ DOMAIN a = 1 .. n + 1
      /\ a[n + 1] = x /\ \A i \in 1 .. n : a[i] = lines[i]
  BY AppendFacts
<1>2. \A i \in 1 .. n : lines[i] \in Line
  BY ElementOfSeq
<1>3. Only(lines, X) = FlattenSeq(ss) /\ Only(a, X) = FlattenSeq(tt)
  BY <1>1 DEF Only
<1> HIDE DEF n, a
<1>4. ss \in [1 .. n -> Seq(Line)]
  BY <1>2
<1>5. tt \in [1 .. n + 1 -> Seq(Line)] /\ \A i \in 1 .. n : tt[i] = ss[i]
  <2>1. \A i \in 1 .. n + 1 : a[i] \in Line
    <3>1. \A i \in 1 .. n + 1 : i \in 1 .. n \/ i = n + 1
      BY <1>1
    <3> QED BY <1>1, <1>2, <3>1
  <2>2. \A i \in 1 .. n : i \in 1 .. n + 1
    BY <1>1
  <2> QED BY <1>1, <2>1, <2>2
<1>6. tt[n + 1] = IF x \in X THEN <<x>> ELSE <<>>
  <2>1. n + 1 \in 1 .. n + 1
    BY <1>1
  <2> QED BY <1>1, <2>1
<1> HIDE DEF ss, tt
<1>7. /\ FlattenSeq(ss) \in Seq(Line) /\ (n = 0 => FlattenSeq(ss) = <<>>)
      /\ FlattenSeq(tt) = FlattenSeq(ss) \o tt[n + 1]
  BY <1>1, <1>4, <1>5, FlattenAppend
<1>8. lines = <<>> => n = 0
  BY EmptySeq DEF n
<1> QED BY <1>3, <1>6, <1>7, <1>8, ConcatShort DEF a

(* The empty file has no values.                                           *)
LEMMA ValuesNone ==
  ASSUME NEW s, NEW sub, NEW k
  PROVE  ValuesOf(<<>>, s, sub, k) = <<>>
<1> DEFINE one(i) == IF IsKey(<<>>[i], k) /\ LET h == Above(<<>>, i, {})
                                             IN h.kind = "header" /\ h.section = s /\ h.sub = sub
                     THEN <<<<>>[i].value>> ELSE <<>>
           ss == [i \in DOMAIN <<>> |-> one(i)]
<1>1. ValuesOf(<<>>, s, sub, k) = FlattenSeq(ss)
  BY DEF ValuesOf
<1>2. ss \in [1 .. 0 -> Seq(Value)]
  <2>1. DOMAIN <<>> = {} /\ 1 .. 0 = {}
    BY EmptyFile
  <2> HIDE DEF one
  <2> QED BY <2>1
<1> HIDE DEF ss
<1>3. PICK f : Grows(f, ss, 0, Value) /\ FlattenSeq(ss) = f[0]
  BY <1>2, FlattenGrows
<1> QED BY <1>1, <1>3 DEF Grows

\* The header above is this section's.
Below(h, s, sub) == h.kind = "header" /\ h.section = s /\ h.sub = sub

(* The values of a key, line by line.                                      *)
LEMMA ValuesAppend ==
  ASSUME NEW lines \in Seq(Whole), NEW x \in Whole, NEW s, NEW sub, NEW k
  PROVE  /\ ValuesOf(lines, s, sub, k) \in Seq(Value)
         /\ ValuesOf(Append(lines, x), s, sub, k) =
              IF IsKey(x, k) /\ Below(Top(lines, {}), s, sub)
              THEN Append(ValuesOf(lines, s, sub, k), x.value) ELSE ValuesOf(lines, s, sub, k)
<1> DEFINE n == Len(lines)
           a == Append(lines, x)
           one(b, i) == IF IsKey(b[i], k) /\ Below(Above(b, i, {}), s, sub) THEN <<b[i].value>> ELSE <<>>
           ss == [i \in 1 .. n |-> one(lines, i)]
           tt == [i \in 1 .. n + 1 |-> one(a, i)]
<1>1. /\ n \in Nat /\ DOMAIN lines = 1 .. n /\ DOMAIN a = 1 .. n + 1
      /\ a[n + 1] = x /\ \A i \in 1 .. n : a[i] = lines[i]
  BY AppendFacts
<1>2. \A i \in 1 .. n : lines[i] \in Whole
  BY ElementOfSeq
<1>3. \A i \in 1 .. n + 1 : Above(a, i, {}) = Above(lines, i, {})
  <2>1. lines \in Seq(Line) /\ x \in Line
    <3>1. Whole \subseteq Line
      BY DEF Whole
    <3> QED BY <3>1, SeqMonotonic
  <2> QED BY <2>1, AboveAppend
<1>4. ValuesOf(lines, s, sub, k) = FlattenSeq(ss) /\ ValuesOf(a, s, sub, k) = FlattenSeq(tt)
  BY <1>1 DEF ValuesOf, Below
<1> HIDE DEF a
<1>5. \A y \in Whole : IsKey(y, k) => y.value \in Value
  BY DEF Whole, IsKey
<1>6. ss \in [1 .. n -> Seq(Value)]
  <2>1. \A i \in 1 .. n : one(lines, i) \in Seq(Value)
    BY <1>2, <1>5
  <2> HIDE DEF one
  <2> QED BY <2>1
<1>7. tt \in [1 .. n + 1 -> Seq(Value)]
  <2>1. \A i \in 1 .. n + 1 : a[i] \in Whole
    <3>1. \A i \in 1 .. n + 1 : i \in 1 .. n \/ i = n + 1
      BY <1>1
    <3> QED BY <1>1, <1>2, <3>1
  <2>2. \A i \in 1 .. n + 1 : one(a, i) \in Seq(Value)
    BY <1>5, <2>1
  <2> HIDE DEF one
  <2> QED BY <2>2
<1>8. \A i \in 1 .. n : tt[i] = ss[i]
  <2>1. \A i \in 1 .. n : i \in 1 .. n + 1
    BY <1>1
  <2>2. \A i \in 1 .. n : one(a, i) = one(lines, i)
    BY <1>1, <1>3, <2>1
  <2> HIDE DEF one
  <2> QED BY <2>1, <2>2
<1>9. tt[n + 1] = IF IsKey(x, k) /\ Below(Top(lines, {}), s, sub) THEN <<x.value>> ELSE <<>>
  <2>1. n + 1 \in 1 .. n + 1
    BY <1>1
  <2>2. Above(a, n + 1, {}) = Top(lines, {})
    BY <1>3, <2>1 DEF Top
  <2>3. tt[n + 1] = one(a, n + 1)
    BY <2>1
  <2> QED BY <1>1, <2>2, <2>3
<1> HIDE DEF ss, tt
<1>10. FlattenSeq(ss) \in Seq(Value) /\ FlattenSeq(tt) = FlattenSeq(ss) \o tt[n + 1]
  BY <1>1, <1>6, <1>7, <1>8, FlattenAppend
<1> HIDE DEF n
<1> DEFINE values == FlattenSeq(ss)
           last == tt[n + 1]
<1>11. values \o last = IF IsKey(x, k) /\ Below(Top(lines, {}), s, sub) THEN Append(values, x.value) ELSE values
  <2>1. IsKey(x, k) => x.value \in Value
    BY <1>5
  <2>2. values \in Seq(Value)
    BY <1>10
  <2>3. last = IF IsKey(x, k) /\ Below(Top(lines, {}), s, sub) THEN <<x.value>> ELSE <<>>
    BY <1>9
  <2> HIDE DEF values, last
  <2> QED BY <2>1, <2>2, <2>3, ConcatShort
<1> QED BY <1>4, <1>10, <1>11 DEF a

(* The names of the sections, line by line, and whether they are sorted.   *)
LEMMA SectionsAppend ==
  ASSUME NEW lines \in Seq(Line), NEW x \in Line
  PROVE  /\ Sections(Append(lines, x)) = Sections(lines) \cup {y.section : y \in {z \in {x} : IsPlain(z)}}
         /\ Sorted(Append(lines, x)) <=>
              Sorted(lines) /\ (IsPlain(x) => \A s \in Sections(lines) : s < x.section)
<1> DEFINE n == Len(lines)
           a == Append(lines, x)
<1>1. /\ n \in Nat /\ DOMAIN lines = 1 .. n /\ DOMAIN a = 1 .. n + 1
      /\ a[n + 1] = x /\ \A i \in 1 .. n : a[i] = lines[i]
  BY AppendFacts
<1> HIDE DEF n, a
<1>2. \A i : i \in 1 .. n + 1 <=> i \in 1 .. n \/ i = n + 1
  BY <1>1
<1>3. n + 1 \notin 1 .. n /\ n + 1 \in 1 .. n + 1
  BY <1>1
<1>4. Sections(a) = Sections(lines) \cup {y.section : y \in {z \in {x} : IsPlain(z)}}
  <2>1. ASSUME NEW u \in Sections(a) PROVE u \in Sections(lines) \/ (IsPlain(x) /\ u = x.section)
    <3>1. PICK i \in 1 .. n + 1 : IsPlain(a[i]) /\ u = a[i].section
      BY <1>1 DEF Sections
    <3> QED BY <1>1, <1>2, <3>1 DEF Sections
  <2>2. Sections(lines) \subseteq Sections(a)
    BY <1>1, <1>2 DEF Sections
  <2>3. IsPlain(x) => x.section \in Sections(a)
    BY <1>1, <1>3 DEF Sections
  <2> QED BY <2>1, <2>2, <2>3
<1>5. ASSUME Sorted(a)
      PROVE  Sorted(lines) /\ (IsPlain(x) => \A s \in Sections(lines) : s < x.section)
  <2>1. Sorted(lines)
    BY <1>1, <1>2, <1>5 DEF Sorted
  <2>2. ASSUME IsPlain(x), NEW s \in Sections(lines) PROVE s < x.section
    <3>1. PICK i \in 1 .. n : IsPlain(lines[i]) /\ s = lines[i].section
      BY <1>1 DEF Sections
    <3>2. i < n + 1 /\ i \in DOMAIN a /\ n + 1 \in DOMAIN a
      BY <1>1, <1>3
    <3> QED BY <1>1, <1>5, <2>2, <3>1, <3>2 DEF Sorted
  <2> QED BY <2>1, <2>2
<1>6. ASSUME Sorted(lines), IsPlain(x) => \A s \in Sections(lines) : s < x.section
      PROVE  Sorted(a)
  <2> SUFFICES ASSUME NEW i \in 1 .. n + 1, NEW j \in 1 .. n + 1, i < j, IsPlain(a[i]), IsPlain(a[j])
               PROVE  a[i].section < a[j].section
    BY <1>1 DEF Sorted
  <2>1. i \in 1 .. n /\ a[i] = lines[i]
    BY <1>1
  <2>2. CASE j \in 1 .. n
    BY <1>1, <1>6, <2>1, <2>2 DEF Sorted
  <2>3. CASE j = n + 1
    <3>1. lines[i].section \in Sections(lines)
      BY <1>1, <2>1 DEF Sections
    <3> QED BY <1>1, <1>6, <2>1, <2>3, <3>1
  <2> QED BY <1>2, <2>2, <2>3
<1> QED BY <1>4, <1>5, <1>6 DEF a

(* A filter is in a section below its header.                              *)
LEMMA InsideFacts ==
  ASSUME NEW lines \in Seq(Line), NEW of, WellFormed(of, lines), NEW s \in Owned(of)
  PROVE  \A i \in 0 .. Len(lines) : Inside(lines, s)[i] <=> IsHeader(Above(lines, i + 1, {}), s)
<1> DEFINE n == Len(lines)
           def(in) == [i \in 0 .. Len(lines) |->
                        IF i = 0 THEN FALSE
                        ELSE IF lines[i].kind = "header" THEN ~in[i - 1] /\ IsHeader(lines[i], s)
                        ELSE in[i - 1]]
           inside == CHOOSE in : in = def(in)
           h == [i \in 0 .. n |-> IsHeader(Above(lines, i + 1, {}), s)]
<1>1. n \in Nat /\ DOMAIN lines = 1 .. n
  BY LenProperties
<1>2. Inside(lines, s) = inside
  BY DEF Inside
<1>3. ~IsHeader(Above(lines, 1, {}), s)
  BY AboveFirst DEF IsHeader, IsPlain, Comment
<1> HIDE DEF n
<1>4. ASSUME NEW i \in 1 .. n
      PROVE  IsHeader(Above(lines, i + 1, {}), s) <=>
               IF lines[i].kind = "header"
               THEN ~IsHeader(Above(lines, i, {}), s) /\ IsHeader(lines[i], s)
               ELSE IsHeader(Above(lines, i, {}), s)
  <2>1. HeaderBut(lines[i], {}) <=> lines[i].kind = "header"
    BY DEF HeaderBut
  <2>2. Above(lines, i + 1, {}) = IF HeaderBut(lines[i], {}) THEN lines[i] ELSE Above(lines, i, {})
    BY AboveNext DEF n
  <2>3. IsHeader(lines[i], s) => ~IsHeader(Above(lines, i, {}), s)
    <3>1. {} \in SUBSET (Owned(of) \cap {Subtree})
      OBVIOUS
    <3> QED BY <1>1, <3>1 DEF WellFormed, Apart
  <2> QED BY <2>1, <2>2, <2>3
<1>5. h = def(h)
  <2>1. ASSUME NEW i \in 0 .. n
        PROVE  IsHeader(Above(lines, i + 1, {}), s) =
                 IF i = 0 THEN FALSE
                 ELSE IF lines[i].kind = "header" THEN ~h[i - 1] /\ IsHeader(lines[i], s)
                 ELSE h[i - 1]
    <3>1. CASE i = 0
      <4>1. i + 1 = 1
        BY <3>1
      <4>2. IsHeader(Above(lines, i + 1, {}), s) = FALSE
        BY <1>3, <4>1 DEF IsHeader, IsPlain
      <4> QED BY <3>1, <4>2
    <3>2. CASE i # 0
      <4>1. i \in 1 .. n /\ i - 1 \in 0 .. n /\ i - 1 + 1 = i
        BY <1>1, <3>2
      <4>2. h[i - 1] = IsHeader(Above(lines, i, {}), s)
        BY <4>1
      <4> QED BY <1>4, <3>2, <4>1, <4>2 DEF IsHeader
    <3> QED BY <3>1, <3>2
  <2> QED BY <2>1 DEF n
<1>6. inside = def(inside)
  <2> HIDE DEF def, h
  <2> QED BY <1>5
<1> HIDE DEF inside
<1>7. StayEqual(inside, h, n)
  <2>1. 0 \in 0 .. n /\ \A i \in 1 .. n : i \in 0 .. n /\ i # 0
    BY <1>1
  <2>2. inside[0] = h[0]
    <3>1. inside[0] = FALSE
      BY <1>6, <2>1 DEF n
    <3>2. h[0] = FALSE
      <4>1. h[0] = def(h)[0]
        BY <1>5
      <4> HIDE DEF h
      <4> QED BY <2>1, <4>1 DEF n
    <3> QED BY <3>1, <3>2
  <2>3. ASSUME NEW i \in 1 .. n, inside[i - 1] = h[i - 1] PROVE inside[i] = h[i]
    <3>1. inside[i] = IF lines[i].kind = "header" THEN ~inside[i - 1] /\ IsHeader(lines[i], s)
                      ELSE inside[i - 1]
      BY <1>6, <2>1 DEF n
    <3>2. h[i] = IF lines[i].kind = "header" THEN ~h[i - 1] /\ IsHeader(lines[i], s)
                 ELSE h[i - 1]
      <4>1. h[i] = def(h)[i]
        BY <1>5
      <4> HIDE DEF h
      <4> QED BY <2>1, <4>1 DEF n
    <3> HIDE DEF h
    <3> QED BY <2>3, <3>1, <3>2
  <2> HIDE DEF h
  <2> QED BY <2>2, <2>3 DEF StayEqual
<1>8. \A i \in 0 .. n : inside[i] = h[i]
  <2> HIDE DEF h
  <2> QED BY <1>1, <1>7, Agree
<1> QED BY <1>2, <1>8 DEF n

(* The first lines of a file.                                              *)
LEMMA UptoFacts ==
  ASSUME NEW S, NEW lines \in Seq(S)
  PROVE  /\ SubSeq(lines, 1, 0) = <<>> /\ SubSeq(lines, 1, Len(lines)) = lines
         /\ \A i \in 0 .. Len(lines) : SubSeq(lines, 1, i) \in Seq(S)
         /\ \A i \in 1 .. Len(lines) :
              SubSeq(lines, 1, i) = Append(SubSeq(lines, 1, i - 1), lines[i])
<1>1. Len(lines) \in Nat /\ \A i \in 1 .. Len(lines) : lines[i] \in S
  BY LenProperties, ElementOfSeq
<1>2. SubSeq(lines, 1, 0) = <<>> /\ SubSeq(lines, 1, Len(lines)) = lines
  BY SubSeqEmpty, SubSeqFull
<1>3. ASSUME NEW i \in 0 .. Len(lines) PROVE SubSeq(lines, 1, i) \in Seq(S)
  <2>1. i \in Int /\ 1 \in Int /\ \A j \in 1 .. i : lines[j] \in S
    BY <1>1
  <2> QED BY <2>1, SubSeqProperties
<1>4. ASSUME NEW i \in 1 .. Len(lines)
      PROVE  SubSeq(lines, 1, i) = Append(SubSeq(lines, 1, i - 1), lines[i])
  <2>1. 1 \in 1 .. Len(lines) /\ i \in 1 .. Len(lines)
    BY <1>1
  <2>2. SubSeq(lines, 1, i) = SubSeq(lines, 1, i - 1) \o <<lines[i]>>
    BY <2>1, SubSeqRecursiveSecond
  <2>3. SubSeq(lines, 1, i - 1) \in Seq(S)
    <3>1. i - 1 \in 0 .. Len(lines)
      BY <1>1
    <3> QED BY <1>3, <3>1
  <2> QED BY <1>1, <2>2, <2>3, ConcatShort
<1> QED BY <1>2, <1>3, <1>4

(* A well-formed file is one in which each line fits.                      *)
LEMMA FileFits ==
  ASSUME NEW lines \in Seq(Line), NEW of
  PROVE  /\ \A S : \A i \in 1 .. Len(lines) + 1 : Top(SubSeq(lines, 1, i - 1), S) = Above(lines, i, S)
         /\ WellFormed(of, lines) => 
              \A i \in 1 .. Len(lines) : Fits(of, SubSeq(lines, 1, i - 1), lines[i])
<1> DEFINE n == Len(lines)
           upto(i) == SubSeq(lines, 1, i)
           T == {i \in 0 .. n : \A S : Top(upto(i), S) = Above(lines, i + 1, S)}
<1>1. /\ n \in Nat /\ DOMAIN lines = 1 .. n /\ \A i \in 1 .. n : lines[i] \in Line
  BY LenProperties, ElementOfSeq
<1>2. /\ upto(0) = <<>> /\ \A i \in 0 .. n : upto(i) \in Seq(Line)
      /\ \A i \in 1 .. n : upto(i) = Append(upto(i - 1), lines[i])
  BY UptoFacts
<1> HIDE DEF upto, n
<1>3. 0 \in T
  <2>1. \A S : Top(upto(0), S) = Above(lines, 1, S)
    BY <1>2, EmptyFile, AboveFirst
  <2>2. 0 \in 0 .. n /\ 0 + 1 = 1
    BY <1>1
  <2> QED BY <2>1, <2>2
<1>4. ASSUME NEW i \in 1 .. n, i - 1 \in T PROVE i \in T
  <2>1. i \in 0 .. n /\ i - 1 \in 0 .. n /\ i - 1 + 1 = i
    BY <1>1
  <2>2. \A S : Top(upto(i - 1), S) = Above(lines, i, S)
    BY <1>4, <2>1
  <2>3. ASSUME NEW S PROVE Top(upto(i), S) = Above(lines, i + 1, S)
    <3>1. Top(upto(i), S) = IF HeaderBut(lines[i], S) THEN lines[i] ELSE Top(upto(i - 1), S)
      <4> DEFINE a == upto(i - 1)
      <4>1. a \in Seq(Line) /\ lines[i] \in Line /\ upto(i) = Append(a, lines[i])
        BY <1>1, <1>2, <2>1
      <4> HIDE DEF a
      <4>2. Top(Append(a, lines[i]), S) = IF HeaderBut(lines[i], S) THEN lines[i] ELSE Top(a, S)
        BY <4>1, AboveAppend
      <4> QED BY <4>1, <4>2 DEF a
    <3>2. Above(lines, i + 1, S) = IF HeaderBut(lines[i], S) THEN lines[i] ELSE Above(lines, i, S)
      BY AboveNext DEF n
    <3> QED BY <2>2, <3>1, <3>2
  <2> QED BY <2>1, <2>3
<1>5. \A i \in 0 .. n : i \in T
  <2>1. Climbs(T, n)
    <3> HIDE DEF T
    <3> QED BY <1>3, <1>4 DEF Climbs
  <2> HIDE DEF T
  <2> QED BY <1>1, <2>1, Upwards
<1>6. ASSUME NEW i \in 1 .. n + 1, NEW S PROVE Top(upto(i - 1), S) = Above(lines, i, S)
  <2>1. i - 1 \in 0 .. n /\ i - 1 + 1 = i
    BY <1>1
  <2> QED BY <1>5, <2>1
<1>7. ASSUME WellFormed(of, lines), NEW i \in 1 .. n PROVE Fits(of, upto(i - 1), lines[i])
  <2>1. \A S : Top(upto(i - 1), S) = Above(lines, i, S)
    <3>1. i \in 1 .. n + 1
      BY <1>1
    <3> QED BY <1>6, <3>1
  <2> QED BY <1>1, <1>7, <2>1 DEF WellFormed, Fits, Skipped
<1> QED BY <1>6, <1>7 DEF upto, n

(* No line of a kind is there.                                             *)
LEMMA OnlyNone ==
  ASSUME NEW lines \in Seq(Line), NEW X
  PROVE  Only(lines, X) = <<>> <=> \A i \in 1 .. Len(lines) : lines[i] \notin X
<1> DEFINE n == Len(lines)
           upto(i) == SubSeq(lines, 1, i)
           T == {i \in 0 .. n : Only(upto(i), X) = <<>> <=> \A j \in 1 .. i : lines[j] \notin X}
<1>1. n \in Nat /\ \A i \in 1 .. n : lines[i] \in Line
  BY LenProperties, ElementOfSeq
<1>2. /\ upto(0) = <<>> /\ upto(n) = lines /\ \A i \in 0 .. n : upto(i) \in Seq(Line)
      /\ \A i \in 1 .. n : upto(i) = Append(upto(i - 1), lines[i])
  BY UptoFacts
<1> HIDE DEF n, upto
<1>3. 0 \in T
  <2>1. Only(upto(0), X) = <<>>
    <3> DEFINE p == upto(0)
    <3>1. p \in Seq(Line) /\ p = <<>> /\ Comment \in Line
      BY <1>2, EmptyFile DEF Comment, Line
    <3> HIDE DEF p
    <3>2. Only(p, X) = <<>>
      BY <3>1, OnlyAppend
    <3> QED BY <3>2 DEF p
  <2>2. 0 \in 0 .. n /\ \A j \in 1 .. 0 : FALSE
    BY <1>1
  <2> QED BY <2>1, <2>2
<1>4. ASSUME NEW i \in 1 .. n, i - 1 \in T PROVE i \in T
  <2> DEFINE p == upto(i - 1)
             x == lines[i]
  <2>1. i \in 0 .. n /\ i - 1 \in 0 .. n /\ i \in Nat /\ i >= 1
    BY <1>1
  <2>2. p \in Seq(Line) /\ x \in Line /\ upto(i) = Append(p, x)
    BY <1>1, <1>2, <2>1
  <2>3. Only(p, X) = <<>> <=> \A j \in 1 .. i - 1 : lines[j] \notin X
    BY <1>4
  <2>4. \A j : j \in 1 .. i <=> j \in 1 .. i - 1 \/ j = i
    BY <2>1
  <2>5. (\A j \in 1 .. i : lines[j] \notin X) <=> (\A j \in 1 .. i - 1 : lines[j] \notin X) /\ x \notin X
    BY <2>4
  <2> HIDE DEF p, x
  <2>6. /\ Only(p, X) \in Seq(Line)
        /\ Only(Append(p, x), X) = IF x \in X THEN Append(Only(p, X), x) ELSE Only(p, X)
    BY <2>2, OnlyAppend
  <2>7. Append(Only(p, X), x) # <<>>
    <3> DEFINE o == Only(p, X)
    <3>1. Len(Append(o, x)) = Len(o) + 1 /\ Len(o) \in Nat
      BY <2>2, <2>6, AppendFacts
    <3> HIDE DEF o
    <3>2. Len(Append(o, x)) # 0
      BY <3>1
    <3> QED BY <3>2, EmptyFile DEF o
  <2>8. Only(upto(i), X) = <<>> <=> \A j \in 1 .. i : lines[j] \notin X
    BY <2>2, <2>3, <2>5, <2>6, <2>7
  <2> QED BY <2>1, <2>8
<1>5. n \in T
  <2>1. Climbs(T, n)
    <3> HIDE DEF T
    <3> QED BY <1>3, <1>4 DEF Climbs
  <2>2. n \in 0 .. n
    BY <1>1
  <2> HIDE DEF T
  <2> QED BY <1>1, <2>1, <2>2, Upwards
<1> QED BY <1>2, <1>5 DEF n

(* The header a file ends below is one of its lines, or there is none.     *)
LEMMA TopIn ==
  ASSUME NEW lines \in Seq(Line), NEW S
  PROVE  /\ Top(lines, S) \in Line
         /\ IsPlain(Top(lines, S)) => Top(lines, S).section \in Sections(lines)
         /\ Top(lines, S) = Comment \/ \E i \in DOMAIN lines : Top(lines, S) = lines[i] /\ HeaderBut(lines[i], S)
<1> DEFINE n == Len(lines)
           at == {j \in 1 .. n + 1 - 1 : HeaderBut(lines[j], S)}
<1>1. n \in Nat /\ DOMAIN lines = 1 .. n /\ \A i \in 1 .. n : lines[i] \in Line
  BY LenProperties, ElementOfSeq
<1>2. Top(lines, S) = IF at = {} THEN Comment ELSE lines[Max(at)]
  BY DEF Top, Above, HeaderBut
<1>3. Comment \in Line /\ ~IsPlain(Comment)
  BY DEF Comment, Line, IsPlain
<1>4. CASE at = {}
  BY <1>2, <1>3, <1>4
<1>5. CASE at # {}
  <2>1. Max(at) \in at
    <3>1. at \in SUBSET (0 .. n)
      BY <1>1
    <3> HIDE DEF at
    <3> QED BY <1>1, <1>5, <3>1, EndsFacts
  <2>2. Max(at) \in 1 .. n /\ HeaderBut(lines[Max(at)], S)
    BY <1>1, <2>1
  <2> HIDE DEF at
  <2>3. Top(lines, S) = lines[Max(at)]
    BY <1>2, <1>5
  <2> QED BY <1>1, <2>2, <2>3 DEF Sections
<1> QED BY <1>4, <1>5

-----------------------------------------------------------------------------
(* What a filter leaves.                                                   *)

\* The lines that are not in Y, and the values of keys that are not in Y.
SameBut(a, p, Y) ==
  /\ \A X : X \cap Y = {} => Only(a, X) = Only(p, X)
  /\ \A s, sub, k : KeyLines(k) \cap Y = {} => ValuesOf(a, s, sub, k) = ValuesOf(p, s, sub, k)

\* The file a, made of p, is as good as p and differs in the lines Y only.
Keeps(of, a, p, Y) ==
  /\ a \in Seq(Whole) /\ p \in Seq(Whole) /\ WellFormed(of, a)
  /\ SameBut(a, p, Y)
  /\ Sorted(p) => Sorted(a)

\* The filter has passed on a when it has read p, and is at the same place.
Follows(of, a, p, Y) ==
  /\ Keeps(of, a, p, Y)
  /\ \A S \in Skipped(of) : Top(a, S) = Top(p, S)
  /\ \A u \in Sections(a) : \E w \in Sections(p) : u <= w

(* Kinds of lines.                                                         *)
LEMMA LineKinds ==
  /\ Whole \subseteq Line
  /\ \A x \in Line : x.kind \in {"header", "key", "comment"}
  /\ \A x \in Line : IsPlain(x) => x.section \in Nat /\ x.kind = "header"
  /\ \A s : \A x \in Line : IsHeader(x, s) <=> IsPlain(x) /\ x.section = s
  /\ \A k : \A x \in Line : IsKey(x, k) => x.kind = "key" /\ k \in Key
  /\ \A x \in Line : x.kind = "key" => ~IsPlain(x) /\ \A S : ~HeaderBut(x, S)
  /\ \A x \in Whole : x.kind = "key" => x.value \in Value
  /\ \A k : KeyLines(k) \subseteq Line
  /\ \A k, x : x \in KeyLines(k) <=> x \in Line /\ IsKey(x, k)
BY DEF Whole, Line, IsPlain, IsHeader, IsKey, HeaderBut, KeyLines

(* Names of sections are numbers.                                          *)
LEMMA SectionTypes ==
  ASSUME NEW lines \in Seq(Line)
  PROVE  Sections(lines) \subseteq Nat
<1>1. \A i \in DOMAIN lines : lines[i] \in Line
  BY LenProperties, ElementOfSeq
<1> QED BY <1>1, LineKinds DEF Sections

(* What one more line does to what is kept.                                *)
LEMMA SameSteps ==
  ASSUME NEW a \in Seq(Whole), NEW p \in Seq(Whole), NEW Y, SameBut(a, p, Y), NEW x \in Whole,
         x.kind = "key" => Top(a, {}) = Top(p, {})
  PROVE  /\ SameBut(Append(a, x), Append(p, x), Y)
         /\ x \in Y => SameBut(Append(a, x), p, Y) /\ SameBut(a, Append(p, x), Y)
<1> DEFINE ax == Append(a, x)
           px == Append(p, x)
<1>1. a \in Seq(Line) /\ p \in Seq(Line) /\ x \in Line
  BY LineKinds, SeqMonotonic
<1>2. \A X : /\ Only(ax, X) = IF x \in X THEN Append(Only(a, X), x) ELSE Only(a, X)
             /\ Only(px, X) = IF x \in X THEN Append(Only(p, X), x) ELSE Only(p, X)
  BY <1>1, OnlyAppend
<1>3. \A s, sub, k :
        /\ ValuesOf(ax, s, sub, k) =
             IF IsKey(x, k) /\ Below(Top(a, {}), s, sub)
             THEN Append(ValuesOf(a, s, sub, k), x.value) ELSE ValuesOf(a, s, sub, k)
        /\ ValuesOf(px, s, sub, k) =
             IF IsKey(x, k) /\ Below(Top(p, {}), s, sub)
             THEN Append(ValuesOf(p, s, sub, k), x.value) ELSE ValuesOf(p, s, sub, k)
  BY ValuesAppend
<1> HIDE DEF ax, px
<1>4. SameBut(ax, px, Y)
  <2>1. ASSUME NEW X, X \cap Y = {} PROVE Only(ax, X) = Only(px, X)
    BY <1>2, <2>1 DEF SameBut
  <2>2. ASSUME NEW s, NEW sub, NEW k, KeyLines(k) \cap Y = {}
        PROVE  ValuesOf(ax, s, sub, k) = ValuesOf(px, s, sub, k)
    <3>1. ValuesOf(a, s, sub, k) = ValuesOf(p, s, sub, k)
      BY <2>2 DEF SameBut
    <3>2. IsKey(x, k) => Top(a, {}) = Top(p, {})
      BY <1>1, LineKinds
    <3> QED BY <1>3, <3>1, <3>2
  <2> QED BY <2>1, <2>2 DEF SameBut
<1>5. ASSUME x \in Y PROVE SameBut(ax, p, Y) /\ SameBut(a, px, Y)
  <2>1. ASSUME NEW X, X \cap Y = {} PROVE Only(ax, X) = Only(p, X) /\ Only(a, X) = Only(px, X)
    <3>1. x \notin X
      BY <1>5, <2>1
    <3> QED BY <1>2, <2>1, <3>1 DEF SameBut
  <2>2. ASSUME NEW s, NEW sub, NEW k, KeyLines(k) \cap Y = {}
        PROVE  /\ ValuesOf(ax, s, sub, k) = ValuesOf(p, s, sub, k)
               /\ ValuesOf(a, s, sub, k) = ValuesOf(px, s, sub, k)
    <3>1. ValuesOf(a, s, sub, k) = ValuesOf(p, s, sub, k)
      BY <2>2 DEF SameBut
    <3>2. ~IsKey(x, k)
      BY <1>1, <1>5, <2>2, LineKinds
    <3> QED BY <1>3, <3>1, <3>2
  <2> QED BY <2>1, <2>2 DEF SameBut
<1> QED BY <1>4, <1>5 DEF ax, px

(* Nothing is made of nothing.                                             *)
LEMMA FollowsFirst ==
  ASSUME NEW of, NEW Y
  PROVE  Follows(of, <<>>, <<>>, Y)
<1>1. <<>> \in Seq(Whole) /\ SameBut(<<>>, <<>>, Y) /\ WellFormed(of, <<>>)
  BY EmptyFile DEF SameBut
<1>2. Sections(<<>>) = {} /\ Sorted(<<>>)
  BY EmptyFile DEF Sections, Sorted
<1> QED BY <1>1, <1>2 DEF Follows, Keeps

(* A line is passed on.                                                    *)
LEMMA PassOn ==
  ASSUME NEW of, NEW a, NEW p, NEW Y, Follows(of, a, p, Y), NEW x \in Whole, Fits(of, p, x)
  PROVE  Follows(of, Append(a, x), Append(p, x), Y)
<1> DEFINE ax == Append(a, x)
           px == Append(p, x)
<1>1. /\ a \in Seq(Whole) /\ p \in Seq(Whole) /\ WellFormed(of, a) /\ SameBut(a, p, Y)
      /\ Sorted(p) => Sorted(a)
      /\ \A S \in Skipped(of) : Top(a, S) = Top(p, S)
      /\ \A u \in Sections(a) : \E w \in Sections(p) : u <= w
  BY DEF Follows, Keeps
<1>2. a \in Seq(Line) /\ p \in Seq(Line) /\ x \in Line
  BY <1>1, LineKinds, SeqMonotonic
<1>3. ax \in Seq(Whole) /\ px \in Seq(Whole)
  BY <1>1, AppendFacts
<1>4. {} \in Skipped(of)
  BY DEF Skipped
<1>5. SameBut(ax, px, Y)
  BY <1>1, <1>4, SameSteps
<1>6. WellFormed(of, ax)
  <2>1. Fits(of, a, x)
    BY <1>1, <1>4 DEF Fits
  <2> QED BY <1>1, <1>2, <2>1, FitsAppend
<1>7. ASSUME NEW S \in Skipped(of) PROVE Top(ax, S) = Top(px, S)
  <2>1. Top(ax, S) = IF HeaderBut(x, S) THEN x ELSE Top(a, S)
    BY <1>2, AboveAppend
  <2>2. Top(px, S) = IF HeaderBut(x, S) THEN x ELSE Top(p, S)
    BY <1>2, AboveAppend
  <2> QED BY <1>1, <2>1, <2>2
<1> DEFINE new == {y.section : y \in {z \in {x} : IsPlain(z)}}
<1>8. /\ Sections(ax) = Sections(a) \cup new
      /\ Sorted(ax) <=> Sorted(a) /\ (IsPlain(x) => \A s \in Sections(a) : s < x.section)
  BY <1>2, SectionsAppend
<1>9. /\ Sections(px) = Sections(p) \cup new
      /\ Sorted(px) <=> Sorted(p) /\ (IsPlain(x) => \A s \in Sections(p) : s < x.section)
  BY <1>2, SectionsAppend
<1>10. new \subseteq Nat /\ Sections(a) \subseteq Nat /\ Sections(p) \subseteq Nat
  BY <1>2, LineKinds, SectionTypes
<1> HIDE DEF ax, px, new
<1>11. ASSUME NEW u \in Sections(ax) PROVE \E w \in Sections(px) : u <= w
  <2>1. CASE u \in new
    <3>1. u <= u
      BY <1>10, <2>1
    <3> QED BY <1>9, <2>1, <3>1
  <2>2. CASE u \in Sections(a)
    BY <1>1, <1>9, <2>2
  <2> QED BY <1>8, <2>1, <2>2
<1>12. ASSUME Sorted(px) PROVE Sorted(ax)
  <2>1. ASSUME IsPlain(x), NEW u \in Sections(a) PROVE u < x.section
    <3>1. PICK w \in Sections(p) : u <= w
      BY <1>1
    <3>2. w < x.section /\ x.section \in Nat
      BY <1>2, <1>9, <1>12, <2>1, LineKinds
    <3> QED BY <1>10, <3>1, <3>2
  <2> QED BY <1>1, <1>8, <1>9, <1>12, <2>1
<1> QED BY <1>3, <1>5, <1>6, <1>7, <1>11, <1>12 DEF Follows, Keeps, ax, px

(* A line is put in.                                                       *)
LEMMA PutIn ==
  ASSUME NEW of, NEW a, NEW p, NEW Y, Follows(of, a, p, Y), NEW x \in Whole, x.kind = "key",
         x \in Y, Fits(of, p, x)
  PROVE  Follows(of, Append(a, x), p, Y)
<1> DEFINE ax == Append(a, x)
<1>1. /\ a \in Seq(Whole) /\ p \in Seq(Whole) /\ WellFormed(of, a) /\ SameBut(a, p, Y)
      /\ Sorted(p) => Sorted(a)
      /\ \A S \in Skipped(of) : Top(a, S) = Top(p, S)
      /\ \A u \in Sections(a) : \E w \in Sections(p) : u <= w
  BY DEF Follows, Keeps
<1>2. a \in Seq(Line) /\ x \in Line /\ ~IsPlain(x) /\ \A S : ~HeaderBut(x, S)
  BY <1>1, LineKinds, SeqMonotonic
<1>3. ax \in Seq(Whole)
  BY <1>1, AppendFacts
<1>4. {} \in Skipped(of)
  BY DEF Skipped
<1>5. SameBut(ax, p, Y)
  BY <1>1, <1>4, SameSteps
<1>6. WellFormed(of, ax)
  <2>1. Fits(of, a, x)
    BY <1>1, <1>4 DEF Fits
  <2> QED BY <1>1, <1>2, <2>1, FitsAppend
<1>7. ASSUME NEW S \in Skipped(of) PROVE Top(ax, S) = Top(p, S)
  <2>1. Top(ax, S) = IF HeaderBut(x, S) THEN x ELSE Top(a, S)
    BY <1>2, AboveAppend
  <2> QED BY <1>1, <1>2, <2>1
<1>8. Sections(ax) = Sections(a) /\ (Sorted(ax) <=> Sorted(a))
  <2> DEFINE new == {y.section : y \in {z \in {x} : IsPlain(z)}}
  <2>1. new = {}
    BY <1>2
  <2> HIDE DEF new
  <2>2. /\ Sections(ax) = Sections(a) \cup new
        /\ Sorted(ax) <=> Sorted(a) /\ (IsPlain(x) => \A s \in Sections(a) : s < x.section)
    BY <1>2, SectionsAppend DEF new
  <2> QED BY <1>2, <2>1, <2>2
<1> HIDE DEF ax
<1> QED BY <1>1, <1>3, <1>5, <1>6, <1>7, <1>8 DEF Follows, Keeps, ax

(* A line is left out.                                                     *)
LEMMA LeaveOut ==
  ASSUME NEW of, NEW a, NEW p, NEW Y, Follows(of, a, p, Y), NEW x \in Whole, x.kind = "key", x \in Y
  PROVE  Follows(of, a, Append(p, x), Y)
<1> DEFINE px == Append(p, x)
<1>1. /\ a \in Seq(Whole) /\ p \in Seq(Whole) /\ WellFormed(of, a) /\ SameBut(a, p, Y)
      /\ Sorted(p) => Sorted(a)
      /\ \A S \in Skipped(of) : Top(a, S) = Top(p, S)
      /\ \A u \in Sections(a) : \E w \in Sections(p) : u <= w
  BY DEF Follows, Keeps
<1>2. p \in Seq(Line) /\ x \in Line /\ ~IsPlain(x) /\ \A S : ~HeaderBut(x, S)
  BY <1>1, LineKinds, SeqMonotonic
<1>3. px \in Seq(Whole)
  BY <1>1, AppendFacts
<1>4. {} \in Skipped(of)
  BY DEF Skipped
<1>5. SameBut(a, px, Y)
  BY <1>1, <1>4, SameSteps
<1>6. ASSUME NEW S \in Skipped(of) PROVE Top(a, S) = Top(px, S)
  <2>1. Top(px, S) = IF HeaderBut(x, S) THEN x ELSE Top(p, S)
    BY <1>2, AboveAppend
  <2> QED BY <1>1, <1>2, <2>1
<1>7. Sections(px) = Sections(p) /\ (Sorted(px) <=> Sorted(p))
  <2> DEFINE new == {y.section : y \in {z \in {x} : IsPlain(z)}}
  <2>1. new = {}
    BY <1>2
  <2> HIDE DEF new
  <2>2. /\ Sections(px) = Sections(p) \cup new
        /\ Sorted(px) <=> Sorted(p) /\ (IsPlain(x) => \A s \in Sections(p) : s < x.section)
    BY <1>2, SectionsAppend DEF new
  <2> QED BY <1>2, <2>1, <2>2
<1> HIDE DEF px
<1> QED BY <1>1, <1>3, <1>5, <1>6, <1>7 DEF Follows, Keeps, px
-----------------------------------------------------------------------------
(* Setting a key.                                                          *)

\* The places before which a line of the key may be put in, and the first.
Places(lines, s, k) ==
  {i \in DOMAIN lines : /\ IsHeader(Above(lines, i, {}), s)
                        /\ lines[i].kind = "key" => lines[i].key >= k
                        /\ lines[i].kind # "comment"}
IsPlace(lines, s, k, i) == i \in Places(lines, s, k) /\ i = Min(Places(lines, s, k))

Put(a, here, k, v) == IF here THEN Append(a, KeyLine(k, v)) ELSE a

\* What SetKey makes of one line.
SetOne(a, line, here, k, v, append) ==
  IF ~IsKey(line, k) THEN Append(Put(a, here, k, v), line)
  ELSE IF ~append THEN Put(a, here, k, v)
  ELSE IF line.value > v THEN Append(Put(a, here, k, v), line)
  ELSE Put(Append(a, line), here, k, v)

\* The key is the program's and the section is the one it belongs to.
Belongs(of, s, k) == s \in Owned(of) /\ k \in Key \ {Other} /\ Home(k) = s

\* f follows SetKey line by line.
Sets(f, lines, s, k, v, append) ==
  /\ f \in [0 .. Len(lines) -> Seq(Whole)] /\ f[0] = <<>>
  /\ \A i \in 1 .. Len(lines) :
       f[i] = SetOne(f[i - 1], lines[i], IsPlace(lines, s, k, i), k, v, append)

(* Names of keys are numbers.                                              *)
LEMMA KeyTypes == Key \subseteq Nat
BY DEF Key, AppliedIndex, Checksum, Other, ObjectId, Path, Revision, Url

(* The lines of a key of the program are places.                           *)
LEMMA KeyPlaces ==
  ASSUME NEW of, NEW lines \in Seq(Whole), WellFormed(of, lines), NEW s, NEW k, Belongs(of, s, k)
  PROVE  /\ Places(lines, s, k) \in SUBSET (1 .. Len(lines))
         /\ \A i \in 1 .. Len(lines) : IsKey(lines[i], k) => i \in Places(lines, s, k)
<1>1. DOMAIN lines = 1 .. Len(lines) /\ \A i \in 1 .. Len(lines) : lines[i] \in Line
  BY LenProperties, ElementOfSeq, LineKinds
<1>2. ASSUME NEW i \in 1 .. Len(lines), IsKey(lines[i], k) PROVE i \in Places(lines, s, k)
  <2>1. lines[i].kind = "key" /\ lines[i].key = k /\ lines[i].key # Other
    BY <1>2 DEF IsKey, Belongs
  <2>2. IsHeader(Above(lines, i, {}), s)
    BY <1>1, <2>1 DEF WellFormed, AtHome, Belongs
  <2>3. k >= k
    BY KeyTypes DEF Belongs
  <2> QED BY <1>1, <2>1, <2>2, <2>3 DEF Places
<1> QED BY <1>1, <1>2 DEF Places

(* SetKey, line by line.                                                   *)
LEMMA SetKeyGrows ==
  ASSUME NEW of, NEW lines \in Seq(Whole), WellFormed(of, lines),
         NEW s, NEW k, Belongs(of, s, k), NEW v \in Value, NEW append \in BOOLEAN
  PROVE  \E f : /\ Sets(f, lines, s, k, v, append)
                /\ SetKey(lines, s, k, v, append) =
                     Put(f[Len(lines)],
                         Places(lines, s, k) = {} /\ IsHeader(Top(lines, {}), s), k, v)
<1> DEFINE n == Len(lines)
           at == Places(lines, s, k)
           new(i) == IF i = Min(at) THEN <<KeyLine(k, v)>> ELSE <<>>
           out(i) ==
             CASE i \notin at                 -> <<lines[i]>>
               [] i \in at /\ ~IsKey(lines[i], k) -> new(i) \o <<lines[i]>>
               [] i \in at /\ IsKey(lines[i], k) ->
                    IF ~append THEN new(i)
                    ELSE IF lines[i].value > v THEN new(i) \o <<lines[i]>>
                    ELSE <<lines[i]>> \o new(i)
           ss == [i \in 1 .. n |-> out(i)]
           line == KeyLine(k, v)
           tail == IF at = {} /\ IsHeader(Top(lines, {}), s) THEN <<line>> ELSE <<>>
<1>1. /\ n \in Nat /\ DOMAIN lines = 1 .. n
      /\ \A i \in 1 .. n : lines[i] \in Whole /\ lines[i] \in Line
  BY LenProperties, ElementOfSeq, LineKinds
<1>2. line \in Whole
  BY DEF Belongs, KeyLine, Whole, Line
<1>3. SetKey(lines, s, k, v, append) = FlattenSeq(ss) \o tail
  <2> DEFINE in == Inside(lines, s)
  <2>1. \A i \in 0 .. n : in[i] <=> IsHeader(Above(lines, i + 1, {}), s)
    <3>1. lines \in Seq(Line)
      BY LineKinds, SeqMonotonic
    <3> QED BY <3>1, InsideFacts DEF Belongs
  <2>2. \A i \in 1 .. n : in[i - 1] <=> IsHeader(Above(lines, i, {}), s)
    <3>1. \A i \in 1 .. n : i - 1 \in 0 .. n /\ i - 1 + 1 = i
      BY <1>1
    <3> QED BY <2>1, <3>1
  <2>3. in[n] <=> IsHeader(Top(lines, {}), s)
    BY <1>1, <2>1 DEF Top
  <2> HIDE DEF in
  <2>4. at = {i \in DOMAIN lines : in[i - 1] /\ (lines[i].kind = "key" => lines[i].key >= k)
                                             /\ lines[i].kind # "comment"}
    BY <1>1, <2>2 DEF Places
  <2> HIDE DEF at
  <2> QED BY <1>1, <2>3, <2>4 DEF SetKey, in
<1>4. at \in SUBSET (1 .. n) /\ \A i \in 1 .. n : IsKey(lines[i], k) => i \in at
  BY KeyPlaces
<1> HIDE DEF n
<1>5. ASSUME NEW i \in 1 .. n
      PROVE  /\ out(i) \in Seq(Whole)
             /\ \A a \in Seq(Whole) :
                  a \o out(i) = SetOne(a, lines[i], IsPlace(lines, s, k, i), k, v, append)
  <2> DEFINE x == lines[i]
             here == IsPlace(lines, s, k, i)
  <2>1. x \in Whole
    BY <1>1
  <2>2. here <=> i \in at /\ i = Min(at)
    BY DEF IsPlace
  <2>3. IsKey(x, k) => i \in at
    BY <1>4
  <2> DEFINE N == IF here THEN <<line>> ELSE <<>>
             before == IF here THEN <<line, x>> ELSE <<x>>
             behind == IF here THEN <<x, line>> ELSE <<x>>
  <2>4. i \in at => new(i) = N
    BY <2>2
  <2>5. N \o <<x>> = before /\ <<x>> \o N = behind
    <3> HIDE DEF line, here
    <3>1. <<x>> \in Seq(Whole)
      BY <2>1
    <3>2. <<>> \o <<x>> = <<x>> /\ <<x>> \o <<>> = <<x>>
      BY <3>1, ConcatEmptySeq
    <3>3. <<line>> \o <<x>> = <<line, x>> /\ <<x>> \o <<line>> = <<x, line>>
      BY <1>2, <2>1, <3>1, ConcatShort
    <3> QED BY <3>2, <3>3
  <2> HIDE DEF at, here, line, N, before, behind, new
  <2>6. out(i) = IF ~IsKey(x, k) THEN before
                 ELSE IF ~append THEN N ELSE IF x.value > v THEN before ELSE behind
    <3>1. CASE i \in at
      BY <2>4, <2>5, <3>1
    <3>2. CASE i \notin at
      <4>1. ~IsKey(x, k) /\ ~here
        BY <2>2, <2>3, <3>2
      <4>2. before = <<x>>
        BY <4>1 DEF before
      <4> QED BY <3>2, <4>1, <4>2
    <3> QED BY <3>1, <3>2
  <2>7. N \in Seq(Whole) /\ before \in Seq(Whole) /\ behind \in Seq(Whole)
    BY <1>2, <2>1 DEF N, before, behind
  <2>8. ASSUME NEW a \in Seq(Whole)
        PROVE  /\ a \o N = Put(a, here, k, v)
               /\ a \o before = Append(Put(a, here, k, v), x)
               /\ a \o behind = Put(Append(a, x), here, k, v)
    <3>1. /\ a \o <<>> = a /\ a \o <<x>> = Append(a, x) /\ a \o <<line>> = Append(a, line)
          /\ a \o <<line, x>> = Append(Append(a, line), x)
          /\ a \o <<x, line>> = Append(Append(a, x), line)
      BY <1>2, <2>1, ConcatShort
    <3> QED BY <3>1 DEF N, before, behind, Put, line
  <2> HIDE DEF out
  <2>9. out(i) \in Seq(Whole)
    BY <2>6, <2>7
  <2>10. ASSUME NEW a \in Seq(Whole) PROVE a \o out(i) = SetOne(a, x, here, k, v, append)
    BY <2>6, <2>8 DEF SetOne
  <2> QED BY <2>9, <2>10 DEF here
<1>6. ss \in [1 .. n -> Seq(Whole)] /\ \A i \in 1 .. n : ss[i] = out(i)
  <2> HIDE DEF out
  <2> QED BY <1>5
<1> HIDE DEF ss, out
<1>7. PICK f : Grows(f, ss, n, Whole) /\ FlattenSeq(ss) = f[n]
  BY <1>1, <1>6, FlattenGrows
<1>8. Sets(f, lines, s, k, v, append)
  <2>1. ASSUME NEW i \in 1 .. n
        PROVE  f[i] = SetOne(f[i - 1], lines[i], IsPlace(lines, s, k, i), k, v, append)
    <3>1. f[i - 1] \in Seq(Whole)
      <4>1. i - 1 \in 0 .. n
        BY <1>1
      <4> QED BY <1>7, <4>1 DEF Grows
    <3>2. f[i] = f[i - 1] \o out(i)
      BY <1>6, <1>7 DEF Grows
    <3> QED BY <1>5, <3>1, <3>2
  <2> QED BY <1>7, <2>1 DEF Sets, Grows, n
<1>9. f[n] \o tail = Put(f[n], at = {} /\ IsHeader(Top(lines, {}), s), k, v)
  <2>1. f[n] \in Seq(Whole)
    BY <1>1, <1>7 DEF Grows
  <2>2. f[n] \o <<>> = f[n] /\ f[n] \o <<line>> = Append(f[n], line)
    BY <1>2, <2>1, ConcatShort
  <2> HIDE DEF at
  <2> QED BY <2>2 DEF Put
<1>10. SetKey(lines, s, k, v, append) = Put(f[n], at = {} /\ IsHeader(Top(lines, {}), s), k, v)
  BY <1>3, <1>7, <1>9
<1> QED BY <1>8, <1>10 DEF n

(* The line of a key fits into its section.                                *)
LEMMA KeyFits ==
  ASSUME NEW of, NEW s, NEW k, Belongs(of, s, k), NEW v \in Value, NEW p, IsHeader(Top(p, {}), s)
  PROVE  /\ KeyLine(k, v) \in Whole /\ KeyLine(k, v).kind = "key" /\ KeyLine(k, v).value = v
         /\ KeyLine(k, v) \in KeyLines(k) /\ Fits(of, p, KeyLine(k, v))
<1> DEFINE line == KeyLine(k, v)
<1>1. line \in Whole /\ line \in Line
  BY DEF Belongs, KeyLine, Whole, Line
<1>2. line.kind = "key" /\ line.key = k /\ line.value = v
  BY DEF KeyLine
<1> HIDE DEF line
<1>3. line \in KeyLines(k)
  BY <1>1, <1>2 DEF KeyLines, IsKey
<1>4. AtHome(Top(p, {}), line)
  BY <1>2 DEF AtHome, IsHeader, IsPlain, Belongs
<1>5. \A S : Apart(of, Top(p, S), line)
  BY <1>2 DEF Apart, IsHeader, IsPlain
<1> QED BY <1>1, <1>2, <1>3, <1>4, <1>5 DEF Fits, line

(* What SetKey makes of one line follows the file.                         *)
LEMMA SetOneFollows ==
  ASSUME NEW of, NEW s, NEW k, Belongs(of, s, k), NEW v \in Value, NEW append \in BOOLEAN,
         NEW a, NEW p, Follows(of, a, p, KeyLines(k)), NEW x \in Whole, Fits(of, p, x),
         NEW here \in BOOLEAN, here => IsHeader(Top(p, {}), s)
  PROVE  Follows(of, SetOne(a, x, here, k, v, append), Append(p, x), KeyLines(k))
<1> DEFINE line == KeyLine(k, v)
           Y == KeyLines(k)
<1>1. p \in Seq(Line) /\ x \in Line
  BY LineKinds, SeqMonotonic DEF Follows, Keeps
<1>2. \A q : IsHeader(Top(q, {}), s) => line \in Whole /\ line.kind = "key" /\ line \in Y /\ Fits(of, q, line)
  BY KeyFits
<1> HIDE DEF line, Y
<1>3. Follows(of, Put(a, here, k, v), p, Y)
  <2>1. CASE here
    <3>1. Follows(of, Append(a, line), p, Y)
      BY <1>2, <2>1, PutIn DEF Y
    <3> QED BY <2>1, <3>1 DEF Put, line
  <2>2. CASE ~here
    BY <2>2 DEF Put, Y
  <2> QED BY <2>1, <2>2
<1>4. Follows(of, Append(Put(a, here, k, v), x), Append(p, x), Y)
  BY <1>3, PassOn
<1>5. CASE ~IsKey(x, k)
  BY <1>4, <1>5 DEF SetOne, Y
<1>6. CASE IsKey(x, k)
  <2>1. x.kind = "key" /\ x \in Y /\ ~HeaderBut(x, {})
    BY <1>1, <1>6, LineKinds DEF Y
  <2>2. CASE ~append
    <3>1. Follows(of, Put(a, here, k, v), Append(p, x), Y)
      BY <1>3, <2>1, LeaveOut
    <3> QED BY <1>6, <2>2, <3>1 DEF SetOne, Y
  <2>3. CASE append /\ x.value > v
    BY <1>4, <1>6, <2>3 DEF SetOne, Y
  <2>4. CASE append /\ ~(x.value > v)
    <3>1. Follows(of, Append(a, x), Append(p, x), Y)
      BY PassOn DEF Y
    <3>2. Top(Append(p, x), {}) = Top(p, {})
      BY <1>1, <2>1, AboveAppend
    <3>3. Follows(of, Put(Append(a, x), here, k, v), Append(p, x), Y)
      <4>1. CASE here
        <5> DEFINE b == Append(a, x)
                   q == Append(p, x)
        <5>1. line \in Whole /\ line.kind = "key" /\ line \in Y /\ Fits(of, q, line)
          BY <1>2, <3>2, <4>1
        <5> HIDE DEF b, q
        <5>2. Follows(of, Append(b, line), q, Y)
          BY <3>1, <5>1, PutIn DEF b, q
        <5> QED BY <4>1, <5>2 DEF Put, line, b, q
      <4>2. CASE ~here
        BY <3>1, <4>2 DEF Put
      <4> QED BY <4>1, <4>2
    <3> QED BY <1>6, <2>4, <3>3 DEF SetOne, Y
  <2> QED BY <2>2, <2>3, <2>4
<1> QED BY <1>5, <1>6

(* What SetKey has passed on follows the lines it has read.                *)
LEMMA SetsFollow ==
  ASSUME NEW of, NEW lines \in Seq(Whole), WellFormed(of, lines),
         NEW s, NEW k, Belongs(of, s, k), NEW v \in Value, NEW append \in BOOLEAN,
         NEW f, Sets(f, lines, s, k, v, append)
  PROVE  \A i \in 0 .. Len(lines) : Follows(of, f[i], SubSeq(lines, 1, i), KeyLines(k))
<1> DEFINE n == Len(lines)
           Y == KeyLines(k)
           upto(i) == SubSeq(lines, 1, i)
<1>1. /\ n \in Nat /\ DOMAIN lines = 1 .. n /\ lines \in Seq(Line)
      /\ \A i \in 1 .. n : lines[i] \in Whole
  BY LenProperties, ElementOfSeq, LineKinds, SeqMonotonic
<1>2. /\ upto(0) = <<>> /\ upto(n) = lines
      /\ \A i \in 1 .. n : upto(i) = Append(upto(i - 1), lines[i])
  BY UptoFacts
<1>3. \A i \in 1 .. n : /\ Fits(of, upto(i - 1), lines[i])
                        /\ Top(upto(i - 1), {}) = Above(lines, i, {})
  <2>1. \A i \in 1 .. n : i \in 1 .. n + 1
    BY <1>1
  <2> QED BY <1>1, <2>1, FileFits
<1> HIDE DEF n, Y, upto
<1> DEFINE T == {i \in 0 .. n : Follows(of, f[i], upto(i), Y)}
<1>4. 0 \in T
  <2>1. 0 \in 0 .. n /\ f[0] = <<>>
    BY <1>1 DEF Sets
  <2> QED BY <1>2, <2>1, FollowsFirst
<1>5. ASSUME NEW i \in 1 .. n, i - 1 \in T PROVE i \in T
  <2> DEFINE here == IsPlace(lines, s, k, i)
             p == upto(i - 1)
             a == f[i - 1]
  <2>1. Follows(of, a, p, Y)
    BY <1>5
  <2>2. f[i] = SetOne(a, lines[i], here, k, v, append)
    BY DEF Sets, n
  <2>3. here \in BOOLEAN /\ (here => IsHeader(Top(p, {}), s))
    BY <1>3 DEF IsPlace, Places
  <2>4. Fits(of, p, lines[i]) /\ upto(i) = Append(p, lines[i]) /\ lines[i] \in Whole
    BY <1>1, <1>2, <1>3
  <2> HIDE DEF here, p, a
  <2>5. Follows(of, SetOne(a, lines[i], here, k, v, append), Append(p, lines[i]), Y)
    BY <2>1, <2>3, <2>4, SetOneFollows DEF Y
  <2>6. i \in 0 .. n
    BY <1>1
  <2> QED BY <2>2, <2>4, <2>5, <2>6
<1>6. \A i \in 0 .. n : i \in T
  <2>1. Climbs(T, n)
    <3> HIDE DEF T
    <3> QED BY <1>4, <1>5 DEF Climbs
  <2> HIDE DEF T
  <2> QED BY <1>1, <2>1, Upwards
<1> QED BY <1>6 DEF n, Y, upto

\* At the end of the section nothing has been put in yet.
AtEnd(lines, s, k) == Places(lines, s, k) = {} /\ IsHeader(Top(lines, {}), s)

(* SetKey leaves a good file, and all lines but the ones of the key.       *)
LEMMA SetKeyFollows ==
  ASSUME NEW of, NEW lines \in Seq(Whole), WellFormed(of, lines),
         NEW s, NEW k, Belongs(of, s, k), NEW v \in Value, NEW append \in BOOLEAN
  PROVE  Follows(of, SetKey(lines, s, k, v, append), lines, KeyLines(k))
<1> DEFINE Y == KeyLines(k)
           n == Len(lines)
           here == AtEnd(lines, s, k)
           line == KeyLine(k, v)
<1>1. PICK f : /\ Sets(f, lines, s, k, v, append)
               /\ SetKey(lines, s, k, v, append) = Put(f[n], here, k, v)
  BY SetKeyGrows DEF AtEnd
<1>2. Follows(of, f[n], lines, Y)
  <2>1. n \in 0 .. n /\ SubSeq(lines, 1, n) = lines
    BY LenProperties, UptoFacts
  <2> QED BY <1>1, <2>1, SetsFollow
<1> HIDE DEF Y, n
<1>3. CASE here
  <2>1. line \in Whole /\ line.kind = "key" /\ line \in Y /\ Fits(of, lines, line)
    BY <1>3, KeyFits DEF Y, AtEnd
  <2> HIDE DEF here, line
  <2>2. Follows(of, Append(f[n], line), lines, Y)
    BY <1>2, <2>1, PutIn
  <2>3. Put(f[n], here, k, v) = Append(f[n], line)
    BY <1>3 DEF Put, line
  <2> QED BY <1>1, <2>2, <2>3 DEF Y, here
<1>4. CASE ~here
  <2> HIDE DEF here
  <2>1. Put(f[n], here, k, v) = f[n]
    BY <1>4 DEF Put
  <2> QED BY <1>1, <1>2, <2>1 DEF Y, here
<1> QED BY <1>3, <1>4

(* In a file with the section there is a place, if only at the end.        *)
LEMMA PlaceThere ==
  ASSUME NEW lines \in Seq(Line), NEW s, NEW k, s \in Sections(lines)
  PROVE  Places(lines, s, k) # {} \/ AtEnd(lines, s, k)
<1> DEFINE n == Len(lines)
<1>1. n \in Nat /\ DOMAIN lines = 1 .. n /\ \A i \in 1 .. n : lines[i] \in Line
  BY LenProperties, ElementOfSeq
<1>2. PICK h \in 1 .. n : IsHeader(lines[h], s)
  BY <1>1 DEF Sections, IsHeader
<1> SUFFICES ASSUME Places(lines, s, k) = {} PROVE IsHeader(Top(lines, {}), s)
  BY DEF AtEnd
<1> DEFINE T == {j \in 0 .. n : j < h \/ IsHeader(Above(lines, j + 1, {}), s)}
<1>3. ASSUME NEW i \in 1 .. n, i - 1 \in T PROVE i \in T
  <2>1. Above(lines, i + 1, {}) = IF HeaderBut(lines[i], {}) THEN lines[i] ELSE Above(lines, i, {})
    BY AboveNext
  <2>2. HeaderBut(lines[i], {}) <=> lines[i].kind = "header"
    BY DEF HeaderBut
  <2>3. i - 1 + 1 = i /\ i \in 0 .. n
    BY <1>1
  <2>4. CASE i < h
    BY <2>3, <2>4
  <2>5. CASE i = h
    BY <1>2, <2>1, <2>2, <2>3, <2>5 DEF IsHeader, IsPlain
  <2>6. CASE i > h
    <3>1. IsHeader(Above(lines, i, {}), s)
      BY <1>1, <1>3, <2>3, <2>6
    <3>2. lines[i].kind # "header"
      BY <1>1, <3>1 DEF Places
    <3> QED BY <2>1, <2>2, <2>3, <3>1, <3>2
  <2> QED BY <1>1, <2>4, <2>5, <2>6
<1>4. n \in T
  <2>1. 0 \in T
    BY <1>1
  <2>2. Climbs(T, n)
    <3> HIDE DEF T
    <3> QED BY <1>3, <2>1 DEF Climbs
  <2>3. n \in 0 .. n
    BY <1>1
  <2> HIDE DEF T
  <2> QED BY <1>1, <2>2, <2>3, Upwards
<1> QED BY <1>1, <1>4 DEF Top

\* The values of a key in a section without subsection.
Values(a, s, k) == ValuesOf(a, s, FALSE, k)

\* The lines and the values of a key.
Found(a, s, k, ls, vs) == Only(a, KeyLines(k)) = ls /\ Values(a, s, k) = vs

(* What one more line adds to the lines and the values of a key.           *)
LEMMA FoundAppend ==
  ASSUME NEW of, NEW s, NEW k, Belongs(of, s, k), NEW a \in Seq(Whole), NEW x \in Whole
  PROVE  /\ Found(<<>>, s, k, <<>>, <<>>)
         /\ \A ls, vs : Found(a, s, k, ls, vs) =>
              /\ ~IsKey(x, k) => Found(Append(a, x), s, k, ls, vs)
              /\ IsKey(x, k) /\ IsHeader(Top(a, {}), s) =>
                   Found(Append(a, x), s, k, Append(ls, x), Append(vs, x.value))
<1>1. a \in Seq(Line) /\ x \in Line /\ (x \in KeyLines(k) <=> IsKey(x, k))
  BY LineKinds, SeqMonotonic
<1>2. Found(<<>>, s, k, <<>>, <<>>)
  <2>1. <<>> \in Seq(Line)
    OBVIOUS
  <2>2. Only(<<>>, KeyLines(k)) = <<>>
    BY <1>1, <2>1, OnlyAppend
  <2> QED BY <2>2, ValuesNone DEF Found, Values
<1>3. Only(Append(a, x), KeyLines(k)) =
        IF IsKey(x, k) THEN Append(Only(a, KeyLines(k)), x) ELSE Only(a, KeyLines(k))
  BY <1>1, OnlyAppend
<1>4. ValuesOf(Append(a, x), s, FALSE, k) =
        IF IsKey(x, k) /\ Below(Top(a, {}), s, FALSE)
        THEN Append(ValuesOf(a, s, FALSE, k), x.value) ELSE ValuesOf(a, s, FALSE, k)
  <2>1. \A sub : ValuesOf(Append(a, x), s, sub, k) =
          IF IsKey(x, k) /\ Below(Top(a, {}), s, sub)
          THEN Append(ValuesOf(a, s, sub, k), x.value) ELSE ValuesOf(a, s, sub, k)
    BY ValuesAppend
  <2> QED BY <2>1
<1>5. IsHeader(Top(a, {}), s) => Below(Top(a, {}), s, FALSE)
  <2>1. ASSUME IsHeader(Top(a, {}), s) PROVE Top(a, {}).sub = FALSE
    <3> DEFINE h == Top(a, {})
    <3>1. h \in Line
      BY <1>1, TopIn
    <3> HIDE DEF h
    <3>2. h.sub \in BOOLEAN /\ ~h.sub
      BY <2>1, <3>1 DEF Line, IsHeader, IsPlain, h
    <3> QED BY <3>2 DEF h
  <2> QED BY <2>1 DEF IsHeader, IsPlain, Below
<1> QED BY <1>2, <1>3, <1>4, <1>5 DEF Found, Values

\* Nothing has been put in up to line i.
NoneYet(lines, s, k, i) == \A j \in Places(lines, s, k) : j > i

(* The key is put in once, at the first place.                             *)
LEMMA PlaceOrder ==
  ASSUME NEW of, NEW lines \in Seq(Whole), WellFormed(of, lines), NEW s, NEW k, Belongs(of, s, k)
  PROVE  /\ NoneYet(lines, s, k, 0)
         /\ NoneYet(lines, s, k, Len(lines)) <=> Places(lines, s, k) = {}
         /\ \A i \in 1 .. Len(lines) :
              /\ IsPlace(lines, s, k, i) <=> NoneYet(lines, s, k, i - 1) /\ ~NoneYet(lines, s, k, i)
              /\ NoneYet(lines, s, k, i) => NoneYet(lines, s, k, i - 1)
              /\ IsKey(lines[i], k) => ~NoneYet(lines, s, k, i)
              /\ IsPlace(lines, s, k, i) => IsHeader(Above(lines, i, {}), s)
<1> DEFINE n == Len(lines)
           at == Places(lines, s, k)
           first(i) == NoneYet(lines, s, k, i)
<1>1. n \in Nat
  BY LenProperties
<1>2. at \in SUBSET (1 .. n) /\ \A i \in 1 .. n : IsKey(lines[i], k) => i \in at
  BY KeyPlaces
<1>3. \A i : first(i) <=> \A j \in at : j > i
  BY DEF NoneYet
<1> HIDE DEF n, at, first
<1>4. first(0) /\ (first(n) <=> at = {})
  <2>1. first(0)
    BY <1>1, <1>2, <1>3
  <2>2. ASSUME NEW j \in at PROVE ~first(n)
    <3>1. j \in 1 .. n /\ ~(j > n)
      BY <1>1, <1>2
    <3> QED BY <1>3, <3>1
  <2>3. at = {} => first(n)
    BY <1>3
  <2> QED BY <2>1, <2>2, <2>3
<1>5. ASSUME NEW i \in 1 .. n PROVE IsPlace(lines, s, k, i) <=> first(i - 1) /\ ~first(i)
  <2>1. CASE at = {}
    BY <1>3, <2>1 DEF IsPlace, at
  <2>2. CASE at # {}
    <3> DEFINE m == Min(at)
    <3>1. m \in at /\ \A j \in at : m <= j
      <4>1. at \in SUBSET (0 .. n)
        BY <1>2
      <4> QED BY <1>1, <2>2, <4>1, EndsFacts
    <3>2. m \in 1 .. n /\ \A j \in at : j \in 1 .. n
      BY <1>2, <3>1
    <3>3. IsPlace(lines, s, k, i) <=> i = m
      BY <3>1 DEF IsPlace, at
    <3> HIDE DEF m
    <3>4. first(i - 1) <=> i <= m
      BY <1>1, <1>3, <3>1, <3>2
    <3>5. first(i) <=> i < m
      BY <1>1, <1>3, <3>1, <3>2
    <3> QED BY <1>1, <3>2, <3>3, <3>4, <3>5
  <2> QED BY <2>1, <2>2
<1>6. ASSUME NEW i \in 1 .. n, first(i) PROVE first(i - 1)
  BY <1>1, <1>2, <1>3, <1>6
<1>7. ASSUME NEW i \in 1 .. n, IsKey(lines[i], k) PROVE ~first(i)
  <2>1. i \in at /\ ~(i > i)
    BY <1>1, <1>2, <1>7
  <2> QED BY <1>3, <2>1
<1>8. ASSUME NEW i \in 1 .. n, IsPlace(lines, s, k, i) PROVE IsHeader(Above(lines, i, {}), s)
  BY <1>8 DEF IsPlace, Places
<1> QED BY <1>4, <1>5, <1>6, <1>7, <1>8 DEF n, at, first

(* What SetKey has passed on ends below the header that is above the next  *)
(* line.                                                                   *)
LEMMA SetsTop ==
  ASSUME NEW of, NEW lines \in Seq(Whole), WellFormed(of, lines),
         NEW s, NEW k, Belongs(of, s, k), NEW v \in Value, NEW append \in BOOLEAN,
         NEW f, Sets(f, lines, s, k, v, append)
  PROVE  /\ Top(f[Len(lines)], {}) = Top(lines, {})
         /\ \A i \in 1 .. Len(lines) : Top(f[i - 1], {}) = Above(lines, i, {})
<1> DEFINE n == Len(lines)
           upto(i) == SubSeq(lines, 1, i)
<1>1. n \in Nat /\ lines \in Seq(Line)
  BY LenProperties, LineKinds, SeqMonotonic
<1>2. \A i \in 0 .. n : Top(f[i], {}) = Top(upto(i), {})
  <2>1. \A i \in 0 .. n : Follows(of, f[i], upto(i), KeyLines(k))
    BY SetsFollow
  <2>2. {} \in Skipped(of)
    BY DEF Skipped
  <2> HIDE DEF upto, n
  <2> QED BY <2>1, <2>2 DEF Follows
<1>3. upto(n) = lines
  BY UptoFacts
<1>4. \A i \in 1 .. n + 1 : Top(upto(i - 1), {}) = Above(lines, i, {})
  BY <1>1, FileFits
<1> HIDE DEF n, upto
<1>5. \A i \in 1 .. n : i \in 1 .. n + 1 /\ i - 1 \in 0 .. n
  BY <1>1
<1> QED BY <1>1, <1>2, <1>3, <1>4, <1>5 DEF n

(* A key that is set has this one line and value.                          *)
LEMMA SetKeyAlone ==
  ASSUME NEW of, NEW lines \in Seq(Whole), WellFormed(of, lines),
         NEW s, NEW k, Belongs(of, s, k), NEW v \in Value, s \in Sections(lines)
  PROVE  Found(SetKey(lines, s, k, v, FALSE), s, k, <<KeyLine(k, v)>>, <<v>>)
<1> DEFINE n == Len(lines)
           at == Places(lines, s, k)
           line == KeyLine(k, v)
           upto(i) == SubSeq(lines, 1, i)
<1>1. /\ n \in Nat /\ DOMAIN lines = 1 .. n /\ lines \in Seq(Line)
      /\ \A i \in 1 .. n : lines[i] \in Whole
  BY LenProperties, ElementOfSeq, LineKinds, SeqMonotonic
<1>2. PICK f : /\ Sets(f, lines, s, k, v, FALSE)
               /\ SetKey(lines, s, k, v, FALSE) = Put(f[n], AtEnd(lines, s, k), k, v)
  <2>1. \A append \in BOOLEAN :
          \E f : /\ Sets(f, lines, s, k, v, append)
                /\ SetKey(lines, s, k, v, append) = Put(f[n], AtEnd(lines, s, k), k, v)
    BY SetKeyGrows DEF AtEnd
  <2> QED BY <2>1
<1>3. /\ Top(f[n], {}) = Top(lines, {})
      /\ \A i \in 1 .. n : Top(f[i - 1], {}) = Above(lines, i, {})
  <2>1. \A append \in BOOLEAN : Sets(f, lines, s, k, v, append) =>
          /\ Top(f[n], {}) = Top(lines, {})
          /\ \A i \in 1 .. n : Top(f[i - 1], {}) = Above(lines, i, {})
    BY SetsTop
  <2> QED BY <1>2, <2>1
<1> DEFINE first(i) == NoneYet(lines, s, k, i)
<1>4. /\ first(0) /\ (first(n) <=> at = {})
      /\ \A i \in 1 .. n :
           /\ IsPlace(lines, s, k, i) <=> first(i - 1) /\ ~first(i)
           /\ first(i) => first(i - 1)
           /\ IsKey(lines[i], k) => ~first(i)
           /\ IsPlace(lines, s, k, i) => IsHeader(Above(lines, i, {}), s)
  BY PlaceOrder
<1>5. \A i \in 0 .. n : f[i] \in Seq(Whole)
  BY <1>2 DEF Sets
<1>6. line \in Whole /\ line.value = v /\ IsKey(line, k)
  <2>1. line \in Whole /\ line \in Line /\ line.value = v
    BY DEF Belongs, KeyLine, Whole, Line
  <2> QED BY <2>1 DEF IsKey, KeyLine
<1> HIDE DEF n, at, line
<1> HIDE DEF first
<1> DEFINE ok(i) == IF first(i) THEN Found(f[i], s, k, <<>>, <<>>) ELSE Found(f[i], s, k, <<line>>, <<v>>)
           T == {i \in 0 .. n : ok(i)}
<1>7. 0 \in T
  <2>1. f[0] = <<>> /\ first(0) /\ 0 \in 0 .. n
    BY <1>1, <1>2, <1>4 DEF Sets
  <2>2. Found(<<>>, s, k, <<>>, <<>>)
    BY <1>1, <1>5, <1>6, FoundAppend
  <2> QED BY <2>1, <2>2
<1>8. ASSUME NEW i \in 1 .. n, i - 1 \in T PROVE i \in T
  <2> DEFINE here == IsPlace(lines, s, k, i)
             a == f[i - 1]
             x == lines[i]
  <2>1. f[i] = SetOne(a, x, here, k, v, FALSE) /\ i \in 0 .. n /\ i - 1 \in 0 .. n
    <3>1. f[i] = SetOne(a, x, here, k, v, FALSE)
      BY <1>2 DEF Sets, n
    <3>2. i \in 0 .. n /\ i - 1 \in 0 .. n
      BY <1>1
    <3> QED BY <3>1, <3>2
  <2>2. here <=> first(i - 1) /\ ~first(i)
    BY <1>4
  <2>3. first(i) => first(i - 1)
    BY <1>4
  <2>4. IsKey(x, k) => ~first(i)
    BY <1>4
  <2>5. here => IsHeader(Top(a, {}), s)
    BY <1>3, <1>4
  <2>6. a \in Seq(Whole) /\ x \in Whole
    BY <1>1, <1>5, <2>1
  <2>7. ok(i - 1)
    BY <1>8
  <2> HIDE DEF a, x, here
  <2> DEFINE b == Put(a, here, k, v)
  <2>8. b \in Seq(Whole) /\ IF first(i) THEN Found(b, s, k, <<>>, <<>>) ELSE Found(b, s, k, <<line>>, <<v>>)
    <3>1. CASE here
      <4>1. b = Append(a, line)
        BY <3>1 DEF Put, line
      <4>2. Found(a, s, k, <<>>, <<>>)
        BY <2>2, <2>7, <3>1 DEF a
      <4>3. Found(Append(a, line), s, k, Append(<<>>, line), Append(<<>>, line.value))
        BY <1>6, <2>5, <2>6, <3>1, <4>2, FoundAppend
      <4>4. Append(<<>>, line) = <<line>> /\ Append(<<>>, line.value) = <<v>>
        BY <1>6
      <4>5. Append(a, line) \in Seq(Whole)
        BY <1>6, <2>6, AppendFacts
      <4> QED BY <2>2, <3>1, <4>1, <4>3, <4>4, <4>5
    <3>2. CASE ~here
      BY <2>2, <2>3, <2>6, <2>7, <3>2 DEF Put, a
    <3> QED BY <3>1, <3>2
  <2> HIDE DEF b
  <2>9. IF first(i) THEN Found(f[i], s, k, <<>>, <<>>) ELSE Found(f[i], s, k, <<line>>, <<v>>)
    <3>1. CASE IsKey(x, k)
      BY <2>1, <2>8, <3>1 DEF SetOne, b
    <3>2. CASE ~IsKey(x, k)
      <4>1. f[i] = Append(b, x)
        BY <2>1, <3>2 DEF SetOne, b
      <4> QED BY <2>6, <2>8, <3>2, <4>1, FoundAppend
    <3> QED BY <3>1, <3>2
  <2> QED BY <2>1, <2>9
<1>9. n \in T
  <2>1. Climbs(T, n)
    <3> HIDE DEF T
    <3> QED BY <1>7, <1>8 DEF Climbs
  <2>2. n \in 0 .. n
    BY <1>1
  <2> HIDE DEF T
  <2> QED BY <1>1, <2>1, <2>2, Upwards
<1>10. CASE AtEnd(lines, s, k)
  <2>1. Found(f[n], s, k, <<>>, <<>>)
    BY <1>4, <1>9, <1>10 DEF AtEnd, at
  <2>2. IsHeader(Top(f[n], {}), s)
    BY <1>3, <1>10 DEF AtEnd
  <2>3. f[n] \in Seq(Whole)
    BY <1>1, <1>5
  <2>4. Found(Append(f[n], line), s, k, Append(<<>>, line), Append(<<>>, line.value))
    BY <1>6, <2>1, <2>2, <2>3, FoundAppend
  <2>5. Append(<<>>, line) = <<line>> /\ Append(<<>>, line.value) = <<v>>
    BY <1>6
  <2> QED BY <1>2, <1>10, <2>4, <2>5 DEF Put, line
<1>11. CASE ~AtEnd(lines, s, k)
  <2>1. at # {}
    BY <1>1, <1>11, PlaceThere DEF at
  <2>2. ~first(n)
    BY <1>4, <2>1
  <2>3. Found(f[n], s, k, <<line>>, <<v>>)
    BY <1>9, <2>2
  <2> QED BY <1>2, <1>11, <2>3 DEF Put, line
<1> QED BY <1>10, <1>11

(* A sequence with one more element inside.                                *)
LEMMA InsertFacts ==
  ASSUME NEW S, NEW s \in Seq(S), NEW e \in S, NEW j \in 1 .. Len(s) + 1
  PROVE  /\ InsertAt(s, j, e) \in Seq(S) /\ Len(InsertAt(s, j, e)) = Len(s) + 1
         /\ \A l \in 1 .. Len(s) + 1 :
              InsertAt(s, j, e)[l] = IF l < j THEN s[l] ELSE IF l = j THEN e ELSE s[l - 1]
<1> DEFINE n == Len(s)
           a == SubSeq(s, 1, j - 1)
           b == SubSeq(s, j, n)
           ae == a \o <<e>>
           r == ae \o b
<1>1. n \in Nat /\ j \in Nat /\ j >= 1 /\ j <= n + 1 /\ \A l \in 1 .. n : s[l] \in S
  BY LenProperties, ElementOfSeq
<1>2. InsertAt(s, j, e) = r
  BY DEF InsertAt
<1>3. a \in Seq(S) /\ Len(a) = j - 1 /\ \A l \in 1 .. j - 1 : a[l] = s[l]
  <2>1. 1 \in Int /\ j - 1 \in Int /\ \A l \in 1 .. j - 1 : s[l] \in S
    BY <1>1
  <2>2. /\ a \in Seq(S) /\ Len(a) = IF 1 <= j - 1 THEN j - 1 - 1 + 1 ELSE 0
        /\ \A l \in 1 .. j - 1 - 1 + 1 : a[l] = s[1 + l - 1]
    BY <2>1, SubSeqProperties
  <2>3. \A l \in 1 .. j - 1 : l \in 1 .. j - 1 - 1 + 1 /\ 1 + l - 1 = l
    BY <1>1
  <2> HIDE DEF a
  <2> QED BY <1>1, <2>2, <2>3
<1>4. b \in Seq(S) /\ Len(b) = n + 1 - j /\ \A l \in 1 .. n + 1 - j : b[l] = s[j + l - 1]
  <2>1. n \in Int /\ j \in Int /\ \A l \in j .. n : s[l] \in S
    BY <1>1
  <2>2. /\ b \in Seq(S) /\ Len(b) = IF j <= n THEN n - j + 1 ELSE 0
        /\ \A l \in 1 .. n - j + 1 : b[l] = s[j + l - 1]
    BY <2>1, SubSeqProperties
  <2>3. n - j + 1 = n + 1 - j
    BY <1>1
  <2> HIDE DEF b, n
  <2> QED BY <1>1, <2>2, <2>3
<1> HIDE DEF n, a, b
<1>5. ae \in Seq(S) /\ Len(ae) = j /\ ae[j] = e /\ \A l \in 1 .. j - 1 : ae[l] = s[l]
  <2>1. ae = Append(a, e)
    BY <1>3, ConcatShort
  <2>2. /\ Append(a, e) \in Seq(S) /\ Len(Append(a, e)) = j - 1 + 1
        /\ \A l \in 1 .. j - 1 : Append(a, e)[l] = a[l]
        /\ Append(a, e)[j - 1 + 1] = e
    BY <1>3, AppendFacts
  <2>3. j - 1 + 1 = j
    BY <1>1
  <2> HIDE DEF ae
  <2> QED BY <1>3, <2>1, <2>2, <2>3
<1> HIDE DEF ae
<1>6. /\ r \in Seq(S) /\ Len(r) = n + 1
      /\ \A l \in 1 .. n + 1 : r[l] = IF l <= j THEN ae[l] ELSE b[l - j]
  <2>1. /\ r \in Seq(S) /\ Len(r) = Len(ae) + Len(b)
        /\ \A l \in 1 .. Len(ae) + Len(b) : r[l] = IF l <= Len(ae) THEN ae[l] ELSE b[l - Len(ae)]
    BY <1>4, <1>5, ConcatProperties
  <2>2. Len(ae) + Len(b) = n + 1 /\ Len(ae) = j
    BY <1>1, <1>4, <1>5
  <2> HIDE DEF r
  <2> QED BY <2>1, <2>2
<1> HIDE DEF r
<1>7. ASSUME NEW l \in 1 .. n + 1 PROVE r[l] = IF l < j THEN s[l] ELSE IF l = j THEN e ELSE s[l - 1]
  <2>1. CASE l < j
    <3>1. l \in 1 .. j - 1 /\ l <= j
      BY <1>1, <2>1
    <3> QED BY <1>5, <1>6, <2>1, <3>1
  <2>2. CASE l = j
    <3>1. l <= j /\ ~(l < j)
      BY <1>1, <2>2
    <3> QED BY <1>5, <1>6, <2>2, <3>1
  <2>3. CASE l > j
    <3>1. ~(l <= j) /\ ~(l < j) /\ l # j /\ l - j \in 1 .. n + 1 - j /\ j + (l - j) - 1 = l - 1
      BY <1>1, <2>3
    <3>2. b[l - j] = s[j + (l - j) - 1]
      BY <1>4, <3>1
    <3> QED BY <1>6, <3>1, <3>2
  <2> QED BY <1>1, <2>1, <2>2, <2>3
<1> QED BY <1>2, <1>6, <1>7 DEF n

(* It grows with the sequence.                                             *)
LEMMA InsertAppend ==
  ASSUME NEW S, NEW s \in Seq(S), NEW e \in S, NEW y \in S
  PROVE  /\ InsertAt(s, Len(s) + 1, e) = Append(s, e)
         /\ \A j \in 1 .. Len(s) + 1 : InsertAt(Append(s, y), j, e) = Append(InsertAt(s, j, e), y)
<1> DEFINE n == Len(s)
           sy == Append(s, y)
<1>1. n \in Nat
  BY LenProperties
<1>2. InsertAt(s, n + 1, e) = Append(s, e)
  <2> DEFINE r == InsertAt(s, n + 1, e)
             t == Append(s, e)
  <2>1. n + 1 \in 1 .. n + 1
    BY <1>1
  <2>2. /\ r \in Seq(S) /\ Len(r) = n + 1
        /\ \A l \in 1 .. n + 1 : r[l] = IF l < n + 1 THEN s[l] ELSE IF l = n + 1 THEN e ELSE s[l - 1]
    BY <2>1, InsertFacts
  <2>3. t \in Seq(S) /\ Len(t) = n + 1 /\ t[n + 1] = e /\ \A l \in 1 .. n : t[l] = s[l]
    BY AppendFacts
  <2> HIDE DEF r, t, n
  <2>4. ASSUME NEW l \in 1 .. n + 1 PROVE r[l] = t[l]
    <3>1. CASE l = n + 1
      <4>1. ~(l < n + 1)
        BY <1>1, <3>1
      <4> QED BY <2>2, <2>3, <3>1, <4>1
    <3>2. CASE l # n + 1
      <4>1. l \in 1 .. n /\ l < n + 1
        BY <1>1, <3>2
      <4> QED BY <2>2, <2>3, <4>1
    <3> QED BY <3>1, <3>2
  <2> QED BY <2>2, <2>3, <2>4, SeqEqual DEF r, t
<1>4. ASSUME NEW j \in 1 .. Len(s) + 1
      PROVE  /\ InsertAt(s, j, e) \in Seq(S) /\ Len(InsertAt(s, j, e)) = Len(s) + 1
             /\ \A l \in 1 .. Len(s) + 1 :
                  InsertAt(s, j, e)[l] = IF l < j THEN s[l] ELSE IF l = j THEN e ELSE s[l - 1]
  <2> HIDE DEF n, sy
  <2> QED BY InsertFacts
<1>3. ASSUME NEW j \in 1 .. n + 1 PROVE InsertAt(sy, j, e) = Append(InsertAt(s, j, e), y)
  <2> DEFINE r == InsertAt(sy, j, e)
             q == InsertAt(s, j, e)
             t == Append(q, y)
             m == n + 1
  <2>1. /\ sy \in Seq(S) /\ Len(sy) = m /\ sy[m] = y /\ \A l \in 1 .. n : sy[l] = s[l]
    BY AppendFacts
  <2>2. /\ q \in Seq(S) /\ Len(q) = m
        /\ \A l \in 1 .. m : q[l] = IF l < j THEN s[l] ELSE IF l = j THEN e ELSE s[l - 1]
    BY <1>4
  <2> HIDE DEF sy, q, n
  <2>3. m \in Nat /\ m > n /\ m - 1 = n /\ j \in 1 .. m /\ j \in 1 .. m + 1
    BY <1>1
  <2> HIDE DEF m
  <2>4. /\ r \in Seq(S) /\ Len(r) = m + 1
        /\ \A l \in 1 .. m + 1 : r[l] = IF l < j THEN sy[l] ELSE IF l = j THEN e ELSE sy[l - 1]
    <3>1. j \in 1 .. Len(sy) + 1
      BY <2>1, <2>3
    <3>2. /\ r \in Seq(S) /\ Len(r) = Len(sy) + 1
          /\ \A l \in 1 .. Len(sy) + 1 : r[l] = IF l < j THEN sy[l] ELSE IF l = j THEN e ELSE sy[l - 1]
      <4>1. sy \in Seq(S)
        BY <2>1
      <4> QED BY ONLY <4>1, <3>1, e \in S, InsertFacts
    <3> HIDE DEF r
    <3> QED BY <2>1, <3>2
  <2>5. /\ t \in Seq(S) /\ Len(t) = m + 1 /\ t[m + 1] = y
        /\ \A l \in 1 .. m : t[l] = q[l]
    BY <2>2, AppendFacts
  <2> HIDE DEF r, t
  <2>6. ASSUME NEW l \in 1 .. m + 1 PROVE r[l] = t[l]
    <3>1. CASE l = m + 1
      <4>1. ~(l < j) /\ l # j /\ l - 1 = m
        BY <2>3, <3>1
      <4>2. r[l] = sy[m]
        BY <2>4, <4>1
      <4> QED BY <2>1, <2>5, <3>1, <4>2
    <3>2. CASE l < j
      <4>1. l \in 1 .. m /\ l \in 1 .. n
        BY <1>1, <2>3, <3>2
      <4> QED BY <2>1, <2>2, <2>4, <2>5, <3>2, <4>1
    <3>3. CASE l = j
      <4>1. l \in 1 .. m /\ ~(l < j)
        BY <2>3, <3>3
      <4> QED BY <2>2, <2>4, <2>5, <3>3, <4>1
    <3>4. CASE l > j /\ l # m + 1
      <4>1. l \in 1 .. m /\ l - 1 \in 1 .. n /\ ~(l < j) /\ l # j
        BY <1>1, <2>3, <3>4
      <4> QED BY <2>1, <2>2, <2>4, <2>5, <4>1
    <3> QED BY <2>3, <3>1, <3>2, <3>3, <3>4
  <2>7. r = t
    <3>1. \A l \in 1 .. Len(r) : r[l] = t[l]
      BY <2>4, <2>6
    <3> QED BY <2>4, <2>5, <3>1, SeqEqual
  <2> QED BY <2>7 DEF r, t, sy, q
<1> QED BY <1>2, <1>3 DEF n, sy

\* One value more, the others in their order.
OneMore(vs, ws, v) == \E j \in 1 .. Len(vs) + 1 : ws = InsertAt(vs, j, v)

(* It may be the last one, and others may follow.                          *)
LEMMA OneMoreSteps ==
  ASSUME NEW vs \in Seq(Value), NEW v \in Value
  PROVE  /\ OneMore(vs, Append(vs, v), v)
         /\ \A ws : \A y \in Value : OneMore(vs, ws, v) => OneMore(Append(vs, y), Append(ws, y), v)
<1>1. Len(vs) \in Nat
  BY LenProperties
<1>2. OneMore(vs, Append(vs, v), v)
  <2>1. Append(vs, v) = InsertAt(vs, Len(vs) + 1, v)
    BY InsertAppend
  <2>2. Len(vs) + 1 \in 1 .. Len(vs) + 1
    BY <1>1
  <2> QED BY <2>1, <2>2 DEF OneMore
<1>3. ASSUME NEW ws, NEW y \in Value, OneMore(vs, ws, v)
      PROVE  OneMore(Append(vs, y), Append(ws, y), v)
  <2>1. PICK j \in 1 .. Len(vs) + 1 : ws = InsertAt(vs, j, v)
    BY <1>3 DEF OneMore
  <2>2. InsertAt(Append(vs, y), j, v) = Append(InsertAt(vs, j, v), y)
    BY InsertAppend
  <2>3. Len(Append(vs, y)) = Len(vs) + 1
    BY AppendFacts
  <2>4. j \in 1 .. Len(vs) + 1 + 1
    BY <1>1
  <2> HIDE DEF OneMore
  <2>5. j \in 1 .. Len(Append(vs, y)) + 1
    BY <2>3, <2>4
  <2> QED BY <2>1, <2>2, <2>5 DEF OneMore
<1> QED BY <1>2, <1>3

(* What one more line adds to the values of a key in its section.          *)
LEMMA KeyAppend ==
  ASSUME NEW of, NEW s, NEW k, Belongs(of, s, k), NEW a \in Seq(Whole), NEW x \in Whole
  PROVE  /\ Values(a, s, k) \in Seq(Value)
         /\ ~IsKey(x, k) => Values(Append(a, x), s, k) = Values(a, s, k)
         /\ IsKey(x, k) /\ IsHeader(Top(a, {}), s) =>
              Values(Append(a, x), s, k) = Append(Values(a, s, k), x.value)
<1>1. \A ls, vs : Found(a, s, k, ls, vs) =>
        /\ ~IsKey(x, k) => Found(Append(a, x), s, k, ls, vs)
        /\ IsKey(x, k) /\ IsHeader(Top(a, {}), s) =>
             Found(Append(a, x), s, k, Append(ls, x), Append(vs, x.value))
  BY FoundAppend
<1> DEFINE ls == Only(a, KeyLines(k))
           vs == Values(a, s, k)
<1>2. Found(a, s, k, ls, vs)
  BY DEF Found
<1>3. \A sub : ValuesOf(a, s, sub, k) \in Seq(Value)
  BY ValuesAppend
<1> HIDE DEF ls, vs
<1>4. ~IsKey(x, k) => Values(Append(a, x), s, k) = vs
  <2>1. ~IsKey(x, k) => Found(Append(a, x), s, k, ls, vs)
    BY <1>1, <1>2
  <2> QED BY <2>1 DEF Found
<1>5. IsKey(x, k) /\ IsHeader(Top(a, {}), s) =>
        Values(Append(a, x), s, k) = Append(vs, x.value)
  <2>1. IsKey(x, k) /\ IsHeader(Top(a, {}), s) =>
          Found(Append(a, x), s, k, Append(ls, x), Append(vs, x.value))
    BY <1>1, <1>2
  <2> QED BY <2>1 DEF Found
<1> QED BY <1>3, <1>4, <1>5 DEF vs, Values

(* A key that is added has one value more.                                 *)
LEMMA SetKeyInserts ==
  ASSUME NEW of, NEW lines \in Seq(Whole), WellFormed(of, lines),
         NEW s, NEW k, Belongs(of, s, k), NEW v \in Value, s \in Sections(lines)
  PROVE  OneMore(Values(lines, s, k), Values(SetKey(lines, s, k, v, TRUE), s, k), v)
<1> DEFINE n == Len(lines)
           at == Places(lines, s, k)
           line == KeyLine(k, v)
           upto(i) == SubSeq(lines, 1, i)
           V(a) == Values(a, s, k)
<1>1. /\ n \in Nat /\ DOMAIN lines = 1 .. n /\ lines \in Seq(Line)
      /\ \A i \in 1 .. n : lines[i] \in Whole
  BY LenProperties, ElementOfSeq, LineKinds, SeqMonotonic
<1>2. PICK f : /\ Sets(f, lines, s, k, v, TRUE)
               /\ SetKey(lines, s, k, v, TRUE) = Put(f[n], AtEnd(lines, s, k), k, v)
  <2>1. \A append \in BOOLEAN :
          \E f : /\ Sets(f, lines, s, k, v, append)
                /\ SetKey(lines, s, k, v, append) = Put(f[n], AtEnd(lines, s, k), k, v)
    BY SetKeyGrows DEF AtEnd
  <2> QED BY <2>1
<1>3. /\ Top(f[n], {}) = Top(lines, {})
      /\ \A i \in 1 .. n : Top(f[i - 1], {}) = Above(lines, i, {})
  <2>1. \A append \in BOOLEAN : Sets(f, lines, s, k, v, append) =>
          /\ Top(f[n], {}) = Top(lines, {})
          /\ \A i \in 1 .. n : Top(f[i - 1], {}) = Above(lines, i, {})
    BY SetsTop
  <2> QED BY <1>2, <2>1
<1> DEFINE first(i) == NoneYet(lines, s, k, i)
<1>4. /\ first(0) /\ (first(n) <=> at = {})
      /\ \A i \in 1 .. n :
           /\ IsPlace(lines, s, k, i) <=> first(i - 1) /\ ~first(i)
           /\ first(i) => first(i - 1)
           /\ IsKey(lines[i], k) => ~first(i)
           /\ IsPlace(lines, s, k, i) => IsHeader(Above(lines, i, {}), s)
  BY PlaceOrder
<1>5. \A i \in 0 .. n : f[i] \in Seq(Whole)
  BY <1>2 DEF Sets
<1>6. line \in Whole /\ line.value = v /\ IsKey(line, k)
  <2>1. line \in Whole /\ line \in Line /\ line.value = v
    BY DEF Belongs, KeyLine, Whole, Line
  <2> QED BY <2>1 DEF IsKey, KeyLine
<1>7. /\ upto(0) = <<>> /\ upto(n) = lines /\ \A i \in 0 .. n : upto(i) \in Seq(Whole)
      /\ \A i \in 1 .. n : upto(i) = Append(upto(i - 1), lines[i])
  BY UptoFacts
<1>8. \A i \in 1 .. n : Top(upto(i - 1), {}) = Above(lines, i, {})
  <2>1. \A i \in 1 .. n : i \in 1 .. n + 1
    BY <1>1
  <2> QED BY <1>1, <2>1, FileFits
<1>9. \A i \in 1 .. n : IsKey(lines[i], k) => IsHeader(Above(lines, i, {}), s)
  <2>1. \A i \in 1 .. n : IsKey(lines[i], k) => i \in at
    BY KeyPlaces
  <2> QED BY <2>1 DEF Places
<1> HIDE DEF n, at, line, upto, first
<1>10. \A a \in Seq(Whole), x \in Whole :
         /\ V(a) \in Seq(Value)
         /\ ~IsKey(x, k) => V(Append(a, x)) = V(a)
         /\ IsKey(x, k) /\ IsHeader(Top(a, {}), s) => V(Append(a, x)) = Append(V(a), x.value)
  <2> SUFFICES ASSUME NEW a \in Seq(Whole), NEW x \in Whole
               PROVE  /\ V(a) \in Seq(Value)
                      /\ ~IsKey(x, k) => V(Append(a, x)) = V(a)
                      /\ IsKey(x, k) /\ IsHeader(Top(a, {}), s) => V(Append(a, x)) = Append(V(a), x.value)
    OBVIOUS
  <2> QED BY KeyAppend
<1> HIDE DEF V
<1> DEFINE ok(i) == IF first(i) THEN V(f[i]) = V(upto(i)) ELSE OneMore(V(upto(i)), V(f[i]), v)
           T == {i \in 0 .. n : ok(i)}
<1>11. 0 \in T
  <2>1. f[0] = <<>> /\ first(0) /\ 0 \in 0 .. n
    BY <1>1, <1>2, <1>4 DEF Sets
  <2> QED BY <1>7, <2>1
<1>12. ASSUME NEW i \in 1 .. n, i - 1 \in T PROVE i \in T
  <2> DEFINE here == IsPlace(lines, s, k, i)
             a == f[i - 1]
             x == lines[i]
             p == upto(i - 1)
             q == upto(i)
  <2>1. f[i] = SetOne(a, x, here, k, v, TRUE) /\ i \in 0 .. n /\ i - 1 \in 0 .. n
    <3>1. f[i] = SetOne(a, x, here, k, v, TRUE)
      BY <1>2 DEF Sets, n
    <3>2. i \in 0 .. n /\ i - 1 \in 0 .. n
      BY <1>1
    <3> QED BY <3>1, <3>2
  <2>2. here <=> first(i - 1) /\ ~first(i)
    BY <1>4
  <2>3. first(i) => first(i - 1)
    BY <1>4
  <2>4. IsKey(x, k) => ~first(i)
    BY <1>4
  <2>5. /\ here \/ IsKey(x, k) => IsHeader(Top(a, {}), s)
        /\ IsKey(x, k) => IsHeader(Top(p, {}), s)
    BY <1>3, <1>4, <1>8, <1>9
  <2>6. a \in Seq(Whole) /\ x \in Whole /\ p \in Seq(Whole) /\ q = Append(p, x)
    BY <1>1, <1>5, <1>7, <2>1
  <2>7. IF first(i - 1) THEN V(a) = V(p) ELSE OneMore(V(p), V(a), v)
    BY <1>12
  <2>8. first(i) \in BOOLEAN /\ first(i - 1) \in BOOLEAN
    BY DEF first, NoneYet
  <2> HIDE DEF a, x, here, p, q
  <2> DEFINE b == Put(a, here, k, v)
  <2>9. V(p) \in Seq(Value)
    BY <1>10, <2>6
  <2>10. OneMore(V(p), Append(V(p), v), v)
    BY <2>9, OneMoreSteps
  <2>11. b \in Seq(Whole) /\ Top(b, {}) = Top(a, {})
         /\ IF first(i) THEN V(b) = V(p) ELSE OneMore(V(p), V(b), v)
    <3>1. CASE here
      <4>1. b = Append(a, line)
        BY <3>1 DEF Put, line
      <4>2. V(a) = V(p)
        BY <2>2, <2>7, <3>1
      <4>3. V(b) = Append(V(p), v)
        <5> HIDE DEF b
        <5>1. V(Append(a, line)) = Append(V(a), v)
          BY <1>6, <1>10, <2>5, <2>6, <3>1
        <5> QED BY <4>1, <4>2, <5>1
      <4>4. Append(a, line) \in Seq(Whole)
        BY <1>6, <2>6, AppendFacts
      <4>5. Top(Append(a, line), {}) = Top(a, {})
        <5>1. a \in Seq(Line) /\ line \in Line /\ ~HeaderBut(line, {})
          BY <1>6, <2>6, LineKinds, SeqMonotonic
        <5> QED BY <5>1, AboveAppend
      <4> QED BY <2>2, <2>10, <3>1, <4>1, <4>3, <4>4, <4>5
    <3>2. CASE ~here
      BY <2>2, <2>3, <2>6, <2>7, <3>2 DEF Put
    <3> QED BY <3>1, <3>2
  <2>12. CASE ~IsKey(x, k)
    <3>1. f[i] = Append(b, x)
      BY <2>1, <2>12 DEF SetOne
    <3> HIDE DEF b
    <3>2. V(f[i]) = V(b) /\ V(q) = V(p)
      BY <1>10, <2>6, <2>11, <2>12, <3>1
    <3>3. ok(i)
      BY <2>11, <3>2 DEF q
    <3> QED BY <2>1, <3>3
  <2>13. CASE IsKey(x, k)
    <3>1. V(q) = Append(V(p), x.value) /\ x.value \in Value
      BY <1>10, <2>5, <2>6, <2>13, LineKinds
    <3>2. CASE x.value > v \/ ~here
      <4>1. f[i] = Append(b, x)
        BY <2>1, <2>13, <3>2 DEF SetOne, Put
      <4> HIDE DEF b
      <4>2. V(f[i]) = Append(V(b), x.value)
        BY <1>10, <2>5, <2>6, <2>11, <2>13, <4>1
      <4>3. OneMore(V(p), V(b), v)
        BY <2>4, <2>11, <2>13
      <4>4. OneMore(Append(V(p), x.value), Append(V(b), x.value), v)
        BY <2>9, <3>1, <4>3, OneMoreSteps
      <4>5. ok(i)
        BY <2>4, <2>13, <3>1, <4>2, <4>4 DEF q
      <4> QED BY <2>1, <4>5
    <3>3. CASE ~(x.value > v) /\ here
      <4> DEFINE ax == Append(a, x)
      <4>1. f[i] = Append(ax, line)
        BY <2>1, <2>13, <3>3 DEF SetOne, Put, line
      <4>2. ax \in Seq(Whole) /\ Top(ax, {}) = Top(a, {})
        <5>1. a \in Seq(Line) /\ x \in Line /\ ~HeaderBut(x, {})
          BY <2>6, <2>13, LineKinds, SeqMonotonic
        <5>2. ax \in Seq(Whole)
          BY <2>6, AppendFacts
        <5> QED BY <5>1, <5>2, AboveAppend
      <4>3. V(ax) = V(q)
        BY <1>10, <2>2, <2>5, <2>6, <2>7, <2>13, <3>1, <3>3
      <4> HIDE DEF ax
      <4>4. V(f[i]) = Append(V(q), v)
        BY <1>6, <1>10, <2>5, <3>3, <4>1, <4>2, <4>3
      <4>5. OneMore(V(q), Append(V(q), v), v)
        <5>1. V(q) \in Seq(Value)
          BY <1>10, <2>6, <4>2, <4>3
        <5> QED BY <5>1, OneMoreSteps
      <4>6. ok(i)
        BY <2>4, <2>13, <4>4, <4>5 DEF q
      <4> QED BY <2>1, <4>6
    <3> QED BY <3>2, <3>3
  <2> QED BY <2>12, <2>13
<1>13. n \in T
  <2>1. Climbs(T, n)
    <3> HIDE DEF T
    <3> QED BY <1>11, <1>12 DEF Climbs
  <2>2. n \in 0 .. n
    BY <1>1
  <2> HIDE DEF T
  <2> QED BY <1>1, <2>1, <2>2, Upwards
<1>14. CASE AtEnd(lines, s, k)
  <2>1. V(f[n]) = V(lines)
    BY <1>4, <1>7, <1>13, <1>14 DEF AtEnd, at
  <2>2. IsHeader(Top(f[n], {}), s)
    BY <1>3, <1>14 DEF AtEnd
  <2>3. f[n] \in Seq(Whole)
    BY <1>1, <1>5
  <2>4. V(Append(f[n], line)) = Append(V(lines), v)
    BY <1>6, <1>10, <2>1, <2>2, <2>3
  <2>5. OneMore(V(lines), Append(V(lines), v), v)
    <3>1. V(lines) \in Seq(Value)
      BY <1>6, <1>10
    <3> QED BY <3>1, OneMoreSteps
  <2> QED BY <1>2, <1>14, <2>4, <2>5 DEF Put, line, V
<1>15. CASE ~AtEnd(lines, s, k)
  <2>1. at # {}
    BY <1>1, <1>15, PlaceThere DEF at
  <2>2. OneMore(V(lines), V(f[n]), v)
    BY <1>4, <1>7, <1>13, <2>1
  <2> QED BY <1>2, <1>15, <2>2 DEF Put, V
<1> QED BY <1>14, <1>15

-----------------------------------------------------------------------------
(* Adding a section.                                                       *)

(* Its header fits behind sections with smaller names.                     *)
LEMMA HeaderFits ==
  ASSUME NEW of, NEW p \in Seq(Whole), WellFormed(of, p), NEW s \in Owned(of),
         \A u \in Sections(p) : u < s
  PROVE  LET H == HeaderLine(s, FALSE)
             ph == Append(p, H)
         IN /\ H \in Whole /\ IsHeader(H, s) /\ H.kind = "header"
            /\ ph \in Seq(Whole) /\ WellFormed(of, ph) /\ SameBut(ph, p, {H})
            /\ Sections(ph) = Sections(p) \cup {s}
            /\ Sorted(p) => Sorted(ph)
            /\ \A S : Top(ph, S) = IF HeaderBut(H, S) THEN H ELSE Top(p, S)
<1> DEFINE H == HeaderLine(s, FALSE)
           ph == Append(p, H)
<1>1. s \in Nat
  BY DEF Owned, Subprojects, Subtree, Upstream
<1>2. /\ H \in Whole /\ H \in Line /\ H.kind = "header" /\ H.section = s /\ IsPlain(H)
      /\ \A u : IsHeader(H, u) <=> u = s
  BY <1>1 DEF HeaderLine, Whole, Line, IsHeader, IsPlain
<1>3. p \in Seq(Line)
  BY LineKinds, SeqMonotonic
<1> HIDE DEF H
<1>4. Fits(of, p, H)
  <2>1. AtHome(Top(p, {}), H)
    BY <1>2 DEF AtHome
  <2>2. ASSUME NEW S, NEW u \in Owned(of), IsHeader(H, u) PROVE ~IsHeader(Top(p, S), u)
    <3>1. u = s
      BY <1>2, <2>2
    <3>2. ASSUME IsHeader(Top(p, S), s) PROVE FALSE
      <4>1. IsPlain(Top(p, S)) /\ Top(p, S).section = s
        BY <3>2 DEF IsHeader
      <4>2. s \in Sections(p)
        BY <1>3, <4>1, TopIn
      <4>3. s < s
        BY <4>2
      <4> QED BY <1>1, <4>3
    <3> QED BY <3>1, <3>2
  <2> QED BY <2>1, <2>2 DEF Fits, Apart
<1>5. ph \in Seq(Whole) /\ WellFormed(of, ph)
  <2>1. ph \in Seq(Whole)
    BY <1>2, AppendFacts
  <2> QED BY <1>2, <1>3, <1>4, <2>1, FitsAppend
<1>6. SameBut(ph, p, {H})
  <2>1. SameBut(p, p, {H})
    BY DEF SameBut
  <2>2. H \in {H} /\ (H.kind = "key" => Top(p, {}) = Top(p, {}))
    OBVIOUS
  <2> QED BY <1>2, <2>1, <2>2, SameSteps
<1>7. /\ Sections(ph) = Sections(p) \cup {s}
      /\ Sorted(p) => Sorted(ph)
  <2> DEFINE new == {y.section : y \in {z \in {H} : IsPlain(z)}}
  <2>1. /\ Sections(ph) = Sections(p) \cup new
        /\ Sorted(ph) <=> Sorted(p) /\ (IsPlain(H) => \A u \in Sections(p) : u < H.section)
    BY <1>2, <1>3, SectionsAppend
  <2>2. new = {s}
    BY <1>2
  <2> HIDE DEF new
  <2> QED BY <1>2, <2>1, <2>2
<1>8. \A S : Top(ph, S) = IF HeaderBut(H, S) THEN H ELSE Top(p, S)
  BY <1>2, <1>3, AboveAppend
<1>9. IsHeader(H, s)
  BY <1>2
<1> QED BY <1>2, <1>5, <1>6, <1>7, <1>8, <1>9 DEF H

(* Before a bigger section.                                                *)
LEMMA AddHeader ==
  ASSUME NEW of, NEW p \in Seq(Whole), WellFormed(of, p), NEW s \in Owned(of),
         \A u \in Sections(p) : u < s,
         NEW x \in Whole, IsPlain(x), x.section > s, Fits(of, p, x)
  PROVE  LET r == Append(Append(p, HeaderLine(s, FALSE)), x)
         IN Follows(of, r, Append(p, x), {HeaderLine(s, FALSE)}) /\ s \in Sections(r)
<1> DEFINE H == HeaderLine(s, FALSE)
           ph == Append(p, H)
           px == Append(p, x)
           r == Append(ph, x)
<1>1. s \in Nat
  BY DEF Owned, Subprojects, Subtree, Upstream
<1>2. /\ H \in Whole /\ IsHeader(H, s) /\ H.kind = "header"
      /\ ph \in Seq(Whole) /\ WellFormed(of, ph) /\ SameBut(ph, p, {H})
      /\ Sections(ph) = Sections(p) \cup {s}
      /\ Sorted(p) => Sorted(ph)
      /\ \A S : Top(ph, S) = IF HeaderBut(H, S) THEN H ELSE Top(p, S)
  BY HeaderFits
<1>3. p \in Seq(Line) /\ ph \in Seq(Line) /\ x \in Line /\ H \in Line
  BY <1>2, LineKinds, SeqMonotonic
<1>4. x.kind = "header" /\ x.section \in Nat /\ x.kind # "key"
  BY <1>3, LineKinds
<1> HIDE DEF H, ph
<1>5. r \in Seq(Whole) /\ px \in Seq(Whole)
  BY <1>2, AppendFacts
<1>6. WellFormed(of, r)
  <2>1. ASSUME NEW S \in Skipped(of) PROVE Apart(of, Top(ph, S), x)
    <3>1. Apart(of, Top(p, S), x)
      BY <2>1 DEF Fits
    <3>2. Apart(of, H, x)
      <4>1. \A u : IsHeader(x, u) => u = x.section
        BY DEF IsHeader
      <4>2. \A u : IsHeader(H, u) => u = s
        BY <1>2 DEF IsHeader
      <4>3. x.section # s
        BY <1>1, <1>4
      <4> QED BY <4>1, <4>2, <4>3 DEF Apart
    <3> QED BY <1>2, <3>1, <3>2
  <2>2. AtHome(Top(ph, {}), x)
    BY <1>4 DEF AtHome
  <2>3. Fits(of, ph, x)
    BY <2>1, <2>2 DEF Fits
  <2> QED BY <1>2, <1>3, <2>3, FitsAppend
<1>7. SameBut(r, px, {H})
  BY <1>2, <1>4, SameSteps
<1>8. ASSUME NEW S \in Skipped(of) PROVE Top(r, S) = Top(px, S)
  <2>1. HeaderBut(x, S)
    <3>1. ASSUME NEW u \in S PROVE u \in Owned(of) /\ u = Subtree
      BY DEF Skipped
    <3>2. ASSUME Subtree \in Owned(of) PROVE s >= Subtree
      BY <3>2 DEF Owned, Subprojects, Subtree, Upstream
    <3>3. ASSUME NEW u \in S PROVE x.section # u
      <4>1. u = Subtree /\ s >= Subtree
        BY <3>1, <3>2
      <4>2. Subtree \in Nat
        BY DEF Subtree
      <4> QED BY <1>1, <1>4, <4>1, <4>2
    <3> QED BY <1>4, <3>3 DEF HeaderBut, IsHeader
  <2>2. Top(r, S) = IF HeaderBut(x, S) THEN x ELSE Top(ph, S)
    BY <1>3, AboveAppend
  <2>3. Top(px, S) = IF HeaderBut(x, S) THEN x ELSE Top(p, S)
    BY <1>3, AboveAppend
  <2> QED BY <2>1, <2>2, <2>3
<1> DEFINE new == {y.section : y \in {z \in {x} : IsPlain(z)}}
<1>9. new = {x.section}
  OBVIOUS
<1>10. /\ Sections(r) = Sections(ph) \cup new
       /\ Sorted(r) <=> Sorted(ph) /\ (IsPlain(x) => \A u \in Sections(ph) : u < x.section)
  BY <1>3, SectionsAppend
<1>11. /\ Sections(px) = Sections(p) \cup new
       /\ Sorted(px) <=> Sorted(p) /\ (IsPlain(x) => \A u \in Sections(p) : u < x.section)
  BY <1>3, SectionsAppend
<1> HIDE DEF new, r, px
<1>12. ASSUME NEW u \in Sections(r) PROVE \E w \in Sections(px) : u <= w
  <2>1. Sections(p) \subseteq Nat
    BY <1>3, SectionTypes
  <2>2. x.section \in Sections(px)
    BY <1>9, <1>11
  <2>3. u = x.section \/ u = s \/ u \in Sections(p)
    BY <1>2, <1>9, <1>10
  <2>4. u <= x.section
    BY <1>1, <1>4, <2>1, <2>3
  <2> QED BY <2>2, <2>4
<1>13. Sorted(px) => Sorted(r)
  BY <1>2, <1>10, <1>11
<1>14. s \in Sections(r)
  BY <1>2, <1>10
<1> QED BY <1>5, <1>6, <1>7, <1>8, <1>12, <1>13, <1>14 DEF Follows, Keeps, H, ph, r, px

\* The lines of the section s or a bigger one, and that s is the first of them.
From(s) == {x \in Line : IsPlain(x) /\ x.section >= s}

Leads(lines, s) == Only(lines, From(s)) # <<>> /\ IsHeader(Only(lines, From(s))[1], s)

(* What one more line does to that.                                        *)
LEMMA LeadsAppend ==
  ASSUME NEW a \in Seq(Line), NEW x \in Line, NEW s \in Nat
  PROVE  /\ Leads(a, s) => Leads(Append(a, x), s)
         /\ (\A u \in Sections(a) : u < s) /\ IsHeader(x, s) => Leads(Append(a, x), s)
<1> DEFINE X == From(s)
           o == Only(a, X)
           ox == Append(o, x)
<1>1. o \in Seq(Line) /\ Only(Append(a, x), X) = IF x \in X THEN ox ELSE o
  BY OnlyAppend
<1>2. /\ Len(o) \in Nat /\ Len(ox) = Len(o) + 1 /\ \A i \in 1 .. Len(o) : ox[i] = o[i]
      /\ ox[Len(o) + 1] = x
  BY <1>1, AppendFacts
<1>3. o # <<>> => 1 \in 1 .. Len(o)
  <2> HIDE DEF o
  <2>1. o # <<>> => Len(o) # 0
    BY <1>1, EmptySeq
  <2> QED BY <1>2, <2>1
<1> HIDE DEF o, ox
<1>4. Len(ox) # 0 /\ ox # <<>>
  <2>1. Len(ox) # 0
    BY <1>2
  <2> QED BY <2>1, EmptyFile
<1>5. ASSUME Leads(a, s) PROVE Leads(Append(a, x), s)
  BY <1>1, <1>2, <1>3, <1>4, <1>5 DEF Leads, o
<1>6. ASSUME \A u \in Sections(a) : u < s, IsHeader(x, s) PROVE Leads(Append(a, x), s)
  <2>1. x \in X
    BY <1>6, LineKinds DEF From
  <2>2. o = <<>>
    <3>1. DOMAIN a = 1 .. Len(a) /\ \A i \in 1 .. Len(a) : a[i] \in Line
      BY LenProperties, ElementOfSeq
    <3>2. ASSUME NEW i \in 1 .. Len(a), a[i] \in X PROVE FALSE
      <4>1. IsPlain(a[i]) /\ a[i].section >= s /\ a[i].section \in Nat
        BY <3>1, <3>2, LineKinds DEF From
      <4>2. a[i].section \in Sections(a)
        BY <3>1, <4>1 DEF Sections
      <4> QED BY <1>6, <4>1, <4>2
    <3> HIDE DEF X
    <3> QED BY <3>2, OnlyNone DEF o
  <2>3. Len(o) = 0
    BY <2>2, EmptyFile
  <2> QED BY <1>1, <1>2, <1>4, <1>6, <2>1, <2>3 DEF Leads
<1> QED BY <1>5, <1>6

\* Line m is the first header of the section s or a bigger one.
FirstBig(lines, s, m) ==
  /\ m \in 1 .. Len(lines) /\ IsPlain(lines[m]) /\ lines[m].section >= s
  /\ \A i \in 1 .. Len(lines) : i < m /\ IsPlain(lines[i]) => lines[i].section < s

\* f follows AddSection line by line.
Adds(f, lines, s, m) ==
  /\ f \in [0 .. Len(lines) -> Seq(Whole)] /\ f[0] = <<>>
  /\ \A i \in 1 .. Len(lines) :
       f[i] = IF i = m /\ ~IsHeader(lines[i], s)
              THEN Append(Append(f[i - 1], HeaderLine(s, FALSE)), lines[i]) ELSE Append(f[i - 1], lines[i])

(* AddSection, line by line.                                               *)
LEMMA AddSectionGrows ==
  ASSUME NEW lines \in Seq(Whole), NEW of, NEW s \in Owned(of)
  PROVE  \/ /\ AddSection(lines, s) = Append(lines, HeaderLine(s, FALSE))
            /\ \A u \in Sections(lines) : u < s
         \/ \E m, f : FirstBig(lines, s, m) /\ Adds(f, lines, s, m) /\ AddSection(lines, s) = f[Len(lines)]
<1> DEFINE n == Len(lines)
           H == HeaderLine(s, FALSE)
           at == {i \in DOMAIN lines : IsPlain(lines[i]) /\ lines[i].section >= s}
<1>1. /\ n \in Nat /\ DOMAIN lines = 1 .. n /\ lines \in Seq(Line)
      /\ \A i \in 1 .. n : lines[i] \in Whole /\ lines[i] \in Line
  BY LenProperties, ElementOfSeq, LineKinds, SeqMonotonic
<1>2. s \in Nat
  BY DEF Owned, Subprojects, Subtree, Upstream
<1>3. \A i \in 1 .. n : IsPlain(lines[i]) => lines[i].section \in Nat
  BY <1>1, LineKinds
<1>4. CASE at = {}
  <2>1. AddSection(lines, s) = Append(lines, H)
    BY <1>4 DEF AddSection
  <2>2. \A u \in Sections(lines) : u < s
    <3>1. \A i \in 1 .. n : IsPlain(lines[i]) => ~(lines[i].section >= s)
      BY <1>1, <1>4
    <3>2. \A i \in 1 .. n : IsPlain(lines[i]) => lines[i].section < s
      BY <1>2, <1>3, <3>1
    <3> QED BY <1>1, <3>2 DEF Sections
  <2> QED BY <2>1, <2>2
<1>5. CASE at # {}
  <2> DEFINE m == Min(at)
             new(i) == IF i = Min(at) /\ ~IsHeader(lines[i], s) THEN <<H>> ELSE <<>>
             ss == [i \in 1 .. n |-> new(i) \o <<lines[i]>>]
  <2>1. AddSection(lines, s) = FlattenSeq(ss)
    BY <1>1, <1>5 DEF AddSection
  <2>2. m \in at /\ \A i \in at : m <= i
    <3>1. at \in SUBSET (0 .. n)
      BY <1>1
    <3> HIDE DEF at, n
    <3> QED BY <1>1, <1>5, <3>1, EndsFacts
  <2>3. m \in 1 .. n /\ IsPlain(lines[m]) /\ lines[m].section >= s
    BY <1>1, <2>2
  <2>4. ASSUME NEW i \in 1 .. n, i < m, IsPlain(lines[i]) PROVE lines[i].section < s
    <3>1. i \notin at
      <4> HIDE DEF at, m
      <4> QED BY <1>1, <2>2, <2>3, <2>4
    <3>2. ~(lines[i].section >= s)
      BY <1>1, <2>4, <3>1
    <3> QED BY <1>2, <1>3, <2>4, <3>2
  <2>5. H \in Whole
    BY <1>2 DEF HeaderLine, Whole, Line
  <2>16. FirstBig(lines, s, m)
    BY <2>3, <2>4 DEF FirstBig
  <2> HIDE DEF n, at, H, m
  <2>6. ASSUME NEW i \in 1 .. n
        PROVE  /\ new(i) \o <<lines[i]>> \in Seq(Whole)
               /\ \A a \in Seq(Whole) : a \o (new(i) \o <<lines[i]>>) =
                    IF i = m /\ ~IsHeader(lines[i], s) THEN Append(Append(a, H), lines[i]) ELSE Append(a, lines[i])
    <3> DEFINE x == lines[i]
               here == i = m /\ ~IsHeader(x, s)
               out == IF here THEN <<H, x>> ELSE <<x>>
    <3>1. x \in Whole
      BY <1>1
    <3>2. new(i) \o <<x>> = out
      <4>1. <<x>> \in Seq(Whole)
        BY <3>1
      <4> HIDE DEF x
      <4>2. <<>> \o <<x>> = <<x>>
        BY <4>1, ConcatEmptySeq
      <4>3. <<H>> \o <<x>> = <<H, x>>
        BY <2>5, <3>1, <4>1, ConcatShort
      <4> QED BY <4>2, <4>3 DEF x, m
    <3> HIDE DEF x, here
    <3>3. out \in Seq(Whole)
      BY <2>5, <3>1
    <3>4. ASSUME NEW a \in Seq(Whole)
          PROVE  a \o out = IF here THEN Append(Append(a, H), x) ELSE Append(a, x)
      <4>1. a \o <<x>> = Append(a, x) /\ a \o <<H, x>> = Append(Append(a, H), x)
        BY <2>5, <3>1, ConcatShort
      <4> QED BY <4>1
    <3> HIDE DEF out, new
    <3> QED BY <3>2, <3>3, <3>4 DEF x, here
  <2> HIDE DEF new
  <2>7. ss \in [1 .. n -> Seq(Whole)] /\ \A i \in 1 .. n : ss[i] = new(i) \o <<lines[i]>>
    BY <2>6
  <2> HIDE DEF ss
  <2>8. PICK f : Grows(f, ss, n, Whole) /\ FlattenSeq(ss) = f[n]
    BY <1>1, <2>7, FlattenGrows DEF n
  <2>9. ASSUME NEW i \in 1 .. n
        PROVE  /\ f[i - 1] \in Seq(Whole)
               /\ f[i] = IF i = m /\ ~IsHeader(lines[i], s)
                         THEN Append(Append(f[i - 1], H), lines[i]) ELSE Append(f[i - 1], lines[i])
    <3>1. f[i - 1] \in Seq(Whole)
      <4>1. i - 1 \in 0 .. n
        BY <1>1 DEF n
      <4> QED BY <2>8, <4>1 DEF Grows
    <3>2. f[i] = f[i - 1] \o ss[i]
      BY <2>8 DEF Grows
    <3> QED BY <2>6, <2>7, <3>1, <3>2
  <2>10. f[0] = <<>> /\ f \in [0 .. n -> Seq(Whole)]
    BY <2>8 DEF Grows
  <2>11. Adds(f, lines, s, m)
    BY <2>9, <2>10 DEF Adds, H, n
  <2> QED BY <2>1, <2>8, <2>11, <2>16 DEF n
<1> QED BY <1>4, <1>5

(* What AddSection has passed on follows the lines it has read.            *)
LEMMA AddsFollow ==
  ASSUME NEW of, NEW lines \in Seq(Whole), WellFormed(of, lines), NEW s \in Owned(of),
         NEW m, FirstBig(lines, s, m), NEW f, Adds(f, lines, s, m)
  PROVE  \A i \in 0 .. Len(lines) :
           /\ Follows(of, f[i], SubSeq(lines, 1, i), {HeaderLine(s, FALSE)})
           /\ i < m => f[i] = SubSeq(lines, 1, i) /\ \A u \in Sections(f[i]) : u < s
           /\ ~(i < m) => s \in Sections(f[i]) /\ Leads(f[i], s)
<1> DEFINE n == Len(lines)
           H == HeaderLine(s, FALSE)
           upto(i) == SubSeq(lines, 1, i)
<1>1. /\ n \in Nat /\ DOMAIN lines = 1 .. n /\ lines \in Seq(Line)
      /\ \A i \in 1 .. n : lines[i] \in Whole /\ lines[i] \in Line
  BY LenProperties, ElementOfSeq, LineKinds, SeqMonotonic
<1>2. s \in Nat
  BY DEF Owned, Subprojects, Subtree, Upstream
<1>3. m \in 1 .. n /\ IsPlain(lines[m]) /\ lines[m].section >= s
  BY DEF FirstBig
<1>4. \A i \in 1 .. n : i < m /\ IsPlain(lines[i]) => lines[i].section < s
  BY DEF FirstBig
<1>5. H \in Whole /\ H \in Line /\ IsHeader(H, s)
  BY <1>2 DEF HeaderLine, Whole, Line, IsHeader, IsPlain
<1>8. f \in [0 .. n -> Seq(Whole)] /\ f[0] = <<>>
  BY DEF Adds
<1>9. ASSUME NEW i \in 1 .. n
      PROVE  /\ f[i - 1] \in Seq(Whole)
             /\ f[i] = IF i = m /\ ~IsHeader(lines[i], s)
                       THEN Append(Append(f[i - 1], H), lines[i]) ELSE Append(f[i - 1], lines[i])
  <2>1. i - 1 \in 0 .. n
    BY <1>1
  <2> QED BY <1>8, <2>1 DEF Adds
<1> HIDE DEF n, H
<1>10. /\ upto(0) = <<>> /\ upto(n) = lines
       /\ \A i \in 1 .. n : upto(i) = Append(upto(i - 1), lines[i])
  BY UptoFacts DEF n
<1>11. \A i \in 1 .. n : Fits(of, upto(i - 1), lines[i])
  BY <1>1, FileFits DEF n
<1> HIDE DEF upto
<1> DEFINE ok(i) == /\ Follows(of, f[i], upto(i), {H})
                    /\ i < m => f[i] = upto(i) /\ \A u \in Sections(f[i]) : u < s
                    /\ ~(i < m) => s \in Sections(f[i]) /\ Leads(f[i], s)
           T == {i \in 0 .. n : ok(i)}
<1>12. 0 \in T
  <2>1. f[0] = <<>> /\ 0 \in 0 .. n /\ 0 < m
    BY <1>1, <1>3, <1>8 DEF n
  <2>2. Sections(<<>>) = {}
    BY EmptyFile DEF Sections
  <2>3. Follows(of, <<>>, <<>>, {H})
    BY FollowsFirst
  <2> QED BY <1>10, <2>1, <2>2, <2>3
<1>13. ASSUME NEW i \in 1 .. n, i - 1 \in T PROVE i \in T
  <2> DEFINE a == f[i - 1]
             p == upto(i - 1)
             x == lines[i]
             new1 == {y.section : y \in {z \in {x} : IsPlain(z)}}
  <2>1. /\ a \in Seq(Whole) /\ x \in Whole /\ x \in Line /\ a \in Seq(Line)
        /\ upto(i) = Append(p, x) /\ Fits(of, p, x) /\ i \in 0 .. n /\ m \in Nat /\ i \in Nat
    <3>1. a \in Seq(Whole) /\ x \in Whole /\ x \in Line
      BY <1>1, <1>9 DEF n
    <3>2. upto(i) = Append(p, x) /\ Fits(of, p, x)
      BY <1>10, <1>11
    <3>3. i \in 0 .. n /\ m \in Nat /\ i \in Nat
      BY <1>1, <1>3 DEF n
    <3> QED BY <3>1, <3>2, <3>3, LineKinds, SeqMonotonic
  <2>2. /\ Follows(of, a, p, {H})
        /\ i - 1 < m => a = p /\ \A u \in Sections(a) : u < s
        /\ ~(i - 1 < m) => s \in Sections(a) /\ Leads(a, s)
    BY <1>13
  <2>3. f[i] = IF i = m /\ ~IsHeader(x, s) THEN Append(Append(a, H), x) ELSE Append(a, x)
    BY <1>9
  <2>4. i < m /\ IsPlain(x) => x.section < s
    BY <1>4 DEF n
  <2>5. i = m => IsPlain(x) /\ x.section >= s
    BY <1>3
  <2>6. Sections(Append(a, x)) = Sections(a) \cup new1
    BY <2>1, SectionsAppend
  <2>7. IsPlain(x) => new1 = {x.section} /\ x.section \in Nat
    BY <2>1, LineKinds
  <2>8. ~IsPlain(x) => new1 = {}
    OBVIOUS
  <2> HIDE DEF a, p, x, new1, T
  <2>9. Follows(of, Append(a, x), Append(p, x), {H})
    BY <2>1, <2>2, PassOn
  <2>13. /\ Leads(a, s) => Leads(Append(a, x), s)
         /\ (\A u \in Sections(a) : u < s) /\ IsHeader(x, s) => Leads(Append(a, x), s)
    BY <1>2, <2>1, LeadsAppend
  <2>10. CASE i < m
    <3>1. f[i] = Append(a, x) /\ i - 1 < m
      BY <2>1, <2>3, <2>10
    <3>2. \A u \in Sections(f[i]) : u < s
      BY <2>2, <2>4, <2>6, <2>7, <2>8, <2>10, <3>1
    <3>3. ok(i)
      BY <2>1, <2>2, <2>9, <2>10, <3>1, <3>2
    <3> QED BY <2>1, <3>3 DEF T
  <2>11. CASE i = m
    <3>1. i - 1 < m /\ ~(i < m)
      BY <2>1, <2>11
    <3>2. a = p /\ WellFormed(of, p) /\ p \in Seq(Whole) /\ \A u \in Sections(p) : u < s
      BY <2>2, <3>1 DEF Follows, Keeps
    <3>3. CASE IsHeader(x, s)
      <4>1. f[i] = Append(a, x) /\ s \in Sections(f[i]) /\ Leads(f[i], s)
        <5>1. x.section = s
          BY <3>3 DEF IsHeader
        <5> QED BY <2>3, <2>5, <2>6, <2>7, <2>11, <2>13, <3>2, <3>3, <5>1
      <4>2. ok(i)
        BY <2>1, <2>9, <3>1, <4>1
      <4> QED BY <2>1, <4>2 DEF T
    <3>4. CASE ~IsHeader(x, s)
      <4>1. x.section > s
        BY <1>2, <2>5, <2>7, <2>11, <3>4 DEF IsHeader
      <4> DEFINE r == Append(Append(p, H), x)
      <4>2. Follows(of, r, Append(p, x), {H}) /\ s \in Sections(r)
        BY <2>1, <2>5, <2>11, <3>2, <4>1, AddHeader DEF H
      <4>3. f[i] = r
        BY <2>3, <2>11, <3>2, <3>4
      <4>5. Leads(r, s)
        <5> DEFINE ph == Append(p, H)
        <5>1. p \in Seq(Line)
          BY <2>1, <3>2
        <5>2. Leads(ph, s) /\ ph \in Seq(Line)
          BY <1>2, <1>5, <3>2, <5>1, LeadsAppend, AppendFacts
        <5> HIDE DEF ph
        <5> QED BY <1>2, <2>1, <5>2, LeadsAppend DEF ph
      <4> HIDE DEF r
      <4>4. ok(i)
        BY <2>1, <3>1, <4>2, <4>3, <4>5
      <4> QED BY <2>1, <4>4 DEF T
    <3> QED BY <3>3, <3>4
  <2>12. CASE i > m
    <3>1. ~(i < m) /\ ~(i - 1 < m) /\ i # m
      BY <2>1, <2>12
    <3>2. f[i] = Append(a, x) /\ s \in Sections(f[i]) /\ Leads(f[i], s)
      BY <2>2, <2>3, <2>6, <2>13, <3>1
    <3>3. ok(i)
      BY <2>1, <2>9, <3>1, <3>2
    <3> QED BY <2>1, <3>3 DEF T
  <2> QED BY <2>1, <2>10, <2>11, <2>12
<1>14. \A i \in 0 .. n : i \in T
  <2>1. Climbs(T, n)
    <3> HIDE DEF T
    <3> QED BY <1>12, <1>13 DEF Climbs
  <2> HIDE DEF T
  <2> QED BY <1>1, <2>1, Upwards DEF n
<1>15. \A i \in 0 .. n : ok(i)
  BY <1>14
<1> QED BY <1>15 DEF n, H, upto

(* AddSection leaves a good file that has the section, first of its kind.  *)
LEMMA AddSectionKeeps ==
  ASSUME NEW of, NEW lines \in Seq(Whole), WellFormed(of, lines), NEW s \in Owned(of)
  PROVE  /\ Keeps(of, AddSection(lines, s), lines, {HeaderLine(s, FALSE)})
         /\ s \in Sections(AddSection(lines, s)) /\ Leads(AddSection(lines, s), s)
<1> DEFINE H == HeaderLine(s, FALSE)
           n == Len(lines)
<1>1. s \in Nat
  BY DEF Owned, Subprojects, Subtree, Upstream
<1>2. n \in Nat /\ lines \in Seq(Line)
  BY LenProperties, LineKinds, SeqMonotonic
<1>3. CASE AddSection(lines, s) = Append(lines, H) /\ \A u \in Sections(lines) : u < s
  <2> DEFINE r == Append(lines, H)
  <2>0. \A u \in Sections(lines) : u < s
    BY <1>3
  <2>1. /\ H \in Whole /\ IsHeader(H, s) /\ H.kind = "header"
        /\ r \in Seq(Whole) /\ WellFormed(of, r) /\ SameBut(r, lines, {H})
        /\ Sections(r) = Sections(lines) \cup {s}
        /\ Sorted(lines) => Sorted(r)
        /\ \A S : Top(r, S) = IF HeaderBut(H, S) THEN H ELSE Top(lines, S)
    BY <2>0, HeaderFits
  <2>2. Leads(r, s)
    <3> HIDE DEF H
    <3>1. H \in Line
      BY <2>1, LineKinds
    <3> QED BY <1>1, <1>2, <2>1, <2>0, <3>1, LeadsAppend
  <2> QED BY <1>3, <2>1, <2>2 DEF Keeps
<1>4. CASE \E m, f : FirstBig(lines, s, m) /\ Adds(f, lines, s, m) /\ AddSection(lines, s) = f[n]
  <2>1. PICK m, f : FirstBig(lines, s, m) /\ Adds(f, lines, s, m) /\ AddSection(lines, s) = f[n]
    BY <1>4
  <2>2. n \in 0 .. n /\ ~(n < m) /\ SubSeq(lines, 1, n) = lines
    BY <1>2, <2>1, UptoFacts DEF FirstBig
  <2>3. \A i \in 0 .. n :
          /\ Follows(of, f[i], SubSeq(lines, 1, i), {H})
          /\ ~(i < m) => s \in Sections(f[i]) /\ Leads(f[i], s)
    BY <2>1, AddsFollow
  <2> HIDE DEF n, H
  <2>4. Follows(of, f[n], lines, {H}) /\ s \in Sections(f[n]) /\ Leads(f[n], s)
    BY <2>2, <2>3
  <2> QED BY <2>1, <2>4 DEF Follows, H, n
<1> QED BY <1>3, <1>4, AddSectionGrows

-----------------------------------------------------------------------------
(* Dropping a key and an empty section.                                    *)

(* The key's lines, and no others, are left out.                           *)
LEMMA DropKeyFollows ==
  ASSUME NEW of, NEW lines \in Seq(Whole), WellFormed(of, lines), NEW s, NEW k, Belongs(of, s, k)
  PROVE  /\ Follows(of, DropKey(lines, s, k), lines, KeyLines(k))
         /\ Found(DropKey(lines, s, k), s, k, <<>>, <<>>)
<1> DEFINE n == Len(lines)
           Y == KeyLines(k)
           upto(i) == SubSeq(lines, 1, i)
           out(i) == IF IsKey(lines[i], k) THEN <<>> ELSE <<lines[i]>>
           ss == [i \in 1 .. n |-> out(i)]
<1>1. /\ n \in Nat /\ DOMAIN lines = 1 .. n /\ lines \in Seq(Line)
      /\ \A i \in 1 .. n : lines[i] \in Whole /\ lines[i] \in Line
  BY LenProperties, ElementOfSeq, LineKinds, SeqMonotonic
<1>2. DropKey(lines, s, k) = FlattenSeq(ss)
  <2> DEFINE in == Inside(lines, s)
  <2>1. \A i \in 0 .. n : in[i] <=> IsHeader(Above(lines, i + 1, {}), s)
    BY <1>1, InsideFacts DEF Belongs
  <2>2. ASSUME NEW i \in 1 .. n PROVE IsKey(lines[i], k) => in[i - 1]
    <3>1. i - 1 \in 0 .. n /\ i - 1 + 1 = i
      BY <1>1
    <3>2. IsKey(lines[i], k) => IsHeader(Above(lines, i, {}), s)
      <4>1. IsKey(lines[i], k) => i \in Places(lines, s, k)
        BY KeyPlaces
      <4> QED BY <4>1 DEF Places
    <3> HIDE DEF in
    <3> QED BY <2>1, <3>1, <3>2
  <2> HIDE DEF in, n
  <2>3. \A i \in 1 .. n : (IF in[i - 1] /\ IsKey(lines[i], k) THEN <<>> ELSE <<lines[i]>>) = out(i)
    BY <2>2
  <2>4. [i \in DOMAIN lines |-> IF in[i - 1] /\ IsKey(lines[i], k) THEN <<>> ELSE <<lines[i]>>] = ss
    <3> HIDE DEF out
    <3> QED BY <1>1, <2>3
  <2> QED BY <2>4 DEF DropKey, in
<1> HIDE DEF n, Y
<1>3. ss \in [1 .. n -> Seq(Whole)] /\ \A i \in 1 .. n : ss[i] = out(i)
  <2>1. \A i \in 1 .. n : out(i) \in Seq(Whole)
    BY <1>1
  <2> HIDE DEF out
  <2> QED BY <2>1
<1> HIDE DEF ss
<1>4. PICK f : Grows(f, ss, n, Whole) /\ FlattenSeq(ss) = f[n]
  BY <1>1, <1>3, FlattenGrows
<1>5. ASSUME NEW i \in 1 .. n
      PROVE  /\ f[i - 1] \in Seq(Whole)
             /\ f[i] = IF IsKey(lines[i], k) THEN f[i - 1] ELSE Append(f[i - 1], lines[i])
  <2>1. f[i - 1] \in Seq(Whole)
    <3>1. i - 1 \in 0 .. n
      BY <1>1
    <3> QED BY <1>4, <3>1 DEF Grows
  <2>2. f[i] = f[i - 1] \o out(i)
    BY <1>3, <1>4 DEF Grows
  <2>3. f[i - 1] \o <<>> = f[i - 1] /\ f[i - 1] \o <<lines[i]>> = Append(f[i - 1], lines[i])
    BY <1>1, <2>1, ConcatShort
  <2> QED BY <2>1, <2>2, <2>3
<1>6. /\ upto(0) = <<>> /\ upto(n) = lines
      /\ \A i \in 1 .. n : upto(i) = Append(upto(i - 1), lines[i])
  BY UptoFacts DEF n
<1>7. \A i \in 1 .. n : Fits(of, upto(i - 1), lines[i])
  BY <1>1, FileFits DEF n
<1> HIDE DEF upto
<1> DEFINE ok(i) == Follows(of, f[i], upto(i), Y) /\ Found(f[i], s, k, <<>>, <<>>)
           T == {i \in 0 .. n : ok(i)}
<1>8. 0 \in T
  <2>1. f[0] = <<>> /\ 0 \in 0 .. n
    BY <1>1, <1>4 DEF Grows
  <2>2. Found(<<>>, s, k, <<>>, <<>>)
    <3>1. Comment \in Whole /\ <<>> \in Seq(Whole)
      BY DEF Comment, Whole, Line
    <3> QED BY <3>1, FoundAppend
  <2> QED BY <1>6, <2>1, <2>2, FollowsFirst
<1>9. ASSUME NEW i \in 1 .. n, i - 1 \in T PROVE i \in T
  <2> DEFINE a == f[i - 1]
             p == upto(i - 1)
             x == lines[i]
  <2>1. Follows(of, a, p, Y) /\ Found(a, s, k, <<>>, <<>>)
    BY <1>9
  <2>2. /\ a \in Seq(Whole) /\ x \in Whole /\ x \in Line /\ Fits(of, p, x) /\ upto(i) = Append(p, x)
        /\ f[i] = IF IsKey(x, k) THEN a ELSE Append(a, x)
    BY <1>1, <1>5, <1>6, <1>7
  <2>3. i \in 0 .. n
    BY <1>1
  <2> HIDE DEF a, p, x, T
  <2>4. CASE IsKey(x, k)
    <3>1. x.kind = "key" /\ x \in Y
      BY <2>2, <2>4, LineKinds DEF Y
    <3>2. Follows(of, a, Append(p, x), Y)
      BY <2>1, <2>2, <3>1, LeaveOut
    <3>3. f[i] = a
      BY <2>2, <2>4
    <3>4. ok(i)
      BY <2>1, <2>2, <3>2, <3>3
    <3> QED BY <2>3, <3>4 DEF T
  <2>5. CASE ~IsKey(x, k)
    <3>1. Follows(of, Append(a, x), Append(p, x), Y)
      BY <2>1, <2>2, PassOn
    <3>2. Found(Append(a, x), s, k, <<>>, <<>>)
      BY <2>1, <2>2, <2>5, FoundAppend
    <3>3. f[i] = Append(a, x)
      BY <2>2, <2>5
    <3>4. ok(i)
      BY <2>2, <3>1, <3>2, <3>3
    <3> QED BY <2>3, <3>4 DEF T
  <2> QED BY <2>4, <2>5
<1>10. n \in T
  <2>1. Climbs(T, n)
    <3> HIDE DEF T
    <3> QED BY <1>8, <1>9 DEF Climbs
  <2>2. n \in 0 .. n
    BY <1>1
  <2> HIDE DEF T
  <2> QED BY <1>1, <2>1, <2>2, Upwards
<1> QED BY <1>2, <1>4, <1>6, <1>10 DEF Y

\* The header of the section is held back after line i.
Held(lines, s, i) ==
  \E h \in 1 .. i : IsHeader(lines[h], s) /\ \A j \in h + 1 .. i : lines[j].kind = "comment"

(* When it is.                                                             *)
LEMMA HeldSteps ==
  ASSUME NEW lines \in Seq(Line), NEW s
  PROVE  /\ ~Held(lines, s, 0)
         /\ \A i \in 1 .. Len(lines) :
              /\ IsHeader(lines[i], s) => Held(lines, s, i)
              /\ ~IsHeader(lines[i], s) /\ lines[i].kind # "comment" => ~Held(lines, s, i)
              /\ lines[i].kind = "comment" => (Held(lines, s, i) <=> Held(lines, s, i - 1))
<1>1. Len(lines) \in Nat
  BY LenProperties
<1>2. ~Held(lines, s, 0)
  BY DEF Held
<1>3. ASSUME NEW i \in 1 .. Len(lines), IsHeader(lines[i], s) PROVE Held(lines, s, i)
  <2>1. i \in 1 .. i /\ \A j \in i + 1 .. i : FALSE
    BY <1>1
  <2> QED BY <1>3, <2>1 DEF Held
<1>4. ASSUME NEW i \in 1 .. Len(lines), ~IsHeader(lines[i], s), lines[i].kind # "comment", Held(lines, s, i)
      PROVE  FALSE
  <2>1. PICK h \in 1 .. i : IsHeader(lines[h], s) /\ \A j \in h + 1 .. i : lines[j].kind = "comment"
    BY <1>4 DEF Held
  <2>2. h # i
    BY <1>4, <2>1
  <2>3. i \in h + 1 .. i
    BY <1>1, <2>2
  <2> QED BY <1>4, <2>1, <2>3
<1>5. ASSUME NEW i \in 1 .. Len(lines), lines[i].kind = "comment"
      PROVE  Held(lines, s, i) <=> Held(lines, s, i - 1)
  <2>1. ASSUME Held(lines, s, i) PROVE Held(lines, s, i - 1)
    <3>1. PICK h \in 1 .. i : IsHeader(lines[h], s) /\ \A j \in h + 1 .. i : lines[j].kind = "comment"
      BY <2>1 DEF Held
    <3>2. h # i
      BY <1>5, <3>1 DEF IsHeader, IsPlain
    <3>3. h \in 1 .. i - 1 /\ \A j \in h + 1 .. i - 1 : j \in h + 1 .. i
      BY <1>1, <3>2
    <3> QED BY <3>1, <3>3 DEF Held
  <2>2. ASSUME Held(lines, s, i - 1) PROVE Held(lines, s, i)
    <3>1. PICK h \in 1 .. i - 1 : IsHeader(lines[h], s) /\ \A j \in h + 1 .. i - 1 : lines[j].kind = "comment"
      BY <2>2 DEF Held
    <3>2. h \in 1 .. i /\ \A j \in h + 1 .. i : j \in h + 1 .. i - 1 \/ j = i
      BY <1>1
    <3> QED BY <1>5, <3>1, <3>2 DEF Held
  <2> QED BY <2>1, <2>2
<1> QED BY <1>2, <1>3, <1>4, <1>5

(* The first key of the section brings it back.                            *)
LEMMA FirstKey ==
  ASSUME NEW lines \in Seq(Line), NEW s, NEW i \in 1 .. Len(lines), ~IsHeader(lines[i], s),
         IsHeader(Above(lines, i, {}), s)
  PROVE  LET h == Max({j \in 1 .. i : IsHeader(lines[j], s)})
         IN /\ lines[h] = Above(lines, i, {})
            /\ (\A j \in h + 1 .. i - 1 : lines[j].kind # "key") <=> Held(lines, s, i - 1)
<1> DEFINE at == {j \in 1 .. i - 1 : lines[j].kind = "header" /\ \A u \in {} : ~IsHeader(lines[j], u)}
           mh == Max(at)
           hs == {j \in 1 .. i : IsHeader(lines[j], s)}
           h == Max(hs)
<1>1. Len(lines) \in Nat /\ i \in Nat /\ i >= 1 /\ i <= Len(lines)
      /\ \A j \in 1 .. Len(lines) : lines[j].kind \in {"header", "key", "comment"}
  BY LenProperties, ElementOfSeq, LineKinds
<1>2. Above(lines, i, {}) = IF at = {} THEN Comment ELSE lines[mh]
  BY DEF Above
<1>3. ~IsHeader(Comment, s)
  BY DEF Comment, IsHeader, IsPlain
<1>4. at # {} /\ lines[mh] = Above(lines, i, {})
  <2> HIDE DEF at
  <2> QED BY <1>2, <1>3
<1>5. mh \in at /\ \A j \in at : j <= mh
  <2>1. at \in SUBSET (0 .. i)
    BY <1>1
  <2> HIDE DEF at
  <2> QED BY <1>1, <1>4, <2>1, EndsFacts
<1>6. mh \in 1 .. i - 1 /\ IsHeader(lines[mh], s)
  BY <1>4, <1>5
<1>7. \A j \in 1 .. i - 1 : lines[j].kind = "header" => j <= mh
  BY <1>5
<1> HIDE DEF at, mh
<1>8. mh \in hs /\ \A j \in hs : j <= mh
  <2>1. mh \in 1 .. i
    BY <1>1, <1>6
  <2>2. ASSUME NEW j \in hs PROVE j <= mh
    <3>1. j \in 1 .. i /\ IsHeader(lines[j], s) /\ j # i
      OBVIOUS
    <3>2. j \in 1 .. i - 1 /\ lines[j].kind = "header"
      BY <1>1, <3>1 DEF IsHeader, IsPlain
    <3> QED BY <1>7, <3>2
  <2> QED BY <1>6, <2>1, <2>2
<1>9. h \in hs /\ \A j \in hs : j <= h
  <2>1. hs \in SUBSET (0 .. i) /\ hs # {}
    BY <1>1, <1>8
  <2> HIDE DEF hs
  <2> QED BY <1>1, <2>1, EndsFacts
<1>10. h = mh
  <2>1. h \in Nat /\ mh \in Nat /\ h <= mh /\ mh <= h
    <3>1. h \in 1 .. i
      BY <1>9
    <3> HIDE DEF hs, h
    <3> QED BY <1>1, <1>6, <1>8, <1>9, <3>1
  <2> HIDE DEF h
  <2> QED BY <2>1
<1> HIDE DEF h
<1>11. ASSUME \A j \in mh + 1 .. i - 1 : lines[j].kind # "key" PROVE Held(lines, s, i - 1)
  <2>1. ASSUME NEW j \in mh + 1 .. i - 1 PROVE lines[j].kind = "comment"
    <3>1. j \in 1 .. i - 1 /\ j \in 1 .. Len(lines) /\ ~(j <= mh)
      BY <1>1, <1>6
    <3> QED BY <1>1, <1>7, <1>11, <3>1
  <2> QED BY <1>6, <2>1 DEF Held
<1>12. ASSUME Held(lines, s, i - 1), NEW j \in mh + 1 .. i - 1 PROVE lines[j].kind # "key"
  <2>1. PICK g \in 1 .. i - 1 : IsHeader(lines[g], s) /\ \A l \in g + 1 .. i - 1 : lines[l].kind = "comment"
    BY <1>12 DEF Held
  <2>2. g <= mh
    BY <1>7, <2>1 DEF IsHeader, IsPlain
  <2>3. j \in g + 1 .. i - 1
    BY <1>1, <1>6, <2>2
  <2> QED BY <2>1, <2>3
<1> QED BY <1>4, <1>10, <1>11, <1>12 DEF h, hs

(* A header that is held back is the one above the next line.              *)
LEMMA HeldTop ==
  ASSUME NEW lines \in Seq(Line), NEW s, NEW i \in 1 .. Len(lines), Held(lines, s, i - 1)
  PROVE  IsHeader(Above(lines, i, {}), s)
<1> DEFINE at == {j \in 1 .. i - 1 : lines[j].kind = "header" /\ \A u \in {} : ~IsHeader(lines[j], u)}
           mh == Max(at)
<1>1. Len(lines) \in Nat /\ i \in Nat /\ i >= 1 /\ i <= Len(lines)
  BY LenProperties
<1>2. Above(lines, i, {}) = IF at = {} THEN Comment ELSE lines[mh]
  BY DEF Above
<1>3. PICK h \in 1 .. i - 1 : IsHeader(lines[h], s) /\ \A j \in h + 1 .. i - 1 : lines[j].kind = "comment"
  BY DEF Held
<1>4. h \in at
  BY <1>3 DEF IsHeader, IsPlain
<1>5. mh \in at /\ \A j \in at : j <= mh
  <2>1. at \in SUBSET (0 .. i) /\ at # {}
    BY <1>1, <1>4
  <2> HIDE DEF at
  <2> QED BY <1>1, <2>1, EndsFacts
<1>6. mh \in 1 .. i - 1 /\ lines[mh].kind = "header" /\ h <= mh
  BY <1>4, <1>5
<1>7. at # {}
  BY <1>4
<1> HIDE DEF at, mh
<1>8. mh \notin h + 1 .. i - 1
  BY <1>3, <1>6
<1>9. mh = h
  BY <1>1, <1>3, <1>6, <1>8
<1> QED BY <1>2, <1>3, <1>7, <1>9

(* The header of a section that the program writes.                        *)
LEMMA HeaderIs ==
  ASSUME NEW x \in Whole, NEW s, IsHeader(x, s)
  PROVE  x = HeaderLine(s, FALSE)
<1>1. /\ x \in [kind : {"header"}, section : Nat, sub : BOOLEAN, eol : BOOLEAN]
      /\ x.eol /\ ~x.sub /\ x.section = s
  BY DEF Whole, Line, IsHeader, IsPlain
<1>2. x = [kind |-> x.kind, section |-> x.section, sub |-> x.sub, eol |-> x.eol]
  BY <1>1
<1>3. x.kind = "header" /\ x.sub = FALSE /\ x.eol = TRUE
  BY <1>1
<1> QED BY <1>1, <1>2, <1>3 DEF HeaderLine

\* What DropSectionIfEmpty makes of one line.
DropOne(a, x, s, held) ==
  IF IsHeader(x, s) THEN a
  ELSE IF x.kind = "key" /\ held THEN Append(Append(a, HeaderLine(s, FALSE)), x)
  ELSE Append(a, x)

(* DropSectionIfEmpty, line by line.                                       *)
LEMMA DropGrows ==
  ASSUME NEW of, NEW lines \in Seq(Whole), WellFormed(of, lines), NEW s \in Owned(of)
  PROVE  \E f : /\ f \in [0 .. Len(lines) -> Seq(Whole)] /\ f[0] = <<>>
                /\ \A i \in 1 .. Len(lines) : f[i] = DropOne(f[i - 1], lines[i], s, Held(lines, s, i - 1))
                /\ DropSectionIfEmpty(lines, s) = f[Len(lines)]
<1> DEFINE n == Len(lines)
           H == HeaderLine(s, FALSE)
           out(i) == IF IsHeader(lines[i], s) THEN <<>>
                     ELSE IF lines[i].kind = "key" /\ Held(lines, s, i - 1) THEN <<H, lines[i]>>
                     ELSE <<lines[i]>>
           ss == [i \in 1 .. n |-> out(i)]
<1>1. /\ n \in Nat /\ DOMAIN lines = 1 .. n /\ lines \in Seq(Line)
      /\ \A i \in 1 .. n : lines[i] \in Whole /\ lines[i] \in Line
  BY LenProperties, ElementOfSeq, LineKinds, SeqMonotonic
<1>2. DropSectionIfEmpty(lines, s) = FlattenSeq(ss)
  <2> DEFINE in == Inside(lines, s)
             entry(i) == ~in[i - 1] /\ in[i]
             first(i) == LET h == Max({j \in 1 .. i : entry(j)})
                         IN \A j \in h + 1 .. i - 1 : lines[j].kind # "key"
             outs(i) == IF entry(i) THEN <<>>
                        ELSE IF in[i - 1] /\ lines[i].kind = "key" /\ first(i)
                             THEN <<lines[Max({j \in 1 .. i : entry(j)})], lines[i]>>
                        ELSE <<lines[i]>>
  <2>1. \A i \in 0 .. n : in[i] <=> IsHeader(Above(lines, i + 1, {}), s)
    BY <1>1, InsideFacts
  <2>2. \A i \in 1 .. n : in[i - 1] <=> IsHeader(Above(lines, i, {}), s)
    <3>1. \A i \in 1 .. n : i - 1 \in 0 .. n /\ i - 1 + 1 = i
      BY <1>1
    <3> HIDE DEF in
    <3> QED BY <2>1, <3>1
  <2>3. ASSUME NEW i \in 1 .. n PROVE entry(i) <=> IsHeader(lines[i], s)
    <3>1. in[i] <=> IsHeader(Above(lines, i + 1, {}), s)
      <4>1. i \in 0 .. n
        BY <1>1
      <4> QED BY <2>1, <4>1
    <3>2. Above(lines, i + 1, {}) = IF HeaderBut(lines[i], {}) THEN lines[i] ELSE Above(lines, i, {})
      BY <1>1, AboveNext
    <3>3. HeaderBut(lines[i], {}) <=> lines[i].kind = "header"
      BY DEF HeaderBut
    <3>4. IsHeader(lines[i], s) => ~IsHeader(Above(lines, i, {}), s)
      <4>1. {} \in SUBSET (Owned(of) \cap {Subtree})
        OBVIOUS
      <4> QED BY <1>1, <4>1 DEF WellFormed, Apart
    <3>5. IsHeader(lines[i], s) => lines[i].kind = "header"
      BY DEF IsHeader, IsPlain
    <3> HIDE DEF in, n
    <3> QED BY <2>2, <3>1, <3>2, <3>3, <3>4, <3>5
  <2>4. ASSUME NEW i \in 1 .. n PROVE {j \in 1 .. i : entry(j)} = {j \in 1 .. i : IsHeader(lines[j], s)}
    <3>1. \A j \in 1 .. i : j \in 1 .. n
      BY <1>1
    <3> HIDE DEF entry, n
    <3> QED BY <2>3, <3>1
  <2> HIDE DEF entry, in
  <2>5. ASSUME NEW i \in 1 .. n PROVE outs(i) = out(i)
    <3> DEFINE h == Max({j \in 1 .. i : IsHeader(lines[j], s)})
    <3>1. Max({j \in 1 .. i : entry(j)}) = h
      BY <2>4
    <3>2. first(i) <=> \A j \in h + 1 .. i - 1 : lines[j].kind # "key"
      BY <3>1
    <3>3. CASE IsHeader(lines[i], s)
      BY <2>3, <3>3
    <3>4. CASE ~IsHeader(lines[i], s) /\ IsHeader(Above(lines, i, {}), s)
      <4>1. /\ lines[h] = Above(lines, i, {})
            /\ (\A j \in h + 1 .. i - 1 : lines[j].kind # "key") <=> Held(lines, s, i - 1)
        BY <1>1, <3>4, FirstKey
      <4> HIDE DEF first
      <4>2. first(i) <=> Held(lines, s, i - 1)
        BY <3>2, <4>1
      <4>3. lines[h] = H
        <5>1. Above(lines, i, {}) \in Whole
          <6> DEFINE at == {j \in 1 .. i - 1 : lines[j].kind = "header" /\ \A u \in {} : ~IsHeader(lines[j], u)}
          <6>1. Above(lines, i, {}) = IF at = {} THEN Comment ELSE lines[Max(at)]
            BY DEF Above
          <6>2. Comment \in Whole
            BY DEF Comment, Whole, Line
          <6>3. at # {} => Max(at) \in 1 .. n
            <7>1. at \in SUBSET (0 .. n) /\ \A j \in at : j \in 1 .. n
              BY <1>1
            <7> HIDE DEF at
            <7> QED BY <1>1, <7>1, EndsFacts
          <6> HIDE DEF at
          <6> QED BY <1>1, <6>1, <6>2, <6>3
        <5> QED BY <3>4, <4>1, <5>1, HeaderIs
      <4> HIDE DEF h, H, n
      <4>4. outs(i) = IF lines[i].kind = "key" /\ first(i) THEN <<lines[h], lines[i]>> ELSE <<lines[i]>>
        BY <2>2, <2>3, <3>1, <3>4
      <4> QED BY <3>4, <4>2, <4>3, <4>4
    <3>5. CASE ~IsHeader(lines[i], s) /\ ~IsHeader(Above(lines, i, {}), s)
      <4>1. ~Held(lines, s, i - 1)
        BY <1>1, <3>5, HeldTop
      <4>2. ~entry(i) /\ ~in[i - 1]
        BY <2>2, <2>3, <3>5
      <4> HIDE DEF first
      <4> QED BY <3>5, <4>1, <4>2
    <3> HIDE DEF outs, out
    <3> QED BY <3>3, <3>4, <3>5
  <2>6. [i \in DOMAIN lines |-> outs(i)] = ss
    <3> HIDE DEF outs, out
    <3> QED BY <1>1, <2>5
  <2>7. DropSectionIfEmpty(lines, s) = FlattenSeq([i \in DOMAIN lines |-> outs(i)])
    BY DEF DropSectionIfEmpty, entry, in
  <2> QED BY <2>6, <2>7
<1>3. H \in Whole
  BY DEF HeaderLine, Whole, Line, Owned, Subprojects, Subtree, Upstream
<1> HIDE DEF n, H
<1>4. ss \in [1 .. n -> Seq(Whole)] /\ \A i \in 1 .. n : ss[i] = out(i)
  <2>1. \A i \in 1 .. n : out(i) \in Seq(Whole)
    BY <1>1, <1>3
  <2> HIDE DEF out
  <2> QED BY <2>1
<1> HIDE DEF ss
<1>5. PICK f : Grows(f, ss, n, Whole) /\ FlattenSeq(ss) = f[n]
  BY <1>1, <1>4, FlattenGrows
<1>6. ASSUME NEW i \in 1 .. n
      PROVE  f[i] = DropOne(f[i - 1], lines[i], s, Held(lines, s, i - 1))
  <2> DEFINE a == f[i - 1]
             x == lines[i]
             held == Held(lines, s, i - 1)
  <2>1. a \in Seq(Whole) /\ x \in Whole
    <3>1. i - 1 \in 0 .. n
      BY <1>1
    <3> QED BY <1>1, <1>5, <3>1 DEF Grows
  <2>2. f[i] = a \o out(i)
    BY <1>4, <1>5 DEF Grows
  <2>3. out(i) = IF IsHeader(x, s) THEN <<>>
                 ELSE IF x.kind = "key" /\ held THEN <<H, x>> ELSE <<x>>
    OBVIOUS
  <2> HIDE DEF a, x, held, out
  <2>4. a \o <<>> = a /\ a \o <<x>> = Append(a, x) /\ a \o <<H, x>> = Append(Append(a, H), x)
    BY <1>3, <2>1, ConcatShort
  <2>5. f[i] = DropOne(a, x, s, held)
    BY <2>2, <2>3, <2>4 DEF DropOne, H
  <2> QED BY <2>5 DEF a, x, held
<1>7. f \in [0 .. n -> Seq(Whole)] /\ f[0] = <<>>
  BY <1>5 DEF Grows
<1> QED BY <1>2, <1>5, <1>6, <1>7 DEF n

(* The last header is one of another section, if it is not of [subtree].   *)
LEMMA SkipSame ==
  ASSUME NEW lines \in Seq(Line), ~IsHeader(Top(lines, {}), Subtree)
  PROVE  Top(lines, {Subtree}) = Top(lines, {})
<1> DEFINE n == Len(lines)
           at(S) == {j \in 1 .. n + 1 - 1 : lines[j].kind = "header" /\ \A u \in S : ~IsHeader(lines[j], u)}
           all == at({})
           rest == at({Subtree})
<1>1. n \in Nat /\ n + 1 - 1 = n
  BY LenProperties
<1>2. \A S : Top(lines, S) = IF at(S) = {} THEN Comment ELSE lines[Max(at(S))]
  BY DEF Top, Above
<1>3. rest \subseteq all
  OBVIOUS
<1>4. all \in SUBSET (0 .. n)
  BY <1>1
<1>5. /\ Top(lines, {}) = IF all = {} THEN Comment ELSE lines[Max(all)]
      /\ Top(lines, {Subtree}) = IF rest = {} THEN Comment ELSE lines[Max(rest)]
  <2> HIDE DEF at
  <2> QED BY <1>2
<1>6. CASE all = {}
  <2> HIDE DEF all, rest
  <2> QED BY <1>3, <1>5, <1>6
<1>7. CASE all # {}
  <2>1. Max(all) \in all /\ \A j \in all : j <= Max(all)
    <3> HIDE DEF all
    <3> QED BY <1>1, <1>4, <1>7, EndsFacts
  <2>2. Max(all) \in rest
    <3>1. ~IsHeader(lines[Max(all)], Subtree)
      <4> HIDE DEF all
      <4> QED BY <1>5, <1>7
    <3> DEFINE m == Max(all)
    <3>2. m \in 1 .. n + 1 - 1 /\ lines[m].kind = "header"
      BY <2>1
    <3> HIDE DEF m
    <3> QED BY <3>1, <3>2 DEF m
  <2> HIDE DEF all, rest
  <2>3. Max(rest) \in rest /\ \A j \in rest : j <= Max(rest)
    <3>1. rest \in SUBSET (0 .. n) /\ rest # {}
      BY <1>3, <1>4, <2>2
    <3> QED BY <1>1, <3>1, EndsFacts
  <2>4. Max(all) = Max(rest)
    <3>1. Max(rest) <= Max(all) /\ Max(all) <= Max(rest)
      BY <1>3, <2>1, <2>2, <2>3
    <3>2. Max(rest) \in 0 .. n /\ Max(all) \in 0 .. n
      BY <1>3, <1>4, <2>1, <2>3
    <3> QED BY <1>1, <3>1, <3>2
  <2> QED BY <1>5, <1>7, <2>2, <2>4
<1> QED BY <1>6, <1>7

\* DropSectionIfEmpty has made a of the lines p, and holds a header back or not.
Dropped(of, a, p, held) ==
  /\ Keeps(of, a, p, {HeaderLine(Subtree, FALSE)})
  /\ Top(a, {Subtree}) = Top(p, {Subtree})
  /\ Top(a, {}) = IF held THEN Top(p, {Subtree}) ELSE Top(p, {})
  /\ \A u \in Sections(a) : \E w \in Sections(p) : u <= w
  /\ held => IsHeader(Top(p, {}), Subtree)
  /\ held /\ Sorted(p) => \A u \in Sections(a) : u < Subtree

(* The header itself is held back.                                         *)
LEMMA DropHolds ==
  ASSUME NEW of, Subtree \in Owned(of), NEW a, NEW p, NEW held \in BOOLEAN, Dropped(of, a, p, held),
         NEW x \in Whole, Fits(of, p, x), IsHeader(x, Subtree)
  PROVE  Dropped(of, a, Append(p, x), TRUE)
<1> DEFINE H == HeaderLine(Subtree, FALSE)
           q == Append(p, x)
<1>1. x = H /\ x.kind = "header" /\ IsPlain(x) /\ x.section = Subtree
  BY HeaderIs DEF IsHeader, IsPlain
<1>2. /\ a \in Seq(Whole) /\ p \in Seq(Whole) /\ WellFormed(of, a) /\ SameBut(a, p, {H})
      /\ Sorted(p) => Sorted(a)
      /\ Top(a, {Subtree}) = Top(p, {Subtree})
      /\ Top(a, {}) = IF held THEN Top(p, {Subtree}) ELSE Top(p, {})
      /\ \A u \in Sections(a) : \E w \in Sections(p) : u <= w
      /\ held => IsHeader(Top(p, {}), Subtree)
  BY DEF Dropped, Keeps
<1>3. a \in Seq(Line) /\ p \in Seq(Line) /\ x \in Line /\ q \in Seq(Whole)
  <2>1. a \in Seq(Line) /\ p \in Seq(Line) /\ x \in Line
    BY <1>2, LineKinds, SeqMonotonic
  <2>2. q \in Seq(Whole)
    BY <1>2, AppendFacts
  <2> QED BY <2>1, <2>2
<1> HIDE DEF H
<1>4. ~IsHeader(Top(p, {}), Subtree)
  <2>1. {} \in Skipped(of)
    BY DEF Skipped
  <2> QED BY <2>1 DEF Fits, Apart
<1>5. SameBut(a, q, {H})
  BY <1>1, <1>2, SameSteps
<1>6. Top(q, {Subtree}) = Top(p, {Subtree}) /\ Top(q, {}) = x
  <2>1. \A S : Top(q, S) = IF HeaderBut(x, S) THEN x ELSE Top(p, S)
    BY <1>3, AboveAppend
  <2>2. HeaderBut(x, {}) /\ ~HeaderBut(x, {Subtree})
    BY <1>1 DEF HeaderBut
  <2> QED BY <2>1, <2>2
<1>7. Top(p, {Subtree}) = Top(p, {})
  BY <1>3, <1>4, SkipSame
<1> DEFINE new == {y.section : y \in {z \in {x} : IsPlain(z)}}
<1>8. /\ Sections(q) = Sections(p) \cup new
      /\ Sorted(q) <=> Sorted(p) /\ (IsPlain(x) => \A s \in Sections(p) : s < x.section)
  BY <1>3, SectionsAppend
<1> HIDE DEF new, q
<1>9. ASSUME Sorted(q), NEW u \in Sections(a) PROVE u < Subtree
  <2>1. PICK w \in Sections(p) : u <= w
    BY <1>2
  <2>2. w < Subtree
    BY <1>1, <1>8, <1>9
  <2>3. u \in Nat /\ w \in Nat /\ Subtree \in Nat
    BY <1>3, SectionTypes DEF Subtree
  <2> QED BY <2>1, <2>2, <2>3
<1>10. Keeps(of, a, q, {H})
  BY <1>2, <1>3, <1>5, <1>8 DEF Keeps, q
<1>11. \A u \in Sections(a) : \E w \in Sections(q) : u <= w
  BY <1>2, <1>8
<1> QED BY <1>1, <1>2, <1>4, <1>6, <1>7, <1>9, <1>10, <1>11 DEF Dropped, H, q

(* It is brought back for a key.                                           *)
LEMMA DropBrings ==
  ASSUME NEW of, Subtree \in Owned(of), NEW a, NEW p, Dropped(of, a, p, TRUE),
         NEW x \in Whole, Fits(of, p, x), x.kind = "key"
  PROVE  Dropped(of, Append(Append(a, HeaderLine(Subtree, FALSE)), x), Append(p, x), FALSE)
<1> DEFINE H == HeaderLine(Subtree, FALSE)
           ah == Append(a, H)
           r == Append(ah, x)
           q == Append(p, x)
<1>1. H \in Whole /\ H \in Line /\ IsHeader(H, Subtree) /\ H.kind = "header" /\ H.section = Subtree /\ IsPlain(H)
  BY DEF HeaderLine, Whole, Line, IsHeader, IsPlain, Subtree
<1>2. /\ a \in Seq(Whole) /\ p \in Seq(Whole) /\ WellFormed(of, a) /\ SameBut(a, p, {H})
      /\ Sorted(p) => Sorted(a)
      /\ Top(a, {Subtree}) = Top(p, {Subtree})
      /\ Top(a, {}) = Top(p, {Subtree})
      /\ \A u \in Sections(a) : \E w \in Sections(p) : u <= w
      /\ IsHeader(Top(p, {}), Subtree)
      /\ Sorted(p) => \A u \in Sections(a) : u < Subtree
  BY DEF Dropped, Keeps
<1> HIDE DEF H
<1>3. a \in Seq(Line) /\ p \in Seq(Line) /\ x \in Line
  BY <1>2, LineKinds, SeqMonotonic
<1>4. ah \in Seq(Whole)
  BY <1>1, <1>2, AppendFacts
<1>5. ah \in Seq(Line)
  BY <1>4, LineKinds, SeqMonotonic
<1> HIDE DEF ah
<1>6. r \in Seq(Whole) /\ q \in Seq(Whole)
  BY <1>2, <1>4, AppendFacts
<1>7. Top(p, {}) = H
  <2>1. Top(p, {}) \in Whole
    <3>1. \A i \in DOMAIN p : p[i] \in Whole
      BY <1>2, LenProperties, ElementOfSeq
    <3>2. Comment \in Whole
      BY DEF Comment, Whole, Line
    <3> QED BY <1>3, <3>1, <3>2, TopIn
  <2> QED BY <1>2, <2>1, HeaderIs DEF H
<1>8. \A S \in Skipped(of) : S = {} \/ S = {Subtree}
  BY DEF Skipped
<1>9. ~IsHeader(Top(p, {Subtree}), Subtree)
  <2>1. Top(p, {Subtree}) = Comment \/ HeaderBut(Top(p, {Subtree}), {Subtree})
    BY <1>3, TopIn
  <2>2. ~IsHeader(Comment, Subtree)
    BY DEF Comment, IsHeader, IsPlain
  <2> QED BY <2>1, <2>2 DEF HeaderBut
<1>10. Fits(of, a, H)
  <2>1. AtHome(Top(a, {}), H)
    BY <1>1 DEF AtHome
  <2>2. ASSUME NEW S \in Skipped(of) PROVE Apart(of, Top(a, S), H)
    <3>1. Top(a, S) = Top(p, {Subtree})
      BY <1>2, <1>8
    <3>2. \A u : IsHeader(H, u) => u = Subtree
      BY <1>1 DEF IsHeader
    <3> QED BY <1>9, <3>1, <3>2 DEF Apart
  <2> QED BY <2>1, <2>2 DEF Fits
<1>11. WellFormed(of, ah)
  BY <1>1, <1>2, <1>3, <1>10, FitsAppend DEF ah
<1>12. \A S : Top(ah, S) = IF HeaderBut(H, S) THEN H ELSE Top(a, S)
  BY <1>1, <1>3, AboveAppend DEF ah
<1>13. HeaderBut(H, {}) /\ ~HeaderBut(H, {Subtree})
  BY <1>1 DEF HeaderBut
<1>14. Top(ah, {}) = Top(p, {}) /\ Top(ah, {Subtree}) = Top(p, {Subtree})
  BY <1>2, <1>7, <1>12, <1>13
<1>15. WellFormed(of, r)
  <2>1. AtHome(Top(ah, {}), x)
    BY <1>14 DEF Fits
  <2>2. \A S : Apart(of, Top(ah, S), x)
    BY DEF Apart, IsHeader, IsPlain
  <2> QED BY <1>3, <1>5, <1>11, <2>1, <2>2, FitsAppend DEF Fits
<1>16. SameBut(r, q, {H})
  <2>1. SameBut(ah, p, {H})
    <3>1. H \in {H} /\ (H.kind = "key" => Top(a, {}) = Top(p, {}))
      BY <1>1
    <3> QED BY <1>1, <1>2, <3>1, SameSteps DEF ah
  <2> QED BY <1>2, <1>4, <1>14, <2>1, SameSteps
<1>17. Top(r, {}) = Top(q, {}) /\ Top(r, {Subtree}) = Top(q, {Subtree})
  <2>1. \A S : ~HeaderBut(x, S)
    BY <1>3, LineKinds
  <2>2. \A S : Top(r, S) = IF HeaderBut(x, S) THEN x ELSE Top(ah, S)
    BY <1>3, <1>5, AboveAppend
  <2>3. \A S : Top(q, S) = IF HeaderBut(x, S) THEN x ELSE Top(p, S)
    BY <1>3, AboveAppend
  <2> QED BY <1>14, <2>1, <2>2, <2>3
<1> DEFINE new == {y.section : y \in {z \in {x} : IsPlain(z)}}
<1>18. new = {} /\ ~IsPlain(x)
  BY <1>3, LineKinds
<1>19. /\ Sections(q) = Sections(p) \cup new
       /\ Sorted(q) <=> Sorted(p) /\ (IsPlain(x) => \A s \in Sections(p) : s < x.section)
  BY <1>3, SectionsAppend
<1>20. /\ Sections(r) = Sections(ah) \cup new
       /\ Sorted(r) <=> Sorted(ah) /\ (IsPlain(x) => \A s \in Sections(ah) : s < x.section)
  BY <1>3, <1>5, SectionsAppend
<1>21. /\ Sections(ah) = Sections(a) \cup {Subtree}
       /\ Sorted(ah) <=> Sorted(a) /\ \A s \in Sections(a) : s < Subtree
  <2> DEFINE newh == {y.section : y \in {z \in {H} : IsPlain(z)}}
  <2>1. newh = {Subtree}
    BY <1>1
  <2>2. /\ Sections(ah) = Sections(a) \cup newh
        /\ Sorted(ah) <=> Sorted(a) /\ (IsPlain(H) => \A s \in Sections(a) : s < H.section)
    BY <1>1, <1>3, SectionsAppend DEF ah
  <2> HIDE DEF newh
  <2> QED BY <1>1, <2>1, <2>2
<1> HIDE DEF new, r, q
<1>22. Subtree \in Sections(p)
  BY <1>1, <1>3, <1>7, TopIn
<1>23. ASSUME NEW u \in Sections(r) PROVE \E w \in Sections(q) : u <= w
  <2>1. Sections(r) = Sections(a) \cup {Subtree} /\ Sections(q) = Sections(p)
    BY <1>18, <1>19, <1>20, <1>21
  <2>2. Subtree <= Subtree
    BY DEF Subtree
  <2> QED BY <1>2, <1>22, <2>1, <2>2
<1>24. Sorted(q) => Sorted(r)
  BY <1>2, <1>18, <1>19, <1>20, <1>21
<1>25. Keeps(of, r, q, {H})
  BY <1>6, <1>15, <1>16, <1>24 DEF Keeps
<1> QED BY <1>17, <1>23, <1>25 DEF Dropped, H, ah, r, q

(* Any other line is passed on.                                            *)
LEMMA DropPasses ==
  ASSUME NEW of, Subtree \in Owned(of), NEW a, NEW p, NEW held \in BOOLEAN, Dropped(of, a, p, held),
         NEW x \in Whole, Fits(of, p, x), ~IsHeader(x, Subtree), x.kind = "key" => ~held
  PROVE  Dropped(of, Append(a, x), Append(p, x), held /\ x.kind = "comment")
<1> DEFINE H == HeaderLine(Subtree, FALSE)
           r == Append(a, x)
           q == Append(p, x)
           still == held /\ x.kind = "comment"
<1>1. /\ a \in Seq(Whole) /\ p \in Seq(Whole) /\ WellFormed(of, a) /\ SameBut(a, p, {H})
      /\ Sorted(p) => Sorted(a)
      /\ Top(a, {Subtree}) = Top(p, {Subtree})
      /\ Top(a, {}) = IF held THEN Top(p, {Subtree}) ELSE Top(p, {})
      /\ \A u \in Sections(a) : \E w \in Sections(p) : u <= w
      /\ held => IsHeader(Top(p, {}), Subtree)
      /\ held /\ Sorted(p) => \A u \in Sections(a) : u < Subtree
  BY DEF Dropped, Keeps
<1> HIDE DEF H
<1>2. a \in Seq(Line) /\ p \in Seq(Line) /\ x \in Line /\ x.kind \in {"header", "key", "comment"}
  BY <1>1, LineKinds, SeqMonotonic
<1>3. r \in Seq(Whole) /\ q \in Seq(Whole)
  BY <1>1, AppendFacts
<1>4. /\ \A S \in Skipped(of) : S = {} \/ S = {Subtree}
      /\ {} \in Skipped(of) /\ {Subtree} \in Skipped(of)
  BY DEF Skipped
<1>5. x.kind = "key" => Top(a, {}) = Top(p, {})
  BY <1>1
<1>6. WellFormed(of, r)
  <2>1. AtHome(Top(a, {}), x)
    BY <1>5 DEF Fits, AtHome
  <2>2. ASSUME NEW S \in Skipped(of) PROVE Apart(of, Top(a, S), x)
    <3>1. Top(a, S) = Top(p, {}) \/ Top(a, S) = Top(p, {Subtree})
      BY <1>1, <1>4
    <3>2. Apart(of, Top(p, {}), x) /\ Apart(of, Top(p, {Subtree}), x)
      BY <1>4 DEF Fits
    <3> QED BY <3>1, <3>2
  <2> QED BY <1>1, <1>2, <2>1, <2>2, FitsAppend DEF Fits
<1>7. SameBut(r, q, {H})
  BY <1>1, <1>5, SameSteps
<1>8. HeaderBut(x, {}) <=> x.kind = "header"
  BY DEF HeaderBut
<1>9. HeaderBut(x, {Subtree}) <=> x.kind = "header"
  BY DEF HeaderBut
<1>10. \A S : /\ Top(r, S) = IF HeaderBut(x, S) THEN x ELSE Top(a, S)
              /\ Top(q, S) = IF HeaderBut(x, S) THEN x ELSE Top(p, S)
  BY <1>2, AboveAppend
<1> DEFINE new == {y.section : y \in {z \in {x} : IsPlain(z)}}
<1>11. /\ Sections(q) = Sections(p) \cup new
       /\ Sorted(q) <=> Sorted(p) /\ (IsPlain(x) => \A s \in Sections(p) : s < x.section)
  BY <1>2, SectionsAppend
<1>12. /\ Sections(r) = Sections(a) \cup new
       /\ Sorted(r) <=> Sorted(a) /\ (IsPlain(x) => \A s \in Sections(a) : s < x.section)
  BY <1>2, SectionsAppend
<1>13. new \subseteq Nat /\ (x.kind = "comment" => new = {})
  BY <1>2, LineKinds DEF IsPlain
<1> HIDE DEF new, r, q
<1>14. /\ Top(r, {Subtree}) = Top(q, {Subtree})
       /\ Top(r, {}) = IF still THEN Top(q, {Subtree}) ELSE Top(q, {})
       /\ still => IsHeader(Top(q, {}), Subtree)
  <2>1. CASE x.kind = "header"
    BY <1>8, <1>9, <1>10, <2>1
  <2>2. CASE x.kind = "key"
    BY <1>1, <1>8, <1>9, <1>10, <2>2
  <2>3. CASE x.kind = "comment"
    BY <1>1, <1>8, <1>9, <1>10, <2>3
  <2> QED BY <1>2, <2>1, <2>2, <2>3
<1>15. ASSUME NEW u \in Sections(r) PROVE \E w \in Sections(q) : u <= w
  <2>1. CASE u \in new
    <3>1. u <= u
      BY <1>13, <2>1
    <3> QED BY <1>11, <2>1, <3>1
  <2>2. CASE u \in Sections(a)
    BY <1>1, <1>11, <2>2
  <2> QED BY <1>12, <2>1, <2>2
<1>16. ASSUME Sorted(q) PROVE Sorted(r)
  <2>1. ASSUME IsPlain(x), NEW u \in Sections(a) PROVE u < x.section
    <3>1. PICK w \in Sections(p) : u <= w
      BY <1>1
    <3>2. w < x.section /\ x.section \in Nat
      BY <1>2, <1>11, <1>16, <2>1, LineKinds
    <3>3. u \in Nat /\ w \in Nat
      BY <1>2, SectionTypes
    <3> QED BY <3>1, <3>2, <3>3
  <2> QED BY <1>1, <1>11, <1>12, <1>16, <2>1
<1>17. ASSUME still, Sorted(q), NEW u \in Sections(r) PROVE u < Subtree
  BY <1>1, <1>11, <1>12, <1>13, <1>17
<1>18. Keeps(of, r, q, {H})
  BY <1>3, <1>6, <1>7, <1>16 DEF Keeps
<1> QED BY <1>14, <1>15, <1>17, <1>18 DEF Dropped, H, r, q

(* DropSectionIfEmpty leaves a good file, and all lines but the header.    *)
LEMMA DropSectionKeeps ==
  ASSUME NEW of, Subtree \in Owned(of), NEW lines \in Seq(Whole), WellFormed(of, lines)
  PROVE  Keeps(of, DropSectionIfEmpty(lines, Subtree), lines, {HeaderLine(Subtree, FALSE)})
<1> DEFINE n == Len(lines)
           upto(i) == SubSeq(lines, 1, i)
           held(i) == Held(lines, Subtree, i)
<1>1. /\ n \in Nat /\ DOMAIN lines = 1 .. n /\ lines \in Seq(Line)
      /\ \A i \in 1 .. n : lines[i] \in Whole /\ lines[i] \in Line
  BY LenProperties, ElementOfSeq, LineKinds, SeqMonotonic
<1>2. PICK f : /\ f \in [0 .. n -> Seq(Whole)] /\ f[0] = <<>>
               /\ \A i \in 1 .. n : f[i] = DropOne(f[i - 1], lines[i], Subtree, held(i - 1))
               /\ DropSectionIfEmpty(lines, Subtree) = f[n]
  BY DropGrows
<1>3. /\ ~held(0)
      /\ \A i \in 1 .. n :
           /\ IsHeader(lines[i], Subtree) => held(i)
           /\ ~IsHeader(lines[i], Subtree) /\ lines[i].kind # "comment" => ~held(i)
           /\ lines[i].kind = "comment" => (held(i) <=> held(i - 1))
  BY <1>1, HeldSteps
<1>4. /\ upto(0) = <<>> /\ upto(n) = lines
      /\ \A i \in 1 .. n : upto(i) = Append(upto(i - 1), lines[i])
  BY UptoFacts
<1>5. \A i \in 1 .. n : Fits(of, upto(i - 1), lines[i])
  BY <1>1, FileFits
<1>6. \A i : held(i) \in BOOLEAN
  BY DEF Held
<1> HIDE DEF n, upto, held
<1> DEFINE ok(i) == Dropped(of, f[i], upto(i), held(i))
           T == {i \in 0 .. n : ok(i)}
<1>7. 0 \in T
  <2>1. Follows(of, <<>>, <<>>, {HeaderLine(Subtree, FALSE)})
    BY FollowsFirst
  <2>2. Top(<<>>, {Subtree}) = Comment /\ Top(<<>>, {}) = Comment
    BY EmptyFile
  <2>3. Dropped(of, <<>>, <<>>, FALSE)
    BY <2>1, <2>2 DEF Follows, Dropped
  <2>4. held(0) = FALSE /\ 0 \in 0 .. n
    BY <1>1, <1>3, <1>6
  <2> QED BY <1>2, <1>4, <2>3, <2>4
<1>8. ASSUME NEW i \in 1 .. n, i - 1 \in T PROVE i \in T
  <2> DEFINE a == f[i - 1]
             p == upto(i - 1)
             x == lines[i]
             before == held(i - 1)
             H == HeaderLine(Subtree, FALSE)
  <2>1. Dropped(of, a, p, before) /\ before \in BOOLEAN /\ held(i) \in BOOLEAN
    BY <1>6, <1>8
  <2>2. /\ x \in Whole /\ Fits(of, p, x) /\ upto(i) = Append(p, x)
        /\ f[i] = DropOne(a, x, Subtree, before)
        /\ x.kind \in {"header", "key", "comment"}
    BY <1>1, <1>2, <1>4, <1>5, LineKinds
  <2>3. /\ IsHeader(x, Subtree) => held(i)
        /\ ~IsHeader(x, Subtree) /\ x.kind # "comment" => ~held(i)
        /\ x.kind = "comment" => (held(i) <=> before)
    BY <1>3
  <2>4. i \in 0 .. n
    BY <1>1
  <2> HIDE DEF a, p, x, before, T, H
  <2>5. CASE IsHeader(x, Subtree)
    <3>1. Dropped(of, a, Append(p, x), TRUE)
      BY <2>1, <2>2, <2>5, DropHolds
    <3>2. held(i) = TRUE /\ f[i] = a
      BY <2>1, <2>2, <2>3, <2>5 DEF DropOne
    <3>3. ok(i)
      BY <2>2, <3>1, <3>2
    <3> QED BY <2>4, <3>3 DEF T
  <2>6. CASE ~IsHeader(x, Subtree) /\ x.kind = "key" /\ before
    <3>1. before = TRUE
      BY <2>1, <2>6
    <3>2. Dropped(of, a, p, TRUE)
      BY <2>1, <3>1
    <3>3. Dropped(of, Append(Append(a, H), x), Append(p, x), FALSE)
      BY <2>2, <2>6, <3>2, DropBrings DEF H
    <3>4. held(i) = FALSE /\ f[i] = Append(Append(a, H), x)
      BY <2>1, <2>2, <2>3, <2>6 DEF DropOne, H
    <3>5. ok(i)
      BY <2>2, <3>3, <3>4
    <3> QED BY <2>4, <3>5 DEF T
  <2>7. CASE ~IsHeader(x, Subtree) /\ ~(x.kind = "key" /\ before)
    <3> DEFINE still == before /\ x.kind = "comment"
    <3>1. Dropped(of, Append(a, x), Append(p, x), still)
      BY <2>1, <2>2, <2>7, DropPasses
    <3>2. held(i) = still /\ f[i] = Append(a, x)
      BY <2>1, <2>2, <2>3, <2>7 DEF DropOne
    <3> HIDE DEF still
    <3>3. ok(i)
      BY <2>2, <3>1, <3>2
    <3> QED BY <2>4, <3>3 DEF T
  <2> QED BY <2>5, <2>6, <2>7
<1>9. n \in T
  <2>1. Climbs(T, n)
    <3> HIDE DEF T
    <3> QED BY <1>7, <1>8 DEF Climbs
  <2>2. n \in 0 .. n
    BY <1>1
  <2> HIDE DEF T
  <2> QED BY <1>1, <2>1, <2>2, Upwards
<1> QED BY <1>2, <1>4, <1>9 DEF Dropped

-----------------------------------------------------------------------------
(* The writers.                                                            *)

(* A whole file is written as it is.                                       *)
LEMMA WrittenWhole ==
  ASSUME NEW lines \in Seq(Whole)
  PROVE  Written(lines) = lines
<1>1. Len(lines) \in Nat /\ \A i \in 1 .. Len(lines) : lines[i].eol
  <2>1. \A i \in 1 .. Len(lines) : lines[i] \in Whole
    BY ElementOfSeq
  <2> QED BY <2>1, LenProperties DEF Whole
<1>2. {i \in 1 .. Len(lines) - 1 : ~lines[i].eol} = {}
  <2>1. \A i \in 1 .. Len(lines) - 1 : i \in 1 .. Len(lines)
    BY <1>1
  <2> QED BY <1>1, <2>1
<1> QED BY <1>2 DEF Written

(* A section whose header is not at stake stays.                           *)
LEMMA SectionKept ==
  ASSUME NEW of, NEW a, NEW p, NEW Y, Keeps(of, a, p, Y), NEW s \in Sections(p),
         \A x \in Y : ~IsHeader(x, s)
  PROVE  s \in Sections(a)
<1> DEFINE X == {x \in Line : IsHeader(x, s)}
<1>1. a \in Seq(Line) /\ p \in Seq(Line) /\ a \in Seq(Whole) /\ p \in Seq(Whole)
  BY LineKinds, SeqMonotonic DEF Keeps
<1>2. Only(a, X) = Only(p, X)
  <2>1. X \cap Y = {}
    OBVIOUS
  <2> HIDE DEF X
  <2> QED BY <2>1 DEF Keeps, SameBut
<1>3. DOMAIN a = 1 .. Len(a) /\ \A i \in 1 .. Len(a) : a[i] \in Line
  BY <1>1, LenProperties, ElementOfSeq
<1>4. DOMAIN p = 1 .. Len(p) /\ \A i \in 1 .. Len(p) : p[i] \in Line
  BY <1>1, LenProperties, ElementOfSeq
<1>5. PICK i \in 1 .. Len(p) : IsPlain(p[i]) /\ p[i].section = s
  BY <1>4 DEF Sections
<1>6. p[i] \in X
  BY <1>4, <1>5 DEF IsHeader
<1> HIDE DEF X
<1>7. Only(a, X) # <<>>
  BY <1>1, <1>2, <1>5, <1>6, OnlyNone
<1>8. PICK j \in 1 .. Len(a) : a[j] \in X
  BY <1>1, <1>7, OnlyNone
<1> QED BY <1>3, <1>8 DEF X, IsHeader, Sections

(* One filter after another.                                               *)
LEMMA KeepsThen ==
  ASSUME NEW of, NEW a, NEW b, NEW p, NEW Y, NEW Z, Keeps(of, a, p, Y), Keeps(of, b, a, Z)
  PROVE  Keeps(of, b, p, Y \cup Z)
<1>1. \A X : X \cap (Y \cup Z) = {} => X \cap Y = {} /\ X \cap Z = {}
  OBVIOUS
<1>2. SameBut(a, p, Y) /\ SameBut(b, a, Z)
  BY DEF Keeps
<1>3. ASSUME NEW X, X \cap (Y \cup Z) = {} PROVE Only(b, X) = Only(p, X)
  BY <1>1, <1>2, <1>3 DEF SameBut
<1>4. ASSUME NEW s, NEW sub, NEW k, KeyLines(k) \cap (Y \cup Z) = {}
      PROVE  ValuesOf(b, s, sub, k) = ValuesOf(p, s, sub, k)
  BY <1>1, <1>2, <1>4 DEF SameBut
<1> QED BY <1>3, <1>4 DEF Keeps, SameBut

(* Lines of keys and headers.                                              *)
LEMMA KindsApart ==
  ASSUME NEW s, NEW k
  PROVE  /\ \A u : \A x \in KeyLines(k) : ~IsHeader(x, u)
         /\ \A u : u # s => ~IsHeader(HeaderLine(s, FALSE), u)
         /\ HeaderLine(s, FALSE) \notin KeyLines(k)
         /\ \A l : l # k => KeyLines(l) \cap KeyLines(k) = {}
BY DEF KeyLines, IsKey, IsHeader, IsPlain, HeaderLine

(* The lines and the values of a key that is not at stake are the same.    *)
LEMMA FoundKept ==
  ASSUME NEW of, NEW a, NEW p, NEW Y, Keeps(of, a, p, Y), NEW s, NEW k, KeyLines(k) \cap Y = {}
  PROVE  /\ Only(a, KeyLines(k)) = Only(p, KeyLines(k)) /\ Values(a, s, k) = Values(p, s, k)
         /\ \A ls, vs : Found(p, s, k, ls, vs) => Found(a, s, k, ls, vs)
<1>1. Only(a, KeyLines(k)) = Only(p, KeyLines(k))
  BY DEF Keeps, SameBut
<1>2. Values(a, s, k) = Values(p, s, k)
  <2>1. \A sub : ValuesOf(a, s, sub, k) = ValuesOf(p, s, sub, k)
    BY DEF Keeps, SameBut
  <2> QED BY <2>1 DEF Values
<1> QED BY <1>1, <1>2 DEF Found

\* What a writer may change: the header of a section and the lines of a key.
About(s, k) == {HeaderLine(s, FALSE)} \cup KeyLines(k)

(* A key is set in its section.                                            *)
LEMMA PutKeeps ==
  ASSUME NEW of, NEW lines \in Seq(Whole), WellFormed(of, lines),
         NEW s, NEW k, Belongs(of, s, k), NEW v \in Value
  PROVE  /\ \A append \in BOOLEAN : Keeps(of, SetKey(AddSection(lines, s), s, k, v, append), lines, About(s, k))
         /\ Found(SetKey(AddSection(lines, s), s, k, v, FALSE), s, k, <<KeyLine(k, v)>>, <<v>>)
         /\ OneMore(Values(lines, s, k), Values(SetKey(AddSection(lines, s), s, k, v, TRUE), s, k), v)
<1> DEFINE l == AddSection(lines, s)
<1>1. s \in Owned(of)
  BY DEF Belongs
<1>2. Keeps(of, l, lines, {HeaderLine(s, FALSE)}) /\ s \in Sections(l)
  BY <1>1, AddSectionKeeps
<1> HIDE DEF l
<1>3. l \in Seq(Whole) /\ WellFormed(of, l)
  BY <1>2 DEF Keeps
<1>4. ASSUME NEW append \in BOOLEAN PROVE Keeps(of, SetKey(l, s, k, v, append), lines, About(s, k))
  <2>1. Keeps(of, SetKey(l, s, k, v, append), l, KeyLines(k))
    BY <1>3, SetKeyFollows DEF Follows
  <2> QED BY <1>2, <2>1, KeepsThen DEF About
<1>5. Found(SetKey(l, s, k, v, FALSE), s, k, <<KeyLine(k, v)>>, <<v>>)
  BY <1>2, <1>3, SetKeyAlone
<1>6. OneMore(Values(lines, s, k), Values(SetKey(l, s, k, v, TRUE), s, k), v)
  <2>1. OneMore(Values(l, s, k), Values(SetKey(l, s, k, v, TRUE), s, k), v)
    BY <1>2, <1>3, SetKeyInserts
  <2> DEFINE Y == {HeaderLine(s, FALSE)}
  <2>2. KeyLines(k) \cap Y = {} /\ Keeps(of, l, lines, Y)
    BY <1>2, KindsApart
  <2> HIDE DEF Y
  <2>3. Values(l, s, k) = Values(lines, s, k)
    BY <2>2, FoundKept
  <2> QED BY <2>1, <2>3
<1> QED BY <1>4, <1>5, <1>6 DEF l

(* Where the program's keys belong.                                        *)
LEMMA Homes ==
  /\ Belongs(".subpatch", Subprojects, Path)
  /\ Belongs(".subproject", Subtree, AppliedIndex) /\ Belongs(".subproject", Subtree, Checksum)
  /\ \A k \in {ObjectId, Revision, Url} : Belongs(".subproject", Upstream, k)
  /\ Subtree \in Owned(".subproject") /\ Upstream \in Owned(".subproject")
  /\ Checksum \notin {ObjectId, Revision, Url} /\ ObjectId # Revision /\ ObjectId # Url /\ Revision # Url
BY DEF Belongs, Owned, Home, Key, Subprojects, Subtree, Upstream,
       AppliedIndex, Checksum, Other, ObjectId, Path, Revision, Url

(* config_add_subproject.                                                  *)
LEMMA ListedKeeps ==
  ASSUME NEW lines \in Seq(Whole), WellFormed(".subpatch", lines), NEW v \in Value
  PROVE  /\ Keeps(".subpatch", Listed(lines, v), lines, About(Subprojects, Path))
         /\ OneMore(Values(lines, Subprojects, Path), Values(Listed(lines, v), Subprojects, Path), v)
<1> DEFINE of == ".subpatch"
<1>1. WellFormed(of, lines) /\ Belongs(of, Subprojects, Path)
  BY Homes
<1> HIDE DEF of
<1>2. /\ \A append \in BOOLEAN :
           Keeps(of, SetKey(AddSection(lines, Subprojects), Subprojects, Path, v, append), lines, About(Subprojects, Path))
      /\ OneMore(Values(lines, Subprojects, Path),
                 Values(SetKey(AddSection(lines, Subprojects), Subprojects, Path, v, TRUE), Subprojects, Path), v)
  BY <1>1, PutKeeps
<1>3. TRUE \in BOOLEAN
  OBVIOUS
<1>4. Keeps(of, SetKey(AddSection(lines, Subprojects), Subprojects, Path, v, TRUE), lines, About(Subprojects, Path))
  BY <1>2, <1>3
<1> QED BY <1>2, <1>4 DEF Listed, of

(* metadata_set_applied_index and metadata_set_subtree_checksum.           *)
LEMMA SetKeeps ==
  ASSUME NEW lines \in Seq(Whole), WellFormed(".subproject", lines), NEW k \in {AppliedIndex, Checksum},
         NEW v \in Value
  PROVE  /\ Keeps(".subproject", Set(lines, k, v), lines, About(Subtree, k))
         /\ Found(Set(lines, k, v), Subtree, k, <<KeyLine(k, v)>>, <<v>>)
<1> DEFINE of == ".subproject"
<1>1. WellFormed(of, lines) /\ Belongs(of, Subtree, k)
  BY Homes
<1> HIDE DEF of
<1>2. /\ \A append \in BOOLEAN :
           Keeps(of, SetKey(AddSection(lines, Subtree), Subtree, k, v, append), lines, About(Subtree, k))
      /\ Found(SetKey(AddSection(lines, Subtree), Subtree, k, v, FALSE), Subtree, k, <<KeyLine(k, v)>>, <<v>>)
  BY <1>1, PutKeeps
<1>3. FALSE \in BOOLEAN
  OBVIOUS
<1>4. Keeps(of, SetKey(AddSection(lines, Subtree), Subtree, k, v, FALSE), lines, About(Subtree, k))
  BY <1>2, <1>3
<1> QED BY <1>2, <1>4 DEF Set, of

(* metadata_drop_applied_index.                                            *)
LEMMA DropKeeps ==
  ASSUME NEW lines \in Seq(Whole), WellFormed(".subproject", lines)
  PROVE  /\ Keeps(".subproject", DropIndex(lines), lines, About(Subtree, AppliedIndex))
         /\ Found(DropIndex(lines), Subtree, AppliedIndex, <<>>, <<>>)
<1> DEFINE of == ".subproject"
           l == DropKey(lines, Subtree, AppliedIndex)
           r == DropSectionIfEmpty(l, Subtree)
<1>1. WellFormed(of, lines) /\ Belongs(of, Subtree, AppliedIndex) /\ Subtree \in Owned(of)
  BY Homes
<1> HIDE DEF of
<1>2. Follows(of, l, lines, KeyLines(AppliedIndex)) /\ Found(l, Subtree, AppliedIndex, <<>>, <<>>)
  BY <1>1, DropKeyFollows
<1> HIDE DEF l
<1>3. Keeps(of, l, lines, KeyLines(AppliedIndex)) /\ l \in Seq(Whole) /\ WellFormed(of, l)
  BY <1>2 DEF Follows, Keeps
<1>4. Keeps(of, r, l, {HeaderLine(Subtree, FALSE)})
  BY <1>1, <1>3, DropSectionKeeps
<1> HIDE DEF r
<1>5. Keeps(of, r, lines, About(Subtree, AppliedIndex))
  <2> DEFINE h == {HeaderLine(Subtree, FALSE)}
             K == KeyLines(AppliedIndex)
  <2>1. Keeps(of, r, lines, K \cup h)
    <3> HIDE DEF h, K
    <3> QED BY <1>3, <1>4, KeepsThen DEF h, K
  <2>2. K \cup h = h \cup K
    OBVIOUS
  <2> QED BY <2>1, <2>2 DEF About
<1>6. Found(r, Subtree, AppliedIndex, <<>>, <<>>)
  <2>1. KeyLines(AppliedIndex) \cap {HeaderLine(Subtree, FALSE)} = {}
    BY KindsApart
  <2> QED BY <1>2, <1>4, <2>1, FoundKept
<1> QED BY <1>5, <1>6 DEF DropIndex, l, r, of

(* A value is read from a line of the key, below a header.                 *)
LEMMA ValuesIn ==
  ASSUME NEW lines \in Seq(Whole), NEW s, NEW k
  PROVE  \A j \in 1 .. Len(Values(lines, s, k)) :
           \E i \in 1 .. Len(lines) :
             /\ IsKey(lines[i], k) /\ lines[i].value = Values(lines, s, k)[j]
             /\ \E h \in 1 .. i : lines[h].kind = "header"
<1> DEFINE n == Len(lines)
           upto(i) == SubSeq(lines, 1, i)
           from(l, i, v) == IsKey(l[i], k) /\ l[i].value = v /\ \E h \in 1 .. i : l[h].kind = "header"
           ok(l) == \A j \in 1 .. Len(Values(l, s, k)) : \E i \in 1 .. Len(l) : from(l, i, Values(l, s, k)[j])
           T == {i \in 0 .. n : ok(upto(i))}
<1>1. n \in Nat /\ \A i \in 1 .. n : lines[i] \in Whole
  BY LenProperties, ElementOfSeq
<1>2. /\ upto(0) = <<>> /\ upto(n) = lines /\ \A i \in 0 .. n : upto(i) \in Seq(Whole)
      /\ \A i \in 1 .. n : upto(i) = Append(upto(i - 1), lines[i])
  BY UptoFacts
<1> HIDE DEF n, upto
<1>3. 0 \in T
  <2>1. Values(<<>>, s, k) = <<>>
    <3>1. \A sub : ValuesOf(<<>>, s, sub, k) = <<>>
      BY ValuesNone
    <3> QED BY <3>1 DEF Values
  <2>2. \A j \in 1 .. Len(Values(<<>>, s, k)) : FALSE
    BY <2>1, EmptyFile
  <2>3. 0 \in 0 .. n
    BY <1>1
  <2> HIDE DEF from
  <2> QED BY <1>2, <2>2, <2>3
<1>4. ASSUME NEW i \in 1 .. n, i - 1 \in T PROVE i \in T
  <2> DEFINE p == upto(i - 1)
             x == lines[i]
             q == Append(p, x)
             V == Values(p, s, k)
             W == Values(q, s, k)
  <2>1. i \in 0 .. n /\ i - 1 \in 0 .. n
    BY <1>1
  <2>2. p \in Seq(Whole) /\ x \in Whole /\ upto(i) = q /\ ok(p)
    BY <1>1, <1>2, <1>4, <2>1
  <2> HIDE DEF p, x, ok, T
  <2>3. p \in Seq(Line)
    BY <2>2, LineKinds, SeqMonotonic
  <2>4. /\ Len(p) \in Nat /\ Len(q) = Len(p) + 1 /\ q[Len(p) + 1] = x
        /\ DOMAIN p = 1 .. Len(p) /\ \A l \in 1 .. Len(p) : q[l] = p[l]
    BY <2>2, AppendFacts
  <2>5. /\ V \in Seq(Value)
        /\ W = IF IsKey(x, k) /\ Below(Top(p, {}), s, FALSE) THEN Append(V, x.value) ELSE V
    <3>1. \A sub :
            /\ ValuesOf(p, s, sub, k) \in Seq(Value)
            /\ ValuesOf(q, s, sub, k) =
                 IF IsKey(x, k) /\ Below(Top(p, {}), s, sub)
                 THEN Append(ValuesOf(p, s, sub, k), x.value) ELSE ValuesOf(p, s, sub, k)
      BY <2>2, ValuesAppend
    <3> QED BY <3>1 DEF Values
  <2> HIDE DEF q, V, W
  <2>6. ASSUME NEW l \in 1 .. Len(p), NEW v, from(p, l, v) PROVE \E m \in 1 .. Len(q) : from(q, m, v)
    <3>1. PICK h \in 1 .. l : p[h].kind = "header"
      BY <2>6
    <3>2. q[h].kind = "header" /\ q[l] = p[l]
      BY <2>4, <3>1
    <3>3. l \in 1 .. Len(q)
      BY <2>4
    <3>4. from(q, l, v)
      BY <2>6, <3>1, <3>2
    <3> QED BY <3>3, <3>4
  <2>7. \A j \in 1 .. Len(V) : \E m \in 1 .. Len(q) : from(q, m, V[j])
    <3> SUFFICES ASSUME NEW j \in 1 .. Len(V) PROVE \E m \in 1 .. Len(q) : from(q, m, V[j])
      OBVIOUS
    <3>1. PICK l \in 1 .. Len(p) : from(p, l, V[j])
      BY <2>2 DEF ok, V
    <3> HIDE DEF from
    <3> QED BY <2>6, <3>1
  <2>8. CASE IsKey(x, k) /\ Below(Top(p, {}), s, FALSE)
    <3>1. x.value \in Value
      BY <2>2, <2>8, LineKinds
    <3>2. /\ W = Append(V, x.value) /\ Len(V) \in Nat /\ Len(W) = Len(V) + 1
          /\ W[Len(V) + 1] = x.value /\ \A j \in 1 .. Len(V) : W[j] = V[j]
      BY <2>5, <2>8, <3>1, AppendFacts
    <3>3. Top(p, {}) # Comment
      BY <2>8 DEF Below, Comment
    <3>4. PICK h \in 1 .. Len(p) : p[h].kind = "header"
      <4>1. PICK h \in DOMAIN p : Top(p, {}) = p[h] /\ HeaderBut(p[h], {})
        BY <2>3, <3>3, TopIn
      <4> QED BY <2>4, <4>1 DEF HeaderBut
    <3>5. h \in 1 .. Len(p) + 1 /\ q[h].kind = "header" /\ Len(p) + 1 \in 1 .. Len(q)
      BY <2>4, <3>4
    <3>6. from(q, Len(p) + 1, x.value)
      BY <2>4, <2>8, <3>5
    <3>7. ASSUME NEW j \in 1 .. Len(W) PROVE \E m \in 1 .. Len(q) : from(q, m, W[j])
      <4>1. CASE j = Len(V) + 1
        <5> HIDE DEF from
        <5> QED BY <3>2, <3>5, <3>6, <4>1
      <4>2. CASE j # Len(V) + 1
        <5>1. j \in 1 .. Len(V)
          BY <3>2, <4>2
        <5> HIDE DEF from
        <5> QED BY <2>7, <3>2, <5>1
      <4> QED BY <4>1, <4>2
    <3>8. ok(q)
      BY <3>7 DEF ok, W
    <3> QED BY <2>1, <2>2, <3>8 DEF T
  <2>9. CASE ~(IsKey(x, k) /\ Below(Top(p, {}), s, FALSE))
    <3>1. W = V
      BY <2>5, <2>9
    <3>2. ok(q)
      BY <2>7, <3>1 DEF ok, W
    <3> QED BY <2>1, <2>2, <3>2 DEF T
  <2> QED BY <2>8, <2>9
<1>5. n \in T
  <2>1. Climbs(T, n)
    <3> HIDE DEF T
    <3> QED BY <1>3, <1>4 DEF Climbs
  <2>2. n \in 0 .. n
    BY <1>1
  <2> HIDE DEF T
  <2> QED BY <1>1, <2>1, <2>2, Upwards
<1> QED BY <1>2, <1>5 DEF n

(* A value that was added is in the list.                                  *)
LEMMA AddedIsRead ==
  ASSUME NEW lines \in Seq(Whole), NEW s, NEW vs \in Seq(Value), NEW v \in Value,
         OneMore(vs, Values(lines, s, Path), v)
  PROVE  v \in PathsRead(lines)
<1> DEFINE ws == Values(lines, s, Path)
<1>1. PICK j \in 1 .. Len(vs) + 1 : ws = InsertAt(vs, j, v)
  BY DEF OneMore
<1>2. Len(vs) \in Nat /\ DOMAIN lines = 1 .. Len(lines)
  BY LenProperties
<1>3. Len(ws) = Len(vs) + 1 /\ ws[j] = v
  <2> DEFINE r == InsertAt(vs, j, v)
  <2>1. Len(r) = Len(vs) + 1 /\ \A l \in 1 .. Len(vs) + 1 :
          r[l] = IF l < j THEN vs[l] ELSE IF l = j THEN v ELSE vs[l - 1]
    BY InsertFacts
  <2>2. ~(j < j)
    BY <1>2
  <2> HIDE DEF r
  <2>3. r[j] = v
    BY <2>1, <2>2
  <2> QED BY <1>1, <2>1, <2>3 DEF r
<1>4. PICK i \in 1 .. Len(lines) : /\ IsKey(lines[i], Path) /\ lines[i].value = ws[j]
                                   /\ \E h \in 1 .. i : lines[h].kind = "header"
  <2>1. j \in 1 .. Len(ws)
    BY <1>2, <1>3
  <2> QED BY <2>1, ValuesIn
<1> QED BY <1>2, <1>3, <1>4 DEF PathsRead

(* What is read after a key was set or dropped.                            *)
LEMMA ReadFound ==
  ASSUME NEW lines, NEW s, NEW k
  PROVE  /\ \A vs : Found(lines, s, k, <<>>, vs) => Read(lines, k) = {}
         /\ \A v, vs : Found(lines, s, k, <<KeyLine(k, v)>>, vs) => Read(lines, k) = {v}
<1>1. \A v : /\ <<KeyLine(k, v)>> # <<>> /\ Last(<<KeyLine(k, v)>>) = KeyLine(k, v)
             /\ KeyLine(k, v).value = v
  BY DEF Last, KeyLine
<1>2. ASSUME NEW vs, Found(lines, s, k, <<>>, vs) PROVE Read(lines, k) = {}
  BY <1>2 DEF Found, Read
<1>3. ASSUME NEW v, NEW vs, Found(lines, s, k, <<KeyLine(k, v)>>, vs) PROVE Read(lines, k) = {v}
  <2> DEFINE line == KeyLine(k, v)
  <2>1. Only(lines, KeyLines(k)) = <<line>>
    BY <1>3 DEF Found
  <2>2. <<line>> # <<>> /\ Last(<<line>>) = line /\ line.value = v
    BY <1>1
  <2> HIDE DEF line
  <2> QED BY <2>1, <2>2 DEF Read
<1> QED BY <1>2, <1>3

-----------------------------------------------------------------------------
(* Writing the same again.                                                 *)

(* The first line of a kind.                                               *)
LEMMA OnlyFirst ==
  ASSUME NEW lines \in Seq(Line), NEW X, Only(lines, X) # <<>>
  PROVE  \E i \in 1 .. Len(lines) : /\ lines[i] \in X /\ Only(lines, X)[1] = lines[i]
                                    /\ \A j \in 1 .. i - 1 : lines[j] \notin X
<1> DEFINE n == Len(lines)
           upto(i) == SubSeq(lines, 1, i)
           o(i) == Only(upto(i), X)
           none(i) == \A j \in 1 .. i : lines[j] \notin X
           first(i) == \E h \in 1 .. i : /\ lines[h] \in X /\ o(i)[1] = lines[h]
                                         /\ \A j \in 1 .. h - 1 : lines[j] \notin X
           T == {i \in 0 .. n : IF o(i) = <<>> THEN none(i) ELSE first(i)}
<1>1. n \in Nat /\ \A i \in 1 .. n : lines[i] \in Line
  BY LenProperties, ElementOfSeq
<1>2. /\ upto(0) = <<>> /\ upto(n) = lines /\ \A i \in 0 .. n : upto(i) \in Seq(Line)
      /\ \A i \in 1 .. n : upto(i) = Append(upto(i - 1), lines[i])
  BY UptoFacts
<1> HIDE DEF n, upto
<1>3. 0 \in T
  <2>1. o(0) = <<>>
    <3> DEFINE p == upto(0)
    <3>1. p \in Seq(Line) /\ p = <<>> /\ Comment \in Line
      BY <1>2, EmptyFile DEF Comment, Line
    <3> HIDE DEF p
    <3>2. Only(p, X) = <<>>
      BY <3>1, OnlyAppend
    <3> QED BY <3>2 DEF p
  <2>2. 0 \in 0 .. n /\ none(0)
    BY <1>1
  <2> HIDE DEF o, none, first
  <2>3. o(0) = <<>> /\ none(0)
    BY <2>1, <2>2
  <2> QED BY <2>2, <2>3
<1>4. ASSUME NEW i \in 1 .. n, i - 1 \in T PROVE i \in T
  <2> DEFINE x == lines[i]
             was == o(i - 1)
  <2>1. i \in 0 .. n /\ i - 1 \in 0 .. n /\ i \in Nat /\ i >= 1
    BY <1>1
  <2>2. /\ was \in Seq(Line) /\ x \in Line
        /\ o(i) = IF x \in X THEN Append(was, x) ELSE was
    <3> DEFINE p == upto(i - 1)
    <3>1. p \in Seq(Line) /\ x \in Line /\ upto(i) = Append(p, x)
      BY <1>1, <1>2, <2>1
    <3> HIDE DEF p, x, o, none, first, T
    <3>2. /\ Only(p, X) \in Seq(Line) /\ (p = <<>> => Only(p, X) = <<>>)
          /\ Only(Append(p, x), X) = IF x \in X THEN Append(Only(p, X), x) ELSE Only(p, X)
      BY <3>1, OnlyAppend
    <3> QED BY <3>1, <3>2 DEF p, x, o
  <2>3. IF was = <<>> THEN none(i - 1) ELSE first(i - 1)
    <3> HIDE DEF o, none, first
    <3> QED BY <1>4
  <2>4. \A j : j \in 1 .. i <=> j \in 1 .. i - 1 \/ j = i
    BY <2>1
  <2>5. CASE x \notin X
    <3>1. o(i) = was
      BY <2>2, <2>5
    <3>2. none(i - 1) => none(i)
      BY <2>4, <2>5
    <3>3. first(i - 1) => first(i)
      <4> HIDE DEF o
      <4> QED BY <2>4, <3>1
    <3> HIDE DEF o, none, first
    <3> QED BY <2>1, <2>3, <3>1, <3>2, <3>3
  <2>6. CASE x \in X
    <3> HIDE DEF was, x
    <3>1. /\ Len(was) \in Nat /\ Len(Append(was, x)) = Len(was) + 1
          /\ \A j \in 1 .. Len(was) : Append(was, x)[j] = was[j]
          /\ Append(was, x)[Len(was) + 1] = x
      BY <2>2, AppendFacts
    <3>2. o(i) = Append(was, x) /\ o(i) # <<>>
      <4>1. Len(Append(was, x)) # 0
        BY <3>1
      <4>2. Append(was, x) # <<>>
        BY <4>1, EmptyFile
      <4> HIDE DEF o
      <4> QED BY <2>2, <2>6, <4>2
    <3> HIDE DEF o
    <3>3. CASE was = <<>>
      <4>1. o(i)[1] = x
        <5>1. Len(was) + 1 = 1
          BY <3>3, EmptyFile
        <5> QED BY <3>1, <3>2, <5>1
      <4>2. none(i - 1)
        <5> HIDE DEF none, first
        <5> QED BY <2>3, <3>3
      <4>3. first(i)
        BY <2>1, <2>6, <4>1, <4>2 DEF x
      <4> HIDE DEF first, none
      <4> QED BY <2>1, <3>2, <4>3
    <3>4. CASE was # <<>>
      <4>1. o(i)[1] = was[1]
        <5>1. Len(was) # 0
          BY <2>2, <3>4, EmptySeq
        <5> QED BY <3>1, <3>2, <5>1
      <4>2. first(i - 1)
        <5> HIDE DEF none, first
        <5> QED BY <2>3, <3>4
      <4>3. first(i)
        BY <2>4, <4>1, <4>2 DEF was
      <4> HIDE DEF first, none
      <4> QED BY <2>1, <3>2, <4>3
    <3> QED BY <3>3, <3>4
  <2> QED BY <2>5, <2>6
<1>5. n \in T
  <2>1. Climbs(T, n)
    <3> HIDE DEF T
    <3> QED BY <1>3, <1>4 DEF Climbs
  <2>2. n \in 0 .. n
    BY <1>1
  <2> HIDE DEF T
  <2> QED BY <1>1, <2>1, <2>2, Upwards
<1>6. o(n) # <<>> /\ o(n) = Only(lines, X)
  BY <1>2
<1>7. first(n)
  <2> HIDE DEF o, none, first
  <2> QED BY <1>5, <1>6
<1> HIDE DEF o
<1> QED BY <1>6, <1>7 DEF n

(* The one line of a kind.                                                 *)
LEMMA OnlyOne ==
  ASSUME NEW lines \in Seq(Line), NEW X, NEW y, Only(lines, X) = <<y>>
  PROVE  \E i \in 1 .. Len(lines) : lines[i] = y /\ \A j \in 1 .. Len(lines) : lines[j] \in X => j = i
<1> DEFINE n == Len(lines)
           upto(i) == SubSeq(lines, 1, i)
           o(i) == Only(upto(i), X)
           none(i) == \A j \in 1 .. i : lines[j] \notin X
           one(i) == \E h \in 1 .. i : lines[h] = o(i)[1] /\ \A j \in 1 .. i : lines[j] \in X => j = h
           T == {i \in 0 .. n : (o(i) = <<>> => none(i)) /\ (Len(o(i)) = 1 => one(i))}
<1>1. n \in Nat /\ \A i \in 1 .. n : lines[i] \in Line
  BY LenProperties, ElementOfSeq
<1>2. /\ upto(0) = <<>> /\ upto(n) = lines /\ \A i \in 0 .. n : upto(i) \in Seq(Line)
      /\ \A i \in 1 .. n : upto(i) = Append(upto(i - 1), lines[i])
  BY UptoFacts
<1> HIDE DEF n, upto
<1>3. 0 \in T
  <2>1. o(0) = <<>>
    <3> DEFINE p == upto(0)
    <3>1. p \in Seq(Line) /\ p = <<>> /\ Comment \in Line
      BY <1>2, EmptyFile DEF Comment, Line
    <3> HIDE DEF p
    <3>2. Only(p, X) = <<>>
      BY <3>1, OnlyAppend
    <3> QED BY <3>2 DEF p
  <2>2. 0 \in 0 .. n /\ none(0)
    BY <1>1
  <2> HIDE DEF o, none, one
  <2>3. Len(o(0)) # 1
    <3>1. Len(o(0)) = 0
      BY <2>1, EmptyFile
    <3> DEFINE l == Len(o(0))
    <3>2. l = 0
      BY <3>1
    <3> HIDE DEF l
    <3>3. l # 1
      BY <3>2
    <3> QED BY <3>3 DEF l
  <2> QED BY <2>2, <2>3
<1>4. ASSUME NEW i \in 1 .. n, i - 1 \in T PROVE i \in T
  <2> DEFINE x == lines[i]
             was == o(i - 1)
  <2>1. i \in 0 .. n /\ i - 1 \in 0 .. n /\ i \in Nat /\ i >= 1
    BY <1>1
  <2>2. /\ was \in Seq(Line) /\ x \in Line
        /\ o(i) = IF x \in X THEN Append(was, x) ELSE was
    <3> DEFINE p == upto(i - 1)
    <3>1. p \in Seq(Line) /\ x \in Line /\ upto(i) = Append(p, x)
      BY <1>1, <1>2, <2>1
    <3> HIDE DEF p, x
    <3>2. /\ Only(p, X) \in Seq(Line) /\ (p = <<>> => Only(p, X) = <<>>)
          /\ Only(Append(p, x), X) = IF x \in X THEN Append(Only(p, X), x) ELSE Only(p, X)
      BY <3>1, OnlyAppend
    <3> QED BY <3>1, <3>2 DEF p
  <2>3. (was = <<>> => none(i - 1)) /\ (Len(was) = 1 => one(i - 1))
    <3> HIDE DEF o, none, one
    <3> QED BY <1>4
  <2>4. \A j : j \in 1 .. i <=> j \in 1 .. i - 1 \/ j = i
    BY <2>1
  <2>5. CASE x \notin X
    <3>1. o(i) = was
      BY <2>2, <2>5
    <3>2. none(i - 1) => none(i)
      BY <2>4, <2>5
    <3>3. one(i - 1) => one(i)
      <4> HIDE DEF o
      <4> QED BY <2>4, <2>5, <3>1
    <3> HIDE DEF o, none, one
    <3> QED BY <2>1, <2>3, <3>1, <3>2, <3>3
  <2>6. CASE x \in X
    <3> HIDE DEF was
    <3>1. /\ Len(was) \in Nat /\ Len(Append(was, x)) = Len(was) + 1
          /\ Append(was, x)[Len(was) + 1] = x
      BY <2>2, AppendFacts
    <3>2. o(i) = Append(was, x)
      <4> HIDE DEF o
      <4> QED BY <2>2, <2>6
    <3> HIDE DEF o
    <3>3. o(i) # <<>>
      <4>1. Len(o(i)) # 0
        BY <3>1, <3>2
      <4> QED BY <4>1, EmptyFile
    <3>4. ASSUME Len(o(i)) = 1 PROVE one(i)
      <4>1. Len(was) = 0
        BY <3>1, <3>2, <3>4
      <4>2. was = <<>>
        BY <2>2, <4>1, EmptySeq
      <4>3. none(i - 1)
        <5> HIDE DEF none, one
        <5> QED BY <2>3, <4>2
      <4>4. o(i)[1] = x
        BY <3>1, <3>2, <4>1
      <4>5. \A j \in 1 .. i : lines[j] \in X => j = i
        BY <2>4, <4>3
      <4> QED BY <2>4, <4>4, <4>5
    <3> HIDE DEF none, one
    <3> QED BY <2>1, <3>3, <3>4
  <2> QED BY <2>5, <2>6
<1>5. n \in T
  <2>1. Climbs(T, n)
    <3> HIDE DEF T
    <3> QED BY <1>3, <1>4 DEF Climbs
  <2>2. n \in 0 .. n
    BY <1>1
  <2> HIDE DEF T
  <2> QED BY <1>1, <2>1, <2>2, Upwards
<1>6. o(n) = <<y>>
  BY <1>2
<1>7. Len(o(n)) = 1 /\ o(n)[1] = y
  <2> HIDE DEF o
  <2> QED BY <1>6
<1>8. one(n)
  <2> HIDE DEF o, none, one
  <2> QED BY <1>5, <1>7
<1> HIDE DEF o
<1> QED BY <1>7, <1>8 DEF n

(* A section that is there is not added.                                   *)
LEMMA AddSectionDone ==
  ASSUME NEW of, NEW lines \in Seq(Whole), NEW s \in Owned(of), Leads(lines, s)
  PROVE  AddSection(lines, s) = lines
<1> DEFINE n == Len(lines)
           X == From(s)
           upto(i) == SubSeq(lines, 1, i)
<1>1. /\ n \in Nat /\ DOMAIN lines = 1 .. n /\ lines \in Seq(Line)
      /\ \A i \in 1 .. n : lines[i] \in Line
  BY LenProperties, ElementOfSeq, LineKinds, SeqMonotonic
<1>2. s \in Nat
  BY DEF Owned, Subprojects, Subtree, Upstream
<1>3. PICK b \in 1 .. n : /\ lines[b] \in X /\ IsHeader(lines[b], s)
                          /\ \A j \in 1 .. b - 1 : lines[j] \notin X
  <2> HIDE DEF X, n
  <2>1. Only(lines, X) # <<>> /\ IsHeader(Only(lines, X)[1], s)
    BY DEF Leads, X
  <2>2. \E i \in 1 .. n : /\ lines[i] \in X /\ Only(lines, X)[1] = lines[i]
                          /\ \A j \in 1 .. i - 1 : lines[j] \notin X
    BY <1>1, <2>1, OnlyFirst DEF n
  <2> QED BY <2>1, <2>2
<1>4. IsPlain(lines[b]) /\ lines[b].section = s
  BY <1>3 DEF IsHeader
<1>5. ~(\A u \in Sections(lines) : u < s)
  <2>1. s \in Sections(lines)
    BY <1>1, <1>4 DEF Sections
  <2> QED BY <1>2, <2>1
<1>6. PICK m, f : FirstBig(lines, s, m) /\ Adds(f, lines, s, m) /\ AddSection(lines, s) = f[n]
  BY <1>5, AddSectionGrows
<1>7. IsHeader(lines[m], s)
  <2>1. m \in 1 .. n /\ IsPlain(lines[m]) /\ lines[m].section >= s
    BY <1>6 DEF FirstBig
  <2>2. ~(b < m)
    <3>1. b < m => lines[b].section < s
      BY <1>4, <1>6 DEF FirstBig
    <3> QED BY <1>2, <1>4, <3>1
  <2>3. lines[m] \in X
    BY <1>1, <2>1 DEF From
  <2>4. ~(m < b)
    <3> HIDE DEF X, n
    <3>1. m < b => m \in 1 .. b - 1
      BY <1>1, <2>1
    <3> QED BY <1>3, <2>3, <3>1
  <2>5. m = b
    BY <1>1, <2>1, <2>2, <2>4
  <2> QED BY <1>3, <2>5
<1>8. /\ upto(0) = <<>> /\ upto(n) = lines
      /\ \A i \in 1 .. n : upto(i) = Append(upto(i - 1), lines[i])
  BY UptoFacts
<1>9. /\ f[0] = <<>>
      /\ \A i \in 1 .. n : f[i] = Append(f[i - 1], lines[i])
  BY <1>6, <1>7 DEF Adds
<1> HIDE DEF n, upto
<1> DEFINE T == {i \in 0 .. n : f[i] = upto(i)}
<1>10. 0 \in T
  BY <1>1, <1>8, <1>9
<1>11. ASSUME NEW i \in 1 .. n, i - 1 \in T PROVE i \in T
  <2>1. i \in 0 .. n
    BY <1>1
  <2>2. f[i - 1] = upto(i - 1)
    BY <1>11
  <2>3. f[i] = upto(i)
    BY <1>8, <1>9, <2>2
  <2> QED BY <2>1, <2>3
<1>12. n \in T
  <2>1. Climbs(T, n)
    <3> HIDE DEF T
    <3> QED BY <1>10, <1>11 DEF Climbs
  <2>2. n \in 0 .. n
    BY <1>1
  <2> HIDE DEF T
  <2> QED BY <1>1, <2>1, <2>2, Upwards
<1> QED BY <1>6, <1>8, <1>12

(* Nor is it after other lines were changed.                               *)
LEMMA LeadsKept ==
  ASSUME NEW of, NEW a, NEW p, NEW Y, Keeps(of, a, p, Y), NEW s, From(s) \cap Y = {}, Leads(p, s)
  PROVE  Leads(a, s)
<1>1. Only(a, From(s)) = Only(p, From(s))
  BY DEF Keeps, SameBut
<1> QED BY <1>1 DEF Leads

\* The key is put in before the line x, if it was not yet.
Stops(h, x, s, k) == IsHeader(h, s) /\ (x.kind = "key" => x.key >= k) /\ x.kind # "comment"

\* In each place of the key, a line of the key is there or has been before.
Ahead(lines, s, k) ==
  \A i \in DOMAIN lines : Stops(Above(lines, i, {}), lines[i], s, k) =>
    \E j \in 1 .. i : IsKey(lines[j], k)

(* Line by line.                                                           *)
LEMMA AheadAppend ==
  ASSUME NEW a \in Seq(Line), NEW x \in Line, NEW s, NEW k
  PROVE  /\ Ahead(<<>>, s, k)
         /\ Ahead(Append(a, x), s, k) <=>
              /\ Ahead(a, s, k)
              /\ Stops(Top(a, {}), x, s, k) => IsKey(x, k) \/ Only(a, KeyLines(k)) # <<>>
<1> DEFINE n == Len(a)
           b == Append(a, x)
           ok(l, i) == Stops(Above(l, i, {}), l[i], s, k) => \E j \in 1 .. i : IsKey(l[j], k)
<1>1. /\ n \in Nat /\ DOMAIN a = 1 .. n /\ DOMAIN b = 1 .. n + 1
      /\ b[n + 1] = x /\ \A i \in 1 .. n : b[i] = a[i]
  BY AppendFacts
<1>2. \A i \in 1 .. n + 1 : Above(b, i, {}) = Above(a, i, {})
  BY AboveAppend
<1>3. Only(a, KeyLines(k)) # <<>> <=> \E j \in 1 .. n : IsKey(a[j], k)
  <2>1. \A j \in 1 .. n : a[j] \in KeyLines(k) <=> IsKey(a[j], k)
    BY ElementOfSeq DEF KeyLines
  <2> QED BY <2>1, OnlyNone
<1>4. Top(a, {}) = Above(a, n + 1, {})
  BY DEF Top
<1>5. Ahead(<<>>, s, k)
  BY EmptyFile DEF Ahead
<1> HIDE DEF n, b
<1>6. \A i \in 1 .. n : ok(b, i) <=> ok(a, i)
  <2>1. ASSUME NEW i \in 1 .. n PROVE ok(b, i) <=> ok(a, i)
    <3>1. i \in 1 .. n + 1 /\ \A j \in 1 .. i : j \in 1 .. n
      BY <1>1
    <3>2. (\E j \in 1 .. i : IsKey(b[j], k)) <=> \E j \in 1 .. i : IsKey(a[j], k)
      BY <1>1, <3>1
    <3> QED BY <1>1, <1>2, <3>1, <3>2
  <2> QED BY <2>1
<1>7. ok(b, n + 1) <=> (Stops(Top(a, {}), x, s, k) => IsKey(x, k) \/ Only(a, KeyLines(k)) # <<>>)
  <2>1. n + 1 \in 1 .. n + 1 /\ \A j : j \in 1 .. n + 1 <=> j \in 1 .. n \/ j = n + 1
    BY <1>1
  <2>2. (\E j \in 1 .. n + 1 : IsKey(b[j], k)) <=> (\E j \in 1 .. n : IsKey(a[j], k)) \/ IsKey(x, k)
    BY <1>1, <2>1
  <2> QED BY <1>1, <1>2, <1>3, <1>4, <2>1, <2>2
<1>8. \A i : i \in 1 .. n + 1 <=> i \in 1 .. n \/ i = n + 1
  BY <1>1
<1>9. Ahead(b, s, k) <=> \A i \in 1 .. n + 1 : ok(b, i)
  BY <1>1 DEF Ahead
<1>10. Ahead(a, s, k) <=> \A i \in 1 .. n : ok(a, i)
  BY <1>1 DEF Ahead
<1> HIDE DEF ok
<1>11. Ahead(b, s, k) <=> (\A i \in 1 .. n : ok(b, i)) /\ ok(b, n + 1)
  BY <1>8, <1>9
<1> QED BY <1>5, <1>6, <1>7, <1>10, <1>11 DEF b

(* The first lines of a file are no worse.                                 *)
LEMMA AheadUpto ==
  ASSUME NEW lines \in Seq(Line), NEW s, NEW k, Ahead(lines, s, k), NEW i \in 1 .. Len(lines)
  PROVE  Stops(Above(lines, i, {}), lines[i], s, k) =>
           IsKey(lines[i], k) \/ Only(SubSeq(lines, 1, i - 1), KeyLines(k)) # <<>>
<1> DEFINE p == SubSeq(lines, 1, i - 1)
<1>1. Len(lines) \in Nat /\ DOMAIN lines = 1 .. Len(lines) /\ \A j \in 1 .. Len(lines) : lines[j] \in Line
  BY LenProperties, ElementOfSeq
<1>2. i - 1 \in 0 .. Len(lines)
  BY <1>1
<1>3. p \in Seq(Line) /\ Len(p) = i - 1 /\ \A j \in 1 .. i - 1 : p[j] = lines[j]
  <2>1. p \in Seq(Line)
    BY <1>2, UptoFacts
  <2>2. 1 \in Int /\ i - 1 \in Int /\ \A j \in 1 .. i - 1 : lines[j] \in Line
    BY <1>1
  <2>3. Len(p) = IF 1 <= i - 1 THEN i - 1 - 1 + 1 ELSE 0
    BY <2>2, SubSeqProperties
  <2>4. Len(p) = i - 1
    BY <1>1, <2>3
  <2>5. \A j \in 1 .. i - 1 - 1 + 1 : p[j] = lines[1 + j - 1]
    BY <2>2, SubSeqProperties
  <2>6. \A j \in 1 .. i - 1 : p[j] = lines[j]
    BY <1>1, <2>5
  <2> QED BY <2>1, <2>4, <2>6
<1> HIDE DEF p
<1> SUFFICES ASSUME Stops(Above(lines, i, {}), lines[i], s, k), ~IsKey(lines[i], k)
             PROVE  Only(p, KeyLines(k)) # <<>>
  BY DEF p
<1>4. PICK j \in 1 .. i : IsKey(lines[j], k)
  BY <1>1 DEF Ahead
<1>5. j \in 1 .. i - 1 /\ j \in 1 .. Len(lines)
  BY <1>1, <1>4
<1>6. p[j] \in KeyLines(k)
  BY <1>1, <1>3, <1>4, <1>5 DEF KeyLines
<1>7. j \in 1 .. Len(p)
  BY <1>3, <1>5
<1> QED BY <1>3, <1>6, <1>7, OnlyNone

(* A line of a key.                                                        *)
LEMMA KeyLineIs ==
  ASSUME NEW of, NEW s, NEW k, Belongs(of, s, k), NEW v \in Value
  PROVE  LET line == KeyLine(k, v)
         IN line \in Whole /\ line \in Line /\ line.kind = "key" /\ IsKey(line, k) /\ line \in KeyLines(k)
<1>1. KeyLine(k, v) \in Whole /\ KeyLine(k, v) \in Line
  BY DEF Belongs, KeyLine, Whole, Line
<1> QED BY <1>1 DEF KeyLine, IsKey, KeyLines

(* SetKey puts the key in at the first place.                              *)
LEMMA SetKeyAhead ==
  ASSUME NEW of, NEW lines \in Seq(Whole), WellFormed(of, lines),
         NEW s, NEW k, Belongs(of, s, k), NEW v \in Value
  PROVE  Ahead(SetKey(lines, s, k, v, FALSE), s, k)
<1> DEFINE n == Len(lines)
           line == KeyLine(k, v)
           K == KeyLines(k)
           first(i) == NoneYet(lines, s, k, i)
<1>1. /\ n \in Nat /\ DOMAIN lines = 1 .. n /\ lines \in Seq(Line)
      /\ \A i \in 1 .. n : lines[i] \in Line
  BY LenProperties, ElementOfSeq, LineKinds, SeqMonotonic
<1>2. PICK f : /\ Sets(f, lines, s, k, v, FALSE)
               /\ SetKey(lines, s, k, v, FALSE) = Put(f[n], AtEnd(lines, s, k), k, v)
  <2>1. \A append \in BOOLEAN :
          \E f : /\ Sets(f, lines, s, k, v, append)
                /\ SetKey(lines, s, k, v, append) = Put(f[n], AtEnd(lines, s, k), k, v)
    BY SetKeyGrows DEF AtEnd
  <2> QED BY <2>1
<1>3. \A i \in 1 .. n : Top(f[i - 1], {}) = Above(lines, i, {})
  <2>1. \A append \in BOOLEAN : Sets(f, lines, s, k, v, append) =>
          \A i \in 1 .. n : Top(f[i - 1], {}) = Above(lines, i, {})
    BY SetsTop
  <2> QED BY <1>2, <2>1
<1>4. first(0) /\ \A i \in 1 .. n : IsPlace(lines, s, k, i) <=> first(i - 1) /\ ~first(i)
  BY PlaceOrder
<1>5. \A i \in 1 .. n : first(i) => ~Stops(Above(lines, i, {}), lines[i], s, k)
  <2>1. ASSUME NEW i \in 1 .. n, Stops(Above(lines, i, {}), lines[i], s, k) PROVE ~first(i)
    <3>1. i \in Places(lines, s, k) /\ ~(i > i)
      BY <1>1, <2>1 DEF Places, Stops
    <3> QED BY <3>1 DEF NoneYet
  <2> QED BY <2>1
<1>6. f \in [0 .. n -> Seq(Whole)] /\ f[0] = <<>>
  BY <1>2 DEF Sets
<1>7. \A i \in 0 .. n : f[i] \in Seq(Line)
  BY <1>6, LineKinds, SeqMonotonic
<1>8. line \in Line /\ IsKey(line, k) /\ line \in K
  BY KeyLineIs
<1> HIDE DEF n, line, first, K
<1>9. ASSUME NEW a \in Seq(Line), Ahead(a, s, k)
      PROVE  Ahead(Append(a, line), s, k) /\ Append(a, line) \in Seq(Line) /\ Only(Append(a, line), K) # <<>>
  <2> DEFINE o == Only(a, K)
  <2>1. o \in Seq(Line) /\ Only(Append(a, line), K) = Append(o, line)
    BY <1>8, OnlyAppend
  <2> HIDE DEF o
  <2>2. Len(Append(o, line)) = Len(o) + 1 /\ Len(o) \in Nat
    BY <1>8, <2>1, AppendFacts
  <2>3. Len(Append(o, line)) # 0
    BY <2>2
  <2> QED BY <1>8, <1>9, <2>1, <2>3, AheadAppend, AppendFacts, EmptyFile
<1> DEFINE ok(i) == Ahead(f[i], s, k) /\ (first(i) \/ Only(f[i], K) # <<>>)
           T == {i \in 0 .. n : ok(i)}
<1>10. 0 \in T
  <2>1. Ahead(<<>>, s, k)
    BY <1>1, <1>7, <1>8, AheadAppend
  <2>2. 0 \in 0 .. n
    BY <1>1
  <2> QED BY <1>4, <1>6, <2>1, <2>2
<1>11. ASSUME NEW i \in 1 .. n, i - 1 \in T PROVE i \in T
  <2> DEFINE here == IsPlace(lines, s, k, i)
             a == f[i - 1]
             x == lines[i]
             b == Put(a, here, k, v)
  <2>1. f[i] = SetOne(a, x, here, k, v, FALSE) /\ i \in 0 .. n /\ i - 1 \in 0 .. n
    <3>1. f[i] = SetOne(a, x, here, k, v, FALSE)
      BY <1>2 DEF Sets, n
    <3>2. i \in 0 .. n /\ i - 1 \in 0 .. n
      BY <1>1
    <3> QED BY <3>1, <3>2
  <2>2. a \in Seq(Line) /\ x \in Line /\ Ahead(a, s, k) /\ (first(i - 1) \/ Only(a, K) # <<>>)
    BY <1>1, <1>7, <1>11, <2>1
  <2>3. (here <=> first(i - 1) /\ ~first(i)) /\ (first(i) => ~Stops(Top(a, {}), x, s, k))
    BY <1>3, <1>4, <1>5
  <2> HIDE DEF a, x, here
  <2>4. /\ b \in Seq(Line) /\ Ahead(b, s, k) /\ (first(i) \/ Only(b, K) # <<>>)
        /\ first(i) => b = a
    <3>1. CASE here
      <4>1. b = Append(a, line) /\ ~first(i)
        BY <2>3, <3>1 DEF Put, line
      <4> QED BY <1>9, <2>2, <4>1
    <3>2. CASE ~here
      <4>1. b = a
        BY <3>2 DEF Put
      <4> QED BY <2>2, <2>3, <3>2, <4>1
    <3> QED BY <3>1, <3>2
  <2>5. CASE IsKey(x, k)
    <3>1. f[i] = b
      BY <2>1, <2>5 DEF SetOne
    <3> QED BY <2>1, <2>4, <3>1
  <2>6. CASE ~IsKey(x, k)
    <3>1. f[i] = Append(b, x)
      BY <2>1, <2>6 DEF SetOne
    <3> HIDE DEF b
    <3>2. Stops(Top(b, {}), x, s, k) => Only(b, K) # <<>>
      BY <2>3, <2>4
    <3>3. Ahead(Append(b, x), s, k)
      BY <2>2, <2>4, <3>2, AheadAppend DEF K
    <3>4. Only(Append(b, x), K) = Only(b, K)
      <4>1. x \notin K
        BY <2>6, LineKinds DEF K
      <4> HIDE DEF K
      <4> QED BY <2>2, <2>4, <4>1, OnlyAppend
    <3> QED BY <2>1, <2>4, <3>1, <3>3, <3>4
  <2> QED BY <2>5, <2>6
<1>12. n \in T
  <2>1. Climbs(T, n)
    <3> HIDE DEF T
    <3> QED BY <1>10, <1>11 DEF Climbs
  <2>2. n \in 0 .. n
    BY <1>1
  <2> HIDE DEF T
  <2> QED BY <1>1, <2>1, <2>2, Upwards
<1>13. f[n] \in Seq(Line) /\ Ahead(f[n], s, k)
  BY <1>7, <1>12
<1> QED BY <1>2, <1>9, <1>13 DEF Put, line

(* Setting another key, in whatever section, does not disturb that.        *)
LEMMA AheadKept ==
  ASSUME NEW of, NEW lines \in Seq(Whole), WellFormed(of, lines),
         NEW u, NEW l, Belongs(of, u, l), NEW v \in Value,
         NEW s, NEW k \in Key, k # l, Ahead(lines, s, k), Only(lines, KeyLines(k)) # <<>>
  PROVE  Ahead(SetKey(lines, u, l, v, FALSE), s, k)
<1> DEFINE n == Len(lines)
           line == KeyLine(l, v)
           K == KeyLines(k)
           upto(i) == SubSeq(lines, 1, i)
<1>1. /\ n \in Nat /\ DOMAIN lines = 1 .. n /\ lines \in Seq(Line)
      /\ \A i \in 1 .. n : lines[i] \in Line
  BY LenProperties, ElementOfSeq, LineKinds, SeqMonotonic
<1>2. PICK f : /\ Sets(f, lines, u, l, v, FALSE)
               /\ SetKey(lines, u, l, v, FALSE) = Put(f[n], AtEnd(lines, u, l), l, v)
  <2>1. \A append \in BOOLEAN :
          \E f : /\ Sets(f, lines, u, l, v, append)
                /\ SetKey(lines, u, l, v, append) = Put(f[n], AtEnd(lines, u, l), l, v)
    BY SetKeyGrows DEF AtEnd
  <2> QED BY <2>1
<1>3. /\ Top(f[n], {}) = Top(lines, {})
      /\ \A i \in 1 .. n : Top(f[i - 1], {}) = Above(lines, i, {})
  <2>1. \A append \in BOOLEAN : Sets(f, lines, u, l, v, append) =>
          /\ Top(f[n], {}) = Top(lines, {})
          /\ \A i \in 1 .. n : Top(f[i - 1], {}) = Above(lines, i, {})
    BY SetsTop
  <2> QED BY <1>2, <2>1
<1>5. \A i \in 1 .. n : Stops(Above(lines, i, {}), lines[i], s, k) =>
        IsKey(lines[i], k) \/ Only(upto(i - 1), K) # <<>>
  BY <1>1, AheadUpto
<1>6. f \in [0 .. n -> Seq(Whole)] /\ f[0] = <<>>
  BY <1>2 DEF Sets
<1>7. \A i \in 0 .. n : f[i] \in Seq(Line)
  BY <1>6, LineKinds, SeqMonotonic
<1>8. \A i \in 0 .. n : Only(f[i], K) = Only(upto(i), K)
  <2>1. \A append \in BOOLEAN : Sets(f, lines, u, l, v, append) =>
          \A i \in 0 .. n : Follows(of, f[i], upto(i), KeyLines(l))
    BY SetsFollow
  <2>2. \A i \in 0 .. n : Follows(of, f[i], upto(i), KeyLines(l))
    BY <1>2, <2>1
  <2>3. K \cap KeyLines(l) = {}
    BY KindsApart
  <2> HIDE DEF n, K, upto
  <2> QED BY <2>2, <2>3 DEF Follows, Keeps, SameBut
<1>9. line \in Line /\ line.kind = "key" /\ line.key = l /\ line \notin K
  <2>1. line \in Line /\ line.kind = "key" /\ line \in KeyLines(l)
    BY KeyLineIs
  <2>2. K \cap KeyLines(l) = {}
    BY KindsApart
  <2>3. line.key = l
    BY DEF KeyLine
  <2> HIDE DEF line, K
  <2> QED BY <2>1, <2>2, <2>3
<1>16. k \in Nat /\ l \in Nat
  BY KeyTypes DEF Belongs
<1> HIDE DEF n, line, upto
<1>10. ASSUME NEW a \in Seq(Line), Ahead(a, s, k),
              Stops(Top(a, {}), line, s, k) => Only(a, K) # <<>>
       PROVE  /\ Ahead(Append(a, line), s, k) /\ Append(a, line) \in Seq(Line)
              /\ Top(Append(a, line), {}) = Top(a, {}) /\ Only(Append(a, line), K) = Only(a, K)
  <2>2. Ahead(Append(a, line), s, k)
    BY <1>9, <1>10, AheadAppend DEF K
  <2>3. Top(Append(a, line), {}) = Top(a, {})
    <3>1. ~HeaderBut(line, {})
      BY <1>9 DEF HeaderBut
    <3> QED BY <1>9, <3>1, AboveAppend
  <2>4. Append(a, line) \in Seq(Line)
    BY <1>9, AppendFacts
  <2> HIDE DEF K
  <2>5. Only(Append(a, line), K) = Only(a, K)
    BY <1>9, OnlyAppend
  <2> QED BY <2>2, <2>3, <2>4, <2>5
<1> HIDE DEF K
<1> DEFINE T == {i \in 0 .. n : Ahead(f[i], s, k)}
<1>11. 0 \in T
  <2>1. Ahead(<<>>, s, k)
    BY <1>1, <1>9, AheadAppend
  <2>2. 0 \in 0 .. n
    BY <1>1
  <2> QED BY <1>6, <2>1, <2>2
<1>12. ASSUME NEW i \in 1 .. n, i - 1 \in T PROVE i \in T
  <2> DEFINE here == IsPlace(lines, u, l, i)
             a == f[i - 1]
             x == lines[i]
             b == Put(a, here, l, v)
  <2>1. f[i] = SetOne(a, x, here, l, v, FALSE) /\ i \in 0 .. n /\ i - 1 \in 0 .. n
    <3>1. f[i] = SetOne(a, x, here, l, v, FALSE)
      BY <1>2 DEF Sets, n
    <3>2. i \in 0 .. n /\ i - 1 \in 0 .. n
      BY <1>1
    <3> QED BY <3>1, <3>2
  <2>2. a \in Seq(Line) /\ x \in Line /\ Ahead(a, s, k) /\ Only(a, K) = Only(upto(i - 1), K)
    BY <1>1, <1>7, <1>8, <1>12, <2>1
  <2>3. here => (x.kind = "key" => x.key \in Nat /\ x.key >= l) /\ x.kind # "comment"
    <3>1. x \in Line
      BY <2>2
    <3>2. x.kind = "key" => x.key \in Nat
      BY <3>1, KeyTypes DEF Line
    <3> QED BY <3>2 DEF IsPlace, Places
  <2>4. Stops(Top(a, {}), x, s, k) => IsKey(x, k) \/ Only(a, K) # <<>>
    BY <1>3, <1>5, <2>2
  <2>8. here /\ Stops(Top(a, {}), line, s, k) => Only(a, K) # <<>>
    <3> HIDE DEF a, x, here
    <3> SUFFICES ASSUME here, Stops(Top(a, {}), line, s, k) PROVE Only(a, K) # <<>>
      OBVIOUS
    <3>1. IsHeader(Top(a, {}), s) /\ l > k
      BY <1>9, <1>16 DEF Stops
    <3>2. Stops(Top(a, {}), x, s, k)
      BY <1>16, <2>3, <3>1 DEF Stops
    <3>3. ~IsKey(x, k)
      BY <1>16, <2>3, <3>1 DEF IsKey
    <3> QED BY <2>4, <3>2, <3>3
  <2> HIDE DEF a, x, here
  <2>5. b \in Seq(Line) /\ Ahead(b, s, k) /\ Top(b, {}) = Top(a, {}) /\ Only(b, K) = Only(a, K)
    <3>1. CASE here
      <4>1. b = Append(a, line)
        BY <3>1 DEF Put, line
      <4> QED BY <1>10, <2>2, <2>8, <3>1, <4>1
    <3>2. CASE ~here
      <4>1. b = a
        BY <3>2 DEF Put
      <4> QED BY <2>2, <4>1
    <3> QED BY <3>1, <3>2
  <2>6. f[i] = IF IsKey(x, l) THEN b ELSE Append(b, x)
    BY <2>1 DEF SetOne
  <2> HIDE DEF b
  <2>7. Ahead(Append(b, x), s, k)
    BY <2>2, <2>4, <2>5, AheadAppend DEF K
  <2> QED BY <2>1, <2>5, <2>6, <2>7
<1>13. n \in T
  <2>1. Climbs(T, n)
    <3> HIDE DEF T
    <3> QED BY <1>11, <1>12 DEF Climbs
  <2>2. n \in 0 .. n
    BY <1>1
  <2> HIDE DEF T
  <2> QED BY <1>1, <2>1, <2>2, Upwards
<1>14. f[n] \in Seq(Line) /\ Ahead(f[n], s, k)
  BY <1>7, <1>13
<1>15. Only(f[n], K) # <<>>
  <2>1. upto(n) = lines /\ n \in 0 .. n
    BY <1>1, UptoFacts DEF n, upto
  <2> QED BY <1>8, <2>1 DEF K
<1> QED BY <1>2, <1>10, <1>14, <1>15 DEF Put, line

(* Nor is it by a header of a smaller section.                             *)
LEMMA AheadHeader ==
  ASSUME NEW of, NEW lines \in Seq(Whole), WellFormed(of, lines), NEW u \in Owned(of),
         NEW s \in Nat, u < s, NEW k, Ahead(lines, s, k)
  PROVE  Ahead(AddSection(lines, u), s, k)
<1> DEFINE n == Len(lines)
           H == HeaderLine(u, FALSE)
           K == KeyLines(k)
           upto(i) == SubSeq(lines, 1, i)
<1>1. /\ n \in Nat /\ DOMAIN lines = 1 .. n /\ lines \in Seq(Line)
      /\ \A i \in 1 .. n : lines[i] \in Line
  BY LenProperties, ElementOfSeq, LineKinds, SeqMonotonic
<1>2. u \in Nat
  BY DEF Owned, Subprojects, Subtree, Upstream
<1>3. H \in Line /\ H \notin K /\ \A w : IsHeader(H, w) => w = u
  <2>1. H \in Line
    BY <1>2 DEF HeaderLine, Line
  <2>2. \A w : IsHeader(H, w) => w = u
    BY DEF HeaderLine, IsHeader
  <2> QED BY <2>1, <2>2, KindsApart
\* Below smaller sections it may come, and nothing stops below it.
<1>4. ASSUME NEW a \in Seq(Line), Ahead(a, s, k), \A w \in Sections(a) : w < u
      PROVE  /\ Append(a, H) \in Seq(Line) /\ Ahead(Append(a, H), s, k)
             /\ \A x : ~Stops(Top(Append(a, H), {}), x, s, k)
  <2>1. ~IsHeader(Top(a, {}), s)
    <3>1. ASSUME IsHeader(Top(a, {}), s) PROVE FALSE
      <4>1. IsPlain(Top(a, {})) /\ Top(a, {}).section = s
        BY <3>1 DEF IsHeader
      <4>2. s \in Sections(a)
        BY <4>1, TopIn
      <4>3. s < u
        BY <1>4, <4>2
      <4> QED BY <1>2, <4>3
    <3> QED BY <3>1
  <2>2. ~Stops(Top(a, {}), H, s, k)
    BY <2>1 DEF Stops
  <2> HIDE DEF H
  <2>3. Append(a, H) \in Seq(Line)
    BY <1>3, AppendFacts
  <2>4. Ahead(Append(a, H), s, k)
    BY <1>3, <1>4, <2>2, AheadAppend
  <2>5. Top(Append(a, H), {}) = IF HeaderBut(H, {}) THEN H ELSE Top(a, {})
    BY <1>3, AboveAppend
  <2>6. ~IsHeader(Top(Append(a, H), {}), s)
    BY <1>2, <1>3, <2>1, <2>5
  <2> QED BY <2>3, <2>4, <2>6 DEF Stops
<1>5. CASE AddSection(lines, u) = Append(lines, H) /\ \A w \in Sections(lines) : w < u
  BY <1>1, <1>4, <1>5
<1>6. CASE \E m, f : FirstBig(lines, u, m) /\ Adds(f, lines, u, m) /\ AddSection(lines, u) = f[n]
  <2>1. PICK m, f : FirstBig(lines, u, m) /\ Adds(f, lines, u, m) /\ AddSection(lines, u) = f[n]
    BY <1>6
  <2>2. \A i \in 0 .. n :
          /\ Follows(of, f[i], upto(i), {H})
          /\ i < m => f[i] = upto(i) /\ \A w \in Sections(f[i]) : w < u
    BY <2>1, AddsFollow
  <2>3. \A i \in 0 .. n : /\ f[i] \in Seq(Line) /\ Only(f[i], K) = Only(upto(i), K)
                         /\ Top(f[i], {}) = Top(upto(i), {})
    <3>1. K \cap {H} = {} /\ {} \in Skipped(of)
      BY <1>3 DEF Skipped
    <3> HIDE DEF n, H, K, upto
    <3>2. \A i \in 0 .. n : f[i] \in Seq(Whole)
      BY <2>2 DEF Follows, Keeps
    <3>3. \A i \in 0 .. n : Only(f[i], K) = Only(upto(i), K)
      BY <2>2, <3>1 DEF Follows, Keeps, SameBut
    <3>4. \A i \in 0 .. n : Top(f[i], {}) = Top(upto(i), {})
      BY <2>2, <3>1 DEF Follows
    <3> QED BY <3>2, <3>3, <3>4, LineKinds, SeqMonotonic
  <2>4. \A i \in 1 .. n : Stops(Top(upto(i - 1), {}), lines[i], s, k) =>
          IsKey(lines[i], k) \/ Only(upto(i - 1), K) # <<>>
    <3>1. \A i \in 1 .. n : Top(upto(i - 1), {}) = Above(lines, i, {})
      <4>1. \A S : \A i \in 1 .. n + 1 : Top(upto(i - 1), S) = Above(lines, i, S)
        BY <1>1, FileFits
      <4>2. \A i \in 1 .. n : i \in 1 .. n + 1
        BY <1>1
      <4> HIDE DEF n, upto
      <4> QED BY <4>1, <4>2
    <3>2. \A i \in 1 .. n : Stops(Above(lines, i, {}), lines[i], s, k) =>
            IsKey(lines[i], k) \/ Only(upto(i - 1), K) # <<>>
      BY <1>1, AheadUpto
    <3> HIDE DEF n, upto, K
    <3> QED BY <3>1, <3>2
  <2>5. \A i \in 1 .. n :
          f[i] = IF i = m /\ ~IsHeader(lines[i], u)
                 THEN Append(Append(f[i - 1], H), lines[i]) ELSE Append(f[i - 1], lines[i])
    BY <2>1 DEF Adds
  <2>6. f[0] = <<>> /\ m \in 1 .. n
    BY <2>1 DEF Adds, FirstBig
  <2> HIDE DEF n, H, upto
  <2> DEFINE T == {i \in 0 .. n : Ahead(f[i], s, k)}
  <2>7. 0 \in T
    <3>1. Ahead(<<>>, s, k)
      BY <1>1, <1>3, AheadAppend
    <3>2. 0 \in 0 .. n
      BY <1>1
    <3> QED BY <2>6, <3>1, <3>2
  <2>8. ASSUME NEW i \in 1 .. n, i - 1 \in T PROVE i \in T
    <3> DEFINE a == f[i - 1]
               x == lines[i]
    <3>1. i \in 0 .. n /\ i - 1 \in 0 .. n /\ (i = m => i - 1 < m)
      BY <1>1, <2>6
    <3>2. a \in Seq(Line) /\ x \in Line /\ Ahead(a, s, k)
      BY <1>1, <2>3, <2>8, <3>1
    <3>3. Stops(Top(a, {}), x, s, k) => IsKey(x, k) \/ Only(a, K) # <<>>
      BY <2>3, <2>4, <3>1
    <3>4. i = m => \A w \in Sections(a) : w < u
      BY <2>2, <3>1
    <3>5. f[i] = IF i = m /\ ~IsHeader(x, u) THEN Append(Append(a, H), x) ELSE Append(a, x)
      BY <2>5
    <3> HIDE DEF a, x, T
    <3>6. Ahead(Append(a, x), s, k)
      BY <3>2, <3>3, AheadAppend DEF K
    <3>7. ASSUME i = m PROVE Ahead(Append(Append(a, H), x), s, k)
      <4> DEFINE b == Append(a, H)
      <4>1. b \in Seq(Line) /\ Ahead(b, s, k) /\ ~Stops(Top(b, {}), x, s, k)
        BY <1>4, <3>2, <3>4, <3>7
      <4> HIDE DEF b
      <4>2. Ahead(Append(b, x), s, k)
        BY <3>2, <4>1, AheadAppend
      <4> QED BY <4>2 DEF b
    <3>8. Ahead(f[i], s, k)
      BY <3>5, <3>6, <3>7
    <3> QED BY <3>1, <3>8 DEF T
  <2>9. n \in T
    <3>1. Climbs(T, n)
      <4> HIDE DEF T
      <4> QED BY <2>7, <2>8 DEF Climbs
    <3>2. n \in 0 .. n
      BY <1>1
    <3> HIDE DEF T
    <3> QED BY <1>1, <3>1, <3>2, Upwards
  <2> QED BY <2>1, <2>9
<1> QED BY <1>5, <1>6, AddSectionGrows DEF n

(* A key that is there with its value is not changed.                      *)
LEMMA SetKeyDone ==
  ASSUME NEW of, NEW lines \in Seq(Whole), WellFormed(of, lines),
         NEW s, NEW k, Belongs(of, s, k), NEW v \in Value,
         Ahead(lines, s, k), Only(lines, KeyLines(k)) = <<KeyLine(k, v)>>
  PROVE  SetKey(lines, s, k, v, FALSE) = lines
<1> DEFINE n == Len(lines)
           line == KeyLine(k, v)
           at == Places(lines, s, k)
           upto(i) == SubSeq(lines, 1, i)
<1>1. /\ n \in Nat /\ DOMAIN lines = 1 .. n /\ lines \in Seq(Line)
      /\ \A i \in 1 .. n : lines[i] \in Line
  BY LenProperties, ElementOfSeq, LineKinds, SeqMonotonic
<1>2. PICK f : /\ Sets(f, lines, s, k, v, FALSE)
               /\ SetKey(lines, s, k, v, FALSE) = Put(f[n], AtEnd(lines, s, k), k, v)
  <2>1. \A append \in BOOLEAN :
          \E f : /\ Sets(f, lines, s, k, v, append)
                /\ SetKey(lines, s, k, v, append) = Put(f[n], AtEnd(lines, s, k), k, v)
    BY SetKeyGrows DEF AtEnd
  <2> QED BY <2>1
<1>3. PICK c \in 1 .. n : lines[c] = line /\ \A j \in 1 .. n : lines[j] \in KeyLines(k) => j = c
  <2> DEFINE X == KeyLines(k)
  <2>1. Only(lines, X) = <<line>>
    OBVIOUS
  <2> HIDE DEF X, line
  <2>2. \E i \in 1 .. n : lines[i] = line /\ \A j \in 1 .. n : lines[j] \in X => j = i
    BY <1>1, <2>1, OnlyOne
  <2> QED BY <2>2 DEF X
<1>4. IsKey(line, k)
  BY KeyLineIs
<1>5. at \in SUBSET (1 .. n) /\ c \in at
  BY <1>3, <1>4, KeyPlaces
<1>6. \A j \in at : c <= j
  <2>1. ASSUME NEW j \in at PROVE c <= j
    <3>1. j \in 1 .. n /\ Stops(Above(lines, j, {}), lines[j], s, k)
      BY <1>1 DEF Places, Stops
    <3>2. PICK i \in 1 .. j : IsKey(lines[i], k)
      BY <1>1, <3>1 DEF Ahead
    <3>3. i \in 1 .. n
      BY <1>1, <3>1
    <3>4. i = c
      BY <1>1, <1>3, <3>2, <3>3, LineKinds
    <3> QED BY <3>1, <3>2, <3>4
  <2> QED BY <2>1
<1>7. \A i \in 1 .. n : IsPlace(lines, s, k, i) <=> i = c
  <2>1. Min(at) = c
    <3>1. at \in SUBSET (0 .. n) /\ at # {}
      BY <1>5
    <3> HIDE DEF at
    <3> DEFINE m == Min(at)
    <3>2. m \in at /\ \A j \in at : m <= j
      BY <1>1, <3>1, EndsFacts
    <3> HIDE DEF m
    <3>3. m \in 1 .. n /\ m <= c /\ c <= m
      BY <1>5, <1>6, <3>2
    <3>4. m = c
      BY <1>1, <3>3
    <3> QED BY <3>4 DEF m
  <2> QED BY <1>5, <2>1 DEF IsPlace
<1>8. /\ upto(0) = <<>> /\ upto(n) = lines
      /\ \A i \in 1 .. n : upto(i) = Append(upto(i - 1), lines[i])
  BY UptoFacts
<1>9. f[0] = <<>>
  BY <1>2 DEF Sets
<1>10. ASSUME NEW i \in 1 .. n PROVE f[i] = Append(f[i - 1], lines[i])
  <2>1. f[i] = SetOne(f[i - 1], lines[i], IsPlace(lines, s, k, i), k, v, FALSE)
    BY <1>2 DEF Sets
  <2>2. CASE i = c
    <3>1. IsKey(lines[i], k) /\ IsPlace(lines, s, k, i)
      BY <1>3, <1>4, <1>7, <2>2
    <3> QED BY <1>3, <2>1, <2>2, <3>1 DEF SetOne, Put
  <2>3. CASE i # c
    <3>1. ~IsKey(lines[i], k) /\ ~IsPlace(lines, s, k, i)
      BY <1>1, <1>3, <1>7, <2>3, LineKinds
    <3> QED BY <2>1, <3>1 DEF SetOne, Put
  <2> QED BY <2>2, <2>3
<1>11. ~AtEnd(lines, s, k)
  BY <1>5 DEF AtEnd
<1> HIDE DEF n, upto
<1> DEFINE T == {i \in 0 .. n : f[i] = upto(i)}
<1>12. 0 \in T
  BY <1>1, <1>8, <1>9
<1>13. ASSUME NEW i \in 1 .. n, i - 1 \in T PROVE i \in T
  <2>1. i \in 0 .. n
    BY <1>1
  <2>2. f[i - 1] = upto(i - 1)
    BY <1>13
  <2>3. f[i] = upto(i)
    BY <1>8, <1>10, <2>2
  <2> QED BY <2>1, <2>3
<1>14. n \in T
  <2>1. Climbs(T, n)
    <3> HIDE DEF T
    <3> QED BY <1>12, <1>13 DEF Climbs
  <2>2. n \in 0 .. n
    BY <1>1
  <2> HIDE DEF T
  <2> QED BY <1>1, <2>1, <2>2, Upwards
<1> QED BY <1>2, <1>8, <1>11, <1>14 DEF Put

\* The section and the key's line are where the writers put them.
Settled(of, lines, s, k, v) ==
  /\ lines \in Seq(Whole) /\ WellFormed(of, lines)
  /\ Leads(lines, s) /\ Ahead(lines, s, k)
  /\ Only(lines, KeyLines(k)) = <<KeyLine(k, v)>>

(* Lines of keys do not matter for the place of a section.                 *)
LEMMA FromApart == \A s, k : From(s) \cap KeyLines(k) = {}
BY DEF From, KeyLines, IsPlain, IsKey

(* A key that was set is settled.                                          *)
LEMMA PutSettles ==
  ASSUME NEW of, NEW lines \in Seq(Whole), WellFormed(of, lines),
         NEW s, NEW k, Belongs(of, s, k), NEW v \in Value
  PROVE  Settled(of, SetKey(AddSection(lines, s), s, k, v, FALSE), s, k, v)
<1> DEFINE l == AddSection(lines, s)
           r == SetKey(l, s, k, v, FALSE)
<1>1. s \in Owned(of)
  BY DEF Belongs
<1>2. Keeps(of, l, lines, {HeaderLine(s, FALSE)}) /\ s \in Sections(l) /\ Leads(l, s)
  BY <1>1, AddSectionKeeps
<1> HIDE DEF l
<1>3. l \in Seq(Whole) /\ WellFormed(of, l)
  BY <1>2 DEF Keeps
<1>4. Keeps(of, r, l, KeyLines(k))
  <2>1. \A append \in BOOLEAN : Follows(of, SetKey(l, s, k, v, append), l, KeyLines(k))
    BY <1>3, SetKeyFollows
  <2> QED BY <2>1 DEF Follows
<1>5. Ahead(r, s, k)
  BY <1>3, SetKeyAhead
<1>6. Only(r, KeyLines(k)) = <<KeyLine(k, v)>>
  <2>1. Found(r, s, k, <<KeyLine(k, v)>>, <<v>>)
    BY <1>2, <1>3, SetKeyAlone
  <2> HIDE DEF r
  <2> QED BY <2>1 DEF Found
<1> HIDE DEF r
<1>7. Leads(r, s)
  <2> DEFINE Y == KeyLines(k)
  <2>1. Keeps(of, r, l, Y) /\ From(s) \cap Y = {}
    BY <1>4, FromApart
  <2> HIDE DEF Y
  <2> QED BY <1>2, <2>1, LeadsKept
<1>8. r \in Seq(Whole) /\ WellFormed(of, r)
  BY <1>4 DEF Keeps
<1> QED BY <1>5, <1>6, <1>7, <1>8 DEF Settled, r, l

(* Setting it again changes nothing.                                       *)
LEMMA PutDone ==
  ASSUME NEW of, NEW lines, NEW s, NEW k, Belongs(of, s, k), NEW v \in Value,
         Settled(of, lines, s, k, v)
  PROVE  AddSection(lines, s) = lines /\ SetKey(lines, s, k, v, FALSE) = lines
<1>1. lines \in Seq(Whole) /\ WellFormed(of, lines)
  BY DEF Settled
<1>2. s \in Owned(of) /\ Leads(lines, s)
  BY DEF Belongs, Settled
<1>3. AddSection(lines, s) = lines
  BY <1>1, <1>2, AddSectionDone
<1>4. Ahead(lines, s, k) /\ Only(lines, KeyLines(k)) = <<KeyLine(k, v)>>
  BY DEF Settled
<1>5. SetKey(lines, s, k, v, FALSE) = lines
  BY <1>1, <1>4, SetKeyDone
<1> QED BY <1>3, <1>5

\* A key is put in its place.
Placed(lines, s, k, v) == SetKey(AddSection(lines, s), s, k, v, FALSE)

(* A settled key stays settled when another one is placed, in a section    *)
(* that is there or in a smaller one.                                      *)
LEMMA SettledStays ==
  ASSUME NEW of, NEW lines, NEW u, NEW l, NEW w, Belongs(of, u, l), Settled(of, lines, u, l, w),
         NEW s, NEW k, Belongs(of, s, k), k # l, NEW v \in Value, Leads(lines, s) \/ s < u
  PROVE  Settled(of, Placed(lines, s, k, v), u, l, w)
<1> DEFINE a == AddSection(lines, s)
           b == SetKey(a, s, k, v, FALSE)
           L == KeyLines(l)
<1>1. /\ lines \in Seq(Whole) /\ WellFormed(of, lines)
      /\ Leads(lines, u) /\ Ahead(lines, u, l) /\ Only(lines, L) = <<KeyLine(l, w)>>
  BY DEF Settled
<1>2. s \in Owned(of) /\ u \in Nat /\ s \in Nat /\ l \in Key
  BY DEF Belongs, Owned, Subprojects, Subtree, Upstream
<1>3. Settled(of, a, u, l, w)
  <2>1. CASE Leads(lines, s)
    <3>1. a = lines
      BY <1>1, <1>2, <2>1, AddSectionDone
    <3> HIDE DEF a
    <3> QED BY <3>1
  <2>2. CASE s < u
    <3> DEFINE Y == {HeaderLine(s, FALSE)}
    <3>1. Keeps(of, a, lines, Y)
      BY <1>1, <1>2, AddSectionKeeps
    <3>2. From(u) \cap Y = {} /\ L \cap Y = {}
      <4>1. HeaderLine(s, FALSE).section = s
        BY DEF HeaderLine
      <4>2. ~(s >= u)
        BY <1>2, <2>2
      <4>3. HeaderLine(s, FALSE) \notin From(u)
        BY <4>1, <4>2 DEF From
      <4> QED BY <4>3, KindsApart
    <3>3. Ahead(a, u, l)
      BY <1>1, <1>2, <2>2, AheadHeader
    <3> HIDE DEF a, Y
    <3>4. Leads(a, u)
      BY <1>1, <3>1, <3>2, LeadsKept
    <3>5. Only(a, L) = <<KeyLine(l, w)>>
      <4> HIDE DEF L
      <4> QED BY <1>1, <3>1, <3>2 DEF Keeps, SameBut
    <3> QED BY <3>1, <3>3, <3>4, <3>5 DEF Keeps, Settled
  <2> QED BY <2>1, <2>2
<1> HIDE DEF a
<1>4. /\ a \in Seq(Whole) /\ WellFormed(of, a)
      /\ Leads(a, u) /\ Ahead(a, u, l) /\ Only(a, L) = <<KeyLine(l, w)>>
  BY <1>3 DEF Settled
<1> DEFINE Y == KeyLines(k)
<1>5. Keeps(of, b, a, Y)
  <2>1. \A append \in BOOLEAN : Follows(of, SetKey(a, s, k, v, append), a, Y)
    BY <1>4, SetKeyFollows
  <2> QED BY <2>1 DEF Follows
<1>6. From(u) \cap Y = {} /\ L \cap Y = {}
  BY FromApart, KindsApart
<1>7. Ahead(b, u, l)
  <2> DEFINE one == <<KeyLine(l, w)>>
  <2>1. one # <<>>
    OBVIOUS
  <2>2. Only(a, L) # <<>>
    <3> HIDE DEF one, L
    <3> QED BY <1>4, <2>1 DEF one
  <2> QED BY <1>2, <1>4, <2>2, AheadKept
<1> HIDE DEF b, Y
<1>8. Leads(b, u)
  BY <1>4, <1>5, <1>6, LeadsKept
<1>9. Only(b, L) = <<KeyLine(l, w)>>
  <2> HIDE DEF L
  <2> QED BY <1>4, <1>5, <1>6 DEF Keeps, SameBut
<1> QED BY <1>5, <1>7, <1>8, <1>9 DEF Keeps, Settled, Placed, a, b

\* What is given for a key of an unpack.
Given(r, k) ==
  IF k = Url THEN r.url ELSE IF k = Revision THEN r.revision ELSE IF k = Checksum THEN r.sum ELSE r.id

\* Lines that are about some keys.
AboutAll(K) == UNION {About(Home(k), k) : k \in K}

\* The file a, made of p, has the keys of an unpack.
Recorded(a, p, r, K) ==
  /\ Keeps(".subproject", a, p, AboutAll(K))
  /\ \A k \in K : /\ Found(a, Home(k), k, <<KeyLine(k, Given(r, k))>>, <<Given(r, k)>>)
                  /\ Settled(".subproject", a, Home(k), k, Given(r, k))

(* The keys of an unpack.                                                  *)
LEMMA UnpackFacts ==
  ASSUME NEW r \in Unpack
  PROVE  /\ \A k \in UnpackKeys(r) : /\ Belongs(".subproject", Home(k), k) /\ Given(r, k) \in Value
                                    /\ k \in Key \ {Other}
         /\ UnpackKeys(r) = IF r.revision = NotGiven THEN {Url, Checksum, ObjectId}
                            ELSE {Url, Revision, Checksum, ObjectId}
         /\ \A k \in {ObjectId, Revision, Url} : Home(k) = Upstream
         /\ Home(Checksum) = Subtree /\ Subtree < Upstream
         /\ Given(r, Url) = r.url /\ Given(r, Revision) = r.revision
         /\ Given(r, Checksum) = r.sum /\ Given(r, ObjectId) = r.id
<1>1. r.url \in Value /\ r.id \in Value /\ r.sum \in Value /\ (r.revision # NotGiven => r.revision \in Value)
  BY UnpackAssumption
<1>2. /\ \A k \in {ObjectId, Revision, Url} : Home(k) = Upstream
      /\ Home(Checksum) = Subtree /\ Subtree < Upstream
      /\ {Url, Revision, Checksum, ObjectId} \subseteq Key \ {Other}
  BY DEF Home, Key, Other, AppliedIndex, ObjectId, Revision, Url, Checksum, Path, Subtree, Upstream
<1>3. /\ Given(r, Url) = r.url /\ Given(r, Revision) = r.revision
      /\ Given(r, Checksum) = r.sum /\ Given(r, ObjectId) = r.id
  BY DEF Given, ObjectId, Revision, Url, Checksum
<1>4. UnpackKeys(r) = IF r.revision = NotGiven THEN {Url, Checksum, ObjectId}
                      ELSE {Url, Revision, Checksum, ObjectId}
  BY DEF UnpackKeys
<1>5. ASSUME NEW k \in UnpackKeys(r)
      PROVE  Belongs(".subproject", Home(k), k) /\ Given(r, k) \in Value /\ k \in Key \ {Other}
  <2>1. k \in {Url, Revision, Checksum, ObjectId} /\ (k = Revision => r.revision # NotGiven)
    BY <1>4, Homes
  <2>2. Belongs(".subproject", Home(k), k)
    BY <1>2, <2>1, Homes
  <2>3. Given(r, k) \in Value
    BY <1>1, <1>3, <2>1
  <2> QED BY <1>2, <2>1, <2>2, <2>3
<1> QED BY <1>2, <1>3, <1>4, <1>5

(* One more key.                                                           *)
LEMMA RecordsOne ==
  ASSUME NEW r \in Unpack, NEW K \in SUBSET UnpackKeys(r), NEW k \in UnpackKeys(r) \ K,
         NEW a, NEW p, Recorded(a, p, r, K), WellFormed(".subproject", a),
         Leads(a, Home(k)) \/ \A l \in K : Home(k) < Home(l)
  PROVE  Recorded(Placed(a, Home(k), k, Given(r, k)), p, r, K \cup {k})
<1> DEFINE of == ".subproject"
           s == Home(k)
           v == Given(r, k)
           b == Placed(a, s, k, v)
<1>1. Belongs(of, s, k) /\ v \in Value
  BY UnpackFacts
<1>2. ASSUME NEW l \in K PROVE Belongs(of, Home(l), l) /\ k # l
  BY UnpackFacts
<1>3. /\ Keeps(of, a, p, AboutAll(K)) /\ WellFormed(of, a)
      /\ \A l \in K : /\ Found(a, Home(l), l, <<KeyLine(l, Given(r, l))>>, <<Given(r, l)>>)
                      /\ Settled(of, a, Home(l), l, Given(r, l))
  BY DEF Recorded
<1> HIDE DEF of, s, v
<1>4. a \in Seq(Whole)
  BY <1>3 DEF Keeps
<1>5. /\ Keeps(of, b, a, About(s, k))
      /\ Found(b, s, k, <<KeyLine(k, v)>>, <<v>>)
      /\ Settled(of, b, s, k, v)
  <2>1. /\ \A append \in BOOLEAN : Keeps(of, SetKey(AddSection(a, s), s, k, v, append), a, About(s, k))
        /\ Found(SetKey(AddSection(a, s), s, k, v, FALSE), s, k, <<KeyLine(k, v)>>, <<v>>)
    BY <1>1, <1>3, <1>4, PutKeeps
  <2>2. Settled(of, SetKey(AddSection(a, s), s, k, v, FALSE), s, k, v)
    BY <1>1, <1>3, <1>4, PutSettles
  <2>3. FALSE \in BOOLEAN
    OBVIOUS
  <2>4. Keeps(of, SetKey(AddSection(a, s), s, k, v, FALSE), a, About(s, k))
    BY <2>1, <2>3
  <2> QED BY <2>1, <2>2, <2>4 DEF Placed
<1>6. Keeps(of, b, p, AboutAll(K \cup {k}))
  <2>1. AboutAll(K \cup {k}) = AboutAll(K) \cup About(s, k)
    <3> HIDE DEF b
    <3> QED BY DEF AboutAll, s
  <2> DEFINE A == AboutAll(K)
             B == About(s, k)
  <2> HIDE DEF b, A, B
  <2>2. Keeps(of, b, p, A \cup B)
    BY <1>3, <1>5, KeepsThen DEF A, B
  <2> QED BY <2>1, <2>2 DEF A, B
<1>7. ASSUME NEW l \in K
      PROVE  /\ Found(b, Home(l), l, <<KeyLine(l, Given(r, l))>>, <<Given(r, l)>>)
             /\ Settled(of, b, Home(l), l, Given(r, l))
  <2> DEFINE u == Home(l)
             w == Given(r, l)
             Y == About(s, k)
  <2>1. Belongs(of, u, l) /\ k # l
    BY <1>2
  <2>2. Found(a, u, l, <<KeyLine(l, w)>>, <<w>>) /\ Settled(of, a, u, l, w)
    BY <1>3
  <2>3. Leads(a, s) \/ s < u
    BY DEF s
  <2>4. KeyLines(l) \cap Y = {}
    <3>1. HeaderLine(s, FALSE) \notin KeyLines(l)
      BY KindsApart
    <3>2. KeyLines(l) \cap KeyLines(k) = {}
      BY <2>1, KindsApart
    <3> QED BY <3>1, <3>2 DEF About
  <2> HIDE DEF u, w, Y
  <2>5. Settled(of, b, u, l, w)
    BY <1>1, <2>1, <2>2, <2>3, SettledStays
  <2> HIDE DEF b
  <2>6. Found(b, u, l, <<KeyLine(l, w)>>, <<w>>)
    BY <1>5, <2>2, <2>4, FoundKept DEF Y
  <2> QED BY <2>5, <2>6 DEF u, w
<1> HIDE DEF b
<1>8. ASSUME NEW l \in K \cup {k}
      PROVE  /\ Found(b, Home(l), l, <<KeyLine(l, Given(r, l))>>, <<Given(r, l)>>)
             /\ Settled(of, b, Home(l), l, Given(r, l))
  <2>1. CASE l \in K
    BY <1>7, <2>1
  <2>2. CASE l = k
    BY <1>5, <2>2 DEF s, v
  <2> QED BY <2>1, <2>2
<1>9. Recorded(b, p, r, K \cup {k})
  BY <1>6, <1>8 DEF Recorded, of
<1> QED BY <1>9 DEF b, s, v

(* A section that is there is not added for the next key.                  *)
LEMMA NextPlaced ==
  ASSUME NEW lines \in Seq(Whole), Leads(lines, Upstream), NEW k, NEW v
  PROVE  SetUpstream(lines, k, v) = Placed(lines, Upstream, k, v)
<1>1. AddSection(lines, Upstream) = lines
  <2> DEFINE of == ".subproject"
  <2>1. Upstream \in Owned(of)
    BY Homes
  <2> HIDE DEF of
  <2> QED BY <2>1, AddSectionDone
<1> QED BY <1>1 DEF SetUpstream, Placed

(* metadata_set_for_unpack: the url, the revision if there is one, the     *)
(* checksum and the id, one after the other.                               *)
LEMMA UnpackRecords ==
  ASSUME NEW lines \in Seq(Whole), WellFormed(".subproject", lines), NEW r \in Unpack
  PROVE  Recorded(SetForUnpack(lines, r), lines, r, UnpackKeys(r))
<1> DEFINE of == ".subproject"
           put(l, k) == Placed(l, Home(k), k, Given(r, k))
           given == r.revision # NotGiven
           l1 == put(lines, Url)
           l2 == IF given THEN put(l1, Revision) ELSE l1
           l3 == put(l2, Checksum)
           l4 == put(l3, ObjectId)
           K2 == IF given THEN {Url, Revision} ELSE {Url}
<1> USE DEF K2
<1>1. /\ \A k \in {ObjectId, Revision, Url} : Home(k) = Upstream
      /\ Home(Checksum) = Subtree /\ Subtree < Upstream
      /\ Given(r, Url) = r.url /\ Given(r, Revision) = r.revision
      /\ Given(r, Checksum) = r.sum /\ Given(r, ObjectId) = r.id
      /\ UnpackKeys(r) = IF given THEN {Url, Revision, Checksum, ObjectId} ELSE {Url, Checksum, ObjectId}
  BY UnpackFacts
<1>2. Checksum \notin {ObjectId, Revision, Url} /\ ObjectId # Revision /\ ObjectId # Url /\ Revision # Url
  BY Homes
<1>3. ASSUME NEW K \in SUBSET UnpackKeys(r), NEW a, Recorded(a, lines, r, K)
      PROVE  /\ a \in Seq(Whole) /\ WellFormed(of, a)
             /\ \A k \in K : Leads(a, Home(k))
  BY <1>3 DEF Recorded, Keeps, Settled
<1>4. ASSUME NEW K \in SUBSET UnpackKeys(r), NEW k \in UnpackKeys(r) \ K, NEW a, Recorded(a, lines, r, K),
             Leads(a, Home(k)) \/ \A l \in K : Home(k) < Home(l)
      PROVE  Recorded(put(a, k), lines, r, K \cup {k})
  <2>1. WellFormed(of, a)
    BY <1>3, <1>4
  <2> QED BY <1>4, <2>1, RecordsOne
<1>5. Recorded(lines, lines, r, {})
  <2>1. Keeps(of, lines, lines, AboutAll({}))
    BY DEF Keeps, SameBut
  <2> QED BY <2>1 DEF Recorded
<1> HIDE DEF of, put, given
<1>6. Recorded(l1, lines, r, {Url})
  <2>1. Url \in UnpackKeys(r) \ {} /\ {} \cup {Url} = {Url}
    BY <1>1
  <2>2. Recorded(put(lines, Url), lines, r, {} \cup {Url})
    BY <1>4, <1>5, <2>1
  <2> QED BY <2>1, <2>2
<1>7. Leads(l1, Upstream) /\ l1 \in Seq(Whole)
  <2>1. {Url} \in SUBSET UnpackKeys(r) /\ Home(Url) = Upstream
    BY <1>1
  <2> HIDE DEF l1
  <2> QED BY <1>3, <1>6, <2>1
<1> HIDE DEF l1
<1>8. Recorded(l2, lines, r, K2)
  <2>1. ASSUME given PROVE Recorded(put(l1, Revision), lines, r, {Url} \cup {Revision})
    <3>1. {Url} \in SUBSET UnpackKeys(r) /\ Revision \in UnpackKeys(r) \ {Url} /\ Home(Revision) = Upstream
      BY <1>1, <1>2, <2>1
    <3> QED BY <1>4, <1>6, <1>7, <3>1
  <2>2. {Url} \cup {Revision} = {Url, Revision}
    OBVIOUS
  <2> QED BY <1>6, <2>1, <2>2
<1>9. K2 \in SUBSET UnpackKeys(r) /\ Checksum \in UnpackKeys(r) \ K2 /\ \A l \in K2 : Home(l) = Upstream
  BY <1>1, <1>2
<1>10. Leads(l2, Upstream) /\ l2 \in Seq(Whole)
  <2> HIDE DEF l2
  <2>1. Url \in K2
    OBVIOUS
  <2> HIDE DEF K2
  <2> QED BY <1>3, <1>8, <1>9, <2>1
<1> HIDE DEF l2, K2
<1>11. Recorded(l3, lines, r, K2 \cup {Checksum})
  <2>1. \A l \in K2 : Home(Checksum) < Home(l)
    BY <1>1, <1>9
  <2> QED BY <1>4, <1>8, <1>9, <2>1
<1> DEFINE K3 == K2 \cup {Checksum}
<1>12. /\ K3 \in SUBSET UnpackKeys(r) /\ ObjectId \in UnpackKeys(r) \ K3 /\ Url \in K3
       /\ K3 \cup {ObjectId} = UnpackKeys(r)
  BY <1>1, <1>2 DEF K2
<1> HIDE DEF l3, K3
<1>13. Leads(l3, Upstream) /\ l3 \in Seq(Whole)
  <2>1. Home(Url) = Upstream
    BY <1>1
  <2> QED BY <1>3, <1>11, <1>12, <2>1 DEF K3
<1>14. Recorded(l4, lines, r, UnpackKeys(r))
  <2>1. Home(ObjectId) = Upstream
    BY <1>1
  <2>2. Recorded(put(l3, ObjectId), lines, r, K3 \cup {ObjectId})
    BY <1>4, <1>11, <1>12, <1>13, <2>1 DEF K3
  <2> QED BY <1>12, <2>2
<1>15. SetForUnpack(lines, r) = l4
  <2>1. SetUpstream(AddSection(lines, Upstream), Url, r.url) = l1
    BY <1>1 DEF SetUpstream, Placed, l1, put
  <2>2. (IF r.revision = NotGiven THEN l1 ELSE SetUpstream(l1, Revision, r.revision)) = l2
    <3>1. SetUpstream(l1, Revision, r.revision) = put(l1, Revision)
      BY <1>1, <1>7, NextPlaced DEF put
    <3> QED BY <3>1 DEF l2, given
  <2>3. Set(l2, Checksum, r.sum) = l3
    BY <1>1 DEF Set, Placed, l3, put
  <2>4. SetUpstream(l3, ObjectId, r.id) = l4
    BY <1>1, <1>13, NextPlaced DEF put
  <2> HIDE DEF l4
  <2> QED BY <2>1, <2>2, <2>3, <2>4 DEF SetForUnpack
<1> HIDE DEF l4
<1> QED BY <1>14, <1>15

(* What is about a key of the program are lines of that key.               *)
LEMMA AboutOne ==
  ASSUME NEW s, NEW k
  PROVE  \A l : l # k => KeyLines(l) \cap About(s, k) = {}
<1> SUFFICES ASSUME NEW l, l # k PROVE KeyLines(l) \cap About(s, k) = {}
  OBVIOUS
<1>1. HeaderLine(s, FALSE) \notin KeyLines(l)
  BY KindsApart
<1>2. KeyLines(l) \cap KeyLines(k) = {}
  BY KindsApart
<1> QED BY <1>1, <1>2 DEF About

(* Likewise for some keys.                                                 *)
LEMMA AboutMany ==
  ASSUME NEW K, NEW l, l \notin K
  PROVE  KeyLines(l) \cap AboutAll(K) = {}
<1>1. \A k \in K : KeyLines(l) \cap About(Home(k), k) = {}
  BY AboutOne
<1> QED BY <1>1 DEF AboutAll

(* What each action does to a good file.                                   *)
LEMMA Writes ==
  ASSUME TypeOK
  PROVE  /\ \A v \in Value : config_add_subproject(v) =>
              /\ name = ".subpatch" /\ name' = name
              /\ Keeps(name, file', file, About(Subprojects, Path))
              /\ OneMore(Values(file, Subprojects, Path), Values(file', Subprojects, Path), v)
         /\ \A r \in Unpack : metadata_set_for_unpack(r) =>
              /\ name = ".subproject" /\ name' = name
              /\ Keeps(name, file', file, AboutAll(UnpackKeys(r)))
              /\ \A k \in UnpackKeys(r) : Found(file', Home(k), k, <<KeyLine(k, Given(r, k))>>, <<Given(r, k)>>)
         /\ \A v \in Value : metadata_set_applied_index(v) =>
              /\ name = ".subproject" /\ name' = name
              /\ Keeps(name, file', file, About(Subtree, AppliedIndex))
              /\ Found(file', Subtree, AppliedIndex, <<KeyLine(AppliedIndex, v)>>, <<v>>)
         /\ \A v \in Value : metadata_set_subtree_checksum(v) =>
              /\ name = ".subproject" /\ name' = name
              /\ Keeps(name, file', file, About(Subtree, Checksum))
              /\ Found(file', Subtree, Checksum, <<KeyLine(Checksum, v)>>, <<v>>)
         /\ metadata_drop_applied_index =>
              /\ name = ".subproject" /\ name' = name
              /\ Keeps(name, file', file, About(Subtree, AppliedIndex))
              /\ Found(file', Subtree, AppliedIndex, <<>>, <<>>)
<1>1. file \in Seq(Whole) /\ WellFormed(name, file)
  BY DEF TypeOK
<1>2. \A of, a, Y : Keeps(of, a, file, Y) => Written(a) = a
  <2> SUFFICES ASSUME NEW of, NEW a, NEW Y, Keeps(of, a, file, Y) PROVE Written(a) = a
    OBVIOUS
  <2> QED BY WrittenWhole DEF Keeps
<1>3. ASSUME NEW v \in Value, config_add_subproject(v)
      PROVE  /\ name = ".subpatch" /\ name' = name
             /\ Keeps(name, file', file, About(Subprojects, Path))
             /\ OneMore(Values(file, Subprojects, Path), Values(file', Subprojects, Path), v)
  <2>1. name = ".subpatch" /\ name' = name /\ file' = Written(Listed(file, v))
    BY <1>3 DEF config_add_subproject, Write
  <2>2. /\ Keeps(name, Listed(file, v), file, About(Subprojects, Path))
        /\ OneMore(Values(file, Subprojects, Path), Values(Listed(file, v), Subprojects, Path), v)
    BY <1>1, <2>1, ListedKeeps
  <2> QED BY <1>2, <2>1, <2>2
<1>4. ASSUME NEW r \in Unpack, metadata_set_for_unpack(r)
      PROVE  /\ name = ".subproject" /\ name' = name
             /\ Keeps(name, file', file, AboutAll(UnpackKeys(r)))
             /\ \A k \in UnpackKeys(r) : Found(file', Home(k), k, <<KeyLine(k, Given(r, k))>>, <<Given(r, k)>>)
  <2>1. name = ".subproject" /\ name' = name /\ file' = Written(SetForUnpack(file, r))
    BY <1>4 DEF metadata_set_for_unpack, Write
  <2> DEFINE a == SetForUnpack(file, r)
  <2>2. Recorded(a, file, r, UnpackKeys(r))
    BY <1>1, <2>1, UnpackRecords
  <2> HIDE DEF a
  <2>3. /\ Keeps(name, a, file, AboutAll(UnpackKeys(r)))
        /\ \A k \in UnpackKeys(r) : Found(a, Home(k), k, <<KeyLine(k, Given(r, k))>>, <<Given(r, k)>>)
    BY <2>1, <2>2 DEF Recorded
  <2>4. file' = a
    BY <1>2, <2>1, <2>3 DEF a
  <2> QED BY <2>1, <2>3, <2>4
<1>5. ASSUME NEW k \in {AppliedIndex, Checksum}, NEW v \in Value, Write(".subproject", Set(file, k, v))
      PROVE  /\ name = ".subproject" /\ name' = name
             /\ Keeps(name, file', file, About(Subtree, k))
             /\ Found(file', Subtree, k, <<KeyLine(k, v)>>, <<v>>)
  <2>1. name = ".subproject" /\ name' = name /\ file' = Written(Set(file, k, v))
    BY <1>5 DEF Write
  <2> DEFINE r == Set(file, k, v)
  <2>2. Keeps(name, r, file, About(Subtree, k)) /\ Found(r, Subtree, k, <<KeyLine(k, v)>>, <<v>>)
    BY <1>1, <2>1, SetKeeps
  <2> HIDE DEF r
  <2>3. file' = r
    BY <1>2, <2>1, <2>2 DEF r
  <2> QED BY <2>1, <2>2, <2>3
<1>6. ASSUME NEW v \in Value, metadata_set_applied_index(v)
      PROVE  /\ name = ".subproject" /\ name' = name
             /\ Keeps(name, file', file, About(Subtree, AppliedIndex))
             /\ Found(file', Subtree, AppliedIndex, <<KeyLine(AppliedIndex, v)>>, <<v>>)
  BY <1>5, <1>6 DEF metadata_set_applied_index
<1>7. ASSUME NEW v \in Value, metadata_set_subtree_checksum(v)
      PROVE  /\ name = ".subproject" /\ name' = name
             /\ Keeps(name, file', file, About(Subtree, Checksum))
             /\ Found(file', Subtree, Checksum, <<KeyLine(Checksum, v)>>, <<v>>)
  BY <1>5, <1>7 DEF metadata_set_subtree_checksum
<1>8. ASSUME metadata_drop_applied_index
      PROVE  /\ name = ".subproject" /\ name' = name
             /\ Keeps(name, file', file, About(Subtree, AppliedIndex))
             /\ Found(file', Subtree, AppliedIndex, <<>>, <<>>)
  <2>1. name = ".subproject" /\ name' = name /\ file' = Written(DropIndex(file))
    BY <1>8 DEF metadata_drop_applied_index, Write
  <2>2. /\ Keeps(name, DropIndex(file), file, About(Subtree, AppliedIndex))
        /\ Found(DropIndex(file), Subtree, AppliedIndex, <<>>, <<>>)
    BY <1>1, <2>1, DropKeeps
  <2> QED BY <1>2, <2>1, <2>2
<1> QED BY <1>3, <1>4, <1>6, <1>7, <1>8

(* A step writes a good file, made of the one that was there, or none.     *)
LEMMA StepKeeps ==
  ASSUME TypeOK, [Next]_vars
  PROVE  /\ name' = name
         /\ file' = file \/ \E Y : Keeps(name, file', file, Y)
<1>1. CASE Next
  <2>1. \A r \in Inputs : r \in Unpack
    BY DEF Inputs
  <2> QED BY <1>1, <2>1, Writes DEF Next
<1>2. CASE UNCHANGED vars
  BY <1>2 DEF vars
<1> QED BY <1>1, <1>2

-----------------------------------------------------------------------------
(* Setting and dropping again.                                             *)

(* Whether a header is held back is a matter of the lines before.          *)
LEMMA HeldAppend ==
  ASSUME NEW a \in Seq(Line), NEW x \in Line, NEW s
  PROVE  /\ \A i \in 0 .. Len(a) : Held(Append(a, x), s, i) <=> Held(a, s, i)
         /\ Held(Append(a, x), s, Len(Append(a, x))) <=>
              IsHeader(x, s) \/ (x.kind = "comment" /\ Held(a, s, Len(a)))
<1> DEFINE n == Len(a)
           b == Append(a, x)
<1>1. /\ n \in Nat /\ b \in Seq(Line) /\ Len(b) = n + 1
      /\ b[n + 1] = x /\ \A i \in 1 .. n : b[i] = a[i]
  BY AppendFacts
<1> HIDE DEF n, b
<1>2. ASSUME NEW i \in 0 .. n PROVE Held(b, s, i) <=> Held(a, s, i)
  <2>1. \A h \in 1 .. i : b[h] = a[h] /\ \A j \in h + 1 .. i : b[j] = a[j]
    BY <1>1
  <2> QED BY <2>1 DEF Held
<1>3. /\ IsHeader(x, s) => Held(b, s, n + 1)
      /\ ~IsHeader(x, s) /\ x.kind # "comment" => ~Held(b, s, n + 1)
      /\ x.kind = "comment" => (Held(b, s, n + 1) <=> Held(b, s, n))
  <2> DEFINE m == n + 1
  <2>1. m \in 1 .. Len(b) /\ m - 1 = n /\ b[m] = x
    BY <1>1
  <2> HIDE DEF m
  <2>2. /\ IsHeader(b[m], s) => Held(b, s, m)
        /\ ~IsHeader(b[m], s) /\ b[m].kind # "comment" => ~Held(b, s, m)
        /\ b[m].kind = "comment" => (Held(b, s, m) <=> Held(b, s, m - 1))
    BY <1>1, <2>1, HeldSteps
  <2> QED BY <2>1, <2>2 DEF m
<1>4. Held(b, s, n) <=> Held(a, s, n)
  <2>1. n \in 0 .. n
    BY <1>1
  <2> QED BY <1>2, <2>1
<1>5. Held(b, s, Len(b)) <=> IsHeader(x, s) \/ (x.kind = "comment" /\ Held(a, s, n))
  BY <1>1, <1>3, <1>4 DEF IsHeader, IsPlain
<1> QED BY <1>2, <1>5 DEF n, b

(* DropSectionIfEmpty of one more line.                                    *)
LEMMA DropSectionAppend ==
  ASSUME NEW of, NEW a \in Seq(Whole), NEW x \in Whole, WellFormed(of, Append(a, x)), NEW s \in Owned(of)
  PROVE  /\ WellFormed(of, a)
         /\ DropSectionIfEmpty(a, s) \in Seq(Whole)
         /\ DropSectionIfEmpty(Append(a, x), s) = DropOne(DropSectionIfEmpty(a, s), x, s, Held(a, s, Len(a)))
<1> DEFINE n == Len(a)
           b == Append(a, x)
<1>1. a \in Seq(Line) /\ x \in Line /\ b \in Seq(Whole)
  BY LineKinds, SeqMonotonic, AppendFacts
<1>2. /\ n \in Nat /\ Len(b) = n + 1 /\ b[n + 1] = x /\ \A i \in 1 .. n : b[i] = a[i]
  BY AppendFacts
<1>3. WellFormed(of, a)
  BY <1>1, FitsAppend
<1>4. PICK f : /\ f \in [0 .. n -> Seq(Whole)] /\ f[0] = <<>>
               /\ \A i \in 1 .. n : f[i] = DropOne(f[i - 1], a[i], s, Held(a, s, i - 1))
               /\ DropSectionIfEmpty(a, s) = f[n]
  BY <1>3, DropGrows
<1>5. \A i \in 0 .. n : Held(b, s, i) <=> Held(a, s, i)
  BY <1>1, HeldAppend
<1> HIDE DEF b
<1>6. PICK g : /\ g \in [0 .. Len(b) -> Seq(Whole)] /\ g[0] = <<>>
               /\ \A i \in 1 .. Len(b) : g[i] = DropOne(g[i - 1], b[i], s, Held(b, s, i - 1))
               /\ DropSectionIfEmpty(b, s) = g[Len(b)]
  BY <1>1, DropGrows DEF b
<1> HIDE DEF n
<1>7. StayEqual(f, g, n)
  <2>1. ASSUME NEW i \in 1 .. n, f[i - 1] = g[i - 1] PROVE f[i] = g[i]
    <3>1. i \in 1 .. Len(b) /\ i - 1 \in 0 .. n
      BY <1>2
    <3>2. Held(b, s, i - 1) <=> Held(a, s, i - 1)
      BY <1>5, <3>1
    <3>3. f[i] = DropOne(f[i - 1], a[i], s, Held(a, s, i - 1))
      BY <1>4
    <3>4. g[i] = DropOne(g[i - 1], b[i], s, Held(b, s, i - 1))
      BY <1>6, <3>1
    <3> QED BY <1>2, <2>1, <3>2, <3>3, <3>4 DEF DropOne
  <2> QED BY <1>4, <1>6, <2>1 DEF StayEqual
<1>8. f[n] = g[n]
  BY <1>2, <1>7, Agree
<1>9. g[n + 1] = DropOne(g[n], x, s, Held(b, s, n))
  <2> DEFINE m == n + 1
  <2>1. m \in 1 .. Len(b) /\ m - 1 = n /\ b[m] = x
    BY <1>2
  <2> HIDE DEF m
  <2>2. g[m] = DropOne(g[m - 1], b[m], s, Held(b, s, m - 1))
    BY <1>6, <2>1
  <2> QED BY <2>1, <2>2 DEF m
<1>10. Held(b, s, n) <=> Held(a, s, n)
  <2>1. n \in 0 .. n
    BY <1>2
  <2> QED BY <1>5, <2>1
<1>11. f[n] \in Seq(Whole)
  BY <1>2, <1>4
<1>12. DropOne(g[n], x, s, Held(b, s, n)) = DropOne(f[n], x, s, Held(a, s, n))
  BY <1>8, <1>10 DEF DropOne
<1> QED BY <1>2, <1>3, <1>4, <1>6, <1>9, <1>11, <1>12 DEF n, b

\* DropSectionIfEmpty makes p of a, and holds a header back at the end or not.
Drops(of, a, p, s, held) ==
  /\ a \in Seq(Whole) /\ WellFormed(of, a) /\ DropSectionIfEmpty(a, s) = p
  /\ Held(a, s, Len(a)) <=> held

(* Line by line.                                                           *)
LEMMA DropSteps ==
  ASSUME NEW of, NEW a \in Seq(Whole), NEW x \in Whole, WellFormed(of, Append(a, x)), NEW s \in Owned(of),
         NEW p
  PROVE  LET ax == Append(a, x)
             H == HeaderLine(s, FALSE)
         IN /\ Drops(of, a, p, s, FALSE) /\ ~IsHeader(x, s) => Drops(of, ax, Append(p, x), s, FALSE)
            /\ Drops(of, a, p, s, FALSE) /\ IsHeader(x, s) => Drops(of, ax, p, s, TRUE)
            /\ Drops(of, a, p, s, TRUE) /\ x.kind = "key" =>
                 Drops(of, ax, Append(Append(p, H), x), s, FALSE)
            /\ Drops(of, a, p, s, TRUE) /\ x.kind = "header" /\ ~IsHeader(x, s) =>
                 Drops(of, ax, Append(p, x), s, FALSE)
<1> DEFINE ax == Append(a, x)
           H == HeaderLine(s, FALSE)
           held == Held(a, s, Len(a))
<1>1. a \in Seq(Line) /\ x \in Line /\ ax \in Seq(Whole) /\ WellFormed(of, ax)
  BY LineKinds, SeqMonotonic, AppendFacts
<1>2. DropSectionIfEmpty(ax, s) = DropOne(DropSectionIfEmpty(a, s), x, s, held)
  BY DropSectionAppend
<1>3. Held(ax, s, Len(ax)) <=> IsHeader(x, s) \/ (x.kind = "comment" /\ held)
  BY <1>1, HeldAppend
<1>4. /\ IsHeader(x, s) => x.kind = "header"
      /\ x.kind = "key" => x.kind # "comment" /\ x.kind # "header"
      /\ x.kind = "header" => x.kind # "comment" /\ x.kind # "key"
  BY DEF IsHeader, IsPlain
<1> HIDE DEF ax, held, H
<1>5. ASSUME Drops(of, a, p, s, FALSE), ~IsHeader(x, s) PROVE Drops(of, ax, Append(p, x), s, FALSE)
  <2>1. ~held /\ DropSectionIfEmpty(a, s) = p
    BY <1>5 DEF Drops, held
  <2> QED BY <1>1, <1>2, <1>3, <1>5, <2>1 DEF Drops, DropOne
<1>6. ASSUME Drops(of, a, p, s, FALSE), IsHeader(x, s) PROVE Drops(of, ax, p, s, TRUE)
  <2>1. DropSectionIfEmpty(a, s) = p
    BY <1>6 DEF Drops
  <2> QED BY <1>1, <1>2, <1>3, <1>6, <2>1 DEF Drops, DropOne
<1>7. ASSUME Drops(of, a, p, s, TRUE), x.kind = "key" PROVE Drops(of, ax, Append(Append(p, H), x), s, FALSE)
  <2>1. held /\ DropSectionIfEmpty(a, s) = p /\ ~IsHeader(x, s)
    BY <1>4, <1>7 DEF Drops, held
  <2> QED BY <1>1, <1>2, <1>3, <1>4, <1>7, <2>1 DEF Drops, DropOne, H
<1>8. ASSUME Drops(of, a, p, s, TRUE), x.kind = "header", ~IsHeader(x, s)
      PROVE  Drops(of, ax, Append(p, x), s, FALSE)
  <2>1. DropSectionIfEmpty(a, s) = p
    BY <1>8 DEF Drops
  <2> QED BY <1>1, <1>2, <1>3, <1>4, <1>8, <2>1 DEF Drops, DropOne
<1> QED BY <1>5, <1>6, <1>7, <1>8 DEF ax, H

(* The first lines of a good file are a good file.                         *)
LEMMA UptoFits ==
  ASSUME NEW of, NEW lines \in Seq(Whole), WellFormed(of, lines)
  PROVE  \A i \in 0 .. Len(lines) : WellFormed(of, SubSeq(lines, 1, i))
<1> DEFINE n == Len(lines)
           upto(i) == SubSeq(lines, 1, i)
           T == {i \in 0 .. n : WellFormed(of, upto(i))}
<1>1. /\ n \in Nat /\ lines \in Seq(Line) /\ \A i \in 1 .. n : lines[i] \in Line
  BY LenProperties, ElementOfSeq, LineKinds, SeqMonotonic
<1>2. /\ upto(0) = <<>> /\ \A i \in 0 .. n : upto(i) \in Seq(Line)
      /\ \A i \in 1 .. n : upto(i) = Append(upto(i - 1), lines[i])
  BY <1>1, UptoFacts
<1>3. \A i \in 1 .. n : Fits(of, upto(i - 1), lines[i])
  BY <1>1, FileFits
<1> HIDE DEF n, upto
<1>4. 0 \in T
  BY <1>1, <1>2, EmptyFile
<1>5. ASSUME NEW i \in 1 .. n, i - 1 \in T PROVE i \in T
  <2> DEFINE p == upto(i - 1)
             x == lines[i]
  <2>1. i \in 0 .. n /\ i - 1 \in 0 .. n
    BY <1>1
  <2>2. p \in Seq(Line) /\ x \in Line /\ WellFormed(of, p) /\ Fits(of, p, x) /\ upto(i) = Append(p, x)
    BY <1>1, <1>2, <1>3, <1>5, <2>1
  <2> HIDE DEF p, x
  <2>3. WellFormed(of, Append(p, x))
    BY <2>2, FitsAppend
  <2> QED BY <2>1, <2>2, <2>3
<1>6. \A i \in 0 .. n : i \in T
  <2>1. Climbs(T, n)
    <3> HIDE DEF T
    <3> QED BY <1>4, <1>5 DEF Climbs
  <2> HIDE DEF T
  <2> QED BY <1>1, <2>1, Upwards
<1> QED BY <1>6 DEF n, upto

(* Nothing is dropped of nothing.                                          *)
LEMMA DropsFirst ==
  ASSUME NEW of, NEW s \in Owned(of)
  PROVE  Drops(of, <<>>, <<>>, s, FALSE)
<1> DEFINE e == <<>>
<1>1. e \in Seq(Whole) /\ Len(e) = 0 /\ WellFormed(of, e) /\ e \in Seq(Line)
  BY EmptyFile
<1>2. DropSectionIfEmpty(e, s) = e
  <2> HIDE DEF e
  <2>1. PICK f : /\ f[0] = <<>> /\ DropSectionIfEmpty(e, s) = f[Len(e)]
    BY <1>1, DropGrows
  <2> QED BY <1>1, <2>1 DEF e
<1> HIDE DEF e
<1>3. ~Held(e, s, Len(e))
  BY <1>1, HeldSteps
<1> QED BY <1>1, <1>2, <1>3 DEF Drops, e

\* A header of the section is followed by a key.
HeaderFilled(lines, s) == \A i \in DOMAIN lines : IsHeader(lines[i], s) => KeyFollows(lines, i)

(* What AddSection has put in is dropped again.                            *)
LEMMA DropsUndo ==
  ASSUME NEW of, NEW lines \in Seq(Whole), WellFormed(of, lines), NEW s \in Owned(of), HeaderFilled(lines, s),
         NEW m, m \in 1 .. Len(lines) => IsPlain(lines[m]),
         NEW f, Adds(f, lines, s, m), \A i \in 0 .. Len(lines) : WellFormed(of, f[i])
  PROVE  Drops(of, f[Len(lines)], lines, s, FALSE)
<1> DEFINE n == Len(lines)
           H == HeaderLine(s, FALSE)
           upto(i) == SubSeq(lines, 1, i)
<1>1. n \in Nat /\ DOMAIN lines = 1 .. n /\ \A i \in 1 .. n : lines[i] \in Whole
  BY LenProperties, ElementOfSeq
<1>2. /\ upto(0) = <<>> /\ upto(n) = lines
      /\ \A i \in 1 .. n : upto(i) = Append(upto(i - 1), lines[i])
  BY UptoFacts
<1>3. /\ f \in [0 .. n -> Seq(Whole)] /\ f[0] = <<>>
      /\ \A i \in 1 .. n :
           f[i] = IF i = m /\ ~IsHeader(lines[i], s)
                  THEN Append(Append(f[i - 1], H), lines[i]) ELSE Append(f[i - 1], lines[i])
  BY DEF Adds
<1>4. \A i \in 1 .. n : IsHeader(lines[i], s) => i < n /\ lines[i + 1].kind = "key"
  BY <1>1 DEF HeaderFilled, KeyFollows
<1>5. H \in Whole /\ IsHeader(H, s)
  <2>1. s \in Nat
    BY DEF Owned, Subprojects, Subtree, Upstream
  <2> QED BY <2>1 DEF HeaderLine, Whole, Line, IsHeader, IsPlain
<1>6. \A i \in 1 .. n : IsHeader(lines[i], s) => lines[i] = H
  BY <1>1, HeaderIs
<1>7. \A i \in 1 .. n : i = m => lines[i].kind = "header"
  BY DEF IsPlain
<1>8. \A i \in 0 .. n : WellFormed(of, f[i])
  OBVIOUS
<1> HIDE DEF n, H, upto
<1> DEFINE behind(i) == i >= 1 /\ IsHeader(lines[i], s)
           ok(i) == IF behind(i) THEN Drops(of, f[i], upto(i - 1), s, TRUE) ELSE Drops(of, f[i], upto(i), s, FALSE)
           T == {i \in 0 .. n : ok(i)}
<1>9. 0 \in T
  <2>1. 0 \in 0 .. n /\ ~behind(0)
    BY <1>1
  <2>2. Drops(of, f[0], upto(0), s, FALSE)
    BY <1>2, <1>3, DropsFirst
  <2> HIDE DEF behind
  <2> QED BY <2>1, <2>2
<1>10. ASSUME NEW i \in 1 .. n, i - 1 \in T PROVE i \in T
  <2> DEFINE a == f[i - 1]
             x == lines[i]
             p == upto(i - 1)
             ah == Append(a, H)
             new == i = m /\ ~IsHeader(x, s)
  <2>1. i \in 0 .. n /\ i - 1 \in 0 .. n /\ i >= 1 /\ i \in Int
    BY <1>1
  <2>2. /\ a \in Seq(Whole) /\ x \in Whole /\ upto(i) = Append(p, x) /\ WellFormed(of, f[i])
        /\ f[i] = IF new THEN Append(ah, x) ELSE Append(a, x)
    BY <1>1, <1>2, <1>3, <1>8, <2>1
  <2>3. ok(i - 1)
    BY <1>10
  <2>4. x.kind = "key" => ~IsHeader(x, s)
    BY DEF IsHeader, IsPlain
  <2>5. i = m => x.kind = "header"
    BY <1>7
  <2>6. behind(i) <=> IsHeader(x, s)
    BY <2>1
  <2>7. CASE behind(i - 1)
    <3>1. i - 1 \in 1 .. n /\ IsHeader(lines[i - 1], s)
      BY <1>1, <2>7
    <3>2. x.kind = "key"
      <4>1. lines[(i - 1) + 1].kind = "key"
        BY <1>4, <3>1
      <4>2. (i - 1) + 1 = i
        BY <1>1
      <4> QED BY <4>1, <4>2
    <3>3. i # m
      BY <2>5, <3>2
    <3> DEFINE q == upto(i - 1 - 1)
    <3>4. p = Append(q, H)
      BY <1>2, <1>6, <3>1
    <3>5. Drops(of, a, q, s, TRUE)
      BY <2>3, <2>7
    <3> HIDE DEF a, x, p, q, behind, ah
    <3>6. f[i] = Append(a, x) /\ WellFormed(of, Append(a, x))
      BY <2>2, <3>3
    <3>7. Drops(of, f[i], Append(Append(q, H), x), s, FALSE)
      BY <2>2, <3>2, <3>5, <3>6, DropSteps DEF H
    <3>8. ok(i)
      BY <2>2, <2>4, <2>6, <3>2, <3>4, <3>7
    <3> QED BY <2>1, <3>8
  <2>8. CASE ~behind(i - 1)
    <3>1. Drops(of, a, p, s, FALSE)
      <4> HIDE DEF behind
      <4> QED BY <2>3, <2>8
    <3> HIDE DEF a, x, p, behind
    <3>2. CASE ~new
      <4>1. f[i] = Append(a, x) /\ WellFormed(of, Append(a, x))
        BY <2>2, <3>2
      <4>2. /\ ~IsHeader(x, s) => Drops(of, f[i], Append(p, x), s, FALSE)
            /\ IsHeader(x, s) => Drops(of, f[i], p, s, TRUE)
        BY <2>2, <3>1, <4>1, DropSteps
      <4>3. ok(i)
        BY <2>2, <2>6, <4>2 DEF p
      <4> QED BY <2>1, <4>3
    <3>3. CASE new
      <4>1. x.kind = "header" /\ ~IsHeader(x, s) /\ f[i] = Append(ah, x)
        BY <2>2, <2>5, <3>3
      <4>2. ah \in Seq(Whole)
        BY <1>5, <2>2, AppendFacts
      <4> HIDE DEF ah
      <4>3. WellFormed(of, Append(ah, x)) /\ WellFormed(of, ah)
        <5>1. ah \in Seq(Line) /\ x \in Line
          BY <2>2, <4>2, LineKinds, SeqMonotonic
        <5> QED BY <2>2, <4>1, <5>1, FitsAppend
      <4>4. Drops(of, ah, p, s, TRUE)
        BY <1>5, <2>2, <3>1, <4>3, DropSteps DEF ah
      <4>5. Drops(of, f[i], Append(p, x), s, FALSE)
        BY <2>2, <4>1, <4>2, <4>3, <4>4, DropSteps
      <4>6. ok(i)
        BY <2>2, <2>6, <4>1, <4>5
      <4> QED BY <2>1, <4>6
    <3> QED BY <3>2, <3>3
  <2> QED BY <2>7, <2>8
<1>11. n \in T
  <2>1. Climbs(T, n)
    <3> HIDE DEF T
    <3> QED BY <1>9, <1>10 DEF Climbs
  <2>2. n \in 0 .. n
    BY <1>1
  <2> HIDE DEF T
  <2> QED BY <1>1, <2>1, <2>2, Upwards
<1>12. ~behind(n)
  <2>1. ASSUME behind(n) PROVE FALSE
    <3>1. n \in 1 .. n /\ IsHeader(lines[n], s)
      BY <1>1, <2>1
    <3>2. n < n
      BY <1>4, <3>1
    <3> QED BY <1>1, <3>2
  <2> QED BY <2>1
<1>13. Drops(of, f[n], upto(n), s, FALSE)
  <2> HIDE DEF behind
  <2> QED BY <1>11, <1>12
<1> QED BY <1>2, <1>13 DEF n

(* Adding a section and dropping it again changes nothing.                 *)
LEMMA AddThenDrop ==
  ASSUME NEW of, NEW lines \in Seq(Whole), WellFormed(of, lines), NEW s \in Owned(of), HeaderFilled(lines, s)
  PROVE  DropSectionIfEmpty(AddSection(lines, s), s) = lines
<1> DEFINE n == Len(lines)
           H == HeaderLine(s, FALSE)
           upto(i) == SubSeq(lines, 1, i)
<1>1. n \in Nat
  BY LenProperties
<1>2. CASE AddSection(lines, s) = Append(lines, H) /\ \A u \in Sections(lines) : u < s
  <2> DEFINE f == [i \in 0 .. n |-> upto(i)]
             ph == Append(lines, H)
  <2>1. Adds(f, lines, s, 0) /\ f[n] = lines /\ \A i \in 0 .. n : f[i] = upto(i)
    <3>1. /\ upto(0) = <<>> /\ upto(n) = lines /\ \A i \in 0 .. n : upto(i) \in Seq(Whole)
          /\ \A i \in 1 .. n : upto(i) = Append(upto(i - 1), lines[i])
      BY UptoFacts
    <3> HIDE DEF n, upto
    <3>2. \A i \in 1 .. n : i \in 0 .. n /\ i - 1 \in 0 .. n /\ i # 0
      BY <1>1
    <3>3. 0 \in 0 .. n /\ n \in 0 .. n
      BY <1>1
    <3>4. f \in [0 .. n -> Seq(Whole)] /\ f[0] = <<>> /\ \A i \in 1 .. n : f[i] = Append(f[i - 1], lines[i])
      BY <3>1, <3>2, <3>3
    <3>5. Adds(f, lines, s, 0)
      <4> HIDE DEF f
      <4> QED BY <3>2, <3>4 DEF Adds, n
    <3> QED BY <3>1, <3>3, <3>5
  <2>2. \A i \in 0 .. n : WellFormed(of, f[i])
    <3>1. \A i \in 0 .. n : WellFormed(of, upto(i))
      BY UptoFits
    <3> HIDE DEF f, upto
    <3> QED BY <2>1, <3>1
  <2> HIDE DEF f
  <2>3. Drops(of, lines, lines, s, FALSE)
    <3> DEFINE m == 0
    <3>1. m \notin 1 .. n /\ Adds(f, lines, s, m)
      BY <2>1
    <3> HIDE DEF m
    <3>2. Drops(of, f[n], lines, s, FALSE)
      BY <2>2, <3>1, DropsUndo
    <3> QED BY <2>1, <3>2
  <2>4. H \in Whole /\ IsHeader(H, s) /\ WellFormed(of, ph)
    BY <1>2, HeaderFits
  <2>5. Drops(of, ph, lines, s, TRUE)
    <3> HIDE DEF H
    <3> QED BY <2>3, <2>4, DropSteps
  <2> HIDE DEF ph
  <2>6. DropSectionIfEmpty(ph, s) = lines
    BY <2>5 DEF Drops
  <2> QED BY <1>2, <2>6 DEF ph
<1>3. CASE \E m, f : FirstBig(lines, s, m) /\ Adds(f, lines, s, m) /\ AddSection(lines, s) = f[n]
  <2>1. PICK m, f : FirstBig(lines, s, m) /\ Adds(f, lines, s, m) /\ AddSection(lines, s) = f[n]
    BY <1>3
  <2>2. IsPlain(lines[m])
    BY <2>1 DEF FirstBig
  <2>3. \A i \in 0 .. n : WellFormed(of, f[i])
    <3>1. \A i \in 0 .. n : Follows(of, f[i], upto(i), {H})
      BY <2>1, AddsFollow
    <3> HIDE DEF upto, n, H
    <3> QED BY <3>1 DEF Follows, Keeps
  <2>4. Drops(of, f[n], lines, s, FALSE)
    BY <2>1, <2>2, <2>3, DropsUndo
  <2>5. DropSectionIfEmpty(f[n], s) = lines
    BY <2>4 DEF Drops
  <2> QED BY <2>1, <2>5
<1> QED BY <1>2, <1>3, AddSectionGrows

(* A file that loses no line is the same.                                  *)
LEMMA OnlyAll ==
  ASSUME NEW lines \in Seq(Line), NEW X, \A i \in 1 .. Len(lines) : lines[i] \in X
  PROVE  Only(lines, X) = lines
<1> DEFINE n == Len(lines)
           upto(i) == SubSeq(lines, 1, i)
           T == {i \in 0 .. n : Only(upto(i), X) = upto(i)}
<1>1. n \in Nat /\ \A i \in 1 .. n : lines[i] \in Line /\ lines[i] \in X
  BY LenProperties, ElementOfSeq
<1>2. /\ upto(0) = <<>> /\ upto(n) = lines /\ \A i \in 0 .. n : upto(i) \in Seq(Line)
      /\ \A i \in 1 .. n : upto(i) = Append(upto(i - 1), lines[i])
  BY UptoFacts
<1> HIDE DEF n, upto
<1>3. 0 \in T
  <2> DEFINE p == upto(0)
  <2>1. p \in Seq(Line) /\ p = <<>> /\ Comment \in Line
    BY <1>2, EmptyFile DEF Comment, Line
  <2> HIDE DEF p
  <2>2. Only(p, X) = p
    BY <2>1, OnlyAppend
  <2> QED BY <1>1, <2>2 DEF p
<1>4. ASSUME NEW i \in 1 .. n, i - 1 \in T PROVE i \in T
  <2> DEFINE p == upto(i - 1)
             x == lines[i]
  <2>1. i \in 0 .. n /\ i - 1 \in 0 .. n
    BY <1>1
  <2>2. p \in Seq(Line) /\ x \in Line /\ x \in X /\ upto(i) = Append(p, x) /\ Only(p, X) = p
    BY <1>1, <1>2, <1>4, <2>1
  <2> HIDE DEF p, x
  <2>3. /\ Only(p, X) \in Seq(Line) /\ (p = <<>> => Only(p, X) = <<>>)
        /\ Only(Append(p, x), X) = IF x \in X THEN Append(Only(p, X), x) ELSE Only(p, X)
    BY <2>2, OnlyAppend
  <2>4. Only(Append(p, x), X) = Append(p, x)
    BY <2>2, <2>3
  <2> QED BY <2>1, <2>2, <2>4
<1>5. n \in T
  <2>1. Climbs(T, n)
    <3> HIDE DEF T
    <3> QED BY <1>3, <1>4 DEF Climbs
  <2>2. n \in 0 .. n
    BY <1>1
  <2> HIDE DEF T
  <2> QED BY <1>1, <2>1, <2>2, Upwards
<1> QED BY <1>2, <1>5

(* A key that was not there is dropped without a trace.                    *)
LEMMA SetThenDropKey ==
  ASSUME NEW of, NEW lines \in Seq(Whole), WellFormed(of, lines),
         NEW s, NEW k, Belongs(of, s, k), NEW v \in Value, Only(lines, KeyLines(k)) = <<>>
  PROVE  DropKey(SetKey(lines, s, k, v, FALSE), s, k) = lines
<1> DEFINE r == SetKey(lines, s, k, v, FALSE)
           d == DropKey(r, s, k)
           K == KeyLines(k)
           X == Line \ K
<1>1. Keeps(of, r, lines, K)
  <2>1. \A append \in BOOLEAN : Follows(of, SetKey(lines, s, k, v, append), lines, K)
    BY SetKeyFollows
  <2> QED BY <2>1 DEF Follows
<1> HIDE DEF r
<1>2. Keeps(of, d, r, K) /\ Only(d, K) = <<>>
  <2>1. r \in Seq(Whole) /\ WellFormed(of, r)
    BY <1>1 DEF Keeps
  <2>2. Follows(of, d, r, K) /\ Found(d, s, k, <<>>, <<>>)
    BY <2>1, DropKeyFollows
  <2> HIDE DEF d
  <2> QED BY <2>2 DEF Follows, Found
<1> HIDE DEF d
<1>3. d \in Seq(Line) /\ lines \in Seq(Line)
  <2>1. d \in Seq(Whole)
    BY <1>2 DEF Keeps
  <2> QED BY <2>1, LineKinds, SeqMonotonic
<1>4. Only(d, X) = Only(lines, X)
  <2>1. X \cap K = {}
    OBVIOUS
  <2> HIDE DEF X, K
  <2> QED BY <1>1, <1>2, <2>1 DEF Keeps, SameBut
<1>5. Only(lines, K) = <<>>
  OBVIOUS
<1> HIDE DEF K
<1>6. ASSUME NEW a \in Seq(Line), Only(a, K) = <<>> PROVE Only(a, X) = a
  <2>1. \A i \in 1 .. Len(a) : a[i] \in Line /\ a[i] \notin K
    BY <1>6, ElementOfSeq, OnlyNone
  <2>2. \A i \in 1 .. Len(a) : a[i] \in X
    BY <2>1
  <2> HIDE DEF X
  <2> QED BY <2>2, OnlyAll
<1> HIDE DEF X
<1>7. Only(d, X) = d /\ Only(lines, X) = lines
  BY <1>2, <1>3, <1>5, <1>6
<1> QED BY <1>4, <1>7 DEF d, r

-----------------------------------------------------------------------------
(* What is proved of the files, started from any that the filters are made *)
(* for.                                                                    *)
FilesWhole == \A n \in DOMAIN Files : \A lines \in Files[n] : lines \in Seq(Whole) /\ WellFormed(n, lines)

(* The state is well-typed: a file of whole lines in which each key stands *)
(* in its section and no section of the program follows itself is left as  *)
(* such a file by every writer in main.py.                                 *)
THEOREM ConfigTypes ==
  ASSUME FilesWhole
  PROVE  Spec => []TypeOK
<1>1. Init => TypeOK
  BY DEF Init, TypeOK, FilesWhole
<1>2. TypeOK /\ [Next]_vars => TypeOK'
  <2> SUFFICES ASSUME TypeOK, [Next]_vars PROVE TypeOK'
    OBVIOUS
  <2>1. name' = name /\ (file' = file \/ \E Y : Keeps(name, file', file, Y))
    BY StepKeeps
  <2> QED BY <2>1 DEF TypeOK, Keeps
<1> QED BY <1>1, <1>2, PTL DEF Spec

(* What a command writes into a file is what the next command reads.       *)
THEOREM WrittenIsRead ==
  ASSUME FilesWhole
  PROVE  Spec => ReadsBack
<1> DEFINE Good ==
      /\ \A v \in Value : config_add_subproject(v) => v \in PathsRead(file')
      /\ \A r \in Unpack : metadata_set_for_unpack(r) =>
           /\ Read(file', Url) = {r.url}
           /\ Read(file', ObjectId) = {r.id}
           /\ Read(file', Checksum) = {r.sum}
           /\ Read(file', Revision) =
                IF r.revision = NotGiven THEN Read(file, Revision) ELSE {r.revision}
      /\ \A v \in Value : metadata_set_applied_index(v) => Read(file', AppliedIndex) = {v}
      /\ \A v \in Value : metadata_set_subtree_checksum(v) => Read(file', Checksum) = {v}
      /\ metadata_drop_applied_index => Read(file', AppliedIndex) = {}
<1>1. ASSUME TypeOK PROVE Good
  <2>1. ASSUME NEW v \in Value, config_add_subproject(v) PROVE v \in PathsRead(file')
    <3> DEFINE vs == Values(file, Subprojects, Path)
    <3>1. Keeps(name, file', file, About(Subprojects, Path)) /\ OneMore(vs, Values(file', Subprojects, Path), v)
      BY <1>1, <2>1, Writes
    <3>2. file' \in Seq(Whole)
      BY <3>1 DEF Keeps
    <3>3. vs \in Seq(Value)
      <4>1. \A sub : ValuesOf(file, Subprojects, sub, Path) \in Seq(Value)
        <5>1. file \in Seq(Whole) /\ Comment \in Whole
          BY <1>1 DEF TypeOK, Comment, Whole, Line
        <5> QED BY <5>1, ValuesAppend
      <4> QED BY <4>1 DEF Values
    <3> HIDE DEF vs
    <3> QED BY <3>1, <3>2, <3>3, AddedIsRead
  <2>2. ASSUME NEW r \in Unpack, metadata_set_for_unpack(r)
        PROVE  /\ Read(file', Url) = {r.url}
               /\ Read(file', ObjectId) = {r.id}
               /\ Read(file', Checksum) = {r.sum}
               /\ Read(file', Revision) =
                    IF r.revision = NotGiven THEN Read(file, Revision) ELSE {r.revision}
    <3>1. /\ Keeps(name, file', file, AboutAll(UnpackKeys(r)))
          /\ \A k \in UnpackKeys(r) : Found(file', Home(k), k, <<KeyLine(k, Given(r, k))>>, <<Given(r, k)>>)
      BY <1>1, <2>2, Writes
    <3>2. \A k \in UnpackKeys(r) : Read(file', k) = {Given(r, k)}
      BY <3>1, ReadFound
    <3>3. /\ UnpackKeys(r) = IF r.revision = NotGiven THEN {Url, Checksum, ObjectId}
                             ELSE {Url, Revision, Checksum, ObjectId}
          /\ Given(r, Url) = r.url /\ Given(r, Revision) = r.revision
          /\ Given(r, Checksum) = r.sum /\ Given(r, ObjectId) = r.id
      BY UnpackFacts
    <3>4. ASSUME r.revision = NotGiven PROVE Read(file', Revision) = Read(file, Revision)
      <4> DEFINE Y == AboutAll(UnpackKeys(r))
      <4>1. Revision \notin UnpackKeys(r)
        BY <3>3, <3>4, Homes
      <4>2. Keeps(name, file', file, Y) /\ KeyLines(Revision) \cap Y = {}
        BY <3>1, <4>1, AboutMany
      <4> HIDE DEF Y
      <4>3. Only(file', KeyLines(Revision)) = Only(file, KeyLines(Revision))
        BY <4>2 DEF Keeps, SameBut
      <4> QED BY <4>3 DEF Read
    <3> QED BY <3>2, <3>3, <3>4
  <2>3. ASSUME NEW v \in Value, metadata_set_applied_index(v) PROVE Read(file', AppliedIndex) = {v}
    <3>1. Found(file', Subtree, AppliedIndex, <<KeyLine(AppliedIndex, v)>>, <<v>>)
      BY <1>1, <2>3, Writes
    <3> QED BY <3>1, ReadFound
  <2>4. ASSUME NEW v \in Value, metadata_set_subtree_checksum(v) PROVE Read(file', Checksum) = {v}
    <3>1. Found(file', Subtree, Checksum, <<KeyLine(Checksum, v)>>, <<v>>)
      BY <1>1, <2>4, Writes
    <3> QED BY <3>1, ReadFound
  <2>5. ASSUME metadata_drop_applied_index PROVE Read(file', AppliedIndex) = {}
    <3>1. Found(file', Subtree, AppliedIndex, <<>>, <<>>)
      BY <1>1, <2>5, Writes
    <3> QED BY <3>1, ReadFound
  <2> QED BY <2>1, <2>2, <2>3, <2>4, <2>5
<1>2. TypeOK => [Good]_vars
  BY <1>1
<1>3. Spec => []TypeOK
  BY ConfigTypes
<1> QED BY <1>2, <1>3, PTL DEF ReadsBack

(* Lines of all keys but those a writer is about (an unpack is about url,  *)
(* objectId, checksum and, if one is given, revision) stay, in their order,*)
(* and comments too.                                                       *)
THEOREM UserLinesKept ==
  ASSUME FilesWhole
  PROVE  Spec => OtherLinesKept
<1> DEFINE X(K) == {line \in Line : line.kind # "header" /\ \A k \in K : ~IsKey(line, k)}
           about(K) == Unrelated(file', K) = Unrelated(file, K)
           Good ==
             /\ \A v \in Value : config_add_subproject(v) => about({Path})
             /\ \A r \in Unpack : metadata_set_for_unpack(r) => about(UnpackKeys(r))
             /\ \A v \in Value : metadata_set_subtree_checksum(v) => about({Checksum})
             /\ metadata_drop_applied_index \/ (\E v \in Value : metadata_set_applied_index(v)) =>
                  about({AppliedIndex})
<1>1. ASSUME NEW K, NEW s, NEW k \in K PROVE X(K) \cap About(s, k) = {}
  BY LineKinds DEF About, HeaderLine
<1>2. ASSUME NEW Y, NEW K, Keeps(name, file', file, Y), X(K) \cap Y = {} PROVE about(K)
  <2> HIDE DEF X
  <2>1. Only(file', X(K)) = Only(file, X(K))
    BY <1>2 DEF Keeps, SameBut
  <2> QED BY <2>1 DEF Unrelated, X
<1> HIDE DEF X, about
<1>3. ASSUME NEW s, NEW k, Keeps(name, file', file, About(s, k)) PROVE about({k})
  <2> DEFINE K == {k}
  <2>1. k \in K
    OBVIOUS
  <2> HIDE DEF K
  <2>2. about(K)
    BY <1>1, <1>2, <1>3, <2>1
  <2> QED BY <2>2 DEF K
<1>4. ASSUME NEW K, Keeps(name, file', file, AboutAll(K)) PROVE about(K)
  <2>1. X(K) \cap AboutAll(K) = {}
    BY <1>1 DEF AboutAll
  <2> QED BY <1>2, <1>4, <2>1
<1>5. ASSUME TypeOK PROVE Good
  BY <1>3, <1>4, <1>5, Writes
<1>6. TypeOK => [Good]_vars
  BY <1>5
<1>7. Spec => []TypeOK
  BY ConfigTypes
<1> QED BY <1>6, <1>7, PTL DEF OtherLinesKept, about

(* The sections of a sorted file stay sorted.                              *)
THEOREM SectionsSorted ==
  ASSUME FilesWhole
  PROVE  Spec => SectionsStaySorted
<1>1. TypeOK /\ [Next]_vars => [Sorted(file) => Sorted(file')]_vars
  <2> SUFFICES ASSUME TypeOK, [Next]_vars, Sorted(file) PROVE Sorted(file')
    OBVIOUS
  <2>1. file' = file \/ \E Y : Keeps(name, file', file, Y)
    BY StepKeeps
  <2> QED BY <2>1 DEF Keeps
<1>2. Spec => []TypeOK
  BY ConfigTypes
<1> QED BY <1>1, <1>2, PTL DEF Spec, SectionsStaySorted

(* Writing the same again leaves the file alone.                           *)
THEOREM SetTwice ==
  ASSUME FilesWhole
  PROVE  Spec => []SetTwiceIsOnce
<1>1. TypeOK => SetTwiceIsOnce
  <2> DEFINE of == ".subproject"
  <2> SUFFICES ASSUME TypeOK, name = ".subproject"
               PROVE  /\ \A v \in Value :
                           Set(Set(file, AppliedIndex, v), AppliedIndex, v) = Set(file, AppliedIndex, v)
                      /\ \A r \in Unpack : SetForUnpack(SetForUnpack(file, r), r) = SetForUnpack(file, r)
    BY DEF SetTwiceIsOnce
  <2>1. file \in Seq(Whole) /\ WellFormed(of, file)
    BY DEF TypeOK
  <2>2. Belongs(of, Subtree, AppliedIndex)
    BY Homes
  <2>3. ASSUME NEW v \in Value
        PROVE  Set(Set(file, AppliedIndex, v), AppliedIndex, v) = Set(file, AppliedIndex, v)
    <3> DEFINE a == Set(file, AppliedIndex, v)
    <3> HIDE DEF of
    <3>1. Settled(of, a, Subtree, AppliedIndex, v)
      BY <2>1, <2>2, PutSettles DEF Set
    <3> HIDE DEF a
    <3>2. AddSection(a, Subtree) = a /\ SetKey(a, Subtree, AppliedIndex, v, FALSE) = a
      BY <2>2, <3>1, PutDone
    <3>3. Set(a, AppliedIndex, v) = a
      BY <3>2 DEF Set
    <3> QED BY <3>3 DEF a
  <2>4. ASSUME NEW r \in Unpack
        PROVE  SetForUnpack(SetForUnpack(file, r), r) = SetForUnpack(file, r)
    <3> DEFINE a == SetForUnpack(file, r)
    <3>1. Recorded(a, file, r, UnpackKeys(r))
      BY <2>1, UnpackRecords
    <3> HIDE DEF a
    <3>2. ASSUME NEW k \in UnpackKeys(r)
          PROVE  /\ AddSection(a, Home(k)) = a
                 /\ SetKey(a, Home(k), k, Given(r, k), FALSE) = a
      <4>1. Belongs(of, Home(k), k) /\ Given(r, k) \in Value
        BY UnpackFacts
      <4>2. Settled(of, a, Home(k), k, Given(r, k))
        BY <3>1 DEF Recorded
      <4> HIDE DEF of
      <4> QED BY <4>1, <4>2, PutDone
    <3>3. /\ UnpackKeys(r) = IF r.revision = NotGiven THEN {Url, Checksum, ObjectId}
                             ELSE {Url, Revision, Checksum, ObjectId}
          /\ \A k \in {ObjectId, Revision, Url} : Home(k) = Upstream
          /\ Home(Checksum) = Subtree
          /\ Given(r, Url) = r.url /\ Given(r, Revision) = r.revision
          /\ Given(r, Checksum) = r.sum /\ Given(r, ObjectId) = r.id
      BY UnpackFacts
    <3>4. /\ AddSection(a, Upstream) = a /\ SetUpstream(a, Url, r.url) = a
          /\ SetUpstream(a, ObjectId, r.id) = a /\ Set(a, Checksum, r.sum) = a
      BY <3>2, <3>3 DEF SetUpstream, Set
    <3>5. r.revision # NotGiven => SetUpstream(a, Revision, r.revision) = a
      BY <3>2, <3>3 DEF SetUpstream
    <3>6. SetForUnpack(a, r) = a
      BY <3>4, <3>5 DEF SetForUnpack
    <3> QED BY <3>6 DEF a
  <2> QED BY <2>3, <2>4
<1>2. Spec => []TypeOK
  BY ConfigTypes
<1> QED BY <1>1, <1>2, PTL

(* Setting appliedIndex in a file without it, and dropping it, changes     *)
(* nothing: a pop and then a push of the top patch.                        *)
THEOREM SetThenDrop ==
  ASSUME FilesWhole
  PROVE  Spec => []DropUndoesSet
<1>1. TypeOK => DropUndoesSet
  <2> DEFINE of == ".subproject"
             s == Subtree
             k == AppliedIndex
             K == KeyLines(k)
  <2> SUFFICES ASSUME TypeOK, name = ".subproject", Read(file, AppliedIndex) = {},
                      \A i \in DOMAIN file : IsHeader(file[i], Subtree) => KeyFollows(file, i),
                      NEW v \in Value
               PROVE  DropIndex(Set(file, AppliedIndex, v)) = file
    BY DEF DropUndoesSet
  <2> DEFINE l == AddSection(file, s)
             r == SetKey(l, s, k, v, FALSE)
  <2>1. file \in Seq(Whole) /\ WellFormed(of, file) /\ HeaderFilled(file, s)
    BY DEF TypeOK, HeaderFilled
  <2>2. Belongs(of, s, k) /\ s \in Owned(of)
    BY Homes
  <2>3. Only(file, K) = <<>>
    BY DEF Read
  <2>4. Set(file, AppliedIndex, v) = r
    BY DEF Set
  <2> HIDE DEF of, s, k, K
  <2>5. DropSectionIfEmpty(l, s) = file
    BY <2>1, <2>2, AddThenDrop
  <2>6. Keeps(of, l, file, {HeaderLine(s, FALSE)})
    BY <2>1, <2>2, AddSectionKeeps
  <2> HIDE DEF l
  <2>7. l \in Seq(Whole) /\ WellFormed(of, l)
    BY <2>6 DEF Keeps
  <2>8. Only(l, K) = <<>>
    <3>1. K \cap {HeaderLine(s, FALSE)} = {}
      BY KindsApart DEF K
    <3>2. Only(l, K) = Only(file, K)
      BY <2>6, <3>1 DEF Keeps, SameBut
    <3> QED BY <2>3, <3>2
  <2>9. DropKey(r, s, k) = l
    BY <2>2, <2>7, <2>8, SetThenDropKey DEF K
  <2> QED BY <2>4, <2>5, <2>9 DEF DropIndex, s, k
<1>2. Spec => []TypeOK
  BY ConfigTypes
<1> QED BY <1>1, <1>2, PTL

-----------------------------------------------------------------------------
(* A file as a map.                                                        *)
Entry(lines) == [x \in Slots |-> ValuesOf(lines, x[1], x[2], x[3])]

(* A key of the program has one slot.                                      *)
LEMMA SlotFacts ==
  /\ \A k \in Key \ {Other} : SlotOf(k) \in Slots
  /\ \A x \in Slots, k \in Key \ {Other} : x[3] = k => x = SlotOf(k)
  /\ \A k : SlotOf(k)[3] = k
<1>1. ASSUME NEW x \in Slots, NEW k \in Key \ {Other}, x[3] = k PROVE x = SlotOf(k)
  <2>1. CASE x \in {SlotOf(l) : l \in Key \ {Other}}
    <3>1. PICK l \in Key \ {Other} : x = SlotOf(l)
      BY <2>1
    <3>2. l = k
      BY <1>1, <3>1 DEF SlotOf
    <3> QED BY <3>1, <3>2
  <2>2. CASE x \in {<<s, FALSE, Other>> : s \in Section}
    <3>1. PICK s \in Section : x = <<s, FALSE, Other>>
      BY <2>2
    <3> QED BY <1>1, <3>1
  <2>3. CASE x = <<Subtree, TRUE, Other>>
    BY <1>1, <2>3
  <2> QED BY <2>1, <2>2, <2>3 DEF Slots
<1>2. \A k : SlotOf(k)[3] = k
  BY DEF SlotOf
<1> QED BY <1>1, <1>2 DEF Slots

(* The values of a whole file.                                             *)
LEMMA EntryTypes ==
  ASSUME NEW lines \in Seq(Whole)
  PROVE  /\ Entry(lines) \in [Slots -> Seq(Value)]
         /\ \A k \in Key \ {Other} : Entry(lines)[SlotOf(k)] = Values(lines, Home(k), k)
<1>1. \A s, sub, k : ValuesOf(lines, s, sub, k) \in Seq(Value)
  <2>1. Comment \in Whole
    BY DEF Comment, Whole, Line
  <2> QED BY <2>1, ValuesAppend
<1>2. ASSUME NEW k \in Key \ {Other} PROVE Entry(lines)[SlotOf(k)] = Values(lines, Home(k), k)
  <2>1. SlotOf(k) \in Slots
    BY SlotFacts
  <2>2. Entry(lines)[SlotOf(k)] = ValuesOf(lines, SlotOf(k)[1], SlotOf(k)[2], SlotOf(k)[3])
    BY <2>1 DEF Entry
  <2>3. SlotOf(k)[1] = Home(k) /\ SlotOf(k)[2] = FALSE /\ SlotOf(k)[3] = k
    BY DEF SlotOf
  <2> QED BY <2>2, <2>3 DEF Values
<1> QED BY <1>1, <1>2 DEF Entry

(* Slots of other keys have the same values.                               *)
LEMMA EntryKept ==
  ASSUME NEW of, NEW a, NEW p, NEW Y, Keeps(of, a, p, Y), NEW K,
         \A k : k \notin K => KeyLines(k) \cap Y = {}
  PROVE  \A x \in Slots : x[3] \notin K => Entry(a)[x] = Entry(p)[x]
BY DEF Keeps, SameBut, Entry

(* One slot is changed.                                                    *)
LEMMA EntryOne ==
  ASSUME NEW of, NEW a, NEW p, NEW k \in Key \ {Other}, Keeps(of, a, p, About(Home(k), k))
  PROVE  Entry(a) = [Entry(p) EXCEPT ![SlotOf(k)] = Values(a, Home(k), k)]
<1>1. a \in Seq(Whole) /\ p \in Seq(Whole)
  BY DEF Keeps
<1>2. \A x \in Slots : x[3] \notin {k} => Entry(a)[x] = Entry(p)[x]
  <2> DEFINE Y == About(Home(k), k)
             K == {k}
  <2>1. Keeps(of, a, p, Y) /\ \A l : l \notin K => KeyLines(l) \cap Y = {}
    BY AboutOne
  <2> HIDE DEF Y, K
  <2>2. \A x \in Slots : x[3] \notin K => Entry(a)[x] = Entry(p)[x]
    BY <2>1, EntryKept
  <2> QED BY <2>2 DEF K
<1>3. \A x \in Slots : x # SlotOf(k) => Entry(a)[x] = Entry(p)[x]
  BY <1>2, SlotFacts
<1>4. Entry(a) \in [Slots -> Seq(Value)] /\ Entry(p) \in [Slots -> Seq(Value)]
      /\ Entry(a)[SlotOf(k)] = Values(a, Home(k), k)
  BY <1>1, EntryTypes
<1> QED BY <1>3, <1>4

(* Some slots are changed.                                                 *)
LEMMA EntryMany ==
  ASSUME NEW of, NEW a, NEW p, NEW K \in SUBSET (Key \ {Other}), Keeps(of, a, p, AboutAll(K)),
         NEW v \in [K -> Value], \A k \in K : Values(a, Home(k), k) = <<v[k]>>
  PROVE  LET X == {SlotOf(k) : k \in K}
         IN Entry(a) = [x \in Slots |-> IF x \in X THEN <<v[x[3]]>> ELSE Entry(p)[x]]
<1> DEFINE X == {SlotOf(k) : k \in K}
           Y == AboutAll(K)
<1>1. a \in Seq(Whole) /\ p \in Seq(Whole)
  BY DEF Keeps
<1>2. \A x \in Slots : x[3] \notin K => Entry(a)[x] = Entry(p)[x]
  <2>1. Keeps(of, a, p, Y) /\ \A k : k \notin K => KeyLines(k) \cap Y = {}
    BY AboutMany
  <2> HIDE DEF Y
  <2> QED BY <2>1, EntryKept
<1>3. ASSUME NEW x \in Slots
      PROVE  Entry(a)[x] = IF x \in X THEN <<v[x[3]]>> ELSE Entry(p)[x]
  <2>1. CASE x[3] \in K
    <3>1. x[3] \in Key \ {Other} /\ x = SlotOf(x[3])
      BY <2>1, SlotFacts
    <3>2. Entry(a)[x] = <<v[x[3]]>> /\ x \in X
      BY <1>1, <2>1, <3>1, EntryTypes
    <3> QED BY <3>2
  <2>2. CASE x[3] \notin K
    <3>1. x \notin X
      BY <2>2, SlotFacts
    <3> QED BY <1>2, <2>2, <3>1
  <2> QED BY <2>1, <2>2
<1>4. Entry(a) = [x \in Slots |-> Entry(a)[x]]
  BY DEF Entry
<1> QED BY <1>3, <1>4

(* The slots of the map.                                                   *)
LEMMA SlotKinds ==
  /\ Home(Path) = Subprojects /\ Home(AppliedIndex) = Subtree /\ Home(Checksum) = Subtree
  /\ {Path, AppliedIndex, Checksum} \subseteq Key \ {Other}
BY DEF Home, Key, Path, ObjectId, AppliedIndex, Checksum, Other, Revision, Url

(* Each writer changes the values it is about and no others: the files     *)
(* implement the map.                                                      *)
THEOREM FilesAreMaps ==
  ASSUME FilesWhole
  PROVE  Spec => ImplementsMap
<1> DEFINE entry == [x \in Slots |-> ValuesOf(file, x[1], x[2], x[3])]
<1>1. Init => Map!Init
  <2> SUFFICES ASSUME Init PROVE entry \in [Slots -> Seq(Value)]
    BY DEF Map!Init
  <2>1. file \in Seq(Whole)
    BY DEF Init, FilesWhole
  <2> QED BY <2>1, EntryTypes DEF Entry
<1>2. TypeOK /\ [Next]_vars => [Map!Next]_entry
  <2> SUFFICES ASSUME TypeOK, [Next]_vars PROVE [Map!Next]_entry
    OBVIOUS
  <2>1. entry = Entry(file) /\ entry' = Entry(file')
    BY DEF Entry
  <2> DEFINE old == Entry(file)
             new == Entry(file')
  <2>2. CASE UNCHANGED vars
    BY <2>2 DEF vars
  <2>3. ASSUME NEW v \in Value, config_add_subproject(v) PROVE Map!Next
    <3> DEFINE vs == Values(file, Subprojects, Path)
               ws == Values(file', Subprojects, Path)
               x == SlotOf(Path)
    <3>1. Keeps(name, file', file, About(Home(Path), Path)) /\ OneMore(vs, ws, v)
      BY <2>3, SlotKinds, Writes
    <3>2. new = [old EXCEPT ![x] = ws]
      <4>1. Path \in Key \ {Other} /\ Home(Path) = Subprojects
        BY SlotKinds
      <4>2. Entry(file') = [Entry(file) EXCEPT ![SlotOf(Path)] = Values(file', Home(Path), Path)]
        BY <3>1, <4>1, EntryOne
      <4> QED BY <4>1, <4>2
    <3>3. old[x] = vs
      <4>1. file \in Seq(Whole)
        BY DEF TypeOK
      <4> QED BY <4>1, SlotKinds, EntryTypes
    <3>4. PICK i \in 1 .. Len(vs) + 1 : ws = InsertAt(vs, i, v)
      BY <3>1 DEF OneMore
    <3>5. x \in {SlotOf(Path)}
      OBVIOUS
    <3> HIDE DEF old, new, vs, ws, x
    <3>6. i \in 1 .. Len(old[x]) + 1 /\ new = [old EXCEPT ![x] = InsertAt(old[x], i, v)]
      BY <3>2, <3>3, <3>4
    <3>7. Map!Insert(x, v)
      BY <2>1, <3>6 DEF Map!Insert, Map!InsertAt, InsertAt, old, new
    <3> QED BY <3>5, <3>7 DEF Map!Next
  <2> DEFINE Together == {{SlotOf(AppliedIndex)}, {SlotOf(Checksum)}}
                         \cup {{SlotOf(k) : k \in UnpackKeys(r)} : r \in Unpack}
  <2>8. ASSUME NEW K \in SUBSET (Key \ {Other}), {SlotOf(k) : k \in K} \in Together,
               Keeps(name, file', file, AboutAll(K)),
               NEW v \in [K -> Value], \A k \in K : Values(file', Home(k), k) = <<v[k]>>
        PROVE  Map!Next
    <3> DEFINE X == {SlotOf(k) : k \in K}
               w == [x \in X |-> v[x[3]]]
    <3>1. new = [x \in Slots |-> IF x \in X THEN <<v[x[3]]>> ELSE old[x]]
      BY <2>8, EntryMany
    <3>2. \A x \in X : x[3] \in K
      BY SlotFacts
    <3>3. w \in [X -> Value] /\ \A x \in X : w[x] = v[x[3]]
      BY <2>8, <3>2
    <3> HIDE DEF new, old, X, w
    <3>4. Map!Put(X, w)
      BY <2>1, <3>1, <3>3 DEF Map!Put, old, new
    <3>5. X \in Together
      BY <2>8 DEF X
    <3> QED BY <3>3, <3>4, <3>5 DEF Map!Next
  <2>4. ASSUME NEW r \in Unpack, metadata_set_for_unpack(r) PROVE Map!Next
    <3> DEFINE K == UnpackKeys(r)
               v == [k \in K |-> Given(r, k)]
    <3>1. /\ Keeps(name, file', file, AboutAll(K))
          /\ \A k \in K : Values(file', Home(k), k) = <<v[k]>>
      BY <2>4, Writes DEF Found
    <3>2. K \in SUBSET (Key \ {Other}) /\ v \in [K -> Value]
      <4>1. \A k \in K : k \in Key \ {Other} /\ Given(r, k) \in Value
        BY UnpackFacts
      <4> QED BY <4>1
    <3>3. {SlotOf(k) : k \in K} \in Together
      OBVIOUS
    <3> HIDE DEF v, K, Together
    <3> QED BY <2>8, <3>1, <3>2, <3>3
  <2>9. ASSUME NEW k \in {AppliedIndex, Checksum}, NEW v \in Value, Keeps(name, file', file, About(Subtree, k)),
               Found(file', Subtree, k, <<KeyLine(k, v)>>, <<v>>)
        PROVE  Map!Next
    <3> DEFINE K == {k}
               w == [l \in K |-> v]
    <3>1. k \in Key \ {Other} /\ Home(k) = Subtree
      BY SlotKinds
    <3>2. AboutAll(K) = About(Subtree, k)
      BY <3>1 DEF AboutAll
    <3>3. Keeps(name, file', file, AboutAll(K))
      BY <2>9, <3>2
    <3>4. w \in [K -> Value] /\ \A l \in K : Values(file', Home(l), l) = <<w[l]>>
      BY <2>9, <3>1 DEF Found
    <3>5. {SlotOf(l) : l \in K} = {SlotOf(k)}
      OBVIOUS
    <3>6. K \in SUBSET (Key \ {Other}) /\ {SlotOf(l) : l \in K} \in Together
      BY <3>1, <3>5
    <3> HIDE DEF w, K, Together
    <3> QED BY <2>8, <3>3, <3>4, <3>6
  <2>5. ASSUME NEW v \in Value, metadata_set_applied_index(v) PROVE Map!Next
    BY <2>5, <2>9, Writes
  <2>6. ASSUME NEW v \in Value, metadata_set_subtree_checksum(v) PROVE Map!Next
    BY <2>6, <2>9, Writes
  <2>7. ASSUME metadata_drop_applied_index PROVE Map!Next
    <3> DEFINE x == SlotOf(AppliedIndex)
    <3>1. /\ Keeps(name, file', file, About(Home(AppliedIndex), AppliedIndex))
          /\ Values(file', Home(AppliedIndex), AppliedIndex) = <<>>
      BY <2>7, SlotKinds, Writes DEF Found
    <3>2. new = [old EXCEPT ![x] = <<>>]
      <4>1. AppliedIndex \in Key \ {Other}
        BY SlotKinds
      <4>2. Entry(file') = [Entry(file) EXCEPT ![SlotOf(AppliedIndex)] = Values(file', Home(AppliedIndex), AppliedIndex)]
        BY <3>1, <4>1, EntryOne
      <4> QED BY <3>1, <4>2
    <3>3. x \in {SlotOf(AppliedIndex)}
      OBVIOUS
    <3> HIDE DEF old, new, x
    <3>4. Map!Clear(x)
      BY <2>1, <3>2 DEF Map!Clear, old, new
    <3> QED BY <3>3, <3>4 DEF Map!Next
  <2>10. \A r \in Inputs : r \in Unpack
    BY DEF Inputs
  <2> QED BY <2>2, <2>3, <2>4, <2>5, <2>6, <2>7, <2>10 DEF Next
<1>3. Spec => []TypeOK
  BY ConfigTypes
<1> QED BY <1>1, <1>2, <1>3, PTL DEF Spec, ImplementsMap, Map!Spec
=============================================================================
