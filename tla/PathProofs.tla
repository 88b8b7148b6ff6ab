----------------------------- MODULE PathProofs -----------------------------
(***************************************************************************)
(* Lemmas about the paths of Superproject: where a path leads, what        *)
(* os.path.relpath and os.path.normpath make of it, and which prefixes of  *)
(* a directory the search for the superproject finds.                      *)
(***************************************************************************)
EXTENDS Superproject, SequenceTheorems, Induction

Name == Nat \ {Up}

\* A path of k times "..".
Ups(k) == [i \in 1 .. k |-> Up]

-----------------------------------------------------------------------------
(* Sequences.                                                              *)

(* A part of a sequence.                                                   *)
LEMMA SubSeqFacts ==
  ASSUME NEW S, NEW s \in Seq(S), NEW m \in 1 .. Len(s) + 1, NEW n \in 0 .. Len(s), m <= n + 1
  PROVE  /\ SubSeq(s, m, n) \in Seq(S) /\ Len(SubSeq(s, m, n)) = n - m + 1
         /\ \A i \in 1 .. n - m + 1 : SubSeq(s, m, n)[i] = s[m + i - 1]
<1>1. Len(s) \in Nat /\ m \in Int /\ n \in Int /\ \A i \in m .. n : s[i] \in S
  BY LenProperties, ElementOfSeq
<1> QED BY <1>1, SubSeqProperties

(* The first elements, and what comes after them.                          *)
LEMMA FirstFacts ==
  ASSUME NEW S, NEW s \in Seq(S), NEW l \in 0 .. Len(s)
  PROVE  /\ SubSeq(s, 1, l) \in Seq(S) /\ Len(SubSeq(s, 1, l)) = l
         /\ \A i \in 1 .. l : SubSeq(s, 1, l)[i] = s[i]
<1>1. Len(s) \in Nat /\ 1 \in 1 .. Len(s) + 1 /\ 1 <= l + 1
  BY LenProperties
<1>2. /\ SubSeq(s, 1, l) \in Seq(S) /\ Len(SubSeq(s, 1, l)) = l - 1 + 1
      /\ \A i \in 1 .. l - 1 + 1 : SubSeq(s, 1, l)[i] = s[1 + i - 1]
  BY <1>1, SubSeqFacts
<1>3. l - 1 + 1 = l /\ \A i \in 1 .. l : 1 + i - 1 = i
  BY <1>1
<1> DEFINE t == SubSeq(s, 1, l)
<1> HIDE DEF t
<1> QED BY <1>2, <1>3 DEF t

LEMMA RestFacts ==
  ASSUME NEW S, NEW s \in Seq(S), NEW l \in 0 .. Len(s)
  PROVE  /\ SubSeq(s, l + 1, Len(s)) \in Seq(S) /\ Len(SubSeq(s, l + 1, Len(s))) = Len(s) - l
         /\ \A i \in 1 .. Len(s) - l : SubSeq(s, l + 1, Len(s))[i] = s[l + i]
<1>1. Len(s) \in Nat /\ l + 1 \in 1 .. Len(s) + 1 /\ Len(s) \in 0 .. Len(s) /\ l + 1 <= Len(s) + 1
  BY LenProperties
<1> DEFINE t == SubSeq(s, l + 1, Len(s))
<1>2. /\ t \in Seq(S) /\ Len(t) = Len(s) - (l + 1) + 1
      /\ \A i \in 1 .. Len(s) - (l + 1) + 1 : t[i] = s[l + 1 + i - 1]
  BY <1>1, SubSeqFacts
<1>3. Len(s) - (l + 1) + 1 = Len(s) - l /\ \A i \in 1 .. Len(s) - l : l + 1 + i - 1 = l + i
  BY <1>1
<1> HIDE DEF t
<1> QED BY <1>2, <1>3 DEF t

(* What is in front of the last element.                                   *)
LEMMA FrontFacts ==
  ASSUME NEW S, NEW s \in Seq(S), s # <<>>
  PROVE  /\ Front(s) \in Seq(S) /\ Len(Front(s)) = Len(s) - 1 /\ Len(s) \in Nat \ {0}
         /\ \A i \in 1 .. Len(s) - 1 : Front(s)[i] = s[i]
         /\ Last(s) \in S /\ s = Append(Front(s), Last(s))
<1>1. Len(s) \in Nat \ {0}
  BY EmptySeq
<1>2. Front(s) \in Seq(S) /\ Len(Front(s)) = Len(s) - 1 /\ \A i \in 1 .. Len(s) - 1 : Front(s)[i] = s[i]
  <2>1. 1 \in 1 .. Len(s) + 1 /\ Len(s) - 1 \in 0 .. Len(s) /\ 1 <= (Len(s) - 1) + 1 /\ Len(s) - 1 - 1 + 1 = Len(s) - 1
    BY <1>1
  <2>2. /\ SubSeq(s, 1, Len(s) - 1) \in Seq(S) /\ Len(SubSeq(s, 1, Len(s) - 1)) = Len(s) - 1
        /\ \A i \in 1 .. Len(s) - 1 : SubSeq(s, 1, Len(s) - 1)[i] = s[1 + i - 1]
    BY <2>1, SubSeqFacts
  <2> QED BY <1>1, <2>2 DEF Front
<1>3. Last(s) \in S
  BY <1>1, ElementOfSeq DEF Last
<1>4. s = Append(Front(s), Last(s))
  <2> DEFINE t == Append(Front(s), Last(s))
  <2>1. t \in Seq(S) /\ Len(t) = Len(s) /\ (\A i \in 1 .. Len(s) - 1 : t[i] = s[i]) /\ t[Len(s)] = s[Len(s)]
    BY <1>1, <1>2, <1>3, AppendProperties DEF Last
  <2> HIDE DEF t
  <2>2. \A i \in 1 .. Len(s) : s[i] = t[i]
    BY <1>1, <2>1
  <2>3. s = t
    BY <2>1, <2>2, SeqEqual
  <2> QED BY <2>3 DEF t
<1> QED BY <1>1, <1>2, <1>3, <1>4

(* A part of a sequence, and the part that is one longer.                  *)
LEMMA PartFacts ==
  ASSUME NEW S, NEW s \in Seq(S), NEW i \in 1 .. Len(s)
  PROVE  LET a == SubSeq(s, 1, i)
             b == SubSeq(s, 1, i - 1)
         IN /\ a \in Seq(S) /\ b \in Seq(S) /\ a = Append(b, s[i])
            /\ a # <<>> /\ Last(a) = s[i] /\ Front(a) = b
<1> DEFINE a == SubSeq(s, 1, i)
           b == SubSeq(s, 1, i - 1)
<1>1. Len(s) \in Nat /\ i \in 0 .. Len(s) /\ i - 1 \in 0 .. Len(s) /\ 1 \in 1 .. Len(s) + 1
  BY LenProperties
<1>2. /\ a \in Seq(S) /\ Len(a) = i /\ \A j \in 1 .. i : a[j] = s[j]
      /\ b \in Seq(S) /\ Len(b) = i - 1 /\ \A j \in 1 .. i - 1 : b[j] = s[j]
  BY <1>1, SubSeqFacts
<1>3. a = Append(b, s[i])
  BY <1>1, SubSeqRecursiveSecond
<1> HIDE DEF a, b
<1>4. a # <<>>
  BY <1>1, <1>2, EmptySeq
<1>5. /\ Front(a) \in Seq(S) /\ Len(Front(a)) = Len(a) - 1
      /\ \A j \in 1 .. Len(a) - 1 : Front(a)[j] = a[j]
  BY <1>2, <1>4, FrontFacts
<1>6. Front(a) = b
  <2>1. \A j \in 1 .. Len(b) : Front(a)[j] = b[j]
    BY <1>1, <1>2, <1>5
  <2> QED BY <1>2, <1>5, <2>1, SeqEqual
<1>7. Last(a) = s[i]
  BY <1>1, <1>2 DEF Last
<1> QED BY <1>2, <1>3, <1>4, <1>6, <1>7 DEF a, b

(* The same behind another sequence.                                       *)
LEMMA PartNext ==
  ASSUME NEW S, NEW p \in Seq(S), NEW s \in Seq(S), NEW i \in 1 .. Len(s)
  PROVE  p \o SubSeq(s, 1, i) = Append(p \o SubSeq(s, 1, i - 1), s[i])
<1> DEFINE t == SubSeq(s, 1, i - 1)
<1>1. t \in Seq(S) /\ SubSeq(s, 1, i) = Append(t, s[i])
  BY PartFacts
<1>2. s[i] \in S
  BY ElementOfSeq
<1> HIDE DEF t
<1>3. Append(t, s[i]) = t \o <<s[i]>> /\ Append(p \o t, s[i]) = (p \o t) \o <<s[i]>> /\ <<s[i]>> \in Seq(S)
  BY <1>1, <1>2, AppendIsConcat, ConcatProperties
<1> QED BY <1>1, <1>3, ConcatAssociative DEF t

(* A prefix, and what comes after it.                                      *)
LEMMA PrefixFacts ==
  ASSUME NEW S, NEW p \in Seq(S), NEW q \in Seq(S), IsPrefix(p, q)
  PROVE  /\ Len(p) \in Nat /\ Len(q) \in Nat /\ Len(p) <= Len(q) /\ \A i \in 1 .. Len(p) : p[i] = q[i]
         /\ SubSeq(q, Len(p) + 1, Len(q)) \in Seq(S)
         /\ q = p \o SubSeq(q, Len(p) + 1, Len(q))
         /\ SubSeq(q, 1, Len(p)) = p
<1>1. Len(p) \in Nat /\ Len(q) \in Nat /\ Len(p) <= Len(q)
  BY LenProperties DEF IsPrefix
<1>2. SubSeq(q, 1, Len(p)) = p
  BY SubSeqFull DEF IsPrefix
<1>3. \A i \in 1 .. Len(p) : p[i] = q[i]
  BY <1>1, <1>2, SubSeqFacts
<1> DEFINE t == SubSeq(q, Len(p) + 1, Len(q))
<1>4. t \in Seq(S) /\ Len(t) = Len(q) - Len(p) /\ \A i \in 1 .. Len(q) - Len(p) : t[i] = q[Len(p) + i]
  BY <1>1, SubSeqFacts
<1> HIDE DEF t
<1>5. q = p \o t
  <2>1. p \o t \in Seq(S) /\ Len(p \o t) = Len(q)
    BY <1>1, <1>4, ConcatProperties
  <2>2. ASSUME NEW i \in 1 .. Len(q) PROVE q[i] = (p \o t)[i]
    <3>1. (p \o t)[i] = IF i <= Len(p) THEN p[i] ELSE t[i - Len(p)]
      BY <1>1, <1>4, ConcatProperties
    <3> QED BY <1>1, <1>3, <1>4, <3>1
  <2> QED BY <2>1, <2>2, SeqEqual
<1> QED BY <1>1, <1>2, <1>3, <1>4, <1>5 DEF t

(* A sequence is a prefix of another one if it is the same up to its end.  *)
LEMMA PrefixIs ==
  ASSUME NEW S, NEW p \in Seq(S), NEW q \in Seq(S), Len(p) <= Len(q), \A i \in 1 .. Len(p) : p[i] = q[i]
  PROVE  IsPrefix(p, q)
<1>1. Len(p) \in Nat /\ Len(q) \in Nat
  BY LenProperties
<1>2. /\ SubSeq(p, 1, Len(p)) \in Seq(S) /\ Len(SubSeq(p, 1, Len(p))) = Len(p)
      /\ SubSeq(q, 1, Len(p)) \in Seq(S) /\ Len(SubSeq(q, 1, Len(p))) = Len(p)
      /\ \A i \in 1 .. Len(p) : SubSeq(p, 1, Len(p))[i] = p[i] /\ SubSeq(q, 1, Len(p))[i] = q[i]
  BY <1>1, SubSeqFacts
<1> QED BY <1>2, SeqEqual DEF IsPrefix

(* The start of a concatenation is a prefix of it, and what comes after it *)
(* is the end.                                                             *)
LEMMA ConcatPrefix ==
  ASSUME NEW S, NEW p \in Seq(S), NEW q \in Seq(S)
  PROVE  /\ IsPrefix(p, p \o q)
         /\ SubSeq(p \o q, Len(p) + 1, Len(p \o q)) = q
<1>1. Len(p) \in Nat /\ Len(q) \in Nat
  BY LenProperties
<1>2. /\ p \o q \in Seq(S) /\ Len(p \o q) = Len(p) + Len(q)
      /\ \A i \in 1 .. Len(p) + Len(q) : (p \o q)[i] = IF i <= Len(p) THEN p[i] ELSE q[i - Len(p)]
  BY ConcatProperties
<1>3. IsPrefix(p, p \o q)
  <2> DEFINE c == p \o q
  <2>1. c \in Seq(S) /\ Len(p) <= Len(c) /\ \A i \in 1 .. Len(p) : p[i] = c[i]
    BY <1>1, <1>2
  <2> HIDE DEF c
  <2>2. IsPrefix(p, c)
    BY <2>1, PrefixIs
  <2> QED BY <2>2 DEF c
<1>4. p \o q = p \o SubSeq(p \o q, Len(p) + 1, Len(p \o q)) /\ SubSeq(p \o q, Len(p) + 1, Len(p \o q)) \in Seq(S)
  BY <1>2, <1>3, PrefixFacts
<1> QED BY <1>3, <1>4, ConcatSimplifications

(* Behind the same start, a prefix is one.                                 *)
LEMMA PrefixBehind ==
  ASSUME NEW S, NEW r \in Seq(S), NEW p \in Seq(S), NEW q \in Seq(S), IsPrefix(r \o p, r \o q)
  PROVE  IsPrefix(p, q)
<1> DEFINE a == r \o p
           b == r \o q
           c == SubSeq(b, Len(a) + 1, Len(b))
<1>1. a \in Seq(S) /\ b \in Seq(S) /\ IsPrefix(a, b)
  BY ConcatProperties
<1> HIDE DEF a, b
<1>2. c \in Seq(S) /\ b = a \o c
  BY <1>1, PrefixFacts
<1> HIDE DEF c
<1>3. p \o c \in Seq(S) /\ r \o q = r \o (p \o c)
  <2>1. p \o c \in Seq(S)
    BY <1>2, ConcatProperties
  <2>2. c \in Seq(S)
    BY <1>2
  <2>3. (r \o p) \o c = r \o (p \o c)
    BY <2>2, ConcatAssociative, SMTT(30)
  <2> QED BY <1>2, <2>1, <2>3 DEF a, b
<1>4. q = p \o c
  BY <1>3, ConcatSimplifications
<1> QED BY <1>2, <1>4, ConcatPrefix

(* Prefixes are what is cut off at some length; two of one sequence are    *)
(* prefixes of one another.                                                *)
LEMMA PrefixesFacts ==
  ASSUME NEW S, NEW s \in Seq(S)
  PROVE  /\ \A p \in Seq(S) : p \in Prefixes(s) <=> IsPrefix(p, s)
         /\ Prefixes(s) \subseteq Seq(S) /\ s \in Prefixes(s) /\ <<>> \in Prefixes(s)
<1>1. Len(s) \in Nat
  BY LenProperties
<1>2. ASSUME NEW l \in 0 .. Len(s)
      PROVE  SubSeq(s, 1, l) \in Seq(S) /\ IsPrefix(SubSeq(s, 1, l), s)
  <2>1. /\ SubSeq(s, 1, l) \in Seq(S) /\ Len(SubSeq(s, 1, l)) = l
        /\ \A i \in 1 .. l : SubSeq(s, 1, l)[i] = s[i]
    BY <1>1, SubSeqFacts
  <2> DEFINE t == SubSeq(s, 1, l)
  <2>2. t \in Seq(S) /\ Len(t) <= Len(s) /\ \A i \in 1 .. Len(t) : t[i] = s[i]
    BY <1>1, <2>1
  <2> HIDE DEF t
  <2>3. IsPrefix(t, s)
    BY <2>2, PrefixIs
  <2> QED BY <2>1, <2>3 DEF t
<1>3. ASSUME NEW p \in Seq(S), IsPrefix(p, s) PROVE p \in Prefixes(s)
  <2>1. Len(p) \in 0 .. Len(s) /\ p = SubSeq(s, 1, Len(p))
    BY <1>3, PrefixFacts
  <2> QED BY <2>1 DEF Prefixes
<1>4. SubSeq(s, 1, Len(s)) = s /\ SubSeq(s, 1, 0) = <<>>
  BY <1>1, SubSeqFull, SubSeqEmpty
<1>5. s \in Prefixes(s) /\ <<>> \in Prefixes(s)
  <2>1. Len(s) \in 0 .. Len(s) /\ 0 \in 0 .. Len(s)
    BY <1>1
  <2> QED BY <1>4, <2>1 DEF Prefixes
<1> QED BY <1>2, <1>3, <1>5 DEF Prefixes

(* The prefixes of a sequence form a chain, ordered by length.             *)
LEMMA PrefixChain ==
  ASSUME NEW S, NEW s \in Seq(S), NEW p \in Seq(S), NEW q \in Seq(S), IsPrefix(p, s), IsPrefix(q, s)
  PROVE  /\ Len(p) <= Len(q) => IsPrefix(p, q)
         /\ Len(p) = Len(q) => p = q
         /\ Below(p, q) <=> Len(q) < Len(p)
<1>1. /\ Len(p) \in Nat /\ Len(q) \in Nat /\ Len(p) <= Len(s) /\ Len(q) <= Len(s)
      /\ (\A i \in 1 .. Len(p) : p[i] = s[i]) /\ \A i \in 1 .. Len(q) : q[i] = s[i]
  BY PrefixFacts
<1>2. Len(p) <= Len(q) => IsPrefix(p, q)
  BY <1>1, PrefixIs
<1>3. Len(q) <= Len(p) => IsPrefix(q, p)
  BY <1>1, PrefixIs
<1>4. Len(p) = Len(q) => p = q
  BY <1>1, SeqEqual
<1>5. IsPrefix(q, p) => Len(q) <= Len(p)
  BY DEF IsPrefix
<1> QED BY <1>1, <1>2, <1>3, <1>4, <1>5 DEF Below, IsStrictPrefix

(* "Prefix of" is a partial order.                                         *)
LEMMA PrefixOrder ==
  ASSUME NEW S, NEW p \in Seq(S), NEW q \in Seq(S), NEW s \in Seq(S)
  PROVE  /\ IsPrefix(p, p)
         /\ IsPrefix(p, q) /\ IsPrefix(q, s) => IsPrefix(p, s)
         /\ IsPrefix(p, q) /\ IsPrefix(q, p) => p = q
<1>1. IsPrefix(p, p)
  BY LenProperties, PrefixIs
<1>2. ASSUME IsPrefix(p, q), IsPrefix(q, s) PROVE IsPrefix(p, s)
  <2>1. /\ Len(p) \in Nat /\ Len(q) \in Nat /\ Len(s) \in Nat /\ Len(p) <= Len(q) /\ Len(q) <= Len(s)
        /\ (\A i \in 1 .. Len(p) : p[i] = q[i]) /\ \A i \in 1 .. Len(q) : q[i] = s[i]
    BY <1>2, PrefixFacts
  <2> QED BY <2>1, PrefixIs
<1>3. IsPrefix(p, q) /\ IsPrefix(q, p) => p = q
  <2> SUFFICES ASSUME IsPrefix(p, q), IsPrefix(q, p) PROVE p = q
    OBVIOUS
  <2>1. /\ Len(p) \in Nat /\ Len(q) \in Nat /\ Len(p) <= Len(q) /\ Len(q) <= Len(p)
        /\ \A i \in 1 .. Len(p) : p[i] = q[i]
    BY PrefixFacts
  <2> QED BY <2>1, SeqEqual
<1> QED BY <1>1, <1>2, <1>3

-----------------------------------------------------------------------------
(* Where a path leads.                                                     *)

\* One name of a path.
Stepped(s, x) == IF x # Up THEN Append(s, x) ELSE IF s = <<>> THEN <<>> ELSE Front(s)

\* f has the places a path leads through.
Walks(f, d, path) == f[0] = d /\ \A i \in 1 .. Len(path) : f[i] = Stepped(f[i - 1], path[i])

LEMMA SteppedType ==
  ASSUME NEW s \in Seq(Name), NEW x \in Nat
  PROVE  Stepped(s, x) \in Seq(Name)
<1>1. CASE x # Up
  BY <1>1, AppendProperties DEF Stepped, Name
<1>2. CASE x = Up /\ s # <<>>
  BY <1>2, FrontFacts DEF Stepped
<1>3. CASE x = Up /\ s = <<>>
  BY <1>3 DEF Stepped
<1> QED BY <1>1, <1>2, <1>3

(* Every path leads through some places.                                   *)
LEMMA Walking ==
  ASSUME NEW d \in Seq(Name), NEW path \in Seq(Nat)
  PROVE  \E f \in [0 .. Len(path) -> Seq(Name)] : Walks(f, d, path)
<1> DEFINE S == Seq(Name)
           IsWalk(f, m) == f[0] = d /\ \A i \in 1 .. m : f[i] = Stepped(f[i - 1], path[i])
           Upto(m) == \E f \in [0 .. m -> S] : IsWalk(f, m)
           T == {m \in 0 .. Len(path) : ~Upto(m)}
<1>1. Len(path) \in Nat /\ \A i \in 1 .. Len(path) : path[i] \in Nat
  BY LenProperties, ElementOfSeq
<1>2. Upto(Len(path)) => \E f \in [0 .. Len(path) -> S] : Walks(f, d, path)
  BY DEF Walks
<1> SUFFICES ASSUME T # {} PROVE FALSE
  <2>1. Upto(Len(path))
    <3> HIDE DEF Upto
    <3> QED BY <1>1
  <2> QED BY <1>2, <2>1
<1>3. PICK m \in T : \A e \in T : m <= e
  <2>1. T \in SUBSET Nat
    BY <1>1
  <2> HIDE DEF T
  <2> QED BY <2>1, Least
<1>4. m \in 0 .. Len(path) /\ ~Upto(m)
  OBVIOUS
<1>5. CASE m = 0
  <2> DEFINE f == [i \in 0 .. 0 |-> d]
  <2>1. f \in [0 .. 0 -> S] /\ f[0] = d /\ 1 .. 0 = {}
    OBVIOUS
  <2> QED BY <1>4, <1>5, <2>1
<1>6. CASE m # 0
  <2>1. Upto(m - 1)
    <3>1. m - 1 \in 0 .. Len(path) /\ ~(m <= m - 1)
      BY <1>1, <1>4, <1>6
    <3> HIDE DEF Upto
    <3> QED BY <1>3, <3>1
  <2>2. PICK f \in [0 .. m - 1 -> S] : IsWalk(f, m - 1)
    BY <2>1
  <2> DEFINE g == [i \in 0 .. m |-> IF i = m THEN Stepped(f[m - 1], path[m]) ELSE f[i]]
  <2>3. m \in 1 .. Len(path) /\ m \in Nat /\ m - 1 \in 0 .. m - 1 /\ f[m - 1] \in S
    BY <1>1, <1>4, <1>6
  <2>4. g \in [0 .. m -> S]
    <3>1. Stepped(f[m - 1], path[m]) \in S
      BY <1>1, <2>3, SteppedType
    <3>2. \A i \in 0 .. m : i # m => f[i] \in S
      BY <2>3
    <3> HIDE DEF S
    <3> QED BY <3>1, <3>2
  <2>5. g[0] = d
    BY <2>2, <2>3
  <2>6. ASSUME NEW i \in 1 .. m PROVE g[i] = Stepped(g[i - 1], path[i])
    <3>1. g[i - 1] = f[i - 1]
      BY <2>3
    <3>2. CASE i = m
      BY <3>1, <3>2
    <3>3. CASE i # m
      BY <2>2, <2>3, <3>1, <3>3
    <3> QED BY <3>2, <3>3
  <2> QED BY <1>4, <2>4, <2>5, <2>6
<1> QED BY <1>5, <1>6

(* It leads to the last of them.                                           *)
LEMMA WalkIsResolve ==
  ASSUME NEW d, NEW path \in Seq(Nat), NEW S, NEW f \in [0 .. Len(path) -> S], Walks(f, d, path)
  PROVE  Resolve(d, path) = f[Len(path)]
<1> DEFINE Def(g) == g = [i \in 0 .. Len(path) |->
                            IF i = 0 THEN d
                            ELSE IF path[i] # Up THEN Append(g[i - 1], path[i])
                            ELSE IF g[i - 1] = <<>> THEN <<>> ELSE Front(g[i - 1])]
           at == CHOOSE g : Def(g)
<1>1. Len(path) \in Nat
  BY LenProperties
<1>2. Def(f)
  <2>1. \A i \in 0 .. Len(path) : f[i] = IF i = 0 THEN d ELSE Stepped(f[i - 1], path[i])
    BY <1>1 DEF Walks
  <2> QED BY <2>1 DEF Stepped
<1>3. Def(at)
  <2> HIDE DEF Def
  <2> QED BY <1>2
<1>4. at[0] = d /\ \A i \in 1 .. Len(path) : at[i] = Stepped(at[i - 1], path[i])
  <2> HIDE DEF at
  <2>1. at[0] = d
    BY <1>1, <1>3
  <2>2. ASSUME NEW i \in 1 .. Len(path) PROVE at[i] = Stepped(at[i - 1], path[i])
    <3>1. i \in 0 .. Len(path) /\ i # 0
      BY <1>1
    <3>2. at[i] = IF path[i] # Up THEN Append(at[i - 1], path[i])
                  ELSE IF at[i - 1] = <<>> THEN <<>> ELSE Front(at[i - 1])
      BY <1>3, <3>1
    <3> QED BY <3>2 DEF Stepped
  <2> QED BY <2>1, <2>2
<1>5. Resolve(d, path) = at[Len(path)]
  BY DEF Resolve
<1>6. \A i \in 0 .. Len(path) : at[i] = f[i]
  <2> HIDE DEF at
  <2>1. StayEqual(at, f, Len(path))
    BY <1>4 DEF Walks, StayEqual
  <2> QED BY <1>1, <2>1, Agree
<1>7. Len(path) \in 0 .. Len(path)
  BY <1>1
<1> HIDE DEF at
<1> QED BY <1>5, <1>6, <1>7

(* From a directory, a path leads to a directory.                          *)
LEMMA ResolveType ==
  ASSUME NEW d \in Seq(Name), NEW path \in Seq(Nat)
  PROVE  Resolve(d, path) \in Seq(Name)
<1>1. PICK f \in [0 .. Len(path) -> Seq(Name)] : Walks(f, d, path)
  BY Walking
<1>2. Len(path) \in 0 .. Len(path)
  BY LenProperties
<1> QED BY <1>1, <1>2, WalkIsResolve

(* One path after the other.                                               *)
LEMMA ResolveConcat ==
  ASSUME NEW d \in Seq(Name), NEW p \in Seq(Nat), NEW q \in Seq(Nat)
  PROVE  Resolve(d, p \o q) = Resolve(Resolve(d, p), q)
<1> DEFINE S == Seq(Name)
<1>1. Len(p) \in Nat /\ Len(q) \in Nat
  BY LenProperties
<1>2. /\ p \o q \in Seq(Nat) /\ Len(p \o q) = Len(p) + Len(q)
      /\ \A i \in 1 .. Len(p) + Len(q) : (p \o q)[i] = IF i <= Len(p) THEN p[i] ELSE q[i - Len(p)]
  BY ConcatProperties
<1>3. PICK g \in [0 .. Len(p) -> S] : Walks(g, d, p)
  BY Walking
<1>4. Resolve(d, p) = g[Len(p)] /\ Resolve(d, p) \in S
  BY <1>3, WalkIsResolve, ResolveType
<1>5. PICK h \in [0 .. Len(q) -> S] : Walks(h, Resolve(d, p), q)
  BY <1>4, Walking
<1> DEFINE c == p \o q
           f == [i \in 0 .. Len(c) |-> IF i <= Len(p) THEN g[i] ELSE h[i - Len(p)]]
<1>6. c \in Seq(Nat) /\ Len(c) = Len(p) + Len(q) /\ \A i \in 1 .. Len(c) : c[i] = IF i <= Len(p) THEN p[i] ELSE q[i - Len(p)]
  BY <1>2
<1> HIDE DEF S, c
<1>7. f \in [0 .. Len(c) -> S] /\ f[Len(p) + Len(q)] = h[Len(q)]
  <2>1. \A i \in 0 .. Len(c) : i > Len(p) => i - Len(p) \in 0 .. Len(q)
    BY <1>1, <1>6
  <2>2. Len(q) = 0 => g[Len(p)] = h[Len(q)]
    BY <1>4, <1>5 DEF Walks
  <2> QED BY <1>1, <1>6, <2>1, <2>2
<1>8. ASSUME NEW i \in 1 .. Len(c) PROVE f[i] = Stepped(f[i - 1], c[i])
  <2>1. CASE i <= Len(p)
    <3>1. i \in 1 .. Len(p) /\ f[i] = g[i] /\ f[i - 1] = g[i - 1] /\ c[i] = p[i]
      BY <1>1, <1>6, <2>1
    <3> QED BY <1>3, <3>1 DEF Walks
  <2>2. CASE i > Len(p)
    <3>1. /\ i - Len(p) \in 1 .. Len(q) /\ f[i] = h[i - Len(p)] /\ c[i] = q[i - Len(p)]
          /\ (i - Len(p)) - 1 = (i - 1) - Len(p)
      BY <1>1, <1>6, <2>2
    <3>2. f[i - 1] = h[(i - Len(p)) - 1]
      <4>1. CASE i - 1 > Len(p)
        BY <1>1, <1>6, <3>1, <4>1
      <4>2. CASE i - 1 = Len(p)
        <5>1. (i - Len(p)) - 1 = 0 /\ f[i - 1] = g[Len(p)]
          BY <1>1, <1>6, <4>2
        <5> QED BY <1>4, <1>5, <5>1 DEF Walks
      <4>3. i - 1 > Len(p) \/ i - 1 = Len(p)
        <5>1. i \in Nat /\ Len(p) \in Nat
          BY <1>1, <1>6
        <5> QED BY <2>2, <5>1
      <4> QED BY <4>1, <4>2, <4>3
    <3> HIDE DEF f
    <3> QED BY <1>5, <3>1, <3>2 DEF Walks
  <2> QED BY <1>1, <2>1, <2>2
<1>9. Walks(f, d, c)
  <2>1. f[0] = d
    BY <1>1, <1>3, <1>6 DEF Walks
  <2> HIDE DEF f
  <2> QED BY <1>8, <2>1 DEF Walks
<1>10. Resolve(d, c) = f[Len(c)]
  <2> HIDE DEF f
  <2> QED BY <1>6, <1>7, <1>9, WalkIsResolve
<1>11. Resolve(Resolve(d, p), q) = h[Len(q)]
  BY <1>5, WalkIsResolve
<1> QED BY <1>6, <1>7, <1>10, <1>11 DEF c

(* Names lead into the directories they name.                              *)
LEMMA ResolveNames ==
  ASSUME NEW d \in Seq(Name), NEW q \in Seq(Name)
  PROVE  Resolve(d, q) = d \o q
<1>1. Len(d) \in Nat /\ Len(q) \in Nat /\ q \in Seq(Nat) /\ \A i \in 1 .. Len(q) : q[i] \in Name
  BY LenProperties, ElementOfSeq, SeqMonotonic DEF Name
<1> DEFINE S == Seq(Name)
           f == [i \in 0 .. Len(q) |-> d \o SubSeq(q, 1, i)]
<1>2. ASSUME NEW i \in 0 .. Len(q)
      PROVE  /\ SubSeq(q, 1, i) \in Seq(Name) /\ d \o SubSeq(q, 1, i) \in S
             /\ i # 0 => d \o SubSeq(q, 1, i) = Append(d \o SubSeq(q, 1, i - 1), q[i])
  <2>1. SubSeq(q, 1, i) \in Seq(Name)
    BY <1>1, SubSeqFacts
  <2>2. i # 0 => i \in 1 .. Len(q)
    BY <1>1
  <2>3. d \o SubSeq(q, 1, i) \in S
    BY <2>1, ConcatProperties
  <2>4. ASSUME i # 0 PROVE d \o SubSeq(q, 1, i) = Append(d \o SubSeq(q, 1, i - 1), q[i])
    BY <2>2, <2>4, PartNext
  <2> QED BY <2>1, <2>3, <2>4
<1>3. SubSeq(q, 1, 0) = <<>> /\ SubSeq(q, 1, Len(q)) = q /\ d \o <<>> = d
  BY <1>1, SubSeqEmpty, SubSeqFull, ConcatEmptySeq
<1>4. f \in [0 .. Len(q) -> S]
  <2> HIDE DEF S
  <2> QED BY <1>2
<1>5. Walks(f, d, q)
  <2>1. f[0] = d
    BY <1>1, <1>3
  <2>2. ASSUME NEW i \in 1 .. Len(q) PROVE f[i] = Stepped(f[i - 1], q[i])
    <3>1. i \in 0 .. Len(q) /\ i - 1 \in 0 .. Len(q) /\ i # 0 /\ q[i] # Up
      BY <1>1 DEF Name
    <3>2. f[i] = Append(f[i - 1], q[i])
      BY <1>2, <3>1
    <3> HIDE DEF f
    <3> QED BY <3>1, <3>2 DEF Stepped
  <2> HIDE DEF f
  <2> QED BY <2>1, <2>2 DEF Walks
<1>6. Resolve(d, q) = f[Len(q)]
  <2> HIDE DEF f, S
  <2> QED BY <1>1, <1>4, <1>5, WalkIsResolve
<1> QED BY <1>1, <1>3, <1>6

(* Each ".." takes one name off.                                           *)
LEMMA ResolveUps ==
  ASSUME NEW d \in Seq(Name), NEW k \in 0 .. Len(d)
  PROVE  Ups(k) \in Seq(Nat) /\ Resolve(d, Ups(k)) = SubSeq(d, 1, Len(d) - k)
<1>1. Len(d) \in Nat /\ k \in Nat
  BY LenProperties
<1> DEFINE u == Ups(k)
<1>2. u \in Seq(Nat) /\ Len(u) = k /\ \A i \in 1 .. k : u[i] = Up
  BY <1>1, IsASeq, LenProperties DEF Ups, Up
<1> HIDE DEF u
<1> DEFINE S == Seq(Name)
           f == [i \in 0 .. Len(u) |-> SubSeq(d, 1, Len(d) - i)]
<1>3. ASSUME NEW i \in 0 .. k
      PROVE  /\ SubSeq(d, 1, Len(d) - i) \in S /\ Len(SubSeq(d, 1, Len(d) - i)) = Len(d) - i
             /\ \A j \in 1 .. Len(d) - i : SubSeq(d, 1, Len(d) - i)[j] = d[j]
  <2>1. 1 \in 1 .. Len(d) + 1 /\ Len(d) - i \in 0 .. Len(d) /\ 1 <= (Len(d) - i) + 1
    BY <1>1
  <2> QED BY <2>1, SubSeqFacts
<1>4. f \in [0 .. Len(u) -> S]
  BY <1>2, <1>3
<1>5. ASSUME NEW i \in 1 .. k PROVE f[i] = Stepped(f[i - 1], u[i])
  <2> DEFINE l == Len(d) - (i - 1)
  <2>1. l \in 1 .. Len(d) /\ l - 1 = Len(d) - i
    BY <1>1
  <2>2. f[i] = SubSeq(d, 1, l - 1) /\ f[i - 1] = SubSeq(d, 1, l)
    BY <1>1, <1>2, <2>1
  <2>3. u[i] = Up
    BY <1>2
  <2> HIDE DEF f, l
  <2> QED BY <2>1, <2>2, <2>3, PartFacts DEF Stepped
<1>6. f[0] = d
  <2>1. Len(d) - 0 = Len(d) /\ 0 \in 0 .. Len(u)
    BY <1>1, <1>2
  <2> QED BY <2>1, SubSeqFull
<1>7. Resolve(d, u) = f[Len(u)]
  <2> HIDE DEF f, S
  <2>1. Walks(f, d, u)
    BY <1>2, <1>5, <1>6 DEF Walks
  <2> QED BY <1>2, <1>4, <2>1, WalkIsResolve
<1> QED BY <1>1, <1>2, <1>7 DEF u

-----------------------------------------------------------------------------
(* Relative paths.                                                         *)

(* Common is the length of the longest common prefix.                      *)
LEMMA CommonFacts ==
  ASSUME NEW p \in Seq(Nat), NEW q \in Seq(Nat)
  PROVE  LET n == Common(p, q)
         IN /\ n \in 0 .. Len(p) /\ n <= Len(q) /\ \A i \in 1 .. n : p[i] = q[i]
            /\ n < Len(p) /\ n < Len(q) => p[n + 1] # q[n + 1]
            /\ \A l \in 0 .. Len(p) : l <= Len(q) /\ (\A i \in 1 .. l : p[i] = q[i]) => l <= n
<1>1. Len(p) \in Nat /\ Len(q) \in Nat
  BY LenProperties
<1> DEFINE T == {l \in 0 .. Len(p) : l <= Len(q) /\ \A i \in 1 .. l : p[i] = q[i]}
           Is(n) == /\ n <= Len(q) /\ \A i \in 1 .. n : p[i] = q[i]
                    /\ n < Len(p) /\ n < Len(q) => p[n + 1] # q[n + 1]
<1>2. PICK m \in T : \A e \in T : e <= m
  <2>1. T \in SUBSET Nat /\ 0 \in T /\ \A x \in T : x <= Len(p)
    BY <1>1
  <2> HIDE DEF T
  <2> QED BY <1>1, <2>1, Greatest
<1>3. m \in 0 .. Len(p) /\ Is(m)
  <2>1. ASSUME m < Len(p), m < Len(q), p[m + 1] = q[m + 1] PROVE FALSE
    <3>1. m + 1 \in T
      <4>1. m \in 0 .. Len(p) /\ m <= Len(q) /\ \A i \in 1 .. m : p[i] = q[i]
        BY <1>2
      <4>2. m + 1 \in 0 .. Len(p) /\ m + 1 <= Len(q)
        BY <1>1, <2>1, <4>1
      <4>3. ASSUME NEW i \in 1 .. m + 1 PROVE p[i] = q[i]
        <5>1. i \in 1 .. m \/ i = m + 1
          BY <4>1
        <5> QED BY <2>1, <4>1, <5>1
      <4> QED BY <4>2, <4>3
    <3>2. ~(m + 1 <= m)
      BY <1>1
    <3> HIDE DEF T
    <3> QED BY <1>2, <3>1, <3>2
  <2> QED BY <2>1
<1> DEFINE n == CHOOSE n \in 0 .. Len(p) : Is(n)
<1>4. n \in 0 .. Len(p) /\ Is(n)
  <2> HIDE DEF Is
  <2> QED BY <1>3
<1>5. Common(p, q) = n
  BY DEF Common
<1> HIDE DEF n
<1>6. ASSUME NEW l \in 0 .. Len(p), l <= Len(q), \A i \in 1 .. l : p[i] = q[i] PROVE l <= n
  <2> SUFFICES ASSUME n < l PROVE FALSE
    BY <1>1, <1>4
  <2>1. n + 1 \in 1 .. l /\ n < Len(p) /\ n < Len(q)
    BY <1>1, <1>4, <1>6
  <2> QED BY <1>4, <1>6, <2>1
<1> QED BY <1>4, <1>5, <1>6

(* A relative path goes up from start to the common directory, and from    *)
(* there down.  It leads from start to where it was made for.              *)
LEMMA RelFacts ==
  ASSUME NEW to \in Seq(Name), NEW start \in Seq(Name)
  PROVE  LET n == Common(to, start)
         IN /\ n \in 0 .. Len(to) /\ n \in 0 .. Len(start) /\ SubSeq(to, n + 1, Len(to)) \in Seq(Name)
            /\ Rel(to, start) = Ups(Len(start) - n) \o SubSeq(to, n + 1, Len(to))
            /\ Rel(to, start) \in Seq(Nat) /\ Resolve(start, Rel(to, start)) = to
<1> DEFINE n == Common(to, start)
           k == Len(start) - n
           u == SubSeq(to, n + 1, Len(to))
<1>1. Len(to) \in Nat /\ Len(start) \in Nat /\ to \in Seq(Nat) /\ start \in Seq(Nat)
  BY LenProperties, SeqMonotonic DEF Name
<1>2. n \in 0 .. Len(to) /\ n <= Len(start) /\ \A i \in 1 .. n : to[i] = start[i]
  BY <1>1, CommonFacts
<1>3. Rel(to, start) = Ups(k) \o u
  BY DEF Rel, Ups
<1> HIDE DEF n
<1>4. k \in 0 .. Len(start) /\ n \in 0 .. Len(start) /\ Len(start) - k = n
  BY <1>1, <1>2
<1>5. SubSeq(start, 1, n) = SubSeq(to, 1, n) /\ SubSeq(to, 1, n) \in Seq(Name)
  <2>1. /\ SubSeq(start, 1, n) \in Seq(Name) /\ Len(SubSeq(start, 1, n)) = n
        /\ SubSeq(to, 1, n) \in Seq(Name) /\ Len(SubSeq(to, 1, n)) = n
        /\ \A i \in 1 .. n : SubSeq(start, 1, n)[i] = start[i] /\ SubSeq(to, 1, n)[i] = to[i]
    <3>1. n \in 0 .. Len(to)
      BY <1>2
    <3> QED BY <1>4, <3>1, FirstFacts
  <2> QED BY <1>2, <2>1, SeqEqual
<1>6. u \in Seq(Name) /\ to = SubSeq(to, 1, n) \o u
  <2>1. IsPrefix(SubSeq(to, 1, n), to) /\ Len(SubSeq(to, 1, n)) = n
    <3> DEFINE t == SubSeq(to, 1, n)
    <3>1. t \in Seq(Name) /\ Len(t) = n /\ \A i \in 1 .. n : t[i] = to[i]
      BY <1>1, <1>2, SubSeqFacts
    <3> HIDE DEF t
    <3>2. IsPrefix(t, to)
      BY <1>2, <3>1, PrefixIs
    <3> QED BY <3>1, <3>2 DEF t
  <2> QED BY <1>5, <2>1, PrefixFacts
<1> HIDE DEF u
<1>7. u \in Seq(Nat) /\ Ups(k) \in Seq(Nat) /\ Resolve(start, Ups(k)) = SubSeq(start, 1, n)
  BY <1>4, <1>6, ResolveUps, SeqMonotonic DEF Name
<1> HIDE DEF k
<1>8. Ups(k) \o u \in Seq(Nat) /\ Resolve(start, Ups(k) \o u) = Resolve(SubSeq(start, 1, n), u)
  <2>1. Ups(k) \o u \in Seq(Nat)
    BY <1>7, ConcatProperties
  <2>2. Resolve(start, Ups(k) \o u) = Resolve(Resolve(start, Ups(k)), u)
    BY <1>7, ResolveConcat
  <2> QED BY <1>7, <2>1, <2>2
<1>9. Resolve(SubSeq(start, 1, n), u) = to
  BY <1>5, <1>6, ResolveNames
<1> QED BY <1>2, <1>3, <1>4, <1>6, <1>8, <1>9 DEF n, k, u

(* Into a directory below, it is the names that are missing.               *)
LEMMA RelBelow ==
  ASSUME NEW to \in Seq(Name), NEW start \in Seq(Name), IsPrefix(start, to)
  PROVE  /\ Rel(to, start) = SubSeq(to, Len(start) + 1, Len(to))
         /\ Rel(to, start) \in Seq(Name) /\ to = start \o Rel(to, start)
         /\ Len(Rel(to, start)) = Len(to) - Len(start)
<1> DEFINE n == Common(to, start)
<1>1. /\ Len(to) \in Nat /\ Len(start) \in Nat /\ Len(start) <= Len(to) /\ (\A i \in 1 .. Len(start) : start[i] = to[i])
      /\ SubSeq(to, Len(start) + 1, Len(to)) \in Seq(Name)
      /\ to = start \o SubSeq(to, Len(start) + 1, Len(to))
  BY PrefixFacts
<1>2. to \in Seq(Nat) /\ start \in Seq(Nat)
  BY SeqMonotonic DEF Name
<1>3. n \in 0 .. Len(to) /\ n <= Len(start) /\ Len(start) <= n
  <2>1. Len(start) \in 0 .. Len(to) /\ \A i \in 1 .. Len(start) : to[i] = start[i]
    BY <1>1
  <2>2. /\ n \in 0 .. Len(to) /\ n <= Len(start)
        /\ \A l \in 0 .. Len(to) : l <= Len(start) /\ (\A i \in 1 .. l : to[i] = start[i]) => l <= n
    BY <1>2, CommonFacts
  <2> HIDE DEF n
  <2> QED BY <1>1, <2>1, <2>2
<1> HIDE DEF n
<1>4. n = Len(start) /\ Len(start) - n = 0
  BY <1>1, <1>3
<1>5. Ups(0) = <<>>
  BY DEF Ups
<1>6. Rel(to, start) = Ups(Len(start) - n) \o SubSeq(to, n + 1, Len(to))
  BY RelFacts DEF n
<1>7. Rel(to, start) = SubSeq(to, Len(start) + 1, Len(to))
  BY <1>1, <1>4, <1>5, <1>6, ConcatEmptySeq
<1>8. Len(SubSeq(to, Len(start) + 1, Len(to))) = Len(to) - Len(start)
  <2>1. Len(start) + 1 \in 1 .. Len(to) + 1 /\ Len(to) \in 0 .. Len(to)
    BY <1>1
  <2>2. Len(SubSeq(to, Len(start) + 1, Len(to))) = Len(to) - (Len(start) + 1) + 1
    BY <1>1, <2>1, SubSeqFacts
  <2> QED BY <1>1, <2>2
<1> QED BY <1>1, <1>7, <1>8

-----------------------------------------------------------------------------
(* The path from the toplevel directory.                                   *)

\* One name, in normal form.
Normalised(s, x) == IF x = Up /\ s # <<>> /\ Last(s) # Up THEN Front(s) ELSE Append(s, x)

(* The normal form is the last of the values on the way to it.             *)
LEMMA NormalIsLast ==
  ASSUME NEW path \in Seq(Nat), NEW S, NEW f \in [0 .. Len(path) -> S],
         f[0] = <<>>, \A i \in 1 .. Len(path) : f[i] = Normalised(f[i - 1], path[i])
  PROVE  Normal(path) = f[Len(path)]
<1> DEFINE Def(g) == g = [i \in 0 .. Len(path) |->
                            IF i = 0 THEN <<>>
                            ELSE IF path[i] = Up /\ g[i - 1] # <<>> /\ Last(g[i - 1]) # Up THEN Front(g[i - 1])
                            ELSE Append(g[i - 1], path[i])]
           to == CHOOSE g : Def(g)
<1>1. Len(path) \in Nat /\ Len(path) \in 0 .. Len(path)
  BY LenProperties
<1>2. Def(f)
  <2>1. \A i \in 0 .. Len(path) : f[i] = IF i = 0 THEN <<>> ELSE Normalised(f[i - 1], path[i])
    BY <1>1
  <2> QED BY <2>1 DEF Normalised
<1>3. Def(to)
  <2> HIDE DEF Def
  <2> QED BY <1>2
<1>4. to[0] = <<>> /\ \A i \in 1 .. Len(path) : to[i] = Normalised(to[i - 1], path[i])
  <2> HIDE DEF to
  <2>1. to[0] = <<>>
    BY <1>1, <1>3
  <2>2. ASSUME NEW i \in 1 .. Len(path) PROVE to[i] = Normalised(to[i - 1], path[i])
    <3>1. i \in 0 .. Len(path) /\ i # 0
      BY <1>1
    <3>2. to[i] = IF path[i] = Up /\ to[i - 1] # <<>> /\ Last(to[i - 1]) # Up THEN Front(to[i - 1])
                  ELSE Append(to[i - 1], path[i])
      BY <1>3, <3>1
    <3> QED BY <3>2 DEF Normalised
  <2> QED BY <2>1, <2>2
<1>5. Normal(path) = to[Len(path)]
  BY DEF Normal
<1>6. \A i \in 0 .. Len(path) : to[i] = f[i]
  <2> HIDE DEF to
  <2>1. StayEqual(to, f, Len(path))
    BY <1>4 DEF StayEqual
  <2> QED BY <1>1, <2>1, Agree
<1> HIDE DEF to
<1> QED BY <1>1, <1>5, <1>6

(* ".." behind names takes names off.                                      *)
LEMMA NormalUps ==
  ASSUME NEW s \in Seq(Name), NEW k \in 0 .. Len(s), NEW u \in Seq(Name)
  PROVE  Normal(s \o (Ups(k) \o u)) = SubSeq(s, 1, Len(s) - k) \o u
<1> DEFINE m == Len(s)
           v == SubSeq(s, 1, m - k)
           path == s \o (Ups(k) \o u)
           f == [i \in 0 .. Len(path) |->
                   IF i <= m THEN SubSeq(s, 1, i)
                   ELSE IF i <= m + k THEN SubSeq(s, 1, 2 * m - i)
                   ELSE v \o SubSeq(u, 1, i - (m + k))]
           S == Seq(Name)
<1>1. /\ m = Len(s) /\ m \in Nat /\ k \in Nat /\ k <= m /\ Len(u) \in Nat
      /\ (\A i \in 1 .. m : s[i] # Up) /\ \A i \in 1 .. Len(u) : u[i] # Up
  BY LenProperties, ElementOfSeq DEF Name
<1>2. Ups(k) \in Seq(Nat) /\ Len(Ups(k)) = k /\ \A i \in 1 .. k : Ups(k)[i] = Up
  BY <1>1, IsASeq, LenProperties DEF Ups, Up
<1>3. u \in Seq(Nat) /\ s \in Seq(Nat)
  BY SeqMonotonic DEF Name
<1>4. /\ path \in Seq(Nat) /\ Len(path) = m + k + Len(u)
      /\ \A i \in 1 .. m : path[i] = s[i]
      /\ \A i \in m + 1 .. m + k : path[i] = Up
      /\ \A i \in m + k + 1 .. m + k + Len(u) : path[i] = u[i - (m + k)]
  <2> DEFINE c == Ups(k) \o u
  <2>1. c \in Seq(Nat) /\ Len(c) = k + Len(u) /\ \A i \in 1 .. k + Len(u) : c[i] = IF i <= k THEN Ups(k)[i] ELSE u[i - k]
    <3>1. /\ c \in Seq(Nat) /\ Len(c) = Len(Ups(k)) + Len(u)
          /\ \A i \in 1 .. Len(Ups(k)) + Len(u) : c[i] = IF i <= Len(Ups(k)) THEN Ups(k)[i] ELSE u[i - Len(Ups(k))]
      BY <1>2, <1>3, ConcatProperties
    <3> HIDE DEF c
    <3> QED BY <1>2, <3>1
  <2> HIDE DEF c
  <2>2. /\ s \o c \in Seq(Nat) /\ Len(s \o c) = m + Len(c)
        /\ \A i \in 1 .. m + Len(c) : (s \o c)[i] = IF i <= m THEN s[i] ELSE c[i - m]
    BY <1>3, <2>1, ConcatProperties
  <2> HIDE DEF m
  <2> DEFINE w == s \o c
  <2>3. \A i \in 1 .. m : w[i] = s[i]
    BY <1>1, <2>1, <2>2
  <2>4. \A i \in m + 1 .. m + Len(c) : w[i] = c[i - m]
    BY <1>1, <2>1, <2>2
  <2>5. Len(w) = m + k + Len(u) /\ w \in Seq(Nat)
    BY <1>1, <2>1, <2>2
  <2> HIDE DEF w
  <2>6. ASSUME NEW i \in m + 1 .. m + k PROVE w[i] = Up
    <3>1. i \in m + 1 .. m + Len(c) /\ i - m \in 1 .. k /\ i - m \in 1 .. k + Len(u) /\ i - m <= k
      BY <1>1, <2>1
    <3> QED BY <1>2, <2>1, <2>4, <3>1
  <2>7. ASSUME NEW i \in m + k + 1 .. m + k + Len(u) PROVE w[i] = u[i - (m + k)]
    <3>1. i \in m + 1 .. m + Len(c) /\ i - m \in 1 .. k + Len(u) /\ ~(i - m <= k) /\ (i - m) - k = i - (m + k)
      BY <1>1, <2>1
    <3> QED BY <2>1, <2>4, <3>1
  <2> QED BY <2>3, <2>5, <2>6, <2>7 DEF c, w
<1>5. v \in S
  <2>1. m - k \in 0 .. Len(s) /\ 1 \in 1 .. Len(s) + 1 /\ 1 <= (m - k) + 1
    BY <1>1
  <2> QED BY <2>1, SubSeqFacts
<1> HIDE DEF m, v, path
<1>6. f \in [0 .. Len(path) -> S]
  <2>1. ASSUME NEW i \in 0 .. Len(path), i <= m PROVE SubSeq(s, 1, i) \in S
    BY <1>1, <2>1, SubSeqFacts
  <2>2. ASSUME NEW i \in 0 .. Len(path), ~(i <= m), i <= m + k PROVE SubSeq(s, 1, 2 * m - i) \in S
    <3>1. 2 * m - i \in 0 .. Len(s) /\ 1 \in 1 .. Len(s) + 1 /\ 1 <= (2 * m - i) + 1
      BY <1>1, <1>4, <2>2
    <3> QED BY <3>1, SubSeqFacts
  <2>3. ASSUME NEW i \in 0 .. Len(path), ~(i <= m + k) PROVE v \o SubSeq(u, 1, i - (m + k)) \in S
    <3>1. i - (m + k) \in 0 .. Len(u) /\ 1 \in 1 .. Len(u) + 1 /\ 1 <= (i - (m + k)) + 1
      BY <1>1, <1>4, <2>3
    <3>2. SubSeq(u, 1, i - (m + k)) \in Seq(Name)
      BY <3>1, SubSeqFacts
    <3> QED BY <1>5, <3>2, ConcatProperties
  <2> HIDE DEF S
  <2> QED BY <2>1, <2>2, <2>3
<1>7. f[0] = <<>>
  BY <1>1, <1>4, SubSeqEmpty
<1>8. ASSUME NEW i \in 1 .. Len(path) PROVE f[i] = Normalised(f[i - 1], path[i])
  <2>1. CASE i <= m
    <3>1. i \in 1 .. m /\ i \in 0 .. Len(path) /\ i - 1 \in 0 .. Len(path) /\ i - 1 <= m
      BY <1>1, <1>4, <2>1
    <3>2. f[i] = SubSeq(s, 1, i) /\ f[i - 1] = SubSeq(s, 1, i - 1)
      BY <2>1, <3>1
    <3> HIDE DEF f
    <3>3. path[i] = s[i] /\ s[i] # Up
      BY <1>1, <1>4, <3>1
    <3> QED BY <1>1, <3>1, <3>2, <3>3, PartFacts DEF Normalised
  <2>2. CASE ~(i <= m) /\ i <= m + k
    <3> DEFINE l == 2 * m - i + 1
    <3>0. /\ i \in m + 1 .. m + k /\ i \in 0 .. Len(path) /\ i - 1 \in 0 .. Len(path) /\ i - 1 <= m + k
          /\ l \in 1 .. m /\ l - 1 = 2 * m - i /\ l = 2 * m - (i - 1)
      BY <1>1, <1>4, <2>2
    <3>1. l \in 1 .. Len(s) /\ path[i] = Up /\ s[l] # Up
      BY <1>1, <1>4, <3>0
    <3>2. f[i] = SubSeq(s, 1, l - 1)
      BY <2>2, <3>0
    <3>3. f[i - 1] = SubSeq(s, 1, l)
      <4>1. CASE i - 1 <= m
        <5>1. i - 1 = m /\ l = i - 1
          BY <1>1, <2>2, <4>1
        <5> QED BY <3>0, <4>1, <5>1
      <4>2. CASE ~(i - 1 <= m)
        BY <3>0, <4>2
      <4> QED BY <4>1, <4>2
    <3> HIDE DEF f, l
    <3> QED BY <3>1, <3>2, <3>3, PartFacts DEF Normalised
  <2>3. CASE ~(i <= m + k)
    <3> DEFINE j == i - (m + k)
    <3>0. /\ i \in m + k + 1 .. m + k + Len(u) /\ i \in 0 .. Len(path) /\ i - 1 \in 0 .. Len(path) /\ ~(i <= m)
          /\ j \in 1 .. Len(u) /\ j - 1 = (i - 1) - (m + k)
      BY <1>1, <1>4, <2>3
    <3>1. j \in 1 .. Len(u) /\ path[i] = u[j] /\ u[j] # Up
      BY <1>1, <1>4, <3>0
    <3>2. f[i] = v \o SubSeq(u, 1, j)
      BY <2>3, <3>0
    <3>3. f[i - 1] = v \o SubSeq(u, 1, j - 1)
      <4>1. CASE i - 1 <= m + k
        <5>1. i - 1 = m + k /\ j - 1 = 0 /\ i - 1 \in 0 .. Len(path)
          BY <1>1, <3>0, <4>1
        <5>2. SubSeq(u, 1, 0) = <<>> /\ v \o <<>> = v
          BY <1>5, SubSeqEmpty, ConcatEmptySeq
        <5>3. f[i - 1] = SubSeq(s, 1, m - k)
          <6>1. i - 1 <= m => i - 1 = m - k
            BY <1>1, <5>1
          <6>2. 2 * m - (i - 1) = m - k
            BY <1>1, <5>1
          <6> QED BY <4>1, <5>1, <6>1, <6>2
        <5> QED BY <5>1, <5>2, <5>3 DEF v
      <4>2. CASE ~(i - 1 <= m + k)
        <5>1. i - 1 \in 0 .. Len(path) /\ ~(i - 1 <= m)
          BY <1>1, <3>0, <4>2
        <5> QED BY <3>0, <4>2, <5>1
      <4> QED BY <4>1, <4>2
    <3>4. v \o SubSeq(u, 1, j) = Append(v \o SubSeq(u, 1, j - 1), u[j])
      BY <1>5, <3>1, PartNext
    <3> HIDE DEF f, j
    <3> QED BY <3>1, <3>2, <3>3, <3>4 DEF Normalised
  <2> QED BY <2>1, <2>2, <2>3
<1>9. Normal(path) = f[Len(path)]
  <2> HIDE DEF f, S
  <2> QED BY <1>4, <1>6, <1>7, <1>8, NormalIsLast
<1>10. f[Len(path)] = v \o u
  <2>1. CASE Len(u) = 0
    <3>1. u = <<>> /\ v \o <<>> = v /\ Len(path) = m + k
      BY <1>1, <1>4, <1>5, <2>1, EmptySeq, ConcatEmptySeq
    <3>2. f[Len(path)] = SubSeq(s, 1, m - k)
      <4>1. Len(path) \in 0 .. Len(path) /\ Len(path) <= m + k /\ 2 * m - Len(path) = m - k
        BY <1>1, <3>1
      <4>2. Len(path) <= m => Len(path) = m - k
        BY <1>1, <3>1
      <4> QED BY <4>1, <4>2
    <3> QED BY <3>1, <3>2 DEF v
  <2>2. CASE Len(u) # 0
    <3>1. Len(path) \in 0 .. Len(path) /\ ~(Len(path) <= m) /\ ~(Len(path) <= m + k) /\ Len(path) - (m + k) = Len(u)
      BY <1>1, <1>4, <2>2
    <3>2. SubSeq(u, 1, Len(u)) = u
      BY SubSeqFull
    <3> QED BY <3>1, <3>2
  <2> QED BY <2>1, <2>2
<1> HIDE DEF f
<1> QED BY <1>9, <1>10 DEF path, v, m

(* A path from d into what r is on top of: put behind the path from r to d *)
(* it leads, by relpath as by normpath, to the path from r.                *)
LEMMA PathFromTop ==
  ASSUME NEW r \in Seq(Name), NEW d \in Seq(Name), NEW t \in Seq(Name), IsPrefix(r, d), IsPrefix(r, t)
  PROVE  LET s == SubSeq(d, Len(r) + 1, Len(d))
         IN /\ s \in Seq(Nat) /\ Rel(t, d) \in Seq(Nat)
            /\ Rel(Resolve(d, s \o Rel(t, d)), d) = Rel(t, r)
            /\ Normal(s \o Rel(t, d)) = Rel(t, r)
            /\ s = <<>> => d = r
<1> DEFINE s == SubSeq(d, Len(r) + 1, Len(d))
           n == Common(t, d)
           k == Len(d) - n
           u == SubSeq(t, n + 1, Len(t))
           w == Rel(t, r)
           v == SubSeq(s, 1, Len(s) - k)
<1>1. /\ Len(r) \in Nat /\ Len(d) \in Nat /\ Len(t) \in Nat /\ Len(r) <= Len(d) /\ Len(r) <= Len(t)
      /\ (\A i \in 1 .. Len(r) : r[i] = d[i]) /\ \A i \in 1 .. Len(r) : r[i] = t[i]
  BY PrefixFacts
<1>2. d \in Seq(Nat) /\ t \in Seq(Nat)
  BY SeqMonotonic DEF Name
<1>3. n \in 0 .. Len(t) /\ n \in 0 .. Len(d) /\ (\A i \in 1 .. n : t[i] = d[i]) /\ Len(r) <= n
  <2>1. Len(r) \in 0 .. Len(t) /\ \A i \in 1 .. Len(r) : t[i] = d[i]
    BY <1>1
  <2>2. /\ n \in 0 .. Len(t) /\ n <= Len(d) /\ \A i \in 1 .. n : t[i] = d[i]
        /\ \A l \in 0 .. Len(t) : l <= Len(d) /\ (\A i \in 1 .. l : t[i] = d[i]) => l <= n
    BY <1>2, CommonFacts
  <2> HIDE DEF n
  <2>3. Len(r) <= n
    BY <1>1, <2>1, <2>2
  <2>4. n \in 0 .. Len(d)
    BY <1>1, <2>2
  <2> QED BY <2>2, <2>3, <2>4
<1>4. /\ u \in Seq(Name) /\ Rel(t, d) = Ups(k) \o u /\ Rel(t, d) \in Seq(Nat)
  BY RelFacts
<1> HIDE DEF n
<1>5. /\ s \in Seq(Name) /\ d = r \o s /\ Len(s) = Len(d) - Len(r)
      /\ \A i \in 1 .. Len(d) - Len(r) : s[i] = d[Len(r) + i]
  <2>1. Len(s) = Len(d) - Len(r) /\ \A i \in 1 .. Len(d) - Len(r) : s[i] = d[Len(r) + i]
    <3>1. Len(r) \in 0 .. Len(d)
      BY <1>1
    <3> QED BY <3>1, RestFacts
  <2>2. s \in Seq(Name) /\ d = r \o s
    BY PrefixFacts
  <2> HIDE DEF s
  <2> QED BY <2>1, <2>2
<1>6. s = <<>> => d = r
  BY <1>5, ConcatEmptySeq
<1> HIDE DEF s
<1>7. k \in 0 .. Len(s) /\ k \in Nat /\ Len(s) - k = n - Len(r) /\ Len(s) - k \in 0 .. Len(s) /\ s \in Seq(Nat)
  BY <1>1, <1>3, <1>5, SeqMonotonic DEF Name
<1>8. v \in Seq(Name) /\ Len(v) = n - Len(r) /\ \A i \in 1 .. n - Len(r) : v[i] = s[i]
  <2> DEFINE l == Len(s) - k
  <2>1. l \in 0 .. Len(s) /\ l = n - Len(r)
    BY <1>7
  <2> HIDE DEF l
  <2>2. /\ SubSeq(s, 1, l) \in Seq(Name) /\ Len(SubSeq(s, 1, l)) = l
        /\ \A i \in 1 .. l : SubSeq(s, 1, l)[i] = s[i]
    BY <1>5, <2>1, FirstFacts
  <2> QED BY <2>1, <2>2 DEF l
<1>9. w = v \o u
  <2>1. w \in Seq(Name) /\ Len(w) = Len(t) - Len(r) /\ t = r \o w
    BY RelBelow
  <2>2. Len(u) = Len(t) - n /\ \A i \in 1 .. Len(t) - n : u[i] = t[n + i]
    BY <1>3, RestFacts
  <2> DEFINE y == v \o u
  <2> HIDE DEF v, u, w
  <2>3. y \in Seq(Name) /\ Len(y) = Len(v) + Len(u) /\ \A i \in 1 .. Len(v) + Len(u) : y[i] = IF i <= Len(v) THEN v[i] ELSE u[i - Len(v)]
    BY <1>4, <1>8, ConcatProperties
  <2> HIDE DEF y
  <2>4. Len(y) = Len(w)
    BY <1>1, <1>3, <1>8, <2>1, <2>2, <2>3
  <2>5. ASSUME NEW i \in 1 .. Len(w) PROVE w[i] = y[i]
    <3>1. Len(r) + i \in 1 .. Len(t) /\ w[i] = t[Len(r) + i]
      <4>1. /\ Len(r \o w) = Len(r) + Len(w)
            /\ \A j \in 1 .. Len(r) + Len(w) : (r \o w)[j] = IF j <= Len(r) THEN r[j] ELSE w[j - Len(r)]
        BY <2>1, ConcatProperties
      <4>2. /\ Len(r) + i \in 1 .. Len(r) + Len(w) /\ ~(Len(r) + i <= Len(r)) /\ (Len(r) + i) - Len(r) = i
            /\ Len(r) + i \in 1 .. Len(t)
        BY <1>1, <2>1
      <4>3. t[Len(r) + i] = w[(Len(r) + i) - Len(r)]
        BY <2>1, <4>1, <4>2
      <4> QED BY <4>2, <4>3
    <3>2. CASE i <= n - Len(r)
      <4>0. Len(v) = n - Len(r) /\ Len(u) = Len(t) - n /\ Len(w) = Len(t) - Len(r)
        BY <1>8, <2>1, <2>2
      <4>1. i \in 1 .. n - Len(r) /\ i \in 1 .. Len(d) - Len(r) /\ Len(r) + i \in 1 .. n /\ i \in 1 .. Len(v) + Len(u)
        BY <1>1, <1>3, <3>2, <4>0
      <4>2. y[i] = v[i] /\ v[i] = s[i] /\ s[i] = d[Len(r) + i]
        BY <1>5, <1>8, <2>3, <3>2, <4>1
      <4>3. t[Len(r) + i] = d[Len(r) + i]
        BY <1>3, <4>1
      <4> QED BY <3>1, <4>2, <4>3
    <3>3. CASE ~(i <= n - Len(r))
      <4>1. /\ i \in 1 .. Len(v) + Len(u) /\ i - (n - Len(r)) \in 1 .. Len(t) - n
            /\ n + (i - (n - Len(r))) = Len(r) + i
        BY <1>1, <1>3, <1>8, <2>1, <2>2, <3>3
      <4>2. y[i] = u[i - (n - Len(r))]
        BY <1>8, <2>3, <3>3, <4>1
      <4>3. u[i - (n - Len(r))] = t[n + (i - (n - Len(r)))]
        BY <2>2, <4>1
      <4> QED BY <3>1, <4>1, <4>2, <4>3
    <3> QED BY <3>2, <3>3
  <2>6. w = y
    BY <2>1, <2>3, <2>4, <2>5, SeqEqual
  <2> QED BY <2>6 DEF y
<1>10. Normal(s \o Rel(t, d)) = w
  <2> HIDE DEF k, u, w
  <2>1. Normal(s \o (Ups(k) \o u)) = v \o u
    BY <1>4, <1>5, <1>7, NormalUps
  <2> HIDE DEF v
  <2> QED BY <1>4, <1>9, <2>1
<1>11. Resolve(d, s \o Rel(t, d)) = d \o w
  <2>1. Resolve(d, s \o Rel(t, d)) = Resolve(Resolve(d, s), Rel(t, d))
    BY <1>4, <1>7, ResolveConcat
  <2>2. Resolve(d, s) = d \o s /\ d \o s \in Seq(Name)
    BY <1>5, ResolveNames, ConcatProperties
  <2> DEFINE e == d \o s
  <2>3. Len(e) = Len(d) + Len(s) /\ k \in 0 .. Len(e) /\ Len(e) - k = Len(d) + (Len(s) - k) /\ Len(s) \in Nat
    BY <1>1, <1>5, <1>7, ConcatProperties
  <2>4. e \in Seq(Name)
    BY <2>2
  <2>5. Ups(k) \in Seq(Nat) /\ u \in Seq(Nat)
    BY <1>4, <1>7, ResolveUps, SeqMonotonic DEF Name
  <2>6. SubSeq(e, 1, Len(e) - k) = d \o v
    <3> DEFINE a == SubSeq(e, 1, Len(e) - k)
               b == d \o v
               l == Len(e) - k
    <3>1. l \in 0 .. Len(e) /\ l = Len(d) + Len(v)
      <4> HIDE DEF e, v, k
      <4>1. l = Len(d) + (Len(s) - k) /\ Len(s) - k = Len(v)
        BY <1>7, <1>8, <2>3
      <4>2. l \in Nat /\ l <= Len(e)
        BY <1>1, <1>7, <2>3
      <4>3. Len(e) \in Nat
        BY <1>1, <2>3
      <4> HIDE DEF l
      <4> QED BY <4>1, <4>2, <4>3
    <3>2. a \in Seq(Name) /\ Len(a) = Len(d) + Len(v) /\ \A i \in 1 .. Len(d) + Len(v) : a[i] = e[i]
      <4> HIDE DEF e, v, l
      <4>1. /\ SubSeq(e, 1, l) \in Seq(Name) /\ Len(SubSeq(e, 1, l)) = l
            /\ \A i \in 1 .. l : SubSeq(e, 1, l)[i] = e[i]
        BY <2>4, <3>1, FirstFacts
      <4> QED BY <3>1, <4>1 DEF l
    <3>3. b \in Seq(Name) /\ Len(b) = Len(d) + Len(v) /\ \A i \in 1 .. Len(d) + Len(v) : b[i] = IF i <= Len(d) THEN d[i] ELSE v[i - Len(d)]
      BY <1>8, ConcatProperties
    <3>4. \A i \in 1 .. Len(d) + Len(s) : e[i] = IF i <= Len(d) THEN d[i] ELSE s[i - Len(d)]
      BY <1>5, ConcatProperties
    <3> HIDE DEF a, b, e
    <3>5. ASSUME NEW i \in 1 .. Len(a) PROVE a[i] = b[i]
      <4> HIDE DEF v, k
      <4>1. i \in 1 .. Len(d) + Len(v) /\ i \in 1 .. Len(d) + Len(s)
        BY <1>1, <1>3, <1>5, <1>8, <3>2
      <4>2. ~(i <= Len(d)) => i - Len(d) \in 1 .. n - Len(r)
        BY <1>1, <1>3, <1>8, <3>2
      <4> QED BY <1>8, <3>2, <3>3, <3>4, <4>1, <4>2
    <3>6. a = b
      BY <3>2, <3>3, <3>5, SeqEqual
    <3> QED BY <3>6 DEF a, b
  <2>7. Resolve(e, Ups(k) \o u) = Resolve(Resolve(e, Ups(k)), u)
    <3> HIDE DEF e, k, u
    <3> QED BY <2>4, <2>5, ResolveConcat
  <2>8. Resolve(e, Ups(k)) = d \o v
    <3> HIDE DEF e, k, v
    <3> QED BY <2>3, <2>4, <2>6, ResolveUps
  <2>9. Resolve(d \o v, u) = (d \o v) \o u /\ (d \o v) \o u = d \o (v \o u)
    <3> HIDE DEF v, u
    <3>1. d \o v \in Seq(Name)
      BY <1>8, ConcatProperties
    <3>2. Resolve(d \o v, u) = (d \o v) \o u
      BY <1>4, <3>1, ResolveNames
    <3>3. v \in Seq(Name) /\ u \in Seq(Name)
      BY <1>4, <1>8
    <3>4. (d \o v) \o u = d \o (v \o u)
      BY <3>3, ConcatAssociative, SMTT(30)
    <3> QED BY <3>2, <3>4
  <2> HIDE DEF k, u, v, w
  <2> QED BY <1>4, <1>9, <2>1, <2>2, <2>7, <2>8, <2>9
<1>12. Rel(d \o w, d) = w
  <2>1. w \in Seq(Name)
    BY RelBelow
  <2> HIDE DEF w
  <2>2. d \o w \in Seq(Name) /\ IsPrefix(d, d \o w) /\ SubSeq(d \o w, Len(d) + 1, Len(d \o w)) = w
    BY <2>1, ConcatPrefix, ConcatProperties
  <2> QED BY <2>2, RelBelow
<1> QED BY <1>4, <1>6, <1>7, <1>10, <1>11, <1>12 DEF s

-----------------------------------------------------------------------------
(* Where a release is fetched from.                                        *)

(* A fetch leads, if at all in the filesystem, to a directory.             *)
LEMMA FetchedType ==
  ASSUME NEW d \in Seq(Name), NEW arg \in Seq(Nat), NEW url \in Seq(Nat)
  PROVE  FetchedAt(d, arg, url) \in Seq(Nat)
<1> DEFINE cache == Append(CwdToSub(d, arg), 1)
           ups == [i \in DOMAIN cache |-> Up]
<1>1. cache \in Seq(Nat)
  <2>1. CwdToSub(d, arg) \in Seq(Nat)
    BY ResolveType, RelFacts DEF CwdToSub
  <2> QED BY <2>1, AppendProperties
<1> HIDE DEF cache
<1>2. ups \in Seq(Nat)
  BY <1>1, LenProperties, IsASeq DEF Up
<1> HIDE DEF ups
<1>3. Resolve(Resolve(d, cache), ups \o url) \in Seq(Name)
  BY <1>1, <1>2, ResolveType, ConcatProperties
<1>4. Seq(Name) \subseteq Seq(Nat)
  BY SeqMonotonic DEF Name
<1> QED BY <1>3, <1>4 DEF FetchedAt, cache, ups

(* In the toplevel directory, as many ".." as there are names on the way   *)
(* to the cache directory lead back: git fetches from where the url leads  *)
(* from there, which is where it asked.                                    *)
LEMMA FetchedFromTop ==
  ASSUME NEW r \in Seq(Name), NEW t \in Seq(Name), IsPrefix(r, t), NEW arg, Resolve(r, arg) = t,
         NEW url \in Seq(Nat) \cup {Remote}
  PROVE  FetchedAt(r, arg, url) = AskedAt(r, url)
<1>1. CASE url = Remote
  BY <1>1 DEF FetchedAt, AskedAt, IsRelative
<1>2. CASE url # Remote
  <2> DEFINE c == Append(Rel(t, r), 1)
  <2>1. c \in Seq(Name) /\ Len(c) \in Nat /\ DOMAIN c = 1 .. Len(c)
    <3>1. Rel(t, r) \in Seq(Name) /\ 1 \in Name
      BY RelBelow DEF Name, Up
    <3> QED BY <3>1, AppendProperties, LenProperties
  <2>2. FetchedAt(r, arg, url) = Resolve(Resolve(r, c), [i \in DOMAIN c |-> Up] \o url)
    BY <1>2 DEF FetchedAt, CwdToSub, IsRelative
  <2> HIDE DEF c
  <2> DEFINE e == r \o c
  <2>3. Resolve(r, c) = e /\ e \in Seq(Name) /\ Len(e) = Len(r) + Len(c) /\ Len(r) \in Nat
    BY <2>1, ResolveNames, ConcatProperties, LenProperties
  <2>4. SubSeq(e, 1, Len(r)) = r
    <3>1. IsPrefix(r, e)
      BY <2>1, ConcatPrefix
    <3> HIDE DEF e
    <3> QED BY <2>3, <3>1, PrefixFacts
  <2> HIDE DEF e
  <2>5. Len(c) \in 0 .. Len(e) /\ Len(e) - Len(c) = Len(r)
    BY <2>1, <2>3
  <2>6. Ups(Len(c)) \in Seq(Nat) /\ Resolve(e, Ups(Len(c))) = r
    BY <2>3, <2>4, <2>5, ResolveUps
  <2>7. [i \in DOMAIN c |-> Up] = Ups(Len(c))
    BY <2>1 DEF Ups
  <2>8. Resolve(e, Ups(Len(c)) \o url) = Resolve(r, url)
    BY <1>2, <2>3, <2>6, ResolveConcat
  <2> QED BY <1>2, <2>2, <2>3, <2>7, <2>8 DEF AskedAt, IsRelative
<1> QED BY <1>1, <1>2

-----------------------------------------------------------------------------
(* The search.                                                             *)

(* The longest of some prefixes of a directory.                            *)
LEMMA LongestFacts ==
  ASSUME NEW d \in Seq(Name), NEW S \in SUBSET Prefixes(d), S # {}
  PROVE  /\ Longest(S) \in S /\ \A q \in S : Len(q) <= Len(Longest(S))
         /\ \A r \in S : (\A q \in S : Len(q) <= Len(r)) => Longest(S) = r
<1> DEFINE T == {Len(q) : q \in S}
           Is(p) == p \in S /\ \A q \in S : Len(q) <= Len(p)
<1>1. \A p \in S : p \in Seq(Name) /\ IsPrefix(p, d) /\ Len(p) \in Nat /\ Len(p) <= Len(d)
  BY PrefixesFacts, PrefixFacts
<1>2. PICK n \in T : \A e \in T : e <= n
  <2>1. T \in SUBSET Nat /\ T # {} /\ \A x \in T : x <= Len(d)
    BY <1>1
  <2>2. Len(d) \in Nat
    BY LenProperties
  <2> HIDE DEF T
  <2> QED BY <2>1, <2>2, Greatest
<1>3. PICK p \in S : Len(p) = n
  BY <1>2
<1>4. Is(p)
  BY <1>2, <1>3
<1> DEFINE l == CHOOSE x \in S : \A q \in S : Len(q) <= Len(x)
<1>5. l = Longest(S) /\ Is(l)
  <2>1. l = Longest(S)
    BY DEF Longest
  <2> QED BY <1>4, <2>1
<1> HIDE DEF l
<1>6. ASSUME NEW r \in S, \A q \in S : Len(q) <= Len(r) PROVE l = r
  <2>1. Len(l) = Len(r)
    BY <1>1, <1>5, <1>6
  <2> QED BY <1>1, <1>5, <2>1, PrefixChain
<1> QED BY <1>5, <1>6

(* A prefix of a prefix is one.                                            *)
LEMMA PrefixesOfPrefix ==
  ASSUME NEW d \in Seq(Name), NEW p \in Prefixes(d)
  PROVE  p \in Seq(Name) /\ IsPrefix(p, d) /\ Prefixes(p) \subseteq Prefixes(d)
<1>1. p \in Seq(Name) /\ IsPrefix(p, d)
  BY PrefixesFacts
<1>2. ASSUME NEW q \in Prefixes(p) PROVE q \in Prefixes(d)
  <2>1. q \in Seq(Name) /\ IsPrefix(q, p)
    BY <1>1, PrefixesFacts
  <2>2. IsPrefix(q, d)
    BY <1>1, <2>1, PrefixOrder
  <2> QED BY <2>1, <2>2, PrefixesFacts
<1> QED BY <1>1, <1>2

(* The top of the filesystem is above; that of a parent is not below it.   *)
LEMMA FilesystemFacts ==
  ASSUME NEW d \in Seq(Name)
  PROVE  /\ Filesystem(d) \in Prefixes(d) /\ Len(Filesystem(d)) \in Nat
         /\ \A p \in Prefixes(d) : Len(Filesystem(p)) <= Len(Filesystem(d))
<1> DEFINE S(p) == Prefixes(p) \cap (Mount \cup {<<>>})
<1>1. ASSUME NEW p \in Seq(Name)
      PROVE  Filesystem(p) \in S(p) /\ \A q \in S(p) : Len(q) <= Len(Filesystem(p))
  <2>1. S(p) \in SUBSET Prefixes(p) /\ S(p) # {} /\ Filesystem(p) = Longest(S(p))
    BY PrefixesFacts DEF Filesystem
  <2> HIDE DEF S
  <2> QED BY <2>1, LongestFacts
<1>2. ASSUME NEW p \in Prefixes(d) PROVE Len(Filesystem(p)) <= Len(Filesystem(d))
  <2>1. p \in Seq(Name) /\ S(p) \subseteq S(d)
    BY PrefixesOfPrefix
  <2> HIDE DEF S
  <2> QED BY <1>1, <2>1
<1>3. Len(Filesystem(d)) \in Nat
  BY <1>1, PrefixesFacts, LenProperties
<1> QED BY <1>1, <1>2, <1>3

(* The search in a directory of Place.                                     *)
LEMMA SearchedFacts ==
  ASSUME NEW d \in Place
  PROVE  /\ d \in Seq(Name) /\ Prefixes(d) \subseteq Place /\ d \in Searched[d]
         /\ \A p : p \in Searched[d] <=> p \in Prefixes(d) /\ Filesystem(p) = Filesystem(d)
         /\ \A p \in Searched[d] : p \in Place /\ p \in Seq(Name) /\ IsPrefix(p, d)
<1>1. d \in Seq(Name) /\ Prefixes(d) \subseteq Place
  BY PlaceAssumption DEF Name
<1>2. \A p : p \in Searched[d] <=> p \in Prefixes(d) /\ Filesystem(p) = Filesystem(d)
  BY DEF Searched
<1> QED BY <1>1, <1>2, PrefixesFacts

(* What comes before a directory the search comes through, it comes        *)
(* through too; and the search from there goes the same way.               *)
LEMMA SearchedBetween ==
  ASSUME NEW d \in Place, NEW p \in Searched[d], NEW q \in Seq(Name), IsPrefix(p, q), IsPrefix(q, d)
  PROVE  q \in Place /\ q \in Searched[d] /\ p \in Searched[q]
<1>1. d \in Seq(Name) /\ Prefixes(d) \subseteq Place /\ p \in Prefixes(d) /\ Filesystem(p) = Filesystem(d) /\ p \in Seq(Name)
  BY SearchedFacts
<1>2. q \in Prefixes(d) /\ q \in Place /\ p \in Prefixes(q)
  BY <1>1, PrefixesFacts
<1>3. Len(Filesystem(p)) <= Len(Filesystem(q)) /\ Len(Filesystem(q)) <= Len(Filesystem(d))
  BY <1>1, <1>2, FilesystemFacts
<1>4. Filesystem(q) \in Prefixes(d) /\ Filesystem(d) \in Prefixes(d)
  BY <1>1, <1>2, FilesystemFacts, PrefixesOfPrefix
<1>5. Len(Filesystem(q)) = Len(Filesystem(d))
  BY <1>1, <1>3, FilesystemFacts
<1>6. Filesystem(q) = Filesystem(d)
  BY <1>1, <1>4, <1>5, PrefixChain, PrefixesFacts
<1> QED BY <1>1, <1>2, <1>6, SearchedFacts

(* What the search finds is the longest one, and it finds one if there is  *)
(* one.                                                                    *)
LEMMA NearestFacts ==
  ASSUME NEW d \in Place, NEW S
  PROVE  /\ Nearest(S, d) # NoPlace =>
              Nearest(S, d) \in S \cap Searched[d] /\ \A q \in S \cap Searched[d] : Len(q) <= Len(Nearest(S, d))
         /\ Nearest(S, d) = NoPlace => S \cap Searched[d] = {}
         /\ \A r \in S \cap Searched[d] : (\A q \in S \cap Searched[d] : Len(q) <= Len(r)) => Nearest(S, d) = r
         /\ S \cap Searched[d] = {} => Nearest(S, d) = NoPlace
<1> DEFINE near == S \cap Searched[d]
<1>1. d \in Seq(Name) /\ near \in SUBSET Prefixes(d) /\ \A p \in near : p \in Seq(Name)
  BY SearchedFacts
<1>2. NoPlace \notin near
  BY <1>1, SentinelAssumption, SeqMonotonic DEF Name
<1>3. /\ near = {} => Nearest(S, d) = NoPlace
      /\ near # {} => Nearest(S, d) = Longest(near)
  BY DEF Nearest
<1>4. near # {} => /\ Longest(near) \in near /\ \A q \in near : Len(q) <= Len(Longest(near))
                   /\ \A r \in near : (\A q \in near : Len(q) <= Len(r)) => Longest(near) = r
  <2> HIDE DEF near
  <2> QED BY <1>1, LongestFacts
<1> HIDE DEF near
<1> QED BY <1>2, <1>3, <1>4 DEF near
=============================================================================
