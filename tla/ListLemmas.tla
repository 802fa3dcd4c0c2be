----------------------------- MODULE ListLemmas ------------------------------
(***************************************************************************)
(* Lemmas about lists that hold every entry once, as the driver's linked   *)
(* lists do: what appending, joining and cutting do to the length and to   *)
(* the set of entries, and how entries are counted.                        *)
(***************************************************************************)
EXTENDS Integers, Sequences, FiniteSets, Functions, SequenceTheorems,
        FiniteSetTheorems, TLAPS

Once(s) == \A a, b \in 1 .. Len(s) : s[a] = s[b] => a = b

\* The set of entries.
LEMMA Elements ==
    ASSUME NEW S, NEW s \in Seq(S)
    PROVE  /\ Len(s) \in Nat
           /\ Range(s) = {s[k] : k \in 1 .. Len(s)}
           /\ Range(s) \subseteq S
           /\ \A x \in Range(s) : \E k \in 1 .. Len(s) : s[k] = x
           /\ \A k \in 1 .. Len(s) : s[k] \in Range(s) /\ s[k] \in S
  BY LenProperties, ElementOfSeq DEF Range

\* A list read off its positions.
LEMMA ReadOff ==
    ASSUME NEW S, NEW s \in Seq(S), NEW X,
           \A k \in 1 .. Len(s) : s[k] \in X,
           \A x \in X : \E k \in 1 .. Len(s) : s[k] = x
    PROVE  Range(s) = X
<1>1. Range(s) = {s[k] : k \in 1 .. Len(s)}
  BY Elements
<1>2. QED
  BY <1>1

\* The empty list.
LEMMA OnceEmpty == Once(<<>>) /\ Range(<<>>) = {} /\ Len(<<>>) = 0
  BY DEF Once, Range

\* An entry is added at the end.
LEMMA OnceAppend ==
    ASSUME NEW S, NEW s \in Seq(S), NEW x \in S
    PROVE  /\ Append(s, x) \in Seq(S)
           /\ Len(Append(s, x)) = Len(s) + 1
           /\ Range(Append(s, x)) = Range(s) \cup {x}
           /\ Once(s) /\ x \notin Range(s) => Once(Append(s, x))
<1> DEFINE t == Append(s, x)
<1>1. /\ t \in Seq(S) /\ Len(t) = Len(s) + 1 /\ t[Len(s) + 1] = x
      /\ \A k \in 1 .. Len(s) : t[k] = s[k]
      /\ Len(s) \in Nat
  BY AppendProperties, LenProperties
<1> HIDE DEF t
<1>2. Range(t) = Range(s) \cup {x}
  <2>1. \A k \in 1 .. Len(t) : t[k] \in Range(s) \cup {x}
    BY <1>1, Elements
  <2>2. \A y \in Range(s) \cup {x} : \E k \in 1 .. Len(t) : t[k] = y
    <3>1. ASSUME NEW y \in Range(s) PROVE \E k \in 1 .. Len(t) : t[k] = y
      <4>1. PICK k \in 1 .. Len(s) : s[k] = y
        BY Elements
      <4>2. k \in 1 .. Len(t) /\ t[k] = y
        BY <1>1, <4>1
      <4>3. QED
        BY <4>2
    <3>2. Len(s) + 1 \in 1 .. Len(t) /\ t[Len(s) + 1] = x
      BY <1>1
    <3>3. QED
      BY <3>1, <3>2
  <2>3. QED
    BY <1>1, <2>1, <2>2, ReadOff
<1>3. ASSUME Once(s), x \notin Range(s) PROVE Once(t)
  <2>1. SUFFICES ASSUME NEW a \in 1 .. Len(t), NEW b \in 1 .. Len(t), t[a] = t[b], a < b
                 PROVE  FALSE
    BY <1>1 DEF Once
  <2>2. a \in 1 .. Len(s) /\ t[a] = s[a] /\ s[a] \in Range(s)
    BY <1>1, <2>1, Elements
  <2>3. CASE b = Len(s) + 1
    BY <1>1, <1>3, <2>1, <2>2, <2>3
  <2>4. CASE b # Len(s) + 1
    <3>1. b \in 1 .. Len(s)
      BY <1>1, <2>4
    <3>2. s[a] = s[b]
      BY <1>1, <2>1, <2>2, <3>1
    <3>3. a = b
      BY <1>3, <2>2, <3>1, <3>2 DEF Once
    <3>4. QED
      BY <2>1, <3>3
  <2>5. QED
    BY <2>3, <2>4
<1>4. QED
  BY <1>1, <1>2, <1>3 DEF t

\* Two lists are joined.
LEMMA OnceConcat ==
    ASSUME NEW S, NEW s \in Seq(S), NEW t \in Seq(S)
    PROVE  /\ s \o t \in Seq(S)
           /\ Len(s \o t) = Len(s) + Len(t)
           /\ Range(s \o t) = Range(s) \cup Range(t)
           /\ Once(s) /\ Once(t) /\ Range(s) \cap Range(t) = {} => Once(s \o t)
<1> DEFINE c == s \o t
<1>1. /\ c \in Seq(S) /\ Len(c) = Len(s) + Len(t) /\ Len(s) \in Nat /\ Len(t) \in Nat
      /\ \A k \in 1 .. Len(s) + Len(t) : c[k] = IF k <= Len(s) THEN s[k] ELSE t[k - Len(s)]
  BY ConcatProperties, LenProperties
<1> HIDE DEF c
<1>2. ASSUME NEW k \in 1 .. Len(s) PROVE k \in 1 .. Len(c) /\ c[k] = s[k] /\ s[k] \in Range(s)
  BY <1>1, Elements
<1>3. ASSUME NEW k \in 1 .. Len(t)
      PROVE  k + Len(s) \in 1 .. Len(c) /\ c[k + Len(s)] = t[k] /\ t[k] \in Range(t)
  <2>1. k + Len(s) \in 1 .. Len(s) + Len(t) /\ ~(k + Len(s) <= Len(s)) /\ k + Len(s) - Len(s) = k
    BY <1>1
  <2>2. c[k + Len(s)] = t[k + Len(s) - Len(s)]
    BY <1>1, <2>1
  <2>3. QED
    BY <1>1, <2>1, <2>2, Elements
<1>4. ASSUME NEW k \in 1 .. Len(c), ~(k <= Len(s))
      PROVE  k - Len(s) \in 1 .. Len(t) /\ c[k] = t[k - Len(s)]
  BY <1>1, <1>4
<1>5. Range(c) = Range(s) \cup Range(t)
  <2>1. ASSUME NEW k \in 1 .. Len(c) PROVE c[k] \in Range(s) \cup Range(t)
    <3>1. CASE k <= Len(s)
      BY <1>1, <1>2, <3>1
    <3>2. CASE ~(k <= Len(s))
      BY <1>3, <1>4, <3>2
    <3>3. QED
      BY <3>1, <3>2
  <2>2. ASSUME NEW y \in Range(s) PROVE \E k \in 1 .. Len(c) : c[k] = y
    <3>1. PICK k \in 1 .. Len(s) : s[k] = y
      BY Elements
    <3>2. QED
      BY <1>2, <3>1
  <2>3. ASSUME NEW y \in Range(t) PROVE \E k \in 1 .. Len(c) : c[k] = y
    <3>1. PICK k \in 1 .. Len(t) : t[k] = y
      BY Elements
    <3>2. QED
      BY <1>3, <3>1
  <2>4. \A y \in Range(s) \cup Range(t) : \E k \in 1 .. Len(c) : c[k] = y
    BY <2>2, <2>3
  <2>5. QED
    BY <1>1, <2>1, <2>4, ReadOff
<1>6. ASSUME Once(s), Once(t), Range(s) \cap Range(t) = {} PROVE Once(c)
  <2>1. SUFFICES ASSUME NEW a \in 1 .. Len(c), NEW b \in 1 .. Len(c), c[a] = c[b], a < b
                 PROVE  FALSE
    BY <1>1 DEF Once
  <2>2. CASE b <= Len(s)
    <3>1. a \in 1 .. Len(s) /\ b \in 1 .. Len(s)
      BY <1>1, <2>1, <2>2
    <3>2. QED
      BY <1>2, <1>6, <2>1, <3>1 DEF Once
  <2>3. CASE a <= Len(s) /\ ~(b <= Len(s))
    <3>1. a \in 1 .. Len(s)
      BY <1>1, <2>3
    <3>2. c[a] \in Range(s) /\ c[b] \in Range(t)
      BY <1>2, <1>3, <1>4, <2>3, <3>1
    <3>3. QED
      BY <1>6, <2>1, <3>2
  <2>4. CASE ~(a <= Len(s))
    <3>1. ~(b <= Len(s))
      BY <1>1, <2>1, <2>4
    <3>2. /\ a - Len(s) \in 1 .. Len(t) /\ b - Len(s) \in 1 .. Len(t)
          /\ t[a - Len(s)] = t[b - Len(s)]
      BY <1>4, <2>1, <2>4, <3>1
    <3>3. a - Len(s) = b - Len(s)
      BY <1>6, <3>2 DEF Once
    <3>4. QED
      BY <1>1, <2>1, <3>3
  <2>5. QED
    BY <1>1, <2>2, <2>3, <2>4
<1>7. QED
  BY <1>1, <1>5, <1>6 DEF c

\* An entry is added at the front.
LEMMA OncePrepend ==
    ASSUME NEW S, NEW s \in Seq(S), NEW x \in S
    PROVE  /\ <<x>> \o s \in Seq(S)
           /\ Len(<<x>> \o s) = Len(s) + 1
           /\ Range(<<x>> \o s) = Range(s) \cup {x}
           /\ Once(s) /\ x \notin Range(s) => Once(<<x>> \o s)
<1> DEFINE o == <<x>>
<1>1. o \in Seq(S) /\ Len(o) = 1 /\ Range(o) = {x} /\ Once(o) /\ Len(s) \in Nat
  BY LenProperties DEF Once, Range
<1> HIDE DEF o
<1>2. /\ o \o s \in Seq(S) /\ Len(o \o s) = Len(o) + Len(s)
      /\ Range(o \o s) = Range(o) \cup Range(s)
      /\ Once(o) /\ Once(s) /\ Range(o) \cap Range(s) = {} => Once(o \o s)
  <2>1. o \in Seq(S)
    BY <1>1
  <2>2. QED
    BY <2>1, OnceConcat
<1>3. /\ o \o s \in Seq(S) /\ Len(o \o s) = Len(s) + 1 /\ Range(o \o s) = Range(s) \cup {x}
      /\ Once(s) /\ x \notin Range(s) => Once(o \o s)
  BY <1>1, <1>2
<1>4. QED
  BY <1>3 DEF o

\* A part is cut out.
LEMMA OnceCut ==
    ASSUME NEW S, NEW s \in Seq(S), NEW m \in Int, NEW n \in Int,
           1 <= m, n <= Len(s), m <= n + 1
    PROVE  /\ SubSeq(s, m, n) \in Seq(S)
           /\ Len(SubSeq(s, m, n)) = n - m + 1
           /\ Range(SubSeq(s, m, n)) = {s[k] : k \in m .. n}
           /\ Once(s) => Once(SubSeq(s, m, n))
<1> DEFINE c == SubSeq(s, m, n)
<1>1. \A i \in m .. n : i \in 1 .. Len(s) /\ s[i] \in S
  BY Elements
<1>2. /\ c \in Seq(S) /\ Len(c) = n - m + 1
      /\ \A k \in 1 .. n - m + 1 : c[k] = s[m + k - 1]
  BY <1>1, SubSeqProperties
<1> HIDE DEF c
<1>3. Range(c) = {s[k] : k \in m .. n}
  <2>1. ASSUME NEW k \in 1 .. Len(c) PROVE c[k] \in {s[j] : j \in m .. n}
    <3>1. m + k - 1 \in m .. n
      BY <1>2
    <3>2. QED
      BY <1>2, <3>1
  <2>2. ASSUME NEW j \in m .. n PROVE \E k \in 1 .. Len(c) : c[k] = s[j]
    <3>1. j - m + 1 \in 1 .. n - m + 1 /\ m + (j - m + 1) - 1 = j
      OBVIOUS
    <3>2. c[j - m + 1] = s[m + (j - m + 1) - 1]
      BY <1>2, <3>1
    <3>3. QED
      BY <1>2, <3>1, <3>2
  <2>3. \A x \in {s[j] : j \in m .. n} : \E k \in 1 .. Len(c) : c[k] = x
    BY <2>2
  <2>4. QED
    BY <1>2, <2>1, <2>3, ReadOff
<1>4. ASSUME Once(s) PROVE Once(c)
  <2>1. SUFFICES ASSUME NEW a \in 1 .. Len(c), NEW b \in 1 .. Len(c), c[a] = c[b] PROVE a = b
    BY DEF Once
  <2>2. m + a - 1 \in m .. n /\ m + b - 1 \in m .. n
    BY <1>2
  <2>3. s[m + a - 1] = s[m + b - 1]
    BY <1>2, <2>1
  <2>4. m + a - 1 = m + b - 1
    BY <1>1, <1>4, <2>2, <2>3 DEF Once
  <2>5. QED
    BY <1>2, <2>4
<1>5. QED
  BY <1>2, <1>3, <1>4 DEF c

\* A list is cut off at its front.
LEMMA OnceSuffix ==
    ASSUME NEW S, NEW s \in Seq(S), NEW m \in 1 .. Len(s) + 1
    PROVE  /\ SubSeq(s, m, Len(s)) \in Seq(S)
           /\ Len(SubSeq(s, m, Len(s))) = Len(s) - m + 1
           /\ Range(SubSeq(s, m, Len(s))) = {s[k] : k \in m .. Len(s)}
           /\ Once(s) => Once(SubSeq(s, m, Len(s)))
<1> DEFINE P(n) == /\ SubSeq(s, m, n) \in Seq(S)
                   /\ Len(SubSeq(s, m, n)) = n - m + 1
                   /\ Range(SubSeq(s, m, n)) = {s[k] : k \in m .. n}
                   /\ Once(s) => Once(SubSeq(s, m, n))
<1>1. Len(s) \in Nat
  BY LenProperties
<1>2. ASSUME NEW n \in Int, n = Len(s) PROVE P(n)
  <2>1. m \in Int /\ 1 <= m /\ n <= Len(s) /\ m <= n + 1
    BY <1>1, <1>2
  <2>2. QED
    BY <2>1, OnceCut
<1>3. \A n \in Int : n = Len(s) => P(n)
  BY <1>2
<1> HIDE DEF P
<1>4. P(Len(s))
  BY <1>1, <1>3
<1>5. QED
  BY <1>4 DEF P

\* The first entry is taken.
LEMMA OnceTail ==
    ASSUME NEW S, NEW s \in Seq(S), s # <<>>, Once(s)
    PROVE  /\ Head(s) \in Range(s) /\ Tail(s) \in Seq(S)
           /\ Len(Tail(s)) = Len(s) - 1
           /\ Range(Tail(s)) = Range(s) \ {Head(s)}
           /\ Once(Tail(s))
<1>1. Len(s) \in Nat \ {0} /\ Head(s) = s[1] /\ Tail(s) = SubSeq(s, 2, Len(s))
  BY EmptySeq, TailIsSubSeq
<1>2. /\ Tail(s) \in Seq(S) /\ Len(Tail(s)) = Len(s) - 2 + 1 /\ Once(Tail(s))
      /\ Range(Tail(s)) = {s[k] : k \in 2 .. Len(s)}
  <2>1. 2 \in 1 .. Len(s) + 1
    BY <1>1
  <2>2. /\ SubSeq(s, 2, Len(s)) \in Seq(S) /\ Len(SubSeq(s, 2, Len(s))) = Len(s) - 2 + 1
        /\ Once(SubSeq(s, 2, Len(s))) /\ Range(SubSeq(s, 2, Len(s))) = {s[k] : k \in 2 .. Len(s)}
    BY <2>1, OnceSuffix
  <2>3. QED
    BY <1>1, <2>2
<1>3. {s[k] : k \in 2 .. Len(s)} = {s[k] : k \in 1 .. Len(s)} \ {s[1]}
  BY <1>1 DEF Once
<1>4. QED
  BY <1>1, <1>2, <1>3, Elements

\* The k-th entry is taken.
LEMMA OnceDrop ==
    ASSUME NEW S, NEW s \in Seq(S), Once(s), NEW k \in 1 .. Len(s),
           NEW d, d = SubSeq(s, 1, k - 1) \o SubSeq(s, k + 1, Len(s))
    PROVE  /\ d \in Seq(S) /\ Len(d) = Len(s) - 1
           /\ Range(d) = Range(s) \ {s[k]} /\ Once(d)
<1> DEFINE u == SubSeq(s, 1, k - 1)
           v == SubSeq(s, k + 1, Len(s))
<1>0. Len(s) \in Nat
  BY LenProperties
<1>1. u \in Seq(S) /\ Len(u) = k - 1 /\ Range(u) = {s[j] : j \in 1 .. k - 1} /\ Once(u)
  <2>1. 1 <= 1 /\ k - 1 <= Len(s) /\ 1 <= k - 1 + 1 /\ k - 1 - 1 + 1 = k - 1
    BY <1>0
  <2>2. QED
    BY <1>0, <2>1, OnceCut
<1>2. v \in Seq(S) /\ Len(v) = Len(s) - k /\ Range(v) = {s[j] : j \in k + 1 .. Len(s)} /\ Once(v)
  <2>1. k + 1 \in 1 .. Len(s) + 1
    BY <1>0
  <2>2. /\ v \in Seq(S) /\ Len(v) = Len(s) - (k + 1) + 1 /\ Once(v)
        /\ Range(v) = {s[j] : j \in k + 1 .. Len(s)}
    BY <2>1, OnceSuffix
  <2>3. QED
    BY <1>0, <2>2
<1>7. d = u \o v
  OBVIOUS
<1> HIDE DEF u, v
<1>3. Range(u) \cap Range(v) = {}
  <2>1. SUFFICES ASSUME NEW x \in Range(u), x \in Range(v) PROVE FALSE
    OBVIOUS
  <2>2. PICK i \in 1 .. k - 1 : x = s[i]
    BY <1>1
  <2>3. PICK j \in k + 1 .. Len(s) : x = s[j]
    BY <1>2, <2>1
  <2>4. i \in 1 .. Len(s) /\ j \in 1 .. Len(s) /\ i # j
    BY <1>0
  <2>5. QED
    BY <2>2, <2>3, <2>4 DEF Once
<1>4. d \in Seq(S) /\ Len(d) = Len(u) + Len(v) /\ Range(d) = Range(u) \cup Range(v) /\ Once(d)
  <2>1. u \in Seq(S) /\ v \in Seq(S) /\ Once(u) /\ Once(v)
    BY <1>1, <1>2
  <2>2. /\ u \o v \in Seq(S) /\ Len(u \o v) = Len(u) + Len(v)
        /\ Range(u \o v) = Range(u) \cup Range(v) /\ Once(u \o v)
    BY <2>1, <1>3, OnceConcat
  <2>3. QED
    BY <2>2, <1>7
<1>5. Range(u) \cup Range(v) = Range(s) \ {s[k]}
  <2>1. Range(s) = {s[j] : j \in 1 .. Len(s)}
    BY Elements
  <2>2. ASSUME NEW j \in 1 .. Len(s), j # k PROVE s[j] # s[k] /\ s[j] \in Range(u) \cup Range(v)
    <3>1. j \in 1 .. k - 1 \/ j \in k + 1 .. Len(s)
      BY <1>0, <2>2
    <3>2. QED
      BY <1>1, <1>2, <2>2, <3>1 DEF Once
  <2>3. \A x \in Range(u) \cup Range(v) : \E j \in 1 .. Len(s) : j # k /\ x = s[j]
    BY <1>0, <1>1, <1>2
  <2>4. QED
    BY <2>1, <2>2, <2>3
<1>6. Len(u) + Len(v) = Len(s) - 1
  BY <1>0, <1>1, <1>2
<1>8. QED
  BY <1>4, <1>5, <1>6

\* Entries of a kind are counted by their positions or in the set: it is the
\* same number.
LEMMA OnceCount ==
    ASSUME NEW S, NEW s \in Seq(S), Once(s), NEW T
    PROVE  /\ IsFiniteSet(Range(s) \cap T)
           /\ Cardinality({k \in 1 .. Len(s) : s[k] \in T}) = Cardinality(Range(s) \cap T)
           /\ Cardinality(Range(s) \cap T) \in 0 .. Len(s)
<1> DEFINE K == {k \in 1 .. Len(s) : s[k] \in T}
           g == [k \in K |-> s[k]]
<1>0. Len(s) \in Nat
  BY LenProperties
<1>1. g \in Bijection(K, Range(s) \cap T)
  <2>1. g \in [K -> Range(s) \cap T]
    BY Elements
  <2>2. \A a, b \in K : g[a] = g[b] => a = b
    BY DEF Once
  <2>3. \A x \in Range(s) \cap T : \E k \in K : g[k] = x
    BY Elements
  <2>4. QED
    BY <2>1, <2>2, <2>3 DEF Bijection, Injection, Surjection, IsInjective
<1>2. IsFiniteSet(1 .. Len(s)) /\ Cardinality(1 .. Len(s)) = Len(s)
  BY <1>0, FS_Interval, SMTT(30)
<1>3. IsFiniteSet(K) /\ Cardinality(K) <= Len(s)
  BY <1>2, FS_Subset
<1>4. IsFiniteSet(Range(s) \cap T) /\ Cardinality(Range(s) \cap T) = Cardinality(K)
  BY <1>1, <1>3, FS_Bijection DEF ExistsBijection
<1>5. Cardinality(K) \in Nat
  BY <1>3, FS_CardinalityType
<1>6. QED
  BY <1>0, <1>3, <1>4, <1>5

\* And the whole list has as many positions as entries.
LEMMA OnceLength ==
    ASSUME NEW S, NEW s \in Seq(S), Once(s)
    PROVE  IsFiniteSet(Range(s)) /\ Cardinality(Range(s)) = Len(s)
<1>1. {k \in 1 .. Len(s) : s[k] \in S} = 1 .. Len(s) /\ Range(s) \cap S = Range(s)
  BY Elements
<1>0. Len(s) \in Nat
  BY LenProperties
<1>2. Cardinality(1 .. Len(s)) = Len(s)
  BY <1>0, FS_Interval, SMTT(30)
<1>3. /\ IsFiniteSet(Range(s) \cap S)
      /\ Cardinality({k \in 1 .. Len(s) : s[k] \in S}) = Cardinality(Range(s) \cap S)
  BY OnceCount
<1>4. QED
  BY <1>1, <1>2, <1>3
=============================================================================
