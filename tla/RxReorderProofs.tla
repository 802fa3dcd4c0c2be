-------------------------- MODULE RxReorderProofs --------------------------
(***************************************************************************)
(* Proofs about RxReorder, for every width of the sequence numbers, every  *)
(* size of the buffer that divides it, every time-out and every bound: the *)
(* buffer and its counter, the marks, the order and the holding time.      *)
(***************************************************************************)
EXTENDS RxReorder, FiniteSetTheorems, SequenceTheorems, WellFoundedInduction, TLAPS

-----------------------------------------------------------------------------
(* Remainders.                                                              *)

LEMMA Remainder ==
    ASSUME NEW a \in Int, NEW d \in Nat \ {0}
    PROVE  /\ a % d \in 0 .. d - 1
           /\ \E q \in Int : a = (d * q) + (a % d)
<1>1. a = d * (a \div d) + (a % d) /\ a \div d \in Int /\ a % d \in 0 .. d - 1
  OBVIOUS
<1>2. QED
  BY <1>1

\* The quotient is unique, and with it the remainder.
LEMMA SmallMultiple ==
    ASSUME NEW d \in Nat \ {0}, NEW x \in Int, d * x < d, d * x > -d
    PROVE  x = 0
<1>1. CASE x >= 1
  <2>1. d * x >= d * 1
    BY <1>1
  <2>2. QED
    BY <2>1
<1>2. CASE x <= -1
  <2>1. d * x <= d * (-1)
    BY <1>2
  <2>2. QED
    BY <2>1
<1>3. QED
  BY <1>1, <1>2

LEMMA RemainderUnique ==
    ASSUME NEW a \in Int, NEW d \in Nat \ {0}, NEW q \in Int, NEW r \in 0 .. d - 1,
           a = (d * q) + r
    PROVE  a % d = r
<1>1. a % d \in 0 .. d - 1
  BY Remainder
<1>2. PICK p \in Int : a = (d * p) + (a % d)
  BY Remainder
<1>3. d * (q - p) = (a % d) - r
  BY <1>1, <1>2
<1>4. q - p = 0
  BY <1>1, <1>3, SmallMultiple
<1>5. QED
  BY <1>1, <1>2, <1>4

\* A number that differs by a multiple has the same remainder.
LEMMA SameRemainder ==
    ASSUME NEW a \in Int, NEW b \in Int, NEW d \in Nat \ {0}, NEW q \in Int,
           a = b + (d * q)
    PROVE  a % d = b % d
<1>1. PICK p \in Int : b = (d * p) + (b % d)
  BY Remainder
<1>2. b % d \in 0 .. d - 1
  BY Remainder
<1> DEFINE r == b % d
<1>3. r \in 0 .. d - 1 /\ b = (d * p) + r
  BY <1>1, <1>2
<1> HIDE DEF r
<1>4. d * (p + q) = (d * p) + (d * q) /\ p + q \in Int
  OBVIOUS
<1>5. a = (d * (p + q)) + r
  BY <1>3, <1>4
<1>6. a % d = r
  BY <1>3, <1>4, <1>5, RemainderUnique
<1>7. QED
  BY <1>6 DEF r

\* A remainder may be taken before or after adding, and before subtracting.
LEMMA RemainderOfSum ==
    ASSUME NEW a \in Int, NEW b \in Int, NEW d \in Nat \ {0}
    PROVE  /\ ((a % d) + b) % d = (a + b) % d
           /\ ((a % d) - b) % d = (a - b) % d
           /\ (b - (a % d)) % d = (b - a) % d
<1>1. PICK q \in Int : a = (d * q) + (a % d)
  BY Remainder
<1>2. a % d \in Int
  BY Remainder
<1> DEFINE r == a % d
           m == d * q
<1>3. r \in Int /\ m \in Int /\ a = m + r
  BY <1>1, <1>2
<1>4. ASSUME NEW u \in Int, NEW v \in Int, u = v + m
      PROVE  u % d = v % d
  BY <1>4, SameRemainder, ZenonT(40)
<1> HIDE DEF r, m
<1>5. a + b = (r + b) + m /\ a - b = (r - b) + m /\ b - r = (b - a) + m
  BY <1>3
<1>6. (a + b) % d = (r + b) % d /\ (a - b) % d = (r - b) % d /\ (b - r) % d = (b - a) % d
  <2>1. a + b \in Int /\ r + b \in Int /\ a - b \in Int /\ r - b \in Int /\ b - r \in Int /\ b - a \in Int
    BY <1>3
  <2>2. QED
    BY <1>4, <1>5, <2>1
<1>7. QED
  BY <1>6 DEF r

\* The three intervals that occur.
LEMMA RemainderNear ==
    ASSUME NEW a \in Int, NEW d \in Nat \ {0}
    PROVE  /\ a \in 0 .. d - 1 => a % d = a
           /\ a \in -d .. -1 => a % d = a + d
           /\ a \in d .. d + d - 1 => a % d = a - d
<1>1. ASSUME a \in 0 .. d - 1 PROVE a % d = a
  <2>1. a = (d * 0) + a
    OBVIOUS
  <2>2. QED
    BY <1>1, <2>1, RemainderUnique
<1>2. ASSUME a \in -d .. -1 PROVE a % d = a + d
  <2>1. a = (d * (-1)) + (a + d) /\ a + d \in 0 .. d - 1
    BY <1>2
  <2>2. QED
    BY <2>1, RemainderUnique
<1>3. ASSUME a \in d .. d + d - 1 PROVE a % d = a - d
  <2>1. a = (d * 1) + (a - d) /\ a - d \in 0 .. d - 1
    BY <1>3
  <2>2. QED
    BY <2>1, RemainderUnique
<1>4. QED
  BY <1>1, <1>2, <1>3

-----------------------------------------------------------------------------
(* Sequence numbers, distances and slots.                                   *)

LEMMA Bounds == {MaxFrame, MaxLoss, MaxAddba, MaxReset} \subseteq Nat
  BY WindowAssumption, Zenon

LEMMA Sizes ==
    /\ SeqSpace \in Nat \ {0} /\ BuffLen \in Nat \ {0} /\ Slots = 0 .. BuffLen - 1
    /\ Retry \in Nat /\ BuffLen <= Retry /\ Retry + BuffLen < SeqSpace
    /\ FirstSeq \in Int /\ MaxFrame \in Nat /\ MaxFrame < SeqSpace
    /\ \A f \in Frames : f \in Int /\ f # None
<1>1. {SeqSpace, BuffLen} \subseteq Nat \ {0} /\ Retry \in BuffLen .. SeqSpace - BuffLen - 1
      /\ FirstSeq \in 0 .. SeqSpace - 1 /\ MaxFrame < SeqSpace /\ None \notin Int
  BY WindowAssumption, Zenon
<1>2. MaxFrame \in Nat
  BY Bounds
<1>3. SeqSpace \in Nat \ {0} /\ BuffLen \in Nat \ {0} /\ FirstSeq \in Int
  BY <1>1
<1>4. Retry \in Nat /\ BuffLen <= Retry /\ Retry + BuffLen < SeqSpace
  BY <1>1, <1>3
<1>5. \A f \in Frames : f \in Int /\ f # None
  BY <1>1, <1>2 DEF Frames
<1>6. QED
  BY <1>1, <1>2, <1>3, <1>4, <1>5 DEF Slots

LEMMA NumbersInRange ==
    /\ \A f \in Int : Sn(f) \in 0 .. SeqSpace - 1 /\ Sn(f) \in Int
    /\ \A a, b \in Int : Dist(a, b) \in 0 .. SeqSpace - 1
    /\ \A a, b \in Int : Add(a, b) \in 0 .. SeqSpace - 1
    /\ \A a \in Int : Slot(a) \in Slots
<1>1. \A a \in Int : a % SeqSpace \in 0 .. SeqSpace - 1 /\ a % SeqSpace \in Int
  BY Sizes, Remainder
<1>2. \A a \in Int : a % BuffLen \in Slots
  BY Sizes, Remainder
<1>3. FirstSeq \in Int
  BY Sizes
<1>4. QED
  BY <1>1, <1>2, <1>3 DEF Sn, Dist, Add, Slot

LEMMA NumberAdd ==
    ASSUME NEW f \in Int, NEW n \in Int
    PROVE  Add(Sn(f), n) = Sn(f + n)
<1>1. FirstSeq + f \in Int /\ (FirstSeq + f) + n = FirstSeq + (f + n)
  BY Sizes
<1>2. (((FirstSeq + f) % SeqSpace) + n) % SeqSpace = ((FirstSeq + f) + n) % SeqSpace
  BY <1>1, Sizes, RemainderOfSum
<1>3. QED
  BY <1>1, <1>2 DEF Add, Sn

LEMMA NumberDist ==
    ASSUME NEW f \in Int, NEW s \in Int
    PROVE  Dist(Sn(f), Sn(s)) = (f - s) % SeqSpace
<1>1. FirstSeq + f \in Int /\ FirstSeq + s \in Int /\ (FirstSeq + s) % SeqSpace \in Int
      /\ (FirstSeq + f) - (FirstSeq + s) = f - s
  BY Sizes, Remainder
<1>2. (((FirstSeq + f) % SeqSpace) - ((FirstSeq + s) % SeqSpace)) % SeqSpace
        = ((FirstSeq + f) - ((FirstSeq + s) % SeqSpace)) % SeqSpace
  <2>1. \A x, y \in Int : ((x % SeqSpace) - y) % SeqSpace = (x - y) % SeqSpace
    <3>1. SeqSpace \in Nat \ {0}
      BY Sizes
    <3>2. QED
      BY <3>1, RemainderOfSum, ZenonT(40)
  <2>2. QED
    BY <1>1, <2>1
<1>3. ((FirstSeq + f) - ((FirstSeq + s) % SeqSpace)) % SeqSpace
        = ((FirstSeq + f) - (FirstSeq + s)) % SeqSpace
  BY <1>1, Sizes, RemainderOfSum
<1>4. QED
  BY <1>1, <1>2, <1>3 DEF Dist, Sn

\* Distance and addition undo each other.
LEMMA DistAdd ==
    ASSUME NEW a \in Int, NEW k \in 0 .. SeqSpace - 1
    PROVE  Dist(Add(a, k), a) = k
<1>1. a + k \in Int /\ (a + k) - a = k /\ k \in Int
  BY Sizes
<1>2. (((a + k) % SeqSpace) - a) % SeqSpace = ((a + k) - a) % SeqSpace
  BY <1>1, Sizes, RemainderOfSum
<1>3. k % SeqSpace = k
  BY <1>1, Sizes, RemainderNear
<1>4. QED
  BY <1>1, <1>2, <1>3 DEF Dist, Add

LEMMA AddDist ==
    ASSUME NEW a \in 0 .. SeqSpace - 1, NEW b \in Int
    PROVE  Add(b, Dist(a, b)) = a
<1>1. a - b \in Int /\ (a - b) + b = a /\ a \in Int /\ (a - b) % SeqSpace \in Int
  BY Sizes, Remainder
<1>2. (((a - b) % SeqSpace) + b) % SeqSpace = ((a - b) + b) % SeqSpace
  BY <1>1, Sizes, RemainderOfSum
<1>3. b + ((a - b) % SeqSpace) = ((a - b) % SeqSpace) + b
  BY <1>1
<1>4. a % SeqSpace = a
  BY <1>1, Sizes, RemainderNear
<1>5. QED
  BY <1>1, <1>2, <1>3, <1>4 DEF Dist, Add

LEMMA AddAdd ==
    ASSUME NEW a \in Int, NEW n \in Int, NEW k \in Int
    PROVE  Add(Add(a, n), k) = Add(a, n + k)
<1>1. a + n \in Int /\ (a + n) + k = a + (n + k)
  OBVIOUS
<1>2. (((a + n) % SeqSpace) + k) % SeqSpace = ((a + n) + k) % SeqSpace
  BY <1>1, Sizes, RemainderOfSum
<1>3. QED
  BY <1>1, <1>2 DEF Add

\* The buffer divides the numbers: a slot does not see them wrap.
LEMMA SlotOfNumber ==
    ASSUME NEW a \in Int
    PROVE  (a % SeqSpace) % BuffLen = a % BuffLen
<1>1. PICK c \in Int : SeqSpace = BuffLen * c
  <2>1. \E q \in Int : SeqSpace = (BuffLen * q) + (SeqSpace % BuffLen)
    <3>1. SeqSpace \in Int
      BY Sizes
    <3>2. QED
      BY <3>1, Sizes, Remainder, Zenon
  <2>2. SeqSpace % BuffLen = 0
    BY WindowAssumption
  <2>3. \A q \in Int : (BuffLen * q) + 0 = BuffLen * q
    BY Sizes
  <2>4. QED
    BY <2>1, <2>2, <2>3
<1>2. PICK q \in Int : a = (SeqSpace * q) + (a % SeqSpace)
  BY Sizes, Remainder
<1>3. a % SeqSpace \in Int
  BY Sizes, Remainder
<1> DEFINE r == a % SeqSpace
<1>4. (BuffLen * c) * q = BuffLen * (c * q) /\ c * q \in Int
  BY Sizes
<1>5. r \in Int /\ a = r + (BuffLen * (c * q))
  BY <1>1, <1>2, <1>3, <1>4
<1> HIDE DEF r
<1>6. a % BuffLen = r % BuffLen
  <2>1. a = r + (BuffLen * (c * q)) /\ r \in Int /\ c * q \in Int /\ BuffLen \in Nat \ {0}
    BY <1>4, <1>5, Sizes
  <2>2. QED
    BY <2>1, SameRemainder, ZenonT(40)
<1>7. QED
  BY <1>6 DEF r

LEMMA SlotAdd ==
    ASSUME NEW a \in Int, NEW n \in Int, NEW k \in Int
    PROVE  /\ Slot(Add(a, n)) = Slot(a + n)
           /\ Slot(Add(a, n) + k) = Slot(a + (n + k))
<1>1. a + n \in Int /\ (a + n) % SeqSpace \in Int /\ (a + n) % BuffLen \in Int
      /\ (a + n) + k = a + (n + k)
  BY Sizes, Remainder
<1>2. ((a + n) % SeqSpace) % BuffLen = (a + n) % BuffLen
  BY <1>1, SlotOfNumber
<1>3. \A x, y \in Int : ((x % BuffLen) + y) % BuffLen = (x + y) % BuffLen
  <2>1. BuffLen \in Nat \ {0}
    BY Sizes
  <2>2. QED
    BY <2>1, RemainderOfSum, ZenonT(40)
<1>4. /\ (((a + n) % SeqSpace) + k) % BuffLen = ((((a + n) % SeqSpace) % BuffLen) + k) % BuffLen
      /\ (((a + n) % BuffLen) + k) % BuffLen = ((a + n) + k) % BuffLen
  BY <1>1, <1>3
<1>5. QED
  BY <1>1, <1>2, <1>3, <1>4 DEF Slot, Add

\* The window goes round the buffer once.
LEMMA SlotRound ==
    ASSUME NEW a \in Int
    PROVE  /\ Slot(a + BuffLen) = Slot(a)
           /\ \A j, k \in Slots : Slot(a + j) = Slot(a + k) => j = k
           /\ \A i \in Slots : (i - a) % BuffLen \in Slots /\ Slot(a + ((i - a) % BuffLen)) = i
<1>1. Slot(a + BuffLen) = Slot(a)
  <2> DEFINE b == a + BuffLen
  <2>1. b = a + (BuffLen * 1) /\ b \in Int /\ 1 \in Int
    BY Sizes
  <2> HIDE DEF b
  <2>2. b % BuffLen = a % BuffLen
    BY <2>1, Sizes, SameRemainder, ZenonT(40)
  <2>3. QED
    BY <2>2 DEF Slot, b
<1>2. ASSUME NEW j \in Slots, NEW k \in Slots, Slot(a + j) = Slot(a + k) PROVE j = k
  <2>1. a + j \in Int /\ a + k \in Int /\ j \in Int /\ k \in Int
    BY Sizes
  <2>2. PICK p \in Int : a + j = (BuffLen * p) + ((a + j) % BuffLen)
    BY <2>1, Sizes, Remainder
  <2>3. PICK q \in Int : a + k = (BuffLen * q) + ((a + k) % BuffLen)
    BY <2>1, Sizes, Remainder
  <2>4. (a + j) % BuffLen = (a + k) % BuffLen /\ (a + k) % BuffLen \in Int
    BY <1>2, <2>1, Sizes, Remainder DEF Slot
  <2>5. BuffLen * (p - q) = j - k
    BY <2>1, <2>2, <2>3, <2>4, Sizes
  <2>6. j - k < BuffLen /\ j - k > -BuffLen
    BY Sizes
  <2>7. p - q = 0
    BY <2>5, <2>6, Sizes, SmallMultiple
  <2>8. QED
    BY <2>1, <2>5, <2>7, Sizes
<1>3. ASSUME NEW i \in Slots
      PROVE  (i - a) % BuffLen \in Slots /\ Slot(a + ((i - a) % BuffLen)) = i
  <2>1. i - a \in Int /\ i \in Int /\ (i - a) + a = i /\ (i - a) % BuffLen \in Slots
    BY Sizes, Remainder
  <2>2. (((i - a) % BuffLen) + a) % BuffLen = ((i - a) + a) % BuffLen
    BY <2>1, Sizes, RemainderOfSum
  <2>3. i % BuffLen = i
    BY <2>1, Sizes, RemainderNear
  <2>4. a + ((i - a) % BuffLen) = ((i - a) % BuffLen) + a
    BY <2>1, Sizes
  <2>5. QED
    BY <2>1, <2>2, <2>3, <2>4 DEF Slot
<1>4. QED
  BY <1>1, <1>2, <1>3

-----------------------------------------------------------------------------
(* The buffer, slot by slot of the window.                                  *)

\* The frame in the k-th slot, and the age of its mark.
B(t, k) == t.buff[At(t, k)]
A(t, k) == t.age[At(t, k)]

Ages == (0 .. MaxAge) \cup {None}

TidRec == [en : BOOLEAN, wind : {0, BuffLen}, start : 0 .. SeqSpace - 1, buffed : Int,
           up : Seq(Frames \cup {None}), buff : [Slots -> Frames \cup {None}],
           age : [Slots -> Ages]]

Filled(t)  == {i \in Slots : t.buff[i] # None}
Counted(t) == t.buffed = Cardinality(Filled(t))

\* Each frame is in the slot of its number.
Placed(t) == \A k \in Slots : B(t, k) # None => Sn(B(t, k)) = Add(t.start, k)

\* The window starts with the peer's frame s.
WindowFrom(t, s) ==
    /\ s \in Nat /\ t.start = Sn(s)
    /\ \A k \in Slots : B(t, k) # None => B(t, k) = s + k

\* The marks end with the last frame, the oldest first.
MarksOK(t) ==
    \A k \in Slots :
      /\ (A(t, k) # None) <=> (\E j \in k .. BuffLen - 1 : B(t, j) # None)
      /\ \A j \in 0 .. k : A(t, k) # None => A(t, j) # None /\ A(t, j) >= A(t, k)

LEMMA Typed ==
    ASSUME NEW t \in TidRec
    PROVE  /\ t.start \in Int /\ t.start \in 0 .. SeqSpace - 1 /\ t.buffed \in Int
           /\ t.up \in Seq(Frames \cup {None})
           /\ t.buff \in [Slots -> Frames \cup {None}] /\ t.age \in [Slots -> Ages]
           /\ t.en \in BOOLEAN /\ t.wind \in {0, BuffLen}
           /\ DOMAIN t = {"en", "wind", "start", "buffed", "up", "buff", "age"}
  BY DEF TidRec

\* A record with another buffer.
LEMMA Rebuilt ==
    ASSUME NEW t \in TidRec, NEW r,
           r = [t EXCEPT !.buff = r.buff, !.age = r.age, !.buffed = r.buffed,
                         !.start = r.start, !.up = r.up],
           r.start \in 0 .. SeqSpace - 1, r.buffed \in Int, r.up \in Seq(Frames \cup {None}),
           r.buff \in [Slots -> Frames \cup {None}], r.age \in [Slots -> Ages]
    PROVE  r \in TidRec
  BY DEF TidRec

LEMMA SlotsOf ==
    ASSUME NEW t \in TidRec
    PROVE  /\ \A k \in Int : At(t, k) \in Slots
           /\ \A k \in Slots : At(t, k) \in Slots
           /\ \A j, k \in Slots : At(t, j) = At(t, k) => j = k
           /\ \A i \in Slots : (i - t.start) % BuffLen \in Slots
                               /\ At(t, (i - t.start) % BuffLen) = i
           /\ \A k \in Slots : B(t, k) \in Frames \cup {None} /\ A(t, k) \in Ages
<1>1. t.start \in Int /\ \A k \in Int : t.start + k \in Int
  BY Typed
<1>2. (\A k \in Int : At(t, k) \in Slots) /\ (\A k \in Slots : At(t, k) \in Slots)
  <2>1. \A k \in Int : At(t, k) \in Slots
    BY <1>1, NumbersInRange DEF At
  <2>2. \A k \in Slots : k \in Int
    BY Sizes
  <2>3. QED
    BY <2>1, <2>2
<1>3. \A j, k \in Slots : At(t, j) = At(t, k) => j = k
  BY <1>1, SlotRound DEF At
<1>4. \A i \in Slots : (i - t.start) % BuffLen \in Slots /\ At(t, (i - t.start) % BuffLen) = i
  BY <1>1, SlotRound DEF At
<1>5. \A k \in Slots : k \in Int
  BY Sizes
<1>6. \A k \in Slots : B(t, k) \in Frames \cup {None} /\ A(t, k) \in Ages
  BY <1>2, <1>5, Typed DEF A, B
<1>7. QED
  BY <1>2, <1>3, <1>4, <1>6

\* A set of slots and what it holds is finite.
LEMMA FilledFinite ==
    ASSUME NEW t
    PROVE  IsFiniteSet(Filled(t)) /\ Cardinality(Filled(t)) \in 0 .. BuffLen
<1>1. IsFiniteSet(Slots) /\ Cardinality(Slots) = BuffLen
  BY Sizes, FS_Interval
<1>2. Filled(t) \in SUBSET Slots
  BY DEF Filled
<1>3. IsFiniteSet(Filled(t)) /\ Cardinality(Filled(t)) <= BuffLen
  BY <1>1, <1>2, FS_Subset
<1>4. QED
  BY <1>3, FS_CardinalityType, Sizes

\* Nothing is counted exactly when every slot is empty.
LEMMA NoneFilled ==
    ASSUME NEW t \in TidRec, Counted(t)
    PROVE  /\ t.buffed \in 0 .. BuffLen
           /\ t.buffed = 0 <=> \A k \in Slots : B(t, k) = None
           /\ t.buffed = 0 <=> \A i \in Slots : t.buff[i] = None
<1>1. t.buffed = 0 <=> Filled(t) = {}
  BY FilledFinite, FS_EmptySet DEF Counted
<1>2. Filled(t) = {} <=> \A i \in Slots : t.buff[i] = None
  BY DEF Filled
<1>3. (\A i \in Slots : t.buff[i] = None) <=> \A k \in Slots : B(t, k) = None
  <2>1. ASSUME \A i \in Slots : t.buff[i] = None, NEW k \in Slots PROVE B(t, k) = None
    <3>1. At(t, k) \in Slots
      BY SlotsOf
    <3>2. QED
      BY <2>1, <3>1 DEF B
  <2>2. ASSUME \A k \in Slots : B(t, k) = None, NEW i \in Slots PROVE t.buff[i] = None
    BY <2>2, SlotsOf DEF B
  <2>3. QED
    BY <2>1, <2>2
<1>4. QED
  BY <1>1, <1>2, <1>3, FilledFinite DEF Counted

\* Taking n slots from the start moves the others up by n.
LEMMA ReleaseMoves ==
    ASSUME NEW t \in TidRec, NEW n \in 0 .. BuffLen
    PROVE  LET r == Release(t, n)
           IN /\ r \in TidRec /\ r.start = Add(t.start, n)
              /\ r.up = t.up /\ r.en = t.en /\ r.wind = t.wind
              /\ \A k \in Slots : /\ B(r, k) = IF n + k < BuffLen THEN B(t, n + k) ELSE None
                                  /\ A(r, k) = IF n + k < BuffLen THEN A(t, n + k) ELSE None
              /\ Counted(t) => Counted(r)
<1> DEFINE gone == {At(t, k) : k \in 0 .. n - 1}
           out  == {i \in gone : t.buff[i] # None}
           r    == Release(t, n)
<1>0. n \in Int /\ n >= 0 /\ n <= BuffLen /\ t.start \in Int /\ BuffLen \in Int
  BY Sizes, Typed
<1>1. gone \subseteq Slots
  BY <1>0, SlotsOf
<1>2. IsFiniteSet(out) /\ Cardinality(out) \in Int
  <2>1. out \subseteq Filled(t)
    BY <1>1 DEF Filled
  <2>2. QED
    BY <2>1, FilledFinite, FS_Subset, FS_CardinalityType
<1>3. /\ r.start = Add(t.start, n) /\ r.up = t.up /\ r.en = t.en /\ r.wind = t.wind
      /\ r.buffed = t.buffed - Cardinality(out)
      /\ r.buff = [i \in Slots |-> IF i \in gone THEN None ELSE t.buff[i]]
      /\ r.age = [i \in Slots |-> IF i \in gone THEN None ELSE t.age[i]]
      /\ DOMAIN r = DOMAIN t
  BY Typed DEF Release
<1>4. r \in TidRec
  <2>2. r.start \in 0 .. SeqSpace - 1
    BY <1>0, <1>3, NumbersInRange
  <2>3. r.buffed \in Int
    BY <1>2, <1>3, Typed
  <2>4. r.buff \in [Slots -> Frames \cup {None}]
    BY <1>3, Typed
  <2>5. r.age \in [Slots -> Ages]
    BY <1>3, Typed DEF Ages
  <2>6. r = [t EXCEPT !.buff = r.buff, !.age = r.age, !.buffed = r.buffed,
                      !.start = r.start, !.up = r.up]
    BY Typed DEF Release
  <2>7. r.up \in Seq(Frames \cup {None})
    BY <1>3, Typed
  <2> HIDE DEF r
  <2>8. QED
    BY <2>2, <2>3, <2>4, <2>5, <2>6, <2>7, Rebuilt
<1> HIDE DEF r
<1>5. ASSUME NEW k \in Slots
      PROVE  /\ B(r, k) = IF n + k < BuffLen THEN B(t, n + k) ELSE None
             /\ A(r, k) = IF n + k < BuffLen THEN A(t, n + k) ELSE None
  <2>1. k \in Int /\ n + k \in Int
    BY <1>0, Sizes
  <2>2. At(r, k) \in Slots
    BY <1>4, SlotsOf
  <2>3. r.start = Add(t.start, n)
    BY <1>3
  <2>4. At(r, k) = At(t, n + k)
    <3>1. Slot(Add(t.start, n) + k) = Slot(t.start + (n + k))
      BY <1>0, <2>1, SlotAdd
    <3>2. QED
      BY <2>3, <3>1 DEF At
  <2>5. CASE n + k < BuffLen
    <3>1. n + k \in Slots
      BY <1>0, <2>1, <2>5, Sizes
    <3>2. At(r, k) \notin gone
      <4>1. \A j \in 0 .. n - 1 : j \in Slots /\ j # n + k
        BY <1>0, Sizes
      <4>2. QED
        BY <2>4, <3>1, <4>1, SlotsOf
    <3>3. QED
      BY <1>3, <2>2, <2>4, <2>5, <3>2 DEF A, B
  <2>6. CASE ~ (n + k < BuffLen)
    <3>1. n + k - BuffLen \in 0 .. n - 1
      BY <1>0, <2>1, <2>6, Sizes
    <3>2. At(t, n + k) = At(t, n + k - BuffLen)
      <4>1. t.start + (n + k) = (t.start + (n + k - BuffLen)) + BuffLen
            /\ t.start + (n + k - BuffLen) \in Int
        BY <1>0, <2>1
      <4>2. QED
        BY <4>1, SlotRound DEF At
    <3>3. At(r, k) \in gone
      BY <2>4, <3>1, <3>2
    <3>4. QED
      BY <1>3, <2>2, <2>6, <3>3 DEF A, B
  <2>7. QED
    BY <2>5, <2>6
<1>6. ASSUME Counted(t) PROVE Counted(r)
  <2>1. Filled(r) = Filled(t) \ out
    BY <1>1, <1>3 DEF Filled
  <2>2. Filled(t) \cap out = out
    BY <1>1 DEF Filled
  <2>3. Cardinality(Filled(r)) = Cardinality(Filled(t)) - Cardinality(out)
    BY <2>1, <2>2, FilledFinite, FS_Difference
  <2>4. QED
    BY <1>3, <1>6, <2>3 DEF Counted
<1>7. QED
  BY <1>3, <1>4, <1>5, <1>6, Zenon DEF r

\* The largest of some numbers up to n.
LEMMA MaxOfSome ==
    ASSUME NEW n \in Int, NEW S \in SUBSET Int, S # {}, \A x \in S : x <= n
    PROVE  Max(S) \in S /\ \A x \in S : x <= Max(S)
<1> DEFINE less == {ss \in Nat \X Nat : ss[1] < ss[2]}
           T == {n - x : x \in S}
<1>1. IsWellFoundedOn(less, Nat)
  BY NatLessThanWellFounded, Zenon DEF OpToRel
<1>2. T \subseteq Nat /\ T # {}
  <2>1. \A x \in S : n - x \in Nat
    OBVIOUS
  <2>2. QED
    BY <2>1
<1>3. PICK y \in T : \A z \in T : ~ (<<z, y>> \in less)
  <2> HIDE DEF less, T
  <2>1. QED
    BY <1>1, <1>2, WFMin
<1>4. PICK x \in S : y = n - x
  BY <1>3
<1>5. ASSUME NEW w \in S PROVE w <= x
  <2>1. n - w \in T /\ n - w \in Nat /\ y \in Nat
    BY <1>2, <1>3
  <2>2. <<n - w, y>> \in Nat \X Nat /\ <<n - w, y>>[1] = n - w /\ <<n - w, y>>[2] = y
    BY <2>1
  <2>3. ~ (n - w < y)
    BY <1>3, <2>1, <2>2
  <2>4. w \in Int /\ x \in Int
    OBVIOUS
  <2>5. QED
    BY <1>4, <2>3, <2>4
<1>6. QED
  BY <1>4, <1>5 DEF Max

\* r is t with the first n slots of its window handed up.
Freed(t, n, r) ==
    /\ r.start = Add(t.start, n) /\ r.en = t.en /\ r.wind = t.wind
    /\ \A k \in Slots : /\ B(r, k) = IF n + k < BuffLen THEN B(t, n + k) ELSE None
                        /\ A(r, k) = IF n + k < BuffLen THEN A(t, n + k) ELSE None
    /\ Len(r.up) = Len(t.up) + n
    /\ \A i \in 1 .. Len(t.up) : r.up[i] = t.up[i]
    /\ \A i \in 1 .. n : r.up[Len(t.up) + i] = B(t, i - 1)

LEMMA ForceFreeFrees ==
    ASSUME NEW t \in TidRec, NEW n \in 0 .. BuffLen
    PROVE  /\ ForceFree(t, n) \in TidRec
           /\ Freed(t, n, ForceFree(t, n))
           /\ Counted(t) => Counted(ForceFree(t, n))
<1> DEFINE q == Release(t, n)
           r == ForceFree(t, n)
           held == [k \in 1 .. n |-> B(t, k - 1)]
<1>0. n \in Nat /\ n <= BuffLen
  BY Sizes
<1>1. /\ q \in TidRec /\ q.start = Add(t.start, n)
      /\ q.up = t.up /\ q.en = t.en /\ q.wind = t.wind
      /\ \A k \in Slots : /\ B(q, k) = IF n + k < BuffLen THEN B(t, n + k) ELSE None
                          /\ A(q, k) = IF n + k < BuffLen THEN A(t, n + k) ELSE None
      /\ Counted(t) => Counted(q)
  BY ReleaseMoves
<1>2. r = [q EXCEPT !.up = t.up \o held]
  BY Zenon DEF ForceFree, B
<1> HIDE DEF q, r
<1>3. held \in Seq(Frames \cup {None}) /\ Len(held) = n
  <2>1. \A k \in 1 .. n : k - 1 \in Slots
    BY <1>0, Sizes
  <2>2. held \in [1 .. n -> Frames \cup {None}]
    BY <2>1, SlotsOf
  <2> HIDE DEF held
  <2>3. QED
    BY <1>0, <2>2, SeqDef, LenProperties
<1>4. t.up \in Seq(Frames \cup {None})
  BY Typed
<1>5. /\ t.up \o held \in Seq(Frames \cup {None})
      /\ Len(t.up \o held) = Len(t.up) + n
      /\ \A i \in 1 .. Len(t.up) : (t.up \o held)[i] = t.up[i]
      /\ \A i \in 1 .. n : (t.up \o held)[Len(t.up) + i] = held[i]
  <2>1. Len(t.up) \in Nat
    BY <1>4, LenProperties
  <2> HIDE DEF held
  <2>2. QED
    BY <1>0, <1>3, <1>4, <2>1
<1>6. /\ r.up = t.up \o held /\ r.start = q.start /\ r.en = q.en /\ r.wind = q.wind
      /\ r.buff = q.buff /\ r.age = q.age /\ r.buffed = q.buffed
      /\ r = [q EXCEPT !.buff = r.buff, !.age = r.age, !.buffed = r.buffed,
                       !.start = r.start, !.up = r.up]
  <2> HIDE DEF held
  <2>1. QED
    BY <1>1, <1>2 DEF TidRec
<1>7. r \in TidRec
  <2>1. r.up \in Seq(Frames \cup {None})
    BY <1>5, <1>6
  <2>2. QED
    BY <1>1, <1>6, <2>1, Typed, Rebuilt
<1>8. \A k \in Slots : B(r, k) = B(q, k) /\ A(r, k) = A(q, k)
  BY <1>6 DEF A, B, At
<1>9. Counted(q) => Counted(r)
  BY <1>6 DEF Counted, Filled
<1>10. \A i \in 1 .. n : held[i] = B(t, i - 1)
  OBVIOUS
<1> HIDE DEF held
<1>11. Freed(t, n, r)
  BY <1>1, <1>5, <1>6, <1>8, <1>10 DEF Freed
<1>12. QED
  BY <1>1, <1>7, <1>9, <1>11 DEF r

\* What the buffer promises survives, moved along.
LEMMA FreedKeeps ==
    ASSUME NEW t \in TidRec, NEW r \in TidRec, NEW n \in 0 .. BuffLen, Freed(t, n, r)
    PROVE  /\ Placed(t) => Placed(r)
           /\ MarksOK(t) => MarksOK(r)
           /\ \A s : WindowFrom(t, s) => WindowFrom(r, s + n)
<1>0. n \in Nat /\ BuffLen \in Int /\ t.start \in Int /\ \A k \in Slots : k \in Nat /\ k < BuffLen
  BY Sizes, Typed
<1>1. \A k \in Slots : B(r, k) # None => n + k \in Slots /\ B(r, k) = B(t, n + k)
  BY <1>0, Sizes DEF Freed
<1>2. ASSUME Placed(t) PROVE Placed(r)
  <2>1. SUFFICES ASSUME NEW k \in Slots, B(r, k) # None PROVE Sn(B(r, k)) = Add(r.start, k)
    BY DEF Placed
  <2>2. n + k \in Slots /\ B(r, k) = B(t, n + k)
    BY <1>1, <2>1
  <2>3. Sn(B(r, k)) = Add(t.start, n + k)
    BY <1>2, <2>1, <2>2 DEF Placed
  <2>4. Add(r.start, k) = Add(t.start, n + k)
    <3>1. r.start = Add(t.start, n) /\ k \in Int /\ n \in Int /\ t.start \in Int
      BY <1>0 DEF Freed
    <3>2. Add(Add(t.start, n), k) = Add(t.start, n + k)
      BY <3>1, AddAdd, Zenon
    <3>3. QED
      BY <3>1, <3>2
  <2>5. QED
    BY <2>3, <2>4
<1>3. ASSUME MarksOK(t) PROVE MarksOK(r)
  <2>1. ASSUME NEW k \in Slots
        PROVE  (A(r, k) # None) <=> (\E j \in k .. BuffLen - 1 : B(r, j) # None)
    <3>1. CASE n + k < BuffLen
      <4>1. n + k \in Slots /\ A(r, k) = A(t, n + k)
        BY <1>0, <3>1, Sizes DEF Freed
      <4>2. (A(t, n + k) # None) <=> (\E j \in n + k .. BuffLen - 1 : B(t, j) # None)
        BY <1>3, <4>1 DEF MarksOK
      <4>3. ASSUME NEW j \in n + k .. BuffLen - 1, B(t, j) # None
            PROVE  \E i \in k .. BuffLen - 1 : B(r, i) # None
        <5>1. j - n \in k .. BuffLen - 1 /\ j - n \in Slots /\ n + (j - n) = j /\ j < BuffLen
          BY <1>0, Sizes
        <5>2. B(r, j - n) = B(t, j)
          BY <5>1 DEF Freed
        <5>3. QED
          BY <4>3, <5>1, <5>2
      <4>4. ASSUME NEW j \in k .. BuffLen - 1, B(r, j) # None
            PROVE  \E i \in n + k .. BuffLen - 1 : B(t, i) # None
        <5>1. j \in Slots
          BY <1>0, Sizes
        <5>2. n + j \in Slots /\ B(t, n + j) # None
          BY <1>1, <4>4, <5>1
        <5>3. n + j \in n + k .. BuffLen - 1
          BY <1>0, <5>2, Sizes
        <5>4. QED
          BY <5>2, <5>3
      <4>5. QED
        BY <4>1, <4>2, <4>3, <4>4
    <3>2. CASE ~ (n + k < BuffLen)
      <4>1. A(r, k) = None
        BY <3>2 DEF Freed
      <4>2. \A j \in k .. BuffLen - 1 : j \in Slots /\ ~ (n + j < BuffLen)
        BY <1>0, <3>2, Sizes
      <4>3. \A j \in k .. BuffLen - 1 : B(r, j) = None
        BY <4>2 DEF Freed
      <4>4. QED
        BY <4>1, <4>3
    <3>3. QED
      BY <3>1, <3>2
  <2>2. ASSUME NEW k \in Slots, NEW j \in 0 .. k, A(r, k) # None
        PROVE  A(r, j) # None /\ A(r, j) >= A(r, k)
    <3>1. n + k \in Slots /\ A(r, k) = A(t, n + k)
      BY <1>0, <2>2, Sizes DEF Freed
    <3>2. j \in Slots /\ n + j < BuffLen /\ n + j \in 0 .. n + k
      BY <1>0, <3>1, Sizes
    <3>3. A(r, j) = A(t, n + j)
      BY <3>2 DEF Freed
    <3>4. QED
      BY <1>3, <2>2, <3>1, <3>2, <3>3 DEF MarksOK
  <2>3. QED
    BY <2>1, <2>2 DEF MarksOK
<1>4. ASSUME NEW s, WindowFrom(t, s) PROVE WindowFrom(r, s + n)
  <2>1. s \in Nat /\ s \in Int /\ n \in Int /\ t.start = Sn(s)
    BY <1>0, <1>4 DEF WindowFrom
  <2>2. r.start = Sn(s + n) /\ s + n \in Nat
    BY <1>0, <2>1, NumberAdd DEF Freed
  <2>3. ASSUME NEW k \in Slots, B(r, k) # None PROVE B(r, k) = (s + n) + k
    <3>1. n + k \in Slots /\ B(r, k) = B(t, n + k)
      BY <1>1, <2>3
    <3>2. B(t, n + k) = s + (n + k)
      BY <1>4, <2>3, <3>1 DEF WindowFrom
    <3>3. QED
      BY <1>0, <2>1, <3>1, <3>2
  <2>4. QED
    BY <2>2, <2>3 DEF WindowFrom
<1>5. QED
  BY <1>2, <1>3, <1>4

\* What t has handed up are the peer's frames from s0 up to s, some missing.
UpFrom(t, s0, s) ==
    /\ Len(t.up) = s - s0
    /\ \A i \in 1 .. Len(t.up) : t.up[i] \in {None, s0 + i - 1}

LEMMA UpGrows ==
    ASSUME NEW t \in TidRec, NEW r \in TidRec, NEW n \in 0 .. BuffLen, Freed(t, n, r),
           NEW s0 \in Nat, NEW s \in Nat, WindowFrom(t, s), UpFrom(t, s0, s)
    PROVE  UpFrom(r, s0, s + n)
<1>0. n \in Nat /\ n <= BuffLen /\ BuffLen \in Int /\ Len(t.up) \in Nat /\ Len(r.up) = Len(t.up) + n
      /\ Len(t.up) = s - s0
  BY Sizes, Typed, LenProperties DEF Freed, UpFrom
<1>1. ASSUME NEW i \in 1 .. Len(r.up) PROVE r.up[i] \in {None, s0 + i - 1}
  <2>1. CASE i <= Len(t.up)
    <3>1. i \in 1 .. Len(t.up)
      BY <1>0, <2>1
    <3>2. QED
      BY <3>1 DEF Freed, UpFrom
  <2>2. CASE ~ (i <= Len(t.up))
    <3> DEFINE k == i - Len(t.up)
    <3>1. k \in 1 .. n /\ k - 1 \in Slots /\ i = Len(t.up) + k /\ s + (k - 1) = s0 + i - 1
      BY <1>0, <2>2, Sizes
    <3> HIDE DEF k
    <3>2. r.up[i] = B(t, k - 1)
      BY <3>1 DEF Freed
    <3>3. B(t, k - 1) \in {None, s + (k - 1)}
      BY <3>1 DEF WindowFrom
    <3>4. QED
      BY <3>1, <3>2, <3>3
  <2>3. QED
    BY <2>1, <2>2
<1>2. QED
  BY <1>0, <1>1 DEF UpFrom

\* Prefix counts the slots from the start of the window on that are in S.
LEMMA PrefixCounts ==
    ASSUME NEW t, NEW S
    PROVE  /\ Prefix(t, S) \in 0 .. BuffLen
           /\ \A k \in 0 .. Prefix(t, S) - 1 : At(t, k) \in S
           /\ Prefix(t, S) < BuffLen => At(t, Prefix(t, S)) \notin S
<1> DEFINE R == {n \in 0 .. BuffLen : \A k \in 0 .. n - 1 : At(t, k) \in S}
           p == Max(R)
<1>1. 0 \in R /\ R \in SUBSET Int /\ (\A x \in R : x <= BuffLen) /\ BuffLen \in Int
  BY Sizes
<1>2. p \in R /\ \A x \in R : x <= p
  <2> HIDE DEF R
  <2>1. QED
    BY <1>1, MaxOfSome
<1>3. Prefix(t, S) = p
  BY DEF Prefix
<1> HIDE DEF p
<1>4. p \in 0 .. BuffLen /\ \A k \in 0 .. p - 1 : At(t, k) \in S
  BY <1>2
<1>5. ASSUME p < BuffLen, At(t, p) \in S PROVE FALSE
  <2>1. p + 1 \in 0 .. BuffLen /\ \A k \in 0 .. p : k = p \/ k \in 0 .. p - 1
    BY <1>1, <1>4, <1>5
  <2>2. \A k \in 0 .. (p + 1) - 1 : At(t, k) \in S
    BY <1>4, <1>5, <2>1
  <2>3. p + 1 \in R
    BY <2>1, <2>2
  <2>4. QED
    BY <1>1, <1>2, <1>4, <2>3
<1>6. QED
  BY <1>3, <1>4, <1>5

\* What is in turn goes up: some slots from the start on, each with a frame.
LEMMA UpLayerFrees ==
    ASSUME NEW t \in TidRec, Counted(t)
    PROVE  \E m \in 0 .. BuffLen : /\ UpLayer(t) = ForceFree(t, m)
                                   /\ \A k \in 0 .. m - 1 : B(t, k) # None
<1> DEFINE S == {i \in Slots : t.buff[i] # None}
           p == Prefix(t, S)
           m == IF p < t.buffed THEN p ELSE t.buffed
<1>1. p \in 0 .. BuffLen /\ \A k \in 0 .. p - 1 : At(t, k) \in S
  BY PrefixCounts
<1>2. t.buffed \in 0 .. BuffLen /\ BuffLen \in Int
  BY NoneFilled, Sizes
<1>3. UpLayer(t) = ForceFree(t, m)
  BY DEF UpLayer
<1> HIDE DEF p
<1>4. m \in 0 .. BuffLen /\ \A k \in 0 .. m - 1 : k \in 0 .. p - 1
  BY <1>1, <1>2
<1> HIDE DEF m
<1>5. \A k \in 0 .. m - 1 : B(t, k) # None
  BY <1>1, <1>4 DEF B
<1>6. QED
  BY <1>3, <1>4, <1>5

\* The time-out gives up slots that are all marked; the first one it keeps is
\* not marked for half the time.
LEMMA ExpiredCounts ==
    ASSUME NEW t \in TidRec, t.wind = BuffLen
    PROVE  /\ Expired(t) \in 0 .. BuffLen
           /\ \A k \in 0 .. Expired(t) - 1 : A(t, k) # None
           /\ Expired(t) < BuffLen => A(t, Expired(t)) = None \/ A(t, Expired(t)) < Half
<1> DEFINE S == {i \in Slots : t.age[i] # None /\ t.age[i] >= Half}
           p == Prefix(t, S)
<1>1. p \in 0 .. BuffLen /\ (\A k \in 0 .. p - 1 : At(t, k) \in S) /\ (p < BuffLen => At(t, p) \notin S)
  BY PrefixCounts
<1>2. Expired(t) = p
  <2>1. Expired(t) = IF p < t.wind THEN p ELSE t.wind
    BY DEF Expired
  <2> HIDE DEF p
  <2>2. QED
    BY <1>1, <2>1, Sizes
<1> HIDE DEF p
<1>3. \A k \in 0 .. p - 1 : A(t, k) # None
  BY <1>1 DEF A
<1>4. ASSUME p < BuffLen PROVE A(t, p) = None \/ A(t, p) < Half
  <2>1. p \in Slots
    BY <1>1, <1>4, Sizes
  <2>2. At(t, p) \in Slots /\ A(t, p) \in Ages
    BY <2>1, SlotsOf
  <2>3. A(t, p) = None \/ ~ (A(t, p) >= Half)
    BY <1>1, <1>4, <2>2 DEF A
  <2>4. MaxAge \in Int /\ Half \in Int
    BY WindowAssumption DEF MaxAge, Half
  <2>5. QED
    BY <2>2, <2>3, <2>4 DEF Ages
<1>5. QED
  BY <1>1, <1>2, <1>3, <1>4

\* A frame is put into its slot, an empty one of the window, and marks it and
\* what is missing before it.
Queued(t, f, d, r) ==
    /\ r.start = t.start /\ r.en = t.en /\ r.wind = t.wind /\ r.up = t.up
    /\ \A k \in Slots :
         /\ B(r, k) = IF k = d THEN f ELSE B(t, k)
         /\ A(r, k) = IF k <= d /\ \A j \in k .. d : A(t, j) = None THEN 0 ELSE A(t, k)

LEMMA BuffQueueQueues ==
    ASSUME NEW t \in TidRec, NEW f \in Frames, NEW d \in Slots,
           d = Dist(Sn(f), t.start), B(t, d) = None
    PROVE  /\ BuffQueue(t, f) \in TidRec
           /\ Queued(t, f, d, BuffQueue(t, f))
           /\ Counted(t) => Counted(BuffQueue(t, f))
<1> DEFINE i == Slot(Sn(f))
           r == BuffQueue(t, f)
<1>0. d \in Nat /\ d < BuffLen /\ BuffLen \in Int /\ t.start \in Int /\ f \in Int /\ f # None
  BY Sizes, Typed
<1>1. i = At(t, d) /\ i \in Slots
  <2>1. Sn(f) \in 0 .. SeqSpace - 1
    BY <1>0, NumbersInRange
  <2>2. Add(t.start, d) = Sn(f)
    BY <1>0, <2>1, AddDist
  <2>3. Slot(Add(t.start, d)) = Slot(t.start + d)
    <3>1. t.start \in Int /\ d \in Int
      BY <1>0
    <3>2. QED
      BY <3>1, SlotAdd, Zenon
  <2>4. QED
    BY <2>2, <2>3, SlotsOf DEF At
<1>2. (i - t.start) % BuffLen = d
  <2>1. (i - t.start) % BuffLen \in Slots /\ At(t, (i - t.start) % BuffLen) = i
    BY <1>1, SlotsOf
  <2>2. QED
    BY <1>1, <2>1, SlotsOf
<1>3. Marked(t, i) = {At(t, k) : k \in {k \in 0 .. d : \A j \in k .. d : t.age[At(t, j)] = None}}
  BY <1>2 DEF Marked
<1> DEFINE M == Marked(t, i)
<1>4. /\ r.buff = [t.buff EXCEPT ![i] = f] /\ r.buffed = t.buffed + 1
      /\ r.age = [j \in Slots |-> IF j \in M THEN 0 ELSE t.age[j]]
      /\ r.start = t.start /\ r.en = t.en /\ r.wind = t.wind /\ r.up = t.up
      /\ r = [t EXCEPT !.buff = r.buff, !.age = r.age, !.buffed = r.buffed,
                       !.start = r.start, !.up = r.up]
  BY Typed DEF BuffQueue, TidRec
<1> HIDE DEF r, i
<1>5. r \in TidRec
  <2>1. r.buff \in [Slots -> Frames \cup {None}]
    BY <1>1, <1>4, Typed
  <2>2. 0 \in Ages
    BY WindowAssumption DEF Ages, MaxAge, Half
  <2>3. r.age \in [Slots -> Ages]
    <3> HIDE DEF M
    <3>1. QED
      BY <1>4, <2>2, Typed
  <2>4. r.buffed \in Int
    BY <1>4, Typed
  <2>5. QED
    BY <1>4, <2>1, <2>3, <2>4, Typed, Rebuilt
<1>6. ASSUME NEW k \in Slots
      PROVE  /\ B(r, k) = IF k = d THEN f ELSE B(t, k)
             /\ A(r, k) = IF k <= d /\ \A j \in k .. d : A(t, j) = None THEN 0 ELSE A(t, k)
  <2>1. At(r, k) = At(t, k) /\ At(t, k) \in Slots /\ (At(t, k) = i <=> k = d)
    <3>1. At(r, k) = At(t, k)
      BY <1>4 DEF At
    <3>2. QED
      BY <1>1, <3>1, SlotsOf
  <2>2. B(r, k) = IF k = d THEN f ELSE B(t, k)
    BY <1>4, <2>1, Typed DEF B
  <2>3. At(t, k) \in M <=> k <= d /\ \A j \in k .. d : A(t, j) = None
    <3>1. k \in Nat /\ \A l \in 0 .. d : l \in Slots
      BY <1>0, Sizes
    <3>2. ASSUME At(t, k) \in M PROVE k <= d /\ \A j \in k .. d : A(t, j) = None
      <4>1. PICK l \in 0 .. d : At(t, k) = At(t, l) /\ \A j \in l .. d : t.age[At(t, j)] = None
        BY <1>3, <3>2
      <4>2. l = k
        BY <3>1, <4>1, SlotsOf
      <4>3. QED
        BY <1>0, <3>1, <4>1, <4>2 DEF A
    <3>3. ASSUME k <= d, \A j \in k .. d : A(t, j) = None PROVE At(t, k) \in M
      <4>1. k \in 0 .. d
        BY <1>0, <3>1, <3>3
      <4>2. QED
        BY <1>3, <3>3, <4>1 DEF A
    <3>4. QED
      BY <3>2, <3>3
  <2>4. A(r, k) = IF At(t, k) \in M THEN 0 ELSE A(t, k)
    <3> HIDE DEF M
    <3>1. QED
      BY <1>4, <2>1 DEF A
  <2> HIDE DEF M
  <2>5. QED
    BY <2>2, <2>3, <2>4
<1>7. ASSUME Counted(t) PROVE Counted(r)
  <2>1. i \notin Filled(t)
    BY <1>1 DEF Filled, B
  <2>2. Filled(r) = Filled(t) \cup {i}
    BY <1>0, <1>1, <1>4, Typed DEF Filled
  <2>3. Cardinality(Filled(r)) = Cardinality(Filled(t)) + 1
    BY <2>1, <2>2, FilledFinite, FS_AddElement
  <2>4. QED
    BY <1>4, <1>7, <2>3 DEF Counted
<1>8. QED
  BY <1>4, <1>5, <1>6, <1>7 DEF Queued, r

-----------------------------------------------------------------------------
(* What the operations on the buffer keep.                                  *)

\* The counter is right; with an agreement the frames are in their slots and
\* the marks are right.
Sound(t) ==
    /\ t \in TidRec /\ Counted(t)
    /\ t.wind = IF t.en THEN BuffLen ELSE 0
    /\ t.en => Placed(t) /\ MarksOK(t)

\* No mark is older than a.
Young(t, a) == \A k \in Slots : A(t, k) # None => A(t, k) <= a

\* The window starts with frame s, the frames from s0 to s went up, and those
\* in the buffer are before b.
Going(t, s0, s, b) ==
    /\ WindowFrom(t, s) /\ UpFrom(t, s0, s) /\ s <= b
    /\ \A k \in Slots : B(t, k) # None => s + k < b

\* What r, made of t, has kept.
Kept(t, r) ==
    /\ Sound(r) /\ r.en = t.en /\ r.wind = t.wind
    /\ \A a \in Int : Young(t, a) => Young(r, a)

LEMMA FreedGoes ==
    ASSUME NEW t \in TidRec, NEW r \in TidRec, NEW n \in 0 .. BuffLen, Freed(t, n, r),
           NEW s0 \in Nat, NEW s \in Nat, NEW b \in Int, Going(t, s0, s, b), s + n <= b
    PROVE  Going(r, s0, s + n, b)
<1>0. n \in Int /\ BuffLen \in Int /\ (\A k \in Slots : k \in Int /\ k >= 0) /\ n >= 0
  BY Sizes
<1>1. WindowFrom(r, s + n)
  BY FreedKeeps DEF Going
<1>2. UpFrom(r, s0, s + n)
  BY UpGrows DEF Going
<1>3. ASSUME NEW k \in Slots, B(r, k) # None PROVE (s + n) + k < b
  <2>1. n + k \in Slots /\ B(r, k) = B(t, n + k)
    BY <1>0, <1>3, Sizes DEF Freed
  <2>2. s + (n + k) < b
    BY <1>3, <2>1 DEF Going
  <2>3. QED
    BY <1>0, <2>2
<1>4. QED
  BY <1>1, <1>2, <1>3 DEF Going

LEMMA ForceFreeKeeps ==
    ASSUME NEW t, Sound(t), NEW n \in 0 .. BuffLen
    PROVE  /\ Kept(t, ForceFree(t, n))
           /\ \A k \in Slots : /\ n + k < BuffLen => B(ForceFree(t, n), k) = B(t, n + k)
                               /\ n + k < BuffLen => A(ForceFree(t, n), k) = A(t, n + k)
                               /\ n + k >= BuffLen => B(ForceFree(t, n), k) = None
           /\ ForceFree(t, n).start = Add(t.start, n)
           /\ \A s0, s \in Nat : \A b \in Int :
                Going(t, s0, s, b) /\ s + n <= b => Going(ForceFree(t, n), s0, s + n, b)
<1> DEFINE r == ForceFree(t, n)
<1>0. t \in TidRec /\ n \in Nat /\ BuffLen \in Int /\ \A k \in Slots : k \in Nat
  BY Sizes DEF Sound
<1>1. r \in TidRec /\ Freed(t, n, r) /\ Counted(r)
  BY <1>0, ForceFreeFrees DEF Sound
<1> HIDE DEF r
<1>2. r.en = t.en /\ r.wind = t.wind /\ r.start = Add(t.start, n)
  BY <1>1 DEF Freed
<1>3. Sound(r)
  BY <1>0, <1>1, <1>2, FreedKeeps DEF Sound
<1>4. \A k \in Slots : /\ n + k < BuffLen => B(r, k) = B(t, n + k) /\ A(r, k) = A(t, n + k)
                       /\ n + k >= BuffLen => B(r, k) = None /\ A(r, k) = None
  BY <1>0, <1>1 DEF Freed
<1>5. ASSUME NEW a \in Int, Young(t, a), NEW k \in Slots, A(r, k) # None PROVE A(r, k) <= a
  <2>1. n + k \in Slots /\ A(r, k) = A(t, n + k)
    BY <1>0, <1>4, <1>5, Sizes
  <2>2. QED
    BY <1>5, <2>1 DEF Young
<1>6. \A s0, s \in Nat : \A b \in Int :
        Going(t, s0, s, b) /\ s + n <= b => Going(r, s0, s + n, b)
  BY <1>0, <1>1, FreedGoes
<1>7. Kept(t, r)
  BY <1>2, <1>3, <1>5 DEF Kept, Young
<1>8. QED
  BY <1>2, <1>4, <1>6, <1>7 DEF r

LEMMA UpLayerKeeps ==
    ASSUME NEW t, Sound(t)
    PROVE  /\ Kept(t, UpLayer(t))
           /\ \A s0, s \in Nat : \A b \in Int :
                Going(t, s0, s, b) =>
                  \E e \in Nat : e >= s /\ e <= s + BuffLen /\ Going(UpLayer(t), s0, e, b)
<1>1. PICK m \in 0 .. BuffLen : UpLayer(t) = ForceFree(t, m) /\ \A k \in 0 .. m - 1 : B(t, k) # None
  BY UpLayerFrees DEF Sound
<1>2. ASSUME NEW s0 \in Nat, NEW s \in Nat, NEW b \in Int, Going(t, s0, s, b)
      PROVE  \E e \in Nat : e >= s /\ e <= s + BuffLen /\ Going(UpLayer(t), s0, e, b)
  <2>1. s + m <= b /\ s + m \in Nat /\ s + m >= s /\ s + m <= s + BuffLen
    <3>1. m \in Nat /\ BuffLen \in Int /\ s <= b /\ m <= BuffLen
      BY <1>2, Sizes DEF Going
    <3>2. CASE m = 0
      BY <3>1, <3>2
    <3>3. CASE m # 0
      <4>1. m - 1 \in Slots /\ m - 1 \in 0 .. m - 1
        BY <3>1, <3>3, Sizes
      <4>2. s + (m - 1) < b
        BY <1>1, <1>2, <4>1 DEF Going
      <4>3. QED
        BY <3>1, <4>2
    <3>4. QED
      BY <3>2, <3>3
  <2>2. Going(ForceFree(t, m), s0, s + m, b)
    BY <1>2, <2>1, ForceFreeKeeps
  <2>3. QED
    BY <1>1, <2>1, <2>2
<1>3. Kept(t, UpLayer(t))
  BY <1>1, ForceFreeKeeps
<1>4. QED
  BY <1>2, <1>3

\* Ages are numbers, and a mark of 0 is one.
LEMMA AgeBounds ==
    /\ MaxAge \in Nat /\ Half \in Nat \ {0} /\ Timeout \in Nat \ {0}
    /\ MaxAge = Timeout + Half + 1 /\ Half <= Timeout
    /\ 0 \in Ages /\ 0 # None /\ \A a \in Ages : a # None => a \in Int /\ a >= 0 /\ a <= MaxAge
<1>1. Timeout \in Nat /\ Timeout >= 2 /\ None \notin Int
  BY WindowAssumption
<1>2. Half \in Nat /\ Half >= 1 /\ Half <= Timeout
  BY <1>1 DEF Half
<1>3. QED
  BY <1>1, <1>2 DEF MaxAge, Ages

LEMMA BuffQueueKeeps ==
    ASSUME NEW t, Sound(t), t.en, NEW f \in Frames, NEW d \in Slots,
           d = Dist(Sn(f), t.start), B(t, d) = None
    PROVE  /\ Sound(BuffQueue(t, f)) /\ BuffQueue(t, f).en
           /\ BuffQueue(t, f).wind = t.wind
           /\ \A a \in Nat : Young(t, a) => Young(BuffQueue(t, f), a)
           /\ \A s0, s \in Nat : \A b \in Int :
                Going(t, s0, s, b) /\ f = s + d /\ f < b => Going(BuffQueue(t, f), s0, s, b)
<1> DEFINE r == BuffQueue(t, f)
<1>0. /\ t \in TidRec /\ d \in Nat /\ d < BuffLen /\ BuffLen \in Int /\ f \in Int /\ f # None
      /\ \A k \in Slots : k \in Nat /\ k < BuffLen
  BY Sizes DEF Sound
<1>1. r \in TidRec /\ Queued(t, f, d, r) /\ Counted(r)
  BY <1>0, BuffQueueQueues DEF Sound
<1> HIDE DEF r
<1>2. /\ r.start = t.start /\ r.en = t.en /\ r.wind = t.wind /\ r.up = t.up
      /\ \A k \in Slots :
           /\ B(r, k) = IF k = d THEN f ELSE B(t, k)
           /\ A(r, k) = IF k <= d /\ \A j \in k .. d : A(t, j) = None THEN 0 ELSE A(t, k)
  BY <1>1 DEF Queued
<1>3. Placed(r)
  <2>1. Sn(f) = Add(r.start, d)
    <3>1. t.start \in Int /\ Sn(f) \in 0 .. SeqSpace - 1
      BY <1>0, Typed, NumbersInRange
    <3>2. QED
      BY <1>2, <3>1, AddDist
  <2>2. Placed(t)
    BY DEF Sound
  <2>3. QED
    BY <1>2, <2>1, <2>2 DEF Placed
<1>4. MarksOK(r)
  <2> DEFINE New(k) == k <= d /\ \A j \in k .. d : A(t, j) = None
  <2>0. MarksOK(t)
    BY DEF Sound
  <2>1. \A k \in Slots : /\ New(k) => A(r, k) = 0
                         /\ ~New(k) => A(r, k) = A(t, k)
    BY <1>2
  <2>2. \A k \in Slots : \A j \in k .. BuffLen - 1 : j \in Slots
    BY <1>0, Sizes
  <2>3. \A k \in Slots : \A j \in 0 .. k : j \in Slots /\ k \in j .. BuffLen - 1
    BY <1>0, Sizes
  <2>4. \A k \in Slots : A(t, k) # None => ~New(k)
    BY <1>0
  <2>5. ASSUME NEW k \in Slots, k <= d PROVE A(r, k) # None
    <3>1. CASE A(t, k) # None
      BY <2>1, <2>4, <3>1
    <3>2. CASE A(t, k) = None
      <4>1. ASSUME NEW j \in k .. d, A(t, j) # None PROVE FALSE
        <5>1. j \in Slots /\ k \in 0 .. j
          BY <1>0, <2>5, Sizes
        <5>2. QED
          BY <2>0, <3>2, <4>1, <5>1 DEF MarksOK
      <4>2. New(k)
        BY <2>5, <4>1
      <4>3. QED
        BY <2>1, <4>2, AgeBounds
    <3>3. QED
      BY <3>1, <3>2
  <2>6. ASSUME NEW k \in Slots
        PROVE  (A(r, k) # None) <=> (\E j \in k .. BuffLen - 1 : B(r, j) # None)
    <3>1. ASSUME A(r, k) # None PROVE \E j \in k .. BuffLen - 1 : B(r, j) # None
      <4>1. CASE New(k)
        <5>1. d \in k .. BuffLen - 1 /\ B(r, d) = f
          BY <1>0, <1>2, <4>1
        <5>2. QED
          BY <1>0, <5>1
      <4>2. CASE ~New(k)
        <5>1. A(t, k) # None
          BY <2>1, <3>1, <4>2
        <5>2. PICK j \in k .. BuffLen - 1 : B(t, j) # None
          BY <2>0, <5>1 DEF MarksOK
        <5>3. B(r, j) # None
          BY <1>0, <1>2, <2>2, <5>2
        <5>4. QED
          BY <5>3
      <4>3. QED
        BY <4>1, <4>2
    <3>2. ASSUME NEW j \in k .. BuffLen - 1, B(r, j) # None PROVE A(r, k) # None
      <4>1. CASE j = d
        <5>1. k <= d
          BY <1>0, <4>1
        <5>2. QED
          BY <2>5, <5>1
      <4>2. CASE j # d
        <5>1. B(t, j) # None
          BY <1>2, <2>2, <3>2, <4>2
        <5>2. A(t, k) # None
          BY <2>0, <5>1 DEF MarksOK
        <5>3. QED
          BY <2>1, <2>4, <5>2
      <4>3. QED
        BY <4>1, <4>2
    <3>3. QED
      BY <3>1, <3>2
  <2>7. ASSUME NEW k \in Slots, NEW j \in 0 .. k, A(r, k) # None
        PROVE  A(r, j) # None /\ A(r, j) >= A(r, k)
    <3>1. j \in Slots /\ k \in j .. BuffLen - 1
      BY <2>3
    <3>2. A(r, j) # None
      <4>1. PICK i \in k .. BuffLen - 1 : B(r, i) # None
        BY <2>6, <2>7
      <4>2. i \in j .. BuffLen - 1
        BY <1>0, <3>1, <4>1
      <4>3. QED
        BY <2>6, <3>1, <4>1, <4>2
    <3>3. A(r, j) \in Int /\ A(r, j) >= 0
      BY <1>1, <3>1, <3>2, SlotsOf, AgeBounds
    <3>4. CASE New(k)
      BY <2>1, <3>2, <3>3, <3>4
    <3>5. CASE ~New(k)
      <4>1. A(r, k) = A(t, k) /\ A(t, k) # None
        BY <2>1, <2>7, <3>5
      <4>2. A(t, j) # None /\ A(t, j) >= A(t, k)
        BY <2>0, <4>1 DEF MarksOK
      <4>3. A(r, j) = A(t, j)
        BY <2>1, <2>4, <3>1, <4>2
      <4>4. QED
        BY <3>2, <4>1, <4>2, <4>3
    <3>6. QED
      BY <3>4, <3>5
  <2> HIDE DEF New
  <2>8. QED
    BY <2>6, <2>7 DEF MarksOK
<1>5. ASSUME NEW a \in Nat, Young(t, a) PROVE Young(r, a)
  BY <1>2, <1>5 DEF Young
<1>6. ASSUME NEW s0 \in Nat, NEW s \in Nat, NEW b \in Int, Going(t, s0, s, b), f = s + d, f < b
      PROVE  Going(r, s0, s, b)
  <2>1. WindowFrom(t, s) /\ UpFrom(t, s0, s) /\ s <= b
    BY <1>6 DEF Going
  <2>2. WindowFrom(r, s)
    BY <1>2, <1>6, <2>1 DEF WindowFrom
  <2>3. UpFrom(r, s0, s)
    BY <1>2, <2>1 DEF UpFrom
  <2>4. \A k \in Slots : B(r, k) # None => s + k < b
    BY <1>2, <1>6 DEF Going
  <2>5. QED
    BY <2>1, <2>2, <2>3, <2>4 DEF Going
<1>7. Sound(r)
  BY <1>1, <1>2, <1>3, <1>4 DEF Sound
<1>8. QED
  BY <1>2, <1>5, <1>6, <1>7 DEF r

\* An empty buffer.
LEMMA EmptyBuffer ==
    ASSUME NEW t, Sound(t), t.buffed = 0
    PROVE  /\ \A i \in Slots : t.buff[i] = None
           /\ \A k \in Slots : B(t, k) = None
           /\ t.en => \A i \in Slots : t.age[i] = None
           /\ t.en => \A a \in Int : Young(t, a)
<1>1. t \in TidRec /\ (\A i \in Slots : t.buff[i] = None) /\ (\A k \in Slots : B(t, k) = None)
  BY NoneFilled DEF Sound
<1>2. ASSUME t.en, NEW k \in Slots PROVE A(t, k) = None
  <2>1. \A j \in k .. BuffLen - 1 : j \in Slots
    BY Sizes
  <2>2. \A j \in k .. BuffLen - 1 : B(t, j) = None
    BY <1>1, <2>1
  <2>3. MarksOK(t)
    BY <1>2 DEF Sound
  <2>4. QED
    BY <2>2, <2>3 DEF MarksOK
<1>3. ASSUME t.en, NEW i \in Slots PROVE t.age[i] = None
  <2>1. (i - t.start) % BuffLen \in Slots /\ At(t, (i - t.start) % BuffLen) = i
    BY <1>1, SlotsOf
  <2>2. A(t, (i - t.start) % BuffLen) = None
    BY <1>2, <1>3, <2>1
  <2>3. QED
    BY <2>1, <2>2 DEF A
<1>4. t.en => \A a \in Int : Young(t, a)
  BY <1>2 DEF Young
<1>5. QED
  BY <1>1, <1>3, <1>4

LEMMA EmptyIsSound ==
    ASSUME NEW t \in TidRec, \A i \in Slots : t.buff[i] = None,
           t.en => \A i \in Slots : t.age[i] = None,
           t.buffed = 0, t.wind = IF t.en THEN BuffLen ELSE 0
    PROVE  /\ Sound(t)
           /\ \A s \in Nat : \A b \in Int :
                t.start = Sn(s) /\ t.up = <<>> /\ s <= b => Going(t, s, s, b)
<1>1. \A k \in Slots : B(t, k) = None /\ (t.en => A(t, k) = None)
  BY SlotsOf DEF A, B
<1>2. Counted(t)
  <2>1. Filled(t) = {}
    BY DEF Filled
  <2>2. QED
    BY <2>1, FS_EmptySet DEF Counted
<1>3. Placed(t)
  BY <1>1 DEF Placed
<1>4. t.en => MarksOK(t)
  <2>1. \A k \in Slots : \A j \in k .. BuffLen - 1 : j \in Slots
    BY Sizes
  <2>2. QED
    BY <1>1, <2>1 DEF MarksOK
<1>5. ASSUME NEW s \in Nat, NEW b \in Int, t.start = Sn(s), t.up = <<>>, s <= b
      PROVE  Going(t, s, s, b)
  <2>1. Len(t.up) = 0
    BY <1>5
  <2>2. UpFrom(t, s, s)
    BY <2>1 DEF UpFrom
  <2>3. QED
    BY <1>1, <1>5, <2>2 DEF Going, WindowFrom
<1>6. QED
  BY <1>2, <1>3, <1>4, <1>5 DEF Sound

\* What was handed up is gone.
LEMMA Cleared ==
    ASSUME NEW r, Sound(r), NEW t, t = [r EXCEPT !.up = <<>>]
    PROVE  /\ Sound(t) /\ t.up = <<>> /\ t.en = r.en /\ t.wind = r.wind /\ t.buffed = r.buffed
           /\ t.start = r.start
           /\ \A k \in Int : A(t, k) = A(r, k) /\ B(t, k) = B(r, k)
           /\ \A a \in Int : Young(r, a) => Young(t, a)
           /\ \A s, e \in Nat : \A b \in Int : Going(r, s, e, b) => Going(t, e, e, b)
<1>1. r \in TidRec
  BY DEF Sound
<1>2. /\ t.up = <<>> /\ t.en = r.en /\ t.wind = r.wind /\ t.buffed = r.buffed
      /\ t.start = r.start /\ t.buff = r.buff /\ t.age = r.age
      /\ t = [r EXCEPT !.buff = t.buff, !.age = t.age, !.buffed = t.buffed,
                       !.start = t.start, !.up = t.up]
  BY <1>1 DEF TidRec
<1>3. t \in TidRec
  <2>1. t.up \in Seq(Frames \cup {None})
    BY <1>2
  <2>2. QED
    BY <1>1, <1>2, <2>1, Typed, Rebuilt
<1>4. \A k \in Int : A(t, k) = A(r, k) /\ B(t, k) = B(r, k)
  BY <1>2 DEF A, B, At
<1>5. \A k \in Slots : A(t, k) = A(r, k) /\ B(t, k) = B(r, k)
  BY <1>4, Sizes
<1>6. Counted(t)
  BY <1>2 DEF Sound, Counted, Filled
<1>7. Placed(r) => Placed(t)
  BY <1>2, <1>5 DEF Placed
<1>8. MarksOK(r) => MarksOK(t)
  <2>1. \A k \in Slots : (\A j \in k .. BuffLen - 1 : j \in Slots) /\ (\A j \in 0 .. k : j \in Slots)
    BY Sizes
  <2>2. QED
    BY <1>5, <2>1 DEF MarksOK
<1>9. Sound(t)
  BY <1>2, <1>3, <1>6, <1>7, <1>8 DEF Sound
<1>10. \A a \in Int : Young(r, a) => Young(t, a)
  BY <1>5 DEF Young
<1>11. ASSUME NEW s \in Nat, NEW e \in Nat, NEW b \in Int, Going(r, s, e, b)
       PROVE  Going(t, e, e, b)
  <2>1. Len(t.up) = 0
    BY <1>2
  <2>2. UpFrom(t, e, e)
    BY <2>1 DEF UpFrom
  <2>3. WindowFrom(t, e)
    BY <1>2, <1>5, <1>11 DEF Going, WindowFrom
  <2>4. QED
    BY <1>5, <1>11, <2>2, <2>3 DEF Going
<1>12. QED
  BY <1>2, <1>4, <1>9, <1>10, <1>11

\* The oldest mark is that of the window's start.
LEMMA OldestFirst ==
    ASSUME NEW t, Sound(t), t.en
    PROVE  /\ 0 \in Slots /\ A(t, 0) \in Ages
           /\ t.buffed > 0 => A(t, 0) # None /\ A(t, 0) \in Int /\ A(t, 0) >= 0 /\ Young(t, A(t, 0))
           /\ \A a \in Int : A(t, 0) = None \/ A(t, 0) <= a => Young(t, a)
<1>0. t \in TidRec /\ MarksOK(t) /\ Counted(t)
  BY DEF Sound
<1>1. 0 \in Slots /\ (\A k \in Slots : 0 \in 0 .. k /\ k \in 0 .. BuffLen - 1)
  BY Sizes
<1>2. A(t, 0) \in Ages
  BY <1>0, <1>1, SlotsOf
<1>3. ASSUME t.buffed > 0 PROVE A(t, 0) # None
  <2>1. PICK k \in Slots : B(t, k) # None
    BY <1>0, <1>3, NoneFilled
  <2>2. QED
    BY <1>0, <1>1, <2>1 DEF MarksOK
<1>4. ASSUME NEW a \in Int, A(t, 0) = None \/ A(t, 0) <= a PROVE Young(t, a)
  <2>1. SUFFICES ASSUME NEW k \in Slots, A(t, k) # None PROVE A(t, k) <= a
    BY DEF Young
  <2>2. A(t, 0) # None /\ A(t, 0) >= A(t, k)
    BY <1>0, <1>1, <2>1 DEF MarksOK
  <2>3. A(t, k) \in Int /\ A(t, 0) \in Int
    BY <1>0, <1>2, <2>1, <2>2, SlotsOf, AgeBounds
  <2>4. QED
    BY <1>4, <2>2, <2>3
<1>5. A(t, 0) # None => A(t, 0) \in Int /\ A(t, 0) >= 0
  BY <1>2, AgeBounds
<1>6. A(t, 0) # None => Young(t, A(t, 0))
  BY <1>4, <1>5
<1>7. QED
  BY <1>1, <1>2, <1>3, <1>4, <1>5, <1>6

-----------------------------------------------------------------------------
(* What the handlers do to the buffer.                                      *)

\* Releasing the whole window leaves an empty buffer, at number 0.
LEMMA ResetEmpties ==
    ASSUME NEW t, Sound(t), t.en, NEW r, r = [Release(t, t.wind) EXCEPT !.start = 0]
    PROVE  /\ Sound(r) /\ r.buffed = 0 /\ r.en = t.en /\ r.wind = t.wind /\ r.up = t.up
<1> DEFINE q == Release(t, t.wind)
<1>1. t \in TidRec /\ t.wind = BuffLen /\ BuffLen \in 0 .. BuffLen /\ BuffLen \in Int
  BY Sizes DEF Sound
<1>2. /\ q \in TidRec /\ q.up = t.up /\ q.en = t.en /\ q.wind = t.wind
      /\ Counted(q)
      /\ \A k \in Slots : /\ B(q, k) = IF BuffLen + k < BuffLen THEN B(t, BuffLen + k) ELSE None
                          /\ A(q, k) = IF BuffLen + k < BuffLen THEN A(t, BuffLen + k) ELSE None
  <2>1. q = Release(t, BuffLen) /\ Counted(t)
    BY <1>1 DEF Sound
  <2> HIDE DEF q
  <2>2. QED
    BY <1>1, <2>1, ReleaseMoves
<1> HIDE DEF q
<1>3. \A k \in Slots : B(q, k) = None /\ A(q, k) = None
  <2>1. \A k \in Slots : ~ (BuffLen + k < BuffLen)
    BY Sizes
  <2>2. QED
    BY <1>2, <2>1
<1>4. ASSUME NEW i \in Slots PROVE q.buff[i] = None /\ q.age[i] = None
  <2>1. (i - q.start) % BuffLen \in Slots /\ At(q, (i - q.start) % BuffLen) = i
    BY <1>2, SlotsOf
  <2>2. QED
    BY <1>3, <2>1 DEF A, B
<1>5. q.buffed = 0
  BY <1>2, <1>3, NoneFilled
<1>6. r = [q EXCEPT !.start = 0]
  BY DEF q
<1>7. /\ r.buff = q.buff /\ r.age = q.age /\ r.buffed = q.buffed /\ r.en = q.en
      /\ r.wind = q.wind /\ r.up = q.up /\ r.start = 0
      /\ r = [q EXCEPT !.buff = r.buff, !.age = r.age, !.buffed = r.buffed,
                       !.start = r.start, !.up = r.up]
  BY <1>2, <1>6 DEF TidRec
<1>8. r \in TidRec
  <2>1. r.start \in 0 .. SeqSpace - 1
    BY <1>7, Sizes
  <2>2. /\ r.buffed \in Int /\ r.up \in Seq(Frames \cup {None})
        /\ r.buff \in [Slots -> Frames \cup {None}] /\ r.age \in [Slots -> Ages]
    BY <1>2, <1>7, Typed
  <2>3. q \in TidRec
    BY <1>2
  <2>4. r = [q EXCEPT !.buff = r.buff, !.age = r.age, !.buffed = r.buffed,
                      !.start = r.start, !.up = r.up]
    BY <1>7
  <2>5. QED
    BY <2>1, <2>2, <2>3, <2>4, Rebuilt
<1>9. /\ \A i \in Slots : r.buff[i] = None /\ r.age[i] = None
      /\ r.buffed = 0 /\ r.en = t.en /\ r.wind = t.wind /\ r.up = t.up
      /\ r.wind = IF r.en THEN BuffLen ELSE 0
  <2>1. r.buff = q.buff /\ r.age = q.age
    BY <1>7
  <2>2. \A i \in Slots : r.buff[i] = None /\ r.age[i] = None
    BY <1>4, <2>1
  <2>3. r.buffed = 0 /\ r.en = t.en /\ r.wind = t.wind /\ r.up = t.up
    BY <1>2, <1>5, <1>7
  <2>4. t.wind = BuffLen /\ t.en
    BY <1>1
  <2>5. QED
    BY <2>2, <2>3, <2>4
<1>10. Sound(r)
  BY <1>8, <1>9, EmptyIsSound
<1>11. QED
  BY <1>9, <1>10

\* A disabled agreement needs only its counter.
LEMMA DisableKeeps ==
    ASSUME NEW t, Sound(t), NEW r, r = [t EXCEPT !.en = FALSE, !.wind = 0, !.start = 0]
    PROVE  Sound(r) /\ r.buffed = t.buffed /\ r.en = FALSE /\ r.up = t.up
<1>1. t \in TidRec /\ 0 \in 0 .. SeqSpace - 1
  BY Sizes DEF Sound
<1>2. r \in TidRec /\ r.buff = t.buff /\ r.buffed = t.buffed /\ r.en = FALSE /\ r.wind = 0
      /\ r.up = t.up
  BY <1>1 DEF TidRec
<1>3. Counted(r)
  BY <1>2 DEF Sound, Counted, Filled
<1>4. QED
  BY <1>2, <1>3 DEF Sound

\* Another start of an empty window.
LEMMA StartMoves ==
    ASSUME NEW t, Sound(t), t.buffed = 0, NEW n \in 0 .. SeqSpace - 1,
           NEW r, r = [t EXCEPT !.start = n]
    PROVE  /\ Sound(r) /\ r.buffed = 0 /\ r.en = t.en /\ r.wind = t.wind /\ r.up = t.up
           /\ r.start = n
<1>1. t \in TidRec /\ t.wind = IF t.en THEN BuffLen ELSE 0
  BY DEF Sound
<1>2. /\ r.buff = t.buff /\ r.age = t.age /\ r.buffed = t.buffed /\ r.en = t.en
      /\ r.wind = t.wind /\ r.up = t.up /\ r.start = n
      /\ r = [t EXCEPT !.buff = r.buff, !.age = r.age, !.buffed = r.buffed,
                       !.start = r.start, !.up = r.up]
  BY <1>1 DEF TidRec
<1>3. r \in TidRec
  BY <1>1, <1>2, Typed, Rebuilt
<1>4. (\A i \in Slots : t.buff[i] = None) /\ (t.en => \A i \in Slots : t.age[i] = None)
  BY EmptyBuffer
<1>5. /\ (\A i \in Slots : r.buff[i] = None) /\ (r.en => \A i \in Slots : r.age[i] = None)
      /\ r.buffed = 0 /\ r.wind = IF r.en THEN BuffLen ELSE 0
  BY <1>1, <1>2, <1>4
<1>6. Sound(r)
  BY <1>3, <1>5, EmptyIsSound
<1>7. QED
  BY <1>2, <1>5, <1>6

\* Time makes every mark older by one, up to MaxAge.
LEMMA TickKeeps ==
    ASSUME NEW t, Sound(t), NEW r,
           r = [t EXCEPT !.age = [i \in Slots |->
                  IF @[i] = None \/ @[i] = MaxAge THEN @[i] ELSE @[i] + 1]]
    PROVE  /\ Sound(r) /\ r.buffed = t.buffed /\ r.en = t.en /\ r.wind = t.wind /\ r.up = t.up
           /\ r.start = t.start
           /\ \A k \in Slots : /\ B(r, k) = B(t, k)
                               /\ A(r, k) = IF A(t, k) = None \/ A(t, k) = MaxAge
                                              THEN A(t, k) ELSE A(t, k) + 1
<1>1. t \in TidRec /\ t.wind = (IF t.en THEN BuffLen ELSE 0) /\ Counted(t)
  BY DEF Sound
<1>2. /\ r.buff = t.buff /\ r.buffed = t.buffed /\ r.en = t.en
      /\ r.wind = t.wind /\ r.up = t.up /\ r.start = t.start
      /\ r.age = [i \in Slots |-> IF t.age[i] = None \/ t.age[i] = MaxAge
                                    THEN t.age[i] ELSE t.age[i] + 1]
      /\ r = [t EXCEPT !.buff = r.buff, !.age = r.age, !.buffed = r.buffed,
                       !.start = r.start, !.up = r.up]
  BY <1>1 DEF TidRec
<1>3. r \in TidRec
  <2>1. r.age \in [Slots -> Ages]
    <3>1. \A a \in Ages : a # None /\ a # MaxAge => a + 1 \in Ages
      BY AgeBounds DEF Ages
    <3>2. QED
      BY <1>1, <1>2, <3>1, Typed
  <2>2. QED
    BY <1>1, <1>2, <2>1, Typed, Rebuilt
<1>4. \A k \in Slots : /\ B(r, k) = B(t, k)
                       /\ A(r, k) = IF A(t, k) = None \/ A(t, k) = MaxAge
                                      THEN A(t, k) ELSE A(t, k) + 1
  <2>1. \A k \in Slots : At(r, k) = At(t, k) /\ At(t, k) \in Slots
    BY <1>1, <1>2, SlotsOf DEF At
  <2>2. QED
    BY <1>2, <2>1 DEF A, B
<1>5. Counted(r)
  BY <1>1, <1>2 DEF Counted, Filled
<1>6. Placed(t) => Placed(r)
  BY <1>2, <1>4 DEF Placed
<1>7. MarksOK(t) => MarksOK(r)
  <2>1. \A k \in Slots : (\A j \in k .. BuffLen - 1 : j \in Slots) /\ (\A j \in 0 .. k : j \in Slots)
    BY Sizes
  <2>2. \A k \in Slots : /\ A(r, k) # None <=> A(t, k) # None
                         /\ A(t, k) # None => A(t, k) \in Int /\ A(t, k) <= MaxAge
    <3>1. \A k \in Slots : A(t, k) # None => A(t, k) \in Int /\ A(t, k) <= MaxAge /\ A(t, k) + 1 # None
      BY <1>1, SlotsOf, AgeBounds, WindowAssumption
    <3>2. QED
      BY <1>4, <3>1
  <2>3. ASSUME MarksOK(t), NEW k \in Slots
        PROVE  (A(r, k) # None) <=> (\E j \in k .. BuffLen - 1 : B(r, j) # None)
    BY <1>4, <2>1, <2>2, <2>3 DEF MarksOK
  <2>4. ASSUME MarksOK(t), NEW k \in Slots, NEW j \in 0 .. k, A(r, k) # None
        PROVE  A(r, j) # None /\ A(r, j) >= A(r, k)
    <3>1. j \in Slots /\ A(t, k) # None
      BY <2>1, <2>2, <2>4
    <3>2. A(t, j) # None /\ A(t, j) >= A(t, k)
      BY <2>4, <3>1 DEF MarksOK
    <3>3. A(t, j) \in Int /\ A(t, k) \in Int /\ A(t, j) <= MaxAge /\ A(t, k) <= MaxAge /\ MaxAge \in Int
      BY <2>2, <3>1, <3>2, AgeBounds
    <3>4. QED
      BY <1>4, <2>2, <3>1, <3>2, <3>3
  <2>5. QED
    BY <2>3, <2>4 DEF MarksOK
<1>8. QED
  BY <1>1, <1>2, <1>3, <1>4, <1>5, <1>6, <1>7 DEF Sound

-----------------------------------------------------------------------------
(* The inductive invariant, part by part.                                   *)

\* TypeOK but for tid.
FlagsOK == {running, untimed, jumped, raced, disorder, freedNew} \subseteq BOOLEAN

DataOK ==
    /\ timers \in [0 .. Timeout -> Nat]
    /\ rx \in [pc : {"idle", "queue", "up", "delba"}, frame : Frames \cup {None},
               seen : 0 .. SeqSpace - 1]
    /\ task \in {"idle", "entered"} /\ reset \in {"idle", "half"}
    /\ addbas \in 0 .. MaxAddba /\ resets \in 0 .. MaxReset /\ base \in 0 .. MaxFrame + 1
    /\ newest \in -1 .. MaxFrame /\ high \in -1 .. MaxFrame

\* Between two steps the buffer is sound and nothing waits to be handed up.
BufferOK == Sound(tid) /\ tid.up = <<>>

\* The frame the receive thread has is one of the peer's window.
FrameInHand ==
    /\ rx.pc \in {"queue", "up"} => rx.frame \in Frames
    /\ rx.pc = "queue" => rx.frame \in base .. base + BuffLen - 1

\* The flag says whether frames are buffered, and a reset that has begun has
\* left none.  Unless registering one failed since the buffer was last empty, a
\* timer (or the timer task, on its way) comes for the oldest frame before one
\* and a half timeouts are over.
Longest == Timeout + Half
Comes   == task = "entered" \/ \E d \in 0 .. Timeout : timers[d] > 0 /\ A(tid, 0) + d <= Longest
TimerSet ==
    ~raced =>
      /\ running <=> tid.buffed > 0
      /\ ~tid.en \/ reset = "half" \/ rx.pc = "delba" => tid.buffed = 0
      /\ tid.en /\ tid.buffed > 0 /\ ~untimed => A(tid, 0) <= Longest /\ Comes

\* The window starts with some frame s: before it everything was handed up,
\* what is buffed is behind it in its place, and all of it the peer has sent.
StartsWith(s) ==
    /\ Going(tid, s, s, base + BuffLen) /\ high < s
    /\ rx.pc = "up" => rx.frame < s
InTurn ==
    ~jumped /\ ~raced =>
      /\ ~disorder
      /\ rx.pc = "up" => rx.frame > high /\ tid.buffed = 0
      /\ tid.en /\ reset # "half" /\ rx.pc # "delba" => \E s \in Nat : StartsWith(s)

RxInv == FlagsOK /\ DataOK /\ BufferOK /\ FrameInHand /\ TimerSet /\ InTurn

-----------------------------------------------------------------------------
(* Handing up.                                                              *)

LEMMA HandedTypes ==
    ASSUME NEW u \in Seq(Frames \cup {None}), high \in -1 .. MaxFrame, HandUp(u)
    PROVE  high' \in -1 .. MaxFrame
<1> DEFINE S == {high} \cup {u[i] : i \in {j \in 1 .. Len(u) : u[j] # None}}
<1>1. S \in SUBSET (-1 .. MaxFrame) /\ S # {}
  <2>1. \A i \in 1 .. Len(u) : u[i] \in Frames \cup {None}
    BY ElementOfSeq
  <2>2. Frames \subseteq -1 .. MaxFrame
    BY Sizes DEF Frames
  <2>3. QED
    BY <2>1, <2>2
<1>2. S \in SUBSET Int /\ MaxFrame \in Int /\ \A x \in S : x <= MaxFrame
  BY <1>1, Sizes
<1>3. high' = Max(S)
  BY Zenon DEF HandUp
<1> HIDE DEF S
<1>4. Max(S) \in S
  BY <1>1, <1>2, MaxOfSome
<1>5. QED
  BY <1>1, <1>3, <1>4

\* The frames from s to e in their order: all are behind the newest so far.
LEMMA HandedInTurn ==
    ASSUME NEW u \in Seq(Frames \cup {None}), NEW s \in Nat, NEW e \in Nat, s <= e,
           Len(u) = e - s, \A i \in 1 .. Len(u) : u[i] \in {None, s + i - 1},
           high \in Int, high < s, HandUp(u)
    PROVE  high' < e /\ (disorder' => disorder)
<1> DEFINE full == {i \in 1 .. Len(u) : u[i] # None}
           S == {high} \cup {u[i] : i \in full}
<1>1. \A i \in full : i \in 1 .. e - s /\ u[i] = s + i - 1
  OBVIOUS
<1>2. /\ high' = Max(S)
      /\ disorder' <=> \/ disorder
                       \/ \E i \in full : u[i] <= high
                       \/ \E i, j \in full : i < j /\ u[j] <= u[i]
  BY Zenon DEF HandUp
<1> HIDE DEF full
<1>3. S \in SUBSET Int /\ S # {} /\ \A x \in S : x < e
  BY <1>1
<1> HIDE DEF S
<1>4. Max(S) \in S
  <2>1. \A x \in S : x <= e
    BY <1>3
  <2>2. e \in Int
    OBVIOUS
  <2>3. QED
    BY <1>3, <2>1, <2>2, MaxOfSome
<1>5. \A i \in full : ~ (u[i] <= high)
  BY <1>1
<1>6. \A i, j \in full : ~ (i < j /\ u[j] <= u[i])
  BY <1>1
<1>7. QED
  BY <1>2, <1>3, <1>4, <1>5, <1>6

LEMMA HandedNothing ==
    ASSUME high \in Int, HandUp(<<>>)
    PROVE  high' = high /\ (disorder' => disorder)
<1> DEFINE S == {high} \cup {<<>>[i] : i \in {j \in 1 .. Len(<<>>) : <<>>[j] # None}}
<1>1. 1 .. Len(<<>>) = {}
  OBVIOUS
<1>2. S = {high}
  BY <1>1
<1>3. high' = Max(S) /\ (disorder' => disorder)
  BY <1>1 DEF HandUp
<1> HIDE DEF S
<1>4. Max(S) \in S
  <2>1. S \in SUBSET Int /\ S # {} /\ \A x \in S : x <= high
    BY <1>2
  <2>2. QED
    BY <2>1, MaxOfSome
<1>5. QED
  BY <1>2, <1>3, <1>4

-----------------------------------------------------------------------------
(* What the handlers leave.                                                 *)

\* A frame is kept: the window moved up to it, it is put in, what is in turn goes.
LEMMA FrameResult ==
    ASSUME BufferOK, rx.frame \in Frames, ~TooOld, ~TooFar, ~Held,
           NEW r, r = UpLayer(BuffQueue(IF Beyond THEN ForceFree(tid, NeedFree) ELSE tid, rx.frame))
    PROVE  /\ tid.en /\ Sound(r) /\ r.en
           /\ \A a \in Nat : Young(tid, a) => Young(r, a)
           /\ \A s \in Nat : \A b \in Int :
                Going(tid, s, s, b) /\ rx.frame = s + Index /\ rx.frame < b =>
                  \E e \in Nat : e >= s /\ Going(r, s, e, b)
<1> DEFINE f == rx.frame
           moved == IF Beyond THEN ForceFree(tid, NeedFree) ELSE tid
           q == BuffQueue(moved, f)
<1>0. /\ Sound(tid) /\ tid \in TidRec /\ tid.start \in Int /\ tid.start \in 0 .. SeqSpace - 1
      /\ tid.wind = IF tid.en THEN BuffLen ELSE 0
      /\ f \in Int /\ Sn(f) \in 0 .. SeqSpace - 1 /\ Sn(f) \in Int
      /\ BuffLen \in Nat \ {0} /\ SeqSpace \in Nat /\ BuffLen < SeqSpace
  <2>1. Sound(tid) /\ tid \in TidRec
    BY DEF BufferOK, Sound
  <2>2. f \in Int
    BY Sizes
  <2>3. tid.start \in Int /\ tid.start \in 0 .. SeqSpace - 1
    BY <2>1, Typed
  <2>4. tid.wind = IF tid.en THEN BuffLen ELSE 0
    BY <2>1 DEF Sound
  <2>5. Sn(f) \in 0 .. SeqSpace - 1 /\ Sn(f) \in Int
    BY <2>2, NumbersInRange
  <2>6. BuffLen \in Nat \ {0} /\ SeqSpace \in Nat /\ BuffLen < SeqSpace
    BY Sizes
  <2>7. QED
    BY <2>1, <2>2, <2>3, <2>4, <2>5, <2>6
<1>1. Index \in Nat /\ Index < SeqSpace /\ Index = Dist(Sn(f), tid.start)
  <2>1. Index = Dist(Sn(f), tid.start)
    BY DEF Index
  <2>2. Dist(Sn(f), tid.start) \in 0 .. SeqSpace - 1
    BY <1>0, NumbersInRange
  <2>3. QED
    BY <1>0, <2>1, <2>2
<1>2. tid.en /\ tid.wind = BuffLen
  <2>1. CASE ~tid.en
    <3>1. tid.wind = 0
      BY <1>0, <2>1
    <3>2. TooFar
      BY <1>1, <3>1 DEF TooFar, Beyond, NeedFree
    <3>3. QED
      BY <3>2
  <2>2. QED
    BY <1>0, <2>1
<1>3. /\ Sound(moved) /\ moved.en
      /\ \E d \in Slots : d = Dist(Sn(f), moved.start) /\ B(moved, d) = None
      /\ \A a \in Int : Young(tid, a) => Young(moved, a)
      /\ \A s \in Nat : \A b \in Int :
           Going(tid, s, s, b) /\ f = s + Index /\ f < b =>
             \E n \in Nat : \E d \in Slots : /\ Going(moved, s, s + n, b) /\ f = (s + n) + d
                                             /\ d = Dist(Sn(f), moved.start)
  <2>1. CASE Beyond
    <3> DEFINE n == NeedFree
    <3>1. n \in 0 .. BuffLen /\ n \in Nat /\ n >= 1 /\ n < BuffLen /\ Index = n + (BuffLen - 1)
      BY <1>0, <1>1, <1>2, <2>1 DEF Beyond, TooFar, NeedFree
    <3>2. moved = ForceFree(tid, n)
      BY <2>1
    <3> HIDE DEF n, moved
    <3>3. /\ Kept(tid, moved)
          /\ \A k \in Slots : n + k >= BuffLen => B(moved, k) = None
          /\ moved.start = Add(tid.start, n)
          /\ \A s0, s \in Nat : \A b \in Int :
               Going(tid, s0, s, b) /\ s + n <= b => Going(moved, s0, s + n, b)
      BY <1>0, <3>1, <3>2, ForceFreeKeeps
    <3> DEFINE d == BuffLen - 1
    <3>4. d \in Slots /\ d \in Nat /\ n + d >= BuffLen /\ Index = n + d /\ d \in 0 .. SeqSpace - 1
      BY <1>0, <3>1, Sizes
    <3> HIDE DEF d
    <3>5. d = Dist(Sn(f), moved.start)
      <4>1. Sn(f) = Add(tid.start, n + d)
        BY <1>0, <1>1, <3>4, AddDist
      <4>2. tid.start \in Int /\ n \in Int /\ d \in Int /\ moved.start \in Int
        BY <1>0, <3>1, <3>3, <3>4, Typed DEF Kept, Sound
      <4>3. Add(tid.start, n + d) = Add(Add(tid.start, n), d)
        BY <4>2, AddAdd, Zenon
      <4>4. Sn(f) = Add(moved.start, d)
        BY <3>3, <4>1, <4>3
      <4>5. Dist(Add(moved.start, d), moved.start) = d
        BY <3>4, <4>2, DistAdd
      <4>6. QED
        BY <4>4, <4>5
    <3>6. ASSUME NEW s \in Nat, NEW b \in Int, Going(tid, s, s, b), f = s + Index, f < b
          PROVE  Going(moved, s, s + n, b) /\ f = (s + n) + d
      <4>1. f = (s + n) + d /\ s + n <= b
        BY <3>1, <3>4, <3>6
      <4>2. QED
        BY <3>3, <3>6, <4>1
    <3>7. B(moved, d) = None
      BY <3>3, <3>4
    <3>8. Sound(moved) /\ moved.en /\ \A a \in Int : Young(tid, a) => Young(moved, a)
      BY <1>2, <3>3 DEF Kept
    <3>9. QED
      BY <3>1, <3>4, <3>5, <3>6, <3>7, <3>8
  <2>2. CASE ~Beyond
    <3>1. moved = tid
      BY <2>2
    <3>2. Index \in Slots
      BY <1>0, <1>1, <1>2, <2>2, Sizes DEF Beyond
    <3>3. Slot(Sn(f)) = At(tid, Index)
      <4>1. Add(tid.start, Index) = Sn(f)
        BY <1>0, <1>1, AddDist
      <4>2. Index \in Int
        BY <1>1
      <4>3. Slot(Add(tid.start, Index)) = Slot(tid.start + Index)
        BY <1>0, <4>2, SlotAdd, Zenon
      <4>4. QED
        BY <4>1, <4>3 DEF At
    <3>4. B(tid, Index) = None
      BY <2>2, <3>3 DEF Held, B
    <3> HIDE DEF moved
    <3>5. ASSUME NEW s \in Nat, NEW b \in Int, Going(tid, s, s, b), f = s + Index, f < b
          PROVE  Going(moved, s, s + 0, b) /\ f = (s + 0) + Index
      BY <1>1, <3>1, <3>5
    <3>6. QED
      BY <1>0, <1>1, <1>2, <3>1, <3>2, <3>4, <3>5
  <2>3. QED
    BY <2>1, <2>2
<1> HIDE DEF moved
<1>4. PICK d \in Slots : d = Dist(Sn(f), moved.start) /\ B(moved, d) = None
  BY <1>3
<1>5. /\ Sound(q) /\ q.en
      /\ \A a \in Nat : Young(moved, a) => Young(q, a)
      /\ \A s0, s \in Nat : \A b \in Int :
           Going(moved, s0, s, b) /\ f = s + d /\ f < b => Going(q, s0, s, b)
  BY <1>3, <1>4, BuffQueueKeeps
<1>6. r = UpLayer(q)
  BY DEF moved
<1> HIDE DEF q
<1>7. /\ Kept(q, r)
      /\ \A s0, s \in Nat : \A b \in Int :
           Going(q, s0, s, b) => \E e \in Nat : e >= s /\ Going(r, s0, e, b)
  BY <1>5, <1>6, UpLayerKeeps
<1>8. ASSUME NEW s \in Nat, NEW b \in Int, Going(tid, s, s, b), f = s + Index, f < b
      PROVE  \E e \in Nat : e >= s /\ Going(r, s, e, b)
  <2>1. PICK n \in Nat : Going(moved, s, s + n, b) /\ f = (s + n) + d
    BY <1>3, <1>4, <1>8
  <2>2. s + n \in Nat /\ s + n >= s
    OBVIOUS
  <2>3. Going(q, s, s + n, b)
    BY <1>5, <1>8, <2>1, <2>2
  <2>4. PICK e \in Nat : e >= s + n /\ Going(r, s, e, b)
    BY <1>7, <2>2, <2>3
  <2>5. QED
    BY <2>2, <2>4
<1>9. \A a \in Nat : Young(tid, a) => Young(r, a)
  BY <1>3, <1>5, <1>7 DEF Kept
<1>10. Sound(r) /\ r.en
  BY <1>5, <1>7 DEF Kept
<1>11. QED
  BY <1>2, <1>8, <1>9, <1>10

\* Some slots go up, and then what is in turn.
LEMMA FreeResult ==
    ASSUME NEW t, Sound(t), NEW n \in 0 .. BuffLen, NEW r, r = UpLayer(ForceFree(t, n))
    PROVE  /\ Sound(r) /\ r.en = t.en
           /\ \A a \in Int : Young(t, a) => Young(r, a)
           /\ \A a \in Int : Young(ForceFree(t, n), a) => Young(r, a)
           /\ \A s \in Nat : \A b \in Int : Going(t, s, s, b) /\ s + n <= b =>
                \E e \in Nat : e >= s + n /\ Going(r, s, e, b)
<1> DEFINE q == ForceFree(t, n)
<1>0. n \in Nat
  BY Sizes
<1>1. /\ Kept(t, q)
      /\ \A s0, s \in Nat : \A b \in Int :
           Going(t, s0, s, b) /\ s + n <= b => Going(q, s0, s + n, b)
  BY ForceFreeKeeps
<1> HIDE DEF q
<1>2. r = UpLayer(q)
  BY DEF q
<1>3. /\ Kept(q, r)
      /\ \A s0, s \in Nat : \A b \in Int :
           Going(q, s0, s, b) => \E e \in Nat : e >= s /\ Going(r, s0, e, b)
  BY <1>1, <1>2, UpLayerKeeps DEF Kept
<1>4. ASSUME NEW s \in Nat, NEW b \in Int, Going(t, s, s, b), s + n <= b
      PROVE  \E e \in Nat : e >= s + n /\ Going(r, s, e, b)
  <2>1. Going(q, s, s + n, b) /\ s + n \in Nat
    BY <1>0, <1>1, <1>4
  <2>2. QED
    BY <1>3, <2>1
<1>5. QED
  BY <1>1, <1>3, <1>4 DEF Kept, q

\* The time-out: what is left is younger than half of it.
LEMMA TimeoutResult ==
    ASSUME NEW t, Sound(t), NEW r, r = UpLayer(ForceFree(t, Expired(t)))
    PROVE  /\ Sound(r) /\ r.en = t.en
           /\ t.en => Young(r, Half)
           /\ t.en => \A s \in Nat : \A b \in Int : Going(t, s, s, b) =>
                \E e \in Nat : e >= s /\ Going(r, s, e, b)
<1> DEFINE n == Expired(t)
<1>0. t \in TidRec /\ t.wind = IF t.en THEN BuffLen ELSE 0
  BY DEF Sound
<1>1. n \in 0 .. BuffLen
  <2>1. CASE t.en
    BY <1>0, <2>1, ExpiredCounts
  <2>2. CASE ~t.en
    <3> DEFINE p == Prefix(t, {i \in Slots : t.age[i] # None /\ t.age[i] >= Half})
    <3>1. p \in 0 .. BuffLen
      BY PrefixCounts
    <3>2. n = IF p < t.wind THEN p ELSE t.wind
      BY DEF Expired
    <3> HIDE DEF p, n
    <3>3. QED
      BY <1>0, <2>2, <3>1, <3>2, Sizes
  <2>3. QED
    BY <1>0, <2>1, <2>2
<1>2. t.en => /\ \A k \in 0 .. n - 1 : A(t, k) # None
              /\ n < BuffLen => A(t, n) = None \/ A(t, n) < Half
  BY <1>0, <1>1, ExpiredCounts
<1> DEFINE q == ForceFree(t, n)
<1> HIDE DEF n
<1>3. r = UpLayer(q)
  BY DEF n
<1>4. /\ Kept(t, q)
      /\ \A k \in Slots : /\ n + k < BuffLen => A(q, k) = A(t, n + k)
                          /\ n + k >= BuffLen => B(q, k) = None
  BY <1>1, ForceFreeKeeps
<1>5. /\ Sound(r) /\ r.en = t.en
      /\ \A a \in Int : Young(q, a) => Young(r, a)
      /\ \A s \in Nat : \A b \in Int : Going(t, s, s, b) /\ s + n <= b =>
           \E e \in Nat : e >= s + n /\ Going(r, s, e, b)
  BY <1>1, <1>3, FreeResult
<1> HIDE DEF q
<1>6. ASSUME t.en PROVE Young(q, Half)
  <2>1. Sound(q) /\ q.en
    BY <1>4, <1>6 DEF Kept
  <2>2. 0 \in Slots /\ (\A k \in Slots : k \in Nat /\ k < BuffLen) /\ n \in Nat /\ BuffLen \in Int
    BY <1>1, Sizes
  <2>3. A(q, 0) = None \/ A(q, 0) <= Half
    <3>1. CASE n < BuffLen
      <4>1. A(q, 0) = A(t, n) /\ n \in Slots
        BY <1>4, <2>2, <3>1, Sizes
      <4>2. A(t, n) = None \/ A(t, n) < Half
        BY <1>2, <1>6, <3>1
      <4>3. A(t, n) \in Ages
        BY <1>0, <4>1, SlotsOf
      <4>4. QED
        BY <4>1, <4>2, <4>3, AgeBounds
    <3>2. CASE ~ (n < BuffLen)
      <4>1. \A k \in Slots : B(q, k) = None
        BY <1>4, <2>2, <3>2
      <4>2. q.buffed = 0
        BY <2>1, <4>1, NoneFilled DEF Sound
      <4>3. Young(q, Half)
        BY <2>1, <4>2, EmptyBuffer, AgeBounds
      <4>4. QED
        BY <2>2, <4>3 DEF Young
    <3>3. QED
      BY <3>1, <3>2
  <2>4. QED
    BY <2>1, <2>3, OldestFirst, AgeBounds
<1>7. ASSUME t.en, NEW s \in Nat, NEW b \in Int, Going(t, s, s, b)
      PROVE  \E e \in Nat : e >= s /\ Going(r, s, e, b)
  <2>1. n \in Nat /\ n <= BuffLen /\ BuffLen \in Int
    BY <1>1, Sizes
  <2>2. s + n <= b
    <3>1. CASE n = 0
      BY <1>7, <3>1 DEF Going
    <3>2. CASE n # 0
      <4>1. n - 1 \in Slots /\ n - 1 \in 0 .. n - 1
        BY <2>1, <3>2, Sizes
      <4>2. PICK j \in n - 1 .. BuffLen - 1 : B(t, j) # None
        BY <1>2, <1>7, <4>1 DEF Sound, MarksOK
      <4>3. j \in Slots /\ j >= n - 1
        BY <2>1, <3>2, <4>2, Sizes
      <4>4. s + j < b
        BY <1>7, <4>2, <4>3 DEF Going
      <4>5. QED
        BY <2>1, <4>3, <4>4, Sizes
    <3>3. QED
      BY <3>1, <3>2
  <2>3. PICK e \in Nat : e >= s + n /\ Going(r, s, e, b)
    BY <1>5, <1>7, <2>2
  <2>4. QED
    BY <2>1, <2>3
<1>8. t.en => Young(r, Half)
  BY <1>5, <1>6, AgeBounds
<1>9. QED
  BY <1>5, <1>7, <1>8

\* The larger of two.
LEMMA MaxOfTwo ==
    ASSUME NEW a \in Int, NEW b \in Int
    PROVE  Max({a, b}) = IF a >= b THEN a ELSE b
<1>1. Max({a, b}) \in {a, b} /\ \A x \in {a, b} : x <= Max({a, b})
  <2> DEFINE S == {a, b}
  <2>0. S \in SUBSET Int /\ S # {}
    OBVIOUS
  <2>1. CASE a >= b
    <3>1. \A x \in S : x <= a
      BY <2>1
    <3> HIDE DEF S
    <3>2. Max(S) \in S /\ \A x \in S : x <= Max(S)
      BY <2>0, <3>1, MaxOfSome
    <3>3. QED
      BY <3>2 DEF S
  <2>2. CASE ~ (a >= b)
    <3>1. \A x \in S : x <= b
      BY <2>2
    <3> HIDE DEF S
    <3>2. Max(S) \in S /\ \A x \in S : x <= Max(S)
      BY <2>0, <3>1, MaxOfSome
    <3>3. QED
      BY <3>2 DEF S
  <2>3. QED
    BY <2>1, <2>2
<1>2. QED
  BY <1>1

\* The peer's window moves up to a frame, never back.
LEMMA WindowMoves ==
    ASSUME base \in 0 .. MaxFrame + 1, NEW f \in Frames, f >= base
    PROVE  /\ Max({base, f - BuffLen + 1}) \in 0 .. MaxFrame + 1
           /\ Max({base, f - BuffLen + 1}) >= base
           /\ f \in Max({base, f - BuffLen + 1}) .. Max({base, f - BuffLen + 1}) + BuffLen - 1
<1>1. base \in Int /\ f \in 0 .. MaxFrame /\ MaxFrame \in Nat /\ BuffLen \in Nat \ {0}
  BY Bounds, Sizes DEF Frames
<1>2. f - BuffLen + 1 \in Int
  BY <1>1
<1>3. Max({base, f - BuffLen + 1}) = IF base >= f - BuffLen + 1 THEN base ELSE f - BuffLen + 1
  BY <1>1, <1>2, MaxOfTwo
<1>4. QED
  BY <1>1, <1>3

\* A new agreement starts behind everything received.
LEMMA AddbaBase ==
    ASSUME base \in 0 .. MaxFrame + 1, newest \in -1 .. MaxFrame
    PROVE  Max({base, newest + 1}) \in 0 .. MaxFrame + 1 /\ Max({base, newest + 1}) >= base
<1>1. base \in Int /\ newest + 1 \in Int /\ MaxFrame \in Nat
  BY Sizes
<1>2. Max({base, newest + 1}) = IF base >= newest + 1 THEN base ELSE newest + 1
  BY <1>1, MaxOfTwo
<1>3. QED
  BY <1>1, <1>2

\* Everything goes up, and the window starts anew.
Restarted(t, n) ==
    LET all == IF t.buffed > 0 THEN ForceFree(t, t.wind) ELSE t
    IN [all EXCEPT !.start = n]

LEMMA BeyondResult ==
    ASSUME NEW t, Sound(t), t.en, NEW n \in 0 .. SeqSpace - 1, NEW r, r = Restarted(t, n)
    PROVE  /\ Sound(r) /\ r.en /\ r.buffed = 0 /\ r.start = n
           /\ t.buffed = 0 => r.up = t.up
           /\ \A s \in Nat : \A b \in Int : Going(t, s, s, b) =>
                \E e \in Nat : s <= e /\ e <= s + BuffLen /\ UpFrom(r, s, e)
<1>0. PICK q : q = (IF t.buffed > 0 THEN ForceFree(t, t.wind) ELSE t) /\ r = [q EXCEPT !.start = n]
  BY DEF Restarted
<1>1. t \in TidRec /\ Counted(t) /\ t.wind = BuffLen /\ BuffLen \in Nat /\ BuffLen \in 0 .. BuffLen
      /\ t.buffed \in Nat
  BY Sizes, NoneFilled DEF Sound
<1>2. /\ Sound(q) /\ q.en /\ q.buffed = 0
      /\ t.buffed = 0 => q.up = t.up
      /\ \A s \in Nat : \A b \in Int : Going(t, s, s, b) =>
           \E e \in Nat : s <= e /\ e <= s + BuffLen /\ UpFrom(q, s, e)
  <2>1. CASE t.buffed = 0
    <3>1. q = t
      BY <1>0, <2>1
    <3>2. ASSUME NEW s \in Nat, NEW b \in Int, Going(t, s, s, b)
          PROVE  \E e \in Nat : s <= e /\ e <= s + BuffLen /\ UpFrom(q, s, e)
      BY <1>1, <3>1, <3>2 DEF Going
    <3>3. QED
      BY <2>1, <3>1, <3>2
  <2>2. CASE t.buffed # 0
    <3>1. q = ForceFree(t, BuffLen)
      BY <1>1, <1>0, <2>2
    <3>2. /\ Kept(t, q)
          /\ \A k \in Slots : BuffLen + k >= BuffLen => B(q, k) = None
          /\ \A s0, s \in Nat : \A b \in Int :
               Going(t, s0, s, b) /\ s + BuffLen <= b => Going(q, s0, s + BuffLen, b)
      BY <1>1, <3>1, ForceFreeKeeps
    <3>3. q.buffed = 0
      <4>1. \A k \in Slots : BuffLen + k >= BuffLen
        BY Sizes
      <4>2. QED
        BY <3>2, <4>1, NoneFilled DEF Kept, Sound
    <3>4. ASSUME NEW s \in Nat, NEW b \in Int, Going(t, s, s, b)
          PROVE  \E e \in Nat : s <= e /\ e <= s + BuffLen /\ UpFrom(q, s, e)
      <4>1. s + BuffLen \in Nat /\ s <= s + BuffLen /\ \A k \in Slots : s + k < s + BuffLen
        BY <1>1, Sizes
      <4>2. Going(t, s, s, s + BuffLen)
        BY <3>4, <4>1 DEF Going
      <4>3. Going(q, s, s + BuffLen, s + BuffLen)
        BY <1>1, <3>2, <4>1, <4>2
      <4>4. UpFrom(q, s, s + BuffLen)
        BY <4>3 DEF Going
      <4>5. QED
        BY <1>1, <4>1, <4>4
    <3>5. QED
      BY <2>2, <3>2, <3>3, <3>4 DEF Kept
  <2>3. QED
    BY <2>1, <2>2
<1>3. Sound(r) /\ r.buffed = 0 /\ r.en = q.en /\ r.up = q.up /\ r.start = n
  <2>1. Sound(q) /\ q.buffed = 0
    BY <1>2
  <2>2. r = [q EXCEPT !.start = n]
    BY <1>0
  <2>3. QED
    BY <2>1, <2>2, StartMoves
<1>4. \A s, e : UpFrom(q, s, e) => UpFrom(r, s, e)
  BY <1>3 DEF UpFrom
<1>5. QED
  BY <1>2, <1>3, <1>4

-----------------------------------------------------------------------------
(* The invariant is inductive.                                              *)

LEMMA FlagsStep == FlagsOK /\ [Next]_vars => FlagsOK'
<1> SUFFICES ASSUME FlagsOK, [Next]_vars PROVE FlagsOK'
  OBVIOUS
<1> USE DEF FlagsOK, history
<1>1. CASE \E f \in Frames : FrameDirect(f) \/ FrameEnter(f)
  BY <1>1 DEF FrameDirect, FrameEnter
<1>2. CASE FrameExpected
  BY <1>2 DEF FrameExpected, FrameTaken
<1>3. CASE FrameOld
  BY <1>3 DEF FrameOld, FrameTaken
<1>4. CASE FrameTooFar
  BY <1>4 DEF FrameTooFar, FrameTaken
<1>5. CASE FrameHeld
  BY <1>5 DEF FrameHeld, FrameTaken
<1>6. CASE FrameBuffered
  BY <1>6 DEF FrameBuffered, FrameTaken, FrameTimer, Register, Unset, Commit, HandUp
<1>7. CASE FrameUp
  BY <1>7 DEF FrameUp, HandUp
<1>8. CASE Addba
  BY <1>8 DEF Addba
<1>9. CASE DelbaStart \/ ResetStart
  BY <1>9 DEF DelbaStart, ResetStart, TidReset, Unset
<1>10. CASE DelbaEnd \/ ResetEnd
  BY <1>10 DEF DelbaEnd, ResetEnd, TidDisable
<1>11. CASE \E s \in Frames : BarIgnored(s) \/ BarWithin(s) \/ BarBeyond(s)
  BY <1>11 DEF BarIgnored, BarWithin, BarBeyond, BarTimer, Register, Unset, Commit, HandUp
<1>12. CASE Tick \/ TimeoutEnter
  BY <1>12 DEF Tick, TimeoutEnter
<1>13. CASE TimeoutBody
  BY <1>13 DEF TimeoutBody, Again, Register, Unset, Commit, HandUp
<1>14. CASE UNCHANGED vars
  BY <1>14 DEF vars
<1>15. QED
  BY <1>1, <1>2, <1>3, <1>4, <1>5, <1>6, <1>7, <1>8, <1>9, <1>10, <1>11, <1>12, <1>13,
     <1>14 DEF Next

\* The buffer stays sound, and what goes up is made of frames.
LEMMA BufferStep ==
    ASSUME DataOK, BufferOK, FrameInHand, [Next]_vars
    PROVE  BufferOK' /\ high' \in -1 .. MaxFrame
<1>0. Sound(tid) /\ tid.up = <<>> /\ high \in -1 .. MaxFrame
  BY DEF BufferOK, DataOK
<1>1. ASSUME UNCHANGED tid PROVE BufferOK'
  BY <1>1 DEF BufferOK
<1>2. ASSUME NEW r, Sound(r), Commit(r) PROVE BufferOK' /\ high' \in -1 .. MaxFrame
  <2>1. tid' = [r EXCEPT !.up = <<>>] /\ HandUp(r.up)
    BY <1>2 DEF Commit
  <2>2. Sound(tid') /\ tid'.up = <<>>
    BY <1>2, <2>1, Cleared
  <2>3. r.up \in Seq(Frames \cup {None})
    BY <1>2, Typed DEF Sound
  <2>4. high' \in -1 .. MaxFrame
    BY <1>0, <2>1, <2>3, HandedTypes
  <2>5. QED
    BY <2>2, <2>4 DEF BufferOK
<1>3. ASSUME tid.en, TidReset PROVE BufferOK'
  <2>1. CASE tid.buffed > 0
    <3>1. tid' = [Release(tid, tid.wind) EXCEPT !.start = 0]
      BY <1>3, <2>1 DEF TidReset
    <3>2. Sound(tid') /\ tid'.up = tid.up
      BY <1>0, <1>3, <3>1, ResetEmpties
    <3>3. QED
      BY <1>0, <3>2 DEF BufferOK
  <2>2. CASE ~ (tid.buffed > 0)
    BY <1>1, <1>3, <2>2 DEF TidReset
  <2>3. QED
    BY <2>1, <2>2
<1>4. ASSUME TidDisable PROVE BufferOK'
  <2>1. tid' = [tid EXCEPT !.en = FALSE, !.wind = 0, !.start = 0]
    BY <1>4 DEF TidDisable
  <2>2. Sound(tid') /\ tid'.up = tid.up
    BY <1>0, <2>1, DisableKeeps
  <2>3. QED
    BY <1>0, <2>2 DEF BufferOK
<1>5. CASE \E f \in Frames : FrameDirect(f) \/ FrameEnter(f)
  BY <1>0, <1>1, <1>5 DEF FrameDirect, FrameEnter, history
<1>6. CASE FrameExpected
  <2>1. rx.frame \in Frames /\ tid.buffed = 0 /\ tid' = [tid EXCEPT !.start = StartAfter] /\ high' = high
    BY <1>6 DEF FrameExpected, FrameTaken, Expected, FrameInHand
  <2>2. StartAfter \in 0 .. SeqSpace - 1
    <3>1. rx.frame \in Int /\ 1 \in Int
      BY <2>1, Sizes
    <3>2. Sn(rx.frame) \in Int
      BY <3>1, NumbersInRange
    <3>3. QED
      BY <3>1, <3>2, NumbersInRange DEF StartAfter
  <2>3. Sound(tid') /\ tid'.up = tid.up
    BY <1>0, <2>1, <2>2, StartMoves
  <2>4. QED
    BY <1>0, <2>1, <2>3 DEF BufferOK
<1>7. CASE FrameOld \/ FrameTooFar \/ FrameHeld
  BY <1>0, <1>1, <1>7 DEF FrameOld, FrameTooFar, FrameHeld
<1>8. CASE FrameBuffered
  <2> DEFINE r == UpLayer(BuffQueue(IF Beyond THEN ForceFree(tid, NeedFree) ELSE tid, rx.frame))
  <2>1. rx.frame \in Frames /\ ~TooOld /\ ~TooFar /\ ~Held /\ Commit(r)
    BY <1>8 DEF FrameBuffered, FrameTaken, FrameInHand
  <2>2. Sound(r)
    BY <2>1, FrameResult
  <2> HIDE DEF r
  <2>3. QED
    BY <1>2, <2>1, <2>2
<1>9. CASE FrameUp
  <2>1. rx.frame \in Frames /\ HandUp(<<rx.frame>>) /\ tid' = tid
    BY <1>9 DEF FrameUp, FrameInHand
  <2>2. <<rx.frame>> \in Seq(Frames \cup {None})
    BY <2>1
  <2>3. high' \in -1 .. MaxFrame
    BY <1>0, <2>1, <2>2, HandedTypes
  <2>4. QED
    BY <1>1, <2>1, <2>3
<1>10. CASE Addba
  <2>1. /\ tid' = [en |-> TRUE, wind |-> BuffLen, start |-> Sn(base'), buffed |-> 0,
                   up |-> <<>>, buff |-> [i \in Slots |-> None], age |-> [i \in Slots |-> None]]
        /\ base' = Max({base, newest + 1}) /\ high' = base' - 1
    BY <1>10 DEF Addba
  <2>2. base' \in 0 .. MaxFrame + 1
    BY <2>1, AddbaBase DEF DataOK
  <2>3. base' \in Int /\ base' - 1 \in -1 .. MaxFrame
    <3>1. MaxFrame \in Int
      BY Sizes
    <3>2. \A n \in 0 .. MaxFrame + 1 : n \in Int /\ n - 1 \in -1 .. MaxFrame
      BY <3>1
    <3>3. QED
      BY <2>2, <3>2
  <2>4. Sn(base') \in 0 .. SeqSpace - 1
    BY <2>3, NumbersInRange
  <2>5. /\ tid'.en /\ tid'.wind = BuffLen /\ tid'.buffed = 0 /\ tid'.up = <<>>
        /\ \A i \in Slots : tid'.buff[i] = None /\ tid'.age[i] = None
    BY <2>1
  <2>6. tid' \in TidRec
    <3>1. /\ [i \in Slots |-> None] \in [Slots -> Frames \cup {None}]
          /\ [i \in Slots |-> None] \in [Slots -> Ages]
          /\ <<>> \in Seq(Frames \cup {None}) /\ BuffLen \in {0, BuffLen} /\ 0 \in Int
      BY DEF Ages
    <3>2. QED
      BY <2>1, <2>4, <3>1 DEF TidRec
  <2>7. Sound(tid')
    BY <2>5, <2>6, EmptyIsSound
  <2>8. QED
    BY <2>1, <2>3, <2>5, <2>7 DEF BufferOK
<1>11. CASE DelbaStart \/ ResetStart
  BY <1>0, <1>3, <1>11 DEF DelbaStart, ResetStart, history
<1>12. CASE DelbaEnd \/ ResetEnd
  BY <1>0, <1>4, <1>12 DEF DelbaEnd, ResetEnd, history
<1>13. CASE \E s \in Frames : BarIgnored(s)
  BY <1>0, <1>1, <1>13 DEF BarIgnored, history
<1>14. CASE \E s \in Frames : BarWithin(s)
  <2>1. PICK s \in Frames : BarWithin(s)
    BY <1>14
  <2> DEFINE r == UpLayer(ForceFree(tid, BarDist(s)))
  <2>2. BarDist(s) \in 0 .. BuffLen /\ Commit(r)
    <3>1. tid.en /\ BarDist(s) \in 1 .. Retry /\ BarDist(s) <= tid.wind /\ Commit(r)
      BY <2>1 DEF BarWithin, BarArrives
    <3>2. tid.wind = BuffLen
      BY <1>0, <3>1 DEF Sound
    <3>3. QED
      BY <3>1, <3>2, Sizes
  <2>3. Sound(r)
    BY <1>0, <2>2, FreeResult
  <2> HIDE DEF r
  <2>4. QED
    BY <1>2, <2>2, <2>3
<1>15. CASE \E s \in Frames : BarBeyond(s)
  <2>1. PICK s \in Frames : BarBeyond(s)
    BY <1>15
  <2> DEFINE r == Restarted(tid, Sn(s))
  <2>2. tid.en /\ Commit(r)
    BY <2>1 DEF BarBeyond, BarArrives, Restarted
  <2>3. Sn(s) \in 0 .. SeqSpace - 1
    BY Sizes, NumbersInRange
  <2>4. Sound(r)
    BY <1>0, <2>2, <2>3, BeyondResult
  <2> HIDE DEF r
  <2>5. QED
    BY <1>2, <2>2, <2>4
<1>16. CASE Tick
  <2>1. tid' = [tid EXCEPT !.age = [i \in Slots |->
                  IF @[i] = None \/ @[i] = MaxAge THEN @[i] ELSE @[i] + 1]] /\ high' = high
    BY <1>16 DEF Tick, history
  <2>2. Sound(tid') /\ tid'.up = tid.up
    BY <1>0, <2>1, TickKeeps
  <2>3. QED
    BY <1>0, <2>1, <2>2 DEF BufferOK
<1>17. CASE TimeoutEnter
  BY <1>0, <1>1, <1>17 DEF TimeoutEnter, history
<1>18. CASE TimeoutBody
  <2>1. CASE tid.buffed = 0
    BY <1>0, <1>1, <1>18, <2>1 DEF TimeoutBody
  <2>2. CASE tid.buffed # 0
    <3> DEFINE r == UpLayer(ForceFree(tid, Expired(tid)))
    <3>1. Commit(r)
      BY <1>18, <2>2 DEF TimeoutBody
    <3>2. Sound(r)
      BY <1>0, TimeoutResult
    <3> HIDE DEF r
    <3>3. QED
      BY <1>2, <3>1, <3>2
  <2>3. QED
    BY <2>1, <2>2
<1>19. CASE UNCHANGED vars
  BY <1>0, <1>1, <1>19 DEF vars, history
<1>20. QED
  BY <1>5, <1>6, <1>7, <1>8, <1>9, <1>10, <1>11, <1>12, <1>13, <1>14, <1>15, <1>16, <1>17,
     <1>18, <1>19 DEF Next

\* The timers.
LEMMA TimerAdded ==
    ASSUME NEW ts \in [0 .. Timeout -> Nat], NEW d \in 0 .. Timeout
    PROVE  /\ With(ts, d) \in [0 .. Timeout -> Nat] /\ With(ts, d)[d] > 0
           /\ \A e \in 0 .. Timeout : ts[e] > 0 => With(ts, d)[e] > 0
  BY DEF With

\* Registering keeps the timers there are; where it fails, untimed says so.
LEMMA Registered ==
    ASSUME NEW ts \in [0 .. Timeout -> Nat], NEW d \in 0 .. Timeout, Register(ts, d)
    PROVE  /\ timers' \in [0 .. Timeout -> Nat]
           /\ \A e \in 0 .. Timeout : ts[e] > 0 => timers'[e] > 0
           /\ ~untimed' => timers'[d] > 0 /\ ~untimed
<1>1. CASE timers' = With(ts, d) /\ UNCHANGED untimed
  <2>1. /\ With(ts, d) \in [0 .. Timeout -> Nat] /\ With(ts, d)[d] > 0
        /\ \A e \in 0 .. Timeout : ts[e] > 0 => With(ts, d)[e] > 0
    BY TimerAdded
  <2>2. QED
    BY <1>1, <2>1
<1>2. CASE timers' = ts /\ untimed' = TRUE
  BY <1>2
<1>3. QED
  BY <1>1, <1>2 DEF Register

LEMMA NoTimersType == NoTimers \in [0 .. Timeout -> Nat]
  BY DEF NoTimers

\* The timer of a frame comes in time.
LEMMA LeftComes ==
    ASSUME NEW t, Sound(t)
    PROVE  /\ Left(t) \in 0 .. Timeout
           /\ A(t, 0) # None /\ A(t, 0) <= Longest => A(t, 0) + Left(t) <= Longest
<1> DEFINE a == A(t, 0)
<1>1. a = None \/ (a \in Int /\ a >= 0)
  <2>1. t \in TidRec /\ 0 \in Slots
    BY Sizes DEF Sound
  <2>2. A(t, 0) \in Ages
    BY <2>1, SlotsOf
  <2>3. QED
    BY <2>2, AgeBounds
<1>2. Left(t) = IF a = None \/ a >= Timeout THEN 0 ELSE Timeout - a
  BY DEF Left, A
<1>3. Timeout \in Nat /\ Half \in Nat /\ Longest = Timeout + Half
  BY AgeBounds DEF Longest
<1> HIDE DEF a
<1>4. CASE a = None \/ a >= Timeout
  <2>1. Left(t) = 0
    BY <1>2, <1>4
  <2>2. QED
    BY <1>1, <1>3, <2>1 DEF a
<1>5. CASE ~ (a = None \/ a >= Timeout)
  <2>1. Left(t) = Timeout - a /\ a \in Int /\ a >= 0 /\ a < Timeout
    BY <1>1, <1>2, <1>3, <1>5
  <2>2. QED
    BY <1>3, <2>1 DEF a
<1>6. QED
  BY <1>4, <1>5

LEMMA TimersStep ==
    ASSUME DataOK, BufferOK, FrameInHand, [Next]_vars
    PROVE  timers' \in [0 .. Timeout -> Nat]
<1>0. timers \in [0 .. Timeout -> Nat] /\ Timeout \in 0 .. Timeout /\ 0 \in 0 .. Timeout
      /\ Timeout \in Nat \ {0} /\ Sound(tid)
  BY AgeBounds DEF DataOK, BufferOK
<1>1. ASSUME NEW t, BarTimer(t) PROVE timers' \in [0 .. Timeout -> Nat]
  BY <1>0, <1>1, Registered, NoTimersType DEF BarTimer
<1>2. ASSUME TidReset PROVE timers' \in [0 .. Timeout -> Nat]
  BY <1>0, <1>2, NoTimersType DEF TidReset
<1>3. CASE \E f \in Frames : FrameDirect(f) \/ FrameEnter(f)
  BY <1>0, <1>3 DEF FrameDirect, FrameEnter
<1>4. CASE FrameExpected \/ FrameOld \/ FrameTooFar \/ FrameHeld
  BY <1>0, <1>4 DEF FrameExpected, FrameOld, FrameTooFar, FrameHeld
<1>5. CASE FrameBuffered
  <2> DEFINE r == UpLayer(BuffQueue(IF Beyond THEN ForceFree(tid, NeedFree) ELSE tid, rx.frame))
  <2>1. rx.frame \in Frames /\ ~TooOld /\ ~TooFar /\ ~Held /\ FrameTimer(r, rx.seen)
    BY <1>5 DEF FrameBuffered, FrameTaken, FrameInHand
  <2>2. Sound(r)
    BY <2>1, FrameResult
  <2> HIDE DEF r
  <2>3. Left(r) \in 0 .. Timeout
    BY <2>2, LeftComes
  <2>4. QED
    BY <1>0, <2>1, <2>3, Registered, NoTimersType DEF FrameTimer
<1>6. CASE FrameUp \/ Addba
  BY <1>0, <1>6 DEF FrameUp, Addba
<1>7. CASE DelbaStart \/ ResetStart
  BY <1>2, <1>7 DEF DelbaStart, ResetStart
<1>8. CASE DelbaEnd \/ ResetEnd
  BY <1>0, <1>8 DEF DelbaEnd, ResetEnd, TidDisable
<1>9. CASE \E s \in Frames : BarIgnored(s)
  BY <1>0, <1>9 DEF BarIgnored
<1>10. CASE \E s \in Frames : BarWithin(s) \/ BarBeyond(s)
  BY <1>1, <1>10 DEF BarWithin, BarBeyond
<1>11. CASE Tick
  <2>1. timers' = [d \in 0 .. Timeout |-> IF d = Timeout THEN 0 ELSE timers[d + 1]]
    BY <1>11 DEF Tick
  <2>2. \A d \in 0 .. Timeout : d # Timeout => d + 1 \in 0 .. Timeout
    BY <1>0
  <2>3. QED
    BY <1>0, <2>1, <2>2
<1>12. CASE TimeoutEnter
  <2>1. timers[0] > 0 /\ timers' = [timers EXCEPT ![0] = @ - 1] /\ timers[0] \in Nat
    BY <1>0, <1>12 DEF TimeoutEnter
  <2>2. timers[0] - 1 \in Nat
    BY <2>1
  <2>3. QED
    BY <1>0, <2>1, <2>2
<1>13. CASE TimeoutBody
  BY <1>0, <1>13, Registered DEF TimeoutBody, Again
<1>14. CASE UNCHANGED vars
  BY <1>0, <1>14 DEF vars
<1>15. QED
  BY <1>3, <1>4, <1>5, <1>6, <1>7, <1>8, <1>9, <1>10, <1>11, <1>12, <1>13, <1>14 DEF Next

\* The receive thread's frame.
LEMMA FrameStep ==
    ASSUME DataOK, BufferOK, FrameInHand, [Next]_vars
    PROVE  /\ rx' \in [pc : {"idle", "queue", "up", "delba"}, frame : Frames \cup {None},
                       seen : 0 .. SeqSpace - 1]
           /\ FrameInHand'
<1> DEFINE Recs == [pc : {"idle", "queue", "up", "delba"}, frame : Frames \cup {None},
                    seen : 0 .. SeqSpace - 1]
<1> SUFFICES rx' \in Recs /\ FrameInHand'
  OBVIOUS
<1>0. rx \in Recs /\ 0 \in 0 .. SeqSpace - 1 /\ tid.start \in 0 .. SeqSpace - 1
  BY Sizes, Typed DEF DataOK, BufferOK, Sound
<1>1. Idle \in Recs /\ Idle.pc = "idle"
  BY <1>0 DEF Idle
<1>2. [Idle EXCEPT !.pc = "delba"] \in Recs /\ [Idle EXCEPT !.pc = "delba"].pc = "delba"
  BY <1>0 DEF Idle
<1>3. /\ [rx EXCEPT !.pc = "up"] \in Recs /\ [rx EXCEPT !.pc = "up"].pc = "up"
      /\ [rx EXCEPT !.pc = "up"].frame = rx.frame
  BY <1>0
<1>4. ASSUME rx' = Idle PROVE rx' \in Recs /\ FrameInHand'
  BY <1>1, <1>4 DEF FrameInHand
<1>5. ASSUME rx' = [rx EXCEPT !.pc = "up"], rx.pc = "queue" PROVE rx' \in Recs /\ FrameInHand'
  BY <1>3, <1>5 DEF FrameInHand
<1>6. ASSUME rx' = rx, base' = base \/ rx.pc = "idle" PROVE rx' \in Recs /\ FrameInHand'
  BY <1>0, <1>6 DEF FrameInHand
<1> HIDE DEF Recs
<1>7. CASE \E f \in Frames : FrameDirect(f)
  BY <1>6, <1>7 DEF FrameDirect
<1>8. CASE \E f \in Frames : FrameEnter(f)
  <2>1. PICK f \in Frames : FrameEnter(f)
    BY <1>8
  <2>2. /\ rx' = [pc |-> "queue", frame |-> f, seen |-> tid.start]
        /\ f \in base' .. base' + BuffLen - 1
    <3>1. base \in 0 .. MaxFrame + 1
      BY DEF DataOK
    <3>2. f >= base /\ base' = Max({base, f - BuffLen + 1})
      BY <2>1 DEF FrameEnter, CanArrive
    <3>3. f \in base' .. base' + BuffLen - 1
      BY <3>1, <3>2, WindowMoves
    <3>4. QED
      BY <2>1, <3>3 DEF FrameEnter
  <2>3. rx' \in Recs /\ rx'.frame = f
    BY <1>0, <2>2 DEF Recs
  <2>4. FrameInHand'
    BY <2>2, <2>3 DEF FrameInHand
  <2>5. QED
    BY <2>3, <2>4
<1>9. CASE FrameExpected \/ FrameTooFar
  BY <1>5, <1>9 DEF FrameExpected, FrameTooFar, FrameTaken
<1>10. CASE FrameOld \/ FrameHeld \/ FrameBuffered \/ FrameUp
  BY <1>4, <1>10 DEF FrameOld, FrameHeld, FrameBuffered, FrameUp
<1>11. CASE Addba
  BY <1>6, <1>11 DEF Addba
<1>12. CASE DelbaStart
  BY <1>2, <1>12 DEF DelbaStart, FrameInHand
<1>13. CASE DelbaEnd
  BY <1>4, <1>13 DEF DelbaEnd
<1>14. CASE \E s \in Frames : BarIgnored(s) \/ BarWithin(s) \/ BarBeyond(s)
  BY <1>6, <1>14 DEF BarIgnored, BarWithin, BarBeyond, BarArrives
<1>15. CASE ResetStart \/ ResetEnd
  BY <1>6, <1>15 DEF ResetStart, ResetEnd
<1>16. CASE Tick \/ TimeoutEnter \/ TimeoutBody
  BY <1>6, <1>16 DEF Tick, TimeoutEnter, TimeoutBody
<1>17. CASE UNCHANGED vars
  BY <1>6, <1>17 DEF vars
<1>18. QED
  BY <1>7, <1>8, <1>9, <1>10, <1>11, <1>12, <1>13, <1>14, <1>15, <1>16, <1>17 DEF Next

\* The counters and the two other threads.
LEMMA NumbersStep ==
    ASSUME DataOK, FrameInHand, [Next]_vars
    PROVE  /\ task' \in {"idle", "entered"} /\ reset' \in {"idle", "half"}
           /\ addbas' \in 0 .. MaxAddba /\ resets' \in 0 .. MaxReset
           /\ base' \in 0 .. MaxFrame + 1 /\ newest' \in -1 .. MaxFrame
<1> DEFINE Sane == /\ task \in {"idle", "entered"} /\ reset \in {"idle", "half"}
                   /\ addbas \in 0 .. MaxAddba /\ resets \in 0 .. MaxReset
                   /\ base \in 0 .. MaxFrame + 1 /\ newest \in -1 .. MaxFrame
<1>0. Sane /\ MaxFrame \in Nat /\ MaxAddba \in Nat /\ MaxReset \in Nat /\ Frames = 0 .. MaxFrame
  BY Bounds DEF DataOK, Frames
<1>1. \A f \in Frames : Max({newest, f}) \in -1 .. MaxFrame /\ f \in 0 .. MaxFrame + 1
  <2>1. \A f \in Frames : newest \in Int /\ f \in Int
    BY <1>0
  <2>2. \A f \in Frames : Max({newest, f}) = IF newest >= f THEN newest ELSE f
    BY <2>1, MaxOfTwo
  <2>3. QED
    BY <1>0, <2>2
<1>2. ASSUME NEW f \in Frames, FrameDirect(f) \/ FrameEnter(f) PROVE Sane'
  <2>2. CASE FrameDirect(f)
    BY <1>0, <1>1, <2>2 DEF FrameDirect
  <2>3. CASE FrameEnter(f)
    <3>1. base' \in 0 .. MaxFrame + 1
      BY <1>0, <2>3, WindowMoves DEF FrameEnter, CanArrive
    <3>2. QED
      BY <1>0, <2>3, <3>1 DEF FrameEnter, history
  <2>4. QED
    BY <1>2, <2>2, <2>3
<1>3. ASSUME FrameTaken PROVE Sane'
  BY <1>0, <1>1, <1>3 DEF FrameTaken, FrameInHand
<1>4. CASE FrameExpected \/ FrameOld \/ FrameTooFar \/ FrameHeld \/ FrameBuffered
  BY <1>3, <1>4 DEF FrameExpected, FrameOld, FrameTooFar, FrameHeld, FrameBuffered
<1>5. CASE FrameUp
  BY <1>0, <1>5 DEF FrameUp
<1>6. CASE Addba
  <2>1. base' \in 0 .. MaxFrame + 1
    BY <1>6, AddbaBase DEF Addba, DataOK
  <2>2. addbas' \in 0 .. MaxAddba
    BY <1>0, <1>6 DEF Addba
  <2>3. QED
    BY <1>0, <1>6, <2>1, <2>2 DEF Addba
<1>7. CASE DelbaStart \/ DelbaEnd
  BY <1>0, <1>7 DEF DelbaStart, DelbaEnd, history
<1>8. ASSUME NEW s \in Frames, BarIgnored(s) \/ BarWithin(s) \/ BarBeyond(s) PROVE Sane'
  BY <1>0, <1>1, <1>8 DEF BarIgnored, BarWithin, BarBeyond, BarArrives, history
<1>9. CASE ResetStart \/ ResetEnd
  <2>1. resets' \in 0 .. MaxReset
    BY <1>0, <1>9 DEF ResetStart, ResetEnd
  <2>2. QED
    BY <1>0, <1>9, <2>1 DEF ResetStart, ResetEnd, history
<1>10. CASE Tick \/ TimeoutEnter \/ TimeoutBody
  BY <1>0, <1>10 DEF Tick, TimeoutEnter, TimeoutBody, history
<1>11. CASE UNCHANGED vars
  BY <1>0, <1>11 DEF vars, history
<1>12. QED
  BY <1>2, <1>4, <1>5, <1>6, <1>7, <1>8, <1>9, <1>10, <1>11 DEF Next

LEMMA DataStep ==
    ASSUME DataOK, BufferOK, FrameInHand, [Next]_vars
    PROVE  DataOK' /\ FrameInHand'
  BY TimersStep, FrameStep, NumbersStep, BufferStep DEF DataOK

\* A frame that was waited for is still waited for, if the timers are there
\* still and nothing in the buffer is older than before.
LEMMA StillComes ==
    ASSUME DataOK, BufferOK, tid.en, tid.buffed > 0, A(tid, 0) <= Longest, Comes,
           task' = task, \A e \in 0 .. Timeout : timers[e] > 0 => timers'[e] > 0,
           NEW r, Sound(r), r.en, r.buffed > 0, A(tid', 0) = A(r, 0),
           \A a \in Nat : Young(tid, a) => Young(r, a)
    PROVE  A(tid', 0) <= Longest /\ Comes'
<1>1. A(tid, 0) \in Nat /\ Young(tid, A(tid, 0))
  BY OldestFirst DEF BufferOK
<1>2. A(r, 0) # None /\ A(r, 0) \in Int /\ 0 \in Slots
  BY OldestFirst
<1>3. A(r, 0) <= A(tid, 0)
  BY <1>1, <1>2 DEF Young
<1>4. Longest \in Int /\ Timeout \in Int
  BY AgeBounds DEF Longest
<1>5. CASE task = "entered"
  BY <1>1, <1>2, <1>3, <1>4, <1>5 DEF Comes
<1>6. CASE task # "entered"
  <2>1. PICK d \in 0 .. Timeout : timers[d] > 0 /\ A(tid, 0) + d <= Longest
    BY <1>6 DEF Comes
  <2>2. timers'[d] > 0 /\ A(tid', 0) + d <= Longest
    BY <1>1, <1>2, <1>3, <1>4, <2>1
  <2>3. A(tid', 0) <= Longest
    BY <1>1, <1>2, <1>3, <1>4
  <2>4. QED
    BY <2>2, <2>3 DEF Comes
<1>7. QED
  BY <1>5, <1>6

LEMMA TimerSetStep ==
    ASSUME FlagsOK, DataOK, BufferOK, FrameInHand, TimerSet, [Next]_vars
    PROVE  TimerSet'
<1> DEFINE Due == A(tid, 0) <= Longest /\ Comes
           Closing == ~tid.en \/ reset = "half" \/ rx.pc = "delba"
<1> SUFFICES ASSUME ~raced'
             PROVE  /\ running' <=> tid'.buffed > 0
                    /\ Closing' => tid'.buffed = 0
                    /\ tid'.en /\ tid'.buffed > 0 /\ ~untimed' => Due'
  BY DEF TimerSet
<1> DEFINE Goal == /\ running' <=> tid'.buffed > 0
                   /\ Closing' => tid'.buffed = 0
                   /\ tid'.en /\ tid'.buffed > 0 /\ ~untimed' => Due'
<1> SUFFICES Goal
  OBVIOUS
<1>0. /\ Sound(tid) /\ Counted(tid) /\ tid \in TidRec /\ tid.buffed \in Nat
      /\ running \in BOOLEAN /\ timers \in [0 .. Timeout -> Nat]
  <2>1. Sound(tid) /\ Counted(tid) /\ tid \in TidRec
    BY DEF BufferOK, Sound
  <2>2. tid.buffed \in Nat
    BY <2>1, NoneFilled
  <2>3. QED
    BY <2>1, <2>2 DEF FlagsOK, DataOK
<1>1. ~raced
  <2>1. CASE FrameTaken
    BY <2>1 DEF FrameTaken
  <2>2. CASE ~FrameTaken
    <3>1. UNCHANGED raced
      BY <2>2 DEF Next, vars, history, FrameDirect, FrameEnter, FrameExpected,
         FrameOld, FrameTooFar, FrameHeld, FrameBuffered, FrameUp, Addba, DelbaStart, DelbaEnd,
         BarIgnored, BarWithin, BarBeyond, ResetStart, ResetEnd, Tick, TimeoutEnter, TimeoutBody
    <3>2. QED
      BY <3>1
  <2>3. QED
    BY <2>1, <2>2
<1>2. /\ running <=> tid.buffed > 0
      /\ Closing => tid.buffed = 0
      /\ tid.en /\ tid.buffed > 0 /\ ~untimed => Due
  BY <1>1 DEF TimerSet
<1> HIDE DEF Due, Closing, Goal
<1>3. ASSUME tid'.buffed = 0, running' = FALSE PROVE Goal
  BY <1>3 DEF Goal
<1>4. ASSUME tid'.buffed = 0, tid.buffed = 0, running' = running PROVE Goal
  <2>1. ~running
    BY <1>2, <1>4
  <2>2. ~running'
    BY <2>1, <1>4
  <2>3. QED
    BY <1>4, <2>2 DEF Goal
<1>5. ASSUME UNCHANGED <<tid, running, timers, untimed, task>>,
             rx'.pc = "delba" => rx.pc = "delba", reset' = reset
      PROVE  Goal
  <2>1. Closing' => Closing
    BY <1>5 DEF Closing
  <2>2. Due => Due'
    BY <1>5 DEF Due, Comes, Longest, A, At
  <2>3. QED
    BY <1>2, <1>5, <2>1, <2>2 DEF Goal
<1>6. ASSUME TidReset PROVE Goal
  <2>1. CASE tid.buffed > 0
    <3>1. /\ tid' = [Release(tid, tid.wind) EXCEPT !.start = 0] /\ running' = FALSE /\ tid.en
      BY <1>2, <1>6, <2>1 DEF TidReset, Unset, Closing
    <3>2. tid'.buffed = 0
      BY <1>0, <3>1, ResetEmpties
    <3>3. QED
      BY <1>3, <3>1, <3>2
  <2>2. CASE ~ (tid.buffed > 0)
    <3>1. tid' = tid /\ running' = running /\ tid.buffed = 0
      BY <1>0, <1>6, <2>2 DEF TidReset
    <3>2. QED
      BY <1>4, <3>1
  <2>3. QED
    BY <2>1, <2>2
<1>7. ASSUME TidDisable, Closing PROVE Goal
  <2>1. tid' = [tid EXCEPT !.en = FALSE, !.wind = 0, !.start = 0] /\ running' = running
    BY <1>7 DEF TidDisable
  <2>2. tid'.buffed = tid.buffed /\ tid.buffed = 0
    BY <1>0, <1>2, <1>7, <2>1, DisableKeeps
  <2>3. QED
    BY <1>4, <2>1, <2>2
<1>8. CASE \E f \in Frames : FrameDirect(f) \/ FrameEnter(f)
  BY <1>5, <1>8 DEF FrameDirect, FrameEnter
<1>9. CASE FrameExpected
  <2>1. tid.buffed = 0 /\ tid' = [tid EXCEPT !.start = StartAfter] /\ running' = running
    BY <1>9 DEF FrameExpected, Expected
  <2>2. tid'.buffed = 0
    BY <1>0, <2>1 DEF TidRec
  <2>3. QED
    BY <1>4, <2>1, <2>2
<1>10. CASE FrameOld \/ FrameHeld
  <2>1. Idle.pc = "idle"
    BY DEF Idle
  <2>2. QED
    BY <1>5, <1>10, <2>1 DEF FrameOld, FrameHeld, FrameTaken
<1>11. CASE FrameTooFar
  <2>1. rx' = [rx EXCEPT !.pc = "up"] /\ [rx EXCEPT !.pc = "up"].pc = "up"
    BY <1>11 DEF FrameTooFar, DataOK
  <2>2. QED
    BY <1>5, <1>11, <2>1 DEF FrameTooFar, FrameTaken
<1>12. CASE FrameUp
  <2>1. Idle.pc = "idle"
    BY DEF Idle
  <2>2. QED
    BY <1>5, <1>12, <2>1 DEF FrameUp
<1>13. CASE FrameBuffered
  <2> DEFINE r == UpLayer(BuffQueue(IF Beyond THEN ForceFree(tid, NeedFree) ELSE tid, rx.frame))
  <2>1. /\ rx.frame \in Frames /\ ~TooOld /\ ~TooFar /\ ~Held
        /\ Commit(r) /\ FrameTimer(r, rx.seen)
        /\ task' = task /\ reset' # "half" /\ rx'.pc # "delba"
    <3>1. rx' = Idle /\ Idle.pc = "idle" /\ raced' = (raced \/ reset = "half") /\ reset' = reset
      BY <1>13 DEF FrameBuffered, FrameTaken, Idle
    <3>2. QED
      BY <1>13, <3>1 DEF FrameBuffered, FrameTaken, FrameInHand
  <2>2. /\ tid.en /\ Sound(r) /\ r.en
        /\ \A a \in Nat : Young(tid, a) => Young(r, a)
    BY <2>1, FrameResult
  <2> HIDE DEF r
  <2>3. tid' = [r EXCEPT !.up = <<>>] /\ 0 \in Int
    BY <2>1 DEF Commit
  <2>4. tid'.en = r.en /\ tid'.buffed = r.buffed /\ A(tid', 0) = A(r, 0)
    BY <2>2, <2>3, Cleared, ZenonT(40)
  <2>5. r.buffed \in Nat
    BY <2>2, NoneFilled DEF Sound
  <2>6. CASE r.buffed = 0
    <3>1. running' = FALSE
      BY <2>1, <2>6 DEF FrameTimer, Unset
    <3>2. QED
      BY <1>3, <2>4, <2>6, <3>1
  <2>7. CASE r.buffed > 0
    <3>1. running'
      BY <2>1, <2>5, <2>7 DEF FrameTimer
    <3>2. ASSUME ~untimed' PROVE Due'
      <4>1. CASE ~running \/ rx.seen # r.start
        <5>1. Register(NoTimers, Left(r))
          BY <2>1, <2>7, <4>1 DEF FrameTimer
        <5>2. Left(r) \in 0 .. Timeout
              /\ (A(r, 0) # None /\ A(r, 0) <= Longest => A(r, 0) + Left(r) <= Longest)
          BY <2>2, LeftComes
        <5>3. timers'[Left(r)] > 0 /\ ~untimed
          BY <3>2, <5>1, <5>2, NoTimersType, Registered
        <5>4. Young(tid, Longest) /\ Longest \in Nat
          <6>1. Longest \in Nat
            BY AgeBounds DEF Longest
          <6>2. CASE tid.buffed = 0
            BY <1>0, <2>2, <6>1, <6>2, EmptyBuffer
          <6>3. CASE tid.buffed # 0
            <7>1. A(tid, 0) <= Longest
              BY <1>0, <1>2, <2>2, <5>3, <6>3 DEF Due
            <7>2. QED
              BY <1>0, <2>2, <6>1, <7>1, OldestFirst
          <6>4. QED
            BY <6>1, <6>2, <6>3
        <5>5. A(r, 0) # None /\ 0 \in Slots
          BY <2>2, <2>7, OldestFirst
        <5>6. A(r, 0) <= Longest
          BY <2>2, <5>4, <5>5 DEF Young
        <5>7. A(tid', 0) <= Longest /\ Comes'
          BY <2>4, <5>2, <5>3, <5>5, <5>6 DEF Comes, Longest
        <5>8. QED
          BY <5>7 DEF Due, Longest
      <4>2. CASE ~ (~running \/ rx.seen # r.start)
        <5>1. timers' = timers /\ running /\ ~untimed
          BY <2>1, <2>5, <2>7, <3>2, <4>2 DEF FrameTimer
        <5>2. tid.buffed > 0 /\ A(tid, 0) <= Longest /\ Comes
          BY <1>2, <2>2, <5>1 DEF Due
        <5>3. A(tid', 0) <= Longest /\ Comes'
          BY <2>1, <2>2, <2>4, <2>7, <5>1, <5>2, StillComes
        <5>4. QED
          BY <5>3 DEF Due, Longest
      <4>3. QED
        BY <4>1, <4>2
    <3>3. ~Closing'
      BY <2>1, <2>2, <2>4 DEF Closing
    <3>4. QED
      BY <2>4, <2>7, <3>1, <3>2, <3>3 DEF Goal
  <2>8. QED
    BY <2>5, <2>6, <2>7
<1>14. CASE Addba
  <2>1. ~tid.en /\ running' = running
    BY <1>14 DEF Addba
  <2>2. running = FALSE
    BY <1>0, <1>2, <2>1 DEF Closing
  <2>3. tid'.buffed = 0
    BY <1>14 DEF Addba
  <2>4. QED
    BY <1>3, <2>1, <2>2, <2>3
<1>15. CASE DelbaStart \/ ResetStart
  BY <1>6, <1>15 DEF DelbaStart, ResetStart
<1>16. CASE DelbaEnd \/ ResetEnd
  BY <1>7, <1>16 DEF DelbaEnd, ResetEnd, Closing
<1>17. CASE \E s \in Frames : BarIgnored(s)
  BY <1>5, <1>17 DEF BarIgnored
<1>18. CASE \E s \in Frames : BarWithin(s)
  <2>1. PICK s \in Frames : BarWithin(s)
    BY <1>18
  <2> DEFINE r == UpLayer(ForceFree(tid, BarDist(s)))
  <2>2. /\ tid.en /\ rx.pc = "idle" /\ tid.buffed > 0 /\ Commit(r) /\ BarTimer(r)
        /\ rx' = rx /\ task' = task /\ reset' = reset
        /\ BarDist(s) \in 1 .. Retry /\ BarDist(s) <= tid.wind
    BY <2>1 DEF BarWithin, BarArrives
  <2>3. BarDist(s) \in 0 .. BuffLen
    <3>1. tid.wind = BuffLen
      BY <1>0, <2>2 DEF Sound
    <3>2. QED
      BY <2>2, <3>1, Sizes
  <2>4. /\ Sound(r) /\ r.en
        /\ \A a \in Int : Young(tid, a) => Young(r, a)
    BY <1>0, <2>2, <2>3, FreeResult
  <2> HIDE DEF r
  <2>5. tid' = [r EXCEPT !.up = <<>>] /\ 0 \in Int /\ \A a \in Nat : a \in Int
    BY <2>2 DEF Commit
  <2>6. tid'.en = r.en /\ tid'.buffed = r.buffed /\ A(tid', 0) = A(r, 0)
    BY <2>4, <2>5, Cleared, ZenonT(40)
  <2>7. r.buffed \in Nat
    BY <2>4, NoneFilled DEF Sound
  <2>8. CASE r.buffed = 0
    <3>1. running' = FALSE
      BY <2>2, <2>8 DEF BarTimer, Unset
    <3>2. QED
      BY <1>3, <2>6, <2>8, <3>1
  <2>9. CASE r.buffed > 0
    <3>1. running'
      BY <1>2, <2>2, <2>7, <2>9 DEF BarTimer
    <3>2. Register(timers, Timeout) \/ UNCHANGED <<timers, untimed>>
      BY <2>2, <2>7, <2>9 DEF BarTimer
    <3>3. /\ \A e \in 0 .. Timeout : timers[e] > 0 => timers'[e] > 0
          /\ ~untimed' => ~untimed
      <4>1. Timeout \in 0 .. Timeout
        BY AgeBounds
      <4>2. CASE Register(timers, Timeout)
        BY <1>0, <4>1, <4>2, Registered
      <4>3. CASE UNCHANGED <<timers, untimed>>
        BY <4>3
      <4>4. QED
        BY <3>2, <4>2, <4>3
    <3>4. ASSUME ~untimed' PROVE A(tid', 0) <= Longest /\ Comes'
      <4>1. A(tid, 0) <= Longest /\ Comes
        BY <1>2, <2>2, <3>3, <3>4 DEF Due
      <4>2. \A a \in Nat : Young(tid, a) => Young(r, a)
        BY <2>4, <2>5
      <4>3. QED
        BY <2>2, <2>4, <2>6, <2>9, <3>3, <4>1, <4>2, StillComes
    <3>5. ~Closing'
      BY <1>2, <2>2, <2>4, <2>6 DEF Closing
    <3>6. QED
      BY <2>6, <2>9, <3>1, <3>4, <3>5 DEF Goal, Due, Longest
  <2>10. QED
    BY <2>7, <2>8, <2>9
<1>19. CASE \E s \in Frames : BarBeyond(s)
  <2>1. PICK s \in Frames : BarBeyond(s)
    BY <1>19
  <2> DEFINE r == Restarted(tid, Sn(s))
  <2>2. tid.en /\ Commit(r) /\ BarTimer(r)
    BY <2>1 DEF BarBeyond, BarArrives, Restarted
  <2>3. Sn(s) \in 0 .. SeqSpace - 1
    BY Sizes, NumbersInRange
  <2>4. Sound(r) /\ r.buffed = 0
    BY <1>0, <2>2, <2>3, BeyondResult
  <2> HIDE DEF r
  <2>5. tid' = [r EXCEPT !.up = <<>>]
    BY <2>2 DEF Commit
  <2>6. tid'.buffed = 0
    BY <2>4, <2>5, Cleared
  <2>7. running' = FALSE
    BY <2>2, <2>4 DEF BarTimer, Unset
  <2>8. QED
    BY <1>3, <2>6, <2>7
<1>20. CASE Tick
  <2>1. /\ timers[0] = 0 /\ task = "idle" /\ UNCHANGED <<running, untimed, rx, task, reset>>
        /\ timers' = [d \in 0 .. Timeout |-> IF d = Timeout THEN 0 ELSE timers[d + 1]]
        /\ tid' = [tid EXCEPT !.age = [i \in Slots |->
                     IF @[i] = None \/ @[i] = MaxAge THEN @[i] ELSE @[i] + 1]]
    BY <1>20 DEF Tick
  <2>2. /\ tid'.buffed = tid.buffed /\ tid'.en = tid.en /\ 0 \in Slots
        /\ A(tid', 0) = IF A(tid, 0) = None \/ A(tid, 0) = MaxAge THEN A(tid, 0) ELSE A(tid, 0) + 1
    <3>1. 0 \in Slots
      BY Sizes
    <3>2. QED
      BY <1>0, <2>1, <3>1, TickKeeps
  <2>3. ASSUME tid.en, tid.buffed > 0, ~untimed PROVE Due'
    <3>1. A(tid, 0) # None /\ A(tid, 0) \in Int /\ A(tid, 0) <= Longest /\ Comes
      BY <1>0, <1>2, <2>3, OldestFirst DEF Due
    <3>2. PICK d \in 0 .. Timeout : timers[d] > 0 /\ A(tid, 0) + d <= Longest
      BY <2>1, <3>1 DEF Comes
    <3>3. MaxAge = Longest + 1 /\ Longest \in Int /\ Timeout \in Nat
      BY AgeBounds DEF Longest
    <3>4. d # 0 /\ d - 1 \in 0 .. Timeout /\ d - 1 # Timeout /\ (d - 1) + 1 = d
      BY <2>1, <3>2, <3>3
    <3>5. timers'[d - 1] = timers[d]
      BY <2>1, <3>4
    <3>6. A(tid', 0) = A(tid, 0) + 1
      BY <2>2, <3>1, <3>3
    <3>7. A(tid', 0) + (d - 1) <= Longest /\ A(tid', 0) <= Longest
      BY <3>1, <3>2, <3>3, <3>4, <3>6
    <3>8. QED
      BY <3>2, <3>4, <3>5, <3>7 DEF Due, Comes, Longest
  <2>4. Closing' => Closing
    BY <2>1, <2>2 DEF Closing
  <2>5. QED
    BY <1>2, <2>1, <2>2, <2>3, <2>4 DEF Goal
<1>21. CASE TimeoutEnter
  <2>1. UNCHANGED <<tid, running, untimed, rx, reset>> /\ task' = IF tid.en THEN "entered" ELSE "idle"
    BY <1>21 DEF TimeoutEnter
  <2>2. Closing' => Closing
    BY <2>1 DEF Closing
  <2>3. tid.en /\ Due => Due'
    BY <2>1 DEF Due, Comes, Longest, A, At
  <2>4. QED
    BY <1>2, <2>1, <2>2, <2>3 DEF Goal
<1>22. CASE TimeoutBody
  <2>1. CASE tid.buffed = 0
    <3>1. tid' = tid /\ running' = running
      BY <1>22, <2>1 DEF TimeoutBody
    <3>2. QED
      BY <1>4, <2>1, <3>1
  <2>2. CASE tid.buffed # 0
    <3> DEFINE r == UpLayer(ForceFree(tid, Expired(tid)))
    <3>1. Commit(r) /\ Again(r) /\ UNCHANGED <<rx, reset>>
      BY <1>22, <2>2 DEF TimeoutBody
    <3>2. tid.en /\ running /\ ~Closing
      BY <1>0, <1>2, <2>2 DEF Closing
    <3>3. Sound(r) /\ r.en /\ Young(r, Half)
      BY <1>0, <3>2, TimeoutResult
    <3> HIDE DEF r
    <3>4. tid' = [r EXCEPT !.up = <<>>] /\ 0 \in Int
      BY <3>1 DEF Commit
    <3>5. tid'.en = r.en /\ tid'.buffed = r.buffed /\ A(tid', 0) = A(r, 0)
      BY <3>3, <3>4, Cleared
    <3>6. r.buffed \in Nat
      BY <3>3, NoneFilled DEF Sound
    <3>7. CASE r.buffed = 0
      <4>1. running' = FALSE
        BY <3>1, <3>7 DEF Again, Unset
      <4>2. QED
        BY <1>3, <3>5, <3>7, <4>1
    <3>8. CASE r.buffed > 0
      <4>1. running' = running /\ Register(timers, Timeout)
        BY <3>1, <3>8 DEF Again
      <4>2. Timeout \in 0 .. Timeout /\ Timeout \in Nat /\ Half \in Nat /\ Longest = Timeout + Half
        BY AgeBounds DEF Longest
      <4>3. ~untimed' => timers'[Timeout] > 0
        BY <1>0, <4>1, <4>2, Registered
      <4>4. A(r, 0) \in Int /\ A(r, 0) <= Half
        BY <3>3, <3>8, OldestFirst DEF Young
      <4>5. A(tid', 0) <= Longest /\ A(tid', 0) + Timeout <= Longest
        BY <3>5, <4>2, <4>4
      <4>6. ~untimed' => Due'
        BY <4>2, <4>3, <4>5 DEF Due, Comes, Longest
      <4>7. ~Closing'
        BY <3>1, <3>2, <3>3, <3>5 DEF Closing
      <4>8. QED
        BY <3>2, <3>5, <3>8, <4>1, <4>6, <4>7 DEF Goal
    <3>9. QED
      BY <3>6, <3>7, <3>8
  <2>3. QED
    BY <2>1, <2>2
<1>23. CASE UNCHANGED vars
  BY <1>5, <1>23 DEF vars
<1>24. QED
  BY <1>8, <1>9, <1>10, <1>11, <1>12, <1>13, <1>14, <1>15, <1>16, <1>17, <1>18, <1>19, <1>20,
     <1>21, <1>22, <1>23 DEF Next

\* More room for the peer's frames.
LEMMA GoingGrows ==
    ASSUME NEW t, NEW s0 \in Nat, NEW s \in Nat, NEW b \in Int, NEW c \in Int, b <= c,
           Going(t, s0, s, b)
    PROVE  Going(t, s0, s, c)
<1>1. s <= c
  BY DEF Going
<1>2. ASSUME NEW k \in Slots, B(t, k) # None PROVE s + k < c
  <2>1. k \in Int
    BY Sizes
  <2>2. s + k < b
    BY <1>2 DEF Going
  <2>3. QED
    BY <2>1, <2>2
<1>3. QED
  BY <1>1, <1>2 DEF Going

LEMMA EmptyGoes ==
    ASSUME NEW t, Sound(t), t.buffed = 0, t.up = <<>>, NEW s \in Nat, NEW b \in Int,
           t.start = Sn(s), s <= b
    PROVE  Going(t, s, s, b)
<1>1. /\ t \in TidRec /\ t.wind = (IF t.en THEN BuffLen ELSE 0)
      /\ (\A i \in Slots : t.buff[i] = None) /\ (t.en => \A i \in Slots : t.age[i] = None)
  BY EmptyBuffer DEF Sound
<1>2. QED
  BY <1>1, EmptyIsSound

\* A number less than half the space ahead of the window's start is the
\* frame's real distance: the peer is never further behind than a window.
LEMMA NumberAhead ==
    ASSUME NEW f \in Frames, NEW s \in Nat, f + BuffLen >= s, Dist(Sn(f), Sn(s)) <= Retry
    PROVE  f = s + Dist(Sn(f), Sn(s))
<1>1. f \in Int /\ f < SeqSpace /\ SeqSpace \in Nat \ {0} /\ BuffLen \in Nat /\ Retry \in Nat
      /\ Retry + BuffLen < SeqSpace
  BY Sizes DEF Frames
<1>2. s \in Int /\ f - s \in Int /\ f - s < SeqSpace /\ f - s >= -BuffLen
  BY <1>1
<1>3. Dist(Sn(f), Sn(s)) = (f - s) % SeqSpace
  BY <1>1, <1>2, NumberDist
<1>4. CASE f - s >= 0
  <2>1. f - s \in 0 .. SeqSpace - 1
    BY <1>1, <1>2, <1>4
  <2>2. (f - s) % SeqSpace = f - s
    BY <1>1, <1>2, <2>1, RemainderNear
  <2>3. QED
    BY <1>1, <1>3, <2>2
<1>5. CASE f - s < 0
  <2>1. f - s \in -SeqSpace .. -1
    BY <1>1, <1>2, <1>5
  <2>2. (f - s) % SeqSpace = (f - s) + SeqSpace
    BY <1>1, <1>2, <2>1, RemainderNear
  <2>3. (f - s) + SeqSpace > Retry
    BY <1>1, <1>2
  <2>4. QED
    BY <1>3, <2>2, <2>3, <1>1, <1>2
<1>6. QED
  BY <1>2, <1>4, <1>5

\* The buffer is left as r and what it hands up is in turn.
LEMMA CommitGoes ==
    ASSUME high \in Int, NEW r, Sound(r), Commit(r), NEW s \in Nat, NEW e \in Nat, NEW b \in Int,
           s <= e, Going(r, s, e, b), high < s
    PROVE  /\ Going(tid', e, e, b) /\ high' < e /\ (disorder' => disorder)
<1>1. tid' = [r EXCEPT !.up = <<>>] /\ HandUp(r.up)
  BY DEF Commit
<1>2. Going(tid', e, e, b)
  BY <1>1, Cleared
<1>3. r.up \in Seq(Frames \cup {None})
  BY Typed DEF Sound
<1>4. Len(r.up) = e - s /\ \A i \in 1 .. Len(r.up) : r.up[i] \in {None, s + i - 1}
  BY DEF Going, UpFrom
<1>5. high' < e /\ (disorder' => disorder)
  BY <1>1, <1>3, <1>4, HandedInTurn
<1>6. QED
  BY <1>2, <1>5

LEMMA HandedOne ==
    ASSUME high \in Int, NEW f \in Frames, high < f, HandUp(<<f>>)
    PROVE  high' < f + 1 /\ (disorder' => disorder)
<1> DEFINE u == <<f>>
<1>1. f \in Nat /\ f \in Int /\ f + 1 \in Nat /\ f <= f + 1
  BY Sizes DEF Frames
<1>2. u \in Seq(Frames \cup {None}) /\ Len(u) = (f + 1) - f
  BY <1>1
<1>3. \A i \in 1 .. Len(u) : u[i] \in {None, f + i - 1}
  BY <1>1, <1>2
<1>4. HandUp(u)
  OBVIOUS
<1> HIDE DEF u
<1>5. QED
  BY <1>1, <1>2, <1>3, <1>4, HandedInTurn

LEMMA RacedStays == [Next]_vars /\ ~raced' => ~raced
<1> SUFFICES ASSUME [Next]_vars, ~raced' PROVE ~raced
  OBVIOUS
<1>1. CASE FrameTaken
  BY <1>1 DEF FrameTaken
<1>2. CASE ~FrameTaken
  <2>1. UNCHANGED raced
    BY <1>2 DEF Next, vars, history, FrameDirect, FrameEnter, FrameExpected,
       FrameOld, FrameTooFar, FrameHeld, FrameBuffered, FrameUp, Addba, DelbaStart, DelbaEnd,
       BarIgnored, BarWithin, BarBeyond, ResetStart, ResetEnd, Tick, TimeoutEnter, TimeoutBody
  <2>2. QED
    BY <2>1
<1>3. QED
  BY <1>1, <1>2

LEMMA InTurnStep ==
    ASSUME FlagsOK, DataOK, BufferOK, FrameInHand, TimerSet, InTurn, [Next]_vars
    PROVE  InTurn'
<1> DEFINE Open == tid.en /\ reset # "half" /\ rx.pc # "delba"
           InUp == rx.pc = "up" => rx.frame > high /\ tid.buffed = 0
           Goal == ~disorder' /\ InUp' /\ (Open' => \E s \in Nat : StartsWith(s)')
<1> SUFFICES ASSUME ~jumped', ~raced' PROVE Goal
  BY DEF InTurn
<1>0. /\ Sound(tid) /\ Counted(tid) /\ tid \in TidRec /\ tid.buffed \in Nat /\ tid.up = <<>>
      /\ high \in Int /\ base \in Nat /\ BuffLen \in Nat /\ base + BuffLen \in Int
  <2>1. Sound(tid) /\ Counted(tid) /\ tid \in TidRec /\ tid.up = <<>>
    BY DEF BufferOK, Sound
  <2>2. tid.buffed \in Nat
    BY <2>1, NoneFilled
  <2>3. high \in Int /\ base \in Nat /\ BuffLen \in Nat
    BY Sizes DEF DataOK
  <2>4. QED
    BY <2>1, <2>2, <2>3
<1>1. ~raced
  BY RacedStays
<1>2. /\ ~jumped => ~disorder /\ InUp /\ (Open => \E s \in Nat : StartsWith(s))
      /\ tid.buffed > 0 => Open
  BY <1>0, <1>1 DEF InTurn, TimerSet
<1> HIDE DEF Open, InUp, Goal
<1>3. ASSUME UNCHANGED <<tid, high, jumped, disorder, reset>>, base' \in Nat, base' >= base,
             rx' = rx \/ (rx'.pc # "up" /\ rx.pc # "delba")
      PROVE  Goal
  <2>1. ~jumped /\ ~disorder' /\ InUp'
    BY <1>2, <1>3 DEF InUp
  <2>2. Open' => Open
    BY <1>3 DEF Open
  <2>3. ASSUME NEW s \in Nat, StartsWith(s) PROVE StartsWith(s)'
    <3>1. Going(tid, s, s, base + BuffLen) /\ high < s /\ (rx.pc = "up" => rx.frame < s)
      BY <2>3 DEF StartsWith
    <3>2. base + BuffLen \in Int /\ base' + BuffLen \in Int /\ base + BuffLen <= base' + BuffLen
      BY <1>0, <1>3
    <3>3. Going(tid, s, s, base' + BuffLen)
      BY <3>1, <3>2, GoingGrows
    <3>4. Going(tid', s, s, base' + BuffLen)
      BY <1>3, <3>3
    <3>5. QED
      BY <1>3, <3>1, <3>4 DEF StartsWith
  <2>4. QED
    BY <1>2, <2>1, <2>2, <2>3 DEF Goal
<1>4. ASSUME NEW r, Sound(r), Commit(r), NEW s \in Nat, NEW e \in Nat, s <= e, high < s,
             base' + BuffLen \in Int, Going(r, s, e, base' + BuffLen),
             ~disorder, rx'.pc # "up"
      PROVE  Goal
  <2>1. Going(tid', e, e, base' + BuffLen) /\ high' < e /\ (disorder' => disorder)
    BY <1>0, <1>4, CommitGoes
  <2>2. StartsWith(e)'
    BY <1>4, <2>1 DEF StartsWith
  <2>3. QED
    BY <1>4, <2>1, <2>2 DEF Goal, InUp
<1>5. ASSUME UNCHANGED <<high, disorder, jumped>>, ~Open',
             rx' = rx \/ rx'.pc # "up", tid.buffed = 0 => tid'.buffed = 0
      PROVE  Goal
  BY <1>2, <1>5 DEF Goal, InUp
<1>6. CASE \E f \in Frames : FrameDirect(f) \/ FrameEnter(f)
  <2>1. PICK f \in Frames : FrameDirect(f) \/ FrameEnter(f)
    BY <1>6
  <2>3. CASE FrameDirect(f)
    BY <1>0, <1>3, <2>3 DEF FrameDirect
  <2>4. CASE FrameEnter(f)
    <3>1. rx'.pc = "queue" /\ rx.pc = "idle"
      BY <2>4 DEF FrameEnter, CanArrive
    <3>2. base' \in Nat /\ base' >= base
      <4>1. base \in 0 .. MaxFrame + 1 /\ MaxFrame \in Nat
        BY Bounds DEF DataOK
      <4>2. f >= base /\ base' = Max({base, f - BuffLen + 1})
        BY <2>4 DEF FrameEnter, CanArrive
      <4>3. QED
        BY <4>1, <4>2, WindowMoves
    <3>3. QED
      BY <1>0, <1>3, <2>4, <3>1, <3>2 DEF FrameEnter, history
  <2>5. QED
    BY <2>1, <2>3, <2>4
<1>7. ASSUME FrameTaken, tid.en
      PROVE  /\ Open /\ rx.frame \in Frames /\ rx.frame >= base /\ rx.frame < base + BuffLen
             /\ base' = base
  <2>1. rx.pc = "queue" /\ reset # "half" /\ base' = base
    BY <1>7 DEF FrameTaken
  <2>2. rx.frame \in Frames /\ rx.frame \in base .. base + BuffLen - 1
    BY <2>1 DEF FrameInHand
  <2>3. QED
    BY <1>0, <1>7, <2>1, <2>2 DEF Open
<1>8. ASSUME NEW f \in Frames, f >= base, NEW s \in Nat, StartsWith(s), Dist(Sn(f), tid.start) <= Retry
      PROVE  f = s + Dist(Sn(f), tid.start)
  <2>1. tid.start = Sn(s) /\ s <= base + BuffLen
    BY <1>8 DEF StartsWith, Going, WindowFrom
  <2>2. f \in Int /\ f + BuffLen >= s
    BY <1>0, <1>8, <2>1, Sizes
  <2>3. QED
    BY <1>8, <2>1, <2>2, NumberAhead
<1>9. CASE FrameExpected
  <2>1. /\ FrameTaken /\ tid.en /\ ~jumped /\ tid.buffed = 0 /\ Index = 0
        /\ tid' = [tid EXCEPT !.start = StartAfter] /\ rx' = [rx EXCEPT !.pc = "up"]
        /\ high' = high /\ disorder' = disorder
    BY <1>9 DEF FrameExpected, Expected
  <2>2. PICK s \in Nat : StartsWith(s)
    BY <1>2, <1>7, <2>1
  <2>3. rx.frame = s + 0
    <3>1. Dist(Sn(rx.frame), tid.start) = 0 /\ 0 <= Retry
      BY <2>1, Sizes DEF Index
    <3>2. QED
      BY <1>7, <1>8, <2>1, <2>2, <3>1
  <2>4. rx.frame = s /\ s \in Int /\ 1 \in Int /\ s + 1 \in Nat
    BY <2>3
  <2>5. StartAfter = Sn(s + 1) /\ StartAfter \in 0 .. SeqSpace - 1
    <3>1. Add(Sn(s), 1) = Sn(s + 1)
      BY <2>4, NumberAdd
    <3>2. Sn(s + 1) \in 0 .. SeqSpace - 1
      <4>1. s + 1 \in Int
        BY <2>4
      <4>2. QED
        BY <4>1, NumbersInRange
    <3>3. QED
      BY <2>4, <3>1, <3>2 DEF StartAfter
  <2>6. Sound(tid') /\ tid'.buffed = 0 /\ tid'.up = <<>> /\ tid'.start = Sn(s + 1)
    BY <1>0, <2>1, <2>5, StartMoves
  <2>7. s + 1 <= base' + BuffLen /\ base' + BuffLen \in Int
    BY <1>0, <1>7, <2>1, <2>4
  <2>8. Going(tid', s + 1, s + 1, base' + BuffLen)
    BY <2>4, <2>6, <2>7, EmptyGoes
  <2>9. rx'.frame = s /\ high' < s
    BY <2>1, <2>2, <2>4 DEF StartsWith, DataOK
  <2>10. rx'.frame < s + 1 /\ high' < s + 1
    BY <1>0, <2>1, <2>4, <2>9
  <2>11. StartsWith(s + 1)'
    BY <2>8, <2>10 DEF StartsWith
  <2>12. ~disorder' /\ InUp'
    BY <1>0, <1>2, <2>1, <2>4, <2>6, <2>9 DEF InUp
  <2>13. QED
    BY <2>4, <2>11, <2>12 DEF Goal
<1>10. CASE FrameOld \/ FrameHeld
  <2>1. rx'.pc # "up" /\ rx.pc = "queue" /\ base' = base
    BY <1>10 DEF FrameOld, FrameHeld, FrameTaken, Idle
  <2>2. QED
    BY <1>0, <1>3, <1>10, <2>1 DEF FrameOld, FrameHeld, FrameTaken
<1>11. CASE FrameTooFar
  BY <1>11 DEF FrameTooFar
<1>12. CASE FrameBuffered
  <2> DEFINE r == UpLayer(BuffQueue(IF Beyond THEN ForceFree(tid, NeedFree) ELSE tid, rx.frame))
  <2>1. /\ rx.frame \in Frames /\ ~TooOld /\ ~TooFar /\ ~Held /\ FrameTaken
        /\ Commit(r) /\ rx'.pc # "up" /\ jumped' = jumped
    BY <1>12 DEF FrameBuffered, FrameTaken, FrameInHand, Idle
  <2>2. /\ tid.en /\ Sound(r)
        /\ \A s \in Nat : \A b \in Int :
             Going(tid, s, s, b) /\ rx.frame = s + Index /\ rx.frame < b =>
               \E e \in Nat : e >= s /\ Going(r, s, e, b)
    BY <2>1, FrameResult
  <2> HIDE DEF r
  <2>3. PICK s \in Nat : StartsWith(s)
    BY <1>2, <1>7, <2>1, <2>2
  <2>4. Index <= Retry
    <3>1. Index \in Int /\ Retry \in Int
      <4>1. tid.start \in Int /\ Sn(rx.frame) \in Int
        BY <1>0, <2>1, Typed, Sizes, NumbersInRange
      <4>2. Dist(Sn(rx.frame), tid.start) \in 0 .. SeqSpace - 1
        BY <4>1, NumbersInRange
      <4>3. QED
        BY <4>2, Sizes DEF Index
    <3>2. QED
      BY <2>1, <3>1 DEF TooOld
  <2>5. rx.frame = s + Index
    BY <1>7, <1>8, <2>1, <2>2, <2>3, <2>4 DEF Index
  <2>6. Going(tid, s, s, base + BuffLen) /\ high < s
    BY <2>3 DEF StartsWith
  <2>7. PICK e \in Nat : e >= s /\ Going(r, s, e, base + BuffLen)
    BY <1>0, <1>7, <2>1, <2>2, <2>5, <2>6
  <2>8. base' = base /\ s <= e /\ ~disorder
    BY <1>2, <1>7, <2>1, <2>2, <2>7
  <2>9. QED
    BY <1>0, <1>4, <2>1, <2>2, <2>6, <2>7, <2>8
<1>13. CASE FrameUp
  <2>1. /\ rx.pc = "up" /\ rx.frame \in Frames /\ HandUp(<<rx.frame>>) /\ rx' = Idle
        /\ UNCHANGED <<tid, reset, base, jumped>> /\ Idle.pc = "idle"
    BY <1>13 DEF FrameUp, FrameInHand, Idle
  <2>2. ~disorder /\ rx.frame > high
    BY <1>2, <2>1 DEF InUp
  <2>3. high < rx.frame /\ rx.frame \in Int
    BY <1>0, <2>1, <2>2, Sizes
  <2>4. high' < rx.frame + 1 /\ (disorder' => disorder)
    BY <1>0, <2>1, <2>3, HandedOne
  <2>5. Open' => Open
    BY <2>1 DEF Open
  <2>6. high' \in Int
    BY BufferStep
  <2>7. ASSUME NEW s \in Nat, StartsWith(s) PROVE StartsWith(s)'
    <3>1. rx.frame < s
      BY <2>1, <2>7 DEF StartsWith
    <3>2. high' < s
      BY <2>3, <2>4, <2>6, <3>1
    <3>3. Going(tid', s, s, base' + BuffLen)
      BY <2>1, <2>7 DEF StartsWith
    <3>4. QED
      BY <2>1, <3>2, <3>3 DEF StartsWith
  <2>8. QED
    BY <1>2, <2>1, <2>2, <2>4, <2>5, <2>7 DEF Goal, InUp
<1>14. CASE Addba
  <2>1. /\ tid' = [en |-> TRUE, wind |-> BuffLen, start |-> Sn(base'), buffed |-> 0,
                   up |-> <<>>, buff |-> [i \in Slots |-> None], age |-> [i \in Slots |-> None]]
        /\ base' = Max({base, newest + 1}) /\ high' = base' - 1
        /\ ~disorder' /\ rx' = rx /\ rx.pc = "idle"
    BY <1>14 DEF Addba
  <2>2. base' \in Nat
    <3>1. base' \in 0 .. MaxFrame + 1
      BY <2>1, AddbaBase DEF DataOK
    <3>2. QED
      BY <3>1
  <2>3. Sound(tid')
    BY BufferStep DEF BufferOK
  <2>4. base' <= base' + BuffLen /\ base' + BuffLen \in Int /\ high' < base'
    BY <1>0, <2>1, <2>2
  <2>5. tid'.buffed = 0 /\ tid'.up = <<>> /\ tid'.start = Sn(base')
    BY <2>1
  <2>6. PICK s \in Nat : s = base'
    BY <2>2
  <2>7. Going(tid', s, s, base' + BuffLen)
    BY <2>3, <2>4, <2>5, <2>6, EmptyGoes
  <2>8. StartsWith(s)'
    BY <2>1, <2>4, <2>6, <2>7 DEF StartsWith
  <2>9. QED
    BY <2>1, <2>6, <2>8 DEF Goal, InUp
<1>15. ASSUME TidReset PROVE tid.buffed = 0 => tid'.buffed = 0
  BY <1>15 DEF TidReset
<1>16. ASSUME TidDisable PROVE tid.buffed = 0 => tid'.buffed = 0
  <2>1. tid' = [tid EXCEPT !.en = FALSE, !.wind = 0, !.start = 0]
    BY <1>16 DEF TidDisable
  <2>2. QED
    BY <1>0, <2>1, DisableKeeps
<1>17. CASE DelbaStart
  <2>1. rx'.pc = "delba" /\ TidReset
    BY <1>17 DEF DelbaStart, Idle
  <2>2. QED
    BY <1>5, <1>15, <1>17, <2>1 DEF DelbaStart, history, Open
<1>18. CASE ResetStart
  <2>1. reset' = "half" /\ TidReset
    BY <1>18 DEF ResetStart
  <2>2. QED
    BY <1>5, <1>15, <1>18, <2>1 DEF ResetStart, history, Open
<1>19. CASE DelbaEnd \/ ResetEnd
  <2>1. TidDisable
    BY <1>19 DEF DelbaEnd, ResetEnd
  <2>2. tid' = [tid EXCEPT !.en = FALSE, !.wind = 0, !.start = 0]
    BY <2>1 DEF TidDisable
  <2>3. tid'.en = FALSE
    BY <1>0, <2>2, DisableKeeps
  <2>4. rx' = rx \/ rx'.pc # "up"
    BY <1>19 DEF DelbaEnd, ResetEnd, Idle
  <2>5. QED
    BY <1>5, <1>16, <1>19, <2>1, <2>3, <2>4 DEF DelbaEnd, ResetEnd, history, Open
<1>20. ASSUME NEW f \in Frames, BarArrives(f)
       PROVE  base' = f /\ f \in Nat /\ f >= base /\ tid.en /\ rx.pc = "idle"
  BY <1>0, <1>20 DEF BarArrives, Frames
<1>21. CASE \E f \in Frames : BarIgnored(f)
  <2>1. PICK f \in Frames : BarIgnored(f)
    BY <1>21
  <2>2. QED
    BY <1>3, <1>20, <2>1 DEF BarIgnored, history
<1>22. CASE \E f \in Frames : BarWithin(f)
  <2>1. PICK f \in Frames : BarWithin(f)
    BY <1>22
  <2> DEFINE n == BarDist(f)
             r == UpLayer(ForceFree(tid, n))
  <2>2. /\ BarArrives(f) /\ tid.buffed > 0 /\ Commit(r) /\ n \in 1 .. Retry /\ n <= tid.wind
        /\ rx' = rx /\ jumped' = jumped
    BY <2>1 DEF BarWithin
  <2>3. base' = f /\ f \in Nat /\ f >= base /\ tid.en /\ rx.pc = "idle" /\ Open /\ ~disorder
    BY <1>2, <1>20, <2>2
  <2>4. PICK s \in Nat : StartsWith(s)
    BY <1>2, <2>2, <2>3
  <2>5. f = s + n
    <3>1. Dist(Sn(f), tid.start) <= Retry
      BY <2>2, Sizes DEF BarDist
    <3>2. QED
      BY <1>8, <2>3, <2>4, <3>1 DEF BarDist
  <2>6. n \in 0 .. BuffLen
    <3>1. tid.wind = BuffLen
      BY <1>0, <2>3 DEF Sound
    <3>2. QED
      BY <2>2, <3>1, Sizes
  <2>7. Going(tid, s, s, base + BuffLen) /\ high < s
    BY <2>4 DEF StartsWith
  <2>8. f + BuffLen \in Int /\ base + BuffLen <= f + BuffLen /\ s + n <= f + BuffLen
    BY <1>0, <2>3, <2>5
  <2>9. Going(tid, s, s, f + BuffLen)
    BY <1>0, <2>7, <2>8, GoingGrows
  <2> HIDE DEF n
  <2>10. /\ Sound(r)
         /\ \E e \in Nat : e >= s + n /\ Going(r, s, e, f + BuffLen)
    BY <1>0, <2>6, <2>8, <2>9, FreeResult
  <2> HIDE DEF r
  <2>11. PICK e \in Nat : e >= s + n /\ Going(r, s, e, f + BuffLen)
    BY <2>10
  <2>12. s <= e
    BY <2>6, <2>11, <1>0
  <2>13. QED
    BY <1>4, <2>2, <2>3, <2>7, <2>8, <2>10, <2>11, <2>12
<1>23. CASE \E f \in Frames : BarBeyond(f)
  <2>1. PICK f \in Frames : BarBeyond(f)
    BY <1>23
  <2> DEFINE r == Restarted(tid, Sn(f))
  <2>2. /\ BarArrives(f) /\ Commit(r) /\ rx' = rx /\ jumped' = jumped /\ reset' = reset
        /\ BarDist(f) \in 1 .. Retry /\ ~(BarDist(f) <= tid.wind /\ tid.buffed > 0)
    BY <2>1 DEF BarBeyond, Restarted
  <2>3. base' = f /\ f \in Nat /\ f >= base /\ tid.en /\ rx.pc = "idle" /\ ~disorder
    BY <1>2, <1>20, <2>2
  <2>4. Sn(f) \in 0 .. SeqSpace - 1
    BY Sizes, NumbersInRange
  <2>5. /\ Sound(r) /\ r.buffed = 0 /\ r.start = Sn(f)
        /\ tid.buffed = 0 => r.up = tid.up
    BY <1>0, <2>3, <2>4, BeyondResult
  <2>6. \A s \in Nat : \A b \in Int : Going(tid, s, s, b) =>
          \E e \in Nat : s <= e /\ e <= s + BuffLen /\ UpFrom(r, s, e)
    BY <1>0, <2>3, <2>4, BeyondResult
  <2> HIDE DEF r
  <2>7. tid' = [r EXCEPT !.up = <<>>] /\ HandUp(r.up)
    BY <2>2 DEF Commit
  <2>8. Sound(tid') /\ tid'.buffed = 0 /\ tid'.up = <<>> /\ tid'.start = Sn(f)
    BY <2>5, <2>7, Cleared
  <2>9. f <= f + BuffLen /\ f + BuffLen \in Int
    BY <1>0, <2>3
  <2>10. Going(tid', f, f, base' + BuffLen)
    BY <2>3, <2>8, <2>9, EmptyGoes
  <2>11. ~disorder' /\ (Open' => high' < f)
    <3>1. CASE tid.buffed = 0
      <4>1. high' = high /\ (disorder' => disorder)
        BY <1>0, <2>5, <2>7, <3>1, HandedNothing
      <4>2. ASSUME Open' PROVE high < f
        <5>1. Open
          BY <2>2, <2>3, <4>2 DEF Open
        <5>2. PICK s \in Nat : StartsWith(s)
          BY <1>2, <2>2, <5>1
        <5>3. f = s + BarDist(f)
          <6>1. Dist(Sn(f), tid.start) <= Retry
            BY <2>2, Sizes DEF BarDist
          <6>2. QED
            BY <1>8, <2>3, <5>2, <6>1 DEF BarDist
        <5>4. high < s
          BY <5>2 DEF StartsWith
        <5>5. QED
          BY <1>0, <2>2, <2>3, <5>3, <5>4
      <4>3. QED
        BY <2>3, <4>1, <4>2
    <3>2. CASE tid.buffed # 0
      <4>1. tid.buffed > 0 /\ Open
        BY <1>0, <1>2, <3>2
      <4>2. PICK s \in Nat : StartsWith(s)
        BY <1>2, <2>2, <4>1
      <4>3. f = s + BarDist(f)
        <5>1. Dist(Sn(f), tid.start) <= Retry
          BY <2>2, Sizes DEF BarDist
        <5>2. QED
          BY <1>8, <2>3, <4>2, <5>1 DEF BarDist
      <4>4. Going(tid, s, s, base + BuffLen) /\ high < s
        BY <4>2 DEF StartsWith
      <4>5. PICK e \in Nat : s <= e /\ e <= s + BuffLen /\ UpFrom(r, s, e)
        BY <1>0, <2>6, <4>4
      <4>6. r.up \in Seq(Frames \cup {None})
        BY <2>5, Typed DEF Sound
      <4>7. Len(r.up) = e - s /\ \A i \in 1 .. Len(r.up) : r.up[i] \in {None, s + i - 1}
        BY <4>5 DEF UpFrom
      <4>8. high' < e /\ (disorder' => disorder)
        BY <1>0, <2>7, <4>4, <4>5, <4>6, <4>7, HandedInTurn
      <4>9. tid.wind = BuffLen
        BY <1>0, <2>3 DEF Sound
      <4>10. BarDist(f) > BuffLen /\ BarDist(f) \in Int
        BY <1>0, <2>2, <4>1, <4>9
      <4>11. high' \in Int
        BY BufferStep
      <4>12. high' < f
        BY <1>0, <2>3, <4>3, <4>5, <4>8, <4>10, <4>11
      <4>13. QED
        BY <2>3, <4>8, <4>12
    <3>3. QED
      BY <3>1, <3>2
  <2>12. ASSUME Open' PROVE StartsWith(f)'
    BY <2>2, <2>3, <2>10, <2>11, <2>12 DEF StartsWith
  <2>13. InUp'
    BY <2>2, <2>3 DEF InUp
  <2>14. QED
    BY <2>3, <2>11, <2>12, <2>13 DEF Goal
<1>24. CASE Tick
  <2>1. /\ UNCHANGED <<high, jumped, disorder, rx, reset, base>>
        /\ tid' = [tid EXCEPT !.age = [i \in Slots |->
                     IF @[i] = None \/ @[i] = MaxAge THEN @[i] ELSE @[i] + 1]]
    BY <1>24 DEF Tick, history
  <2>2. /\ tid'.buffed = tid.buffed /\ tid'.en = tid.en /\ tid'.up = tid.up /\ tid'.start = tid.start
        /\ \A k \in Slots : B(tid', k) = B(tid, k)
    BY <1>0, <2>1, TickKeeps
  <2>3. ASSUME NEW s \in Nat, StartsWith(s) PROVE StartsWith(s)'
    <3>1. Going(tid, s, s, base + BuffLen)
      BY <2>3 DEF StartsWith
    <3>2. UpFrom(tid', s, s) /\ WindowFrom(tid', s)
      BY <2>2, <3>1 DEF Going, UpFrom, WindowFrom
    <3>3. Going(tid', s, s, base' + BuffLen)
      BY <2>1, <2>2, <3>1, <3>2 DEF Going
    <3>4. QED
      BY <2>1, <2>3, <3>3 DEF StartsWith
  <2>4. (Open' => Open) /\ (InUp => InUp')
    BY <2>1, <2>2 DEF Open, InUp
  <2>5. QED
    BY <1>2, <2>1, <2>3, <2>4 DEF Goal
<1>25. CASE TimeoutEnter
  BY <1>0, <1>3, <1>25 DEF TimeoutEnter, history
<1>26. CASE TimeoutBody
  <2>1. CASE tid.buffed = 0
    BY <1>0, <1>3, <1>26, <2>1 DEF TimeoutBody
  <2>2. CASE tid.buffed # 0
    <3> DEFINE r == UpLayer(ForceFree(tid, Expired(tid)))
    <3>1. Commit(r) /\ UNCHANGED <<rx, reset, base, jumped>>
      BY <1>26, <2>2 DEF TimeoutBody
    <3>2. Open /\ tid.en /\ ~disorder /\ rx'.pc # "up"
      BY <1>0, <1>2, <2>2, <3>1 DEF Open, InUp
    <3>3. PICK s \in Nat : StartsWith(s)
      BY <1>2, <3>1, <3>2
    <3>4. Going(tid, s, s, base + BuffLen) /\ high < s
      BY <3>3 DEF StartsWith
    <3>5. /\ Sound(r)
          /\ \E e \in Nat : e >= s /\ Going(r, s, e, base + BuffLen)
      BY <1>0, <3>2, <3>4, TimeoutResult
    <3> HIDE DEF r
    <3>6. PICK e \in Nat : e >= s /\ Going(r, s, e, base + BuffLen)
      BY <3>5
    <3>7. s <= e /\ base' = base
      BY <3>1, <3>6
    <3>8. QED
      BY <1>0, <1>4, <3>1, <3>2, <3>4, <3>5, <3>6, <3>7
  <2>3. QED
    BY <2>1, <2>2
<1>27. CASE UNCHANGED vars
  BY <1>0, <1>3, <1>27 DEF vars, history
<1>28. QED
  BY <1>6, <1>9, <1>10, <1>11, <1>12, <1>13, <1>14, <1>17, <1>18, <1>19, <1>21, <1>22, <1>23,
     <1>24, <1>25, <1>26, <1>27 DEF Next

LEMMA InitRxInv == Init => RxInv
<1> SUFFICES ASSUME Init PROVE RxInv
  OBVIOUS
<1>1. /\ tid = [en |-> FALSE, wind |-> 0, start |-> 0, buffed |-> 0, up |-> <<>>,
                buff |-> [i \in Slots |-> None], age |-> [i \in Slots |-> None]]
      /\ running = FALSE /\ timers = NoTimers /\ untimed = FALSE /\ rx = Idle /\ task = "idle" /\ reset = "idle"
      /\ addbas = 0 /\ resets = 0 /\ base = 0 /\ newest = -1 /\ high = -1
      /\ jumped = FALSE /\ raced = FALSE /\ disorder = FALSE /\ freedNew = FALSE
  BY DEF Init
<1>2. tid \in TidRec
  <2>1. /\ [i \in Slots |-> None] \in [Slots -> Frames \cup {None}]
        /\ [i \in Slots |-> None] \in [Slots -> Ages]
        /\ <<>> \in Seq(Frames \cup {None}) /\ 0 \in {0, BuffLen} /\ 0 \in Int
        /\ 0 \in 0 .. SeqSpace - 1
    BY Sizes DEF Ages
  <2>2. QED
    BY <1>1, <2>1 DEF TidRec
<1>3. BufferOK
  <2>1. (\A i \in Slots : tid.buff[i] = None) /\ ~tid.en /\ tid.buffed = 0 /\ tid.wind = 0
    BY <1>1
  <2>2. Sound(tid)
    BY <1>2, <2>1, EmptyIsSound
  <2>3. QED
    BY <1>1, <2>2 DEF BufferOK
<1>4. FlagsOK
  BY <1>1 DEF FlagsOK
<1>5. rx.pc = "idle" /\ rx \in [pc : {"idle", "queue", "up", "delba"}, frame : Frames \cup {None},
                                seen : 0 .. SeqSpace - 1]
  BY <1>1, Sizes DEF Idle
<1>6. DataOK
  <2>1. timers \in [0 .. Timeout -> Nat] /\ task \in {"idle", "entered"} /\ reset \in {"idle", "half"}
    BY <1>1, NoTimersType
  <2>2. /\ addbas \in 0 .. MaxAddba /\ resets \in 0 .. MaxReset /\ base \in 0 .. MaxFrame + 1
        /\ newest \in -1 .. MaxFrame /\ high \in -1 .. MaxFrame
    BY <1>1, Bounds
  <2>3. QED
    BY <1>5, <2>1, <2>2 DEF DataOK
<1>7. FrameInHand
  BY <1>5 DEF FrameInHand
<1>8. TimerSet
  BY <1>1 DEF TimerSet
<1>9. InTurn
  BY <1>1, <1>5 DEF InTurn
<1>10. QED
  BY <1>3, <1>4, <1>6, <1>7, <1>8, <1>9 DEF RxInv

\* The invariant of the reorder buffer: see its parts.
THEOREM ReorderCorrect == Spec => []RxInv
<1>1. RxInv /\ [Next]_vars => RxInv'
  BY FlagsStep, BufferStep, DataStep, TimerSetStep, InTurnStep DEF RxInv
<1>2. QED
  BY InitRxInv, <1>1, PTL DEF Spec

-----------------------------------------------------------------------------
(* What it implies.                                                         *)

\* Every variable of the reorder buffer has its type; skb_buffed is never
\* negative nor above BUFF_STORED_LEN.
THEOREM TypeCorrect == Spec => []TypeOK
<1>1. RxInv => TypeOK
  <2> SUFFICES ASSUME RxInv PROVE TypeOK
    OBVIOUS
  <2>1. Sound(tid) /\ tid \in TidRec /\ Counted(tid) /\ tid.up = <<>>
    BY DEF RxInv, BufferOK, Sound
  <2>2. tid.buffed \in 0 .. BuffLen
    BY <2>1, NoneFilled
  <2>3. tid \in [en : BOOLEAN, wind : {0, BuffLen}, start : 0 .. SeqSpace - 1,
                 buffed : 0 .. BuffLen, up : {<<>>},
                 buff : [Slots -> Frames \cup {None}],
                 age : [Slots -> (0 .. MaxAge) \cup {None}]]
    <3>1. tid \in [en : BOOLEAN, wind : {0, BuffLen}, start : 0 .. SeqSpace - 1, buffed : Int,
                   up : Seq(Frames \cup {None}), buff : [Slots -> Frames \cup {None}],
                   age : [Slots -> (0 .. MaxAge) \cup {None}]]
      BY <2>1 DEF TidRec, Ages
    <3>2. QED
      BY <2>1, <2>2, <3>1
  <2>4. QED
    BY <2>3 DEF RxInv, FlagsOK, DataOK, TypeOK
<1>2. QED
  BY <1>1, ReorderCorrect, PTL

\* While an agreement lasts skb_buffed counts the frames, and each is in the
\* slot of its number and inside the window, after any overflow, BAR, timeout
\* and reset, wherever the numbers wrap.
THEOREM BuffersAreExact == Spec => []BuffExact
<1>1. RxInv => BuffExact
  <2> SUFFICES ASSUME RxInv, tid.en PROVE BuffExact
    BY DEF BuffExact
  <2>1. tid \in TidRec /\ Counted(tid) /\ Placed(tid) /\ tid.wind = BuffLen /\ tid.start \in Int
    BY Typed DEF RxInv, BufferOK, Sound
  <2>2. tid.buffed = Cardinality({i \in Slots : tid.buff[i] # None})
    BY <2>1 DEF Counted, Filled
  <2>3. ASSUME NEW i \in Slots, tid.buff[i] # None
        PROVE  Slot(Sn(tid.buff[i])) = i /\ Dist(Sn(tid.buff[i]), tid.start) < tid.wind
    <3>1. PICK k \in Slots : At(tid, k) = i
      BY <2>1, SlotsOf
    <3>2. Sn(tid.buff[i]) = Add(tid.start, k)
      BY <2>1, <2>3, <3>1 DEF Placed, B
    <3>3. k \in Int /\ k \in 0 .. SeqSpace - 1 /\ k < BuffLen
      BY Sizes
    <3>4. Slot(Add(tid.start, k)) = Slot(tid.start + k)
      BY <2>1, <3>3, SlotAdd, Zenon
    <3>5. Dist(Add(tid.start, k), tid.start) = k
      BY <2>1, <3>3, DistAdd
    <3>6. QED
      BY <2>1, <3>1, <3>2, <3>3, <3>4, <3>5 DEF At
  <2>4. QED
    BY <2>2, <2>3 DEF BuffExact
<1>2. QED
  BY <1>1, ReorderCorrect, PTL

\* The marks the timeout goes by are those of the slots up to the last buffered
\* frame, the oldest first: a timer is never computed from a slot without one.
THEOREM MarksAreRight == Spec => []TimeMarked
<1>1. RxInv => TimeMarked
  BY DEF RxInv, BufferOK, Sound, MarksOK, TimeMarked, A, B
<1>2. QED
  BY <1>1, ReorderCorrect, PTL

\* Within an agreement the frames go up in the peer's order and none twice,
\* whichever thread hands them up, but for the exceptions InOrder names.
THEOREM FramesInOrder == Spec => []InOrder
<1>1. RxInv => InOrder
  BY DEF RxInv, InTurn, InOrder
<1>2. QED
  BY <1>1, ReorderCorrect, PTL

\* No frame is held longer than one and a half timeouts: whoever sets or
\* cancels timers, one comes in time.  Excepted are a buffer for which a timer
\* was not to be had and a frame taken in the middle of a reset, as HeldAtMost
\* says.
THEOREM HeldNotLonger == Spec => []HeldAtMost
<1>1. RxInv => HeldAtMost
  <2> SUFFICES ASSUME RxInv, tid.en, ~raced, ~untimed, NEW i \in Slots, tid.buff[i] # None
               PROVE  tid.age[i] <= Timeout + Half
    BY DEF HeldAtMost
  <2>1. Sound(tid) /\ tid \in TidRec /\ Counted(tid) /\ MarksOK(tid)
    BY DEF RxInv, BufferOK, Sound
  <2>2. tid.buffed > 0
    BY <2>1, NoneFilled
  <2>3. A(tid, 0) <= Longest
    BY <2>2 DEF RxInv, TimerSet
  <2>4. Young(tid, Longest)
    <3>1. Longest \in Int
      BY AgeBounds DEF Longest
    <3>2. QED
      BY <2>1, <2>3, <3>1, OldestFirst
  <2>5. PICK k \in Slots : At(tid, k) = i
    BY <2>1, SlotsOf
  <2>6. A(tid, k) # None
    <3>1. k \in k .. BuffLen - 1 /\ B(tid, k) # None
      BY <2>5, Sizes DEF B
    <3>2. QED
      BY <2>1, <3>1 DEF MarksOK
  <2>7. QED
    BY <2>4, <2>5, <2>6 DEF Young, A, Longest
<1>2. QED
  BY <1>1, ReorderCorrect, PTL
=============================================================================
