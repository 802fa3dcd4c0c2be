-------------------------- MODULE EloopTimerProofs --------------------------
(***************************************************************************)
(* Proofs about the timer service: the lists, the registrations and the    *)
(* promise that a function runs only when its registration has expired.    *)
(***************************************************************************)
EXTENDS EloopTimer, ListLemmas

\* The three lists share out the table.
ListsOK ==
    /\ free \in Seq(Timers) /\ pending \in Seq(Timers) /\ ready \in Seq(Timers)
    /\ Once(free) /\ Once(pending) /\ Once(ready)
    /\ Range(free) \cap Range(pending) = {}
    /\ Range(free) \cap Range(ready) = {}
    /\ Range(pending) \cap Range(ready) = {}
    /\ Range(free) \cup Range(pending) \cup Range(ready) = Timers

Entry   == [fun : Handlers \cup {None}, cancled : BOOLEAN, reg : 0 .. MaxRegs]
Message == [timer : Timers, reg : Regs]
DataOK ==
    /\ ent \in [Timers -> Entry]
    /\ starting \subseteq Message
    /\ armed \in [Timers -> 0 .. MaxRegs]
    /\ msgq \in Seq(Message) /\ Len(msgq) <= QueueSize
    /\ running \in Timers \cup {None} /\ regs \in 0 .. MaxRegs
    /\ state \in [Regs -> {"none", "waiting", "expired", "cancelled", "done"}]
    /\ reused \in BOOLEAN /\ wrongRun \in BOOLEAN /\ lostMsg \in BOOLEAN

\* No two entries carry the same registration, and one in use carries one.
RegsOwned ==
    /\ \A t \in Timers : ent[t].reg <= regs
    /\ \A t, u \in Timers : ent[t].reg = ent[u].reg /\ ent[t].reg # 0 => t = u
    /\ \A t \in Range(pending) \cup Range(ready) : ent[t].reg # 0

\* A start, an OS timer or a message of registration r names entry u: it is
\* still the entry's own, and the entry waits for it or was cancelled.
Mine(u, r) ==
    /\ r = ent[u].reg /\ running # u
    /\ ent[u].cancled => u \in Range(free)
    /\ ~ent[u].cancled => u \in Range(pending)
Waits(u)   == ~ent[u].cancled => state[ent[u].reg] = "waiting"
Expired(u) == ~ent[u].cancled => state[ent[u].reg] = "expired"
Sent(u)    == \E k \in 1 .. Len(msgq) : msgq[k].timer = u

\* Nothing is on the way of an entry that was never registered.
Quiet(u)    == armed[u] = 0 /\ ~Sent(u) /\ \A s \in starting : s.timer # u
UnusedQuiet == \A u \in Timers : ent[u].reg = 0 => Quiet(u)

\* Of an entry at most one of the three is about, and what the task finds of
\* it on the ready list has expired.
StartOK(u) == \A s \in starting : s.timer = u =>
                  Mine(u, s.reg) /\ Waits(u) /\ armed[u] = 0 /\ ~Sent(u)
ArmedOK(u) == armed[u] # 0 => Mine(u, armed[u]) /\ Waits(u) /\ ~Sent(u)
SentOK(u)  == \A k \in 1 .. Len(msgq) : msgq[k].timer = u => Mine(u, msgq[k].reg) /\ Expired(u)
ReadyOK(u) == /\ u \in Range(ready) /\ running # u => state[ent[u].reg] = "expired"
              /\ running = u => u \notin Range(pending)
UseOK(u)   == StartOK(u) /\ ArmedOK(u) /\ SentOK(u) /\ ReadyOK(u)

\* Until an entry is handed out with something of its earlier use left.
SentOnce == \A j, k \in 1 .. Len(msgq) : msgq[j].timer = msgq[k].timer => j = k
OwnUse   == SentOnce /\ (\A u \in Timers : UseOK(u)) /\ ~wrongRun /\ ~lostMsg

TimerInv == ListsOK /\ DataOK /\ RegsOwned /\ UnusedQuiet /\ (~reused => OwnUse)

\* An entry is taken off a list.
LEMMA WithoutIsOff ==
    ASSUME NEW s \in Seq(Timers), Once(s), NEW t \in Timers
    PROVE  /\ Without(s, t) \in Seq(Timers) /\ Once(Without(s, t))
           /\ Range(Without(s, t)) = Range(s) \ {t}
<1>1. CASE t \notin Range(s)
  <2>1. ~ \E k \in 1 .. Len(s) : s[k] = t
    BY <1>1, Elements
  <2>2. Without(s, t) = s
    BY <2>1 DEF Without, RemoveFirst
  <2>3. QED
    BY <1>1, <2>2
<1>2. CASE t \in Range(s)
  <2> DEFINE I == {k \in 1 .. Len(s) : s[k] = t}
  <2>1. PICK k \in 1 .. Len(s) : s[k] = t
    BY <1>2, Elements
  <2>2. Len(s) \in Nat
    BY LenProperties
  <2>3. I = {k}
    BY <2>1 DEF Once
  <2>4. Min(I) = k
    BY <2>2, <2>3 DEF Min
  <2>5. SelectInSeq(s, LAMBDA v : v = t) = k
    BY <2>3, <2>4 DEF SelectInSeq
  <2>6. Without(s, t) = SubSeq(s, 1, k - 1) \o SubSeq(s, k + 1, Len(s))
    BY <2>1, <2>5 DEF Without, RemoveFirst, RemoveAt
  <2>7. /\ Without(s, t) \in Seq(Timers) /\ Once(Without(s, t))
        /\ Range(Without(s, t)) = Range(s) \ {s[k]}
    BY <2>6, OnceDrop
  <2>8. QED
    BY <2>1, <2>7
<1>3. QED
  BY <1>1, <1>2

\* A part of a list in its order holds that part, each entry once.
LEMMA PartOfList ==
    ASSUME NEW part, part \subseteq Timers, NEW s, NEW q \in InOrderOf(part, s)
    PROVE  q \in Seq(Timers) /\ Once(q) /\ Range(q) = part
<1> DEFINE n == Cardinality(part)
<1>1. IsFiniteSet(part) /\ n \in Nat
  BY TimersAssumption, FS_Subset, FS_CardinalityType
<1>2. q \in [1 .. n -> part] /\ \A i, j \in 1 .. n : i # j => q[i] # q[j]
  BY DEF InOrderOf, SetToSeqs
<1> HIDE DEF n
<1>3. q \in Seq(part) /\ Len(q) = n
  BY <1>1, <1>2, SeqDef, LenProperties
<1>4. Once(q)
  BY <1>2, <1>3 DEF Once
<1>5. IsFiniteSet(Range(q)) /\ Cardinality(Range(q)) = n /\ Range(q) \subseteq part
  BY <1>3, <1>4, OnceLength, Elements
<1>6. Range(q) = part
  BY <1>1, <1>5, FS_Subset DEF n
<1>7. q \in Seq(Timers)
  BY <1>3, SeqDef
<1>8. QED
  BY <1>4, <1>6, <1>7

\* An entry changes lists.
LEMMA MoveTailLists ==
    ASSUME ListsOK, NEW t \in Timers, NEW to \in {"free", "pending", "ready"}, MoveTail(t, to)
    PROVE  /\ ListsOK'
           /\ Range(free') = IF to = "free" THEN Range(free) \cup {t} ELSE Range(free) \ {t}
           /\ Range(pending') = IF to = "pending" THEN Range(pending) \cup {t} ELSE Range(pending) \ {t}
           /\ Range(ready') = IF to = "ready" THEN Range(ready) \cup {t} ELSE Range(ready) \ {t}
<1> DEFINE Moved(name, s) == IF name = to THEN Append(Without(s, t), t) ELSE Without(s, t)
<1>1. ASSUME NEW s \in Seq(Timers), Once(s), NEW name
      PROVE  /\ Moved(name, s) \in Seq(Timers) /\ Once(Moved(name, s))
             /\ Range(Moved(name, s)) = IF name = to THEN Range(s) \cup {t} ELSE Range(s) \ {t}
  <2> DEFINE w == Without(s, t)
  <2>1. w \in Seq(Timers) /\ Once(w) /\ Range(w) = Range(s) \ {t}
    BY <1>1, WithoutIsOff
  <2> HIDE DEF w
  <2>2. /\ Append(w, t) \in Seq(Timers) /\ Once(Append(w, t))
        /\ Range(Append(w, t)) = Range(w) \cup {t}
    BY <2>1, OnceAppend
  <2>3. QED
    BY <2>1, <2>2 DEF w
<1>2. free' = Moved("free", free) /\ pending' = Moved("pending", pending) /\ ready' = Moved("ready", ready)
  BY DEF MoveTail
<1> HIDE DEF Moved
<1>3. /\ free' \in Seq(Timers) /\ Once(free')
      /\ Range(free') = IF to = "free" THEN Range(free) \cup {t} ELSE Range(free) \ {t}
  BY <1>1, <1>2 DEF ListsOK
<1>4. /\ pending' \in Seq(Timers) /\ Once(pending')
      /\ Range(pending') = IF to = "pending" THEN Range(pending) \cup {t} ELSE Range(pending) \ {t}
  BY <1>1, <1>2 DEF ListsOK
<1>5. /\ ready' \in Seq(Timers) /\ Once(ready')
      /\ Range(ready') = IF to = "ready" THEN Range(ready) \cup {t} ELSE Range(ready) \ {t}
  BY <1>1, <1>2 DEF ListsOK
<1>6. QED
  BY <1>3, <1>4, <1>5 DEF ListsOK

\* Every entry is on exactly one list.
LEMMA ListsOneList == ListsOK => OneList
<1> SUFFICES ASSUME ListsOK PROVE OneList
  OBVIOUS
<1> DEFINE u == pending \o ready
           all == free \o u
<1>1. u \in Seq(Timers) /\ Once(u) /\ Range(u) = Range(pending) \cup Range(ready)
  <2>1. /\ pending \in Seq(Timers) /\ ready \in Seq(Timers) /\ Once(pending) /\ Once(ready)
        /\ Range(pending) \cap Range(ready) = {}
    BY DEF ListsOK
  <2>2. QED
    BY <2>1, OnceConcat
<1> HIDE DEF u
<1>2. all \in Seq(Timers) /\ Once(all) /\ Range(all) = Timers
  <2>1. /\ free \in Seq(Timers) /\ Once(free) /\ Range(free) \cap Range(u) = {}
        /\ Range(free) \cup Range(u) = Timers
    BY <1>1 DEF ListsOK
  <2>2. u \in Seq(Timers) /\ Once(u)
    BY <1>1
  <2>3. all \in Seq(Timers) /\ Once(all) /\ Range(all) = Range(free) \cup Range(u)
    BY <2>1, <2>2, OnceConcat
  <2>4. QED
    BY <2>1, <2>3
<1>3. all = free \o pending \o ready
  BY ConcatAssociative DEF u, ListsOK
<1> HIDE DEF all
<1>4. Len(all) = Cardinality(Timers)
  BY <1>2, OnceLength
<1>5. ToSet(all) = Timers
  BY <1>2 DEF ToSet, Range
<1>6. QED
  BY <1>3, <1>4, <1>5 DEF OneList

LEMMA TimerInit == Init => TimerInv
<1> SUFFICES ASSUME Init PROVE TimerInv
  OBVIOUS
<1> DEFINE n == Cardinality(Timers)
<1>1. n \in Nat /\ ExistsBijection(1 .. n, Timers)
  BY TimersAssumption, FS_CardinalityType
<1>2. PICK f \in [1 .. n -> Timers] : IsInjective(f) /\ Range(f) = Timers
  <2>1. PICK f \in Bijection(1 .. n, Timers) : TRUE
    BY <1>1 DEF ExistsBijection
  <2>2. f \in [1 .. n -> Timers] /\ (\A a, b \in 1 .. n : f[a] = f[b] => a = b)
    BY <2>1 DEF Bijection, Injection, IsInjective
  <2>3. \A t \in Timers : \E a \in 1 .. n : f[a] = t
    BY <2>1 DEF Bijection, Surjection
  <2>4. Range(f) = Timers
    BY <2>2, <2>3 DEF Range
  <2>5. IsInjective(f)
    BY <2>2 DEF IsInjective
  <2>6. QED
    BY <2>2, <2>4, <2>5
<1>3. free \in [1 .. n -> Timers] /\ IsInjective(free)
  <2>1. free = CHOOSE g \in [1 .. n -> Timers] : IsInjective(g)
    BY DEF Init, SetToSeq
  <2>2. QED
    BY <1>2, <2>1
<1> HIDE DEF n
<1>4. free \in Seq(Timers) /\ Len(free) = n
  BY <1>1, <1>3, SeqDef, LenProperties
<1>5. Once(free)
  BY <1>3, <1>4 DEF IsInjective, Once
<1>6. Range(free) = Timers
  <2>1. IsFiniteSet(Range(free)) /\ Cardinality(Range(free)) = n /\ Range(free) \subseteq Timers
    BY <1>4, <1>5, OnceLength, Elements
  <2>2. QED
    BY <2>1, TimersAssumption, FS_Subset DEF n
<1>7. ListsOK
  BY <1>4, <1>5, <1>6, OnceEmpty, EmptySeq DEF ListsOK, Init
<1>8. DataOK
  <2>1. ent \in [Timers -> Entry] /\ armed \in [Timers -> 0 .. MaxRegs] /\ regs \in 0 .. MaxRegs
    BY TimersAssumption DEF Init, Entry
  <2>2. msgq \in Seq(Message) /\ Len(msgq) <= QueueSize
    BY TimersAssumption, EmptySeq DEF Init
  <2>3. state \in [Regs -> {"none", "waiting", "expired", "cancelled", "done"}]
    BY DEF Init
  <2>4. QED
    BY <2>1, <2>2, <2>3 DEF DataOK, Init
<1>9. RegsOwned
  BY OnceEmpty DEF RegsOwned, Init
<1>10. OwnUse
  BY TimersAssumption, OnceEmpty, EmptySeq
    DEF OwnUse, SentOnce, UseOK, StartOK, ArmedOK, SentOK, ReadyOK, Init
<1>11. UnusedQuiet
  BY EmptySeq DEF UnusedQuiet, Quiet, Sent, Init
<1>12. QED
  BY <1>7, <1>8, <1>9, <1>10, <1>11 DEF TimerInv

\* Of an entry that is ready or runs nothing is on the way.
LEMMA ReadyIsQuiet ==
    ASSUME TimerInv, OwnUse, NEW t \in Timers, t \in Range(ready) \/ t = running
    PROVE  Quiet(t)
<1>1. \A r : ~Mine(t, r)
  BY DEF TimerInv, ListsOK, Mine
<1>2. UseOK(t)
  BY DEF OwnUse
<1>3. QED
  BY <1>1, <1>2 DEF UseOK, StartOK, ArmedOK, SentOK, Sent, Quiet

\* A step that leaves an entry and what is on the way of it alone.
Untouched(u) ==
    /\ ent'[u] = ent[u]
    /\ ent[u].reg # 0 => state'[ent[u].reg] = state[ent[u].reg]
    /\ u \in Range(free) => u \in Range(free')
    /\ u \in Range(pending) <=> u \in Range(pending')
    /\ u \in Range(ready') => u \in Range(ready)
    /\ running' = u <=> running = u
NothingNew(u) ==
    /\ \A s \in starting' : s.timer = u => s \in starting
    /\ armed'[u] = armed[u]
    /\ \A k \in 1 .. Len(msgq') : msgq'[k].timer = u =>
           \E j \in 1 .. Len(msgq) : msgq[j] = msgq'[k]

LEMMA UnusedKept ==
    ASSUME TimerInv,
           \A u \in Timers : ent'[u].reg = 0 => ent[u].reg = 0 /\ (Quiet(u) => NothingNew(u))
    PROVE  UnusedQuiet'
  BY DEF TimerInv, UnusedQuiet, Quiet, Sent, NothingNew

LEMMA UseKept ==
    ASSUME TimerInv, NEW u \in Timers, UseOK(u), Untouched(u), NothingNew(u)
    PROVE  UseOK(u)'
<1>0. DataOK /\ RegsOwned
  BY DEF TimerInv
<1>1. ASSUME NEW r, r # 0, Mine(u, r)
      PROVE  /\ r = ent'[u].reg /\ running' # u
             /\ ent'[u].cancled => u \in Range(free')
             /\ ~ent'[u].cancled => u \in Range(pending')
             /\ Waits(u) => Waits(u)'
             /\ Expired(u) => Expired(u)'
  BY <1>1 DEF Mine, Untouched, Waits, Expired
<1>2. Sent(u)' => Sent(u)
  BY DEF Sent, NothingNew
<1>3. StartOK(u)'
  <2>1. SUFFICES ASSUME NEW s \in starting', s.timer = u
                 PROVE  (Mine(u, s.reg) /\ Waits(u) /\ armed[u] = 0 /\ ~Sent(u))'
    BY DEF StartOK
  <2>2. s \in starting /\ s.reg # 0 /\ armed'[u] = armed[u]
    BY <1>0, <2>1 DEF NothingNew, DataOK, Message, Regs
  <2>3. Mine(u, s.reg) /\ Waits(u) /\ armed[u] = 0 /\ ~Sent(u)
    BY <2>1, <2>2 DEF UseOK, StartOK
  <2>4. QED
    BY <1>1, <1>2, <2>2, <2>3 DEF Mine
<1>4. ArmedOK(u)'
  <2>1. SUFFICES ASSUME armed'[u] # 0
                 PROVE  (Mine(u, armed[u]) /\ Waits(u) /\ ~Sent(u))'
    BY DEF ArmedOK
  <2>2. armed'[u] = armed[u]
    BY DEF NothingNew
  <2>3. Mine(u, armed[u]) /\ Waits(u) /\ ~Sent(u) /\ armed[u] # 0
    BY <2>1, <2>2 DEF UseOK, ArmedOK
  <2>4. QED
    BY <1>1, <1>2, <2>2, <2>3 DEF Mine
<1>5. SentOK(u)'
  <2>1. SUFFICES ASSUME NEW k \in 1 .. Len(msgq'), msgq'[k].timer = u
                 PROVE  (Mine(u, msgq[k].reg) /\ Expired(u))'
    BY DEF SentOK
  <2>2. PICK j \in 1 .. Len(msgq) : msgq[j] = msgq'[k]
    BY <2>1 DEF NothingNew
  <2>3. msgq[j].reg # 0
    <3>1. msgq \in Seq(Message)
      BY <1>0 DEF DataOK
    <3>2. msgq[j] \in Message
      BY <3>1, ElementOfSeq
    <3>3. QED
      BY <3>2 DEF Message, Regs
  <2>4. Mine(u, msgq[j].reg) /\ Expired(u)
    BY <2>1, <2>2 DEF UseOK, SentOK
  <2>5. QED
    BY <1>1, <2>2, <2>3, <2>4 DEF Mine
<1>6. ReadyOK(u)'
  BY <1>0 DEF UseOK, ReadyOK, Untouched, RegsOwned
<1>7. QED
  BY <1>3, <1>4, <1>5, <1>6 DEF UseOK

LEMMA RegisterStep ==
    ASSUME TimerInv, NEW h \in Handlers, Register(h)
    PROVE  TimerInv'
<1>0. ListsOK /\ DataOK /\ RegsOwned /\ (~reused => OwnUse)
  BY DEF TimerInv
<1>1. PICK t \in Timers : t = Head(free) /\ t \in Range(free)
  <2>1. free \in Seq(Timers) /\ Once(free) /\ free # <<>>
    BY <1>0 DEF ListsOK, Register
  <2>2. QED
    BY <2>1, OnceTail, Elements
<1>2. /\ ListsOK' /\ Range(free') = Range(free) \ {t}
      /\ Range(pending') = Range(pending) \cup {t} /\ Range(ready') = Range(ready) \ {t}
  <2>1. MoveTail(t, "pending")
    BY <1>1 DEF Register
  <2>2. QED
    BY <1>0, <1>1, <2>1, MoveTailLists
<1>3. PICK r \in Regs :
        /\ r = regs + 1 /\ regs' = r /\ r # 0 /\ regs' \in 0 .. MaxRegs /\ r \in Nat
        /\ \A u \in Timers : ent[u].reg \in Nat /\ ent[u].reg <= r /\ ent[u].reg # r
  BY <1>0, TimersAssumption DEF Register, Regs, DataOK, RegsOwned, Entry
<1>4. /\ ent' = [ent EXCEPT ![t] = [fun |-> h, cancled |-> FALSE, reg |-> r]]
      /\ starting' = starting \cup {[timer |-> t, reg |-> r]}
      /\ state' = [state EXCEPT ![r] = "waiting"]
      /\ reused' = (reused \/ Left(t))
      /\ armed' = armed /\ msgq' = msgq /\ running' = running
      /\ wrongRun' = wrongRun /\ lostMsg' = lostMsg
  BY <1>1, <1>3 DEF Register, Fresh
<1>5. DataOK'
  <2>1. ent' \in [Timers -> Entry]
    BY <1>0, <1>3, <1>4 DEF DataOK, Entry, Regs
  <2>2. starting' \subseteq Message
    BY <1>0, <1>1, <1>3, <1>4 DEF DataOK, Message
  <2>3. reused' \in BOOLEAN
    BY <1>0, <1>4 DEF DataOK, Left
  <2>4. state' \in [Regs -> {"none", "waiting", "expired", "cancelled", "done"}]
    BY <1>0, <1>3, <1>4 DEF DataOK
  <2>5. QED
    BY <1>0, <1>3, <1>4, <2>1, <2>2, <2>3, <2>4 DEF DataOK
<1>6. /\ ent'[t].reg = r /\ ~ent'[t].cancled /\ state'[r] = "waiting"
      /\ \A u \in Timers : u # t => ent'[u] = ent[u]
      /\ \A u \in Timers : u # t /\ ent[u].reg # 0 => state'[ent[u].reg] = state[ent[u].reg]
  BY <1>0, <1>1, <1>3, <1>4 DEF DataOK
<1>7. RegsOwned'
  <2>1. \A u \in Timers : ent'[u].reg <= regs'
    BY <1>3, <1>6
  <2>2. \A u, v \in Timers : ent'[u].reg = ent'[v].reg /\ ent'[u].reg # 0 => u = v
    BY <1>0, <1>3, <1>6 DEF RegsOwned
  <2>3. \A u \in Range(pending') \cup Range(ready') : ent'[u].reg # 0
    BY <1>0, <1>2, <1>3, <1>6 DEF RegsOwned, ListsOK
  <2>4. QED
    BY <2>1, <2>2, <2>3 DEF RegsOwned
<1>8. ASSUME ~reused' PROVE OwnUse'
  <2>1. ~reused /\ OwnUse /\ ~Left(t)
    BY <1>0, <1>4, <1>8
  <2>2. ~Sent(t) /\ armed[t] = 0 /\ running # t /\ \A s \in starting : s.timer # t
    BY <2>1 DEF Left, Sent
  <2>3. ASSUME NEW u \in Timers, u # t PROVE UseOK(u)'
    <3>1. Untouched(u)
      BY <1>2, <1>4, <1>6, <2>3 DEF Untouched
    <3>2. NothingNew(u)
      BY <1>4, <2>3 DEF NothingNew
    <3>3. QED
      BY <2>1, <3>1, <3>2, UseKept DEF OwnUse
  <2>4. UseOK(t)'
    <3>1. ~Sent(t)' /\ armed'[t] = 0 /\ running' # t
      BY <1>4, <2>2 DEF Sent
    <3>2. StartOK(t)'
      <4>1. \A s \in starting' : s.timer = t => s.reg = r
        BY <1>4, <2>2
      <4>2. QED
        BY <1>2, <1>6, <3>1, <4>1 DEF StartOK, Mine, Waits
    <3>3. ArmedOK(t)' /\ SentOK(t)'
      BY <3>1 DEF ArmedOK, SentOK, Sent
    <3>4. ReadyOK(t)'
      BY <1>2, <3>1 DEF ReadyOK
    <3>5. QED
      BY <3>2, <3>3, <3>4 DEF UseOK
  <2>5. QED
    BY <1>4, <2>1, <2>3, <2>4 DEF OwnUse, SentOnce
<1>9. UnusedQuiet'
  <2>1. ASSUME NEW u \in Timers, ent'[u].reg = 0 PROVE ent[u].reg = 0 /\ NothingNew(u)
    <3>1. u # t
      BY <1>3, <1>6, <2>1
    <3>2. QED
      BY <1>4, <1>6, <2>1, <3>1 DEF NothingNew
  <2>2. QED
    BY <2>1, UnusedKept
<1>10. QED
  BY <1>2, <1>5, <1>7, <1>8, <1>9 DEF TimerInv

LEMMA StartStep ==
    ASSUME TimerInv, NEW s \in starting, Start(s)
    PROVE  TimerInv'
<1>0. ListsOK /\ DataOK /\ RegsOwned /\ (~reused => OwnUse)
  BY DEF TimerInv
<1>1. /\ free' = free /\ pending' = pending /\ ready' = ready /\ ent' = ent /\ msgq' = msgq
      /\ running' = running /\ regs' = regs /\ state' = state
      /\ reused' = reused /\ wrongRun' = wrongRun /\ lostMsg' = lostMsg
      /\ starting' = starting \ {s} /\ armed' = [armed EXCEPT ![s.timer] = s.reg]
  BY DEF Start, lists, history
<1>2. PICK t \in Timers : t = s.timer /\ s.reg \in Regs /\ s.reg # 0 /\ s.reg \in 0 .. MaxRegs
  BY <1>0 DEF DataOK, Message, Regs
<1>3. /\ armed' \in [Timers -> 0 .. MaxRegs] /\ armed'[t] = s.reg
      /\ \A u \in Timers : u # t => armed'[u] = armed[u]
  BY <1>0, <1>1, <1>2 DEF DataOK
<1>4. ListsOK' /\ RegsOwned'
  BY <1>0, <1>1 DEF ListsOK, RegsOwned
<1>5. DataOK'
  BY <1>0, <1>1, <1>3 DEF DataOK
<1>6. ASSUME ~reused' PROVE OwnUse'
  <2>1. OwnUse
    BY <1>0, <1>1, <1>6
  <2>2. ASSUME NEW u \in Timers, u # t PROVE UseOK(u)'
    <3>1. Untouched(u) /\ NothingNew(u)
      BY <1>1, <1>3, <2>2 DEF Untouched, NothingNew
    <3>2. QED
      BY <2>1, <3>1, UseKept DEF OwnUse
  <2>3. UseOK(t)'
    <3>1. Mine(t, s.reg) /\ Waits(t) /\ armed[t] = 0 /\ ~Sent(t) /\ UseOK(t)
      BY <1>2, <2>1 DEF OwnUse, UseOK, StartOK
    <3>2. \A r \in starting : r.timer = t => r = s
      BY <1>0, <1>2, <3>1 DEF UseOK, StartOK, Mine, DataOK, Message
    <3>3. StartOK(t)'
      BY <1>1, <3>2 DEF StartOK
    <3>4. ArmedOK(t)'
      BY <1>1, <1>3, <3>1 DEF ArmedOK, Mine, Waits, Sent
    <3>5. SentOK(t)' /\ ReadyOK(t)'
      BY <1>1, <3>1 DEF UseOK, SentOK, ReadyOK, Sent
    <3>6. QED
      BY <3>3, <3>4, <3>5 DEF UseOK
  <2>4. QED
    BY <1>1, <2>1, <2>2, <2>3 DEF OwnUse, SentOnce
<1>7. UnusedQuiet'
  <2>1. ASSUME NEW u \in Timers, ent'[u].reg = 0 PROVE ent[u].reg = 0 /\ (Quiet(u) => NothingNew(u))
    BY <1>1, <1>2, <1>3, <2>1 DEF NothingNew, Quiet
  <2>2. QED
    BY <2>1, UnusedKept
<1>8. QED
  BY <1>4, <1>5, <1>6, <1>7 DEF TimerInv

\* As long as no entry has two messages, those of the others fit beside one
\* more.
LEMMA RoomIsLeft ==
    ASSUME DataOK, SentOnce, NEW t \in Timers, ~Sent(t)
    PROVE  Room
<1> DEFINE q == [k \in 1 .. Len(msgq) |-> msgq[k].timer]
<1>1. Len(msgq) \in Nat /\ \A k \in 1 .. Len(msgq) : msgq[k] \in Message
  <2>1. msgq \in Seq(Message)
    BY DEF DataOK
  <2>2. QED
    BY <2>1, ElementOfSeq, LenProperties
<1>2. q \in [1 .. Len(msgq) -> Timers \ {t}]
  BY <1>1 DEF Sent, Message
<1>3. q \in Seq(Timers \ {t}) /\ Len(q) = Len(msgq)
  BY <1>1, <1>2, SeqDef, LenProperties
<1>4. Once(q)
  BY <1>3 DEF Once, SentOnce
<1> HIDE DEF q
<1>5. Cardinality(Range(q)) = Len(msgq) /\ Range(q) \in SUBSET (Timers \ {t})
  BY <1>3, <1>4, OnceLength, Elements
<1>6. IsFiniteSet(Timers \ {t}) /\ Cardinality(Timers \ {t}) = Cardinality(Timers) - 1
      /\ Cardinality(Timers) \in Nat
  BY TimersAssumption, FS_RemoveElement, FS_CardinalityType
<1>7. Len(msgq) <= Cardinality(Timers) - 1
  BY <1>5, <1>6, FS_Subset
<1>8. QED
  BY <1>1, <1>6, <1>7, TimersAssumption DEF Room

LEMMA ExpireStep ==
    ASSUME TimerInv, NEW t \in Timers, Expire(t)
    PROVE  TimerInv'
<1>0. ListsOK /\ DataOK /\ RegsOwned /\ (~reused => OwnUse)
  BY DEF TimerInv
<1>1. /\ free' = free /\ pending' = pending /\ ready' = ready /\ ent' = ent
      /\ running' = running /\ regs' = regs /\ starting' = starting
      /\ reused' = reused /\ wrongRun' = wrongRun
  BY DEF Expire, lists
<1>2. PICK r \in Regs : r = armed[t] /\ armed[t] # 0
  BY <1>0 DEF Expire, DataOK, Regs
<1>3. /\ armed' \in [Timers -> 0 .. MaxRegs] /\ armed'[t] = 0
      /\ \A u \in Timers : u # t => armed'[u] = armed[u]
  BY <1>0, TimersAssumption DEF Expire, DataOK
<1>4. /\ state' \in [Regs -> {"none", "waiting", "expired", "cancelled", "done"}]
      /\ \A q \in Regs : q # r => state'[q] = state[q]
      /\ state[r] = "waiting" => state'[r] = "expired"
  BY <1>0, <1>2 DEF Expire, DataOK
<1>5. ListsOK' /\ RegsOwned'
  BY <1>0, <1>1 DEF ListsOK, RegsOwned
<1> DEFINE m == [timer |-> t, reg |-> r]
<1>6. m \in Message /\ msgq \in Seq(Message) /\ Len(msgq) \in Nat
  BY <1>0, LenProperties DEF DataOK, Message
<1>7. Room => /\ msgq' \in Seq(Message) /\ Len(msgq') = Len(msgq) + 1 /\ lostMsg' = lostMsg
              /\ msgq'[Len(msgq) + 1] = m
              /\ \A k \in 1 .. Len(msgq) : msgq'[k] = msgq[k]
  <2>1. Room => msgq' = Append(msgq, m) /\ lostMsg' = lostMsg
    BY <1>2 DEF Expire
  <2> HIDE DEF m
  <2>2. QED
    BY <1>6, <2>1, AppendProperties
<1> HIDE DEF m
<1>8. DataOK'
  <2>1. msgq' \in Seq(Message) /\ Len(msgq') <= QueueSize /\ lostMsg' \in BOOLEAN
    <3>1. CASE Room
      BY <1>0, <1>6, <1>7, <3>1, TimersAssumption DEF Room, DataOK
    <3>2. CASE ~Room
      BY <1>0, <3>2 DEF Expire, DataOK
    <3>3. QED
      BY <3>1, <3>2
  <2>2. QED
    BY <1>0, <1>1, <1>3, <1>4, <2>1 DEF DataOK
<1>9. ASSUME ~reused' PROVE OwnUse'
  <2>1. OwnUse
    BY <1>0, <1>1, <1>9
  <2>2. Mine(t, r) /\ Waits(t) /\ ~Sent(t) /\ UseOK(t)
    BY <1>2, <2>1 DEF OwnUse, UseOK, ArmedOK
  <2>3. Room
    BY <1>0, <2>1, <2>2, RoomIsLeft DEF OwnUse
  <2>4. m.timer = t /\ m.reg = r
    BY DEF m
  <2>5. ASSUME NEW u \in Timers, u # t PROVE UseOK(u)'
    <3>1. Untouched(u)
      <4>1. ent[u].reg # 0 => ent[u].reg \in Regs /\ ent[u].reg # r
        BY <1>0, <2>2, <2>5 DEF DataOK, Entry, Regs, RegsOwned, Mine
      <4>2. QED
        BY <1>1, <1>4, <4>1 DEF Untouched
    <3>2. NothingNew(u)
      <4>1. \A k \in 1 .. Len(msgq') : msgq'[k].timer = u => k \in 1 .. Len(msgq)
        BY <1>6, <1>7, <2>3, <2>4, <2>5
      <4>2. QED
        BY <1>1, <1>3, <1>7, <2>3, <2>5, <4>1 DEF NothingNew
    <3>3. QED
      BY <2>1, <3>1, <3>2, UseKept DEF OwnUse
  <2>6. UseOK(t)'
    <3>1. \A s \in starting' : s.timer # t
      BY <1>1, <1>2, <2>2 DEF UseOK, StartOK
    <3>2. StartOK(t)' /\ ArmedOK(t)'
      BY <1>3, <3>1 DEF StartOK, ArmedOK
    <3>3. SentOK(t)'
      <4>1. \A k \in 1 .. Len(msgq') : msgq'[k].timer = t => msgq'[k].reg = r
        BY <1>6, <1>7, <2>2, <2>3, <2>4 DEF Sent
      <4>2. QED
        BY <1>1, <1>4, <2>2, <4>1 DEF SentOK, Mine, Waits, Expired
    <3>4. ReadyOK(t)'
      BY <1>0, <1>1, <2>2 DEF ReadyOK, Mine, ListsOK
    <3>5. QED
      BY <3>2, <3>3, <3>4 DEF UseOK
  <2>7. SentOnce'
    BY <1>6, <1>7, <2>1, <2>2, <2>3, <2>4 DEF OwnUse, SentOnce, Sent
  <2>8. QED
    BY <1>1, <1>7, <2>1, <2>3, <2>5, <2>6, <2>7 DEF OwnUse
<1>10. UnusedQuiet'
  <2>1. ASSUME NEW u \in Timers, ent'[u].reg = 0, Quiet(u) PROVE NothingNew(u)
    <3>1. u # t
      BY <1>2, <2>1 DEF Quiet
    <3>2. CASE Room
      <4>1. m.timer = t
        BY DEF m
      <4>2. \A k \in 1 .. Len(msgq') : msgq'[k].timer = u => k \in 1 .. Len(msgq)
        BY <1>6, <1>7, <3>1, <3>2, <4>1
      <4>3. QED
        BY <1>1, <1>3, <1>7, <3>1, <3>2, <4>2 DEF NothingNew
    <3>3. CASE ~Room
      BY <1>1, <1>3, <3>1, <3>3 DEF Expire, NothingNew
    <3>4. QED
      BY <3>2, <3>3
  <2>2. QED
    BY <1>1, <2>1, UnusedKept
<1>11. QED
  BY <1>5, <1>8, <1>9, <1>10 DEF TimerInv

LEMMA CancelStep ==
    ASSUME TimerInv, NEW h \in Handlers, Cancel(h)
    PROVE  TimerInv'
<1>0. ListsOK /\ DataOK /\ RegsOwned /\ (~reused => OwnUse)
  BY DEF TimerInv
<1>1. PICK hit, cut :
        /\ hit \subseteq Range(pending) \/ hit \subseteq Range(ready)
        /\ cut \in InOrderOf(hit, pending \o ready) /\ free' = free \o cut
        /\ pending' \in InOrderOf(Range(pending) \ hit, pending)
        /\ ready' \in InOrderOf(Range(ready) \ hit, ready)
        /\ ent' = [t \in Timers |-> IF t \in hit THEN Cancled(t) ELSE ent[t]]
        /\ armed' = [t \in Timers |-> IF t \in hit THEN 0 ELSE armed[t]]
        /\ state' = [r \in Regs |-> IF \E t \in hit : ent[t].reg = r /\ running # t
                                      THEN "cancelled" ELSE state[r]]
  <2> DEFINE Of(s) == {t \in ToSet(s) : ent[t].fun = h}
             hit   == IF Of(pending) # {} THEN Of(pending) ELSE Of(ready)
  <2>1. ToSet(pending) = Range(pending) /\ ToSet(ready) = Range(ready)
    BY DEF ToSet, Range
  <2>2. hit \subseteq Range(pending) \/ hit \subseteq Range(ready)
    BY <2>1
  <2>3. PICK cut \in InOrderOf(hit, pending \o ready) : free' = free \o cut
    BY DEF Cancel
  <2>4. /\ pending' \in InOrderOf(ToSet(pending) \ hit, pending)
        /\ ready' \in InOrderOf(ToSet(ready) \ hit, ready)
    BY DEF Cancel
  <2>5. /\ ent' = [t \in Timers |-> IF t \in hit THEN Cancled(t) ELSE ent[t]]
        /\ armed' = [t \in Timers |-> IF t \in hit THEN 0 ELSE armed[t]]
        /\ state' = [r \in Regs |-> IF \E t \in hit : ent[t].reg = r /\ running # t
                                      THEN "cancelled" ELSE state[r]]
    BY DEF Cancel
  <2> HIDE DEF hit
  <2>6. QED
    BY <2>1, <2>2, <2>3, <2>4, <2>5
<1>2. /\ starting' = starting /\ msgq' = msgq /\ running' = running /\ regs' = regs
      /\ reused' = reused /\ wrongRun' = wrongRun /\ lostMsg' = lostMsg
  BY DEF Cancel, history
<1>3. /\ Range(pending) \subseteq Timers /\ Range(ready) \subseteq Timers /\ hit \subseteq Timers
  BY <1>0, <1>1 DEF ListsOK
<1>4. /\ cut \in Seq(Timers) /\ Once(cut) /\ Range(cut) = hit
      /\ pending' \in Seq(Timers) /\ Once(pending') /\ Range(pending') = Range(pending) \ hit
      /\ ready' \in Seq(Timers) /\ Once(ready') /\ Range(ready') = Range(ready) \ hit
  <2>1. cut \in Seq(Timers) /\ Once(cut) /\ Range(cut) = hit
    BY <1>1, <1>3, PartOfList
  <2>2. Range(pending) \ hit \subseteq Timers /\ Range(ready) \ hit \subseteq Timers
    BY <1>3
  <2>3. pending' \in Seq(Timers) /\ Once(pending') /\ Range(pending') = Range(pending) \ hit
    BY <1>1, <2>2, PartOfList
  <2>4. ready' \in Seq(Timers) /\ Once(ready') /\ Range(ready') = Range(ready) \ hit
    BY <1>1, <2>2, PartOfList
  <2>5. QED
    BY <2>1, <2>3, <2>4
<1>5. free' \in Seq(Timers) /\ Once(free') /\ Range(free') = Range(free) \cup hit
  <2>1. free \in Seq(Timers) /\ Once(free) /\ Range(free) \cap Range(cut) = {}
    BY <1>0, <1>1, <1>4 DEF ListsOK
  <2>2. /\ free \o cut \in Seq(Timers) /\ Once(free \o cut)
        /\ Range(free \o cut) = Range(free) \cup Range(cut)
    BY <1>4, <2>1, OnceConcat
  <2>3. QED
    BY <1>1, <1>4, <2>2
<1>6. ListsOK'
  BY <1>0, <1>1, <1>4, <1>5 DEF ListsOK
<1>7. /\ \A t \in Timers : /\ ent'[t] \in Entry /\ ent'[t].reg = ent[t].reg
                           /\ t \in hit => ent'[t].cancled
                           /\ t \notin hit => ent'[t] = ent[t]
      /\ ent' \in [Timers -> Entry]
  <2>1. ASSUME NEW e \in Entry
        PROVE  LET c == [e EXCEPT !.cancled = TRUE]
               IN c \in Entry /\ c.reg = e.reg /\ c.cancled
    BY DEF Entry
  <2>2. \A t \in Timers : ent[t] \in Entry
    BY <1>0 DEF DataOK
  <2>3. \A t \in Timers : t \in hit => ent'[t] = [ent[t] EXCEPT !.cancled = TRUE]
    BY <1>1 DEF Cancled
  <2>4. \A t \in Timers : t \notin hit => ent'[t] = ent[t]
    BY <1>1
  <2>5. \A t \in Timers : /\ ent'[t] \in Entry /\ ent'[t].reg = ent[t].reg
                          /\ t \in hit => ent'[t].cancled
    BY <2>1, <2>2, <2>3, <2>4
  <2>6. ent' \in [Timers -> Entry]
    BY <1>1, <2>5
  <2>7. QED
    BY <2>4, <2>5, <2>6
<1>8. DataOK'
  <2>1. armed' \in [Timers -> 0 .. MaxRegs]
    BY <1>0, <1>1, TimersAssumption DEF DataOK
  <2>2. state' \in [Regs -> {"none", "waiting", "expired", "cancelled", "done"}]
    BY <1>0, <1>1 DEF DataOK
  <2>3. QED
    BY <1>0, <1>2, <1>7, <2>1, <2>2 DEF DataOK
<1>9. RegsOwned'
  BY <1>0, <1>2, <1>4, <1>7 DEF RegsOwned, ListsOK
<1>10. ASSUME ~reused' PROVE OwnUse'
  <2>1. OwnUse
    BY <1>0, <1>2, <1>10
  <2>2. ASSUME NEW u \in Timers, u \notin hit PROVE UseOK(u)'
    <3>1. ent[u].reg # 0 => state'[ent[u].reg] = state[ent[u].reg]
      <4>1. ent[u].reg # 0 => ent[u].reg \in Regs /\ ~ \E t \in hit : ent[t].reg = ent[u].reg
        BY <1>0, <1>3, <2>2 DEF DataOK, Entry, Regs, RegsOwned
      <4>2. QED
        BY <1>1, <4>1
    <3>2. Untouched(u)
      BY <1>2, <1>4, <1>5, <1>7, <2>2, <3>1 DEF Untouched
    <3>3. NothingNew(u)
      BY <1>1, <1>2, <2>2 DEF NothingNew
    <3>4. QED
      BY <2>1, <3>2, <3>3, UseKept DEF OwnUse
  <2>3. ASSUME NEW u \in Timers, u \in hit PROVE UseOK(u)'
    <3>1. armed'[u] = 0 /\ ent'[u].cancled /\ ent'[u].reg = ent[u].reg /\ u \in Range(free')
      BY <1>1, <1>5, <1>7, <2>3
    <3>2. UseOK(u)
      BY <2>1 DEF OwnUse
    <3>3. StartOK(u)'
      BY <1>2, <3>1, <3>2 DEF UseOK, StartOK, Mine, Waits, Sent
    <3>4. ArmedOK(u)'
      BY <3>1 DEF ArmedOK
    <3>5. SentOK(u)'
      BY <1>2, <3>1, <3>2 DEF UseOK, SentOK, Mine, Expired
    <3>6. ReadyOK(u)'
      BY <1>4, <1>6, <2>3, <3>1 DEF ReadyOK, ListsOK
    <3>7. QED
      BY <3>3, <3>4, <3>5, <3>6 DEF UseOK
  <2>4. QED
    BY <1>2, <2>1, <2>2, <2>3 DEF OwnUse, SentOnce
<1>11. UnusedQuiet'
  <2>1. ASSUME NEW u \in Timers, Quiet(u) PROVE NothingNew(u)
    BY <1>1, <1>2, <2>1 DEF Quiet, NothingNew
  <2>2. QED
    BY <1>7, <2>1, UnusedKept
<1>12. QED
  BY <1>6, <1>8, <1>9, <1>10, <1>11 DEF TimerInv

LEMMA TaskRecvStep ==
    ASSUME TimerInv, TaskRecv
    PROVE  TimerInv'
<1>0. ListsOK /\ DataOK /\ RegsOwned /\ (~reused => OwnUse)
  BY DEF TimerInv
<1>1. /\ starting' = starting /\ armed' = armed /\ running' = running /\ regs' = regs
      /\ state' = state /\ reused' = reused /\ wrongRun' = wrongRun /\ lostMsg' = lostMsg
      /\ running = None
  BY DEF TaskRecv, history
<1>2. /\ msgq \in Seq(Message) /\ Len(msgq) \in Nat \ {0} /\ Head(msgq) = msgq[1]
      /\ msgq' \in Seq(Message) /\ Len(msgq') = Len(msgq) - 1 /\ msgq[1] \in Message
      /\ \A k \in 1 .. Len(msgq') : msgq'[k] = msgq[k + 1]
  <2>1. msgq \in Seq(Message) /\ msgq # <<>> /\ msgq' = Tail(msgq)
    BY <1>0 DEF DataOK, TaskRecv
  <2>2. QED
    BY <2>1, EmptySeq, HeadTailProperties, ElementOfSeq, LenProperties
<1>3. PICK t \in Timers : t = msgq[1].timer
  BY <1>2 DEF Message
<1>4. Len(msgq') <= QueueSize
  BY <1>0, <1>2, TimersAssumption DEF DataOK
<1>5. ~reused => /\ OwnUse /\ Mine(t, msgq[1].reg) /\ Expired(t) /\ UseOK(t)
                 /\ armed[t] = 0 /\ (\A s \in starting : s.timer # t)
                 /\ \A k \in 1 .. Len(msgq') : msgq'[k].timer # t
  <2>1. SUFFICES ASSUME ~reused
                 PROVE  /\ OwnUse /\ Mine(t, msgq[1].reg) /\ Expired(t) /\ UseOK(t)
                        /\ armed[t] = 0 /\ (\A s \in starting : s.timer # t)
                        /\ \A k \in 1 .. Len(msgq') : msgq'[k].timer # t
    OBVIOUS
  <2>2. OwnUse /\ UseOK(t)
    BY <1>0, <2>1 DEF OwnUse
  <2>3. 1 \in 1 .. Len(msgq) /\ Sent(t)
    BY <1>2, <1>3 DEF Sent
  <2>4. Mine(t, msgq[1].reg) /\ Expired(t) /\ armed[t] = 0 /\ (\A s \in starting : s.timer # t)
    BY <1>3, <2>2, <2>3 DEF UseOK, SentOK, ArmedOK, StartOK
  <2>5. ASSUME NEW k \in 1 .. Len(msgq') PROVE msgq'[k].timer # t
    <3>1. k + 1 \in 1 .. Len(msgq) /\ k + 1 # 1 /\ msgq'[k] = msgq[k + 1]
      BY <1>2
    <3>2. msgq[k + 1].timer # msgq[1].timer
      BY <2>2, <2>3, <3>1 DEF OwnUse, SentOnce
    <3>3. QED
      BY <1>3, <3>1, <3>2
  <2>6. QED
    BY <2>2, <2>4, <2>5
<1>6. ~reused => SentOnce'
  <2>1. SUFFICES ASSUME ~reused, NEW j \in 1 .. Len(msgq'), NEW k \in 1 .. Len(msgq'),
                        msgq'[j].timer = msgq'[k].timer
                 PROVE  j = k
    BY DEF SentOnce
  <2>2. /\ j + 1 \in 1 .. Len(msgq) /\ msgq'[j] = msgq[j + 1]
        /\ k + 1 \in 1 .. Len(msgq) /\ msgq'[k] = msgq[k + 1]
    BY <1>2
  <2>3. j + 1 = k + 1
    BY <1>5, <2>1, <2>2 DEF OwnUse, SentOnce
  <2>4. QED
    BY <2>3
<1>7. ASSUME NEW u \in Timers PROVE NothingNew(u)
  <2>1. \A k \in 1 .. Len(msgq') : k + 1 \in 1 .. Len(msgq) /\ msgq[k + 1] = msgq'[k]
    BY <1>2
  <2>2. QED
    BY <1>1, <2>1 DEF NothingNew
<1>8. ~reused => StartOK(t)' /\ ArmedOK(t)' /\ SentOK(t)'
  BY <1>1, <1>5 DEF StartOK, ArmedOK, SentOK
<1>9. CASE ent[t].cancled
  <2>1. /\ ent' = [ent EXCEPT ![t].cancled = FALSE]
        /\ free' = free /\ pending' = pending /\ ready' = ready
    BY <1>2, <1>3, <1>9 DEF TaskRecv, lists
  <2>2. ent' \in [Timers -> Entry] /\ ent'[t].reg = ent[t].reg
        /\ \A u \in Timers : ent'[u].reg = ent[u].reg /\ (u # t => ent'[u] = ent[u])
    BY <1>0, <2>1 DEF DataOK, Entry
  <2>3. ListsOK' /\ DataOK' /\ RegsOwned'
    BY <1>0, <1>1, <1>2, <1>4, <2>1, <2>2 DEF ListsOK, DataOK, RegsOwned
  <2>4. UnusedQuiet'
    BY <1>7, <2>2, UnusedKept
  <2>5. ASSUME ~reused' PROVE OwnUse'
    <3>1. ~reused
      BY <1>1, <2>5
    <3>2. ASSUME NEW u \in Timers, u # t PROVE UseOK(u)'
      <4>1. Untouched(u)
        BY <1>1, <2>1, <2>2, <3>2 DEF Untouched
      <4>2. QED
        BY <1>5, <1>7, <3>1, <4>1, UseKept DEF OwnUse
    <3>3. ReadyOK(t)'
      BY <1>1, <1>5, <2>1, <2>2, <3>1 DEF UseOK, ReadyOK
    <3>4. UseOK(t)'
      BY <1>8, <3>1, <3>3 DEF UseOK
    <3>5. QED
      BY <1>1, <1>5, <1>6, <3>1, <3>2, <3>4 DEF OwnUse
  <2>6. QED
    BY <2>3, <2>4, <2>5 DEF TimerInv
<1>10. CASE ~ent[t].cancled
  <2>1. ent' = ent /\ MoveTail(t, "ready")
    BY <1>2, <1>3, <1>10 DEF TaskRecv
  <2>2. /\ ListsOK' /\ Range(free') = Range(free) \ {t}
        /\ Range(pending') = Range(pending) \ {t} /\ Range(ready') = Range(ready) \cup {t}
    BY <1>0, <2>1, MoveTailLists
  <2>3. DataOK'
    BY <1>0, <1>1, <1>2, <1>4, <2>1 DEF DataOK
  <2>4. QED
    <3>1. ASSUME ~reused' PROVE OwnUse'
      <4>1. ~reused /\ t \in Range(pending) /\ state[ent[t].reg] = "expired"
        BY <1>1, <1>5, <1>10, <3>1 DEF Mine, Expired
      <4>2. ASSUME NEW u \in Timers, u # t PROVE UseOK(u)'
        <5>1. Untouched(u)
          BY <1>1, <2>1, <2>2, <4>2 DEF Untouched
        <5>2. QED
          BY <1>5, <1>7, <4>1, <5>1, UseKept DEF OwnUse
      <4>3. ReadyOK(t)'
        BY <1>1, <2>1, <2>2, <4>1, TimersAssumption DEF ReadyOK
      <4>4. UseOK(t)'
        BY <1>8, <4>1, <4>3 DEF UseOK
      <4>5. QED
        BY <1>1, <1>5, <1>6, <4>1, <4>2, <4>4 DEF OwnUse
    <3>2. RegsOwned'
      <4>1. ent[t].reg # 0
        <5>1. 1 \in 1 .. Len(msgq) /\ Sent(t)
          BY <1>2, <1>3 DEF Sent
        <5>2. QED
          BY <5>1 DEF TimerInv, UnusedQuiet, Quiet
      <4>2. QED
        BY <1>0, <1>1, <2>1, <2>2, <4>1 DEF RegsOwned
    <3>3. UnusedQuiet'
      BY <1>7, <2>1, UnusedKept
    <3>4. QED
      BY <2>2, <2>3, <3>1, <3>2, <3>3 DEF TimerInv
<1>11. QED
  BY <1>9, <1>10

LEMMA PollRunStep ==
    ASSUME TimerInv, PollRun
    PROVE  TimerInv'
<1>0. ListsOK /\ DataOK /\ RegsOwned /\ (~reused => OwnUse)
  BY DEF TimerInv
<1>1. PICK t \in Timers : t = Head(ready) /\ t \in Range(ready)
  <2>1. ready \in Seq(Timers) /\ Once(ready) /\ ready # <<>>
    BY <1>0 DEF ListsOK, PollRun
  <2>2. QED
    BY <2>1, OnceTail, Elements
<1>2. PICK r \in Regs : r = ent[t].reg
  BY <1>0, <1>1 DEF DataOK, RegsOwned, Entry, Regs
<1>3. /\ free' = free /\ pending' = pending /\ ready' = ready
      /\ starting' = starting /\ armed' = armed /\ msgq' = msgq /\ regs' = regs
      /\ reused' = reused /\ lostMsg' = lostMsg /\ running = None /\ running' = t
      /\ ent' = [ent EXCEPT ![t].cancled = FALSE]
      /\ wrongRun' = (wrongRun \/ state[r] # "expired")
      /\ state' = [state EXCEPT ![r] = "done"]
  BY <1>1, <1>2 DEF PollRun, lists
<1>4. ent' \in [Timers -> Entry]
      /\ \A u \in Timers : ent'[u].reg = ent[u].reg /\ (u # t => ent'[u] = ent[u])
  BY <1>0, <1>3 DEF DataOK, Entry
<1>5. state' \in [Regs -> {"none", "waiting", "expired", "cancelled", "done"}]
      /\ \A q \in Regs : q # r => state'[q] = state[q]
  BY <1>0, <1>3 DEF DataOK
<1>6. ListsOK' /\ RegsOwned'
  BY <1>0, <1>3, <1>4 DEF ListsOK, RegsOwned
<1>7. DataOK'
  <2>1. wrongRun' \in BOOLEAN
    BY <1>0, <1>3 DEF DataOK
  <2>2. QED
    BY <1>0, <1>3, <1>4, <1>5, <2>1 DEF DataOK
<1>8. ASSUME ~reused' PROVE OwnUse'
  <2>1. OwnUse /\ UseOK(t) /\ t # None
    BY <1>0, <1>3, <1>8, TimersAssumption DEF OwnUse
  <2>2. ASSUME NEW u \in Timers, u # t PROVE UseOK(u)'
    <3>1. ent[u].reg # 0 => state'[ent[u].reg] = state[ent[u].reg]
      <4>1. ent[u].reg # 0 => ent[u].reg \in Regs /\ ent[u].reg # r
        BY <1>0, <1>2, <2>2 DEF DataOK, Entry, Regs, RegsOwned
      <4>2. QED
        BY <1>5, <4>1
    <3>2. u # None
      BY TimersAssumption
    <3>3. Untouched(u)
      BY <1>3, <1>4, <2>2, <3>1, <3>2 DEF Untouched
    <3>4. NothingNew(u)
      BY <1>3 DEF NothingNew
    <3>5. QED
      BY <2>1, <3>3, <3>4, UseKept DEF OwnUse
  <2>3. UseOK(t)'
    <3>1. armed[t] = 0 /\ ~Sent(t) /\ \A s \in starting : s.timer # t
      BY <1>1, <2>1, ReadyIsQuiet DEF Quiet
    <3>2. StartOK(t)' /\ ArmedOK(t)' /\ SentOK(t)'
      BY <1>3, <3>1 DEF StartOK, ArmedOK, SentOK, Sent
    <3>3. ReadyOK(t)'
      BY <1>0, <1>1, <1>3 DEF ReadyOK, ListsOK
    <3>4. QED
      BY <3>2, <3>3 DEF UseOK
  <2>4. state[r] = "expired"
    BY <1>1, <1>2, <1>3, <2>1 DEF UseOK, ReadyOK
  <2>5. ~wrongRun'
    BY <1>3, <2>1, <2>4 DEF OwnUse
  <2>6. SentOnce'
    BY <1>3, <2>1 DEF OwnUse, SentOnce
  <2>7. QED
    BY <1>3, <2>1, <2>2, <2>3, <2>5, <2>6 DEF OwnUse
<1>9. UnusedQuiet'
  <2>1. \A u \in Timers : NothingNew(u)
    BY <1>3 DEF NothingNew
  <2>2. QED
    BY <1>4, <2>1, UnusedKept
<1>10. QED
  BY <1>6, <1>7, <1>8, <1>9 DEF TimerInv

LEMMA PollDoneStep ==
    ASSUME TimerInv, PollDone
    PROVE  TimerInv'
<1>0. ListsOK /\ DataOK /\ RegsOwned /\ (~reused => OwnUse)
  BY DEF TimerInv
<1>1. PICK t \in Timers : t = running
  BY <1>0 DEF DataOK, PollDone
<1>2. /\ ent' = ent /\ starting' = starting /\ armed' = armed /\ msgq' = msgq /\ regs' = regs
      /\ state' = state /\ reused' = reused /\ wrongRun' = wrongRun /\ lostMsg' = lostMsg
      /\ running' = None /\ MoveTail(t, "free")
  BY <1>1 DEF PollDone, history
<1>3. /\ ListsOK' /\ Range(free') = Range(free) \cup {t}
      /\ Range(pending') = Range(pending) \ {t} /\ Range(ready') = Range(ready) \ {t}
  BY <1>0, <1>2, MoveTailLists
<1>4. DataOK'
  BY <1>0, <1>2 DEF DataOK
<1>5. RegsOwned'
  BY <1>0, <1>2, <1>3 DEF RegsOwned
<1>6. ASSUME ~reused' PROVE OwnUse'
  <2>1. OwnUse
    BY <1>0, <1>2, <1>6
  <2>2. ASSUME NEW u \in Timers, u # t PROVE UseOK(u)'
    <3>1. u # None /\ running # u
      BY <1>1, <2>2, TimersAssumption
    <3>2. Untouched(u) /\ NothingNew(u)
      BY <1>2, <1>3, <2>2, <3>1 DEF Untouched, NothingNew
    <3>3. QED
      BY <2>1, <3>2, UseKept DEF OwnUse
  <2>3. UseOK(t)'
    <3>1. armed[t] = 0 /\ ~Sent(t) /\ \A s \in starting : s.timer # t
      BY <1>1, <2>1, ReadyIsQuiet DEF Quiet
    <3>2. StartOK(t)' /\ ArmedOK(t)' /\ SentOK(t)'
      BY <1>2, <3>1 DEF StartOK, ArmedOK, SentOK, Sent
    <3>3. ReadyOK(t)'
      BY <1>2, <1>3, TimersAssumption DEF ReadyOK
    <3>4. QED
      BY <3>2, <3>3 DEF UseOK
  <2>4. SentOnce'
    BY <1>2, <2>1 DEF OwnUse, SentOnce
  <2>5. QED
    BY <1>2, <2>1, <2>2, <2>3, <2>4 DEF OwnUse
<1>7. UnusedQuiet'
  <2>1. \A u \in Timers : NothingNew(u)
    BY <1>2 DEF NothingNew
  <2>2. QED
    BY <1>2, <2>1, UnusedKept
<1>8. QED
  BY <1>3, <1>4, <1>5, <1>6, <1>7 DEF TimerInv

LEMMA TimerStep == TimerInv /\ [Next]_vars => TimerInv'
<1> SUFFICES ASSUME TimerInv, [Next]_vars PROVE TimerInv'
  OBVIOUS
<1>1. CASE \E h \in Handlers : Register(h)
  BY <1>1, RegisterStep
<1>2. CASE \E h \in Handlers : Cancel(h)
  BY <1>2, CancelStep
<1>3. CASE \E s \in starting : Start(s)
  BY <1>3, StartStep
<1>4. CASE \E t \in Timers : Expire(t)
  BY <1>4, ExpireStep
<1>5. CASE TaskRecv
  BY <1>5, TaskRecvStep
<1>6. CASE PollRun
  BY <1>6, PollRunStep
<1>7. CASE PollDone
  BY <1>7, PollDoneStep
<1>8. CASE UNCHANGED vars
  <2>1. ListsOK' /\ DataOK' /\ RegsOwned'
    BY <1>8 DEF TimerInv, ListsOK, DataOK, RegsOwned, vars, lists, history
  <2>2. UnusedQuiet'
    BY <1>8 DEF TimerInv, UnusedQuiet, Quiet, Sent, vars
  <2>3. ~reused' => OwnUse'
    BY <1>8 DEF TimerInv, OwnUse, SentOnce, UseOK, StartOK, ArmedOK, SentOK, ReadyOK,
                Mine, Waits, Expired, Sent, vars, lists, history
  <2>4. QED
    BY <2>1, <2>2, <2>3 DEF TimerInv
<1>9. QED
  BY <1>1, <1>2, <1>3, <1>4, <1>5, <1>6, <1>7, <1>8 DEF Next, Task

\* The inductive invariant of the timer service: the lists share out the
\* table, registrations are owned, and until an entry is reused too early at
\* most one start, OS timer or message of it is about, and its own.
THEOREM TimerCorrect == Spec => []TimerInv
  BY TimerInit, TimerStep, PTL DEF Spec

\* Every variable of the timer service stays in its type.
THEOREM TypeCorrect == Spec => []TypeOK
<1>1. TimerInv => TypeOK
  BY DEF TimerInv, ListsOK, DataOK, Entry, Message, TypeOK
<1>2. QED
  BY <1>1, TimerCorrect, PTL

\* Every entry of the table is on exactly one of the three lists, whoever
\* moves it: registration, cancel, the task, and the end of a function whose
\* entry was cancelled or taken by another registration meanwhile.
THEOREM EntryOnOneList == Spec => []OneList
<1>1. TimerInv => OneList
  BY ListsOneList DEF TimerInv
<1>2. QED
  BY <1>1, TimerCorrect, PTL

\* As long as no entry is handed out with something of its earlier use left,
\* a function runs once for each registration that expired and was not
\* cancelled, and no expiry is lost to a full message queue.
THEOREM RunsOnlyExpired == Spec => []RunsAsRegistered
<1>1. TimerInv => RunsAsRegistered
  BY DEF TimerInv, DataOK, OwnUse, RunsAsRegistered
<1>2. QED
  BY <1>1, TimerCorrect, PTL
=============================================================================
