--------------------------- MODULE WpaEventProofs ----------------------------
(***************************************************************************)
(* Proofs about WpaEvent, for every set of posters and every number of     *)
(* events: the type invariant, whose acknowledgement a poster takes, and   *)
(* that the queue implements EventFifo (the safety part of it).            *)
(***************************************************************************)
EXTENDS WpaEvent, SequenceTheorems, TLAPS

-----------------------------------------------------------------------------
(* The inductive invariant, part by part.                                   *)

\* The two halves of TypeOK.
FlagsOK == {runing, wpa_bh_term, misread, crossed, early, stop, lateStart} \subseteq BOOLEAN

DataOK ==
    /\ pending_list \in Seq(Events) /\ handled \in Seq(Events) /\ ack_en \in Seq(BOOLEAN)
    /\ Len(ack_en) <= MaxEvents
    /\ ppc \in [Posters -> {"idle", "wakeup", "readAck", "waitAck"}]
    /\ pev \in [Posters -> Events \cup {None}]
    /\ bhpc \in {"start", "sleep", "poll", "process", "ack", "check", "exit"}
    /\ current \in Events \cup {None} /\ freed \subseteq Events
    /\ wake \in Nat /\ event_ack \in Nat

\* Events are numbered as they are posted: the handled ones come first, then
\* the one in process, then the pending ones.
Taken == Len(handled) + IF bhpc = "process" THEN 1 ELSE 0

InOrder ==
    /\ Taken + Len(pending_list) = Len(ack_en)
    /\ \A i \in 1 .. Len(handled) : handled[i] = i
    /\ \A i \in 1 .. Len(pending_list) : pending_list[i] = Taken + i
    /\ current = IF bhpc = "process" THEN Len(handled) + 1 ELSE None

\* An event is freed after it was handled.
FreedNext ==
    /\ bhpc = "ack" => Len(handled) > 0
    /\ freed = 1 .. (IF bhpc = "ack" THEN Len(handled) - 1 ELSE Len(handled))

\* A poster with an event that wants an acknowledgement.
Owed(p) == ppc[p] # "idle" /\ ack_en[pev[p]]

PosterEvents == \A p \in Posters : ppc[p] # "idle" => pev[p] \in 1 .. Len(ack_en)

\* Until acknowledgements cross or ack_en is misread, the poster of an event
\* to come still waits for it, who waits has asked, and one acknowledgement
\* belongs to a poster whose event was handled, two to two such posters.
AckOwners ==
    ~crossed /\ ~misread =>
        /\ ~early
        /\ \A e \in (1 .. Len(ack_en)) \ freed :
               ack_en[e] => \E p \in Posters : ppc[p] # "idle" /\ pev[p] = e
        /\ \A p \in Posters : ppc[p] = "waitAck" => ack_en[pev[p]]
        /\ event_ack > 0 => \E p \in Posters : Owed(p) /\ pev[p] \in freed
        /\ event_ack > 1 => \E p, q \in Posters : p # q /\ Owed(p) /\ Owed(q)

QueueInv == FlagsOK /\ DataOK /\ InOrder /\ FreedNext /\ PosterEvents

EventInv == QueueInv /\ AckOwners

-----------------------------------------------------------------------------
(* The invariant is inductive.                                              *)

\* Flags stay flags.
LEMMA FlagsStep == FlagsOK /\ [Next]_vars => FlagsOK'
<1> SUFFICES ASSUME FlagsOK, [Next]_vars PROVE FlagsOK'
  OBVIOUS
<1> USE DEF FlagsOK, posters, bh, history, stopping
<1>1. CASE \E p \in Posters : \E ack \in BOOLEAN : Post(p, ack)
  BY <1>1 DEF Post
<1>2. CASE \E p \in Posters : BhWakeup(p)
  BY <1>2 DEF BhWakeup
<1>3. CASE \E p \in Posters : ReadAck(p)
  BY <1>3 DEF ReadAck
<1>4. CASE \E p \in Posters : WaitAck(p)
  BY <1>4 DEF WaitAck, AckPosted
<1>5. CASE BhStart
  BY <1>5 DEF BhStart
<1>6. CASE BhWake
  BY <1>6 DEF BhWake
<1>7. CASE BhTimeout
  BY <1>7 DEF BhTimeout
<1>8. CASE PollTake
  BY <1>8 DEF PollTake
<1>9. CASE PollEmpty
  BY <1>9 DEF PollEmpty, OutRunning
<1>10. CASE Process
  BY <1>10 DEF Process
<1>11. CASE AckAndFree
  BY <1>11 DEF AckAndFree, WaitAcked
<1>12. CASE CheckTerm
  BY <1>12 DEF CheckTerm
<1>13. CASE Destroy
  BY <1>13 DEF Destroy, Wakeup
<1>14. CASE UNCHANGED vars
  BY <1>14 DEF vars
<1>15. QED
  BY <1>1, <1>2, <1>3, <1>4, <1>5, <1>6, <1>7, <1>8, <1>9, <1>10, <1>11,
     <1>12, <1>13, <1>14
  DEF Next, Poster, Bh

\* The data keep their types, the events their order.
LEMMA OrderStep ==
    ASSUME DataOK, InOrder, FreedNext, PosterEvents, [Next]_vars
    PROVE  DataOK' /\ InOrder' /\ FreedNext' /\ PosterEvents'
<1> USE PostersAssumption
    DEF DataOK, InOrder, FreedNext, PosterEvents, Taken, Events, posters, bh, history, stopping
<1>1. CASE \E p \in Posters : \E ack \in BOOLEAN : Post(p, ack)
  <2>1. PICK p \in Posters, ack \in BOOLEAN : Post(p, ack)
    BY <1>1
  <2>2. ack_en' \in Seq(BOOLEAN) /\ Len(ack_en') = Len(ack_en) + 1
    BY <2>1, AppendProperties DEF Post
  <2>3. Len(ack_en') \in Events
    BY <2>1, <2>2 DEF Post
  <2>4. /\ pending_list' \in Seq(Events) /\ Len(pending_list') = Len(pending_list) + 1
        /\ \A i \in 1 .. Len(pending_list') :
             pending_list'[i] = IF i = Len(pending_list') THEN Len(ack_en') ELSE pending_list[i]
    BY <2>1, <2>2, <2>3, AppendProperties DEF Post
  <2>5. \A q \in Posters : pev'[q] = IF q = p THEN Len(ack_en') ELSE pev[q]
    BY <2>1, <2>2 DEF Post
  <2>6. UNCHANGED <<bh, wake, event_ack>> /\ ppc' = [ppc EXCEPT ![p] = "wakeup"]
        /\ pev' = [pev EXCEPT ![p] = Len(ack_en')]
    BY <2>1, <2>2 DEF Post
  <2>7. InOrder'
    <3>1. Taken \in Nat /\ Len(pending_list) \in Nat /\ Len(ack_en) \in Nat
      BY LenProperties
    <3>2. Taken' = Taken /\ UNCHANGED <<handled, current, bhpc>>
      BY <2>6
    <3>0. /\ Taken + Len(pending_list) = Len(ack_en)
          /\ \A i \in 1 .. Len(pending_list) : pending_list[i] = Taken + i
      OBVIOUS
    <3>3. Taken + Len(pending_list') = Len(ack_en')
      <4> HIDE DEF Taken, DataOK, InOrder, FreedNext, PosterEvents
      <4>1. QED
        BY <2>2, <2>4, <3>0, <3>1
    <3>4. ASSUME NEW i \in 1 .. Len(pending_list') PROVE pending_list'[i] = Taken + i
      <4> HIDE DEF Taken, DataOK, InOrder, FreedNext, PosterEvents
      <4>1. CASE i = Len(pending_list')
        BY <2>4, <3>3, <4>1
      <4>2. CASE i # Len(pending_list')
        <5>1. i \in 1 .. Len(pending_list) /\ pending_list'[i] = pending_list[i]
          BY <2>4, <3>1, <4>2
        <5>2. QED
          BY <3>0, <5>1
      <4>3. QED
        BY <4>1, <4>2
    <3>5. QED
      BY <3>2, <3>3, <3>4
  <2>8. PosterEvents'
    BY <2>2, <2>5, <2>6
  <2>9. DataOK'
    BY <2>2, <2>3, <2>4, <2>6
  <2>10. FreedNext'
    BY <2>6
  <2>11. QED
    BY <2>7, <2>8, <2>9, <2>10
<1>2. CASE \E p \in Posters : BhWakeup(p)
  BY <1>2 DEF BhWakeup
<1>3. CASE \E p \in Posters : ReadAck(p)
  BY <1>3 DEF ReadAck
<1>4. CASE \E p \in Posters : WaitAck(p)
  BY <1>4 DEF WaitAck, AckPosted
<1>5. CASE BhStart
  BY <1>5 DEF BhStart
<1>6. CASE BhWake
  BY <1>6 DEF BhWake
<1>7. CASE BhTimeout
  BY <1>7 DEF BhTimeout
<1>8. CASE PollTake
  BY <1>8 DEF PollTake
<1>9. CASE PollEmpty
  BY <1>9 DEF PollEmpty, OutRunning
<1>10. CASE Process
  BY <1>10 DEF Process
<1>11. CASE AckAndFree
  <2>1. Last(handled) = Len(handled)
    BY <1>11 DEF AckAndFree, Last
  <2>2. freed' = 1 .. Len(handled)
    BY <1>11, <2>1 DEF AckAndFree
  <2>3. event_ack' \in Nat
    BY <1>11 DEF AckAndFree, WaitAcked
  <2>4. freed' \subseteq Events
    BY <2>2
  <2>5. QED
    BY <1>11, <2>2, <2>3, <2>4 DEF AckAndFree
<1>12. CASE CheckTerm
  BY <1>12 DEF CheckTerm
<1>13. CASE Destroy
  BY <1>13 DEF Destroy, Wakeup
<1>14. CASE UNCHANGED vars
  BY <1>14 DEF vars
<1>15. QED
  BY <1>1, <1>2, <1>3, <1>4, <1>5, <1>6, <1>7, <1>8, <1>9, <1>10, <1>11,
     <1>12, <1>13, <1>14
  DEF Next, Poster, Bh

\* The acknowledgements keep their owners.
LEMMA OwnersStep ==
    ASSUME QueueInv, AckOwners, [Next]_vars
    PROVE  AckOwners'
<1> USE PostersAssumption
    DEF QueueInv, FlagsOK, DataOK, FreedNext, PosterEvents, AckOwners, Owed, Events, posters, bh, history, stopping
<1>1. CASE \E p \in Posters : \E ack \in BOOLEAN : Post(p, ack)
  <2>1. PICK p \in Posters, ack \in BOOLEAN : Post(p, ack)
    BY <1>1
  <2>2. /\ Len(ack_en') = Len(ack_en) + 1
        /\ \A e \in 1 .. Len(ack_en) : ack_en'[e] = ack_en[e]
    BY <2>1, AppendProperties DEF Post
  <2>3. /\ UNCHANGED <<freed, event_ack, crossed, misread, early>>
        /\ ppc[p] = "idle" /\ ppc'[p] = "wakeup" /\ pev'[p] = Len(ack_en')
        /\ \A q \in Posters \ {p} : ppc'[q] = ppc[q] /\ pev'[q] = pev[q]
    BY <2>1, <2>2 DEF Post
  <2>4. \A q \in Posters : Owed(q) => q # p /\ Owed(q)' /\ pev'[q] = pev[q]
    BY <2>2, <2>3
  <2>5. ASSUME ~crossed, ~misread, NEW e \in (1 .. Len(ack_en')) \ freed, ack_en'[e]
        PROVE  \E q \in Posters : ppc'[q] # "idle" /\ pev'[q] = e
    <3>1. CASE e = Len(ack_en')
      BY <3>1, <2>3
    <3>2. CASE e # Len(ack_en')
      <4>1. e \in 1 .. Len(ack_en)
        <5>1. Len(ack_en) \in Nat
          BY LenProperties
        <5>2. e \in 1 .. Len(ack_en) + 1 /\ e # Len(ack_en) + 1
          BY <3>2, <2>2
        <5> HIDE DEF AckOwners, FreedNext, DataOK, PosterEvents, FlagsOK, QueueInv
        <5>3. QED
          BY <5>1, <5>2
      <4>2. ack_en'[e] = ack_en[e]
        BY <4>1, <2>2
      <4>3. PICK q \in Posters : ppc[q] # "idle" /\ pev[q] = e
        BY <4>1, <4>2, <2>5
      <4>4. QED
        BY <4>3, <2>3
    <3>3. QED
      BY <3>1, <3>2
  <2>6. ASSUME ~crossed, ~misread, NEW q \in Posters, ppc'[q] = "waitAck"
        PROVE  ack_en'[pev'[q]]
    BY <2>2, <2>3, <2>6, ZenonT(30)
  <2>7. QED
    BY <2>3, <2>4, <2>5, <2>6
<1>2. CASE \E p \in Posters : BhWakeup(p)
  <2>1. PICK p \in Posters : BhWakeup(p)
    BY <1>2
  <2>2. /\ UNCHANGED <<ack_en, pev, freed, event_ack, crossed, misread, early>>
        /\ \A q \in Posters : /\ ppc'[q] # "idle" <=> ppc[q] # "idle"
                              /\ ppc'[q] = "waitAck" => ppc[q] = "waitAck"
    BY <2>1 DEF BhWakeup
  <2>3. QED
    BY <2>2
<1>3. CASE \E p \in Posters : ReadAck(p)
  <2>1. PICK p \in Posters : ReadAck(p)
    BY <1>3
  <2>2. PICK wants \in BOOLEAN :
            /\ pev[p] \notin freed => wants = ack_en[pev[p]]
            /\ misread' = (misread \/ wants # ack_en[pev[p]])
            /\ ppc' = [ppc EXCEPT ![p] = IF wants THEN "waitAck" ELSE "idle"]
    BY <2>1 DEF ReadAck
  <2>3. UNCHANGED <<ack_en, pev, freed, event_ack, crossed, early>> /\ ppc[p] # "idle"
    BY <2>1 DEF ReadAck
  <2>4. ~misread' => ~misread /\ wants = ack_en[pev[p]]
    BY <2>2
  <2>5. /\ \A q \in Posters \ {p} : ppc'[q] = ppc[q]
        /\ ppc'[p] = IF wants THEN "waitAck" ELSE "idle"
    BY <2>2
  <2>6. ~misread' => \A q \in Posters : Owed(q)' <=> Owed(q)
    BY <2>3, <2>4, <2>5
  <2>7. ~misread' => \A q \in Posters : ppc'[q] = "waitAck" => q = p \/ ppc[q] = "waitAck"
    BY <2>5
  <2>8. ASSUME ~crossed, ~misread', NEW e \in (1 .. Len(ack_en)) \ freed, ack_en[e]
        PROVE  \E q \in Posters : ppc'[q] # "idle" /\ pev[q] = e
    <3>1. PICK q \in Posters : ppc[q] # "idle" /\ pev[q] = e
      BY <2>4, <2>8
    <3>2. Owed(q)
      BY <3>1, <2>8
    <3>3. QED
      BY <3>1, <3>2, <2>6, <2>8
  <2>9. ASSUME ~crossed, ~misread', NEW q \in Posters, ppc'[q] = "waitAck"
        PROVE  ack_en[pev[q]]
    BY <2>4, <2>5, <2>9
  <2>10. QED
    BY <2>3, <2>4, <2>6, <2>8, <2>9
<1>4. CASE \E p \in Posters : WaitAck(p)
  <2>1. PICK p \in Posters : WaitAck(p)
    BY <1>4
  <2>2. SUFFICES ASSUME ~crossed', ~misread' PROVE AckOwners'
    OBVIOUS
  <2>3. ~crossed /\ ~misread /\ \A q \in Posters \ {p} : ~Owed(q)
    BY <2>1, <2>2 DEF WaitAck
  <2>4. event_ack = 1 /\ pev[p] \in freed
    BY <2>1, <2>3 DEF WaitAck, AckPosted
  <2>5. pev[p] \in ToSet(handled)
    <3>1. pev[p] \in DOMAIN handled /\ handled[pev[p]] = pev[p]
      BY <2>4 DEF InOrder
    <3>2. QED
      BY <3>1 DEF ToSet
  <2>6. early' = FALSE /\ event_ack' = 0 /\ UNCHANGED <<ack_en, pev, freed>>
    BY <2>1, <2>3, <2>4, <2>5 DEF WaitAck
  <2>7. ppc'[p] = "idle" /\ \A q \in Posters \ {p} : ppc'[q] = ppc[q]
    BY <2>1 DEF WaitAck
  <2>8. ASSUME NEW e \in (1 .. Len(ack_en)) \ freed, ack_en[e]
        PROVE  \E q \in Posters : ppc'[q] # "idle" /\ pev[q] = e
    BY <2>3, <2>4, <2>7, <2>8
  <2>9. QED
    BY <2>3, <2>6, <2>7, <2>8
<1>5. CASE BhStart
  BY <1>5 DEF BhStart
<1>6. CASE BhWake
  BY <1>6 DEF BhWake
<1>7. CASE BhTimeout
  BY <1>7 DEF BhTimeout
<1>8. CASE PollTake
  BY <1>8 DEF PollTake
<1>9. CASE PollEmpty
  BY <1>9 DEF PollEmpty, OutRunning
<1>10. CASE Process
  BY <1>10 DEF Process
<1>11. CASE AckAndFree
  <2>1. Last(handled) = Len(handled) /\ Len(handled) \in (1 .. Len(ack_en)) \ freed
    BY <1>11 DEF AckAndFree, Last, InOrder, Taken
  <2>2. freed' = freed \cup {Len(handled)}
        /\ UNCHANGED <<ack_en, pev, ppc, crossed, misread, early>>
    BY <1>11, <2>1 DEF AckAndFree
  <2>3. \A q \in Posters : Owed(q)' <=> Owed(q)
    BY <2>2
  <2>4. CASE ~ack_en[Len(handled)]
    BY <1>11, <2>1, <2>2, <2>3, <2>4 DEF AckAndFree, WaitAcked
  <2>5. CASE ack_en[Len(handled)]
    <3>1. event_ack' = event_ack + 1
      BY <1>11, <2>1, <2>5 DEF AckAndFree, WaitAcked
    <3>2. SUFFICES ASSUME ~crossed, ~misread PROVE AckOwners'
      BY <2>2
    <3>3. PICK r \in Posters : Owed(r) /\ pev[r] = Len(handled)
      BY <2>1, <2>5, <3>2
    <3>4. event_ack > 0 => \E p \in Posters : p # r /\ Owed(p)
      BY <2>1, <3>2, <3>3
    <3>5. QED
      BY <2>2, <2>3, <3>1, <3>2, <3>3, <3>4
  <2>6. QED
    BY <2>4, <2>5
<1>12. CASE CheckTerm
  BY <1>12 DEF CheckTerm
<1>13. CASE Destroy
  BY <1>13 DEF Destroy, Wakeup
<1>14. CASE UNCHANGED vars
  BY <1>14 DEF vars
<1>15. QED
  BY <1>1, <1>2, <1>3, <1>4, <1>5, <1>6, <1>7, <1>8, <1>9, <1>10, <1>11,
     <1>12, <1>13, <1>14
  DEF Next, Poster, Bh

\* An empty queue, posters that do nothing, a thread that has not started.
LEMMA EventInit == Init => EventInv
<1> SUFFICES ASSUME Init PROVE EventInv
  OBVIOUS
<1>1. FlagsOK
  BY Zenon DEF Init, FlagsOK
<1>2. DataOK /\ InOrder /\ FreedNext /\ PosterEvents
  BY PostersAssumption, EmptySeq
  DEF Init, DataOK, InOrder, FreedNext, PosterEvents, Taken, Events
<1>3. AckOwners
  BY EmptySeq DEF Init, AckOwners, Owed
<1>4. QED
  BY <1>1, <1>2, <1>3 DEF EventInv, QueueInv

\* Every step keeps the invariant.
LEMMA EventStep == EventInv /\ [Next]_vars => EventInv'
  BY FlagsStep, OrderStep, OwnersStep DEF EventInv, QueueInv

\* The invariant holds in every reachable state.
THEOREM EventCorrect == Spec => []EventInv
<1>1. QED
  BY EventInit, EventStep, PTL DEF Spec

-----------------------------------------------------------------------------
(* The properties of WpaEvent.                                              *)

\* Every variable of the posters and of the event thread keeps its type.
THEOREM TypeCorrect == Spec => []TypeOK
<1>1. EventInv => TypeOK
  BY DEF EventInv, QueueInv, FlagsOK, DataOK, TypeOK
<1>2. QED
  BY <1>1, EventCorrect, PTL

\* A poster that comes back from atbmwifi_wpa_event_queue before its event was
\* handled took another poster's acknowledgement or read ack_en from a freed
\* event; nothing else can wake it, however many posters there are.
THEOREM OwnAck == Spec => []AckIsOwn
<1>1. EventInv => AckIsOwn
  BY DEF EventInv, QueueInv, FlagsOK, AckOwners, AckIsOwn
<1>2. QED
  BY <1>1, EventCorrect, PTL

-----------------------------------------------------------------------------
(* The queue implements EventFifo.                                          *)

\* A sequence is its first element and the rest ...
LEMMA FirstAndRest ==
    ASSUME NEW S, NEW s \in Seq(S), s # <<>>
    PROVE  s = <<Head(s)>> \o Tail(s)
<1>1. Head(s) \in S /\ Tail(s) \in Seq(S) /\ <<Head(s)>> \in Seq(S)
  BY HeadTailProperties
<1>2. /\ <<Head(s)>> \o Tail(s) \in Seq(S)
      /\ Len(<<Head(s)>> \o Tail(s)) = 1 + Len(Tail(s))
      /\ \A i \in 1 .. 1 + Len(Tail(s)) :
           (<<Head(s)>> \o Tail(s))[i] = IF i <= 1 THEN <<Head(s)>>[i] ELSE Tail(s)[i - 1]
  BY <1>1, ConcatProperties
<1>3. Len(s) = 1 + Len(Tail(s)) /\ \A i \in 1 .. Len(Tail(s)) : Tail(s)[i] = s[i + 1]
  BY HeadTailProperties, LenProperties
<1>4. \A i \in 1 .. Len(s) : s[i] = (<<Head(s)>> \o Tail(s))[i]
  <2>1. TAKE i \in 1 .. Len(s)
  <2>2. CASE i = 1
    BY <1>2, <1>3, <2>2
  <2>3. CASE i # 1
    <3>1. i - 1 \in 1 .. Len(Tail(s))
      BY <1>3, <2>3
    <3>2. Tail(s)[i - 1] = s[i - 1 + 1]
      BY <1>3, <3>1
    <3>3. QED
      BY <1>1, <1>2, <1>3, <2>3, <3>2
  <2>4. QED
    BY <2>2, <2>3
<1>5. QED
  BY <1>2, <1>3, <1>4, SeqEqual

\* ... and these are found again when it is put together from them.
LEMMA OneAndRest ==
    ASSUME NEW S, NEW x \in S, NEW s \in Seq(S)
    PROVE  <<x>> \o s # <<>> /\ Head(<<x>> \o s) = x /\ Tail(<<x>> \o s) = s
<1> DEFINE c == <<x>> \o s
<1>1. /\ c \in Seq(S) /\ Len(c) = 1 + Len(s)
      /\ \A i \in 1 .. 1 + Len(s) : c[i] = IF i <= 1 THEN x ELSE s[i - 1]
  BY ConcatProperties
<1>2. c # <<>> /\ Head(c) = x
  BY <1>1
<1>3. /\ Tail(c) \in Seq(S) /\ Len(Tail(c)) = Len(s)
      /\ \A i \in 1 .. Len(s) : Tail(c)[i] = c[i + 1]
  BY <1>1, <1>2, HeadTailProperties, LenProperties
<1>4. \A i \in 1 .. Len(s) : Tail(c)[i] = s[i]
  <2>1. TAKE i \in 1 .. Len(s)
  <2>2. c[i + 1] = s[i + 1 - 1]
    BY <1>1
  <2>3. QED
    BY <1>3, <2>2
<1>5. QED
  BY <1>2, <1>3, <1>4, SeqEqual

\* The abstract queue is the event in process and the pending ones.
FifoQueue == (IF current = None THEN <<>> ELSE <<current>>) \o pending_list

\* Each step of a poster or of the event thread is a step of the abstract
\* queue or leaves it alone: Post posts, Process handles the oldest event,
\* CheckTerm may stop.
LEMMA FifoStep == QueueInv /\ [Next]_vars => [Fifo!Next]_(Fifo!vars)
<1> SUFFICES ASSUME QueueInv, [Next]_vars PROVE [Fifo!Next]_(Fifo!vars)
  OBVIOUS
<1> USE PostersAssumption DEF QueueInv, DataOK, posters, bh, history, stopping
<1> DEFINE Same == UNCHANGED <<FifoQueue, handled>> /\ (bhpc = "exit" <=> bhpc' = "exit")
<1>0. Same => UNCHANGED Fifo!vars
  BY DEF Fifo!vars, FifoQueue
<1>1. CASE \E p \in Posters : \E ack \in BOOLEAN : Post(p, ack)
  <2>1. PICK p \in Posters, ack \in BOOLEAN : Post(p, ack)
    BY <1>1
  <2> DEFINE e == Len(ack_en) + 1
  <2>2. e \in Events
    BY <2>1 DEF Post, Events
  <2>3. e \notin ToSet(FifoQueue) \cup ToSet(handled)
    <3>0. /\ Len(pending_list) \in Nat /\ Taken \in Nat /\ Taken + Len(pending_list) < e
          /\ \A i \in 1 .. Len(pending_list) : pending_list[i] = Taken + i
          /\ current # None => current = Taken
      BY LenProperties DEF InOrder, Taken
    <3>1. \A i \in DOMAIN handled : handled[i] # e
      BY SMTT(30) DEF InOrder, Taken
    <3>2. \A i \in DOMAIN FifoQueue : FifoQueue[i] # e
      <4>1. CASE current = None
        <5>1. FifoQueue = pending_list
          BY <4>1, ConcatEmptySeq DEF FifoQueue
        <5>2. DOMAIN pending_list = 1 .. Len(pending_list)
          BY LenProperties
        <5> HIDE DEF Taken
        <5>3. QED
          BY <3>0, <5>1, <5>2
      <4>2. CASE current # None
        <5>1. FifoQueue = <<current>> \o pending_list /\ <<current>> \in Seq(Events)
          BY <4>2 DEF FifoQueue
        <5>2. /\ DOMAIN FifoQueue = 1 .. Len(pending_list) + 1
              /\ \A i \in 1 .. Len(pending_list) + 1 :
                   FifoQueue[i] = IF i = 1 THEN current ELSE pending_list[i - 1]
          BY <5>1, ConcatProperties, LenProperties
        <5> HIDE DEF Taken
        <5>3. ASSUME NEW i \in DOMAIN FifoQueue PROVE FifoQueue[i] < e
          <6>1. CASE i = 1
            BY <3>0, <4>2, <5>2, <6>1
          <6>2. CASE i # 1
            <7>1. i - 1 \in 1 .. Len(pending_list) /\ FifoQueue[i] = pending_list[i - 1]
              BY <3>0, <5>2, <6>2
            <7>2. pending_list[i - 1] = Taken + (i - 1)
              BY <3>0, <7>1
            <7>3. QED
              BY <3>0, <7>1, <7>2
          <6>3. QED
            BY <6>1, <6>2
        <5>4. QED
          BY <5>3, <2>2 DEF Events
      <4>3. QED
        BY <4>1, <4>2
    <3>3. QED
      BY <3>1, <3>2 DEF ToSet
  <2>4. FifoQueue' = Append(FifoQueue, e)
    <3>1. pending_list' = Append(pending_list, e) /\ UNCHANGED current
      BY <2>1 DEF Post
    <3>2. CASE current = None
      BY <2>2, <3>1, <3>2, ConcatEmptySeq, AppendProperties DEF FifoQueue
    <3>3. CASE current # None
      <4>1. <<current>> \in Seq(Events) /\ <<e>> \in Seq(Events)
        BY <2>2, <3>3
      <4>2. (<<current>> \o pending_list) \o <<e>> = <<current>> \o (pending_list \o <<e>>)
        BY <4>1, ConcatAssociative
      <4>3. \A s \in Seq(Events) : Append(s, e) = s \o <<e>>
        BY <2>2, AppendIsConcat
      <4>4. <<current>> \o pending_list \in Seq(Events)
        BY <4>1, ConcatProperties
      <4>5. QED
        BY <3>1, <3>3, <4>2, <4>3, <4>4 DEF FifoQueue
    <3>4. QED
      BY <3>2, <3>3
  <2>5. UNCHANGED <<handled, bhpc>>
    BY <2>1 DEF Post
  <2>6. Fifo!Post(e)
    <3> HIDE DEF QueueInv, DataOK
    <3>1. UNCHANGED (bhpc = "exit")
      BY <2>5
    <3>2. QED
      BY <2>3, <2>4, <2>5, <3>1 DEF Fifo!Post, Fifo!ToSet, ToSet, FifoQueue
  <2>7. QED
    BY <2>2, <2>6 DEF Fifo!Next
<1>2. CASE PollTake
  <2>1. current = None /\ current' = Head(pending_list) /\ current' \in Events
    BY <1>2 DEF PollTake, InOrder
  <2>2. pending_list = <<Head(pending_list)>> \o Tail(pending_list)
    BY <1>2, FirstAndRest DEF PollTake
  <2>3. Same
    BY <1>2, <2>1, <2>2, ConcatEmptySeq DEF PollTake, FifoQueue, Events
  <2>4. QED
    BY <2>3, <1>0
<1>3. CASE Process
  <2>1. current \in Events /\ current' = None /\ bhpc # "exit" /\ bhpc' # "exit"
        /\ pending_list' = pending_list /\ handled' = Append(handled, current)
    BY <1>3, LenProperties DEF Process, InOrder, Taken, Events
  <2>2. FifoQueue = <<current>> \o pending_list /\ FifoQueue' = pending_list
    BY <2>1, ConcatEmptySeq DEF FifoQueue, Events
  <2>3. FifoQueue # <<>> /\ Head(FifoQueue) = current /\ Tail(FifoQueue) = pending_list
    BY <2>1, <2>2, OneAndRest
  <2>4. Fifo!Handle
    BY <2>1, <2>2, <2>3 DEF Fifo!Handle, FifoQueue
  <2>5. QED
    BY <2>4 DEF Fifo!Next
<1>4. CASE CheckTerm
  <2>1. UNCHANGED <<FifoQueue, handled>> /\ bhpc # "exit"
    BY <1>4 DEF CheckTerm, FifoQueue
  <2>2. CASE bhpc' = "exit"
    BY <2>1, <2>2 DEF Fifo!Stop, Fifo!Next, FifoQueue
  <2>3. CASE bhpc' # "exit"
    BY <1>0, <2>1, <2>3
  <2>4. QED
    BY <2>2, <2>3
<1>5. CASE \E p \in Posters : Poster(p)
  BY <1>0, <1>5 DEF Poster, BhWakeup, ReadAck, WaitAck, FifoQueue
<1>6. CASE BhStart \/ BhWake \/ BhTimeout \/ PollEmpty \/ AckAndFree \/ Destroy
  BY <1>0, <1>6 DEF BhStart, BhWake, BhTimeout, PollEmpty, AckAndFree, Destroy, FifoQueue
<1>7. CASE UNCHANGED vars
  BY <1>0, <1>7 DEF vars, FifoQueue
<1>8. QED
  BY <1>1, <1>2, <1>3, <1>4, <1>5, <1>6, <1>7 DEF Next, Bh

\* Without its fairness, WpaEvent implements EventFifo without its: no event
\* is lost, repeated or overtaken, whoever posts and however the thread sleeps
\* and wakes.
THEOREM ImplementsFifoSafety == Spec => Fifo!Init /\ [][Fifo!Next]_(Fifo!vars)
<1>1. Init => Fifo!Init
  BY ConcatEmptySeq, EmptySeq DEF Init, Fifo!Init
<1>2. EventInv => QueueInv
  BY DEF EventInv
<1>3. QED
  BY <1>1, <1>2, FifoStep, EventCorrect, PTL DEF Spec

=============================================================================
