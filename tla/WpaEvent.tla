------------------------------ MODULE WpaEvent -------------------------------
(***************************************************************************)
(* The supplicant's event queue (net/wpa/wpa_event.c).  Any thread posts   *)
(* an event and wakes the event thread unless a flag, read without the     *)
(* lock, says that it is running; a poster that wants an acknowledgement   *)
(* waits on one semaphore that all posters share.                          *)
(***************************************************************************)
EXTENDS Integers, Sequences, SequencesExt

CONSTANTS
    Posters,
    MaxEvents,      \* bound: events ever posted
    None

ASSUME PostersAssumption == MaxEvents \in Nat /\ None \notin 1 .. MaxEvents

Events == 1 .. MaxEvents

VARIABLES
    pending_list,           \* atbm_wpa_event_pending_list, by number
    ack_en,                 \* of each event posted: does its poster want an ack
    ppc, pev,               \* of a poster: where it is, its event
    bhpc, current,          \* the event thread: where it is, its event
    runing,                 \* atbm_wpa_event_runing
    wake, event_ack,        \* the two semaphores
    wpa_bh_term,
    handled, freed,         \* events processed, events freed
    misread, crossed, early, stop, lateStart    \* history: see the properties

posters == <<ack_en, ppc, pev>>
bh      == <<bhpc, current, runing, handled, freed>>
history == <<misread, crossed, early>>
stopping == <<wpa_bh_term, stop, lateStart>>
vars    == <<pending_list, posters, bh, wake, event_ack, stopping, history>>

Init ==
    /\ pending_list = <<>> /\ ack_en = <<>>
    /\ ppc = [p \in Posters |-> "idle"] /\ pev = [p \in Posters |-> None]
    /\ bhpc = "start" /\ current = None /\ runing = FALSE
    /\ wake = 0 /\ event_ack = 0 /\ wpa_bh_term = FALSE
    /\ handled = <<>> /\ freed = {}
    /\ misread = FALSE /\ crossed = FALSE /\ early = FALSE /\ stop = FALSE /\ lateStart = FALSE

-----------------------------------------------------------------------------
(* Posting: atbmwifi_wpa_event_queue.                                       *)

\* The event is added to the list under the lock ...
Post(p, ack) ==
    /\ ppc[p] = "idle" /\ Len(ack_en) < MaxEvents
    /\ LET e == Len(ack_en) + 1
       IN /\ ack_en' = Append(ack_en, ack)
          /\ pending_list' = Append(pending_list, e)
          /\ pev' = [pev EXCEPT ![p] = e]
    /\ ppc' = [ppc EXCEPT ![p] = "wakeup"]
    /\ UNCHANGED <<bh, wake, event_ack, stopping, history>>

\* ... the thread is woken if it does not run ...
BhWakeup(p) ==
    /\ ppc[p] = "wakeup"
    /\ wake' = IF runing THEN wake ELSE wake + 1
    /\ ppc' = [ppc EXCEPT ![p] = "readAck"]
    /\ UNCHANGED <<pending_list, ack_en, pev, bh, event_ack, stopping, history>>

\* ... and ack_en is read from the event, which may have been freed: then it
\* is any value.
ReadAck(p) ==
    /\ ppc[p] = "readAck"
    /\ \E wants \in BOOLEAN :
         /\ pev[p] \notin freed => wants = ack_en[pev[p]]
         /\ misread' = (misread \/ wants # ack_en[pev[p]])
         /\ ppc' = [ppc EXCEPT ![p] = IF wants THEN "waitAck" ELSE "idle"]
    /\ UNCHANGED <<pending_list, ack_en, pev, bh, wake, event_ack, stopping, crossed, early>>

\* Mutant: the wait does not wait.
AckAnyway == TRUE
AckPosted == event_ack > 0

\* The wait has no time-out.
WaitAck(p) ==
    /\ ppc[p] = "waitAck" /\ AckPosted
    /\ event_ack' = event_ack - 1
    /\ ppc' = [ppc EXCEPT ![p] = "idle"]
    /\ early' = (early \/ pev[p] \notin ToSet(handled))
    /\ crossed' = (crossed \/ \E q \in Posters \ {p} :
                        ppc[q] # "idle" /\ ack_en[pev[q]])
    /\ UNCHANGED <<pending_list, ack_en, pev, bh, wake, stopping, misread>>

-----------------------------------------------------------------------------
(* The event thread: atbmwifi_wpa_event_bh.                                 *)

BhStart ==
    /\ bhpc = "start"
    /\ bhpc' = "sleep"
    /\ wpa_bh_term' = FALSE
    /\ lateStart' = stop
    /\ UNCHANGED <<pending_list, posters, current, runing, handled, freed, wake, event_ack,
                   stop, history>>

BhWake ==
    /\ bhpc = "sleep" /\ wake > 0
    /\ wake' = wake - 1
    /\ bhpc' = "poll"
    /\ UNCHANGED <<pending_list, posters, current, runing, handled, freed, event_ack, stopping,
                   history>>

\* After 100 s it looks without being woken.
BhTimeout ==
    /\ bhpc = "sleep"
    /\ bhpc' = "poll"
    /\ UNCHANGED <<pending_list, posters, current, runing, handled, freed, wake, event_ack,
                   stopping, history>>

\* Under the lock: take the next event, or find none and clear the flag.
\* Mutant: the event is acknowledged when it is taken.
PollTakeAck ==
    /\ bhpc = "poll" /\ pending_list # <<>>
    /\ runing' = TRUE
    /\ current' = Head(pending_list)
    /\ pending_list' = Tail(pending_list)
    /\ event_ack' = IF ack_en[Head(pending_list)] THEN event_ack + 1 ELSE event_ack
    /\ bhpc' = "process"
    /\ UNCHANGED <<posters, handled, freed, wake, stopping, history>>
PollTake ==
    /\ bhpc = "poll" /\ pending_list # <<>>
    /\ runing' = TRUE
    /\ current' = Head(pending_list)
    /\ pending_list' = Tail(pending_list)
    /\ bhpc' = "process"
    /\ UNCHANGED <<posters, handled, freed, wake, event_ack, stopping, history>>

\* Mutant: the flag stays.
StillRunning == UNCHANGED runing
OutRunning == runing' = FALSE

PollEmpty ==
    /\ bhpc = "poll" /\ pending_list = <<>>
    /\ OutRunning
    /\ bhpc' = "check"
    /\ UNCHANGED <<pending_list, posters, current, handled, freed, wake, event_ack, stopping,
                   history>>

\* Without the lock: process the event ...
Process ==
    /\ bhpc = "process"
    /\ handled' = Append(handled, current)
    /\ current' = None
    /\ bhpc' = "ack"
    /\ UNCHANGED <<pending_list, posters, runing, freed, wake, event_ack, stopping, history>>

\* Mutant: nobody is acknowledged.
WaitNoAck == event_ack
WaitAcked == IF ack_en[Last(handled)] THEN event_ack + 1 ELSE event_ack

\* ... acknowledge it and free it.
AckAndFree ==
    /\ bhpc = "ack"
    /\ event_ack' = WaitAcked
    /\ freed' = freed \cup {Last(handled)}
    /\ bhpc' = "poll"
    /\ UNCHANGED <<pending_list, posters, current, runing, handled, wake, stopping, history>>

CheckTerm ==
    /\ bhpc = "check"
    /\ bhpc' = IF wpa_bh_term THEN "exit" ELSE "sleep"
    /\ UNCHANGED <<pending_list, posters, current, runing, handled, freed, wake, event_ack,
                   stopping, history>>

\* Mutant: the thread is not woken.
NoWakeup == wake
Wakeup == wake + 1

\* atbmwifi_wpa_event_destory.
Destroy ==
    /\ ~stop
    /\ stop' = TRUE
    /\ wpa_bh_term' = TRUE
    /\ wake' = Wakeup
    /\ UNCHANGED <<pending_list, posters, bh, event_ack, lateStart, history>>

Poster(p) == BhWakeup(p) \/ ReadAck(p) \/ WaitAck(p)
Bh == BhStart \/ BhWake \/ PollTake \/ PollEmpty \/ Process \/ AckAndFree \/ CheckTerm

Next ==
    \/ \E p \in Posters : (\E ack \in BOOLEAN : Post(p, ack)) \/ Poster(p)
    \/ Bh \/ BhTimeout \/ Destroy

\* The thread runs and a poster goes on; nothing relies on the 100 s.
Spec == Init /\ [][Next]_vars /\ WF_vars(Bh) /\ \A p \in Posters : WF_vars(Poster(p))

-----------------------------------------------------------------------------
(* Properties.                                                              *)

TypeOK ==
    /\ {pending_list, handled} \subseteq Seq(Events) /\ ack_en \in Seq(BOOLEAN)
    /\ ppc \in [Posters -> {"idle", "wakeup", "readAck", "waitAck"}]
    /\ pev \in [Posters -> Events \cup {None}]
    /\ bhpc \in {"start", "sleep", "poll", "process", "ack", "check", "exit"}
    /\ current \in Events \cup {None} /\ freed \subseteq Events
    /\ wake \in Nat /\ event_ack \in Nat
    /\ {runing, wpa_bh_term, misread, crossed, early, stop, lateStart} \subseteq BOOLEAN

Fifo == INSTANCE EventFifo
    WITH queue   <- (IF current = None THEN <<>> ELSE <<current>>) \o pending_list,
         stopped <- bhpc = "exit"

\* Every event is handled once, in order, and none is left behind because its
\* poster read the flag just before the thread went to sleep.
ImplementsFifo == Fifo!Spec

\* A poster that waits for the acknowledgement returns after its own event was
\* handled, unless acknowledgements of two posters crossed on the shared
\* semaphore or ack_en was read from a freed event.
AckIsOwn == early => crossed \/ misread

\* A poster returns, unless it waits because of such a misread, or the thread
\* ended.
PosterReturns ==
    \A p \in Posters : (ppc[p] # "idle") ~> (ppc[p] = "idle" \/ misread \/ bhpc = "exit")

\* Destroying the queue ends the thread, unless the thread first ran after
\* that: it then clears the request and sleeps on.
DestroyEnds == stop ~> (bhpc = "exit" \/ lateStart)
=============================================================================
