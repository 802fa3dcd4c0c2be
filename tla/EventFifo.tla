------------------------------ MODULE EventFifo ------------------------------
(***************************************************************************)
(* What the supplicant's event queue promises: every event is handled,     *)
(* once, in the order of posting, until the queue is stopped.              *)
(***************************************************************************)
EXTENDS Sequences, SequencesExt

CONSTANT Events

VARIABLES queue, handled, stopped

vars == <<queue, handled, stopped>>

Init == queue = <<>> /\ handled = <<>> /\ stopped = FALSE

Post(e) ==
    /\ e \notin ToSet(queue) \cup ToSet(handled)
    /\ queue' = Append(queue, e)
    /\ UNCHANGED <<handled, stopped>>

Handle ==
    /\ queue # <<>> /\ ~stopped
    /\ handled' = Append(handled, Head(queue))
    /\ queue' = Tail(queue)
    /\ UNCHANGED stopped

Stop == stopped' = TRUE /\ UNCHANGED <<queue, handled>>

Next == (\E e \in Events : Post(e)) \/ Handle \/ Stop

Spec == Init /\ [][Next]_vars /\ WF_vars(Handle)
=============================================================================
