----------------------------- MODULE EloopTimer ------------------------------
(***************************************************************************)
(* The driver's timer service (hal/atbm_timer.c): a table of timers, each  *)
(* on the free, the pending or the ready list.  The OS timer's callback    *)
(* posts the entry to a message queue; the timer task takes the message,   *)
(* moves the entry to the ready list and runs its function with the lock   *)
(* released.  Any thread, the function included, may register and cancel.  *)
(* Each registration has a number, for the properties; a function with its *)
(* two arguments is a Handler.                                             *)
(***************************************************************************)
EXTENDS Integers, Sequences, FiniteSets, SequencesExt

CONSTANTS
    Timers,         \* the entries of timer_table
    QueueSize,      \* room in atbm_timer_msgq: for every entry
    Handlers,
    MaxRegs,        \* bound: registrations ever made
    None

ASSUME TimersAssumption ==
    /\ IsFiniteSet(Timers) /\ MaxRegs \in Nat
    /\ QueueSize \in Nat \ {0} /\ QueueSize >= Cardinality(Timers)
    /\ None \notin Timers \cup Handlers

VARIABLES
    free, pending, ready,   \* the three lists
    ent,                    \* of an entry: its handler, cancled, registration number
    starting,               \* registrations between the list move and atbm_StartTimer
    armed,                  \* OS timers that run: entry -> registration, or 0
    msgq,                   \* messages [timer, reg]: the code sends the entry only
    running,                \* the entry whose function the task runs
    regs,                   \* registrations made
    state,                  \* of a registration: "waiting", "expired", "cancelled", "done"
    reused,                 \* history: an entry was handed out with something of it left
    wrongRun, lostMsg       \* history: see the properties

lists   == <<free, pending, ready>>
history == <<reused, wrongRun, lostMsg>>
vars    == <<lists, ent, starting, armed, msgq, running, regs, state, history>>

Regs == 1 .. MaxRegs
Without(s, t) == RemoveFirst(s, t)

\* The entries of a part of the list s, in their order.
InOrderOf(part, s) ==
    {q \in SetToSeqs(part) : \A i, j \in 1 .. Len(q) :
        i < j => \E m, n \in 1 .. Len(s) : m < n /\ s[m] = q[i] /\ s[n] = q[j]}

\* Mutant: the entry is added to the other list and stays on its own.
AddTail(t, to) ==
    LET on(name, s) == IF name = to THEN Append(s, t) ELSE s
    IN free' = on("free", free) /\ pending' = on("pending", pending) /\ ready' = on("ready", ready)

\* atbm_list_move_tail: off whatever list it is on, to the end of another.
MoveTail(t, to) ==
    LET off(name, s) == IF name = to THEN Append(Without(s, t), t) ELSE Without(s, t)
    IN /\ free' = off("free", free)
       /\ pending' = off("pending", pending)
       /\ ready' = off("ready", ready)

Init ==
    /\ free = SetToSeq(Timers) /\ pending = <<>> /\ ready = <<>>
    /\ ent = [t \in Timers |-> [fun |-> None, cancled |-> FALSE, reg |-> 0]]
    /\ starting = {} /\ armed = [t \in Timers |-> 0]
    /\ msgq = <<>> /\ running = None
    /\ regs = 0 /\ state = [r \in Regs |-> "none"]
    /\ reused = FALSE /\ wrongRun = FALSE /\ lostMsg = FALSE

\* Something of an earlier use of the entry is still about: a message, a
\* running OS timer, a registration not started yet, or its function.
Left(t) ==
    \/ \E k \in 1 .. Len(msgq) : msgq[k].timer = t
    \/ armed[t] # 0
    \/ \E s \in starting : s.timer = t
    \/ running = t

\* The entry for its new use.
\* Mutant: the mark of an earlier cancel is kept.
Marked(t, h) == [fun |-> h, cancled |-> ent[t].cancled, reg |-> regs + 1]
Fresh(t, h)  == [fun |-> h, cancled |-> FALSE, reg |-> regs + 1]

\* atbmwifi_eloop_register_timeout: take the first free entry (an empty list
\* is an error, nothing changes) ...
Register(h) ==
    /\ free # <<>> /\ regs < MaxRegs
    /\ LET t == Head(free)
       IN /\ ent' = [ent EXCEPT ![t] = Fresh(t, h)]
          /\ MoveTail(t, "pending")
          /\ starting' = starting \cup {[timer |-> t, reg |-> regs + 1]}
          /\ reused' = (reused \/ Left(t))
    /\ regs' = regs + 1
    /\ state' = [state EXCEPT ![regs + 1] = "waiting"]
    /\ UNCHANGED <<armed, msgq, running, wrongRun, lostMsg>>

\* ... and start its OS timer, after the lock was released.
Start(s) ==
    /\ s \in starting
    /\ starting' = starting \ {s}
    /\ armed' = [armed EXCEPT ![s.timer] = s.reg]
    /\ UNCHANGED <<lists, ent, msgq, running, regs, state, history>>

\* Mutant: the entry is not marked.
Unmarked(t) == ent[t]
Cancled(t)  == [ent[t] EXCEPT !.cancled = TRUE]

\* atbmwifi_eloop_cancel_timeout: all pending entries of the handler, or if
\* there is none all ready ones.
Cancel(h) ==
    LET Of(s) == {t \in ToSet(s) : ent[t].fun = h}
        hit   == IF Of(pending) # {} THEN Of(pending) ELSE Of(ready)
    IN /\ hit # {}
       /\ \E cut \in InOrderOf(hit, pending \o ready) : free' = free \o cut
       /\ pending' \in InOrderOf(ToSet(pending) \ hit, pending)
       /\ ready' \in InOrderOf(ToSet(ready) \ hit, ready)
       /\ ent' = [t \in Timers |-> IF t \in hit THEN Cancled(t) ELSE ent[t]]
       /\ armed' = [t \in Timers |-> IF t \in hit THEN 0 ELSE armed[t]]
       /\ state' = [r \in Regs |-> IF \E t \in hit : ent[t].reg = r /\ running # t
                                     THEN "cancelled" ELSE state[r]]
       /\ UNCHANGED <<starting, msgq, running, regs, history>>

\* Mutant: off by one.
RoomForOneMore == Len(msgq) <= QueueSize
Room == Len(msgq) < QueueSize

\* eloop_timeout_func, the OS timer's callback: send without waiting; a full
\* queue loses the message.
Expire(t) ==
    /\ armed[t] # 0
    /\ armed' = [armed EXCEPT ![t] = 0]
    /\ IF Room
         THEN msgq' = Append(msgq, [timer |-> t, reg |-> armed[t]]) /\ UNCHANGED lostMsg
         ELSE lostMsg' = TRUE /\ UNCHANGED msgq
    /\ state' = IF state[armed[t]] = "waiting"
                  THEN [state EXCEPT ![armed[t]] = "expired"] ELSE state
    /\ UNCHANGED <<lists, ent, starting, running, regs, reused, wrongRun>>

\* atbm_timer_task gets a message.  A message of a cancelled entry only takes
\* the mark back.
TaskRecv ==
    /\ msgq # <<>> /\ running = None /\ ready = <<>>
    /\ msgq' = Tail(msgq)
    /\ LET t == Head(msgq).timer
       IN IF ent[t].cancled
            THEN ent' = [ent EXCEPT ![t].cancled = FALSE] /\ UNCHANGED lists
            ELSE MoveTail(t, "ready") /\ UNCHANGED ent
    /\ UNCHANGED <<starting, armed, running, regs, state, history>>

\* eloop_timeout_func_poll: run the function of the first ready entry (one
\* marked as cancelled loses the mark and runs in the next round of the loop,
\* under the same lock); it is the wrong moment unless this registration has
\* expired and was not cancelled or run before.
PollRun ==
    /\ ready # <<>> /\ running = None
    /\ LET t == Head(ready)
           r == ent[t].reg
       IN /\ running' = t
          /\ ent' = [ent EXCEPT ![t].cancled = FALSE]
          /\ wrongRun' = (wrongRun \/ state[r] # "expired")
          /\ state' = [state EXCEPT ![r] = "done"]
    /\ UNCHANGED <<lists, starting, armed, msgq, regs, reused, lostMsg>>

\* The function has returned: the entry goes to the free list, wherever it is.
PollDone ==
    /\ running # None
    /\ MoveTail(running, "free")
    /\ running' = None
    /\ UNCHANGED <<ent, starting, armed, msgq, regs, state, history>>

Task == TaskRecv \/ PollRun \/ PollDone

Next ==
    \/ \E h \in Handlers : Register(h) \/ Cancel(h)
    \/ \E s \in starting : Start(s)
    \/ \E t \in Timers : Expire(t)
    \/ Task

Spec == Init /\ [][Next]_vars

\* OS timers expire, a started registration goes on, the task runs.
FairSpec ==
    /\ Spec
    /\ WF_vars(Task)
    /\ \A t \in Timers : WF_vars(Expire(t))
    /\ WF_vars(\E s \in starting : Start(s))

-----------------------------------------------------------------------------
(* Properties.                                                              *)

TypeOK ==
    /\ {free, pending, ready} \subseteq Seq(Timers)
    /\ ent \in [Timers -> [fun : Handlers \cup {None}, cancled : BOOLEAN, reg : 0 .. MaxRegs]]
    /\ starting \subseteq [timer : Timers, reg : Regs]
    /\ armed \in [Timers -> 0 .. MaxRegs]
    /\ msgq \in Seq([timer : Timers, reg : Regs]) /\ Len(msgq) <= QueueSize
    /\ running \in Timers \cup {None} /\ regs \in 0 .. MaxRegs
    /\ state \in [Regs -> {"none", "waiting", "expired", "cancelled", "done"}]
    /\ {reused, wrongRun, lostMsg} \subseteq BOOLEAN

\* Every entry is on exactly one list, whoever moves it: registration, cancel,
\* the task, and the end of a function whose entry was cancelled or taken by
\* another registration meanwhile.
OneList ==
    LET all == free \o pending \o ready
    IN Len(all) = Cardinality(Timers) /\ ToSet(all) = Timers

\* A function runs only for a registration that expired, once, and never after
\* it was cancelled, even if the message was on the way.  The service has no
\* such promise once an entry is handed out with something of its earlier use
\* left: the message names the entry, not the registration.  With the same
\* exception the message queue, as long as the table, never loses an expiry.
RunsAsRegistered == wrongRun \/ lostMsg => reused

\* A registration is served: it runs or is cancelled.
Served ==
    \A r \in Regs : (state[r] = "waiting") ~> (state[r] \in {"cancelled", "done"} \/ reused)
=============================================================================
