------------------------------ MODULE RxReorder ------------------------------
(***************************************************************************)
(* The receive reorder buffer of one link and TID (hal/atbm_txrx.c,        *)
(* struct atbm_ba_tid_params).  Three threads share it under one mutex:    *)
(* the receive thread (data frames, BAR, ADDBA, DELBA, one after another), *)
(* the timer task (atbm_reorder_pkg_timeout) and a thread that resets the  *)
(* link (atbm_reorder_func_reset).  Each tests tid_en before it takes the  *)
(* mutex, and both resets take it twice.                                   *)
(*                                                                         *)
(* A frame is the peer's own count of frames; on the air it has that count *)
(* modulo SeqSpace.  The peer sends frames of its window, again if it likes, *)
(* and may give up frames; what is not received is a frame not taken.      *)
(* frame_rx_time is modelled by the age of the mark in ticks.              *)
(***************************************************************************)
EXTENDS Integers, Sequences, FiniteSets, FiniteSetsExt

CONSTANTS
    SeqSpace,       \* sequence numbers (the code: 4096)
    BuffLen,        \* BUFF_STORED_LEN (64), also the window of every agreement
    Retry,          \* THE_RETRY_PKG_INEDX (0x800)
    Timeout,        \* tid_params->timeout, in ticks
    FirstSeq,       \* sequence number of frame 0
    MaxFrame,       \* bound: frames the peer has
    MaxLoss,        \* bound: a frame is at most this far past the newest received
    MaxAddba,       \* bound: agreements
    MaxReset,       \* bound: resets of the link
    TimerSlots,     \* entries of the eloop service's table (16), for the whole driver
    None

ASSUME WindowAssumption ==
    /\ {SeqSpace, BuffLen} \subseteq Nat \ {0} /\ SeqSpace % BuffLen = 0
    /\ Retry \in BuffLen .. SeqSpace - BuffLen - 1
    /\ Timeout \in Nat \ {0, 1} /\ FirstSeq \in 0 .. SeqSpace - 1
    /\ {MaxFrame, MaxLoss, MaxAddba, MaxReset, TimerSlots} \subseteq Nat
    /\ MaxFrame < SeqSpace /\ None \notin Int

VARIABLES
    tid,            \* tid_en, wind_size, start_seq, skb_reorder_buff, age, skb_buffed
    running,        \* timer_running
    timers,         \* registered timeouts: ticks to go -> how many
    untimed,        \* history: no timer was to be had since frames are buffered
    rx,             \* the receive thread: pc, its frame, start_seq as read before the lock
    task,           \* the timer task: "idle", "entered"
    reset,          \* the resetting thread: "idle", "half"
    addbas, resets, \* how often
    base,           \* the peer's window starts here
    newest, high,   \* history: newest frame received, newest handed up
    jumped,         \* history: a frame went up beside the buffer, or after the agreement's end
    raced,          \* history: a frame was taken between the halves of a reset
    disorder,       \* history: in this agreement a frame went up behind a later one
    freedNew        \* history: in an agreement the newest frame so far was freed as an old one

history == <<newest, high, jumped, raced, disorder, freedNew>>
vars == <<tid, running, timers, untimed, rx, task, reset, addbas, resets, base, history>>

Frames == 0 .. MaxFrame
Slots  == 0 .. BuffLen - 1
Half   == Timeout \div 2
MaxAge == Timeout + Half + 1    \* ages are told apart up to here
Idle   == [pc |-> "idle", frame |-> None, seen |-> 0]

Sn(f)       == (FirstSeq + f) % SeqSpace
Slot(n)     == n % BuffLen
Dist(a, b)  == (a - b) % SeqSpace

\* Mutant: the sequence number is not masked.
AddUnmasked(n, k) == n + k
Add(n, k)         == (n + k) % SeqSpace
------------------------------------------------------------------------------
(* The buffer.  An operator takes a tid record and returns the one left     *)
(* behind; what it hands up is in field up, a hole in it as None.           *)

\* k-th slot of the window.
At(t, k) == Slot(t.start + k)

\* atbm_skb_buff_dequeue of the first n slots, start_seq moving along.
\* Mutant: the pointer stays in its slot.
ReleaseKeeping(t, n) ==
    LET gone == {At(t, k) : k \in 0 .. n - 1}
    IN [t EXCEPT !.age    = [i \in Slots |-> IF i \in gone THEN None ELSE @[i]],
                 !.buffed = @ - Cardinality({i \in gone : t.buff[i] # None}),
                 !.start  = Add(@, n)]
Release(t, n) ==
    LET gone == {At(t, k) : k \in 0 .. n - 1}
    IN [t EXCEPT !.buff   = [i \in Slots |-> IF i \in gone THEN None ELSE @[i]],
                 !.age    = [i \in Slots |-> IF i \in gone THEN None ELSE @[i]],
                 !.buffed = @ - Cardinality({i \in gone : t.buff[i] # None}),
                 !.start  = Add(@, n)]

\* atbm_reorder_skb_forcefree: the first n slots go up, in order.
ForceFree(t, n) ==
    [Release(t, n) EXCEPT !.up = t.up \o [k \in 1 .. n |-> t.buff[At(t, k - 1)]]]

\* How many slots from the start of the window on are in S.
Prefix(t, S) ==
    Max({n \in 0 .. BuffLen : \A k \in 0 .. n - 1 : At(t, k) \in S})

\* atbm_reorder_skb_uplayer: as long as something is buffered, up to a hole.
UpLayer(t) ==
    LET run == Prefix(t, {i \in Slots : t.buff[i] # None})
    IN ForceFree(t, IF run < t.buffed THEN run ELSE t.buffed)

\* atbm_skb_buff_queue marks the slot and, backwards to the start of the
\* window, the slots before it that are not marked yet.
\* Mutant: only the frame's own slot.
MarkedOwn(t, i) == {i}
Marked(t, i) ==
    LET d == (i - t.start) % BuffLen
    IN {At(t, k) : k \in {k \in 0 .. d : \A j \in k .. d : t.age[At(t, j)] = None}}

BuffQueue(t, f) ==
    LET i == Slot(Sn(f))
    IN [t EXCEPT !.buff[i] = f, !.buffed = @ + 1,
                 !.age = [j \in Slots |-> IF j \in Marked(t, i) THEN 0 ELSE @[j]]]

\* Slots the timeout gives up on: marked at least timeout/2 ago.
Expired(t) ==
    LET n == Prefix(t, {i \in Slots : t.age[i] # None /\ t.age[i] >= Half})
    IN IF n < t.wind THEN n ELSE t.wind
------------------------------------------------------------------------------
(* Timers: the code's calls to the eloop service, modelled by their effect. *)

NoTimers     == [d \in 0 .. Timeout |-> 0]
With(ts, d)  == [ts EXCEPT ![d] = @ + 1]
Left(t)      == LET a == t.age[At(t, 0)]
                IN IF a = None \/ a >= Timeout THEN 0 ELSE Timeout - a

\* The entries in use for this buffer; one stays in use while its function runs.
Armed(ts) == MapThenSumSet(LAMBDA d : ts[d], DOMAIN ts)
               + (IF task = "entered" THEN 1 ELSE 0)

\* atbmwifi_eloop_register_timeout on top of ts, its result ignored: the other
\* buffers and the rest of the driver may hold what is left of the table.
Register(ts, d) ==
    \/ Armed(ts) < TimerSlots /\ timers' = With(ts, d) /\ UNCHANGED untimed
    \/ timers' = ts /\ untimed' = TRUE

\* Nothing is buffered any more: the flag is cleared.
Unset == running' = FALSE /\ untimed' = FALSE

\* What the frame path does with the timer, given start_seq as it was read
\* before the lock.
FrameTimer(t, seen) ==
    IF (~running \/ seen # t.start) /\ t.buffed > 0
      THEN running' = TRUE /\ Register(NoTimers, Left(t))
      ELSE IF t.buffed = 0
        THEN Unset /\ timers' = NoTimers
        ELSE UNCHANGED <<running, timers, untimed>>

\* The BAR path adds a timeout beside the ones there are.
BarTimer(t) ==
    IF (~running \/ tid.start # t.start) /\ t.buffed > 0
      THEN running' = TRUE /\ Register(timers, Timeout)
      ELSE IF t.buffed = 0
        THEN Unset /\ timers' = NoTimers
        ELSE UNCHANGED <<running, timers, untimed>>

\* The frames in s go up, in this order.
HandUp(s) ==
    LET full == {i \in 1 .. Len(s) : s[i] # None}
    IN /\ high' = Max({high} \cup {s[i] : i \in full})
       /\ disorder' = \/ disorder
                      \/ \E i \in full : s[i] <= high
                      \/ \E i, j \in full : i < j /\ s[j] <= s[i]

\* The buffer is left as t, and t.up goes up.
Commit(t) == tid' = [t EXCEPT !.up = <<>>] /\ HandUp(t.up)
------------------------------------------------------------------------------
Init ==
    /\ tid = [en |-> FALSE, wind |-> 0, start |-> 0, buffed |-> 0, up |-> <<>>,
              buff |-> [i \in Slots |-> None], age |-> [i \in Slots |-> None]]
    /\ running = FALSE /\ timers = NoTimers /\ untimed = FALSE
    /\ rx = Idle /\ task = "idle" /\ reset = "idle"
    /\ addbas = 0 /\ resets = 0 /\ base = 0
    /\ newest = -1 /\ high = -1
    /\ jumped = FALSE /\ raced = FALSE /\ disorder = FALSE /\ freedNew = FALSE

\* A frame of the peer's window, which may have to move up to it: the peer then
\* gives up what it leaves behind.
CanArrive(f) ==
    /\ rx.pc = "idle"
    /\ f >= base /\ f <= newest + MaxLoss

\* atbm_reorder_skb_queue without an agreement: the frame goes straight up.
FrameDirect(f) ==
    /\ CanArrive(f) /\ ~tid.en /\ f < base + BuffLen
    /\ newest' = Max({newest, f})
    /\ UNCHANGED <<tid, running, timers, untimed, rx, task, reset, addbas, resets, base,
                   high, jumped, raced, disorder, freedNew>>

\* With one: tid_en is tested and start_seq read, the mutex not yet held.
FrameEnter(f) ==
    /\ CanArrive(f) /\ tid.en
    /\ rx' = [pc |-> "queue", frame |-> f, seen |-> tid.start]
    /\ base' = Max({base, f - BuffLen + 1})
    /\ UNCHANGED <<tid, running, timers, untimed, task, reset, addbas, resets, history>>

\* Under the mutex.
Index == Dist(Sn(rx.frame), tid.start)
Expected == Index = 0 /\ tid.buffed = 0
TooOld   == Index >= Retry
NeedFree == Index - tid.wind + 1
Beyond   == Index >= tid.wind
TooFar   == Beyond /\ NeedFree >= tid.wind
Held     == ~Beyond /\ tid.buff[Slot(Sn(rx.frame))] # None

FrameTaken ==
    /\ rx.pc = "queue"
    /\ newest' = Max({newest, rx.frame})
    /\ raced' = (raced \/ reset = "half")
    /\ UNCHANGED <<task, reset, addbas, resets, base>>

\* The next frame in turn and nothing buffered: up, once the mutex is released.
\* Mutant: start_seq stays.
StartKept  == tid.start
StartAfter == Add(Sn(rx.frame), 1)

FrameExpected ==
    /\ FrameTaken /\ Expected
    /\ tid' = [tid EXCEPT !.start = StartAfter]
    /\ rx' = [rx EXCEPT !.pc = "up"]
    /\ jumped' = (jumped \/ ~tid.en)
    /\ UNCHANGED <<running, timers, untimed, high, disorder, freedNew>>

\* Behind the window: freed.
FrameOld ==
    /\ FrameTaken /\ ~Expected /\ TooOld
    /\ freedNew' = (freedNew \/ (tid.en /\ rx.frame > newest))
    /\ rx' = Idle
    /\ UNCHANGED <<tid, running, timers, untimed, high, jumped, disorder>>

\* Two windows ahead: "just to uplayer", start_seq stays.
FrameTooFar ==
    /\ FrameTaken /\ ~Expected /\ ~TooOld /\ TooFar
    /\ jumped' = TRUE
    /\ rx' = [rx EXCEPT !.pc = "up"]
    /\ UNCHANGED <<tid, running, timers, untimed, high, disorder, freedNew>>

\* In the buffer already: freed.
FrameHeld ==
    /\ FrameTaken /\ ~Expected /\ ~TooOld /\ ~TooFar /\ Held
    /\ rx' = Idle
    /\ UNCHANGED <<tid, running, timers, untimed, high, jumped, disorder, freedNew>>

\* Buffered, the window moved up to it first, then what is in turn goes up.
FrameBuffered ==
    /\ FrameTaken /\ ~Expected /\ ~TooOld /\ ~TooFar /\ ~Held
    /\ LET moved == IF Beyond THEN ForceFree(tid, NeedFree) ELSE tid
           t     == UpLayer(BuffQueue(moved, rx.frame))
       IN Commit(t) /\ FrameTimer(t, rx.seen)
    /\ rx' = Idle
    /\ UNCHANGED <<jumped, freedNew>>

\* The caller hands up a frame that was not kept, without the mutex.
FrameUp ==
    /\ rx.pc = "up"
    /\ HandUp(<<rx.frame>>)
    /\ rx' = Idle
    /\ UNCHANGED <<tid, running, timers, untimed, task, reset, addbas, resets, base,
                   newest, jumped, raced, freedNew>>
------------------------------------------------------------------------------
(* atbm_updata_ba_tid_params, on the receive thread.                        *)

Addba ==
    /\ rx.pc = "idle" /\ ~tid.en /\ addbas < MaxAddba
    /\ base' = Max({base, newest + 1})
    /\ tid' = [en |-> TRUE, wind |-> BuffLen, start |-> Sn(base'), buffed |-> 0,
               up |-> <<>>, buff |-> [i \in Slots |-> None], age |-> [i \in Slots |-> None]]
    /\ addbas' = addbas + 1
    /\ high' = base' - 1 /\ jumped' = FALSE /\ disorder' = FALSE
    /\ UNCHANGED <<running, timers, untimed, rx, task, reset, resets, newest, raced, freedNew>>

BarDist(s) == Dist(Sn(s), tid.start)
BarArrives(s) ==
    /\ rx.pc = "idle" /\ tid.en
    /\ s \in base .. MaxFrame /\ s <= newest + MaxLoss
    /\ base' = s

BarIgnored(s) ==
    /\ BarArrives(s)
    /\ BarDist(s) > Retry \/ BarDist(s) = 0
    /\ UNCHANGED <<tid, running, timers, untimed, rx, task, reset, addbas, resets, history>>

\* Inside the window, with frames buffered: free up to ssn, then what is in turn.
BarWithin(s) ==
    /\ BarArrives(s)
    /\ BarDist(s) \in 1 .. Retry /\ BarDist(s) <= tid.wind /\ tid.buffed > 0
    /\ LET t == UpLayer(ForceFree(tid, BarDist(s)))
       IN Commit(t) /\ BarTimer(t)
    /\ UNCHANGED <<rx, task, reset, addbas, resets, newest, jumped, raced, freedNew>>

\* Past it, or with nothing buffered: everything up, and start at ssn.
BarBeyond(s) ==
    /\ BarArrives(s)
    /\ BarDist(s) \in 1 .. Retry /\ ~(BarDist(s) <= tid.wind /\ tid.buffed > 0)
    /\ LET all == IF tid.buffed > 0 THEN ForceFree(tid, tid.wind) ELSE tid
           t   == [all EXCEPT !.start = Sn(s)]
       IN Commit(t) /\ BarTimer(t)
    /\ UNCHANGED <<rx, task, reset, addbas, resets, newest, jumped, raced, freedNew>>

\* atbm_reorder_tid_reset: drop what is buffered, its timer and the flag.
TidReset ==
    IF tid.buffed > 0
      THEN /\ tid' = [Release(tid, tid.wind) EXCEPT !.start = 0]
           /\ Unset /\ timers' = NoTimers
      ELSE UNCHANGED <<tid, running, timers, untimed>>

\* Then, in a second section, the agreement ends.
TidDisable ==
    /\ tid' = [tid EXCEPT !.en = FALSE, !.wind = 0, !.start = 0]
    /\ UNCHANGED <<running, timers, untimed>>

DelbaStart ==
    /\ rx.pc = "idle" /\ tid.en
    /\ TidReset
    /\ rx' = [Idle EXCEPT !.pc = "delba"]
    /\ UNCHANGED <<task, reset, addbas, resets, base, history>>

DelbaEnd ==
    /\ rx.pc = "delba"
    /\ TidDisable
    /\ rx' = Idle
    /\ UNCHANGED <<task, reset, addbas, resets, base, history>>

\* atbm_reorder_func_reset, by another thread.
ResetStart ==
    /\ reset = "idle" /\ tid.en /\ resets < MaxReset
    /\ TidReset
    /\ reset' = "half" /\ resets' = resets + 1
    /\ UNCHANGED <<rx, task, addbas, base, history>>

ResetEnd ==
    /\ reset = "half"
    /\ TidDisable
    /\ reset' = "idle"
    /\ UNCHANGED <<rx, task, addbas, resets, base, history>>
------------------------------------------------------------------------------
(* Time and the timer task.  A timer that is due runs before time goes on.  *)

Tick ==
    /\ timers[0] = 0 /\ task = "idle"
    /\ timers # NoTimers \/ tid.buffed > 0
    /\ timers' = [d \in 0 .. Timeout |-> IF d = Timeout THEN 0 ELSE timers[d + 1]]
    /\ tid' = [tid EXCEPT !.age = [i \in Slots |->
                  IF @[i] = None \/ @[i] = MaxAge THEN @[i] ELSE @[i] + 1]]
    /\ UNCHANGED <<running, untimed, rx, task, reset, addbas, resets, base, history>>

\* atbm_reorder_pkg_timeout is called; it tests tid_en without the mutex.
TimeoutEnter ==
    /\ timers[0] > 0 /\ task = "idle"
    /\ timers' = [timers EXCEPT ![0] = @ - 1]
    /\ task' = IF tid.en THEN "entered" ELSE "idle"
    /\ UNCHANGED <<tid, running, untimed, rx, reset, addbas, resets, base, history>>

\* Mutant: the timeout does not register itself again.
NoAgain(t) == running' = (t.buffed > 0) /\ UNCHANGED <<timers, untimed>>
Again(t) ==
    IF t.buffed > 0
      THEN Register(timers, Timeout) /\ UNCHANGED running
      ELSE Unset /\ UNCHANGED timers

TimeoutBody ==
    /\ task = "entered"
    /\ task' = "idle"
    /\ IF tid.buffed = 0
         THEN UNCHANGED <<tid, running, timers, untimed, high, disorder>>
         ELSE LET t == UpLayer(ForceFree(tid, Expired(tid)))
              IN Commit(t) /\ Again(t)
    /\ UNCHANGED <<rx, reset, addbas, resets, base, newest, jumped, raced, freedNew>>
------------------------------------------------------------------------------
Next ==
    \/ \E f \in Frames : FrameDirect(f) \/ FrameEnter(f)
    \/ FrameExpected \/ FrameOld \/ FrameTooFar \/ FrameHeld \/ FrameBuffered \/ FrameUp
    \/ Addba \/ DelbaStart \/ DelbaEnd
    \/ \E s \in Frames : BarIgnored(s) \/ BarWithin(s) \/ BarBeyond(s)
    \/ ResetStart \/ ResetEnd
    \/ Tick \/ TimeoutEnter \/ TimeoutBody

Spec == Init /\ [][Next]_vars
------------------------------------------------------------------------------
(* Every variable has its type. *)
TypeOK ==
    /\ tid \in [en : BOOLEAN, wind : {0, BuffLen}, start : 0 .. SeqSpace - 1,
                buffed : 0 .. BuffLen, up : {<<>>},
                buff : [Slots -> Frames \cup {None}],
                age : [Slots -> (0 .. MaxAge) \cup {None}]]
    /\ running \in BOOLEAN /\ timers \in [0 .. Timeout -> Nat]
    /\ rx \in [pc : {"idle", "queue", "up", "delba"}, frame : Frames \cup {None},
               seen : 0 .. SeqSpace - 1]
    /\ task \in {"idle", "entered"} /\ reset \in {"idle", "half"}
    /\ addbas \in 0 .. MaxAddba /\ resets \in 0 .. MaxReset /\ base \in 0 .. MaxFrame + 1
    /\ newest \in -1 .. MaxFrame /\ high \in -1 .. MaxFrame
    /\ {untimed, jumped, raced, disorder, freedNew} \subseteq BOOLEAN

(* While an agreement lasts, skb_buffed counts the buffered frames, and each *)
(* is in the slot of its sequence number and inside the window: no overflow, *)
(* BAR, timeout or reset leaves a frame behind the window or overwrites one. *)
BuffExact ==
    tid.en =>
      /\ tid.buffed = Cardinality({i \in Slots : tid.buff[i] # None})
      /\ \A i \in Slots : tid.buff[i] # None =>
           /\ Slot(Sn(tid.buff[i])) = i
           /\ Dist(Sn(tid.buff[i]), tid.start) < tid.wind

(* The marks the timeout goes by (frame_rx_time, which must not be 0 at the *)
(* start of the window when a timer is set): exactly the slots from the     *)
(* start up to the last buffered frame are marked, the oldest first.        *)
TimeMarked ==
    tid.en =>
      \A k \in Slots :
        /\ (tid.age[At(tid, k)] # None)
             <=> (\E j \in k .. BuffLen - 1 : tid.buff[At(tid, j)] # None)
        /\ \A j \in 0 .. k : tid.age[At(tid, k)] # None =>
             tid.age[At(tid, j)] # None /\ tid.age[At(tid, j)] >= tid.age[At(tid, k)]

(* Within an agreement the frames go up in the peer's order and none twice, *)
(* by whichever thread, unless one went up beside the buffer (two windows   *)
(* ahead, or the agreement ended before it got the mutex), or one was taken *)
(* in the middle of a reset.                                                *)
InOrder == disorder => jumped \/ raced

(* A frame is not held longer than one and a half timeouts, however the     *)
(* timers of frames, BARs and the timeout itself are set and cancelled: no  *)
(* frame waits without a timer.  There are two exceptions.  Registering a   *)
(* timer may fail (the table is shared and BARs add to it), which the code  *)
(* ignores: timer_running then says of a timer that is not there, and until *)
(* the buffer is empty again a frame may wait for ever.  And a frame taken  *)
(* in the middle of a reset leaves timer_running set with no timer, so that *)
(* the next agreement sets none.                                            *)
HeldAtMost ==
    tid.en /\ ~raced /\ ~untimed =>
      \A i \in Slots : tid.buff[i] # None => tid.age[i] <= Timeout + Half

(* "the frame maybe has been lost,so send to the mac80211" (the comment on  *)
(* the branch that takes a frame for an old one): a frame newer than all    *)
(* received before does not get lost there.                                 *)
NewestSentUp == freedNew => raced
=============================================================================
