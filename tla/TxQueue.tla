------------------------------- MODULE TxQueue -------------------------------
(***************************************************************************)
(* One of the driver's four transmit queues (hal/atbm_queue.c) with the    *)
(* threads that use it: the senders that put frames, tx_bh that hands them *)
(* to the firmware, rx_bh that applies the firmware's confirms, the timer  *)
(* task that expires old frames, the recovery work that clears the queue   *)
(* and the flush of one interface (hal/atbm_sta.c), which stops queue 0,   *)
(* the queue modelled.  Every operation runs under queue->lock, so it is   *)
(* one step; what a caller does between two operations is another step.    *)
(***************************************************************************)
EXTENDS Integers, Sequences, FiniteSets, Functions

CONSTANTS
    Capacity,       \* items in the pool (ATBM_WIFI_MAX_QUEUE_SZ, also vif0_throttle)
    Vifs,           \* interfaces that send (subset of 0 .. ATBM_WIFI_MAX_VIFS-1)
    Links,          \* link ids in use (below map_capacity)
    Skbs,           \* socket buffers
    FlushVifs,      \* interfaces that may be stopped, hence flushed
    TimerSlots,     \* free entries of the eloop timer table
    MaxClears,      \* bound: how often the recovery work may run
    MaxRequeue,     \* bound: how often one frame may be requeued
    MaxGone,        \* bound: released frames the firmware may yet answer, at once
    None,           \* no skb, nothing in hand, no confirm in progress, no flush
    Dangling        \* a pointer to a frame that has been freed

ASSUME CapacityAssumption == Capacity \in 3 .. 255
ASSUME BoundsAssumption ==
    /\ TimerSlots \in Nat /\ MaxClears \in 0 .. 15 /\ MaxRequeue \in 0 .. 255
    /\ MaxGone \in Nat
    /\ Vifs \subseteq 0 .. 15 /\ FlushVifs \subseteq Vifs
    /\ None \notin Skbs \cup Vifs

VARIABLES
    queue, pending, free_pool,          \* the three lists, heads first
    pool,                               \* the items
    num_queued, num_pending, num_queued_vif, num_pending_vif, link_map_cache,
    generation, overfull, tx_locked_cnt,
    queuedFlag, timers,                 \* expiry timer: flag and armed entries
    stats_num_queued,                   \* stats->num_queued (shared by the queues)
    data,                               \* tx_bh: the frame it got and has not written
    need_confirm,                       \* tx_bh: the last frame it had, if any
    fw,                                 \* frames the firmware still has to confirm
    cb,                                 \* the confirm rx_bh is in the middle of
    misled,                             \* history: an id has hit what is not its own
    timeoutPc,                          \* queued_timeout between its two writes
    flushing,                           \* the interface __atbm_flush is stopping
    hung,                               \* a thread spins for ever holding queue->lock
    live, badFree, leaked, timerLost    \* history: see the properties

lists    == <<queue, pending, free_pool>>
counters == <<num_queued, num_pending, num_queued_vif, num_pending_vif,
              link_map_cache, stats_num_queued>>
locks    == <<overfull, tx_locked_cnt, leaked>>
expiry   == <<queuedFlag, timers, timerLost, timeoutPc>>
history  == <<live, badFree>>
bh       == <<data, need_confirm>>
answers  == <<fw, cb, misled>>
vars     == <<lists, pool, counters, generation, locks, expiry, bh, answers,
              flushing, hung, history>>

Items == 0 .. Capacity - 1

\* An item back in the free pool: what is left in its other fields is never
\* read again (atbmwifi_queue_put overwrites it), only its generation is.
Freed(gen) ==
    [skb |-> None, if_id |-> 0, link_id |-> 0, generation |-> gen, old |-> FALSE]

\* The counters are atbm_uint8.
U8(n) == n % 256

DropAt(s, k) == SubSeq(s, 1, k - 1) \o SubSeq(s, k + 1, Len(s))

\* The first half of atbm_list_move: off the list it is on.
\* Mutant: the item is added to the new list only.
WithoutNothing(s, i) == s
Without(s, i) ==
    IF i \in Range(s) THEN DropAt(s, CHOOSE k \in 1 .. Len(s) : s[k] = i) ELSE s
IfOf(i) == pool[i].if_id
LinkOf(i) == pool[i].link_id

\* How many items of the sequence s belong to interface f (and to link l).
OfVif(s, f)     == Cardinality({k \in 1 .. Len(s) : IfOf(s[k]) = f})
OfLink(s, f, l) == Cardinality({k \in 1 .. Len(s) : IfOf(s[k]) = f /\ LinkOf(s[k]) = l})

\* The fields of a packet id that atbmwifi_queue_parse_id gives back and the
\* lookups compare: the queue's generation (4 bits), the item's generation
\* and index (8 bits each) and the interface.
\* Mutant: the index field is too narrow for the pool.
MakeNarrowId(qgen, igen, i, f) ==
    [qgen |-> qgen % 16, igen |-> igen % 256, item |-> i % 2, if_id |-> f % 16]
MakePacketId(qgen, igen, i, f) ==
    [qgen |-> qgen % 16, igen |-> igen % 256, item |-> i % 256, if_id |-> f % 16]

PacketId(i) == MakePacketId(generation, pool[i].generation, i, pool[i].if_id)

\* The test of remove, requeue and get_skb: generation, index, item generation.
IdValid(id) ==
    /\ id.qgen = generation
    /\ id.item < Capacity
    /\ pool[id.item].generation = id.igen

-----------------------------------------------------------------------------
(* Stopping and starting the network queues.                                *)

\* atbmwifi_skb_dtor on a set of buffers: a buffer nobody owns may not be freed.
Free(skbs) ==
    /\ badFree' = (badFree \/ ~(skbs \subseteq live))
    /\ live' = live \ skbs

QueueLock == tx_locked_cnt' = U8(tx_locked_cnt + 1)

QueueUnlock == tx_locked_cnt' = IF tx_locked_cnt = 0 THEN 0 ELSE tx_locked_cnt - 1

\* Start the expiry timer.  The shared timer table may be full: the result of
\* atbmwifi_eloop_register_timeout is ignored, so queuedFlag then says "armed"
\* although it is not.
\* Mutant: the table is not checked for room.
RegisterAnyway == queuedFlag' = TRUE /\ timers' = timers + 1 /\ UNCHANGED timerLost
RegisterTimeout ==
    /\ queuedFlag' = TRUE
    /\ \/ timers < TimerSlots /\ timers' = timers + 1 /\ UNCHANGED timerLost
       \/ timers' = timers /\ timerLost' = TRUE

\* A frame of interface f is no longer pending.
\* Mutant: the counter of the interface is forgotten.
UnpendTotal(f) == num_pending' = U8(num_pending - 1) /\ UNCHANGED num_pending_vif
Unpend(f) ==
    /\ num_pending' = U8(num_pending - 1)
    /\ num_pending_vif' = [num_pending_vif EXCEPT ![f] = U8(@ - 1)]

\* An over-full queue is started again once half of it has drained.
\* Mutant: off by one.
BelowHalf == num_queued' < Capacity \div 2
HalfDrained == num_queued' <= Capacity \div 2

Init ==
    /\ queue = <<>> /\ pending = <<>>
    /\ free_pool = [k \in 1 .. Capacity |-> k - 1]
    /\ pool = [i \in Items |-> Freed(0)]
    /\ num_queued = 0 /\ num_pending = 0
    /\ num_queued_vif = [f \in Vifs |-> 0]
    /\ num_pending_vif = [f \in Vifs |-> 0]
    /\ link_map_cache = [f \in Vifs |-> [l \in Links |-> 0]]
    /\ stats_num_queued = [f \in Vifs |-> 0]
    /\ generation = 0 /\ overfull = FALSE /\ tx_locked_cnt = 0 /\ leaked = 0
    /\ queuedFlag = FALSE /\ timers = 0 /\ timerLost = FALSE /\ timeoutPc = "idle"
    /\ data = None /\ need_confirm = None
    /\ fw = {} /\ cb = None /\ misled = FALSE
    /\ flushing = None /\ hung = FALSE
    /\ live = {} /\ badFree = FALSE

-----------------------------------------------------------------------------
(* Operations.                                                              *)

\* atbmwifi_queue_put: take the head of the free pool.  (An empty pool is
\* -ENOENT: the caller frees its own buffer and the queue does not change.)
Put(f, l, s) ==
    /\ ~hung /\ s \notin live /\ free_pool # <<>>
    /\ LET i == Head(free_pool)
       IN /\ free_pool' = Tail(free_pool)
          /\ queue' = Append(queue, i)
          /\ pool' = [pool EXCEPT ![i] = [skb |-> s, if_id |-> f, link_id |-> l,
                                          generation |-> 0, old |-> FALSE]]
    /\ live' = live \cup {s}
    /\ num_queued' = U8(num_queued + 1)
    /\ num_queued_vif' = [num_queued_vif EXCEPT ![f] = U8(@ + 1)]
    /\ link_map_cache' = [link_map_cache EXCEPT ![f][l] = @ + 1]
    /\ stats_num_queued' = [stats_num_queued EXCEPT ![f] = U8(@ + 1)]
    /\ IF ~overfull /\ num_queued' >= Capacity - 1
         THEN overfull' = TRUE /\ QueueLock
         ELSE UNCHANGED <<overfull, tx_locked_cnt>>
    /\ IF queuedFlag THEN UNCHANGED <<queuedFlag, timers, timerLost>>
                     ELSE RegisterTimeout
    /\ UNCHANGED <<pending, num_pending, num_pending_vif, generation, leaked,
                   timeoutPc, bh, answers, flushing, hung, badFree>>

\* atbmwifi_queue_get, called by tx_bh through wsm_get_tx: the first frame of
\* interface f whose link the mask admits becomes pending and gets its packet
\* id.  tx_bh has it in hand, and forgets the frame it wrote before.
Get(f, mask) ==
    /\ ~hung /\ data = None
    /\ \E k \in 1 .. Len(queue) :
         LET i == queue[k]
             match(j) == IfOf(j) = f /\ LinkOf(j) \in mask
         IN /\ match(i)
            /\ \A m \in 1 .. k - 1 : ~match(queue[m])
            /\ queue' = DropAt(queue, k)
            /\ pending' = Append(pending, i)
            /\ num_pending' = U8(num_pending + 1)
            /\ num_pending_vif' = [num_pending_vif EXCEPT ![f] = U8(@ + 1)]
            /\ link_map_cache' = [link_map_cache EXCEPT ![f][LinkOf(i)] = @ - 1]
            /\ stats_num_queued' = [stats_num_queued EXCEPT ![f] = U8(@ - 1)]
            /\ data' = [id |-> PacketId(i), skb |-> pool[i].skb, gone |-> FALSE]
            /\ need_confirm' = None
    /\ UNCHANGED <<free_pool, pool, num_queued, num_queued_vif, generation, locks,
                   expiry, answers, flushing, hung, history>>

\* atbmwifi_queue_remove with the packet id of entry e: nothing happens to
\* the queue when the id is stale.
Remove(e) ==
    IF ~IdValid(e.id)
      THEN UNCHANGED <<lists, pool, counters, locks, history>>
      ELSE LET i == e.id.item
               f == e.id.if_id
           IN /\ Free({pool[i].skb} \ {None})
              /\ pool' = [pool EXCEPT ![i] = Freed(U8(@.generation + 1))]
              /\ Unpend(f)
              /\ num_queued' = U8(num_queued - 1)
              /\ num_queued_vif' = [num_queued_vif EXCEPT ![f] = U8(@ - 1)]
              /\ queue' = Without(queue, i)
              /\ pending' = Without(pending, i)
              /\ free_pool' = <<i>> \o Without(free_pool, i)
              /\ IF overfull /\ HalfDrained
                   THEN overfull' = FALSE /\ QueueUnlock
                   ELSE UNCHANGED <<overfull, tx_locked_cnt>>
              /\ UNCHANGED <<link_map_cache, stats_num_queued, leaked>>

\* The frames whose packet id is with the firmware, in a confirm or in tx_bh's
\* hand, and which tx_bh has not given up.
Out == {e \in fw \cup ({cb, data} \ {None}) : ~e.gone}

\* tx_bh's pointer need_confirm when frame e is released or goes back to the
\* queue: the memory it points to is no longer e's.  So it is after a clear.
Outlives(e) == need_confirm' = IF need_confirm = e THEN Dangling ELSE need_confirm
Cleared(e) == e.id.qgen # generation

\* A frame that needs no confirm is removed before it is written
\* (atbm_sdio_free_tx_wsm), and the firmware sends none.
FreeTxWsm ==
    /\ ~hung /\ data # None
    /\ data' = None
    /\ Remove(data)
    /\ UNCHANGED <<generation, expiry, need_confirm, answers, flushing, hung>>

\* A frame that needs one ends the batch, which is written to the bus: the
\* firmware has it, and tx_bh keeps a pointer to it.
Write ==
    /\ ~hung /\ data # None
    /\ fw' = fw \cup {data}
    /\ need_confirm' = IF Cleared(data) THEN Dangling ELSE data
    /\ data' = None
    /\ UNCHANGED <<lists, pool, counters, generation, locks, expiry, cb, misled,
                   flushing, hung, history>>

\* tx_bh has released frame e (atbm_sdio_release_err_data) although the
\* firmware has it, or rx_bh its answer: that answer is nobody's from now on.
\* (Two such frames with the same packet id and buffer are one entry: an
\* answer that hits nothing changes nothing, and one that hits ends the model.)
GiveUp(e) ==
    LET gone == [e EXCEPT !.gone = TRUE]
    IN /\ Cardinality({d \in fw : d.gone}) < MaxGone
       /\ fw' = IF e \in fw THEN (fw \ {e}) \cup {gone} ELSE fw
       /\ cb' = IF e = cb THEN gone ELSE cb

\* The bus write fails, or the thread is told to end before it: tx_bh releases
\* the frame.  What a failed write left in the device is not known.
WriteFails ==
    /\ ~hung /\ data # None
    /\ need_confirm' = Dangling /\ data' = None
    /\ Remove(data)
    /\ \/ UNCHANGED fw
       \/ /\ Cardinality({d \in fw : d.gone}) < MaxGone
          /\ fw' = fw \cup {[data EXCEPT !.gone = TRUE]}
    /\ UNCHANGED <<generation, expiry, cb, misled, flushing, hung>>

\* The wait for space in the device fails after a write (one bad read of the
\* register is enough) and tx_bh releases need_confirm, the frame it wrote,
\* which the firmware is going to confirm ...
WaitFails ==
    /\ ~hung /\ data = None /\ need_confirm \in Out
    /\ Remove(need_confirm)
    /\ GiveUp(need_confirm)
    /\ need_confirm' = Dangling
    /\ UNCHANGED <<generation, expiry, data, misled, flushing, hung>>

\* ... or a pointer of tx_bh is to freed memory: need_confirm after the frame
\* was confirmed or released, either one after a clear.  What tx_bh releases
\* through it is the frame whose packet id it finds there (an id that matches
\* no item changes nothing).
ReleaseFreed ==
    /\ ~hung /\ (need_confirm = Dangling \/ (data # None /\ Cleared(data)))
    /\ \E i \in Range(queue \o pending) :
         Remove([id |-> PacketId(i), skb |-> pool[i].skb, gone |-> FALSE])
    /\ misled' = TRUE
    /\ UNCHANGED <<generation, expiry, bh, fw, cb, flushing, hung>>

\* The answer to a frame that was given up hits an item: atbmwifi_queue_put
\* has set its generation back and the id fits it again, or it was freed by
\* its time-out, which leaves the generation as it is.
Misleads(e) == misled' = (e.gone /\ IdValid(e.id))

\* atbmwifi_tx_confirm_cb looks the buffer up, releases the lock ...
ConfirmGetSkb(e) ==
    /\ ~hung /\ cb = None /\ e \in fw
    /\ fw' = fw \ {e}
    /\ Misleads(e)
    /\ IF IdValid(e.id) THEN cb' = e /\ UNCHANGED need_confirm
                        ELSE UNCHANGED cb /\ Outlives(e)
    /\ UNCHANGED <<lists, pool, counters, generation, locks, expiry, data, flushing,
                   hung, history>>

\* ... reports the status of the buffer and removes the frame.
ConfirmRemove ==
    /\ ~hung /\ cb # None
    /\ cb' = None
    /\ Remove(cb)
    /\ Misleads(cb)
    /\ Outlives(cb)
    /\ UNCHANGED <<generation, expiry, data, fw, flushing, hung>>

\* atbmwifi_queue_requeue, for a confirm with status WSM_REQUEUE.
Requeue(e) ==
    /\ ~hung /\ cb = None /\ e \in fw
    /\ fw' = fw \ {e}
    /\ Misleads(e)
    /\ Outlives(e)
    /\ IF ~IdValid(e.id)
         THEN UNCHANGED <<lists, pool, counters>>
         ELSE LET i == e.id.item
                  f == e.id.if_id
              IN /\ pool[i].generation < MaxRequeue
                 /\ Unpend(f)
                 /\ link_map_cache' = [link_map_cache EXCEPT ![f][LinkOf(i)] = @ + 1]
                 /\ stats_num_queued' = [stats_num_queued EXCEPT ![IfOf(i)] = U8(@ + 1)]
                 /\ pool' = [pool EXCEPT ![i].generation = U8(@ + 1)]
                 /\ queue' = <<i>> \o Without(queue, i)
                 /\ pending' = Without(pending, i)
                 /\ free_pool' = Without(free_pool, i)
                 /\ UNCHANGED <<num_queued, num_queued_vif>>
    /\ UNCHANGED <<generation, locks, expiry, cb, data, flushing, hung, history>>

\* More than queue->ttl passes: every frame of the queue is now old.
Age ==
    /\ \E i \in Items : pool[i].skb # None /\ ~pool[i].old
    /\ pool' = [i \in Items |-> [pool[i] EXCEPT !.old = (pool[i].skb # None)]]
    /\ UNCHANGED <<lists, counters, generation, locks, expiry, bh, answers,
                   flushing, hung, history>>

\* atbmwifi_queued_timeout clears queuedFlag before it takes the lock ...
TimeoutStart ==
    /\ timers > 0 /\ timeoutPc = "idle"
    /\ timers' = timers - 1
    /\ timeoutPc' = "fired"
    /\ queuedFlag' = FALSE
    /\ UNCHANGED <<lists, pool, counters, generation, locks, timerLost, bh,
                   answers, flushing, hung, history>>

\* The longest prefix of the queue that is old has length k.
ExpiredPrefix(k) ==
    /\ \A m \in 1 .. k : pool[queue[m]].old
    /\ k < Len(queue) => ~pool[queue[k + 1]].old

\* Frames are left: the timer is started again.
\* Mutant: it is not.
RearmNever == UNCHANGED <<queuedFlag, timers, timerLost>>
Rearm ==
    IF queue' # <<>> THEN RegisterTimeout
    ELSE /\ queuedFlag' = (queuedFlag /\ overfull)
         /\ UNCHANGED <<timers, timerLost>>

\* ... then frees the old frames at the head of the queue, and re-arms itself
\* when frames are left.
TimeoutFrees(k) ==
    LET gone == SubSeq(queue, 1, k)
    IN /\ Free({pool[i].skb : i \in Range(gone)})
       /\ pool' = [i \in Items |-> IF i \in Range(gone)
                                     THEN Freed(pool[i].generation) ELSE pool[i]]
       /\ queue' = SubSeq(queue, k + 1, Len(queue))
       /\ free_pool' = free_pool \o gone
       /\ num_queued' = U8(num_queued - k)
       /\ num_queued_vif' = [f \in Vifs |-> U8(num_queued_vif[f] - OfVif(gone, f))]
       /\ link_map_cache' = [f \in Vifs |-> [l \in Links |->
                                 link_map_cache[f][l] - OfLink(gone, f, l)]]
       /\ stats_num_queued' = [f \in Vifs |-> U8(stats_num_queued[f] - OfVif(gone, f))]
       /\ IF overfull /\ HalfDrained
            THEN /\ overfull' = FALSE
                 /\ IF k > 0 THEN QueueUnlock /\ UNCHANGED leaked
                             ELSE leaked' = leaked + 1 /\ UNCHANGED tx_locked_cnt
            ELSE UNCHANGED locks
TimeoutBody ==
    /\ ~hung /\ timeoutPc = "fired"
    /\ timeoutPc' = "idle"
    /\ \E k \in 0 .. Len(queue) : ExpiredPrefix(k) /\ TimeoutFrees(k)
    /\ Rearm
    /\ UNCHANGED <<pending, num_pending, num_pending_vif, generation, bh, answers,
                   flushing, hung>>

\* The sum of what the links of an interface have queued, as the number of the
\* pairs of a link and one of its frames.
OfLinks(f) == Cardinality(UNION {{l} \X (1 .. link_map_cache[f][l]) : l \in Links})

\* The shared statistics forget what the links of an interface had queued.
\* Mutant: they do not.
ClearNoStats(fs) == UNCHANGED stats_num_queued
ClearStats(fs) ==
    stats_num_queued' = [f \in Vifs |->
        IF f \in fs
          THEN U8(stats_num_queued[f] - OfLinks(f))
          ELSE stats_num_queued[f]]

\* atbmwifi_queue_clear for the interfaces fs: everything queued or pending is
\* freed, the queue's generation moves on, and the stop of an over-full queue
\* is undone by way of interface priv (None: there is none, nothing is undone).
Clear(fs, priv) ==
    LET all  == pending \o queue
    IN /\ generation' = (generation + 1) % 16
       /\ Free({pool[i].skb : i \in Range(all)})
       /\ pool' = [i \in Items |-> IF i \in Range(all)
                                     THEN Freed(pool[i].generation) ELSE pool[i]]
       /\ queue' = <<>> /\ pending' = <<>>
       /\ free_pool' = free_pool \o all
       /\ num_queued' = U8(num_queued - Len(all))
       /\ num_pending' = U8(num_pending - Len(all))
       /\ num_queued_vif' = [f \in Vifs |-> IF f \in fs THEN 0 ELSE num_queued_vif[f]]
       /\ num_pending_vif' = [f \in Vifs |-> IF f \in fs THEN 0 ELSE num_pending_vif[f]]
       /\ ClearStats(fs)
       /\ link_map_cache' = [f \in Vifs |-> [l \in Links |->
                                 IF f \in fs THEN 0 ELSE link_map_cache[f][l]]]
       /\ overfull' = FALSE
       /\ IF ~overfull THEN UNCHANGED <<tx_locked_cnt, leaked>>
          ELSE IF priv = None THEN leaked' = leaked + 1 /\ UNCHANGED tx_locked_cnt
          ELSE QueueUnlock /\ UNCHANGED leaked
       /\ UNCHANGED <<expiry, cb, misled, flushing>>

\* The recovery work and atbmwifi_stop clear all interfaces.  The firmware
\* may still deliver confirms of frames it had before (fw keeps any of them).
ClearAll ==
    /\ ~hung /\ generation < MaxClears
    /\ Clear(Vifs, None)
    /\ fw' \in SUBSET fw
    /\ need_confirm' = IF need_confirm = None THEN None ELSE Dangling
    /\ UNCHANGED <<data, hung>>

\* __atbm_flush, called by stop_sta and stop_ap: stop the net queue ...
FlushStart(f) ==
    /\ ~hung /\ flushing = None
    /\ flushing' = f
    /\ QueueLock
    /\ UNCHANGED <<lists, pool, counters, generation, overfull, leaked, expiry,
                   bh, answers, hung, history>>

\* ... after enough retries drop what the interface has queued.  The loop of
\* atbmwifi_queue_clear never steps over a frame of another interface: it
\* then spins for ever with the lock held ...
FlushDrop ==
    /\ ~hung /\ flushing # None /\ generation < MaxClears
    /\ IF \A i \in Range(pending \o queue) : IfOf(i) = flushing
         THEN /\ Clear({flushing}, flushing)
              /\ need_confirm' = IF need_confirm = None THEN None ELSE Dangling
              /\ UNCHANGED <<data, fw, hung>>
         ELSE /\ hung' = TRUE
              /\ UNCHANGED <<lists, pool, counters, generation, locks, expiry,
                             bh, answers, flushing, history>>

\* atbmwifi_queue_stats_is_empty with the map -1.
StatsIsEmpty(f) == stats_num_queued[f] = 0

\* ... and start it again once the statistics say the interface has nothing
\* queued.
FlushDone ==
    /\ ~hung /\ flushing # None /\ StatsIsEmpty(flushing)
    /\ flushing' = None
    /\ QueueUnlock
    /\ UNCHANGED <<lists, pool, counters, generation, overfull, leaked, expiry,
                   bh, answers, hung, history>>

\* The rest of atbmwifi_stop_ap: the expiry timer is cancelled, queuedFlag kept.
StopApCancel ==
    /\ FlushVifs # {} /\ flushing = None /\ timers > 0
    /\ timers' = 0
    /\ timerLost' = TRUE
    /\ UNCHANGED <<lists, pool, counters, generation, locks, queuedFlag, timeoutPc,
                   bh, answers, flushing, hung, history>>

QueueStep ==
    \/ \E f \in Vifs, l \in Links, s \in Skbs : Put(f, l, s)
    \/ \E f \in Vifs, mask \in SUBSET Links : Get(f, mask)
    \/ FreeTxWsm \/ Write \/ WriteFails \/ WaitFails \/ ReleaseFreed
    \/ \E e \in fw : ConfirmGetSkb(e) \/ Requeue(e)
    \/ ConfirmRemove
    \/ Age \/ TimeoutStart \/ TimeoutBody
    \/ ClearAll
    \/ \E f \in FlushVifs : FlushStart(f)
    \/ FlushDrop \/ FlushDone \/ StopApCancel

\* Once an answer has hit what is not its own the code goes on with another
\* frame's status, with counters that are off or through a null buffer: the
\* model stops there.  It may also stop when a thread spins with the lock held.
Stop == (misled \/ hung) /\ UNCHANGED vars

Next == (~misled /\ QueueStep) \/ Stop

Spec == Init /\ [][Next]_vars

-----------------------------------------------------------------------------
(* Properties.                                                              *)

PacketIds == [qgen : 0 .. 15, igen : 0 .. 255, item : Items, if_id : Vifs]
Entries   == [id : PacketIds, skb : Skbs, gone : BOOLEAN]

\* The counters stay in the width of their C types, the lists hold items.
TypeOK ==
    /\ queue \in Seq(Items) /\ pending \in Seq(Items) /\ free_pool \in Seq(Items)
    /\ pool \in [Items -> [skb : Skbs \cup {None}, if_id : Vifs \cup {0},
                           link_id : Links \cup {0}, generation : 0 .. 255,
                           old : BOOLEAN]]
    /\ {num_queued, num_pending, tx_locked_cnt} \subseteq 0 .. 255
    /\ num_queued_vif \in [Vifs -> 0 .. 255] /\ num_pending_vif \in [Vifs -> 0 .. 255]
    /\ link_map_cache \in [Vifs -> [Links -> Nat]]
    /\ stats_num_queued \in [Vifs -> 0 .. 255]
    /\ generation \in 0 .. 15 /\ leaked \in Nat
    /\ {overfull, queuedFlag, timerLost, hung, badFree, misled} \subseteq BOOLEAN
    /\ timers \in 0 .. TimerSlots /\ timeoutPc \in {"idle", "fired"}
    /\ fw \subseteq Entries /\ {cb, data} \subseteq Entries \cup {None}
    /\ need_confirm \in Entries \cup {None, Dangling}
    /\ flushing \in Vifs \cup {None} /\ live \subseteq Skbs

\* No item of the pool is lost or on two lists, whatever the order of puts,
\* gets, confirms, requeues, expiries and clears (the atbm_list_move calls).
PoolPartition ==
    LET all == queue \o pending \o free_pool
    IN /\ Len(all) = Capacity
       /\ Range(all) = Items

\* The counters the scheduler decides by agree with the lists: the frames of
\* an interface, those of them waiting, and those waiting per link
\* (atbmwifi_queue_get_num_queued, atbmwifi_queue_stats_is_empty).  One case
\* is excepted: the answer to a frame that tx_bh had given up hits the next
\* user of its item, which need not be pending.
CountersExact ==
    ~misled =>
        /\ num_queued = Len(queue) + Len(pending)
        /\ \A f \in Vifs :
             /\ num_queued_vif[f] = OfVif(queue, f) + OfVif(pending, f)
             /\ num_pending_vif[f] = OfVif(pending, f)
             /\ stats_num_queued[f] = OfVif(queue, f)
             /\ \A l \in Links : link_map_cache[f][l] = OfLink(queue, f, l)

\* The queue owns exactly the buffers of its queued and pending items, each
\* once, and never frees one it does not own: a confirm, an expiry, a write
\* error, a failed wait and a clear racing for a frame free it exactly once.
\* (The ATBM_BUG_ON(item->skb) of atbmwifi_queue_put cannot fire.)  A late
\* answer that requeues an item without a buffer is excepted, a double free
\* is not.
SkbFreedOnce ==
    /\ ~badFree
    /\ ~misled =>
        /\ \A i \in Items : pool[i].skb # None <=> i \in Range(queue \o pending)
        /\ live = {pool[i].skb : i \in Range(queue \o pending)}
        /\ Cardinality(live) = Len(queue) + Len(pending)

\* Each packet id that is out is stale by the queue's generation or names the
\* pending frame it was issued for, whatever expires, is cleared, requeued or
\* given up before the answer comes: it never hits another frame.  The answer
\* to a frame tx_bh has given up can, and nothing is said once it has.
ConfirmHitsOwnFrame ==
    ~misled =>
        \A e \in Out :
            e.id.qgen = generation =>
                /\ IdValid(e.id)
                /\ pool[e.id.item].skb = e.skb
                /\ e.id.item \in Range(pending)

\* The net queue is stopped once for being over-full and once for a flush in
\* progress; every other stop is one that a clear of all interfaces, which
\* has no interface to start the queue with, left behind.  And draining an
\* over-full queue by confirms, errors or expiry always undoes its stop: it is
\* above half its capacity.
LockBalance ==
    /\ tx_locked_cnt = (IF overfull THEN 1 ELSE 0) + (IF flushing # None THEN 1 ELSE 0) + leaked
    /\ overfull => num_queued > Capacity \div 2

\* While a frame put by a sender waits, the expiry timer is armed or running,
\* unless a registration failed or stopping the AP cancelled it.  A frame
\* that waits because it was requeued has no such promise:
\* atbmwifi_queue_requeue arms nothing.
ExpiryArmed ==
    (\E i \in Range(queue) : pool[i].generation = 0)
        => timers > 0 \/ timeoutPc = "fired" \/ timerLost

\* Flushing one interface comes to an end: the clear loop never spins with
\* the queue's lock held.
FlushReturns == ~hung
=============================================================================
