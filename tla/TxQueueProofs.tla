---------------------------- MODULE TxQueueProofs ----------------------------
(***************************************************************************)
(* Proofs about TxQueue, for every capacity, every set of interfaces,      *)
(* links and buffers: the type invariant and the safety properties.        *)
(***************************************************************************)
EXTENDS TxQueue, ListLemmas, FunctionTheorems

-----------------------------------------------------------------------------
(* The inductive invariant, part by part.                                   *)

\* Every item is on one list, once.
ListsOK ==
    /\ queue \in Seq(Items) /\ pending \in Seq(Items) /\ free_pool \in Seq(Items)
    /\ Once(queue) /\ Once(pending) /\ Once(free_pool)
    /\ Range(queue) \cap Range(pending) = {}
    /\ Range(free_pool) = Items \ (Range(queue) \cup Range(pending))

\* The items that hold a frame.
Held == Range(queue) \cup Range(pending)

ItemRec == [skb : Skbs \cup {None}, if_id : Vifs \cup {0}, link_id : Links \cup {0},
            generation : 0 .. 255, old : BOOLEAN]

\* The items that hold a frame are those with a buffer, each with its own,
\* and the queue owns these buffers.
OwnersOK ==
    /\ pool \in [Items -> ItemRec]
    /\ \A i \in Held : pool[i].skb \in Skbs /\ pool[i].if_id \in Vifs /\ pool[i].link_id \in Links
    /\ \A i \in Items \ Held : pool[i].skb = None
    /\ \A i, j \in Held : pool[i].skb = pool[j].skb => i = j
    /\ live = {pool[i].skb : i \in Held}
    /\ badFree = FALSE

\* What tx_bh, the firmware and rx_bh have are packet ids with their buffers.
HandsOK ==
    /\ fw \subseteq Entries /\ {cb, data} \subseteq Entries \cup {None}
    /\ need_confirm \in Entries \cup {None, Dangling}

\* A packet id that is out is with one of them.
Apart ==
    /\ cb # None /\ ~cb.gone => cb \notin fw
    /\ data # None => ~data.gone /\ data \notin fw /\ data # cb

\* It is stale by the queue's generation, or the only packet id of a pending
\* frame.
ConfirmOK ==
    /\ HandsOK /\ Apart
    /\ generation \in 0 .. 15
    /\ \A e \in Out :
         /\ e.id.qgen <= generation
         /\ e.id.qgen = generation =>
              /\ e.id.item \in Range(pending)
              /\ pool[e.id.item].generation = e.id.igen
              /\ pool[e.id.item].if_id = e.id.if_id
              /\ pool[e.id.item].skb = e.skb
    /\ \A d, e \in Out :
         d.id.qgen = generation /\ e.id.qgen = generation /\ d.id.item = e.id.item => d = e

\* The items of a list that are frames of an interface (for a link): those
\* that wait and those that are pending.
Ours(s, f)      == {i \in Range(s) : IfOf(i) = f}
OursOn(s, f, l) == {i \in Range(s) : IfOf(i) = f /\ LinkOf(i) = l}
Wait(f)         == Ours(queue, f)
WaitOn(f, l)    == OursOn(queue, f, l)
Sent(f)         == Ours(pending, f)

\* Every counter is the number of a set of frames.
CountsOK ==
    /\ num_queued = Len(queue) + Len(pending)
    /\ num_pending \in 0 .. 255
    /\ num_queued_vif \in [Vifs -> 0 .. 255] /\ num_pending_vif \in [Vifs -> 0 .. 255]
    /\ stats_num_queued \in [Vifs -> 0 .. 255] /\ link_map_cache \in [Vifs -> [Links -> Nat]]
    /\ \A f \in Vifs :
         /\ num_queued_vif[f] = Cardinality(Wait(f)) + Cardinality(Sent(f))
         /\ num_pending_vif[f] = Cardinality(Sent(f))
         /\ stats_num_queued[f] = Cardinality(Wait(f))
         /\ \A l \in Links : link_map_cache[f][l] = Cardinality(WaitOn(f, l))

\* Every clear leaves at most one stop behind.
LocksOK ==
    /\ LockBalance
    /\ overfull \in BOOLEAN /\ flushing \in Vifs \cup {None}
    /\ leaked \in 0 .. generation

\* The timer is armed while queuedFlag says so.
ExpiryOK ==
    /\ {queuedFlag, timerLost, hung} \subseteq BOOLEAN
    /\ timers \in 0 .. TimerSlots /\ timeoutPc \in {"idle", "fired"}
    /\ queuedFlag => timers > 0 \/ timerLost
    /\ \A i \in Range(queue) :
         pool[i].generation = 0 => queuedFlag \/ timers > 0 \/ timeoutPc = "fired" \/ timerLost

\* All of it holds until an answer hits what is not its own; what is left
\* then is the partition, the types, the stops and the timer.
QueueOK == ListsOK /\ OwnersOK /\ ConfirmOK /\ CountsOK /\ LocksOK /\ ExpiryOK
HitOK   == TypeOK /\ ListsOK /\ LockBalance /\ ExpiryOK /\ badFree = FALSE

TxQueueInv == misled \in BOOLEAN /\ IF misled THEN HitOK ELSE QueueOK

-----------------------------------------------------------------------------
(* Lemmas about the model's operators.                                      *)

\* An 8-bit counter in range keeps its value.
LEMMA InWidth == \A n \in Int : 0 <= n /\ n <= 255 => U8(n) = n
  BY DEF U8

\* What a counter holds is a byte.
LEMMA Byte == \A n \in Int : U8(n) \in 0 .. 255
  BY DEF U8

\* The pool.
LEMMA PoolSize ==
    /\ Capacity \in 3 .. 255 /\ Capacity \div 2 \in Nat /\ Capacity \div 2 < Capacity - 1
    /\ IsFiniteSet(Items) /\ Cardinality(Items) = Capacity
<1>1. Capacity \in 3 .. 255
  BY CapacityAssumption
<1>2. IsFiniteSet(0 .. Capacity - 1) /\ Cardinality(0 .. Capacity - 1) = Capacity
  BY <1>1, FS_Interval
<1>3. QED
  BY <1>1, <1>2 DEF Items

\* The first half of atbm_list_move takes the item off, from a list it is on
\* and from no other.
LEMMA WithoutIsOff ==
    ASSUME NEW S, NEW s \in Seq(S), Once(s), NEW i
    PROVE  /\ Without(s, i) \in Seq(S) /\ Once(Without(s, i))
           /\ Range(Without(s, i)) = Range(s) \ {i}
           /\ i \in Range(s) => Len(Without(s, i)) = Len(s) - 1
           /\ i \notin Range(s) => Without(s, i) = s
<1>1. CASE i \notin Range(s)
  BY <1>1 DEF Without
<1>2. CASE i \in Range(s)
  <2> DEFINE k == CHOOSE j \in 1 .. Len(s) : s[j] = i
  <2>1. k \in 1 .. Len(s) /\ s[k] = i
    <3>1. \E j \in 1 .. Len(s) : s[j] = i
      BY <1>2, Elements
    <3>2. QED
      BY <3>1
  <2>2. Without(s, i) = SubSeq(s, 1, k - 1) \o SubSeq(s, k + 1, Len(s))
    BY <1>2 DEF Without, DropAt
  <2> HIDE DEF k
  <2>3. QED
    BY <1>2, <2>1, <2>2, OnceDrop
<1>3. QED
  BY <1>1, <1>2

\* The lists have room for all items and no more.
LEMMA ListsFill ==
    ASSUME ListsOK
    PROVE  /\ Len(queue) \in Nat /\ Len(pending) \in Nat /\ Len(free_pool) \in Nat
           /\ Len(queue) + Len(pending) + Len(free_pool) = Capacity
           /\ IsFiniteSet(Held) /\ Cardinality(Held) = Len(queue) + Len(pending)
<1>1. /\ IsFiniteSet(Range(queue)) /\ Cardinality(Range(queue)) = Len(queue)
      /\ IsFiniteSet(Range(pending)) /\ Cardinality(Range(pending)) = Len(pending)
      /\ IsFiniteSet(Range(free_pool)) /\ Cardinality(Range(free_pool)) = Len(free_pool)
  BY OnceLength DEF ListsOK
<1>2. Len(queue) \in Nat /\ Len(pending) \in Nat /\ Len(free_pool) \in Nat
  BY LenProperties DEF ListsOK
<1>3. /\ IsFiniteSet(Held)
      /\ Cardinality(Held) = Len(queue) + Len(pending) - Cardinality(Range(queue) \cap Range(pending))
  BY <1>1, FS_Union DEF Held
<1>4. Cardinality(Range(queue) \cap Range(pending)) = 0
  BY FS_EmptySet DEF ListsOK
<1>5. Range(free_pool) \cap Held = {} /\ Range(free_pool) \cup Held = Items
  <2>1. Range(queue) \subseteq Items /\ Range(pending) \subseteq Items
    BY Elements DEF ListsOK
  <2>2. QED
    BY <2>1 DEF ListsOK, Held
<1>6. Cardinality(Range(free_pool) \cup Held)
        = Cardinality(Range(free_pool)) + Cardinality(Held) - Cardinality(Range(free_pool) \cap Held)
  BY <1>1, <1>3, FS_Union
<1>7. Cardinality({}) = 0
  BY FS_EmptySet
<1>8. Cardinality(Range(free_pool) \cup Held) = Capacity
  BY <1>5, PoolSize
<1>9. Cardinality(Range(free_pool) \cap Held) = 0
  BY <1>5, <1>7
<1>10. QED
  BY <1>1, <1>2, <1>3, <1>4, <1>6, <1>8, <1>9

\* Counting positions of a list is counting its entries.
LEMMA CountsAreCards ==
    ASSUME NEW s \in Seq(Items), Once(s), NEW f, NEW l
    PROVE  /\ OfVif(s, f) = Cardinality(Ours(s, f))
           /\ OfLink(s, f, l) = Cardinality(OursOn(s, f, l))
           /\ IsFiniteSet(Ours(s, f)) /\ IsFiniteSet(OursOn(s, f, l))
           /\ Cardinality(Ours(s, f)) \in 0 .. Len(s)
           /\ Cardinality(OursOn(s, f, l)) \in 0 .. Len(s)
<1> DEFINE T == {i \in Items : IfOf(i) = f}
           U == {i \in Items : IfOf(i) = f /\ LinkOf(i) = l}
<1>1. \A k \in 1 .. Len(s) : s[k] \in Items
  BY Elements
<1>2. Range(s) \subseteq Items
  BY Elements
<1>3. /\ {k \in 1 .. Len(s) : s[k] \in T} = {k \in 1 .. Len(s) : IfOf(s[k]) = f}
      /\ {k \in 1 .. Len(s) : s[k] \in U}
           = {k \in 1 .. Len(s) : IfOf(s[k]) = f /\ LinkOf(s[k]) = l}
  BY <1>1
<1>4. Range(s) \cap T = Ours(s, f) /\ Range(s) \cap U = OursOn(s, f, l)
  BY <1>2 DEF Ours, OursOn
<1> HIDE DEF T, U
<1>5. /\ IsFiniteSet(Range(s) \cap T) /\ Cardinality(Range(s) \cap T) \in 0 .. Len(s)
      /\ Cardinality({k \in 1 .. Len(s) : s[k] \in T}) = Cardinality(Range(s) \cap T)
  BY OnceCount
<1>6. /\ IsFiniteSet(Range(s) \cap U) /\ Cardinality(Range(s) \cap U) \in 0 .. Len(s)
      /\ Cardinality({k \in 1 .. Len(s) : s[k] \in U}) = Cardinality(Range(s) \cap U)
  BY OnceCount
<1>7. QED
  BY <1>3, <1>4, <1>5, <1>6 DEF OfVif, OfLink

\* The sets that are counted are finite, and no larger than a counter is wide.
LEMMA CardsFit ==
    ASSUME ListsOK, NEW f, NEW l
    PROVE  /\ IsFiniteSet(Wait(f)) /\ IsFiniteSet(Sent(f)) /\ IsFiniteSet(WaitOn(f, l))
           /\ Cardinality(Wait(f)) \in Nat /\ Cardinality(Sent(f)) \in Nat
           /\ Cardinality(WaitOn(f, l)) \in Nat
           /\ Cardinality(Wait(f)) + Cardinality(Sent(f)) <= Len(queue) + Len(pending)
           /\ Len(queue) + Len(pending) <= 255
<1>1. /\ IsFiniteSet(Wait(f)) /\ Cardinality(Wait(f)) \in 0 .. Len(queue)
      /\ IsFiniteSet(WaitOn(f, l)) /\ Cardinality(WaitOn(f, l)) \in 0 .. Len(queue)
  <2>1. queue \in Seq(Items) /\ Once(queue)
    BY DEF ListsOK
  <2>2. QED
    BY <2>1, CountsAreCards DEF Wait, WaitOn
<1>2. IsFiniteSet(Sent(f)) /\ Cardinality(Sent(f)) \in 0 .. Len(pending)
  <2>1. pending \in Seq(Items) /\ Once(pending)
    BY DEF ListsOK
  <2>2. QED
    BY <2>1, CountsAreCards DEF Sent
<1>3. /\ Len(queue) \in Nat /\ Len(pending) \in Nat /\ Len(free_pool) \in Nat
      /\ Len(queue) + Len(pending) + Len(free_pool) = Capacity /\ Capacity \in 3 .. 255
  BY ListsFill, PoolSize
<1>4. QED
  BY <1>1, <1>2, <1>3, SMTT(30)

\* A frame more or less in a counted set.
LEMMA OneMore ==
    ASSUME NEW A, IsFiniteSet(A), NEW i, i \notin A
    PROVE  IsFiniteSet(A \cup {i}) /\ Cardinality(A \cup {i}) = Cardinality(A) + 1
  BY FS_AddElement

LEMMA OneLess ==
    ASSUME NEW A, IsFiniteSet(A), NEW i \in A
    PROVE  Cardinality(A \ {i}) = Cardinality(A) - 1 /\ Cardinality(A) > 0
<1>1. Cardinality(A \ {i}) = Cardinality(A) - 1 /\ IsFiniteSet(A \ {i})
  BY FS_RemoveElement
<1>2. Cardinality(A \ {i}) \in Nat /\ Cardinality(A) \in Nat
  BY <1>1, FS_CardinalityType
<1>3. QED
  BY <1>1, <1>2

\* A part less.
LEMMA PartLess ==
    ASSUME NEW A, IsFiniteSet(A), NEW B, B \subseteq A
    PROVE  /\ Cardinality(A \ B) = Cardinality(A) - Cardinality(B)
           /\ Cardinality(B) <= Cardinality(A) /\ Cardinality(B) \in Nat
<1>1. A \cap B = B
  OBVIOUS
<1>2. IsFiniteSet(B) /\ Cardinality(B) <= Cardinality(A)
  BY FS_Subset
<1>3. QED
  BY <1>1, <1>2, FS_Difference, FS_CardinalityType

-----------------------------------------------------------------------------
(* What each operation does to the lists.                                   *)

\* No list changes: nor does the partition.
LEMMA ListsStay == ListsOK /\ UNCHANGED lists => ListsOK' /\ Held' = Held
  BY DEF ListsOK, lists, Held

\* atbmwifi_queue_put moves an item from the free pool to the queue.
LEMMA PutMoves ==
    ASSUME ListsOK, NEW f, NEW l, NEW s, Put(f, l, s)
    PROVE  \E i \in Items :
             /\ ListsOK' /\ i \notin Held /\ Held' = Held \cup {i}
             /\ Range(queue') = Range(queue) \cup {i} /\ Len(queue') = Len(queue) + 1
             /\ pool' = [pool EXCEPT ![i] = [skb |-> s, if_id |-> f, link_id |-> l,
                                             generation |-> 0, old |-> FALSE]]
<1> DEFINE i == Head(free_pool)
<1>1. /\ free_pool # <<>> /\ free_pool' = Tail(free_pool) /\ queue' = Append(queue, i)
      /\ pending' = pending
      /\ pool' = [pool EXCEPT ![i] = [skb |-> s, if_id |-> f, link_id |-> l,
                                      generation |-> 0, old |-> FALSE]]
  BY DEF Put
<1>2. /\ i \in Range(free_pool) /\ Tail(free_pool) \in Seq(Items)
      /\ Range(Tail(free_pool)) = Range(free_pool) \ {i} /\ Once(Tail(free_pool))
  BY <1>1, OnceTail DEF ListsOK
<1>3. i \in Items /\ i \notin Held
  BY <1>2 DEF ListsOK, Held
<1> HIDE DEF i
<1>4. /\ Append(queue, i) \in Seq(Items) /\ Len(Append(queue, i)) = Len(queue) + 1
      /\ Range(Append(queue, i)) = Range(queue) \cup {i} /\ Once(Append(queue, i))
  BY <1>3, OnceAppend DEF ListsOK, Held
<1>5. ListsOK' /\ Held' = Held \cup {i}
  BY <1>1, <1>2, <1>3, <1>4 DEF ListsOK, Held
<1>6. QED
  BY <1>1, <1>3, <1>4, <1>5

\* atbmwifi_queue_get moves an item from the queue to the pending list.
LEMMA GetMoves ==
    ASSUME ListsOK, NEW f, NEW mask, Get(f, mask)
    PROVE  \E i \in Range(queue) :
             /\ ListsOK' /\ Held' = Held /\ i \in Items /\ i \notin Range(pending)
             /\ Range(queue') = Range(queue) \ {i} /\ Len(queue') = Len(queue) - 1
             /\ Range(pending') = Range(pending) \cup {i} /\ Len(pending') = Len(pending) + 1
             /\ IfOf(i) = f
             /\ num_pending' = U8(num_pending + 1)
             /\ num_pending_vif' = [num_pending_vif EXCEPT ![f] = U8(@ + 1)]
             /\ link_map_cache' = [link_map_cache EXCEPT ![f][LinkOf(i)] = @ - 1]
             /\ stats_num_queued' = [stats_num_queued EXCEPT ![f] = U8(@ - 1)]
             /\ data' = [id |-> PacketId(i), skb |-> pool[i].skb, gone |-> FALSE]
<1>1. PICK k \in 1 .. Len(queue) :
        /\ IfOf(queue[k]) = f /\ queue' = DropAt(queue, k)
        /\ pending' = Append(pending, queue[k])
        /\ num_pending' = U8(num_pending + 1)
        /\ num_pending_vif' = [num_pending_vif EXCEPT ![f] = U8(@ + 1)]
        /\ link_map_cache' = [link_map_cache EXCEPT ![f][LinkOf(queue[k])] = @ - 1]
        /\ stats_num_queued' = [stats_num_queued EXCEPT ![f] = U8(@ - 1)]
        /\ data' = [id |-> PacketId(queue[k]), skb |-> pool[queue[k]].skb, gone |-> FALSE]
  BY DEF Get
<1> DEFINE i == queue[k]
<1>2. free_pool' = free_pool
  BY DEF Get
<1>3. i \in Range(queue) /\ i \in Items /\ i \notin Range(pending)
  BY Elements DEF ListsOK
<1>4. queue' = SubSeq(queue, 1, k - 1) \o SubSeq(queue, k + 1, Len(queue))
  BY <1>1 DEF DropAt
<1>5. /\ queue' \in Seq(Items) /\ Len(queue') = Len(queue) - 1
      /\ Range(queue') = Range(queue) \ {i} /\ Once(queue')
  BY <1>4, OnceDrop, ZenonT(30) DEF ListsOK
<1>6. pending' = Append(pending, i)
  BY <1>1
<1> HIDE DEF i
<1>7. /\ pending' \in Seq(Items) /\ Len(pending') = Len(pending) + 1
      /\ Range(pending') = Range(pending) \cup {i} /\ Once(pending')
  BY <1>3, <1>6, OnceAppend DEF ListsOK
<1>8. ListsOK' /\ Held' = Held
  BY <1>2, <1>3, <1>5, <1>7 DEF ListsOK, Held
<1>9. QED
  BY <1>1, <1>3, <1>5, <1>7, <1>8 DEF i

\* atbmwifi_queue_remove moves a pending item to the free pool.
LEMMA RemoveMoves ==
    ASSUME ListsOK, NEW i \in Range(pending),
           queue' = Without(queue, i), pending' = Without(pending, i),
           free_pool' = <<i>> \o Without(free_pool, i)
    PROVE  /\ ListsOK' /\ Held' = Held \ {i} /\ queue' = queue
           /\ Range(pending') = Range(pending) \ {i} /\ Len(pending') = Len(pending) - 1
<1>1. i \in Items /\ i \notin Range(queue) /\ i \notin Range(free_pool)
  BY Elements DEF ListsOK
<1>2. queue' = queue /\ free_pool' = <<i>> \o free_pool
  BY <1>1, WithoutIsOff DEF ListsOK
<1>3. /\ pending' \in Seq(Items) /\ Once(pending') /\ Range(pending') = Range(pending) \ {i}
      /\ Len(pending') = Len(pending) - 1
  BY WithoutIsOff DEF ListsOK
<1>4. /\ free_pool' \in Seq(Items) /\ Once(free_pool')
      /\ Range(free_pool') = Range(free_pool) \cup {i}
  <2>1. free_pool \in Seq(Items) /\ Once(free_pool)
    BY DEF ListsOK
  <2>2. /\ <<i>> \o free_pool \in Seq(Items) /\ Once(<<i>> \o free_pool)
        /\ Range(<<i>> \o free_pool) = Range(free_pool) \cup {i}
    BY <1>1, <2>1, OncePrepend
  <2>3. QED
    BY <1>2, <2>2
<1>5. ListsOK' /\ Held' = Held \ {i}
  BY <1>1, <1>2, <1>3, <1>4 DEF ListsOK, Held
<1>6. QED
  BY <1>2, <1>3, <1>5

\* atbmwifi_queue_requeue moves a pending item to the head of the queue.
LEMMA RequeueMoves ==
    ASSUME ListsOK, NEW i \in Range(pending),
           queue' = <<i>> \o Without(queue, i), pending' = Without(pending, i),
           free_pool' = Without(free_pool, i)
    PROVE  /\ ListsOK' /\ Held' = Held /\ i \in Items /\ i \notin Range(queue)
           /\ Range(queue') = Range(queue) \cup {i} /\ Len(queue') = Len(queue) + 1
           /\ Range(pending') = Range(pending) \ {i} /\ Len(pending') = Len(pending) - 1
<1>1. i \in Items /\ i \notin Range(queue) /\ i \notin Range(free_pool)
  BY Elements DEF ListsOK
<1>2. queue' = <<i>> \o queue /\ free_pool' = free_pool
  BY <1>1, WithoutIsOff DEF ListsOK
<1>3. /\ pending' \in Seq(Items) /\ Once(pending') /\ Range(pending') = Range(pending) \ {i}
      /\ Len(pending') = Len(pending) - 1
  BY WithoutIsOff DEF ListsOK
<1>4. /\ queue' \in Seq(Items) /\ Once(queue') /\ Len(queue') = Len(queue) + 1
      /\ Range(queue') = Range(queue) \cup {i}
  <2>1. queue \in Seq(Items) /\ Once(queue)
    BY DEF ListsOK
  <2>2. /\ <<i>> \o queue \in Seq(Items) /\ Once(<<i>> \o queue)
        /\ Len(<<i>> \o queue) = Len(queue) + 1 /\ Range(<<i>> \o queue) = Range(queue) \cup {i}
    BY <1>1, <2>1, OncePrepend
  <2>3. QED
    BY <1>2, <2>2
<1>5. ListsOK' /\ Held' = Held
  BY <1>1, <1>2, <1>3, <1>4 DEF ListsOK, Held
<1>6. QED
  BY <1>1, <1>3, <1>4, <1>5

\* Expiry moves the first k items of the queue to the free pool.
LEMMA ExpiryMoves ==
    ASSUME ListsOK, NEW k \in 0 .. Len(queue), NEW gone, gone = SubSeq(queue, 1, k),
           queue' = SubSeq(queue, k + 1, Len(queue)), pending' = pending,
           free_pool' = free_pool \o gone
    PROVE  /\ ListsOK' /\ Held' = Held \ Range(gone) /\ Range(gone) \subseteq Range(queue)
           /\ gone \in Seq(Items) /\ Once(gone) /\ Len(gone) = k
           /\ Range(queue') = Range(queue) \ Range(gone) /\ Len(queue') = Len(queue) - k
<1>1. queue \in Seq(Items) /\ Once(queue) /\ Len(queue) \in Nat
  BY LenProperties DEF ListsOK
<1>2. gone \in Seq(Items) /\ Len(gone) = k /\ Range(gone) = {queue[j] : j \in 1 .. k} /\ Once(gone)
  <2>1. 1 \in Int /\ k \in Int /\ 1 <= 1 /\ k <= Len(queue) /\ 1 <= k + 1 /\ k - 1 + 1 = k
    BY <1>1
  <2>2. QED
    BY <1>1, <2>1, OnceCut
<1>3. /\ queue' \in Seq(Items) /\ Len(queue') = Len(queue) - (k + 1) + 1 /\ Once(queue')
      /\ Range(queue') = {queue[j] : j \in k + 1 .. Len(queue)}
  <2>1. k + 1 \in 1 .. Len(queue) + 1
    BY <1>1
  <2>2. QED
    BY <1>1, <2>1, OnceSuffix
<1>4. Range(queue) = {queue[j] : j \in 1 .. Len(queue)}
  BY <1>1, Elements
<1>5. Range(gone) \subseteq Range(queue)
  BY <1>1, <1>2, <1>4
<1>6. Range(queue') = Range(queue) \ Range(gone)
  <2>1. ASSUME NEW j \in 1 .. k, NEW m \in k + 1 .. Len(queue) PROVE queue[j] # queue[m]
    BY <1>1 DEF Once
  <2>2. ASSUME NEW j \in 1 .. Len(queue) PROVE j \in 1 .. k \/ j \in k + 1 .. Len(queue)
    BY <1>1
  <2>3. QED
    BY <1>1, <1>2, <1>3, <1>4, <2>1, <2>2
<1>7. /\ free_pool' \in Seq(Items) /\ Range(free_pool') = Range(free_pool) \cup Range(gone)
      /\ Once(free_pool')
  <2>1. Range(free_pool) \cap Range(gone) = {}
    BY <1>5 DEF ListsOK
  <2>2. QED
    BY <1>2, <2>1, OnceConcat, ZenonT(30) DEF ListsOK
<1>8. ListsOK' /\ Held' = Held \ Range(gone)
  <2>1. Range(queue) \subseteq Items
    BY <1>1, Elements
  <2>2. QED
    BY <1>3, <1>5, <1>6, <1>7, <2>1 DEF ListsOK, Held
<1>9. QED
  BY <1>1, <1>2, <1>3, <1>5, <1>6, <1>8

\* A clear moves all items to the free pool.
LEMMA ClearMoves ==
    ASSUME ListsOK, queue' = <<>>, pending' = <<>>, free_pool' = free_pool \o (pending \o queue)
    PROVE  /\ ListsOK' /\ Held' = {} /\ Range(pending \o queue) = Held
           /\ Len(pending \o queue) = Len(queue) + Len(pending)
           /\ Range(queue') = {} /\ Range(pending') = {} /\ Len(queue') = 0 /\ Len(pending') = 0
<1> DEFINE all == pending \o queue
<1>1. /\ all \in Seq(Items) /\ Range(all) = Range(pending) \cup Range(queue) /\ Once(all)
      /\ Len(all) = Len(pending) + Len(queue)
  BY OnceConcat DEF ListsOK
<1>2. free_pool' = free_pool \o all
  OBVIOUS
<1>3. Len(pending) \in Nat /\ Len(queue) \in Nat
  BY LenProperties DEF ListsOK
<1> HIDE DEF all
<1>4. Range(all) = Held
  BY <1>1 DEF Held
<1>5. /\ free_pool' \in Seq(Items) /\ Range(free_pool') = Range(free_pool) \cup Range(all)
      /\ Once(free_pool')
  <2>1. Range(free_pool) \cap Range(all) = {}
    BY <1>1 DEF ListsOK
  <2>2. QED
    BY <1>1, <1>2, <2>1, OnceConcat DEF ListsOK
<1>6. Range(queue') = {} /\ Range(pending') = {} /\ Once(queue') /\ Once(pending')
      /\ Len(queue') = 0 /\ Len(pending') = 0
  BY OnceEmpty
<1>7. queue' \in Seq(Items) /\ pending' \in Seq(Items)
  OBVIOUS
<1>8. Range(free_pool) \cup Range(all) = Items
  <2>1. Range(pending) \subseteq Items /\ Range(queue) \subseteq Items
    BY Elements DEF ListsOK
  <2>2. QED
    BY <1>4, <2>1 DEF ListsOK, Held
<1>9. ListsOK' /\ Held' = {}
  BY <1>5, <1>6, <1>7, <1>8 DEF ListsOK, Held
<1>10. QED
  BY <1>1, <1>3, <1>4, <1>6, <1>9 DEF all

-----------------------------------------------------------------------------
(* What keeps the parts of the invariant.                                   *)

\* A packet id that is out is valid when its queue generation is current.
LEMMA KnownIds ==
    ASSUME ListsOK, ConfirmOK, NEW e \in Out
    PROVE  /\ e \in Entries
           /\ IdValid(e.id) <=> e.id.qgen = generation
           /\ IdValid(e.id) => /\ e.id.item \in Range(pending) /\ e.id.item \in Items
                               /\ pool[e.id.item].generation = e.id.igen
                               /\ pool[e.id.item].if_id = e.id.if_id
                               /\ pool[e.id.item].skb = e.skb
<1>1. e \in Entries
  BY DEF ConfirmOK, HandsOK, Out
<1>2. Range(pending) \subseteq Items
  BY Elements DEF ListsOK
<1>3. \A i \in Items : i < Capacity
  BY PoolSize DEF Items
<1>4. QED
  BY <1>1, <1>2, <1>3 DEF ConfirmOK, IdValid

\* Fewer packet ids are out and their frames are what they were.
LEMMA ConfirmKept ==
    ASSUME ConfirmOK, HandsOK', Apart', Out' \subseteq Out, generation' = generation,
           \A e \in Out' : e.id.qgen = generation =>
             /\ e.id.item \in Range(pending')
             /\ pool'[e.id.item].generation = pool[e.id.item].generation
             /\ pool'[e.id.item].if_id = pool[e.id.item].if_id
             /\ pool'[e.id.item].skb = pool[e.id.item].skb
    PROVE  ConfirmOK'
<1> DEFINE OutNext == Out'
<1>1. generation' \in 0 .. 15
  BY DEF ConfirmOK
<1>2. \A e \in OutNext : e \in Out /\ e.id.qgen <= generation'
  BY DEF ConfirmOK
<1>3. \A e \in OutNext : e.id.qgen = generation' =>
        /\ e.id.item \in Range(pending')
        /\ pool'[e.id.item].generation = e.id.igen
        /\ pool'[e.id.item].if_id = e.id.if_id
        /\ pool'[e.id.item].skb = e.skb
  BY <1>2 DEF ConfirmOK
<1>4. \A d, e \in OutNext :
        d.id.qgen = generation' /\ e.id.qgen = generation' /\ d.id.item = e.id.item => d = e
  BY <1>2 DEF ConfirmOK
<1>5. QED
  BY <1>1, <1>2, <1>3, <1>4 DEF ConfirmOK

\* Nobody takes or gives up a packet id.
LEMMA HandsStay ==
    ASSUME ConfirmOK, UNCHANGED <<bh, fw, cb>>
    PROVE  HandsOK' /\ Apart' /\ Out' = Out
  BY DEF ConfirmOK, HandsOK, Apart, Out, bh

\* The firmware's answer to e is taken: by nobody, or by a confirm.
LEMMA AnswerTaken ==
    ASSUME ConfirmOK, NEW e \in fw, cb = None, fw' = fw \ {e}, cb' \in {e, None},
           data' = data, need_confirm' \in {need_confirm, Dangling}
    PROVE  /\ HandsOK' /\ Apart' /\ Out' \subseteq Out
           /\ cb' = None => e \notin Out'
<1>1. HandsOK'
  BY DEF ConfirmOK, HandsOK
<1>2. Apart'
  BY DEF ConfirmOK, Apart
<1>3. Out' \subseteq Out
  BY DEF Out
<1>4. cb' = None => e \notin Out'
  <2>1. data # None => data # e
    BY DEF ConfirmOK, Apart
  <2>2. QED
    BY <2>1 DEF Out
<1>5. QED
  BY <1>1, <1>2, <1>3, <1>4

\* The packet id of a frame the queue holds, as atbmwifi_queue_get makes it:
\* no field is too narrow for what it carries.
LEMMA FreshIds ==
    ASSUME OwnersOK, ConfirmOK, NEW i \in Held, i \in Items,
           NEW n, n = [id |-> PacketId(i), skb |-> pool[i].skb, gone |-> FALSE]
    PROVE  /\ n.id.qgen = generation /\ n.id.igen = pool[i].generation /\ n.id.item = i
           /\ n.id.if_id = pool[i].if_id /\ n.skb = pool[i].skb /\ n \in Entries
<1>1. /\ pool[i].skb \in Skbs /\ pool[i].if_id \in Vifs /\ pool[i].generation \in 0 .. 255
      /\ generation \in 0 .. 15
  BY DEF OwnersOK, ConfirmOK, ItemRec
<1>2. /\ n.id.qgen = generation /\ n.id.igen = pool[i].generation /\ n.id.item = i
      /\ n.id.if_id = pool[i].if_id
  <2>1. generation % 16 = generation
    BY <1>1
  <2>2. pool[i].generation % 256 = pool[i].generation
    BY <1>1
  <2>3. i % 256 = i
    <3>1. i \in 0 .. 255
      <4>1. i \in 0 .. Capacity - 1
        BY DEF Items
      <4>2. QED
        BY <4>1, CapacityAssumption
    <3>2. QED
      BY <3>1
  <2>4. pool[i].if_id % 16 = pool[i].if_id
    <3>1. pool[i].if_id \in 0 .. 15
      BY <1>1, BoundsAssumption
    <3>2. QED
      BY <3>1
  <2>5. n.id = MakePacketId(generation, pool[i].generation, i, pool[i].if_id)
    BY DEF PacketId
  <2>6. QED
    BY <2>1, <2>2, <2>3, <2>4, <2>5 DEF MakePacketId
<1>3. n.id \in PacketIds
  <2>1. n.id = [qgen |-> n.id.qgen, igen |-> n.id.igen, item |-> n.id.item, if_id |-> n.id.if_id]
    BY DEF PacketId, MakePacketId
  <2>2. QED
    BY <1>1, <1>2, <2>1 DEF PacketIds
<1>4. n \in Entries
  <2>1. n = [id |-> n.id, skb |-> n.skb, gone |-> n.gone] /\ n.skb = pool[i].skb /\ ~n.gone
    OBVIOUS
  <2>2. QED
    BY <1>1, <1>3, <2>1 DEF Entries
<1>5. QED
  BY <1>2, <1>4

\* Nothing of the pool changes.
LEMMA PoolKept ==
    ASSUME ListsOK, OwnersOK, CountsOK, UNCHANGED <<lists, pool, history, counters>>
    PROVE  ListsOK' /\ OwnersOK' /\ CountsOK'
<1>1. ListsOK' /\ Held' = Held
  BY ListsStay
<1>2. OwnersOK'
  BY <1>1 DEF OwnersOK, history
<1>3. CountsOK'
  BY ZenonT(30) DEF CountsOK, Wait, Sent, WaitOn, Ours, OursOn, IfOf, LinkOf, lists, counters
<1>4. QED
  BY <1>1, <1>2, <1>3

\* Stopping and starting the network queue counts by one.
LEMMA StopCount ==
    ASSUME tx_locked_cnt \in 0 .. 254
    PROVE  /\ QueueLock => tx_locked_cnt' = tx_locked_cnt + 1
           /\ QueueUnlock /\ tx_locked_cnt > 0 => tx_locked_cnt' = tx_locked_cnt - 1
  BY InWidth DEF QueueLock, QueueUnlock

\* It is never near the width of its counter.
LEMMA StopsFit == ConfirmOK /\ LocksOK => tx_locked_cnt \in 0 .. 17 /\ leaked \in 0 .. 15
  BY DEF ConfirmOK, LocksOK, LockBalance

\* The locks stay as they are.
LEMMA LocksKept ==
    ASSUME LocksOK, UNCHANGED <<locks, flushing, generation>>, num_queued' = num_queued
    PROVE  LocksOK'
  BY DEF LocksOK, LockBalance, locks

\* The timer stays as it is, and no frame of generation 0 joins the queue.
LEMMA ExpiryKept ==
    ASSUME ExpiryOK, UNCHANGED expiry, hung' \in BOOLEAN,
           \A i \in Range(queue') : pool'[i].generation = 0 => i \in Range(queue) /\ pool[i].generation = 0
    PROVE  ExpiryOK'
  BY DEF ExpiryOK, expiry

\* What the pool holds fits in a counter.
LEMMA QueuedFits ==
    ASSUME ListsOK, CountsOK
    PROVE  num_queued \in 0 .. 255
<1>1. /\ Len(queue) \in Nat /\ Len(pending) \in Nat /\ Len(queue) + Len(pending) <= 255
      /\ num_queued = Len(queue) + Len(pending)
  BY ListsFill, CardsFit DEF CountsOK
<1>2. num_queued \in Nat /\ num_queued <= 255
  BY <1>1
<1>3. QED
  BY <1>2

\* The variables keep their types.
LEMMA QueueTypes == QueueOK /\ misled \in BOOLEAN => TypeOK
<1> SUFFICES ASSUME QueueOK, misled \in BOOLEAN PROVE TypeOK
  OBVIOUS
<1>0. ListsOK /\ OwnersOK /\ ConfirmOK /\ CountsOK /\ LocksOK /\ ExpiryOK
  BY DEF QueueOK
<1>1. num_queued \in 0 .. 255
  BY <1>0, QueuedFits
<1>2. tx_locked_cnt \in 0 .. 255 /\ leaked \in Nat
  <2>1. tx_locked_cnt \in 0 .. 17 /\ leaked \in 0 .. 15
    BY <1>0, StopsFit
  <2>2. QED
    BY <2>1
<1>3. {num_queued, num_pending, tx_locked_cnt} \subseteq 0 .. 255
  BY <1>0, <1>1, <1>2 DEF CountsOK
<1>4. {overfull, queuedFlag, timerLost, hung, badFree, misled} \subseteq BOOLEAN
  BY <1>0 DEF OwnersOK, LocksOK, ExpiryOK
<1>5. live \subseteq Skbs
  BY <1>0 DEF OwnersOK
<1>6. pool \in [Items -> [skb : Skbs \cup {None}, if_id : Vifs \cup {0},
                          link_id : Links \cup {0}, generation : 0 .. 255, old : BOOLEAN]]
  BY <1>0 DEF OwnersOK, ItemRec
<1>7. QED
  BY <1>0, <1>2, <1>3, <1>4, <1>5, <1>6
  DEF TypeOK, ListsOK, ConfirmOK, HandsOK, CountsOK, LocksOK, ExpiryOK

\* What is left of the invariant once an answer has hit, part by part.
LEMMA HitTypes ==
    ASSUME ListsOK', pool' \in [Items -> ItemRec], badFree' = FALSE, live' \subseteq Skbs,
           /\ num_queued_vif' \in [Vifs -> 0 .. 255] /\ num_pending_vif' \in [Vifs -> 0 .. 255]
           /\ stats_num_queued' \in [Vifs -> 0 .. 255] /\ link_map_cache' \in [Vifs -> [Links -> Nat]]
           /\ num_pending' \in 0 .. 255 /\ num_queued' \in 0 .. 255,
           LockBalance', overfull' \in BOOLEAN, tx_locked_cnt' \in 0 .. 255, leaked' \in Nat,
           ExpiryOK', HandsOK', misled' = TRUE, flushing' \in Vifs \cup {None},
           generation' \in 0 .. 15
    PROVE  HitOK'
<1>1. {num_queued', num_pending', tx_locked_cnt'} \subseteq 0 .. 255
  OBVIOUS
<1>2. {overfull', queuedFlag', timerLost', hung', badFree', misled'} \subseteq BOOLEAN
  BY DEF ExpiryOK
<1>3. pool' \in [Items -> [skb : Skbs \cup {None}, if_id : Vifs \cup {0},
                           link_id : Links \cup {0}, generation : 0 .. 255, old : BOOLEAN]]
  BY DEF ItemRec
<1>4. TypeOK'
  BY <1>1, <1>2, <1>3 DEF TypeOK, ListsOK, HandsOK, ExpiryOK
<1>5. QED
  BY <1>4 DEF HitOK

-----------------------------------------------------------------------------
(* The invariant is inductive: one lemma per operation.                     *)

LEMMA PutStep ==
    ASSUME QueueOK, NEW f \in Vifs, NEW l \in Links, NEW s \in Skbs, Put(f, l, s)
    PROVE  QueueOK'
<1>0. ListsOK /\ OwnersOK /\ ConfirmOK /\ CountsOK /\ LocksOK /\ ExpiryOK
  BY DEF QueueOK
<1> DEFINE frame == [skb |-> s, if_id |-> f, link_id |-> l, generation |-> 0, old |-> FALSE]
<1>1. PICK i \in Items :
        /\ ListsOK' /\ i \notin Held /\ Held' = Held \cup {i}
        /\ Range(queue') = Range(queue) \cup {i} /\ Len(queue') = Len(queue) + 1
        /\ pool' = [pool EXCEPT ![i] = frame]
  BY <1>0, PutMoves
<1>2. pending' = pending /\ free_pool # <<>>
  BY DEF Put
<1>3. pool \in [Items -> ItemRec] /\ frame \in ItemRec
  BY <1>0 DEF OwnersOK, ItemRec
<1>4. pool' \in [Items -> ItemRec] /\ pool'[i] = frame /\ \A j \in Items \ {i} : pool'[j] = pool[j]
  BY <1>1, <1>3
<1>5. Held \subseteq Items
  BY <1>0, Elements DEF ListsOK, Held
<1>6. OwnersOK'
  <2>1. \A j \in Held : pool'[j] = pool[j] /\ j # i /\ pool[j].skb # s
    BY <1>0, <1>1, <1>4, <1>5 DEF OwnersOK, Put
  <2>2. pool'[i].skb = s /\ pool'[i].if_id = f /\ pool'[i].link_id = l
    BY <1>4
  <2>3. live' = {pool'[j].skb : j \in Held \cup {i}}
    BY <1>0, <2>1, <2>2 DEF OwnersOK, Put
  <2>4. \A j \in Held \cup {i} :
          pool'[j].skb \in Skbs /\ pool'[j].if_id \in Vifs /\ pool'[j].link_id \in Links
    BY <1>0, <2>1, <2>2 DEF OwnersOK
  <2>5. \A j, k \in Held \cup {i} : pool'[j].skb = pool'[k].skb => j = k
    BY <1>0, <2>1, <2>2 DEF OwnersOK
  <2>6. \A j \in Items \ (Held \cup {i}) : pool'[j].skb = None
    BY <1>0, <1>4 DEF OwnersOK
  <2>7. badFree' = FALSE
    BY <1>0 DEF OwnersOK, Put
  <2>8. QED
    BY <1>1, <1>4, <2>3, <2>4, <2>5, <2>6, <2>7 DEF OwnersOK
<1>7. ConfirmOK'
  <2>1. UNCHANGED <<bh, fw, cb>> /\ generation' = generation
    BY DEF Put, answers
  <2>2. \A e \in Out : e.id.qgen = generation =>
          e.id.item \in Range(pending') /\ pool'[e.id.item] = pool[e.id.item]
    BY <1>0, <1>1, <1>2, <1>4, <1>5 DEF ConfirmOK, Held
  <2>3. HandsOK' /\ Apart' /\ Out' = Out
    BY <1>0, <2>1, HandsStay
  <2>4. QED
    BY <1>0, <2>1, <2>2, <2>3, ConfirmKept
<1>8. CountsOK'
  <2>0. /\ Len(queue) \in Nat /\ Len(pending) \in Nat /\ Len(queue) + Len(pending) < 255
        /\ Range(queue) \subseteq Held /\ Range(pending) \subseteq Held
    <3>1. Len(free_pool) > 0
      BY <1>0, <1>2, EmptySeq DEF ListsOK
    <3>2. QED
      BY <1>0, <3>1, ListsFill, PoolSize DEF Held
  <2>1. ASSUME NEW g \in Vifs, NEW m \in Links
        PROVE  /\ Wait(g)' = IF g = f THEN Wait(g) \cup {i} ELSE Wait(g)
               /\ Sent(g)' = Sent(g)
               /\ WaitOn(g, m)' = IF g = f /\ m = l THEN WaitOn(g, m) \cup {i} ELSE WaitOn(g, m)
               /\ i \notin Wait(g) /\ i \notin WaitOn(g, m)
    <3>1. \A j \in Held : pool'[j] = pool[j]
      BY <1>1, <1>4, <1>5
    <3>2. pool'[i].if_id = f /\ pool'[i].link_id = l
      BY <1>4
    <3>3. QED
      BY <1>1, <1>2, <2>0, <3>1, <3>2 DEF Wait, WaitOn, Sent, Ours, OursOn, IfOf, LinkOf
  <2>2. ASSUME NEW g \in Vifs, NEW m \in Links
        PROVE  /\ Cardinality(Wait(g))' = Cardinality(Wait(g)) + IF g = f THEN 1 ELSE 0
               /\ Cardinality(Sent(g))' = Cardinality(Sent(g))
               /\ Cardinality(WaitOn(g, m))'
                    = Cardinality(WaitOn(g, m)) + IF g = f /\ m = l THEN 1 ELSE 0
    <3>1. /\ IsFiniteSet(Wait(g)) /\ IsFiniteSet(WaitOn(g, m))
          /\ Cardinality(Wait(g)) \in Nat /\ Cardinality(WaitOn(g, m)) \in Nat
      BY <1>0, CardsFit
    <3>2. QED
      BY <2>1, <3>1, OneMore
  <2>3. ASSUME NEW g \in Vifs
        PROVE  /\ Cardinality(Wait(g)) \in Nat /\ Cardinality(Sent(g)) \in Nat
               /\ Cardinality(Wait(g)) + Cardinality(Sent(g)) < 255
    <3>1. /\ Cardinality(Wait(g)) \in Nat /\ Cardinality(Sent(g)) \in Nat
          /\ Cardinality(Wait(g)) + Cardinality(Sent(g)) <= Len(queue) + Len(pending)
      BY <1>0, CardsFit
    <3>2. QED
      BY <2>0, <3>1
  <2>4. /\ num_queued' = U8(num_queued + 1) /\ num_pending' = num_pending
        /\ num_queued_vif' = [num_queued_vif EXCEPT ![f] = U8(@ + 1)]
        /\ num_pending_vif' = num_pending_vif
        /\ link_map_cache' = [link_map_cache EXCEPT ![f][l] = @ + 1]
        /\ stats_num_queued' = [stats_num_queued EXCEPT ![f] = U8(@ + 1)]
    BY DEF Put
  <2>5. num_queued' = Len(queue') + Len(pending')
    <3>1. num_queued = Len(queue) + Len(pending)
      BY <1>0 DEF CountsOK
    <3>2. num_queued \in Nat /\ num_queued + 1 <= 255
      BY <2>0, <3>1
    <3>3. U8(num_queued + 1) = Len(queue) + Len(pending) + 1
      BY <3>1, <3>2, InWidth
    <3>4. QED
      BY <1>1, <1>2, <2>0, <2>4, <3>3
  <2>6. /\ num_queued_vif \in [Vifs -> 0 .. 255] /\ num_pending_vif \in [Vifs -> 0 .. 255]
        /\ stats_num_queued \in [Vifs -> 0 .. 255] /\ link_map_cache \in [Vifs -> [Links -> Nat]]
    BY <1>0 DEF CountsOK
  <2>7. /\ num_queued_vif' \in [Vifs -> 0 .. 255] /\ num_pending_vif' \in [Vifs -> 0 .. 255]
        /\ stats_num_queued' \in [Vifs -> 0 .. 255] /\ link_map_cache' \in [Vifs -> [Links -> Nat]]
    <3>1. \A n \in 0 .. 255 : U8(n + 1) \in 0 .. 255
      BY Byte
    <3>2. \A n \in Nat : n + 1 \in Nat
      OBVIOUS
    <3>3. num_queued_vif' \in [Vifs -> 0 .. 255] /\ stats_num_queued' \in [Vifs -> 0 .. 255]
      BY <2>4, <2>6, <3>1
    <3>4. link_map_cache' \in [Vifs -> [Links -> Nat]]
      BY <2>4, <2>6, <3>2
    <3>5. QED
      BY <2>4, <2>6, <3>3, <3>4
  <2>8. ASSUME NEW g \in Vifs, NEW m \in Links
        PROVE  /\ num_queued_vif'[g] = Cardinality(Wait(g))' + Cardinality(Sent(g))'
               /\ num_pending_vif'[g] = Cardinality(Sent(g))'
               /\ stats_num_queued'[g] = Cardinality(Wait(g))'
               /\ link_map_cache'[g][m] = Cardinality(WaitOn(g, m))'
    <3>1. /\ num_queued_vif[g] = Cardinality(Wait(g)) + Cardinality(Sent(g))
          /\ num_pending_vif[g] = Cardinality(Sent(g))
          /\ stats_num_queued[g] = Cardinality(Wait(g))
          /\ link_map_cache[g][m] = Cardinality(WaitOn(g, m))
      BY <1>0 DEF CountsOK
    <3>2. /\ num_queued_vif'[g] = IF g = f THEN U8(num_queued_vif[g] + 1) ELSE num_queued_vif[g]
          /\ stats_num_queued'[g] = IF g = f THEN U8(stats_num_queued[g] + 1) ELSE stats_num_queued[g]
          /\ link_map_cache'[g][m] = link_map_cache[g][m] + IF g = f /\ m = l THEN 1 ELSE 0
      BY <2>4, <2>6
    <3>3. /\ U8(num_queued_vif[g] + 1) = num_queued_vif[g] + 1
          /\ U8(stats_num_queued[g] + 1) = stats_num_queued[g] + 1
      <4>1. /\ num_queued_vif[g] \in Nat /\ num_queued_vif[g] + 1 <= 255
            /\ stats_num_queued[g] \in Nat /\ stats_num_queued[g] + 1 <= 255
        BY <2>3, <3>1
      <4>2. QED
        BY <4>1, InWidth
    <3>4. QED
      BY <2>2, <2>3, <2>4, <3>1, <3>2, <3>3
  <2>9. ASSUME NEW g \in Vifs
        PROVE  /\ num_queued_vif'[g] = Cardinality(Wait(g))' + Cardinality(Sent(g))'
               /\ num_pending_vif'[g] = Cardinality(Sent(g))'
               /\ stats_num_queued'[g] = Cardinality(Wait(g))'
    BY <2>8
  <2>10. num_pending' \in 0 .. 255
    BY <1>0, <2>4 DEF CountsOK
  <2>11. QED
    BY <2>5, <2>7, <2>8, <2>9, <2>10 DEF CountsOK
<1>9. LocksOK'
  <2>1. num_queued' = num_queued + 1 /\ num_queued \in Nat
    <3>1. /\ Len(queue) \in Nat /\ Len(pending) \in Nat /\ Len(queue) + Len(pending) <= Capacity
          /\ Len(queue') = Len(queue) + 1 /\ Len(pending') = Len(pending)
      BY <1>0, <1>1, <1>2, ListsFill
    <3>2. num_queued' = Len(queue') + Len(pending') /\ num_queued = Len(queue) + Len(pending)
      BY <1>0, <1>8 DEF CountsOK
    <3>3. QED
      BY <3>1, <3>2
  <2>2. UNCHANGED <<flushing, generation, leaked>>
    BY DEF Put
  <2>3. CASE ~overfull /\ num_queued' >= Capacity - 1
    <3>1. overfull' = TRUE /\ QueueLock
      BY <2>3 DEF Put
    <3>2. tx_locked_cnt \in 0 .. 17
      BY <1>0, StopsFit
    <3>3. tx_locked_cnt' = tx_locked_cnt + 1
      BY <3>1, <3>2, StopCount
    <3>4. QED
      BY <1>0, <2>1, <2>2, <2>3, <3>1, <3>2, <3>3, PoolSize DEF LocksOK, LockBalance
  <2>4. CASE ~(~overfull /\ num_queued' >= Capacity - 1)
    BY <1>0, <2>1, <2>2, <2>4, PoolSize DEF Put, LocksOK, LockBalance
  <2>5. QED
    BY <2>3, <2>4
<1>10. ExpiryOK'
  <2>1. UNCHANGED <<timeoutPc, hung>> /\ (queuedFlag' /\ queuedFlag' \in BOOLEAN)
    BY <1>0 DEF ExpiryOK, Put, RegisterTimeout
  <2>2. timers' \in 0 .. TimerSlots /\ timerLost' \in BOOLEAN /\ (timers' > 0 \/ timerLost')
    <3>1. CASE queuedFlag
      BY <1>0, <3>1 DEF ExpiryOK, Put
    <3>2. CASE ~queuedFlag
      <4>1. \/ timers < TimerSlots /\ timers' = timers + 1 /\ timerLost' = timerLost
            \/ timers' = timers /\ timerLost' = TRUE
        BY <3>2 DEF Put, RegisterTimeout
      <4>2. timers \in 0 .. TimerSlots /\ timerLost \in BOOLEAN /\ TimerSlots \in Nat
        BY <1>0, BoundsAssumption DEF ExpiryOK
      <4>3. timers' \in 0 .. TimerSlots /\ (timers' > 0 \/ timerLost' = TRUE)
        BY <4>1, <4>2
      <4>4. timerLost' \in BOOLEAN
        BY <4>1, <4>2
      <4>5. QED
        BY <4>3, <4>4
    <3>3. QED
      BY <3>1, <3>2
  <2>3. QED
    BY <1>0, <2>1, <2>2 DEF ExpiryOK
<1>11. QED
  BY <1>1, <1>6, <1>7, <1>8, <1>9, <1>10 DEF QueueOK

LEMMA GetStep ==
    ASSUME QueueOK, NEW f \in Vifs, NEW mask \in SUBSET Links, Get(f, mask)
    PROVE  QueueOK'
<1>0. ListsOK /\ OwnersOK /\ ConfirmOK /\ CountsOK /\ LocksOK /\ ExpiryOK
  BY DEF QueueOK
<1>1. PICK i \in Range(queue) :
        /\ ListsOK' /\ Held' = Held /\ i \in Items /\ i \notin Range(pending)
        /\ Range(queue') = Range(queue) \ {i} /\ Len(queue') = Len(queue) - 1
        /\ Range(pending') = Range(pending) \cup {i} /\ Len(pending') = Len(pending) + 1
        /\ IfOf(i) = f
        /\ num_pending' = U8(num_pending + 1)
        /\ num_pending_vif' = [num_pending_vif EXCEPT ![f] = U8(@ + 1)]
        /\ link_map_cache' = [link_map_cache EXCEPT ![f][LinkOf(i)] = @ - 1]
        /\ stats_num_queued' = [stats_num_queued EXCEPT ![f] = U8(@ - 1)]
        /\ data' = [id |-> PacketId(i), skb |-> pool[i].skb, gone |-> FALSE]
  BY <1>0, GetMoves
<1>2. UNCHANGED <<pool, num_queued, num_queued_vif, generation, locks, expiry, fw, cb, flushing,
                  hung, history>> /\ data = None /\ need_confirm' = None
  BY DEF Get, answers
<1>3. i \in Held /\ pool[i].skb \in Skbs /\ pool[i].if_id \in Vifs /\ pool[i].link_id \in Links
      /\ pool[i].generation \in 0 .. 255
  BY <1>0, <1>1 DEF OwnersOK, Held, ItemRec
<1>4. OwnersOK'
  BY <1>0, <1>1, <1>2 DEF OwnersOK, history
<1>5. ConfirmOK'
  <2> DEFINE n == [id |-> PacketId(i), skb |-> pool[i].skb, gone |-> FALSE]
  <2>1. /\ n.id.qgen = generation /\ n.id.igen = pool[i].generation /\ n.id.item = i
        /\ n.id.if_id = pool[i].if_id /\ n.skb = pool[i].skb /\ n \in Entries
    BY <1>0, <1>1, <1>3, FreshIds
  <2>2. ~n.gone
    OBVIOUS
  <2>3. fw' = fw /\ cb' = cb /\ data' = n /\ generation' = generation
    BY <1>1, <1>2
  <2> HIDE DEF n
  <2>4. Out' \subseteq Out \cup {n}
    BY <2>3 DEF Out
  <2>5. \A e \in Out : e.id.qgen = generation => e.id.item # i
    BY <1>0, <1>1 DEF ConfirmOK
  <2>6. n \notin Out /\ n \notin fw /\ (n # None => n # cb)
    <3>1. n \notin Out
      BY <2>1, <2>5
    <3>2. QED
      BY <2>2, <3>1 DEF Out
  <2>7. \A e \in Out' :
         /\ e.id.qgen <= generation
         /\ e.id.qgen = generation =>
              /\ e.id.item \in Range(pending')
              /\ pool[e.id.item].generation = e.id.igen
              /\ pool[e.id.item].if_id = e.id.if_id
              /\ pool[e.id.item].skb = e.skb
    <3>1. generation <= generation
      BY <1>0 DEF ConfirmOK
    <3>2. QED
      BY <1>0, <1>1, <2>1, <2>4, <3>1 DEF ConfirmOK
  <2>8. \A d, e \in Out' :
         d.id.qgen = generation /\ e.id.qgen = generation /\ d.id.item = e.id.item => d = e
    BY <1>0, <2>1, <2>4, <2>5 DEF ConfirmOK
  <2>9. HandsOK' /\ Apart'
    <3>1. HandsOK'
      BY <1>0, <1>2, <2>1, <2>3 DEF ConfirmOK, HandsOK
    <3>2. Apart'
      BY <1>0, <2>2, <2>3, <2>6 DEF ConfirmOK, Apart
    <3>3. QED
      BY <3>1, <3>2
  <2>10. QED
    BY <1>0, <1>2, <2>7, <2>8, <2>9 DEF ConfirmOK
<1>6. CountsOK'
  <2>1. ASSUME NEW g \in Vifs, NEW m \in Links
        PROVE  /\ Wait(g)' = IF g = f THEN Wait(g) \ {i} ELSE Wait(g)
               /\ Sent(g)' = IF g = f THEN Sent(g) \cup {i} ELSE Sent(g)
               /\ WaitOn(g, m)' = IF g = f /\ m = LinkOf(i) THEN WaitOn(g, m) \ {i} ELSE WaitOn(g, m)
               /\ i \notin Sent(g)
               /\ g = f => i \in Wait(g)
               /\ g = f /\ m = LinkOf(i) => i \in WaitOn(g, m)
    BY <1>1, <1>2 DEF Wait, WaitOn, Sent, Ours, OursOn, IfOf, LinkOf
  <2>2. ASSUME NEW g \in Vifs, NEW m \in Links
        PROVE  /\ IsFiniteSet(Wait(g)) /\ IsFiniteSet(Sent(g)) /\ IsFiniteSet(WaitOn(g, m))
               /\ Cardinality(Wait(g)) \in Nat /\ Cardinality(Sent(g)) \in Nat
               /\ Cardinality(WaitOn(g, m)) \in Nat
               /\ Cardinality(Wait(g)) + Cardinality(Sent(g)) <= 255
    <3>1. /\ Cardinality(Wait(g)) + Cardinality(Sent(g)) <= Len(queue) + Len(pending)
          /\ Len(queue) + Len(pending) <= 255
      BY <1>0, CardsFit
    <3>2. Len(queue) \in Nat /\ Len(pending) \in Nat
      BY <1>0, ListsFill
    <3>3. /\ IsFiniteSet(Wait(g)) /\ IsFiniteSet(Sent(g)) /\ IsFiniteSet(WaitOn(g, m))
          /\ Cardinality(Wait(g)) \in Nat /\ Cardinality(Sent(g)) \in Nat
          /\ Cardinality(WaitOn(g, m)) \in Nat
      BY <1>0, CardsFit
    <3>4. QED
      BY <3>1, <3>2, <3>3
  <2>3. ASSUME NEW g \in Vifs, NEW m \in Links
        PROVE  /\ Cardinality(Wait(g))' = Cardinality(Wait(g)) - IF g = f THEN 1 ELSE 0
               /\ Cardinality(Sent(g))' = Cardinality(Sent(g)) + IF g = f THEN 1 ELSE 0
               /\ Cardinality(WaitOn(g, m))'
                    = Cardinality(WaitOn(g, m)) - IF g = f /\ m = LinkOf(i) THEN 1 ELSE 0
               /\ g = f => Cardinality(Wait(g)) > 0
               /\ g = f /\ m = LinkOf(i) => Cardinality(WaitOn(g, m)) > 0
    <3>1. CASE g = f
      <4>1. /\ Cardinality(Wait(g) \ {i}) = Cardinality(Wait(g)) - 1 /\ Cardinality(Wait(g)) > 0
            /\ Cardinality(Sent(g) \cup {i}) = Cardinality(Sent(g)) + 1
        BY <2>1, <2>2, <3>1, OneMore, OneLess
      <4>2. m = LinkOf(i) => /\ Cardinality(WaitOn(g, m) \ {i}) = Cardinality(WaitOn(g, m)) - 1
                             /\ Cardinality(WaitOn(g, m)) > 0
        BY <2>1, <2>2, <3>1, OneLess
      <4>3. /\ Wait(g)' = Wait(g) \ {i} /\ Sent(g)' = Sent(g) \cup {i}
            /\ WaitOn(g, m)' = IF m = LinkOf(i) THEN WaitOn(g, m) \ {i} ELSE WaitOn(g, m)
        BY <2>1, <3>1
      <4>4. Cardinality(WaitOn(g, m))'
              = IF m = LinkOf(i) THEN Cardinality(WaitOn(g, m)) - 1 ELSE Cardinality(WaitOn(g, m))
        BY <4>2, <4>3
      <4>5. QED
        BY <2>2, <3>1, <4>1, <4>2, <4>3, <4>4
    <3>2. CASE g # f
      BY <2>1, <2>2, <3>2
    <3>3. QED
      BY <3>1, <3>2
  <2>4. /\ num_queued_vif \in [Vifs -> 0 .. 255] /\ num_pending_vif \in [Vifs -> 0 .. 255]
        /\ stats_num_queued \in [Vifs -> 0 .. 255] /\ link_map_cache \in [Vifs -> [Links -> Nat]]
        /\ LinkOf(i) \in Links
    BY <1>0, <1>3 DEF CountsOK, LinkOf
  <2>5. ASSUME NEW g \in Vifs, NEW m \in Links
        PROVE  /\ num_queued_vif'[g] = Cardinality(Wait(g))' + Cardinality(Sent(g))'
               /\ num_pending_vif'[g] = Cardinality(Sent(g))'
               /\ stats_num_queued'[g] = Cardinality(Wait(g))'
               /\ link_map_cache'[g][m] = Cardinality(WaitOn(g, m))'
    <3>1. /\ num_queued_vif[g] = Cardinality(Wait(g)) + Cardinality(Sent(g))
          /\ num_pending_vif[g] = Cardinality(Sent(g))
          /\ stats_num_queued[g] = Cardinality(Wait(g))
          /\ link_map_cache[g][m] = Cardinality(WaitOn(g, m))
      BY <1>0 DEF CountsOK
    <3>2. /\ num_queued_vif'[g] = num_queued_vif[g]
          /\ num_pending_vif'[g] = IF g = f THEN U8(num_pending_vif[g] + 1) ELSE num_pending_vif[g]
          /\ stats_num_queued'[g] = IF g = f THEN U8(stats_num_queued[g] - 1) ELSE stats_num_queued[g]
          /\ link_map_cache'[g][m]
               = IF g = f /\ m = LinkOf(i) THEN link_map_cache[g][m] - 1 ELSE link_map_cache[g][m]
      BY <1>1, <1>2, <2>4
    <3>3. g = f => /\ num_pending_vif[g] \in Nat /\ num_pending_vif[g] + 1 <= 255
                   /\ stats_num_queued[g] - 1 \in Nat /\ stats_num_queued[g] - 1 <= 255
      BY <2>2, <2>3, <3>1
    <3>4. g = f => /\ U8(num_pending_vif[g] + 1) = num_pending_vif[g] + 1
                   /\ U8(stats_num_queued[g] - 1) = stats_num_queued[g] - 1
      BY <3>3, InWidth
    <3>5. QED
      BY <2>2, <2>3, <3>1, <3>2, <3>4
  <2>6. ASSUME NEW g \in Vifs
        PROVE  /\ num_queued_vif'[g] = Cardinality(Wait(g))' + Cardinality(Sent(g))'
               /\ num_pending_vif'[g] = Cardinality(Sent(g))'
               /\ stats_num_queued'[g] = Cardinality(Wait(g))'
    BY <2>4, <2>5
  <2>7. /\ num_queued_vif' \in [Vifs -> 0 .. 255] /\ num_pending_vif' \in [Vifs -> 0 .. 255]
        /\ stats_num_queued' \in [Vifs -> 0 .. 255] /\ link_map_cache' \in [Vifs -> [Links -> Nat]]
    <3>1. \A n \in 0 .. 255 : U8(n + 1) \in 0 .. 255 /\ U8(n - 1) \in 0 .. 255
      BY Byte
    <3>2. num_pending_vif' \in [Vifs -> 0 .. 255] /\ stats_num_queued' \in [Vifs -> 0 .. 255]
      BY <1>1, <2>4, <3>1, ZenonT(30)
    <3>3. link_map_cache[f][LinkOf(i)] - 1 \in Nat
      BY <1>0, <1>1, <1>3, <2>2, <2>3 DEF CountsOK, IfOf, LinkOf
    <3>4. link_map_cache' \in [Vifs -> [Links -> Nat]]
      BY <1>1, <2>4, <3>3
    <3>5. QED
      BY <1>2, <2>4, <3>2, <3>4
  <2>8. num_queued' = Len(queue') + Len(pending')
    <3>1. num_queued = Len(queue) + Len(pending)
      BY <1>0 DEF CountsOK
    <3>2. Len(queue) \in Nat /\ Len(pending) \in Nat
      BY <1>0, ListsFill
    <3>3. QED
      BY <1>1, <1>2, <3>1, <3>2
  <2>9. num_pending' \in 0 .. 255
    <3>1. num_pending \in 0 .. 255
      BY <1>0 DEF CountsOK
    <3>2. num_pending + 1 \in Int
      BY <3>1
    <3>3. QED
      BY <1>1, <3>2, Byte
  <2>10. QED
    BY <2>5, <2>6, <2>7, <2>8, <2>9 DEF CountsOK
<1>7. LocksOK'
  BY <1>0, <1>2, LocksKept
<1>8. ExpiryOK'
  <2>1. hung' \in BOOLEAN
    BY <1>0, <1>2 DEF ExpiryOK
  <2>2. QED
    BY <1>0, <1>1, <1>2, <2>1, ExpiryKept
<1>9. QED
  BY <1>1, <1>4, <1>5, <1>6, <1>7, <1>8 DEF QueueOK

\* atbmwifi_queue_remove for a packet id that is out, and then is not.
LEMMA RemoveStep ==
    ASSUME QueueOK, NEW e \in Out, Remove(e),
           HandsOK', Apart', Out' \subseteq Out, e \notin Out',
           UNCHANGED <<generation, expiry, flushing, hung>>
    PROVE  QueueOK'
<1>0. ListsOK /\ OwnersOK /\ ConfirmOK /\ CountsOK /\ LocksOK /\ ExpiryOK
  BY DEF QueueOK
<1> DEFINE OutNext == Out'
<1>1. OutNext \subseteq Out /\ e \notin OutNext /\ generation' = generation /\ HandsOK' /\ Apart'
  OBVIOUS
<1>2. CASE ~IdValid(e.id)
  <2>1. UNCHANGED <<lists, pool, counters, locks, history>>
    BY <1>2 DEF Remove
  <2>2. ListsOK' /\ OwnersOK' /\ CountsOK'
    BY <1>0, <2>1, PoolKept
  <2>3. ConfirmOK'
    <3>1. \A d \in OutNext : d.id.qgen = generation =>
            d.id.item \in Range(pending') /\ pool'[d.id.item] = pool[d.id.item]
      BY <1>0, <1>1, <2>1 DEF ConfirmOK, lists
    <3>2. QED
      BY <1>0, <1>1, <3>1, ConfirmKept
  <2>4. LocksOK'
    BY <1>0, <2>1, LocksKept DEF counters
  <2>5. ExpiryOK'
    <3>1. queue' = queue /\ pool' = pool /\ hung' \in BOOLEAN
      BY <1>0, <2>1 DEF lists, ExpiryOK
    <3>2. QED
      BY <1>0, <3>1, ExpiryKept
  <2>6. QED
    BY <2>2, <2>3, <2>4, <2>5 DEF QueueOK
<1>3. CASE IdValid(e.id)
  <2> DEFINE i == e.id.item
             f == e.id.if_id
  <2>1. /\ i \in Range(pending) /\ i \in Items /\ e.id.qgen = generation
        /\ IfOf(i) = f /\ pool[i].skb = e.skb
    BY <1>0, <1>3, KnownIds DEF IfOf
  <2>2. /\ Free({pool[i].skb} \ {None})
        /\ pool' = [pool EXCEPT ![i] = Freed(U8(@.generation + 1))]
        /\ Unpend(f)
        /\ num_queued' = U8(num_queued - 1)
        /\ num_queued_vif' = [num_queued_vif EXCEPT ![f] = U8(@ - 1)]
        /\ queue' = Without(queue, i)
        /\ pending' = Without(pending, i)
        /\ free_pool' = <<i>> \o Without(free_pool, i)
        /\ IF overfull /\ HalfDrained
             THEN overfull' = FALSE /\ QueueUnlock
             ELSE UNCHANGED <<overfull, tx_locked_cnt>>
        /\ UNCHANGED <<link_map_cache, stats_num_queued, leaked>>
    BY <1>3 DEF Remove
  <2> HIDE DEF i, f
  <2>3. /\ ListsOK' /\ Held' = Held \ {i} /\ queue' = queue
        /\ Range(pending') = Range(pending) \ {i} /\ Len(pending') = Len(pending) - 1
    BY <1>0, <2>1, <2>2, RemoveMoves
  <2>4. i \in Held /\ f \in Vifs /\ Held \subseteq Items /\ i \notin Range(queue)
        /\ Range(queue) \subseteq Held /\ Range(pending) \subseteq Held
    <3>1. i \in Held /\ i \notin Range(queue)
      BY <1>0, <2>1 DEF Held, ListsOK
    <3>2. Held \subseteq Items
      BY <1>0, Elements DEF Held, ListsOK
    <3>3. QED
      BY <1>0, <2>1, <3>1, <3>2 DEF OwnersOK, IfOf, Held
  <2>5. pool' \in [Items -> ItemRec] /\ pool'[i].skb = None
        /\ \A j \in Items \ {i} : pool'[j] = pool[j]
    <3>1. pool \in [Items -> ItemRec]
      BY <1>0 DEF OwnersOK
    <3>2. pool[i].generation + 1 \in Int
      BY <2>1, <3>1 DEF ItemRec
    <3>3. Freed(U8(pool[i].generation + 1)) \in ItemRec
      BY <3>2, Byte DEF Freed, ItemRec
    <3>4. pool' = [pool EXCEPT ![i] = Freed(U8(pool[i].generation + 1))]
      BY <2>2
    <3>5. pool'[i] = Freed(U8(pool[i].generation + 1))
      BY <2>1, <3>1, <3>4
    <3>6. QED
      BY <2>1, <3>1, <3>3, <3>4, <3>5 DEF Freed
  <2>6. OwnersOK'
    <3>1. \A j \in Held \ {i} : pool'[j] = pool[j]
      BY <2>4, <2>5
    <3>2. pool[i].skb \in live /\ {pool[i].skb} \ {None} = {pool[i].skb}
      <4>1. pool[i].skb \in live /\ pool[i].skb \in Skbs
        BY <1>0, <2>4 DEF OwnersOK
      <4>2. QED
        BY <4>1, BoundsAssumption
    <3>3. badFree' = FALSE /\ live' = live \ {pool[i].skb}
      BY <1>0, <2>2, <3>2 DEF OwnersOK, Free
    <3>4. live' = {pool'[j].skb : j \in Held \ {i}}
      BY <1>0, <2>4, <3>1, <3>3 DEF OwnersOK
    <3>5. \A j \in Held \ {i} :
            pool'[j].skb \in Skbs /\ pool'[j].if_id \in Vifs /\ pool'[j].link_id \in Links
      BY <1>0, <3>1 DEF OwnersOK
    <3>6. \A j, k \in Held \ {i} : pool'[j].skb = pool'[k].skb => j = k
      BY <1>0, <3>1 DEF OwnersOK
    <3>7. \A j \in Items \ (Held \ {i}) : pool'[j].skb = None
      BY <1>0, <2>5 DEF OwnersOK
    <3>8. QED
      BY <2>3, <2>5, <3>3, <3>4, <3>5, <3>6, <3>7 DEF OwnersOK
  <2>7. ConfirmOK'
    <3>1. ASSUME NEW d \in OutNext, d.id.qgen = generation
          PROVE  d.id.item \in Range(pending') /\ pool'[d.id.item] = pool[d.id.item]
      <4>1. d \in Out /\ d # e /\ d.id.item \in Range(pending)
        BY <1>0, <1>1, <3>1 DEF ConfirmOK
      <4>2. d.id.item # i
        BY <1>0, <2>1, <3>1, <4>1 DEF ConfirmOK, i
      <4>3. QED
        BY <2>3, <2>4, <2>5, <4>1, <4>2
    <3>2. QED
      BY <1>0, <1>1, <3>1, ConfirmKept
  <2>8. CountsOK'
    <3>1. ASSUME NEW g \in Vifs, NEW m \in Links
          PROVE  /\ Wait(g)' = Wait(g) /\ WaitOn(g, m)' = WaitOn(g, m)
                 /\ Sent(g)' = IF g = f THEN Sent(g) \ {i} ELSE Sent(g)
                 /\ g = f => i \in Sent(g)
      <4>1. \A j \in Held \ {i} : pool'[j] = pool[j]
        BY <2>4, <2>5
      <4>2. QED
        BY <2>1, <2>3, <2>4, <4>1 DEF Wait, WaitOn, Sent, Ours, OursOn, IfOf, LinkOf
    <3>2. ASSUME NEW g \in Vifs
          PROVE  /\ IsFiniteSet(Sent(g)) /\ Cardinality(Wait(g)) \in Nat /\ Cardinality(Sent(g)) \in Nat
                 /\ Cardinality(Wait(g)) + Cardinality(Sent(g)) <= 255
      <4>1. /\ Cardinality(Wait(g)) + Cardinality(Sent(g)) <= Len(queue) + Len(pending)
            /\ Len(queue) + Len(pending) <= 255
        BY <1>0, CardsFit
      <4>2. Len(queue) \in Nat /\ Len(pending) \in Nat
        BY <1>0, ListsFill
      <4>3. IsFiniteSet(Sent(g)) /\ Cardinality(Wait(g)) \in Nat /\ Cardinality(Sent(g)) \in Nat
        BY <1>0, CardsFit
      <4>4. QED
        BY <4>1, <4>2, <4>3
    <3>3. ASSUME NEW g \in Vifs, g = f
          PROVE  Cardinality(Sent(g) \ {i}) = Cardinality(Sent(g)) - 1 /\ Cardinality(Sent(g)) > 0
      <4>1. i \in Sent(g) /\ IsFiniteSet(Sent(g))
        BY <2>1, <3>2, <3>3 DEF Sent, Ours
      <4>2. QED
        BY <4>1, OneLess
    <3>4. /\ num_queued_vif \in [Vifs -> 0 .. 255] /\ num_pending_vif \in [Vifs -> 0 .. 255]
          /\ stats_num_queued \in [Vifs -> 0 .. 255] /\ link_map_cache \in [Vifs -> [Links -> Nat]]
          /\ num_pending \in 0 .. 255 /\ num_queued = Len(queue) + Len(pending)
      BY <1>0 DEF CountsOK
    <3>5. num_queued_vif' \in [Vifs -> 0 .. 255] /\ num_pending_vif' \in [Vifs -> 0 .. 255]
          /\ stats_num_queued' \in [Vifs -> 0 .. 255] /\ link_map_cache' \in [Vifs -> [Links -> Nat]]
      <4>1. \A n \in 0 .. 255 : U8(n - 1) \in 0 .. 255
        BY Byte
      <4>2. QED
        BY <2>2, <3>4, <4>1, ZenonT(30) DEF Unpend
    <3>6. ASSUME NEW g \in Vifs
          PROVE  /\ num_queued_vif'[g] = Cardinality(Wait(g))' + Cardinality(Sent(g))'
                 /\ num_pending_vif'[g] = Cardinality(Sent(g))'
      <4>1. /\ num_queued_vif[g] = Cardinality(Wait(g)) + Cardinality(Sent(g))
            /\ num_pending_vif[g] = Cardinality(Sent(g))
        BY <1>0 DEF CountsOK
      <4>2. /\ num_queued_vif'[g] = IF g = f THEN U8(num_queued_vif[g] - 1) ELSE num_queued_vif[g]
            /\ num_pending_vif'[g] = IF g = f THEN U8(num_pending_vif[g] - 1) ELSE num_pending_vif[g]
        BY <2>2, <3>4 DEF Unpend
      <4>3. /\ Sent(g)' = IF g = f THEN Sent(g) \ {i} ELSE Sent(g)
            /\ Wait(g)' = Wait(g)
        <5>1. \A j \in Held \ {i} : pool'[j] = pool[j]
          BY <2>4, <2>5
        <5>2. QED
          BY <2>1, <2>3, <2>4, <5>1 DEF Wait, Sent, Ours, IfOf
      <4>4. CASE g = f
        <5>1. /\ Cardinality(Sent(g) \ {i}) = Cardinality(Sent(g)) - 1 /\ Cardinality(Sent(g)) > 0
          BY <3>3, <4>4
        <5>2. /\ num_queued_vif[g] - 1 \in Nat /\ num_queued_vif[g] - 1 <= 255
              /\ num_pending_vif[g] - 1 \in Nat /\ num_pending_vif[g] - 1 <= 255
          BY <3>2, <4>1, <5>1
        <5>3. /\ U8(num_queued_vif[g] - 1) = num_queued_vif[g] - 1
              /\ U8(num_pending_vif[g] - 1) = num_pending_vif[g] - 1
          BY <5>2, InWidth
        <5>4. QED
          BY <3>2, <4>1, <4>2, <4>3, <4>4, <5>1, <5>3
      <4>5. CASE g # f
        BY <4>1, <4>2, <4>3, <4>5
      <4>6. QED
        BY <4>4, <4>5
    <3>7. ASSUME NEW g \in Vifs
          PROVE  /\ stats_num_queued'[g] = Cardinality(Wait(g))'
                 /\ \A m \in Links : link_map_cache'[g][m] = Cardinality(WaitOn(g, m))'
      <4>1. /\ stats_num_queued[g] = Cardinality(Wait(g))
            /\ \A m \in Links : link_map_cache[g][m] = Cardinality(WaitOn(g, m))
        BY <1>0 DEF CountsOK
      <4>2. \A m \in Links : Wait(g)' = Wait(g) /\ WaitOn(g, m)' = WaitOn(g, m)
        BY <3>1
      <4>3. Wait(g)' = Wait(g)
        <5>1. \A j \in Held \ {i} : pool'[j] = pool[j]
          BY <2>4, <2>5
        <5>2. QED
          BY <2>3, <2>4, <5>1 DEF Wait, Ours, IfOf
      <4>4. QED
        BY <2>2, <4>1, <4>2, <4>3
    <3>8. num_queued' = Len(queue') + Len(pending')
      <4>1. Len(queue) \in Nat /\ Len(pending) \in Nat /\ Len(queue) + Len(pending) <= 255
        BY <1>0, ListsFill, CardsFit
      <4>2. Len(pending) > 0
        BY <1>0, <2>1, OnceEmpty, EmptySeq DEF ListsOK
      <4>3. num_queued - 1 \in Nat /\ num_queued - 1 <= 255
        BY <3>4, <4>1, <4>2
      <4>4. U8(num_queued - 1) = num_queued - 1
        BY <4>3, InWidth
      <4>5. QED
        BY <2>2, <2>3, <3>4, <4>1, <4>4
    <3>9. num_pending' \in 0 .. 255
      <4>1. num_pending - 1 \in Int
        BY <3>4
      <4>2. QED
        BY <2>2, <4>1, Byte DEF Unpend
    <3>10. QED
      BY <3>5, <3>6, <3>7, <3>8, <3>9 DEF CountsOK
  <2>9. LocksOK'
    <3>1. tx_locked_cnt \in 0 .. 17
      BY <1>0, StopsFit
    <3>2. CASE overfull /\ HalfDrained
      <4>1. overfull' = FALSE /\ QueueUnlock
        BY <2>2, <3>2
      <4>2. tx_locked_cnt > 0
        BY <1>0, <3>1, <3>2 DEF LocksOK, LockBalance
      <4>3. tx_locked_cnt' = tx_locked_cnt - 1
        BY <3>1, <4>1, <4>2, StopCount
      <4>4. /\ tx_locked_cnt = 1 + (IF flushing # None THEN 1 ELSE 0) + leaked
            /\ leaked \in 0 .. 15 /\ leaked \in 0 .. generation /\ flushing \in Vifs \cup {None}
        BY <1>0, <3>2, StopsFit DEF LocksOK, LockBalance
      <4>5. leaked' = leaked /\ flushing' = flushing /\ generation' = generation
        BY <2>2
      <4>6. tx_locked_cnt' = (IF flushing' # None THEN 1 ELSE 0) + leaked'
        BY <3>1, <4>3, <4>4, <4>5
      <4>7. LockBalance'
        BY <4>1, <4>4, <4>5, <4>6 DEF LockBalance
      <4>8. QED
        BY <4>1, <4>4, <4>5, <4>7 DEF LocksOK
    <3>3. CASE ~(overfull /\ HalfDrained)
      <4>1. overfull' = overfull /\ tx_locked_cnt' = tx_locked_cnt
        BY <2>2, <3>3
      <4>2. overfull => num_queued' > Capacity \div 2
        <5>1. num_queued' \in 0 .. 255
          <6>1. num_queued - 1 \in Int
            BY <1>0, ListsFill DEF CountsOK
          <6>2. QED
            BY <2>2, <6>1, Byte
        <5>2. QED
          BY <3>3, <5>1, PoolSize DEF HalfDrained
      <4>3. QED
        BY <1>0, <2>2, <4>1, <4>2 DEF LocksOK, LockBalance
    <3>4. QED
      BY <3>2, <3>3
  <2>10. ExpiryOK'
    <3>1. queue' = queue /\ hung' \in BOOLEAN
      BY <1>0, <2>3 DEF ExpiryOK
    <3>2. \A j \in Range(queue) : pool'[j] = pool[j]
      BY <2>4, <2>5
    <3>3. QED
      BY <1>0, <3>1, <3>2, ExpiryKept
  <2>11. QED
    BY <2>3, <2>6, <2>7, <2>8, <2>9, <2>10 DEF QueueOK
<1>4. QED
  BY <1>2, <1>3

\* atbmwifi_queue_requeue for a packet id that is out.
LEMMA RequeueStep ==
    ASSUME QueueOK, NEW e \in fw, Requeue(e), ~e.gone \/ ~IdValid(e.id)
    PROVE  QueueOK'
<1>0. ListsOK /\ OwnersOK /\ ConfirmOK /\ CountsOK /\ LocksOK /\ ExpiryOK
  BY DEF QueueOK
<1> DEFINE OutNext == Out'
<1>1. UNCHANGED <<generation, locks, expiry, flushing, hung, history>>
  BY DEF Requeue
<1>2. HandsOK' /\ Apart' /\ OutNext \subseteq Out /\ e \notin OutNext
  <2>1. /\ cb = None /\ fw' = fw \ {e} /\ cb' = cb /\ data' = data
        /\ need_confirm' \in {need_confirm, Dangling}
    BY DEF Requeue, Outlives
  <2>2. QED
    BY <1>0, <2>1, AnswerTaken
<1>3. CASE ~IdValid(e.id)
  <2>1. UNCHANGED <<lists, pool, counters>>
    BY <1>3 DEF Requeue
  <2>2. ListsOK' /\ OwnersOK' /\ CountsOK'
    BY <1>0, <1>1, <2>1, PoolKept
  <2>3. ConfirmOK'
    <3>1. \A d \in OutNext : d.id.qgen = generation =>
            d.id.item \in Range(pending') /\ pool'[d.id.item] = pool[d.id.item]
      BY <1>0, <1>2, <2>1 DEF ConfirmOK, lists
    <3>2. QED
      BY <1>0, <1>1, <1>2, <3>1, ConfirmKept
  <2>4. LocksOK'
    BY <1>0, <1>1, <2>1, LocksKept DEF counters
  <2>5. ExpiryOK'
    <3>1. queue' = queue /\ pool' = pool /\ hung' \in BOOLEAN
      BY <1>0, <1>1, <2>1 DEF lists, ExpiryOK
    <3>2. QED
      BY <1>0, <1>1, <3>1, ExpiryKept
  <2>6. QED
    BY <2>2, <2>3, <2>4, <2>5 DEF QueueOK
<1>4. CASE IdValid(e.id)
  <2> DEFINE i == e.id.item
             f == e.id.if_id
  <2>0. e \in Out
    BY <1>4 DEF Out
  <2>1. /\ i \in Range(pending) /\ i \in Items /\ e.id.qgen = generation
        /\ IfOf(i) = f /\ pool[i].skb = e.skb
    BY <1>0, <1>4, <2>0, KnownIds DEF IfOf
  <2>2. /\ pool[i].generation < MaxRequeue
        /\ Unpend(f)
        /\ link_map_cache' = [link_map_cache EXCEPT ![f][LinkOf(i)] = @ + 1]
        /\ stats_num_queued' = [stats_num_queued EXCEPT ![IfOf(i)] = U8(@ + 1)]
        /\ pool' = [pool EXCEPT ![i].generation = U8(@ + 1)]
        /\ queue' = <<i>> \o Without(queue, i)
        /\ pending' = Without(pending, i)
        /\ free_pool' = Without(free_pool, i)
        /\ UNCHANGED <<num_queued, num_queued_vif>>
    BY <1>4 DEF Requeue
  <2> HIDE DEF i, f
  <2>3. /\ ListsOK' /\ Held' = Held /\ i \notin Range(queue)
        /\ Range(queue') = Range(queue) \cup {i} /\ Len(queue') = Len(queue) + 1
        /\ Range(pending') = Range(pending) \ {i} /\ Len(pending') = Len(pending) - 1
    BY <1>0, <2>1, <2>2, RequeueMoves
  <2>4. /\ i \in Held /\ f \in Vifs /\ LinkOf(i) \in Links /\ Held \subseteq Items
        /\ Range(queue) \subseteq Held /\ Range(pending) \subseteq Held
    <3>1. i \in Held
      BY <2>1 DEF Held
    <3>2. Held \subseteq Items
      BY <1>0, Elements DEF Held, ListsOK
    <3>3. QED
      BY <1>0, <2>1, <3>1, <3>2 DEF OwnersOK, IfOf, LinkOf, Held
  <2>5. /\ pool' \in [Items -> ItemRec] /\ pool'[i].generation # 0
        /\ \A j \in Items \ {i} : pool'[j] = pool[j]
        /\ \A j \in Items : pool'[j].skb = pool[j].skb /\ pool'[j].if_id = pool[j].if_id
                            /\ pool'[j].link_id = pool[j].link_id
    <3>1. pool \in [Items -> ItemRec] /\ pool[i] \in ItemRec
      BY <1>0, <2>1 DEF OwnersOK
    <3>2. pool[i].generation + 1 \in 1 .. 255
      <4>1. pool[i].generation \in 0 .. 255 /\ pool[i].generation < MaxRequeue
        BY <2>2, <3>1 DEF ItemRec
      <4>2. MaxRequeue \in 0 .. 255
        BY BoundsAssumption
      <4>3. QED
        BY <4>1, <4>2
    <3>3. U8(pool[i].generation + 1) \in 1 .. 255
      BY <3>2, InWidth
    <3>4. pool' = [pool EXCEPT ![i] = [pool[i] EXCEPT !.generation = U8(pool[i].generation + 1)]]
      BY <2>1, <2>2, <3>1
    <3> DEFINE r == [pool[i] EXCEPT !.generation = U8(pool[i].generation + 1)]
    <3>5. /\ r \in ItemRec /\ r.generation # 0 /\ r.skb = pool[i].skb
          /\ r.if_id = pool[i].if_id /\ r.link_id = pool[i].link_id
      BY <3>1, <3>3 DEF ItemRec
    <3>6. pool' = [pool EXCEPT ![i] = r]
      BY <3>4
    <3> HIDE DEF r
    <3>7. QED
      BY <2>1, <3>1, <3>5, <3>6
  <2>6. OwnersOK'
    <3>1. live' = live /\ badFree' = badFree
      BY <1>1 DEF history
    <3>2. {pool'[j].skb : j \in Held} = {pool[j].skb : j \in Held}
      BY <2>4, <2>5
    <3>3. \A j \in Held :
            pool'[j].skb \in Skbs /\ pool'[j].if_id \in Vifs /\ pool'[j].link_id \in Links
      BY <1>0, <2>4, <2>5 DEF OwnersOK
    <3>4. \A j, k \in Held : pool'[j].skb = pool'[k].skb => j = k
      BY <1>0, <2>4, <2>5 DEF OwnersOK
    <3>5. \A j \in Items \ Held : pool'[j].skb = None
      BY <1>0, <2>5 DEF OwnersOK
    <3>6. QED
      BY <1>0, <2>3, <2>5, <3>1, <3>2, <3>3, <3>4, <3>5 DEF OwnersOK
  <2>7. ConfirmOK'
    <3>1. ASSUME NEW d \in OutNext, d.id.qgen = generation
          PROVE  d.id.item \in Range(pending') /\ pool'[d.id.item] = pool[d.id.item]
      <4>1. d \in Out /\ d # e /\ d.id.item \in Range(pending)
        BY <1>0, <1>2, <3>1 DEF ConfirmOK
      <4>2. d.id.item # i
        BY <1>0, <2>0, <2>1, <3>1, <4>1 DEF ConfirmOK, i
      <4>3. QED
        BY <2>3, <2>4, <2>5, <4>1, <4>2
    <3>2. QED
      BY <1>0, <1>1, <1>2, <3>1, ConfirmKept
  <2>8. CountsOK'
    <3>0. \A j \in Held : IfOf(j)' = IfOf(j) /\ LinkOf(j)' = LinkOf(j)
      BY <2>4, <2>5 DEF IfOf, LinkOf
    <3>1. ASSUME NEW g \in Vifs
          PROVE  /\ Wait(g)' = IF g = f THEN Wait(g) \cup {i} ELSE Wait(g)
                 /\ Sent(g)' = IF g = f THEN Sent(g) \ {i} ELSE Sent(g)
                 /\ i \notin Wait(g)
                 /\ g = f => i \in Sent(g)
      BY <2>1, <2>3, <2>4, <3>0 DEF Wait, Sent, Ours
    <3>2. ASSUME NEW g \in Vifs, NEW m \in Links
          PROVE  /\ WaitOn(g, m)' = IF g = f /\ m = LinkOf(i) THEN WaitOn(g, m) \cup {i} ELSE WaitOn(g, m)
                 /\ i \notin WaitOn(g, m)
      BY <2>1, <2>3, <2>4, <3>0 DEF WaitOn, OursOn
    <3>3. ASSUME NEW g \in Vifs
          PROVE  /\ IsFiniteSet(Wait(g)) /\ IsFiniteSet(Sent(g))
                 /\ Cardinality(Wait(g)) \in Nat /\ Cardinality(Sent(g)) \in Nat
                 /\ Cardinality(Wait(g)) + Cardinality(Sent(g)) <= 255
      <4>1. /\ Cardinality(Wait(g)) + Cardinality(Sent(g)) <= Len(queue) + Len(pending)
            /\ Len(queue) + Len(pending) <= 255
        BY <1>0, CardsFit
      <4>2. Len(queue) \in Nat /\ Len(pending) \in Nat
        BY <1>0, ListsFill
      <4>3. /\ IsFiniteSet(Wait(g)) /\ IsFiniteSet(Sent(g))
            /\ Cardinality(Wait(g)) \in Nat /\ Cardinality(Sent(g)) \in Nat
        BY <1>0, CardsFit
      <4>4. QED
        BY <4>1, <4>2, <4>3
    <3>4. ASSUME NEW g \in Vifs, NEW m \in Links
          PROVE  IsFiniteSet(WaitOn(g, m)) /\ Cardinality(WaitOn(g, m)) \in Nat
      BY <1>0, CardsFit
    <3>5. /\ num_queued_vif \in [Vifs -> 0 .. 255] /\ num_pending_vif \in [Vifs -> 0 .. 255]
          /\ stats_num_queued \in [Vifs -> 0 .. 255] /\ link_map_cache \in [Vifs -> [Links -> Nat]]
          /\ num_pending \in 0 .. 255 /\ num_queued = Len(queue) + Len(pending)
      BY <1>0 DEF CountsOK
    <3>6. num_queued_vif' \in [Vifs -> 0 .. 255] /\ num_pending_vif' \in [Vifs -> 0 .. 255]
          /\ stats_num_queued' \in [Vifs -> 0 .. 255] /\ link_map_cache' \in [Vifs -> [Links -> Nat]]
      <4>1. \A n \in 0 .. 255 : U8(n - 1) \in 0 .. 255 /\ U8(n + 1) \in 0 .. 255
        BY Byte
      <4>2. num_pending_vif' \in [Vifs -> 0 .. 255] /\ stats_num_queued' \in [Vifs -> 0 .. 255]
        BY <2>2, <3>5, <4>1, ZenonT(30) DEF Unpend
      <4>3. \A n \in Nat : n + 1 \in Nat
        OBVIOUS
      <4>4. link_map_cache' \in [Vifs -> [Links -> Nat]]
        BY <2>2, <2>4, <3>5, <4>3
      <4>5. QED
        BY <2>2, <3>5, <4>2, <4>4
    <3>7. ASSUME NEW g \in Vifs
          PROVE  /\ num_queued_vif'[g] = Cardinality(Wait(g))' + Cardinality(Sent(g))'
                 /\ num_pending_vif'[g] = Cardinality(Sent(g))'
                 /\ stats_num_queued'[g] = Cardinality(Wait(g))'
      <4>1. /\ num_queued_vif[g] = Cardinality(Wait(g)) + Cardinality(Sent(g))
            /\ num_pending_vif[g] = Cardinality(Sent(g))
            /\ stats_num_queued[g] = Cardinality(Wait(g))
        BY <1>0 DEF CountsOK
      <4>2. /\ num_queued_vif'[g] = num_queued_vif[g]
            /\ num_pending_vif'[g] = IF g = f THEN U8(num_pending_vif[g] - 1) ELSE num_pending_vif[g]
            /\ stats_num_queued'[g]
                 = IF g = f THEN U8(stats_num_queued[g] + 1) ELSE stats_num_queued[g]
        BY <2>1, <2>2, <3>5 DEF Unpend
      <4>3. CASE g = f
        <5>1. /\ Cardinality(Wait(g) \cup {i}) = Cardinality(Wait(g)) + 1
              /\ Cardinality(Sent(g) \ {i}) = Cardinality(Sent(g)) - 1 /\ Cardinality(Sent(g)) > 0
          BY <3>1, <3>3, <4>3, OneMore, OneLess
        <5>2. /\ stats_num_queued[g] + 1 \in Nat /\ stats_num_queued[g] + 1 <= 255
              /\ num_pending_vif[g] - 1 \in Nat /\ num_pending_vif[g] - 1 <= 255
          BY <3>3, <4>1, <5>1
        <5>3. /\ U8(stats_num_queued[g] + 1) = stats_num_queued[g] + 1
              /\ U8(num_pending_vif[g] - 1) = num_pending_vif[g] - 1
          BY <5>2, InWidth
        <5>4. Wait(g)' = Wait(g) \cup {i} /\ Sent(g)' = Sent(g) \ {i}
          BY <3>1, <4>3
        <5>5. QED
          BY <3>3, <4>1, <4>2, <4>3, <5>1, <5>3, <5>4
      <4>4. CASE g # f
        <5>1. Wait(g)' = Wait(g) /\ Sent(g)' = Sent(g)
          BY <3>1, <4>4
        <5>2. QED
          BY <4>1, <4>2, <4>4, <5>1
      <4>5. QED
        BY <4>3, <4>4
    <3>8. ASSUME NEW g \in Vifs, NEW m \in Links
          PROVE  link_map_cache'[g][m] = Cardinality(WaitOn(g, m))'
      <4>1. link_map_cache[g][m] = Cardinality(WaitOn(g, m))
        BY <1>0 DEF CountsOK
      <4>2. link_map_cache'[g][m]
              = IF g = f /\ m = LinkOf(i) THEN link_map_cache[g][m] + 1 ELSE link_map_cache[g][m]
        BY <2>2, <2>4, <3>5
      <4>3. Cardinality(WaitOn(g, m) \cup {i}) = Cardinality(WaitOn(g, m)) + 1
        BY <3>2, <3>4, OneMore
      <4>4. QED
        BY <3>2, <3>4, <4>1, <4>2, <4>3
    <3>9. num_queued' = Len(queue') + Len(pending')
      <4>1. Len(queue) \in Nat /\ Len(pending) \in Nat
        BY <1>0, ListsFill
      <4>2. Len(queue') = Len(queue) + 1 /\ Len(pending') = Len(pending) - 1
        BY <2>3
      <4>3. num_queued' = num_queued /\ num_queued = Len(queue) + Len(pending)
        BY <2>2, <3>5
      <4>4. QED
        BY <4>1, <4>2, <4>3
    <3>10. num_pending' \in 0 .. 255
      <4>1. num_pending - 1 \in Int
        BY <3>5
      <4>2. QED
        BY <2>2, <4>1, Byte DEF Unpend
    <3>11. QED
      BY <3>6, <3>7, <3>8, <3>9, <3>10 DEF CountsOK
  <2>9. LocksOK'
    BY <1>0, <1>1, <2>2, LocksKept
  <2>10. ExpiryOK'
    <3>1. hung' \in BOOLEAN
      BY <1>0, <1>1 DEF ExpiryOK
    <3>2. \A j \in Range(queue') :
            pool'[j].generation = 0 => j \in Range(queue) /\ pool[j].generation = 0
      BY <2>3, <2>4, <2>5
    <3>3. QED
      BY <1>0, <1>1, <3>1, <3>2, ExpiryKept
  <2>11. QED
    BY <2>3, <2>6, <2>7, <2>8, <2>9, <2>10 DEF QueueOK
<1>5. QED
  BY <1>3, <1>4

\* The frames get old: nothing that is kept count of changes.
LEMMA AgeStep == QueueOK /\ Age => QueueOK'
<1> SUFFICES ASSUME QueueOK, Age PROVE QueueOK'
  OBVIOUS
<1>0. ListsOK /\ OwnersOK /\ ConfirmOK /\ CountsOK /\ LocksOK /\ ExpiryOK
  BY DEF QueueOK
<1>1. UNCHANGED <<lists, counters, generation, locks, expiry, bh, fw, cb, flushing, hung, history>>
  BY DEF Age, answers
<1>2. pool \in [Items -> ItemRec]
  BY <1>0 DEF OwnersOK
<1>3. /\ pool' \in [Items -> ItemRec]
      /\ \A i \in Items : /\ pool'[i].skb = pool[i].skb /\ pool'[i].if_id = pool[i].if_id
                          /\ pool'[i].link_id = pool[i].link_id
                          /\ pool'[i].generation = pool[i].generation
  <2>1. ASSUME NEW r \in ItemRec
        PROVE  LET n == [r EXCEPT !.old = (r.skb # None)]
               IN /\ n \in ItemRec /\ n.skb = r.skb /\ n.if_id = r.if_id
                  /\ n.link_id = r.link_id /\ n.generation = r.generation
    <3> DEFINE n == [r EXCEPT !.old = (r.skb # None)]
    <3>1. (r.skb # None) \in BOOLEAN
      OBVIOUS
    <3>2. n \in ItemRec
      BY <3>1, ZenonT(30) DEF ItemRec
    <3>3. n.skb = r.skb /\ n.if_id = r.if_id
      BY ZenonT(30) DEF ItemRec
    <3>4. n.link_id = r.link_id /\ n.generation = r.generation
      BY ZenonT(30) DEF ItemRec
    <3>5. QED
      BY <3>2, <3>3, <3>4
  <2>2. pool' = [i \in Items |-> [pool[i] EXCEPT !.old = (pool[i].skb # None)]]
    BY DEF Age
  <2>3. \A i \in Items : pool[i] \in ItemRec
    BY <1>2
  <2>4. QED
    BY <2>1, <2>2, <2>3
<1>4. ListsOK' /\ Held' = Held
  BY <1>0, <1>1, ListsStay
<1>5. Range(queue) \subseteq Items /\ Range(pending) \subseteq Items /\ Held \subseteq Items
  BY <1>0, Elements DEF ListsOK, Held
<1>6. OwnersOK'
  <2>1. live' = live /\ badFree' = badFree
    BY <1>1 DEF history
  <2>2. {pool'[j].skb : j \in Held} = {pool[j].skb : j \in Held}
    BY <1>3, <1>5
  <2>3. \A j \in Held :
          pool'[j].skb \in Skbs /\ pool'[j].if_id \in Vifs /\ pool'[j].link_id \in Links
    BY <1>0, <1>3, <1>5 DEF OwnersOK
  <2>4. \A j, k \in Held : pool'[j].skb = pool'[k].skb => j = k
    BY <1>0, <1>3, <1>5 DEF OwnersOK
  <2>5. \A j \in Items \ Held : pool'[j].skb = None
    BY <1>0, <1>3 DEF OwnersOK
  <2>6. QED
    BY <1>0, <1>3, <1>4, <2>1, <2>2, <2>3, <2>4, <2>5 DEF OwnersOK
<1>7. ConfirmOK'
  <2>1. UNCHANGED <<bh, fw, cb>> /\ generation' = generation /\ pending' = pending
    BY <1>1 DEF lists
  <2>2. \A e \in Out : e.id.qgen = generation => e.id.item \in Range(pending') /\ e.id.item \in Items
    BY <1>0, <1>5, <2>1 DEF ConfirmOK
  <2>3. HandsOK' /\ Apart' /\ Out' = Out
    BY <1>0, <2>1, HandsStay
  <2>4. QED
    BY <1>0, <1>3, <2>1, <2>2, <2>3, ConfirmKept
<1>8. CountsOK'
  <2>1. \A g, m : Wait(g)' = Wait(g) /\ Sent(g)' = Sent(g) /\ WaitOn(g, m)' = WaitOn(g, m)
    BY <1>1, <1>3, <1>5 DEF Wait, Sent, WaitOn, Ours, OursOn, IfOf, LinkOf, lists
  <2>2. QED
    BY <1>0, <1>1, <2>1 DEF CountsOK, counters, lists
<1>9. LocksOK'
  BY <1>0, <1>1, LocksKept DEF counters
<1>10. ExpiryOK'
  <2>1. queue' = queue /\ hung' \in BOOLEAN
    BY <1>0, <1>1 DEF lists, ExpiryOK
  <2>2. QED
    BY <1>0, <1>1, <1>3, <1>5, <2>1, ExpiryKept
<1>11. QED
  BY <1>4, <1>6, <1>7, <1>8, <1>9, <1>10 DEF QueueOK

\* atbmwifi_queued_timeout frees the old frames at the head of the queue.
LEMMA TimeoutStep == QueueOK /\ TimeoutBody => QueueOK'
<1> SUFFICES ASSUME QueueOK, TimeoutBody PROVE QueueOK'
  OBVIOUS
<1>0. ListsOK /\ OwnersOK /\ ConfirmOK /\ CountsOK /\ LocksOK /\ ExpiryOK
  BY DEF QueueOK
<1>1. PICK k \in Nat : k \in 0 .. Len(queue) /\ TimeoutFrees(k)
  BY DEF TimeoutBody
<1> DEFINE gone == SubSeq(queue, 1, k)
<1>2. /\ Free({pool[i].skb : i \in Range(gone)})
      /\ pool' = [i \in Items |-> IF i \in Range(gone) THEN Freed(pool[i].generation) ELSE pool[i]]
      /\ queue' = SubSeq(queue, k + 1, Len(queue))
      /\ free_pool' = free_pool \o gone
      /\ num_queued' = U8(num_queued - k)
      /\ num_queued_vif' = [f \in Vifs |-> U8(num_queued_vif[f] - OfVif(gone, f))]
      /\ link_map_cache' = [f \in Vifs |-> [l \in Links |->
                                link_map_cache[f][l] - OfLink(gone, f, l)]]
      /\ stats_num_queued' = [f \in Vifs |-> U8(stats_num_queued[f] - OfVif(gone, f))]
      /\ IF overfull /\ HalfDrained
           THEN /\ overfull' = FALSE
                /\ IF k > 0 THEN QueueUnlock /\ UNCHANGED leaked
                            ELSE leaked' = leaked + 1 /\ UNCHANGED tx_locked_cnt
           ELSE UNCHANGED locks
  BY <1>1 DEF TimeoutFrees
<1>3. UNCHANGED <<pending, num_pending, num_pending_vif, generation, bh, fw, cb, flushing, hung>>
  BY DEF TimeoutBody, answers
<1>4. gone = SubSeq(queue, 1, k)
  OBVIOUS
<1> HIDE DEF gone
<1>5. /\ ListsOK' /\ Held' = Held \ Range(gone) /\ Range(gone) \subseteq Range(queue)
      /\ gone \in Seq(Items) /\ Once(gone) /\ Len(gone) = k
      /\ Range(queue') = Range(queue) \ Range(gone) /\ Len(queue') = Len(queue) - k
  BY <1>0, <1>1, <1>2, <1>3, <1>4, ExpiryMoves
<1>6. /\ Range(queue) \subseteq Held /\ Range(pending) \subseteq Held /\ Held \subseteq Items
      /\ Range(pending) \cap Range(gone) = {}
  <2>1. Range(queue) \subseteq Items /\ Range(pending) \subseteq Items
    BY <1>0, Elements DEF ListsOK
  <2>2. QED
    BY <1>0, <1>5, <2>1 DEF ListsOK, Held
<1>7. /\ pool' \in [Items -> ItemRec]
      /\ \A i \in Items : i \notin Range(gone) => pool'[i] = pool[i]
      /\ \A i \in Range(gone) : pool'[i].skb = None
  <2>1. pool \in [Items -> ItemRec]
    BY <1>0 DEF OwnersOK
  <2>2. \A i \in Items : Freed(pool[i].generation) \in ItemRec /\ Freed(pool[i].generation).skb = None
    BY <2>1 DEF Freed, ItemRec
  <2>3. QED
    BY <1>2, <1>5, <1>6, <2>1, <2>2
<1>8. \A i \in Held \ Range(gone) : pool'[i] = pool[i]
  BY <1>6, <1>7
<1>9. OwnersOK'
  <2>1. {pool[i].skb : i \in Range(gone)} \subseteq live
    BY <1>0, <1>5, <1>6 DEF OwnersOK
  <2>2. badFree' = FALSE /\ live' = live \ {pool[i].skb : i \in Range(gone)}
    BY <1>0, <1>2, <2>1 DEF OwnersOK, Free
  <2>3. \A j \in Held \ Range(gone) : pool[j].skb \notin {pool[i].skb : i \in Range(gone)}
    BY <1>0, <1>5, <1>6 DEF OwnersOK
  <2>4. live' = {pool[j].skb : j \in Held \ Range(gone)}
    BY <1>0, <2>2, <2>3 DEF OwnersOK
  <2>5. {pool'[j].skb : j \in Held \ Range(gone)} = {pool[j].skb : j \in Held \ Range(gone)}
    BY <1>8
  <2>6. \A j \in Held \ Range(gone) :
          pool'[j].skb \in Skbs /\ pool'[j].if_id \in Vifs /\ pool'[j].link_id \in Links
    BY <1>0, <1>8 DEF OwnersOK
  <2>7. \A j, i \in Held \ Range(gone) : pool'[j].skb = pool'[i].skb => j = i
    BY <1>0, <1>8 DEF OwnersOK
  <2>8. \A j \in Items \ (Held \ Range(gone)) : pool'[j].skb = None
    BY <1>0, <1>7 DEF OwnersOK
  <2>9. QED
    BY <1>5, <1>7, <2>2, <2>4, <2>5, <2>6, <2>7, <2>8 DEF OwnersOK
<1>10. ConfirmOK'
  <2>1. \A e \in Out : e.id.qgen = generation =>
          e.id.item \in Range(pending') /\ pool'[e.id.item] = pool[e.id.item]
    BY <1>0, <1>3, <1>6, <1>8 DEF ConfirmOK
  <2>2. HandsOK' /\ Apart' /\ Out' = Out
    BY <1>0, <1>3, HandsStay
  <2>3. QED
    BY <1>0, <1>3, <2>1, <2>2, ConfirmKept
<1>11. num_queued' = num_queued - k /\ num_queued' = Len(queue') + Len(pending')
       /\ num_queued \in Nat /\ num_queued' \in Nat
  <2>1. /\ Len(queue) \in Nat /\ Len(pending) \in Nat /\ Len(queue) + Len(pending) <= 255
        /\ k <= Len(queue)
    BY <1>0, <1>1, ListsFill, CardsFit
  <2>2. num_queued = Len(queue) + Len(pending)
    BY <1>0 DEF CountsOK
  <2>3. num_queued - k \in Nat /\ num_queued - k <= 255
    BY <2>1, <2>2
  <2>4. U8(num_queued - k) = num_queued - k
    BY <2>3, InWidth
  <2>5. Len(queue') = Len(queue) - k /\ pending' = pending /\ num_queued' = U8(num_queued - k)
    BY <1>2, <1>3, <1>5
  <2>6. QED
    BY <2>1, <2>2, <2>3, <2>4, <2>5
<1>12. CountsOK'
  <2>1. ASSUME NEW g, NEW m
        PROVE  /\ Wait(g)' = Wait(g) \ Ours(gone, g) /\ Ours(gone, g) \subseteq Wait(g)
               /\ Sent(g)' = Sent(g)
               /\ WaitOn(g, m)' = WaitOn(g, m) \ OursOn(gone, g, m)
               /\ OursOn(gone, g, m) \subseteq WaitOn(g, m)
    <3>1. \A i \in Range(queue') : i \in Range(queue) /\ i \notin Range(gone) /\ pool'[i] = pool[i]
      BY <1>5, <1>6, <1>8
    <3>2. pending' = pending /\ \A i \in Range(pending) : pool'[i] = pool[i]
      BY <1>3, <1>6, <1>8
    <3>3. \A i \in Range(queue) \ Range(gone) : i \in Range(queue')
      BY <1>5
    <3>4. QED
      BY <1>5, <3>1, <3>2, <3>3 DEF Wait, Sent, WaitOn, Ours, OursOn, IfOf, LinkOf
  <2>2. ASSUME NEW g \in Vifs, NEW m \in Links
        PROVE  /\ Cardinality(Wait(g))' = Cardinality(Wait(g)) - OfVif(gone, g)
               /\ Cardinality(WaitOn(g, m))' = Cardinality(WaitOn(g, m)) - OfLink(gone, g, m)
               /\ OfVif(gone, g) \in Nat /\ OfVif(gone, g) <= Cardinality(Wait(g))
               /\ OfLink(gone, g, m) \in Nat /\ OfLink(gone, g, m) <= Cardinality(WaitOn(g, m))
    <3>1. OfVif(gone, g) = Cardinality(Ours(gone, g)) /\ OfLink(gone, g, m) = Cardinality(OursOn(gone, g, m))
      BY <1>5, CountsAreCards
    <3>2. IsFiniteSet(Wait(g)) /\ IsFiniteSet(WaitOn(g, m))
      BY <1>0, CardsFit
    <3>3. /\ Cardinality(Wait(g) \ Ours(gone, g)) = Cardinality(Wait(g)) - Cardinality(Ours(gone, g))
          /\ Cardinality(Ours(gone, g)) \in Nat /\ Cardinality(Ours(gone, g)) <= Cardinality(Wait(g))
      BY <2>1, <3>2, PartLess
    <3>4. /\ Cardinality(WaitOn(g, m) \ OursOn(gone, g, m))
               = Cardinality(WaitOn(g, m)) - Cardinality(OursOn(gone, g, m))
          /\ Cardinality(OursOn(gone, g, m)) \in Nat
          /\ Cardinality(OursOn(gone, g, m)) <= Cardinality(WaitOn(g, m))
      BY <2>1, <3>2, PartLess
    <3>5. QED
      BY <2>1, <3>1, <3>3, <3>4
  <2>3. ASSUME NEW g \in Vifs
        PROVE  /\ Cardinality(Wait(g))' = Cardinality(Wait(g)) - OfVif(gone, g)
               /\ OfVif(gone, g) \in Nat /\ OfVif(gone, g) <= Cardinality(Wait(g))
    <3>1. OfVif(gone, g) = Cardinality(Ours(gone, g)) /\ IsFiniteSet(Wait(g))
      BY <1>0, <1>5, CountsAreCards, CardsFit
    <3>2. /\ Cardinality(Wait(g) \ Ours(gone, g)) = Cardinality(Wait(g)) - Cardinality(Ours(gone, g))
          /\ Cardinality(Ours(gone, g)) \in Nat /\ Cardinality(Ours(gone, g)) <= Cardinality(Wait(g))
      BY <2>1, <3>1, PartLess
    <3>3. QED
      BY <2>1, <3>1, <3>2
  <2>4. ASSUME NEW g \in Vifs
        PROVE  /\ num_queued_vif'[g] = Cardinality(Wait(g))' + Cardinality(Sent(g))'
               /\ num_pending_vif'[g] = Cardinality(Sent(g))'
               /\ stats_num_queued'[g] = Cardinality(Wait(g))'
               /\ num_queued_vif'[g] \in 0 .. 255 /\ stats_num_queued'[g] \in 0 .. 255
    <3>1. /\ num_queued_vif[g] = Cardinality(Wait(g)) + Cardinality(Sent(g))
          /\ num_pending_vif[g] = Cardinality(Sent(g))
          /\ stats_num_queued[g] = Cardinality(Wait(g))
          /\ num_queued_vif[g] \in 0 .. 255 /\ stats_num_queued[g] \in 0 .. 255
      BY <1>0 DEF CountsOK
    <3>2. Cardinality(Wait(g)) \in Nat /\ Cardinality(Sent(g)) \in Nat
      BY <1>0, CardsFit
    <3>3. /\ num_queued_vif[g] - OfVif(gone, g) \in Nat /\ num_queued_vif[g] - OfVif(gone, g) <= 255
          /\ stats_num_queued[g] - OfVif(gone, g) \in Nat /\ stats_num_queued[g] - OfVif(gone, g) <= 255
      <4>1. \A w, s, o \in Nat : o <= w /\ w + s <= 255 =>
              w + s - o \in Nat /\ w + s - o <= 255 /\ w - o \in Nat /\ w - o <= 255
        OBVIOUS
      <4>2. OfVif(gone, g) \in Nat /\ OfVif(gone, g) <= Cardinality(Wait(g))
        BY <2>3
      <4>3. Cardinality(Wait(g)) + Cardinality(Sent(g)) <= 255
        <5>1. num_queued_vif[g] = Cardinality(Wait(g)) + Cardinality(Sent(g))
          BY <3>1
        <5>2. num_queued_vif[g] \in 0 .. 255
          BY <3>1
        <5>3. QED
          BY <3>2, <5>1, <5>2
      <4>4. QED
        BY <3>1, <3>2, <4>1, <4>2, <4>3
    <3>4. /\ U8(num_queued_vif[g] - OfVif(gone, g)) = num_queued_vif[g] - OfVif(gone, g)
          /\ U8(stats_num_queued[g] - OfVif(gone, g)) = stats_num_queued[g] - OfVif(gone, g)
      BY <3>3, InWidth
    <3>5. /\ num_queued_vif'[g] = num_queued_vif[g] - OfVif(gone, g)
          /\ stats_num_queued'[g] = stats_num_queued[g] - OfVif(gone, g)
          /\ num_pending_vif'[g] = num_pending_vif[g]
      BY <1>2, <1>3, <3>4
    <3>6. Sent(g)' = Sent(g)
      BY <2>1
    <3>7. QED
      <4>1. /\ num_queued_vif'[g] \in 0 .. 255 /\ stats_num_queued'[g] \in 0 .. 255
            /\ num_pending_vif'[g] = Cardinality(Sent(g))'
        <5>1. num_queued_vif'[g] \in 0 .. 255 /\ stats_num_queued'[g] \in 0 .. 255
          <6>1. \A n \in Nat : n <= 255 => n \in 0 .. 255
            OBVIOUS
          <6>2. QED
            BY <3>3, <3>5, <6>1
        <5>2. QED
          BY <3>1, <3>5, <3>6, <5>1
      <4>2. stats_num_queued'[g] = Cardinality(Wait(g))'
        BY <2>3, <3>1, <3>5
      <4>3. num_queued_vif'[g] = Cardinality(Wait(g)) + Cardinality(Sent(g)) - OfVif(gone, g)
        <5>1. num_queued_vif[g] = Cardinality(Wait(g)) + Cardinality(Sent(g))
          BY <3>1
        <5>2. num_queued_vif'[g] = num_queued_vif[g] - OfVif(gone, g)
          BY <3>5
        <5>3. OfVif(gone, g) \in Nat
          BY <2>3
        <5>4. QED
          BY <3>2, <5>1, <5>2, <5>3
      <4>4. OfVif(gone, g) \in Nat /\ Cardinality(Wait(g))' = Cardinality(Wait(g)) - OfVif(gone, g)
        BY <2>3
      <4>5. num_queued_vif'[g] = Cardinality(Wait(g))' + Cardinality(Sent(g))'
        BY <3>2, <3>6, <4>3, <4>4
      <4>6. QED
        BY <4>1, <4>2, <4>5
  <2>5. ASSUME NEW g \in Vifs, NEW m \in Links
        PROVE  /\ link_map_cache'[g][m] = Cardinality(WaitOn(g, m))'
               /\ link_map_cache[g][m] - OfLink(gone, g, m) \in Nat
    <3>1. link_map_cache'[g][m] = link_map_cache[g][m] - OfLink(gone, g, m)
      BY <1>2
    <3>2. link_map_cache[g][m] = Cardinality(WaitOn(g, m)) /\ Cardinality(WaitOn(g, m)) \in Nat
      BY <1>0, CardsFit DEF CountsOK
    <3>3. QED
      BY <2>2, <3>1, <3>2
  <2>6. /\ num_queued_vif' \in [Vifs -> 0 .. 255] /\ num_pending_vif' \in [Vifs -> 0 .. 255]
        /\ stats_num_queued' \in [Vifs -> 0 .. 255] /\ link_map_cache' \in [Vifs -> [Links -> Nat]]
    <3>1. num_queued_vif' \in [Vifs -> 0 .. 255] /\ stats_num_queued' \in [Vifs -> 0 .. 255]
      BY <1>2, <2>4
    <3>2. link_map_cache' \in [Vifs -> [Links -> Nat]]
      BY <1>2, <2>5
    <3>3. num_pending_vif' \in [Vifs -> 0 .. 255]
      BY <1>0, <1>3 DEF CountsOK
    <3>4. QED
      BY <3>1, <3>2, <3>3
  <2>7. num_pending' \in 0 .. 255
    BY <1>0, <1>3 DEF CountsOK
  <2>8. QED
    BY <1>11, <2>4, <2>5, <2>6, <2>7 DEF CountsOK
<1>13. LocksOK'
  <2>1. tx_locked_cnt \in 0 .. 17 /\ flushing' = flushing /\ generation' = generation
    BY <1>0, <1>3, StopsFit
  <2>2. CASE overfull /\ HalfDrained
    <3>1. k > 0
      <4>1. num_queued > Capacity \div 2 /\ num_queued' <= Capacity \div 2
        BY <1>0, <2>2 DEF LocksOK, LockBalance, HalfDrained
      <4>2. QED
        BY <1>11, <4>1, PoolSize
    <3>2. overfull' = FALSE /\ QueueUnlock /\ leaked' = leaked
      BY <1>2, <2>2, <3>1
    <3>3. tx_locked_cnt > 0
      BY <1>0, <2>1, <2>2, StopsFit DEF LocksOK, LockBalance
    <3>4. tx_locked_cnt' = tx_locked_cnt - 1
      BY <2>1, <3>2, <3>3, StopCount
    <3>5. /\ tx_locked_cnt = 1 + (IF flushing # None THEN 1 ELSE 0) + leaked
          /\ leaked \in 0 .. 15 /\ leaked \in 0 .. generation /\ flushing \in Vifs \cup {None}
      BY <1>0, <2>2, StopsFit DEF LocksOK, LockBalance
    <3>6. tx_locked_cnt' = (IF flushing' # None THEN 1 ELSE 0) + leaked'
      BY <2>1, <3>2, <3>4, <3>5
    <3>7. LockBalance'
      BY <2>1, <3>2, <3>5, <3>6 DEF LockBalance
    <3>8. QED
      BY <2>1, <3>2, <3>5, <3>7 DEF LocksOK
  <2>3. CASE ~(overfull /\ HalfDrained)
    <3>1. overfull' = overfull /\ tx_locked_cnt' = tx_locked_cnt /\ leaked' = leaked
      BY <1>2, <2>3 DEF locks
    <3>2. overfull => num_queued' > Capacity \div 2
      BY <1>11, <2>3, PoolSize DEF HalfDrained
    <3>3. QED
      BY <1>0, <2>1, <3>1, <3>2 DEF LocksOK, LockBalance
  <2>4. QED
    BY <2>2, <2>3
<1>14. ExpiryOK'
  <2>1. timeoutPc' = "idle" /\ hung' = hung /\ Rearm
    BY <1>3 DEF TimeoutBody
  <2>2. timers \in 0 .. TimerSlots /\ timerLost \in BOOLEAN /\ TimerSlots \in Nat /\ queuedFlag \in BOOLEAN
    BY <1>0, BoundsAssumption DEF ExpiryOK
  <2>3. CASE queue' # <<>>
    <3>1. /\ queuedFlag' = TRUE
          /\ \/ timers < TimerSlots /\ timers' = timers + 1 /\ timerLost' = timerLost
             \/ timers' = timers /\ timerLost' = TRUE
      BY <2>1, <2>3 DEF Rearm, RegisterTimeout
    <3>2. timers' \in 0 .. TimerSlots /\ (timers' > 0 \/ timerLost' = TRUE)
      BY <2>2, <3>1
    <3>3. timerLost' \in BOOLEAN
      BY <2>2, <3>1
    <3>4. QED
      BY <1>0, <2>1, <3>1, <3>2, <3>3 DEF ExpiryOK
  <2>4. CASE queue' = <<>>
    <3>1. UNCHANGED <<timers, timerLost>> /\ queuedFlag' = (queuedFlag /\ overfull)
      BY <2>1, <2>4 DEF Rearm
    <3>2. Range(queue') = {}
      BY <2>4, OnceEmpty
    <3>3. queuedFlag' \in BOOLEAN /\ (queuedFlag' => queuedFlag)
      BY <3>1
    <3>4. QED
      BY <1>0, <2>1, <3>1, <3>2, <3>3 DEF ExpiryOK
  <2>5. QED
    BY <2>3, <2>4
<1>15. QED
  BY <1>5, <1>9, <1>10, <1>12, <1>13, <1>14 DEF QueueOK

\* The links of an interface have what the interface has waiting.
LEMMA LinksSum ==
    ASSUME ListsOK, OwnersOK, NEW f \in Vifs,
           \A l \in Links : link_map_cache[f][l] = Cardinality(WaitOn(f, l))
    PROVE  OfLinks(f) = Cardinality(Wait(f))
<1> DEFINE n(l)  == link_map_cache[f][l]
           pairs == UNION {{l} \X (1 .. n(l)) : l \in Links}
           b(l)  == CHOOSE h : h \in Bijection(1 .. n(l), WaitOn(f, l))
           g     == [p \in pairs |-> b(p[1])[p[2]]]
<1>1. ASSUME NEW l \in Links PROVE b(l) \in Bijection(1 .. n(l), WaitOn(f, l))
  <2>1. IsFiniteSet(WaitOn(f, l))
    BY CardsFit
  <2>2. ExistsBijection(1 .. Cardinality(WaitOn(f, l)), WaitOn(f, l))
    BY <2>1, FS_NatBijection, FS_CountingElements
  <2>3. \E h : h \in Bijection(1 .. n(l), WaitOn(f, l))
    BY <2>2 DEF ExistsBijection
  <2>4. QED
    BY <2>3
<1> HIDE DEF b, n
<1>2. ASSUME NEW l \in Links
      PROVE  /\ b(l) \in [1 .. n(l) -> WaitOn(f, l)]
             /\ \A j, k \in 1 .. n(l) : b(l)[j] = b(l)[k] => j = k
             /\ \A i \in WaitOn(f, l) : \E j \in 1 .. n(l) : b(l)[j] = i
  BY <1>1 DEF Bijection, Injection, Surjection, IsInjective
<1>3. /\ \A p \in pairs : p = <<p[1], p[2]>> /\ p[1] \in Links /\ p[2] \in 1 .. n(p[1])
      /\ \A l \in Links : \A j \in 1 .. n(l) : <<l, j>> \in pairs
  OBVIOUS
<1> HIDE DEF pairs
<1>4. \A l \in Links : \A i \in WaitOn(f, l) : i \in Wait(f) /\ LinkOf(i) = l
  BY DEF WaitOn, OursOn, Wait, Ours
<1>5. ASSUME NEW i \in Wait(f) PROVE LinkOf(i) \in Links /\ i \in WaitOn(f, LinkOf(i))
  <2>1. i \in Held
    BY DEF Wait, Ours, Held
  <2>2. QED
    BY <2>1 DEF OwnersOK, Wait, Ours, WaitOn, OursOn, LinkOf
<1>6. g \in Bijection(pairs, Wait(f))
  <2>1. ASSUME NEW p \in pairs PROVE g[p] \in WaitOn(f, p[1]) /\ g[p] \in Wait(f) /\ LinkOf(g[p]) = p[1]
    <3>1. p[1] \in Links /\ p[2] \in 1 .. n(p[1])
      BY <1>3
    <3>2. b(p[1])[p[2]] \in WaitOn(f, p[1])
      BY <1>2, <3>1
    <3>3. QED
      BY <1>4, <3>1, <3>2
  <2>2. ASSUME NEW p \in pairs, NEW q \in pairs, g[p] = g[q] PROVE p = q
    <3>1. p[1] = q[1] /\ p[1] \in Links
      BY <1>3, <2>1, <2>2
    <3>2. b(p[1])[p[2]] = b(p[1])[q[2]] /\ p[2] \in 1 .. n(p[1]) /\ q[2] \in 1 .. n(p[1])
      BY <1>3, <2>2, <3>1
    <3>3. p[2] = q[2]
      BY <1>2, <3>1, <3>2
    <3>4. QED
      BY <1>3, <3>1, <3>3
  <2>3. ASSUME NEW i \in Wait(f) PROVE \E p \in pairs : g[p] = i
    <3>1. PICK j \in 1 .. n(LinkOf(i)) : b(LinkOf(i))[j] = i
      BY <1>2, <1>5
    <3>2. <<LinkOf(i), j>> \in pairs
      BY <1>3, <1>5
    <3>3. g[<<LinkOf(i), j>>] = i
      BY <3>1, <3>2
    <3>4. QED
      BY <3>2, <3>3
  <2>4. g \in [pairs -> Wait(f)]
    BY <2>1
  <2> HIDE DEF g
  <2>5. QED
    BY <2>2, <2>3, <2>4 DEF Bijection, Injection, Surjection, IsInjective
<1>7. IsFiniteSet(Wait(f))
  BY CardsFit
<1>8. ExistsBijection(pairs, Wait(f))
  BY <1>6 DEF ExistsBijection
<1>9. ExistsBijection(Wait(f), pairs)
  BY <1>8, Fun_ExistsBijSymmetric
<1>10. Cardinality(pairs) = Cardinality(Wait(f))
  BY <1>7, <1>9, FS_Bijection
<1>11. QED
  BY <1>10 DEF OfLinks, pairs, n

\* atbmwifi_queue_clear, when every frame the queue holds is of an interface
\* to be cleared.
LEMMA ClearStep ==
    ASSUME QueueOK, NEW fs \in SUBSET Vifs, NEW priv, Clear(fs, priv),
           generation < MaxClears, \A i \in Held : IfOf(i) \in fs,
           fw' \subseteq fw, data' = data, need_confirm' \in {None, Dangling}, hung' = hung
    PROVE  QueueOK'
<1>0. ListsOK /\ OwnersOK /\ ConfirmOK /\ CountsOK /\ LocksOK /\ ExpiryOK
  BY DEF QueueOK
<1> DEFINE all == pending \o queue
<1>1. /\ generation' = (generation + 1) % 16
      /\ Free({pool[i].skb : i \in Range(all)})
      /\ pool' = [i \in Items |-> IF i \in Range(all) THEN Freed(pool[i].generation) ELSE pool[i]]
      /\ queue' = <<>> /\ pending' = <<>>
      /\ free_pool' = free_pool \o all
      /\ num_queued' = U8(num_queued - Len(all))
      /\ num_pending' = U8(num_pending - Len(all))
      /\ num_queued_vif' = [f \in Vifs |-> IF f \in fs THEN 0 ELSE num_queued_vif[f]]
      /\ num_pending_vif' = [f \in Vifs |-> IF f \in fs THEN 0 ELSE num_pending_vif[f]]
      /\ ClearStats(fs)
      /\ link_map_cache' = [f \in Vifs |-> [l \in Links |->
                                IF f \in fs THEN 0 ELSE link_map_cache[f][l]]]
      /\ overfull' = FALSE
      /\ IF ~overfull THEN UNCHANGED <<tx_locked_cnt, leaked>>
         ELSE IF priv = None THEN leaked' = leaked + 1 /\ UNCHANGED tx_locked_cnt
         ELSE QueueUnlock /\ UNCHANGED leaked
      /\ UNCHANGED <<expiry, cb, flushing>>
  BY DEF Clear
<1>2. /\ ListsOK' /\ Held' = {} /\ Range(all) = Held /\ Len(all) = Len(queue) + Len(pending)
      /\ Range(queue') = {} /\ Range(pending') = {} /\ Len(queue') = 0 /\ Len(pending') = 0
  BY <1>0, <1>1, ClearMoves
<1> HIDE DEF all
<1>3. generation' = generation + 1 /\ generation \in 0 .. 15 /\ generation' \in 0 .. 15
  <2>1. generation \in 0 .. 15
    BY <1>0 DEF ConfirmOK
  <2>2. MaxClears \in 0 .. 15
    BY BoundsAssumption
  <2>3. generation + 1 \in 0 .. 15
    BY <2>1, <2>2
  <2>4. \A n \in 0 .. 15 : n % 16 = n
    OBVIOUS
  <2>5. (generation + 1) % 16 = generation + 1
    BY <2>3, <2>4
  <2>6. QED
    BY <1>1, <2>1, <2>3, <2>5
<1>4. OwnersOK'
  <2>1. pool \in [Items -> ItemRec]
    BY <1>0 DEF OwnersOK
  <2>2. \A i \in Items : Freed(pool[i].generation) \in ItemRec /\ Freed(pool[i].generation).skb = None
    BY <2>1 DEF Freed, ItemRec
  <2>3. pool' \in [Items -> ItemRec] /\ \A i \in Items : pool'[i].skb = None
    BY <1>0, <1>1, <1>2, <2>1, <2>2 DEF OwnersOK
  <2>4. live' = {} /\ badFree' = FALSE
    BY <1>0, <1>1, <1>2 DEF OwnersOK, Free
  <2>5. QED
    BY <1>2, <2>3, <2>4 DEF OwnersOK
<1>5. ConfirmOK'
  <2>1. cb' = cb /\ Out' \subseteq Out
    BY <1>1 DEF Out
  <2>2. \A e \in Out : e \in Entries /\ e.id.qgen <= generation
    BY <1>0 DEF ConfirmOK, HandsOK, Out
  <2>3. \A e \in Out : e.id.qgen \in 0 .. 15
    BY <2>2 DEF Entries, PacketIds
  <2>4. \A n \in 0 .. 15 : n <= generation => n <= generation' /\ n # generation'
    BY <1>3
  <2>5. \A e \in Out' : e.id.qgen <= generation' /\ e.id.qgen # generation'
    BY <2>1, <2>2, <2>3, <2>4
  <2>6. HandsOK' /\ Apart'
    BY <1>0, <2>1 DEF ConfirmOK, HandsOK, Apart
  <2>7. QED
    BY <1>3, <2>5, <2>6 DEF ConfirmOK
<1>6. CountsOK'
  <2>1. ASSUME NEW g, NEW m
        PROVE  Wait(g)' = {} /\ Sent(g)' = {} /\ WaitOn(g, m)' = {}
    BY <1>2 DEF Wait, Sent, WaitOn, Ours, OursOn
  <2>2. Cardinality({}) = 0
    BY FS_EmptySet
  <2>3. ASSUME NEW g \in Vifs, g \notin fs
        PROVE  /\ num_queued_vif[g] = 0 /\ num_pending_vif[g] = 0 /\ stats_num_queued[g] = 0
               /\ \A m \in Links : link_map_cache[g][m] = 0
    <3>1. \A m : Wait(g) = {} /\ Sent(g) = {} /\ WaitOn(g, m) = {}
      BY <2>3 DEF Wait, Sent, WaitOn, Ours, OursOn, Held
    <3>2. 0 + 0 = 0
      OBVIOUS
    <3>3. Wait(g) = {} /\ Sent(g) = {}
      BY <3>1
    <3>4. \A m : Cardinality(Wait(g)) = 0 /\ Cardinality(Sent(g)) = 0 /\ Cardinality(WaitOn(g, m)) = 0
      BY <2>2, <3>1, <3>3
    <3>5. /\ num_queued_vif[g] = Cardinality(Wait(g)) + Cardinality(Sent(g))
          /\ num_pending_vif[g] = Cardinality(Sent(g)) /\ stats_num_queued[g] = Cardinality(Wait(g))
          /\ \A m \in Links : link_map_cache[g][m] = Cardinality(WaitOn(g, m))
      BY <1>0 DEF CountsOK
    <3>6. num_queued_vif[g] = 0 + 0
      BY <3>4, <3>5
    <3>7. QED
      BY <3>2, <3>4, <3>5, <3>6
  <2>4. ASSUME NEW g \in Vifs
        PROVE  stats_num_queued'[g] = 0
    <3>1. CASE g \in fs
      <4>1. OfLinks(g) = Cardinality(Wait(g)) /\ stats_num_queued[g] = Cardinality(Wait(g))
        BY <1>0, LinksSum DEF CountsOK
      <4>2. Cardinality(Wait(g)) \in Nat
        BY <1>0, CardsFit
      <4>3. stats_num_queued[g] - OfLinks(g) = 0
        BY <4>1, <4>2
      <4>4. U8(0) = 0
        BY InWidth
      <4>5. QED
        BY <1>1, <3>1, <4>3, <4>4 DEF ClearStats
    <3>2. CASE g \notin fs
      BY <1>1, <2>3, <3>2 DEF ClearStats
    <3>3. QED
      BY <3>1, <3>2
  <2>5. ASSUME NEW g \in Vifs
        PROVE  /\ num_queued_vif'[g] = 0 /\ num_pending_vif'[g] = 0
               /\ \A m \in Links : link_map_cache'[g][m] = 0
    BY <1>1, <2>3
  <2>6. stats_num_queued' = [g \in Vifs |-> stats_num_queued'[g]]
    BY <1>1 DEF ClearStats
  <2>7. /\ num_queued_vif' \in [Vifs -> 0 .. 255] /\ num_pending_vif' \in [Vifs -> 0 .. 255]
        /\ stats_num_queued' \in [Vifs -> 0 .. 255] /\ link_map_cache' \in [Vifs -> [Links -> Nat]]
    <3>1. 0 \in 0 .. 255 /\ 0 \in Nat
      OBVIOUS
    <3>2. stats_num_queued' \in [Vifs -> 0 .. 255]
      BY <2>4, <2>6, <3>1
    <3>3. /\ num_queued_vif' \in [Vifs -> 0 .. 255] /\ num_pending_vif' \in [Vifs -> 0 .. 255]
          /\ link_map_cache' \in [Vifs -> [Links -> Nat]]
      BY <1>0, <1>1, <3>1 DEF CountsOK
    <3>4. QED
      BY <3>2, <3>3
  <2>8. num_queued' = Len(queue') + Len(pending')
    <3>1. Len(queue) \in Nat /\ Len(pending) \in Nat /\ num_queued = Len(queue) + Len(pending)
      BY <1>0, ListsFill DEF CountsOK
    <3>2. num_queued - Len(all) = 0
      BY <1>2, <3>1
    <3>3. U8(0) = 0
      BY InWidth
    <3>4. QED
      BY <1>1, <1>2, <3>2, <3>3
  <2>9. num_pending' \in 0 .. 255
    <3>1. num_pending \in 0 .. 255 /\ Len(all) \in Nat
      <4>1. Len(queue) \in Nat /\ Len(pending) \in Nat
        BY <1>0, ListsFill
      <4>2. QED
        BY <1>0, <1>2, <4>1 DEF CountsOK
    <3>2. num_pending - Len(all) \in Int
      BY <3>1
    <3>3. QED
      BY <1>1, <3>2, Byte
  <2>10. ASSUME NEW g \in Vifs
         PROVE  /\ num_queued_vif'[g] = Cardinality(Wait(g))' + Cardinality(Sent(g))'
                /\ num_pending_vif'[g] = Cardinality(Sent(g))'
                /\ stats_num_queued'[g] = Cardinality(Wait(g))'
                /\ \A m \in Links : link_map_cache'[g][m] = Cardinality(WaitOn(g, m))'
    <3>1. Cardinality(Wait(g))' = 0 /\ Cardinality(Sent(g))' = 0
      BY <2>1, <2>2
    <3>2. \A m \in Links : Cardinality(WaitOn(g, m))' = 0
      BY <2>1, <2>2
    <3>3. QED
      BY <2>4, <2>5, <3>1, <3>2
  <2>11. QED
    BY <2>7, <2>8, <2>9, <2>10 DEF CountsOK
<1>7. LocksOK'
  <2>1. /\ tx_locked_cnt \in 0 .. 17 /\ flushing' = flushing /\ overfull' = FALSE
        /\ leaked \in 0 .. generation /\ leaked \in 0 .. 15 /\ flushing \in Vifs \cup {None}
    BY <1>0, <1>1, StopsFit DEF LocksOK
  <2>2. tx_locked_cnt = (IF overfull THEN 1 ELSE 0) + (IF flushing # None THEN 1 ELSE 0) + leaked
    BY <1>0 DEF LocksOK, LockBalance
  <2>3. /\ tx_locked_cnt' = (IF flushing # None THEN 1 ELSE 0) + leaked'
        /\ leaked' \in 0 .. generation'
    <3>1. CASE ~overfull
      BY <1>1, <1>3, <2>1, <2>2, <3>1
    <3>2. CASE overfull /\ priv = None
      BY <1>1, <1>3, <2>1, <2>2, <3>2
    <3>3. CASE overfull /\ priv # None
      <4>1. tx_locked_cnt > 0
        BY <2>1, <2>2, <3>3
      <4>2. tx_locked_cnt' = tx_locked_cnt - 1
        BY <1>1, <2>1, <3>3, <4>1, StopCount
      <4>3. leaked' = leaked
        BY <1>1, <3>3
      <4>4. QED
        BY <1>3, <2>1, <2>2, <3>3, <4>2, <4>3
    <3>4. QED
      BY <3>1, <3>2, <3>3
  <2>4. LockBalance'
    <3>1. leaked' \in Nat
      BY <1>3, <2>3
    <3>2. QED
      BY <2>1, <2>3, <3>1 DEF LockBalance
  <2>5. QED
    BY <2>1, <2>3, <2>4 DEF LocksOK
<1>8. ExpiryOK'
  <2>1. hung' \in BOOLEAN
    BY <1>0 DEF ExpiryOK
  <2>2. QED
    BY <1>0, <1>1, <1>2, <2>1, ExpiryKept
<1>9. QED
  BY <1>2, <1>4, <1>5, <1>6, <1>7, <1>8 DEF QueueOK

\* An answer is taken or dropped, a frame is written, or something happens
\* beside the queue.
LEMMA AsideStep ==
    ASSUME QueueOK, UNCHANGED <<lists, pool, counters, generation, history>>,
           HandsOK', Apart', Out' \subseteq Out, LocksOK', ExpiryOK'
    PROVE  QueueOK'
<1>0. ListsOK /\ OwnersOK /\ ConfirmOK /\ CountsOK
  BY DEF QueueOK
<1>1. ListsOK' /\ OwnersOK' /\ CountsOK'
  BY <1>0, PoolKept
<1>2. ConfirmOK'
  <2> DEFINE OutNext == Out'
  <2>1. \A d \in OutNext : d.id.qgen = generation =>
          d.id.item \in Range(pending') /\ pool'[d.id.item] = pool[d.id.item]
    BY <1>0 DEF ConfirmOK, lists
  <2>2. QED
    BY <1>0, <2>1, ConfirmKept
<1>3. QED
  BY <1>1, <1>2 DEF QueueOK

\* What the timer, the flush and a stopping access point do.
LEMMA BesideStep ==
    ASSUME QueueOK, UNCHANGED <<lists, pool, counters, generation, bh, fw, cb, history>>,
           LocksOK', ExpiryOK'
    PROVE  QueueOK'
<1>1. HandsOK' /\ Apart' /\ Out' = Out
  BY HandsStay DEF QueueOK
<1>2. QED
  BY <1>1, AsideStep

\* What tx_bh, the firmware and rx_bh do with a packet id.
LEMMA AnswerStep ==
    ASSUME QueueOK, UNCHANGED <<lists, pool, counters, generation, locks, expiry, flushing, hung,
                                history>>,
           HandsOK', Apart', Out' \subseteq Out
    PROVE  QueueOK'
<1>0. LocksOK /\ ExpiryOK
  BY DEF QueueOK
<1>1. LocksOK'
  BY <1>0, LocksKept DEF counters
<1>2. ExpiryOK'
  <2>1. queue' = queue /\ pool' = pool /\ hung' \in BOOLEAN
    BY <1>0 DEF lists, ExpiryOK
  <2>2. QED
    BY <1>0, <2>1, ExpiryKept
<1>3. QED
  BY <1>1, <1>2, AsideStep

\* atbmwifi_queue_remove with an id that hits an item it was not issued for,
\* or an item that is free: the lists stay a partition and no buffer is freed
\* twice.
LEMMA RemoveHit ==
    ASSUME QueueOK, NEW e, e.id \in PacketIds, IdValid(e.id), Remove(e), misled' = TRUE,
           HandsOK', UNCHANGED <<generation, expiry, flushing, hung>>
    PROVE  HitOK'
<1>0. ListsOK /\ OwnersOK /\ ConfirmOK /\ CountsOK /\ LocksOK /\ ExpiryOK
  BY DEF QueueOK
<1> DEFINE i == e.id.item
           f == e.id.if_id
<1>1. i \in Items /\ f \in Vifs
  BY DEF PacketIds
<1>2. /\ Free({pool[i].skb} \ {None})
      /\ pool' = [pool EXCEPT ![i] = Freed(U8(@.generation + 1))]
      /\ Unpend(f)
      /\ num_queued' = U8(num_queued - 1)
      /\ num_queued_vif' = [num_queued_vif EXCEPT ![f] = U8(@ - 1)]
      /\ queue' = Without(queue, i)
      /\ pending' = Without(pending, i)
      /\ free_pool' = <<i>> \o Without(free_pool, i)
      /\ IF overfull /\ HalfDrained
           THEN overfull' = FALSE /\ QueueUnlock
           ELSE UNCHANGED <<overfull, tx_locked_cnt>>
      /\ UNCHANGED <<link_map_cache, stats_num_queued, leaked>>
  BY DEF Remove
<1> HIDE DEF i, f
<1>3. ListsOK' /\ Range(queue') = Range(queue) \ {i}
  <2>1. queue \in Seq(Items) /\ pending \in Seq(Items) /\ free_pool \in Seq(Items)
        /\ Once(queue) /\ Once(pending) /\ Once(free_pool)
    BY <1>0 DEF ListsOK
  <2>2. /\ queue' \in Seq(Items) /\ Once(queue') /\ Range(queue') = Range(queue) \ {i}
        /\ pending' \in Seq(Items) /\ Once(pending') /\ Range(pending') = Range(pending) \ {i}
    BY <1>2, <2>1, WithoutIsOff
  <2> DEFINE rest == Without(free_pool, i)
  <2>3. rest \in Seq(Items) /\ Once(rest) /\ Range(rest) = Range(free_pool) \ {i}
    BY <2>1, WithoutIsOff
  <2>4. free_pool' = <<i>> \o rest
    BY <1>2
  <2> HIDE DEF rest
  <2>5. /\ free_pool' \in Seq(Items) /\ Once(free_pool')
        /\ Range(free_pool') = (Range(free_pool) \ {i}) \cup {i}
    <3>1. /\ <<i>> \o rest \in Seq(Items) /\ Once(<<i>> \o rest)
          /\ Range(<<i>> \o rest) = Range(rest) \cup {i}
      BY <1>1, <2>3, OncePrepend
    <3>2. QED
      BY <2>3, <2>4, <3>1
  <2>6. QED
    BY <1>0, <1>1, <2>2, <2>5 DEF ListsOK
<1>4. pool' \in [Items -> ItemRec] /\ \A j \in Items \ {i} : pool'[j] = pool[j]
  <2>1. pool \in [Items -> ItemRec]
    BY <1>0 DEF OwnersOK
  <2>2. pool[i].generation + 1 \in Int
    BY <1>1, <2>1 DEF ItemRec
  <2>3. Freed(U8(pool[i].generation + 1)) \in ItemRec
    BY <2>2, Byte DEF Freed, ItemRec
  <2>4. pool' = [pool EXCEPT ![i] = Freed(U8(pool[i].generation + 1))]
    BY <1>2
  <2>5. QED
    BY <1>1, <2>1, <2>3, <2>4
<1>5. badFree' = FALSE /\ live' \subseteq Skbs
  <2>1. {pool[i].skb} \ {None} \subseteq live
    BY <1>0, <1>1 DEF OwnersOK
  <2>2. QED
    BY <1>0, <1>2, <2>1 DEF OwnersOK, Free
<1>6. /\ num_queued_vif' \in [Vifs -> 0 .. 255] /\ num_pending_vif' \in [Vifs -> 0 .. 255]
      /\ stats_num_queued' \in [Vifs -> 0 .. 255] /\ link_map_cache' \in [Vifs -> [Links -> Nat]]
      /\ num_pending' \in 0 .. 255 /\ num_queued' \in 0 .. 255
  <2>1. \A n \in 0 .. 255 : U8(n - 1) \in 0 .. 255
    BY Byte
  <2>2. /\ num_queued_vif \in [Vifs -> 0 .. 255] /\ num_pending_vif \in [Vifs -> 0 .. 255]
        /\ stats_num_queued \in [Vifs -> 0 .. 255] /\ link_map_cache \in [Vifs -> [Links -> Nat]]
        /\ num_pending \in 0 .. 255
    BY <1>0 DEF CountsOK
  <2>3. num_queued \in 0 .. 255
    BY <1>0, QueuedFits
  <2>4. QED
    BY <1>2, <2>1, <2>2, <2>3, ZenonT(30) DEF Unpend
<1>7. LockBalance' /\ overfull' \in BOOLEAN /\ tx_locked_cnt' \in 0 .. 255 /\ leaked' \in Nat
  <2>1. /\ tx_locked_cnt \in 0 .. 17 /\ leaked \in 0 .. 15 /\ overfull \in BOOLEAN
        /\ leaked' = leaked /\ flushing' = flushing
        /\ tx_locked_cnt = (IF overfull THEN 1 ELSE 0) + (IF flushing # None THEN 1 ELSE 0) + leaked
    BY <1>0, <1>2, StopsFit DEF LocksOK, LockBalance
  <2>2. CASE overfull /\ HalfDrained
    <3>1. overfull' = FALSE /\ QueueUnlock
      BY <1>2, <2>2
    <3>2. tx_locked_cnt > 0
      BY <2>1, <2>2
    <3>3. tx_locked_cnt' = tx_locked_cnt - 1
      BY <2>1, <3>1, <3>2, StopCount
    <3>4. /\ tx_locked_cnt' = (IF flushing' # None THEN 1 ELSE 0) + leaked'
          /\ tx_locked_cnt' \in 0 .. 255
      BY <2>1, <2>2, <3>2, <3>3
    <3>5. LockBalance'
      BY <2>1, <3>1, <3>4 DEF LockBalance
    <3>6. overfull' \in BOOLEAN
      BY <3>1, ZenonT(30)
    <3>7. leaked' \in Nat
      BY <2>1
    <3>8. QED
      BY <3>4, <3>5, <3>6, <3>7
  <2>3. CASE ~(overfull /\ HalfDrained)
    <3>1. overfull' = overfull /\ tx_locked_cnt' = tx_locked_cnt
      BY <1>2, <2>3
    <3>2. overfull => num_queued' > Capacity \div 2
      BY <1>6, <2>3, PoolSize DEF HalfDrained
    <3>3. QED
      BY <2>1, <3>1, <3>2 DEF LockBalance
  <2>4. QED
    BY <2>2, <2>3
<1>8. ExpiryOK'
  <2>1. hung' \in BOOLEAN
    BY <1>0 DEF ExpiryOK
  <2>2. \A j \in Range(queue') : j \in Range(queue) /\ pool'[j] = pool[j]
    <3>1. Range(queue) \subseteq Items
      BY <1>0, Elements DEF ListsOK
    <3>2. QED
      BY <1>3, <1>4, <3>1
  <2>3. QED
    BY <1>0, <2>1, <2>2, ExpiryKept
<1>9. flushing' \in Vifs \cup {None} /\ generation' \in 0 .. 15
  BY <1>0 DEF LocksOK, ConfirmOK
<1>10. QED
  BY <1>3, <1>4, <1>5, <1>6, <1>7, <1>8, <1>9, HitTypes

\* atbmwifi_queue_requeue with such an id.
LEMMA RequeueHit ==
    ASSUME QueueOK, NEW e \in fw, IdValid(e.id), Requeue(e), misled' = TRUE
    PROVE  HitOK'
<1>0. ListsOK /\ OwnersOK /\ ConfirmOK /\ CountsOK /\ LocksOK /\ ExpiryOK
  BY DEF QueueOK
<1> DEFINE i == e.id.item
           f == e.id.if_id
<1>1. i \in Items /\ f \in Vifs
  BY <1>0 DEF ConfirmOK, HandsOK, Entries, PacketIds
<1>2. /\ pool[i].generation < MaxRequeue
      /\ Unpend(f)
      /\ link_map_cache' = [link_map_cache EXCEPT ![f][LinkOf(i)] = @ + 1]
      /\ stats_num_queued' = [stats_num_queued EXCEPT ![IfOf(i)] = U8(@ + 1)]
      /\ pool' = [pool EXCEPT ![i].generation = U8(@ + 1)]
      /\ queue' = <<i>> \o Without(queue, i)
      /\ pending' = Without(pending, i)
      /\ free_pool' = Without(free_pool, i)
      /\ UNCHANGED <<num_queued, num_queued_vif>>
  BY DEF Requeue
<1> HIDE DEF i, f
<1>3. UNCHANGED <<generation, locks, expiry, flushing, hung, history>>
  BY DEF Requeue
<1>4. HandsOK'
  <2>1. /\ cb = None /\ fw' = fw \ {e} /\ cb' = cb /\ data' = data
        /\ need_confirm' \in {need_confirm, Dangling}
    BY DEF Requeue, Outlives
  <2>2. QED
    BY <1>0, <2>1, AnswerTaken
<1>5. ListsOK' /\ Range(queue') = (Range(queue) \ {i}) \cup {i}
  <2>1. queue \in Seq(Items) /\ pending \in Seq(Items) /\ free_pool \in Seq(Items)
        /\ Once(queue) /\ Once(pending) /\ Once(free_pool)
    BY <1>0 DEF ListsOK
  <2>2. /\ free_pool' \in Seq(Items) /\ Once(free_pool') /\ Range(free_pool') = Range(free_pool) \ {i}
        /\ pending' \in Seq(Items) /\ Once(pending') /\ Range(pending') = Range(pending) \ {i}
    BY <1>2, <2>1, WithoutIsOff
  <2> DEFINE rest == Without(queue, i)
  <2>3. rest \in Seq(Items) /\ Once(rest) /\ Range(rest) = Range(queue) \ {i}
    BY <2>1, WithoutIsOff
  <2>4. queue' = <<i>> \o rest
    BY <1>2
  <2> HIDE DEF rest
  <2>5. /\ queue' \in Seq(Items) /\ Once(queue')
        /\ Range(queue') = (Range(queue) \ {i}) \cup {i}
    <3>1. /\ <<i>> \o rest \in Seq(Items) /\ Once(<<i>> \o rest)
          /\ Range(<<i>> \o rest) = Range(rest) \cup {i}
      BY <1>1, <2>3, OncePrepend
    <3>2. QED
      BY <2>3, <2>4, <3>1
  <2>6. QED
    BY <1>0, <1>1, <2>2, <2>5 DEF ListsOK
<1>6. /\ pool' \in [Items -> ItemRec] /\ pool'[i].generation # 0
      /\ \A j \in Items \ {i} : pool'[j] = pool[j]
  <2>1. pool \in [Items -> ItemRec] /\ pool[i] \in ItemRec
    BY <1>0, <1>1 DEF OwnersOK
  <2>2. pool[i].generation + 1 \in 1 .. 255
    <3>1. pool[i].generation \in 0 .. 255 /\ pool[i].generation < MaxRequeue
      BY <1>2, <2>1 DEF ItemRec
    <3>2. MaxRequeue \in 0 .. 255
      BY BoundsAssumption
    <3>3. QED
      BY <3>1, <3>2
  <2>3. U8(pool[i].generation + 1) \in 1 .. 255
    BY <2>2, InWidth
  <2> DEFINE r == [pool[i] EXCEPT !.generation = U8(pool[i].generation + 1)]
  <2>4. pool' = [pool EXCEPT ![i] = r]
    BY <1>1, <1>2, <2>1
  <2>5. r \in ItemRec /\ r.generation # 0
    BY <2>1, <2>3 DEF ItemRec
  <2> HIDE DEF r
  <2>6. QED
    BY <1>1, <2>1, <2>4, <2>5
<1>7. badFree' = FALSE /\ live' \subseteq Skbs
  BY <1>0, <1>3 DEF OwnersOK, history
<1>8. /\ num_queued_vif' \in [Vifs -> 0 .. 255] /\ num_pending_vif' \in [Vifs -> 0 .. 255]
      /\ stats_num_queued' \in [Vifs -> 0 .. 255] /\ link_map_cache' \in [Vifs -> [Links -> Nat]]
      /\ num_pending' \in 0 .. 255 /\ num_queued' \in 0 .. 255
  <2>1. \A n \in 0 .. 255 : U8(n - 1) \in 0 .. 255 /\ U8(n + 1) \in 0 .. 255
    BY Byte
  <2>2. /\ num_queued_vif \in [Vifs -> 0 .. 255] /\ num_pending_vif \in [Vifs -> 0 .. 255]
        /\ stats_num_queued \in [Vifs -> 0 .. 255] /\ link_map_cache \in [Vifs -> [Links -> Nat]]
        /\ num_pending \in 0 .. 255
    BY <1>0 DEF CountsOK
  <2>3. num_queued' \in 0 .. 255 /\ num_queued_vif' = num_queued_vif
    BY <1>0, <1>2, QueuedFits
  <2>4. num_pending' \in 0 .. 255 /\ num_pending_vif' \in [Vifs -> 0 .. 255]
    BY <1>2, <2>1, <2>2, ZenonT(30) DEF Unpend
  <2>5. stats_num_queued' \in [Vifs -> 0 .. 255]
    <3>1. CASE IfOf(i) \in Vifs
      BY <1>2, <2>1, <2>2, <3>1, ZenonT(30)
    <3>2. CASE IfOf(i) \notin Vifs
      BY <1>2, <2>2, <3>2
    <3>3. QED
      BY <3>1, <3>2
  <2>6. link_map_cache' \in [Vifs -> [Links -> Nat]]
    <3> DEFINE row == [link_map_cache[f] EXCEPT ![LinkOf(i)] = @ + 1]
    <3>1. link_map_cache[f] \in [Links -> Nat]
      BY <1>1, <2>2
    <3>2. \A n \in Nat : n + 1 \in Nat
      OBVIOUS
    <3>3. row \in [Links -> Nat]
      <4>1. CASE LinkOf(i) \in Links
        BY <3>1, <3>2, <4>1
      <4>2. CASE LinkOf(i) \notin Links
        BY <3>1, <4>2
      <4>3. QED
        BY <4>1, <4>2
    <3>4. link_map_cache' = [link_map_cache EXCEPT ![f] = row]
      BY <1>2
    <3> HIDE DEF row
    <3>5. QED
      BY <1>1, <2>2, <3>3, <3>4
  <2>7. QED
    BY <2>2, <2>3, <2>4, <2>5, <2>6
<1>9. LockBalance' /\ overfull' \in BOOLEAN /\ tx_locked_cnt' \in 0 .. 255 /\ leaked' \in Nat
  <2>1. tx_locked_cnt \in 0 .. 17 /\ leaked \in 0 .. 15
    BY <1>0, StopsFit
  <2>2. QED
    BY <1>0, <1>2, <1>3, <2>1 DEF LocksOK, LockBalance, locks
<1>10. ExpiryOK'
  <2>1. hung' \in BOOLEAN
    BY <1>0, <1>3 DEF ExpiryOK
  <2>2. \A j \in Range(queue') :
          pool'[j].generation = 0 => j \in Range(queue) /\ pool[j].generation = 0
    <3>1. Range(queue) \subseteq Items
      BY <1>0, Elements DEF ListsOK
    <3>2. QED
      BY <1>5, <1>6, <3>1
  <2>3. QED
    BY <1>0, <1>3, <2>1, <2>2, ExpiryKept
<1>11. flushing' \in Vifs \cup {None} /\ generation' \in 0 .. 15
  BY <1>0, <1>3 DEF LocksOK, ConfirmOK
<1>12. QED
  BY <1>4, <1>5, <1>6, <1>7, <1>8, <1>9, <1>10, <1>11, HitTypes

LEMMA TxQueueInit == Init => TxQueueInv
<1> SUFFICES ASSUME Init PROVE TxQueueInv
  OBVIOUS
<1>1. /\ queue = <<>> /\ pending = <<>> /\ free_pool = [k \in 1 .. Capacity |-> k - 1]
      /\ pool = [i \in Items |-> Freed(0)] /\ live = {} /\ badFree = FALSE
  BY DEF Init
<1>2. Range(queue) = {} /\ Range(pending) = {} /\ Once(queue) /\ Once(pending)
      /\ Len(queue) = 0 /\ Len(pending) = 0 /\ Held = {}
  BY <1>1, OnceEmpty DEF Held
<1>3. ListsOK
  <2>1. Capacity \in Nat
    BY CapacityAssumption
  <2>2. /\ free_pool \in Seq(Items) /\ Len(free_pool) = Capacity
        /\ \A k \in 1 .. Capacity : free_pool[k] = k - 1
    BY <1>1, <2>1 DEF Items
  <2>3. Once(free_pool)
    BY <2>1, <2>2 DEF Once
  <2>4. Range(free_pool) = Items
    <3>1. \A k \in 1 .. Len(free_pool) : free_pool[k] \in Items
      BY <2>1, <2>2 DEF Items
    <3>2. ASSUME NEW i \in Items PROVE \E k \in 1 .. Capacity : k - 1 = i
      <4>1. i \in Int /\ i + 1 \in 1 .. Capacity
        BY <2>1 DEF Items
      <4>2. (i + 1) - 1 = i
        BY <4>1
      <4>3. QED
        BY <4>1, <4>2
    <3>3. ASSUME NEW i \in Items PROVE \E k \in 1 .. Len(free_pool) : free_pool[k] = i
      <4>1. PICK k \in 1 .. Capacity : k - 1 = i
        BY <3>2
      <4>2. free_pool[k] = i
        BY <2>2, <4>1
      <4>3. QED
        BY <2>2, <4>2
    <3>4. QED
      BY <2>2, <3>1, <3>3, ReadOff
  <2>5. queue \in Seq(Items) /\ pending \in Seq(Items)
    BY <1>1
  <2>6. QED
    BY <1>2, <2>2, <2>3, <2>4, <2>5 DEF ListsOK
<1>4. OwnersOK
  <2>1. Freed(0) \in ItemRec /\ Freed(0).skb = None
    BY DEF Freed, ItemRec
  <2>2. QED
    BY <1>1, <1>2, <2>1 DEF OwnersOK
<1>5. ConfirmOK
  <2>1. fw = {} /\ cb = None /\ data = None /\ need_confirm = None /\ generation = 0
    BY DEF Init
  <2>2. HandsOK /\ Apart /\ Out = {}
    BY <2>1 DEF HandsOK, Apart, Out
  <2>3. generation \in 0 .. 15
    BY <2>1
  <2>4. QED
    BY <2>2, <2>3 DEF ConfirmOK
<1>6. CountsOK
  <2>1. \A f, l : Wait(f) = {} /\ Sent(f) = {} /\ WaitOn(f, l) = {}
    BY <1>2 DEF Wait, Sent, WaitOn, Ours, OursOn
  <2>2. Cardinality({}) = 0
    BY FS_EmptySet
  <2>3. \A f, l : Cardinality(Wait(f)) = 0 /\ Cardinality(Sent(f)) = 0 /\ Cardinality(WaitOn(f, l)) = 0
    BY <2>1, <2>2
  <2> HIDE DEF Wait, Sent, WaitOn
  <2>4. /\ num_queued = 0 /\ num_pending = 0
        /\ num_queued_vif = [f \in Vifs |-> 0]
        /\ num_pending_vif = [f \in Vifs |-> 0]
        /\ link_map_cache = [f \in Vifs |-> [l \in Links |-> 0]]
        /\ stats_num_queued = [f \in Vifs |-> 0]
    BY DEF Init
  <2>5. num_queued = Len(queue) + Len(pending)
    BY <1>2, <2>4
  <2>6. ASSUME NEW f \in Vifs
        PROVE  /\ num_queued_vif[f] = Cardinality(Wait(f)) + Cardinality(Sent(f))
               /\ num_pending_vif[f] = Cardinality(Sent(f))
               /\ stats_num_queued[f] = Cardinality(Wait(f))
               /\ \A l \in Links : link_map_cache[f][l] = Cardinality(WaitOn(f, l))
    <3>1. Cardinality(Wait(f)) = 0 /\ Cardinality(Sent(f)) = 0
      BY <2>3
    <3>2. QED
      BY <2>3, <2>4, <3>1
  <2>7. /\ num_queued_vif \in [Vifs -> 0 .. 255] /\ num_pending_vif \in [Vifs -> 0 .. 255]
        /\ stats_num_queued \in [Vifs -> 0 .. 255] /\ link_map_cache \in [Vifs -> [Links -> Nat]]
        /\ num_pending \in 0 .. 255
    BY <2>4
  <2>8. QED
    BY <2>5, <2>6, <2>7 DEF CountsOK
<1>7. LocksOK
  <2>1. /\ overfull = FALSE /\ flushing = None /\ tx_locked_cnt = 0 /\ leaked = 0 /\ generation = 0
    BY DEF Init
  <2>2. leaked \in 0 .. generation
    BY <2>1
  <2>3. LockBalance
    BY <2>1 DEF LockBalance
  <2>4. QED
    BY <2>1, <2>2, <2>3 DEF LocksOK
<1>8. ExpiryOK
  <2>1. /\ queuedFlag = FALSE /\ timerLost = FALSE /\ hung = FALSE /\ timers = 0 /\ timeoutPc = "idle"
    BY DEF Init
  <2>2. timers \in 0 .. TimerSlots
    BY <2>1, BoundsAssumption
  <2>3. QED
    BY <1>2, <2>1, <2>2 DEF ExpiryOK
<1>9. misled = FALSE
  BY DEF Init
<1>10. QED
  BY <1>3, <1>4, <1>5, <1>6, <1>7, <1>8, <1>9 DEF QueueOK, TxQueueInv

\* tx_bh, the firmware and rx_bh: a packet id is given away, answered, given
\* up or released.
LEMMA HandsStep ==
    ASSUME QueueOK, misled = FALSE,
           \/ FreeTxWsm \/ Write \/ WriteFails \/ WaitFails \/ ReleaseFreed \/ ConfirmRemove
           \/ \E e \in fw : ConfirmGetSkb(e) \/ Requeue(e)
    PROVE  TxQueueInv'
<1>0. ListsOK /\ OwnersOK /\ ConfirmOK /\ CountsOK /\ LocksOK /\ ExpiryOK /\ HandsOK /\ Apart
  BY DEF QueueOK, ConfirmOK
<1>1. QueueOK' /\ misled' = FALSE => TxQueueInv'
  BY DEF TxQueueInv
<1>2. HitOK' /\ misled' = TRUE => TxQueueInv'
  BY DEF TxQueueInv
<1>3. CASE FreeTxWsm
  <2>1. /\ Remove(data) /\ data # None /\ data' = None
        /\ UNCHANGED <<generation, expiry, need_confirm, fw, cb, misled, flushing, hung>>
    BY <1>3 DEF FreeTxWsm, answers
  <2>2. /\ data \in Out /\ data \notin Out' /\ Out' \subseteq Out
    BY <1>0, <2>1 DEF Out, Apart
  <2>3. HandsOK' /\ Apart'
    BY <1>0, <2>1 DEF HandsOK, Apart
  <2>4. UNCHANGED <<generation, expiry, flushing, hung>> /\ misled' = FALSE
    BY <2>1
  <2>5. QueueOK'
    BY <2>1, <2>2, <2>3, <2>4, RemoveStep
  <2>6. QED
    BY <1>1, <2>4, <2>5
<1>4. CASE Write
  <2>1. /\ UNCHANGED <<lists, pool, counters, generation, locks, expiry, cb, misled, flushing, hung,
                        history>>
        /\ data # None /\ fw' = fw \cup {data} /\ data' = None /\ need_confirm' \in {data, Dangling}
    BY <1>4 DEF Write
  <2>2. Out' \subseteq Out
    BY <2>1 DEF Out
  <2>3. HandsOK' /\ Apart'
    BY <1>0, <2>1 DEF HandsOK, Apart
  <2>4. /\ UNCHANGED <<lists, pool, counters, generation, locks, expiry, flushing, hung, history>>
        /\ misled' = FALSE
    BY <2>1
  <2>5. QueueOK'
    BY <2>2, <2>3, <2>4, AnswerStep
  <2>6. QED
    BY <1>1, <2>4, <2>5
<1>5. CASE WriteFails
  <2> DEFINE lost == [data EXCEPT !.gone = TRUE]
  <2>1. /\ Remove(data) /\ data # None /\ data' = None /\ need_confirm' = Dangling
        /\ fw' \subseteq fw \cup {lost} /\ fw \subseteq fw'
        /\ UNCHANGED <<generation, expiry, cb, misled, flushing, hung>>
    BY <1>5 DEF WriteFails
  <2>2. data \in Entries /\ ~data.gone
    BY <1>0, <2>1 DEF HandsOK, Apart
  <2>3. lost \in Entries /\ lost.gone
    BY <2>2 DEF Entries
  <2> HIDE DEF lost
  <2>4. /\ data \in Out /\ data \notin Out' /\ Out' \subseteq Out
    <3>1. data \in Out
      BY <2>1, <2>2 DEF Out
    <3>2. Out' \subseteq {d \in fw \cup {lost} \cup ({cb} \ {None}) : ~d.gone}
      BY <2>1 DEF Out
    <3>3. Out' \subseteq {d \in fw \cup ({cb} \ {None}) : ~d.gone}
      BY <2>3, <3>2
    <3>4. data \notin fw /\ data # cb
      BY <1>0, <2>1 DEF Apart
    <3>5. QED
      BY <3>1, <3>3, <3>4 DEF Out
  <2>5. HandsOK' /\ Apart'
    BY <1>0, <2>1, <2>3 DEF HandsOK, Apart
  <2>6. UNCHANGED <<generation, expiry, flushing, hung>> /\ misled' = FALSE
    BY <2>1
  <2>7. QueueOK'
    BY <2>1, <2>4, <2>5, <2>6, RemoveStep
  <2>8. QED
    BY <1>1, <2>6, <2>7
<1>6. CASE WaitFails
  <2> DEFINE e == need_confirm
             lost == [e EXCEPT !.gone = TRUE]
  <2>1. /\ Remove(e) /\ e \in Out /\ data = None /\ data' = None /\ need_confirm' = Dangling
        /\ fw' = IF e \in fw THEN (fw \ {e}) \cup {lost} ELSE fw
        /\ cb' = IF e = cb THEN lost ELSE cb
        /\ UNCHANGED <<generation, expiry, misled, flushing, hung>>
    BY <1>6 DEF WaitFails, GiveUp
  <2> HIDE DEF e
  <2>2. e \in Entries /\ ~e.gone /\ (e \in fw \/ e = cb)
    BY <1>0, <2>1 DEF HandsOK, Out
  <2>3. lost \in Entries /\ lost.gone
    BY <2>2 DEF Entries
  <2> HIDE DEF lost
  <2>4. e \notin fw \/ e # cb \/ cb = None
    BY <1>0, <2>2 DEF Apart
  <2>5. e \notin Out' /\ Out' \subseteq Out
    <3>1. \A d \in Out' : ~d.gone /\ d \in fw' \cup ({cb'} \ {None})
      BY <2>1 DEF Out
    <3>2. \A d \in Out' : d # lost
      BY <2>3, <3>1
    <3>3. ASSUME NEW d \in Out' PROVE d \in Out /\ d # e
      <4>1. CASE d \in fw'
        <5>1. CASE e \in fw
          BY <2>1, <3>1, <3>2, <4>1, <5>1 DEF Out
        <5>2. CASE e \notin fw
          BY <2>1, <3>1, <3>2, <4>1, <5>2 DEF Out
        <5>3. QED
          BY <5>1, <5>2
      <4>2. CASE d = cb' /\ cb' # None
        <5>1. d = cb /\ d # e /\ cb # None
          BY <2>1, <3>2, <4>2
        <5>2. QED
          BY <3>1, <5>1 DEF Out
      <4>3. QED
        BY <3>1, <4>1, <4>2
    <3>4. QED
      BY <3>3
  <2>6. HandsOK'
    BY <1>0, <2>1, <2>3 DEF HandsOK
  <2>7. Apart'
    <3>1. ASSUME cb' # None, ~cb'.gone PROVE cb' \notin fw'
      <4>1. cb' = cb /\ cb # lost
        BY <2>1, <2>3, <3>1
      <4>2. cb \notin fw
        BY <1>0, <3>1, <4>1 DEF Apart
      <4>3. QED
        BY <2>1, <4>1, <4>2
    <3>2. QED
      BY <2>1, <3>1 DEF Apart
  <2>8. UNCHANGED <<generation, expiry, flushing, hung>> /\ misled' = FALSE
    BY <2>1
  <2>9. QueueOK'
    BY <2>1, <2>5, <2>6, <2>7, <2>8, RemoveStep
  <2>10. QED
    BY <1>1, <2>8, <2>9
<1>7. CASE ReleaseFreed
  <2>1. PICK i \in Range(queue \o pending) :
          Remove([id |-> PacketId(i), skb |-> pool[i].skb, gone |-> FALSE])
    BY <1>7 DEF ReleaseFreed
  <2> DEFINE e == [id |-> PacketId(i), skb |-> pool[i].skb, gone |-> FALSE]
  <2>2. i \in Held /\ i \in Items
    <3>1. Range(queue \o pending) = Held
      BY <1>0, OnceConcat DEF ListsOK, Held
    <3>2. Held \subseteq Items
      BY <1>0, Elements DEF ListsOK, Held
    <3>3. QED
      BY <3>1, <3>2
  <2>3. /\ e.id.qgen = generation /\ e.id.igen = pool[i].generation /\ e.id.item = i
        /\ e \in Entries
    BY <1>0, <2>2, FreshIds
  <2>4. Remove(e)
    BY <2>1
  <2> HIDE DEF e
  <2>5. e.id \in PacketIds
    BY <2>3 DEF Entries
  <2>6. IdValid(e.id)
    <3>1. i < Capacity
      BY <2>2, PoolSize DEF Items
    <3>2. QED
      BY <2>3, <3>1 DEF IdValid
  <2>7. /\ UNCHANGED <<generation, expiry, flushing, hung>> /\ misled' = TRUE
        /\ UNCHANGED <<bh, fw, cb>>
    BY <1>7 DEF ReleaseFreed
  <2>8. HandsOK'
    BY <1>0, <2>7, HandsStay
  <2>9. HitOK'
    BY <2>4, <2>5, <2>6, <2>7, <2>8, RemoveHit
  <2>10. QED
    BY <1>2, <2>7, <2>9
<1>8. CASE ConfirmRemove
  <2>1. /\ Remove(cb) /\ cb # None /\ cb' = None /\ Misleads(cb)
        /\ need_confirm' \in {need_confirm, Dangling}
        /\ UNCHANGED <<generation, expiry, data, fw, flushing, hung>>
    BY <1>8 DEF ConfirmRemove, Outlives
  <2>2. cb \in Entries /\ cb.id \in PacketIds
    BY <1>0, <2>1 DEF HandsOK, Entries
  <2>3. HandsOK' /\ Apart' /\ Out' \subseteq Out
    BY <1>0, <2>1 DEF HandsOK, Apart, Out
  <2>4. UNCHANGED <<generation, expiry, flushing, hung>>
    BY <2>1
  <2>5. CASE ~cb.gone
    <3>1. cb \in Out /\ cb \notin Out'
      BY <1>0, <2>1, <2>5 DEF Apart, Out
    <3>2. QueueOK'
      BY <2>1, <2>3, <2>4, <3>1, RemoveStep
    <3>3. misled' = FALSE
      BY <2>1, <2>5 DEF Misleads
    <3>4. QED
      BY <1>1, <3>2, <3>3
  <2>6. CASE cb.gone /\ ~IdValid(cb.id)
    <3>1. UNCHANGED <<lists, pool, counters, locks, history>>
      BY <2>1, <2>6 DEF Remove
    <3>2. QueueOK'
      BY <2>3, <2>4, <3>1, AnswerStep
    <3>3. misled' = FALSE
      BY <2>1, <2>6 DEF Misleads
    <3>4. QED
      BY <1>1, <3>2, <3>3
  <2>7. CASE cb.gone /\ IdValid(cb.id)
    <3>1. misled' = TRUE
      BY <2>1, <2>7 DEF Misleads
    <3>2. IdValid(cb.id)
      BY <2>7
    <3>3. HitOK'
      BY <2>1, <2>2, <2>3, <2>4, <3>1, <3>2, RemoveHit
    <3>4. QED
      BY <1>2, <3>1, <3>3
  <2>8. QED
    BY <2>5, <2>6, <2>7
<1>9. ASSUME NEW e \in fw, ConfirmGetSkb(e) PROVE TxQueueInv'
  <2>1. /\ UNCHANGED <<lists, pool, counters, generation, locks, expiry, flushing, hung, history>>
        /\ cb = None /\ fw' = fw \ {e} /\ cb' \in {e, None} /\ data' = data
        /\ need_confirm' \in {need_confirm, Dangling} /\ Misleads(e)
    BY <1>9 DEF ConfirmGetSkb, Outlives
  <2>2. HandsOK' /\ Apart' /\ Out' \subseteq Out
    BY <1>0, <2>1, AnswerTaken
  <2>3. UNCHANGED <<lists, pool, counters, generation, locks, expiry, flushing, hung, history>>
    BY <2>1
  <2>4. QueueOK'
    BY <2>2, <2>3, AnswerStep
  <2>5. CASE ~(e.gone /\ IdValid(e.id))
    <3>1. misled' = FALSE
      BY <2>1, <2>5 DEF Misleads
    <3>2. QED
      BY <1>1, <2>4, <3>1
  <2>6. CASE e.gone /\ IdValid(e.id)
    <3>1. misled' = TRUE
      BY <2>1, <2>6 DEF Misleads
    <3>2. /\ HandsOK' /\ badFree' = FALSE /\ pool' \in [Items -> ItemRec]
          /\ LockBalance' /\ overfull' \in BOOLEAN
          /\ flushing' \in Vifs \cup {None} /\ ListsOK' /\ ExpiryOK' /\ generation' \in 0 .. 15
      BY <2>4 DEF QueueOK, OwnersOK, ConfirmOK, LocksOK
    <3>3. live' \subseteq Skbs
      BY <2>4 DEF QueueOK, OwnersOK
    <3>4. /\ num_queued_vif' \in [Vifs -> 0 .. 255] /\ num_pending_vif' \in [Vifs -> 0 .. 255]
          /\ stats_num_queued' \in [Vifs -> 0 .. 255] /\ link_map_cache' \in [Vifs -> [Links -> Nat]]
          /\ num_pending' \in 0 .. 255
      BY <2>4 DEF QueueOK, CountsOK
    <3>5. num_queued' \in 0 .. 255 /\ tx_locked_cnt' \in 0 .. 255 /\ leaked' \in Nat
      <4>1. num_queued \in 0 .. 255 /\ tx_locked_cnt \in 0 .. 17 /\ leaked \in 0 .. 15
        BY <1>0, QueuedFits, StopsFit
      <4>2. num_queued' = num_queued /\ tx_locked_cnt' = tx_locked_cnt /\ leaked' = leaked
        BY <2>1 DEF counters, locks
      <4>3. QED
        BY <4>1, <4>2
    <3>6. HitOK'
      BY <3>1, <3>2, <3>3, <3>4, <3>5, HitTypes
    <3>7. QED
      BY <1>2, <3>1, <3>6
  <2>7. QED
    BY <2>5, <2>6
<1>10. ASSUME NEW e \in fw, Requeue(e) PROVE TxQueueInv'
  <2>1. Misleads(e)
    BY <1>10 DEF Requeue
  <2>2. CASE ~(e.gone /\ IdValid(e.id))
    <3>1. misled' = FALSE
      BY <2>1, <2>2 DEF Misleads
    <3>2. QueueOK'
      BY <1>10, <2>2, RequeueStep
    <3>3. QED
      BY <1>1, <3>1, <3>2
  <2>3. CASE e.gone /\ IdValid(e.id)
    <3>1. misled' = TRUE
      BY <2>1, <2>3 DEF Misleads
    <3>2. IdValid(e.id)
      BY <2>3
    <3>3. HitOK'
      BY <1>10, <3>1, <3>2, RequeueHit
    <3>4. QED
      BY <1>2, <3>1, <3>3
  <2>4. QED
    BY <2>2, <2>3
<1>11. QED
  BY <1>3, <1>4, <1>5, <1>6, <1>7, <1>8, <1>9, <1>10

\* Nothing happens.
LEMMA InvStays == TxQueueInv /\ UNCHANGED vars => TxQueueInv'
<1> SUFFICES ASSUME TxQueueInv, UNCHANGED vars PROVE TxQueueInv'
  OBVIOUS
<1>1. /\ UNCHANGED <<lists, pool, counters, generation, locks, expiry, bh, fw, cb, flushing, hung,
                     history>>
      /\ misled' = misled
  BY DEF vars, answers
<1>2. CASE ~misled
  <2>1. QueueOK /\ LocksOK /\ ExpiryOK
    BY <1>2 DEF TxQueueInv, QueueOK
  <2>2. LocksOK'
    BY <1>1, <2>1, LocksKept DEF counters
  <2>3. ExpiryOK'
    BY <1>1, <2>1 DEF ExpiryOK, expiry, lists
  <2>4. QueueOK'
    BY <1>1, <2>1, <2>2, <2>3, BesideStep
  <2>5. QED
    BY <1>1, <1>2, <2>4 DEF TxQueueInv
<1>3. CASE misled
  <2>1. HitOK
    BY <1>3 DEF TxQueueInv
  <2>2. TypeOK'
    BY <1>1, <2>1 DEF HitOK, TypeOK, lists, counters, locks, expiry, bh, history
  <2>3. ListsOK' /\ LockBalance' /\ ExpiryOK' /\ badFree' = FALSE
    BY <1>1, <2>1 DEF HitOK, ListsOK, LockBalance, ExpiryOK, lists, counters, locks, expiry, history
  <2>4. QED
    BY <1>1, <1>3, <2>2, <2>3 DEF HitOK, TxQueueInv
<1>4. QED
  BY <1>2, <1>3 DEF TxQueueInv

\* The operations that leave the packet ids alone.
LEMMA OtherStep ==
    ASSUME QueueOK,
           \/ \E f \in Vifs, l \in Links, s \in Skbs : Put(f, l, s)
           \/ \E f \in Vifs, mask \in SUBSET Links : Get(f, mask)
           \/ Age \/ TimeoutStart \/ TimeoutBody \/ ClearAll
           \/ \E f \in FlushVifs : FlushStart(f)
           \/ FlushDrop \/ FlushDone \/ StopApCancel
    PROVE  QueueOK' /\ misled' = misled
<1>0. ListsOK /\ OwnersOK /\ ConfirmOK /\ CountsOK /\ LocksOK /\ ExpiryOK
  BY DEF QueueOK
<1>1. ASSUME NEW f \in Vifs, NEW l \in Links, NEW s \in Skbs, Put(f, l, s) PROVE QueueOK'
  BY <1>1, PutStep
<1>2. ASSUME NEW f \in Vifs, NEW mask \in SUBSET Links, Get(f, mask) PROVE QueueOK'
  BY <1>2, GetStep
<1>3. ASSUME Age PROVE QueueOK'
  BY <1>3, AgeStep
<1>4. ASSUME TimeoutStart PROVE QueueOK'
  <2>1. /\ UNCHANGED <<lists, pool, counters, generation, locks, timerLost, bh, fw, cb, flushing, hung,
                       history>>
        /\ timers > 0 /\ timers' = timers - 1 /\ timeoutPc' = "fired" /\ queuedFlag' = FALSE
    BY <1>4 DEF TimeoutStart, answers
  <2>2. LocksOK'
    BY <1>0, <2>1, LocksKept DEF counters
  <2>3. timers' \in 0 .. TimerSlots
    BY <1>0, <2>1, BoundsAssumption DEF ExpiryOK
  <2>4. ExpiryOK'
    BY <1>0, <2>1, <2>3 DEF ExpiryOK
  <2>5. QED
    BY <2>1, <2>2, <2>4, BesideStep
<1>5. ASSUME TimeoutBody PROVE QueueOK'
  BY <1>5, TimeoutStep
<1>6. ASSUME ClearAll PROVE QueueOK'
  <2>1. /\ Clear(Vifs, None) /\ generation < MaxClears /\ fw' \subseteq fw /\ hung' = hung
        /\ data' = data /\ need_confirm' \in {None, Dangling}
    BY <1>6 DEF ClearAll
  <2>2. \A i \in Held : IfOf(i) \in Vifs
    BY <1>0 DEF OwnersOK, IfOf
  <2>3. QED
    BY <2>1, <2>2, ClearStep
<1>7. ASSUME NEW f \in FlushVifs, FlushStart(f) PROVE QueueOK'
  <2>1. /\ UNCHANGED <<lists, pool, counters, generation, overfull, leaked, expiry, bh, fw, cb, hung, history>>
        /\ flushing = None /\ flushing' = f /\ QueueLock
    BY <1>7 DEF FlushStart, answers
  <2>2. f \in Vifs /\ f # None
    BY BoundsAssumption
  <2>3. tx_locked_cnt \in 0 .. 17 /\ leaked \in 0 .. 15
    BY <1>0, StopsFit
  <2>4. tx_locked_cnt' = tx_locked_cnt + 1
    BY <2>1, <2>3, StopCount
  <2>5. LocksOK'
    BY <1>0, <2>1, <2>2, <2>3, <2>4 DEF LocksOK, LockBalance, counters
  <2>6. ExpiryOK'
    BY <1>0, <2>1 DEF ExpiryOK, expiry, lists
  <2>7. QED
    BY <2>1, <2>5, <2>6, BesideStep
<1>8. ASSUME FlushDrop PROVE QueueOK'
  <2>1. CASE \A i \in Range(pending \o queue) : IfOf(i) = flushing
    <3>1. /\ Clear({flushing}, flushing) /\ generation < MaxClears /\ fw' \subseteq fw /\ hung' = hung
          /\ flushing # None /\ data' = data /\ need_confirm' \in {None, Dangling}
      BY <1>8, <2>1 DEF FlushDrop
    <3>2. flushing \in Vifs
      BY <1>0, <3>1 DEF LocksOK
    <3>3. Range(pending \o queue) = Held
      <4>1. Range(pending \o queue) = Range(pending) \cup Range(queue)
        BY <1>0, OnceConcat DEF ListsOK
      <4>2. QED
        BY <4>1 DEF Held
    <3>4. \A i \in Held : IfOf(i) \in {flushing}
      BY <2>1, <3>3
    <3>5. {flushing} \in SUBSET Vifs
      BY <3>2
    <3>6. QED
      BY <3>1, <3>4, <3>5, ClearStep
  <2>2. CASE ~(\A i \in Range(pending \o queue) : IfOf(i) = flushing)
    <3>1. /\ UNCHANGED <<lists, pool, counters, generation, locks, expiry, bh, fw, cb, flushing, history>>
          /\ hung' = TRUE
      BY <1>8, <2>2 DEF FlushDrop, answers
    <3>2. LocksOK'
      BY <1>0, <3>1, LocksKept DEF counters
    <3>3. ExpiryOK'
      BY <1>0, <3>1 DEF ExpiryOK, expiry, lists
    <3>4. QED
      BY <3>1, <3>2, <3>3, BesideStep
  <2>3. QED
    BY <2>1, <2>2
<1>9. ASSUME FlushDone PROVE QueueOK'
  <2>1. /\ UNCHANGED <<lists, pool, counters, generation, overfull, leaked, expiry, bh, fw, cb, hung, history>>
        /\ flushing # None /\ flushing' = None /\ QueueUnlock
    BY <1>9 DEF FlushDone, answers
  <2>2. tx_locked_cnt \in 0 .. 17 /\ leaked \in 0 .. 15
    BY <1>0, StopsFit
  <2>3. tx_locked_cnt = (IF overfull THEN 1 ELSE 0) + 1 + leaked
    BY <1>0, <2>1 DEF LocksOK, LockBalance
  <2>4. tx_locked_cnt > 0
    BY <2>2, <2>3
  <2>5. tx_locked_cnt' = tx_locked_cnt - 1
    BY <2>1, <2>2, <2>4, StopCount
  <2>6. LocksOK'
    <3>1. tx_locked_cnt' = (IF overfull THEN 1 ELSE 0) + 0 + leaked
      BY <2>2, <2>3, <2>5
    <3>2. num_queued' = num_queued
      BY <2>1 DEF counters
    <3>3. QED
      BY <1>0, <2>1, <3>1, <3>2 DEF LocksOK, LockBalance
  <2>7. ExpiryOK'
    BY <1>0, <2>1 DEF ExpiryOK, expiry, lists
  <2>8. QED
    BY <2>1, <2>6, <2>7, BesideStep
<1>10. ASSUME StopApCancel PROVE QueueOK'
  <2>1. /\ UNCHANGED <<lists, pool, counters, generation, locks, queuedFlag, timeoutPc, bh, fw, cb, flushing,
                       hung, history>>
        /\ timers' = 0 /\ timerLost' = TRUE
    BY <1>10 DEF StopApCancel, answers
  <2>2. LocksOK'
    BY <1>0, <2>1, LocksKept DEF counters
  <2>3. timers' \in 0 .. TimerSlots
    BY <2>1, BoundsAssumption
  <2>4. ExpiryOK'
    BY <1>0, <2>1, <2>3 DEF ExpiryOK
  <2>5. QED
    BY <2>1, <2>2, <2>4, BesideStep
<1>11. misled' = misled
  BY DEF Put, Get, Age, TimeoutStart, TimeoutBody, ClearAll, Clear, FlushStart, FlushDrop, FlushDone,
         StopApCancel, answers
<1>12. QED
  BY <1>1, <1>2, <1>3, <1>4, <1>5, <1>6, <1>7, <1>8, <1>9, <1>10, <1>11

LEMMA TxQueueStep == TxQueueInv /\ [Next]_vars => TxQueueInv'
<1> SUFFICES ASSUME TxQueueInv, [Next]_vars PROVE TxQueueInv'
  OBVIOUS
<1>1. CASE UNCHANGED vars
  BY <1>1, InvStays
<1>2. CASE ~misled /\ QueueStep
  <2>1. QueueOK /\ misled = FALSE
    BY <1>2 DEF TxQueueInv
  <2>2. CASE \/ FreeTxWsm \/ Write \/ WriteFails \/ WaitFails \/ ReleaseFreed \/ ConfirmRemove
             \/ \E e \in fw : ConfirmGetSkb(e) \/ Requeue(e)
    BY <2>1, <2>2, HandsStep
  <2>3. CASE \/ \E f \in Vifs, l \in Links, s \in Skbs : Put(f, l, s)
             \/ \E f \in Vifs, mask \in SUBSET Links : Get(f, mask)
             \/ Age \/ TimeoutStart \/ TimeoutBody \/ ClearAll
             \/ \E f \in FlushVifs : FlushStart(f)
             \/ FlushDrop \/ FlushDone \/ StopApCancel
    <3>1. QueueOK' /\ misled' = misled
      BY <2>1, <2>3, OtherStep
    <3>2. QED
      BY <2>1, <3>1 DEF TxQueueInv
  <2>4. QED
    BY <1>2, <2>2, <2>3 DEF QueueStep
<1>3. QED
  BY <1>1, <1>2 DEF Next, Stop

-----------------------------------------------------------------------------
(* Theorems.                                                                *)

\* Whatever the order of puts, gets, writes, confirms, requeues, expiries,
\* clears and flushes, the lists, the owners, the packet ids, the counters, the
\* stops and the timer agree (hal/atbm_queue.c), up to the step in which an
\* answer to a frame tx_bh had given up, or a pointer to a freed frame, hits
\* an item (hal/atbm_sdio_bh.c:1388 and 1410).  After that step the lists, the
\* types, the stops and the timer still do.
THEOREM TxQueueCorrect == Spec => []TxQueueInv
<1>1. QED
  BY TxQueueInit, TxQueueStep, PTL DEF Spec

\* The queue's variables keep their types, its counters the width of their C
\* types.
THEOREM TypeCorrect == Spec => []TypeOK
<1>1. TxQueueInv => TypeOK
  BY QueueTypes DEF TxQueueInv, HitOK
<1>2. QED
  BY <1>1, TxQueueCorrect, PTL

\* No item of the pool is lost or on two lists, whatever an answer hits.
THEOREM PoolIsPartition == Spec => []PoolPartition
<1>1. TxQueueInv => PoolPartition
  <2> SUFFICES ASSUME ListsOK PROVE PoolPartition
    BY DEF TxQueueInv, QueueOK, HitOK
  <2> DEFINE some == queue \o pending
  <2>1. /\ some \in Seq(Items) /\ Len(some) = Len(queue) + Len(pending)
        /\ Range(some) = Range(queue) \cup Range(pending)
    BY OnceConcat DEF ListsOK
  <2> HIDE DEF some
  <2>2. /\ Len(some \o free_pool) = Len(some) + Len(free_pool)
        /\ Range(some \o free_pool) = Range(some) \cup Range(free_pool)
    <3>1. some \in Seq(Items) /\ free_pool \in Seq(Items)
      BY <2>1 DEF ListsOK
    <3>2. QED
      BY <3>1, OnceConcat
  <2>3. Len(some \o free_pool) = Capacity
    BY <2>1, <2>2, ListsFill
  <2>4. Range(queue) \subseteq Items /\ Range(pending) \subseteq Items
    BY Elements DEF ListsOK
  <2>5. Range(some \o free_pool) = Items
    BY <2>1, <2>2, <2>4 DEF ListsOK
  <2>6. QED
    BY <2>3, <2>5 DEF PoolPartition, some
<1>2. QED
  BY <1>1, TxQueueCorrect, PTL

\* The counters the scheduler decides by are the lengths and the parts of the
\* lists (atbmwifi_queue_get_num_queued, atbmwifi_queue_stats_is_empty), until
\* an answer to a frame that was given up, or a freed pointer, hits an item.
THEOREM CountersAreExact == Spec => []CountersExact
<1>1. TxQueueInv => CountersExact
  <2> SUFFICES ASSUME ~misled, ListsOK, CountsOK PROVE CountersExact
    BY DEF TxQueueInv, QueueOK, CountersExact
  <2>1. queue \in Seq(Items) /\ Once(queue) /\ pending \in Seq(Items) /\ Once(pending)
    BY DEF ListsOK
  <2>2. \A f, l : /\ OfVif(queue, f) = Cardinality(Wait(f))
                  /\ OfVif(pending, f) = Cardinality(Sent(f))
                  /\ OfLink(queue, f, l) = Cardinality(WaitOn(f, l))
    BY <2>1, CountsAreCards DEF Wait, Sent, WaitOn
  <2>3. QED
    BY <2>2 DEF CountersExact, CountsOK
<1>2. QED
  BY <1>1, TxQueueCorrect, PTL

\* A packet id that tx_bh has not given up is stale by the queue's generation
\* or names the pending frame it was issued for, however many frames were
\* given up, cleared, requeued or expired before.
THEOREM LateAnswersMiss == Spec => []ConfirmHitsOwnFrame
<1>1. TxQueueInv => ConfirmHitsOwnFrame
  <2> SUFFICES ASSUME ListsOK, ConfirmOK, NEW e \in Out, e.id.qgen = generation
               PROVE  IdValid(e.id) /\ pool[e.id.item].skb = e.skb /\ e.id.item \in Range(pending)
    BY DEF TxQueueInv, QueueOK, ConfirmHitsOwnFrame
  <2>1. QED
    BY KnownIds
<1>2. QED
  BY <1>1, TxQueueCorrect, PTL

\* A confirm, an expiry, a write error, a failed wait and a clear racing for a
\* frame free its buffer exactly once; nothing is freed twice even when an
\* answer hits a frame it was not meant for.
THEOREM BuffersFreedOnce == Spec => []SkbFreedOnce
<1>1. TxQueueInv => SkbFreedOnce
  <2>1. ASSUME ListsOK, OwnersOK PROVE SkbFreedOnce
    <3>1. Range(queue \o pending) = Held
      BY <2>1, OnceConcat DEF ListsOK, Held
    <3>2. Held \subseteq Items
      BY <2>1, Elements DEF ListsOK, Held
    <3>3. \A i \in Items : pool[i].skb # None <=> i \in Held
      BY <2>1, <3>2, BoundsAssumption DEF OwnersOK
    <3>4. Cardinality(live) = Len(queue) + Len(pending)
      <4> DEFINE g == [i \in Held |-> pool[i].skb]
      <4>1. g \in Bijection(Held, live)
        BY <2>1 DEF OwnersOK, Bijection, Injection, Surjection, IsInjective
      <4>2. IsFiniteSet(Held) /\ Cardinality(Held) = Len(queue) + Len(pending)
        BY <2>1, ListsFill
      <4>3. Cardinality(live) = Cardinality(Held)
        BY <4>1, <4>2, FS_Bijection DEF ExistsBijection
      <4>4. QED
        BY <4>2, <4>3
    <3>5. QED
      BY <2>1, <3>1, <3>3, <3>4 DEF SkbFreedOnce, OwnersOK
  <2>2. misled /\ HitOK => SkbFreedOnce
    BY DEF HitOK, SkbFreedOnce
  <2>3. QED
    BY <2>1, <2>2 DEF TxQueueInv, QueueOK
<1>2. QED
  BY <1>1, TxQueueCorrect, PTL

\* Every stop of the network queues is undone, but for those a clear of all
\* interfaces leaves behind.
THEOREM StopsAreUndone == Spec => []LockBalance
<1>1. TxQueueInv => LockBalance
  BY DEF TxQueueInv, QueueOK, HitOK, LocksOK
<1>2. QED
  BY <1>1, TxQueueCorrect, PTL

\* A frame a sender put waits under an armed timer, unless a registration
\* failed or stopping the AP cancelled it.
THEOREM ExpiryIsArmed == Spec => []ExpiryArmed
<1>1. TxQueueInv => ExpiryArmed
  BY DEF TxQueueInv, QueueOK, HitOK, ExpiryOK, ExpiryArmed
<1>2. QED
  BY <1>1, TxQueueCorrect, PTL
=============================================================================
