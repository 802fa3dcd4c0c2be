# A TLA+ model of the AltoBeam RTOS Wi-Fi host driver

The repository is the host half of a Wi-Fi driver for AltoBeam chips (the "HMAC"): C code that runs
as a handful of RTOS threads beside the network stack, talks to firmware over SDIO, USB or SPI, and
contains a supplicant and a small access point. This directory holds TLA+ modules for the parts where
threads, the firmware and timers meet, the TLC configurations that check them on small instances, and
proofs that TLAPS checks. Everything refers to the default build: SDIO, separate `tx_bh` and `rx_bh`
threads, `ATBM_TX_SKB_NO_TXCONFIRM`, a work table of 32 entries, WPS, P2P and SAE off.

## 1. The system

### Threads and how they interact

| actor | code | what it does |
|---|---|---|
| senders | network stack, `net/`, supplicant | `atbmwifi_queue_put`, then `atbm_bh_wakeup` |
| command callers | any thread | `wsm_cmd_send` under `wsm_cmd_mux`, waits for `wsm_cmd_wq` |
| `tx_bh` | `hal/sdio/atbm_sdio_bh.c` | waits for `tx_bh_wq`, asks `wsm_get_tx` for a command or a frame, writes batches to the device |
| `rx_bh` | `hal/sdio/atbm_sdio_bh.c` | reads messages; `wsm_handle_rx` dispatches confirms, indications and data |
| work thread | `hal/atbm_task.c` | runs queued work, among it the recovery `wsm_sync_channl_reset` |
| timer task | `hal/atbm_timer.c` | runs the functions of expired timers |
| event thread | `net/wpa/wpa_event.c` | runs supplicant and API requests one after the other |
| firmware | external | takes frames from its input buffers, answers commands, confirms frames |

### Components, their state, what makes them correct

* **Transmit queues** (`hal/atbm_queue.c`). Four queues; each has a pool of items on three lists
  (free, queued, pending), 8-bit counters in total, per interface and per link, a generation, an
  over-full flag with a stop count of the net queue, and an expiry timer. Frames are identified to the
  firmware by packet ids. *Hard:* confirms, write errors, expiry, recovery clears and interface flushes
  race for the same frame. *Right means:* no item or buffer is lost or freed twice, a late confirm never
  hits another frame, the counters the scheduler reads are exact, stops and starts balance.
* **SDIO transmit thread** (`hal/sdio/atbm_sdio_bh.c`). Credit (`n_xmits`, `hw_bufs_free`) against a
  counter in the device, a batch buffer, a wake-up protocol (`bh_tx`, `tx_bh_wq`), `bh_term`. *Hard:* the
  register is read while it moves, writes fail, waits give up, the driver is stopped meanwhile. *Right
  means:* the device is never overrun, its assertions do not fire, no wake-up is lost, the thread ends.
* **Command channel and recovery** (`hal/atbm_wsm.c`). One slot, an event, the firmware's answers, and a
  reset of the channel when an answer is missing or does not fit. *Hard:* time-outs racing late answers,
  repeated answers, two threads asking for recovery at once. *Right means:* a command returns its own
  answer, the event means done, recovery is neither forgotten nor waited for in vain.
* **Timer service** (`hal/atbm_timer.c`). 16 entries on three lists, OS timers, a message queue.
  *Hard:* cancel and re-registration while a message or the function is under way. *Right means:* a
  function runs once per registration that expired, never after a cancel; no entry and no expiry is lost.
* **Supplicant event queue** (`net/wpa/wpa_event.c`). A list, a "running" flag read without the lock,
  a wake-up semaphore and one acknowledgement semaphore for all posters. *Right means:* a FIFO that
  forgets nothing; a waiting poster is released by its own event; a request to stop ends the thread.
* **Block-ack reordering** (`hal/atbm_txrx.c`). Per link and TID a window of 64 slots over sequence
  numbers modulo 4096, the time each slot was first missed, a flag and a timer. *Hard:* frames lost,
  repeated and far ahead, a time-out that races late frames, a reset from another thread in two halves.
  *Right means:* every frame is in its slot inside the window, frames go up in order and at most once, and
  none waits without a timer.
* **Work queue** (`hal/atbm_task.c`). A table of functions, a bit map of the entries to run, one thread.
  *Hard:* an entry is cancelled, or handed to another user, while its bit is set. *Right means:* the thread
  runs the function that was asked for, and never a null pointer.
* **Station** (`hal/atbm_sta.c`), **scan, authentication, association** (`net/atbm_mgmt.c`,
  `net/atbm_connect.c`, the station's half of `net/wpa/wpa_main.c`). A supplicant state, the flags of scan,
  join, association and connection, five timers, two works, the events of the user and of rx_bh.
  *Hard:* every stage has a time-out, a refusal and a lost answer, each handled by another thread; the user
  scans, disconnects or stops the station in between; calls that wait for the firmware let the other threads
  in. *Right means:* a station that was asked to connect always has something that leads on and is connected
  in the end, no timer of an earlier attempt brings down a connection, a stopped station leaves nothing behind.
* **Transmit scheduling** (`wsm_get_tx` and the tx locks in `hal/atbm_wsm.c`), **access point and power save**
  (`hal/atbm_ap.c`), **keys** (`net/atbm_key.c`), **the authenticator** (`net/hostapd/`): not modelled, see
  the plan.
* Not to be modelled: bus register access and firmware download (I/O), the USB and SPI buses (not in the
  default build), frame conversion and parsing, rate control (heuristics), smart config, buffer layout,
  the hostap-derived cryptography, SAE, WPS and P2P, the operating-system ports. `PROJECT.json` lists them.

The hazards of this code, each at its line, are in `PROJECT.json` under `hazards`, with the property
that would notice it going wrong.

## 2. Modules

| module | models | composes / uses |
|---|---|---|
| `TxQueue` | one transmit queue with all threads that use it | |
| `SdioTx` | `atbm_sdio_tx_bh`, credit, wake-up, teardown | |
| `WsmCmd` | command slot, its caller, `tx_bh`, `rx_bh`, firmware, recovery | |
| `EloopTimer` | timer table, OS timers, message queue, task | |
| `EventFifo` | what an event queue promises (abstract) | |
| `WpaEvent` | posters, event thread, semaphores | instantiates `EventFifo` (refinement) |
| `RxReorder` | the reorder buffer of a link and TID, its three threads, the peer | |
| `WorkQueue` | work table, bit map and thread: the operators of `atbm_task.c` | |
| `Connect` | a station from the user's request to the connection and back, with its threads, timers, the firmware and the access point | extends `WorkQueue` |
| `ListLemmas` | lemmas about linked lists: appending, prepending, cutting and dropping where each entry occurs once | extended by two of the next |
| `SdioTxProofs`, `TxQueueProofs`, `WsmCmdProofs`, `EloopTimerProofs`, `WpaEventProofs`, `RxReorderProofs`, `ConnectProofs` | theorems about the module each is named after | extends that module and `TLAPS` |
| `*MC` | a module each, extended for TLC | the cfg gives the constants |

Conventions. Variables and actions keep the names of the code where they have one. A step is what runs
under one lock, or between two points where another thread can see the state; a value read under a lock
and used after it is in a variable of its own. Variables marked *history* are not in the code: they record
that something happened (a buffer freed twice, a message lost) so that an invariant can speak of it. A
definition whose comment begins with *Mutant* is a plausible wrong version of the definition that follows
it; the specification never uses it, it serves to show that a property can fail.

### TxQueue
Lists are sequences of item numbers. An item keeps its buffer, interface, link, generation and whether it
is older than the time to live (`Age` makes all of them old at once: the code compares with one `ttl`).
`Put`, `Get`, `Remove`, `Requeue`, `Clear` are the functions of that name. `tx_bh` has the frame it got in `data` and
the last one it wrote in `need_confirm`: `FreeTxWsm` removes a frame that needs no confirm before it is written, `Write`
gives one to the firmware, `WriteFails` and `WaitFails` release one through `atbm_sdio_release_err_data` (the bus write
failed, or the wait for space after it), `ReleaseFreed` does so through a pointer to a frame that is not there any more.
A frame released while the firmware has it, or while its confirm is being handled, stays in `fw` (or `cb`) with
`gone` set: its answer still comes. `misled` records that such an answer, or a freed pointer, has hit an item: the code
would go on with the status, the counters or the buffer of another frame, the model stops there. `SdioTx` looks at the
same release from the device's side (`staleFree`). `ConfirmGetSkb` and `ConfirmRemove` are the two halves of
`atbmwifi_tx_confirm_cb`, which drops the lock in between; `TimeoutStart` and `TimeoutBody` are
`atbmwifi_queued_timeout` before and after it takes the lock; `FlushStart`, `FlushDrop`, `FlushDone` are
`__atbm_flush`. The timer table is a number of free places that a registration may or may not get. `fw` is
the set of frames the firmware will answer; recovery keeps any subset of them. Set-up and `deinit` are
outside, and so is `atbmwifi_queue_requeue_all`, which nothing calls.

### SdioTx
`pc` follows the labels of the thread's loop. A register read (`HaveSpaceRead`, `WaitRead`) and the use of
its value are two steps. A frame is one that needs a confirm (commands, too), which ends a batch, or one
that does not. The counters are natural numbers; `Half` is where a cast to `int` turns negative, so that
the wrap can be reached in a small model.

### WsmCmd
One caller stands for all because `wsm_cmd_mux` is held throughout. A command is its number; `kind` gives
its id. Return codes are the number of the command whose answer it is, or `Err`. Six kinds of fault are
possible, at most `MaxFaults` in all. `late` records that something was given up whose answer or event may
still come; the promises hold until then, and the violation run shows what comes after.

### EloopTimer
Entries move between the three lists; each registration has a number, which the code does not have, so that
the properties can say which one a function runs for. `reused` records that an entry was handed out while a
message, an OS timer or the function of an earlier use was still about. The code does not prevent that, so
the properties promise nothing after it; before it they hold.

### WpaEvent and EventFifo
`EventFifo` has a queue and a log of handled events. `WpaEvent` maps its pending list, with the event the
thread has taken in front, to that queue. Reading a field of a freed event gives any value.

### RxReorder
`tid` is `struct atbm_ba_tid_params`. The operators `Release`, `ForceFree`, `UpLayer`, `BuffQueue` are the
functions on the buffer: each takes the record and returns the one left behind, with what it hands up in the
field `up`, where a slot without a frame (the code skips it) is `None`. A data frame takes up to three
steps: `FrameEnter` (test of `tid_en` and read of `start_seq`, no mutex), one of `FrameExpected`, `FrameOld`,
`FrameTooFar`, `FrameHeld`, `FrameBuffered` (under the mutex, the branches of `atbm_reorder_skb_queue`), and
`FrameUp` (the caller hands up what was not kept, the mutex released). BAR and ADDBA are one step: what their
early test of `tid_en` misses is a reset in between, after which they change nothing that the next ADDBA does
not set. DELBA and `atbm_reorder_func_reset` are two steps, one per section of the mutex. The peer counts its
frames without wrapping and sends those of its window in any order and as often as it likes; the window moves on
(and the frames behind it are given up) when a later frame, a BAR or a new agreement calls for it; the driver sees
the count modulo `SeqSpace`. Fragments and null frames go past the buffer and are left out.
The timers of a buffer are counted by the time they have left. All share the table of the timer service with the
rest of the driver: a registration gets an entry only while the buffer's own timers leave one (`TimerSlots`), may fail
at any time because the others hold the rest, and then leaves `timer_running` set with no timer (`Register`); `untimed`
records it until the buffer is empty. `frame_rx_time` is modelled by its age; a due timer runs before the clock goes on, so `HeldAtMost` is a bound for
a timer task that keeps up. `jumped` and `raced` record the two cases that the code does not order.

### WorkQueue and Connect
`WorkQueue` has the state of `atbm_task.c` and an operator per function; `Connect` extends it and puts them
into its actions, so a run of the composed system checks both. `Connect` has one action per event of
`atbm_wpa_event_process`, per timer function and per work. A function that waits for an answer of the firmware
in the middle is two actions (`RxDeauth`/`EvDeauthEnd`, `JoinStart`/`JoinDone`/`JoinArm`, the two halves of
`sta_deauth` in each of the four threads that call it), because the other threads run meanwhile; everything
between two such points is one action. rx_bh only queues what comes from outside; `owed` is what the access
point answers next. The access point repeats a message of the handshake until it is answered, and gives up
when the station ignores it. The user is one thread that waits for the events with an acknowledgement. A
timer is the number of its armed registrations (a second registration of the same timer is possible and is
modelled up to 2); it may fire whenever it is armed, but when what it guards is still under way that costs a
unit of `trouble`. `trouble` counts what the user does and what goes wrong (a time-out, a refusal, silence, no
memory, a failed command, a deauthentication, lost beacons, a scan that finds nothing) in one budget, so every
mixture of the two up to `MaxTrouble` is explored. `lost`, `raced`, `cancelled` are history: they record the
cases in which the code itself drops the thread, and the properties name them.

## 3. Runs

| run | bounds | states | shows |
|---|---|---|---|
| `TxQueueTraffic` | 3 items, 1 interface, 2 links, 2 buffers, 1 timer place, 1 requeue per frame, 1 frame released while it is out | 3.8 M | items, counters, packet ids and the expiry timer under all traffic interleavings |
| `TxQueueFlush` | 3 items, 2 interfaces, 1 link, 2 buffers, 1 clear, freed pointers but no frame released while it is out | 4.9 M | single free, exact counters, balanced stops under clears and flushes |
| `TxQueueCombo` | 2 interfaces, flush of one | violation | the flush spins for ever with the lock held |
| `SdioTx` | 2 input buffers, 4 frames, 2 waiting | 841 k | credit, assertions, wake-up, end of the thread |
| `SdioTxWrap` | sign change after 3 frames | violation | the signed comparison fires |
| `WsmCmd` | 2 ids, 2 commands, 3 faults of 6 kinds | 876 k | answers, events, the slot, recovery, return |
| `WsmCmdLateAnswer` | the same, time-outs | violation | a late answer is stored through a dead argument |
| `EloopTimer` | 2 entries, 2 handlers, 4 registrations | 291 k | lists, moments of running, no loss, service |
| `WpaEvent` | 2 posters, 3 events | 249 k | refinement of the FIFO, acknowledgements, stop |
| `RxReorder` | window 4 of 16 numbers starting at 13, 8 frames, time-out of 2 ticks, 2 agreements, 1 reset, 3 timer entries | 2.1 M | buffer, marks, order, bounded holding time |
| `RxReorderLost` | the same, 9 frames, at most 3 lost in a row | violation | new frames are freed as old ones |
| `Connect` | 4 works, open and protected networks, 3 troubles, 4 waiting events | 522 k | a way back at all times, own work only, calm connections, clean stop, reconnection |

Why these bounds are enough. Three items are the least with a queue that becomes over-full one frame before
the pool is empty and drains to half; two buffers leave the third item for reuse while a confirm is
outstanding, and one requeue gives a second generation. One released frame whose answer is still to come is enough to
meet the next user of its item; with a clear besides it the states are too many for a run, and the theorems of
section 4 cover the two together. Two input buffers and four frames let the credit run
out, be read anew, be lost to an error and run out again. Two commands are the least at which an answer can
meet the wrong command; three faults allow two time-outs of one command plus the loss that causes them. Two
timers and four registrations allow an entry to be cancelled, reused and expire twice while the other runs.
Three events with two posters allow crossing acknowledgements with a third event under way.
Eight frames from sequence number 13 cross the wrap of the numbers and go round the four slots twice; a frame can
be late, in turn, held, one window ahead and two windows ahead, and the second agreement sees what a reset in the
first one left. Three timer entries are one for the buffer, one that a BAR adds, and one more, so the table fills. The ratios are those of the code: the window divides the numbers, and half of them count as old.
Three troubles are a request to connect and two of: another request, a scan, a stop, a restart, a disconnection, a
fault; each of the exceptions named in the properties needs at most that, and the invariants also hold with four
(11.4 million states, too long for every run). Four waiting events let two attempts cross: with two, the answer
to the first attempt is never still in the queue when the second one has its own there, and the case in which
that answer moves the station on while the access point is already at the next attempt does not happen. Four
works are those of the two interfaces, so a cancelled entry can go to
another user.

Deadlock checking is off for `SdioTx`, `WsmCmd`, `EloopTimer`, `WpaEvent`, `RxReorder` and `Connect`: the thread ends, or the
bound on commands, registrations, events, frames or troubles is reached, and then the system really stops.

### Fairness
* `SdioTx`: the thread, a sender between queueing and kicking, and the device each go on; a wait in teardown
  ends because its loop tests `bh_term`. No fairness for the 100 s time-out: `FramesAreSent` does not lean on it.
* `WsmCmd`: every thread and the firmware go on, and the 40 s wait ends. The 120 s wait is not assumed to end,
  so that a recovery event that never comes shows.
* `EloopTimer`: the task, each OS timer and the start of a registration go on.
* `WpaEvent`: thread and posters go on; nothing relies on the 100 s.
* `Connect`: the event thread, the timer task and the work thread go on, the firmware ends a scan it has begun
  (it always sends the indication), the access point answers unless a fault makes it silent, and a user's
  disconnection comes back from the firmware. No fairness for the user or for any fault.

All of it is weak fairness of a thread that the RTOS scheduler runs when it is ready.

### What the runs found
1. **Flushing one interface hangs** when the other has a frame at the head of the pending list
   (`atbm_queue.c:202-213` never steps over it), with the queue's lock held.
2. **The assertion on the frame counters fires after 2^31 frames** (`atbm_sdio_bh.c:406`, `:467`): the
   difference is right, the signed comparison is not.
3. **A late answer uses the argument of a caller that has returned** (`atbm_wsm.c:1599`, `:1624`): the
   comment relies on `wsm_arg` being NULL after a time-out, and nothing clears it.
4. **New frames are freed as old ones** (`atbm_txrx.c:373-397`): a frame two windows ahead goes up without moving
   the window, and once the peer is 0x800 ahead every new frame is freed, where the comment says that such a
   frame is sent up.

Seen while modelling, and stated as exceptions inside properties: a clear of all interfaces cannot undo the
stop of an over-full queue (`leaked` in `LockBalance`); a requeued frame has no expiry timer (`ExpiryArmed`); a
frame that `tx_bh` releases after a failed wait, though the firmware has it, is answered later, and since
`atbmwifi_queue_put` sets the item's generation to 0 while the queue's stays, that answer fits the item's next user:
a queued frame is then freed and counted off as a pending one, and `need_confirm` may point to a freed frame
(`misled` in `ConfirmHitsOwnFrame`, `CountersExact` and `SkbFreedOnce`);
every failed write costs an input buffer for ever (`FramesAreSent`); the answer to a resent command is not
looked at (`OwnAnswer`); two threads may start a recovery together and share one event (`RecoveryOnItsWay`); a
stale timer message runs a new registration early (`RunsAsRegistered`); `ack_en` is read after the event may
have been freed, and acknowledgements cross (`AckIsOwn`, `PosterReturns`); a stop before the event thread
first runs is forgotten (`DestroyEnds`); a frame buffered between the halves of a reset leaks and leaves
`timer_running` set, so that the next agreement may hold frames without a timer, and so does a timer that
cannot be registered because the table is full (`HeldAtMost`); a scan or a join that cannot be started, a refusal to
authenticate after the join timer has gone, a handshake that breaks off, and the end of a user's scan, which
cancels the timer of the next attempt, each leave a station that never connects (`lost` in `WayBack` and
`Reconnected`); an association response and a first handshake message of an earlier attempt, handled after the
next one has begun, stop the timer that guards it, and the station waits for a handshake the access point knows
nothing of (the same); the handshake's timer runs only for the first EAPOL frame of the supplicant's life; the join
timer is armed after the event that may already have ended what it guards, and an association response is
taken in any state (`raced` in `Calm` and `StopQuiet`); a cancelled work keeps its bit, which then runs a null
function or another user's (`cancelled` in `OwnWork`); neither a stop nor a success cancels the timer of the
automatic reconnection (`StopQuiet` leaves it out).

## 4. Proofs

Seven modules prove theorems of the form `Spec => []Inv` for every value of the constants. Each states an
inductive invariant as a conjunction of named parts, which TLC checked on the bounds of the run before it was
proved, shows with a step per action that it is preserved, and derives the properties. What the code
assumes of its constants is in the `ASSUME` of each module; those that a proof leans on are named below.

### SdioTxProofs: the credit
`NoOverrun` (`DeviceNotOverrun`), `CreditChecked` (`CreditBeforeTake`), `NoStaleFree` (`StaleFreeNeedsStall`),
`NothingDisappears` (`XmitsAccounted`), `TypeCorrect`, and `AssertsBelowHalf` (`XmitAsserts`) under the further
assumption that fewer than `Half` frames are sent: the run `SdioTxWrap` shows that it is needed.
`CreditBeforeTake` is stated and proved only: a consequence of `CreditInv` that no run needs to repeat.
`DeviceNotOverrun` is not inductive: a state with a full device and credit left satisfies it and breaks it in
one step. `CreditInv` (theorem `CreditCorrect`) adds

* `Accounted`: what was counted is in the device, was taken by it, is in the batch or was lost;
* `CreditBound`: the cached credit and the counted frames the device has not taken never exceed the input
  buffers together, until teardown hands out credit of its own, when nothing is written any more;
* `SnapBound`: a value read from the register is not above the register, and the credit computed from it is
  not negative, although the device moves on in between;
* `BatchConfirm`: a batch about to be written has frames and `need_confirm` is one of them, so an error path
  that releases it releases nothing the device has.

### TxQueueProofs: a transmit queue
`TypeCorrect`, `PoolIsPartition`, `CountersAreExact`, `LateAnswersMiss` (`ConfirmHitsOwnFrame`),
`BuffersFreedOnce` (`SkbFreedOnce`), `StopsAreUndone` (`LockBalance`), `ExpiryIsArmed` (`ExpiryArmed`): all the
invariants of the two runs. `TxQueueInv` (theorem `TxQueueCorrect`) is `QueueOK` until `misled`, and then `HitOK`: the types, the lists, the stops
and the expiry timer, and that nothing was freed twice. `QueueOK` has the parts `ListsOK` (the lists share out the pool, each item
once: without that a move takes an item off only one of its places), `OwnersOK` (no two items hold the same
buffer, and the queue owns just these), `ConfirmOK` (of the packet ids that are out and not given up, those of the present
generation each name a pending frame, and no two the same one, so the next frame that `tx_bh` releases is that frame;
the item's own generation alone does not tell, since it starts at 0 whenever the item is used anew, which is why an
answer to a frame that was given up can mislead), `CountsOK` (every 8-bit counter is the
cardinality of a set of items: a difference is then never negative), `LocksOK` and `ExpiryOK`.
The fields of a packet id bound the constants: a pool of at most 255 items, interfaces in 4 bits, at
most 15 clears, since the 4-bit generation of a queue wraps at 16 and then an answer from 16 clears ago is
taken for a new one, and at most 255 requeues of a frame.

### WsmCmdProofs: commands and recovery
`TypeCorrect`, `RecoveryComes` (`RecoveryOnItsWay`), `EventIsCompletion` (`EventMeansDone`), `SlotHasOneOwner`
(`SlotOwned`), `AnswersMatch` (`OwnAnswer`). `CmdInv` adds to them that there is one recovery at a time
(`OneRecovery`, until two threads pass the test of `wsm_recovery` together); that of the command in the slot, in
`tx_bh`, in the firmware, its answer on the way and its event there is one at most (`Alone`); and what the
slot holds at each place where its caller may stand (`SlotState`). The last two hold until something is given up
that may still come (`late`).

### WpaEventProofs: the supplicant's event queue
`TypeCorrect`, `OwnAck` (`AckIsOwn`) and `ImplementsFifoSafety`: initial states of `WpaEvent` map to initial
states of `EventFifo` and each step to a step or a stutter. TLC checks the whole refinement, the fairness of
`EventFifo` included (`ImplementsFifo`). `EventInv` adds that events are numbered through the log, the thread and the list
(`InOrder`), that just the handled ones are freed, and whose each acknowledgement is (`AckOwners`).

### EloopTimerProofs: the timer service
`TypeCorrect`, `EntryOnOneList` (`OneList`), `RunsOnlyExpired` (`RunsAsRegistered`). `RunsAsRegistered` needs
that of an entry at most one start, OS timer or message is about, that it carries the entry's registration, and
that this one waits or has expired as the list says (`OwnUse`, until an entry is handed out with something
of its earlier use left). That no message is lost needs a message queue with a place for every entry, which
the code has (`QueueSize`), and at most one message of each.

### RxReorderProofs: the reorder buffer
`TypeCorrect`, `BuffersAreExact` (`BuffExact`), `MarksAreRight` (`TimeMarked`), `FramesInOrder` (`InOrder`),
`HeldNotLonger` (`HeldAtMost`): all the invariants of the run. The lemmas say, slot by slot of the window,
what `ForceFree`, `UpLayer` and `BuffQueue` leave and hand up, whatever the sequence numbers wrap to (the first
ones are about remainders: a buffer that divides the sequence space does not see them wrap). `RxInv` (theorem
`ReorderCorrect`) has, beside the types,

* `BufferOK`: the buffer is `Sound`, that is counted, each frame in the slot of its number, marked up to the
  last frame with the oldest mark first; it says nothing of frames or marks once the agreement has ended, because the
  second half of a reset moves `start_seq` to 0 under whatever a frame in between left there;
* `FrameInHand`: the frame of the receive thread is of the peer's window, since the peer gives up no frame
  and sends no BAR between the test of `tid_en` and the mutex;
* `TimerSet`: `timer_running` is set just when something is buffered, the oldest mark with some armed timer
  (or the timer task on its way) stays within one and a half time-outs unless a registration failed (`untimed`),
  and a reset that has begun has left nothing. `HeldAtMost` alone is not inductive: it does not say that a timer is armed;
* `InTurn`: the window starts with some frame `s` of the peer's count, all that went up is before it, all that
  is buffered is behind it in its place, and none of it is further than the peer has sent. The
  existence of `s` ties the 12-bit numbers to the frames; the histories `jumped` and `raced` say when it is lost.

Assumed are that `BUFF_STORED_LEN` divides the sequence space, and that `THE_RETRY_PKG_INEDX` is at least it and
leaves more than one window of the space above it (the code: 64, 4096, 2048), so that what is behind the window is
never taken for something ahead of it; and that the model has fewer frames than the sequence space (`MaxFrame`), so the
theorems speak of one agreement's numbers wrapping past `FirstSeq`, not of a frame a whole cycle late.

### ConnectProofs: the station and the work queue
`TypeCorrect`, `WorkIsOwn` (`OwnWork`), `ConnectionIsCalm` (`Calm`), `StopLeavesNothing` (`StopQuiet`),
`WayIsThere` (`WayBack`): all the invariants of the run.
`ConnInv` adds where the works of the station are in the table (`TableOK`), that a set bit stands for the
function its entry has (`BitsOwned`, until a work is cancelled with its bit set), the timers that each state of
the supplicant allows (`AttemptTimers`), and what each stage of the stop has taken away already (`StopStages`:
the stop is three steps with other threads between them, so `StopQuiet` is not inductive). A table with a
place for every work is assumed (the code has 32), and that the mark of a free place is no work.

`WayBack` says that something leads on; that the next step leaves something again needs to know that what is
there is still *effective*: an event that the event thread will drop, a scan work that finds `in_progress` set, or
a message the access point owes to a station that is not in the handshake lead nowhere. `WayInv` (theorem
`WayCorrect`, on top of `ConnInv`) says it of each:

* `WayOn`: what leads on is one of `Leads` (events that are never dropped, an armed timer, a thread between the
  halves of a deauthentication, the firmware's scan, a join, a scan work while no scan is in progress),
  `Handshaking` (an owed message, or the queued confirmation of the last one, that the supplicant's state will
  accept) or `SentAway` (a deauthentication that an associated station will take). It is stronger than
  `WayBack`, which also accepts a thread or a work that leads nowhere;
* `AutoOn`, `AssocOK`: `auto_connect` is off, or the supplicant above ASSOCIATED without `assoc_ok`, only while the
  event that starts over is in the queue (or its sender in the middle of a deauthentication), so a
  deauthentication ends in a reconnection;
* `OneM1`: the first message of the handshake is queued at most once and not while a later one is owed, so a
  repetition does not take the handshake back. This is the only part about where events are in the queue;
* `Guarded`, `WorkStages`, `OffWants`: an armed timer guards AUTHENTICATING and ASSOCIATING, the work thread is
  in the middle of a join or a deauthentication only in that work, and a station that is off wants nothing.

The rest speaks only of which events the queue *holds* (`Holds`); `EventKeeps` and `OthersKeep` say once for all
actions that an event stays until it is at the head. The first attempt at this proof failed on `RxEapol`: the
crossing of two attempts named in section 3 is a loss that `lost` did not record and that the bound of the run, two
waiting events then, kept out of TLC's reach. The history now records it, and the run has the larger bound.

### What stays with TLC
Liveness (it needs fairness and `ENABLED`): `FramesAreSent`, `StopEnds`, `CommandsReturn`, `Served`,
`PosterReturns`, `DestroyEnds`, `Reconnected`, and `ImplementsFifo` beyond its safety part. Every invariant
that a run checks is proved. The violation runs show what does not hold; there is nothing to prove.

## 5. Plan

1. *(done)* `TxQueue`, `SdioTx`, `WsmCmd`, `EloopTimer`, `WpaEvent`, `RxReorder`, `WorkQueue` and `Connect` with runs; the
   theorems of section 4.
2. *(done)* `WayBack` of `Connect`, as a theorem.
3. `Handshake`: the authenticator and the supplicant with generations of an association. `TxSched`: `wsm_get_tx`,
   the masks of sleeping stations and the tx locks, composed with the interface of `TxQueue`.
