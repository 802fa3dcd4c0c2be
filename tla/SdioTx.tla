------------------------------- MODULE SdioTx --------------------------------
(***************************************************************************)
(* The transmit thread of the SDIO bus, atbm_sdio_tx_bh                    *)
(* (hal/sdio/atbm_sdio_bh.c), and its credit with the device.  n_xmits     *)
(* counts the frames the host took for writing, the device's register      *)
(* hw_xmited the frames it has taken out of its NumInpChBufs input         *)
(* buffers; hw_bufs_free is the host's cached idea of the free ones.       *)
(* Senders queue a frame and kick the thread through the counter bh_tx and *)
(* the event tx_bh_wq; frames with a confirm (commands, too) end a batch.  *)
(***************************************************************************)
EXTENDS Integers

CONSTANTS
    NumInpChBufs,   \* input buffers of the device (wsm_caps.numInpChBufs)
    Half,           \* 2^31: where the C cast to int turns negative
    MaxXmits,       \* bound: frames ever taken for writing
    MaxQueued       \* bound: frames waiting in the queues at once

ASSUME BufsAssumption  == NumInpChBufs \in Nat \ {0}
ASSUME WidthAssumption == Half \in Nat \ {0} /\ MaxXmits \in Nat /\ MaxXmits < 2 * Half
ASSUME QueueAssumption == MaxQueued \in Nat \ {0}

VARIABLES
    pc,             \* where tx_bh is
    batch,          \* txMutiFrameCount: frames copied to xmit_buff
    enough,         \* the local variable of that name
    need_confirm,   \* "null", or whether its frame is in the batch or written
    snap,           \* the value read from NumOfHwXmitedAddr
    n_xmits, hw_bufs_free,
    bh_tx, tx_bh_wq, bh_term,
    queued,         \* frames waiting: [conf, noconf]
    kicks,          \* senders between queueing and atbm_bh_schedule_tx
    hw_xmited,      \* the device's counter
    device,         \* frames in the device's input buffers
    lost,           \* history: frames taken but never written
    stalled,        \* history: a wait for space gave up
    staleFree       \* history: an error path released a frame the device has

local   == <<batch, enough, need_confirm, snap>>
credit  == <<n_xmits, hw_bufs_free>>
wakeup  == <<bh_tx, tx_bh_wq>>
senders == <<queued, kicks>>
dev     == <<hw_xmited, device>>
history == <<lost, stalled, staleFree>>
vars    == <<pc, local, credit, wakeup, bh_term, senders, dev, history>>

Kinds == {"conf", "noconf"}

\* The value of a 32-bit counter below 2^32 after the cast to int.
Int32(n) == IF n < Half THEN n ELSE n - 2 * Half

Init ==
    /\ pc = "top" /\ batch = 0 /\ enough = FALSE /\ need_confirm = "null" /\ snap = 0
    /\ n_xmits = 0 /\ hw_bufs_free = NumInpChBufs
    /\ bh_tx = 0 /\ tx_bh_wq = 0 /\ bh_term = FALSE
    /\ queued = [k \in Kinds |-> 0] /\ kicks = 0
    /\ hw_xmited = 0 /\ device = 0
    /\ lost = 0 /\ stalled = FALSE /\ staleFree = FALSE

-----------------------------------------------------------------------------
(* Senders, device and teardown.                                            *)

\* A frame is queued (atbmwifi_queue_put, or a command in wsm_cmd_send) ...
Submit(k) ==
    /\ queued["conf"] + queued["noconf"] < MaxQueued
    /\ queued' = [queued EXCEPT ![k] = @ + 1]
    /\ kicks' = kicks + 1
    /\ UNCHANGED <<pc, local, credit, wakeup, bh_term, dev, history>>

\* ... and then the thread is scheduled: only the sender that takes bh_tx
\* from 0 to 1 posts the event.
\* Mutant: the old value is compared with 1, not the new one.
FirstKickOld == bh_tx = 1
FirstKick == bh_tx = 0

ScheduleTx ==
    /\ kicks > 0
    /\ kicks' = kicks - 1
    /\ bh_tx' = bh_tx + 1
    /\ tx_bh_wq' = IF FirstKick THEN tx_bh_wq + 1 ELSE tx_bh_wq
    /\ UNCHANGED <<pc, local, credit, bh_term, queued, dev, history>>

\* A command's kick goes through atbm_bh_wakeup, which drops it in teardown.
BhWakeupDrop ==
    /\ kicks > 0 /\ bh_term
    /\ kicks' = kicks - 1
    /\ UNCHANGED <<pc, local, credit, wakeup, bh_term, queued, dev, history>>

\* The device moves a frame out of an input buffer.
DeviceTakes ==
    /\ device > 0
    /\ device' = device - 1
    /\ hw_xmited' = hw_xmited + 1
    /\ UNCHANGED <<pc, local, credit, wakeup, bh_term, senders, history>>

\* atbm_unregister_bh.
Terminate ==
    /\ ~bh_term
    /\ bh_term' = TRUE
    /\ tx_bh_wq' = tx_bh_wq + 1
    /\ UNCHANGED <<pc, local, credit, bh_tx, senders, dev, history>>

-----------------------------------------------------------------------------
(* The thread.                                                              *)

\* while (!bh_term)
\* Mutant: bh_term is only looked at inside the loop.
SleepAgain == "sleep"
AfterTop == IF bh_term THEN "exit" ELSE "sleep"

LoopTop ==
    /\ pc = "top"
    /\ pc' = AfterTop
    /\ UNCHANGED <<local, credit, wakeup, bh_term, senders, dev, history>>

\* atbm_os_wait_event_timeout returns, by an event or after 100 s, and the
\* thread takes the work announced so far.
\* Mutant: one announcement is taken, not all.
TakeOne == bh_tx - 1
TakeAll == 0

TakeWork ==
    /\ bh_tx' = TakeAll
    /\ IF bh_tx > 0
         THEN pc' = "space" /\ batch' = 0 /\ enough' = FALSE /\ need_confirm' = "null"
         ELSE pc' = "top" /\ UNCHANGED <<batch, enough, need_confirm>>
    /\ UNCHANGED <<snap, credit, bh_term, senders, dev, history>>

Wake ==
    /\ pc = "sleep" /\ tx_bh_wq > 0
    /\ tx_bh_wq' = tx_bh_wq - 1
    /\ TakeWork

WakeTimeout ==
    /\ pc = "sleep"
    /\ UNCHANGED tx_bh_wq
    /\ TakeWork

\* xmit_continue: a new batch.
Continue == pc' = "space" /\ batch' = 0 /\ enough' = FALSE

\* atbm_sdio_have_enough_space(hw_priv, 1): the cached credit, or the end of
\* the world, or else a read of the device's counter ...
CachedSpace == hw_bufs_free >= 1

HaveSpaceCached ==
    /\ pc = "space" /\ CachedSpace
    /\ pc' = "get" /\ enough' = TRUE
    /\ UNCHANGED <<batch, need_confirm, snap, credit, wakeup, bh_term, senders, dev, history>>

HaveSpaceTerm ==
    /\ pc = "space" /\ hw_bufs_free < 1 /\ bh_term
    /\ hw_bufs_free' = 1
    /\ pc' = "get" /\ enough' = TRUE
    /\ UNCHANGED <<batch, need_confirm, snap, n_xmits, wakeup, bh_term, senders, dev, history>>

HaveSpaceRead ==
    /\ pc = "space" /\ hw_bufs_free < 1 /\ ~bh_term
    /\ snap' = hw_xmited
    /\ pc' = "spaceUpdate"
    /\ UNCHANGED <<batch, enough, need_confirm, credit, wakeup, bh_term, senders, dev, history>>

\* The credit that a value of the device's counter gives.
\* Mutant: off by one.
CreditPlusOne(seen) == NumInpChBufs - (n_xmits - seen) + 1
Credit(seen) == NumInpChBufs - (n_xmits - seen)

\* No space: write what there is, or wait.
NoSpace == enough' = FALSE /\ pc' = IF batch > 0 THEN "write" ELSE "wait"

\* ... that fails ...
HaveSpaceReadError ==
    /\ pc = "space" /\ hw_bufs_free < 1 /\ ~bh_term
    /\ NoSpace
    /\ UNCHANGED <<batch, need_confirm, snap, credit, wakeup, bh_term, senders, dev, history>>

\* ... or gives the credit anew.
HaveSpaceUpdate ==
    /\ pc = "spaceUpdate"
    /\ hw_bufs_free' = Credit(snap)
    /\ IF hw_bufs_free' >= 1 THEN pc' = "get" /\ enough' = TRUE ELSE NoSpace
    /\ UNCHANGED <<batch, need_confirm, snap, n_xmits, wakeup, bh_term, senders, dev, history>>

\* wsm_get_tx has no frame.
GetNothing ==
    /\ pc = "get" /\ \A k \in Kinds : queued[k] = 0
    /\ pc' = IF batch > 0 THEN "write" ELSE "top"
    /\ UNCHANGED <<local, credit, wakeup, bh_term, senders, dev, history>>

\* wsm_get_tx has a frame: it joins the batch.  A frame with a confirm ends
\* the batch; one without is released at once and the batch goes on while
\* xmit_buff has room.
\* Mutant: need_confirm is not reset.
KeepConfirm(k) == IF k = "conf" THEN "batch" ELSE need_confirm
ConfirmOf(k) == IF k = "conf" THEN "batch" ELSE "null"

GetFrame(k) ==
    /\ pc = "get" /\ queued[k] > 0 /\ n_xmits < MaxXmits
    /\ queued' = [queued EXCEPT ![k] = @ - 1]
    /\ batch' = batch + 1
    /\ n_xmits' = n_xmits + 1
    /\ hw_bufs_free' = hw_bufs_free - 1
    /\ need_confirm' = ConfirmOf(k)
    /\ pc' \in (IF k = "conf" THEN {"write"} ELSE {"space", "write"})
    /\ UNCHANGED <<enough, snap, wakeup, bh_term, kicks, dev, history>>

\* atbm_sdio_force_free_wsm(need_confirm).
ForceFree == staleFree' = (staleFree \/ need_confirm = "written")

\* The thread is being stopped: the batch is dropped.
WriteTerm ==
    /\ pc = "write" /\ bh_term
    /\ ForceFree
    /\ lost' = lost + batch
    /\ Continue
    /\ UNCHANGED <<need_confirm, snap, credit, wakeup, bh_term, senders, dev, stalled>>

WriteOk ==
    /\ pc = "write" /\ ~bh_term
    /\ device' = device + batch
    /\ need_confirm' = IF need_confirm = "batch" THEN "written" ELSE need_confirm
    /\ IF enough THEN Continue ELSE pc' = "wait" /\ UNCHANGED <<batch, enough>>
    /\ UNCHANGED <<snap, credit, wakeup, bh_term, senders, hw_xmited, history>>

\* The bus fails: the frames were counted in n_xmits, the device never saw them.
WriteError ==
    /\ pc = "write" /\ ~bh_term
    /\ ForceFree
    /\ lost' = lost + batch
    /\ Continue
    /\ UNCHANGED <<need_confirm, snap, credit, wakeup, bh_term, senders, dev, stalled>>

\* xmit_wait: atbm_sdio_wait_enough_space polls the device's counter (the cached
\* credit was just found too small and is so still) until there is space ...
WaitRead ==
    /\ pc = "wait" /\ hw_bufs_free < 1 /\ ~bh_term
    /\ snap' = hw_xmited
    /\ pc' = "waitUpdate"
    /\ UNCHANGED <<batch, enough, need_confirm, credit, wakeup, bh_term, senders, dev, history>>

WaitUpdate ==
    /\ pc = "waitUpdate"
    /\ hw_bufs_free' = Credit(snap)
    /\ IF hw_bufs_free' >= 1 THEN Continue ELSE pc' = "wait" /\ UNCHANGED <<batch, enough>>
    /\ UNCHANGED <<need_confirm, snap, n_xmits, wakeup, bh_term, senders, dev, history>>

\* ... or gives up: teardown, a read error, or MAX_LOOP_POLL_CNT polls.
WaitFails ==
    /\ pc = "wait" /\ hw_bufs_free < 1
    /\ ForceFree
    /\ stalled' = TRUE
    /\ Continue
    /\ UNCHANGED <<need_confirm, snap, credit, wakeup, bh_term, senders, dev, lost>>

TxBh ==
    \/ LoopTop \/ Wake
    \/ HaveSpaceCached \/ HaveSpaceTerm \/ HaveSpaceRead \/ HaveSpaceUpdate
    \/ GetNothing \/ (\E k \in Kinds : GetFrame(k))
    \/ WriteTerm \/ WriteOk
    \/ WaitRead \/ WaitUpdate

TxBhFaults == WakeTimeout \/ HaveSpaceReadError \/ WriteError \/ WaitFails

Next ==
    \/ \E k \in Kinds : Submit(k)
    \/ ScheduleTx \/ BhWakeupDrop \/ DeviceTakes \/ Terminate
    \/ TxBh \/ TxBhFaults

Spec == Init /\ [][Next]_vars

\* The thread runs while it can, a sender that queued a frame goes on to
\* schedule it, the device empties its buffers, a wait in teardown ends.
Fairness ==
    /\ WF_vars(TxBh) /\ WF_vars(ScheduleTx) /\ WF_vars(DeviceTakes)
    /\ WF_vars(bh_term /\ WaitFails)

FairSpec == Spec /\ Fairness

-----------------------------------------------------------------------------
(* Properties.                                                              *)

PcValues == {"top", "sleep", "space", "spaceUpdate", "get", "write", "wait",
             "waitUpdate", "exit"}

TypeOK ==
    /\ pc \in PcValues
    /\ batch \in Nat /\ enough \in BOOLEAN /\ need_confirm \in {"null", "batch", "written"}
    /\ snap \in Nat /\ n_xmits \in 0 .. MaxXmits /\ hw_bufs_free \in Int
    /\ bh_tx \in Nat /\ tx_bh_wq \in Nat /\ bh_term \in BOOLEAN
    /\ queued \in [Kinds -> Nat] /\ kicks \in Nat
    /\ hw_xmited \in Nat /\ device \in Nat
    /\ lost \in Nat /\ stalled \in BOOLEAN /\ staleFree \in BOOLEAN

\* The device is never sent more frames than it has input buffers, however
\* stale the cached credit, whatever failed before.
DeviceNotOverrun == device <= NumInpChBufs

\* The three ATBM_BUG_ONs on a value read from the device: it is not above
\* n_xmits (compared as int) and not more than numInpChBufs below it.
XmitAsserts ==
    pc \in {"spaceUpdate", "waitUpdate"} =>
        /\ Int32(n_xmits) >= Int32(snap)
        /\ n_xmits - snap <= NumInpChBufs
        /\ n_xmits - snap >= 0

\* The ATBM_SDIO_FREE_BUFF_ERR before a frame is counted: there is credit.
CreditBeforeTake == pc = "get" => hw_bufs_free > 0

\* Every frame ever counted was written, is about to be, or was given up.
XmitsAccounted == n_xmits = hw_xmited + device + lost + (IF pc \in {"wait", "waitUpdate", "top", "sleep", "exit"} THEN 0 ELSE batch)

\* A failing write releases only frames of its own batch.  The frame of an
\* earlier batch, which the device still holds, is released only after a wait
\* for space gave up.
StaleFreeNeedsStall == staleFree => stalled

\* Every queued frame is sent: neither the wake-up nor the credit is lost,
\* unless failed writes have eaten every input buffer of the device, the
\* bound on frames is reached, or the thread is being stopped.
FramesAreSent ==
    (\E k \in Kinds : queued[k] > 0)
        ~> \/ \A k \in Kinds : queued[k] = 0
           \/ bh_term \/ lost >= NumInpChBufs \/ n_xmits = MaxXmits

\* Stopping the thread ends it, even while it waits for a device that no
\* longer answers.
StopEnds == bh_term ~> (pc = "exit" \/ n_xmits = MaxXmits)
=============================================================================
