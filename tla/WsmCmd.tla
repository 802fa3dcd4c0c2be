------------------------------- MODULE WsmCmd --------------------------------
(***************************************************************************)
(* The command channel to the firmware (hal/atbm_wsm.c): wsm_cmd_send puts *)
(* a command in the one slot hw_priv->wsm_cmd and waits for the event      *)
(* wsm_cmd_wq; tx_bh takes the command from the slot and writes it; rx_bh  *)
(* gets the firmware's confirm, completes the slot and posts the event.    *)
(* When an answer does not come, or does not fit, the caller or rx_bh asks *)
(* the recovery work (wsm_sync_channl_reset) to reset the channel.         *)
(* Callers hold wsm_cmd_mux throughout, so one caller stands for all.      *)
(* The teardown of the driver is not modelled here.                        *)
(***************************************************************************)
EXTENDS Integers, Sequences

CONSTANTS
    Types,          \* command ids
    MaxCmds,        \* bound: commands ever sent
    Faults,         \* what may go wrong: subset of FaultKinds
    MaxFaults       \* bound: how often in all

FaultKinds == {"timeout", "stall", "loss", "repeat", "buserror", "syncTimeout"}

ASSUME CmdAssumption == MaxCmds \in Nat \ {0} /\ MaxFaults \in Nat /\ Faults \subseteq FaultKinds

None == 0               \* no command
Err  == 0               \* the return code -1; any other is that of an answer
NoCmd == "0xFFFF"

ASSUME TypesAssumption == NoCmd \notin Types

VARIABLES
    kind,               \* the ids of the commands sent so far; the last is the current one
    pc, got,            \* the caller: where it is, its local ret
    ptr, arg, cmd, done, ret,   \* the slot
    wsm_cmd_wq,         \* event count
    tx, need_confirm,   \* tx_bh: command taken and not written, command last written
    inbox, outbox,      \* commands in the firmware, answers on the way
    rxpc, rx,           \* rx_bh: where it is, the answer and the argument it works with
    bh_error,
    syncChanl_done, wsm_synchanl_done, work, resetting, \* recovery
    results,            \* what each command returned
    faults, late, resent, raced, deadArg    \* history: see the properties

caller   == <<kind, pc, got>>
slot     == <<ptr, arg, cmd, done, ret>>
txbh     == <<tx, need_confirm>>
device   == <<inbox, outbox>>
rxbh     == <<rxpc, rx, bh_error>>
recovery == <<syncChanl_done, wsm_synchanl_done, work, resetting>>
history  == <<results, faults, late, resent, raced, deadArg>>
vars     == <<caller, slot, wsm_cmd_wq, txbh, device, rxbh, recovery, history>>

Cmds == 1 .. MaxCmds
cur  == Len(kind)

Init ==
    /\ kind = <<>> /\ pc = "idle" /\ got = Err
    /\ ptr = FALSE /\ arg = None /\ cmd = NoCmd /\ done = FALSE /\ ret = Err
    /\ wsm_cmd_wq = 0
    /\ tx = None /\ need_confirm = None
    /\ inbox = <<>> /\ outbox = <<>>
    /\ rxpc = "idle" /\ rx = [cnf |-> None, arg |-> None] /\ bh_error = FALSE
    /\ syncChanl_done = TRUE /\ wsm_synchanl_done = 0 /\ work = FALSE /\ resetting = FALSE
    /\ results = <<>> /\ faults = 0 /\ late = FALSE /\ resent = {} /\ raced = FALSE /\ deadArg = FALSE

\* One of the faults happens; it may leave something on the way, an answer or an
\* event, that nobody waits for any more.
Fault(f, leaves) ==
    /\ f \in Faults /\ faults < MaxFaults
    /\ faults' = faults + 1
    /\ late' = (late \/ leaves)

NoFault == UNCHANGED <<faults, late>>

\* A command, its answer or its event is still on its way.
Pending == \/ ptr \/ tx # None \/ inbox # <<>> \/ outbox # <<>>
           \/ rxpc = "confirm" \/ wsm_cmd_wq > 0

-----------------------------------------------------------------------------
(* The caller: wsm_cmd_send under wsm_cmd_lock.                             *)

FillSlot(i, t) == ptr' = TRUE /\ arg' = i /\ cmd' = t /\ done' = FALSE /\ UNCHANGED ret

\* The slot must be empty (ATBM_BUG_ON, an endless loop); then it is filled.
Begin(t) ==
    /\ pc = "idle" /\ cur < MaxCmds
    /\ kind' = Append(kind, t)
    /\ IF ptr THEN pc' = "hung" /\ UNCHANGED slot
              ELSE pc' = "wait" /\ FillSlot(cur + 1, t)
    /\ UNCHANGED <<got, wsm_cmd_wq, txbh, device, rxbh, recovery, history>>

\* The wait ends, by the event ...
\* Mutant: it does not wait.
WaitNot ==
    /\ pc \in {"wait", "wait2"}
    /\ wsm_cmd_wq' = wsm_cmd_wq - 1
    /\ pc' = IF pc = "wait" THEN "readRet" ELSE "return"
    /\ UNCHANGED <<kind, got, slot, txbh, device, rxbh, recovery, history>>
WaitWake ==
    /\ pc \in {"wait", "wait2"} /\ wsm_cmd_wq > 0
    /\ wsm_cmd_wq' = wsm_cmd_wq - 1
    /\ pc' = IF pc = "wait" THEN "readRet" ELSE "return"
    /\ UNCHANGED <<kind, got, slot, txbh, device, rxbh, recovery, history>>

\* ... or after 40 s; the slot stays as it is.
WaitTimeout ==
    /\ pc \in {"wait", "wait2"}
    /\ Fault("timeout", Pending)
    /\ pc' = IF pc = "wait" THEN "readRet" ELSE "return"
    /\ UNCHANGED <<kind, got, slot, wsm_cmd_wq, txbh, device, rxbh, recovery, results,
                   resent, raced, deadArg>>

\* ret is read under the lock, done after it.
ReadRet ==
    /\ pc = "readRet"
    /\ got' = ret
    /\ pc' = "testDone"
    /\ UNCHANGED <<kind, slot, wsm_cmd_wq, txbh, device, rxbh, recovery, history>>

TestDone ==
    /\ pc = "testDone"
    /\ pc' = IF done THEN "return" ELSE "syncTest"
    /\ UNCHANGED <<kind, got, slot, wsm_cmd_wq, txbh, device, rxbh, recovery, history>>

\* After the recovery the command is sent once more, without the lock, and
\* what that attempt returns is not looked at.
Resend ==
    /\ pc = "resend"
    /\ FillSlot(cur, kind[cur])
    /\ pc' = "wait2"
    /\ resent' = resent \cup {cur}
    /\ UNCHANGED <<kind, got, wsm_cmd_wq, txbh, device, rxbh, recovery, results, faults,
                   late, raced, deadArg>>

\* The recovery failed: ATBM_BUG_ON(!done).
ResendFails ==
    /\ pc = "syncErr"
    /\ pc' = IF done THEN "return" ELSE "hung"
    /\ UNCHANGED <<kind, got, slot, wsm_cmd_wq, txbh, device, rxbh, recovery, history>>

Return ==
    /\ pc = "return"
    /\ results' = Append(results, got)
    /\ pc' = "idle"
    /\ UNCHANGED <<kind, got, slot, wsm_cmd_wq, txbh, device, rxbh, recovery, faults,
                   late, resent, raced, deadArg>>

-----------------------------------------------------------------------------
(* Transmit: tx_bh.                                                         *)

\* wsm_get_tx prefers the command; it is copied to xmit_buff and wsm_txed
\* empties the slot's pointer.  The wake-up is dropped once bh_error is set.
\* Mutant: the pointer stays.
NotTxed == UNCHANGED ptr
Txed == ptr' = FALSE

TxTake ==
    /\ ptr /\ tx = None /\ ~bh_error
    /\ tx' = cur
    /\ need_confirm' = cur
    /\ Txed
    /\ UNCHANGED <<caller, arg, cmd, done, ret, wsm_cmd_wq, device, rxbh, recovery, history>>

\* atbm_sdio_force_free_wsm for a command.
ForceFreeCmd ==
    IF cmd = NoCmd THEN UNCHANGED <<slot, wsm_cmd_wq>>
    ELSE /\ ret' = Err /\ done' = TRUE /\ cmd' = NoCmd /\ ptr' = FALSE /\ arg' = None
         /\ wsm_cmd_wq' = wsm_cmd_wq + 1

TxWrite ==
    /\ tx # None /\ ~resetting
    /\ inbox' = Append(inbox, tx)
    /\ tx' = None
    /\ UNCHANGED <<caller, slot, wsm_cmd_wq, need_confirm, outbox, rxbh, recovery, history>>

TxWriteError ==
    /\ tx # None
    /\ Fault("buserror", FALSE)
    /\ tx' = None
    /\ ForceFreeCmd
    /\ UNCHANGED <<caller, need_confirm, device, rxbh, recovery, results, resent, raced, deadArg>>

\* No room in the device for the next frame (atbm_sdio_wait_enough_space gives
\* up): the command last written is released although the firmware has it.
TxStall ==
    /\ tx = None /\ need_confirm # None
    /\ Fault("stall", Pending \/ pc \notin {"wait", "wait2"})
    /\ ForceFreeCmd
    /\ UNCHANGED <<caller, txbh, device, rxbh, recovery, results, resent, raced, deadArg>>

\* A data frame is sent: need_confirm is no longer the command.
TxData ==
    /\ tx = None /\ ~ptr /\ need_confirm # None
    /\ need_confirm' = None
    /\ UNCHANGED <<caller, slot, wsm_cmd_wq, tx, device, rxbh, recovery, history>>

-----------------------------------------------------------------------------
(* The firmware.                                                            *)

FwAnswers ==
    /\ inbox # <<>> /\ ~resetting
    /\ inbox' = Tail(inbox)
    /\ outbox' = Append(outbox, Head(inbox))
    /\ UNCHANGED <<caller, slot, wsm_cmd_wq, txbh, rxbh, recovery, history>>

FwLoses ==
    /\ inbox # <<>>
    /\ Fault("loss", FALSE)
    /\ inbox' = Tail(inbox)
    /\ UNCHANGED <<caller, slot, wsm_cmd_wq, txbh, outbox, rxbh, recovery, results, resent, raced, deadArg>>

FwRepeats ==
    /\ inbox # <<>>
    /\ Fault("repeat", TRUE)
    /\ outbox' = outbox \o <<Head(inbox), Head(inbox)>>
    /\ inbox' = Tail(inbox)
    /\ UNCHANGED <<caller, slot, wsm_cmd_wq, txbh, rxbh, recovery, results, resent, raced, deadArg>>

-----------------------------------------------------------------------------
(* Receive: rx_bh in wsm_handle_rx.                                         *)

\* Under the lock: take the argument, mark the slot's command as answered.
\* An answer to another command is fatal: rx_bh asks for recovery.
RxTake ==
    /\ rxpc = "idle" /\ outbox # <<>> /\ ~resetting
    /\ outbox' = Tail(outbox)
    /\ rx' = [cnf |-> Head(outbox), arg |-> arg]
    /\ cmd' = NoCmd
    /\ rxpc' = IF kind[Head(outbox)] = cmd THEN "confirm" ELSE "syncTest"
    /\ UNCHANGED <<caller, ptr, arg, done, ret, wsm_cmd_wq, txbh, inbox, bh_error, recovery, history>>

\* Mutants: the return code, the flag is forgotten.
CompleteNoRet == done' = TRUE /\ UNCHANGED ret
CompleteNoFlag == ret' = rx.cnf /\ UNCHANGED done
Complete == ret' = rx.cnf /\ done' = TRUE

\* The answer is stored through the argument, the slot is completed and the
\* event posted.
RxConfirm ==
    /\ rxpc = "confirm"
    /\ deadArg' = (deadArg \/ (rx.arg # None /\ rx.arg <= Len(results)))
    /\ Complete
    /\ wsm_cmd_wq' = wsm_cmd_wq + 1
    /\ rxpc' = "idle"
    /\ UNCHANGED <<caller, ptr, arg, cmd, txbh, device, rx, bh_error, recovery, results,
                   faults, late, resent, raced>>

-----------------------------------------------------------------------------
(* Recovery: wsm_sync_channle_process, by the caller or by rx_bh, and the   *)
(* work it queues.                                                          *)

\* wsm_recovery: a recovery in progress is enough ...
SyncTest(at, next) ==
    /\ at = "syncTest"
    /\ next = IF syncChanl_done THEN "syncSet" ELSE "syncOk"
    /\ UNCHANGED <<recovery, raced>>

\* ... otherwise one is started; the test and the set are not atomic ...
SyncSet(at, next) ==
    /\ at = "syncSet"
    /\ next = "syncWait"
    /\ raced' = (raced \/ ~syncChanl_done \/ wsm_synchanl_done > 0)
    /\ syncChanl_done' = FALSE
    /\ work' = TRUE
    /\ UNCHANGED <<wsm_synchanl_done, resetting>>

\* ... and waited for (wsm_recovery_done) ...
SyncWake(at, next) ==
    /\ at = "syncWait" /\ wsm_synchanl_done > 0
    /\ next = "syncOk"
    /\ wsm_synchanl_done' = wsm_synchanl_done - 1
    /\ UNCHANGED <<syncChanl_done, work, resetting, raced>>

\* The same steps for the two threads that may take them.  "syncOk" means: go
\* on with Resend, or with the next answer.
Goto(next) == IF next = "syncOk" THEN "resend" ELSE next
RxGoto(next) == IF next = "syncOk" THEN "idle" ELSE next
SyncPcs == {"syncSet", "syncWait", "syncOk"}

CallerSync ==
    /\ \E next \in SyncPcs :
         /\ SyncTest(pc, next) \/ SyncSet(pc, next) \/ SyncWake(pc, next)
         /\ pc' = Goto(next)
    /\ NoFault
    /\ UNCHANGED <<kind, got, slot, wsm_cmd_wq, txbh, device, rxbh, results, resent, deadArg>>

RxSync ==
    /\ \E next \in SyncPcs :
         /\ SyncTest(rxpc, next) \/ SyncSet(rxpc, next) \/ SyncWake(rxpc, next)
         /\ rxpc' = RxGoto(next)
    /\ NoFault
    /\ UNCHANGED <<caller, slot, wsm_cmd_wq, txbh, device, rx, bh_error, results, resent, deadArg>>

\* ... at most 120 s.
CallerSyncTimeout ==
    /\ pc = "syncWait"
    /\ Fault("syncTimeout", TRUE)
    /\ pc' = "syncErr"
    /\ UNCHANGED <<kind, got, slot, wsm_cmd_wq, txbh, device, rxbh, recovery, results,
                   resent, raced, deadArg>>

\* rx_bh then reports an error and ends.
RxSyncTimeout ==
    /\ rxpc = "syncWait"
    /\ Fault("syncTimeout", TRUE)
    /\ rxpc' = "dead" /\ bh_error' = TRUE
    /\ UNCHANGED <<caller, slot, wsm_cmd_wq, txbh, device, rx, recovery, results, resent, raced, deadArg>>

\* The work: it locks the bus, resets the firmware, which forgets the
\* commands it has (answers already on the way may or may not survive), and
\* reports.  The slot is not touched.
\* Mutant: the work returns early.
ResetAbort == work' = FALSE /\ UNCHANGED resetting
ResetBegin == work' = FALSE /\ resetting' = TRUE

ResetStart ==
    /\ work /\ ~resetting
    /\ ResetBegin
    /\ UNCHANGED <<caller, slot, wsm_cmd_wq, txbh, device, rxbh, syncChanl_done,
                   wsm_synchanl_done, history>>

\* Mutant: nobody is told.
ReportNothing == syncChanl_done' = TRUE /\ UNCHANGED wsm_synchanl_done
Report == syncChanl_done' = TRUE /\ wsm_synchanl_done' = wsm_synchanl_done + 1

ResetDone ==
    /\ resetting
    /\ resetting' = FALSE
    /\ inbox' = <<>>
    /\ outbox' \in {<<>>, outbox}
    /\ Report
    /\ UNCHANGED <<caller, slot, wsm_cmd_wq, txbh, rxbh, work, history>>

Caller == (\E t \in Types : Begin(t)) \/ WaitWake \/ ReadRet \/ TestDone \/ Resend
          \/ ResendFails \/ Return \/ CallerSync
TxBh   == TxTake \/ TxWrite
Fw     == FwAnswers
RxBh   == RxTake \/ RxConfirm \/ RxSync
Worker == ResetStart \/ ResetDone

Next ==
    \/ Caller \/ TxBh \/ TxData \/ Fw \/ RxBh \/ Worker
    \/ WaitTimeout \/ CallerSyncTimeout \/ RxSyncTimeout
    \/ TxWriteError \/ TxStall \/ FwLoses \/ FwRepeats

Spec == Init /\ [][Next]_vars

\* Every thread runs and the firmware answers what it has.
FairSpec ==
    /\ Spec
    /\ WF_vars(Caller) /\ WF_vars(TxBh) /\ WF_vars(Fw) /\ WF_vars(RxBh) /\ WF_vars(Worker)
    /\ WF_vars(WaitTimeout)

-----------------------------------------------------------------------------
(* Properties.                                                              *)

Pcs == {"idle", "wait", "readRet", "testDone", "syncTest", "syncSet", "syncWait",
        "syncErr", "resend", "wait2", "return", "hung"}

TypeOK ==
    /\ kind \in Seq(Types) /\ cur <= MaxCmds
    /\ pc \in Pcs /\ got \in 0 .. MaxCmds
    /\ {ptr, done, bh_error, syncChanl_done, work, resetting, late, raced, deadArg}
           \subseteq BOOLEAN
    /\ resent \subseteq Cmds
    /\ arg \in 0 .. MaxCmds /\ cmd \in Types \cup {NoCmd} /\ ret \in 0 .. MaxCmds
    /\ wsm_cmd_wq \in Nat /\ wsm_synchanl_done \in Nat /\ faults \in 0 .. MaxFaults
    /\ tx \in 0 .. MaxCmds /\ need_confirm \in 0 .. MaxCmds
    /\ inbox \in Seq(Cmds) /\ outbox \in Seq(Cmds)
    /\ rxpc \in {"idle", "confirm", "syncTest", "syncSet", "syncWait", "dead"}
    /\ rx \in [cnf : 0 .. MaxCmds, arg : 0 .. MaxCmds]
    /\ results \in Seq(0 .. MaxCmds)

\* A command returns the firmware's answer to itself, or after some fault the
\* error of a failed write, as long as no earlier command was given up with an
\* answer still to come; not so a command that was sent again, whose caller
\* returns the ret it read before.
OwnAnswer ==
    ~late => \A i \in 1 .. Len(results) :
                 i \in resent \/ results[i] = i \/ (results[i] = Err /\ faults > 0)

\* Without such a loose answer the event means what the caller takes it to
\* mean: the command is done.
EventMeansDone ==
    ~late => /\ wsm_cmd_wq <= 1
             /\ wsm_cmd_wq = 1 => pc \in {"wait", "wait2"} /\ done

\* Nor does a command then find the slot occupied (its ATBM_BUG_ON would hang
\* the driver), or an answer the argument of a caller that has returned.
SlotOwned == ~late => (pc = "idle" => ~ptr) /\ ~deadArg

\* A recovery that was asked for is on its way: the flag that makes everybody
\* else believe so never sticks.  And whoever waits for it gets the event,
\* unless two threads passed the test of wsm_recovery together or an event of
\* an earlier recovery was left over.
RecoveryOnItsWay ==
    /\ ~syncChanl_done => work \/ resetting
    /\ "syncWait" \in {pc, rxpc} => raced \/ work \/ resetting \/ wsm_synchanl_done > 0

\* Every command returns: an answer, an error, or a time-out with a recovery
\* and a second attempt ends it.  The driver hangs only after something was
\* given up that came later, or when two threads started a recovery at once:
\* one of them then waits for an event that never comes.
CommandsReturn == (pc # "idle") ~> (pc = "idle" \/ late \/ raced \/ faults = MaxFaults)

\* "wsm_arg can be NULL in case of timeout in wsm_cmd_send()": an answer that
\* comes after its caller gave up is not stored through the caller's argument.
LateAnswerFindsNoArg == ~deadArg

=============================================================================
