---------------------------- MODULE WsmCmdProofs -----------------------------
(***************************************************************************)
(* Proofs about WsmCmd, for every set of command ids, every bound on the   *)
(* commands and every mix of faults.                                       *)
(***************************************************************************)
EXTENDS WsmCmd, SequenceTheorems, TLAPS

-----------------------------------------------------------------------------
(* The inductive invariant, part by part.                                   *)

Waiting == pc \in {"wait", "wait2"}

\* The two halves of TypeOK.
FlagsOK == {ptr, done, bh_error, syncChanl_done, work, resetting, late, raced, deadArg}
               \subseteq BOOLEAN

DataOK ==
    /\ kind \in Seq(Types) /\ cur <= MaxCmds
    /\ pc \in Pcs /\ got \in 0 .. MaxCmds
    /\ resent \subseteq Cmds
    /\ arg \in 0 .. MaxCmds /\ cmd \in Types \cup {NoCmd} /\ ret \in 0 .. MaxCmds
    /\ wsm_cmd_wq \in Nat /\ wsm_synchanl_done \in Nat /\ faults \in 0 .. MaxFaults
    /\ tx \in 0 .. MaxCmds /\ need_confirm \in 0 .. MaxCmds
    /\ inbox \in Seq(Cmds) /\ outbox \in Seq(Cmds)
    /\ rxpc \in {"idle", "confirm", "syncTest", "syncSet", "syncWait", "dead"}
    /\ rx \in [cnf : 0 .. MaxCmds, arg : 0 .. MaxCmds]
    /\ results \in Seq(0 .. MaxCmds)

\* Every command but the one in progress has a result.
OneAtATime == Len(results) = IF pc = "idle" THEN cur ELSE cur - 1

\* Until two threads pass the test of wsm_recovery together, the flag says
\* exactly whether a recovery runs, there is one of them, and one thread waits.
OneRecovery ==
    ~raced => /\ (work \/ resetting) <=> ~syncChanl_done
              /\ ~(work /\ resetting)
              /\ ~(pc = "syncWait" /\ rxpc = "syncWait")

\* Until something is given up that comes later, there is at most one of: the
\* command in the slot, in tx_bh, in the firmware; its answer on the way, in
\* rx_bh; its event.  It is the current command's, and its caller waits.
Alone ==
    /\ ptr => tx = None
    /\ tx # None => tx = cur
    /\ ptr \/ tx # None => inbox = <<>>
    /\ inbox # <<>> => inbox = <<cur>>
    /\ ptr \/ tx # None \/ inbox # <<>> => outbox = <<>>
    /\ outbox # <<>> => outbox = <<cur>>
    /\ ptr \/ tx # None \/ inbox # <<>> \/ outbox # <<>> => rxpc # "confirm"
    /\ rxpc = "confirm" => rx.cnf = cur /\ rx.arg \in {None, cur}
    /\ ptr \/ tx # None \/ inbox # <<>> \/ outbox # <<>> \/ rxpc = "confirm" => wsm_cmd_wq = 0
    /\ wsm_cmd_wq <= 1
    /\ Pending => Waiting

\* The slot's state is the current command's: completed exactly when its event
\* is there, with its answer or with the error of a write.
Own(r) == r = cur \/ (r = Err /\ faults > 0)

SlotState ==
    /\ pc \notin {"hung", "syncErr"}
    /\ pc # "idle" => arg \in {None, cur}
    /\ Waiting => (done <=> wsm_cmd_wq = 1)
    /\ done /\ (Waiting \/ pc \in {"readRet", "testDone"}) => Own(ret)
    /\ pc = "testDone" => got = ret
    /\ pc \in {"syncTest", "syncSet", "syncWait", "resend"} => ~done
    /\ pc = "wait2" => cur \in resent
    /\ pc = "return" => cur \in resent \/ Own(got)

ChannelInv == ~late => Alone /\ SlotState /\ ~deadArg

CmdInv ==
    /\ FlagsOK
    /\ DataOK
    /\ OneAtATime
    /\ OneRecovery
    /\ RecoveryOnItsWay
    /\ ChannelInv
    /\ OwnAnswer

\* A queue of one element.
LEMMA Singleton ==
    ASSUME NEW x
    PROVE  <<x>> # <<>> /\ Head(<<x>>) = x /\ Tail(<<x>>) = <<>> /\ Append(<<>>, x) = <<x>>
  OBVIOUS

-----------------------------------------------------------------------------
(* The invariant is inductive.                                              *)

\* Flags stay flags.
LEMMA FlagsStep == FlagsOK /\ [Next]_vars => FlagsOK'
<1> SUFFICES ASSUME FlagsOK, [Next]_vars PROVE FlagsOK'
  OBVIOUS
<1> USE DEF FlagsOK, caller, slot, txbh, device, rxbh, recovery, history
<1>1. CASE \E t \in Types : Begin(t)
  BY <1>1 DEF Begin, FillSlot
<1>2. CASE WaitWake
  BY <1>2 DEF WaitWake
<1>3. CASE ReadRet
  BY <1>3 DEF ReadRet
<1>4. CASE TestDone
  BY <1>4 DEF TestDone
<1>5. CASE Resend
  BY <1>5 DEF Resend, FillSlot
<1>6. CASE ResendFails
  BY <1>6 DEF ResendFails
<1>7. CASE Return
  BY <1>7 DEF Return
<1>8. CASE CallerSync
  BY <1>8 DEF CallerSync, Goto, SyncTest, SyncSet, SyncWake, SyncPcs, NoFault
<1>9. CASE TxTake
  BY <1>9 DEF TxTake, Txed
<1>10. CASE TxWrite
  BY <1>10 DEF TxWrite
<1>11. CASE TxData
  BY <1>11 DEF TxData
<1>12. CASE FwAnswers
  BY <1>12 DEF FwAnswers
<1>13. CASE RxTake
  BY <1>13 DEF RxTake
<1>14. CASE RxConfirm
  BY <1>14 DEF RxConfirm, Complete
<1>15. CASE RxSync
  BY <1>15 DEF RxSync, RxGoto, SyncTest, SyncSet, SyncWake, SyncPcs, NoFault
<1>16. CASE ResetStart
  BY <1>16 DEF ResetStart, ResetBegin
<1>17. CASE ResetDone
  BY <1>17 DEF ResetDone, Report
<1>18. CASE WaitTimeout
  BY <1>18 DEF WaitTimeout, Fault
<1>19. CASE CallerSyncTimeout
  BY <1>19 DEF CallerSyncTimeout, Fault
<1>20. CASE RxSyncTimeout
  BY <1>20 DEF RxSyncTimeout, Fault
<1>21. CASE TxWriteError
  BY <1>21 DEF TxWriteError, Fault, ForceFreeCmd
<1>22. CASE TxStall
  BY <1>22 DEF TxStall, Fault, ForceFreeCmd
<1>23. CASE FwLoses
  BY <1>23 DEF FwLoses, Fault
<1>24. CASE FwRepeats
  BY <1>24 DEF FwRepeats, Fault
<1>25. CASE UNCHANGED vars
  BY <1>25 DEF vars
<1>26. QED
  BY <1>1, <1>2, <1>3, <1>4, <1>5, <1>6, <1>7, <1>8, <1>9, <1>10, <1>11,
     <1>12, <1>13, <1>14, <1>15, <1>16, <1>17, <1>18, <1>19, <1>20, <1>21,
     <1>22, <1>23, <1>24, <1>25
  DEF Next, Caller, TxBh, Fw, RxBh, Worker

\* The data keep their types and the results their number.
LEMMA DataStep == DataOK /\ OneAtATime /\ [Next]_vars => DataOK' /\ OneAtATime'
<1> SUFFICES ASSUME DataOK, OneAtATime, [Next]_vars PROVE DataOK' /\ OneAtATime'
  OBVIOUS
<1> USE CmdAssumption
    DEF DataOK, OneAtATime, cur, Cmds, Pcs, None, Err,
        caller, slot, txbh, device, rxbh, recovery, history
<1>1. CASE \E t \in Types : Begin(t)
  BY <1>1 DEF Begin, FillSlot
<1>2. CASE WaitWake
  BY <1>2 DEF WaitWake
<1>3. CASE ReadRet
  BY <1>3 DEF ReadRet
<1>4. CASE TestDone
  BY <1>4 DEF TestDone
<1>5. CASE Resend
  <2>1. cur \in Cmds /\ kind[cur] \in Types
    <3>1. cur \in 1 .. Len(kind)
      BY <1>5, LenProperties DEF Resend
    <3>2. QED
      BY <3>1, ElementOfSeq
  <2>2. cmd' \in Types /\ arg' \in Cmds /\ resent' \subseteq Cmds
    BY <1>5, <2>1 DEF Resend, FillSlot
  <2>3. QED
    BY <1>5, <2>2 DEF Resend, FillSlot
<1>6. CASE ResendFails
  BY <1>6 DEF ResendFails
<1>7. CASE Return
  BY <1>7 DEF Return
<1>8. CASE CallerSync
  BY <1>8 DEF CallerSync, Goto, SyncTest, SyncSet, SyncWake, SyncPcs, NoFault
<1>9. CASE TxTake
  BY <1>9 DEF TxTake, Txed
<1>10. CASE TxWrite
  BY <1>10 DEF TxWrite
<1>11. CASE TxData
  BY <1>11 DEF TxData
<1>12. CASE FwAnswers
  BY <1>12 DEF FwAnswers
<1>13. CASE RxTake
  BY <1>13 DEF RxTake
<1>14. CASE RxConfirm
  BY <1>14 DEF RxConfirm, Complete
<1>15. CASE RxSync
  BY <1>15 DEF RxSync, RxGoto, SyncTest, SyncSet, SyncWake, SyncPcs, NoFault
<1>16. CASE ResetStart
  BY <1>16 DEF ResetStart, ResetBegin
<1>17. CASE ResetDone
  <2>1. inbox' \in Seq(Cmds) /\ outbox' \in Seq(Cmds)
    BY <1>17, EmptySeq DEF ResetDone
  <2>2. QED
    BY <1>17, <2>1 DEF ResetDone, Report
<1>18. CASE WaitTimeout
  BY <1>18 DEF WaitTimeout, Fault
<1>19. CASE CallerSyncTimeout
  BY <1>19 DEF CallerSyncTimeout, Fault
<1>20. CASE RxSyncTimeout
  BY <1>20 DEF RxSyncTimeout, Fault
<1>21. CASE TxWriteError
  BY <1>21 DEF TxWriteError, Fault, ForceFreeCmd
<1>22. CASE TxStall
  BY <1>22, SMTT(30) DEF TxStall, Fault, ForceFreeCmd
<1>23. CASE FwLoses
  BY <1>23 DEF FwLoses, Fault
<1>24. CASE FwRepeats
  BY <1>24, SMTT(30) DEF FwRepeats, Fault
<1>25. CASE UNCHANGED vars
  BY <1>25 DEF vars
<1>26. QED
  BY <1>1, <1>2, <1>3, <1>4, <1>5, <1>6, <1>7, <1>8, <1>9, <1>10, <1>11,
     <1>12, <1>13, <1>14, <1>15, <1>16, <1>17, <1>18, <1>19, <1>20, <1>21,
     <1>22, <1>23, <1>24, <1>25
  DEF Next, Caller, TxBh, Fw, RxBh, Worker

\* A recovery, once asked for, stays on its way until it reports.
LEMMA RecoveryStep ==
    ASSUME FlagsOK, DataOK, OneRecovery, RecoveryOnItsWay, [Next]_vars
    PROVE  OneRecovery' /\ RecoveryOnItsWay'
<1> USE DEF FlagsOK, DataOK, OneRecovery, RecoveryOnItsWay,
            caller, slot, txbh, device, rxbh, recovery, history
<1>1. CASE \E t \in Types : Begin(t)
  BY <1>1 DEF Begin, FillSlot
<1>2. CASE WaitWake
  BY <1>2 DEF WaitWake
<1>3. CASE ReadRet
  BY <1>3 DEF ReadRet
<1>4. CASE TestDone
  BY <1>4 DEF TestDone
<1>5. CASE Resend
  BY <1>5 DEF Resend, FillSlot
<1>6. CASE ResendFails
  BY <1>6 DEF ResendFails
<1>7. CASE Return
  BY <1>7 DEF Return
<1>8. CASE CallerSync
  BY <1>8 DEF CallerSync, Goto, SyncTest, SyncSet, SyncWake, SyncPcs, NoFault
<1>9. CASE TxTake
  BY <1>9 DEF TxTake, Txed
<1>10. CASE TxWrite
  BY <1>10 DEF TxWrite
<1>11. CASE TxData
  BY <1>11 DEF TxData
<1>12. CASE FwAnswers
  BY <1>12 DEF FwAnswers
<1>13. CASE RxTake
  BY <1>13 DEF RxTake
<1>14. CASE RxConfirm
  BY <1>14 DEF RxConfirm, Complete
<1>15. CASE RxSync
  BY <1>15 DEF RxSync, RxGoto, SyncTest, SyncSet, SyncWake, SyncPcs, NoFault
<1>16. CASE ResetStart
  BY <1>16 DEF ResetStart, ResetBegin
<1>17. CASE ResetDone
  BY <1>17 DEF ResetDone, Report
<1>18. CASE WaitTimeout
  BY <1>18 DEF WaitTimeout, Fault
<1>19. CASE CallerSyncTimeout
  BY <1>19 DEF CallerSyncTimeout, Fault
<1>20. CASE RxSyncTimeout
  BY <1>20 DEF RxSyncTimeout, Fault
<1>21. CASE TxWriteError
  BY <1>21 DEF TxWriteError, Fault, ForceFreeCmd
<1>22. CASE TxStall
  BY <1>22 DEF TxStall, Fault, ForceFreeCmd
<1>23. CASE FwLoses
  BY <1>23 DEF FwLoses, Fault
<1>24. CASE FwRepeats
  BY <1>24 DEF FwRepeats, Fault
<1>25. CASE UNCHANGED vars
  BY <1>25 DEF vars
<1>26. QED
  BY <1>1, <1>2, <1>3, <1>4, <1>5, <1>6, <1>7, <1>8, <1>9, <1>10, <1>11,
     <1>12, <1>13, <1>14, <1>15, <1>16, <1>17, <1>18, <1>19, <1>20, <1>21,
     <1>22, <1>23, <1>24, <1>25
  DEF Next, Caller, TxBh, Fw, RxBh, Worker

\* As long as nothing was given up that comes later, the command in progress
\* owns the channel.
LEMMA ChannelStep ==
    ASSUME FlagsOK, DataOK, OneAtATime, ChannelInv, [Next]_vars
    PROVE  ChannelInv'
<1> USE CmdAssumption
    DEF FlagsOK, DataOK, OneAtATime, ChannelInv, Alone, SlotState, Own, Waiting, Pending,
        cur, Cmds, None, Err, caller, slot, txbh, device, rxbh, recovery, history
<1>1. CASE \E t \in Types : Begin(t)
  BY <1>1 DEF Begin, FillSlot
<1>2. CASE WaitWake
  BY <1>2 DEF WaitWake
<1>3. CASE ReadRet
  BY <1>3 DEF ReadRet
<1>4. CASE TestDone
  BY <1>4 DEF TestDone
<1>5. CASE Resend
  BY <1>5 DEF Resend, FillSlot
<1>6. CASE ResendFails
  BY <1>6 DEF ResendFails
<1>7. CASE Return
  BY <1>7 DEF Return
<1>8. CASE CallerSync
  BY <1>8 DEF CallerSync, Goto, SyncTest, SyncSet, SyncWake, SyncPcs, NoFault
<1>9. CASE TxTake
  BY <1>9 DEF TxTake, Txed
<1>10. CASE TxWrite
  BY <1>10 DEF TxWrite
<1>11. CASE TxData
  BY <1>11 DEF TxData
<1>12. CASE FwAnswers
  <2>1. ~late => inbox' = <<>> /\ outbox' = <<cur>>
    BY <1>12, Singleton DEF FwAnswers
  <2>2. QED
    BY <1>12, <2>1 DEF FwAnswers
<1>13. CASE RxTake
  <2>1. ~late => outbox' = <<>> /\ rx'.cnf = cur /\ rx'.arg = arg /\ inbox = <<>>
    BY <1>13, Singleton DEF RxTake
  <2>2. QED
    BY <1>13, <2>1 DEF RxTake
<1>14. CASE RxConfirm
  BY <1>14 DEF RxConfirm, Complete
<1>15. CASE RxSync
  BY <1>15 DEF RxSync, RxGoto, SyncTest, SyncSet, SyncWake, SyncPcs, NoFault
<1>16. CASE ResetStart
  BY <1>16 DEF ResetStart, ResetBegin
<1>17. CASE ResetDone
  BY <1>17 DEF ResetDone, Report
<1>18. CASE WaitTimeout
  <2>1. ~late' => ~late /\ ~Pending
    BY <1>18 DEF WaitTimeout, Fault
  <2>2. QED
    BY <1>18, <2>1 DEF WaitTimeout, Fault
<1>19. CASE CallerSyncTimeout
  BY <1>19 DEF CallerSyncTimeout, Fault
<1>20. CASE RxSyncTimeout
  BY <1>20 DEF RxSyncTimeout, Fault
<1>21. CASE TxWriteError
  BY <1>21 DEF TxWriteError, Fault, ForceFreeCmd
<1>22. CASE TxStall
  <2>1. ~late' => ~late /\ ~Pending /\ Waiting
    BY <1>22 DEF TxStall, Fault
  <2>2. faults' > 0
    BY <1>22 DEF TxStall, Fault
  <2>3. QED
    BY <1>22, <2>1, <2>2 DEF TxStall, ForceFreeCmd
<1>23. CASE FwLoses
  <2>1. ~late => inbox' = <<>>
    BY <1>23, Singleton DEF FwLoses
  <2>2. ~late' => ~late
    BY <1>23 DEF FwLoses, Fault
  <2>3. QED
    BY <1>23, <2>1, <2>2 DEF FwLoses, Fault
<1>24. CASE FwRepeats
  BY <1>24 DEF FwRepeats, Fault
<1>25. CASE UNCHANGED vars
  BY <1>25 DEF vars
<1>26. QED
  BY <1>1, <1>2, <1>3, <1>4, <1>5, <1>6, <1>7, <1>8, <1>9, <1>10, <1>11,
     <1>12, <1>13, <1>14, <1>15, <1>16, <1>17, <1>18, <1>19, <1>20, <1>21,
     <1>22, <1>23, <1>24, <1>25
  DEF Next, Caller, TxBh, Fw, RxBh, Worker

\* A result is added by the command in progress when it returns; the results
\* before it stay as they are.
LEMMA AnswerStep ==
    ASSUME FlagsOK, DataOK, OneAtATime, ChannelInv, OwnAnswer, [Next]_vars
    PROVE  OwnAnswer'
<1>1. (~late' => ~late) /\ resent \subseteq resent' /\ (faults > 0 => faults' > 0)
  <2> USE DEF FlagsOK, DataOK, caller, slot, txbh, device, rxbh, recovery, history
  <2>1. CASE WaitTimeout \/ CallerSyncTimeout \/ RxSyncTimeout \/ TxWriteError \/ TxStall
             \/ FwLoses \/ FwRepeats
    <3>1. PICK leaves : late' = (late \/ leaves) /\ faults' = faults + 1 /\ resent' = resent
      BY <2>1 DEF WaitTimeout, CallerSyncTimeout, RxSyncTimeout, TxWriteError, TxStall,
                  FwLoses, FwRepeats, Fault
    <3>2. QED
      BY <3>1, CmdAssumption
  <2>2. CASE UNCHANGED <<late, faults>> /\ resent \subseteq resent'
    BY <2>2
  <2>3. CASE Resend
    BY <2>3 DEF Resend
  <2>4. QED
    BY <2>1, <2>2, <2>3
    DEF Next, Caller, TxBh, Fw, RxBh, Worker, Begin, WaitWake, ReadRet, TestDone,
        ResendFails, Return, CallerSync, TxTake, TxWrite, TxData, FwAnswers, RxTake,
        RxConfirm, RxSync, ResetStart, ResetDone, NoFault, vars
<1>2. CASE Return
  <2>1. Len(results) = cur - 1 /\ Len(results') = cur
    BY <1>2 DEF Return, OneAtATime, DataOK, cur
  <2>2. \A i \in 1 .. Len(results') :
          results'[i] = IF i = cur THEN got ELSE results[i]
    BY <1>2, <2>1 DEF Return, DataOK, cur
  <2>3. ~late => cur \in resent \/ Own(got)
    BY <1>2 DEF Return, ChannelInv, SlotState
  <2>4. QED
    BY <1>1, <1>2, <2>1, <2>2, <2>3 DEF Return, OwnAnswer, Own, DataOK, cur
<1>3. CASE results' = results
  BY <1>1, <1>3 DEF OwnAnswer
<1>4. Return \/ results' = results
  BY DEF Next, Caller, TxBh, Fw, RxBh, Worker, Begin, WaitWake, ReadRet, TestDone, Resend,
         ResendFails, CallerSync, TxTake, TxWrite, TxData, FwAnswers, RxTake, RxConfirm,
         RxSync, ResetStart, ResetDone, WaitTimeout, CallerSyncTimeout, RxSyncTimeout,
         TxWriteError, TxStall, FwLoses, FwRepeats, vars, history
<1>5. QED
  BY <1>2, <1>3, <1>4

\* The invariant holds when the driver has started.
LEMMA CmdInit == Init => CmdInv
<1> SUFFICES ASSUME Init PROVE CmdInv
  OBVIOUS
<1>1. FlagsOK
  BY Zenon DEF Init, FlagsOK
<1>2. DataOK /\ OneAtATime
  BY CmdAssumption, EmptySeq DEF Init, DataOK, OneAtATime, cur, Pcs, Cmds, None, Err
<1>3. OneRecovery /\ RecoveryOnItsWay
  BY DEF Init, OneRecovery, RecoveryOnItsWay
<1>4. ChannelInv /\ OwnAnswer
  BY DEF Init, ChannelInv, Alone, SlotState, Own, Waiting, Pending, OwnAnswer, None, Err, cur
<1>5. QED
  BY <1>1, <1>2, <1>3, <1>4 DEF CmdInv

\* Every step keeps it.
LEMMA CmdStep == CmdInv /\ [Next]_vars => CmdInv'
  BY FlagsStep, DataStep, RecoveryStep, ChannelStep, AnswerStep DEF CmdInv

\* The invariant holds in every reachable state, whatever fails.
THEOREM CmdCorrect == Spec => []CmdInv
<1>1. QED
  BY CmdInit, CmdStep, PTL DEF Spec

-----------------------------------------------------------------------------
(* The properties of WsmCmd.                                                *)

\* Every variable of the caller, the slot, the threads and the recovery keeps
\* its type; no thread is ever at a place the code does not have.
THEOREM TypeCorrect == Spec => []TypeOK
<1>1. CmdInv => TypeOK
  BY DEF CmdInv, FlagsOK, DataOK, TypeOK
<1>2. QED
  BY <1>1, CmdCorrect, PTL

\* syncChanl_done is only FALSE while a recovery is queued or runs, and who
\* waits for wsm_synchanl_done has a recovery or its event to come, unless two
\* threads started one together.
THEOREM RecoveryComes == Spec => []RecoveryOnItsWay
<1>1. CmdInv => RecoveryOnItsWay
  BY DEF CmdInv
<1>2. QED
  BY <1>1, CmdCorrect, PTL

\* The event wsm_cmd_wq means that the command the caller waits for is done,
\* as long as no command was given up with an answer to come.
THEOREM EventIsCompletion == Spec => []EventMeansDone
<1>1. CmdInv => EventMeansDone
  BY DEF CmdInv, DataOK, ChannelInv, Alone, SlotState, Waiting, Pending, EventMeansDone
<1>2. QED
  BY <1>1, CmdCorrect, PTL

\* wsm_cmd_send then finds the slot empty and rx_bh never stores an answer
\* through the argument of a caller that has returned.
THEOREM SlotHasOneOwner == Spec => []SlotOwned
<1>1. CmdInv => SlotOwned
  BY DEF CmdInv, ChannelInv, Alone, Waiting, Pending, SlotOwned
<1>2. QED
  BY <1>1, CmdCorrect, PTL

\* And each command returns its own answer, or an error after a fault, unless
\* it was sent again.
THEOREM AnswersMatch == Spec => []OwnAnswer
<1>1. CmdInv => OwnAnswer
  BY DEF CmdInv
<1>2. QED
  BY <1>1, CmdCorrect, PTL

=============================================================================
