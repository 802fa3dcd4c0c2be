---------------------------- MODULE SdioTxProofs -----------------------------
(***************************************************************************)
(* Proofs about SdioTx, for every number of input buffers and every bound. *)
(***************************************************************************)
EXTENDS SdioTx, TLAPS

\* Where txMutiFrameCount counts frames that are not written yet.
Filling == {"space", "spaceUpdate", "get", "write"}

Unwritten == IF pc \in Filling THEN batch ELSE 0

\* Every counted frame is somewhere.
Accounted == n_xmits = hw_xmited + device + lost + Unwritten

\* The host's credit never exceeds the room the device has, until teardown
\* hands out credit the device did not give.
CreditBound ==
    /\ hw_bufs_free >= 0
    /\ pc = "get" => hw_bufs_free > 0
    /\ ~bh_term => hw_bufs_free + (n_xmits - hw_xmited) <= NumInpChBufs

\* A value read from the device stays usable although the device moves on.
SnapBound ==
    /\ snap <= hw_xmited
    /\ pc \in {"spaceUpdate", "waitUpdate"} => n_xmits - snap <= NumInpChBufs

\* A batch about to be written has frames, and need_confirm is one of them.
BatchConfirm ==
    /\ pc = "write" => batch > 0
    /\ pc \in Filling /\ batch > 0 => need_confirm # "written"

\* The two halves of TypeOK.
FlagsOK == {enough, bh_term, stalled, staleFree} \subseteq BOOLEAN

CountsOK ==
    /\ pc \in PcValues /\ need_confirm \in {"null", "batch", "written"}
    /\ batch \in Nat /\ snap \in Nat /\ n_xmits \in 0 .. MaxXmits /\ hw_bufs_free \in Int
    /\ bh_tx \in Nat /\ tx_bh_wq \in Nat /\ queued \in [Kinds -> Nat] /\ kicks \in Nat
    /\ hw_xmited \in Nat /\ device \in Nat /\ lost \in Nat

\* The inductive invariant.
CreditInv ==
    /\ FlagsOK
    /\ CountsOK
    /\ Accounted
    /\ CreditBound
    /\ SnapBound
    /\ BatchConfirm
    /\ DeviceNotOverrun
    /\ StaleFreeNeedsStall

-----------------------------------------------------------------------------
(* The invariant is inductive.                                              *)

\* Flags stay flags.
LEMMA FlagsStep == FlagsOK /\ [Next]_vars => FlagsOK'
<1> SUFFICES ASSUME FlagsOK, [Next]_vars PROVE FlagsOK'
  OBVIOUS
<1> USE DEF FlagsOK, local, credit, wakeup, senders, dev, history
<1>1. CASE \E k \in Kinds : Submit(k)
  BY <1>1 DEF Submit
<1>2. CASE ScheduleTx
  BY <1>2 DEF ScheduleTx, FirstKick
<1>3. CASE DeviceTakes
  BY <1>3 DEF DeviceTakes
<1>4. CASE Terminate
  BY <1>4 DEF Terminate
<1>5. CASE LoopTop
  BY <1>5 DEF LoopTop, AfterTop
<1>6. CASE Wake
  BY <1>6 DEF Wake, TakeWork, TakeAll
<1>7. CASE WakeTimeout
  BY <1>7 DEF WakeTimeout, TakeWork, TakeAll
<1>8. CASE HaveSpaceCached
  BY <1>8 DEF HaveSpaceCached, CachedSpace
<1>9. CASE HaveSpaceTerm
  BY <1>9 DEF HaveSpaceTerm
<1>10. CASE HaveSpaceRead
  BY <1>10 DEF HaveSpaceRead
<1>11. CASE HaveSpaceReadError
  BY <1>11 DEF HaveSpaceReadError, NoSpace
<1>12. CASE HaveSpaceUpdate
  BY <1>12 DEF HaveSpaceUpdate, NoSpace, Credit
<1>13. CASE GetNothing
  BY <1>13 DEF GetNothing
<1>14. CASE \E k \in Kinds : GetFrame(k)
  BY <1>14 DEF GetFrame, ConfirmOf
<1>15. CASE WriteTerm
  BY <1>15 DEF WriteTerm, ForceFree, Continue
<1>16. CASE WriteOk
  BY <1>16 DEF WriteOk, Continue
<1>17. CASE WriteError
  BY <1>17 DEF WriteError, ForceFree, Continue
<1>18. CASE WaitRead
  BY <1>18 DEF WaitRead
<1>19. CASE WaitUpdate
  BY <1>19 DEF WaitUpdate, Continue, Credit
<1>20. CASE WaitFails
  BY <1>20 DEF WaitFails, ForceFree, Continue
<1>21. CASE BhWakeupDrop
  BY <1>21 DEF BhWakeupDrop
<1>22. CASE UNCHANGED vars
  BY <1>22 DEF vars
<1>23. QED
  BY <1>1, <1>2, <1>3, <1>4, <1>5, <1>6, <1>7, <1>8, <1>9, <1>10, <1>11,
     <1>12, <1>13, <1>14, <1>15, <1>16, <1>17, <1>18, <1>19, <1>20, <1>21,
     <1>22
  DEF Next, TxBh, TxBhFaults

\* Each step of the senders, the device, teardown and atbm_sdio_tx_bh keeps
\* the invariant.
LEMMA CreditStep == CreditInv /\ [Next]_vars => CreditInv'
<1> SUFFICES ASSUME CreditInv, [Next]_vars PROVE CreditInv'
  OBVIOUS
<1> DEFINE Rest == /\ CountsOK /\ Accounted /\ CreditBound /\ SnapBound /\ BatchConfirm
                   /\ DeviceNotOverrun /\ StaleFreeNeedsStall
<1> SUFFICES Rest'
  BY FlagsStep DEF CreditInv
<1> USE BufsAssumption, WidthAssumption, QueueAssumption
    DEF CreditInv, CountsOK, Accounted, CreditBound, SnapBound, BatchConfirm, Unwritten,
        Filling, DeviceNotOverrun, StaleFreeNeedsStall, PcValues, Kinds, local, credit,
        wakeup, senders, dev, history
<1>1. CASE \E k \in Kinds : Submit(k)
  BY <1>1 DEF Submit
<1>2. CASE ScheduleTx
  BY <1>2 DEF ScheduleTx, FirstKick
<1>3. CASE DeviceTakes
  BY <1>3 DEF DeviceTakes
<1>4. CASE Terminate
  BY <1>4 DEF Terminate
<1>5. CASE LoopTop
  BY <1>5 DEF LoopTop, AfterTop
<1>6. CASE Wake
  BY <1>6 DEF Wake, TakeWork, TakeAll
<1>7. CASE WakeTimeout
  BY <1>7 DEF WakeTimeout, TakeWork, TakeAll
<1>8. CASE HaveSpaceCached
  BY <1>8 DEF HaveSpaceCached, CachedSpace
<1>9. CASE HaveSpaceTerm
  BY <1>9 DEF HaveSpaceTerm
<1>10. CASE HaveSpaceRead
  BY <1>10 DEF HaveSpaceRead
<1>11. CASE HaveSpaceReadError
  BY <1>11 DEF HaveSpaceReadError, NoSpace
<1>12. CASE HaveSpaceUpdate
  BY <1>12 DEF HaveSpaceUpdate, NoSpace, Credit
<1>13. CASE GetNothing
  BY <1>13 DEF GetNothing
<1>14. CASE \E k \in Kinds : GetFrame(k)
  BY <1>14 DEF GetFrame, ConfirmOf
<1>15. CASE WriteTerm
  <2>1. need_confirm # "written"
    BY <1>15 DEF WriteTerm
  <2>2. StaleFreeNeedsStall'
    BY <1>15, <2>1, Zenon DEF WriteTerm, ForceFree
  <2>3. (CountsOK /\ Accounted /\ CreditBound /\ SnapBound /\ BatchConfirm /\ DeviceNotOverrun)'
    BY <1>15 DEF WriteTerm, Continue
  <2>4. QED
    BY <2>2, <2>3
<1>16. CASE WriteOk
  BY <1>16 DEF WriteOk, Continue
<1>17. CASE WriteError
  <2>1. need_confirm # "written"
    BY <1>17 DEF WriteError
  <2>2. StaleFreeNeedsStall'
    BY <1>17, <2>1, Zenon DEF WriteError, ForceFree
  <2>3. (CountsOK /\ Accounted /\ CreditBound /\ SnapBound /\ BatchConfirm /\ DeviceNotOverrun)'
    BY <1>17 DEF WriteError, Continue
  <2>4. QED
    BY <2>2, <2>3
<1>18. CASE WaitRead
  BY <1>18 DEF WaitRead
<1>19. CASE WaitUpdate
  BY <1>19 DEF WaitUpdate, Continue, Credit
<1>20. CASE WaitFails
  BY <1>20 DEF WaitFails, ForceFree, Continue
<1>21. CASE BhWakeupDrop
  BY <1>21 DEF BhWakeupDrop
<1>22. CASE UNCHANGED vars
  BY <1>22 DEF vars
<1>23. QED
  BY <1>1, <1>2, <1>3, <1>4, <1>5, <1>6, <1>7, <1>8, <1>9, <1>10, <1>11,
     <1>12, <1>13, <1>14, <1>15, <1>16, <1>17, <1>18, <1>19, <1>20, <1>21,
     <1>22
  DEF Next, TxBh, TxBhFaults

\* atbm_register_bh and the credit set by the startup indication establish it.
LEMMA CreditInit == Init => CreditInv
<1> SUFFICES ASSUME Init PROVE CreditInv
  OBVIOUS
<1>1. FlagsOK
  BY Zenon DEF Init, FlagsOK
<1>2. CountsOK /\ Accounted /\ CreditBound /\ SnapBound /\ BatchConfirm
  BY BufsAssumption, WidthAssumption
  DEF Init, CountsOK, Accounted, CreditBound, SnapBound, BatchConfirm, Unwritten,
      Filling, PcValues, Kinds
<1>3. DeviceNotOverrun /\ StaleFreeNeedsStall
  BY BufsAssumption DEF Init, DeviceNotOverrun, StaleFreeNeedsStall
<1>4. QED
  BY <1>1, <1>2, <1>3 DEF CreditInv

\* The invariant holds in every reachable state, whatever fails.
THEOREM CreditCorrect == Spec => []CreditInv
<1>1. QED
  BY CreditInit, CreditStep, PTL DEF Spec

-----------------------------------------------------------------------------
(* The properties of SdioTx.                                                *)

\* Every variable of the thread, the senders and the device keeps its type;
\* in particular n_xmits never passes the bound.
THEOREM TypeCorrect == Spec => []TypeOK
<1>1. CreditInv => TypeOK
  BY DEF CreditInv, FlagsOK, CountsOK, TypeOK
<1>2. QED
  BY <1>1, CreditCorrect, PTL

\* atbm_sdio_tx_bh never writes more frames than the device has free input
\* buffers, for any number of buffers and any mix of faults.
THEOREM NoOverrun == Spec => []DeviceNotOverrun
<1>1. CreditInv => DeviceNotOverrun
  BY DEF CreditInv
<1>2. QED
  BY <1>1, CreditCorrect, PTL

\* The check ATBM_SDIO_FREE_BUFF_ERR in front of n_xmits++ never fails.
THEOREM CreditChecked == Spec => []CreditBeforeTake
<1>1. CreditInv => CreditBeforeTake
  BY DEF CreditInv, CreditBound, CreditBeforeTake
<1>2. QED
  BY <1>1, CreditCorrect, PTL

\* No frame that n_xmits counted disappears.
THEOREM NothingDisappears == Spec => []XmitsAccounted
<1>1. CreditInv => XmitsAccounted
  BY DEF CreditInv, CountsOK, PcValues, Accounted, Unwritten, Filling, XmitsAccounted
<1>2. QED
  BY <1>1, CreditCorrect, PTL

\* A failing bus write never releases the confirm of a frame that an earlier
\* write gave to the device; only a wait that gave up can.
THEOREM NoStaleFree == Spec => []StaleFreeNeedsStall
<1>1. CreditInv => StaleFreeNeedsStall
  BY DEF CreditInv
<1>2. QED
  BY <1>1, CreditCorrect, PTL

\* The assertions on hw_xmited in atbm_sdio_wait_enough_space and
\* atbm_sdio_have_enough_space hold as long as n_xmits stays below 2^31.
THEOREM AssertsBelowHalf ==
    ASSUME MaxXmits < Half
    PROVE  Spec => []XmitAsserts
<1>1. CreditInv => XmitAsserts
  BY WidthAssumption, BufsAssumption
  DEF CreditInv, CountsOK, Accounted, Unwritten, SnapBound, XmitAsserts, Int32
<1>2. QED
  BY <1>1, CreditCorrect, PTL
=============================================================================
