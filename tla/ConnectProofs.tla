---------------------------- MODULE ConnectProofs ----------------------------
(***************************************************************************)
(* Proofs about Connect and the work queue it extends, for every size of   *)
(* the work table, every mixture of troubles and every bound on the queue: *)
(* types, whose work the work thread runs, that no timer of an earlier     *)
(* attempt threatens a connection, that a stopped station is quiet, and    *)
(* that a station that wants a connection always has a way back to it.     *)
(***************************************************************************)
EXTENDS Connect, FiniteSetTheorems, WellFoundedInduction, TLAPS

-----------------------------------------------------------------------------
(* The inductive invariant, part by part.                                   *)

Stopping == evpc \in {"flush", "stop"}

SomeState == {"DISCONNECTED", "SCANNING", "AUTHENTICATING", "ASSOCIATING", "ASSOCIATED",
              "4WAY_HANDSHAKE", "COMPLETED"}

\* The types: flags, data, the queue.
FlagsOK ==
    {sta, enabled, appdata, auto_connect, scan_no_connect, scan_back, in_progress, scan_ok,
     assoc_ok, connect_ok, eapol_received, fwScan, fwJoined, wanted, raced, cancelled}
      \subseteq BOOLEAN

DataOK ==
    /\ config \in Modes \cup {"none"}
    /\ join_status \in {"PASSIVE", "STA"} /\ wpa_state \in SomeState
    /\ timer \in [Timers -> 0 .. 2]
    /\ evpc \in {"idle", "deauth", "flush", "stop"} /\ upc \in {"idle", "deauth"}
    /\ tpc \in {"idle", "scan", "deauth"}
    /\ wpc \in {"start", "joined", "arm", "deauth"}
    /\ owed \in {"none", "auth", "assoc", "m1", "m3", "confirm"}
    /\ trouble \in 0 .. MaxTrouble
    /\ lost \subseteq {"scan", "join", "auth", "handshake", "userScan"}
    /\ crash \in {"no", "supplicant", "work"}

QueueOK == evq \in Seq(Events)

\* A function is in the table at most once.
OneEntry(table) ==
    \A i, j \in WorkIds : table[i] = table[j] /\ table[i] # NoWork => i = j

\* A station that runs has its two works at the places it has kept; one that
\* does not has none.
TableOK ==
    /\ OneEntry(work_queue_table)
    /\ {scan_work, join_work} \subseteq WorkIds
    /\ sta /\ ~Stopping => /\ work_queue_table[scan_work] = "scan"
                           /\ work_queue_table[join_work] = "join"
    /\ ~sta \/ Stopping => \A id \in WorkIds : work_queue_table[id] \notin {"scan", "join"}

\* Until a work is cancelled with its bit set, a set bit belongs to an entry
\* that still has the function the bit was set for.
BitsOwned ==
    ~cancelled => /\ ~wrongWork /\ crash # "work" /\ working # "null"
                  /\ \A id \in work_map : /\ asked[id] = work_queue_table[id]
                                          /\ work_queue_table[id] # NoWork

\* What the timers of an attempt may be at each state of the supplicant, until
\* an answer comes late.
AttemptTimers ==
    ~raced =>
        /\ wpa_state \in {"AUTHENTICATING", "ASSOCIATING", "COMPLETED"} => timer["handshake"] = 0
        /\ wpa_state = "COMPLETED" => timer["assoc"] = 0
        /\ wpa_state \in {"ASSOCIATED", "4WAY_HANDSHAKE", "COMPLETED"} => timer["join"] = 0

\* The stop of a station takes away, one after the other, the timers of scan and
\* join, the firmware's join, the supplicant and its timers.
StopStages ==
    /\ ~sta => ~enabled /\ ~appdata
    /\ evpc = "stop" => ~enabled
    /\ ~raced =>
          /\ ~sta \/ Stopping => timer["scan"] = 0 /\ timer["join"] = 0 /\ working # "join"
          /\ ~sta \/ evpc = "stop" => ~fwJoined /\ join_status = "PASSIVE"
          /\ ~sta => timer["assoc"] = 0 /\ timer["handshake"] = 0

ConnInv ==
    /\ WorkTypeOK
    /\ FlagsOK
    /\ DataOK
    /\ QueueOK
    /\ TableOK
    /\ BitsOwned
    /\ AttemptTimers
    /\ StopStages

-----------------------------------------------------------------------------
(* Smallest elements, free entries, ranks.                                  *)

\* A set of natural numbers that is not empty has a smallest element.
LEMMA MinOfNats ==
    ASSUME NEW S, S \subseteq Nat, S # {}
    PROVE  Min(S) \in S
<1> DEFINE less == {ss \in Nat \X Nat : ss[1] < ss[2]}
<1>1. IsWellFoundedOn(less, Nat)
  BY NatLessThanWellFounded, Zenon DEF OpToRel
<1>2. PICK x \in S : \A y \in S : ~ (<<y, x>> \in less)
  <2> HIDE DEF less
  <2>1. QED
    BY <1>1, WFMin
<1>3. ASSUME NEW y \in S PROVE x =< y
  <2>1. <<y, x>> \in Nat \X Nat /\ <<y, x>>[1] = y /\ <<y, x>>[2] = x
    OBVIOUS
  <2>2. ~ (y < x)
    BY <1>2, <2>1
  <2>3. y \in Nat /\ x \in Nat
    OBVIOUS
  <2>4. QED
    BY <2>2, <2>3
<1>4. QED
  BY <1>3 DEF Min

\* A timer is registered once more, or twice already.
LEMMA OnceMore ==
    ASSUME NEW n \in 0 .. 2
    PROVE  Min({n + 1, 2}) \in 0 .. 2
<1>1. Min({n + 1, 2}) \in {n + 1, 2}
  BY MinOfNats
<1>2. CASE n = 2
  <2>1. 2 \in {n + 1, 2} /\ \A y \in {n + 1, 2} : 2 =< y
    BY <1>2
  <2>2. Min({n + 1, 2}) =< 2
    BY <1>1, <2>1 DEF Min
  <2>3. QED
    BY <1>1, <2>2
<1>3. CASE n # 2
  BY <1>1, <1>3
<1>4. QED
  BY <1>2, <1>3

LEMMA FiniteWorks == IsFiniteSet(Works) /\ Cardinality(Works) \in Nat
<1>1. IsFiniteSet({"event", "scan", "join", "apscan"})
  <2>1. /\ IsFiniteSet({"event"}) /\ IsFiniteSet({"scan"})
        /\ IsFiniteSet({"join"}) /\ IsFiniteSet({"apscan"})
    BY FS_Singleton
  <2>2. IsFiniteSet({"event"} \cup {"scan"}) /\ IsFiniteSet({"join"} \cup {"apscan"})
    BY <2>1, FS_Union
  <2>3. IsFiniteSet(({"event"} \cup {"scan"}) \cup ({"join"} \cup {"apscan"}))
    BY <2>2, FS_Union
  <2>4. {"event", "scan", "join", "apscan"}
          = ({"event"} \cup {"scan"}) \cup ({"join"} \cup {"apscan"})
    OBVIOUS
  <2>5. QED
    BY <2>3, <2>4
<1>2. QED
  BY <1>1, FS_CardinalityType, ConnectAssumption

\* A function that is not in the table finds a free entry.
LEMMA FreeEntry ==
    ASSUME NEW table \in [WorkIds -> Works \cup {NoWork}], OneEntry(table),
           NEW fun \in Works, \A id \in WorkIds : table[id] # fun
    PROVE  /\ Unused(table) # {}
           /\ FirstUnused(table) \in WorkIds
           /\ table[FirstUnused(table)] = NoWork
<1>1. IsFiniteSet(Works) /\ Cardinality(Works) \in Nat
  BY FiniteWorks
<1>2. IsFiniteSet(Works \ {fun}) /\ Cardinality(Works \ {fun}) = Cardinality(Works) - 1
  BY <1>1, FS_RemoveElement
<1>3. IsFiniteSet(WorkIds) /\ Cardinality(WorkIds) = MaxWorks
  <2>1. IsFiniteSet(0 .. MaxWorks - 1)
         /\ Cardinality(0 .. MaxWorks - 1)
              = IF 0 > MaxWorks - 1 THEN 0 ELSE MaxWorks - 1 - 0 + 1
    BY FS_Interval, WorksAssumption
  <2>2. QED
    BY <2>1, WorksAssumption DEF WorkIds
<1>4. Unused(table) # {}
  <2>1. SUFFICES ASSUME Unused(table) = {} PROVE FALSE
    OBVIOUS
  <2>2. \A id \in WorkIds : table[id] # NoWork
    BY <2>1 DEF Unused
  <2>3. table \in [WorkIds -> Works \ {fun}]
    BY <2>2
  <2>4. Cardinality(Works \ {fun}) < Cardinality(WorkIds)
    BY <1>1, <1>2, <1>3, ConnectAssumption, WorksAssumption
  <2>5. PICK i, j \in WorkIds : i # j /\ table[i] = table[j]
    BY <1>2, <1>3, <2>3, <2>4, FS_PigeonHole
  <2>6. QED
    BY <2>2, <2>5 DEF OneEntry
<1>5. Unused(table) \subseteq Nat
  BY WorksAssumption DEF Unused, WorkIds
<1>6. Min(Unused(table)) \in Unused(table)
  BY <1>4, <1>5, MinOfNats
<1>7. QED
  BY <1>4, <1>6 DEF FirstUnused, Unused

\* It is registered there, and no function is in the table twice.
LEMMA RegisteredOnce ==
    ASSUME NEW table \in [WorkIds -> Works \cup {NoWork}], OneEntry(table),
           NEW fun \in Works, \A id \in WorkIds : table[id] # fun
    PROVE  /\ Registered(table, fun) = [table EXCEPT ![FirstUnused(table)] = fun]
           /\ Registered(table, fun) \in [WorkIds -> Works \cup {NoWork}]
           /\ OneEntry(Registered(table, fun))
<1>1. /\ Unused(table) # {}
      /\ FirstUnused(table) \in WorkIds
      /\ table[FirstUnused(table)] = NoWork
  BY FreeEntry
<1>2. Registered(table, fun) = [table EXCEPT ![FirstUnused(table)] = fun]
  BY <1>1 DEF Registered
<1>3. QED
  BY <1>1, <1>2 DEF OneEntry

\* The next work is one of those whose bit is set.
LEMMA NextWorkIsSet ==
    ASSUME work_map \subseteq WorkIds, work_map # {}
    PROVE  NextWork \in work_map
<1>1. work_map \subseteq Nat
  BY WorksAssumption DEF WorkIds
<1>2. DEFINE above == {id \in work_map : id >= work_id}
<1>3. CASE above = {}
  <2>1. Min(work_map) \in work_map
    BY <1>1, MinOfNats
  <2>2. QED
    BY <1>3, <2>1 DEF NextWork
<1>4. CASE above # {}
  <2>1. Min(above) \in above
    BY <1>1, <1>4, MinOfNats
  <2>2. QED
    BY <1>4, <2>1 DEF NextWork
<1>5. QED
  BY <1>3, <1>4

\* The states of the supplicant in their order.
LEMMA StateNames == ToSet(States) = SomeState
<1>1. DOMAIN States = {1, 2, 3, 4, 5, 6, 7}
  BY DEF States
<1>2. QED
  BY <1>1 DEF ToSet, States, SomeState

LEMMA RankOf ==
    ASSUME NEW k \in 1 .. 7
    PROVE  Rank(States[k]) = k
<1>1. Len(States) = 7
  BY DEF States
<1>2. \A i, j \in 1 .. 7 : States[i] = States[j] => i = j
  BY DEF States
<1>3. QED
  BY <1>1, <1>2 DEF Rank

LEMMA Ranks ==
    /\ Rank("DISCONNECTED") = 1 /\ Rank("SCANNING") = 2
    /\ Rank("AUTHENTICATING") = 3 /\ Rank("ASSOCIATING") = 4
    /\ Rank("ASSOCIATED") = 5 /\ Rank("4WAY_HANDSHAKE") = 6 /\ Rank("COMPLETED") = 7
<1>1. /\ States[1] = "DISCONNECTED" /\ States[2] = "SCANNING"
      /\ States[3] = "AUTHENTICATING" /\ States[4] = "ASSOCIATING"
      /\ States[5] = "ASSOCIATED" /\ States[6] = "4WAY_HANDSHAKE" /\ States[7] = "COMPLETED"
  BY DEF States
<1>2. /\ Rank(States[1]) = 1 /\ Rank(States[2]) = 2 /\ Rank(States[3]) = 3
      /\ Rank(States[4]) = 4 /\ Rank(States[5]) = 5 /\ Rank(States[6]) = 6
      /\ Rank(States[7]) = 7
  BY RankOf
<1>3. QED
  BY <1>1, <1>2

\* The last three are those of a station that is associated.
LEMMA FromAssociated ==
    ASSUME DataOK
    PROVE  /\ AtLeast("ASSOCIATED")
                <=> wpa_state \in {"ASSOCIATED", "4WAY_HANDSHAKE", "COMPLETED"}
           /\ AtLeast("4WAY_HANDSHAKE") <=> wpa_state \in {"4WAY_HANDSHAKE", "COMPLETED"}
BY Ranks DEF DataOK, SomeState, AtLeast

-----------------------------------------------------------------------------
(* Types.                                                                   *)

USE DEF workVars, iface, scanVars, link, fw, pcs, history, outside, userLeaves, Up, Ev, Takes,
        Handled, Post, Set, Trouble, Fault, NoFault, Return, WorkReturns, Runs, Fires

LEMMA FlagsKept ==
    ASSUME ConnInv, Next
    PROVE  FlagsOK'
<1> FlagsOK
  BY DEF ConnInv
<1> USE DEF FlagsOK
<1>1. CASE EventThread
  <2>1. CASE Drop
    BY <2>1 DEF Drop
  <2>2. CASE UserScan
    BY <2>2 DEF UserScan
  <2>3. CASE Authen
    BY <2>3 DEF Authen
  <2>4. CASE RxAuth
    BY <2>4 DEF RxAuth
  <2>5. CASE Assciate
    BY <2>5 DEF Assciate
  <2>6. CASE RxAuthFail
    BY <2>6 DEF RxAuthFail, Refused
  <2>7. CASE RxAssocFail
    BY <2>7, ZenonT(60) DEF RxAssocFail, Refused
  <2>8. CASE RxAssoc
    BY <2>8, ZenonT(100) DEF RxAssoc
  <2>9. CASE EapTxStatus
    BY <2>9 DEF EapTxStatus
  <2>10. CASE RxDeauth
    BY <2>10, ZenonT(60) DEF RxDeauth, DeauthBegin
  <2>11. CASE EvDeauthEnd
    BY <2>11, ZenonT(60) DEF EvDeauthEnd, DeauthEnd
  <2>12. CASE ConnectFail
    BY <2>12 DEF ConnectFail
  <2>13. CASE StopBegin
    BY <2>13 DEF StopBegin
  <2>14. CASE StopDisable
    BY <2>14 DEF StopDisable, DeauthBegin
  <2>15. CASE StopEnd
    BY <2>15 DEF StopEnd, DeauthEnd
  <2>16. CASE Start
    BY <2>16 DEF Start
  <2>17. CASE StartOther
    BY <2>17 DEF StartOther
  <2>18. CASE \E e \in {"USER_CONNECT", "START_CONNECT"} : StartConnect(e)
    BY <2>18 DEF StartConnect
  <2>19. CASE \E e \in {"rxM1", "rxM3"} : RxEapol(e)
    BY <2>19 DEF RxEapol
  <2>20. CASE \E found \in BOOLEAN : ScanEnd(found)
    BY <2>20 DEF ScanEnd
  <2>21. QED
    BY <1>1, <2>1, <2>2, <2>3, <2>4, <2>5, <2>6, <2>7, <2>8, <2>9, <2>10, <2>11, <2>12,
     <2>13, <2>14, <2>15, <2>16, <2>17, <2>18, <2>19, <2>20 DEF EventThread
<1>2. CASE TimerTask
  <2>1. CASE FireScan
    <3>1. CASE sta
      BY <2>1, <3>1 DEF FireScan
    <3>2. CASE ~sta
      BY <2>1, <3>2 DEF FireScan
    <3>3. QED
      BY <3>1, <3>2
  <2>2. CASE TimerScan
    BY <2>2 DEF TimerScan
  <2>3. CASE FireJoin
    BY <2>3 DEF FireJoin
  <2>4. CASE FireAssoc
    BY <2>4 DEF FireAssoc
  <2>5. CASE FireHandshake
    BY <2>5 DEF FireHandshake
  <2>6. CASE FireAuto
    <3>1. CASE join_status = "STA"
      BY <2>6, <3>1, ZenonT(120) DEF FireAuto, DeauthBegin
    <3>2. CASE join_status # "STA"
      BY <2>6, <3>2, ZenonT(100) DEF FireAuto, StartOver
    <3>3. QED
      BY <3>1, <3>2
  <2>7. CASE AutoConnect
    BY <2>7 DEF AutoConnect, DeauthEnd, StartOver
  <2>8. QED
    BY <1>2, <2>1, <2>2, <2>3, <2>4, <2>5, <2>6, <2>7 DEF TimerTask
<1>3. CASE WorkThread
  <2>1. CASE Take
    BY <2>1 DEF Take
  <2>2. CASE NullWork
    BY <2>2 DEF NullWork
  <2>3. CASE ApScanWork
    BY <2>3 DEF ApScanWork
  <2>4. CASE ScanWork
    BY <2>4, ZenonT(100) DEF ScanWork
  <2>5. CASE JoinStart
    BY <2>5, ZenonT(100) DEF JoinStart
  <2>6. CASE JoinDone
    BY <2>6 DEF JoinDone
  <2>7. CASE JoinArm
    BY <2>7 DEF JoinArm
  <2>8. CASE EventWork
    BY <2>8, ZenonT(100) DEF EventWork, DeauthBegin
  <2>9. CASE EventWorkEnd
    BY <2>9 DEF EventWorkEnd, DeauthEnd
  <2>10. QED
    BY <1>3, <2>1, <2>2, <2>3, <2>4, <2>5, <2>6, <2>7, <2>8, <2>9 DEF WorkThread
<1>4. CASE Outside
  <2>1. CASE ApAnswer
    BY <2>1 DEF ApAnswer
  <2>2. CASE Silence
    BY <2>2 DEF Silence
  <2>3. CASE ApDeauth
    BY <2>3 DEF ApDeauth
  <2>4. CASE BssLost
    BY <2>4 DEF BssLost
  <2>5. CASE FwScanEnd
    BY <2>5, ZenonT(60) DEF FwScanEnd
  <2>6. QED
    BY <1>4, <2>1, <2>2, <2>3, <2>4, <2>5 DEF Outside
<1>5. CASE User
  <2>1. CASE \E mode \in Modes : UserConnect(mode)
    BY <2>1 DEF UserConnect
  <2>2. CASE \E e \in Acked : UserAsks(e)
    BY <2>2 DEF UserAsks
  <2>3. CASE UserDisconnect
    BY <2>3 DEF UserDisconnect, DeauthBegin
  <2>4. CASE UserDisconnected
    BY <2>4, ZenonT(60) DEF UserDisconnected, DeauthEnd
  <2>5. QED
    BY <1>5, <2>1, <2>2, <2>3, <2>4 DEF User
<1>6. QED
  BY <1>1, <1>2, <1>3, <1>4, <1>5 DEF Next

LEMMA DataKept ==
    ASSUME ConnInv, Next
    PROVE  DataOK'
<1> DataOK /\ MaxTrouble \in Nat
  BY ConnectAssumption DEF ConnInv
<1> USE DEF DataOK, SomeState, Timers
<1>1. CASE EventThread
  <2>1. CASE Drop
    BY <2>1 DEF Drop
  <2>2. CASE UserScan
    BY <2>2 DEF UserScan
  <2>3. CASE Authen
    BY <2>3 DEF Authen
  <2>4. CASE RxAuth
    BY <2>4 DEF RxAuth
  <2>5. CASE Assciate
    BY <2>5 DEF Assciate
  <2>6. CASE RxAuthFail
    BY <2>6 DEF RxAuthFail, Refused, WpaDeauthen, DeauthenTimers, Lose
  <2>7. CASE RxAssocFail
    BY <2>7 DEF RxAssocFail, Refused, WpaDeauthen, DeauthenTimers
  <2>8. CASE RxAssoc
    <3>1. lost' \subseteq {"scan", "join", "auth", "handshake", "userScan"}
      BY <2>8 DEF RxAssoc
    <3>2. trouble' \in 0 .. MaxTrouble
      BY <2>8 DEF RxAssoc
    <3>3. QED
      BY <2>8, <3>1, <3>2 DEF RxAssoc, Associated
  <2>9. CASE EapTxStatus
    BY <2>9 DEF EapTxStatus
  <2>10. CASE RxDeauth
    BY <2>10 DEF RxDeauth, DeauthBegin
  <2>11. CASE EvDeauthEnd
    BY <2>11 DEF EvDeauthEnd, DeauthEnd, DeauthenTimers
  <2>12. CASE ConnectFail
    BY <2>12 DEF ConnectFail
  <2>13. CASE StopBegin
    BY <2>13 DEF StopBegin, StopTimers
  <2>14. CASE StopDisable
    BY <2>14 DEF StopDisable, DeauthBegin
  <2>15. CASE StopEnd
    BY <2>15 DEF StopEnd, DeauthEnd, DeauthenTimers
  <2>16. CASE Start
    BY <2>16 DEF Start
  <2>17. CASE StartOther
    BY <2>17 DEF StartOther
  <2>18. CASE \E e \in {"USER_CONNECT", "START_CONNECT"} : StartConnect(e)
    <3>1. lost' \subseteq {"scan", "join", "auth", "handshake", "userScan"}
      BY <2>18 DEF StartConnect
    <3>2. trouble' \in 0 .. MaxTrouble
      BY <2>18 DEF StartConnect
    <3>3. timer' \in [Timers -> 0 .. 2]
      <4>1. Min({timer["scan"] + 1, 2}) \in 0 .. 2
        BY OnceMore
      <4>2. ScanGuarded \in [Timers -> 0 .. 2]
        BY <4>1 DEF ScanGuarded
      <4>3. QED
      BY <2>18, <4>2 DEF StartConnect
    <3>4. QED
      BY <2>18, <3>1, <3>2, <3>3 DEF StartConnect
  <2>19. CASE \E e \in {"rxM1", "rxM3"} : RxEapol(e)
    BY <2>19 DEF RxEapol, EapolTimers, Lose
  <2>20. CASE \E found \in BOOLEAN : ScanEnd(found)
    <3>1. lost' \subseteq {"scan", "join", "auth", "handshake", "userScan"}
      BY <2>20 DEF ScanEnd
    <3>2. trouble' \in 0 .. MaxTrouble
      BY <2>20 DEF ScanEnd
    <3>3. QED
      BY <2>20, <3>1, <3>2 DEF ScanEnd
  <2>21. QED
    BY <1>1, <2>1, <2>2, <2>3, <2>4, <2>5, <2>6, <2>7, <2>8, <2>9, <2>10, <2>11, <2>12,
     <2>13, <2>14, <2>15, <2>16, <2>17, <2>18, <2>19, <2>20 DEF EventThread
<1>2. CASE TimerTask
  <2>1. CASE FireScan
    BY <2>1 DEF FireScan
  <2>2. CASE TimerScan
    <3>1. lost' \subseteq {"scan", "join", "auth", "handshake", "userScan"}
      BY <2>2 DEF TimerScan, Lose
    <3>2. trouble' \in 0 .. MaxTrouble
      BY <2>2 DEF TimerScan
    <3>3. QED
      BY <2>2, <3>1, <3>2 DEF TimerScan
  <2>3. CASE FireJoin
    BY <2>3 DEF FireJoin
  <2>4. CASE FireAssoc
    BY <2>4 DEF FireAssoc, WpaDeauthen, DeauthenTimers
  <2>5. CASE FireHandshake
    BY <2>5 DEF FireHandshake, WpaDeauthen, DeauthenTimers, Lose
  <2>6. CASE FireAuto
    BY <2>6 DEF FireAuto, DeauthBegin
  <2>7. CASE AutoConnect
    BY <2>7 DEF AutoConnect, DeauthEnd, DeauthenTimers
  <2>8. QED
    BY <1>2, <2>1, <2>2, <2>3, <2>4, <2>5, <2>6, <2>7 DEF TimerTask
<1>3. CASE WorkThread
  <2>1. CASE Take
    BY <2>1 DEF Take
  <2>2. CASE NullWork
    BY <2>2 DEF NullWork
  <2>3. CASE ApScanWork
    BY <2>3 DEF ApScanWork
  <2>4. CASE ScanWork
    <3>1. lost' \subseteq {"scan", "join", "auth", "handshake", "userScan"}
      BY <2>4 DEF ScanWork, Lose
    <3>2. trouble' \in 0 .. MaxTrouble
      BY <2>4 DEF ScanWork
    <3>3. QED
      BY <2>4, <3>1, <3>2 DEF ScanWork
  <2>5. CASE JoinStart
    <3>1. lost' \subseteq {"scan", "join", "auth", "handshake", "userScan"}
      BY <2>5 DEF JoinStart, Lose
    <3>2. trouble' \in 0 .. MaxTrouble
      BY <2>5 DEF JoinStart
    <3>3. QED
      BY <2>5, <3>1, <3>2 DEF JoinStart
  <2>6. CASE JoinDone
    BY <2>6 DEF JoinDone
  <2>7. CASE JoinArm
    BY <2>7, OnceMore, ZenonT(100) DEF JoinArm
  <2>8. CASE EventWork
    BY <2>8 DEF EventWork, DeauthBegin
  <2>9. CASE EventWorkEnd
    BY <2>9 DEF EventWorkEnd, DeauthEnd, DeauthenTimers
  <2>10. QED
    BY <1>3, <2>1, <2>2, <2>3, <2>4, <2>5, <2>6, <2>7, <2>8, <2>9 DEF WorkThread
<1>4. CASE Outside
  <2>1. CASE ApAnswer
    BY <2>1 DEF ApAnswer
  <2>2. CASE Silence
    <3>1. lost' \subseteq {"scan", "join", "auth", "handshake", "userScan"}
      BY <2>2 DEF Silence, Lose
    <3>2. trouble' \in 0 .. MaxTrouble
      BY <2>2 DEF Silence
    <3>3. QED
      BY <2>2, <3>1, <3>2 DEF Silence
  <2>3. CASE ApDeauth
    BY <2>3 DEF ApDeauth
  <2>4. CASE BssLost
    BY <2>4 DEF BssLost
  <2>5. CASE FwScanEnd
    BY <2>5 DEF FwScanEnd
  <2>6. QED
    BY <1>4, <2>1, <2>2, <2>3, <2>4, <2>5 DEF Outside
<1>5. CASE User
  <2>1. CASE \E mode \in Modes : UserConnect(mode)
    BY <2>1 DEF UserConnect, UserActs
  <2>2. CASE \E e \in Acked : UserAsks(e)
    BY <2>2 DEF UserAsks, UserActs
  <2>3. CASE UserDisconnect
    BY <2>3 DEF UserDisconnect, UserActs, DeauthBegin
  <2>4. CASE UserDisconnected
    BY <2>4 DEF UserDisconnected, DeauthEnd, DeauthenTimers
  <2>5. QED
    BY <1>5, <2>1, <2>2, <2>3, <2>4 DEF User
<1>6. QED
  BY <1>1, <1>2, <1>3, <1>4, <1>5 DEF Next

LEMMA PostsAreEvents == DeauthPosts \in Seq(Events)
<1>1. "CONNECT_FAIL" \in Events
  BY DEF Events
<1>2. <<"CONNECT_FAIL">> \in Seq(Events) /\ <<>> \in Seq(Events)
  BY <1>1
<1>3. QED
  BY <1>2 DEF DeauthPosts

\* Nothing but events is ever queued.
LEMMA QueueKept ==
    ASSUME ConnInv, Next
    PROVE  QueueOK'
<1> QueueOK
  BY DEF ConnInv
<1> USE DEF QueueOK, Events, Acked
<1>1. CASE EventThread
  <2>1. CASE Drop
    BY <2>1 DEF Drop
  <2>2. CASE UserScan
    BY <2>2 DEF UserScan
  <2>3. CASE Authen
    BY <2>3 DEF Authen
  <2>4. CASE RxAuth
    BY <2>4 DEF RxAuth
  <2>5. CASE Assciate
    BY <2>5 DEF Assciate
  <2>6. CASE RxAuthFail
    BY <2>6 DEF RxAuthFail, Refused
  <2>7. CASE RxAssocFail
    BY <2>7, PostsAreEvents DEF RxAssocFail, Refused
  <2>8. CASE RxAssoc
    BY <2>8 DEF RxAssoc
  <2>9. CASE EapTxStatus
    BY <2>9 DEF EapTxStatus
  <2>10. CASE RxDeauth
    BY <2>10 DEF RxDeauth
  <2>11. CASE EvDeauthEnd
    BY <2>11, PostsAreEvents DEF EvDeauthEnd
  <2>12. CASE ConnectFail
    BY <2>12 DEF ConnectFail
  <2>13. CASE StopBegin
    BY <2>13 DEF StopBegin
  <2>14. CASE StopDisable
    BY <2>14 DEF StopDisable
  <2>15. CASE StopEnd
    BY <2>15 DEF StopEnd
  <2>16. CASE Start
    BY <2>16 DEF Start
  <2>17. CASE StartOther
    BY <2>17 DEF StartOther
  <2>18. CASE \E e \in {"USER_CONNECT", "START_CONNECT"} : StartConnect(e)
    BY <2>18 DEF StartConnect
  <2>19. CASE \E e \in {"rxM1", "rxM3"} : RxEapol(e)
    BY <2>19 DEF RxEapol
  <2>20. CASE \E found \in BOOLEAN : ScanEnd(found)
    BY <2>20 DEF ScanEnd
  <2>21. QED
    BY <1>1, <2>1, <2>2, <2>3, <2>4, <2>5, <2>6, <2>7, <2>8, <2>9, <2>10, <2>11, <2>12, <2>13,
     <2>14, <2>15, <2>16, <2>17, <2>18, <2>19, <2>20 DEF EventThread
<1>2. CASE TimerTask
  <2>1. CASE FireScan
    BY <2>1 DEF FireScan
  <2>2. CASE TimerScan
    BY <2>2 DEF TimerScan
  <2>3. CASE FireJoin
    BY <2>3 DEF FireJoin
  <2>4. CASE FireAssoc
    BY <2>4, PostsAreEvents DEF FireAssoc
  <2>5. CASE FireHandshake
    BY <2>5 DEF FireHandshake
  <2>6. CASE FireAuto
    BY <2>6 DEF FireAuto, StartOver
  <2>7. CASE AutoConnect
    BY <2>7, PostsAreEvents DEF AutoConnect, StartOver
  <2>8. QED
    BY <1>2, <2>1, <2>2, <2>3, <2>4, <2>5, <2>6, <2>7 DEF TimerTask
<1>3. CASE WorkThread
  <2>1. CASE Take
    BY <2>1 DEF Take
  <2>2. CASE NullWork
    BY <2>2 DEF NullWork
  <2>3. CASE ApScanWork
    BY <2>3 DEF ApScanWork
  <2>4. CASE ScanWork
    BY <2>4 DEF ScanWork
  <2>5. CASE JoinStart
    BY <2>5 DEF JoinStart
  <2>6. CASE JoinDone
    BY <2>6 DEF JoinDone, JoinComplete
  <2>7. CASE JoinArm
    BY <2>7 DEF JoinArm
  <2>8. CASE EventWork
    BY <2>8 DEF EventWork
  <2>9. CASE EventWorkEnd
    BY <2>9, PostsAreEvents DEF EventWorkEnd
  <2>10. QED
    BY <1>3, <2>1, <2>2, <2>3, <2>4, <2>5, <2>6, <2>7, <2>8, <2>9 DEF WorkThread
<1>4. CASE Outside
  <2>1. CASE ApAnswer
    BY <2>1 DEF ApAnswer, Answers
  <2>2. CASE Silence
    BY <2>2 DEF Silence
  <2>3. CASE ApDeauth
    BY <2>3 DEF ApDeauth
  <2>4. CASE BssLost
    BY <2>4 DEF BssLost
  <2>5. CASE FwScanEnd
    BY <2>5 DEF FwScanEnd
  <2>6. QED
    BY <1>4, <2>1, <2>2, <2>3, <2>4, <2>5 DEF Outside
<1>5. CASE User
  <2>1. CASE \E mode \in Modes : UserConnect(mode)
    BY <2>1 DEF UserConnect
  <2>2. CASE \E e \in Acked : UserAsks(e)
    BY <2>2 DEF UserAsks
  <2>3. CASE UserDisconnect
    BY <2>3 DEF UserDisconnect
  <2>4. CASE UserDisconnected
    BY <2>4, PostsAreEvents DEF UserDisconnected
  <2>5. QED
    BY <1>5, <2>1, <2>2, <2>3, <2>4 DEF User
<1>6. QED
  BY <1>1, <1>2, <1>3, <1>4, <1>5 DEF Next

-----------------------------------------------------------------------------
(* The work queue.                                                          *)

\* What a step does to the work queue, and who may cancel, or meet a null work.
WorkQueued(id) ==
    QueueWork(id) /\ UNCHANGED <<work_queue_table, work_id, working, wrongWork>>

LEMMA WorkSteps ==
    ASSUME Next
    PROVE  /\ \/ UNCHANGED workVars
              \/ \E id \in {0, scan_work, join_work} : WorkQueued(id)
              \/ TakeWork
              \/ WorkReturns /\ UNCHANGED <<work_queue_table, work_map, asked, wrongWork>>
              \/ StopBegin \/ Start \/ StartOther
           /\ StopBegin \/ cancelled' = cancelled
           /\ crash # "work"
           /\ crash' = "work" => working = "null"
<1> USE DEF WorkQueued
<1>1. CASE EventThread
  <2>1. CASE Drop
    BY <2>1 DEF Drop
  <2>2. CASE UserScan
    BY <2>2 DEF UserScan
  <2>3. CASE Authen
    BY <2>3 DEF Authen
  <2>4. CASE RxAuth
    BY <2>4 DEF RxAuth
  <2>5. CASE Assciate
    BY <2>5 DEF Assciate
  <2>6. CASE RxAuthFail
    BY <2>6 DEF RxAuthFail, Refused
  <2>7. CASE RxAssocFail
    BY <2>7 DEF RxAssocFail, Refused
  <2>8. CASE RxAssoc
    BY <2>8 DEF RxAssoc
  <2>9. CASE EapTxStatus
    BY <2>9 DEF EapTxStatus
  <2>10. CASE RxDeauth
    BY <2>10 DEF RxDeauth
  <2>11. CASE EvDeauthEnd
    BY <2>11 DEF EvDeauthEnd, DeauthEnd
  <2>12. CASE ConnectFail
    BY <2>12 DEF ConnectFail
  <2>13. CASE StopBegin
    BY <2>13 DEF StopBegin
  <2>14. CASE StopDisable
    BY <2>14 DEF StopDisable
  <2>15. CASE StopEnd
    BY <2>15 DEF StopEnd, DeauthEnd
  <2>16. CASE Start
    BY <2>16 DEF Start
  <2>17. CASE StartOther
    BY <2>17 DEF StartOther
  <2>18. CASE \E e \in {"USER_CONNECT", "START_CONNECT"} : StartConnect(e)
    BY <2>18 DEF StartConnect
  <2>19. CASE \E e \in {"rxM1", "rxM3"} : RxEapol(e)
    BY <2>19 DEF RxEapol
  <2>20. CASE \E found \in BOOLEAN : ScanEnd(found)
    BY <2>20 DEF ScanEnd
  <2>21. QED
    BY <1>1, <2>1, <2>2, <2>3, <2>4, <2>5, <2>6, <2>7, <2>8, <2>9, <2>10, <2>11, <2>12,
     <2>13, <2>14, <2>15, <2>16, <2>17, <2>18, <2>19, <2>20 DEF EventThread
<1>2. CASE TimerTask
  <2>1. CASE FireScan
    BY <2>1 DEF FireScan
  <2>2. CASE TimerScan
    BY <2>2 DEF TimerScan
  <2>3. CASE FireJoin
    BY <2>3 DEF FireJoin
  <2>4. CASE FireAssoc
    BY <2>4 DEF FireAssoc
  <2>5. CASE FireHandshake
    BY <2>5 DEF FireHandshake
  <2>6. CASE FireAuto
    BY <2>6 DEF FireAuto
  <2>7. CASE AutoConnect
    BY <2>7 DEF AutoConnect, DeauthEnd
  <2>8. QED
    BY <1>2, <2>1, <2>2, <2>3, <2>4, <2>5, <2>6, <2>7 DEF TimerTask
<1>3. CASE WorkThread
  <2>1. CASE Take
    BY <2>1 DEF Take
  <2>2. CASE NullWork
    BY <2>2 DEF NullWork
  <2>3. CASE ApScanWork
    BY <2>3 DEF ApScanWork
  <2>4. CASE ScanWork
    BY <2>4 DEF ScanWork
  <2>5. CASE JoinStart
    BY <2>5 DEF JoinStart
  <2>6. CASE JoinDone
    BY <2>6 DEF JoinDone
  <2>7. CASE JoinArm
    BY <2>7 DEF JoinArm
  <2>8. CASE EventWork
    BY <2>8 DEF EventWork
  <2>9. CASE EventWorkEnd
    BY <2>9 DEF EventWorkEnd, DeauthEnd
  <2>10. QED
    BY <1>3, <2>1, <2>2, <2>3, <2>4, <2>5, <2>6, <2>7, <2>8, <2>9 DEF WorkThread
<1>4. CASE Outside
  <2>1. CASE ApAnswer
    BY <2>1 DEF ApAnswer
  <2>2. CASE Silence
    BY <2>2 DEF Silence
  <2>3. CASE ApDeauth
    BY <2>3 DEF ApDeauth
  <2>4. CASE BssLost
    BY <2>4 DEF BssLost
  <2>5. CASE FwScanEnd
    BY <2>5 DEF FwScanEnd
  <2>6. QED
    BY <1>4, <2>1, <2>2, <2>3, <2>4, <2>5 DEF Outside
<1>5. CASE User
  <2>1. CASE \E mode \in Modes : UserConnect(mode)
    BY <2>1 DEF UserConnect, UserActs
  <2>2. CASE \E e \in Acked : UserAsks(e)
    BY <2>2 DEF UserAsks, UserActs
  <2>3. CASE UserDisconnect
    BY <2>3 DEF UserDisconnect, UserActs
  <2>4. CASE UserDisconnected
    BY <2>4 DEF UserDisconnected, DeauthEnd
  <2>5. QED
    BY <1>5, <2>1, <2>2, <2>3, <2>4 DEF User
<1>6. QED
  BY <1>1, <1>2, <1>3, <1>4, <1>5 DEF Next

\* Starting a station, or the other interface, registers functions that are not
\* in the table.
LEMMA StartTable ==
    ASSUME ConnInv, Start
    PROVE  /\ {scan_work', join_work'} \subseteq WorkIds
           /\ work_queue_table[scan_work'] = NoWork /\ work_queue_table[join_work'] = NoWork
           /\ work_queue_table'
                = [work_queue_table EXCEPT ![scan_work'] = "scan", ![join_work'] = "join"]
           /\ scan_work' # join_work'
           /\ work_queue_table' \in [WorkIds -> Works \cup {NoWork}]
           /\ OneEntry(work_queue_table')
<1> DEFINE t == Registered(work_queue_table, "scan")
<1>1. /\ work_queue_table \in [WorkIds -> Works \cup {NoWork}]
      /\ OneEntry(work_queue_table)
      /\ \A id \in WorkIds : work_queue_table[id] \notin {"scan", "join"}
  BY DEF ConnInv, WorkTypeOK, TableOK, Start, Dropped
<1>2. {"scan", "join"} \subseteq Works /\ NoWork \notin Works
  BY ConnectAssumption, WorksAssumption
<1>3. /\ FirstUnused(work_queue_table) \in WorkIds
      /\ work_queue_table[FirstUnused(work_queue_table)] = NoWork
  BY <1>1, <1>2, FreeEntry
<1>4. /\ t = [work_queue_table EXCEPT ![FirstUnused(work_queue_table)] = "scan"]
      /\ t \in [WorkIds -> Works \cup {NoWork}]
      /\ OneEntry(t)
  BY <1>1, <1>2, RegisteredOnce
<1>5. \A id \in WorkIds : t[id] # "join"
  BY <1>1, <1>3, <1>4
<1> HIDE DEF t
<1>6. /\ FirstUnused(t) \in WorkIds
      /\ t[FirstUnused(t)] = NoWork
  BY <1>2, <1>4, <1>5, FreeEntry
<1>7. /\ Registered(t, "join") = [t EXCEPT ![FirstUnused(t)] = "join"]
      /\ Registered(t, "join") \in [WorkIds -> Works \cup {NoWork}]
      /\ OneEntry(Registered(t, "join"))
  BY <1>2, <1>4, <1>5, RegisteredOnce
<1>8. /\ scan_work' = FirstUnused(work_queue_table) /\ join_work' = FirstUnused(t)
      /\ work_queue_table' = Registered(t, "join")
  BY DEF Start, t
<1>9. scan_work' # join_work'
  BY <1>2, <1>3, <1>4, <1>6, <1>8
<1>10. work_queue_table[join_work'] = NoWork
  BY <1>1, <1>3, <1>4, <1>6, <1>8, <1>9
<1>11. work_queue_table'
         = [work_queue_table EXCEPT ![scan_work'] = "scan", ![join_work'] = "join"]
  BY <1>4, <1>7, <1>8
<1>12. QED
  BY <1>3, <1>6, <1>7, <1>8, <1>9, <1>10, <1>11

LEMMA StartOtherTable ==
    ASSUME ConnInv, StartOther
    PROVE  \E free \in WorkIds :
              /\ work_queue_table[free] = NoWork
              /\ work_queue_table' = [work_queue_table EXCEPT ![free] = "apscan"]
              /\ work_queue_table' \in [WorkIds -> Works \cup {NoWork}]
              /\ OneEntry(work_queue_table')
<1>1. /\ work_queue_table \in [WorkIds -> Works \cup {NoWork}]
      /\ OneEntry(work_queue_table)
      /\ \A id \in WorkIds : work_queue_table[id] # "apscan"
  BY DEF ConnInv, WorkTypeOK, TableOK, StartOther, Dropped
<1>2. "apscan" \in Works
  BY ConnectAssumption
<1>3. /\ FirstUnused(work_queue_table) \in WorkIds
      /\ work_queue_table[FirstUnused(work_queue_table)] = NoWork
  BY <1>1, <1>2, FreeEntry
<1>4. LET new == Registered(work_queue_table, "apscan")
      IN  /\ new = [work_queue_table EXCEPT ![FirstUnused(work_queue_table)] = "apscan"]
          /\ new \in [WorkIds -> Works \cup {NoWork}] /\ OneEntry(new)
  BY <1>1, <1>2, RegisteredOnce
<1>5. work_queue_table' = Registered(work_queue_table, "apscan")
  BY DEF StartOther
<1>6. QED
  BY <1>3, <1>4, <1>5

LEMMA WorkTypesKept ==
    ASSUME ConnInv, Next
    PROVE  WorkTypeOK'
<1>1. WorkTypeOK /\ {0, scan_work, join_work} \subseteq WorkIds
  BY WorksAssumption DEF ConnInv, TableOK, WorkIds
<1>2. CASE UNCHANGED workVars
  BY <1>1, <1>2 DEF WorkTypeOK
<1>3. ASSUME NEW id \in {0, scan_work, join_work}, WorkQueued(id)
      PROVE  WorkTypeOK'
  BY <1>1, <1>3 DEF WorkTypeOK, WorkQueued, QueueWork
<1>4. CASE TakeWork
  <2>1. NextWork \in work_map /\ NextWork \in 0 .. MaxWorks - 1
    BY <1>1, <1>4, NextWorkIsSet DEF TakeWork, WorkTypeOK, WorkIds
  <2>2. NextWork + 1 \in 0 .. MaxWorks
    BY <2>1, WorksAssumption
  <2>3. work_id' = NextWork + 1 /\ work_map' = work_map \ {NextWork}
    BY <1>4 DEF TakeWork
  <2>4. work_queue_table[NextWork] \in Works \cup {NoWork}
    BY <1>1, <2>1 DEF WorkTypeOK
  <2>5. /\ working' \in Works \cup {NoWork, "null"}
        /\ wrongWork' \in BOOLEAN
    BY <1>4, <2>4 DEF TakeWork
  <2>6. /\ asked' \in [WorkIds -> Works \cup {NoWork}]
        /\ work_queue_table' \in [WorkIds -> Works \cup {NoWork}]
    BY <1>1, <1>4 DEF TakeWork, WorkTypeOK
  <2>7. QED
    BY <1>1, <2>2, <2>3, <2>5, <2>6 DEF WorkTypeOK
<1>5. CASE WorkReturns /\ UNCHANGED <<work_queue_table, work_map, asked, wrongWork>>
  <2>1. 0 \in 0 .. MaxWorks
    BY WorksAssumption
  <2>2. QED
    BY <1>1, <1>5, <2>1 DEF WorkTypeOK
<1>6. CASE StopBegin
  BY <1>1, <1>6 DEF StopBegin, WorkTypeOK
<1>7. CASE Start
  BY <1>1, <1>7, StartTable DEF Start
<1>8. CASE StartOther
  BY <1>1, <1>8, StartOtherTable DEF StartOther
<1>9. QED
  BY <1>2, <1>3, <1>4, <1>5, <1>6, <1>7, <1>8, WorkSteps

\* A set bit keeps its function as long as no set bit is cancelled.
LEMMA BitsKept ==
    ASSUME ConnInv, Next
    PROVE  BitsOwned'
<1>1. SUFFICES ASSUME ~cancelled'
               PROVE  /\ ~wrongWork' /\ crash' # "work" /\ working' # "null"
                      /\ \A id \in work_map' : /\ asked'[id] = work_queue_table'[id]
                                               /\ work_queue_table'[id] # NoWork
  BY DEF BitsOwned
<1>2. ~cancelled
  <2>1. CASE StopBegin
    BY <1>1, <2>1 DEF StopBegin
  <2>2. CASE cancelled' = cancelled
    BY <1>1, <2>2
  <2>3. QED
    BY <2>1, <2>2, WorkSteps
<1>3. /\ ~wrongWork /\ crash # "work" /\ working # "null"
      /\ \A id \in work_map : /\ asked[id] = work_queue_table[id]
                              /\ work_queue_table[id] # NoWork
  BY <1>2 DEF ConnInv, BitsOwned
<1>4. crash' # "work"
  BY <1>3, WorkSteps
<1>5. /\ WorkTypeOK /\ {0, scan_work, join_work} \subseteq WorkIds
      /\ NoWork # "null" /\ "null" \notin Works
  BY WorksAssumption, ConnectAssumption DEF ConnInv, TableOK, WorkIds
<1>6. CASE UNCHANGED workVars
  BY <1>3, <1>4, <1>6
<1>7. ASSUME NEW id \in {0, scan_work, join_work}, WorkQueued(id)
      PROVE  /\ ~wrongWork' /\ working' # "null"
             /\ \A i \in work_map' : /\ asked'[i] = work_queue_table'[i]
                                     /\ work_queue_table'[i] # NoWork
  BY <1>3, <1>5, <1>7 DEF WorkTypeOK, WorkQueued, QueueWork
<1>8. CASE TakeWork
  <2>1. NextWork \in work_map
    BY <1>5, <1>8, NextWorkIsSet DEF TakeWork, WorkTypeOK
  <2>2. /\ work_queue_table[NextWork] \in Works \cup {NoWork}
        /\ work_queue_table[NextWork] = asked[NextWork]
        /\ work_queue_table[NextWork] # NoWork
    BY <1>3, <1>5, <2>1 DEF WorkTypeOK
  <2>3. working' = work_queue_table[NextWork] /\ ~wrongWork'
    BY <1>3, <1>8, <2>2 DEF TakeWork
  <2>4. \A i \in work_map' : /\ asked'[i] = work_queue_table'[i]
                             /\ work_queue_table'[i] # NoWork
    BY <1>3, <1>5, <1>8 DEF TakeWork
  <2>5. QED
    BY <1>3, <1>4, <1>5, <2>2, <2>3, <2>4
<1>9. CASE WorkReturns /\ UNCHANGED <<work_queue_table, work_map, asked, wrongWork>>
  BY <1>3, <1>4, <1>5, <1>9
<1>10. CASE StopBegin
  <2>1. scan_work \notin work_map /\ join_work \notin work_map
    BY <1>1, <1>10 DEF StopBegin
  <2>2. work_queue_table' = [[work_queue_table EXCEPT ![scan_work] = NoWork]
                                 EXCEPT ![join_work] = NoWork]
        /\ UNCHANGED <<work_map, working, asked, wrongWork>>
    BY <1>10 DEF StopBegin, Cancelled
  <2>3. \A i \in work_map : work_queue_table'[i] = work_queue_table[i]
    BY <1>5, <2>1, <2>2 DEF WorkTypeOK
  <2>4. QED
    BY <1>3, <1>4, <2>2, <2>3
<1>11. CASE Start
  <2>1. UNCHANGED <<work_map, working, asked, wrongWork>>
    BY <1>11 DEF Start
  <2>2. \A i \in work_map : work_queue_table'[i] = work_queue_table[i]
    BY <1>3, <1>5, <1>11, StartTable DEF WorkTypeOK
  <2>3. QED
    BY <1>3, <1>4, <2>1, <2>2
<1>12. CASE StartOther
  <2>1. UNCHANGED <<work_map, working, asked, wrongWork>>
    BY <1>12 DEF StartOther
  <2>2. \A i \in work_map : work_queue_table'[i] = work_queue_table[i]
    BY <1>3, <1>5, <1>12, StartOtherTable DEF WorkTypeOK
  <2>3. QED
    BY <1>3, <1>4, <2>1, <2>2
<1>13. QED
  BY <1>4, <1>6, <1>7, <1>8, <1>9, <1>10, <1>11, <1>12, WorkSteps

-----------------------------------------------------------------------------
(* The works of the station.                                                *)

\* Who changes whether the station runs, and where its works are.
LEMMA StationSteps ==
    ASSUME Next
    PROVE  \/ StopBegin \/ StopDisable \/ StopEnd \/ Start \/ StartOther
           \/ UNCHANGED <<sta, work_queue_table, scan_work, join_work>> /\ Stopping' = Stopping
<1> USE DEF Stopping
<1>1. CASE EventThread
  <2>1. CASE Drop
    BY <2>1 DEF Drop
  <2>2. CASE UserScan
    BY <2>2 DEF UserScan
  <2>3. CASE Authen
    BY <2>3 DEF Authen
  <2>4. CASE RxAuth
    BY <2>4 DEF RxAuth
  <2>5. CASE Assciate
    BY <2>5 DEF Assciate
  <2>6. CASE RxAuthFail
    BY <2>6 DEF RxAuthFail, Refused
  <2>7. CASE RxAssocFail
    BY <2>7 DEF RxAssocFail, Refused
  <2>8. CASE RxAssoc
    BY <2>8 DEF RxAssoc
  <2>9. CASE EapTxStatus
    BY <2>9 DEF EapTxStatus
  <2>10. CASE RxDeauth
    BY <2>10 DEF RxDeauth
  <2>11. CASE EvDeauthEnd
    BY <2>11 DEF EvDeauthEnd
  <2>12. CASE ConnectFail
    BY <2>12 DEF ConnectFail
  <2>13. CASE StopBegin
    BY <2>13 DEF StopBegin
  <2>14. CASE StopDisable
    BY <2>14 DEF StopDisable
  <2>15. CASE StopEnd
    BY <2>15 DEF StopEnd
  <2>16. CASE Start
    BY <2>16 DEF Start
  <2>17. CASE StartOther
    BY <2>17 DEF StartOther
  <2>18. CASE \E e \in {"USER_CONNECT", "START_CONNECT"} : StartConnect(e)
    BY <2>18 DEF StartConnect
  <2>19. CASE \E e \in {"rxM1", "rxM3"} : RxEapol(e)
    BY <2>19 DEF RxEapol
  <2>20. CASE \E found \in BOOLEAN : ScanEnd(found)
    BY <2>20 DEF ScanEnd
  <2>21. QED
    BY <1>1, <2>1, <2>2, <2>3, <2>4, <2>5, <2>6, <2>7, <2>8, <2>9, <2>10, <2>11, <2>12,
     <2>13, <2>14, <2>15, <2>16, <2>17, <2>18, <2>19, <2>20 DEF EventThread
<1>2. CASE TimerTask
  <2>1. CASE FireScan
    BY <2>1 DEF FireScan
  <2>2. CASE TimerScan
    BY <2>2 DEF TimerScan
  <2>3. CASE FireJoin
    BY <2>3 DEF FireJoin
  <2>4. CASE FireAssoc
    BY <2>4 DEF FireAssoc
  <2>5. CASE FireHandshake
    BY <2>5 DEF FireHandshake
  <2>6. CASE FireAuto
    BY <2>6 DEF FireAuto
  <2>7. CASE AutoConnect
    BY <2>7 DEF AutoConnect
  <2>8. QED
    BY <1>2, <2>1, <2>2, <2>3, <2>4, <2>5, <2>6, <2>7 DEF TimerTask
<1>3. CASE WorkThread
  <2>1. CASE Take
    BY <2>1 DEF Take, TakeWork
  <2>2. CASE NullWork
    BY <2>2 DEF NullWork
  <2>3. CASE ApScanWork
    BY <2>3 DEF ApScanWork
  <2>4. CASE ScanWork
    BY <2>4 DEF ScanWork
  <2>5. CASE JoinStart
    BY <2>5 DEF JoinStart
  <2>6. CASE JoinDone
    BY <2>6 DEF JoinDone
  <2>7. CASE JoinArm
    BY <2>7 DEF JoinArm
  <2>8. CASE EventWork
    BY <2>8 DEF EventWork
  <2>9. CASE EventWorkEnd
    BY <2>9 DEF EventWorkEnd
  <2>10. QED
    BY <1>3, <2>1, <2>2, <2>3, <2>4, <2>5, <2>6, <2>7, <2>8, <2>9 DEF WorkThread
<1>4. CASE Outside
  <2>1. CASE ApAnswer
    BY <2>1 DEF ApAnswer
  <2>2. CASE Silence
    BY <2>2 DEF Silence
  <2>3. CASE ApDeauth
    BY <2>3 DEF ApDeauth
  <2>4. CASE BssLost
    BY <2>4 DEF BssLost
  <2>5. CASE FwScanEnd
    BY <2>5 DEF FwScanEnd
  <2>6. QED
    BY <1>4, <2>1, <2>2, <2>3, <2>4, <2>5 DEF Outside
<1>5. CASE User
  <2>1. CASE \E mode \in Modes : UserConnect(mode)
    BY <2>1 DEF UserConnect
  <2>2. CASE \E e \in Acked : UserAsks(e)
    BY <2>2 DEF UserAsks
  <2>3. CASE UserDisconnect
    BY <2>3 DEF UserDisconnect
  <2>4. CASE UserDisconnected
    BY <2>4 DEF UserDisconnected
  <2>5. QED
    BY <1>5, <2>1, <2>2, <2>3, <2>4 DEF User
<1>6. QED
  BY <1>1, <1>2, <1>3, <1>4, <1>5 DEF Next

LEMMA TableKept ==
    ASSUME ConnInv, Next
    PROVE  TableOK'
<1>1. /\ WorkTypeOK /\ TableOK
      /\ NoWork \notin Works /\ {"scan", "join"} \subseteq Works
  BY WorksAssumption, ConnectAssumption DEF ConnInv
<1>2. CASE UNCHANGED <<sta, work_queue_table, scan_work, join_work>> /\ Stopping' = Stopping
  BY <1>1, <1>2 DEF TableOK
<1>3. CASE StopBegin
  <2>1. sta /\ ~Stopping /\ evpc' = "flush" /\ UNCHANGED <<sta, scan_work, join_work>>
    BY <1>3 DEF StopBegin, Dropped, Stopping
  <2>2. /\ work_queue_table[scan_work] = "scan" /\ work_queue_table[join_work] = "join"
        /\ {scan_work, join_work} \subseteq WorkIds
    BY <1>1, <2>1 DEF TableOK
  <2>3. work_queue_table' = [[work_queue_table EXCEPT ![scan_work] = NoWork]
                                 EXCEPT ![join_work] = NoWork]
    BY <1>3 DEF StopBegin, Cancelled
  <2>4. \A id \in WorkIds : \/ work_queue_table'[id] = NoWork
                            \/ /\ work_queue_table'[id] = work_queue_table[id]
                               /\ id # scan_work /\ id # join_work
    BY <1>1, <2>2, <2>3 DEF WorkTypeOK
  <2>5. OneEntry(work_queue_table')
    BY <1>1, <2>4 DEF TableOK, OneEntry
  <2>6. \A id \in WorkIds : work_queue_table'[id] \notin {"scan", "join"}
    BY <1>1, <2>2, <2>4 DEF TableOK, OneEntry
  <2>7. QED
    BY <2>1, <2>2, <2>5, <2>6 DEF TableOK, Stopping
<1>4. CASE StopDisable
  <2>1. Stopping /\ Stopping' /\ UNCHANGED <<sta, work_queue_table, scan_work, join_work>>
    BY <1>4 DEF StopDisable, Stopping
  <2>2. QED
    BY <1>1, <2>1 DEF TableOK
<1>5. CASE StopEnd
  <2>1. Stopping /\ ~sta' /\ UNCHANGED <<work_queue_table, scan_work, join_work>>
    BY <1>5 DEF StopEnd, Stopping
  <2>2. QED
    BY <1>1, <2>1 DEF TableOK
<1>6. CASE Start
  <2>1. sta' /\ ~Stopping'
    BY <1>6 DEF Start, Stopping
  <2>2. /\ {scan_work', join_work'} \subseteq WorkIds /\ scan_work' # join_work'
        /\ work_queue_table'
             = [work_queue_table EXCEPT ![scan_work'] = "scan", ![join_work'] = "join"]
        /\ OneEntry(work_queue_table')
    BY <1>6, StartTable
  <2>3. work_queue_table'[scan_work'] = "scan" /\ work_queue_table'[join_work'] = "join"
    BY <1>1, <2>2 DEF WorkTypeOK
  <2>4. QED
    BY <2>1, <2>2, <2>3 DEF TableOK
<1>7. CASE StartOther
  <2>1. UNCHANGED <<sta, scan_work, join_work>> /\ Stopping' = Stopping
    BY <1>7 DEF StartOther, Stopping
  <2>2. PICK free \in WorkIds :
           /\ work_queue_table[free] = NoWork
           /\ work_queue_table' = [work_queue_table EXCEPT ![free] = "apscan"]
           /\ OneEntry(work_queue_table')
    BY <1>7, StartOtherTable
  <2>3. \A id \in WorkIds : \/ work_queue_table'[id] = work_queue_table[id] /\ id # free
                            \/ id = free /\ work_queue_table'[id] = "apscan"
    BY <1>1, <2>2 DEF WorkTypeOK
  <2>4. scan_work \in WorkIds /\ join_work \in WorkIds
    BY <1>1 DEF TableOK
  <2>5. sta' /\ ~Stopping' => /\ work_queue_table'[scan_work'] = "scan"
                              /\ work_queue_table'[join_work'] = "join"
    BY <1>1, <2>1, <2>2, <2>3, <2>4 DEF TableOK
  <2>6. ~sta' \/ Stopping' => \A id \in WorkIds : work_queue_table'[id] \notin {"scan", "join"}
    BY <1>1, <2>1, <2>3 DEF TableOK
  <2>7. QED
    BY <2>1, <2>2, <2>4, <2>5, <2>6 DEF TableOK
<1>8. QED
  BY <1>2, <1>3, <1>4, <1>5, <1>6, <1>7, StationSteps

-----------------------------------------------------------------------------
(* Timers and the stop of a station.                                        *)

\* Until an answer comes late, no timer of an earlier stage outlives it.
LEMMA AttemptKept ==
    ASSUME ConnInv, Next
    PROVE  AttemptTimers'
<1>1. /\ DataOK /\ AttemptTimers
      /\ AtLeast("ASSOCIATED") <=> wpa_state \in {"ASSOCIATED", "4WAY_HANDSHAKE", "COMPLETED"}
      /\ AtLeast("4WAY_HANDSHAKE") <=> wpa_state \in {"4WAY_HANDSHAKE", "COMPLETED"}
  BY FromAssociated DEF ConnInv
<1> USE <1>1 DEF DataOK, AttemptTimers, Timers
<1>2. CASE EventThread
  <2>1. CASE Drop
    BY <2>1 DEF Drop
  <2>2. CASE UserScan
    BY <2>2 DEF UserScan
  <2>3. CASE Authen
    <3>1. timer["assoc"] \in Nat /\ timer["handshake"] \in Nat
      OBVIOUS
    <3>2. ~raced' => ~raced /\ timer["handshake"] = 0
      <4>1. CASE timer["handshake"] = 0
        BY <2>3, <4>1 DEF Authen
      <4>2. CASE timer["handshake"] # 0
        <5>1. timer["assoc"] + timer["handshake"] > 0
          BY <3>1, <4>2
        <5>2. QED
          BY <2>3, <5>1 DEF Authen
      <4>3. QED
        BY <4>1, <4>2
    <3>3. wpa_state' = "AUTHENTICATING" /\ timer' = [timer EXCEPT !["assoc"] = 1]
      BY <2>3 DEF Authen
    <3>4. QED
      BY <3>2, <3>3
  <2>4. CASE RxAuth
    BY <2>4 DEF RxAuth
  <2>5. CASE Assciate
    <3>1. wpa_state = "AUTHENTICATING" /\ UNCHANGED <<timer, raced>>
      BY <2>5 DEF Assciate, Dropped
    <3>2. wpa_state' \in {wpa_state, "ASSOCIATING"}
      BY <2>5 DEF Assciate
    <3>3. QED
      BY <3>1, <3>2
  <2>6. CASE RxAuthFail
    BY <2>6 DEF RxAuthFail, Refused, WpaDeauthen
  <2>7. CASE RxAssocFail
    BY <2>7 DEF RxAssocFail, Refused, WpaDeauthen
  <2>8. CASE RxAssoc
    <3>1. CASE UNCHANGED <<timer, wpa_state, raced>>
      BY <3>1
    <3>2. CASE ~sta /\ timer' = Set("join", 0) /\ UNCHANGED wpa_state
                /\ raced' = (raced \/ wpa_state # "ASSOCIATING")
      BY <3>2
    <3>3. CASE timer' = Associated(1) /\ wpa_state' = "ASSOCIATED"
                /\ raced' = (raced \/ wpa_state # "ASSOCIATING")
      BY <3>3 DEF Associated
    <3>4. CASE timer' = Associated(0) /\ wpa_state' = "COMPLETED"
                /\ raced' = (raced \/ wpa_state # "ASSOCIATING")
      BY <3>4 DEF Associated
    <3>5. QED
      BY <2>8, <3>1, <3>2, <3>3, <3>4 DEF RxAssoc
  <2>9. CASE EapTxStatus
    BY <2>9 DEF EapTxStatus
  <2>10. CASE RxDeauth
    BY <2>10 DEF RxDeauth
  <2>11. CASE EvDeauthEnd
    BY <2>11 DEF EvDeauthEnd, DeauthEnd
  <2>12. CASE ConnectFail
    BY <2>12 DEF ConnectFail
  <2>13. CASE StopBegin
    BY <2>13 DEF StopBegin, StopTimers
  <2>14. CASE StopDisable
    BY <2>14 DEF StopDisable
  <2>15. CASE StopEnd
    BY <2>15 DEF StopEnd, DeauthEnd
  <2>16. CASE Start
    BY <2>16 DEF Start
  <2>17. CASE StartOther
    BY <2>17 DEF StartOther
  <2>18. CASE \E e \in {"USER_CONNECT", "START_CONNECT"} : StartConnect(e)
    BY <2>18 DEF StartConnect
  <2>19. CASE \E e \in {"rxM1", "rxM3"} : RxEapol(e)
    <3>1. PICK e \in {"rxM1", "rxM3"} : RxEapol(e)
      BY <2>19
    <3>2. UNCHANGED raced
      BY <3>1 DEF RxEapol
    <3>3. CASE ~appdata
      BY <3>1, <3>2, <3>3 DEF RxEapol
    <3>4. CASE appdata
      <4>1. wpa_state \in {"ASSOCIATED", "4WAY_HANDSHAKE", "COMPLETED"}
        BY <3>1, <3>4 DEF RxEapol, Dropped
      <4>2. timer'["join"] = timer["join"] /\ timer'["assoc"] = 0
        BY <3>1, <3>4 DEF RxEapol, EapolTimers
      <4>3. \/ wpa_state' = "4WAY_HANDSHAKE"
            \/ wpa_state' = "COMPLETED" /\ timer'["handshake"] = 0
            \/ wpa_state' = wpa_state /\ wpa_state = "ASSOCIATED"
        BY <3>1, <3>4, <4>1 DEF RxEapol, EapolTimers
      <4>4. QED
        BY <3>2, <4>1, <4>2, <4>3
    <3>5. QED
      BY <3>3, <3>4
  <2>20. CASE \E found \in BOOLEAN : ScanEnd(found)
    BY <2>20 DEF ScanEnd
  <2>21. QED
    BY <1>2, <2>1, <2>2, <2>3, <2>4, <2>5, <2>6, <2>7, <2>8, <2>9, <2>10, <2>11, <2>12,
     <2>13, <2>14, <2>15, <2>16, <2>17, <2>18, <2>19, <2>20 DEF EventThread
<1>3. CASE TimerTask
  <2>1. CASE FireScan
    BY <2>1 DEF FireScan
  <2>2. CASE TimerScan
    BY <2>2 DEF TimerScan
  <2>3. CASE FireJoin
    BY <2>3 DEF FireJoin
  <2>4. CASE FireAssoc
    BY <2>4 DEF FireAssoc, WpaDeauthen
  <2>5. CASE FireHandshake
    BY <2>5 DEF FireHandshake, WpaDeauthen
  <2>6. CASE FireAuto
    BY <2>6 DEF FireAuto
  <2>7. CASE AutoConnect
    BY <2>7 DEF AutoConnect, DeauthEnd
  <2>8. QED
    BY <1>3, <2>1, <2>2, <2>3, <2>4, <2>5, <2>6, <2>7 DEF TimerTask
<1>4. CASE WorkThread
  <2>1. CASE Take
    BY <2>1 DEF Take
  <2>2. CASE NullWork
    BY <2>2 DEF NullWork
  <2>3. CASE ApScanWork
    BY <2>3 DEF ApScanWork
  <2>4. CASE ScanWork
    BY <2>4 DEF ScanWork
  <2>5. CASE JoinStart
    BY <2>5 DEF JoinStart
  <2>6. CASE JoinDone
    BY <2>6 DEF JoinDone
  <2>7. CASE JoinArm
    BY <2>7 DEF JoinArm
  <2>8. CASE EventWork
    BY <2>8 DEF EventWork
  <2>9. CASE EventWorkEnd
    BY <2>9 DEF EventWorkEnd, DeauthEnd
  <2>10. QED
    BY <1>4, <2>1, <2>2, <2>3, <2>4, <2>5, <2>6, <2>7, <2>8, <2>9 DEF WorkThread
<1>5. CASE Outside
  <2>1. CASE ApAnswer
    BY <2>1 DEF ApAnswer
  <2>2. CASE Silence
    BY <2>2 DEF Silence
  <2>3. CASE ApDeauth
    BY <2>3 DEF ApDeauth
  <2>4. CASE BssLost
    BY <2>4 DEF BssLost
  <2>5. CASE FwScanEnd
    BY <2>5 DEF FwScanEnd
  <2>6. QED
    BY <1>5, <2>1, <2>2, <2>3, <2>4, <2>5 DEF Outside
<1>6. CASE User
  <2>1. CASE \E mode \in Modes : UserConnect(mode)
    BY <2>1 DEF UserConnect
  <2>2. CASE \E e \in Acked : UserAsks(e)
    BY <2>2 DEF UserAsks
  <2>3. CASE UserDisconnect
    BY <2>3 DEF UserDisconnect
  <2>4. CASE UserDisconnected
    BY <2>4 DEF UserDisconnected, DeauthEnd
  <2>5. QED
    BY <1>6, <2>1, <2>2, <2>3, <2>4 DEF User
<1>7. QED
  BY <1>2, <1>3, <1>4, <1>5, <1>6 DEF Next

\* A stop takes everything away, unless a join is under way.
LEMMA StopKept ==
    ASSUME ConnInv, Next
    PROVE  StopStages'
<1>1. /\ DataOK /\ StopStages
      /\ ~sta \/ Stopping => \A id \in WorkIds : work_queue_table[id] # "join"
      /\ NoWork # "join"
  BY WorksAssumption, ConnectAssumption DEF ConnInv, TableOK
<1> USE <1>1 DEF DataOK, StopStages, Stopping, Timers
<1>2. CASE EventThread
  <2>1. CASE Drop
    BY <2>1 DEF Drop
  <2>2. CASE UserScan
    BY <2>2 DEF UserScan
  <2>3. CASE Authen
    BY <2>3 DEF Authen, Dropped
  <2>4. CASE RxAuth
    BY <2>4 DEF RxAuth
  <2>5. CASE Assciate
    BY <2>5 DEF Assciate
  <2>6. CASE RxAuthFail
    BY <2>6 DEF RxAuthFail, Refused, DeauthenTimers
  <2>7. CASE RxAssocFail
    BY <2>7 DEF RxAssocFail, Refused, DeauthenTimers
  <2>8. CASE RxAssoc
    <3>1. UNCHANGED <<sta, enabled, appdata, evpc, working, fwJoined, join_status>>
      BY <2>8 DEF RxAssoc
    <3>2. raced => raced'
      BY <2>8 DEF RxAssoc
    <3>3. timer'["scan"] = timer["scan"] /\ timer'["join"] \in {0, timer["join"]}
      BY <2>8 DEF RxAssoc, Associated
    <3>4. ~sta => timer'["assoc"] = timer["assoc"] /\ timer'["handshake"] = timer["handshake"]
      BY <2>8 DEF RxAssoc
    <3>5. QED
      BY <3>1, <3>2, <3>3, <3>4
  <2>9. CASE EapTxStatus
    BY <2>9 DEF EapTxStatus
  <2>10. CASE RxDeauth
    BY <2>10 DEF RxDeauth, DeauthBegin
  <2>11. CASE EvDeauthEnd
    BY <2>11 DEF EvDeauthEnd, DeauthEnd, DeauthenTimers
  <2>12. CASE ConnectFail
    BY <2>12 DEF ConnectFail
  <2>13. CASE StopBegin
    BY <2>13 DEF StopBegin, StopTimers
  <2>14. CASE StopDisable
    BY <2>14 DEF StopDisable, DeauthBegin
  <2>15. CASE StopEnd
    BY <2>15 DEF StopEnd, DeauthEnd, DeauthenTimers
  <2>16. CASE Start
    BY <2>16 DEF Start
  <2>17. CASE StartOther
    BY <2>17 DEF StartOther
  <2>18. CASE \E e \in {"USER_CONNECT", "START_CONNECT"} : StartConnect(e)
    <3>1. sta /\ ~Stopping
      BY <2>18 DEF StartConnect, Dropped
    <3>2. UNCHANGED <<sta, enabled, appdata, evpc>>
      BY <2>18 DEF StartConnect
    <3>3. QED
      BY <3>1, <3>2
  <2>19. CASE \E e \in {"rxM1", "rxM3"} : RxEapol(e)
    BY <2>19 DEF RxEapol
  <2>20. CASE \E found \in BOOLEAN : ScanEnd(found)
    BY <2>20 DEF ScanEnd
  <2>21. QED
    BY <1>2, <2>1, <2>2, <2>3, <2>4, <2>5, <2>6, <2>7, <2>8, <2>9, <2>10, <2>11, <2>12,
     <2>13, <2>14, <2>15, <2>16, <2>17, <2>18, <2>19, <2>20 DEF EventThread
<1>3. CASE TimerTask
  <2>1. CASE FireScan
    BY <2>1 DEF FireScan
  <2>2. CASE TimerScan
    BY <2>2 DEF TimerScan
  <2>3. CASE FireJoin
    BY <2>3 DEF FireJoin
  <2>4. CASE FireAssoc
    BY <2>4 DEF FireAssoc, DeauthenTimers
  <2>5. CASE FireHandshake
    BY <2>5 DEF FireHandshake, DeauthenTimers
  <2>6. CASE FireAuto
    BY <2>6 DEF FireAuto
  <2>7. CASE AutoConnect
    BY <2>7 DEF AutoConnect, DeauthEnd, DeauthenTimers
  <2>8. QED
    BY <1>3, <2>1, <2>2, <2>3, <2>4, <2>5, <2>6, <2>7 DEF TimerTask
<1>4. CASE WorkThread
  <2>1. CASE Take
    <3>1. NextWork \in WorkIds
      BY <2>1, NextWorkIsSet DEF ConnInv, Take, TakeWork, WorkTypeOK
    <3>2. working' \in {"null", work_queue_table[NextWork]}
      BY <2>1 DEF Take, TakeWork
    <3>3. QED
      BY <2>1, <3>1, <3>2 DEF Take
  <2>2. CASE NullWork
    BY <2>2 DEF NullWork
  <2>3. CASE ApScanWork
    BY <2>3 DEF ApScanWork
  <2>4. CASE ScanWork
    BY <2>4 DEF ScanWork
  <2>5. CASE JoinStart
    BY <2>5 DEF JoinStart
  <2>6. CASE JoinDone
    BY <2>6 DEF JoinDone
  <2>7. CASE JoinArm
    BY <2>7 DEF JoinArm
  <2>8. CASE EventWork
    BY <2>8 DEF EventWork, DeauthBegin
  <2>9. CASE EventWorkEnd
    BY <2>9 DEF EventWorkEnd, DeauthEnd, DeauthenTimers
  <2>10. QED
    BY <1>4, <2>1, <2>2, <2>3, <2>4, <2>5, <2>6, <2>7, <2>8, <2>9 DEF WorkThread
<1>5. CASE Outside
  <2>1. CASE ApAnswer
    BY <2>1 DEF ApAnswer
  <2>2. CASE Silence
    BY <2>2 DEF Silence
  <2>3. CASE ApDeauth
    BY <2>3 DEF ApDeauth
  <2>4. CASE BssLost
    BY <2>4 DEF BssLost
  <2>5. CASE FwScanEnd
    BY <2>5 DEF FwScanEnd
  <2>6. QED
    BY <1>5, <2>1, <2>2, <2>3, <2>4, <2>5 DEF Outside
<1>6. CASE User
  <2>1. CASE \E mode \in Modes : UserConnect(mode)
    BY <2>1 DEF UserConnect
  <2>2. CASE \E e \in Acked : UserAsks(e)
    BY <2>2 DEF UserAsks
  <2>3. CASE UserDisconnect
    BY <2>3 DEF UserDisconnect
  <2>4. CASE UserDisconnected
    BY <2>4 DEF UserDisconnected, DeauthEnd, DeauthenTimers
  <2>5. QED
    BY <1>6, <2>1, <2>2, <2>3, <2>4 DEF User
<1>7. QED
  BY <1>2, <1>3, <1>4, <1>5, <1>6 DEF Next

-----------------------------------------------------------------------------
(* The theorems.                                                            *)

LEMMA InitConn == Init => ConnInv
<1> SUFFICES ASSUME Init PROVE ConnInv
  OBVIOUS
<1>1. /\ Works = {"event", "scan", "join", "apscan"} /\ NoWork \notin Works \cup {"null"}
      /\ {0, 1, 2} \subseteq WorkIds
  <2>1. IsFiniteSet({"event", "scan", "join"}) /\ Cardinality({"event", "scan", "join"}) = 3
    <3>1. IsFiniteSet({"event"}) /\ Cardinality({"event"}) = 1
      BY FS_Singleton
    <3>2. IsFiniteSet({"event"} \cup {"scan"}) /\ Cardinality({"event"} \cup {"scan"}) = 2
      BY <3>1, FS_AddElement
    <3>3. /\ IsFiniteSet(({"event"} \cup {"scan"}) \cup {"join"})
          /\ Cardinality(({"event"} \cup {"scan"}) \cup {"join"}) = 3
      BY <3>2, FS_AddElement
    <3>4. {"event", "scan", "join"} = ({"event"} \cup {"scan"}) \cup {"join"}
      OBVIOUS
    <3>5. QED
      BY <3>3, <3>4
  <2>2. IsFiniteSet(Works) /\ Cardinality(Works) \in Nat
    BY FiniteWorks
  <2>3. Cardinality({"event", "scan", "join"}) =< Cardinality(Works)
    BY <2>2, FS_Subset, ConnectAssumption
  <2>4. MaxWorks \in Nat /\ MaxWorks >= 3
    BY <2>1, <2>2, <2>3, ConnectAssumption, WorksAssumption
  <2>5. QED
    BY <2>4, ConnectAssumption, WorksAssumption DEF WorkIds
<1>2. WorkTypeOK /\ TableOK
  <2>1. /\ work_queue_table = [id \in WorkIds |->
              IF id = 0 THEN "event" ELSE IF id = 1 THEN "scan" ELSE IF id = 2 THEN "join"
              ELSE NoWork]
        /\ work_map = {} /\ work_id = 0 /\ working = NoWork
        /\ asked = [id \in WorkIds |-> NoWork] /\ wrongWork = FALSE
        /\ scan_work = 1 /\ join_work = 2 /\ sta /\ ~Stopping
    BY DEF Init, WorkInit, Stopping
  <2>2. 0 \in 0 .. MaxWorks
    BY WorksAssumption
  <2>3. WorkTypeOK
    BY <1>1, <2>1, <2>2 DEF WorkTypeOK
  <2>4. OneEntry(work_queue_table)
    BY <1>1, <2>1 DEF OneEntry
  <2>5. QED
    BY <1>1, <2>1, <2>3, <2>4 DEF TableOK
<1>3. FlagsOK
  BY DEF Init, FlagsOK
<1>4. DataOK
  BY ConnectAssumption DEF Init, DataOK, SomeState
<1>5. BitsOwned /\ AttemptTimers /\ StopStages
  BY <1>1 DEF Init, WorkInit, BitsOwned, AttemptTimers
<1>6. QueueOK
  BY DEF Init, QueueOK
<1>7. QED
  BY <1>2, <1>3, <1>4, <1>5, <1>6 DEF ConnInv

LEMMA NextConn == ConnInv /\ [Next]_vars => ConnInv'
<1> SUFFICES ASSUME ConnInv, [Next]_vars PROVE ConnInv'
  OBVIOUS
<1>1. CASE Next
  BY <1>1, FlagsKept, DataKept, QueueKept, WorkTypesKept, TableKept, BitsKept, AttemptKept, StopKept
  DEF ConnInv
<1>2. CASE UNCHANGED vars
  <2>1. WorkTypeOK'
    BY <1>2 DEF ConnInv, vars, WorkTypeOK
  <2>2. FlagsOK' /\ DataOK' /\ QueueOK'
    BY <1>2 DEF ConnInv, vars, FlagsOK, DataOK, QueueOK
  <2>3. TableOK' /\ BitsOwned'
    BY <1>2 DEF ConnInv, vars, TableOK, BitsOwned, Stopping
  <2>4. AttemptTimers' /\ StopStages'
    BY <1>2 DEF ConnInv, vars, AttemptTimers, StopStages, Stopping
  <2>5. QED
    BY <2>1, <2>2, <2>3, <2>4 DEF ConnInv
<1>3. QED
  BY <1>1, <1>2

\* The inductive invariant.
THEOREM ConnectCorrect == Spec => []ConnInv
BY InitConn, NextConn, PTL DEF Spec

\* Every variable keeps its type: in particular a station always finds a place
\* for its works in the table (atbm_init_work never returns an invalid index).
THEOREM TypeCorrect == Spec => []TypeOK
<1>1. ConnInv => TypeOK
  BY StateNames DEF ConnInv, TypeOK, FlagsOK, DataOK, QueueOK, TableOK
<1>2. QED
  BY <1>1, ConnectCorrect, PTL

\* The work thread runs the function that was queued, and calls no null
\* pointer, unless a work was cancelled with its bit set (OwnWork).
THEOREM WorkIsOwn == Spec => []OwnWork
<1>1. ConnInv => OwnWork
  BY DEF ConnInv, BitsOwned, OwnWork
<1>2. QED
  BY <1>1, ConnectCorrect, PTL

\* A connection that stands has no timer of its own making against it, unless
\* an answer came late (Calm).
THEOREM ConnectionIsCalm == Spec => []Calm
<1>1. ConnInv => Calm
  BY DEF ConnInv, AttemptTimers, Calm
<1>2. QED
  BY <1>1, ConnectCorrect, PTL

\* A stopped station leaves no timer armed and the firmware not joined, unless
\* it was stopped in the middle of a join (StopQuiet).
THEOREM StopLeavesNothing == Spec => []StopQuiet
<1>1. ConnInv => StopQuiet
  BY DEF ConnInv, StopStages, StopQuiet, Timers
<1>2. QED
  BY <1>1, ConnectCorrect, PTL

-----------------------------------------------------------------------------
(* The way back: the inductive invariant of WayBack.                        *)

Holds(q, E) == \E k \in 1 .. Len(q) : q[k] \in E

\* What leads on by itself: events, works, timers and threads that, once used
\* up, leave another of them, a connection, or a cause in lost.
Again == {"USER_CONNECT", "START_CONNECT", "CONNECT_FAIL"}
Leaders == Again \cup {"SCAN_FOUND", "SCAN_NONE", "DEINIT"}

ScanAhead ==
    /\ ~in_progress
    /\ tpc = "scan" \/ working = "scan" \/ scan_work \in work_map
Leads ==
    \/ Stopping \/ fwScan \/ ScanAhead
    \/ timer["scan"] > 0 \/ timer["join"] > 0 \/ timer["assoc"] > 0 \/ timer["auto"] > 0
    \/ Holds(evq, Leaders)
    \/ working = "join" \/ join_work \in work_map
    \/ evpc = "deauth" \/ tpc = "deauth" \/ wpc = "deauth" \/ upc = "deauth"

\* A handshake leads on only while the station is in it and what comes next is
\* not dropped for its state.
Associated3 == {"ASSOCIATED", "4WAY_HANDSHAKE", "COMPLETED"}
Handshaking ==
    /\ config = "wpa" /\ wpa_state \in Associated3
    /\ \/ owed \in {"m1", "m3"}
       \/ wpa_state = "COMPLETED" /\ (owed = "confirm" \/ Holds(evq, {"EAP_TX_STATUS"}))

\* A deauthentication leads on, since an associated station takes it.
SentAway == assoc_ok /\ Holds(evq, {"rxDeauth"})

WayOn ==
    sta /\ wanted /\ ~connect_ok /\ crash = "no" /\ lost = {} =>
        Leads \/ Handshaking \/ SentAway

\* Whoever wants a connection starts over when it breaks: auto_connect is off
\* only from the reconnection's timer to the event that it posts.
AutoOn ==
    sta /\ ~Stopping /\ wanted /\ ~auto_connect =>
        tpc = "deauth" \/ Holds(evq, {"START_CONNECT"})

\* A state above ASSOCIATED without assoc_ok is about to be left.
AssocOK == wpa_state \in Associated3 /\ ~assoc_ok => Holds(evq, {"START_CONNECT"})

\* The first message of the handshake is queued once, and not after the second.
M1Once(q) == \A i, j \in 1 .. Len(q) : q[i] = "rxM1" /\ q[j] = "rxM1" => i = j
OneM1 ==
    /\ M1Once(evq)
    /\ owed \in {"m3", "confirm"} => ~Holds(evq, {"rxM1"})

\* The work thread is between two steps of a join or an event only in that
\* work; a station that is off wants nothing; the timer guards what waits for
\* the access point.
WorkStages ==
    /\ wpc \in {"joined", "arm"} => working = "join"
    /\ wpc = "deauth" => working = "event"
OffWants ==
    /\ ~sta => ~wanted /\ wpa_state = "DISCONNECTED"
    /\ sta /\ evpc # "stop" => enabled
Guarded == wpa_state \in {"AUTHENTICATING", "ASSOCIATING"} => timer["assoc"] > 0

WayInv ==
    /\ WorkStages /\ OffWants /\ Guarded
    /\ AssocOK /\ AutoOn /\ OneM1
    /\ WayOn

-----------------------------------------------------------------------------
(* What a queue holds.                                                      *)

USE DEF Stopping

\* The tail of a queue holds what the queue does, but for its head.
LEMMA TailHolds ==
    ASSUME NEW q \in Seq(Events), q # <<>>, NEW E
    PROVE  /\ Holds(q, E) /\ Head(q) \notin E => Holds(Tail(q), E)
           /\ Holds(Tail(q), E) => Holds(q, E)
<1>1. Len(q) \in Nat /\ Len(q) > 0 /\ Len(Tail(q)) = Len(q) - 1 /\ Head(q) = q[1]
  OBVIOUS
<1>2. \A k \in 1 .. Len(Tail(q)) : Tail(q)[k] = q[k + 1] /\ k + 1 \in 1 .. Len(q)
  BY <1>1
<1>3. ASSUME Holds(q, E), Head(q) \notin E PROVE Holds(Tail(q), E)
  <2>1. PICK k \in 1 .. Len(q) : q[k] \in E
    BY <1>3 DEF Holds
  <2>2. k - 1 \in 1 .. Len(Tail(q)) /\ (k - 1) + 1 = k
    BY <1>1, <1>3, <2>1
  <2>3. Tail(q)[k - 1] \in E
    BY <1>2, <2>1, <2>2
  <2>4. QED
    BY <2>2, <2>3 DEF Holds
<1>4. ASSUME Holds(Tail(q), E) PROVE Holds(q, E)
  <2>1. PICK k \in 1 .. Len(Tail(q)) : Tail(q)[k] \in E
    BY <1>4 DEF Holds
  <2>2. QED
    BY <1>2, <2>1 DEF Holds
<1>5. QED
  BY <1>3, <1>4

\* Two queues in a row hold what either does.
LEMMA CatHolds ==
    ASSUME NEW q \in Seq(Events), NEW p \in Seq(Events), NEW E
    PROVE  Holds(q \o p, E) <=> Holds(q, E) \/ Holds(p, E)
<1>1. Len(q) \in Nat /\ Len(p) \in Nat /\ Len(q \o p) = Len(q) + Len(p)
  OBVIOUS
<1>2. \A k \in 1 .. Len(q \o p) :
         (q \o p)[k] = IF k =< Len(q) THEN q[k] ELSE p[k - Len(q)]
  BY <1>1
<1>3. ASSUME Holds(q \o p, E) PROVE Holds(q, E) \/ Holds(p, E)
  <2>1. PICK k \in 1 .. Len(q \o p) : (q \o p)[k] \in E
    BY <1>3 DEF Holds
  <2>2. CASE k =< Len(q)
    <3>1. k \in 1 .. Len(q) /\ q[k] \in E
      BY <1>1, <1>2, <2>1, <2>2
    <3>2. QED
      BY <3>1 DEF Holds
  <2>3. CASE ~ (k =< Len(q))
    <3>1. k - Len(q) \in 1 .. Len(p) /\ p[k - Len(q)] \in E
      BY <1>1, <1>2, <2>1, <2>3
    <3>2. QED
      BY <3>1 DEF Holds
  <2>4. QED
    BY <2>2, <2>3
<1>4. ASSUME Holds(q, E) PROVE Holds(q \o p, E)
  <2>1. PICK k \in 1 .. Len(q) : q[k] \in E
    BY <1>4 DEF Holds
  <2>2. k \in 1 .. Len(q \o p) /\ (q \o p)[k] = q[k]
    BY <1>1, <1>2, <2>1
  <2>3. QED
    BY <2>1, <2>2 DEF Holds
<1>5. ASSUME Holds(p, E) PROVE Holds(q \o p, E)
  <2>1. PICK k \in 1 .. Len(p) : p[k] \in E
    BY <1>5 DEF Holds
  <2>2. Len(q) + k \in 1 .. Len(q \o p) /\ (q \o p)[Len(q) + k] = p[(Len(q) + k) - Len(q)]
    BY <1>1, <1>2, <2>1
  <2>3. (q \o p)[Len(q) + k] = p[k]
    BY <1>1, <2>1, <2>2
  <2>4. QED
    BY <2>1, <2>2, <2>3 DEF Holds
<1>6. QED
  BY <1>3, <1>4, <1>5

LEMMA OneHolds ==
    ASSUME NEW e, NEW E
    PROVE  Holds(<<e>>, E) <=> e \in E
BY DEF Holds

\* A queue holds what it held and what was put behind it.
LEMMA AppendHolds ==
    ASSUME NEW q \in Seq(Events), NEW e \in Events, NEW E
    PROVE  Holds(Append(q, e), E) <=> Holds(q, E) \/ e \in E
<1>1. <<e>> \in Seq(Events) /\ Append(q, e) = q \o <<e>>
  OBVIOUS
<1>2. Holds(q \o <<e>>, E) <=> Holds(q, E) \/ Holds(<<e>>, E)
  BY <1>1, CatHolds
<1>3. Holds(<<e>>, E) <=> e \in E
  BY OneHolds
<1>4. QED
  BY <1>1, <1>2, <1>3, Zenon

\* The reconnection that a deauthentication asks for.
LEMMA PostsHold ==
    ASSUME NEW E
    PROVE  Holds(DeauthPosts, E) <=> auto_connect /\ "CONNECT_FAIL" \in E
<1>1. ~ Holds(<<>>, E)
  BY DEF Holds
<1>2. QED
  BY <1>1, OneHolds DEF DeauthPosts

-----------------------------------------------------------------------------
(* How the queue changes.                                                   *)

\* The event thread takes the first event and may post others.
LEMMA EventQueue ==
    ASSUME EventThread
    PROVE  \/ UNCHANGED evq \/ evq' = evq \o DeauthPosts
           \/ /\ evq # <<>> /\ evpc = "idle"
              /\ \/ evq' = Tail(evq) \/ evq' = Append(Tail(evq), "ASSOCIAT")
                 \/ evq' = Tail(evq) \o <<>> \/ evq' = Tail(evq) \o DeauthPosts
<1>1. CASE Drop
  BY <1>1 DEF Drop
<1>2. CASE UserScan
  BY <1>2 DEF UserScan
<1>3. CASE Authen
  BY <1>3 DEF Authen
<1>4. CASE RxAuth
  BY <1>4 DEF RxAuth
<1>5. CASE Assciate
  BY <1>5 DEF Assciate
<1>6. CASE RxAuthFail
  BY <1>6 DEF RxAuthFail, Refused
<1>7. CASE RxAssocFail
  BY <1>7 DEF RxAssocFail, Refused
<1>8. CASE RxAssoc
  BY <1>8 DEF RxAssoc
<1>9. CASE EapTxStatus
  BY <1>9 DEF EapTxStatus
<1>10. CASE RxDeauth
  BY <1>10 DEF RxDeauth
<1>11. CASE EvDeauthEnd
  BY <1>11 DEF EvDeauthEnd
<1>12. CASE ConnectFail
  BY <1>12 DEF ConnectFail
<1>13. CASE StopBegin
  BY <1>13 DEF StopBegin
<1>14. CASE StopDisable
  BY <1>14 DEF StopDisable
<1>15. CASE StopEnd
  BY <1>15 DEF StopEnd
<1>16. CASE Start
  BY <1>16 DEF Start
<1>17. CASE StartOther
  BY <1>17 DEF StartOther
<1>18. CASE \E e \in {"USER_CONNECT", "START_CONNECT"} : StartConnect(e)
  BY <1>18 DEF StartConnect
<1>19. CASE \E e \in {"rxM1", "rxM3"} : RxEapol(e)
  BY <1>19 DEF RxEapol
<1>20. CASE \E found \in BOOLEAN : ScanEnd(found)
  BY <1>20 DEF ScanEnd
<1>21. QED
  BY <1>1, <1>2, <1>3, <1>4, <1>5, <1>6, <1>7, <1>8, <1>9, <1>10, <1>11, <1>12, <1>13, <1>14,
   <1>15, <1>16, <1>17, <1>18, <1>19, <1>20 DEF EventThread

\* The others only post; the first message of the handshake comes while it is
\* owed and not queued.
LEMMA OtherQueue ==
    ASSUME TimerTask \/ WorkThread \/ Outside \/ User
    PROVE  \/ UNCHANGED evq \/ evq' = evq \o DeauthPosts
           \/ \E e \in Events :
                 /\ evq' = Append(evq, e)
                 /\ e = "rxM1" => /\ owed = "m1" /\ owed' = "m1"
                                 /\ ~Holds(evq, {"rxM1"})
           \/ evq' = evq \o <<>> \o <<"START_CONNECT">>
           \/ evq' = evq \o DeauthPosts \o <<"START_CONNECT">>
<1> USE DEF Events, Acked
<1>1. CASE TimerTask
  <2>1. CASE FireScan
    BY <2>1 DEF FireScan
  <2>2. CASE TimerScan
    BY <2>2 DEF TimerScan
  <2>3. CASE FireJoin
    BY <2>3 DEF FireJoin
  <2>4. CASE FireAssoc
    BY <2>4 DEF FireAssoc
  <2>5. CASE FireHandshake
    BY <2>5 DEF FireHandshake
  <2>6. CASE FireAuto
    BY <2>6 DEF FireAuto, StartOver
  <2>7. CASE AutoConnect
    BY <2>7 DEF AutoConnect, StartOver
  <2>8. QED
    BY <1>1, <2>1, <2>2, <2>3, <2>4, <2>5, <2>6, <2>7 DEF TimerTask
<1>2. CASE WorkThread
  <2>1. CASE Take
    BY <2>1 DEF Take
  <2>2. CASE NullWork
    BY <2>2 DEF NullWork
  <2>3. CASE ApScanWork
    BY <2>3 DEF ApScanWork
  <2>4. CASE ScanWork
    BY <2>4 DEF ScanWork
  <2>5. CASE JoinStart
    BY <2>5 DEF JoinStart
  <2>6. CASE JoinDone
    BY <2>6 DEF JoinDone, JoinComplete
  <2>7. CASE JoinArm
    BY <2>7 DEF JoinArm
  <2>8. CASE EventWork
    BY <2>8 DEF EventWork
  <2>9. CASE EventWorkEnd
    BY <2>9 DEF EventWorkEnd
  <2>10. QED
    BY <1>2, <2>1, <2>2, <2>3, <2>4, <2>5, <2>6, <2>7, <2>8, <2>9 DEF WorkThread
<1>3. CASE Outside
  <2>1. CASE ApAnswer
    <3>1. PICK e \in Answers(owed) :
             /\ evq' = Append(evq, e) /\ ~Queued({e})
             /\ e \in {"rxM1", "rxM3"} => owed' = owed
      BY <2>1 DEF ApAnswer
    <3>2. e \in Events /\ (e = "rxM1" => owed = "m1")
      BY <3>1 DEF Answers
    <3>3. ~Holds(evq, {e})
      BY <3>1 DEF Queued, Holds
    <3>4. e = "rxM1" => owed = "m1" /\ owed' = "m1" /\ ~Holds(evq, {"rxM1"})
      BY <3>1, <3>2, <3>3
    <3>5. QED
      BY <3>1, <3>2, <3>4
  <2>2. CASE Silence
    BY <2>2 DEF Silence
  <2>3. CASE ApDeauth
    BY <2>3 DEF ApDeauth
  <2>4. CASE BssLost
    BY <2>4 DEF BssLost
  <2>5. CASE FwScanEnd
    BY <2>5 DEF FwScanEnd
  <2>6. QED
    BY <1>3, <2>1, <2>2, <2>3, <2>4, <2>5 DEF Outside
<1>4. CASE User
  <2>1. CASE \E mode \in Modes : UserConnect(mode)
    BY <2>1 DEF UserConnect
  <2>2. CASE \E e \in Acked : UserAsks(e)
    BY <2>2 DEF UserAsks
  <2>3. CASE UserDisconnect
    BY <2>3 DEF UserDisconnect
  <2>4. CASE UserDisconnected
    BY <2>4 DEF UserDisconnected
  <2>5. QED
    BY <1>4, <2>1, <2>2, <2>3, <2>4 DEF User
<1>5. QED
  BY <1>1, <1>2, <1>3, <1>4

\* What is queued stays until it is the first.
LEMMA EventKeeps ==
    ASSUME QueueOK, EventThread, NEW E, Holds(evq, E), evq # <<>> => Head(evq) \notin E
    PROVE  Holds(evq', E)
<1>1. evq \in Seq(Events) /\ evq # <<>>
  BY DEF QueueOK, Holds
<1>2. Tail(evq) \in Seq(Events) /\ Holds(Tail(evq), E)
  BY <1>1, TailHolds
<1>3. /\ Holds(evq \o DeauthPosts, E)
      /\ Holds(Append(Tail(evq), "ASSOCIAT"), E)
      /\ Holds(Tail(evq) \o <<>>, E)
      /\ Holds(Tail(evq) \o DeauthPosts, E)
  <2>1. <<>> \in Seq(Events) /\ "ASSOCIAT" \in Events
    BY DEF Events
  <2>2. QED
    BY <1>1, <1>2, <2>1, PostsAreEvents, CatHolds, AppendHolds
<1>4. QED
  BY <1>2, <1>3, EventQueue

\* Whoever is not the event thread only adds to the queue.
LEMMA OthersKeep ==
    ASSUME QueueOK, TimerTask \/ WorkThread \/ Outside \/ User, NEW E, Holds(evq, E)
    PROVE  Holds(evq', E)
<1>1. evq \in Seq(Events) /\ DeauthPosts \in Seq(Events)
  BY PostsAreEvents DEF QueueOK
<1>2. <<>> \in Seq(Events) /\ <<"START_CONNECT">> \in Seq(Events)
  <2>1. "START_CONNECT" \in Events
    BY DEF Events
  <2>2. QED
    BY <2>1
<1>3. /\ Holds(evq \o DeauthPosts, E) /\ Holds(evq \o <<>>, E)
      /\ evq \o DeauthPosts \in Seq(Events) /\ evq \o <<>> \in Seq(Events)
  BY <1>1, <1>2, CatHolds
<1>4. /\ Holds(evq \o <<>> \o <<"START_CONNECT">>, E)
      /\ Holds(evq \o DeauthPosts \o <<"START_CONNECT">>, E)
  BY <1>2, <1>3, CatHolds
<1>5. \A e \in Events : Holds(Append(evq, e), E)
  BY <1>1, AppendHolds
<1>6. QED
  BY <1>3, <1>4, <1>5, OtherQueue

\* What a deauthentication and a new start post.
LEMMA DeauthEndPosts ==
    ASSUME QueueOK, evq' = evq \o DeauthPosts, NEW E
    PROVE  /\ Holds(evq, E) => Holds(evq', E)
           /\ auto_connect /\ "CONNECT_FAIL" \in E => Holds(evq', E)
BY CatHolds, PostsAreEvents, PostsHold DEF QueueOK

\* The reconnection posts the event that starts over.
LEMMA StartOverPosts ==
    ASSUME QueueOK, NEW posts \in {<<>>, DeauthPosts}, StartOver(posts), NEW E
    PROVE  "START_CONNECT" \in E => Holds(evq', E)
<1>1. evq \in Seq(Events) /\ posts \in Seq(Events)
  <2>1. <<>> \in Seq(Events)
    OBVIOUS
  <2>2. QED
    BY <2>1, PostsAreEvents DEF QueueOK
<1>2. evq \o posts \in Seq(Events) /\ <<"START_CONNECT">> \in Seq(Events)
  <2>1. "START_CONNECT" \in Events
    BY DEF Events
  <2>2. QED
    BY <1>1, <2>1
<1>3. evq' = evq \o posts \o <<"START_CONNECT">>
  BY DEF StartOver
<1>4. "START_CONNECT" \in E => Holds(<<"START_CONNECT">>, E)
  BY OneHolds
<1>5. QED
  BY <1>2, <1>3, <1>4, CatHolds

-----------------------------------------------------------------------------
(* Stages.                                                                  *)

\* An event that is handled leaves those behind it in the queue.
LEMMA HandledKeeps ==
    ASSUME QueueOK, NEW e, Ev(e), Handled
    PROVE  \A E : e \notin E /\ Holds(evq, E) => Holds(evq', E)
BY TailHolds DEF QueueOK

LEMMA PostKeeps ==
    ASSUME QueueOK, NEW e \in Events, Post(e)
    PROVE  \A E : Holds(evq', E) <=> Holds(evq, E) \/ e \in E
BY AppendHolds DEF QueueOK

\* The stages of the work thread, the station that is off and the timer that
\* guards an attempt.
LEMMA StagesKept ==
    ASSUME ConnInv, WayInv, Next
    PROVE  WorkStages' /\ OffWants' /\ Guarded'
<1>1. /\ DataOK /\ NoWork \notin {"join", "event"}
      /\ WorkStages /\ OffWants /\ Guarded
      /\ ~sta => ~appdata
      /\ AtLeast("ASSOCIATED") => wpa_state \in Associated3
  BY FromAssociated, WorksAssumption, ConnectAssumption
  DEF ConnInv, WayInv, StopStages, Associated3
<1> USE <1>1 DEF WorkStages, OffWants, Guarded, Associated3, DataOK, Timers
<1>2. CASE EventThread
  <2>1. CASE Drop
    BY <2>1 DEF Drop, Dropped
  <2>2. CASE UserScan
    BY <2>2 DEF UserScan, Dropped
  <2>3. CASE Authen
    BY <2>3 DEF Authen, Dropped
  <2>4. CASE RxAuth
    BY <2>4 DEF RxAuth
  <2>5. CASE Assciate
    BY <2>5 DEF Assciate, Dropped
  <2>6. CASE RxAuthFail
    BY <2>6 DEF RxAuthFail, Refused, WpaDeauthen, DeauthenTimers
  <2>7. CASE RxAssocFail
    BY <2>7 DEF RxAssocFail, Refused, WpaDeauthen, DeauthenTimers
  <2>8. CASE RxAssoc
    BY <2>8 DEF RxAssoc, Associated
  <2>9. CASE EapTxStatus
    BY <2>9 DEF EapTxStatus, Dropped
  <2>10. CASE RxDeauth
    BY <2>10 DEF RxDeauth, DeauthBegin
  <2>11. CASE EvDeauthEnd
    BY <2>11 DEF EvDeauthEnd, DeauthEnd, DeauthenTimers
  <2>12. CASE ConnectFail
    BY <2>12 DEF ConnectFail
  <2>13. CASE StopBegin
    BY <2>13 DEF StopBegin, StopTimers
  <2>14. CASE StopDisable
    BY <2>14 DEF StopDisable, DeauthBegin
  <2>15. CASE StopEnd
    BY <2>15 DEF StopEnd, DeauthEnd
  <2>16. CASE Start
    BY <2>16 DEF Start, Dropped
  <2>17. CASE StartOther
    BY <2>17 DEF StartOther
  <2>18. CASE \E e \in {"USER_CONNECT", "START_CONNECT"} : StartConnect(e)
    BY <2>18 DEF StartConnect, Dropped
  <2>19. CASE \E e \in {"rxM1", "rxM3"} : RxEapol(e)
    BY <2>19 DEF RxEapol, Dropped, EapolTimers
  <2>20. CASE \E found \in BOOLEAN : ScanEnd(found)
    BY <2>20 DEF ScanEnd
  <2>21. QED
    BY <1>2, <2>1, <2>2, <2>3, <2>4, <2>5, <2>6, <2>7, <2>8, <2>9, <2>10, <2>11, <2>12, <2>13,
     <2>14, <2>15, <2>16, <2>17, <2>18, <2>19, <2>20 DEF EventThread
<1>3. CASE TimerTask
  <2>1. CASE FireScan
    BY <2>1 DEF FireScan
  <2>2. CASE TimerScan
    BY <2>2 DEF TimerScan
  <2>3. CASE FireJoin
    BY <2>3 DEF FireJoin
  <2>4. CASE FireAssoc
    BY <2>4 DEF FireAssoc, WpaDeauthen, DeauthenTimers
  <2>5. CASE FireHandshake
    BY <2>5 DEF FireHandshake, WpaDeauthen, DeauthenTimers
  <2>6. CASE FireAuto
    BY <2>6 DEF FireAuto, StartOver, DeauthBegin
  <2>7. CASE AutoConnect
    BY <2>7 DEF AutoConnect, StartOver, DeauthEnd, DeauthenTimers
  <2>8. QED
    BY <1>3, <2>1, <2>2, <2>3, <2>4, <2>5, <2>6, <2>7 DEF TimerTask
<1>4. CASE WorkThread
  <2>1. CASE Take
    BY <2>1 DEF Take, TakeWork
  <2>2. CASE NullWork
    BY <2>2 DEF NullWork
  <2>3. CASE ApScanWork
    BY <2>3 DEF ApScanWork
  <2>4. CASE ScanWork
    BY <2>4 DEF ScanWork
  <2>5. CASE JoinStart
    BY <2>5 DEF JoinStart
  <2>6. CASE JoinDone
    BY <2>6 DEF JoinDone
  <2>7. CASE JoinArm
    BY <2>7 DEF JoinArm
  <2>8. CASE EventWork
    BY <2>8 DEF EventWork, DeauthBegin
  <2>9. CASE EventWorkEnd
    BY <2>9 DEF EventWorkEnd, DeauthEnd, DeauthenTimers
  <2>10. QED
    BY <1>4, <2>1, <2>2, <2>3, <2>4, <2>5, <2>6, <2>7, <2>8, <2>9 DEF WorkThread
<1>5. CASE Outside
  <2>1. CASE ApAnswer
    BY <2>1 DEF ApAnswer
  <2>2. CASE Silence
    BY <2>2 DEF Silence
  <2>3. CASE ApDeauth
    BY <2>3 DEF ApDeauth
  <2>4. CASE BssLost
    BY <2>4 DEF BssLost
  <2>5. CASE FwScanEnd
    BY <2>5 DEF FwScanEnd
  <2>6. QED
    BY <1>5, <2>1, <2>2, <2>3, <2>4, <2>5 DEF Outside
<1>6. CASE User
  <2>1. CASE \E mode \in Modes : UserConnect(mode)
    BY <2>1 DEF UserConnect
  <2>2. CASE \E e \in Acked : UserAsks(e)
    BY <2>2 DEF UserAsks
  <2>3. CASE UserDisconnect
    BY <2>3 DEF UserDisconnect, DeauthBegin
  <2>4. CASE UserDisconnected
    BY <2>4 DEF UserDisconnected, DeauthEnd, DeauthenTimers
  <2>5. QED
    BY <1>6, <2>1, <2>2, <2>3, <2>4 DEF User
<1>7. QED
  BY <1>2, <1>3, <1>4, <1>5, <1>6 DEF Next

-----------------------------------------------------------------------------
(* The first message of the handshake.                                      *)

\* What is queued once is so in a tail, in two queues in a row and in short ones.
LEMMA TailOnce ==
    ASSUME NEW q \in Seq(Events), q # <<>>, M1Once(q)
    PROVE  /\ M1Once(Tail(q)) /\ Tail(q) \in Seq(Events)
           /\ Head(q) = "rxM1" => ~Holds(Tail(q), {"rxM1"})
<1>1. Len(q) \in Nat /\ Len(q) > 0 /\ Len(Tail(q)) = Len(q) - 1 /\ Head(q) = q[1]
  OBVIOUS
<1>2. \A k \in 1 .. Len(Tail(q)) : Tail(q)[k] = q[k + 1] /\ k + 1 \in 1 .. Len(q)
  BY <1>1
<1>3. M1Once(Tail(q))
  <2>1. SUFFICES ASSUME NEW i \in 1 .. Len(Tail(q)), NEW j \in 1 .. Len(Tail(q)),
                        Tail(q)[i] = "rxM1", Tail(q)[j] = "rxM1"
                 PROVE  i = j
    BY DEF M1Once
  <2>2. q[i + 1] = "rxM1" /\ q[j + 1] = "rxM1" /\ i + 1 \in 1 .. Len(q) /\ j + 1 \in 1 .. Len(q)
    BY <1>2, <2>1
  <2>3. i + 1 = j + 1
    BY <2>2 DEF M1Once
  <2>4. QED
    BY <1>1, <2>3
<1>4. ASSUME Head(q) = "rxM1", Holds(Tail(q), {"rxM1"}) PROVE FALSE
  <2>1. PICK k \in 1 .. Len(Tail(q)) : Tail(q)[k] = "rxM1"
    BY <1>4 DEF Holds
  <2>2. q[k + 1] = "rxM1" /\ q[1] = "rxM1" /\ k + 1 \in 1 .. Len(q) /\ 1 \in 1 .. Len(q)
    BY <1>1, <1>2, <1>4, <2>1
  <2>3. k + 1 = 1
    BY <2>2 DEF M1Once
  <2>4. QED
    BY <1>1, <2>3
<1>5. QED
  BY <1>3, <1>4

LEMMA CatOnce ==
    ASSUME NEW q \in Seq(Events), NEW p \in Seq(Events), M1Once(q), M1Once(p),
           ~Holds(q, {"rxM1"}) \/ ~Holds(p, {"rxM1"})
    PROVE  M1Once(q \o p)
<1>1. Len(q) \in Nat /\ Len(p) \in Nat /\ Len(q \o p) = Len(q) + Len(p)
  OBVIOUS
<1>2. \A k \in 1 .. Len(q \o p) :
         (q \o p)[k] = IF k =< Len(q) THEN q[k] ELSE p[k - Len(q)]
  BY <1>1
<1>3. SUFFICES ASSUME NEW i \in 1 .. Len(q \o p), NEW j \in 1 .. Len(q \o p),
                      (q \o p)[i] = "rxM1", (q \o p)[j] = "rxM1"
               PROVE  i = j
  BY DEF M1Once
<1>4. CASE i =< Len(q) /\ j =< Len(q)
  <2>1. i \in 1 .. Len(q) /\ j \in 1 .. Len(q) /\ q[i] = "rxM1" /\ q[j] = "rxM1"
    BY <1>1, <1>2, <1>3, <1>4
  <2>2. QED
    BY <2>1 DEF M1Once
<1>5. CASE ~ (i =< Len(q)) /\ ~ (j =< Len(q))
  <2>1. /\ i - Len(q) \in 1 .. Len(p) /\ j - Len(q) \in 1 .. Len(p)
        /\ p[i - Len(q)] = "rxM1" /\ p[j - Len(q)] = "rxM1"
    BY <1>1, <1>2, <1>3, <1>5
  <2>2. i - Len(q) = j - Len(q)
    BY <2>1 DEF M1Once
  <2>3. QED
    BY <1>1, <2>2
<1>6. ASSUME NEW k \in 1 .. Len(q \o p), NEW n \in 1 .. Len(q \o p),
             k =< Len(q), ~ (n =< Len(q)), (q \o p)[k] = "rxM1", (q \o p)[n] = "rxM1"
      PROVE  FALSE
  <2>1. k \in 1 .. Len(q) /\ q[k] = "rxM1"
    BY <1>1, <1>2, <1>6
  <2>2. n - Len(q) \in 1 .. Len(p) /\ p[n - Len(q)] = "rxM1"
    BY <1>1, <1>2, <1>6
  <2>3. Holds(q, {"rxM1"}) /\ Holds(p, {"rxM1"})
    BY <2>1, <2>2 DEF Holds
  <2>4. QED
    BY <2>3
<1>7. QED
  BY <1>3, <1>4, <1>5, <1>6

\* Short sequences.
LEMMA ShortOnce ==
    /\ M1Once(<<>>) /\ ~Holds(<<>>, {"rxM1"})
    /\ \A e \in Events : /\ <<e>> \in Seq(Events) /\ M1Once(<<e>>)
                         /\ e # "rxM1" => ~Holds(<<e>>, {"rxM1"})
    /\ DeauthPosts \in Seq(Events) /\ M1Once(DeauthPosts) /\ ~Holds(DeauthPosts, {"rxM1"})
<1>1. M1Once(<<>>) /\ ~Holds(<<>>, {"rxM1"})
  BY DEF M1Once, Holds
<1>2. ASSUME NEW e \in Events
      PROVE  /\ <<e>> \in Seq(Events) /\ M1Once(<<e>>)
             /\ e # "rxM1" => ~Holds(<<e>>, {"rxM1"})
  BY OneHolds DEF M1Once
<1>3. "CONNECT_FAIL" \in Events
  BY DEF Events
<1>4. M1Once(DeauthPosts) /\ ~Holds(DeauthPosts, {"rxM1"})
  BY <1>1, <1>2, <1>3 DEF DeauthPosts
<1>5. QED
  BY <1>1, <1>2, <1>4, PostsAreEvents

M1Taken == Ev("rxM1") /\ Handled

\* Only the first message makes the access point owe the third.
LEMMA OwedSteps ==
    ASSUME Next
    PROVE  owed' \in {"m3", "confirm"} =>
              owed \in {"m3", "confirm"} \/ M1Taken
<1>1. CASE EventThread
  <2>1. CASE Drop
    BY <2>1 DEF Drop
  <2>2. CASE UserScan
    BY <2>2 DEF UserScan
  <2>3. CASE Authen
    BY <2>3 DEF Authen
  <2>4. CASE RxAuth
    BY <2>4 DEF RxAuth
  <2>5. CASE Assciate
    BY <2>5 DEF Assciate
  <2>6. CASE RxAuthFail
    BY <2>6 DEF RxAuthFail, Refused, WpaDeauthen
  <2>7. CASE RxAssocFail
    BY <2>7 DEF RxAssocFail, Refused, WpaDeauthen
  <2>8. CASE RxAssoc
    BY <2>8 DEF RxAssoc
  <2>9. CASE EapTxStatus
    BY <2>9 DEF EapTxStatus
  <2>10. CASE RxDeauth
    BY <2>10 DEF RxDeauth, DeauthBegin
  <2>11. CASE EvDeauthEnd
    BY <2>11 DEF EvDeauthEnd
  <2>12. CASE ConnectFail
    BY <2>12 DEF ConnectFail
  <2>13. CASE StopBegin
    BY <2>13 DEF StopBegin
  <2>14. CASE StopDisable
    BY <2>14 DEF StopDisable, DeauthBegin
  <2>15. CASE StopEnd
    BY <2>15 DEF StopEnd
  <2>16. CASE Start
    BY <2>16 DEF Start
  <2>17. CASE StartOther
    BY <2>17 DEF StartOther
  <2>18. CASE \E e \in {"USER_CONNECT", "START_CONNECT"} : StartConnect(e)
    BY <2>18 DEF StartConnect
  <2>19. CASE \E e \in {"rxM1", "rxM3"} : RxEapol(e)
    <3>1. PICK e \in {"rxM1", "rxM3"} : RxEapol(e)
      BY <2>19
    <3>2. owed' \in {owed, "none"} \/ owed = "m3" \/ e = "rxM1"
      BY <3>1 DEF RxEapol
    <3>3. e = "rxM1" => M1Taken
      BY <3>1 DEF RxEapol, M1Taken
    <3>4. QED
      BY <3>2, <3>3
  <2>20. CASE \E found \in BOOLEAN : ScanEnd(found)
    BY <2>20 DEF ScanEnd
  <2>21. QED
    BY <1>1, <2>1, <2>2, <2>3, <2>4, <2>5, <2>6, <2>7, <2>8, <2>9, <2>10, <2>11, <2>12, <2>13,
     <2>14, <2>15, <2>16, <2>17, <2>18, <2>19, <2>20 DEF EventThread
<1>2. CASE TimerTask
  <2>1. CASE FireScan
    BY <2>1 DEF FireScan
  <2>2. CASE TimerScan
    BY <2>2 DEF TimerScan
  <2>3. CASE FireJoin
    BY <2>3 DEF FireJoin
  <2>4. CASE FireAssoc
    BY <2>4 DEF FireAssoc, WpaDeauthen
  <2>5. CASE FireHandshake
    BY <2>5 DEF FireHandshake, WpaDeauthen
  <2>6. CASE FireAuto
    BY <2>6 DEF FireAuto, DeauthBegin
  <2>7. CASE AutoConnect
    BY <2>7 DEF AutoConnect
  <2>8. QED
    BY <1>2, <2>1, <2>2, <2>3, <2>4, <2>5, <2>6, <2>7 DEF TimerTask
<1>3. CASE WorkThread
  <2>1. CASE Take
    BY <2>1 DEF Take
  <2>2. CASE NullWork
    BY <2>2 DEF NullWork
  <2>3. CASE ApScanWork
    BY <2>3 DEF ApScanWork
  <2>4. CASE ScanWork
    BY <2>4 DEF ScanWork
  <2>5. CASE JoinStart
    BY <2>5 DEF JoinStart
  <2>6. CASE JoinDone
    BY <2>6 DEF JoinDone
  <2>7. CASE JoinArm
    BY <2>7 DEF JoinArm
  <2>8. CASE EventWork
    BY <2>8 DEF EventWork, DeauthBegin
  <2>9. CASE EventWorkEnd
    BY <2>9 DEF EventWorkEnd
  <2>10. QED
    BY <1>3, <2>1, <2>2, <2>3, <2>4, <2>5, <2>6, <2>7, <2>8, <2>9 DEF WorkThread
<1>4. CASE Outside
  <2>1. CASE ApAnswer
    BY <2>1 DEF ApAnswer, Answers
  <2>2. CASE Silence
    BY <2>2 DEF Silence
  <2>3. CASE ApDeauth
    BY <2>3 DEF ApDeauth
  <2>4. CASE BssLost
    BY <2>4 DEF BssLost
  <2>5. CASE FwScanEnd
    BY <2>5 DEF FwScanEnd
  <2>6. QED
    BY <1>4, <2>1, <2>2, <2>3, <2>4, <2>5 DEF Outside
<1>5. CASE User
  <2>1. CASE \E mode \in Modes : UserConnect(mode)
    BY <2>1 DEF UserConnect
  <2>2. CASE \E e \in Acked : UserAsks(e)
    BY <2>2 DEF UserAsks
  <2>3. CASE UserDisconnect
    BY <2>3 DEF UserDisconnect, DeauthBegin
  <2>4. CASE UserDisconnected
    BY <2>4 DEF UserDisconnected
  <2>5. QED
    BY <1>5, <2>1, <2>2, <2>3, <2>4 DEF User
<1>6. QED
  BY <1>1, <1>2, <1>3, <1>4, <1>5 DEF Next

\* Posting anything else changes nothing about it.
LEMMA PostsOnce ==
    ASSUME NEW q \in Seq(Events), M1Once(q),
           NEW p \in {<<>>, <<"ASSOCIAT">>, <<"START_CONNECT">>, DeauthPosts}
    PROVE  /\ q \o p \in Seq(Events) /\ M1Once(q \o p)
           /\ Holds(q \o p, {"rxM1"}) => Holds(q, {"rxM1"})
<1>1. "ASSOCIAT" \in Events /\ "START_CONNECT" \in Events
  BY DEF Events
<1>2. \A e \in {"ASSOCIAT", "START_CONNECT"} :
         <<e>> \in Seq(Events) /\ M1Once(<<e>>) /\ ~Holds(<<e>>, {"rxM1"})
  BY <1>1, ShortOnce
<1>3. p \in Seq(Events) /\ M1Once(p) /\ ~Holds(p, {"rxM1"})
  <2>1. CASE p = <<>>
    BY <2>1, ShortOnce
  <2>2. CASE p = DeauthPosts
    BY <2>2, ShortOnce
  <2>3. CASE p = <<"ASSOCIAT">>
    BY <1>2, <2>3
  <2>4. CASE p = <<"START_CONNECT">>
    BY <1>2, <2>4
  <2>5. QED
    BY <2>1, <2>2, <2>3, <2>4
<1>4. QED
  BY <1>3, CatOnce, CatHolds

\* The access point repeats the first message only when none is queued, and owes
\* the next one only after the first was taken out.
LEMMA OneM1Kept ==
    ASSUME ConnInv, WayInv, Next
    PROVE  OneM1'
<1>1. evq \in Seq(Events) /\ M1Once(evq)
  BY DEF ConnInv, QueueOK, WayInv, OneM1
<1>2. CASE EventThread
  <2>1. evq # <<>> => /\ Tail(evq) \in Seq(Events) /\ M1Once(Tail(evq))
                      /\ Holds(Tail(evq), {"rxM1"}) => Holds(evq, {"rxM1"})
                      /\ Append(Tail(evq), "ASSOCIAT") = Tail(evq) \o <<"ASSOCIAT">>
    BY <1>1, TailOnce, TailHolds
  <2>2. M1Once(evq') /\ (Holds(evq', {"rxM1"}) => Holds(evq, {"rxM1"}))
    BY <1>1, <1>2, <2>1, EventQueue, PostsOnce
  <2>3. ASSUME owed' \in {"m3", "confirm"} PROVE ~Holds(evq', {"rxM1"})
    <3>1. CASE owed \in {"m3", "confirm"}
      BY <2>2, <3>1 DEF WayInv, OneM1
    <3>2. CASE M1Taken
      BY <1>1, <3>2, TailOnce DEF M1Taken
    <3>3. QED
      BY <2>3, <3>1, <3>2, OwedSteps
  <2>4. QED
    BY <2>2, <2>3 DEF OneM1
<1>3. CASE TimerTask \/ WorkThread \/ Outside \/ User
  <2>1. ASSUME NEW e \in Events, evq' = Append(evq, e),
               e = "rxM1" => owed' = "m1" /\ ~Holds(evq, {"rxM1"})
        PROVE  M1Once(evq') /\ (Holds(evq', {"rxM1"}) => Holds(evq, {"rxM1"}) \/ owed' = "m1")
    <3>1. /\ <<e>> \in Seq(Events) /\ M1Once(<<e>>) /\ evq' = evq \o <<e>>
          /\ e # "rxM1" => ~Holds(<<e>>, {"rxM1"})
      BY <1>1, <2>1, ShortOnce
    <3>2. M1Once(evq \o <<e>>)
      BY <1>1, <2>1, <3>1, CatOnce
    <3>3. Holds(evq \o <<e>>, {"rxM1"}) <=> Holds(evq, {"rxM1"}) \/ Holds(<<e>>, {"rxM1"})
      BY <1>1, <3>1, CatHolds
    <3>4. QED
      BY <2>1, <3>1, <3>2, <3>3
  <2>2. M1Once(evq') /\ (Holds(evq', {"rxM1"}) => Holds(evq, {"rxM1"}) \/ owed' = "m1")
    <3>1. CASE UNCHANGED evq
      BY <1>1, <3>1
    <3>2. CASE evq' = evq \o DeauthPosts
      BY <1>1, <3>2, PostsOnce
    <3>3. CASE evq' = evq \o <<>> \o <<"START_CONNECT">>
      BY <1>1, <3>3, PostsOnce
    <3>4. CASE evq' = evq \o DeauthPosts \o <<"START_CONNECT">>
      BY <1>1, <3>4, PostsOnce
    <3>5. QED
      BY <1>3, <2>1, <3>1, <3>2, <3>3, <3>4, OtherQueue
  <2>3. ASSUME owed' \in {"m3", "confirm"} PROVE ~Holds(evq', {"rxM1"})
    <3>1. CASE owed \in {"m3", "confirm"}
      BY <2>2, <2>3, <3>1 DEF WayInv, OneM1
    <3>2. CASE M1Taken
      BY <1>1, <3>2, TailOnce DEF M1Taken
    <3>3. QED
      BY <2>3, <3>1, <3>2, OwedSteps
  <2>4. QED
    BY <2>2, <2>3 DEF OneM1
<1>4. QED
  BY <1>2, <1>3 DEF Next

-----------------------------------------------------------------------------
(* Above ASSOCIATED, and whether a broken connection is started over.       *)

\* A station above ASSOCIATED that is no longer associated starts over, and so
\* does one whose reconnection is off for a while.
LEMMA AssocKept ==
    ASSUME ConnInv, WayInv, Next
    PROVE  AssocOK' /\ AutoOn'
<1>1. /\ DataOK /\ AssocOK /\ AutoOn
      /\ ~sta => ~wanted /\ wpa_state = "DISCONNECTED" /\ ~appdata
      /\ AtLeast("ASSOCIATED") => wpa_state \in Associated3
      /\ AtLeast("4WAY_HANDSHAKE") => wpa_state \in Associated3
  BY FromAssociated DEF ConnInv, WayInv, StopStages, OffWants, Associated3
<1>2. DEFINE starts == Holds(evq, {"START_CONNECT"})
             starts2 == Holds(evq', {"START_CONNECT"})
<1>3. /\ EventThread /\ starts /\ Head(evq) # "START_CONNECT" => starts2
      /\ TimerTask \/ WorkThread \/ Outside \/ User => (starts => starts2)
  BY EventKeeps, OthersKeep DEF ConnInv
<1>4. SUFFICES /\ wpa_state' \in Associated3 /\ ~assoc_ok' => starts2
               /\ sta' /\ ~Stopping' /\ wanted' /\ ~auto_connect' => tpc' = "deauth" \/ starts2
  BY DEF AssocOK, AutoOn
<1>5. /\ wpa_state \in Associated3 /\ ~assoc_ok => starts
      /\ sta /\ ~Stopping /\ wanted /\ ~auto_connect => tpc = "deauth" \/ starts
  BY <1>1 DEF AssocOK, AutoOn
<1> HIDE DEF starts, starts2
<1> USE <1>1, <1>5 DEF Associated3, DataOK, SomeState
<1>6. CASE EventThread
  <2>1. CASE Drop
    BY <2>1, <1>3, <1>6 DEF Drop, Dropped
  <2>2. CASE UserScan
    BY <2>2, <1>3, <1>6 DEF UserScan, Dropped
  <2>3. CASE Authen
    BY <2>3, <1>3, <1>6 DEF Authen, Dropped
  <2>4. CASE RxAuth
    BY <2>4, <1>3, <1>6 DEF RxAuth
  <2>5. CASE Assciate
    BY <2>5, <1>3, <1>6 DEF Assciate, Dropped
  <2>6. CASE RxAuthFail
    BY <2>6, <1>3, <1>6 DEF RxAuthFail, Refused, WpaDeauthen, DeauthenTimers
  <2>7. CASE RxAssocFail
    BY <2>7, <1>3, <1>6 DEF RxAssocFail, Refused, WpaDeauthen, DeauthenTimers
  <2>8. CASE RxAssoc
    BY <2>8, <1>3, <1>6 DEF RxAssoc, Associated
  <2>9. CASE EapTxStatus
    BY <2>9, <1>3, <1>6 DEF EapTxStatus, Dropped
  <2>10. CASE RxDeauth
    BY <2>10, <1>3, <1>6 DEF RxDeauth, DeauthBegin
  <2>11. CASE EvDeauthEnd
    <3>1. starts => starts2
      BY <2>11, DeauthEndPosts DEF EvDeauthEnd, ConnInv, starts, starts2
    <3>2. QED
      BY <2>11, <3>1 DEF EvDeauthEnd, DeauthEnd
  <2>12. CASE ConnectFail
    BY <2>12, <1>3, <1>6 DEF ConnectFail
  <2>13. CASE StopBegin
    BY <2>13, <1>3, <1>6 DEF StopBegin, StopTimers
  <2>14. CASE StopDisable
    <3>1. starts => starts2
      BY <2>14 DEF StopDisable, starts, starts2
    <3>2. QED
      BY <2>14, <3>1 DEF StopDisable
  <2>15. CASE StopEnd
    BY <2>15, <1>3, <1>6 DEF StopEnd, DeauthEnd
  <2>16. CASE Start
    BY <2>16, <1>3, <1>6 DEF Start, Dropped
  <2>17. CASE StartOther
    BY <2>17, <1>3, <1>6 DEF StartOther
  <2>18. CASE \E e \in {"USER_CONNECT", "START_CONNECT"} : StartConnect(e)
    BY <2>18, <1>3, <1>6 DEF StartConnect, Dropped
  <2>19. CASE \E e \in {"rxM1", "rxM3"} : RxEapol(e)
    BY <2>19, <1>3, <1>6 DEF RxEapol, Dropped, EapolTimers
  <2>20. CASE \E found \in BOOLEAN : ScanEnd(found)
    BY <2>20, <1>3, <1>6 DEF ScanEnd
  <2>21. QED
    BY <1>6, <2>1, <2>2, <2>3, <2>4, <2>5, <2>6, <2>7, <2>8, <2>9, <2>10, <2>11, <2>12, <2>13,
     <2>14, <2>15, <2>16, <2>17, <2>18, <2>19, <2>20 DEF EventThread
<1>7. CASE TimerTask
  <2>1. CASE FireScan
    BY <2>1, <1>3, <1>7 DEF FireScan
  <2>2. CASE TimerScan
    BY <2>2, <1>3, <1>7 DEF TimerScan
  <2>3. CASE FireJoin
    BY <2>3, <1>3, <1>7 DEF FireJoin
  <2>4. CASE FireAssoc
    BY <2>4, <1>3, <1>7 DEF FireAssoc, WpaDeauthen, DeauthenTimers
  <2>5. CASE FireHandshake
    BY <2>5, <1>3, <1>7 DEF FireHandshake, WpaDeauthen, DeauthenTimers
  <2>6. CASE FireAuto
    <3>1. CASE join_status = "STA"
      BY <2>6, <3>1, <1>3, <1>7 DEF FireAuto, DeauthBegin
    <3>2. CASE join_status # "STA"
      <4>1. StartOver(<<>>)
        BY <2>6, <3>2 DEF FireAuto
      <4>2. starts2
        BY <4>1, StartOverPosts DEF ConnInv, starts2
      <4>3. QED
        BY <4>2
    <3>3. QED
      BY <3>1, <3>2
  <2>7. CASE AutoConnect
    <3>1. StartOver(DeauthPosts)
      BY <2>7 DEF AutoConnect
    <3>2. starts2
      BY <3>1, StartOverPosts DEF ConnInv, starts2
    <3>3. QED
      BY <3>2
  <2>8. QED
    BY <1>7, <2>1, <2>2, <2>3, <2>4, <2>5, <2>6, <2>7 DEF TimerTask
<1>8. CASE WorkThread
  <2>1. CASE Take
    BY <2>1, <1>3, <1>8 DEF Take, TakeWork
  <2>2. CASE NullWork
    BY <2>2, <1>3, <1>8 DEF NullWork
  <2>3. CASE ApScanWork
    BY <2>3, <1>3, <1>8 DEF ApScanWork
  <2>4. CASE ScanWork
    BY <2>4, <1>3, <1>8 DEF ScanWork
  <2>5. CASE JoinStart
    BY <2>5, <1>3, <1>8 DEF JoinStart
  <2>6. CASE JoinDone
    BY <2>6, <1>3, <1>8 DEF JoinDone
  <2>7. CASE JoinArm
    BY <2>7, <1>3, <1>8 DEF JoinArm
  <2>8. CASE EventWork
    BY <2>8, <1>3, <1>8 DEF EventWork, DeauthBegin
  <2>9. CASE EventWorkEnd
    BY <2>9, <1>3, <1>8 DEF EventWorkEnd, DeauthEnd, DeauthenTimers
  <2>10. QED
    BY <1>8, <2>1, <2>2, <2>3, <2>4, <2>5, <2>6, <2>7, <2>8, <2>9 DEF WorkThread
<1>9. CASE Outside
  <2>1. CASE ApAnswer
    BY <2>1, <1>3, <1>9 DEF ApAnswer
  <2>2. CASE Silence
    BY <2>2, <1>3, <1>9 DEF Silence
  <2>3. CASE ApDeauth
    BY <2>3, <1>3, <1>9 DEF ApDeauth
  <2>4. CASE BssLost
    BY <2>4, <1>3, <1>9 DEF BssLost
  <2>5. CASE FwScanEnd
    BY <2>5, <1>3, <1>9 DEF FwScanEnd
  <2>6. QED
    BY <1>9, <2>1, <2>2, <2>3, <2>4, <2>5 DEF Outside
<1>10. CASE User
  <2>1. CASE \E mode \in Modes : UserConnect(mode)
    BY <2>1, <1>3, <1>10 DEF UserConnect
  <2>2. CASE \E e \in Acked : UserAsks(e)
    BY <2>2, <1>3, <1>10 DEF UserAsks
  <2>3. CASE UserDisconnect
    BY <2>3, <1>3, <1>10 DEF UserDisconnect, DeauthBegin
  <2>4. CASE UserDisconnected
    BY <2>4, <1>3, <1>10 DEF UserDisconnected, DeauthEnd, DeauthenTimers
  <2>5. QED
    BY <1>10, <2>1, <2>2, <2>3, <2>4 DEF User
<1>11. QED
  BY <1>6, <1>7, <1>8, <1>9, <1>10 DEF Next

-----------------------------------------------------------------------------
(* The way back.                                                            *)

\* A timer that is armed once more is armed.
LEMMA OncePositive ==
    ASSUME NEW n \in 0 .. 2
    PROVE  Min({n + 1, 2}) > 0
<1>1. Min({n + 1, 2}) \in {n + 1, 2}
  BY MinOfNats
<1>2. QED
  BY <1>1

LEMMA HeadHolds ==
    ASSUME QueueOK, evq # <<>>
    PROVE  Holds(evq, {Head(evq)})
<1>1. 1 \in 1 .. Len(evq) /\ evq[1] = Head(evq)
  BY DEF QueueOK
<1>2. QED
  BY <1>1 DEF Holds

\* Every step that uses up what leads on leaves something else that leads on.
LEMMA WayKept ==
    ASSUME ConnInv, WayInv, Next
    PROVE  WayOn'
<1> DEFINE lead  == Holds(evq, Leaders)
           lead2 == Holds(evq', Leaders)
           eap   == Holds(evq, {"EAP_TX_STATUS"})
           eap2  == Holds(evq', {"EAP_TX_STATUS"})
           away  == Holds(evq, {"rxDeauth"})
           away2 == Holds(evq', {"rxDeauth"})
<1>1. /\ DataOK /\ WorkStages /\ OffWants /\ Guarded
      /\ NoWork \notin {"scan", "join", "event"}
      /\ ~sta => ~appdata
      /\ AtLeast("ASSOCIATED") <=> wpa_state \in Associated3
      /\ AtLeast("4WAY_HANDSHAKE") <=> wpa_state \in {"4WAY_HANDSHAKE", "COMPLETED"}
  BY FromAssociated, WorksAssumption, ConnectAssumption
  DEF ConnInv, WayInv, StopStages, Associated3
<1>2. /\ {scan_work, join_work} \subseteq WorkIds
      /\ sta /\ ~Stopping => /\ work_queue_table[scan_work] = "scan"
                             /\ work_queue_table[join_work] = "join"
  BY DEF ConnInv, TableOK
<1>3. /\ EventThread => /\ lead /\ Head(evq) \notin Leaders => lead2
                        /\ eap /\ Head(evq) # "EAP_TX_STATUS" => eap2
                        /\ away /\ Head(evq) # "rxDeauth" => away2
      /\ TimerTask \/ WorkThread \/ Outside \/ User =>
            /\ lead => lead2
            /\ eap => eap2
            /\ away => away2
  BY EventKeeps, OthersKeep DEF ConnInv
<1>4. /\ Holds(evq, {"START_CONNECT"}) => lead
      /\ Queued(Again) => lead
      /\ Queued({"SCAN_FOUND", "SCAN_NONE"}) => lead
  BY DEF Holds, Leaders, Again, Queued
<1>5. /\ Hope => \/ connect_ok \/ wpc = "arm" \/ lead
                 \/ timer["scan"] > 0 \/ timer["join"] > 0 \/ timer["auto"] > 0
      /\ ~Stuck => ~in_progress \/ fwScan \/ timer["scan"] # 0 \/ lead
  BY <1>4 DEF Hope, Stuck, Again
<1>6. sta /\ ~Stopping /\ wanted => auto_connect \/ tpc = "deauth" \/ lead
  BY <1>4 DEF WayInv, AutoOn
<1>7. wpa_state \in Associated3 => assoc_ok \/ lead
  BY <1>4 DEF WayInv, AssocOK
<1>8. owed = "confirm" => ~Holds(evq, {"rxM1"})
  BY DEF WayInv, OneM1
<1>9. sta /\ wanted /\ ~connect_ok /\ crash = "no" /\ lost = {} =>
         \/ Stopping \/ fwScan
         \/ ~in_progress /\ (tpc = "scan" \/ working = "scan" \/ scan_work \in work_map)
         \/ timer["scan"] > 0 \/ timer["join"] > 0 \/ timer["assoc"] > 0 \/ timer["auto"] > 0
         \/ lead \/ working = "join" \/ join_work \in work_map
         \/ evpc = "deauth" \/ tpc = "deauth" \/ wpc = "deauth" \/ upc = "deauth"
         \/ /\ config = "wpa" /\ wpa_state \in Associated3
            /\ \/ owed \in {"m1", "m3"}
               \/ wpa_state = "COMPLETED" /\ (owed = "confirm" \/ eap)
         \/ assoc_ok /\ away
  BY DEF WayInv, WayOn, Leads, ScanAhead, Handshaking, SentAway
<1>10. SUFFICES
         ASSUME sta', wanted', ~connect_ok', crash' = "no", lost' = {}
         PROVE  \/ Stopping' \/ fwScan'
                \/ /\ ~in_progress'
                   /\ tpc' = "scan" \/ working' = "scan" \/ scan_work' \in work_map'
                \/ timer'["scan"] > 0 \/ timer'["join"] > 0
                \/ timer'["assoc"] > 0 \/ timer'["auto"] > 0
                \/ lead2 \/ working' = "join" \/ join_work' \in work_map'
                \/ evpc' = "deauth" \/ tpc' = "deauth" \/ wpc' = "deauth" \/ upc' = "deauth"
                \/ /\ config' = "wpa" /\ wpa_state' \in Associated3
                   /\ \/ owed' \in {"m1", "m3"}
                      \/ wpa_state' = "COMPLETED" /\ (owed' = "confirm" \/ eap2)
                \/ assoc_ok' /\ away2
  BY DEF WayOn, Leads, ScanAhead, Handshaking, SentAway
<1> HIDE DEF lead, lead2, eap, eap2, away, away2
<1> USE <1>1, <1>2, <1>9, <1>10 DEF Associated3, DataOK, SomeState, Timers, OffWants, WorkStages,
        Guarded, Leaders, Again
<1>11. CASE EventThread
  <2>1. CASE Drop
    BY <2>1, <1>3, <1>5, <1>6, <1>7, <1>11 DEF Drop, Dropped
  <2>2. CASE UserScan
    BY <2>2, <1>3, <1>5, <1>6, <1>7, <1>11 DEF UserScan, QueueWork
  <2>3. CASE Authen
    BY <2>3, <1>3, <1>5, <1>6, <1>7, <1>11 DEF Authen, Dropped
  <2>4. CASE RxAuth
    BY <2>4, <1>3, <1>5, <1>6, <1>7, <1>11 DEF RxAuth
  <2>5. CASE Assciate
    BY <2>5, <1>3, <1>5, <1>6, <1>7, <1>11 DEF Assciate, Dropped
  <2>6. CASE RxAuthFail
    BY <2>6, <1>3, <1>5, <1>6, <1>7, <1>11 DEF RxAuthFail, Refused, WpaDeauthen, DeauthenTimers,
     Lose
  <2>7. CASE RxAssocFail
    <3>1. QueueOK /\ evq # <<>> /\ evq' = Tail(evq) \o DeauthPosts
      BY <2>7 DEF RxAssocFail, Refused, ConnInv
    <3>2. Tail(evq) \in Seq(Events) /\ DeauthPosts \in Seq(Events)
      BY <3>1, PostsAreEvents DEF QueueOK
    <3>3. auto_connect => lead2
      <4>1. auto_connect => Holds(DeauthPosts, Leaders)
        BY PostsHold
      <4>2. Holds(Tail(evq) \o DeauthPosts, Leaders)
              <=> Holds(Tail(evq), Leaders) \/ Holds(DeauthPosts, Leaders)
        BY <3>2, CatHolds, Zenon
      <4>3. QED
        BY <3>1, <4>1, <4>2 DEF lead2
    <3>4. QED
      BY <2>7, <3>3, <1>3, <1>6, <1>11 DEF RxAssocFail, Refused, WpaDeauthen, DeauthenTimers
  <2>8. CASE RxAssoc
    BY <2>8, <1>3, <1>5, <1>6, <1>7, <1>11 DEF RxAssoc, Associated
  <2>9. CASE EapTxStatus
    BY <2>9, <1>3, <1>5, <1>6, <1>7, <1>11 DEF EapTxStatus, Dropped
  <2>10. CASE RxDeauth
    BY <2>10, <1>3, <1>5, <1>6, <1>7, <1>11 DEF RxDeauth, DeauthBegin
  <2>11. CASE EvDeauthEnd
    <3>1. QueueOK /\ evq' = evq \o DeauthPosts
      BY <2>11 DEF EvDeauthEnd, ConnInv
    <3>2. auto_connect \/ lead => lead2
      BY <3>1, DeauthEndPosts DEF lead, lead2
    <3>3. QED
      BY <2>11, <3>2, <1>3, <1>6, <1>7, <1>11 DEF EvDeauthEnd, DeauthEnd, DeauthenTimers
  <2>12. CASE ConnectFail
    BY <2>12, <1>3, <1>5, <1>6, <1>7, <1>11 DEF ConnectFail
  <2>13. CASE StopBegin
    BY <2>13, <1>3, <1>5, <1>6, <1>7, <1>11 DEF StopBegin, StopTimers
  <2>14. CASE StopDisable
    BY <2>14, <1>3, <1>5, <1>6, <1>7, <1>11 DEF StopDisable, DeauthBegin
  <2>15. CASE StopEnd
    BY <2>15, <1>3, <1>5, <1>6, <1>7, <1>11 DEF StopEnd, DeauthEnd
  <2>16. CASE Start
    BY <2>16, <1>3, <1>5, <1>6, <1>7, <1>11 DEF Start, Dropped
  <2>17. CASE StartOther
    BY <2>17, <1>3, <1>5, <1>6, <1>7, <1>11 DEF StartOther
  <2>18. CASE \E e \in {"USER_CONNECT", "START_CONNECT"} : StartConnect(e)
    <3>1. PICK e \in {"USER_CONNECT", "START_CONNECT"} : StartConnect(e)
      BY <2>18
    <3>2. CASE in_progress /\ Queued({"SCAN_FOUND", "SCAN_NONE"})
      <4>1. Holds(evq, {"SCAN_FOUND", "SCAN_NONE"}) /\ QueueOK /\ Ev(e) /\ Handled
        BY <3>1, <3>2 DEF Queued, Holds, StartConnect, ConnInv
      <4>2. Holds(evq', {"SCAN_FOUND", "SCAN_NONE"})
        BY <4>1, HandledKeeps
      <4>3. lead2
        BY <4>2 DEF lead2, Holds
      <4>4. QED
        BY <4>3
    <3>3. CASE in_progress /\ ~Queued({"SCAN_FOUND", "SCAN_NONE"})
      <4>1. ~Stuck /\ timer' = timer /\ fwScan' = fwScan
        BY <3>1, <3>3 DEF StartConnect, ScanGuarded
      <4>2. fwScan' \/ timer'["scan"] > 0
        BY <3>3, <4>1 DEF Stuck
      <4>3. QED
        BY <4>2
    <3>4. CASE ~in_progress
      <4>1. timer' = Set("scan", Min({timer["scan"] + 1, 2}))
        BY <3>1, <3>4 DEF StartConnect, ScanGuarded
      <4>2. Min({timer["scan"] + 1, 2}) > 0
        BY OncePositive
      <4>3. timer'["scan"] > 0
        BY <4>1, <4>2
      <4>4. QED
        BY <4>3
    <3>5. QED
      BY <3>2, <3>3, <3>4
  <2>19. CASE \E e \in {"rxM1", "rxM3"} : RxEapol(e)
    <3>1. PICK e \in {"rxM1", "rxM3"} : RxEapol(e)
      BY <2>19
    <3>2. /\ appdata /\ wpa_state \in Associated3 /\ config = "wpa" /\ config' = config
          /\ evq # <<>> /\ Head(evq) = e
      BY <3>1 DEF RxEapol, Dropped
    <3>3. e = "rxM1" => owed # "confirm"
      <4>1. e = "rxM1" => Holds(evq, {"rxM1"})
        BY <3>2, HeadHolds DEF ConnInv
      <4>2. QED
        BY <4>1, <1>8
    <3>4. lead => lead2
      BY <3>2, <1>3, <1>11
    <3>5. CASE owed' \in Handshake
      <4>1. CASE e = "rxM1"
        BY <3>1, <3>2, <3>3, <3>5, <4>1 DEF RxEapol, Handshake
      <4>2. CASE e = "rxM3"
        BY <3>1, <3>2, <3>5, <4>2 DEF RxEapol, Handshake
      <4>3. QED
        BY <4>1, <4>2
    <3>6. CASE owed' \notin Handshake
      <4>1. Lose("handshake")
        BY <3>1, <3>2, <3>6 DEF RxEapol
      <4>2. Hope
        BY <4>1 DEF Lose
      <4>3. \A t \in {"scan", "join", "auto"} : timer'[t] = timer[t]
        BY <3>1, <3>2 DEF RxEapol, EapolTimers
      <4>4. UNCHANGED <<connect_ok, wpc, working>>
        BY <3>1 DEF RxEapol
      <4>5. QED
        BY <4>2, <4>3, <4>4, <3>4, <1>5
    <3>7. QED
      BY <3>5, <3>6
  <2>20. CASE \E found \in BOOLEAN : ScanEnd(found)
    <3>1. PICK found \in BOOLEAN : ScanEnd(found)
      BY <2>20
    <3>2. sta /\ ~connect_ok /\ enabled /\ ~Stopping
      BY <3>1 DEF ScanEnd
    <3>3. CASE scan_no_connect
      <4>1. timer["auto"] # 0 /\ timer' = Set("scan", 0)
        BY <3>1, <3>2, <3>3 DEF ScanEnd
      <4>2. timer'["auto"] > 0
        BY <4>1
      <4>3. QED
        BY <4>2
    <3>4. CASE ~scan_no_connect /\ ~scan_ok'
      <4>1. timer' = Set("scan", 1)
        BY <3>1, <3>2, <3>4 DEF ScanEnd
      <4>2. timer'["scan"] > 0
        BY <4>1
      <4>3. QED
        BY <4>2
    <3>5. CASE ~scan_no_connect /\ scan_ok'
      <4>1. QueueWork(join_work) /\ join_work' = join_work
        BY <3>1, <3>2, <3>5 DEF ScanEnd
      <4>2. join_work' \in work_map'
        BY <3>2, <4>1 DEF QueueWork
      <4>3. QED
        BY <4>2
    <3>6. QED
      BY <3>3, <3>4, <3>5
  <2>21. QED
    BY <1>11, <2>1, <2>2, <2>3, <2>4, <2>5, <2>6, <2>7, <2>8, <2>9, <2>10, <2>11, <2>12, <2>13,
     <2>14, <2>15, <2>16, <2>17, <2>18, <2>19, <2>20 DEF EventThread
<1>12. CASE TimerTask
  <2>1. CASE FireScan
    BY <2>1, <1>3, <1>5, <1>6, <1>7, <1>12 DEF FireScan
  <2>2. CASE TimerScan
    BY <2>2, <1>3, <1>5, <1>6, <1>7, <1>12 DEF TimerScan, QueueWork, Lose
  <2>3. CASE FireJoin
    <3>1. QueueOK /\ Post("CONNECT_FAIL") /\ "CONNECT_FAIL" \in Events
      BY <2>3 DEF FireJoin, ConnInv, Events, Acked
    <3>2. lead2
      BY <3>1, PostKeeps DEF lead2
    <3>3. QED
      BY <2>3, <3>2, <1>3, <1>7, <1>12 DEF FireJoin
  <2>4. CASE FireAssoc
    <3>1. QueueOK /\ evq' = evq \o DeauthPosts
      BY <2>4 DEF FireAssoc, ConnInv
    <3>2. auto_connect \/ lead => lead2
      BY <3>1, DeauthEndPosts DEF lead, lead2
    <3>3. QED
      BY <2>4, <3>2, <1>3, <1>6, <1>7, <1>12 DEF FireAssoc, WpaDeauthen, DeauthenTimers
  <2>5. CASE FireHandshake
    BY <2>5, <1>3, <1>5, <1>6, <1>7, <1>12 DEF FireHandshake, WpaDeauthen, DeauthenTimers, Lose
  <2>6. CASE FireAuto
    <3>1. CASE join_status = "STA"
      BY <2>6, <3>1 DEF FireAuto
    <3>2. CASE join_status # "STA"
      <4>1. StartOver(<<>>) /\ QueueOK
        BY <2>6, <3>2 DEF FireAuto, ConnInv
      <4>2. lead2
        BY <4>1, StartOverPosts DEF lead2
      <4>3. QED
        BY <4>2
    <3>3. QED
      BY <3>1, <3>2
  <2>7. CASE AutoConnect
    <3>1. StartOver(DeauthPosts) /\ QueueOK
      BY <2>7 DEF AutoConnect, ConnInv
    <3>2. lead2
      BY <3>1, StartOverPosts DEF lead2
    <3>3. QED
      BY <3>2
  <2>8. QED
    BY <1>12, <2>1, <2>2, <2>3, <2>4, <2>5, <2>6, <2>7 DEF TimerTask
<1>13. CASE WorkThread
  <2>1. CASE Take
    <3>1. NextWork \in work_map /\ NextWork \in WorkIds
      BY <2>1, NextWorkIsSet DEF Take, TakeWork, WorkTypeOK, ConnInv
    <3>2. /\ working = NoWork /\ work_map' = work_map \ {NextWork}
          /\ working' = IF work_queue_table[NextWork] = NoWork
                          THEN "null" ELSE work_queue_table[NextWork]
      BY <2>1 DEF Take, TakeWork
    <3>3. sta /\ ~Stopping =>
             /\ scan_work \in work_map => working' = "scan" \/ scan_work \in work_map'
             /\ join_work \in work_map => working' = "join" \/ join_work \in work_map'
      BY <3>2
    <3>4. QED
      BY <2>1, <3>2, <3>3, <1>3, <1>13 DEF Take
  <2>2. CASE NullWork
    BY <2>2, <1>3, <1>5, <1>6, <1>7, <1>13 DEF NullWork
  <2>3. CASE ApScanWork
    BY <2>3, <1>3, <1>5, <1>6, <1>7, <1>13 DEF ApScanWork
  <2>4. CASE ScanWork
    BY <2>4, <1>3, <1>5, <1>6, <1>7, <1>13 DEF ScanWork, Lose
  <2>5. CASE JoinStart
    BY <2>5, <1>3, <1>5, <1>6, <1>7, <1>13 DEF JoinStart, Lose
  <2>6. CASE JoinDone
    BY <2>6, <1>3, <1>5, <1>6, <1>7, <1>13 DEF JoinDone
  <2>7. CASE JoinArm
    <3>1. Min({timer["join"] + 1, 2}) > 0
      BY OncePositive
    <3>2. timer'["join"] > 0
      BY <2>7, <3>1 DEF JoinArm
    <3>3. QED
      BY <3>2
  <2>8. CASE EventWork
    BY <2>8, <1>3, <1>5, <1>6, <1>7, <1>13 DEF EventWork, DeauthBegin
  <2>9. CASE EventWorkEnd
    <3>1. QueueOK /\ evq' = evq \o DeauthPosts
      BY <2>9 DEF EventWorkEnd, ConnInv
    <3>2. auto_connect \/ lead => lead2
      BY <3>1, DeauthEndPosts DEF lead, lead2
    <3>3. QED
      BY <2>9, <3>2, <1>3, <1>6, <1>7, <1>13 DEF EventWorkEnd, DeauthEnd, DeauthenTimers
  <2>10. QED
    BY <1>13, <2>1, <2>2, <2>3, <2>4, <2>5, <2>6, <2>7, <2>8, <2>9 DEF WorkThread
<1>14. CASE Outside
  <2>1. CASE ApAnswer
    <3>1. PICK e \in Answers(owed) :
             /\ Post(e)
             /\ owed' = CASE e \in {"rxM1", "rxM3"} -> owed
                          [] e = "rxAssoc" /\ config = "wpa" -> "m1"
                          [] OTHER -> "none"
      BY <2>1 DEF ApAnswer
    <3>2. owed = "confirm" => eap2
      <4>1. "EAP_TX_STATUS" \in Events /\ QueueOK
        BY DEF Events, ConnInv
      <4>2. owed = "confirm" => Post("EAP_TX_STATUS")
        BY <3>1 DEF Answers
      <4>3. QED
        BY <4>1, <4>2, PostKeeps DEF eap2
    <3>3. owed \in {"m1", "m3"} => owed' = owed
      BY <3>1 DEF Answers
    <3>4. QED
      BY <2>1, <3>2, <3>3, <1>3, <1>14 DEF ApAnswer
  <2>2. CASE Silence
    BY <2>2, <1>3, <1>5, <1>6, <1>7, <1>14 DEF Silence, Lose, Handshake
  <2>3. CASE ApDeauth
    <3>1. QueueOK /\ Post("rxDeauth") /\ "rxDeauth" \in Events
      BY <2>3 DEF ApDeauth, ConnInv, Events, Acked
    <3>2. away2
      BY <3>1, PostKeeps DEF away2
    <3>3. QED
      BY <2>3, <3>2, <1>3, <1>7, <1>14 DEF ApDeauth
  <2>4. CASE BssLost
    BY <2>4, <1>3, <1>5, <1>6, <1>7, <1>14 DEF BssLost, QueueWork
  <2>5. CASE FwScanEnd
    <3>1. /\ QueueOK /\ {"SCAN_FOUND", "SCAN_NONE"} \subseteq Events
          /\ Post("SCAN_FOUND") \/ Post("SCAN_NONE")
      BY <2>5 DEF FwScanEnd, ConnInv, Events
    <3>2. lead2
      BY <3>1, PostKeeps DEF lead2
    <3>3. QED
      BY <3>2
  <2>6. QED
    BY <1>14, <2>1, <2>2, <2>3, <2>4, <2>5 DEF Outside
<1>15. CASE User
  <2>1. CASE \E mode \in Modes : UserConnect(mode)
    <3>1. QueueOK /\ "USER_CONNECT" \in Events /\ Post("USER_CONNECT")
      BY <2>1 DEF UserConnect, ConnInv, Events
    <3>2. lead2
      BY <3>1, PostKeeps DEF lead2
    <3>3. QED
      BY <3>2
  <2>2. CASE \E e \in Acked : UserAsks(e)
    BY <2>2, <1>3, <1>5, <1>6, <1>7, <1>15 DEF UserAsks
  <2>3. CASE UserDisconnect
    BY <2>3, <1>3, <1>5, <1>6, <1>7, <1>15 DEF UserDisconnect, DeauthBegin
  <2>4. CASE UserDisconnected
    <3>1. QueueOK /\ evq' = evq \o DeauthPosts
      BY <2>4 DEF UserDisconnected, ConnInv
    <3>2. auto_connect \/ lead => lead2
      BY <3>1, DeauthEndPosts DEF lead, lead2
    <3>3. QED
      BY <2>4, <3>2, <1>3, <1>6, <1>7, <1>15 DEF UserDisconnected, DeauthEnd, DeauthenTimers
  <2>5. QED
    BY <1>15, <2>1, <2>2, <2>3, <2>4 DEF User
<1>16. QED
  BY <1>11, <1>12, <1>13, <1>14, <1>15 DEF Next

\* Nothing is wanted at first.
LEMMA InitWay == Init => WayInv
<1>1. ASSUME Init
      PROVE  \A E : ~Holds(evq, E)
  BY <1>1 DEF Init, Holds
<1>2. ASSUME Init
      PROVE  M1Once(evq)
  BY <1>2 DEF Init, M1Once
<1>3. QED
  BY <1>1, <1>2 DEF Init, WayInv, WorkStages, OffWants, Guarded, AssocOK, AutoOn, OneM1, WayOn,
     Associated3

LEMMA NextWay == ConnInv /\ WayInv /\ [Next]_vars => WayInv'
<1>1. ASSUME ConnInv, WayInv, Next
      PROVE  WayInv'
  BY <1>1, StagesKept, AssocKept, OneM1Kept, WayKept DEF WayInv
<1>2. ASSUME WayInv, UNCHANGED vars
      PROVE  WayInv'
  BY <1>2 DEF vars, WayInv, WorkStages, OffWants, Guarded, AssocOK, AutoOn, OneM1, WayOn, Leads,
     ScanAhead, Handshaking, SentAway
<1>3. QED
  BY <1>1, <1>2

\* What leads on is there in a state that the invariants allow.
LEMMA WayShown == ConnInv /\ WayInv => WayBack
<1> SUFFICES ASSUME ConnInv, WayInv, sta, wanted, ~connect_ok, crash = "no", lost = {}, ThreadsIdle
             PROVE  \/ fwScan
                    \/ \E t \in Timers \ {"handshake"} : timer[t] > 0
                    \/ Queued({"USER_CONNECT", "START_CONNECT", "CONNECT_FAIL", "SCAN_FOUND",
                               "SCAN_NONE", "DEINIT", "rxDeauth", "EAP_TX_STATUS"})
                    \/ {scan_work, join_work} \cap work_map # {}
                    \/ owed \in Handshake
  BY DEF WayBack
<1>1. Leads \/ Handshaking \/ SentAway
  BY DEF WayInv, WayOn
<1>2. CASE Holds(evq, Leaders)
  BY <1>2 DEF Holds, Leaders, Again, Queued
<1>3. CASE Leads /\ ~Holds(evq, Leaders)
  <2>1. ~Stopping /\ evpc # "deauth" /\ tpc = "idle" /\ upc # "deauth"
    BY DEF ThreadsIdle
  <2>2. working = NoWork /\ NoWork \notin {"scan", "join", "event"}
    BY WorksAssumption, ConnectAssumption DEF ThreadsIdle
  <2>3. wpc # "deauth"
    BY <2>2 DEF WayInv, WorkStages
  <2>4. \/ fwScan \/ scan_work \in work_map \/ join_work \in work_map
        \/ \E t \in {"scan", "join", "assoc", "auto"} : timer[t] > 0
    BY <1>3, <2>1, <2>2, <2>3 DEF Leads, ScanAhead
  <2>5. QED
    BY <2>4 DEF Timers
<1>4. CASE Handshaking
  <2>1. CASE owed \in Handshake
    BY <2>1
  <2>2. CASE Holds(evq, {"EAP_TX_STATUS"})
    BY <2>2 DEF Holds, Queued
  <2>3. QED
    BY <1>4, <2>1, <2>2 DEF Handshaking, Handshake
<1>5. CASE SentAway
  BY <1>5 DEF SentAway, Holds, Queued
<1>6. QED
  BY <1>1, <1>2, <1>3, <1>4, <1>5

\* The invariant of the way back: what leads on is used up only by a step that
\* leaves something else that leads on, or a cause in lost.
THEOREM WayCorrect == Spec => [](ConnInv /\ WayInv)
<1>1. Init => ConnInv /\ WayInv
  BY InitConn, InitWay
<1>2. ConnInv /\ WayInv /\ [Next]_vars => (ConnInv /\ WayInv)'
  BY NextConn, NextWay
<1>3. QED
  BY <1>1, <1>2, PTL DEF Spec

\* A station that was asked to connect and is not connected has something that
\* leads on, unless the code has dropped the thread in one of the ways that lost
\* names (WayBack).
THEOREM WayIsThere == Spec => []WayBack
<1>1. ConnInv /\ WayInv => WayBack
  BY WayShown
<1>2. QED
  BY <1>1, WayCorrect, PTL
=============================================================================
