------------------------------- MODULE Connect -------------------------------
(***************************************************************************)
(* A station's way to its access point and back to it (hal/atbm_sta.c,     *)
(* net/atbm_connect.c, net/atbm_mgmt.c, net/wpa/wpa_main.c): scan, join,   *)
(* authenticate, associate, shake hands, and start over when something     *)
(* fails.  Five threads take part: the event thread with its queue, the    *)
(* timer task, the work thread (WorkQueue), rx_bh, which only posts        *)
(* events, and the user.  A call that waits for the firmware is where the  *)
(* others get in between.  Durations are left out, but a timer that fires  *)
(* while an answer is still on its way counts as a fault.                  *)
(***************************************************************************)
EXTENDS WorkQueue, Sequences, SequencesExt

CONSTANTS
    Modes,          \* what the user asks for: "open", "wpa"
    MaxTrouble,     \* bound: what the user does and what goes wrong, together
    MaxQueue        \* bound: events before the outside posts no more

ASSUME ConnectAssumption ==
    /\ {"event", "scan", "join", "apscan"} = Works
    /\ Modes \subseteq {"open", "wpa"}
    /\ {MaxTrouble, MaxQueue} \subseteq Nat /\ MaxWorks >= Cardinality(Works)

VARIABLES
    sta, enabled, appdata,      \* iftype is station, priv->enabled, the supplicant exists
    config,                     \* the network asked for: a mode, or "none" (ssid_len is 0)
    scan_work, join_work,       \* the indices kept from atbm_init_work
    auto_connect,               \* auto_connect_when_lost
    scan_no_connect, scan_back, \* scan_no_connect and scan_no_connect_back
    in_progress, scan_ok,       \* scan.in_progress; scan.status is SUCCESS
    join_status,                \* "PASSIVE" or "STA"
    assoc_ok, connect_ok, wpa_state,
    eapol_received,             \* eapol_received > 0
    timer,                      \* how many of each station timer are armed
    evq,                        \* the event thread's queue
    evpc, tpc, wpc, upc,        \* where each thread is
    fwScan, fwJoined,           \* the firmware scans, is joined
    owed,                       \* what the access point or the firmware answers next
    trouble,                    \* how much of MaxTrouble is used
    wanted,                     \* history: the user asked for a connection
    lost,                       \* history: why nothing leads back to it
    raced, cancelled,           \* history: see Calm and StopQuiet, OwnWork
    crash                       \* a null pointer was used

iface   == <<sta, enabled, appdata, config, scan_work, join_work>>
scanVars == <<scan_no_connect, scan_back, in_progress, scan_ok>>
link    == <<join_status, assoc_ok, connect_ok>>
fw      == <<fwScan, fwJoined>>
pcs     == <<evpc, tpc, wpc, upc>>
history == <<wanted, lost, raced, cancelled>>
vars    == <<workVars, iface, auto_connect, scanVars, link, wpa_state, eapol_received,
             timer, evq, pcs, fw, owed, trouble, history, crash>>

Timers == {"scan", "join", "assoc", "handshake", "auto"}
States == <<"DISCONNECTED", "SCANNING", "AUTHENTICATING", "ASSOCIATING", "ASSOCIATED",
            "4WAY_HANDSHAKE", "COMPLETED">>
Rank(s) == CHOOSE k \in 1 .. Len(States) : States[k] = s
AtLeast(s) == Rank(wpa_state) >= Rank(s)

Init ==
    /\ WorkInit([id \in WorkIds |-> IF id = 0 THEN "event" ELSE IF id = 1 THEN "scan"
                                    ELSE IF id = 2 THEN "join" ELSE NoWork])
    /\ sta = TRUE /\ enabled = TRUE /\ appdata = TRUE /\ config = "none"
    /\ scan_work = 1 /\ join_work = 2
    /\ auto_connect = FALSE
    /\ scan_no_connect = FALSE /\ scan_back = FALSE /\ in_progress = FALSE /\ scan_ok = FALSE
    /\ join_status = "PASSIVE" /\ assoc_ok = FALSE /\ connect_ok = FALSE
    /\ wpa_state = "DISCONNECTED" /\ eapol_received = FALSE
    /\ timer = [t \in Timers |-> 0] /\ evq = <<>>
    /\ evpc = "idle" /\ tpc = "idle" /\ wpc = "start" /\ upc = "idle"
    /\ fwScan = FALSE /\ fwJoined = FALSE /\ owed = "none"
    /\ trouble = 0
    /\ wanted = FALSE /\ lost = {} /\ raced = FALSE /\ cancelled = FALSE /\ crash = "no"

-----------------------------------------------------------------------------
(* What several handlers do.                                                *)

\* A null pointer is the end of all threads.
Up == crash = "no"

Trouble == trouble < MaxTrouble /\ trouble' = trouble + 1
Fault == Trouble
NoFault == UNCHANGED trouble

\* in_progress is left behind by a scan that was never started.
Queued(E) == \E k \in 1 .. Len(evq) : evq[k] \in E
Stuck == in_progress /\ ~fwScan /\ timer["scan"] = 0 /\ ~Queued({"SCAN_FOUND", "SCAN_NONE"})

Post(e) == evq' = Append(evq, e)
Set(t, n) == [timer EXCEPT ![t] = n]

\* Something else still leads to a connection; otherwise the cause is noted.
Hope ==
    \/ connect_ok \/ wpc = "arm" \/ \E t \in {"scan", "join", "auto"} : timer[t] > 0
    \/ Queued({"USER_CONNECT", "START_CONNECT", "CONNECT_FAIL"})
Lose(cause) == lost' = IF Hope THEN lost ELSE lost \cup {cause}

\* wpa_deauthen: a deauthentication goes out, both timers of the supplicant
\* stop.  It uses the supplicant without a look whether there is one.
DeauthenTimers == [timer EXCEPT !["assoc"] = 0, !["handshake"] = 0]
WpaDeauthen ==
    /\ wpa_state' = "DISCONNECTED"
    /\ owed' = IF AtLeast("AUTHENTICATING") THEN "none" ELSE owed

\* sta_deauth, first the firmware ...
DeauthBegin ==
    /\ join_status' = "PASSIVE" /\ fwJoined' = FALSE
    /\ owed' = "none"
\* ... then, when it has answered, the supplicant and the way back.
\* Mutant: nobody starts over.
DeauthAlone == <<>>
DeauthPosts == IF auto_connect THEN <<"CONNECT_FAIL">> ELSE <<>>
DeauthEnd ==
    /\ crash' = IF appdata THEN crash ELSE "supplicant"
    /\ wpa_state' = "DISCONNECTED"
    /\ timer' = [DeauthenTimers EXCEPT !["join"] = 0]
    /\ assoc_ok' = FALSE /\ connect_ok' = FALSE

-----------------------------------------------------------------------------
(* The event thread: atbm_wpa_event_process.                                *)

Acked == {"SCAN", "DEINIT", "INIT", "INIT_OTHER"}
Events == Acked \cup {"USER_CONNECT", "START_CONNECT", "SCAN_FOUND", "SCAN_NONE", "AUTHEN",
                      "ASSOCIAT", "CONNECT_FAIL", "EAP_TX_STATUS", "rxAuth", "rxAuthFail",
                      "rxAssoc", "rxAssocFail", "rxM1", "rxM3", "rxDeauth"}
Ev(e) == Up /\ evpc = "idle" /\ evq # <<>> /\ Head(evq) = e
Handled == evq' = Tail(evq)

\* An event for a station that is off, or a frame nothing waits for.  The
\* access point repeats a message of the handshake that is not answered, and
\* gives up.
Dropped(e) ==
    \/ e \in {"USER_CONNECT", "START_CONNECT", "AUTHEN", "ASSOCIAT", "CONNECT_FAIL", "SCAN",
              "DEINIT", "EAP_TX_STATUS"} /\ ~sta
    \/ e = "INIT" /\ sta
    \/ e = "INIT_OTHER" /\ \E id \in WorkIds : work_queue_table[id] = "apscan"
    \/ e = "SCAN" /\ ((~assoc_ok /\ join_status = "STA") \/ in_progress)
    \/ e = "ASSOCIAT" /\ wpa_state # "AUTHENTICATING"
    \/ e = "rxDeauth" /\ ~assoc_ok /\ join_status # "STA"
    \/ e \in {"rxM1", "rxM3"} /\ appdata /\ (~AtLeast("ASSOCIATED") \/ config # "wpa")
    \/ e = "EAP_TX_STATUS" /\ wpa_state # "COMPLETED"
Drop ==
    /\ Up /\ evpc = "idle" /\ evq # <<>> /\ Dropped(Head(evq))
    /\ Handled
    /\ owed' = IF Head(evq) \in {"rxM1", "rxM3"} THEN "none" ELSE owed
    /\ UNCHANGED <<workVars, iface, auto_connect, scanVars, link, wpa_state, eapol_received,
                   timer, pcs, fw, trouble, history, crash>>

Takes(e) == Ev(e) /\ ~Dropped(e)

\* atbmwifi_wpa_event_associte_ap, for the user or for __atbmwifi_autoconnect.
ScanGuarded == IF in_progress THEN timer ELSE Set("scan", Min({timer["scan"] + 1, 2}))
StartConnect(e) ==
    /\ Takes(e) /\ Handled
    /\ scan_no_connect' = FALSE /\ scan_back' = FALSE
    /\ auto_connect' = TRUE
    /\ wpa_state' = "SCANNING"
    /\ timer' = ScanGuarded
    /\ wanted' = (wanted \/ e = "USER_CONNECT")
    /\ \/ QueueWork(scan_work) /\ NoFault
       \/ Fault /\ UNCHANGED <<work_map, asked>>
    /\ lost' = IF Stuck THEN {"scan"} ELSE {}
    /\ UNCHANGED <<work_queue_table, work_id, working, wrongWork, iface, in_progress, scan_ok,
                   link, eapol_received, pcs, fw, owed, raced, cancelled, crash>>

\* atbmwifi_scan_process: the user's scan borrows scan_no_connect.
UserScan ==
    /\ Takes("SCAN") /\ Handled
    /\ scan_back' = scan_no_connect /\ scan_no_connect' = TRUE
    /\ \/ QueueWork(scan_work) /\ NoFault
       \/ Fault /\ UNCHANGED <<work_map, asked>>
    /\ UNCHANGED <<work_queue_table, work_id, working, wrongWork, iface, auto_connect,
                   in_progress, scan_ok, link, wpa_state, eapol_received, timer, pcs, fw, owed, history, crash>>

\* atbmwifi_scan_comlete; the beacons that came before it are part of it.  The
\* timer that guards the scan, or waits for the next one, is cancelled.
ScanEnd(found) ==
    LET seen  == scan_ok \/ (found /\ in_progress /\ ~scan_no_connect /\ config # "none")
        again == ~seen /\ ~scan_no_connect
        join  == seen /\ ~scan_no_connect
    IN /\ Ev(IF found THEN "SCAN_FOUND" ELSE "SCAN_NONE") /\ Handled
       /\ in_progress' = FALSE /\ scan_ok' = seen
       /\ IF ~enabled
            THEN UNCHANGED <<timer, work_map, asked, lost, scan_no_connect>>
            ELSE /\ timer' = Set("scan", IF again THEN 1 ELSE 0)
                 /\ IF join THEN QueueWork(join_work) ELSE UNCHANGED <<work_map, asked>>
                 /\ lost' = IF scan_no_connect /\ ~connect_ok /\ timer["auto"] = 0
                              THEN lost \cup {"userScan"} ELSE lost
                 /\ scan_no_connect' = scan_back
       /\ UNCHANGED <<work_queue_table, work_id, working, wrongWork, iface, auto_connect,
                      scan_back, link, wpa_state, eapol_received, pcs, fw, owed, trouble,
                      wanted, raced, cancelled, crash>>

\* __wpa_prepare_auth.
Authen ==
    /\ Takes("AUTHEN") /\ Handled
    /\ wpa_state' = "AUTHENTICATING"
    /\ timer' = Set("assoc", 1)
    /\ owed' = IF fwJoined THEN "auth" ELSE owed
    /\ raced' = (raced \/ timer["assoc"] + timer["handshake"] > 0)
    /\ UNCHANGED <<workVars, iface, auto_connect, scanVars, link, eapol_received, pcs, fw,
                   trouble, wanted, lost, cancelled, crash>>

\* atbmwifi_rx_sta_mgmtframe: an authentication frame that succeeds.
RxAuth ==
    /\ Ev("rxAuth")
    /\ evq' = Append(Tail(evq), "ASSOCIAT")
    /\ UNCHANGED <<workVars, iface, auto_connect, scanVars, link, wpa_state, eapol_received,
                   timer, pcs, fw, owed, trouble, history, crash>>

\* __wpa_prepare_assciating, which may find no memory.
Assciate ==
    /\ Takes("ASSOCIAT") /\ Handled
    /\ \/ /\ NoFault
          /\ wpa_state' = "ASSOCIATING"
          /\ owed' = IF fwJoined THEN "assoc" ELSE owed
       \/ Fault /\ UNCHANGED <<wpa_state, owed>>
    /\ UNCHANGED <<workVars, iface, auto_connect, scanVars, link, eapol_received, timer, pcs,
                   fw, history, crash>>

\* The access point refuses to authenticate or to associate the station.
Refused(e, posts) ==
    /\ Ev(e)
    /\ crash' = IF appdata THEN crash ELSE "supplicant"
    /\ WpaDeauthen
    /\ timer' = DeauthenTimers
    /\ evq' = Tail(evq) \o posts
    /\ UNCHANGED <<workVars, iface, auto_connect, scanVars, join_status, eapol_received, pcs,
                   fw, trouble, wanted, raced, cancelled>>
\* The first is left to the join timer, the second connects anew.
RxAuthFail ==
    /\ Refused("rxAuthFail", <<>>)
    /\ Lose("auth")
    /\ UNCHANGED <<assoc_ok, connect_ok>>
RxAssocFail ==
    /\ Refused("rxAssocFail", DeauthPosts)
    /\ assoc_ok' = FALSE /\ connect_ok' = FALSE
    /\ UNCHANGED lost

\* atbmwifi_assoc_success and __wpa_supplicant_event_assoc, whatever the state.
\* Mutant: the timer that guards the association keeps running.
AssociatedLate(t) == [timer EXCEPT !["assoc"] = t]
Associated(t) == [timer EXCEPT !["join"] = 0, !["assoc"] = t]
RxAssoc ==
    /\ Ev("rxAssoc") /\ Handled
    /\ \/ /\ NoFault
          /\ assoc_ok' = TRUE
          /\ raced' = (raced \/ wpa_state # "ASSOCIATING")
          /\ IF ~sta
               THEN timer' = Set("join", 0) /\ UNCHANGED <<wpa_state, connect_ok>>
               ELSE IF config = "wpa"
               THEN /\ timer' = Associated(1)
                    /\ wpa_state' = "ASSOCIATED" /\ UNCHANGED connect_ok
               ELSE /\ timer' = Associated(0)
                    /\ wpa_state' = "COMPLETED" /\ connect_ok' = TRUE
       \/ \* a command of the firmware fails
          (Fault \/ (~fwJoined /\ NoFault))
          /\ UNCHANGED <<timer, assoc_ok, connect_ok, wpa_state, raced>>
    /\ lost' = IF connect_ok' THEN {} ELSE lost
    /\ UNCHANGED <<workVars, iface, auto_connect, scanVars, join_status, eapol_received, pcs,
                   fw, owed, wanted, cancelled, crash>>

\* What the access point owes in the middle of a handshake.
Handshake == {"m1", "m3", "confirm"}

\* atbmwifi_wpa_supplicant_rx_eapol: any message stops the association's timer;
\* the handshake's own timer is started only for the first EAPOL frame of the
\* supplicant's life.  The supplicant is used without a look whether it exists.
EapolTimers == [timer EXCEPT !["assoc"] = 0,
                             !["handshake"] = IF eapol_received THEN @ ELSE 1]
RxEapol(e) ==
    /\ Takes(e) /\ Handled
    /\ IF ~appdata
         THEN /\ crash' = "supplicant"
              /\ UNCHANGED <<timer, eapol_received, wpa_state, owed, lost>>
         ELSE /\ eapol_received' = TRUE
              /\ CASE e = "rxM1" ->
                        /\ timer' = EapolTimers
                        /\ wpa_state' = "4WAY_HANDSHAKE"
                        /\ owed' = IF owed = "m1" THEN "m3" ELSE owed
                   [] e = "rxM3" /\ AtLeast("4WAY_HANDSHAKE") ->
                        /\ timer' = [EapolTimers EXCEPT !["handshake"] = 0]
                        /\ wpa_state' = "COMPLETED"
                        /\ owed' = IF owed = "m3" THEN "confirm" ELSE owed
                   [] OTHER -> timer' = EapolTimers /\ owed' = "none" /\ UNCHANGED wpa_state
              /\ IF owed' \in Handshake THEN UNCHANGED lost ELSE Lose("handshake")
              /\ UNCHANGED crash
    /\ UNCHANGED <<workVars, iface, auto_connect, scanVars, link, pcs, fw, trouble, wanted,
                   raced, cancelled>>

\* wpa_supplicant_rx_eap_status.
EapTxStatus ==
    /\ Takes("EAP_TX_STATUS") /\ Handled
    /\ connect_ok' = assoc_ok
    /\ lost' = {}
    /\ UNCHANGED <<workVars, iface, auto_connect, scanVars, join_status, assoc_ok, wpa_state,
                   eapol_received, timer, pcs, fw, owed, trouble, wanted, raced, cancelled,
                   crash>>

\* A deauthentication or disassociation of the access point.
RxDeauth ==
    /\ Takes("rxDeauth") /\ Handled
    /\ DeauthBegin
    /\ evpc' = "deauth"
    /\ UNCHANGED <<workVars, iface, auto_connect, scanVars, assoc_ok, connect_ok, wpa_state,
                   eapol_received, timer, tpc, wpc, upc, fwScan, trouble, history, crash>>
EvDeauthEnd ==
    /\ Up /\ evpc = "deauth"
    /\ evpc' = "idle"
    /\ DeauthEnd
    /\ evq' = evq \o DeauthPosts
    /\ UNCHANGED <<workVars, iface, auto_connect, scanVars, join_status, eapol_received, tpc,
                   wpc, upc, fw, owed, trouble, history>>

\* atbmwifi_wpa_event_connect_fail.
ConnectFail ==
    /\ Takes("CONNECT_FAIL") /\ Handled
    /\ timer' = Set("auto", 1)
    /\ UNCHANGED <<workVars, iface, auto_connect, scanVars, link, wpa_state, eapol_received,
                   pcs, fw, owed, trouble, history, crash>>

\* atbmwifi_stop_sta: timers and works are cancelled and the queues flushed ...
\* Mutants: the scan timer stays; one of the timers of a kind is cancelled.
StopJoinTimer == Set("join", 0)
StopOneOfEach == [timer EXCEPT !["join"] = @ - 1, !["scan"] = @ - 1]
StopTimers == [timer EXCEPT !["join"] = 0, !["scan"] = 0]
StopBegin ==
    /\ Takes("DEINIT") /\ Handled
    /\ timer' = StopTimers
    /\ work_queue_table' = Cancelled(Cancelled(work_queue_table, scan_work), join_work)
    /\ evpc' = "flush"
    /\ cancelled' = (cancelled \/ {scan_work, join_work} \cap work_map # {})
    /\ raced' = (raced \/ working = "join")
    /\ UNCHANGED <<work_map, work_id, working, asked, wrongWork, iface, auto_connect, scanVars,
                   link, wpa_state, eapol_received, tpc, wpc, upc, fw, owed, trouble,
                   wanted, lost, crash>>
\* ... the interface is disabled and deauthenticated ...
StopDisable ==
    /\ Up /\ evpc = "flush"
    /\ auto_connect' = FALSE /\ enabled' = FALSE
    /\ DeauthBegin
    /\ evpc' = "stop"
    /\ UNCHANGED <<workVars, sta, appdata, config, scan_work, join_work, scanVars, assoc_ok,
                   connect_ok, wpa_state, eapol_received, timer, evq, tpc, wpc, upc, fwScan,
                   trouble, history, crash>>
\* ... and the supplicant is freed.
StopEnd ==
    /\ Up /\ evpc = "stop"
    /\ DeauthEnd
    /\ evpc' = "idle"
    /\ join_status' = "PASSIVE" /\ auto_connect' = FALSE
    /\ config' = "none" /\ appdata' = FALSE /\ sta' = FALSE
    /\ eapol_received' = FALSE
    /\ wanted' = FALSE /\ lost' = {}
    /\ UNCHANGED <<workVars, enabled, scan_work, join_work, scanVars, evq, tpc, wpc, upc, fw,
                   owed, trouble, raced, cancelled>>

\* atbmwifi_start_sta.
Start ==
    LET t == Registered(work_queue_table, "scan")
    IN /\ Takes("INIT") /\ Handled
       /\ sta' = TRUE /\ enabled' = TRUE /\ appdata' = TRUE
       /\ scan_work' = FirstUnused(work_queue_table)
       /\ join_work' = FirstUnused(t)
       /\ work_queue_table' = Registered(t, "join")
       /\ UNCHANGED <<work_map, work_id, working, asked, wrongWork, config, auto_connect,
                      scanVars, link, wpa_state, eapol_received, timer, pcs, fw, owed,
                      trouble, history, crash>>

\* atbmwifi_start_ap of the other interface, for its work only.
StartOther ==
    /\ Takes("INIT_OTHER") /\ Handled
    /\ work_queue_table' = Registered(work_queue_table, "apscan")
    /\ UNCHANGED <<work_map, work_id, working, asked, wrongWork, iface, auto_connect, scanVars,
                   link, wpa_state, eapol_received, timer, pcs, fw, owed, trouble, history,
                   crash>>

EventThread ==
    \/ Drop \/ UserScan \/ Authen \/ RxAuth \/ Assciate \/ RxAuthFail \/ RxAssocFail
    \/ RxAssoc \/ EapTxStatus \/ RxDeauth \/ EvDeauthEnd \/ ConnectFail
    \/ StopBegin \/ StopDisable \/ StopEnd \/ Start \/ StartOther
    \/ \E e \in {"USER_CONNECT", "START_CONNECT"} : StartConnect(e)
    \/ \E e \in {"rxM1", "rxM3"} : RxEapol(e)
    \/ \E found \in BOOLEAN : ScanEnd(found)

-----------------------------------------------------------------------------
(* The timer task: __atbmwifi_eloop_run calls what has expired.             *)

\* Something is still on its way that a patient timer would wait for.
UnderWay ==
    \/ owed # "none" \/ evq # <<>> \/ fwScan \/ working # NoWork \/ work_map # {}
    \/ {evpc, upc} # {"idle"}
Fires(t) ==
    /\ Up /\ tpc = "idle" /\ timer[t] > 0
    /\ IF UnderWay THEN Fault ELSE NoFault

\* sta_scan_start_timer_func, up to the firmware's answer ...
FireScan ==
    /\ Fires("scan")
    /\ IF sta
         THEN /\ timer' = Set("scan", timer["scan"] - 1)
              /\ scan_ok' = (scan_ok /\ ~in_progress) /\ in_progress' = FALSE
              /\ tpc' = "scan"
         ELSE timer' = Set("scan", 0) /\ UNCHANGED <<scan_ok, in_progress, tpc>>
    /\ UNCHANGED <<workVars, iface, auto_connect, scan_no_connect, scan_back, link, wpa_state,
                   eapol_received, evq, evpc, wpc, upc, fw, owed, history, crash>>
\* ... and after it.
TimerScan ==
    /\ Up /\ tpc = "scan" /\ tpc' = "idle"
    /\ \/ QueueWork(scan_work) /\ NoFault /\ UNCHANGED lost
       \/ /\ Fault /\ UNCHANGED <<work_map, asked>>
          /\ Lose("scan")
    /\ UNCHANGED <<work_queue_table, work_id, working, wrongWork, iface, auto_connect, scanVars,
                   link, wpa_state, eapol_received, timer, evq, evpc, wpc, upc, fw, owed,
                   wanted, raced, cancelled, crash>>

\* atbmwifi_sta_join_timeout.
FireJoin ==
    /\ Fires("join")
    /\ timer' = Set("join", timer["join"] - 1)
    /\ Post("CONNECT_FAIL")
    /\ UNCHANGED <<workVars, iface, auto_connect, scanVars, link, wpa_state, eapol_received,
                   pcs, fw, owed, history, crash>>

\* wpa_authen_assc_timeout, which connects anew.
FireAssoc ==
    /\ Fires("assoc")
    /\ crash' = IF appdata THEN crash ELSE "supplicant"
    /\ WpaDeauthen /\ timer' = DeauthenTimers
    /\ evq' = evq \o DeauthPosts
    /\ UNCHANGED <<workVars, iface, auto_connect, scanVars, link, eapol_received, pcs, fw,
                   history>>

\* wpa_supplicant_timeout, which does not.
FireHandshake ==
    /\ Fires("handshake")
    /\ crash' = IF appdata THEN crash ELSE "supplicant"
    /\ WpaDeauthen /\ timer' = DeauthenTimers
    /\ Lose("handshake")
    /\ UNCHANGED <<workVars, iface, auto_connect, scanVars, link, eapol_received, evq, pcs, fw, wanted, raced, cancelled>>

\* __atbmwifi_autoconnect: leave what is joined, which takes a while ...
StartOver(posts) ==
    /\ evq' = evq \o posts \o <<"START_CONNECT">>
    /\ scan_no_connect' = FALSE /\ assoc_ok' = FALSE
FireAuto ==
    /\ Fires("auto")
    /\ timer' = Set("auto", 0)
    /\ auto_connect' = FALSE
    /\ IF join_status = "STA"
         THEN DeauthBegin /\ tpc' = "deauth" /\ UNCHANGED <<evq, scan_no_connect, assoc_ok>>
         ELSE StartOver(<<>>) /\ UNCHANGED <<tpc, join_status, fwJoined, owed>>
    /\ UNCHANGED <<workVars, iface, scan_back, in_progress, scan_ok, connect_ok, wpa_state,
                   eapol_received, evpc, wpc, upc, fwScan, history, crash>>
\* ... and start over.
AutoConnect ==
    /\ Up /\ tpc = "deauth" /\ tpc' = "idle"
    /\ DeauthEnd /\ StartOver(DeauthPosts)
    /\ UNCHANGED <<workVars, iface, auto_connect, scan_back, in_progress, scan_ok, join_status,
                   eapol_received, evpc, wpc, upc, fw, owed, trouble, history>>

TimerTask ==
    \/ FireScan \/ TimerScan \/ FireJoin \/ FireAssoc \/ FireHandshake \/ FireAuto \/ AutoConnect

-----------------------------------------------------------------------------
(* The work thread.                                                         *)

Take ==
    /\ Up /\ TakeWork
    /\ UNCHANGED <<iface, auto_connect, scanVars, link, wpa_state, eapol_received, timer, evq,
                   pcs, fw, owed, trouble, history, crash>>

Runs(fun, pc) == Up /\ working = fun /\ wpc = pc
Return == WorkReturns /\ wpc' = "start" /\ UNCHANGED <<work_queue_table, work_map, asked, wrongWork>>

\* A cancelled entry has no function: the call goes nowhere.
NullWork ==
    /\ Runs("null", "start") /\ Return
    /\ crash' = "work"
    /\ UNCHANGED <<iface, auto_connect, scanVars, link, wpa_state, eapol_received, timer, evq,
                   evpc, tpc, upc, fw, owed, trouble, history>>

\* atbmwifi_ap_scan_start of the other interface: nothing of this one.
ApScanWork ==
    /\ Runs("apscan", "start") /\ Return
    /\ UNCHANGED <<iface, auto_connect, scanVars, link, wpa_state, eapol_received, timer, evq,
                   evpc, tpc, upc, fw, owed, trouble, history, crash>>

\* atbm_scan_work and atbmwifi_scan_start: no memory leaves in_progress set, a
\* command that fails clears it.
ScanWork ==
    /\ Runs("scan", "start") /\ Return
    /\ \/ in_progress /\ NoFault /\ UNCHANGED <<in_progress, scan_ok, fwScan, lost>>
       \/ /\ ~in_progress /\ NoFault
          /\ in_progress' = TRUE /\ scan_ok' = FALSE /\ fwScan' = TRUE
          /\ UNCHANGED lost
       \/ /\ ~in_progress /\ Fault
          /\ in_progress' \in BOOLEAN /\ scan_ok' = FALSE
          /\ Lose("scan")
          /\ UNCHANGED fwScan
    /\ UNCHANGED <<iface, auto_connect, scan_no_connect, scan_back, link, wpa_state,
                   eapol_received, timer, evq, evpc, tpc, upc, fwJoined, owed, wanted,
                   raced, cancelled, crash>>

\* atbmwifi_join_start: the firmware joins; if it does not, nobody is told ...
JoinStart ==
    /\ Runs("join", "start")
    /\ \/ /\ NoFault
          /\ fwJoined' = TRUE /\ owed' = "none"
          /\ wpc' = "joined"
          /\ UNCHANGED <<workVars, lost>>
       \/ /\ Fault /\ Return
          /\ Lose("join")
          /\ UNCHANGED <<fwJoined, owed>>
    /\ UNCHANGED <<iface, auto_connect, scanVars, link, wpa_state, eapol_received, timer, evq,
                   evpc, tpc, upc, fwScan, wanted, raced, cancelled, crash>>
\* ... atbmwifi_join_complete: the event thread is to authenticate ...
\* Mutant: it is not told.
JoinCompleteMute == evq
JoinComplete == IF enabled THEN Append(evq, "AUTHEN") ELSE evq
JoinDone ==
    /\ Runs("join", "joined")
    /\ join_status' = "STA"
    /\ evq' = JoinComplete
    /\ wpc' = "arm"
    /\ UNCHANGED <<workVars, iface, auto_connect, scanVars, assoc_ok, connect_ok, wpa_state,
                   eapol_received, timer, evpc, tpc, upc, fw, owed, trouble, history, crash>>
\* ... and only then the timer is armed that gives up.
JoinArm ==
    /\ Runs("join", "arm") /\ Return
    /\ timer' = Set("join", Min({timer["join"] + 1, 2}))
    /\ raced' = (raced \/ AtLeast("ASSOCIATED") \/ ~enabled)
    /\ UNCHANGED <<iface, auto_connect, scanVars, link, wpa_state, eapol_received, evq, evpc,
                   tpc, upc, fw, owed, trouble, wanted, lost, cancelled, crash>>

\* atbm_event_handler: the firmware has lost the access point.
EventWork ==
    /\ Runs("event", "start")
    /\ IF sta THEN DeauthBegin /\ wpc' = "deauth" /\ UNCHANGED workVars
              ELSE Return /\ UNCHANGED <<join_status, fwJoined, owed>>
    /\ UNCHANGED <<iface, auto_connect, scanVars, assoc_ok, connect_ok, wpa_state, eapol_received,
                   timer, evq, evpc, tpc, upc, fwScan, trouble, history, crash>>
EventWorkEnd ==
    /\ Runs("event", "deauth") /\ Return
    /\ DeauthEnd /\ evq' = evq \o DeauthPosts
    /\ UNCHANGED <<iface, auto_connect, scanVars, join_status, eapol_received, evpc, tpc, upc, fw,
                   owed, trouble, history>>

WorkThread ==
    \/ Take \/ NullWork \/ ApScanWork \/ ScanWork \/ JoinStart \/ JoinDone \/ JoinArm
    \/ EventWork \/ EventWorkEnd

-----------------------------------------------------------------------------
(* The firmware and the access point; rx_bh only queues what comes.  A      *)
(* message of the handshake is sent again until it is answered.             *)

Room == Len(evq) < MaxQueue
outside == <<iface, auto_connect, scanVars, link, wpa_state, eapol_received, timer, pcs,
             wanted, raced, cancelled, crash>>

Answers(o) ==
    CASE o = "auth"    -> {"rxAuth", "rxAuthFail"}
      [] o = "assoc"   -> {"rxAssoc", "rxAssocFail"}
      [] o = "m1"      -> {"rxM1"}
      [] o = "m3"      -> {"rxM3"}
      [] o = "confirm" -> {"EAP_TX_STATUS"}
      [] OTHER         -> {}
ApAnswer ==
    \E e \in Answers(owed) :
        /\ Up /\ fwJoined /\ enabled /\ Room /\ ~Queued({e}) /\ Post(e)
        /\ IF e \in {"rxAuthFail", "rxAssocFail"} THEN Fault ELSE NoFault
        /\ owed' = CASE e \in {"rxM1", "rxM3"} -> owed
                     [] e = "rxAssoc" /\ config = "wpa" -> "m1"
                     [] OTHER -> "none"
        /\ UNCHANGED <<workVars, fw, lost, outside>>

\* The access point, or the air, says nothing.
Silence ==
    /\ Up /\ owed # "none" /\ Fault
    /\ owed' = "none"
    /\ IF owed \in Handshake /\ timer["assoc"] = 0 THEN Lose("handshake") ELSE UNCHANGED lost
    /\ UNCHANGED <<workVars, evq, fw, outside>>

\* The access point sends the station away.
ApDeauth ==
    /\ Up /\ fwJoined /\ enabled /\ Room /\ Fault
    /\ Post("rxDeauth") /\ owed' = "none"
    /\ UNCHANGED <<workVars, fw, lost, outside>>

\* wsm_event_indication: beacons are missing.
BssLost ==
    /\ Up /\ fwJoined /\ assoc_ok /\ Fault
    /\ QueueWork(0)
    /\ UNCHANGED <<work_queue_table, work_id, working, wrongWork, evq, fw, owed, lost, outside>>

\* wsm_scan_complete_indication, after the beacons it has seen.
FwScanEnd ==
    /\ Up /\ fwScan /\ fwScan' = FALSE
    /\ \/ config # "none" /\ ~scan_no_connect /\ NoFault /\ Post("SCAN_FOUND")
       \/ /\ IF config = "none" \/ scan_no_connect THEN NoFault ELSE Fault
          /\ Post("SCAN_NONE")
    /\ UNCHANGED <<workVars, fwJoined, owed, lost, outside>>

Outside == ApAnswer \/ Silence \/ ApDeauth \/ BssLost \/ FwScanEnd

-----------------------------------------------------------------------------
(* The user.                                                                *)

\* One thread, which waits for the events with an acknowledgement.
UserActs ==
    /\ Up /\ upc = "idle" /\ Trouble
    /\ evpc \notin {"flush", "stop"} /\ ~Queued(Acked)
userLeaves == <<auto_connect, scanVars, link, wpa_state, eapol_received, timer, fw, owed, history,
                crash>>

\* wifi_ConnectAP_vif.
UserConnect(mode) ==
    /\ UserActs
    /\ config' = mode /\ Post("USER_CONNECT")
    /\ UNCHANGED <<workVars, sta, enabled, appdata, scan_work, join_work, pcs, userLeaves>>
\* atbmwifi_scan, atbmwifi_stop_wifimode and atbmwifi_start_wifimode, the last
\* for this interface or, as an access point, for the other: an event each.
UserAsks(e) ==
    /\ UserActs /\ Post(e)
    /\ UNCHANGED <<workVars, iface, pcs, userLeaves>>
\* AT_WDisConnect_vif; wpa_disconnect sets a state that is already set.
UserDisconnect ==
    /\ UserActs /\ enabled /\ sta
    /\ DeauthBegin /\ upc' = "deauth"
    /\ UNCHANGED <<workVars, iface, auto_connect, scanVars, assoc_ok, connect_ok, wpa_state,
                   eapol_received, timer, evq, evpc, tpc, wpc, fwScan, history, crash>>
UserDisconnected ==
    /\ Up /\ upc = "deauth" /\ upc' = "idle"
    /\ DeauthEnd /\ evq' = evq \o DeauthPosts
    /\ UNCHANGED <<workVars, iface, auto_connect, scanVars, join_status, eapol_received, evpc,
                   tpc, wpc, fw, owed, trouble, history>>
User ==
    \/ \E mode \in Modes : UserConnect(mode)
    \/ \E e \in Acked : UserAsks(e)
    \/ UserDisconnect \/ UserDisconnected

-----------------------------------------------------------------------------
Next == EventThread \/ TimerTask \/ WorkThread \/ Outside \/ User

\* Each thread runs when it can; the firmware and the access point answer.
Fairness ==
    /\ WF_vars(EventThread) /\ WF_vars(TimerTask)
    /\ WF_vars(WorkThread) /\ WF_vars(FwScanEnd)
    /\ WF_vars(ApAnswer) /\ WF_vars(UserDisconnected)
Spec == Init /\ [][Next]_vars /\ Fairness

-----------------------------------------------------------------------------
(* Properties.                                                              *)

TypeOK ==
    /\ WorkTypeOK
    /\ {sta, enabled, appdata, auto_connect, scan_no_connect, scan_back, in_progress, scan_ok,
        assoc_ok, connect_ok, eapol_received, fwScan, fwJoined, wanted, raced, cancelled}
         \subseteq BOOLEAN
    /\ config \in Modes \cup {"none"} /\ {scan_work, join_work} \subseteq WorkIds
    /\ join_status \in {"PASSIVE", "STA"} /\ wpa_state \in ToSet(States)
    /\ timer \in [Timers -> 0 .. 2] /\ evq \in Seq(Events)
    /\ evpc \in {"idle", "deauth", "flush", "stop"} /\ upc \in {"idle", "deauth"}
    /\ tpc \in {"idle", "scan", "deauth"}
    /\ wpc \in {"start", "joined", "arm", "deauth"}
    /\ owed \in {"none", "auth", "assoc", "m1", "m3", "confirm"}
    /\ trouble \in 0 .. MaxTrouble
    /\ lost \subseteq {"scan", "join", "auth", "handshake", "userScan"}
    /\ crash \in {"no", "supplicant", "work"}

ThreadsIdle == evpc = "idle" /\ tpc = "idle" /\ upc = "idle" /\ working = NoWork

\* A station that was asked to connect and is not connected always has
\* something that leads on: a timer, an event, a work, a scan, an answer still
\* owed.  The ways in which the code drops the thread are in lost: a scan or a
\* join that cannot be started, a refusal to authenticate that comes when the
\* join timer is gone, a handshake that breaks off (also because an answer to an
\* earlier attempt moves the station on while the access point is already at the
\* next), and a scan of the user's, whose end cancels the timer of the next
\* attempt.
WayBack ==
    sta /\ wanted /\ ~connect_ok /\ crash = "no" =>
        \/ lost # {} \/ ~ThreadsIdle \/ fwScan
        \/ \E t \in Timers \ {"handshake"} : timer[t] > 0
        \/ Queued({"USER_CONNECT", "START_CONNECT", "CONNECT_FAIL", "SCAN_FOUND", "SCAN_NONE",
                   "DEINIT", "rxDeauth", "EAP_TX_STATUS"})
        \/ {scan_work, join_work} \cap work_map # {}
        \/ owed \in Handshake

\* The work thread runs what was queued, and never a null function, unless the
\* station was stopped with a work of its own still queued: atbm_cancel_work
\* leaves the bit.
OwnWork == wrongWork \/ crash = "work" => cancelled

\* A connection that stands is not threatened by a timer of its own making,
\* unless the association was answered late or before the join timer was set.
Calm ==
    connect_ok /\ wpa_state = "COMPLETED" /\ ThreadsIdle /\ ~raced =>
        \A t \in {"join", "assoc", "handshake"} : timer[t] = 0

\* A station that is off leaves nothing running: the firmware is not joined, no
\* timer of the station's but the one that reconnects is armed, unless a join
\* was under way when it was stopped.
StopQuiet ==
    ~sta /\ ThreadsIdle /\ evq = <<>> /\ ~raced =>
        /\ ~fwJoined /\ join_status = "PASSIVE"
        /\ \A t \in Timers \ {"auto"} : timer[t] = 0

\* Whoever asks for a connection gets it in the end, whatever fails on the way,
\* unless the station is stopped or the way back is lost as WayBack says.
Reconnected == wanted ~> (connect_ok \/ lost # {} \/ ~wanted \/ crash # "no")
=============================================================================
