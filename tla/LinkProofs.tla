------------------------------- MODULE LinkProofs -------------------------------
(* Proofs about Link, for any set of phones, with and without a relay, and       *)
(* whatever the bounds on connection attempts, faults and power cycles.          *)
EXTENDS Link, TLAPS

--------------------------------------------------------------------------------
\* The inductive invariant: what the properties of Link rest on.

\* Until main() reaches advertising_start nothing else has happened.
BootQuiet ==
  pc["main"] \in {"boot", "refresh_clear", "refresh_fill"} =>
    /\ pc["wq"] = "idle" /\ pc["rec"] = "idle" /\ pc["bt"] = "idle"
    /\ works = {} /\ ~recycled /\ refs = {} /\ phase = "none"
    /\ advertiser = "off" /\ ~adv_active /\ ~relay_enabled
    /\ pc["main"] \in {"boot", "refresh_clear"} => accept_list = {}

\* The connection object: a link that the host knows of, an advertiser on air and
\* the pointers kept by the application never compete for it.
Object ==
  /\ phase # "none" => "stack" \in refs /\ links # 0 /\ peer \in Phones
  /\ phase = "none" => peer = NoPhone
  /\ advertiser # "off" => refs = {}
  /\ current_conn # 0 => /\ "app" \in refs /\ current_conn = links
                         /\ phase \in {"up", "lost"}
  /\ \A t \in {"wq", "writer"} : conn[t] # 0 => t \in refs /\ conn[t] = links
  /\ pc["writer"] = "sending" => conn["writer"] # 0
  /\ pc["wq"] \in {"watchdog_drop", "watchdog_unref"} => conn["wq"] # 0

\* Where the Bluetooth thread stands in its callbacks, and the link it serves.
Callback ==
  /\ phase = "up" => current_conn # 0
  /\ pc["bt"] \notin {"idle"} => phase \in {"up", "lost"}
  /\ pc["bt"] \in {"disc_held", "disc_free", "disc_clear"} => phase = "lost"
  /\ pc["bt"] \in {"secured", "relay_on", "relay_off", "refresh_clear", "refresh_fill"}
       => current_conn # 0 /\ link_secure
  /\ phase = "lost" => current_conn # 0
  /\ link_secure => current_conn # 0

\* The flag adv_active while adv_slow_handler is at work, and while on_connected is
\* still to run.
Switch ==
  /\ pc["wq"] \in {"slow_stop", "slow_start"} => adv_active
  /\ adv_active /\ advertiser = "off" =>
       pc["wq"] = "slow_start" \/ phase \in {"complete", "failed"}

\* The accept list and the parameters of the advertiser follow the bonds.
Locked ==
  /\ accept_list \subseteq bonds
  /\ ~unlisted /\ pc["main"] \notin {"boot", "refresh_clear", "refresh_fill", "dead"}
     /\ pc["bt"] \notin {"refresh_clear", "refresh_fill"}
       => accept_list = bonds
  /\ advertiser # "off" => filtered = (bonds # {})
  /\ pc["main"] \notin {"boot", "refresh_clear", "refresh_fill", "dead"}
     /\ pc["bt"] \notin {"refresh_clear", "refresh_fill"}
       => locked_mode = (bonds # {})
  /\ pc["main"] = "dead" => advertiser = "off" /\ refs = {} /\ ~recycled /\ works = {}
       /\ phase = "none" /\ pc["wq"] = "idle" /\ pc["rec"] = "idle" /\ pc["bt"] = "idle"
       /\ ~adv_active

\* Inside on_disconnected the grace window covers the relay before the link state
\* that has covered it so far is cleared.
GraceCovers ==
  /\ pc["bt"] = "disc_free" => ~relay_enabled
  /\ pc["bt"] = "disc_clear" /\ relay_enabled => "relay_grace" \in works

IInv ==
  /\ TypeOK /\ BootQuiet /\ Object /\ Callback /\ Switch /\ Locked /\ GraceCovers
  /\ OneAdvertiser /\ RestartComing /\ AcceptListNotInUse /\ OwnerAdmitted
  /\ OwnerOnly /\ NoStalePointer /\ SecureOnly /\ WatchdogArmed /\ RelayCovered

\* Whoever drops the last reference makes a recycled callback due.
LEMMA LastReference ==
  ASSUME NEW h \in refs, Unref(h) PROVE refs' = {} => recycled'
<1>1. refs' = {} => refs = {h}
  BY DEF Unref
<1>2. QED
  BY <1>1, Zenon DEF Unref

USE LinkAssumption
DEF IInv, TypeOK, BootQuiet, Object, Callback, Switch, Locked, GraceCovers,
    OneAdvertiser, RestartComing, AcceptListNotInUse, OwnerAdmitted, OwnerOnly, NoStalePointer,
    SecureOnly, WatchdogArmed, RelayCovered, Threads, Works, Holders, Goto,
    RecLabels, MainLabels, WqLabels, BtLabels, WriterLabels,
    app, lock, radio, slot, peerv, budget

--------------------------------------------------------------------------------
\* Every step preserves the invariant: one lemma per thread.

\* advertising_start, whoever runs it.
LEMMA AdvertisingStep ==
  ASSUME IInv, NEW t \in {"main", "wq", "rec"}, Advertising(t)
  PROVE  IInv'
<1>1. CASE AdvertisingNotNeeded(t)
  BY <1>1 DEF AdvertisingNotNeeded, ConnMutexFree, ShouldStartAdv
<1>2. CASE AdvertisingStarts(t)
  <2>1. CASE BtLeAdvStart("fast") /\ adv_active' = TRUE /\ Goto(t, "adv_live")
    BY <1>2, <2>1
       DEF AdvertisingStarts, BtLeAdvStart, Filtered, SlotFree, ConnMutexFree, ShouldStartAdv
  <2>2. CASE BtLeAdvStartFails /\ adv_active' = FALSE /\ Goto(t, "adv_error")
    <3>1. adv_active' \in BOOLEAN
      BY <2>2, Zenon
    <3>2. faults' \in 0..MaxFaults
      BY <2>2 DEF BtLeAdvStartFails, Fault
    <3>3. QED
      BY <1>2, <2>2, <3>1, <3>2
         DEF AdvertisingStarts, BtLeAdvStartFails, SlotFree, ConnMutexFree, ShouldStartAdv
  <2>3. QED
    BY <1>2, <2>1, <2>2 DEF AdvertisingStarts
<1>3. CASE AdvertisingSchedules(t)
  BY <1>3 DEF AdvertisingSchedules, Retry
<1>4. QED
  BY <1>1, <1>2, <1>3 DEF Advertising

\* main() up to its advertising_start.
LEMMA MainStep == ASSUME IInv, Main PROVE IInv'
<1>1. CASE MainGivesUp
  BY <1>1 DEF MainGivesUp, Fault
<1>2. CASE \E factoryReset \in BOOLEAN : MainLoadsBonds(factoryReset)
  BY <1>2 DEF MainLoadsBonds, Fault
<1>3. CASE RefreshClear("main")
  BY <1>3 DEF RefreshClear, Fault
<1>4. CASE RefreshFill("main")
  <2>1. unlisted' \in BOOLEAN
    BY <1>4, Zenon DEF RefreshFill
  <2>2. \/ accept_list' = bonds /\ ~unlisted' /\ UNCHANGED faults
        \/ faults' = faults + 1 /\ unlisted' /\ UNCHANGED accept_list
    BY <1>4 DEF RefreshFill, BondsToList, Fault
  <2>3. QED
    BY <1>4, <2>1, <2>2 DEF RefreshFill, AfterRefresh, Fault
<1>5. CASE Advertising("main")
  BY <1>5, AdvertisingStep
<1>6. QED
  BY <1>1, <1>2, <1>3, <1>4, <1>5 DEF Main, Refresh

\* The handlers of the system workqueue.
LEMMA WorkqueueStep == ASSUME IInv, Workqueue PROVE IInv'
<1>1. CASE SlowSwitchGuard
  BY <1>1 DEF SlowSwitchGuard
<1>2. CASE SlowSwitchStops
  BY <1>2 DEF SlowSwitchStops, FlagInGap
<1>3. CASE SlowSwitchStopFails
  BY <1>3 DEF SlowSwitchStopFails, Fault
<1>4. CASE SlowSwitchStarts
  <2>1. CASE BtLeAdvStart("slow") /\ Goto("wq", "idle") /\ UNCHANGED adv_active
    BY <1>4, <2>1 DEF SlowSwitchStarts, BtLeAdvStart, Filtered, SlotFree
  <2>2. CASE BtLeAdvStartFails /\ adv_active' = FALSE /\ Goto("wq", "slow_failed")
    <3>1. adv_active' \in BOOLEAN
      BY <2>2, Zenon
    <3>2. faults' \in 0..MaxFaults
      BY <1>4, <2>2 DEF SlowSwitchStarts, BtLeAdvStartFails, Fault
    <3>3. QED
      BY <1>4, <2>2, <3>1, <3>2 DEF SlowSwitchStarts, BtLeAdvStartFails, SlotFree
  <2>3. QED
    BY <1>4, <2>1, <2>2 DEF SlowSwitchStarts
<1>5. CASE SlowSwitchFailed
  BY <1>5 DEF SlowSwitchFailed, SlowRetry
<1>6. CASE WatchdogLooks
  <2>1. CASE current_conn # 0 /\ ~link_secure
    <3>1. TakeConn("wq") /\ Goto("wq", "watchdog_drop")
      BY <1>6, <2>1 DEF WatchdogLooks
    <3>2. QED
      BY <1>6, <2>1, <3>1 DEF WatchdogLooks, TakeConn, Refs
  <2>2. CASE ~(current_conn # 0 /\ ~link_secure)
    <3>1. UNCHANGED slot /\ Goto("wq", "idle")
      BY <1>6, <2>2 DEF WatchdogLooks
    <3>2. QED
      BY <1>6, <2>2, <3>1 DEF WatchdogLooks
  <2>3. QED
    BY <2>1, <2>2
<1>7. CASE WatchdogDrops
  BY <1>7 DEF WatchdogDrops, Disconnected, Fault
<1>8. CASE WatchdogUnrefs
  <2>1. "wq" \in refs /\ Unref("wq")
    BY <1>8 DEF WatchdogUnrefs, ReleaseConn
  <2>3. refs' = {} => recycled'
    BY ONLY <2>1, LastReference
  <2>4. TypeOK' /\ Object'
    BY <1>8 DEF WatchdogUnrefs, ReleaseConn, Unref
  <2>5. RestartComing'
    BY <1>8, <2>3 DEF WatchdogUnrefs, ReleaseConn
  <2>6. QED
    BY <1>8, <2>4, <2>5 DEF WatchdogUnrefs, ReleaseConn, Unref
<1>9. CASE RelayGraceExpires
  BY <1>9 DEF RelayGraceExpires, Back
<1>10. CASE Advertising("wq")
  BY <1>10, AdvertisingStep
<1>11. QED
  BY <1>1, <1>2, <1>3, <1>4, <1>5, <1>6, <1>7, <1>8, <1>9, <1>10 DEF Workqueue

\* The callbacks in the Bluetooth RX thread.
LEMMA CallbackStep == ASSUME IInv, Callbacks PROVE IInv'
<1>1. CASE OnConnected
  <2>1. adv_active' \in BOOLEAN /\ link_secure' \in BOOLEAN
    BY <1>1, Zenon DEF OnConnected, ConnMutexFree
  <2>2. TypeOK' /\ Object'
    BY <1>1, <2>1 DEF OnConnected, ConnMutexFree
  <2>3. RestartComing'
    BY <1>1, <2>1, <2>2 DEF OnConnected, ConnMutexFree
  <2>4. QED
    BY <1>1, <2>2, <2>3 DEF OnConnected, ConnMutexFree
<1>2. CASE OnConnectedArms
  BY <1>2 DEF OnConnectedArms, Watchdog
<1>3. CASE OnConnectFailed
  <2>1. adv_active' \in BOOLEAN
    BY <1>3, Zenon DEF OnConnectFailed, ConnMutexFree
  <2>2. TypeOK' /\ Object'
    BY <1>3, <2>1 DEF OnConnectFailed, ConnMutexFree
  <2>3. RestartComing'
    BY <1>3, <2>1, <2>2 DEF OnConnectFailed, ConnMutexFree
  <2>4. QED
    BY <1>3, <2>2, <2>3 DEF OnConnectFailed, ConnMutexFree
<1>4. CASE OnDisconnected
  BY <1>4 DEF OnDisconnected, ConnMutexFree
<1>5. CASE OnDisconnectedWorks
  BY <1>5 DEF OnDisconnectedWorks, GraceWindow
<1>6. CASE OnDisconnectedClears
  <2>1. current_conn # 0
    BY <1>6 DEF OnDisconnectedClears
  <2>2. refs' = refs \ {"app"} /\ (recycled' <=> recycled \/ refs = {"app"})
    BY <1>6, <2>1 DEF OnDisconnectedClears, Unref
  <2>3. link_secure' \in BOOLEAN /\ recycled' \in BOOLEAN
    BY <1>6, <2>1, Zenon DEF OnDisconnectedClears, Unref
  <2>4. QED
    BY <1>6, <2>1, <2>2, <2>3 DEF OnDisconnectedClears, ConnMutexFree
<1>7. CASE OnSecurityChanged
  BY <1>7 DEF OnSecurityChanged, ConnMutexFree
<1>8. CASE OnSecurityChangedWorks
  BY <1>8 DEF OnSecurityChangedWorks
<1>9. CASE RelaySet
  BY <1>9 DEF RelaySet, ConnMutexFree
<1>10. CASE RefreshClear("bt")
  BY <1>10 DEF RefreshClear, Fault
<1>11. CASE RefreshFill("bt")
  <2>1. unlisted' \in BOOLEAN
    BY <1>11, Zenon DEF RefreshFill
  <2>2. \/ accept_list' = bonds /\ ~unlisted' /\ UNCHANGED faults
        \/ faults' = faults + 1 /\ unlisted' /\ UNCHANGED accept_list
    BY <1>11 DEF RefreshFill, BondsToList, Fault
  <2>3. QED
    BY <1>11, <2>1, <2>2 DEF RefreshFill, AfterRefresh, Fault
<1>12. QED
  BY <1>1, <1>2, <1>3, <1>4, <1>5, <1>6, <1>7, <1>8, <1>9, <1>10, <1>11 DEF Callbacks, Refresh

\* The writer thread.
LEMMA WriterStep == ASSUME IInv, WriterTakesConn \/ WriterReleases PROVE IInv'
<1>1. CASE WriterTakesConn
  BY <1>1 DEF WriterTakesConn, TakeConn, Refs, ConnMutexFree, MayForward
<1>2. CASE WriterReleases
  <2>0. "writer" \in refs /\ Unref("writer")
    BY <1>2 DEF WriterReleases, ReleaseConn
  <2>1. refs' = {} => recycled'
    BY ONLY <2>0, LastReference
  <2>2. TypeOK' /\ Object'
    BY <1>2, <2>1 DEF WriterReleases, ReleaseConn, Unref
  <2>3. RestartComing'
    BY <1>2, <2>1, <2>2 DEF WriterReleases, ReleaseConn, Unref
  <2>4. QED
    BY <1>2, <2>2, <2>3 DEF WriterReleases, ReleaseConn, Unref
<1>3. QED
  BY <1>1, <1>2

\* The phone, and the callbacks it asks for.
LEMMA PhoneStep == ASSUME IInv, Phone PROVE IInv'
<1>1. CASE \E p \in Phones, outcome \in {"complete", "failed"} : PhoneConnects(p, outcome)
  <2>1. encrypted' \in BOOLEAN
    BY <1>1, Zenon DEF PhoneConnects
  <2>2. TypeOK' /\ Object'
    BY <1>1, <2>1 DEF PhoneConnects
  <2>3. RestartComing'
    BY <1>1, <2>1, <2>2 DEF PhoneConnects
  <2>4. QED
    BY <1>1, <2>2, <2>3 DEF PhoneConnects
<1>2. CASE PhoneEncrypts
  BY <1>2 DEF PhoneEncrypts
<1>3. CASE LinkDrops
  BY <1>3 DEF LinkDrops
<1>4. CASE PairingComplete
  BY <1>4 DEF PairingComplete
<1>5. CASE \E enable \in BOOLEAN : RelayCommand(enable)
  BY <1>5 DEF RelayCommand, MayCommand, ConnMutexFree
<1>6. QED
  BY <1>1, <1>2, <1>3, <1>4, <1>5 DEF Phone

\* The recycled callback.
LEMMA RecycledStep == ASSUME IInv, Recycled PROVE IInv'
<1>1. CASE OnRecycled
  <2>1. recycled' \in BOOLEAN
    BY <1>1, Zenon DEF OnRecycled
  <2>2. TypeOK' /\ Object'
    BY <1>1, <2>1 DEF OnRecycled
  <2>3. RestartComing'
    BY <1>1, <2>1, <2>2 DEF OnRecycled
  <2>4. QED
    BY <1>1, <2>2, <2>3 DEF OnRecycled
<1>2. CASE Advertising("rec")
  BY <1>2, AdvertisingStep
<1>3. QED
  BY <1>1, <1>2 DEF Recycled

\* Delays that elapse, the UART interrupt, the host and the power.
LEMMA EnvironmentStep ==
  ASSUME IInv,
         \/ \E w \in Works : WorkStarts(w)
         \/ HostReleases \/ PowerCycle
  PROVE  IInv'
<1>1. CASE \E w \in Works : WorkStarts(w)
  BY <1>1 DEF WorkStarts
<1>2. CASE HostReleases
  <2>0. "stack" \in refs /\ Unref("stack")
    BY <1>2 DEF HostReleases
  <2>1. refs' = {} => recycled'
    BY ONLY <2>0, LastReference
  <2>2. TypeOK' /\ Object'
    BY <1>2, <2>1 DEF HostReleases, Unref
  <2>3. RestartComing'
    BY <1>2, <2>1, <2>2 DEF HostReleases, Unref
  <2>4. QED
    BY <1>2, <2>2, <2>3 DEF HostReleases, Unref
<1>3. CASE PowerCycle
  <2>1. /\ link_secure' \in BOOLEAN /\ adv_active' \in BOOLEAN /\ locked_mode' \in BOOLEAN
       /\ relay_enabled' \in BOOLEAN /\ filtered' \in BOOLEAN
       /\ encrypted' \in BOOLEAN /\ recycled' \in BOOLEAN
       /\ unlisted' \in BOOLEAN /\ ~unlisted'
    BY <1>3, Zenon DEF PowerCycle
  <2>2. TypeOK' /\ Object'
    BY <1>3, <2>1 DEF PowerCycle
  <2>3. RestartComing'
    BY <1>3, <2>1, <2>2 DEF PowerCycle
  <2>4. QED
    BY <1>3, <2>2, <2>3 DEF PowerCycle
<1>4. QED
  BY <1>1, <1>2, <1>3

\* The invariant is inductive.
LEMMA StepPreserves == IInv /\ [Next]_vars => IInv'
<1> SUFFICES ASSUME IInv, [Next]_vars PROVE IInv'
  OBVIOUS
<1>1. CASE Main
  BY ONLY <1>1, IInv, MainStep
<1>2. CASE Workqueue
  BY ONLY <1>2, IInv, WorkqueueStep
<1>3. CASE Callbacks
  BY ONLY <1>3, IInv, CallbackStep
<1>4. CASE Recycled
  BY ONLY <1>4, IInv, RecycledStep
<1>5. CASE WriterTakesConn \/ WriterReleases
  BY ONLY <1>5, IInv, WriterStep
<1>6. CASE Phone
  BY ONLY <1>6, IInv, PhoneStep
<1>7. CASE \/ \E w \in Works : WorkStarts(w)
           \/ HostReleases \/ PowerCycle
  BY ONLY <1>7, IInv, EnvironmentStep
<1>8. CASE UNCHANGED vars
  BY <1>8 DEF vars, budget
<1>9. QED
  BY <1>1, <1>2, <1>3, <1>4, <1>5, <1>6, <1>7, <1>8 DEF Next, AtRest

\* The initial states satisfy it.
LEMMA InitHolds == Init => IInv
<1> SUFFICES ASSUME Init PROVE IInv
  OBVIOUS
<1>1. TypeOK
  <2>1. bonds \subseteq Phones /\ faults = 0 /\ boots = 0 /\ links = 0 /\ PowerOn
    BY DEF Init
  <2>2. /\ link_secure \in BOOLEAN /\ adv_active \in BOOLEAN /\ locked_mode \in BOOLEAN
        /\ relay_enabled \in BOOLEAN
        /\ filtered \in BOOLEAN /\ encrypted \in BOOLEAN /\ recycled \in BOOLEAN
        /\ unlisted \in BOOLEAN
    BY <2>1, Zenon DEF PowerOn
  <2>3. QED
    BY <2>1, <2>2, LinkAssumption DEF PowerOn, TypeOK, Threads
<1>2. QED
  BY <1>1 DEF Init, PowerOn, IInv, BootQuiet, Object, Callback, Switch, Locked,
       GraceCovers, OneAdvertiser, RestartComing, AcceptListNotInUse, OwnerAdmitted, OwnerOnly,
       NoStalePointer, SecureOnly, WatchdogArmed, RelayCovered, Threads

HIDE DEF IInv, TypeOK, BootQuiet, Object, Callback, Switch, Locked, GraceCovers,
    OneAdvertiser, RestartComing, AcceptListNotInUse, OwnerAdmitted, OwnerOnly, NoStalePointer,
    SecureOnly, WatchdogArmed, RelayCovered, Threads, Works, Holders, Goto,
    RecLabels, MainLabels, WqLabels, BtLabels, WriterLabels,
    app, lock, radio, slot, peerv, budget

--------------------------------------------------------------------------------
\* The theorems.

\* Everything the inductive invariant says holds in every reachable state.
THEOREM Invariance == Spec => []IInv
BY InitHolds, StepPreserves, PTL DEF Spec

\* The variables keep their types.
THEOREM TypeCorrect == Spec => []TypeOK
<1>1. IInv => TypeOK
  BY DEF IInv
<1>2. QED
  BY <1>1, Invariance, PTL

\* adv_active never claims an advertiser next to a connection, never misses one on
\* air, and nothing starts a second one in the gap of the slow switch.
THEOREM AdvertiserFlag == Spec => []OneAdvertiser
<1>1. IInv => OneAdvertiser
  BY DEF IInv
<1>2. QED
  BY <1>1, Invariance, PTL

\* An idle, silent device always has a restart of its advertising under way.
THEOREM AlwaysRestarts == Spec => []RestartComing
<1>1. IInv => RestartComing
  BY DEF IInv
<1>2. QED
  BY <1>1, Invariance, PTL

\* The filter accept list is only rewritten while no advertiser is on air.
THEOREM AcceptListSafe == Spec => []AcceptListNotInUse
<1>1. IInv => AcceptListNotInUse
  BY DEF IInv
<1>2. QED
  BY <1>1, Invariance, PTL

\* An advertiser on air admits exactly the bonded phone, whatever has failed, unless it
\* was the call that adds the phone to the list.
THEOREM OwnerGetsIn == Spec => []OwnerAdmitted
<1>1. IInv => OwnerAdmitted
  BY DEF IInv
<1>2. QED
  BY <1>1, Invariance, PTL

\* With a bond stored, the link only ever belongs to the bonded phone.
THEOREM Ownership == Spec => []OwnerOnly
<1>1. IInv => OwnerOnly
  BY DEF IInv
<1>2. QED
  BY <1>1, Invariance, PTL

\* The connection pointers the watchdog and the writer keep outside the mutex stay
\* those of the live connection object.
THEOREM References == Spec => []NoStalePointer
<1>1. IInv => NoStalePointer
  BY DEF IInv
<1>2. QED
  BY <1>1, Invariance, PTL

\* link_secure belongs to the current, encrypted link, and the writer sends on such
\* a link only.
THEOREM EncryptedOnly == Spec => []SecureOnly
<1>1. IInv => SecureOnly
  BY DEF IInv
<1>2. QED
  BY <1>1, Invariance, PTL

\* A link that is up without encryption is watched.
THEOREM Watched == Spec => []WatchdogArmed
<1>1. IInv => WatchdogArmed
  BY DEF IInv
<1>2. QED
  BY <1>1, Invariance, PTL

\* A relay that is on without its owner's secure link has its grace window running.
THEOREM GraceRuns == Spec => []RelayCovered
<1>1. IInv => RelayCovered
  BY DEF IInv
<1>2. QED
  BY <1>1, Invariance, PTL

\* The steps that somebody outside can see.
LEMMA VisibleSteps ==
  [Next]_vars =>
    \/ UNCHANGED <<current_conn, link_secure, advertiser, peer, bonds, relay_enabled>>
    \/ \E factoryReset \in BOOLEAN : MainLoadsBonds(factoryReset)
    \/ \E t \in {"main", "wq", "rec"} : AdvertisingStarts(t)
    \/ SlowSwitchStops \/ SlowSwitchStarts
    \/ \E p \in Phones, outcome \in {"complete", "failed"} : PhoneConnects(p, outcome)
    \/ OnConnected \/ OnSecurityChanged \/ PairingComplete
    \/ OnDisconnectedClears \/ HostReleases
    \/ RelaySet \/ RelayGraceExpires
    \/ PowerCycle
BY DEF Next, Main, Refresh, Advertising, Workqueue, Callbacks, Recycled, Phone, AtRest,
       vars, app, lock, radio, peerv, slot, budget, TakeConn, ReleaseConn,
       AdvertisingSchedules, AdvertisingNotNeeded, LinkDrops, MainGivesUp,
       OnConnectFailed, OnConnectedArms, OnDisconnected, OnDisconnectedWorks,
       OnRecycled, OnSecurityChangedWorks, PhoneEncrypts, RefreshClear, RefreshFill,
       RelayCommand, SlowSwitchFailed, SlowSwitchGuard, SlowSwitchStopFails,
       WatchdogDrops, WatchdogLooks, WatchdogUnrefs, WorkStarts, WriterReleases,
       WriterTakesConn

\* Only the relay command, the expiry of the grace window and a power cycle change
\* relay_enabled.
LEMMA RelayChanges ==
  [Next]_vars /\ relay_enabled' # relay_enabled =>
    RelaySet \/ RelayGraceExpires \/ PowerCycle
BY VisibleSteps
   DEF MainLoadsBonds, AdvertisingStarts, SlowSwitchStops, SlowSwitchStarts,
       PhoneConnects, OnConnected, OnSecurityChanged, PairingComplete,
       OnDisconnectedClears, HostReleases

\* While the owner is on a secure link, only his own command, or a power cycle,
\* switches the relay off.
THEOREM RelayOwner == Spec => OwnerKeepsRelay
<1>1. IInv /\ [Next]_vars =>
        [relay_enabled /\ ~relay_enabled' /\ current_conn # 0 /\ link_secure
           => pc["bt"] = "relay_off" \/ boots' # boots]_vars
  <2> SUFFICES ASSUME IInv, [Next]_vars, relay_enabled, ~relay_enabled',
                      current_conn # 0, link_secure
               PROVE  pc["bt"] = "relay_off" \/ boots' # boots
    OBVIOUS
  <2>1. RelaySet \/ RelayGraceExpires \/ PowerCycle
    BY RelayChanges
  <2>2. CASE RelaySet
    BY <2>2 DEF RelaySet, IInv, TypeOK, Callback, RelayCovered
  <2>3. CASE RelayGraceExpires
    BY <2>3 DEF RelayGraceExpires, Back
  <2>4. CASE PowerCycle
    BY <2>4 DEF PowerCycle, IInv, TypeOK
  <2>5. QED
    BY <2>1, <2>2, <2>3, <2>4
<1>2. QED
  BY <1>1, Invariance, PTL DEF Spec, OwnerKeepsRelay

--------------------------------------------------------------------------------
\* Link implements Service.

\* Every step of Link is a step of the service, or invisible.
LEMMA ServiceStep == IInv /\ [Next]_vars => [Device!Next]_(Device!vars)
<1> SUFFICES ASSUME IInv, [Next]_vars PROVE [Device!Next]_(Device!vars)
  OBVIOUS
<1> USE LinkAssumption
    DEF IInv, TypeOK, BootQuiet, Object, Callback, Locked, OneAdvertiser, OwnerOnly,
        app, lock, radio, peerv, slot, ServiceLink, Device!vars
<1>1. CASE UNCHANGED <<current_conn, link_secure, advertiser, peer, bonds, relay_enabled>>
  BY <1>1
<1>2. CASE \E factoryReset \in BOOLEAN : MainLoadsBonds(factoryReset)
  BY <1>2 DEF MainLoadsBonds, Device!Next, Device!Forget
<1>3. CASE \E t \in {"main", "wq", "rec"} : AdvertisingStarts(t)
  BY <1>3 DEF AdvertisingStarts, ShouldStartAdv, BtLeAdvStart, BtLeAdvStartFails,
              Device!Next, Device!Advertise, Device!Connected
<1>4. CASE SlowSwitchStops \/ SlowSwitchStarts
  BY <1>4 DEF SlowSwitchStops, SlowSwitchStarts, BtLeAdvStart, BtLeAdvStartFails, SlotFree,
              Device!Next, Device!Advertise, Device!Connected
<1>5. CASE \E p \in Phones, outcome \in {"complete", "failed"} : PhoneConnects(p, outcome)
  BY <1>5 DEF PhoneConnects, Device!Next, Device!Advertise, Device!Connected
<1>6. CASE OnConnected
  BY <1>6 DEF OnConnected, Device!Next, Device!Connect
<1>7. CASE OnSecurityChanged
  BY <1>7 DEF OnSecurityChanged, Device!Next, Device!Secure
<1>8. CASE PairingComplete
  BY <1>8 DEF PairingComplete, Device!Next, Device!Pair
<1>9. CASE OnDisconnectedClears
  BY <1>9 DEF OnDisconnectedClears, Device!Next, Device!Disconnect, Device!Connected
<1>10. CASE HostReleases
  BY <1>10 DEF HostReleases
<1>11. CASE RelaySet
  BY <1>11 DEF RelaySet, Device!Next, Device!Command
<1>12. CASE RelayGraceExpires
  BY <1>12 DEF RelayGraceExpires, Back, Device!Next, Device!Release
<1>13. CASE PowerCycle
  BY <1>13 DEF PowerCycle, Device!Next, Device!Restart
<1>14. QED
  BY ONLY VisibleSteps, [Next]_vars, <1>1, <1>2, <1>3, <1>4, <1>5, <1>6, <1>7, <1>8, <1>9, <1>10, <1>11,
          <1>12, <1>13

\* The threads, timers and connection objects of main.c implement the service: one
\* phone at a time, the owner alone once there is one, the relay given on a secure link
\* only and taken away from anyone else.
THEOREM Implements == Spec => IsService
<1>1. Init => Device!Init
  BY DEF Init, PowerOn, ServiceLink, Device!Init
<1>2. IInv /\ [Next]_vars => [Device!Next]_(Device!vars)
  BY ServiceStep
<1>3. QED
  BY <1>1, <1>2, Invariance, PTL DEF Spec, IsService, Device!Spec

================================================================================
