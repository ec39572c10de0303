---------------------------- MODULE LinkClockProofs -----------------------------
(* Proofs about LinkClock, for any delays, and whatever the bounds on connection   *)
(* attempts, faults and power cycles.                                              *)
EXTENDS LinkClock, LinkProofs

--------------------------------------------------------------------------------
\* The inductive invariant: that of Link, and what ties the countdowns to the observers.

Dropping == {"security_timeout", "watchdog_drop"}

\* A reference belongs to somebody who will give it back.
Held ==
  /\ "stack" \in refs => phase # "none"
  /\ "app" \in refs => current_conn # 0
  /\ "writer" \in refs => pc["writer"] = "sending"
  /\ "wq" \in refs => pc["wq"] \in {"watchdog_drop", "watchdog_unref"}

\* The link does not go away in the middle of a callback.
Short == pc["bt"] \notin {"idle", "disc_held", "disc_free", "disc_clear"} => phase = "up"

Counting ==
  /\ left \in [Works -> Nat]
  /\ left["adv_retry"] <= RetryDelay /\ left["relay_grace"] <= Grace
  /\ {upFor, silent, alone, drops} \subseteq Nat

\* The watchdog that runs was armed for the link that is up, when it came up.
Watching ==
  /\ "security_timeout" \in works =>
       phase \in {"up", "lost"} /\ pc["bt"] \notin {"connected", "disc_clear"}
  /\ pc["wq"] \in Dropping => phase \notin {"complete", "failed"} /\ pc["bt"] # "connected"
  /\ phase = "up" =>
       /\ pc["bt"] = "connected" => upFor = 0
       /\ "security_timeout" \in works => upFor + left["security_timeout"] = Window
       /\ pc["wq"] \in Dropping => upFor = Window

\* Each drop of the link buys the relay one window.
Granted ==
  /\ OneWindowPerDrop
  /\ "relay_grace" \in works => alone + left["relay_grace"] <= Grace * drops

\* The window is granted in full, and its expiry takes the relay from nobody who came
\* back.
Covering ==
  /\ relay_enabled => links # 0
  /\ Secure \/ ~relay_enabled => alone = 0
  /\ Secure /\ "relay_grace" \in works => pc["bt"] \in {"secured", "disc_clear"}
  /\ pc["bt"] = "disc_clear" /\ relay_enabled => left["relay_grace"] = Grace
  /\ pc["wq"] = "relay_grace" /\ Secure => phase = "up"
  /\ relay_enabled /\ ~Secure =>
       /\ "relay_grace" \in works => alone + left["relay_grace"] >= Grace
       /\ pc["wq"] = "relay_grace" => alone >= Grace

\* Somebody will try, at once, to advertise: what becomes of it is not decided.
Undecided ==
  \/ recycled
  \/ pc["main"] \in {"boot", "refresh_clear", "refresh_fill"}
  \/ \E t \in {"main", "wq", "rec"} : pc[t] = "advertising_start"
  \/ pc["wq"] = "slow_start"

\* Somebody has failed to, and is about to schedule the retry.
Failed == pc["wq"] = "slow_failed" \/ \E t \in {"main", "wq", "rec"} : pc[t] = "adv_error"

\* The device is silent, and all it waits for is the retry.
Waits == Silent /\ refs = {} /\ ~Undecided

\* A silent device waits for a retry that the latest failure has paid for.  Only a start
\* that finds the connection object in use fails for free, and that object's last
\* reference makes a recycled callback due.
Waiting ==
  /\ SilenceBounded
  /\ Waits =>
       /\ Failed => silent + RetryDelay <= RetryDelay * faults
       /\ "adv_retry" \in works => silent + left["adv_retry"] <= RetryDelay * faults

ClockInv == IInv /\ Held /\ Short /\ Counting /\ Watching /\ Granted /\ Covering /\ Waiting

USE ClockAssumption DEF Dropping

--------------------------------------------------------------------------------
\* The countdowns.

\* What a step makes of the countdowns that the properties depend on.
LEMMA Counted ==
  ASSUME Countdowns, Counting
  PROVE  /\ left'["security_timeout"] =
              IF "security_timeout" \notin works' THEN 0
              ELSE IF Moved("bt", "connected", "idle") THEN Window
              ELSE left["security_timeout"]
         /\ left'["relay_grace"] =
              IF "relay_grace" \notin works' THEN 0
              ELSE IF Moved("bt", "disc_held", "disc_clear") THEN Grace
              ELSE left["relay_grace"]
         /\ left'["adv_retry"] =
              IF "adv_retry" \notin works' THEN 0
              ELSE IF Rescheduled("adv_retry") THEN RetryDelay
              ELSE left["adv_retry"]
         /\ left' \in [Works -> Nat]
<1>1. /\ "security_timeout" \in Works /\ "relay_grace" \in Works /\ "adv_retry" \in Works
  BY DEF Works
<1>2. \A w \in Works : Delay(w) \in Nat
  BY ClockAssumption DEF Delay, Works, SecurityWindow, GraceDelay
<1>3. left' \in [Works -> Nat]
  BY <1>2 DEF Countdowns, Counting
<1>4. left'["security_timeout"] =
        IF "security_timeout" \notin works' THEN 0
        ELSE IF Moved("bt", "connected", "idle") THEN Window
        ELSE left["security_timeout"]
  BY <1>1 DEF Countdowns, Rescheduled, Delay, SecurityWindow
<1>5. left'["relay_grace"] =
        IF "relay_grace" \notin works' THEN 0
        ELSE IF Moved("bt", "disc_held", "disc_clear") THEN Grace
        ELSE left["relay_grace"]
  BY <1>1 DEF Countdowns, Rescheduled, Delay, GraceDelay
<1>6. left'["adv_retry"] =
        IF "adv_retry" \notin works' THEN 0
        ELSE IF Rescheduled("adv_retry") THEN RetryDelay
        ELSE left["adv_retry"]
  <2>1. Delay("adv_retry") = RetryDelay
    BY DEF Delay
  <2>2. QED
    BY <1>1, <2>1 DEF Countdowns
<1>7. QED
  BY <1>3, <1>4, <1>5, <1>6

--------------------------------------------------------------------------------
\* The watchdog.

\* The steps that have to do with the watchdog or the life of the link.
LEMMA WatchdogMoves ==
  ASSUME TypeOK, Next
  PROVE  \/ /\ UNCHANGED <<phase, current_conn>>
            /\ "security_timeout" \in works' => "security_timeout" \in works
            /\ pc'["wq"] \in Dropping => pc["wq"] \in Dropping
            /\ UNCHANGED pc["bt"]
         \/ WorkStarts("security_timeout") \/ WatchdogDrops \/ Callbacks \/ LinkDrops
         \/ PairingComplete \/ \E enable \in BOOLEAN : RelayCommand(enable)
         \/ \E p \in Phones, outcome \in {"complete", "failed"} : PhoneConnects(p, outcome)
         \/ HostReleases \/ PowerCycle
<1> USE DEF TypeOK, Threads, Goto, peerv, app, WqLabels, RecLabels
<1>1. CASE Main
  BY <1>1 DEF Main, MainGivesUp, MainLoadsBonds, Refresh, RefreshClear, RefreshFill,
              Advertising, AdvertisingNotNeeded, AdvertisingStarts, AdvertisingSchedules, Retry
<1>2. CASE Workqueue
  BY <1>2 DEF Workqueue, SlowSwitchGuard, SlowSwitchStops, SlowSwitchStopFails,
              SlowSwitchStarts, SlowSwitchFailed, SlowRetry, WatchdogLooks, WatchdogUnrefs,
              RelayGraceExpires,
              Advertising, AdvertisingNotNeeded, AdvertisingStarts, AdvertisingSchedules, Retry
<1>3. CASE Recycled
  BY <1>3 DEF Recycled, OnRecycled, 
              Advertising, AdvertisingNotNeeded, AdvertisingStarts, AdvertisingSchedules, Retry
<1>4. CASE WriterTakesConn \/ WriterReleases
  BY <1>4 DEF WriterTakesConn, WriterReleases
<1>5. CASE \E w \in Works : WorkStarts(w)
  BY <1>5 DEF WorkStarts, Works
<1>6. CASE Phone
  BY <1>6 DEF Phone, PhoneEncrypts
<1>7. CASE AtRest
  BY <1>7 DEF AtRest, vars
<1>8. QED
  BY <1>1, <1>2, <1>3, <1>4, <1>5, <1>6, <1>7 DEF Next

\* The watchdog's countdown and the time the link has been up run in step.
LEMMA WatchingStep == ASSUME ClockInv, Step PROVE Watching'
<1> USE DEF ClockInv, IInv, TypeOK, Object, Callback, NoStalePointer, Watching, Counting, Goto,
            Threads, Short, HandlersAreShort, Moved
<1>1. /\ left'["security_timeout"] =
            IF "security_timeout" \notin works' THEN 0
            ELSE IF Moved("bt", "connected", "idle") THEN Window
            ELSE left["security_timeout"]
      /\ upFor' = IF phase' = "up" /\ current_conn' = current_conn THEN upFor ELSE 0
  BY ONLY Counted, Step, ClockInv DEF Step, ClockInv
<1>2. CASE /\ UNCHANGED <<phase, current_conn>>
           /\ "security_timeout" \in works' => "security_timeout" \in works
           /\ pc'["wq"] \in Dropping => pc["wq"] \in Dropping
           /\ UNCHANGED pc["bt"]
  BY <1>1, <1>2
<1>3. CASE WorkStarts("security_timeout")
  BY <1>1, <1>3 DEF WorkStarts, Step, OnlyDueWorksStart, peerv, app
<1>4. CASE WatchdogDrops
  BY <1>1, <1>4 DEF WatchdogDrops, Disconnected, app
<1>5. CASE Callbacks
  <2>1. CASE OnConnected
    BY <1>1, <2>1 DEF OnConnected
  <2>2. CASE OnConnectedArms
    BY <1>1, <2>2 DEF OnConnectedArms, Watchdog, app, peerv
  <2>3. CASE OnConnectFailed
    BY <1>1, <2>3 DEF OnConnectFailed
  <2>4. CASE OnDisconnected
    BY <1>1, <2>4 DEF OnDisconnected, app, peerv
  <2>5. CASE OnDisconnectedWorks
    BY <1>1, <2>5 DEF OnDisconnectedWorks, GraceWindow, app, peerv
  <2>6. CASE OnDisconnectedClears
    BY <1>1, <2>6 DEF OnDisconnectedClears
  <2>7. CASE OnSecurityChanged \/ OnSecurityChangedWorks \/ RelaySet \/ Refresh("bt")
    BY <1>1, <2>7 DEF OnSecurityChanged, OnSecurityChangedWorks, RelaySet, Refresh, RefreshClear,
         RefreshFill, AfterRefresh, app, peerv
  <2>8. QED
    BY <1>5, <2>1, <2>2, <2>3, <2>4, <2>5, <2>6, <2>7 DEF Callbacks
<1>6. CASE LinkDrops \/ HostReleases
  BY <1>1, <1>6 DEF LinkDrops, HostReleases, app
<1>7. CASE PairingComplete \/ \E enable \in BOOLEAN : RelayCommand(enable)
  BY <1>1, <1>7 DEF PairingComplete, RelayCommand, app, peerv
<1>8. CASE \E p \in Phones, outcome \in {"complete", "failed"} : PhoneConnects(p, outcome)
  BY <1>1, <1>8, Step DEF PhoneConnects, Step
<1>9. CASE PowerCycle
  BY <1>1, <1>9 DEF PowerCycle
<1>10. QED
  BY Step, WatchdogMoves, <1>2, <1>3, <1>4, <1>5, <1>6, <1>7, <1>8, <1>9 DEF Step

--------------------------------------------------------------------------------
\* References, callbacks and countdowns.

\* The steps that have to do with references.
LEMMA ReferenceMoves ==
  ASSUME TypeOK, Next
  PROVE  \/ /\ UNCHANGED <<refs, phase, current_conn>>
            /\ pc'["writer"] = pc["writer"]
            /\ pc["wq"] \in {"watchdog_drop", "watchdog_unref"} => pc'["wq"] = pc["wq"]
         \/ WatchdogLooks \/ WatchdogDrops \/ WatchdogUnrefs
         \/ OnConnected \/ OnConnectFailed \/ OnDisconnectedClears
         \/ WriterTakesConn \/ WriterReleases
         \/ \E p \in Phones, outcome \in {"complete", "failed"} : PhoneConnects(p, outcome)
         \/ LinkDrops \/ HostReleases \/ PowerCycle
<1> USE DEF TypeOK, Threads, Goto, peerv, app, slot
<1>1. CASE Main
  BY <1>1 DEF Main, MainGivesUp, MainLoadsBonds, Refresh, RefreshClear, RefreshFill,
              Advertising, AdvertisingNotNeeded, AdvertisingStarts, AdvertisingSchedules
<1>2. CASE Workqueue
  BY <1>2 DEF Workqueue, SlowSwitchGuard, SlowSwitchStops, SlowSwitchStopFails,
              SlowSwitchStarts, SlowSwitchFailed, RelayGraceExpires,
              Advertising, AdvertisingNotNeeded, AdvertisingStarts, AdvertisingSchedules
<1>3. CASE Callbacks
  BY <1>3 DEF Callbacks, OnConnectedArms, OnDisconnected, OnDisconnectedWorks,
              OnSecurityChanged, OnSecurityChangedWorks, RelaySet,
              Refresh, RefreshClear, RefreshFill
<1>4. CASE Recycled
  BY <1>4 DEF Recycled, OnRecycled,
              Advertising, AdvertisingNotNeeded, AdvertisingStarts, AdvertisingSchedules
<1>5. CASE \E w \in Works : WorkStarts(w)
  BY <1>5 DEF WorkStarts
<1>6. CASE Phone
  BY <1>6 DEF Phone, PhoneEncrypts, PairingComplete, RelayCommand
<1>7. CASE AtRest
  BY <1>7 DEF AtRest, vars
<1>8. QED
  BY <1>1, <1>2, <1>3, <1>4, <1>5, <1>6, <1>7 DEF Next

\* Whoever takes a reference gives it back where it stops.
LEMMA HeldStep == ASSUME IInv, Held, Next PROVE Held'
<1> USE DEF IInv, TypeOK, Object, Held, Threads, Goto, app, peerv, slot
<1>1. CASE /\ UNCHANGED <<refs, phase, current_conn>>
           /\ pc'["writer"] = pc["writer"]
           /\ pc["wq"] \in {"watchdog_drop", "watchdog_unref"} => pc'["wq"] = pc["wq"]
  BY <1>1
<1>2. CASE WatchdogLooks \/ WatchdogDrops \/ WatchdogUnrefs
  BY <1>2 DEF WatchdogLooks, WatchdogDrops, Disconnected, WatchdogUnrefs, TakeConn, Refs,
              ReleaseConn, Unref
<1>3. CASE OnConnected \/ OnConnectFailed \/ OnDisconnectedClears
  BY <1>3 DEF OnConnected, OnConnectFailed, OnDisconnectedClears, Unref
<1>4. CASE WriterTakesConn \/ WriterReleases
  BY <1>4 DEF WriterTakesConn, WriterReleases, TakeConn, Refs, ReleaseConn, Unref
<1>5. CASE \E p \in Phones, outcome \in {"complete", "failed"} : PhoneConnects(p, outcome)
  BY <1>5 DEF PhoneConnects
<1>6. CASE LinkDrops \/ HostReleases
  BY <1>6 DEF LinkDrops, HostReleases, Unref
<1>7. CASE PowerCycle
  BY <1>7 DEF PowerCycle
<1>8. QED
  BY ReferenceMoves, <1>1, <1>2, <1>3, <1>4, <1>5, <1>6, <1>7 DEF IInv

\* A link ends between two callbacks.
LEMMA ShortStep == ASSUME ClockInv, Step PROVE Short'
<1> USE DEF ClockInv, IInv, TypeOK, Callback, Short, Goto, Threads, HandlersAreShort, app, peerv
<1>1. CASE /\ UNCHANGED <<phase, current_conn>>
           /\ UNCHANGED pc["bt"]
  BY <1>1
<1>2. CASE Callbacks
  BY <1>2 DEF Callbacks, OnConnected, OnConnectedArms, OnConnectFailed, OnDisconnected,
              OnDisconnectedWorks, OnDisconnectedClears, OnSecurityChanged,
              OnSecurityChangedWorks, RelaySet, Refresh, RefreshClear, RefreshFill,
              AfterRefresh
<1>3. CASE WorkStarts("security_timeout") \/ WatchdogDrops \/ LinkDrops \/ HostReleases
  BY <1>3, Step DEF Step, WorkStarts, WatchdogDrops, Disconnected, LinkDrops, HostReleases
<1>4. CASE \/ PairingComplete \/ \E enable \in BOOLEAN : RelayCommand(enable)
           \/ \E p \in Phones, outcome \in {"complete", "failed"} : PhoneConnects(p, outcome)
  BY <1>4 DEF PairingComplete, RelayCommand, PhoneConnects
<1>5. CASE PowerCycle
  BY <1>5 DEF PowerCycle
<1>6. QED
  BY Step, WatchdogMoves, <1>1, <1>2, <1>3, <1>4, <1>5 DEF Step

\* The countdowns and the observers keep their types.
LEMMA CountingStep == ASSUME ClockInv, Step PROVE Counting'
<1>1. Counting /\ Countdowns
  BY DEF ClockInv, Step
<1>2. {upFor', silent', alone', drops'} \subseteq Nat
  BY DEF ClockInv, Step, Counting
<1>3. QED
  BY <1>1, <1>2, Counted DEF Counting

--------------------------------------------------------------------------------
\* The grace window.

\* A delay, n times over.
LEMMA Times ==
  ASSUME NEW d \in Nat, NEW n \in Nat
  PROVE  d * n \in Nat /\ d * (n + 1) = d * n + d /\ d * 1 = d
OBVIOUS

\* The steps that have to do with the relay, its window or the link.
LEMMA RelayMoves ==
  ASSUME TypeOK, Next
  PROVE  \/ /\ UNCHANGED <<relay_enabled, links, current_conn, link_secure, phase>>
            /\ UNCHANGED pc["bt"]
            /\ "relay_grace" \in works' => "relay_grace" \in works
            /\ pc'["wq"] = "relay_grace" => pc["wq"] = "relay_grace"
         \/ WorkStarts("relay_grace") \/ RelayGraceExpires
         \/ WatchdogDrops \/ Callbacks \/ Phone \/ HostReleases \/ PowerCycle
<1> USE DEF TypeOK, Threads, Goto, peerv, app
<1>1. CASE Main
  BY <1>1 DEF Main, MainGivesUp, MainLoadsBonds, Refresh, RefreshClear, RefreshFill,
              Advertising, AdvertisingNotNeeded, AdvertisingStarts, AdvertisingSchedules, Retry
<1>2. CASE Workqueue
  BY <1>2 DEF Workqueue, SlowSwitchGuard, SlowSwitchStops, SlowSwitchStopFails,
              SlowSwitchStarts, SlowSwitchFailed, SlowRetry, WatchdogLooks, WatchdogUnrefs,
              Advertising, AdvertisingNotNeeded, AdvertisingStarts, AdvertisingSchedules, Retry
<1>3. CASE Recycled
  BY <1>3 DEF Recycled, OnRecycled,
              Advertising, AdvertisingNotNeeded, AdvertisingStarts, AdvertisingSchedules, Retry
<1>4. CASE WriterTakesConn \/ WriterReleases
  BY <1>4 DEF WriterTakesConn, WriterReleases
<1>5. CASE \E w \in Works : WorkStarts(w)
  BY <1>5 DEF WorkStarts, Works
<1>6. CASE AtRest
  BY <1>6 DEF AtRest, vars
<1>7. QED
  BY <1>1, <1>2, <1>3, <1>4, <1>5, <1>6 DEF Next

\* Only a drop that finds the relay on arms the window.
LEMMA WindowArmed ==
  ASSUME TypeOK, Next, "relay_grace" \in works'
  PROVE  "relay_grace" \in works \/ Moved("bt", "disc_held", "disc_clear")
<1> USE DEF TypeOK, Threads
<1>1. CASE WorkStarts("relay_grace") \/ RelayGraceExpires \/ WatchdogDrops \/ HostReleases
  BY <1>1 DEF WorkStarts, RelayGraceExpires, WatchdogDrops, HostReleases
<1>2. CASE Callbacks
  BY <1>2 DEF Callbacks, OnConnected, OnConnectedArms, Watchdog, OnConnectFailed,
              OnDisconnected, OnDisconnectedWorks, GraceWindow, OnDisconnectedClears,
              OnSecurityChanged, OnSecurityChangedWorks, RelaySet, Refresh, RefreshClear,
              RefreshFill, Moved, Goto
<1>3. CASE Phone
  BY <1>3 DEF Phone, PhoneConnects, PhoneEncrypts, LinkDrops, PairingComplete, RelayCommand
<1>4. CASE PowerCycle
  BY <1>4 DEF PowerCycle
<1>5. QED
  BY RelayMoves, <1>1, <1>2, <1>3, <1>4

\* What a step makes of the window's countdown and of the time the relay is alone.
LEMMA WindowCounted ==
  ASSUME ClockInv, Step
  PROVE  /\ left'["relay_grace"] =
              IF "relay_grace" \notin works' THEN 0
              ELSE IF Moved("bt", "disc_held", "disc_clear") THEN Grace
              ELSE left["relay_grace"]
         /\ alone' = IF Secure' \/ ~relay_enabled' THEN 0 ELSE alone
         /\ left["relay_grace"] \in Nat /\ left["relay_grace"] <= Grace
         /\ alone \in Nat /\ Grace \in Nat
BY Counted DEF Step, ClockInv, Counting, Works

\* Each drop buys the relay one window.
LEMMA GrantedStep == ASSUME ClockInv, Step PROVE Granted'
<1>1. drops' = IF Moved("bt", "disc_held", "disc_clear")
                 THEN (IF Secure THEN 1 ELSE drops + 1) ELSE drops
  BY Step DEF Step, Rescheduled
<1> DEFINE allowed == Grace * drops
           next    == Grace * drops'
<1>2. /\ allowed \in Nat /\ next \in Nat
      /\ next = IF Moved("bt", "disc_held", "disc_clear")
                  THEN (IF Secure THEN Grace ELSE allowed + Grace) ELSE allowed
  BY Times, <1>1 DEF ClockInv, Counting
<1>3. /\ alone <= allowed
      /\ "relay_grace" \in works => alone + left["relay_grace"] <= allowed
      /\ Secure => alone = 0
  BY DEF ClockInv, Granted, OneWindowPerDrop, Covering
<1>4. ASSUME alone' <= next,
             "relay_grace" \in works' => alone' + left'["relay_grace"] <= next
      PROVE  Granted'
  BY <1>4 DEF Granted, OneWindowPerDrop
<1> HIDE DEF allowed, next
<1>5. "relay_grace" \in works' => "relay_grace" \in works \/ Moved("bt", "disc_held", "disc_clear")
  BY WindowArmed DEF ClockInv, IInv, Step
<1>6. alone' <= next /\ ("relay_grace" \in works' => alone' + left'["relay_grace"] <= next)
  BY ONLY WindowCounted, ClockInv, Step, <1>2, <1>3, <1>5
<1>7. QED
  BY <1>4, <1>6

\* The window is granted in full.
LEMMA CoveringStep == ASSUME ClockInv, Step, IInv' PROVE Covering'
<1>1. /\ left'["relay_grace"] =
            IF "relay_grace" \notin works' THEN 0
            ELSE IF Moved("bt", "disc_held", "disc_clear") THEN Grace
            ELSE left["relay_grace"]
      /\ alone' = IF Secure' \/ ~relay_enabled' THEN 0 ELSE alone
      /\ left["relay_grace"] \in Nat /\ left["relay_grace"] <= Grace
      /\ alone \in Nat /\ Grace \in Nat
  BY ONLY WindowCounted, ClockInv, Step
<1>2. Next /\ HandlersAreShort /\ OnlyDueWorksStart /\ IInv /\ Short /\ Covering
  BY DEF ClockInv, Step
<1>3. "relay_grace" \in works' => "relay_grace" \in works \/ Moved("bt", "disc_held", "disc_clear")
  BY <1>2, WindowArmed DEF IInv
<1> USE DEF Covering, Secure, Moved, Goto
<1>4. CASE /\ UNCHANGED <<relay_enabled, links, current_conn, link_secure, phase>>
           /\ UNCHANGED pc["bt"]
           /\ "relay_grace" \in works' => "relay_grace" \in works
           /\ pc'["wq"] = "relay_grace" => pc["wq"] = "relay_grace"
  BY ONLY <1>1, <1>2, <1>4, IInv' DEF IInv, GraceCovers, Covering, Secure, Moved
<1> USE DEF IInv, TypeOK, Callback, Threads, Object, GraceCovers
<1>5. CASE WorkStarts("relay_grace")
  BY <1>1, <1>2, <1>5 DEF WorkStarts, OnlyDueWorksStart, Short, app, peerv
<1>6. CASE RelayGraceExpires
  BY <1>1, <1>2, <1>6 DEF RelayGraceExpires, Back, app, peerv
<1>7. CASE WatchdogDrops \/ HostReleases
  BY <1>1, <1>2, <1>3, <1>7 DEF WatchdogDrops, Disconnected, HostReleases, app, peerv, HandlersAreShort
<1>8. CASE PowerCycle
  BY <1>1, <1>2, <1>8 DEF PowerCycle
<1>9. CASE Callbacks
  <2>1. CASE OnConnected \/ OnConnectedArms \/ OnConnectFailed
    BY <1>1, <1>2, <1>3, <2>1 DEF OnConnected, OnConnectedArms, Watchdog, OnConnectFailed, app, peerv
  <2>2. CASE OnDisconnected
    BY <1>1, <1>2, <2>2 DEF OnDisconnected, app, peerv
  <2>3. CASE OnDisconnectedWorks
    BY <1>1, <1>2, <2>3 DEF OnDisconnectedWorks, GraceWindow, app, peerv
  <2>4. CASE OnDisconnectedClears
    BY <1>1, <1>2, <2>4 DEF OnDisconnectedClears
  <2>5. CASE OnSecurityChanged
    BY <1>1, <1>2, <2>5 DEF OnSecurityChanged, peerv
  <2>6. CASE OnSecurityChangedWorks
    BY <1>1, <1>2, <2>6 DEF OnSecurityChangedWorks, app, peerv
  <2>7. CASE RelaySet
    BY <1>1, <1>2, <2>7 DEF RelaySet, app, peerv
  <2>8. CASE Refresh("bt")
    BY <1>1, <1>2, <2>8 DEF Refresh, RefreshClear, RefreshFill, AfterRefresh, app, peerv
  <2>9. QED
    BY <1>9, <2>1, <2>2, <2>3, <2>4, <2>5, <2>6, <2>7, <2>8 DEF Callbacks
<1>10. CASE Phone
  <2>1. CASE \E p \in Phones, outcome \in {"complete", "failed"} : PhoneConnects(p, outcome)
    BY <1>1, <1>2, <2>1 DEF PhoneConnects, app
  <2>2. CASE LinkDrops \/ PhoneEncrypts
    BY <1>1, <1>2, <2>2 DEF LinkDrops, PhoneEncrypts, app, HandlersAreShort
  <2>3. CASE PairingComplete \/ \E enable \in BOOLEAN : RelayCommand(enable)
    BY <1>1, <1>2, <2>3 DEF PairingComplete, RelayCommand, app, peerv
  <2>4. QED
    BY <1>10, <2>1, <2>2, <2>3 DEF Phone
<1>11. QED
  BY <1>2, RelayMoves, <1>4, <1>5, <1>6, <1>7, <1>8, <1>9, <1>10

--------------------------------------------------------------------------------
\* Silence.

\* A step fails at most once.
LEMMA OneFault == ASSUME Next PROVE faults' = faults \/ faults' = faults + 1
<1> USE DEF Fault, budget, BtLeAdvStart, BtLeAdvStartFails
<1>1. CASE Main
  BY <1>1 DEF Main, MainGivesUp, MainLoadsBonds, Refresh, RefreshClear, RefreshFill,
              Advertising, AdvertisingNotNeeded, AdvertisingStarts, AdvertisingSchedules
<1>2. CASE Workqueue
  BY <1>2 DEF Workqueue, SlowSwitchGuard, SlowSwitchStops, SlowSwitchStopFails,
              SlowSwitchStarts, SlowSwitchFailed, WatchdogLooks, WatchdogDrops,
              WatchdogUnrefs, RelayGraceExpires,
              Advertising, AdvertisingNotNeeded, AdvertisingStarts, AdvertisingSchedules
<1>3. CASE Callbacks
  BY <1>3 DEF Callbacks, OnConnected, OnConnectedArms, OnConnectFailed, OnDisconnected,
              OnDisconnectedWorks, OnDisconnectedClears, OnSecurityChanged,
              OnSecurityChangedWorks, RelaySet, Refresh, RefreshClear, RefreshFill
<1>4. CASE Recycled
  BY <1>4 DEF Recycled, OnRecycled,
              Advertising, AdvertisingNotNeeded, AdvertisingStarts, AdvertisingSchedules
<1>5. CASE WriterTakesConn \/ WriterReleases \/ \E w \in Works : WorkStarts(w)
  BY <1>5 DEF WriterTakesConn, WriterReleases, WorkStarts
<1>6. CASE Phone
  BY <1>6 DEF Phone, PhoneConnects, PhoneEncrypts, LinkDrops, PairingComplete, RelayCommand
<1>7. CASE HostReleases \/ PowerCycle \/ AtRest
  BY <1>7 DEF HostReleases, PowerCycle, AtRest, vars
<1>8. QED
  BY <1>1, <1>2, <1>3, <1>4, <1>5, <1>6, <1>7 DEF Next

\* It goes on waiting: nothing schedules the retry or fails, ...
StillWaits ==
  /\ Waits /\ faults' >= faults
  /\ Failed' => Failed
  /\ "adv_retry" \in works' => "adv_retry" \in works
  /\ ~Rescheduled("adv_retry")

\* ... the retry is scheduled, ...
RetryScheduled ==
  /\ Waits /\ faults' = faults
  /\ Failed' => Failed
  /\ Rescheduled("adv_retry") /\ Failed

\* ... or it begins to wait: a start has failed, with the connection object at hand.
StartFailed ==
  /\ Silent /\ faults' = faults + 1
  /\ "adv_retry" \in works' => "adv_retry" \in works
  /\ ~Rescheduled("adv_retry")

\* There is no other way to be waiting.
LEMMA SilenceMoves ==
  ASSUME IInv, Held, Next, Waits'
  PROVE  StillWaits \/ RetryScheduled \/ StartFailed
<1> USE DEF IInv, TypeOK, Threads, Goto, Waits, Undecided, Failed, Rescheduled, Moved, Silent,
            StillWaits, RetryScheduled, StartFailed, peerv, radio, slot, budget
<1>1. CASE MainGivesUp \/ \E factoryReset \in BOOLEAN : MainLoadsBonds(factoryReset)
  BY <1>1 DEF MainGivesUp, MainLoadsBonds
<1>2. CASE Refresh("main")
  BY <1>2 DEF Refresh, RefreshClear, RefreshFill, AfterRefresh
<1>3. ASSUME NEW t \in {"main", "wq", "rec"}, Advertising(t)
      PROVE  StillWaits \/ RetryScheduled \/ StartFailed
  <2>1. CASE AdvertisingNotNeeded(t)
    BY <1>3, <2>1 DEF AdvertisingNotNeeded, ShouldStartAdv, Switch, Object
  <2>2. CASE AdvertisingStarts(t)
    BY <1>3, <2>2 DEF AdvertisingStarts, BtLeAdvStart, BtLeAdvStartFails, SlotFree, Fault
  <2>3. CASE AdvertisingSchedules(t)
    BY <1>3, <2>3 DEF AdvertisingSchedules, Retry
  <2>4. QED
    BY <1>3, <2>1, <2>2, <2>3 DEF Advertising
<1>4. CASE SlowSwitchGuard \/ SlowSwitchStops \/ SlowSwitchStopFails
  BY <1>4 DEF SlowSwitchGuard, SlowSwitchStops, SlowSwitchStopFails, Fault, Switch
<1>5. CASE SlowSwitchStarts
  BY <1>5 DEF SlowSwitchStarts, BtLeAdvStart, BtLeAdvStartFails, SlotFree, Fault,
              OneAdvertiser
<1>6. CASE SlowSwitchFailed
  BY <1>6 DEF SlowSwitchFailed, SlowRetry
<1>7. CASE WatchdogLooks \/ WatchdogDrops \/ RelayGraceExpires
  BY <1>7 DEF WatchdogLooks, TakeConn, Refs, WatchdogDrops, Disconnected, Fault,
              RelayGraceExpires
<1>8. CASE WatchdogUnrefs \/ WriterReleases
  <2>1. \E h \in {"wq", "writer"} : Unref(h)
    BY <1>8 DEF WatchdogUnrefs, WriterReleases, ReleaseConn
  <2>2. PICK h \in {"wq", "writer"} : Unref(h)
    BY <2>1
  <2>3. h \notin refs
    BY ONLY <2>2, LastReference, Waits' DEF Waits, Undecided
  <2>4. refs = {}
    BY ONLY <2>2, <2>3, Waits' DEF Waits, Unref
  <2>5. "wq" \in refs \/ "writer" \in refs
    BY <1>8 DEF WatchdogUnrefs, WriterReleases, NoStalePointer, Object
  <2>6. QED
    BY <2>4, <2>5
<1>9. CASE HostReleases
  BY <1>9 DEF HostReleases, Unref, Object
<1>10. CASE PowerCycle
  BY <1>10 DEF PowerCycle
<1>11. CASE Callbacks
  <2>1. pc["bt"] # "idle" \/ phase # "none"
    BY <1>11 DEF Callbacks, OnConnected, OnConnectedArms, OnConnectFailed, OnDisconnected,
                 OnDisconnectedWorks, OnDisconnectedClears, OnSecurityChanged,
                 OnSecurityChangedWorks, RelaySet, Refresh, RefreshClear, RefreshFill
  <2>2. phase # "none"
    BY <2>1 DEF Callback
  <2>3. phase' = phase \/ phase' \in {"up", "closing"}
    BY <1>11 DEF Callbacks, OnConnected, OnConnectedArms, OnConnectFailed, OnDisconnected,
                 OnDisconnectedWorks, OnDisconnectedClears, OnSecurityChanged,
                 OnSecurityChangedWorks, RelaySet, Refresh, RefreshClear, RefreshFill
  <2>4. QED
    BY <2>2, <2>3
<1>12. CASE Phone
  BY <1>12 DEF Phone, PhoneConnects, PhoneEncrypts, LinkDrops, PairingComplete, RelayCommand
<1>13. CASE OnRecycled
  BY <1>13 DEF OnRecycled
<1>14. CASE WriterTakesConn
  BY <1>14 DEF WriterTakesConn, TakeConn, Refs
<1>15. CASE \E w \in Works : WorkStarts(w)
  BY <1>15 DEF WorkStarts, Works
<1>16. CASE AtRest
  BY <1>16 DEF AtRest, vars
<1>17. QED
  BY <1>1, <1>2, <1>3, <1>4, <1>5, <1>6, <1>7, <1>8, <1>9, <1>10, <1>11, <1>12, <1>13,
     <1>14, <1>15, <1>16 DEF Next, Main, Workqueue, Recycled

\* Every failed start buys the silence one delay of the retry.
LEMMA WaitingStep == ASSUME ClockInv, Step PROVE Waiting'
<1>1. /\ Next /\ IInv /\ Held /\ Counting /\ Waiting
      /\ silent' = IF Silent' THEN silent ELSE 0
  BY DEF ClockInv, Step
<1>2. left'["adv_retry"] =
        IF "adv_retry" \notin works' THEN 0
        ELSE IF Rescheduled("adv_retry") THEN RetryDelay
        ELSE left["adv_retry"]
  BY Counted DEF ClockInv, Step
<1>3. /\ silent \in Nat /\ RetryDelay \in Nat /\ faults \in Nat /\ faults' \in Nat
      /\ left["adv_retry"] \in Nat /\ left["adv_retry"] <= RetryDelay
      /\ faults' = faults \/ faults' = faults + 1
  <2>1. faults' = faults \/ faults' = faults + 1
    BY <1>1, OneFault
  <2>2. QED
    BY <1>1, <2>1 DEF Counting, Works, IInv, TypeOK
<1> DEFINE paid == RetryDelay * faults
           next == RetryDelay * faults'
<1>4. /\ paid \in Nat /\ next \in Nat /\ paid <= next
      /\ faults' = faults + 1 => next = paid + RetryDelay
      /\ faults' = faults => next = paid
  <2>1. /\ RetryDelay * faults \in Nat
        /\ RetryDelay * (faults + 1) = RetryDelay * faults + RetryDelay
    BY ONLY <1>3, Times
  <2>2. CASE faults' = faults
    BY ONLY <1>3, <2>1, <2>2
  <2>3. CASE faults' = faults + 1
    BY ONLY <1>3, <2>1, <2>3
  <2>4. QED
    BY ONLY <1>3, <2>2, <2>3
<1>5. /\ silent <= paid
      /\ Waits /\ Failed => silent + RetryDelay <= paid
      /\ Waits /\ "adv_retry" \in works => silent + left["adv_retry"] <= paid
  BY <1>1 DEF Waiting, SilenceBounded
<1>6. ASSUME silent' <= next,
             Waits' =>
               /\ Failed' => silent' + RetryDelay <= next
               /\ "adv_retry" \in works' => silent' + left'["adv_retry"] <= next
      PROVE  Waiting'
  BY <1>6 DEF Waiting, SilenceBounded
<1> DEFINE now == silent'
<1>7. now <= silent /\ now \in Nat
  BY ONLY <1>1, <1>3
<1> HIDE DEF paid, next, now
<1>8. ASSUME Waits'
      PROVE  /\ Failed' => now + RetryDelay <= next
             /\ "adv_retry" \in works' => now + left'["adv_retry"] <= next
  <2>1. StillWaits \/ RetryScheduled \/ StartFailed
    BY <1>1, <1>8, SilenceMoves
  <2>2. CASE StillWaits
    <3>1. /\ Failed' => silent + RetryDelay <= paid
          /\ "adv_retry" \in works' => /\ silent + left["adv_retry"] <= paid
                                       /\ left'["adv_retry"] = left["adv_retry"]
      BY ONLY <1>2, <1>5, <2>2 DEF StillWaits
    <3>2. QED
      BY ONLY <1>3, <1>4, <1>7, <3>1
  <2>3. CASE RetryScheduled
    <3>1. /\ silent + RetryDelay <= paid
          /\ left'["adv_retry"] \in {0, RetryDelay}
      BY ONLY <1>2, <1>5, <2>3 DEF RetryScheduled
    <3>2. QED
      BY ONLY <1>3, <1>4, <1>7, <3>1
  <2>4. CASE StartFailed
    <3>1. next = paid + RetryDelay
      BY ONLY <1>4, <2>4 DEF StartFailed
    <3>2. "adv_retry" \in works' => left'["adv_retry"] = left["adv_retry"]
      BY ONLY <1>2, <2>4 DEF StartFailed
    <3>3. QED
      BY ONLY <1>3, <1>4, <1>5, <1>7, <3>1, <3>2
  <2>5. QED
    BY ONLY <2>1, <2>2, <2>3, <2>4
<1>9. now <= next
  BY ONLY <1>3, <1>4, <1>5, <1>7
<1>10. QED
  BY <1>6, <1>8, <1>9 DEF now

--------------------------------------------------------------------------------
\* Time passes.

\* The clock changes nothing that Link knows of.
LEMMA NothingMoves ==
  ASSUME UNCHANGED vars
  PROVE  /\ IInv => IInv'
         /\ Held => Held'
         /\ Short => Short'
         /\ Failed' = Failed /\ Undecided' = Undecided /\ Silent' = Silent
         /\ Waits' = Waits /\ Secure' = Secure
<1> USE DEF vars, app, lock, radio, peerv, slot, budget
<1>1. IInv => IInv'
  BY DEF IInv, TypeOK, BootQuiet, Object, Callback, Switch, Locked, GraceCovers,
         OneAdvertiser, RestartComing, AcceptListNotInUse, OwnerAdmitted, OwnerOnly,
         NoStalePointer, SecureOnly, WatchdogArmed, RelayCovered
<1>2. (Held => Held') /\ (Short => Short')
  BY DEF Held, Short
<1>3. Failed' = Failed /\ Undecided' = Undecided
  BY DEF Failed, Undecided
<1>4. Silent' = Silent /\ Secure' = Secure
  BY DEF Silent, Secure
<1>5. Waits' = Waits
  BY <1>3, <1>4 DEF Waits
<1>6. QED
  BY <1>1, <1>2, <1>3, <1>4, <1>5

\* What a tick finds: nobody is in the middle of anything, and no work is due.
LEMMA TickFinds ==
  ASSUME ClockInv, Tick
  PROVE  /\ UNCHANGED <<pc, phase, works, link_secure, relay_enabled, faults, drops, links>>
         /\ pc["wq"] = "idle" /\ pc["bt"] = "idle"
         /\ \A w \in Works :
              /\ left[w] \in Nat
              /\ w \in works => left'[w] = left[w] - 1 /\ left'[w] \in Nat
              /\ w \notin works => left'[w] = 0
         /\ left' \in [Works -> Nat]
<1>1. UNCHANGED <<pc, phase, works, link_secure, relay_enabled, faults, drops, links>>
  BY DEF Tick, vars, app, peerv, budget
<1>2. pc["wq"] = "idle" /\ pc["bt"] = "idle"
  BY DEF Tick, ClockInv, IInv, TypeOK, Threads, WqLabels, BtLabels, RecLabels
<1>3. ASSUME NEW w \in Works
      PROVE  /\ left[w] \in Nat
             /\ w \in works => left'[w] = left[w] - 1 /\ left'[w] \in Nat
             /\ w \notin works => left'[w] = 0
  <2>1. left[w] \in Nat /\ (w \in works => left[w] > 0)
    BY <1>3 DEF Tick, ClockInv, Counting
  <2>2. left'[w] = IF w \in works THEN left[w] - 1 ELSE 0
    BY <1>3 DEF Tick
  <2>3. left[w] > 0 => left[w] - 1 \in Nat
    BY ONLY <2>1
  <2>4. QED
    BY ONLY <2>1, <2>2, <2>3
<1>4. left' \in [Works -> Nat]
  <2>1. left' = [w \in Works |-> left'[w]]
    BY DEF Tick
  <2>2. \A w \in Works : left'[w] \in Nat
    BY <1>3
  <2>3. QED
    BY ONLY <2>1, <2>2
<1>5. QED
  BY <1>1, <1>2, <1>3, <1>4

\* A tick moves a countdown and its observer by one, or neither.
LEMMA TickStep == ASSUME ClockInv, Tick PROVE ClockInv'
<1>1. UNCHANGED vars /\ UNCHANGED drops
  BY DEF Tick
<1>2. IInv' /\ Held' /\ Short'
  BY <1>1, NothingMoves DEF ClockInv
<1>3. /\ UNCHANGED <<pc, phase, works, link_secure, relay_enabled, faults, drops, links>>
      /\ pc["wq"] = "idle" /\ pc["bt"] = "idle"
      /\ \A w \in Works :
           /\ left[w] \in Nat
           /\ w \in works => left'[w] = left[w] - 1 /\ left'[w] \in Nat
           /\ w \notin works => left'[w] = 0
      /\ left' \in [Works -> Nat]
  BY ONLY ClockInv, Tick, TickFinds
<1>4. /\ "security_timeout" \in Works /\ "relay_grace" \in Works /\ "adv_retry" \in Works
      /\ {Window, Grace, RetryDelay, upFor, silent, alone, drops} \subseteq Nat
      /\ left["adv_retry"] <= RetryDelay /\ left["relay_grace"] <= Grace
  BY DEF Works, ClockInv, Counting
<1> DEFINE up  == upFor'
           sil == silent'
           al  == alone'
<1>5. /\ up = IF phase = "up" /\ upFor <= Window THEN upFor + 1 ELSE upFor
      /\ sil = IF Silent /\ silent < SilentBound THEN silent + 1 ELSE silent
      /\ al = IF relay_enabled /\ ~Secure /\ alone < AloneBound THEN alone + 1 ELSE alone
  BY DEF Tick
<1> HIDE DEF up, sil, al
<1>6. Counting'
  <2>1. up \in Nat /\ sil \in Nat /\ al \in Nat
    BY ONLY <1>4, <1>5
  <2>2. left'["adv_retry"] <= RetryDelay /\ left'["relay_grace"] <= Grace
    BY ONLY <1>3, <1>4
  <2>3. QED
    BY <1>3, <1>4, <2>1, <2>2 DEF Counting, up, sil, al
<1>7. Watching'
  <2>1. phase = "up" /\ "security_timeout" \in works =>
          up + left'["security_timeout"] = Window
    <3>1. phase = "up" /\ "security_timeout" \in works =>
            upFor + left["security_timeout"] = Window
      BY DEF ClockInv, Watching
    <3>2. QED
      BY ONLY <1>3, <1>4, <1>5, <3>1
  <2>2. QED
    BY <1>3, <2>1 DEF ClockInv, Watching, up
<1>8. /\ Secure \/ ~relay_enabled => al = alone
      /\ al = alone \/ al = alone + 1
      /\ "relay_grace" \in works => al + left'["relay_grace"] <= alone + left["relay_grace"]
      /\ relay_enabled /\ ~Secure => "relay_grace" \in works
  <2>1. relay_enabled /\ ~Secure => "relay_grace" \in works
    BY <1>3 DEF ClockInv, IInv, RelayCovered, Secure
  <2>2. QED
    BY ONLY <1>3, <1>4, <1>5, <2>1
<1>9. Granted'
  <2> DEFINE allowed == Grace * drops
  <2>1. allowed \in Nat
    BY ONLY <1>4, Times
  <2>2. /\ alone <= allowed
        /\ "relay_grace" \in works => alone + left["relay_grace"] <= allowed
    BY DEF ClockInv, Granted, OneWindowPerDrop
  <2> HIDE DEF allowed
  <2>3. "relay_grace" \in works => al + left'["relay_grace"] <= allowed
    BY ONLY <1>3, <1>4, <1>5, <1>8, <2>1, <2>2
  <2>4. al <= allowed
    <3>1. CASE "relay_grace" \in works
      BY ONLY <1>3, <1>4, <1>8, <2>1, <2>3, <3>1
    <3>2. CASE "relay_grace" \notin works
      BY ONLY <1>8, <2>2, <3>2, <1>5
    <3>3. QED
      BY <3>1, <3>2
  <2>5. QED
    BY <1>3, <2>3, <2>4 DEF Granted, OneWindowPerDrop, allowed, al
<1>10. Covering'
  <2>1. relay_enabled /\ ~Secure => al + left'["relay_grace"] >= Grace
    <3>1. relay_enabled /\ ~Secure => alone + left["relay_grace"] >= Grace
      BY <1>8 DEF ClockInv, Covering
    <3>2. relay_enabled => AloneBound >= Grace /\ AloneBound \in Nat
      <4>1. ASSUME relay_enabled PROVE MaxLinks \in Nat /\ MaxLinks >= 1
        BY <4>1, LinkAssumption DEF ClockInv, Covering, IInv, TypeOK
      <4>2. ASSUME NEW g \in Nat, NEW m \in Nat, m >= 1
            PROVE  g * m + 1 >= g /\ g * m + 1 \in Nat
        <5>1. g * ((m - 1) + 1) = g * (m - 1) + g /\ g * (m - 1) \in Nat
          BY ONLY <4>2, Times
        <5>2. g * m = g * (m - 1) + g /\ g * (m - 1) \in Nat
          BY ONLY <4>2, <5>1
        <5>3. QED
          BY ONLY <4>2, <5>2
      <4>3. QED
        BY <1>4, <4>1, <4>2 DEF AloneBound
    <3>3. QED
      BY ONLY <1>3, <1>4, <1>5, <1>8, <3>1, <3>2
  <2>2. Secure' = Secure
    BY <1>1, NothingMoves
  <2>3. Secure \/ ~relay_enabled => al = 0
    BY <1>8 DEF ClockInv, Covering
  <2>4. QED
    BY <1>3, <2>1, <2>2, <2>3 DEF ClockInv, Covering, al
<1>11. Waiting'
  <2>1. Silent => Waits /\ "adv_retry" \in works
    BY <1>3 DEF ClockInv, Tick, Silent, Waits, Undecided, IInv, RestartComing, Held, Object,
                TypeOK, Threads, Holders, MainLabels, RecLabels
  <2> DEFINE paid == RetryDelay * faults
  <2>2. /\ paid \in Nat /\ silent <= paid
        /\ Silent => silent + left["adv_retry"] <= paid
    BY <2>1, <1>4, Times DEF ClockInv, Waiting, SilenceBounded, IInv, TypeOK
  <2> HIDE DEF paid
  <2>3. sil <= paid /\ (Silent => sil + left'["adv_retry"] <= paid)
    BY ONLY <1>3, <1>4, <1>5, <2>1, <2>2
  <2>4. ~Failed \/ ~Waits
    BY DEF Tick, Failed, Waits, Threads
  <2>5. Waits' = Waits /\ Failed' = Failed
    BY <1>1, NothingMoves
  <2>6. Waits => Silent
    BY DEF Waits
  <2>7. QED
    BY <1>3, <2>3, <2>4, <2>5, <2>6 DEF Waiting, SilenceBounded, paid, sil
<1>12. QED
  BY <1>2, <1>6, <1>7, <1>9, <1>10, <1>11 DEF ClockInv

--------------------------------------------------------------------------------
\* The theorems.

\* The clock starts with nothing scheduled.
LEMMA TimedInitHolds == TimedInit => ClockInv
<1> SUFFICES ASSUME TimedInit PROVE ClockInv
  OBVIOUS
<1>1. IInv
  BY InitHolds DEF TimedInit
<1>2. /\ phase = "none" /\ refs = {} /\ works = {} /\ ~relay_enabled /\ current_conn = 0
      /\ pc["main"] = "boot" /\ pc["bt"] = "idle" /\ pc["wq"] = "idle" /\ pc["writer"] = "idle"
      /\ faults = 0 /\ left = [w \in Works |-> 0]
      /\ upFor = 0 /\ silent = 0 /\ alone = 0 /\ drops = 0
  BY DEF TimedInit, Init, PowerOn, Threads
<1>3. Held /\ Short /\ Watching
  BY <1>2 DEF Held, Short, Watching
<1>4. Counting
  BY <1>2 DEF Counting, Works
<1>5. Granted /\ Covering
  <2>1. Grace * 0 \in Nat
    BY Times
  <2>2. OneWindowPerDrop
    BY ONLY <1>2, <2>1 DEF OneWindowPerDrop
  <2>3. QED
    BY <1>2, <2>2 DEF Granted, Covering, Secure
<1>6. Waiting
  <2>1. RetryDelay * 0 \in Nat
    BY Times
  <2>2. SilenceBounded
    BY ONLY <1>2, <2>1 DEF SilenceBounded
  <2>3. QED
    BY <1>2, <2>2 DEF Waiting, Waits, Undecided
<1>7. QED
  BY <1>1, <1>3, <1>4, <1>5, <1>6 DEF ClockInv

\* The invariant is inductive.
LEMMA TimedStepPreserves == ClockInv /\ [Step \/ Tick]_timedVars => ClockInv'
<1> SUFFICES ASSUME ClockInv, [Step \/ Tick]_timedVars PROVE ClockInv'
  OBVIOUS
<1>1. CASE Step
  <2>1. IInv'
    BY <1>1, StepPreserves DEF ClockInv, Step
  <2>2. Held'
    BY <1>1, HeldStep DEF ClockInv, Step
  <2>3. Short' /\ Counting' /\ Watching' /\ Granted' /\ Covering' /\ Waiting'
    BY ONLY <1>1, <2>1, ClockInv, ShortStep, CountingStep, WatchingStep, GrantedStep,
            CoveringStep, WaitingStep
  <2>4. QED
    BY <2>1, <2>2, <2>3 DEF ClockInv
<1>2. CASE Tick
  BY ONLY <1>2, ClockInv, TickStep
<1>3. CASE UNCHANGED timedVars
  <2>1. UNCHANGED <<vars, left, upFor, silent, alone, drops>>
    BY <1>3 DEF timedVars
  <2>2. UNCHANGED <<pc, phase, works, relay_enabled, faults, links>>
    BY <2>1 DEF vars, peerv, budget
  <2>3. QED
    BY <2>1, <2>2, NothingMoves
       DEF ClockInv, Counting, Watching, Granted, OneWindowPerDrop, Covering, Waiting,
           SilenceBounded
<1>4. QED
  BY <1>1, <1>2, <1>3

\* Everything that ties the countdowns to what they bound holds in every reachable state.
THEOREM ClockInvariance == TimedSpec => []ClockInv
BY TimedInitHolds, TimedStepPreserves, PTL DEF TimedSpec

\* However often a stranger's link comes and goes, the relay of an absent owner stays on
\* for one grace window per link that dropped, and no longer.
THEOREM RelayBounded == TimedSpec => []OneWindowPerDrop
<1>1. ClockInv => OneWindowPerDrop
  BY DEF ClockInv, Granted
<1>2. QED
  BY <1>1, ClockInvariance, PTL

\* Nobody keeps the only connection slot for longer than the window without encrypting,
\* unless the one disconnect of the watchdog has failed for his link.
THEOREM SlotFreed == TimedSpec => []SlotFreedInTime
<1>1. ClockInv => SlotFreedInTime
  <2> SUFFICES ASSUME ClockInv, phase = "up", ~link_secure, undropped # links
               PROVE  upFor <= Window
    BY DEF SlotFreedInTime
  <2>1. Window \in Nat /\ upFor \in Nat /\ left["security_timeout"] \in Nat
    BY DEF ClockInv, Counting, Works
  <2>2. CASE pc["bt"] = "connected"
    BY ONLY <2>1, <2>2, ClockInv, phase = "up" DEF ClockInv, Watching
  <2>3. CASE pc["bt"] # "connected"
    <3>1. \/ "security_timeout" \in works
          \/ pc["wq"] \in Dropping
      BY <2>3 DEF ClockInv, IInv, WatchdogArmed
    <3>2. upFor + left["security_timeout"] = Window \/ upFor = Window
      BY <3>1 DEF ClockInv, Watching
    <3>3. QED
      BY ONLY <2>1, <3>2
  <2>4. QED
    BY <2>2, <2>3
<1>2. QED
  BY <1>1, ClockInvariance, PTL

\* The device is off the air and idle for at most one delay of the retry per failed call.
THEOREM SilenceEnds == TimedSpec => []SilenceBounded
<1>1. ClockInv => SilenceBounded
  BY DEF ClockInv, Waiting
<1>2. QED
  BY <1>1, ClockInvariance, PTL

\* An expiry that cuts the relay never comes before the owner has been gone for the whole
\* grace window: no expiry of an earlier window is left over.
THEOREM WindowInFull == TimedSpec => NeverCutEarly
<1>1. ClockInv /\ [Step \/ Tick]_timedVars =>
        [relay_enabled /\ ~relay_enabled' /\ Moved("wq", "relay_grace", "idle")
           /\ boots' = boots => alone >= Grace]_timedVars
  <2> SUFFICES ASSUME ClockInv, Step \/ Tick, relay_enabled, ~relay_enabled',
                      Moved("wq", "relay_grace", "idle"), boots' = boots
               PROVE  alone >= Grace
    BY DEF timedVars, vars
  <2>1. RelaySet \/ RelayGraceExpires \/ PowerCycle
    BY RelayChanges DEF Step, Tick, vars
  <2>2. CASE RelaySet
    BY <2>2 DEF RelaySet, Moved, Goto, ClockInv, IInv, TypeOK, Threads
  <2>3. CASE RelayGraceExpires
    BY <2>3 DEF RelayGraceExpires, Back, ClockInv, Covering, Secure
  <2>4. CASE PowerCycle
    BY <2>4 DEF PowerCycle, ClockInv, IInv, TypeOK
  <2>5. QED
    BY <2>1, <2>2, <2>3, <2>4
<1>2. QED
  BY <1>1, ClockInvariance, PTL DEF TimedSpec, NeverCutEarly

\* The watchdog drops a link only when that link has had its whole window: it was not
\* armed for an earlier one.
THEOREM WindowToEncrypt == TimedSpec => WatchdogPatient
<1>1. ClockInv /\ [Step \/ Tick]_timedVars =>
        [Moved("wq", "watchdog_drop", "watchdog_unref") /\ phase = "up" /\ phase' = "lost"
           => upFor >= Window]_timedVars
  <2>1. ClockInv /\ Moved("wq", "watchdog_drop", "watchdog_unref") /\ phase = "up"
          => upFor = Window
    BY DEF Moved, ClockInv, Watching
  <2>2. QED
    BY <2>1
<1>2. QED
  BY <1>1, ClockInvariance, PTL DEF TimedSpec, WatchdogPatient

================================================================================
