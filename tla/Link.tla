---------------------------------- MODULE Link ----------------------------------
(* The BLE lifecycle of main.c: who advertises, who is connected, when the link  *)
(* counts as secure, and what holds the relay.                                   *)
(*                                                                               *)
(* Threads interleave between the critical sections of conn_mutex.  Each has a   *)
(* program counter:                                                              *)
(*   main   - main(), which runs once at boot;                                   *)
(*   wq     - the system workqueue: one delayable work handler at a time;        *)
(*   bt     - the Bluetooth RX thread: one connection callback at a time;        *)
(*   rec    - the `recycled` callback, run by whoever dropped the last           *)
(*            reference of the connection object;                                *)
(*   writer - ble_write_thread, here only what it does with the connection.      *)
(* The Bluetooth host and the phones are the environment.  CONFIG_BT_MAX_CONN is *)
(* 1: one connection object, which a running advertiser or a link occupies.      *)
EXTENDS ProxyCore, FiniteSets

CONSTANTS
  Phones,     \* the centrals in range
  NoPhone,    \* no central
  HasRelay,   \* does the board overlay define the relay-control alias?
  MaxLinks,   \* bound: connection attempts over the whole behaviour
  MaxFaults,  \* bound: transient failures of calls into the stack
  MaxBoots    \* bound: power cycles

ASSUME LinkAssumption ==
  /\ IsFiniteSet(Phones) /\ NoPhone \notin Phones
  /\ HasRelay \in BOOLEAN
  /\ MaxLinks \in Nat /\ MaxFaults \in Nat /\ MaxBoots \in Nat

Threads == {"main", "wq", "bt", "rec", "writer"}
Holders == {"stack", "app", "wq", "writer"}
Works   == {"adv_slow", "adv_retry", "security_timeout", "relay_grace"}

VARIABLES
  pc,             \* where each thread stands
  current_conn,   \* the link the application serves; 0 is NULL
  link_secure,
  adv_active,
  locked_mode,
  relay_enabled,
  works,          \* delayable works scheduled or queued
  conn,           \* the connection pointer a thread keeps in a local
  \* the Bluetooth host, the controller and the phones
  advertiser,     \* what is on air: "off", "fast" or "slow"
  filtered,       \* is it restricted to the filter accept list?
  phase,          \* what the host has seen and reported of the link
  links,          \* the number of the latest connection attempt
  peer,           \* its central
  encrypted,      \* did that link become encrypted?
  undropped,      \* the link the watchdog failed to disconnect; 0 is none
  refs,           \* who holds a reference to the connection object
  recycled,       \* a recycled callback is due
  bonds,          \* phones whose bond is stored (survives a power cycle)
  accept_list,    \* the controller's filter accept list
  unlisted,       \* auxiliary: the last refresh failed to add the bond to that list
  faults, boots   \* budgets spent

app    == <<current_conn, link_secure, adv_active>>
lock   == <<locked_mode, bonds, accept_list, unlisted>>
radio  == <<advertiser, filtered>>
peerv  == <<phase, links, peer, encrypted, undropped>>
slot   == <<refs, recycled, conn>>
budget == <<faults, boots>>
vars   == <<pc, app, lock, relay_enabled, works, radio, peerv, slot, budget>>

\* Where each thread can stand.
RecLabels    == {"idle", "advertising_start", "adv_live", "adv_error"}
MainLabels   == RecLabels \cup {"boot", "refresh_clear", "refresh_fill", "dead"}
WqLabels     == RecLabels \cup
                {"adv_slow", "slow_stop", "slow_start", "slow_failed", "security_timeout",
                 "watchdog_drop", "watchdog_unref", "relay_grace"}
BtLabels     == {"idle", "connected", "disc_held", "disc_free", "disc_clear", "secured",
                 "refresh_clear", "refresh_fill", "relay_on", "relay_off"}
WriterLabels == {"idle", "sending"}

TypeOK ==
  /\ pc \in [Threads -> MainLabels \cup WqLabels \cup BtLabels \cup WriterLabels]
  /\ pc["main"] \in MainLabels /\ pc["wq"] \in WqLabels /\ pc["bt"] \in BtLabels
  /\ pc["rec"] \in RecLabels /\ pc["writer"] \in WriterLabels
  /\ current_conn \in 0..MaxLinks
  /\ link_secure \in BOOLEAN /\ adv_active \in BOOLEAN /\ locked_mode \in BOOLEAN
  /\ relay_enabled \in BOOLEAN
  /\ works \subseteq Works
  /\ conn \in [{"wq", "writer"} -> 0..MaxLinks]
  /\ advertiser \in {"off", "fast", "slow"} /\ filtered \in BOOLEAN
  /\ phase \in {"none", "complete", "failed", "up", "lost", "closing"}
  /\ links \in 0..MaxLinks
  /\ peer \in Phones \cup {NoPhone}
  /\ encrypted \in BOOLEAN /\ undropped \in 0..MaxLinks
  /\ refs \subseteq Holders
  /\ recycled \in BOOLEAN
  /\ bonds \subseteq Phones /\ accept_list \subseteq Phones /\ unlisted \in BOOLEAN
  /\ faults \in 0..MaxFaults /\ boots \in 0..MaxBoots

\* Power-on state of everything that is not in flash: relay_init and the
\* k_work_init_delayable calls of main() leave it so before BLE comes up.
PowerOn ==
  /\ pc = [t \in Threads |-> IF t = "main" THEN "boot" ELSE "idle"]
  /\ current_conn = 0 /\ link_secure = FALSE /\ adv_active = FALSE
  /\ locked_mode = FALSE /\ accept_list = {} /\ unlisted = FALSE
  /\ relay_enabled = FALSE /\ works = {}
  /\ conn = [t \in {"wq", "writer"} |-> 0]
  /\ advertiser = "off" /\ filtered = FALSE
  /\ phase = "none" /\ peer = NoPhone /\ encrypted = FALSE /\ undropped = 0
  /\ refs = {} /\ recycled = FALSE

\* A unit leaves the factory without a bond, or is in its owner's hands.
Init ==
  /\ PowerOn
  /\ bonds = {} \/ \E p \in Phones : bonds = {p}
  /\ links = 0 /\ faults = 0 /\ boots = 0

--------------------------------------------------------------------------------
\* Helpers.

Goto(t, label) == pc' = [pc EXCEPT ![t] = label]

\* conn_mutex is held across steps only by adv_slow_handler, from its guard to its
\* unlock; every other critical section is a single step.  A Zephyr mutex is
\* reentrant: a callback run from inside bt_le_adv_stop gets it again.
ConnMutexFree(t) ==
  \/ pc["wq"] \notin {"slow_stop", "slow_start"}
  \/ t = "wq"
  \/ t = "rec" /\ pc["wq"] = "slow_start"

\* Mutant: a pool of two, so that one object is always at hand.
SecondSlotFree == advertiser = "off"

\* The pool has its only connection object.
SlotFree == refs = {} /\ advertiser = "off"

Fault == faults < MaxFaults /\ faults' = faults + 1

\* bt_conn_unref: the last reference recycles the object.
Unref(h) ==
  /\ refs' = refs \ {h}
  /\ recycled' = (recycled \/ refs = {h})

\* Mutant: the writer uses the pointer without a reference of its own.
Borrow(h) == h = "wq"

\* Does a thread take a reference with the pointer it keeps (bt_conn_ref)?
Refs(h) == TRUE

\* A thread copies current_conn under the mutex, to use it after the unlock, ...
TakeConn(h) ==
  /\ refs' = IF Refs(h) THEN refs \cup {h} ELSE refs
  /\ conn' = [conn EXCEPT ![h] = current_conn]
  /\ UNCHANGED recycled

\* ... and lets go of it.
ReleaseConn(h) == Unref(h) /\ conn' = [conn EXCEPT ![h] = 0]

\* Mutant: the slow parameters forget the accept list.
FilteredFastOnly(speed) == locked_mode /\ speed = "fast"

\* adv_params_fast, adv_params_slow: the filtered variant in locked mode.
Filtered(speed) == locked_mode

\* bt_le_adv_start: a connectable advertiser takes the connection object, ...
BtLeAdvStart(speed) ==
  /\ SlotFree
  /\ advertiser' = speed /\ filtered' = Filtered(speed)
  /\ UNCHANGED faults

\* ... or -EALREADY, -ENOMEM because the object is taken, a transient fault.
BtLeAdvStartFails ==
  /\ IF SlotFree THEN Fault ELSE UNCHANGED faults
  /\ UNCHANGED radio

\* A reset or a power cycle: back to PowerOn, only the stored bonds survive.
PowerCycle ==
  /\ boots < MaxBoots /\ boots' = boots + 1
  /\ pc' = [t \in Threads |-> IF t = "main" THEN "boot" ELSE "idle"]
  /\ current_conn' = 0 /\ link_secure' = FALSE /\ adv_active' = FALSE
  /\ locked_mode' = FALSE /\ accept_list' = {} /\ unlisted' = FALSE
  /\ relay_enabled' = FALSE /\ works' = {}
  /\ conn' = [t \in {"wq", "writer"} |-> 0]
  /\ advertiser' = "off" /\ filtered' = FALSE
  /\ phase' = "none" /\ peer' = NoPhone /\ encrypted' = FALSE /\ undropped' = 0
  /\ refs' = {} /\ recycled' = FALSE
  /\ UNCHANGED <<bonds, links, faults>>

--------------------------------------------------------------------------------
\* main().

\* A failure of uart_bridge_init, bt_enable or bt_nus_init is final.
MainGivesUp ==
  /\ pc["main"] = "boot" /\ Fault
  /\ Goto("main", "dead")
  /\ UNCHANGED <<app, lock, relay_enabled, works, radio, peerv, slot, boots>>

\* settings_load has restored the bonds; a button held through boot wipes them,
\* unless bt_unpair fails, whose result is only logged.
MainLoadsBonds(factoryReset) ==
  /\ pc["main"] = "boot"
  /\ \/ factoryReset /\ bonds' = {} /\ UNCHANGED faults
     \/ factoryReset /\ Fault /\ UNCHANGED bonds
     \/ ~factoryReset /\ UNCHANGED <<bonds, faults>>
  /\ Goto("main", "refresh_clear")
  /\ UNCHANGED <<app, locked_mode, accept_list, unlisted, relay_enabled, works, radio, peerv,
                 slot, boots>>

--------------------------------------------------------------------------------
\* refresh_locked_mode, from main() and from pairing_complete.

\* Whether the list could be cleared is not looked at, ...
RefreshClear(t) ==
  /\ pc[t] = "refresh_clear"
  /\ \/ accept_list' = {} /\ UNCHANGED faults
     \/ Fault /\ UNCHANGED accept_list
  /\ Goto(t, "refresh_fill")
  /\ UNCHANGED <<app, locked_mode, bonds, unlisted, relay_enabled, works, radio, peerv, slot,
                 boots>>

\* Mutant: the list is filled for a device that was locked before.
BondsIfLocked == IF locked_mode THEN bonds ELSE {}

\* What bt_foreach_bond(bond_accept_list_cb) adds.
BondsToList == bonds

\* Mutant: advertising is restarted from pairing_complete, too.
AfterRefreshAlways(t) == "advertising_start"

\* main() goes on to advertise; pairing_complete returns.
AfterRefresh(t) == IF t = "main" THEN "advertising_start" ELSE "idle"

\* ... and bond_accept_list_cb only logs a failed add: the list stays as it was.
RefreshFill(t) ==
  /\ pc[t] = "refresh_fill"
  /\ \/ accept_list' = accept_list \cup BondsToList /\ unlisted' = FALSE /\ UNCHANGED faults
     \/ bonds # {} /\ Fault /\ unlisted' = TRUE /\ UNCHANGED accept_list
  /\ locked_mode' = (bonds # {})
  /\ Goto(t, AfterRefresh(t))
  /\ UNCHANGED <<app, bonds, relay_enabled, works, radio, peerv, slot, boots>>

--------------------------------------------------------------------------------
\* advertising_start, from main(), adv_retry_handler and on_recycled.

AdvertisingNotNeeded(t) ==
  /\ pc[t] = "advertising_start" /\ ConnMutexFree(t)
  /\ ~ShouldStartAdv(current_conn # 0, adv_active)
  /\ Goto(t, "idle")
  /\ UNCHANGED <<app, lock, relay_enabled, works, radio, peerv, slot, budget>>

AdvertisingStarts(t) ==
  /\ pc[t] = "advertising_start" /\ ConnMutexFree(t)
  /\ ShouldStartAdv(current_conn # 0, adv_active)
  /\ \/ BtLeAdvStart("fast") /\ adv_active' = TRUE /\ Goto(t, "adv_live")
     \/ BtLeAdvStartFails /\ adv_active' = FALSE /\ Goto(t, "adv_error")
  /\ UNCHANGED <<current_conn, link_secure, lock, relay_enabled, works, peerv, slot,
                 boots>>

\* Mutant: no retry after a failed start.
NoRetry == {}

\* k_work_reschedule(&adv_retry_work).
Retry == {"adv_retry"}

\* After the unlock: the timer of the fast->slow switch, or of the retry.
AdvertisingSchedules(t) ==
  /\ pc[t] \in {"adv_live", "adv_error"}
  /\ works' = works \cup (IF pc[t] = "adv_live" THEN {"adv_slow"} ELSE Retry)
  /\ Goto(t, "idle")
  /\ UNCHANGED <<app, lock, relay_enabled, radio, peerv, slot, budget>>

\* on_recycled: deferred, or run at once inside the unref that freed the object.
OnRecycled ==
  /\ recycled /\ pc["rec"] = "idle"
  /\ recycled' = FALSE
  /\ Goto("rec", "advertising_start")
  /\ UNCHANGED <<app, lock, relay_enabled, works, radio, peerv, refs, conn, budget>>

--------------------------------------------------------------------------------
\* The system workqueue.

\* A work's delay elapses and the queue, idle, takes it.  Delays are a second or
\* more: the grace window does not elapse inside the callback that re-armed it.
WorkStarts(w) ==
  /\ pc["wq"] = "idle" /\ w \in works
  /\ ~(w = "relay_grace" /\ pc["bt"] = "disc_clear")
  /\ works' = works \ {w}
  /\ Goto("wq", IF w = "adv_retry" THEN "advertising_start" ELSE w)
  /\ UNCHANGED <<app, lock, relay_enabled, radio, peerv, slot, budget>>

\* adv_slow_handler: take the mutex, or leave at once when a connection arrived.
SlowSwitchGuard ==
  /\ pc["wq"] = "adv_slow"
  /\ Goto("wq", IF current_conn # 0 \/ ~adv_active THEN "idle" ELSE "slow_stop")
  /\ UNCHANGED <<app, lock, relay_enabled, works, radio, peerv, slot, budget>>

\* Mutant: the flag is cleared across the stop->start gap.
ClearedInGap == FALSE

\* adv_active across the stop->start gap.
FlagInGap == adv_active

\* bt_le_adv_stop frees the advertiser's object, which recycles it.  When a central
\* has just taken the object there is nothing to stop, and it returns 0.
SlowSwitchStops ==
  /\ pc["wq"] = "slow_stop"
  /\ advertiser' = "off"
  /\ recycled' = (recycled \/ advertiser # "off")
  /\ adv_active' = FlagInGap
  /\ Goto("wq", "slow_start")
  /\ UNCHANGED <<current_conn, link_secure, lock, relay_enabled, works, filtered,
                 peerv, refs, conn, budget>>

\* Still advertising fast: unlock and retry the switch.
SlowSwitchStopFails ==
  /\ pc["wq"] = "slow_stop" /\ Fault
  /\ works' = works \cup {"adv_slow"}
  /\ Goto("wq", "idle")
  /\ UNCHANGED <<app, lock, relay_enabled, radio, peerv, slot, boots>>

SlowSwitchStarts ==
  /\ pc["wq"] = "slow_start"
  /\ \/ BtLeAdvStart("slow") /\ Goto("wq", "idle") /\ UNCHANGED adv_active
     \/ BtLeAdvStartFails /\ adv_active' = FALSE /\ Goto("wq", "slow_failed")
  /\ UNCHANGED <<current_conn, link_secure, lock, relay_enabled, works, peerv, slot,
                 boots>>

\* Mutant: every failed slow start is taken for the connect race.
SlowRetryNever == {}

\* A failed slow start: connected after all, on_connected owns the state; otherwise
\* retry.
SlowRetry == IF current_conn # 0 THEN {} ELSE {"adv_retry"}

SlowSwitchFailed ==
  /\ pc["wq"] = "slow_failed"
  /\ works' = works \cup SlowRetry
  /\ Goto("wq", "idle")
  /\ UNCHANGED <<app, lock, relay_enabled, radio, peerv, slot, budget>>

\* security_timeout_handler: ref_unsecured_conn, ...
WatchdogLooks ==
  /\ pc["wq"] = "security_timeout"
  /\ IF current_conn # 0 /\ ~link_secure
       THEN TakeConn("wq") /\ Goto("wq", "watchdog_drop")
       ELSE UNCHANGED slot /\ Goto("wq", "idle")
  /\ UNCHANGED <<app, lock, relay_enabled, works, radio, peerv, budget>>

\* Mutant: the disconnect is asked for, and never carried out.
Undisconnected == phase

\* What bt_conn_disconnect makes of the link: it has no effect on one that is gone.
Disconnected == IF phase = "up" THEN "lost" ELSE phase

\* ... bt_conn_disconnect, whose result is ignored, ...
WatchdogDrops ==
  /\ pc["wq"] = "watchdog_drop"
  /\ \/ phase' = Disconnected /\ UNCHANGED <<undropped, faults>>
     \/ phase = "up" /\ Fault /\ undropped' = links /\ UNCHANGED phase
  /\ Goto("wq", "watchdog_unref")
  /\ UNCHANGED <<app, lock, relay_enabled, works, radio, links, peer, encrypted, slot,
                 boots>>

\* ... and bt_conn_unref.
WatchdogUnrefs ==
  /\ pc["wq"] = "watchdog_unref"
  /\ ReleaseConn("wq")
  /\ Goto("wq", "idle")
  /\ UNCHANGED <<app, lock, relay_enabled, works, radio, peerv, budget>>

\* Mutant: the decision is not taken again.
NeverBack == FALSE

\* relay_grace_handler's re-check under the mutex.
Back == current_conn # 0 /\ link_secure

RelayGraceExpires ==
  /\ pc["wq"] = "relay_grace"
  /\ relay_enabled' = (relay_enabled /\ Back)
  /\ Goto("wq", "idle")
  /\ UNCHANGED <<app, lock, works, radio, peerv, slot, budget>>

--------------------------------------------------------------------------------
\* Callbacks in the Bluetooth RX thread.

\* on_connected: the critical section, ...
OnConnected ==
  /\ pc["bt"] = "idle" /\ phase = "complete" /\ ConnMutexFree("bt")
  /\ adv_active' = FALSE
  /\ current_conn' = links /\ refs' = refs \cup {"app"}
  /\ link_secure' = FALSE
  /\ phase' = "up"
  /\ Goto("bt", "connected")
  /\ UNCHANGED <<lock, relay_enabled, works, radio, links, peer, encrypted, undropped,
                 recycled, conn, budget>>

\* Mutant: the watchdog is armed for an open device only.
WatchdogIfOpen == IF locked_mode THEN {} ELSE {"security_timeout"}

\* k_work_reschedule(&security_timeout_work), whatever the mode.
Watchdog == {"security_timeout"}

\* ... then the fast->slow switch is cancelled and the watchdog armed.
OnConnectedArms ==
  /\ pc["bt"] = "connected"
  /\ works' = (works \ {"adv_slow"}) \cup Watchdog
  /\ Goto("bt", "idle")
  /\ UNCHANGED <<app, lock, relay_enabled, radio, peerv, slot, budget>>

\* on_connected with an error: the attempt has consumed the advertiser too.
OnConnectFailed ==
  /\ pc["bt"] = "idle" /\ phase = "failed" /\ ConnMutexFree("bt")
  /\ adv_active' = FALSE
  /\ phase' = "closing"
  /\ UNCHANGED <<pc, current_conn, link_secure, lock, relay_enabled, works, radio,
                 links, peer, encrypted, undropped, slot, budget>>

\* on_disconnected: relay_grace_start reads relay_enabled under the mutex, ...
OnDisconnected ==
  /\ pc["bt"] = "idle" /\ phase = "lost" /\ ConnMutexFree("bt")
  /\ Goto("bt", IF relay_enabled THEN "disc_held" ELSE "disc_free")
  /\ UNCHANGED <<app, lock, relay_enabled, works, radio, peerv, slot, budget>>

\* Mutant: the window is never armed.
NoGrace == {}

\* k_work_reschedule(&relay_grace_work) if relay_enabled was set.
GraceWindow == IF pc["bt"] = "disc_held" THEN {"relay_grace"} ELSE {}

\* ... arms the grace window when it was set; the watchdog is cancelled, ...
OnDisconnectedWorks ==
  /\ pc["bt"] \in {"disc_held", "disc_free"}
  /\ works' = (works \ {"security_timeout"}) \cup GraceWindow
  /\ Goto("bt", "disc_clear")
  /\ UNCHANGED <<app, lock, relay_enabled, radio, peerv, slot, budget>>

\* ... and the application lets go of the connection.
OnDisconnectedClears ==
  /\ pc["bt"] = "disc_clear" /\ ConnMutexFree("bt")
  /\ IF current_conn # 0 THEN Unref("app") ELSE UNCHANGED <<refs, recycled>>
  /\ current_conn' = 0 /\ link_secure' = FALSE
  /\ phase' = "closing"
  /\ Goto("bt", "idle")
  /\ UNCHANGED <<adv_active, lock, relay_enabled, works, radio, links, peer, encrypted,
                 undropped, conn, budget>>

\* on_security_changed at level 2: first the flag, under the mutex, ...
OnSecurityChanged ==
  /\ pc["bt"] = "idle" /\ phase = "up" /\ encrypted /\ ConnMutexFree("bt")
  /\ link_secure' = TRUE
  /\ Goto("bt", "secured")
  /\ UNCHANGED <<current_conn, adv_active, lock, relay_enabled, works, radio, peerv,
                 slot, budget>>

\* ... then the watchdog and the grace window are cancelled.
OnSecurityChangedWorks ==
  /\ pc["bt"] = "secured"
  /\ works' = works \ {"security_timeout", "relay_grace"}
  /\ Goto("bt", "idle")
  /\ UNCHANGED <<app, lock, relay_enabled, radio, peerv, slot, budget>>

\* pairing_complete(bonded): the stack has stored the bond; CONFIG_BT_MAX_PAIRED=1
\* makes it reject a second one.
PairingComplete ==
  /\ pc["bt"] = "idle" /\ phase = "up" /\ link_secure
  /\ bonds \subseteq {peer}
  /\ bonds' = {peer}
  /\ Goto("bt", "refresh_clear")
  /\ UNCHANGED <<app, locked_mode, accept_list, unlisted, relay_enabled, works, radio, peerv,
                 slot, budget>>

\* Mutant: the command is carried out before the link is secure.
AnyoneMayCommand == TRUE

\* nus_received drops what arrives before the link is secure.
MayCommand == link_secure

\* nus_received with a relay command: relay_set first cancels the grace window, ...
RelayCommand(enable) ==
  /\ pc["bt"] = "idle" /\ phase = "up" /\ MayCommand /\ ConnMutexFree("bt")
  /\ works' = works \ {"relay_grace"}
  /\ Goto("bt", IF enable THEN "relay_on" ELSE "relay_off")
  /\ UNCHANGED <<app, lock, relay_enabled, radio, peerv, slot, budget>>

\* ... then drives the pin under the mutex; a board without a relay ignores it.
RelaySet ==
  /\ pc["bt"] \in {"relay_on", "relay_off"} /\ ConnMutexFree("bt")
  /\ relay_enabled' = IF HasRelay THEN pc["bt"] = "relay_on" ELSE relay_enabled
  /\ Goto("bt", "idle")
  /\ UNCHANGED <<app, lock, works, radio, peerv, slot, budget>>

--------------------------------------------------------------------------------
\* ble_write_thread: what it does with the connection.

\* Data, and a link that may have it: take a reference of its own.
WriterTakesConn ==
  /\ pc["writer"] = "idle" /\ ConnMutexFree("writer")
  /\ MayForward(current_conn # 0, link_secure)
  /\ TakeConn("writer")
  /\ Goto("writer", "sending")
  /\ UNCHANGED <<app, lock, relay_enabled, works, radio, peerv, budget>>

\* The chunk is sent, or given up.
WriterReleases ==
  /\ pc["writer"] = "sending"
  /\ ReleaseConn("writer")
  /\ Goto("writer", "idle")
  /\ UNCHANGED <<app, lock, relay_enabled, works, radio, peerv, budget>>

--------------------------------------------------------------------------------
\* The phones and the Bluetooth host.

\* A central connects: the advertiser's object becomes the link's.  The host will
\* report it to on_connected, with or without an error.
PhoneConnects(p, outcome) ==
  /\ advertiser # "off" /\ phase = "none"
  /\ filtered => p \in accept_list
  /\ links < MaxLinks /\ links' = links + 1
  /\ advertiser' = "off"
  /\ refs' = refs \cup {"stack"}
  /\ peer' = p /\ phase' = outcome /\ encrypted' = FALSE
  /\ UNCHANGED <<pc, app, lock, relay_enabled, works, filtered, undropped, recycled,
                 conn, budget>>

\* The central drives pairing, or encrypts with the stored key.
PhoneEncrypts ==
  /\ phase = "up" /\ ~encrypted
  /\ encrypted' = TRUE
  /\ UNCHANGED <<pc, app, lock, relay_enabled, works, radio, phase, links, peer,
                 undropped, slot, budget>>

\* A clean disconnect, a dropout, a supervision timeout.
LinkDrops ==
  /\ phase = "up"
  /\ phase' = "lost"
  /\ UNCHANGED <<pc, app, lock, relay_enabled, works, radio, links, peer, encrypted,
                 undropped, slot, budget>>

\* The callbacks have returned; the host drops its own reference.
HostReleases ==
  /\ phase = "closing"
  /\ Unref("stack")
  /\ phase' = "none" /\ peer' = NoPhone
  /\ UNCHANGED <<pc, app, lock, relay_enabled, works, radio, links, encrypted,
                 undropped, conn, budget>>

--------------------------------------------------------------------------------
Refresh(t) == RefreshClear(t) \/ RefreshFill(t)

Advertising(t) ==
  AdvertisingNotNeeded(t) \/ AdvertisingStarts(t) \/ AdvertisingSchedules(t)

Main ==
  \/ MainGivesUp
  \/ \E factoryReset \in BOOLEAN : MainLoadsBonds(factoryReset)
  \/ Refresh("main")
  \/ Advertising("main")

Workqueue ==
  \/ SlowSwitchGuard \/ SlowSwitchStops \/ SlowSwitchStopFails
  \/ SlowSwitchStarts \/ SlowSwitchFailed
  \/ WatchdogLooks \/ WatchdogDrops \/ WatchdogUnrefs
  \/ RelayGraceExpires
  \/ Advertising("wq")

Callbacks ==
  \/ OnConnected \/ OnConnectedArms \/ OnConnectFailed
  \/ OnDisconnected \/ OnDisconnectedWorks \/ OnDisconnectedClears
  \/ OnSecurityChanged \/ OnSecurityChangedWorks
  \/ RelaySet
  \/ Refresh("bt")

Recycled == OnRecycled \/ Advertising("rec")

\* Callbacks that start only because the phone asks for them are its steps.
Phone ==
  \/ \E p \in Phones, outcome \in {"complete", "failed"} : PhoneConnects(p, outcome)
  \/ PhoneEncrypts
  \/ LinkDrops
  \/ PairingComplete
  \/ \E enable \in BOOLEAN : RelayCommand(enable)

\* The bounds are reached and the device is at rest: no work is pending and no thread
\* is inside a handler or waits for conn_mutex.  Only so may a behaviour stop.
AtRest ==
  /\ \A t \in Threads : pc[t] \in {"idle", "dead"}
  /\ works = {} /\ ~recycled /\ phase = "none"
  /\ UNCHANGED vars

Next ==
  \/ Main \/ Workqueue \/ Callbacks \/ Recycled
  \/ WriterTakesConn \/ WriterReleases
  \/ \E w \in Works : WorkStarts(w)
  \/ Phone
  \/ HostReleases
  \/ PowerCycle
  \/ AtRest

\* Every thread is scheduled, every delay elapses, and the host reports what it
\* has seen.  Nothing is assumed of the phones, of faults or of the power.
Fairness ==
  /\ WF_vars(Main) /\ WF_vars(Workqueue) /\ WF_vars(Callbacks)
  /\ WF_vars(Recycled) /\ WF_vars(WriterReleases)
  /\ \A w \in Works : WF_vars(WorkStarts(w))
  /\ WF_vars(HostReleases)

Spec == Init /\ [][Next]_vars

FairSpec == Spec /\ Fairness

--------------------------------------------------------------------------------
\* Safety.

\* What the hand-kept flag adv_active promises (TODO.md, item 3 of its test plan):
\* it never claims an advertiser next to a connection, it never misses one that is
\* on air, and no competing start gets into the stop->start gap of the slow switch.
OneAdvertiser ==
  /\ adv_active => current_conn = 0
  /\ advertiser # "off" => adv_active
  /\ pc["wq"] = "slow_start" => advertiser = "off"

\* An idle, silent device always has somebody left who will advertise again: a
\* recycled callback, a retry, a start in progress.  Otherwise it is unreachable
\* until a power cycle.
RestartComing ==
  phase = "none" /\ advertiser = "off" /\ refs = {} =>
    \/ recycled \/ "adv_retry" \in works
    \/ pc["main"] \in {"boot", "refresh_clear", "refresh_fill", "dead"}
    \/ \E t \in {"main", "wq", "rec"} : pc[t] \in {"advertising_start", "adv_error"}
    \/ pc["wq"] \in {"slow_start", "slow_failed"}

\* refresh_locked_mode rewrites the filter accept list, which must not be modified
\* while an advertiser uses it: no advertiser is on air from its first step on.
AcceptListNotInUse ==
  \A t \in {"main", "bt"} :
    pc[t] \in {"refresh_clear", "refresh_fill"} => advertiser = "off"

\* Whoever owns the device can reach it: an advertiser on air admits the bonded phone and
\* nobody else, whatever failed before, and was never started on a list that
\* refresh_locked_mode left unfinished.  One failure alone keeps the owner out, until
\* the next boot: that of bt_le_filter_accept_list_add, which the code only logs.
OwnerAdmitted == advertiser # "off" => accept_list = bonds \/ unlisted

\* Once a bond is stored, the link is never in the hands of another phone.
OwnerOnly == bonds # {} /\ peer # NoPhone => peer \in bonds

\* A thread that works with a connection after conn_mutex was released holds a
\* reference to it, and its pointer is the connection that occupies the only
\* object: the object is not given to another link under its feet.
NoStalePointer ==
  \A t \in {"wq", "writer"} : conn[t] # 0 => t \in refs /\ conn[t] = links

\* Data leaves over a connection that was encrypted, and link_secure is never left
\* over from an earlier link.
SecureOnly ==
  /\ link_secure => encrypted /\ current_conn = links
  /\ pc["writer"] = "sending" => encrypted

\* A link that is up and not encrypted is always being watched, unless the one
\* disconnect that the watchdog attempts has failed for it.
WatchdogArmed ==
  phase = "up" /\ ~link_secure /\ pc["bt"] # "connected" =>
    \/ "security_timeout" \in works
    \/ pc["wq"] \in {"security_timeout", "watchdog_drop"}
    \/ undropped = links

\* An enabled relay without its owner's secure link has the grace window running:
\* no order of cancel, expiry, reconnect and command loses the timer.
RelayCovered ==
  relay_enabled /\ ~(current_conn # 0 /\ link_secure) =>
    \/ "relay_grace" \in works
    \/ pc["wq"] = "relay_grace"

\* Nothing but the owner's own command, or a power cycle, takes the relay away
\* while the owner is on a secure link: an expiry that races the reconnect does not.
OwnerKeepsRelay ==
  [][relay_enabled /\ ~relay_enabled' /\ current_conn # 0 /\ link_secure
       => pc["bt"] = "relay_off" \/ boots' # boots]_vars

--------------------------------------------------------------------------------
\* Refinement.

\* The state of the link as its user sees it.
ServiceLink ==
  CASE current_conn # 0 /\ link_secure  -> "secure"
    [] current_conn # 0 /\ ~link_secure -> "open"
    [] current_conn = 0 /\ advertiser # "off" -> "advertising"
    [] OTHER -> "silent"

Device == INSTANCE Service WITH
  link   <- ServiceLink,
  client <- IF current_conn # 0 THEN peer ELSE NoPhone,
  owner  <- bonds,
  relay  <- relay_enabled

\* Whatever the threads, the timers and the stack do, the user sees a Service: one
\* phone at a time, the owner alone once there is one, a relay that only a phone on a
\* secure link switches on, and a factory reset that never happens to a live device.
IsService == Device!Spec

--------------------------------------------------------------------------------
\* Liveness.

\* Unless its initialisation failed, the device is again and again either on air or
\* connected: no order of failures leaves it unreachable.
Reachable == []<>(advertiser # "off" \/ phase = "up" \/ pc["main"] = "dead")

\* A link that does not become secure ends, unless the watchdog's disconnect fails.
UnsecuredLinkEnds ==
  phase = "up" /\ ~link_secure ~> phase # "up" \/ link_secure \/ undropped = links

\* "If a fresh link never encrypts, drop it" (main.c, security_timeout_work): also
\* when the first attempt to drop it fails.
UnsecuredAlwaysEnds == phase = "up" /\ ~link_secure ~> phase # "up" \/ link_secure

\* A relay left on by a link that is gone is released, or its owner is back, or another
\* phone has taken the slot: every link that drops, also one that never became secure,
\* starts the window again (relay_grace_start), so that links which keep coming and
\* dropping can hold the relay on for good.  Without a further link the release comes.
RelayReleased ==
  \A k \in 1..MaxLinks :
    relay_enabled /\ ~link_secure /\ links = k
      ~> ~relay_enabled \/ link_secure \/ links > k

================================================================================
