------------------------------- MODULE StatusLeds -------------------------------
(* The three status LEDs and the bond-reset button of main.c.  set_status_leds is *)
(* called, without a lock, by main, by the Bluetooth thread and by whoever runs   *)
(* advertising_start; adv_blink_handler drives one of the LEDs from the system    *)
(* workqueue.  Every access to a LED is a step of its own, and any thread may run *)
(* between any two of them.  Of the link only what decides a status is here;      *)
(* module Link has the rest.                                                      *)
EXTENDS ProxyCore, FiniteSets, Sequences

CONSTANTS
  Leds,       \* the roles for which the board overlay has a LED
  HoldPolls,  \* BOND_RESET_HOLD_MS / 100
  MaxLinks,   \* bound: connection attempts
  MaxFaults   \* bound: failures at boot and of bt_le_adv_start

Status  == <<"connected", "advertising", "error">>
Roles   == {"connected", "advertising", "error"}
Threads == {"main", "wq", "bt", "rec"}

ASSUME LedsAssumption ==
  /\ Leds \subseteq Roles
  /\ HoldPolls \in Nat \ {0} /\ MaxLinks \in Nat /\ MaxFaults \in Nat

VARIABLES
  pc, status,      \* where each thread stands, and the status it is setting
  off,             \* how many of the LEDs it has turned off
  current_status,
  lit,             \* the LEDs that are on
  adv_blink_on,
  blink, retry,    \* adv_blink_work and adv_retry_work are scheduled
  polls,           \* of the button
  on_air, connected,
  held,            \* the object of a link that has ended is not in the pool again
  freed,           \* on_recycled is due for the object of a stopped advertiser
  links, faults,
  \* auxiliary
  alone            \* the status last set had the LEDs to itself

leds   == <<current_status, lit, adv_blink_on, blink>>
local  == <<status, off, polls>>
radio  == <<on_air, connected, held, freed, links>>
vars   == <<pc, local, leds, retry, radio, faults, alone>>

\* What a thread does with the LEDs: set a status, or blink.
Setting  == {"set", "turn_off", "light"}
Blinking == {"blink", "blink_set", "blink_again"}

Goto(t, label) == pc' = [pc EXCEPT ![t] = label]

\* The locals of a call that is over are as they were at first.
Returns(t) ==
  /\ Goto(t, "idle")
  /\ status' = [status EXCEPT ![t] = "connected"] /\ off' = [off EXCEPT ![t] = 0]

Fault == faults < MaxFaults /\ faults' = faults + 1

\* t has decided on a status, and is about to set it: does it find the LEDs to itself?
Comes(t) == alone' = \A u \in Threads \ {t} : pc[u] \notin Setting \cup Blinking

\* What a GPIO access makes of the LEDs; a role without a LED is a no-op.
Driven(role, on) == IF on THEN lit \cup ({role} \cap Leds) ELSE lit \ {role}

\* current_status is STATUS_CONNECTED, the first, before it is set.
Init ==
  /\ pc = [t \in Threads |-> IF t = "main" THEN "button" ELSE "idle"]
  /\ status = [t \in Threads |-> "connected"] /\ off = [t \in Threads |-> 0]
  /\ current_status = "connected" /\ lit = {} /\ adv_blink_on = FALSE
  /\ blink = FALSE /\ retry = FALSE
  /\ polls = 0
  /\ on_air = FALSE /\ connected = FALSE /\ held = FALSE /\ freed = FALSE
  /\ links = 0 /\ faults = 0
  /\ alone = FALSE

--------------------------------------------------------------------------------
\* main().

\* bond_reset_requested: the advertising LED blinks while the button is held, and is
\* off again when it is released, or has been held to the end.
Polled(pressed) ==
  IF pressed /\ polls < HoldPolls THEN Driven("advertising", polls % 2 = 1)
                               ELSE Driven("advertising", FALSE)

BondResetPolls(pressed) ==
  /\ pc["main"] = "button"
  /\ lit' = Polled(pressed)
  /\ IF pressed /\ polls < HoldPolls
       THEN polls' = polls + 1 /\ UNCHANGED pc
       ELSE polls' = 0 /\ Goto("main", "boot")
  /\ UNCHANGED <<status, off, current_status, adv_blink_on, blink, retry, radio, faults, alone>>

\* The stack comes up, or the error LED is all there will ever be.
Boots ==
  /\ pc["main"] = "boot"
  /\ Goto("main", "advertising_start")
  /\ UNCHANGED <<local, leds, retry, radio, faults, alone>>

BootFails ==
  /\ pc["main"] = "boot" /\ Fault
  /\ status' = [status EXCEPT !["main"] = "error"]
  /\ Comes("main") /\ Goto("main", "set")
  /\ UNCHANGED <<off, polls, leds, retry, radio>>

--------------------------------------------------------------------------------
\* advertising_start: what becomes of it decides the status, which is set after the
\* unlock.  (The retry is scheduled after that; here it may start even before.)
AdvertisingNotNeeded(t) ==
  /\ pc[t] = "advertising_start"
  /\ ~ShouldStartAdv(connected, on_air)
  /\ Goto(t, "idle")
  /\ UNCHANGED <<local, leds, retry, radio, faults, alone>>

\* bt_le_adv_start fails while there is no connection object, and may fail with one.
AdvertisingStarts(t) ==
  /\ pc[t] = "advertising_start"
  /\ ShouldStartAdv(connected, on_air)
  /\ \/ /\ ~held
        /\ on_air' = TRUE /\ status' = [status EXCEPT ![t] = "advertising"]
        /\ UNCHANGED <<retry, faults>>
     \/ /\ IF held THEN UNCHANGED faults ELSE Fault
        /\ retry' = TRUE /\ status' = [status EXCEPT ![t] = "error"] /\ UNCHANGED on_air
  /\ Comes(t) /\ Goto(t, "set")
  /\ UNCHANGED <<off, polls, leds, connected, held, freed, links>>

RetryStarts ==
  /\ pc["wq"] = "idle" /\ retry
  /\ retry' = FALSE
  /\ Goto("wq", "advertising_start")
  /\ UNCHANGED <<local, leds, radio, faults, alone>>

\* adv_slow_handler stops and starts the advertiser, and sets no LED.  The object of
\* the advertiser it stopped is recycled: on_recycled looks in the gap, and finds
\* adv_active, or later.  A start that failed is left to the retry.
SlowSwitch ==
  /\ pc["wq"] = "idle" /\ on_air
  /\ freed' \in {freed, TRUE}
  /\ \/ UNCHANGED <<on_air, retry, faults>>
     \/ Fault /\ on_air' = FALSE /\ retry' = TRUE
  /\ UNCHANGED <<pc, local, leds, connected, held, links, alone>>

--------------------------------------------------------------------------------
\* set_status_leds: the status, ...
SetStatus(t) ==
  /\ pc[t] = "set"
  /\ current_status' = status[t]
  /\ Goto(t, "turn_off")
  /\ UNCHANGED <<local, lit, adv_blink_on, blink, retry, radio, faults, alone>>

\* ... every LED off, one after the other, ...
TurnsOff(t) ==
  /\ pc[t] = "turn_off" /\ off[t] < Len(Status)
  /\ off' = [off EXCEPT ![t] = @ + 1]
  /\ lit' = Driven(Status[off[t] + 1], FALSE)
  /\ UNCHANGED <<pc, status, polls, current_status, adv_blink_on, blink, retry, radio,
                 faults, alone>>

\* Mutant: only its own handler schedules the work.
BlinkOnlyIfScheduled == blink

\* k_work_reschedule(&adv_blink_work, K_NO_WAIT).
BlinkScheduled == TRUE

\* ... then either the blinking from the start, ...
StartsBlinking(t) ==
  /\ pc[t] = "turn_off" /\ off[t] = Len(Status) /\ status[t] = "advertising"
  /\ adv_blink_on' = FALSE /\ blink' = BlinkScheduled
  /\ Returns(t)
  /\ UNCHANGED <<polls, current_status, lit, retry, radio, faults, alone>>

\* ... or the blinking is cancelled (a running handler is not waited for), and the LED
\* of the status lit.
StopsBlinking(t) ==
  /\ pc[t] = "turn_off" /\ off[t] = Len(Status) /\ status[t] # "advertising"
  /\ blink' = FALSE
  /\ Goto(t, "light")
  /\ UNCHANGED <<local, current_status, lit, adv_blink_on, retry, radio, faults, alone>>

Lights(t) ==
  /\ pc[t] = "light"
  /\ lit' = Driven(status[t], TRUE)
  /\ Returns(t)
  /\ UNCHANGED <<polls, current_status, adv_blink_on, blink, retry, radio, faults, alone>>

--------------------------------------------------------------------------------
\* adv_blink_handler.

BlinkStarts ==
  /\ pc["wq"] = "idle" /\ blink
  /\ blink' = FALSE
  /\ Goto("wq", "blink")
  /\ alone' = (alone /\ \A t \in Threads : pc[t] \notin Setting)
  /\ UNCHANGED <<local, current_status, lit, adv_blink_on, retry, radio, faults>>

\* Go on only in the advertising state, on a board that has the LED.
BlinkGuard == current_status = "advertising" /\ "advertising" \in Leds

BlinkLooks ==
  /\ pc["wq"] = "blink"
  /\ IF BlinkGuard THEN adv_blink_on' = ~adv_blink_on /\ Goto("wq", "blink_set")
                   ELSE UNCHANGED adv_blink_on /\ Goto("wq", "idle")
  /\ UNCHANGED <<local, current_status, lit, blink, retry, radio, faults, alone>>

BlinkSets ==
  /\ pc["wq"] = "blink_set"
  /\ lit' = Driven("advertising", adv_blink_on)
  /\ Goto("wq", "blink_again")
  /\ UNCHANGED <<local, current_status, adv_blink_on, blink, retry, radio, faults, alone>>

BlinkAgain ==
  /\ pc["wq"] = "blink_again"
  /\ blink' = TRUE
  /\ Goto("wq", "idle")
  /\ UNCHANGED <<local, current_status, lit, adv_blink_on, retry, radio, faults, alone>>

--------------------------------------------------------------------------------
\* The link.

OnConnected ==
  /\ on_air /\ pc["bt"] = "idle"
  /\ links < MaxLinks /\ links' = links + 1
  /\ on_air' = FALSE /\ connected' = TRUE
  /\ status' = [status EXCEPT !["bt"] = "connected"]
  /\ Comes("bt") /\ Goto("bt", "set")
  /\ UNCHANGED <<off, polls, leds, retry, held, freed, faults>>

\* on_connected with an error: the attempt has consumed the advertiser.
OnConnectFailed ==
  /\ on_air /\ pc["bt"] = "idle"
  /\ links < MaxLinks /\ links' = links + 1
  /\ on_air' = FALSE /\ held' = TRUE
  /\ UNCHANGED <<pc, local, leds, retry, connected, freed, faults, alone>>

\* on_disconnected sets no LED, ...
OnDisconnected ==
  /\ connected /\ pc["bt"] = "idle"
  /\ connected' = FALSE /\ held' = TRUE
  /\ UNCHANGED <<pc, local, leds, retry, on_air, freed, links, faults, alone>>

\* ... on_recycled does, for that object and for those of stopped advertisers.
OnRecycled ==
  /\ pc["rec"] = "idle"
  /\ \/ held /\ held' = FALSE /\ UNCHANGED freed
     \/ freed /\ freed' = FALSE /\ UNCHANGED held
  /\ Goto("rec", "advertising_start")
  /\ UNCHANGED <<local, leds, retry, on_air, connected, links, faults, alone>>

--------------------------------------------------------------------------------
SetStatusLeds(t) ==
  SetStatus(t) \/ TurnsOff(t) \/ StartsBlinking(t) \/ StopsBlinking(t) \/ Lights(t)

BlinkHandler == BlinkLooks \/ BlinkSets \/ BlinkAgain

Next ==
  \/ \E pressed \in BOOLEAN : BondResetPolls(pressed)
  \/ Boots \/ BootFails
  \/ \E t \in Threads \ {"bt"} : AdvertisingNotNeeded(t) \/ AdvertisingStarts(t)
  \/ RetryStarts \/ SlowSwitch
  \/ \E t \in Threads : SetStatusLeds(t)
  \/ BlinkStarts \/ BlinkHandler
  \/ OnConnected \/ OnConnectFailed \/ OnDisconnected \/ OnRecycled

Spec == Init /\ [][Next]_vars

--------------------------------------------------------------------------------
\* No thread is in the middle of anything, and no callback is due.
AtRest == ~held /\ ~freed /\ \A t \in Threads : pc[t] = "idle"

\* "One LED per state, driven mutually exclusively" (main.c).  Nothing keeps the callers
\* of set_status_leds apart, from each other and from the blinking, and when they meet
\* the LEDs may be left wrong: two lit, the blinking stopped, an old status.  But that
\* never lasts: a status set by a thread that has the LEDs to itself puts them right,
\* whatever was left and is still scheduled.  They then show what the device does, solid,
\* or blinking for as long as it advertises - and still blinking, never dark, while a
\* failed slow start waits for its retry.
LedsShowLink ==
  /\ alone /\ (\A t \in Threads : pc[t] \notin Setting) => Cardinality(lit) <= 1
  /\ alone /\ AtRest =>
       CASE connected -> lit = {"connected"} \cap Leds
         [] on_air \/ (retry /\ current_status = "advertising")
            -> lit \subseteq {"advertising"} /\ (blink \/ "advertising" \notin Leds)
         [] OTHER   -> lit = {"error"} \cap Leds

================================================================================
