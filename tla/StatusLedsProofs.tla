---------------------------- MODULE StatusLedsProofs ----------------------------
(* Proofs about StatusLeds, for any LEDs of the board, with any thread running       *)
(* between any two accesses to them.                                                 *)
EXTENDS StatusLeds, FiniteSetTheorems, TLAPS

--------------------------------------------------------------------------------
\* The inductive invariant.

Booting == {"button", "boot"}

TypeOK ==
  /\ pc \in [Threads -> {"idle", "advertising_start"} \cup Setting \cup Blinking \cup Booting]
  /\ \A t \in Threads : /\ pc[t] \in Blinking => t = "wq"
                        /\ pc[t] \in Booting => t = "main"
                        /\ pc[t] \notin {"turn_off", "light"} => off[t] = 0
  /\ status \in [Threads -> Roles] /\ off \in [Threads -> 0..Len(Status)]
  /\ current_status \in Roles /\ lit \subseteq Leds
  /\ {adv_blink_on, blink, retry, on_air, connected, held, freed, alone} \subseteq BOOLEAN

\* Before the stack is up only main() runs, and it has not set a status yet.
MainFirst ==
  pc["main"] \in Booting =>
    /\ \A t \in Threads \ {"main"} : pc[t] = "idle"
    /\ ~blink /\ ~retry /\ ~on_air /\ ~connected /\ ~held /\ ~freed /\ ~alone

\* What the LEDs ought to show, and the statuses that will do: that one, or any while a
\* start of the advertiser is about to decide.
Wanted == IF connected THEN "connected" ELSE IF on_air THEN "advertising" ELSE "error"

WillDo(s) ==
  \/ s = Wanted
  \/ /\ ~connected /\ ~on_air
     /\ \/ held
        \/ \E t \in Threads : pc[t] = "advertising_start"
        \/ retry /\ s = "advertising"

\* How far a thread that has the LEDs to itself is in set_status_leds.
SettingAlone ==
  \A t \in Threads : alone /\ pc[t] \in Setting =>
    /\ \A u \in Threads \ {t} : pc[u] \notin Setting \cup Blinking
    /\ WillDo(status[t])
    /\ pc[t] # "set" => current_status = status[t]
    /\ pc[t] = "turn_off" => \A i \in 1..off[t] : Status[i] \notin lit
    /\ pc[t] = "light" => lit = {} /\ ~blink /\ status[t] # "advertising"

\* When it has, the LEDs show current_status, and that will do.
Shown ==
  alone /\ (\A t \in Threads : pc[t] \notin Setting) =>
    /\ IF current_status = "advertising"
         THEN /\ lit \subseteq {"advertising"}
              /\ "advertising" \notin Leds \/ blink \/ pc["wq"] \in Blinking
         ELSE /\ lit = {current_status} \cap Leds
              /\ ~blink /\ pc["wq"] \notin Blinking
    /\ WillDo(current_status)

IInv ==
  /\ TypeOK /\ MainFirst /\ SettingAlone /\ Shown
  /\ ~(connected /\ on_air)

USE LedsAssumption DEF Setting, Blinking, Booting, Goto, Returns, leds, local, radio

--------------------------------------------------------------------------------
\* Every step preserves the invariant.

\* Boot, up to the start of the advertiser.
LEMMA BootStep ==
  ASSUME IInv, (\E pressed \in BOOLEAN : BondResetPolls(pressed)) \/ Boots \/ BootFails
  PROVE  IInv'
<1>1. /\ pc["main"] \in Booting /\ "main" \in Threads
      /\ \A t \in Threads \ {"main"} : pc[t] = "idle"
      /\ ~blink /\ ~retry /\ ~on_air /\ ~connected /\ ~held /\ ~freed /\ ~alone
  BY DEF BondResetPolls, Boots, BootFails, IInv, MainFirst, Threads
<1> USE DEF IInv, TypeOK, MainFirst, SettingAlone, Shown
<1>2. ASSUME NEW pressed \in BOOLEAN, BondResetPolls(pressed) PROVE IInv'
  <2>1. lit' \subseteq Leds
    BY <1>2 DEF BondResetPolls, Polled, Driven
  <2>2. /\ UNCHANGED pc \/ pc' = [pc EXCEPT !["main"] = "boot"]
        /\ UNCHANGED <<status, off, current_status, adv_blink_on, blink, retry, radio, alone>>
    BY <1>2 DEF BondResetPolls
  <2>3. QED
    BY <1>1, <2>1, <2>2
<1>3. CASE Boots
  BY <1>1, <1>3 DEF Boots
<1>4. CASE BootFails
  <2>1. /\ status' = [status EXCEPT !["main"] = "error"]
        /\ pc' = [pc EXCEPT !["main"] = "set"]
        /\ UNCHANGED <<off, leds, retry, radio>>
    BY <1>4 DEF BootFails
  <2>2. alone' \in BOOLEAN
    BY <1>4, Zenon DEF BootFails, Comes
  <2>3. TypeOK' /\ MainFirst'
    BY <1>1, <2>1, <2>2 DEF Roles
  <2>4. SettingAlone' /\ Shown'
    BY <1>1, <2>1 DEF WillDo, Wanted
  <2>5. QED
    BY <1>1, <2>1, <2>3, <2>4
<1>5. QED
  BY <1>2, <1>3, <1>4

\* advertising_start.
LEMMA AdvertisingStep ==
  ASSUME IInv, NEW t \in Threads \ {"bt"}, AdvertisingNotNeeded(t) \/ AdvertisingStarts(t)
  PROVE  IInv'
<1>1. pc[t] = "advertising_start" /\ "main" \in Threads /\ pc["main"] \notin Booting
  BY DEF AdvertisingNotNeeded, AdvertisingStarts, IInv, MainFirst, Threads
<1> USE DEF IInv, TypeOK, MainFirst, SettingAlone, Shown
<1>2. CASE AdvertisingNotNeeded(t)
  <2>1. /\ connected \/ on_air
        /\ pc' = [pc EXCEPT ![t] = "idle"]
        /\ UNCHANGED <<local, leds, retry, radio, alone>>
    BY <1>2 DEF AdvertisingNotNeeded, ShouldStartAdv
  <2>2. \A s \in Roles : WillDo(s) => WillDo(s)'
    BY <2>1 DEF WillDo, Wanted
  <2>3. \A u \in Threads : pc'[u] \in Setting => pc[u] = pc'[u]
    BY <1>1, <2>1
  <2>4. TypeOK' /\ MainFirst'
    BY <1>1, <2>1
  <2>5. SettingAlone'
    BY <1>1, <2>1, <2>2, <2>3
  <2>6. Shown'
    BY <1>1, <2>1, <2>2 DEF Threads
  <2>7. QED
    BY <2>1, <2>4, <2>5, <2>6
<1>3. CASE AdvertisingStarts(t)
  <2>1. /\ ~connected /\ ~on_air
        /\ UNCHANGED <<off, polls, leds, connected, held, freed, links>>
        /\ pc' = [pc EXCEPT ![t] = "set"]
    BY <1>3 DEF AdvertisingStarts, ShouldStartAdv
  <2>2. /\ {on_air', retry'} \subseteq BOOLEAN
        /\ status' = [status EXCEPT ![t] = IF on_air' THEN "advertising" ELSE "error"]
    <3>1. CASE on_air' = TRUE /\ status' = [status EXCEPT ![t] = "advertising"] /\ UNCHANGED retry
      <4>1. on_air' \in BOOLEAN /\ on_air'
        BY <3>1, Zenon
      <4>2. QED
        BY <3>1, <4>1
    <3>2. CASE retry' = TRUE /\ status' = [status EXCEPT ![t] = "error"] /\ UNCHANGED on_air
      <4>1. retry' \in BOOLEAN
        BY <3>2, Zenon
      <4>2. QED
        BY <2>1, <3>2, <4>1
    <3>3. QED
      BY <1>3, <3>1, <3>2 DEF AdvertisingStarts
  <2>3. /\ alone' \in BOOLEAN
        /\ alone' => \A u \in Threads \ {t} : pc[u] \notin Setting \cup Blinking
    BY <1>3, Zenon DEF AdvertisingStarts, Comes
  <2>4. TypeOK' /\ MainFirst'
    BY <1>1, <2>1, <2>2, <2>3 DEF Roles
  <2>5. SettingAlone'
    BY <1>1, <2>1, <2>2, <2>3 DEF WillDo, Wanted
  <2>6. Shown'
    BY <2>1
  <2>7. QED
    BY <2>1, <2>4, <2>5, <2>6
<1>4. QED
  BY <1>2, <1>3

\* A step that touches no LED and lets no status be wrong that was right before.
LEMMA Elsewhere ==
  ASSUME IInv, TypeOK', pc["main"] \notin Booting,
         UNCHANGED <<local, leds, alone>>, ~(connected' /\ on_air'),
         \A t \in Threads : pc'[t] # pc[t] => {pc[t], pc'[t]} \subseteq {"idle", "advertising_start"},
         \A s \in Roles : WillDo(s) => WillDo(s)'
  PROVE  IInv'
<1>1. \A t \in Threads, l \in Setting \cup Blinking \cup Booting : pc'[t] = l <=> pc[t] = l
  OBVIOUS
<1>2. SettingAlone'
  <2>1. SUFFICES ASSUME NEW t \in Threads, alone, pc[t] \in Setting
                 PROVE  /\ \A u \in Threads \ {t} : pc'[u] \notin Setting \cup Blinking
                        /\ WillDo(status[t])'
                        /\ pc[t] # "set" => current_status = status[t]
                        /\ pc[t] = "turn_off" => \A i \in 1..off[t] : Status[i] \notin lit
                        /\ pc[t] = "light" => lit = {} /\ ~blink /\ status[t] # "advertising"
    BY <1>1 DEF SettingAlone
  <2>2. status[t] \in Roles /\ UNCHANGED status
    BY DEF IInv, TypeOK
  <2>3. QED
    BY <1>1, <2>1, <2>2 DEF IInv, SettingAlone
<1>3. Shown'
  BY <1>1 DEF IInv, TypeOK, Shown, Threads
<1>4. MainFirst'
  BY <1>1 DEF Threads, MainFirst
<1>5. QED
  BY <1>2, <1>3, <1>4 DEF IInv

\* The workqueue takes the retry, or switches the advertiser to its slow parameters.
LEMMA WorkStep == ASSUME IInv, RetryStarts \/ SlowSwitch PROVE IInv'
<1>1. pc["main"] \notin Booting
  BY DEF RetryStarts, SlowSwitch, IInv, MainFirst
<1>2. CASE RetryStarts
  <2>1. retry' \in BOOLEAN
    BY <1>2, Zenon DEF RetryStarts
  <2>2. /\ pc["wq"] = "idle" /\ pc' = [pc EXCEPT !["wq"] = "advertising_start"]
        /\ UNCHANGED <<local, leds, radio, alone>> /\ "wq" \in Threads
    BY <1>2 DEF RetryStarts, Threads
  <2>3. TypeOK'
    BY <2>1, <2>2 DEF IInv, TypeOK
  <2>4. pc'["wq"] = "advertising_start"
    BY <2>2 DEF IInv, TypeOK
  <2>5. \A s \in Roles : WillDo(s) => WillDo(s)'
    BY <2>2, <2>4 DEF WillDo, Wanted
  <2>6. QED
    BY <1>1, <2>2, <2>3, <2>5, Elsewhere DEF IInv
<1>3. CASE SlowSwitch
  <2>1. /\ UNCHANGED <<pc, local, leds, connected, held, links, alone>> /\ on_air
        /\ freed' \in {freed, TRUE}
        /\ \/ UNCHANGED <<on_air, retry>>
           \/ on_air' = FALSE /\ retry' = TRUE
    BY ONLY <1>3 DEF SlowSwitch, leds, local
  <2>2. {on_air', retry'} \subseteq BOOLEAN
    <3>1. CASE UNCHANGED <<on_air, retry>>
      BY <3>1 DEF IInv, TypeOK
    <3>2. CASE on_air' = FALSE /\ retry' = TRUE
      BY <3>2, Zenon
    <3>3. QED
      BY <2>1, <3>1, <3>2
  <2>3. freed' \in BOOLEAN
    BY <2>1 DEF IInv, TypeOK
  <2>4. TypeOK'
    BY <2>1, <2>2, <2>3 DEF IInv, TypeOK
  <2>5. \A s \in Roles : WillDo(s) => WillDo(s)'
    BY <2>1 DEF WillDo, Wanted, IInv
  <2>6. QED
    BY <1>1, <2>1, <2>4, <2>5, Elsewhere DEF IInv
<1>4. QED
  BY <1>2, <1>3

\* set_status_leds.
LEMMA SetStep == ASSUME IInv, NEW t \in Threads, SetStatusLeds(t) PROVE IInv'
<1>1. pc[t] \in Setting /\ "main" \in Threads /\ pc["main"] \notin Booting
  BY DEF SetStatusLeds, SetStatus, TurnsOff, StartsBlinking, StopsBlinking, Lights, IInv,
         MainFirst, Threads
\* Once it has turned them all off there is nothing lit.
<1>2. ASSUME alone, pc[t] = "turn_off", off[t] = Len(Status) PROVE lit = {}
  <2>1. /\ lit \subseteq Roles
        /\ \A i \in 1..3 : Status[i] \notin lit
    BY <1>2 DEF IInv, TypeOK, SettingAlone, Status
  <2>2. Status[1] \notin lit /\ Status[2] \notin lit /\ Status[3] \notin lit
    BY ONLY <2>1
  <2>3. "connected" \notin lit /\ "advertising" \notin lit /\ "error" \notin lit
    BY ONLY <2>2 DEF Status
  <2>4. QED
    BY ONLY <2>1, <2>3 DEF Roles
<1>3. alone => \A u \in Threads \ {t} : pc[u] \notin Setting \cup Blinking
  BY <1>1 DEF IInv, SettingAlone
<1>4. ASSUME \A u \in Threads : pc'[u] = "advertising_start" <=> pc[u] = "advertising_start",
             UNCHANGED <<retry, radio>>
      PROVE  \A s \in Roles : WillDo(s) <=> WillDo(s)'
  BY <1>4 DEF WillDo, Wanted
<1> USE DEF IInv, TypeOK, MainFirst, SettingAlone, Shown
<1>5. CASE SetStatus(t)
  <2>1. /\ pc[t] = "set" /\ pc' = [pc EXCEPT ![t] = "turn_off"]
        /\ current_status' = status[t] /\ off[t] = 0
        /\ UNCHANGED <<local, lit, adv_blink_on, blink, retry, radio, alone>>
    BY <1>5 DEF SetStatus
  <2>2. TypeOK' /\ MainFirst'
    BY <1>1, <2>1 DEF Status
  <2>3. SettingAlone'
    BY <1>1, <1>3, <1>4, <2>1
  <2>4. Shown'
    BY <2>1
  <2>5. QED
    BY <2>1, <2>2, <2>3, <2>4
<1>6. CASE TurnsOff(t)
  <2>1. /\ pc[t] = "turn_off" /\ off[t] < 3 /\ off' = [off EXCEPT ![t] = @ + 1]
        /\ lit' = lit \ {Status[off[t] + 1]}
        /\ UNCHANGED <<pc, status, polls, current_status, adv_blink_on, blink, retry, radio, alone>>
    BY <1>6 DEF TurnsOff, Driven, Status
  <2>2. TypeOK' /\ MainFirst'
    BY <1>1, <2>1 DEF Status
  <2>3. SettingAlone'
    BY <1>1, <1>3, <1>4, <2>1
  <2>4. Shown'
    BY <1>1, <2>1
  <2>5. QED
    BY <2>1, <2>2, <2>3, <2>4
<1>7. CASE StartsBlinking(t)
  <2>1. /\ pc[t] = "turn_off" /\ off[t] = Len(Status) /\ status[t] = "advertising"
        /\ pc' = [pc EXCEPT ![t] = "idle"]
        /\ status' = [status EXCEPT ![t] = "connected"] /\ off' = [off EXCEPT ![t] = 0]
        /\ UNCHANGED <<polls, current_status, lit, retry, radio, alone>>
    BY <1>7 DEF StartsBlinking
  <2>2. adv_blink_on' \in BOOLEAN /\ blink' \in BOOLEAN /\ blink'
    BY <1>7, Zenon DEF StartsBlinking, BlinkScheduled
  <2>3. TypeOK' /\ MainFirst'
    BY <1>1, <2>1, <2>2 DEF Roles, Status
  <2>4. \A u \in Threads : alone => pc'[u] \notin Setting
    BY <1>1, <1>3, <2>1
  <2>5. SettingAlone'
    BY <2>1, <2>4
  <2>6. alone => lit = {} /\ current_status = "advertising" /\ WillDo(current_status)
    BY <1>1, <1>2, <2>1
  <2>7. Shown'
    BY <1>4, <2>1, <2>2, <2>6
  <2>8. QED
    BY <2>1, <2>3, <2>5, <2>7
<1>8. CASE StopsBlinking(t)
  <2>1. /\ pc[t] = "turn_off" /\ off[t] = Len(Status) /\ status[t] # "advertising"
        /\ pc' = [pc EXCEPT ![t] = "light"]
        /\ UNCHANGED <<local, current_status, lit, adv_blink_on, retry, radio, alone>>
    BY <1>8 DEF StopsBlinking
  <2>2. blink' \in BOOLEAN /\ ~blink'
    BY <1>8, Zenon DEF StopsBlinking
  <2>3. TypeOK' /\ MainFirst'
    BY <1>1, <2>1, <2>2
  <2>4. SettingAlone'
    BY <1>1, <1>2, <1>3, <1>4, <2>1, <2>2
  <2>5. Shown'
    BY <2>1
  <2>6. QED
    BY <2>1, <2>3, <2>4, <2>5
<1>9. CASE Lights(t)
  <2>1. /\ pc[t] = "light" /\ pc' = [pc EXCEPT ![t] = "idle"]
        /\ lit' = lit \cup ({status[t]} \cap Leds)
        /\ status' = [status EXCEPT ![t] = "connected"] /\ off' = [off EXCEPT ![t] = 0]
        /\ UNCHANGED <<polls, current_status, adv_blink_on, blink, retry, radio, alone>>
    BY <1>9 DEF Lights, Driven
  <2>2. TypeOK' /\ MainFirst'
    <3>1. lit' \subseteq Leds
      BY <2>1
    <3>2. QED
      BY <1>1, <2>1, <3>1 DEF Roles, Status
  <2>3. \A u \in Threads : alone => pc'[u] \notin Setting
    BY <1>1, <1>3, <2>1
  <2>4. SettingAlone'
    BY <2>1, <2>3
  <2>5. alone => /\ lit' = {current_status} \cap Leds /\ ~blink
                 /\ current_status # "advertising" /\ WillDo(current_status)
    BY <1>1, <2>1
  <2>6. alone => pc'["wq"] \notin Blinking
    BY <1>1, <1>3, <2>1 DEF Threads
  <2>7. Shown'
    BY <1>4, <2>1, <2>5, <2>6
  <2>8. QED
    BY <2>1, <2>2, <2>4, <2>7
<1>10. QED
  BY <1>5, <1>6, <1>7, <1>8, <1>9 DEF SetStatusLeds

\* adv_blink_handler.
LEMMA BlinkStep == ASSUME IInv, BlinkStarts \/ BlinkHandler PROVE IInv'
<1>1. pc["main"] \notin Booting /\ "wq" \in Threads /\ "main" \in Threads
  BY DEF BlinkStarts, BlinkHandler, BlinkLooks, BlinkSets, BlinkAgain, IInv, MainFirst, Threads
<1>2. ASSUME \A u \in Threads : pc'[u] = "advertising_start" <=> pc[u] = "advertising_start",
             UNCHANGED <<retry, radio>>
      PROVE  \A s \in Roles : WillDo(s) <=> WillDo(s)'
  BY <1>2 DEF WillDo, Wanted
<1>3. ASSUME BlinkHandler, alone
      PROVE  (\A u \in Threads : pc[u] \notin Setting) /\ current_status = "advertising"
  BY <1>1, <1>3 DEF BlinkHandler, BlinkLooks, BlinkSets, BlinkAgain, IInv, SettingAlone, Shown
<1> USE DEF IInv, TypeOK, MainFirst, SettingAlone, Shown
<1>4. CASE BlinkStarts
  <2>1. /\ pc["wq"] = "idle" /\ blink /\ pc' = [pc EXCEPT !["wq"] = "blink"]
        /\ UNCHANGED <<local, current_status, lit, adv_blink_on, retry, radio>>
    BY <1>4 DEF BlinkStarts
  <2>2. blink' \in BOOLEAN /\ ~blink'
    BY <1>4, Zenon DEF BlinkStarts
  <2>3. /\ alone' \in BOOLEAN
        /\ alone' => alone /\ \A u \in Threads : pc[u] \notin Setting
    BY <1>4, Zenon DEF BlinkStarts
  <2>4. TypeOK' /\ MainFirst'
    BY <1>1, <2>1, <2>2, <2>3
  <2>5. \A u \in Threads : alone' => pc'[u] \notin Setting
    BY <1>1, <2>1, <2>3
  <2>6. SettingAlone'
    BY <2>5
  <2>7. pc'["wq"] = "blink"
    BY <1>1, <2>1
  <2>8. Shown'
    BY <1>2, <2>1, <2>3, <2>7
  <2>9. QED
    BY <2>1, <2>4, <2>6, <2>8
<1>5. CASE BlinkLooks
  <2>1. /\ pc["wq"] = "blink"
        /\ IF BlinkGuard THEN pc' = [pc EXCEPT !["wq"] = "blink_set"]
                         ELSE pc' = [pc EXCEPT !["wq"] = "idle"]
        /\ UNCHANGED <<local, current_status, lit, blink, retry, radio, alone>>
    BY <1>5 DEF BlinkLooks
  <2>2. adv_blink_on' \in BOOLEAN
    <3>1. adv_blink_on' = ~adv_blink_on \/ adv_blink_on' = adv_blink_on
      BY <1>5, Zenon DEF BlinkLooks
    <3>2. adv_blink_on \in BOOLEAN
      OBVIOUS
    <3>3. QED
      BY ONLY <3>1, <3>2
  <2>3. TypeOK' /\ MainFirst'
    BY <1>1, <2>1, <2>2
  <2>4. alone => \A u \in Threads : pc'[u] \notin Setting
    BY <1>1, <1>3, <1>5, <2>1 DEF BlinkHandler
  <2>5. SettingAlone'
    BY <2>1, <2>4
  <2>6. BlinkGuard => pc'["wq"] = "blink_set"
    BY <1>1, <2>1
  <2>7. Shown'
    BY <1>2, <1>3, <1>5, <2>1, <2>6 DEF BlinkGuard, BlinkHandler
  <2>8. QED
    BY <2>1, <2>3, <2>5, <2>7
<1>6. CASE BlinkSets
  <2>1. /\ pc["wq"] = "blink_set" /\ pc' = [pc EXCEPT !["wq"] = "blink_again"]
        /\ lit' \subseteq lit \cup ({"advertising"} \cap Leds)
        /\ UNCHANGED <<local, current_status, adv_blink_on, blink, retry, radio, alone>>
    BY <1>6 DEF BlinkSets, Driven
  <2>2. TypeOK' /\ MainFirst'
    BY <1>1, <2>1
  <2>3. alone => \A u \in Threads : pc'[u] \notin Setting
    BY <1>1, <1>3, <1>6, <2>1 DEF BlinkHandler
  <2>4. SettingAlone'
    BY <2>1, <2>3
  <2>5. pc'["wq"] = "blink_again"
    BY <1>1, <2>1
  <2>6. Shown'
    BY <1>2, <1>3, <1>6, <2>1, <2>5 DEF BlinkHandler
  <2>7. QED
    BY <2>1, <2>2, <2>4, <2>6
<1>7. CASE BlinkAgain
  <2>1. /\ pc["wq"] = "blink_again" /\ pc' = [pc EXCEPT !["wq"] = "idle"]
        /\ UNCHANGED <<local, current_status, lit, adv_blink_on, retry, radio, alone>>
    BY <1>7 DEF BlinkAgain
  <2>2. blink' \in BOOLEAN /\ blink'
    BY <1>7, Zenon DEF BlinkAgain
  <2>3. TypeOK' /\ MainFirst'
    BY <1>1, <2>1, <2>2
  <2>4. alone => \A u \in Threads : pc'[u] \notin Setting
    BY <1>1, <1>3, <1>7, <2>1 DEF BlinkHandler
  <2>5. SettingAlone'
    BY <2>1, <2>4
  <2>6. Shown'
    BY <1>2, <1>3, <1>7, <2>1, <2>2 DEF BlinkHandler
  <2>7. QED
    BY <2>1, <2>3, <2>5, <2>6
<1>8. QED
  BY <1>4, <1>5, <1>6, <1>7 DEF BlinkHandler

\* The link comes and goes.
LEMMA LinkStep ==
  ASSUME IInv, OnConnected \/ OnConnectFailed \/ OnDisconnected \/ OnRecycled
  PROVE  IInv'
<1>1. pc["main"] \notin Booting /\ "main" \in Threads /\ "bt" \in Threads /\ "rec" \in Threads
  BY DEF OnConnected, OnConnectFailed, OnDisconnected, OnRecycled, IInv, MainFirst, Threads
<1>2. CASE OnConnected
  <2>1. /\ pc["bt"] = "idle" /\ pc' = [pc EXCEPT !["bt"] = "set"]
        /\ status' = [status EXCEPT !["bt"] = "connected"]
        /\ UNCHANGED <<off, polls, leds, retry, held, freed>>
    BY <1>2 DEF OnConnected
  <2>2. on_air' \in BOOLEAN /\ connected' \in BOOLEAN /\ ~on_air' /\ connected'
    BY <1>2, Zenon DEF OnConnected
  <2>3. /\ alone' \in BOOLEAN
        /\ alone' => \A u \in Threads \ {"bt"} : pc[u] \notin Setting \cup Blinking
    BY <1>2, Zenon DEF OnConnected, Comes
  <2>4. TypeOK' /\ MainFirst'
    BY <1>1, <2>1, <2>2, <2>3 DEF IInv, TypeOK, MainFirst, Roles
  <2>5. SettingAlone'
    BY <1>1, <2>1, <2>2, <2>3 DEF IInv, TypeOK, SettingAlone, WillDo, Wanted
  <2>6. Shown'
    BY <1>1, <2>1 DEF IInv, TypeOK, Shown
  <2>7. QED
    BY <2>2, <2>4, <2>5, <2>6 DEF IInv
<1>3. CASE OnConnectFailed
  <2>1. on_air /\ UNCHANGED <<pc, local, leds, retry, connected, freed, alone>>
    BY <1>3 DEF OnConnectFailed
  <2>2. {on_air', held'} \subseteq BOOLEAN /\ ~on_air' /\ held'
    BY <1>3, Zenon DEF OnConnectFailed
  <2>3. TypeOK' /\ \A s \in Roles : WillDo(s)'
    BY <2>1, <2>2 DEF IInv, TypeOK, WillDo
  <2>4. QED
    BY <1>1, <2>1, <2>2, <2>3, Elsewhere
<1>4. CASE OnDisconnected
  <2>1. connected /\ UNCHANGED <<pc, local, leds, retry, on_air, freed, alone>>
    BY <1>4 DEF OnDisconnected
  <2>2. {connected', held'} \subseteq BOOLEAN /\ ~connected' /\ held'
    BY <1>4, Zenon DEF OnDisconnected
  <2>3. TypeOK' /\ \A s \in Roles : WillDo(s)'
    BY <2>1, <2>2 DEF IInv, TypeOK, WillDo
  <2>4. QED
    BY <1>1, <2>1, <2>2, <2>3, Elsewhere
<1>5. CASE OnRecycled
  <2>1. /\ pc["rec"] = "idle" /\ pc' = [pc EXCEPT !["rec"] = "advertising_start"]
        /\ UNCHANGED <<local, leds, retry, on_air, connected, links, alone>>
    BY <1>5 DEF OnRecycled
  <2>2. {held', freed'} \subseteq BOOLEAN
    <3>1. CASE held' = FALSE /\ UNCHANGED freed
      <4>1. held' \in BOOLEAN
        BY <3>1, Zenon
      <4>2. QED
        BY <3>1, <4>1 DEF IInv, TypeOK
    <3>2. CASE freed' = FALSE /\ UNCHANGED held
      <4>1. freed' \in BOOLEAN
        BY <3>2, Zenon
      <4>2. QED
        BY <3>2, <4>1 DEF IInv, TypeOK
    <3>3. QED
      BY <1>5, <3>1, <3>2 DEF OnRecycled
  <2>3. TypeOK' /\ pc'["rec"] = "advertising_start"
    BY <1>1, <2>1, <2>2 DEF IInv, TypeOK
  <2>4. \A s \in Roles : WillDo(s) => WillDo(s)'
    BY <1>1, <2>1, <2>3 DEF WillDo, Wanted
  <2>5. QED
    BY <1>1, <2>1, <2>3, <2>4, Elsewhere DEF IInv, TypeOK
<1>6. QED
  BY <1>2, <1>3, <1>4, <1>5

\* The invariant holds in every state: whatever the interleaving of the callers of
\* set_status_leds with each other and with the blinking, a status that was set by a
\* thread that had the LEDs to itself is shown.
THEOREM Invariance == Spec => []IInv
<1>1. Init => IInv
  <2>1. SUFFICES ASSUME Init PROVE IInv
    OBVIOUS
  <2>2. TypeOK
    <3>1. {adv_blink_on, blink, retry, on_air, connected, held, freed, alone} \subseteq BOOLEAN
      BY <2>1, Zenon DEF Init
    <3>2. current_status \in Roles /\ status \in [Threads -> Roles] /\ lit \subseteq Leds
      BY <2>1 DEF Init, Roles
    <3>3. off \in [Threads -> 0..Len(Status)]
      BY <2>1 DEF Init, Status
    <3>4. /\ pc \in [Threads -> {"idle", "button"}]
          /\ \A t \in Threads : off[t] = 0 /\ (pc[t] = "button" => t = "main")
      BY <2>1 DEF Init
    <3>5. QED
      BY <3>1, <3>2, <3>3, <3>4 DEF TypeOK
  <2>3. MainFirst /\ SettingAlone /\ Shown
    BY <2>1 DEF Init, MainFirst, SettingAlone, Shown, Threads
  <2>4. QED
    BY <2>1, <2>2, <2>3 DEF Init, IInv
<1>2. IInv /\ [Next]_vars => IInv'
  <2>1. SUFFICES ASSUME IInv, [Next]_vars PROVE IInv'
    OBVIOUS
  <2>2. CASE UNCHANGED vars
    BY <2>1, <2>2 DEF vars, IInv, TypeOK, MainFirst, SettingAlone, Shown, WillDo, Wanted
  <2>3. CASE Next
    BY <2>1, <2>3, BootStep, AdvertisingStep, WorkStep, SetStep, BlinkStep, LinkStep DEF Next
  <2>4. QED
    BY <2>1, <2>2, <2>3
<1>3. QED
  BY <1>1, <1>2, PTL DEF Spec

\* main.c's "One LED per state, driven mutually exclusively" holds of every status set by
\* a thread that meets nobody else at the LEDs: whichever LEDs the board has, however often
\* the link came and went and the advertiser failed, and whatever LEDs, blinking or retry
\* an overlap of earlier calls has left behind.
THEOREM OneLedPerState == Spec => []LedsShowLink
<1>1. IInv => LedsShowLink
  <2>1. SUFFICES ASSUME IInv PROVE LedsShowLink
    OBVIOUS
  <2>2. ASSUME alone, \A t \in Threads : pc[t] \notin Setting PROVE Cardinality(lit) <= 1
    <3>1. \E r : lit \subseteq {r}
      BY <2>1, <2>2 DEF IInv, Shown
    <3>2. CASE lit = {}
      BY <3>2, FS_EmptySet
    <3>3. ASSUME NEW r \in lit PROVE lit = {r}
      BY <3>1
    <3>4. QED
      BY <3>2, <3>3, FS_Singleton
  <2>3. ASSUME alone, AtRest
        PROVE  CASE connected -> lit = {"connected"} \cap Leds
                 [] on_air \/ (retry /\ current_status = "advertising")
                    -> lit \subseteq {"advertising"} /\ (blink \/ "advertising" \notin Leds)
                 [] OTHER   -> lit = {"error"} \cap Leds
    <3>1. /\ ~(connected /\ on_air) /\ Shown /\ ~held
          /\ pc["wq"] = "idle" /\ \A t \in Threads : pc[t] = "idle"
      BY <2>1, <2>3 DEF IInv, AtRest, Threads
    <3>2. /\ IF current_status = "advertising"
               THEN lit \subseteq {"advertising"} /\ ("advertising" \notin Leds \/ blink)
               ELSE lit = {current_status} \cap Leds
          /\ \/ current_status = Wanted
             \/ ~connected /\ ~on_air /\ retry /\ current_status = "advertising"
      BY <2>3, <3>1 DEF Shown, WillDo
    <3>3. QED
      BY <3>1, <3>2 DEF Wanted
  <2>4. QED
    BY <2>2, <2>3 DEF LedsShowLink
<1>2. QED
  BY <1>1, Invariance, PTL

================================================================================
