-------------------------------- MODULE LinkClock -------------------------------
(* Link with a clock.  Every delayable work of main.c gets a countdown, set by    *)
(* the k_work_reschedule that arms it; the steps are Link's own.                 *)
EXTENDS Link

CONSTANTS
  RetryDelay,    \* ADV_RETRY_DELAY, in ticks
  FastDuration,  \* ADV_FAST_DURATION
  Window,        \* PROXY_SECURITY_WINDOW_MS, the same in both modes
  Grace          \* RELAY_GRACE_MS

ASSUME ClockAssumption == {RetryDelay, FastDuration, Window, Grace} \subseteq Nat \ {0}

VARIABLES
  left,    \* work -> ticks until it is due
  upFor,   \* ticks the link has been up, counted to just beyond Window
  silent,  \* ticks the device has been idle without advertising
  alone,   \* ticks the relay has been on since the last secure link
  drops    \* how often the grace window was armed in that time

timedVars == <<vars, left, upFor, silent, alone, drops>>

Secure == current_conn # 0 /\ link_secure
Silent == phase = "none" /\ advertiser = "off" /\ pc["main"] # "dead"

\* How far the observers count: beyond what the properties allow.
AloneBound  == Grace * MaxLinks + 1
SilentBound == RetryDelay * MaxFaults + 1

TimedInit ==
  /\ Init
  /\ left = [w \in Works |-> 0]
  /\ upFor = 0 /\ silent = 0 /\ alone = 0 /\ drops = 0

\* Has a thread moved from one label to another?
Moved(t, from, to) == pc[t] = from /\ pc'[t] = to

\* Which k_work_reschedule calls this step makes.
Rescheduled(w) ==
  CASE w = "adv_slow" -> \/ \E t \in Threads : Moved(t, "adv_live", "idle")
                         \/ Moved("wq", "slow_stop", "idle")
    [] w = "adv_retry" -> \/ \E t \in Threads : Moved(t, "adv_error", "idle")
                          \/ Moved("wq", "slow_failed", "idle")
    [] w = "security_timeout" -> Moved("bt", "connected", "idle")
    [] w = "relay_grace" -> Moved("bt", "disc_held", "disc_clear")

\* Mutants: the delay of the retry; the windows added up.
WindowOfRetry == RetryDelay
WindowAndGrace == Window + Grace

\* proxy_security_window_ms: one window, whatever the mode.
SecurityWindow == Window

\* Mutants: the delay of the retry; one tick too many.
GraceOfRetry == RetryDelay
GraceAndOne == Grace + 1

\* relay_grace_start's delay.
GraceDelay == Grace

\* The delay each work is scheduled with.  Whoever finds bt_le_adv_stop to have failed
\* tries the switch again after the retry's delay.
Delay(w) ==
  CASE w = "adv_slow" -> IF Moved("wq", "slow_stop", "idle") THEN RetryDelay ELSE FastDuration
    [] w = "adv_retry" -> RetryDelay
    [] w = "security_timeout" -> SecurityWindow
    [] w = "relay_grace" -> GraceDelay

\* k_work_reschedule starts the full delay again, whether or not one was running.
Countdowns ==
  left' = [w \in Works |-> IF w \notin works' THEN 0
                           ELSE IF Rescheduled(w) THEN Delay(w) ELSE left[w]]

\* A work is taken from the queue when its delay has elapsed.
OnlyDueWorksStart ==
  pc["wq"] = "idle" /\ pc'["wq"] # "idle" =>
    \A w \in works \ works' : left[w] = 0

\* The radio link comes and goes while no handler or callback is running: they take
\* microseconds, a link milliseconds.
HandlersAreShort ==
  \/ pc["bt"] = "idle" /\ pc["wq"] \in {"idle", "watchdog_drop"}
  \/ links' = links /\ ~(phase = "up" /\ phase' = "lost")

Step ==
  /\ Next
  /\ OnlyDueWorksStart /\ HandlersAreShort
  /\ Countdowns
  /\ upFor' = IF phase' = "up" /\ current_conn' = current_conn THEN upFor ELSE 0
  /\ silent' = IF Silent' THEN silent ELSE 0
  /\ alone' = IF Secure' \/ ~relay_enabled' THEN 0 ELSE alone
  /\ drops' = IF Rescheduled("relay_grace") THEN (IF Secure THEN 1 ELSE drops + 1)
                                            ELSE drops

\* Time passes while no thread is in the middle of something, no callback is due, and
\* not beyond the instant at which a work is due.
Tick ==
  /\ \A t \in Threads \ {"writer"} : pc[t] \in {"idle", "dead"}
  /\ pc["writer"] = "sending" => phase = "up"
  /\ phase \in {"none", "up"} /\ ~recycled
  /\ phase = "up" /\ encrypted => link_secure
  /\ \A w \in works : left[w] > 0
  /\ left' = [w \in Works |-> IF w \in works THEN left[w] - 1 ELSE 0]
  /\ upFor' = IF phase = "up" /\ upFor <= Window THEN upFor + 1 ELSE upFor
  /\ silent' = IF Silent /\ silent < SilentBound THEN silent + 1 ELSE silent
  /\ alone' = IF relay_enabled /\ ~Secure /\ alone < AloneBound THEN alone + 1 ELSE alone
  /\ UNCHANGED <<vars, drops>>

TimedSpec == TimedInit /\ [][Step \/ Tick]_timedVars

--------------------------------------------------------------------------------
\* The rider gets the whole grace window: an expiry never cuts the relay earlier,
\* counted from the moment the last secure link ended.  (A power cycle may, whatever
\* the workqueue was doing.)
NeverCutEarly ==
  [][relay_enabled /\ ~relay_enabled' /\ Moved("wq", "relay_grace", "idle") /\ boots' = boots
       => alone >= Grace]_timedVars

\* What the code guarantees about the other end: one window per dropped link, for
\* every drop re-arms the timer.
OneWindowPerDrop == alone <= Grace * drops

\* What RELAY_COMMAND.md says: the relay is off once the window has elapsed with no
\* encrypted link.
ReleasedAfterGrace == alone <= Grace

\* A link gets its whole window to encrypt: no expiry left over from an earlier link,
\* and no order of cancel and expiry, makes the watchdog drop a younger one.  A link that
\* encrypts just as the window closes may be dropped all the same.
WatchdogPatient ==
  [][Moved("wq", "watchdog_drop", "watchdog_unref") /\ phase = "up" /\ phase' = "lost"
       => upFor >= Window]_timedVars

\* Nobody sits on the only connection slot unencrypted for longer than the window,
\* unless the watchdog's one disconnect has failed.
SlotFreedInTime ==
  phase = "up" /\ ~link_secure /\ undropped # links => upFor <= Window

\* The device is never off the air, idle, for longer than one retry delay per failed
\* call: recycling, the retry and the slow switch leave no gap between them.
SilenceBounded == silent <= RetryDelay * faults

================================================================================
