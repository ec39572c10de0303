------------------------------- MODULE DropStats -------------------------------
(* uart_bridge_log_drops_if_due and the policy of drop_stats.c: the counters are  *)
(* bumped by the UART interrupt and by the thread that sends, the report is made  *)
(* by ble_write_thread whenever it has been woken.  Uptime is a 32-bit count of   *)
(* milliseconds.                                                                  *)
EXTENDS Naturals

CONSTANTS
  Wrap,      \* 2^32 in the code: where uptime wraps
  Interval,  \* DROP_REPORT_INTERVAL_MS
  MaxDrops   \* bound: bytes dropped on each side

ASSUME DropStatsAssumption ==
  Wrap \in Nat \ {0} /\ Interval \in 1..Wrap - 1 /\ MaxDrops \in Nat

Sides == {"rx", "tx"}

VARIABLES
  drops,           \* drops_uart_rx_ring and drops_uart_tx
  last,            \* last_rx and last_tx, what the last report said
  last_report_ms,
  uptime,          \* k_uptime_get_32
  writer,          \* where the thread stands
  read,            \* rx and tx, its locals
  \* auxiliary
  since,           \* the time since the last report; Wrap is a turn or more
  owed             \* what was dropped when the thread was woken, with a report due

stats == <<last, last_report_ms, since>>
vars  == <<drops, stats, uptime, writer, read, owed>>

None == [s \in Sides |-> 0]

Init ==
  /\ drops = None /\ last = None /\ last_report_ms = 0
  /\ uptime = 0 /\ since = 0
  /\ writer = "take" /\ read = None /\ owed = None

--------------------------------------------------------------------------------
Tick ==
  /\ uptime' = (uptime + 1) % Wrap
  /\ since' = IF since < Wrap THEN since + 1 ELSE since
  /\ UNCHANGED <<drops, last, last_report_ms, writer, read, owed>>

\* An interrupt, or uart_bridge_send, at any moment.
Drop(side) ==
  /\ drops[side] < MaxDrops
  /\ drops' = [drops EXCEPT ![side] = @ + 1]
  /\ UNCHANGED <<stats, uptime, writer, read, owed>>

\* Nothing but the arrival of data, or a change of the link, wakes the thread.
WriterWakes ==
  /\ writer = "take"
  /\ writer' = "rx"
  /\ owed' = IF since >= Interval THEN drops ELSE None
  /\ UNCHANGED <<drops, stats, uptime, read>>

\* One atomic_get, then the other.
Reads(side) ==
  /\ writer = side
  /\ read' = [read EXCEPT ![side] = drops[side]]
  /\ writer' = IF side = "rx" THEN "tx" ELSE "report"
  /\ UNCHANGED <<drops, stats, uptime, owed>>

\* Mutant: the deadline is computed, and wraps, instead of the difference.
ShouldReportAfter(now, interval, changed) ==
  changed /\ now >= (last_report_ms + interval) % Wrap

\* drop_stats_should_report: the counters have changed, and the interval has elapsed.
ShouldReport(now, interval, changed) ==
  changed /\ (Wrap + now - last_report_ms) % Wrap >= interval

LogDropsIfDue ==
  /\ writer = "report"
  /\ IF ShouldReport(uptime, Interval, read # last)
       THEN last' = read /\ last_report_ms' = uptime /\ since' = 0
       ELSE UNCHANGED stats
  /\ writer' = "take" /\ read' = None /\ owed' = None
  /\ UNCHANGED <<drops, uptime>>

Next ==
  \/ Tick
  \/ \E side \in Sides : Drop(side) \/ Reads(side)
  \/ WriterWakes \/ LogDropsIfDue

Spec == Init /\ [][Next]_vars

--------------------------------------------------------------------------------
\* Wherever the clock wraps, and whatever is dropped between the two reads: no report
\* comes sooner than the interval after the last; and a thread that is woken with a
\* report due makes it - when it sleeps again, all that had been dropped by then is
\* reported - provided that the last report is less than a turn of the clock old.
ReportWhenDue ==
  [][/\ last' # last => since >= Interval
     /\ writer = "report" /\ writer' = "take" /\ since < Wrap
          => \A side \in Sides : last'[side] >= owed[side]]_vars

================================================================================
