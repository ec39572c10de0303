----------------------------- MODULE DropStatsProofs -----------------------------
(* Proofs about DropStats, for any width of the clock and any interval shorter     *)
(* than its turn.                                                                  *)
EXTENDS DropStats, TLAPS

Time == 0..Wrap - 1

TypeOK ==
  /\ drops \in [Sides -> 0..MaxDrops] /\ last \in [Sides -> 0..MaxDrops]
  /\ read \in [Sides -> 0..MaxDrops] /\ owed \in [Sides -> 0..MaxDrops]
  /\ last_report_ms \in Time /\ uptime \in Time /\ since \in 0..Wrap
  /\ writer \in {"take", "rx", "tx", "report"}

\* What the clock shows is the time of the last report and the time since, less a turn
\* when it has wrapped.
Clock ==
  since < Wrap => \/ uptime = last_report_ms + since
                  \/ uptime = last_report_ms + since - Wrap

\* What is owed is in the counters, and in the reads once they are taken; and something
\* is owed only once the interval has elapsed.
Owed ==
  /\ \A s \in Sides : owed[s] <= drops[s]
  /\ owed # None => since >= Interval
  /\ writer \in {"tx", "report"} => owed["rx"] <= read["rx"]
  /\ writer = "report" => owed["tx"] <= read["tx"]

IInv == TypeOK /\ Clock /\ Owed

\* The remainder of what is less than two turns.
LEMMA Remainder ==
  ASSUME NEW m \in 0..2 * Wrap - 1
  PROVE  m % Wrap = IF m < Wrap THEN m ELSE m - Wrap
<1>1. Wrap \in Nat /\ Wrap > 0
  BY DropStatsAssumption
<1>2. CASE m < Wrap
  BY <1>1, <1>2
<1>3. CASE m >= Wrap
  BY <1>1, <1>3
<1>4. QED
  BY <1>1, <1>2, <1>3

USE DropStatsAssumption DEF Time

\* A difference of uptimes, taken modulo the clock's turn, is the time between them.
LEMMA Elapsed ==
  ASSUME IInv, since < Wrap
  PROVE  (Wrap + uptime - last_report_ms) % Wrap = since
<1>1. Wrap + uptime - last_report_ms \in {since, since + Wrap}
  BY DEF IInv, TypeOK, Clock
<1>2. since \in 0..2 * Wrap - 1 /\ since + Wrap \in 0..2 * Wrap - 1
  BY DEF IInv, TypeOK
<1>3. QED
  BY <1>1, <1>2, Remainder DEF IInv, TypeOK

\* A clock that ticks shows the next millisecond, or starts again.
LEMMA Ticked ==
  ASSUME IInv PROVE (uptime + 1) % Wrap = IF uptime + 1 < Wrap THEN uptime + 1 ELSE 0
<1>1. uptime + 1 \in 0..2 * Wrap - 1 /\ uptime + 1 <= Wrap
  BY DEF IInv, TypeOK
<1>2. QED
  BY <1>1, Remainder DEF IInv, TypeOK

\* The invariant holds in every state.
THEOREM Invariance == Spec => []IInv
<1>1. Init => IInv
  BY DEF Init, None, Sides, IInv, TypeOK, Clock, Owed
<1>2. IInv /\ [Next]_vars => IInv'
  <2> SUFFICES ASSUME IInv, [Next]_vars PROVE IInv'
    OBVIOUS
  <2> USE DEF IInv, TypeOK, Clock, Owed, stats
  <2>1. CASE Tick
    <3>1. uptime' = IF uptime + 1 < Wrap THEN uptime + 1 ELSE 0
      BY <2>1, Ticked DEF Tick
    <3>2. QED
      BY <2>1, <3>1 DEF Tick
  <2>2. ASSUME NEW s \in Sides, Drop(s) PROVE IInv'
    BY <2>2 DEF Drop
  <2>3. ASSUME NEW s \in Sides, Reads(s) PROVE IInv'
    BY <2>3 DEF Reads, Sides
  <2>4. CASE WriterWakes
    BY <2>4 DEF WriterWakes, None, Sides
  <2>5. CASE LogDropsIfDue
    BY <2>5 DEF LogDropsIfDue, None, Sides
  <2>6. CASE UNCHANGED vars
    BY <2>6 DEF vars
  <2>7. QED
    BY <2>1, <2>2, <2>3, <2>4, <2>5, <2>6 DEF Next
<1>3. QED
  BY <1>1, <1>2, PTL DEF Spec

\* Reports are never closer than the interval, and a due one is made, wherever the clock
\* wraps and whatever the interrupt adds between the two reads.
THEOREM Reported == Spec => ReportWhenDue
<1>1. IInv /\ [Next]_vars =>
        [/\ last' # last => since >= Interval
         /\ writer = "report" /\ writer' = "take" /\ since < Wrap
              => \A side \in Sides : last'[side] >= owed[side]]_vars
  <2> SUFFICES ASSUME IInv, Next
               PROVE  /\ last' # last => since >= Interval
                      /\ writer = "report" /\ writer' = "take" /\ since < Wrap
                           => \A side \in Sides : last'[side] >= owed[side]
    OBVIOUS
  <2>1. CASE LogDropsIfDue
    <3> DEFINE due == ShouldReport(uptime, Interval, read # last)
    <3>1. since < Wrap => (due <=> read # last /\ since >= Interval)
      BY Elapsed DEF ShouldReport
    <3>2. writer = "report" /\ last' = IF due THEN read ELSE last
      BY <2>1 DEF LogDropsIfDue, stats
    <3> HIDE DEF due
    <3>3. last' # last => since >= Interval
      BY <3>1, <3>2 DEF IInv, TypeOK
    <3>4. ASSUME since < Wrap, NEW side \in Sides PROVE last'[side] >= owed[side]
      BY <3>1, <3>2, <3>4 DEF IInv, TypeOK, Owed, None, Sides
    <3>5. QED
      BY <3>3, <3>4
  <2>2. CASE ~LogDropsIfDue
    BY <2>2 DEF Next, Tick, Drop, Reads, WriterWakes, stats, Sides
  <2>3. QED
    BY <2>1, <2>2
<1>2. QED
  BY <1>1, Invariance, PTL DEF Spec, ReportWhenDue

================================================================================
