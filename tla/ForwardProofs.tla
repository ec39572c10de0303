------------------------------ MODULE ForwardProofs ------------------------------
(* Proofs about Forward, for any ring, chunk buffer, growth of the data in the      *)
(* hook, and MTUs.                                                                   *)
EXTENDS Forward, SequenceTheorems, TLAPS

--------------------------------------------------------------------------------
\* The inductive invariant.

\* The byte of the serial line from which the hook made an output byte.
Origin(p) == (p - 1) \div HookCopies + 1

Increasing(s) == \A i, j \in 1..Len(s) : i < j => s[i] < s[j]

\* Where the writer stands tells what is in its hands.
Hands ==
  /\ conn # 0 <=> writer \in {"claim", "hook", "send", "unref"}
  /\ writer = "hook" => claimed \in 1..Len(ring)
  /\ writer \in {"hook", "send"} => max_send > 0
  /\ writer \notin {"send", "unref"} => proc_buf = <<>> /\ sent = 0

\* The link the application serves is the only one there is, and the one the writer
\* refers to, which was secure and still is.
OneLink ==
  /\ links = ended + (IF current_conn = 0 THEN 0 ELSE 1)
  /\ current_conn # 0 => current_conn = links
  /\ up # 0 => up = current_conn
  /\ link_secure => looked /\ current_conn # 0
  /\ conn # 0 /\ current_conn # 0 => conn = current_conn /\ link_secure

\* The ring holds received bytes in their order, and those dropped are not in it.
RingKeeps ==
  /\ drops + Len(ring) <= received /\ Len(arrival) = received
  /\ Increasing(ring) /\ \A i \in 1..Len(ring) : ring[i] \in 1..received

\* What phones have received comes before what the writer still has to send, and both
\* come before what is in the ring.
InOrder ==
  /\ Increasing(proc_buf)
  /\ \A i \in 1..Len(proc_buf) :
       /\ Origin(proc_buf[i]) \in 1..received
       /\ \A j \in 1..Len(ring) : Origin(proc_buf[i]) < ring[j]
  /\ \A i \in 1..Len(got) :
       /\ Origin(got[i][1]) \in 1..received
       /\ \A j \in 1..Len(ring) : Origin(got[i][1]) < ring[j]
       /\ \A j \in sent + 1..Len(proc_buf) : got[i][1] < proc_buf[j]

\* Once the writer has looked at the ring after the last link's end, and while the link
\* it sends over is there, all it finds and has came after that end.
Fresh ==
  /\ looked /\ writer # "drain" => \A i \in 1..Len(ring) : arrival[ring[i]] = ended
  /\ conn # 0 /\ current_conn = conn =>
       \A i \in 1..Len(proc_buf) : arrival[Origin(proc_buf[i])] = ended

IInv ==
  /\ TypeOK /\ Hands /\ OneLink /\ RingKeeps /\ InOrder /\ Fresh
  /\ NoLostWakeup /\ BytesAccounted /\ InOrderOnce /\ CleanStream

USE ForwardAssumption

--------------------------------------------------------------------------------
\* The hook.

\* A byte and one of its copies.
LEMMA Copy ==
  ASSUME NEW b \in Nat \ {0}, NEW r \in 0..HookCopies - 1
  PROVE  /\ HookCopies * (b - 1) + r + 1 \in Nat \ {0}
         /\ Origin(HookCopies * (b - 1) + r + 1) = b
BY DEF Origin

\* Positions are in the order of their origins.
LEMMA OriginOrder ==
  ASSUME NEW p \in Nat \ {0}, NEW q \in Nat \ {0}, Origin(p) < Origin(q)
  PROVE  p < q
BY DEF Origin

LEMMA OriginBound ==
  ASSUME NEW p \in Nat \ {0}, NEW n \in Nat, Origin(p) <= n
  PROVE  p <= n * HookCopies
BY DEF Origin

\* HookCopies bytes for each of m bytes, and for n more.
LEMMA Distributes ==
  ASSUME NEW m \in Int, NEW n \in Int
  PROVE  HookCopies * (m + n) = HookCopies * m + HookCopies * n
OBVIOUS

\* No more is made of the bytes received than all of them give.
LEMMA Share ==
  ASSUME NEW n \in 0..MaxBytes, NEW a \in Nat, NEW b \in Nat, HookCopies * n = a + b
  PROVE  b \in 0..(MaxBytes * HookCopies)
<1>1. HookCopies * (n + (MaxBytes - n)) = HookCopies * n + HookCopies * (MaxBytes - n)
  BY Distributes
<1>2. n + (MaxBytes - n) = MaxBytes
  OBVIOUS
<1>3. HookCopies * (MaxBytes - n) \in Nat
  OBVIOUS
<1>4. QED
  BY <1>1, <1>2, <1>3

\* Dividing a position by the number of copies.
LEMMA Division ==
  ASSUME NEW m \in Nat
  PROVE  /\ m \div HookCopies \in Nat /\ m % HookCopies \in 0..HookCopies - 1
         /\ m = HookCopies * (m \div HookCopies) + (m % HookCopies)
OBVIOUS

LEMMA Quotient ==
  ASSUME NEW m \in Nat, NEW n \in Nat, m < HookCopies * n
  PROVE  m \div HookCopies < n
<1> DEFINE q == m \div HookCopies
<1>1. q \in Nat /\ HookCopies * q <= m
  BY Division
<1> HIDE DEF q
<1>2. CASE q >= n
  <2>1. HookCopies * q >= HookCopies * n
    BY <1>1, <1>2
  <2>2. HookCopies * q \in Nat /\ HookCopies * n \in Nat
    BY <1>1
  <2> DEFINE x == HookCopies * q  y == HookCopies * n
  <2> HIDE DEF x, y
  <2>3. x \in Nat /\ y \in Nat /\ x >= y /\ x <= m /\ m < y
    BY <1>1, <2>1, <2>2 DEF x, y
  <2>4. QED
    BY <2>3
<1>3. QED
  BY <1>1, <1>2 DEF q

\* A function on 1..n is a sequence of length n.
LEMMA Sequence ==
  ASSUME NEW S, NEW n \in Nat, NEW f \in [1..n -> S]
  PROVE  f \in Seq(S) /\ Len(f) = n
<1>1. f \in Seq(S)
  BY SeqDef
<1>2. QED
  BY <1>1, LenProperties

\* What is in a sequence that another has been added to.
LEMMA Joined ==
  ASSUME NEW S, NEW s \in Seq(S), NEW t \in Seq(S)
  PROVE  /\ s \o t \in Seq(S) /\ Len(s \o t) = Len(s) + Len(t)
         /\ \A i \in 1..Len(s) : (s \o t)[i] = s[i]
         /\ \A i \in 1..Len(s) + Len(t) : i \notin 1..Len(s) =>
              i - Len(s) \in 1..Len(t) /\ (s \o t)[i] = t[i - Len(s)]
<1> DEFINE m == Len(s)  n == Len(t)  u == s \o t
<1>1. m \in Nat /\ n \in Nat
  BY LenProperties
<1>2. /\ u \in Seq(S) /\ Len(u) = m + n
      /\ \A i \in 1..m + n : u[i] = IF i <= m THEN s[i] ELSE t[i - m]
  BY ConcatProperties
<1> HIDE DEF m, n, u
<1>3. \A i \in 1..m : u[i] = s[i]
  BY <1>1, <1>2
<1>4. ASSUME NEW i \in 1..m + n, i \notin 1..m PROVE i - m \in 1..n /\ u[i] = t[i - m]
  <2>1. i > m /\ i \in Int
    BY <1>1, <1>4
  <2>2. i - m \in 1..n
    BY <1>1, <2>1
  <2>3. u[i] = t[i - m]
    BY <1>1, <1>2, <2>1
  <2>4. QED
    BY <2>2, <2>3
<1>5. QED
  BY <1>2, <1>3, <1>4 DEF m, n, u

\* on_uart_rx: the output is in order, and each of its bytes comes from one claimed.
LEMMA HookMakes ==
  ASSUME NEW in \in Seq(1..MaxBytes), Increasing(in)
  PROVE  /\ HookOutput(in) \in Seq(Positions)
         /\ Len(HookOutput(in)) = Least(HookCopies * Len(in), ProcBufSize)
         /\ Increasing(HookOutput(in))
         /\ \A i \in 1..Len(HookOutput(in)) :
              \E k \in 1..Len(in) : Origin(HookOutput(in)[i]) = in[k]
<1> DEFINE len == Len(in)
           n == Least(HookCopies * len, ProcBufSize)
           q(i) == (i - 1) \div HookCopies
           r(i) == (i - 1) % HookCopies
           out == [i \in 1..n |-> HookCopies * (in[q(i) + 1] - 1) + r(i) + 1]
<1>1. len \in Nat /\ \A k \in 1..len : in[k] \in 1..MaxBytes
  BY LenProperties
<1>2. n \in Nat /\ n <= HookCopies * len /\ n <= ProcBufSize
  BY <1>1 DEF Least
<1>3. HookOutput(in) = out
  BY DEF HookOutput
<1>4. ASSUME NEW i \in 1..n
      PROVE  /\ q(i) \in 0..len - 1 /\ r(i) \in 0..HookCopies - 1
             /\ i - 1 = HookCopies * q(i) + r(i)
  <2>1. i - 1 \in Nat /\ i - 1 < HookCopies * len
    <3> DEFINE x == HookCopies * len
    <3>1. x \in Nat
      BY <1>1
    <3> HIDE DEF x, n
    <3>2. QED
      BY <1>2, <3>1 DEF x
  <2> HIDE DEF len, n
  <2>2. q(i) \in Nat /\ r(i) \in 0..HookCopies - 1 /\ i - 1 = HookCopies * q(i) + r(i)
    BY ONLY <2>1, Division
  <2>3. q(i) < len
    BY ONLY <1>1, <2>1, Quotient
  <2>4. QED
    BY <1>1, <2>2, <2>3
<1> HIDE DEF len, n, q, r
<1>5. ASSUME NEW i \in 1..n
      PROVE  /\ out[i] = HookCopies * (in[q(i) + 1] - 1) + r(i) + 1
             /\ out[i] \in Nat \ {0} /\ out[i] \in Positions
             /\ q(i) + 1 \in 1..len /\ Origin(out[i]) = in[q(i) + 1]
  <2>1. q(i) + 1 \in 1..len /\ in[q(i) + 1] \in 1..MaxBytes
    <3>1. q(i) \in 0..len - 1 /\ len \in Nat
      BY <1>1, <1>4
    <3>2. q(i) + 1 \in 1..len
      BY ONLY <3>1
    <3>3. QED
      BY <1>1, <3>2
  <2>2. out[i] = HookCopies * (in[q(i) + 1] - 1) + r(i) + 1
    OBVIOUS
  <2> HIDE DEF out
  <2> DEFINE b == in[q(i) + 1]
  <2>3. out[i] \in Nat \ {0} /\ Origin(out[i]) = b
    <3>1. b \in Nat \ {0} /\ r(i) \in 0..HookCopies - 1
      <4>1. b \in 1..MaxBytes
        BY <2>1
      <4>2. b \in Nat \ {0}
        BY ONLY <4>1
      <4>3. QED
        BY <1>4, <4>2
    <3>2. out[i] = HookCopies * (b - 1) + r(i) + 1
      BY <2>2
    <3> HIDE DEF b
    <3>3. QED
      BY <3>1, <3>2, Copy
  <2>4. out[i] <= MaxBytes * HookCopies
    BY <2>1, <2>3, OriginBound
  <2>5. QED
    BY <2>1, <2>2, <2>3, <2>4 DEF Positions
<1>6. out \in Seq(Positions) /\ Len(out) = n
  <2>1. out \in [1..n -> Positions]
    BY <1>5
  <2>2. QED
    BY <1>2, <2>1, Sequence
<1>7. Increasing(out)
  <2> SUFFICES ASSUME NEW i \in 1..n, NEW j \in 1..n, i < j PROVE out[i] < out[j]
    BY <1>6 DEF Increasing
  <2>1. CASE q(i) < q(j)
    <3>1. in[q(i) + 1] < in[q(j) + 1]
      <4>1. q(i) \in Nat /\ q(j) \in Nat /\ q(i) + 1 \in 1..len /\ q(j) + 1 \in 1..len
        BY <1>4, <1>5
      <4>2. q(i) + 1 < q(j) + 1
        BY <2>1, <4>1
      <4>3. QED
        BY <4>1, <4>2 DEF Increasing, len
    <3>2. QED
      BY <1>5, <3>1, OriginOrder
  <2>2. CASE q(i) = q(j)
    <3>1. r(i) < r(j)
      BY <1>2, <1>4, <2>2
    <3> DEFINE x == HookCopies * (in[q(i) + 1] - 1)
    <3>2. out[i] = x + r(i) + 1 /\ out[j] = x + r(j) + 1
      BY <1>5, <2>2
    <3>3. x \in Nat
      <4>1. in[q(i) + 1] - 1 \in Nat
        <5>1. in[q(i) + 1] \in 1..MaxBytes
          BY <1>1, <1>5
        <5>2. QED
          BY ONLY <5>1
      <4> DEFINE y == in[q(i) + 1] - 1
      <4> HIDE DEF y
      <4>2. HookCopies * y \in Nat
        BY <4>1 DEF y
      <4>3. QED
        BY <4>2 DEF y
    <3> HIDE DEF x, out
    <3>4. r(i) \in Int /\ r(j) \in Int
      BY <1>4
    <3>5. QED
      BY ONLY <3>1, <3>2, <3>3, <3>4
  <2>3. q(i) <= q(j)
    BY <1>2 DEF q
  <2>4. QED
    BY <1>4, <2>1, <2>2, <2>3
<1>8. QED
  BY <1>3, <1>5, <1>6, <1>7 DEF len, n

--------------------------------------------------------------------------------
\* Every step preserves the invariant.

USE DEF link, locals, serial

\* The UART interrupt adds bytes that are younger than all others.
LEMMA RxStep == ASSUME IInv, NEW len \in 1..RingCap, RxRdy(len) PROVE IInv'
<1> DEFINE q == Queued(len)
           more == [i \in 1..q |-> received + i]
           marks == [i \in 1..len |-> ended]
<1>1. /\ ring \in Seq(1..MaxBytes) /\ Len(ring) \in 0..RingCap
      /\ arrival \in Seq(0..MaxLinks) /\ Len(arrival) = received
      /\ received \in 0..MaxBytes /\ drops \in 0..MaxBytes /\ ended \in 0..MaxLinks
      /\ drops + Len(ring) <= received
  BY LenProperties DEF IInv, TypeOK, RingKeeps
<1>2. q \in 0..len /\ Len(ring) + q <= RingCap
  BY <1>1 DEF Queued, Least
<1>3. /\ received + len <= MaxBytes /\ received' = received + len
      /\ arrival' = arrival \o marks /\ ring' = ring \o more
      /\ drops' = drops + (len - q)
      /\ rx_data_ready' = (rx_data_ready \/ q > 0)
      /\ UNCHANGED <<link, bt, writer, locals, got, looked, discarded, shortages>>
  BY <1>2 DEF RxRdy, RxOverflow
<1> HIDE DEF q
<1>4. more \in Seq(1..MaxBytes) /\ Len(more) = q
  <2>1. more \in [1..q -> 1..MaxBytes]
    BY <1>1, <1>2, <1>3
  <2>2. QED
    BY <1>2, <2>1, Sequence
<1>5. marks \in Seq(0..MaxLinks) /\ Len(marks) = len
  <2>1. marks \in [1..len -> 0..MaxLinks]
    BY <1>1
  <2>2. QED
    BY <2>1, Sequence
<1>6. /\ ring' \in Seq(1..MaxBytes) /\ Len(ring') = Len(ring) + q
      /\ \A i \in 1..Len(ring) : ring'[i] = ring[i]
      /\ \A i \in 1..Len(ring) + q : i \notin 1..Len(ring) =>
           ring'[i] = received + (i - Len(ring)) /\ i - Len(ring) \in 1..q
  <2>1. \A i \in 1..q : more[i] = received + i
    BY DEF more
  <2> HIDE DEF more
  <2>2. /\ ring \o more \in Seq(1..MaxBytes) /\ Len(ring \o more) = Len(ring) + q
        /\ \A i \in 1..Len(ring) : (ring \o more)[i] = ring[i]
        /\ \A i \in 1..Len(ring) + q : i \notin 1..Len(ring) =>
             i - Len(ring) \in 1..q /\ (ring \o more)[i] = more[i - Len(ring)]
    <3>1. ring \in Seq(1..MaxBytes) /\ more \in Seq(1..MaxBytes) /\ Len(more) = q
      BY <1>1, <1>4
    <3>2. /\ ring \o more \in Seq(1..MaxBytes) /\ Len(ring \o more) = Len(ring) + Len(more)
          /\ \A i \in 1..Len(ring) : (ring \o more)[i] = ring[i]
          /\ \A i \in 1..Len(ring) + Len(more) : i \notin 1..Len(ring) =>
               i - Len(ring) \in 1..Len(more) /\ (ring \o more)[i] = more[i - Len(ring)]
      BY ONLY <3>1, Joined
    <3>3. QED
      BY ONLY <3>1, <3>2
  <2>3. QED
    BY ONLY <1>3, <2>1, <2>2
<1>7. /\ arrival' \in Seq(0..MaxLinks) /\ Len(arrival') = received'
      /\ \A i \in 1..received : arrival'[i] = arrival[i]
      /\ \A i \in 1..received' : i \notin 1..received => arrival'[i] = ended
  <2>1. \A i \in 1..len : marks[i] = ended
    BY DEF marks
  <2> HIDE DEF marks
  <2>2. /\ arrival \o marks \in Seq(0..MaxLinks) /\ Len(arrival \o marks) = received + len
        /\ \A i \in 1..received : (arrival \o marks)[i] = arrival[i]
        /\ \A i \in 1..received + len : i \notin 1..received =>
             i - received \in 1..len /\ (arrival \o marks)[i] = marks[i - received]
    <3>1. /\ arrival \in Seq(0..MaxLinks) /\ marks \in Seq(0..MaxLinks)
          /\ Len(arrival) = received /\ Len(marks) = len
      BY <1>1, <1>5
    <3> DEFINE Links == 0..MaxLinks
    <3> HIDE DEF Links
    <3>2. arrival \in Seq(Links) /\ marks \in Seq(Links)
      BY ONLY <3>1 DEF Links
    <3>3. /\ arrival \o marks \in Seq(Links)
          /\ Len(arrival \o marks) = Len(arrival) + Len(marks)
          /\ \A i \in 1..Len(arrival) : (arrival \o marks)[i] = arrival[i]
          /\ \A i \in 1..Len(arrival) + Len(marks) : i \notin 1..Len(arrival) =>
               /\ i - Len(arrival) \in 1..Len(marks)
               /\ (arrival \o marks)[i] = marks[i - Len(arrival)]
      BY ONLY <3>2, Joined
    <3>4. QED
      BY ONLY <3>1, <3>3 DEF Links
  <2>3. QED
    BY ONLY <1>3, <2>1, <2>2
<1> HIDE DEF more, marks
<1>8. rx_data_ready' \in BOOLEAN
  BY <1>3, Zenon
<1>9. \A i \in 1..Len(ring') : \/ i \in 1..Len(ring) /\ ring'[i] = ring[i]
                               \/ /\ i \notin 1..Len(ring) /\ ring'[i] \in received + 1..received'
                                  /\ ring'[i] = received + (i - Len(ring))
  <2>1. ASSUME NEW i \in 1..Len(ring) + q, i \notin 1..Len(ring)
        PROVE  received + (i - Len(ring)) \in received + 1..received'
    <3>1. i - Len(ring) \in 1..q
      BY <1>6, <2>1
    <3>2. q \in 0..len /\ received \in Nat /\ received' = received + len
      BY <1>1, <1>2, <1>3
    <3>3. QED
      BY <3>1, <3>2
  <2>2. QED
    BY <1>6, <2>1
<1>10. received \in Nat /\ received' \in Nat /\ received <= received' /\ Len(ring) \in Nat
  BY <1>1, <1>3
<1>11. \A i \in 1..Len(ring) : ring[i] \in 1..received
  BY DEF IInv, RingKeeps
<1>12. TypeOK'
  <2>1. drops' \in 0..MaxBytes /\ received' \in 0..MaxBytes /\ Len(ring') <= RingCap
    BY <1>1, <1>2, <1>3, <1>6
  <2>2. QED
    BY <1>3, <1>6, <1>7, <1>8, <2>1 DEF IInv, TypeOK
<1>13. Hands' /\ OneLink'
  <2>1. claimed \in 1..Len(ring) => claimed \in 1..Len(ring')
    BY <1>1, <1>2, <1>6
  <2>2. QED
    BY <1>3, <2>1 DEF IInv, Hands, OneLink
<1>14. RingKeeps'
  <2>1. drops' + Len(ring') <= received'
    BY <1>1, <1>2, <1>3, <1>6
  <2>3. \A i \in 1..Len(ring') : ring'[i] \in 1..received'
    <3> SUFFICES ASSUME NEW i \in 1..Len(ring') PROVE ring'[i] \in 1..received'
      OBVIOUS
    <3>1. CASE i \in 1..Len(ring) /\ ring'[i] = ring[i]
      BY ONLY <1>10, <1>11, <3>1
    <3>2. CASE ring'[i] \in received + 1..received'
      BY ONLY <1>10, <3>2
    <3>3. QED
      BY <1>9, <3>1, <3>2
  <2>4. Increasing(ring')
    <3> SUFFICES ASSUME NEW i \in 1..Len(ring'), NEW j \in 1..Len(ring'), i < j
                 PROVE  ring'[i] < ring'[j]
      BY DEF Increasing
    <3>1. CASE j \in 1..Len(ring)
      <4>1. i \in 1..Len(ring)
        BY ONLY <1>10, <1>6, <3>1, i < j, i \in 1..Len(ring')
      <4>2. Increasing(ring)
        BY DEF IInv, RingKeeps
      <4>3. QED
        BY ONLY <1>6, <3>1, <4>1, <4>2, i < j DEF Increasing
    <3>2. CASE j \notin 1..Len(ring) /\ i \in 1..Len(ring)
      BY ONLY <1>9, <1>10, <1>11, <3>2, j \in 1..Len(ring')
    <3>3. CASE j \notin 1..Len(ring) /\ i \notin 1..Len(ring)
      BY <1>1, <1>9, <3>3
    <3>4. QED
      BY <3>1, <3>2, <3>3
  <2>5. QED
    BY <1>7, <2>1, <2>3, <2>4 DEF RingKeeps
<1>15. InOrder' /\ InOrderOnce'
  <2>1. ASSUME NEW o \in 1..received, NEW j \in 1..Len(ring'),
               \A k \in 1..Len(ring) : o < ring[k]
        PROVE  o \in 1..received' /\ o < ring'[j]
    BY ONLY <1>9, <1>10, <1>11, <2>1
  <2>2. \A o \in 1..received : o \in 1..received'
    BY <1>1, <1>3
  <2>3. QED
    BY <1>3, <2>1, <2>2 DEF IInv, InOrder, InOrderOnce, Increasing, Origin
<1>16. Fresh'
  <2>1. ASSUME looked, writer # "drain", NEW i \in 1..Len(ring') PROVE arrival'[ring'[i]] = ended
    <3>1. CASE i \in 1..Len(ring) /\ ring'[i] = ring[i]
      BY <1>7, <2>1, <3>1 DEF IInv, RingKeeps, Fresh
    <3>2. CASE ring'[i] \in received + 1..received'
      <4>1. ring'[i] \in 1..received' /\ ring'[i] \notin 1..received
        BY ONLY <1>10, <3>2
      <4>2. QED
        BY <1>7, <4>1
    <3>3. QED
      BY <1>9, <3>1, <3>2
  <2>2. \A i \in 1..Len(proc_buf) : arrival'[Origin(proc_buf[i])] = arrival[Origin(proc_buf[i])]
    BY <1>7 DEF IInv, InOrder
  <2>3. QED
    BY <1>3, <2>1, <2>2 DEF IInv, Fresh, Origin
<1>17. CleanStream'
  BY <1>1, <1>3, <1>7 DEF IInv, InOrder, CleanStream, Origin
<1>18. NoLostWakeup'
  <2>1. CASE q > 0
    BY <1>3, <2>1 DEF NoLostWakeup
  <2>2. CASE ~(q > 0)
    <3>1. ring' = ring
      BY <1>1, <1>2, <1>3, <1>4, <2>2, EmptySeq, ConcatProperties
    <3>2. QED
      BY <1>3, <3>1 DEF IInv, NoLostWakeup
  <2>3. QED
    BY <2>1, <2>2
<1>19. BytesAccounted'
  <2>1. received' - drops' - Len(ring') = received - drops - Len(ring)
    BY <1>1, <1>2, <1>3, <1>6
  <2>2. QED
    BY <1>3, <2>1 DEF IInv, BytesAccounted
<1>20. QED
  BY <1>12, <1>13, <1>14, <1>17, <1>18, <1>19, <1>15, <1>16 DEF IInv

\* A step that moves no byte.
LEMMA NothingMoves ==
  ASSUME IInv, UNCHANGED <<ring, serial, proc_buf, sent, got>>
  PROVE  RingKeeps' /\ InOrder' /\ InOrderOnce' /\ CleanStream'
BY DEF IInv, RingKeeps, InOrder, InOrderOnce, CleanStream, Increasing, Origin

\* Links and callbacks.
LEMMA LinkStep ==
  ASSUME IInv, Callbacks \/ OnConnected \/ OnSecurityChanged \/ LinkDrops
  PROVE  IInv'
<1>1. /\ UNCHANGED <<ring, serial, proc_buf, sent, got, writer, conn, max_send, claimed,
                     discarded, shortages>>
      /\ rx_data_ready => rx_data_ready'
  BY DEF Callbacks, OnDisconnected, WakesWriter, OnConnected, OnSecurityChanged, LinkDrops
<1>2. RingKeeps' /\ InOrder' /\ InOrderOnce' /\ CleanStream'
  BY <1>1, NothingMoves
<1>3. BytesAccounted' /\ NoLostWakeup' /\ Hands'
  BY <1>1 DEF IInv, BytesAccounted, NoLostWakeup, Hands
<1>4. {rx_data_ready', link_secure', looked'} \subseteq BOOLEAN
  <2>1. {rx_data_ready, link_secure, looked} \subseteq BOOLEAN
    BY DEF IInv, TypeOK
  <2>2. QED
    BY <2>1, Zenon
       DEF Callbacks, OnDisconnected, WakesWriter, OnConnected, OnSecurityChanged, LinkDrops
<1>5. /\ {current_conn', up', links', ended'} \subseteq 0..MaxLinks
      /\ bt' \in {"idle", "wake"} /\ OneLink' /\ Fresh'
  <2> USE <1>1 DEF IInv, TypeOK, OneLink, Fresh, Origin
  <2>1. CASE OnDisconnected
    BY <2>1 DEF OnDisconnected, Hands
  <2>2. CASE WakesWriter
    BY <2>2 DEF WakesWriter
  <2>3. CASE OnConnected
    BY <2>3 DEF OnConnected
  <2>4. CASE OnSecurityChanged
    BY <2>4 DEF OnSecurityChanged
  <2>5. CASE LinkDrops
    BY <2>5 DEF LinkDrops
  <2>6. QED
    BY <2>1, <2>2, <2>3, <2>4, <2>5 DEF Callbacks
<1>6. TypeOK'
  BY <1>1, <1>4, <1>5 DEF IInv, TypeOK
<1>7. QED
  BY <1>2, <1>3, <1>5, <1>6 DEF IInv

\* The writer wakes, looks at the ring, takes the connection, or discards what nobody
\* may have.
LEMMA LookStep ==
  ASSUME IInv,
         \/ WriterWakes \/ WriterFindsNothing \/ WriterTakesConn \/ WriterRefuses
         \/ SendProcessedEnds
  PROVE  IInv'
<1>1. /\ UNCHANGED <<ring, link, bt, serial, max_send, claimed, proc_buf, sent, got,
                     discarded, shortages>>
      /\ looked => looked'
  BY DEF WriterWakes, WriterFindsNothing, WriterTakesConn, WriterRefuses, SendProcessedEnds
<1>2. RingKeeps' /\ InOrder' /\ InOrderOnce' /\ CleanStream'
  BY <1>1, NothingMoves
<1>3. rx_data_ready' \in BOOLEAN /\ looked' \in BOOLEAN
  <2>1. rx_data_ready \in BOOLEAN /\ looked \in BOOLEAN
    BY DEF IInv, TypeOK
  <2>2. QED
    BY <2>1, Zenon
       DEF WriterWakes, WriterFindsNothing, WriterTakesConn, WriterRefuses, SendProcessedEnds
<1>4. CASE WriterWakes
  BY <1>1, <1>2, <1>3, <1>4
     DEF WriterWakes, IInv, TypeOK, Hands, OneLink, Fresh, NoLostWakeup, BytesAccounted, Origin
<1>5. CASE WriterFindsNothing
  <2>1. Fresh'
    BY <1>1, <1>5, EmptySeq DEF WriterFindsNothing, IInv, Fresh, Hands
  <2>2. QED
    BY <1>1, <1>2, <1>3, <1>5, <2>1
       DEF WriterFindsNothing, IInv, TypeOK, Hands, OneLink, NoLostWakeup, BytesAccounted
<1>6. CASE WriterTakesConn
  <2>1. TypeOK'
    BY <1>1, <1>3, <1>6 DEF WriterTakesConn, IInv, TypeOK
  <2>2. Fresh'
    BY <1>1, <1>6, EmptySeq DEF WriterTakesConn, IInv, Fresh, Hands
  <2>3. QED
    BY <1>1, <1>2, <1>6, <2>1, <2>2
       DEF WriterTakesConn, MayForward, IInv, Hands, OneLink, NoLostWakeup, BytesAccounted
<1>7. CASE WriterRefuses
  BY <1>1, <1>2, <1>3, <1>7
     DEF WriterRefuses, Refused, IInv, TypeOK, Hands, OneLink, Fresh, NoLostWakeup,
         BytesAccounted, Origin
<1>8. CASE SendProcessedEnds
  <2>1. sent = Len(proc_buf)
    <3>1. max_send > 0 /\ max_send \in Nat /\ Len(proc_buf) \in Nat /\ sent \in 0..Len(proc_buf)
      BY <1>8, LenProperties DEF SendProcessedEnds, IInv, TypeOK, Hands
    <3>2. NextSlice(Len(proc_buf), sent, max_send) = 0
      BY <1>8 DEF SendProcessedEnds
    <3>3. QED
      BY <3>1, <3>2 DEF NextSlice
  <2>2. BytesAccounted'
    <3>1. Len(proc_buf) - sent = 0
      BY <2>1 DEF IInv, TypeOK
    <3>2. QED
      BY <1>1, <1>8, <3>1 DEF SendProcessedEnds, IInv, TypeOK, BytesAccounted
  <2>3. QED
    BY <1>1, <1>2, <1>3, <1>8, <2>2
       DEF SendProcessedEnds, IInv, TypeOK, Hands, OneLink, Fresh, NoLostWakeup, Origin
<1>9. QED
  BY <1>4, <1>5, <1>6, <1>7, <1>8

\* uart_bridge_rx_drain.
LEMMA DrainStep == ASSUME IInv, WriterDrains PROVE IInv'
<1>1. /\ UNCHANGED <<rx_data_ready, link, bt, locals, got, serial, looked, shortages>>
      /\ writer = "drain" /\ ring' = <<>> /\ writer' \in {"take", "drain"}
      /\ writer' = "take" => ring = <<>>
      /\ discarded' = discarded + HookCopies * Len(ring)
  BY DEF WriterDrains
<1>2. Len(ring') = 0 /\ ring' \in Seq(1..MaxBytes)
  BY <1>1, EmptySeq
<1>3. /\ Len(ring) \in Nat /\ received \in 0..MaxBytes /\ drops \in 0..MaxBytes
      /\ Len(got) \in Nat /\ discarded \in Nat /\ drops + Len(ring) <= received
  BY LenProperties DEF IInv, TypeOK, RingKeeps
<1>4. HookCopies * (received - drops) = Len(got) + discarded'
  <2>1. HookCopies * (received - drops - Len(ring)) = Len(got) + discarded
    BY <1>1, <1>3 DEF IInv, BytesAccounted
  <2>2. received - drops = (received - drops - Len(ring)) + Len(ring)
    BY <1>3
  <2>3. HookCopies * (received - drops)
          = HookCopies * (received - drops - Len(ring)) + HookCopies * Len(ring)
    BY <1>3, <2>2, Distributes
  <2>4. QED
    BY <1>1, <1>3, <2>1, <2>3
<1>5. BytesAccounted'
  BY <1>1, <1>2, <1>3, <1>4 DEF BytesAccounted
<1>6. TypeOK'
  <2>1. discarded' \in Nat
    BY <1>1, <1>3
  <2>2. discarded' \in 0..(MaxBytes * HookCopies)
    <3> DEFINE n == received - drops
    <3>1. n \in 0..MaxBytes /\ HookCopies * n = Len(got) + discarded'
      BY <1>3, <1>4
    <3> HIDE DEF n
    <3>2. QED
      BY ONLY <1>3, <2>1, <3>1, Share
  <2>3. QED
    BY <1>1, <1>2, <2>2 DEF IInv, TypeOK
<1>7. Hands' /\ OneLink' /\ NoLostWakeup'
  BY <1>1 DEF IInv, Hands, OneLink, NoLostWakeup
<1>8. RingKeeps' /\ InOrder' /\ InOrderOnce' /\ Fresh' /\ CleanStream'
  BY <1>1, <1>2, <1>3
     DEF IInv, RingKeeps, InOrder, InOrderOnce, Fresh, CleanStream, Increasing, Origin
<1>9. QED
  BY <1>5, <1>6, <1>7, <1>8 DEF IInv

\* A chunk is claimed, for the MTU of the link.
LEMMA ClaimStep == ASSUME IInv, NEW mtu \in Mtus, WriterClaims(mtu) PROVE IInv'
<1>1. /\ UNCHANGED <<ring, rx_data_ready, link, bt, conn, proc_buf, sent, got, serial, looked,
                     discarded, shortages>>
      /\ writer = "claim" /\ writer' = "hook"
      /\ max_send' = ChunkLimit(mtu)
      /\ claimed' \in 1..Least(ChunkLimit(mtu), Len(ring))
  BY DEF WriterClaims
<1>2. max_send' \in Nat /\ max_send' > 0
  BY <1>1 DEF ChunkLimit
<1>3. claimed' \in 1..Len(ring) /\ claimed' \in 0..RingCap
  <2>1. Len(ring) \in 0..RingCap
    BY LenProperties DEF IInv, TypeOK
  <2>2. QED
    BY <1>1, <1>2, <2>1 DEF Least
<1>4. RingKeeps' /\ InOrder' /\ InOrderOnce' /\ CleanStream'
  BY <1>1, NothingMoves
<1>5. QED
  BY <1>1, <1>2, <1>3, <1>4
     DEF IInv, TypeOK, Hands, OneLink, Fresh, NoLostWakeup, BytesAccounted, Origin

\* The claimed bytes leave the ring, and what the hook makes of them is to be sent.
LEMMA HookStep == ASSUME IInv, WriterHooks PROVE IInv'
<1> DEFINE in == SubSeq(ring, 1, claimed)
           out == HookOutput(in)
<1>1. /\ UNCHANGED <<rx_data_ready, link, bt, conn, max_send, claimed, got, serial, looked,
                     shortages>>
      /\ writer = "hook" /\ writer' = "send" /\ proc_buf' = out /\ sent' = 0
      /\ ring' = SubSeq(ring, claimed + 1, Len(ring))
      /\ discarded' = discarded + HookCopies * claimed - Len(out)
  BY DEF WriterHooks, Finished
<1>2. /\ ring \in Seq(1..MaxBytes) /\ Len(ring) \in 0..RingCap /\ claimed \in 1..Len(ring)
      /\ received \in 0..MaxBytes /\ drops \in 0..MaxBytes
      /\ Len(got) \in Nat /\ discarded \in Nat /\ drops + Len(ring) <= received
      /\ \A i \in 1..Len(ring) : ring[i] \in 1..MaxBytes /\ ring[i] \in 1..received
  <2>1. /\ ring \in Seq(1..MaxBytes) /\ got \in Seq(Positions \X (1..MaxLinks))
        /\ Len(ring) <= RingCap /\ claimed \in 1..Len(ring)
        /\ received \in 0..MaxBytes /\ drops \in 0..MaxBytes
        /\ discarded \in 0..(MaxBytes * HookCopies) /\ drops + Len(ring) <= received
        /\ \A i \in 1..Len(ring) : ring[i] \in 1..received
    BY <1>1 DEF IInv, TypeOK, Hands, RingKeeps
  <2>2. Len(ring) \in Nat /\ Len(got) \in Nat /\ \A i \in 1..Len(ring) : ring[i] \in 1..MaxBytes
    BY ONLY <2>1, LenProperties, ElementOfSeq
  <2>3. QED
    BY <2>1, <2>2
<1>3. /\ in \in Seq(1..MaxBytes) /\ Len(in) = claimed
      /\ \A k \in 1..claimed : in[k] = ring[k] /\ k \in 1..Len(ring)
  <2>1. \A k \in 1..claimed : ring[k] \in 1..MaxBytes /\ k \in 1..Len(ring)
    BY <1>2
  <2>2. 1 \in Int /\ claimed \in Int /\ 1 <= claimed
    BY <1>2
  <2>3. in \in Seq(1..MaxBytes) /\ Len(in) = claimed - 1 + 1
          /\ \A k \in 1..claimed - 1 + 1 : in[k] = ring[1 + k - 1]
    BY ONLY <2>1, <2>2, SubSeqProperties
  <2>4. QED
    BY <2>1, <2>2, <2>3
<1>4. /\ ring' \in Seq(1..MaxBytes) /\ Len(ring') = Len(ring) - claimed
      /\ \A j \in 1..Len(ring') : ring'[j] = ring[claimed + j] /\ claimed + j \in 1..Len(ring)
  <2> DEFINE m == claimed + 1  n == Len(ring)
  <2>1. \A k \in m..n : ring[k] \in 1..MaxBytes
    BY <1>2
  <2>2. m \in Int /\ n \in Int
    BY <1>2
  <2>3. ring' = SubSeq(ring, m, n)
    BY <1>1
  <2> HIDE DEF m, n
  <2>4. /\ ring' \in Seq(1..MaxBytes) /\ Len(ring') = IF m <= n THEN n - m + 1 ELSE 0
        /\ \A j \in 1..n - m + 1 : ring'[j] = ring[m + j - 1]
    BY ONLY <2>1, <2>2, <2>3, SubSeqProperties
  <2>5. n - m + 1 = Len(ring) - claimed /\ Len(ring') = Len(ring) - claimed
    BY <1>2, <2>4 DEF m, n
  <2>6. ASSUME NEW j \in 1..Len(ring')
        PROVE  ring'[j] = ring[claimed + j] /\ claimed + j \in 1..Len(ring)
    <3>1. m + j - 1 = claimed + j /\ claimed + j \in 1..Len(ring)
      BY <1>2, <2>5 DEF m, n
    <3>2. QED
      BY <2>4, <2>5, <3>1
  <2>7. QED
    BY <2>4, <2>5, <2>6
<1>5. Increasing(ring) /\ Increasing(in)
  BY <1>3 DEF IInv, RingKeeps, Increasing
<1>6. /\ out \in Seq(Positions) /\ Len(out) = Least(HookCopies * claimed, ProcBufSize)
      /\ Increasing(out)
      /\ \A i \in 1..Len(out) : \E k \in 1..claimed : Origin(out[i]) = ring[k]
  <2> HIDE DEF in
  <2>1. QED
    BY <1>3, <1>5, HookMakes
<1> HIDE DEF in, out
<1>7. /\ HookCopies * claimed \in Nat
      /\ Len(out) \in 0..HookCopies * claimed /\ Len(out) <= ProcBufSize
  <2>1. HookCopies * claimed \in Nat
    BY <1>2
  <2>2. QED
    BY <1>6, <2>1 DEF Least
<1>8. HookCopies * (received - drops - Len(ring')) = Len(got) + discarded' + Len(out)
  <2> DEFINE x == received - drops - Len(ring)  c == HookCopies * claimed
  <2>1. x \in Int /\ claimed \in Int /\ received - drops - Len(ring') = x + claimed
    BY <1>2, <1>4
  <2>2. HookCopies * x = Len(got) + discarded
    BY <1>1, <1>2 DEF IInv, BytesAccounted
  <2> HIDE DEF x
  <2>3. HookCopies * (x + claimed) = HookCopies * x + c
    BY <2>1, Distributes
  <2>4. c \in Nat /\ Len(out) \in Nat /\ discarded' = discarded + c - Len(out)
    BY <1>1, <1>7
  <2> HIDE DEF c
  <2>5. QED
    BY ONLY <1>2, <2>1, <2>2, <2>3, <2>4
<1>9. discarded' \in 0..(MaxBytes * HookCopies)
  <2> DEFINE n == received - drops - Len(ring')  a == Len(got) + Len(out)  c == HookCopies * claimed
  <2>1. n \in 0..MaxBytes
    BY <1>2, <1>4
  <2>2. c \in Nat /\ Len(out) \in 0..c /\ discarded' = discarded + c - Len(out)
    BY <1>1, <1>7
  <2> HIDE DEF c
  <2>3. a \in Nat /\ discarded' \in Nat
    BY ONLY <1>2, <2>2
  <2>4. HookCopies * n = a + discarded'
    <3> DEFINE x == HookCopies * n
    <3>1. x = Len(got) + discarded' + Len(out)
      BY <1>8
    <3> HIDE DEF x
    <3>2. x = a + discarded'
      BY ONLY <1>2, <2>2, <2>3, <3>1
    <3>3. QED
      BY <3>2 DEF x
  <2> HIDE DEF n, a
  <2>5. QED
    BY ONLY <2>1, <2>3, <2>4, Share
<1>10. TypeOK'
  <2>1. sent' \in 0..Len(proc_buf') /\ Len(proc_buf') <= ProcBufSize /\ Len(ring') <= RingCap
    <3>1. Len(out) \in Nat /\ Len(out) <= ProcBufSize
      BY ONLY <1>7
    <3>2. QED
      BY ONLY <1>1, <1>2, <1>4, <3>1, ForwardAssumption
  <2>2. QED
    BY <1>1, <1>4, <1>6, <1>9, <2>1 DEF IInv, TypeOK
<1>11. Hands' /\ OneLink' /\ NoLostWakeup'
  BY <1>1 DEF IInv, Hands, OneLink, NoLostWakeup
<1>12. BytesAccounted'
  <2>1. Len(proc_buf') - sent' = Len(out)
    BY ONLY <1>1, <1>7
  <2>2. QED
    BY <1>1, <1>8, <2>1 DEF BytesAccounted
<1>13. RingKeeps'
  <2>1. Increasing(ring')
    <3> SUFFICES ASSUME NEW i \in 1..Len(ring'), NEW j \in 1..Len(ring'), i < j
                 PROVE  ring'[i] < ring'[j]
      BY DEF Increasing
    <3>1. claimed + i < claimed + j
      BY ONLY <1>2, <1>4, i < j, i \in 1..Len(ring'), j \in 1..Len(ring')
    <3>2. QED
      BY ONLY <1>4, <1>5, <3>1, i \in 1..Len(ring'), j \in 1..Len(ring') DEF Increasing
  <2>2. drops' + Len(ring') <= received' /\ received' = received
    BY ONLY <1>1, <1>2, <1>4 DEF serial
  <2>3. \A i \in 1..Len(ring') : ring'[i] \in 1..received'
    BY ONLY <1>2, <1>4, <2>2
  <2>4. QED
    BY <1>1, <2>1, <2>2, <2>3 DEF IInv, RingKeeps
<1>14. \A k \in 1..claimed, j \in 1..Len(ring') : ring[k] < ring'[j]
  <2> SUFFICES ASSUME NEW k \in 1..claimed, NEW j \in 1..Len(ring') PROVE ring[k] < ring'[j]
    OBVIOUS
  <2>1. k < claimed + j /\ k \in 1..Len(ring)
    BY ONLY <1>2, <1>4, k \in 1..claimed, j \in 1..Len(ring')
  <2>2. QED
    BY ONLY <1>4, <1>5, <2>1, j \in 1..Len(ring') DEF Increasing
<1>15. \A i \in 1..Len(out) :
        /\ Origin(out[i]) \in 1..received
        /\ \A j \in 1..Len(ring') : Origin(out[i]) < ring'[j]
  BY <1>2, <1>3, <1>6, <1>14
<1>16. ASSUME NEW i \in 1..Len(got)
      PROVE  /\ \A j \in 1..Len(ring') : Origin(got[i][1]) < ring'[j]
             /\ \A j \in 1..Len(out) : got[i][1] < out[j]
  <2>1. \A k \in 1..Len(ring) : Origin(got[i][1]) < ring[k]
    BY DEF IInv, InOrder
  <2>2. ASSUME NEW j \in 1..Len(out) PROVE got[i][1] < out[j]
    <3>1. Origin(got[i][1]) < Origin(out[j])
      BY <1>3, <1>6, <2>1
    <3>2. got[i] \in Positions \X (1..MaxLinks) /\ out[j] \in Positions
      BY <1>6, ElementOfSeq DEF IInv, TypeOK
    <3>3. got[i][1] \in Nat \ {0} /\ out[j] \in Nat \ {0}
      <4>1. MaxBytes * HookCopies \in Nat
        OBVIOUS
      <4>2. got[i][1] \in Positions
        BY ONLY <3>2
      <4>3. QED
        BY ONLY <3>2, <4>1, <4>2 DEF Positions
    <3>4. QED
      BY <3>1, <3>3, OriginOrder
  <2>3. QED
    BY <1>4, <2>1, <2>2
<1>17. InOrder' /\ InOrderOnce'
  <2>1. /\ UNCHANGED <<got, received>> /\ proc_buf' = out /\ sent' = 0
        /\ \A i \in 1..Len(got) : Origin(got[i][1]) \in 1..received
        /\ \A j : j \in 0 + 1..Len(out) <=> j \in 1..Len(out)
    BY <1>1 DEF IInv, InOrder
  <2>2. QED
    BY <1>6, <1>15, <1>16, <2>1 DEF IInv, InOrder, InOrderOnce, Increasing, Origin
<1>18. Fresh'
  <2>1. looked => \A i \in 1..Len(ring) : arrival[ring[i]] = ended
    BY <1>1 DEF IInv, Fresh
  <2>2. conn # 0 /\ current_conn = conn => looked
    BY DEF IInv, OneLink
  <2>3. conn # 0 /\ current_conn = conn => \A i \in 1..Len(out) : arrival[Origin(out[i])] = ended
    <3> SUFFICES ASSUME conn # 0, current_conn = conn, NEW i \in 1..Len(out)
                 PROVE  arrival[Origin(out[i])] = ended
      OBVIOUS
    <3>1. PICK k \in 1..claimed : Origin(out[i]) = ring[k]
      BY <1>6
    <3>2. arrival[ring[k]] = ended
      BY <1>3, <2>1, <2>2
    <3>3. QED
      BY ONLY <3>1, <3>2
  <2>4. looked => \A i \in 1..Len(ring') : arrival[ring'[i]] = ended
    BY ONLY <1>4, <2>1
  <2>5. UNCHANGED <<conn, looked, current_conn, arrival, ended>> /\ proc_buf' = out
    BY <1>1
  <2>6. QED
    BY ONLY <2>3, <2>4, <2>5 DEF Fresh, Origin
<1>19. CleanStream'
  BY <1>1 DEF IInv, CleanStream
<1>20. QED
  BY <1>10, <1>11, <1>12, <1>13, <1>17, <1>18, <1>19 DEF IInv

\* bt_nus_send of a slice: it is taken, to be tried again, or the chunk is given up.
LEMMA SendStep == ASSUME IInv, NEW err \in SendErrors, SendProcessed(err) PROVE IInv'
<1> DEFINE slice == NextSlice(Len(proc_buf), sent, max_send)
           part == [i \in 1..slice |-> <<proc_buf[sent + i], conn>>]
<1>1. /\ UNCHANGED <<ring, rx_data_ready, link, bt, conn, max_send, claimed, proc_buf, serial,
                     looked>>
      /\ writer = "send" /\ slice > 0
  BY DEF SendProcessed
<1>2. /\ proc_buf \in Seq(Positions) /\ Len(proc_buf) \in Nat /\ sent \in 0..Len(proc_buf)
      /\ max_send \in Nat /\ discarded \in Nat /\ shortages \in 0..MaxShortages
      /\ got \in Seq(Positions \X (1..MaxLinks)) /\ Len(got) \in Nat
      /\ conn \in 1..MaxLinks /\ Len(ring) \in Nat /\ received \in 0..MaxBytes
      /\ drops \in Nat /\ drops + Len(ring) <= received
  <2>1. /\ proc_buf \in Seq(Positions) /\ sent \in 0..Len(proc_buf)
        /\ max_send \in Nat /\ discarded \in 0..(MaxBytes * HookCopies)
        /\ shortages \in 0..MaxShortages
        /\ got \in Seq(Positions \X (1..MaxLinks)) /\ ring \in Seq(1..MaxBytes)
        /\ conn \in 0..MaxLinks /\ conn # 0
        /\ received \in 0..MaxBytes /\ drops \in 0..MaxBytes /\ drops + Len(ring) <= received
    BY <1>1 DEF IInv, TypeOK, Hands, RingKeeps
  <2>2. Len(proc_buf) \in Nat /\ Len(got) \in Nat /\ Len(ring) \in Nat
    BY ONLY <2>1, LenProperties
  <2>3. conn \in 1..MaxLinks /\ discarded \in Nat /\ drops \in Nat
    BY ONLY <2>1
  <2>4. QED
    BY ONLY <2>1, <2>2, <2>3
<1>3. slice \in 1..Len(proc_buf) - sent
  BY <1>1, <1>2 DEF NextSlice
<1>4. HookCopies * (received - drops - Len(ring)) = Len(got) + discarded + (Len(proc_buf) - sent)
  BY <1>1 DEF IInv, BytesAccounted
<1> HIDE DEF slice
<1>5. CASE SendResult(err) = "consumed"
  <2>1. /\ got' = got \o part /\ sent' = sent + slice /\ UNCHANGED <<writer, discarded>>
        /\ up = conn /\ UNCHANGED shortages
    BY <1>5 DEF SendProcessed, NusSendAnswers, SendResult, slice
  <2>2. ASSUME NEW k \in 1..slice
        PROVE  /\ sent + k \in 1..Len(proc_buf) /\ sent + k \in sent + 1..Len(proc_buf)
               /\ proc_buf[sent + k] \in Positions /\ part[k] = <<proc_buf[sent + k], conn>>
    <3>1. sent + k \in 1..Len(proc_buf) /\ sent + k \in sent + 1..Len(proc_buf)
      BY ONLY <1>2, <1>3, k \in 1..slice
    <3>2. proc_buf[sent + k] \in Positions
      BY ONLY <1>2, <3>1, ElementOfSeq
    <3>3. QED
      BY <3>1, <3>2
  <2>3. part \in Seq(Positions \X (1..MaxLinks)) /\ Len(part) = slice
    <3>1. part \in [1..slice -> Positions \X (1..MaxLinks)]
      BY <1>2, <2>2
    <3>2. slice \in Nat
      BY <1>2, <1>3
    <3> HIDE DEF part
    <3>3. QED
      BY ONLY <3>1, <3>2, Sequence
  <2> HIDE DEF part
  <2>4. /\ got' \in Seq(Positions \X (1..MaxLinks)) /\ Len(got') = Len(got) + slice
        /\ \A i \in 1..Len(got) : got'[i] = got[i]
        /\ \A i \in 1..Len(got') : i \notin 1..Len(got) =>
             /\ i - Len(got) \in 1..slice
             /\ got'[i] = <<proc_buf[sent + (i - Len(got))], conn>>
    <3>1. /\ got' \in Seq(Positions \X (1..MaxLinks)) /\ Len(got') = Len(got) + slice
          /\ \A i \in 1..Len(got) : got'[i] = got[i]
          /\ \A i \in 1..Len(got') : i \notin 1..Len(got) =>
               i - Len(got) \in 1..slice /\ got'[i] = part[i - Len(got)]
      <4>1. got \in Seq(Positions \X (1..MaxLinks)) /\ part \in Seq(Positions \X (1..MaxLinks))
        BY <1>2, <2>3
      <4>2. /\ got \o part \in Seq(Positions \X (1..MaxLinks))
            /\ Len(got \o part) = Len(got) + Len(part)
            /\ \A i \in 1..Len(got) : (got \o part)[i] = got[i]
            /\ \A i \in 1..Len(got) + Len(part) : i \notin 1..Len(got) =>
                 i - Len(got) \in 1..Len(part) /\ (got \o part)[i] = part[i - Len(got)]
        BY ONLY <4>1, Joined
      <4>3. got' = got \o part /\ Len(part) = slice
        BY <2>1, <2>3
      <4>4. QED
        BY ONLY <4>2, <4>3
    <3>2. QED
      BY ONLY <2>2, <3>1
  <2>5. sent' \in 0..Len(proc_buf) /\ sent' >= sent
    BY <1>2, <1>3, <2>1
  <2>6. TypeOK'
    BY <1>1, <2>1, <2>4, <2>5 DEF IInv, TypeOK
  <2>7. Hands' /\ RingKeeps' /\ OneLink' /\ NoLostWakeup' /\ Fresh'
    BY <1>1, <2>1
       DEF IInv, Hands, RingKeeps, OneLink, NoLostWakeup, Fresh, Increasing, Origin
  <2>8. BytesAccounted'
    <3>1. Len(got') + discarded + (Len(proc_buf) - sent')
            = Len(got) + discarded + (Len(proc_buf) - sent)
      BY ONLY <1>2, <1>3, <2>1, <2>4
    <3>2. QED
      BY <1>1, <1>4, <2>1, <3>1 DEF BytesAccounted
  <2>9. ASSUME NEW i \in 1..Len(got')
        PROVE  /\ Origin(got'[i][1]) \in 1..received
               /\ \A j \in 1..Len(ring) : Origin(got'[i][1]) < ring[j]
               /\ \A j \in sent' + 1..Len(proc_buf) : got'[i][1] < proc_buf[j]
    <3>1. CASE i \in 1..Len(got)
      <4>1. \A j \in sent' + 1..Len(proc_buf) : j \in sent + 1..Len(proc_buf)
        <5> DEFINE m == sent  n == sent'  l == Len(proc_buf)
        <5>1. m \in Nat /\ n \in Nat /\ m <= n /\ l \in Nat
          BY <1>2, <2>5
        <5> HIDE DEF m, n, l
        <5>2. \A j \in n + 1..l : j \in m + 1..l
          BY ONLY <5>1
        <5>3. QED
          BY <5>2 DEF m, n, l
      <4>2. QED
        BY <2>4, <3>1, <4>1 DEF IInv, InOrder
    <3>2. CASE i \notin 1..Len(got)
      <4> DEFINE k == i - Len(got)
      <4>1. k \in 1..slice /\ got'[i][1] = proc_buf[sent + k]
        BY ONLY <2>4, <3>2, i \in 1..Len(got')
      <4> HIDE DEF k
      <4>2. sent + k \in 1..Len(proc_buf) /\ \A j \in sent' + 1..Len(proc_buf) :
              j \in 1..Len(proc_buf) /\ sent + k < j
        <5>1. /\ sent \in Nat /\ Len(proc_buf) \in Nat /\ sent' = sent + slice /\ k \in 1..slice
              /\ slice \in 1..Len(proc_buf) - sent
          BY <1>2, <1>3, <2>1, <4>1
        <5>2. sent + k \in 1..Len(proc_buf)
          BY ONLY <5>1
        <5>3. ASSUME NEW j \in sent' + 1..Len(proc_buf)
              PROVE  j \in 1..Len(proc_buf) /\ sent + k < j
          BY ONLY <5>1, j \in sent' + 1..Len(proc_buf)
        <5>4. QED
          BY <5>2, <5>3
      <4>3. QED
        BY <4>1, <4>2 DEF IInv, InOrder, Increasing
    <3>3. QED
      BY <3>1, <3>2
  <2>10. InOrder'
    <3>1. UNCHANGED <<ring, proc_buf, received>>
      BY <1>1
    <3>2. QED
      BY <2>9, <3>1 DEF IInv, InOrder, Increasing, Origin
  <2>11. InOrderOnce'
    <3> SUFFICES ASSUME NEW i \in 1..Len(got'), NEW j \in 1..Len(got'), i < j
                 PROVE  got'[i][1] < got'[j][1]
      BY DEF InOrderOnce
    <3>1. CASE j \in 1..Len(got)
      <4>1. i \in 1..Len(got)
        BY ONLY <1>2, <2>4, <1>3, <3>1, i < j, i \in 1..Len(got')
      <4>2. QED
        BY <2>4, <3>1, <4>1 DEF IInv, InOrderOnce
    <3>2. CASE i \in 1..Len(got) /\ j \notin 1..Len(got)
      <4>1. /\ j - Len(got) \in 1..slice
            /\ got'[j] = <<proc_buf[sent + (j - Len(got))], conn>>
        BY ONLY <2>4, <3>2, j \in 1..Len(got')
      <4>2. sent + (j - Len(got)) \in sent + 1..Len(proc_buf)
        BY <2>2, <4>1
      <4>3. got'[j][1] = proc_buf[sent + (j - Len(got))]
        BY ONLY <4>1
      <4>4. got'[i][1] = got[i][1]
        BY ONLY <2>4, <3>2
      <4>5. QED
        BY <3>2, <4>2, <4>3, <4>4 DEF IInv, InOrder
    <3>3. CASE i \notin 1..Len(got) /\ j \notin 1..Len(got)
      <4>1. /\ i - Len(got) \in 1..slice /\ got'[i][1] = proc_buf[sent + (i - Len(got))]
            /\ j - Len(got) \in 1..slice /\ got'[j][1] = proc_buf[sent + (j - Len(got))]
        BY ONLY <2>4, <3>3, i \in 1..Len(got'), j \in 1..Len(got')
      <4>2. /\ sent + (i - Len(got)) \in 1..Len(proc_buf)
            /\ sent + (j - Len(got)) \in 1..Len(proc_buf)
            /\ sent + (i - Len(got)) < sent + (j - Len(got))
        <5>1. i - Len(got) < j - Len(got) /\ sent \in Nat
          BY ONLY <1>2, i < j, i \in 1..Len(got'), j \in 1..Len(got')
        <5>2. sent + (i - Len(got)) < sent + (j - Len(got))
          BY ONLY <4>1, <5>1
        <5>3. QED
          BY <2>2, <4>1, <5>2
      <4>3. QED
        BY <4>1, <4>2 DEF IInv, InOrder, Increasing
    <3>4. CASE i \notin 1..Len(got) /\ j \in 1..Len(got)
      BY <3>1, <3>4
    <3>5. QED
      BY <3>1, <3>2, <3>3
  <2>12. CleanStream'
    <3>1. current_conn = conn /\ ended = conn - 1
      <4>1. conn # 0 /\ conn \in Nat /\ up = conn
        BY <1>2, <2>1
      <4>2. /\ up # 0 => up = current_conn
            /\ current_conn # 0 => current_conn = links
            /\ links = ended + (IF current_conn = 0 THEN 0 ELSE 1)
            /\ ended \in Nat
        BY DEF IInv, OneLink, TypeOK
      <4>3. QED
        BY ONLY <4>1, <4>2
    <3>2. \A k \in 1..Len(proc_buf) : arrival[Origin(proc_buf[k])] = conn - 1
      BY <1>2, <3>1 DEF IInv, Fresh
    <3>3. ASSUME NEW i \in 1..Len(got')
          PROVE  arrival[Origin(got'[i][1])] = got'[i][2] - 1
      <4>1. CASE i \in 1..Len(got)
        BY <2>4, <4>1 DEF IInv, CleanStream, Origin
      <4>2. CASE i \notin 1..Len(got)
        <5>1. /\ i - Len(got) \in 1..slice
              /\ got'[i] = <<proc_buf[sent + (i - Len(got))], conn>>
          BY ONLY <2>4, <4>2, i \in 1..Len(got')
        <5>2. sent + (i - Len(got)) \in 1..Len(proc_buf)
          BY <2>2, <5>1
        <5>3. QED
          BY ONLY <3>2, <5>1, <5>2
      <4>3. QED
        BY <4>1, <4>2
    <3>4. arrival' = arrival
      BY <1>1
    <3>5. QED
      BY <3>3, <3>4 DEF CleanStream, Origin
  <2>13. QED
    BY <2>6, <2>7, <2>8, <2>10, <2>11, <2>12 DEF IInv
<1>6. CASE SendResult(err) = "retry"
  <2>1. /\ UNCHANGED <<got, sent, writer, discarded>> /\ shortages' \in 0..MaxShortages
    <3>1. err # "0"
      BY <1>6 DEF SendResult
    <3>2. /\ NusSendAnswers(err) /\ UNCHANGED <<got, writer, discarded>> /\ sent' = sent
      BY <1>6 DEF SendProcessed, Resumes
    <3>3. shortages' \in 0..MaxShortages
      BY <1>2, <3>1, <3>2 DEF NusSendAnswers
    <3>4. QED
      BY <3>2, <3>3
  <2>2. RingKeeps' /\ InOrder' /\ InOrderOnce' /\ CleanStream'
    BY <1>1, <2>1, NothingMoves
  <2>3. TypeOK'
    BY <1>1, <2>1 DEF IInv, TypeOK
  <2>4. QED
    BY <1>1, <2>1, <2>2, <2>3
       DEF IInv, Hands, OneLink, NoLostWakeup, Fresh, BytesAccounted, Origin
<1>7. CASE SendResult(err) = "drop"
  <2>1. /\ discarded' = discarded + Len(proc_buf) - sent /\ sent' = Len(proc_buf)
        /\ writer' = "unref" /\ UNCHANGED got /\ UNCHANGED shortages
    BY <1>7 DEF SendProcessed, NusSendAnswers, SendResult
  <2>2. HookCopies * (received - drops - Len(ring)) = Len(got) + discarded' /\ discarded' \in Nat
    BY <1>2, <1>4, <2>1
  <2>3. discarded' \in 0..(MaxBytes * HookCopies)
    <3> DEFINE n == received - drops - Len(ring)
    <3>1. n \in 0..MaxBytes
      BY <1>2
    <3>2. HookCopies * n = Len(got) + discarded'
      BY <2>2
    <3> HIDE DEF n
    <3>3. QED
      BY ONLY <1>2, <2>2, <3>1, <3>2, Share
  <2>4. TypeOK'
    BY <1>1, <1>2, <2>1, <2>3 DEF IInv, TypeOK
  <2>5. BytesAccounted'
    BY <1>1, <1>2, <2>1, <2>2 DEF BytesAccounted
  <2>6. \A j \in sent' + 1..Len(proc_buf) : FALSE
    BY <1>2, <2>1
  <2>7. InOrder'
    BY <1>1, <2>1, <2>6 DEF IInv, InOrder, Increasing, Origin
  <2>8. QED
    BY <1>1, <2>1, <2>4, <2>5, <2>7
       DEF IInv, Hands, RingKeeps, OneLink, NoLostWakeup, Fresh, InOrderOnce, CleanStream,
           Increasing, Origin
<1>8. QED
  BY <1>5, <1>6, <1>7 DEF SendProcessed

\* The chunk is done with.
LEMMA UnrefStep == ASSUME IInv, WriterUnrefs PROVE IInv'
<1>1. /\ UNCHANGED <<ring, rx_data_ready, link, bt, got, serial, looked, discarded, shortages>>
      /\ writer = "unref" /\ writer' = "look"
      /\ conn' = 0 /\ max_send' = 0 /\ claimed' = 0 /\ proc_buf' = <<>> /\ sent' = 0
  BY DEF WriterUnrefs, AfterChunk
<1>2. proc_buf' \in Seq(Positions) /\ Len(proc_buf') = 0
  BY <1>1, EmptySeq
<1>3. TypeOK'
  BY <1>1, <1>2 DEF IInv, TypeOK
<1>4. InOrder'
  BY <1>1, <1>2 DEF IInv, InOrder, Increasing, Origin
<1>5. QED
  BY <1>1, <1>3, <1>4
     DEF IInv, Hands, RingKeeps, OneLink, Fresh, NoLostWakeup, BytesAccounted, InOrderOnce,
         CleanStream, Increasing

--------------------------------------------------------------------------------
\* The theorems.

\* The invariant holds in every state.
THEOREM Invariance == Spec => []IInv
<1>1. Init => IInv
  <2> SUFFICES ASSUME Init PROVE IInv
    OBVIOUS
  <2>1. {rx_data_ready, link_secure, looked} \subseteq BOOLEAN
    BY Zenon DEF Init
  <2>2. /\ ring \in Seq(1..MaxBytes) /\ arrival \in Seq(0..MaxLinks)
        /\ proc_buf \in Seq(Positions) /\ got \in Seq(Positions \X (1..MaxLinks))
        /\ Len(ring) = 0 /\ Len(arrival) = 0 /\ Len(proc_buf) = 0 /\ Len(got) = 0
    BY EmptySeq DEF Init
  <2>3. MaxBytes * HookCopies \in Nat
    OBVIOUS
  <2>4. TypeOK
    BY <2>1, <2>2, <2>3 DEF Init, TypeOK
  <2>5. BytesAccounted
    BY <2>2 DEF Init, BytesAccounted
  <2>6. QED
    BY <2>2, <2>4, <2>5
       DEF Init, IInv, Hands, OneLink, RingKeeps, InOrder, Fresh, NoLostWakeup, InOrderOnce,
           CleanStream, Increasing
<1>2. IInv /\ [Next]_vars => IInv'
  <2> SUFFICES ASSUME IInv, [Next]_vars PROVE IInv'
    OBVIOUS
  <2>1. CASE UNCHANGED vars
    <3>1. RingKeeps' /\ InOrder' /\ InOrderOnce' /\ CleanStream'
      BY <2>1, NothingMoves DEF vars
    <3>2. TypeOK' /\ BytesAccounted'
      BY <2>1 DEF vars, IInv, TypeOK, BytesAccounted
    <3>3. QED
      BY <2>1, <3>1, <3>2 DEF vars, IInv, Hands, OneLink, Fresh, NoLostWakeup, Origin
  <2>2. CASE Next
    BY <2>2, RxStep, LinkStep, LookStep, DrainStep, ClaimStep, HookStep, SendStep, UnrefStep
       DEF Next, Writer
  <2>3. QED
    BY <2>1, <2>2
<1>3. QED
  BY <1>1, <1>2, PTL DEF Spec

\* The variables keep their types: in particular the ring never overflows, and a chunk
\* fits its buffer.
THEOREM TypeCorrect == Spec => []TypeOK
<1>1. IInv => TypeOK
  BY DEF IInv
<1>2. QED
  BY <1>1, Invariance, PTL

\* Bytes in the ring always find the writer awake, or wake it.
THEOREM WriterWoken == Spec => []NoLostWakeup
<1>1. IInv => NoLostWakeup
  BY DEF IInv
<1>2. QED
  BY <1>1, Invariance, PTL

\* Phones receive the bytes of the serial line in their order, and none twice.
THEOREM Delivered == Spec => []InOrderOnce
<1>1. IInv => InOrderOnce
  BY DEF IInv
<1>2. QED
  BY <1>1, Invariance, PTL

\* No phone receives what came before the previous link had ended.
THEOREM CleanStart == Spec => []CleanStream
<1>1. IInv => CleanStream
  BY DEF IInv
<1>2. QED
  BY <1>1, Invariance, PTL

\* No byte is lost without being counted.
THEOREM Accounted == Spec => []BytesAccounted
<1>1. IInv => BytesAccounted
  BY DEF IInv
<1>2. QED
  BY <1>1, Invariance, PTL

================================================================================
