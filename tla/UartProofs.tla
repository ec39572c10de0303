------------------------------- MODULE UartProofs -------------------------------
(* Proofs about UartBridge, for any number of buffers and baud rates, any sizes  *)
(* of the transmit ring and the staging buffer, and whatever the bounds.         *)
EXTENDS UartBridge, SequenceTheorems, TLAPS

--------------------------------------------------------------------------------
\* The inductive invariant.

\* From the claim to its release: the steps at which set_baud owns RX and TX.
Owned == {"baud_abort", "baud_reset", "baud_disable", "baud_wait", "baud_configure",
          "baud_release"}

\* The flag is set exactly while set_baud owns them.
Claim == reconfiguring <=> bt \in Owned

\* What the driver holds follows from whether it receives.
Held ==
  /\ rx = "off" => rxHeld = 0
  /\ rx = "on" => rxHeld # 0

\* The flag, the staging buffer and the driver's transfer come and go together; the
\* thread that has staged a chunk is the one that starts it.
Staging ==
  /\ tx = "idle" /\ bt # "tx_start" => ~tx_in_progress /\ staged = <<>>
  /\ bt = "tx_start" => tx = "idle" /\ tx_in_progress /\ staged # <<>>

\* Reception, and transmission.
RxInv == Claim /\ Held /\ SlabConserved /\ RxRecoverable
TxInv == Staging /\ OneTransfer /\ TxAccounted /\ TxPumped

\* The types of what reception works on, of the flags, the rates and the transmitter.
RxTypes ==
  /\ bt \in {"idle", "baud_own", "baud_abort", "baud_reset", "baud_disable",
             "baud_wait", "baud_configure", "baud_release", "baud_alloc",
             "baud_enable", "tx_kick", "tx_start"}
  /\ wq \in {"idle", "retry", "retry_enable"}
  /\ slab \in 0..NumBufs /\ rxHeld \in 0..2 /\ rx \in {"on", "stopping", "off"}
  /\ faults \in 0..MaxFaults
Flags == reconfiguring \in BOOLEAN /\ rx_quiesced \in BOOLEAN /\ retry \in BOOLEAN
Rates == target \in Bauds /\ rate \in Bauds
TxTypes ==
  /\ txRing \in Seq(Bauds) /\ Len(txRing) <= TxCap
  /\ staged \in Seq(Bauds) /\ Len(staged) <= TxBuf
  /\ tx_in_progress \in BOOLEAN /\ last_uart_tx_err \in BOOLEAN
  /\ tx \in {"idle", "busy", "aborting"}
  /\ accepted \in 0..MaxBytes /\ sent \in 0..MaxBytes /\ drops_uart_tx \in 0..MaxBytes

Types == RxTypes /\ Flags /\ Rates /\ TxTypes

IInv == Types /\ RxInv /\ TxInv

\* Where the threads are cooperative: neither is left in the middle of something while
\* the other runs, and from the abort of the transfer to uart_configure reception, once
\* it is off, stays off.
Quiet ==
  /\ wq # "idle" => bt \in {"idle", "baud_wait"}
  /\ wq = "retry_enable" => bt = "idle"
  /\ bt \in {"baud_disable", "baud_wait"} /\ rx_quiesced => rx = "off"
  /\ bt = "baud_configure" => rx = "off"
  /\ bt \in {"baud_reset", "baud_disable", "baud_wait", "baud_configure"} => tx # "busy"

--------------------------------------------------------------------------------
\* Queues.

\* The next chunk and the rest of the ring share out its bytes.
LEMMA Split ==
  ASSUME NEW S, NEW s \in Seq(S), NEW n \in 0..Len(s)
  PROVE  /\ SubSeq(s, 1, n) \in Seq(S) /\ Len(SubSeq(s, 1, n)) = n
         /\ SubSeq(s, n + 1, Len(s)) \in Seq(S)
         /\ Len(SubSeq(s, n + 1, Len(s))) = Len(s) - n
<1>1. Len(s) \in Nat /\ \A i \in 1..Len(s) : s[i] \in S
  BY ElementOfSeq, LenProperties
<1>2. SubSeq(s, 1, n) \in Seq(S) /\ Len(SubSeq(s, 1, n)) = n
  BY <1>1, SubSeqProperties
<1>3. /\ SubSeq(s, n + 1, Len(s)) \in Seq(S)
      /\ Len(SubSeq(s, n + 1, Len(s))) = Len(s) - n
  BY <1>1, SubSeqProperties
<1>4. QED
  BY <1>2, <1>3

\* A sequence is empty when its length is 0.
LEMMA Emptiness ==
  ASSUME NEW S, NEW s \in Seq(S) PROVE Len(s) \in Nat /\ (s = <<>> <=> Len(s) = 0)
BY EmptySeq, LenProperties

\* What goes into the staging buffer and what stays in the ring.
LEMMA StageSplits ==
  ASSUME IInv, Stage, txRing # <<>>
  PROVE  /\ staged' \in Seq(Bauds) /\ Len(staged') \in 1..TxBuf /\ staged' # <<>>
         /\ txRing' \in Seq(Bauds) /\ Len(txRing') <= TxCap
         /\ Len(staged') + Len(txRing') = Len(txRing)
         /\ tx_in_progress' = TRUE
<1> DEFINE len == Least(TxBuf, Len(txRing))
<1>1. txRing \in Seq(Bauds) /\ Len(txRing) \in Nat \ {0} /\ Len(txRing) <= TxCap
  BY Emptiness DEF IInv, Types, RxTypes, Flags, Rates, TxTypes
<1>2. len \in 1..TxBuf /\ len \in 0..Len(txRing)
  BY <1>1, UartAssumption DEF Least
<1>3. /\ staged' = SubSeq(txRing, 1, len)
      /\ txRing' = SubSeq(txRing, len + 1, Len(txRing))
      /\ tx_in_progress' = TRUE
  BY DEF Stage
<1> HIDE DEF len
<1>4. staged' \in Seq(Bauds) /\ Len(staged') = len
  BY <1>1, <1>2, <1>3, Split
<1>5. txRing' \in Seq(Bauds) /\ Len(txRing') = Len(txRing) - len
  BY <1>1, <1>2, <1>3, Split
<1>6. staged' # <<>>
  BY <1>2, <1>4, EmptySeq
<1>7. Len(staged') \in 1..TxBuf /\ Len(txRing') <= TxCap
      /\ Len(staged') + Len(txRing') = Len(txRing)
  BY <1>1, <1>2, <1>4, <1>5, UartAssumption
<1>8. QED
  BY <1>3, <1>4, <1>5, <1>6, <1>7

--------------------------------------------------------------------------------
\* Every step preserves the invariant.

USE UartAssumption DEF rxv, txv, baud

\* A step keeps the invariant when it keeps each kind of type, and both parts.
LEMMA Parts ==
  /\ IInv <=> RxTypes /\ Flags /\ Rates /\ TxTypes /\ RxInv /\ TxInv
  /\ IInv' <=> RxTypes' /\ Flags' /\ Rates' /\ TxTypes' /\ RxInv' /\ TxInv'
BY ONLY DEF IInv, Types

\* A step that leaves the transmitter alone keeps its part, whatever set_baud is at.
LEMMA TxUntouched ==
  ASSUME IInv, UNCHANGED txv,
         bt' = bt \/ (bt # "tx_start" /\ bt' \notin {"tx_start", "idle"})
  PROVE  TxTypes' /\ TxInv'
<1>1. TxTypes /\ TxInv
  BY Parts
<1>2. TxTypes'
  BY ONLY <1>1, UNCHANGED txv DEF txv, TxTypes
<1>3. TxInv'
  BY <1>1 DEF TxInv, Staging, OneTransfer, TxAccounted, TxPumped
<1>4. QED
  BY <1>2, <1>3

\* A step of the transmitter keeps the part of reception.
LEMMA RxUntouched ==
  ASSUME IInv, UNCHANGED <<wq, retry, rxv, baud>>,
         bt' = bt \/ {bt, bt'} \subseteq {"idle", "tx_kick", "tx_start"}
  PROVE  RxInv'
<1>1. RxInv
  BY Parts
<1>2. QED
  BY <1>1 DEF RxInv, Claim, Owned, Held, SlabConserved, InHand, RxRecoverable

\* What an attempt to enable reception does: the buffer in hand goes to the driver or
\* back to the slab, and only -EBUSY leaves reception on without this attempt.
LEMMA Enabling ==
  ASSUME RxTypes, Held, NEW err \in EnableErrors, RxEnable(err)
  PROVE  /\ slab' + rxHeld' = slab + rxHeld + 1 /\ slab' \in Nat /\ rxHeld' \in 0..2
         /\ faults' \in 0..MaxFaults
         /\ \/ err = "0" /\ rx = "off" /\ rx' = "on" /\ rxHeld' = 1
            \/ err # "0" /\ rx' = rx /\ rxHeld' = rxHeld /\ (err = "EBUSY" <=> rx # "off")
<1> USE DEF RxTypes, RxEnable, BufBack
<1>1. CASE err = "0"
  BY <1>1 DEF Held
<1>2. CASE err = "EBUSY"
  BY <1>2
<1>3. CASE err = "other"
  BY <1>3 DEF Fault
<1>4. QED
  BY <1>1, <1>2, <1>3 DEF EnableErrors

\* A buffer that leaves a thread's hands for the driver or the slab is not lost.
LEMMA HandedOn ==
  ASSUME RxTypes, SlabConserved, slab' + rxHeld' = slab + rxHeld + 1,
         slab' \in Nat, rxHeld' \in 0..2, InHand = InHand' + 1, InHand' \in 0..1
  PROVE  SlabConserved'
<1> DEFINE free == slab'
           held == rxHeld'
           hand == InHand'
<1>1. slab + rxHeld + InHand = NumBufs /\ slab \in Nat /\ rxHeld \in Nat
  BY ONLY UartAssumption, RxTypes, SlabConserved DEF RxTypes, SlabConserved
<1>2. /\ free \in Nat /\ held \in Nat /\ hand \in Nat
      /\ free + held = slab + rxHeld + 1 /\ InHand = hand + 1
  OBVIOUS
<1> HIDE DEF free, held, hand
<1>3. free + held + hand = NumBufs
  BY ONLY <1>1, <1>2
<1>4. QED
  BY ONLY <1>3 DEF free, held, hand, SlabConserved

\* uart_rx_retry_handler.
LEMMA RetryStep == ASSUME IInv, RetryStarts \/ Retry PROVE IInv'
<1> USE DEF RxTypes, RxInv, Claim, Owned, Held, SlabConserved, RxRecoverable
<1>1. RxTypes /\ Flags /\ Rates /\ RxInv
  BY ONLY IInv, Parts
<1>2. /\ UNCHANGED <<bt, txv, baud>> /\ retry' \in BOOLEAN
      /\ wq' \in {"idle", "retry", "retry_enable"}
  BY <1>1, Zenon DEF RetryStarts, Retry, RetryAllocates, RetryEnables, Flags
<1>3. TxTypes' /\ TxInv' /\ Flags' /\ Rates'
  BY ONLY IInv, <1>1, <1>2, TxUntouched DEF baud, Flags, Rates
<1>4. CASE RetryStarts
  <2>1. RxTypes' /\ RxInv'
    BY ONLY <1>1, <1>2, <1>4 DEF RetryStarts, InHand, rxv, baud
  <2>2. QED
    BY ONLY <1>3, <2>1, Parts
<1>5. CASE RetryAllocates
  <2>1. RxTypes' /\ RxInv'
    BY ONLY <1>1, <1>2, <1>5, UartAssumption DEF RetryAllocates, InHand, baud
  <2>2. QED
    BY ONLY <1>3, <2>1, Parts
<1>6. ASSUME NEW err \in EnableErrors, RetryEnables(err) PROVE IInv'
  <2>1. /\ slab' + rxHeld' = slab + rxHeld + 1 /\ slab' \in Nat /\ rxHeld' \in 0..2
        /\ faults' \in 0..MaxFaults
        /\ \/ err = "0" /\ rx' = "on" /\ rxHeld' = 1
           \/ err # "0" /\ rx' = rx /\ rxHeld' = rxHeld /\ (err = "EBUSY" <=> rx # "off")
    BY ONLY <1>1, <1>6, Enabling DEF RetryEnables
  <2>2. /\ wq = "retry_enable" /\ wq' = "idle" /\ UNCHANGED <<bt, reconfiguring>>
        /\ retry \/ err \notin {"0", "EBUSY"} => retry'
    BY ONLY <1>6 DEF RetryEnables, EnableSucceeded, baud
  <2>3. InHand = InHand' + 1 /\ InHand' \in 0..1
    BY ONLY <1>1, <2>2 DEF InHand
  <2>4. SlabConserved'
    BY ONLY <1>1, <2>1, <2>3, HandedOn
  <2>5. RxTypes'
    BY ONLY <1>1, <2>1, <2>2, <2>3, <2>4
  <2>6. Claim' /\ Held'
    BY ONLY <1>1, <2>1, <2>2
  <2>7. RxRecoverable'
    BY ONLY <1>1, <2>1, <2>2
  <2>8. QED
    BY ONLY <1>3, <2>4, <2>5, <2>6, <2>7, Parts DEF RxInv
<1>7. QED
  BY ONLY RetryStarts \/ Retry, <1>4, <1>5, <1>6 DEF Retry

\* The receiver's events.
LEMMA ReceiverStep == ASSUME IInv, Receiver \/ RxDisabled PROVE IInv'
<1> USE DEF RxTypes, RxInv, Claim, Owned, Held, SlabConserved, RxRecoverable
<1>1. RxTypes /\ Flags /\ Rates /\ RxInv
  BY ONLY IInv, Parts
<1>2. /\ UNCHANGED <<bt, wq, txv, target, reconfiguring, rate>>
      /\ retry' \in BOOLEAN /\ rx_quiesced' \in BOOLEAN
  BY <1>1, Zenon DEF Receiver, RxBufRequest, RxBufReleased, RxStops, RxDisabled, Flags
<1>3. TxTypes' /\ TxInv' /\ Flags' /\ Rates'
  BY ONLY IInv, <1>1, <1>2, TxUntouched DEF Flags, Rates
<1>4. SUFFICES RxTypes' /\ RxInv'
  BY ONLY <1>3, <1>4, Parts
<1>5. CASE RxBufRequest
  BY ONLY <1>1, <1>2, <1>5, UartAssumption DEF RxBufRequest, InHand
<1>6. CASE RxBufReleased
  BY ONLY <1>1, <1>2, <1>6, UartAssumption DEF RxBufReleased, InHand
<1>7. CASE RxStops
  BY ONLY <1>1, <1>2, <1>7 DEF RxStops, InHand
<1>8. CASE RxDisabled
  <2>1. SlabConserved' /\ RxTypes'
    BY ONLY <1>1, <1>2, <1>8, UartAssumption DEF RxDisabled, Fault, InHand
  <2>2. Claim' /\ Held' /\ RxRecoverable'
    BY ONLY <1>1, <1>2, <1>8 DEF RxDisabled
  <2>3. QED
    BY ONLY <2>1, <2>2 DEF RxInv
<1>9. QED
  BY ONLY Receiver \/ RxDisabled, <1>5, <1>6, <1>7, <1>8 DEF Receiver

\* uart_bridge_set_baud, up to its restart.
LEMMA SetBaudStep ==
  ASSUME IInv,
         \/ \E b \in Bauds : SetBaud(b)
         \/ BaudOwns \/ BaudAborts \/ BaudResets \/ BaudDisables \/ BaudQuiesced
         \/ BaudTimesOut \/ BaudConfigures
  PROVE  IInv'
<1> USE DEF RxTypes, RxInv, Claim, Owned, Held, SlabConserved, RxRecoverable
<1> DEFINE Body == \/ BaudOwns \/ BaudAborts \/ BaudResets \/ BaudDisables
                   \/ BaudQuiesced \/ BaudTimesOut \/ BaudConfigures
<1>1. RxTypes /\ Flags /\ Rates /\ TxTypes /\ TxInv /\ RxInv
  BY ONLY IInv, Parts
<1>2. /\ wq' = wq /\ rxHeld' = rxHeld /\ slab' = slab
      /\ reconfiguring' \in BOOLEAN /\ rx_quiesced' \in BOOLEAN /\ retry' \in BOOLEAN
      /\ target' \in Bauds /\ rate' \in Bauds
  BY <1>1, Zenon DEF SetBaud, BaudOwns, BaudAborts, BaudResets, BaudDisables,
                     BaudQuiesced, BaudTimesOut, BaudConfigures, SignalReset, Flags, Rates
<1>3. ~BaudAborts => UNCHANGED txv
  BY Zenon DEF SetBaud, BaudOwns, BaudResets, BaudDisables, BaudQuiesced, BaudTimesOut,
               BaudConfigures
<1>4. /\ bt \notin {"tx_start", "baud_enable"}
      /\ bt' \in {"baud_own", "baud_abort", "baud_reset", "baud_disable", "baud_wait",
                  "baud_configure", "baud_release"}
  BY ONLY (\E b \in Bauds : SetBaud(b)) \/ Body
     DEF SetBaud, BaudOwns, BaudAborts, BaudResets, BaudDisables, BaudQuiesced,
         BaudTimesOut, BaudConfigures
<1>5. TxTypes' /\ TxInv'
  <2>1. CASE ~BaudAborts
    BY ONLY IInv, <1>3, <1>4, <2>1, TxUntouched
  <2>2. CASE BaudAborts
    <3>1. /\ UNCHANGED <<txRing, staged, tx_in_progress, drops_uart_tx, last_uart_tx_err,
                         accepted, sent>>
          /\ bt = "baud_abort" /\ bt' = "baud_reset"
          /\ tx' = tx \/ (tx = "busy" /\ tx' = "aborting")
      BY ONLY <2>2 DEF BaudAborts
    <3>2. TxTypes'
      BY ONLY <1>1, <3>1 DEF TxTypes
    <3>3. TxInv'
      BY ONLY <1>1, <3>1 DEF TxInv, Staging, OneTransfer, TxAccounted, TxPumped
    <3>4. QED
      BY ONLY <3>2, <3>3
  <2>3. QED
    BY ONLY <2>1, <2>2
<1>6. SUFFICES RxTypes' /\ RxInv'
  BY ONLY <1>2, <1>5, <1>6, Parts DEF Flags, Rates
<1>7. SlabConserved'
  BY ONLY <1>1, <1>2, <1>4 DEF InHand
<1>8. CASE \E b \in Bauds : SetBaud(b)
  BY ONLY <1>1, <1>2, <1>4, <1>7, <1>8 DEF SetBaud, rxv
<1>9. CASE BaudOwns
  BY ONLY <1>1, <1>2, <1>4, <1>7, <1>9 DEF BaudOwns, rxv
<1>10. CASE BaudAborts
  BY ONLY <1>1, <1>2, <1>4, <1>7, <1>10 DEF BaudAborts, rxv, baud
<1>11. CASE BaudResets
  BY ONLY <1>1, <1>2, <1>4, <1>7, <1>11 DEF BaudResets, rxv
<1>12. CASE BaudDisables
  <2>1. faults' \in 0..MaxFaults /\ rx' \in {rx, "stopping"} /\ (rx = "off" => rx' = rx)
    BY ONLY UartAssumption, <1>1, <1>12 DEF BaudDisables, Fault
  <2>2. /\ bt = "baud_disable" /\ bt' \in {"baud_wait", "baud_configure", "baud_release"}
        /\ UNCHANGED <<reconfiguring, retry>>
    BY ONLY <1>12 DEF BaudDisables, baud
  <2>3. RxTypes'
    BY ONLY <1>1, <1>2, <2>1, <2>2
  <2>4. QED
    BY ONLY <1>1, <1>2, <1>7, <2>1, <2>2, <2>3
<1>13. CASE BaudQuiesced
  BY ONLY <1>1, <1>2, <1>4, <1>7, <1>13 DEF BaudQuiesced, rxv
<1>14. CASE BaudTimesOut
  BY ONLY <1>1, <1>2, <1>4, <1>7, <1>14 DEF BaudTimesOut, rxv, baud
<1>15. CASE BaudConfigures
  <2>1. faults' \in 0..MaxFaults
    BY ONLY UartAssumption, <1>1, <1>15 DEF BaudConfigures, Fault
  <2>2. /\ bt = "baud_configure" /\ bt' = "baud_release"
        /\ UNCHANGED <<rx, reconfiguring, retry>>
    BY ONLY <1>15 DEF BaudConfigures, rxv
  <2>3. RxTypes'
    BY ONLY <1>1, <1>2, <2>1, <2>2
  <2>4. QED
    BY ONLY <1>1, <1>2, <1>7, <2>1, <2>2, <2>3
<1>16. QED
  BY <1>8, <1>9, <1>10, <1>11, <1>12, <1>13, <1>14, <1>15

\* Its restart.
LEMMA RestartStep ==
  ASSUME IInv, BaudReleases \/ BaudAllocates \/ \E err \in EnableErrors : BaudEnables(err)
  PROVE  IInv'
<1> USE DEF RxTypes, RxInv, Claim, Owned, Held, SlabConserved, RxRecoverable
<1>1. RxTypes /\ Flags /\ Rates /\ RxInv
  BY ONLY IInv, Parts
<1>2. /\ UNCHANGED <<wq, txv, target, rx_quiesced, rate>> /\ retry' \in BOOLEAN
      /\ reconfiguring' \in BOOLEAN
  BY <1>1, Zenon DEF BaudReleases, BaudAllocates, BaudEnables, ClaimReleased, Flags
<1>3. bt # "tx_start" /\ bt' \notin {"tx_start", "idle"}
  BY ONLY BaudReleases \/ BaudAllocates \/ \E err \in EnableErrors : BaudEnables(err)
     DEF BaudReleases, BaudAllocates, BaudEnables, AfterRestart
<1>4. TxTypes' /\ TxInv' /\ Flags' /\ Rates'
  BY ONLY IInv, <1>1, <1>2, <1>3, TxUntouched DEF Flags, Rates
<1>5. SUFFICES RxTypes' /\ RxInv'
  BY ONLY <1>4, <1>5, Parts
<1>6. CASE BaudReleases
  BY ONLY <1>1, <1>2, <1>6 DEF BaudReleases, ClaimReleased, InHand, rxv
<1>7. CASE BaudAllocates
  BY ONLY <1>1, <1>2, <1>7, UartAssumption DEF BaudAllocates, AfterRestart, InHand, baud
<1>8. ASSUME NEW err \in EnableErrors, BaudEnables(err) PROVE RxTypes' /\ RxInv'
  <2>1. /\ slab' + rxHeld' = slab + rxHeld + 1 /\ slab' \in Nat /\ rxHeld' \in 0..2
        /\ faults' \in 0..MaxFaults
        /\ \/ err = "0" /\ rx' = "on" /\ rxHeld' = 1
           \/ err # "0" /\ rx' = rx /\ rxHeld' = rxHeld
    BY ONLY <1>1, <1>8, Enabling DEF BaudEnables
  <2>2. /\ bt = "baud_enable" /\ bt' = "tx_kick" /\ UNCHANGED <<wq, reconfiguring>>
        /\ retry \/ err # "0" => retry'
    BY ONLY <1>8 DEF BaudEnables, RestartRetried, AfterRestart, baud
  <2>3. InHand = InHand' + 1 /\ InHand' \in 0..1
    BY ONLY <1>1, <2>2 DEF InHand
  <2>4. SlabConserved'
    BY ONLY <1>1, <2>1, <2>3, HandedOn
  <2>5. RxTypes'
    BY ONLY <1>1, <2>1, <2>2, <2>3, <2>4
  <2>6. Claim' /\ Held' /\ RxRecoverable'
    BY ONLY <1>1, <2>1, <2>2
  <2>7. QED
    BY ONLY <2>4, <2>5, <2>6 DEF RxInv
<1>9. QED
  BY <1>6, <1>7, <1>8

\* n bytes for the wire.
LEMMA Filled ==
  ASSUME NEW S, NEW e \in S, NEW n \in Nat
  PROVE  [i \in 1..n |-> e] \in Seq(S) /\ Len([i \in 1..n |-> e]) = n
<1> DEFINE s == [i \in 1..n |-> e]
<1>1. s \in [1..n -> S]
  OBVIOUS
<1>2. s \in Seq(S)
  BY <1>1, SeqDef
<1>3. DOMAIN s = 1..n
  OBVIOUS
<1>4. Len(s) = n
  BY <1>2, <1>3, LenProperties
<1>5. QED
  BY <1>2, <1>4

\* uart_bridge_send and uart_tx_kick in the thread.
LEMMA SendStep ==
  ASSUME IInv, (\E n \in 1..TxCap : Send(n)) \/ TxKick \/ TxStart
  PROVE  IInv'
<1> USE DEF IInv, Types, RxTypes, Flags, Rates, TxTypes, TxInv, Staging, OneTransfer,
            TxAccounted, TxPumped
<1>1. RxInv'
  BY RxUntouched DEF Send, TxKick, TxStart
<1>2. /\ Len(txRing) \in Nat /\ Len(staged) \in Nat
      /\ accepted \in 0..MaxBytes /\ sent \in Nat /\ drops_uart_tx \in Nat
      /\ accepted = sent + drops_uart_tx + Len(staged) + Len(txRing)
  BY LenProperties
<1>3. ASSUME NEW n \in 1..TxCap, Send(n) PROVE IInv'
  <2> DEFINE queued == Least(n, TxCap - Len(txRing))
             bytes  == [i \in 1..queued |-> rate]
  <2>1. queued \in Nat /\ queued <= TxCap - Len(txRing)
    BY <1>2 DEF Least
  <2>2. bytes \in Seq(Bauds) /\ Len(bytes) = queued
    BY <2>1, Filled
  <2>3. /\ accepted + queued <= MaxBytes /\ accepted' = accepted + queued
        /\ txRing' = txRing \o bytes
        /\ bt = "idle" /\ bt' = "tx_kick"
        /\ UNCHANGED <<wq, retry, rxv, staged, tx_in_progress, drops_uart_tx,
                       last_uart_tx_err, tx, sent, baud, faults>>
    BY <1>3 DEF Send
  <2> HIDE DEF queued, bytes
  <2>4. txRing' \in Seq(Bauds) /\ Len(txRing') = Len(txRing) + queued
    <3>1. txRing \in Seq(Bauds)
      OBVIOUS
    <3>2. txRing \o bytes \in Seq(Bauds) /\ Len(txRing \o bytes) = Len(txRing) + Len(bytes)
      BY ONLY <2>2, <3>1, ConcatProperties
    <3>3. QED
      BY ONLY <2>2, <2>3, <3>2
  <2>5. QED
    BY <1>1, <1>2, <2>1, <2>3, <2>4
<1>4. CASE TxKick /\ MayKick
  <2>1. Stage /\ txRing # <<>> /\ tx = "idle" /\ staged = <<>>
    BY <1>4 DEF TxKick, MayKick
  <2>2. Len(staged) = 0
    BY <2>1, EmptySeq
  <2>3. /\ staged' \in Seq(Bauds) /\ Len(staged') \in 1..TxBuf /\ staged' # <<>>
        /\ txRing' \in Seq(Bauds) /\ Len(txRing') <= TxCap
        /\ Len(staged') + Len(txRing') = Len(txRing)
        /\ tx_in_progress' = TRUE
    BY <2>1, StageSplits
  <2>4. /\ bt' = "tx_start"
        /\ UNCHANGED <<wq, retry, rxv, drops_uart_tx, last_uart_tx_err, tx, accepted, sent,
                       baud, faults>>
    BY <1>4 DEF TxKick
  <2>5. Types'
    BY <2>3, <2>4
  <2>6. TxAccounted'
    BY ONLY <1>2, <2>2, <2>3, <2>4, LenProperties
  <2>7. Staging' /\ OneTransfer' /\ TxPumped'
    BY <2>1, <2>3, <2>4
  <2>8. QED
    BY <1>1, <2>5, <2>6, <2>7
<1>5. CASE TxKick /\ ~MayKick
  BY <1>1, <1>5 DEF TxKick, MayKick, RxInv, Claim, Owned
<1>6. CASE TxStart /\ tx' = "busy"
  BY <1>1, <1>6 DEF TxStart, TxRefused
<1>7. CASE TxStart /\ TxRefused(Len(staged))
  <2>1. Len(staged') = 0 /\ staged' \in Seq(Bauds)
    BY <1>7, EmptySeq DEF TxRefused
  <2>2. faults' \in 0..MaxFaults /\ last_uart_tx_err' = TRUE /\ tx_in_progress' = FALSE
    BY <1>7 DEF TxStart, TxRefused, Fault
  <2> last_uart_tx_err' \in BOOLEAN /\ tx_in_progress' \in BOOLEAN
    BY <2>2, Zenon
  <2>3. TxAccounted' /\ drops_uart_tx' \in 0..MaxBytes
    BY <1>2, <1>7, <2>1 DEF TxStart, TxRefused
  <2>4. Types'
    BY <1>7, <2>1, <2>2, <2>3 DEF TxStart, TxRefused
  <2>5. Staging' /\ OneTransfer' /\ TxPumped'
    BY <1>7, <2>2 DEF TxStart, TxRefused
  <2>6. QED
    BY <1>1, <2>3, <2>4, <2>5
<1>8. QED
  BY <1>3, <1>4, <1>5, <1>6, <1>7 DEF TxStart, TxRefused

\* The driver's transfer ends, and uart_tx_kick in the interrupt starts the next.
LEMMA TransferStep ==
  ASSUME IInv, tx # "idle", NEW lost \in 0..Len(staged), NextTransfer(lost)
  PROVE  IInv'
<1> USE DEF IInv, Types, RxTypes, Flags, Rates, TxTypes, TxInv, Staging, OneTransfer,
            TxAccounted, TxPumped
<1>1. RxInv'
  BY RxUntouched DEF NextTransfer
<1>2. /\ Len(txRing) \in Nat /\ Len(staged) \in Nat
      /\ lost \in Nat /\ lost <= Len(staged)
      /\ accepted \in 0..MaxBytes /\ sent \in Nat /\ drops_uart_tx \in Nat
      /\ accepted = sent + drops_uart_tx + Len(staged) + Len(txRing)
  BY LenProperties
<1>3. /\ sent' = sent + Len(staged) - lost
      /\ bt # "tx_start"
      /\ UNCHANGED <<bt, wq, retry, rxv, accepted, baud>>
  BY DEF NextTransfer
<1>4. CASE /\ tx' = "idle" /\ tx_in_progress' = FALSE /\ staged' = <<>>
           /\ drops_uart_tx' = drops_uart_tx + lost
           /\ UNCHANGED <<txRing, last_uart_tx_err, faults>>
           /\ reconfiguring \/ txRing = <<>>
  <2>1. Len(staged') = 0 /\ staged' \in Seq(Bauds) /\ tx_in_progress' \in BOOLEAN
    BY <1>4, EmptySeq
  <2>2. TxAccounted' /\ drops_uart_tx' \in 0..MaxBytes /\ sent' \in 0..MaxBytes
    BY ONLY UartAssumption, <1>2, <1>3, <1>4, <2>1
  <2>3. Types'
    BY <1>3, <1>4, <2>1, <2>2
  <2>4. Staging' /\ OneTransfer' /\ TxPumped'
    BY <1>3, <1>4 DEF RxInv, Claim, Owned
  <2>5. QED
    BY <1>1, <2>2, <2>3, <2>4
<1>5. CASE /\ Stage /\ tx' = "busy" /\ txRing # <<>>
           /\ drops_uart_tx' = drops_uart_tx + lost
           /\ UNCHANGED <<last_uart_tx_err, faults>>
  <2>1. /\ staged' \in Seq(Bauds) /\ Len(staged') \in 1..TxBuf /\ staged' # <<>>
        /\ txRing' \in Seq(Bauds) /\ Len(txRing') <= TxCap
        /\ Len(staged') + Len(txRing') = Len(txRing)
        /\ tx_in_progress' = TRUE
    BY <1>5, StageSplits
  <2>2. Len(txRing') \in Nat
    BY <2>1, LenProperties
  <2>3. /\ sent' + drops_uart_tx' = sent + drops_uart_tx + Len(staged)
        /\ sent' \in Nat /\ drops_uart_tx' \in Nat /\ accepted' = accepted
    BY ONLY <1>2, <1>3, <1>5
  <2>4. Len(staged') \in Nat
    BY <2>1, LenProperties
  <2> DEFINE out    == sent'
             lostNow  == drops_uart_tx'
             chunk  == Len(staged')
             queued == Len(txRing')
  <2>5. /\ out \in Nat /\ lostNow \in Nat /\ chunk \in Nat /\ queued \in Nat
        /\ out + lostNow = sent + drops_uart_tx + Len(staged)
        /\ chunk + queued = Len(txRing) /\ accepted' = accepted
    BY ONLY <2>1, <2>2, <2>3, <2>4
  <2> HIDE DEF out, lostNow, chunk, queued
  <2>6. accepted = out + lostNow + chunk + queued /\ out \in 0..MaxBytes /\ lostNow \in 0..MaxBytes
    BY ONLY UartAssumption, <1>2, <2>5
  <2>7. TxAccounted'
    BY ONLY <2>5, <2>6 DEF out, lostNow, chunk, queued
  <2>8. drops_uart_tx' \in 0..MaxBytes /\ sent' \in 0..MaxBytes
    BY ONLY <2>6 DEF out, lostNow
  <2>9. Types'
    BY <1>3, <1>5, <2>1, <2>8
  <2>10. Staging' /\ OneTransfer' /\ TxPumped'
    BY <1>3, <1>5, <2>1
  <2>11. QED
    BY <1>1, <2>7, <2>9, <2>10
<1>6. CASE /\ txRing # <<>>
           /\ txRing' = SubSeq(txRing, Least(TxBuf, Len(txRing)) + 1, Len(txRing))
           /\ TxRefused(lost + Least(TxBuf, Len(txRing)))
  <2> DEFINE len == Least(TxBuf, Len(txRing))
  <2>1. len \in 0..Len(txRing)
    BY <1>2 DEF Least
  <2>2. /\ txRing' = SubSeq(txRing, len + 1, Len(txRing))
        /\ staged' = <<>> /\ tx' = "idle" /\ tx_in_progress' = FALSE
        /\ last_uart_tx_err' = TRUE /\ faults' \in 0..MaxFaults
    BY <1>6 DEF TxRefused, Fault
  <2> last_uart_tx_err' \in BOOLEAN /\ tx_in_progress' \in BOOLEAN
    BY <2>2, Zenon
  <2>3. drops_uart_tx' = drops_uart_tx + lost + len
    BY <1>2, <1>6, <2>1 DEF TxRefused
  <2> HIDE DEF len
  <2>4. /\ txRing' \in Seq(Bauds) /\ Len(txRing') = Len(txRing) - len
        /\ Len(staged') = 0 /\ staged' \in Seq(Bauds)
    BY <2>1, <2>2, Split, EmptySeq
  <2>5. TxAccounted' /\ drops_uart_tx' \in 0..MaxBytes /\ sent' \in 0..MaxBytes
    BY ONLY UartAssumption, <1>2, <1>3, <2>1, <2>3, <2>4
  <2> Len(txRing') <= TxCap /\ Len(staged') <= TxBuf
    BY <1>2, <2>1, <2>4
  <2>6. Types'
    BY <1>3, <2>2, <2>4, <2>5
  <2>7. Staging' /\ OneTransfer' /\ TxPumped'
    BY <1>3, <2>2
  <2>8. QED
    BY <1>1, <2>5, <2>6, <2>7
<1>7. QED
  BY <1>4, <1>5, <1>6 DEF NextTransfer, LostCounted

LEMMA TransmitterStep == ASSUME IInv, Transmitter PROVE IInv'
<1>1. CASE TxDone
  <2>1. 0 \in 0..Len(staged) /\ tx # "idle" /\ NextTransfer(0)
    BY <1>1, LenProperties DEF TxDone, IInv, Types, TxTypes
  <2>2. QED
    BY <2>1, TransferStep
<1>2. CASE \E lost \in 0..TxBuf : TxAborted(lost)
  BY <1>2, TransferStep DEF TxAborted
<1>3. QED
  BY <1>1, <1>2 DEF Transmitter

--------------------------------------------------------------------------------
\* Cooperative threads.

\* A step of a thread does not find the other in the middle of something.
LEMMA ThreadKeepsQuiet ==
  ASSUME IInv, Quiet, cooperative, Thread \/ Caller PROVE Quiet'
<1> USE DEF Quiet
<1>1. Claim /\ RxTypes
  BY ONLY IInv, Parts DEF RxInv
<1>2. wq = "idle"
  BY ONLY cooperative, Thread \/ Caller DEF Thread, Caller, MayRunBt
<1>3. CASE Caller
  BY ONLY <1>2, <1>3 DEF Caller, Send, SetBaud, rxv, txv
<1>4. CASE TxKick \/ TxStart
  BY ONLY <1>1, <1>2, <1>4 DEF TxKick, TxStart, Claim, Owned
<1>5. CASE BaudOwns \/ BaudTimesOut \/ BaudConfigures \/ BaudReleases \/ BaudAllocates
  BY ONLY <1>2, <1>5 DEF BaudOwns, BaudTimesOut, BaudConfigures, BaudReleases,
                         BaudAllocates, AfterRestart
<1>6. CASE BaudAborts
  BY ONLY <1>2, <1>6 DEF BaudAborts
<1>7. CASE BaudResets
  BY ONLY Quiet, <1>2, <1>7 DEF BaudResets, SignalReset, txv, rxv
<1>8. CASE BaudDisables
  BY ONLY Quiet, <1>2, <1>8 DEF BaudDisables, txv, baud
<1>9. CASE BaudQuiesced
  BY ONLY Quiet, <1>2, <1>9 DEF BaudQuiesced, txv, rxv
<1>10. CASE \E err \in EnableErrors : BaudEnables(err)
  BY ONLY <1>2, <1>10 DEF BaudEnables, AfterRestart
<1>11. QED
  BY <1>3, <1>4, <1>5, <1>6, <1>7, <1>8, <1>9, <1>10 DEF Thread

\* The workqueue and the interrupt leave reception off while set_baud owns it.
LEMMA OthersKeepQuiet ==
  ASSUME IInv, Quiet, cooperative,
         RetryStarts \/ Retry \/ Receiver \/ RxDisabled \/ Transmitter
  PROVE  Quiet'
<1> USE DEF Quiet
<1>1. Claim /\ RxTypes
  BY ONLY IInv, Parts DEF RxInv
<1>2. UNCHANGED bt /\ UNCHANGED reconfiguring
  BY ONLY RetryStarts \/ Retry \/ Receiver \/ RxDisabled \/ Transmitter
     DEF RetryStarts, Retry, RetryAllocates, RetryEnables, Receiver, RxBufRequest,
         RxBufReleased, RxStops, RxDisabled, Transmitter, TxDone, TxAborted, NextTransfer,
         baud
<1>3. CASE RetryStarts
  BY ONLY Quiet, cooperative, <1>2, <1>3 DEF RetryStarts, MayRunWq, rxv, txv, baud
<1>4. CASE Retry
  <2>1. bt \in {"idle", "baud_wait"}
    BY ONLY cooperative, <1>4 DEF Retry, MayRunWq
  <2>2. CASE RetryAllocates
    BY ONLY Quiet, <1>1, <1>2, <2>1, <2>2
       DEF RetryAllocates, Claim, Owned, txv, baud
  <2>3. CASE \E err \in EnableErrors : RetryEnables(err)
    BY ONLY Quiet, <1>2, <2>1, <2>3 DEF RetryEnables, txv
  <2>4. QED
    BY ONLY <1>4, <2>2, <2>3 DEF Retry
<1>5. CASE Receiver
  BY ONLY Quiet, <1>2, <1>5
     DEF Receiver, RxBufRequest, RxBufReleased, RxStops, txv, baud
<1>6. CASE RxDisabled
  BY ONLY Quiet, <1>1, <1>2, <1>6 DEF RxDisabled, Claim, Owned, txv
<1>7. CASE Transmitter
  <2>1. UNCHANGED <<wq, rx, rx_quiesced>> /\ (reconfiguring => tx' # "busy")
    BY ONLY <1>7 DEF Transmitter, TxDone, TxAborted, NextTransfer, TxRefused, rxv, baud
  <2>2. QED
    BY ONLY Quiet, <1>1, <1>2, <2>1 DEF Claim, Owned
<1>8. QED
  BY <1>3, <1>4, <1>5, <1>6, <1>7

--------------------------------------------------------------------------------
\* The theorems.

\* Whether the threads preempt each other does not change.
LEMMA ModeKept == ASSUME [Next]_vars PROVE cooperative' = cooperative
BY ONLY [Next]_vars
   DEF Next, Thread, Caller, RetryStarts, Retry, Receiver, RxDisabled, Transmitter, vars

\* The invariant holds in every state.
THEOREM Invariance == Spec => []IInv
<1>1. Init => IInv
  <2> SUFFICES ASSUME Init PROVE IInv
    OBVIOUS
  <2>1. <<>> \in Seq(Bauds) /\ Len(<<>>) = 0
    BY EmptySeq
  <2>2. /\ reconfiguring \in BOOLEAN /\ rx_quiesced \in BOOLEAN /\ retry \in BOOLEAN
        /\ tx_in_progress \in BOOLEAN /\ last_uart_tx_err \in BOOLEAN
    BY Zenon DEF Init
  <2>3. Types
    BY <2>1, <2>2 DEF Init, Types, RxTypes, Flags, Rates, TxTypes
  <2>4. RxInv
    BY DEF Init, RxInv, Claim, Owned, Held, SlabConserved, InHand, RxRecoverable
  <2>5. TxInv
    BY <2>1 DEF Init, TxInv, Staging, OneTransfer, TxAccounted, TxPumped
  <2>6. QED
    BY <2>3, <2>4, <2>5 DEF IInv
<1>2. IInv /\ [Next]_vars => IInv'
  <2> SUFFICES ASSUME IInv, [Next]_vars PROVE IInv'
    OBVIOUS
  <2>1. CASE Thread
    BY <2>1, SetBaudStep, RestartStep, SendStep DEF Thread
  <2>2. CASE Caller
    BY <2>2, SetBaudStep, SendStep DEF Caller
  <2>3. CASE RetryStarts \/ Retry
    BY <2>3, RetryStep
  <2>4. CASE Receiver \/ RxDisabled
    BY <2>4, ReceiverStep
  <2>5. CASE Transmitter
    BY <2>5, TransmitterStep
  <2>6. CASE UNCHANGED vars
    BY <2>6 DEF vars, IInv, Types, RxTypes, Flags, Rates, TxTypes, RxInv, Claim, Held,
                SlabConserved, InHand, RxRecoverable, TxInv, Staging, OneTransfer,
                TxAccounted, TxPumped
  <2>7. QED
    BY <2>1, <2>2, <2>3, <2>4, <2>5, <2>6 DEF Next
<1>3. QED
  BY <1>1, <1>2, PTL DEF Spec

\* The variables keep their types: no counter exceeds what has been accepted, no queue
\* its capacity.
THEOREM TypeCorrect == Spec => []TypeOK
<1>1. Init => cooperative \in BOOLEAN
  BY ONLY DEF Init
<1>2. cooperative \in BOOLEAN /\ [Next]_vars => (cooperative \in BOOLEAN)'
  BY ONLY ModeKept
<1>3. IInv /\ cooperative \in BOOLEAN => TypeOK
  BY ONLY DEF IInv, Types, RxTypes, Flags, Rates, TxTypes, TypeOK
<1>4. QED
  BY <1>1, <1>2, <1>3, Invariance, PTL DEF Spec

\* No buffer of the RX slab is ever lost, or freed twice.
THEOREM SlabKept == Spec => []SlabConserved
<1>1. IInv => SlabConserved
  BY DEF IInv, RxInv
<1>2. QED
  BY <1>1, Invariance, PTL

\* Reception that is off always has somebody about to start it again.
THEOREM RxComesBack == Spec => []RxRecoverable
<1>1. IInv => RxRecoverable
  BY DEF IInv, RxInv
<1>2. QED
  BY <1>1, Invariance, PTL

\* The interrupt and the thread never have two transfers under way.
THEOREM TxExclusive == Spec => []OneTransfer
<1>1. IInv => OneTransfer
  BY DEF IInv, TxInv
<1>2. QED
  BY <1>1, Invariance, PTL

\* Every byte taken for the serial line is sent, counted as dropped, or still held.
THEOREM TxCounted == Spec => []TxAccounted
<1>1. IInv => TxAccounted
  BY DEF IInv, TxInv
<1>2. QED
  BY <1>1, Invariance, PTL

\* Bytes in the transmit ring always have somebody to send them, unless a uart_tx has
\* been refused.
THEOREM TxKicked == Spec => []TxPumped
<1>1. IInv => TxPumped
  BY DEF IInv, TxInv
<1>2. QED
  BY <1>1, Invariance, PTL

\* With cooperative threads the rate changes only while reception is off and nothing but
\* an aborted transfer is left of transmission.
THEOREM QuietReconfigure == Spec => ConfiguredQuiet
<1>1. Init => (cooperative => Quiet)
  BY ONLY DEF Init, Quiet
<1>2. IInv /\ (cooperative => Quiet) /\ [Next]_vars => (cooperative => Quiet)'
  <2> SUFFICES ASSUME IInv, cooperative => Quiet, [Next]_vars, cooperative'
               PROVE  Quiet'
    OBVIOUS
  <2>1. cooperative /\ Quiet
    BY ModeKept
  <2>2. CASE Thread \/ Caller
    BY <2>1, <2>2, ThreadKeepsQuiet
  <2>3. CASE RetryStarts \/ Retry \/ Receiver \/ RxDisabled \/ Transmitter
    BY <2>1, <2>3, OthersKeepQuiet
  <2>4. CASE UNCHANGED vars
    BY ONLY <2>1, <2>4 DEF Quiet, vars, rxv, txv, baud
  <2>5. QED
    BY <2>2, <2>3, <2>4 DEF Next
<1>3. (cooperative => Quiet) /\ [Next]_vars
      => [cooperative /\ rate' # rate => rx = "off" /\ tx # "busy"]_vars
  <2> SUFFICES ASSUME Quiet, Next, rate' # rate PROVE rx = "off" /\ tx # "busy"
    BY DEF vars
  <2>1. BaudConfigures
    BY ONLY Next, rate' # rate
       DEF Next, Thread, Caller, Send, SetBaud, TxKick, TxStart, BaudOwns, BaudAborts,
           BaudResets, BaudDisables, BaudQuiesced, BaudTimesOut, BaudReleases,
           BaudAllocates, BaudEnables, RetryStarts, Retry, RetryAllocates, RetryEnables,
           Receiver, RxBufRequest, RxBufReleased, RxStops, RxDisabled, Transmitter,
           TxDone, TxAborted, NextTransfer, baud
  <2>2. QED
    BY ONLY Quiet, <2>1 DEF Quiet, BaudConfigures
<1>4. QED
  BY <1>1, <1>2, <1>3, Invariance, PTL DEF Spec, ConfiguredQuiet

================================================================================
