------------------------------- MODULE UartBridge -------------------------------
(* uart_bridge.c: how reception stays alive, how the transmit ring is pumped, and *)
(* how a baud change takes both over and gives them back.  The RX ring and its    *)
(* consumer are left to module Forward.                                           *)
(*                                                                                *)
(* Threads: the Bluetooth RX thread, the only caller of uart_bridge_send and      *)
(* uart_bridge_set_baud, and the system workqueue with uart_rx_retry_handler.     *)
(* The UART interrupt (uart_cb) runs between their steps, never the other way     *)
(* round: each of its events is one step.                                         *)
EXTENDS Naturals, Sequences

CONSTANTS
  Bauds,      \* the baud rates in use
  FirstBaud,  \* the rate of the devicetree
  NumBufs,    \* buffers in uart_rx_slab
  TxCap,      \* bytes uart_tx_ringbuf holds
  TxBuf,      \* bytes of uart_tx_buf, the largest single transfer
  MaxBytes,   \* bound: bytes accepted for transmission
  MaxFaults   \* bound: calls into the driver that fail

ASSUME UartAssumption ==
  /\ FirstBaud \in Bauds
  /\ NumBufs \in Nat /\ NumBufs >= 2
  /\ TxCap \in Nat \ {0} /\ TxBuf \in Nat \ {0}
  /\ MaxBytes \in Nat /\ MaxFaults \in Nat

VARIABLES
  cooperative,        \* neither thread preempts the other, as by default in Zephyr
  bt, wq,             \* where the two threads stand
  target,             \* the rate set_baud was asked for
  reconfiguring,      \* uart_reconfiguring
  rx_quiesced,        \* the semaphore RX_DISABLED gives to set_baud
  retry,              \* uart_rx_retry_work is scheduled
  slab,               \* free buffers of uart_rx_slab
  txRing,             \* uart_tx_ringbuf: for each byte, the rate it was meant for
  staged,             \* uart_tx_buf, and uart_tx_len as its length
  tx_in_progress,
  drops_uart_tx, last_uart_tx_err,
  \* the driver and the wire
  rx,                 \* "on", "stopping" (RX_DISABLED is due) or "off"
  rxHeld,             \* buffers the driver holds
  tx,                 \* "idle", "busy" or "aborting" (TX_ABORTED is due)
  rate,               \* the rate that is live
  accepted, sent,     \* bytes taken into the ring, bytes put on the wire
  faults

rxv  == <<rx, rxHeld, slab>>
txv  == <<txRing, staged, tx_in_progress, drops_uart_tx, last_uart_tx_err, tx,
          accepted, sent>>
baud == <<target, reconfiguring, rx_quiesced, rate>>
vars == <<cooperative, bt, wq, retry, rxv, txv, baud, faults>>

TypeOK ==
  /\ cooperative \in BOOLEAN
  /\ bt \in {"idle", "baud_own", "baud_abort", "baud_reset", "baud_disable",
             "baud_wait", "baud_configure", "baud_release", "baud_alloc",
             "baud_enable", "tx_kick", "tx_start"}
  /\ wq \in {"idle", "retry", "retry_enable"}
  /\ target \in Bauds /\ rate \in Bauds
  /\ reconfiguring \in BOOLEAN /\ rx_quiesced \in BOOLEAN /\ retry \in BOOLEAN
  /\ slab \in 0..NumBufs /\ rxHeld \in 0..2
  /\ txRing \in Seq(Bauds) /\ Len(txRing) <= TxCap
  /\ staged \in Seq(Bauds) /\ Len(staged) <= TxBuf
  /\ tx_in_progress \in BOOLEAN /\ last_uart_tx_err \in BOOLEAN
  /\ rx \in {"on", "stopping", "off"} /\ tx \in {"idle", "busy", "aborting"}
  /\ accepted \in 0..MaxBytes /\ sent \in 0..MaxBytes /\ drops_uart_tx \in 0..MaxBytes
  /\ faults \in 0..MaxFaults

\* After a successful uart_bridge_init: reception runs with one buffer.
Init ==
  /\ cooperative \in BOOLEAN
  /\ bt = "idle" /\ wq = "idle"
  /\ target = FirstBaud /\ rate = FirstBaud
  /\ reconfiguring = FALSE /\ rx_quiesced = FALSE /\ retry = FALSE
  /\ slab = NumBufs - 1 /\ rxHeld = 1 /\ rx = "on"
  /\ txRing = <<>> /\ staged = <<>> /\ tx_in_progress = FALSE /\ tx = "idle"
  /\ drops_uart_tx = 0 /\ last_uart_tx_err = FALSE
  /\ accepted = 0 /\ sent = 0 /\ faults = 0

Fault == faults < MaxFaults /\ faults' = faults + 1

Least(m, n) == IF m < n THEN m ELSE n

\* A cooperative thread runs on until it has nothing to do or, in set_baud, waits.
MayRunBt == cooperative => wq = "idle"
MayRunWq == cooperative => bt \in {"idle", "baud_wait"}

--------------------------------------------------------------------------------
\* Reception.  A thread allocates a buffer in one step and enables reception with
\* it in the next; in between the interrupt may enable reception itself.

EnableErrors == {"0", "EBUSY", "other"}

\* Mutant: -EBUSY counts as success, and keeps the buffer.
BufBackIfRefused(err) == IF err = "other" THEN 1 ELSE 0

\* The driver keeps the buffer of an enable that succeeds; any other goes back.
BufBack(err) == IF err = "0" THEN 0 ELSE 1

\* uart_rx_enable(buf) and its answer: -EBUSY when reception is not off.
RxEnable(err) ==
  /\ CASE err = "0"     -> rx = "off" /\ UNCHANGED faults
       [] err = "EBUSY" -> rx # "off" /\ UNCHANGED faults
       [] err = "other" -> rx = "off" /\ Fault
  /\ IF err = "0" THEN rx' = "on" /\ rxHeld' = 1 ELSE UNCHANGED <<rx, rxHeld>>
  /\ slab' = slab + BufBack(err)

\* uart_rx_enable_succeeded: -EBUSY means that reception is running.
EnableSucceeded(err) == err \in {"0", "EBUSY"}

RetryStarts ==
  /\ wq = "idle" /\ retry /\ MayRunWq
  /\ retry' = FALSE /\ wq' = "retry"
  /\ UNCHANGED <<cooperative, bt, rxv, txv, baud, faults>>

\* uart_rx_retry_handler: leave RX to a reconfigure, else allocate or retry later.
RetryAllocates ==
  /\ wq = "retry"
  /\ \/ /\ reconfiguring
        /\ wq' = "idle" /\ UNCHANGED <<slab, retry>>
     \/ /\ ~reconfiguring /\ slab > 0
        /\ slab' = slab - 1 /\ wq' = "retry_enable" /\ UNCHANGED retry
     \/ /\ ~reconfiguring /\ slab = 0
        /\ retry' = TRUE /\ wq' = "idle" /\ UNCHANGED slab
  /\ UNCHANGED <<bt, rx, rxHeld, txv, baud, faults>>

RetryEnables(err) ==
  /\ wq = "retry_enable"
  /\ RxEnable(err)
  /\ retry' = (retry \/ ~EnableSucceeded(err))
  /\ wq' = "idle"
  /\ UNCHANGED <<bt, txv, baud>>

\* UART_RX_BUF_REQUEST: an empty slab is answered with nothing.
RxBufRequest ==
  /\ rx = "on" /\ rxHeld = 1 /\ slab > 0
  /\ rxHeld' = 2 /\ slab' = slab - 1
  /\ UNCHANGED <<bt, wq, retry, rx, txv, baud, faults>>

\* UART_RX_BUF_RELEASED: a full buffer, or the buffers of a receiver that stops.
RxBufReleased ==
  /\ (rx = "on" /\ rxHeld = 2) \/ (rx = "stopping" /\ rxHeld > 0)
  /\ rxHeld' = rxHeld - 1 /\ slab' = slab + 1
  /\ UNCHANGED <<bt, wq, retry, rx, txv, baud, faults>>

\* The driver runs out of buffers, or stops at a line error.
RxStops ==
  /\ rx = "on" /\ rx' = "stopping"
  /\ UNCHANGED <<bt, wq, retry, rxHeld, slab, txv, baud, faults>>

\* UART_RX_DISABLED: handed to a running reconfigure; otherwise one attempt inline
\* and, if that fails, the delayed retry.
RxDisabled ==
  /\ rx = "stopping" /\ rxHeld = 0
  /\ \/ /\ reconfiguring
        /\ rx_quiesced' = TRUE /\ rx' = "off"
        /\ UNCHANGED <<rxHeld, slab, faults, retry>>
     \/ /\ ~reconfiguring /\ slab > 0
        /\ rx' = "on" /\ rxHeld' = 1 /\ slab' = slab - 1
        /\ UNCHANGED <<faults, retry, rx_quiesced>>
     \/ /\ ~reconfiguring
        /\ rx' = "off" /\ retry' = TRUE
        /\ IF slab > 0 THEN Fault ELSE UNCHANGED faults
        /\ UNCHANGED <<rxHeld, slab, rx_quiesced>>
  /\ UNCHANGED <<cooperative, bt, wq, txv, target, reconfiguring, rate>>

--------------------------------------------------------------------------------
\* Transmission.

\* Mutant: a transfer in flight does not hold the pump.
MayKickTwice == ~reconfiguring /\ txRing # <<>>

\* uart_tx_kick under irq_lock: take the next bytes unless a transfer is in flight
\* or a reconfigure has suspended the pump.
MayKick == ~tx_in_progress /\ ~reconfiguring /\ txRing # <<>>

Stage ==
  LET len == Least(TxBuf, Len(txRing)) IN
  /\ staged' = SubSeq(txRing, 1, len)
  /\ txRing' = SubSeq(txRing, len + 1, Len(txRing))
  /\ tx_in_progress' = TRUE

\* A uart_tx that fails drops the staged bytes and counts them.
TxRefused(len) ==
  /\ Fault
  /\ drops_uart_tx' = drops_uart_tx + len /\ last_uart_tx_err' = TRUE
  /\ tx_in_progress' = FALSE /\ staged' = <<>> /\ tx' = "idle"

\* uart_bridge_send: what does not fit is dropped, and not accepted.
Send(n) ==
  /\ bt = "idle"
  /\ LET queued == Least(n, TxCap - Len(txRing)) IN
     /\ accepted + queued <= MaxBytes /\ accepted' = accepted + queued
     /\ txRing' = txRing \o [i \in 1..queued |-> rate]
  /\ bt' = "tx_kick"
  /\ UNCHANGED <<wq, retry, rxv, staged, tx_in_progress, drops_uart_tx,
                 last_uart_tx_err, tx, sent, baud, faults>>

\* uart_tx_kick in the thread: check and stage, ...
TxKick ==
  /\ bt = "tx_kick"
  /\ IF MayKick
       THEN Stage /\ bt' = "tx_start"
       ELSE UNCHANGED <<txRing, staged, tx_in_progress>> /\ bt' = "idle"
  /\ UNCHANGED <<wq, retry, rxv, drops_uart_tx, last_uart_tx_err, tx, accepted, sent,
                 baud, faults>>

\* ... then, interrupts enabled again, uart_tx.
TxStart ==
  /\ bt = "tx_start"
  /\ \/ tx' = "busy"
        /\ UNCHANGED <<faults, drops_uart_tx, last_uart_tx_err, tx_in_progress, staged>>
     \/ TxRefused(Len(staged))
  /\ bt' = "idle"
  /\ UNCHANGED <<wq, retry, rxv, txRing, accepted, sent, baud>>

\* Mutant: the remainder of an aborted transfer is not counted.
LostUncounted(lost) == 0

\* What an ended transfer adds to drops_uart_tx.
LostCounted(lost) == lost

\* uart_tx_kick in the interrupt, after a transfer of which `lost` bytes did not
\* get out: the next chunk is staged and started at once.
NextTransfer(lost) ==
  LET kick == ~reconfiguring /\ txRing # <<>>
      len  == Least(TxBuf, Len(txRing))
  IN
  /\ sent' = sent + Len(staged) - lost
  /\ \/ /\ ~kick
        /\ tx' = "idle" /\ tx_in_progress' = FALSE /\ staged' = <<>>
        /\ drops_uart_tx' = drops_uart_tx + LostCounted(lost)
        /\ UNCHANGED <<txRing, last_uart_tx_err, faults>>
     \/ /\ kick
        /\ Stage /\ tx' = "busy"
        /\ drops_uart_tx' = drops_uart_tx + LostCounted(lost)
        /\ UNCHANGED <<last_uart_tx_err, faults>>
     \/ /\ kick
        /\ txRing' = SubSeq(txRing, len + 1, Len(txRing))
        /\ TxRefused(LostCounted(lost) + len)
  /\ UNCHANGED <<bt, wq, retry, rxv, accepted, baud>>

\* UART_TX_DONE.
TxDone == tx = "busy" /\ NextTransfer(0)

\* UART_TX_ABORTED: the bytes that did not get out are counted.
TxAborted(lost) == tx = "aborting" /\ lost \in 0..Len(staged) /\ NextTransfer(lost)

--------------------------------------------------------------------------------
\* uart_bridge_set_baud.

\* The pending retry is cancelled, ...
SetBaud(b) ==
  /\ bt = "idle"
  /\ target' = b /\ retry' = FALSE
  /\ bt' = "baud_own"
  /\ UNCHANGED <<wq, rxv, txv, reconfiguring, rx_quiesced, rate, faults>>

\* ... the RX and TX state claimed, ...
BaudOwns ==
  /\ bt = "baud_own"
  /\ reconfiguring' = TRUE
  /\ bt' = "baud_abort"
  /\ UNCHANGED <<wq, retry, rxv, txv, target, rx_quiesced, rate, faults>>

\* ... a transfer in flight aborted, without waiting for it, ...
BaudAborts ==
  /\ bt = "baud_abort"
  /\ tx' = IF tx = "busy" THEN "aborting" ELSE tx
  /\ bt' = "baud_reset"
  /\ UNCHANGED <<wq, retry, rxv, txRing, staged, tx_in_progress, drops_uart_tx,
                 last_uart_tx_err, accepted, sent, baud, faults>>

\* Mutant: a signal of an earlier baud change is left.
SignalLeft == rx_quiesced

\* rx_quiesced after k_sem_reset.
SignalReset == FALSE

\* ... a stale signal taken back, ...
BaudResets ==
  /\ bt = "baud_reset"
  /\ rx_quiesced' = SignalReset
  /\ bt' = "baud_disable"
  /\ UNCHANGED <<wq, retry, rxv, txv, target, reconfiguring, rate, faults>>

\* ... and reception disabled: -EFAULT says that it was off already, any other
\* error gives up.
BaudDisables ==
  /\ bt = "baud_disable"
  /\ \/ rx # "off" /\ rx' = "stopping" /\ bt' = "baud_wait" /\ UNCHANGED faults
     \/ rx = "off" /\ bt' = "baud_configure" /\ UNCHANGED <<rx, faults>>
     \/ Fault /\ bt' = "baud_release" /\ UNCHANGED rx
  /\ UNCHANGED <<wq, retry, rxHeld, slab, txv, baud>>

BaudQuiesced ==
  /\ bt = "baud_wait" /\ rx_quiesced
  /\ rx_quiesced' = FALSE
  /\ bt' = "baud_configure"
  /\ UNCHANGED <<wq, retry, rxv, txv, target, reconfiguring, rate, faults>>

\* 200 ms are over.
BaudTimesOut ==
  /\ bt = "baud_wait" /\ ~rx_quiesced
  /\ bt' = "baud_release"
  /\ UNCHANGED <<wq, retry, rxv, txv, baud, faults>>

\* uart_config_get and uart_configure.
BaudConfigures ==
  /\ bt = "baud_configure"
  /\ \/ rate' = target /\ UNCHANGED faults
     \/ Fault /\ UNCHANGED rate
  /\ bt' = "baud_release"
  /\ UNCHANGED <<wq, retry, rxv, txv, target, reconfiguring, rx_quiesced>>

\* Mutant: the claim is never given back.
ClaimKept == reconfiguring

\* uart_reconfiguring after the change, whatever has become of it.
ClaimReleased == FALSE

\* restart: the claim is given back, ...
BaudReleases ==
  /\ bt = "baud_release"
  /\ reconfiguring' = ClaimReleased
  /\ bt' = "baud_alloc"
  /\ UNCHANGED <<wq, retry, rxv, txv, target, rx_quiesced, rate, faults>>

\* Mutant: the pump is not kicked after the restart.
ReturnsUnpumped == "idle"

\* Reception started or not, the pump is kicked.
AfterRestart == "tx_kick"

\* ... reception started again (uart_bridge_start_rx), or left to the retry, ...
BaudAllocates ==
  /\ bt = "baud_alloc"
  /\ IF slab > 0
       THEN slab' = slab - 1 /\ bt' = "baud_enable" /\ UNCHANGED retry
       ELSE UNCHANGED slab /\ bt' = AfterRestart /\ retry' = TRUE
  /\ UNCHANGED <<wq, rx, rxHeld, txv, baud, faults>>

\* Mutant: the restart is not retried.
RestartsOnce(err) == FALSE

\* Unlike in the retry, -EBUSY counts as a failure.
RestartRetried(err) == err # "0"

\* ... with what comes of it.
BaudEnables(err) ==
  /\ bt = "baud_enable"
  /\ RxEnable(err)
  /\ retry' = (retry \/ RestartRetried(err))
  /\ bt' = AfterRestart
  /\ UNCHANGED <<wq, txv, baud>>

--------------------------------------------------------------------------------
Thread ==
  /\ MayRunBt /\ UNCHANGED cooperative
  /\ \/ TxKick \/ TxStart
     \/ BaudOwns \/ BaudAborts \/ BaudResets \/ BaudDisables \/ BaudQuiesced
     \/ BaudTimesOut \/ BaudConfigures \/ BaudReleases \/ BaudAllocates
     \/ \E err \in EnableErrors : BaudEnables(err)

Caller ==
  /\ MayRunBt /\ UNCHANGED cooperative
  /\ (\E n \in 1..TxCap : Send(n)) \/ (\E b \in Bauds : SetBaud(b))

Retry ==
  /\ MayRunWq /\ UNCHANGED cooperative
  /\ RetryAllocates \/ \E err \in EnableErrors : RetryEnables(err)

Receiver == (RxBufRequest \/ RxBufReleased \/ RxStops) /\ UNCHANGED cooperative

Transmitter ==
  (TxDone \/ \E lost \in 0..TxBuf : TxAborted(lost)) /\ UNCHANGED cooperative

Next ==
  \/ Thread \/ Caller
  \/ RetryStarts \/ Retry
  \/ Receiver \/ RxDisabled
  \/ Transmitter

Spec == Init /\ [][Next]_vars

\* The threads run and the delay of the retry elapses.  Nothing is asked of the
\* driver: an event it owes may never come.
Fairness == WF_vars(Thread) /\ WF_vars(RetryStarts) /\ WF_vars(Retry)

FairSpec == Spec /\ Fairness

--------------------------------------------------------------------------------
\* Safety.

\* Buffers a thread has allocated and not yet handed on.
InHand == (IF wq = "retry_enable" THEN 1 ELSE 0) + (IF bt = "baud_enable" THEN 1 ELSE 0)

\* No RX buffer is lost or freed twice, whichever of the three restart paths runs
\* into -EBUSY, a refused enable or an empty slab.
SlabConserved == slab + rxHeld + InHand = NumBufs

\* Reception that is off has somebody who will start it again: the retry, a handler
\* at work, or a baud change before its restart.  (A receiver that is stopping still
\* owes RX_DISABLED.)
RxRecoverable ==
  rx = "off" =>
    \/ retry \/ wq = "retry_enable"
    \/ wq = "retry" /\ ~reconfiguring
    \/ bt \in {"baud_own", "baud_abort", "baud_reset", "baud_disable", "baud_wait",
               "baud_configure", "baud_release", "baud_alloc", "baud_enable"}

\* One transfer at a time: while the driver sends, the flag is set, the staging
\* buffer holds what it sends, and the thread is not about to call uart_tx.
OneTransfer ==
  tx # "idle" => tx_in_progress /\ staged # <<>> /\ bt # "tx_start"

\* Every byte accepted is on the wire, counted as dropped, staged or still queued,
\* across aborted and refused transfers and baud changes.
TxAccounted ==
  accepted = sent + drops_uart_tx + Len(staged) + Len(txRing)

\* Queued bytes have somebody to send them: a transfer in flight, a kick under way,
\* or a baud change that ends with one.  Only after a refused uart_tx do they wait for
\* the next send.
TxPumped ==
  txRing # <<>> => tx_in_progress \/ bt # "idle" \/ last_uart_tx_err

\* "so the auto-restart work and the TX pump can't fight the reconfigure" (set_baud): if
\* the threads are cooperative, the rate changes only while reception is off, whatever
\* signal of an earlier change, retry or late RX_DISABLED is about, and with no transfer
\* but one that is being aborted.
ConfiguredQuiet ==
  [][cooperative /\ rate' # rate => rx = "off" /\ tx # "busy"]_vars

\* "any in-flight or buffered bytes are dropped" by a baud change (uart_bridge.h):
\* no byte queued for the old rate is sent at the new one.
StaleBytesDropped ==
  tx = "busy" => \A i \in 1..Len(staged) : staged[i] = rate

--------------------------------------------------------------------------------
\* Liveness.

\* Reception is never off for good: after refused calls, an empty slab, timeouts and
\* overlapping baud changes it is enabled again.  (A receiver that is stopping waits
\* for the driver's RX_DISABLED.)
RxNeverDead == []<>(rx # "off")

================================================================================
