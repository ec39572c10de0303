--------------------------------- MODULE Forward ---------------------------------
(* Serial to phone: the UART interrupt fills the RX ring, ble_write_thread empties *)
(* it into notifications, and the link comes and goes meanwhile.                   *)
(*                                                                                 *)
(* Bytes are numbered in the order in which the UART receives them.  A hook that   *)
(* turns one byte into HookCopies bytes numbers its output in the same way.        *)
EXTENDS ProxyCore, Sequences

CONSTANTS
  RingCap,      \* bytes uart_rx_ringbuf holds
  ProcBufSize,  \* PROC_BUF_SIZE
  HookCopies,   \* bytes on_uart_rx makes of one: 1 in the code, which lets it grow
  Mtus,         \* what bt_gatt_get_mtu may report
  MaxBytes,     \* bound: bytes the UART receives
  MaxLinks,     \* bound: links
  MaxShortages  \* bound: bt_nus_send calls that find no buffer

ASSUME ForwardAssumption ==
  /\ RingCap \in Nat \ {0} /\ ProcBufSize \in Nat \ {0} /\ HookCopies \in Nat \ {0}
  /\ Mtus \subseteq Nat /\ Mtus # {}
  /\ MaxBytes \in Nat /\ MaxLinks \in Nat /\ MaxShortages \in Nat

VARIABLES
  ring,           \* uart_rx_ringbuf
  rx_data_ready,  \* the binary semaphore
  drops,          \* drops_uart_rx_ring
  current_conn, link_secure,
  bt,             \* the Bluetooth RX thread: "idle" or "wake"
  writer,         \* where ble_write_thread stands
  conn,           \* the connection it holds a reference to; 0 is none
  max_send, claimed, proc_buf, sent,  \* its locals
  \* the radio link and the phone
  up,             \* the link that is really there; 0 is none
  links,
  got,            \* what phones received: the byte and the link it came over
  \* auxiliary
  received,       \* bytes received by the UART
  arrival,        \* for each of them, the links that had ended by then
  ended,          \* links that have ended
  looked,         \* has the writer looked at the ring since the last of them?
  discarded,      \* hook output, or bytes worth as much, that the writer let go
  shortages

link   == <<current_conn, link_secure, up, links, ended>>
locals == <<conn, max_send, claimed, proc_buf, sent>>
serial == <<received, arrival, drops>>
vars   == <<ring, rx_data_ready, link, bt, writer, locals, got, serial, looked,
            discarded, shortages>>

Least(m, n) == IF m < n THEN m ELSE n

Positions == 1..(MaxBytes * HookCopies)

TypeOK ==
  /\ ring \in Seq(1..MaxBytes) /\ Len(ring) <= RingCap
  /\ rx_data_ready \in BOOLEAN /\ link_secure \in BOOLEAN /\ looked \in BOOLEAN
  /\ {current_conn, conn, up, links, ended} \subseteq 0..MaxLinks
  /\ bt \in {"idle", "wake"}
  /\ writer \in {"take", "look", "drain", "claim", "hook", "send", "unref"}
  /\ max_send \in Nat /\ claimed \in 0..RingCap
  /\ proc_buf \in Seq(Positions) /\ Len(proc_buf) <= ProcBufSize
  /\ sent \in 0..Len(proc_buf)
  /\ got \in Seq(Positions \X (1..MaxLinks))
  /\ received \in 0..MaxBytes /\ arrival \in Seq(0..MaxLinks) /\ drops \in 0..MaxBytes
  /\ discarded \in 0..(MaxBytes * HookCopies) /\ shortages \in 0..MaxShortages

Init ==
  /\ ring = <<>> /\ rx_data_ready = FALSE /\ drops = 0
  /\ current_conn = 0 /\ link_secure = FALSE /\ up = 0 /\ links = 0 /\ ended = 0
  /\ bt = "idle" /\ writer = "take"
  /\ conn = 0 /\ max_send = 0 /\ claimed = 0 /\ proc_buf = <<>> /\ sent = 0
  /\ got = <<>> /\ received = 0 /\ arrival = <<>>
  /\ looked = TRUE /\ discarded = 0 /\ shortages = 0

--------------------------------------------------------------------------------
\* The UART interrupt.

\* Mutant: the ring's capacity is not respected.
QueuedAll(len) == len

\* What ring_buf_put takes of len bytes.
Queued(len) == Least(len, RingCap - Len(ring))

\* drop_stats_rx_overflow: what ring_buf_put has not taken.
RxOverflow(attempted, queued) == IF queued < attempted THEN attempted - queued ELSE 0

\* UART_RX_RDY: what does not fit is dropped and counted; a wake-up for what does.
RxRdy(len) ==
  /\ received + len <= MaxBytes /\ received' = received + len
  /\ arrival' = arrival \o [i \in 1..len |-> ended]
  /\ ring' = ring \o [i \in 1..Queued(len) |-> received + i]
  /\ drops' = drops + RxOverflow(len, Queued(len))
  /\ rx_data_ready' = (rx_data_ready \/ Queued(len) > 0)
  /\ UNCHANGED <<link, bt, writer, locals, got, looked, discarded, shortages>>

--------------------------------------------------------------------------------
\* ble_write_thread.

WriterWakes ==
  /\ writer = "take" /\ rx_data_ready
  /\ rx_data_ready' = FALSE
  /\ writer' = "look"
  /\ UNCHANGED <<ring, link, bt, locals, got, serial, looked, discarded, shortages>>

WriterFindsNothing ==
  /\ writer = "look" /\ ring = <<>>
  /\ looked' = TRUE
  /\ writer' = "take"
  /\ UNCHANGED <<ring, rx_data_ready, link, bt, locals, got, serial, discarded, shortages>>

\* Under conn_mutex: a reference to a link that may have the data, ...
WriterTakesConn ==
  /\ writer = "look" /\ ring # <<>>
  /\ MayForward(current_conn # 0, link_secure)
  /\ conn' = current_conn
  /\ writer' = "claim"
  /\ UNCHANGED <<ring, rx_data_ready, link, bt, max_send, claimed, proc_buf, sent, got,
                 serial, looked, discarded, shortages>>

\* Mutant: the data is left for the next client.
RefusedKeeps == "take"

\* Nobody may have the data: discard it.
Refused == "drain"

\* ... or nobody may have it.
WriterRefuses ==
  /\ writer = "look" /\ ring # <<>>
  /\ ~MayForward(current_conn # 0, link_secure)
  /\ looked' = TRUE
  /\ writer' = Refused
  /\ UNCHANGED <<ring, rx_data_ready, link, bt, locals, got, serial, discarded, shortages>>

\* uart_bridge_rx_drain: claim and finish until nothing is left.
WriterDrains ==
  /\ writer = "drain"
  /\ writer' = IF ring = <<>> THEN "take" ELSE "drain"
  /\ ring' = <<>>
  /\ discarded' = discarded + HookCopies * Len(ring)
  /\ UNCHANGED <<rx_data_ready, link, bt, locals, got, serial, looked, shortages>>

\* The MTU is read for each chunk; a claim gets the contiguous part of the ring.
WriterClaims(mtu) ==
  /\ writer = "claim"
  /\ max_send' = ChunkLimit(mtu)
  /\ claimed' \in 1..Least(ChunkLimit(mtu), Len(ring))
  /\ writer' = "hook"
  /\ UNCHANGED <<ring, rx_data_ready, link, bt, conn, proc_buf, sent, got, serial, looked,
                 discarded, shortages>>

\* on_uart_rx: at most ProcBufSize bytes of output.
HookOutput(in) ==
  [i \in 1..Least(HookCopies * Len(in), ProcBufSize) |->
     HookCopies * (in[((i - 1) \div HookCopies) + 1] - 1) + ((i - 1) % HookCopies) + 1]

\* Mutant: the length of the hook's output is consumed.
FinishedOutput(out) == Len(out)

\* The ring bytes consumed: those claimed, not those the hook made of them.
Finished(out) == claimed

\* The hook's output is kept, and the claimed bytes consumed.
WriterHooks ==
  LET out == HookOutput(SubSeq(ring, 1, claimed)) IN
  /\ writer = "hook"
  /\ proc_buf' = out /\ sent' = 0
  /\ ring' = SubSeq(ring, Finished(out) + 1, Len(ring))
  /\ discarded' = discarded + HookCopies * claimed - Len(out)
  /\ writer' = "send"
  /\ UNCHANGED <<rx_data_ready, link, bt, conn, max_send, claimed, got, serial, looked,
                 shortages>>

\* What bt_nus_send may answer: nothing goes out over a link that is gone; a phone
\* that has not subscribed is an error too.
NusSendAnswers(err) ==
  \/ err = "0" /\ up = conn /\ UNCHANGED shortages
  \/ err \in {"ENOMEM", "EAGAIN"} /\ shortages < MaxShortages /\ shortages' = shortages + 1
  \/ err = "other" /\ UNCHANGED shortages

\* Mutant: a retry begins with the first slice.
ResumesFirst == 0

\* A retry resumes with the slice that was not taken.
Resumes == sent

\* send_processed: one slice after the other from proc_buf.
SendProcessed(err) ==
  LET slice == NextSlice(Len(proc_buf), sent, max_send) IN
  /\ writer = "send" /\ slice > 0
  /\ NusSendAnswers(err)
  /\ \/ /\ SendResult(err) = "consumed"
        /\ got' = got \o [i \in 1..slice |-> <<proc_buf[sent + i], conn>>]
        /\ sent' = sent + slice
        /\ UNCHANGED <<writer, discarded>>
     \/ /\ SendResult(err) = "retry"
        /\ sent' = Resumes
        /\ UNCHANGED <<got, writer, discarded>>
     \/ /\ SendResult(err) = "drop"
        /\ discarded' = discarded + Len(proc_buf) - sent
        /\ sent' = Len(proc_buf) /\ writer' = "unref"
        /\ UNCHANGED got
  /\ UNCHANGED <<ring, rx_data_ready, link, bt, conn, max_send, claimed, proc_buf, serial,
                 looked>>

SendProcessedEnds ==
  /\ writer = "send" /\ NextSlice(Len(proc_buf), sent, max_send) = 0
  /\ writer' = "unref"
  /\ UNCHANGED <<ring, rx_data_ready, link, bt, locals, got, serial, looked, discarded,
                 shortages>>

\* Mutant: one chunk per wake-up.
SleepsAfterChunk == "take"

\* The loop goes on until the ring is empty.
AfterChunk == "look"

\* The chunk is done with, and its locals are dead: look at the ring again.
WriterUnrefs ==
  /\ writer = "unref"
  /\ conn' = 0 /\ max_send' = 0 /\ claimed' = 0 /\ proc_buf' = <<>> /\ sent' = 0
  /\ writer' = AfterChunk
  /\ UNCHANGED <<ring, rx_data_ready, link, bt, got, serial, looked, discarded, shortages>>

--------------------------------------------------------------------------------
\* The link, as the Bluetooth RX thread sees it.

\* A phone connects, and on_connected runs.  The only connection object is free when
\* nobody, the writer included, refers to the previous link.
OnConnected ==
  /\ bt = "idle" /\ up = 0 /\ current_conn = 0 /\ conn = 0
  /\ links < MaxLinks /\ links' = links + 1
  /\ up' = links + 1 /\ current_conn' = links + 1 /\ link_secure' = FALSE
  /\ UNCHANGED <<ring, rx_data_ready, ended, bt, writer, locals, got, serial, looked,
                 discarded, shortages>>

\* on_security_changed.  Scanning, connecting and encrypting take far longer than the
\* writer, which runs whenever the threads above it sleep: it has looked since.
OnSecurityChanged ==
  /\ bt = "idle" /\ up # 0 /\ up = current_conn /\ ~link_secure
  /\ looked
  /\ link_secure' = TRUE
  /\ bt' = "wake"
  /\ UNCHANGED <<ring, rx_data_ready, current_conn, up, links, ended, writer, locals, got,
                 serial, looked, discarded, shortages>>

LinkDrops ==
  /\ up # 0
  /\ up' = 0
  /\ UNCHANGED <<ring, rx_data_ready, current_conn, link_secure, links, ended, bt, writer,
                 locals, got, serial, looked, discarded, shortages>>

\* on_disconnected lets go of the connection, ...
OnDisconnected ==
  /\ bt = "idle" /\ up = 0 /\ current_conn # 0
  /\ current_conn' = 0 /\ link_secure' = FALSE
  /\ ended' = ended + 1 /\ looked' = FALSE
  /\ bt' = "wake"
  /\ UNCHANGED <<ring, rx_data_ready, up, links, writer, locals, got, serial, discarded,
                 shortages>>

\* ... and, like on_security_changed, wakes the writer.
WakesWriter ==
  /\ bt = "wake"
  /\ rx_data_ready' = TRUE
  /\ bt' = "idle"
  /\ UNCHANGED <<ring, link, writer, locals, got, serial, looked, discarded, shortages>>

--------------------------------------------------------------------------------
Writer ==
  \/ WriterWakes \/ WriterFindsNothing \/ WriterTakesConn \/ WriterRefuses \/ WriterDrains
  \/ \E mtu \in Mtus : WriterClaims(mtu)
  \/ WriterHooks
  \/ \E err \in SendErrors : SendProcessed(err)
  \/ SendProcessedEnds \/ WriterUnrefs

Callbacks == OnDisconnected \/ WakesWriter

Next ==
  \/ \E len \in 1..RingCap : RxRdy(len)
  \/ Writer
  \/ Callbacks
  \/ OnConnected \/ OnSecurityChanged \/ LinkDrops

Spec == Init /\ [][Next]_vars

\* The writer and the callbacks are scheduled; a shortage of buffers passes (it is
\* bounded).  Nothing is assumed of the UART and of the phones.
FairSpec == Spec /\ WF_vars(Writer) /\ WF_vars(Callbacks)

--------------------------------------------------------------------------------
\* Safety.

\* No wake-up is lost: while there are bytes in the ring the writer is at work or the
\* semaphore is given, whatever the interrupt and the callbacks do between the
\* writer's last look and its sleep.
NoLostWakeup == ring # <<>> => rx_data_ready \/ writer # "take"

\* Phones receive a subsequence of what the serial line sent: no byte twice, none out
\* of order, through slices, retries, chunks and reconnections.
InOrderOnce == \A i, j \in 1..Len(got) : i < j => got[i][1] < got[j][1]

\* "the next client starts on a clean stream" (main.c, on_disconnected): a byte that
\* came before the previous link had ended does not go out over the next.
CleanStream ==
  \A i \in 1..Len(got) :
    arrival[(got[i][1] - 1) \div HookCopies + 1] = got[i][2] - 1

\* Every byte is delivered, in the ring, in the writer's hands, or counted where it
\* was let go: the ring is freed of what was claimed, not of what the hook made of it.
BytesAccounted ==
  HookCopies * (received - drops - Len(ring)) =
    Len(got) + discarded + (IF writer = "send" THEN Len(proc_buf) - sent ELSE 0)

--------------------------------------------------------------------------------
\* Liveness.

\* Nothing stays in the ring: it is forwarded or discarded, also when the link dies
\* under the writer.
RingEmpties == ring # <<>> ~> ring = <<>>

================================================================================
