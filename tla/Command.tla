--------------------------------- MODULE Command ---------------------------------
(* nus_received, in the Bluetooth RX thread: a write of the phone is a command,    *)
(* which is carried out and acknowledged by an echo, or data for the serial line.  *)
(* The phone tells from the echo, or its absence, what has become of a command.    *)
(* What undoes a command later is here too: the release of the relay after the     *)
(* link has dropped, and a power cycle.                                            *)
EXTENDS ProxyCore, ProxyCommand

CONSTANTS
  Writes,     \* what the phone may write
  HasRelay,   \* does the board overlay define the relay-control alias?
  FirstBaud,  \* the rate of the devicetree
  MaxLinks,   \* bound: links
  MaxWrites,  \* bound: writes
  MaxBoots    \* bound: power cycles

ASSUME CommandAssumption ==
  /\ Writes \subseteq Seq(Bytes)
  /\ HasRelay \in BOOLEAN
  /\ FirstBaud \in Nat
  /\ MaxLinks \in Nat /\ MaxWrites \in Nat /\ MaxBoots \in Nat

MaxTries == 5  \* of cmd_ack_send

VARIABLES
  connected,     \* current_conn is set
  link_secure,
  bt,            \* where nus_received stands
  write,         \* the write it handles
  tries,
  relay_enabled,
  grace,         \* relay_grace_work is scheduled
  wq,            \* "idle", or "grace": an expiry has begun
  baud,          \* the rate of the UART
  toSerial,      \* writes handed to uart_bridge_send
  \* the radio link and the phone
  up, links,
  phone,         \* "idle", or what it believes of its command
  echoes,        \* notifications of the echo on their way
  \* auxiliary
  applied,       \* has the command on hand been carried out?
  heard,         \* echoes of it that have arrived
  passed,        \* data written over a secure link
  dropped,       \* the link has dropped since the last write, ...
  restarted,     \* ... the device has restarted since
  writes, boots

release == <<grace, wq>>
device == <<relay_enabled, release, baud, toSerial>>
radio  == <<up, links, connected, link_secure>>
since  == <<dropped, restarted, boots>>
aux    == <<applied, heard, passed, since, writes>>
vars   == <<device, radio, bt, write, tries, phone, echoes, aux>>

TypeOK ==
  /\ {connected, link_secure, up} \subseteq BOOLEAN /\ links \in 0..MaxLinks
  /\ bt \in {"idle", "relay", "baud", "ack", "forward"}
  /\ write \in Writes \cup {<<>>}
  /\ tries \in 0..MaxTries - 1
  /\ {relay_enabled, grace} \subseteq BOOLEAN /\ wq \in {"idle", "grace"}
  /\ baud \in Nat
  /\ toSerial \in Seq(Writes) /\ passed \in Seq(Writes)
  /\ phone \in {"idle", "waiting", "confirmed", "unconfirmed"}
  /\ echoes \in 0..MaxTries /\ heard \in 0..MaxTries
  /\ {applied, dropped, restarted} \subseteq BOOLEAN
  /\ writes \in 0..MaxWrites /\ boots \in 0..MaxBoots

Init ==
  /\ connected = FALSE /\ link_secure = FALSE /\ up = FALSE /\ links = 0
  /\ bt = "idle" /\ write = <<>> /\ tries = 0
  /\ relay_enabled = FALSE /\ grace = FALSE /\ wq = "idle"
  /\ baud = FirstBaud /\ toSerial = <<>>
  /\ phone = "idle" /\ echoes = 0
  /\ applied = FALSE /\ heard = 0 /\ passed = <<>>
  /\ dropped = FALSE /\ restarted = FALSE /\ writes = 0 /\ boots = 0

--------------------------------------------------------------------------------
\* The phone and the link.

PhoneConnects ==
  /\ ~up /\ ~connected /\ bt = "idle"
  /\ links < MaxLinks /\ links' = links + 1
  /\ up' = TRUE /\ connected' = TRUE
  /\ UNCHANGED <<device, link_secure, bt, write, tries, phone, echoes, aux>>

\* The owner is back: the release of the relay is cancelled, unless it has begun.
OnSecurityChanged ==
  /\ bt = "idle" /\ up
  /\ link_secure' = TRUE /\ grace' = FALSE
  /\ UNCHANGED <<relay_enabled, wq, baud, toSerial, up, links, connected, bt, write, tries,
                 phone, echoes, aux>>

\* Echoes that are still on their way are lost with the link.
LinkDrops ==
  /\ up
  /\ up' = FALSE /\ echoes' = 0
  /\ dropped' = TRUE
  /\ UNCHANGED <<device, links, connected, link_secure, bt, write, tries, phone, applied,
                 heard, passed, restarted, writes, boots>>

\* on_disconnected waits, in the same thread, for nus_received to return, and leaves a
\* relay that is on to relay_grace_start.
OnDisconnected ==
  /\ bt = "idle" /\ ~up /\ connected
  /\ connected' = FALSE /\ link_secure' = FALSE
  /\ grace' = (grace \/ relay_enabled)
  /\ UNCHANGED <<relay_enabled, wq, baud, toSerial, up, links, bt, write, tries, phone, echoes,
                 aux>>

PhoneHears ==
  /\ up /\ echoes > 0
  /\ echoes' = echoes - 1 /\ heard' = heard + 1
  /\ phone' = "confirmed"
  /\ UNCHANGED <<device, radio, bt, write, tries, applied, passed, since, writes>>

\* No echo has come, and none will.
PhoneGivesUp ==
  /\ phone = "waiting" /\ bt = "idle" /\ echoes = 0
  /\ phone' = "unconfirmed"
  /\ UNCHANGED <<device, radio, bt, write, tries, echoes, aux>>

--------------------------------------------------------------------------------
\* What undoes a command.

\* The workqueue takes up relay_grace_work, at some time after it was scheduled, ...
GraceStarts ==
  /\ wq = "idle" /\ grace
  /\ wq' = "grace" /\ grace' = FALSE
  /\ UNCHANGED <<relay_enabled, baud, toSerial, radio, bt, write, tries, phone, echoes, aux>>

\* Mutant: the handler does not look again at the link.
NeverBack == FALSE

\* The owner came back while the expiry was under way.
Back == connected /\ link_secure

\* ... and relay_grace_handler releases the relay.
GraceExpires ==
  /\ wq = "grace"
  /\ relay_enabled' = (relay_enabled /\ Back)
  /\ wq' = "idle"
  /\ UNCHANGED <<grace, baud, toSerial, radio, bt, write, tries, phone, echoes, aux>>

\* The device comes up again as it did at first; the phone keeps what it believes.
PowerCycle ==
  /\ boots < MaxBoots /\ boots' = boots + 1
  /\ relay_enabled' = FALSE /\ grace' = FALSE /\ wq' = "idle"
  /\ baud' = FirstBaud /\ toSerial' = <<>> /\ passed' = <<>>
  /\ connected' = FALSE /\ link_secure' = FALSE /\ up' = FALSE /\ echoes' = 0
  /\ bt' = "idle" /\ tries' = 0
  /\ dropped' = TRUE /\ restarted' = TRUE
  /\ UNCHANGED <<links, write, phone, applied, heard, writes>>

--------------------------------------------------------------------------------
\* nus_received.

\* Mutant: what is framed but refused falls through to the serial line.
HandlerInjects(kind) ==
  CASE kind \in {"relay_enable", "relay_disable"} -> "relay"
    [] kind = "set_baud" -> "baud"
    [] OTHER -> "forward"

\* What a classified write leads to.
Handler(kind) ==
  CASE kind \in {"relay_enable", "relay_disable"} -> "relay"
    [] kind = "set_baud" -> "baud"
    [] kind = "none" -> "forward"
    [] kind = "invalid" -> "idle"

\* The write arrives; the phone awaits one command's fate before the next write.  It is
\* dropped unless the link is secure, or classified.
NusReceived(w) ==
  /\ up /\ bt = "idle" /\ phone # "waiting" /\ echoes = 0
  /\ writes < MaxWrites /\ writes' = writes + 1
  /\ phone' = IF Actionable(w) THEN "waiting" ELSE "idle"
  /\ applied' = FALSE /\ heard' = 0 /\ tries' = 0
  /\ dropped' = FALSE /\ restarted' = FALSE
  /\ IF link_secure
       THEN /\ bt' = Handler(CmdKind(w)) /\ write' = w
            /\ passed' = IF CmdKind(w) = "none" THEN Append(passed, w) ELSE passed
       ELSE UNCHANGED <<bt, write, passed>>
  /\ UNCHANGED <<device, radio, echoes, boots>>

\* relay_set supersedes the release; a board without a relay logs the command.
RelaySet ==
  /\ bt = "relay"
  /\ relay_enabled' = (HasRelay /\ CmdKind(write) = "relay_enable")
  /\ grace' = FALSE
  /\ applied' = TRUE
  /\ bt' = "ack"
  /\ UNCHANGED <<wq, baud, toSerial, radio, write, tries, phone, echoes, heard, passed, since,
                 writes>>

\* A failed change is not acknowledged.
AfterBaud(ok) == IF ok THEN "ack" ELSE "idle"

\* uart_bridge_set_baud (module UartBridge): an error keeps the old rate.
UartSetBaud(ok) ==
  /\ bt = "baud"
  /\ baud' = IF ok THEN Le32(write) ELSE baud
  /\ applied' = ok
  /\ bt' = AfterBaud(ok)
  /\ UNCHANGED <<relay_enabled, release, toSerial, radio, write, tries, phone, echoes, heard,
                 passed, since, writes>>

\* bt_nus_send of the echo.
NusSendAnswers(err) ==
  \/ err = "0" /\ up
  \/ err # "0"

\* Mutant: the loop goes on after the echo has been taken.
AgainUnlessDropped(err) == SendResult(err) # "drop" /\ tries + 1 < MaxTries

\* Only a shortage of buffers is worth another try, and MaxTries bounds them.
Again(err) == SendResult(err) = "retry" /\ tries + 1 < MaxTries

\* Mutant: the count of the tries starts again before it reaches the limit.
NextTryWraps == (tries + 1) % (MaxTries - 1)

NextTry == tries + 1

\* One round of cmd_ack_send: the echo is taken, or there is no buffer, or it is given
\* up.  bt_nus_send has taken it over once, at most.
CmdAckSend(err) ==
  /\ bt = "ack" /\ NusSendAnswers(err)
  /\ echoes' = IF SendResult(err) = "consumed" THEN echoes + 1 ELSE echoes
  /\ IF Again(err)
       THEN tries' = NextTry /\ UNCHANGED bt
       ELSE bt' = "idle" /\ UNCHANGED tries
  /\ UNCHANGED <<device, radio, write, phone, aux>>

\* on_ble_rx passes the write on, and uart_bridge_send queues it.
UartSend ==
  /\ bt = "forward"
  /\ toSerial' = Append(toSerial, write)
  /\ bt' = "idle"
  /\ UNCHANGED <<relay_enabled, release, baud, radio, write, tries, phone, echoes, aux>>

--------------------------------------------------------------------------------
NusHandler ==
  \/ RelaySet
  \/ \E ok \in BOOLEAN : UartSetBaud(ok)
  \/ \E err \in SendErrors : CmdAckSend(err)
  \/ UartSend

Phone ==
  \/ PhoneConnects \/ OnSecurityChanged \/ LinkDrops
  \/ PhoneHears \/ PhoneGivesUp
  \/ \E w \in Writes : NusReceived(w)

Undone == GraceStarts \/ GraceExpires \/ PowerCycle

Next == NusHandler \/ OnDisconnected \/ Phone \/ Undone

Spec == Init /\ [][Next]_vars

\* The Bluetooth RX thread is scheduled.
FairSpec == Spec /\ WF_vars(NusHandler) /\ WF_vars(OnDisconnected)

--------------------------------------------------------------------------------
\* Safety.

\* What is left of the command on hand.  A relay that is on is released some time after
\* the link has dropped, and a rate lasts until the device restarts.
Effect ==
  CASE CmdKind(write) = "relay_enable"  -> dropped \/ relay_enabled = HasRelay
    [] CmdKind(write) = "relay_disable" -> ~relay_enabled
    [] CmdKind(write) = "set_baud"      -> restarted \/ baud = Le32(write)
    [] OTHER -> FALSE

\* "the phone's echo means the new rate is live" (main.c, nus_received), and so for the
\* relay: an echo that is heard is one of a command that has been carried out, and no
\* release left over from an earlier link undoes it.  A relay that was enabled stays on
\* while that link lasts, one that was disabled stays off, across links and restarts,
\* and a rate stays until the device restarts.
EchoMeansApplied == phone = "confirmed" => applied /\ Effect

\* A command is echoed once at most: a retry follows only a notification that was not
\* taken.
OneEcho == heard + echoes <= 1

\* "a framed control packet is never forwarded to the motor" (proxy_core.h), and data
\* is forwarded once, in order, and only if it came over a secure link.
OnlyDataForwarded ==
  /\ \A i \in 1..Len(toSerial) : ~Framed(toSerial[i])
  /\ passed = toSerial \o (IF bt = "forward" THEN <<write>> ELSE <<>>)

\* What a wrong byte, a lost tail or a byte too many makes of a command.
Corrupted(c) ==
  ({[c EXCEPT ![i] = byte] : i \in DOMAIN c, byte \in Bytes} \ {c})
    \cup {SubSeq(c, 1, len) : len \in 0..Len(c) - 1} \cup {Append(c, 0)}

\* "A corrupted or mis-framed write" (comment of cmd_checksum) is ordinary data: no
\* wrong byte, wherever it is, in the command about to be carried out would have made
\* another command of it, nor one that is refused.
CorruptionDetected ==
  bt \in {"relay", "baud"} => \A w \in Corrupted(write) : CmdKind(w) = "none"

\* "No echo = not applied" (RELAY_COMMAND.md).
NoEchoNotApplied == phone = "unconfirmed" => ~applied

--------------------------------------------------------------------------------
\* Liveness.

\* The Bluetooth RX thread gets out of every command, also when the link dies or there
\* is never a buffer for the echo.
HandlerReturns == bt # "idle" ~> bt = "idle"

================================================================================
