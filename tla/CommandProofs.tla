------------------------------ MODULE CommandProofs ------------------------------
(* Proofs about ProxyCommand and Command, for whatever the phone writes.            *)
EXTENDS Command, SequenceTheorems, TLAPS

--------------------------------------------------------------------------------
\* The checksum.

\* f is the running sum of the bytes of a packet, up to its byte n.
RunningSum(f, in, n) ==
  f = [i \in 0..n |-> IF i = 0 THEN 0 ELSE (f[i - 1] + in[i]) % 256]

Packets == [1..PROXY_CMD_PACKET_LEN -> Bytes]

\* There is one: a running sum up to a byte can be continued.
LEMMA SumContinues ==
  ASSUME NEW in, NEW n \in Nat, \E f : RunningSum(f, in, n)
  PROVE  \E f : RunningSum(f, in, n + 1)
<1> PICK f : RunningSum(f, in, n)
  OBVIOUS
<1> DEFINE g == [i \in 0..n + 1 |-> IF i = n + 1 THEN (f[n] + in[n + 1]) % 256 ELSE f[i]]
<1>1. ASSUME NEW i \in 0..n + 1
      PROVE  g[i] = IF i = 0 THEN 0 ELSE (g[i - 1] + in[i]) % 256
  <2>1. CASE i = n + 1
    <3>1. g[i - 1] = f[n] /\ i # 0
      BY <2>1
    <3>2. QED
      BY <2>1, <3>1
  <2>2. CASE i # n + 1
    <3>1. i \in 0..n /\ g[i] = f[i]
      BY <2>2
    <3>2. i # 0 => g[i - 1] = f[i - 1]
      BY <2>2
    <3>3. QED
      BY <3>1, <3>2 DEF RunningSum
  <2>3. QED
    BY <2>1, <2>2
<1>2. g = [i \in 0..n + 1 |-> IF i = 0 THEN 0 ELSE (g[i - 1] + in[i]) % 256]
  BY <1>1
<1>3. QED
  BY <1>2 DEF RunningSum

LEMMA SumExists == ASSUME NEW in PROVE \E f : RunningSum(f, in, 15)
<1> DEFINE E(n) == \E f : RunningSum(f, in, n)
<1>1. E(0)
  <2>1. RunningSum([i \in 0..0 |-> 0], in, 0)
    BY DEF RunningSum
  <2>2. QED
    BY <2>1
<1>2. \A n \in 0..14 : E(n) => E(n + 1)
  BY SumContinues
<1> HIDE DEF E
<1>3. E(5)
  BY <1>1, <1>2
<1>4. E(10)
  BY <1>2, <1>3
<1>5. E(15)
  BY <1>2, <1>4
<1>6. QED
  BY <1>5 DEF E

\* The checksum is the end of a running sum.
LEMMA ChecksumIsSum ==
  ASSUME NEW in
  PROVE  \E f : RunningSum(f, in, 15) /\ CmdChecksum(in) = f[15]
<1> DEFINE f == CHOOSE g : RunningSum(g, in, 15)
<1>1. RunningSum(f, in, 15)
  BY SumExists
<1>2. CmdChecksum(in) = f[15]
  BY DEF CmdChecksum, RunningSum, PROXY_CMD_PACKET_LEN
<1>3. QED
  BY <1>1, <1>2

\* Two packets that differ in one byte have different checksums, unless that byte is
\* the checksum itself.
LEMMA ChecksumDiffers ==
  ASSUME NEW c \in Packets, NEW d \in Packets, NEW j \in 1..PROXY_CMD_PACKET_LEN,
         \A i \in 1..PROXY_CMD_PACKET_LEN : c[i] = d[i] <=> i # j
  PROVE  CmdChecksum(c) = CmdChecksum(d) <=> j = PROXY_CMD_PACKET_LEN
<1> PICK f : RunningSum(f, c, 15) /\ CmdChecksum(c) = f[15]
  BY ChecksumIsSum
<1> PICK g : RunningSum(g, d, 15) /\ CmdChecksum(d) = g[15]
  BY ChecksumIsSum
<1> DEFINE P(n) == /\ f[n] \in Bytes /\ g[n] \in Bytes
                   /\ f[n] = g[n] <=> n < j
<1>1. P(0)
  BY DEF RunningSum, Bytes, PROXY_CMD_PACKET_LEN
<1>2. ASSUME NEW n \in 0..14, P(n) PROVE P(n + 1)
  <2>1. f[n + 1] = (f[n] + c[n + 1]) % 256 /\ g[n + 1] = (g[n] + d[n + 1]) % 256
    BY DEF RunningSum
  <2>2. c[n + 1] \in Bytes /\ d[n + 1] \in Bytes /\ (c[n + 1] = d[n + 1] <=> n + 1 # j)
    BY DEF Packets, PROXY_CMD_PACKET_LEN
  <2> DEFINE a == f[n]  b == g[n]  x == c[n + 1]  y == d[n + 1]
  <2>3. a \in 0..255 /\ b \in 0..255 /\ x \in 0..255 /\ y \in 0..255
    BY <1>2, <2>2 DEF Bytes
  <2> HIDE DEF a, b, x, y
  <2>4. (a + x) % 256 = IF a + x < 256 THEN a + x ELSE a + x - 256
    BY <2>3
  <2>5. (b + y) % 256 = IF b + y < 256 THEN b + y ELSE b + y - 256
    BY <2>3
  <2>6. /\ (a + x) % 256 \in 0..255 /\ (b + y) % 256 \in 0..255
        /\ (a = b => ((a + x) % 256 = (b + y) % 256 <=> x = y))
        /\ (x = y => ((a + x) % 256 = (b + y) % 256 <=> a = b))
    BY <2>3, <2>4, <2>5
  <2>7. /\ f[n + 1] \in Bytes /\ g[n + 1] \in Bytes
        /\ (f[n] = g[n] => (f[n + 1] = g[n + 1] <=> c[n + 1] = d[n + 1]))
        /\ (c[n + 1] = d[n + 1] => (f[n + 1] = g[n + 1] <=> f[n] = g[n]))
    <3>1. a = f[n] /\ b = g[n] /\ x = c[n + 1] /\ y = d[n + 1]
      BY DEF a, b, x, y
    <3> DEFINE u == (a + x) % 256  v == (b + y) % 256
    <3>2. f[n + 1] = u /\ g[n + 1] = v
      BY ONLY <2>1 DEF a, b, x, y
    <3>3. /\ u \in 0..255 /\ v \in 0..255
          /\ a = b => (u = v <=> x = y)
          /\ x = y => (u = v <=> a = b)
      BY ONLY <2>6
    <3> HIDE DEF u, v
    <3>4. QED
      BY ONLY <3>1, <3>2, <3>3 DEF Bytes
  <2>8. QED
    BY <1>2, <2>2, <2>7 DEF PROXY_CMD_PACKET_LEN
<1> HIDE DEF P
<1>3. \A n \in 0..14 : P(n) => P(n + 1)
  BY <1>2
<1>4. P(5)
  BY <1>1, <1>3
<1>5. P(10)
  BY <1>3, <1>4
<1>6. P(15)
  BY <1>3, <1>5
<1>7. QED
  BY <1>6 DEF P, PROXY_CMD_PACKET_LEN

\* What one wrong byte, a lost tail or a byte too many makes of a framed packet is not
\* framed.
LEMMA CorruptedIsData ==
  ASSUME NEW c \in Seq(Bytes), Framed(c), NEW w \in Corrupted(c)
  PROVE  CmdKind(w) = "none"
<1>1. c \in Packets /\ Len(c) = PROXY_CMD_PACKET_LEN
  BY LenProperties DEF Framed, Packets
<1>2. SUFFICES ~Framed(w)
  BY DEF CmdKind
<1>3. CASE w \in {[c EXCEPT ![i] = byte] : i \in DOMAIN c, byte \in Bytes} \ {c}
  <2>1. PICK j \in 1..PROXY_CMD_PACKET_LEN, byte \in Bytes : w = [c EXCEPT ![j] = byte]
    BY <1>1, <1>3 DEF Packets
  <2>2. w \in Packets
    BY <1>1, <2>1 DEF Packets
  <2>3. \A i \in 1..PROXY_CMD_PACKET_LEN : c[i] = w[i] <=> i # j
    BY <1>1, <1>3, <2>1 DEF Packets
  <2>4. CmdChecksum(c) = CmdChecksum(w) <=> j = PROXY_CMD_PACKET_LEN
    BY ONLY <1>1, <2>2, <2>3, ChecksumDiffers
  <2>5. c[PROXY_CMD_PACKET_LEN] = w[PROXY_CMD_PACKET_LEN] <=> j # PROXY_CMD_PACKET_LEN
    BY <2>3 DEF PROXY_CMD_PACKET_LEN
  <2>6. QED
    BY <2>4, <2>5 DEF Framed
<1>4. CASE w \in {SubSeq(c, 1, len) : len \in 0..Len(c) - 1}
  <2>1. PICK len \in 0..Len(c) - 1 : w = SubSeq(c, 1, len)
    BY <1>4
  <2>2. Len(w) = len
    BY <1>1, <2>1, SubSeqProperties DEF PROXY_CMD_PACKET_LEN
  <2>3. QED
    BY <1>1, <2>2 DEF Framed, PROXY_CMD_PACKET_LEN
<1>5. CASE w = Append(c, 0)
  <2>1. Len(w) = Len(c) + 1
    BY <1>5, AppendProperties DEF Bytes
  <2>2. QED
    BY <1>1, <2>1 DEF Framed, PROXY_CMD_PACKET_LEN
<1>6. QED
  BY <1>3, <1>4, <1>5 DEF Corrupted

--------------------------------------------------------------------------------
\* The inductive invariant of Command.

\* Where nus_received stands tells what kind of write is in its hands.
InHand ==
  /\ bt = "relay" => CmdKind(write) \in {"relay_enable", "relay_disable"}
  /\ bt = "baud" => CmdKind(write) = "set_baud"
  /\ bt = "forward" => CmdKind(write) = "none"
  /\ bt # "idle" => write \in Writes

\* While a command is in hand, or its echo is known or on its way, the link it came over
\* is secure, or has dropped: an expiry under way finds the owner back.
OnLink ==
  (bt # "idle" \/ echoes > 0 \/ phone = "confirmed") /\ ~dropped
     => up /\ connected /\ link_secure

\* A command that is not yet acknowledged has not been heard of; one that is, or whose
\* echo is on its way, has been carried out, and what is left of it is what should be.
Acknowledged ==
  /\ bt \in {"relay", "baud", "ack"} => heard = 0 /\ echoes = 0
  /\ bt = "ack" \/ echoes > 0 \/ phone = "confirmed" => applied /\ Effect
  /\ echoes > 0 \/ phone = "confirmed" => bt = "idle"

\* The serial line has been handed the data written, but for the write in hand.
Relayed ==
  /\ \A i \in 1..Len(toSerial) : ~Framed(toSerial[i])
  /\ passed = IF bt = "forward" THEN Append(toSerial, write) ELSE toSerial

IInv == TypeOK /\ InHand /\ OnLink /\ Acknowledged /\ OneEcho /\ Relayed /\ (up => connected)

\* The rate of a baud command is one of the list.
LEMMA RateIsNat == ASSUME NEW w, CmdKind(w) = "set_baud" PROVE Le32(w) \in Nat
BY DEF CmdKind, BaudSupported

\* What is not framed, and only that, is data.
LEMMA DataNotFramed == ASSUME NEW w PROVE CmdKind(w) = "none" <=> ~Framed(w)
BY DEF CmdKind

USE CommandAssumption DEF device, release, radio, since, aux, MaxTries

--------------------------------------------------------------------------------
\* Every step preserves it.

\* The link comes and goes, and the phone hears an echo or gives it up.
LEMMA LinkStep ==
  ASSUME IInv,
         \/ PhoneConnects \/ OnSecurityChanged \/ LinkDrops \/ OnDisconnected
         \/ PhoneHears \/ PhoneGivesUp
  PROVE  IInv'
<1> USE DEF IInv, InHand, OnLink, Acknowledged, OneEcho, Relayed, Effect
<1>1. CASE PhoneConnects
  <2>1. {up', connected'} \subseteq BOOLEAN /\ up' /\ connected'
    BY <1>1, Zenon DEF PhoneConnects
  <2>2. TypeOK'
    BY <1>1, <2>1 DEF PhoneConnects, TypeOK
  <2>3. QED
    BY <1>1, <2>1, <2>2 DEF PhoneConnects
<1>2. CASE OnSecurityChanged
  <2>1. {grace', link_secure'} \subseteq BOOLEAN /\ link_secure'
    BY <1>2, Zenon DEF OnSecurityChanged
  <2>2. TypeOK'
    BY <1>2, <2>1 DEF OnSecurityChanged, TypeOK
  <2>3. QED
    BY <1>2, <2>1, <2>2 DEF OnSecurityChanged
<1>3. CASE LinkDrops
  <2>1. {up', dropped'} \subseteq BOOLEAN /\ ~up' /\ dropped'
    BY <1>3, Zenon DEF LinkDrops
  <2>2. TypeOK'
    BY <1>3, <2>1 DEF LinkDrops, TypeOK
  <2>3. /\ echoes' = 0 /\ UNCHANGED <<device, connected, link_secure, bt, write, tries, phone>>
        /\ UNCHANGED <<applied, heard, passed, restarted, writes, boots>>
        /\ heard \in 0..MaxTries /\ echoes \in 0..MaxTries
    BY <1>3 DEF LinkDrops, TypeOK
  <2>4. InHand' /\ OnLink'
    BY <2>1, <2>3
  <2>5. OneEcho'
    BY ONLY <2>3, OneEcho
  <2>6. Acknowledged' /\ Relayed'
    BY <2>1, <2>3
  <2>7. QED
    BY <2>1, <2>2, <2>4, <2>5, <2>6
<1>4. CASE OnDisconnected
  <2>1. {connected', link_secure', grace'} \subseteq BOOLEAN
    BY <1>4, Zenon DEF OnDisconnected
  <2>2. TypeOK'
    BY <1>4, <2>1 DEF OnDisconnected, TypeOK
  <2>3. QED
    BY <1>4, <2>2 DEF OnDisconnected
<1>5. CASE PhoneHears
  <2>1. echoes' \in 0..MaxTries /\ heard' \in 0..MaxTries /\ OneEcho'
    <3>1. /\ echoes \in 0..MaxTries /\ heard \in 0..MaxTries /\ echoes > 0
          /\ echoes' = echoes - 1 /\ heard' = heard + 1
      BY <1>5 DEF PhoneHears, TypeOK
    <3>2. echoes = 1 /\ heard = 0
      BY ONLY <3>1, OneEcho
    <3>3. QED
      BY ONLY <3>1, <3>2
  <2>2. TypeOK'
    BY <1>5, <2>1 DEF PhoneHears, TypeOK
  <2>3. QED
    BY <1>5, <2>1, <2>2 DEF PhoneHears, TypeOK
<1>6. CASE PhoneGivesUp
  BY <1>6 DEF PhoneGivesUp, TypeOK
<1>7. QED
  BY <1>1, <1>2, <1>3, <1>4, <1>5, <1>6

\* The relay is released, or the device restarts.
LEMMA UndoneStep == ASSUME IInv, Undone PROVE IInv'
<1> USE DEF IInv, InHand, OnLink, Acknowledged, OneEcho, Relayed
<1>1. CASE GraceStarts
  <2>1. grace' \in BOOLEAN
    BY <1>1, Zenon DEF GraceStarts
  <2>2. TypeOK'
    BY <1>1, <2>1 DEF GraceStarts, TypeOK
  <2>3. QED
    BY <1>1, <2>2 DEF GraceStarts, Effect
<1>2. CASE GraceExpires
  <2>1. relay_enabled' \in BOOLEAN /\ relay_enabled' = (relay_enabled /\ Back)
    BY <1>2, Zenon DEF GraceExpires
  <2>2. TypeOK'
    BY <1>2, <2>1 DEF GraceExpires, TypeOK
  <2>3. UNCHANGED <<grace, baud, toSerial, radio, bt, write, tries, phone, echoes, aux>>
    BY <1>2 DEF GraceExpires
  <2>4. Back => relay_enabled' = relay_enabled
    BY <2>1 DEF TypeOK
  <2>5. Effect /\ (~dropped => Back) => Effect'
    <3>1. ~relay_enabled => ~relay_enabled'
      BY <2>1
    <3>2. QED
      BY <2>3, <2>4, <3>1 DEF Effect
  <2>6. Acknowledged'
    BY <2>3, <2>5 DEF Back
  <2>7. QED
    BY <2>2, <2>3, <2>6
<1>3. CASE PowerCycle
  <2>1. /\ {relay_enabled', grace', connected', link_secure', up', dropped', restarted'} \subseteq BOOLEAN
        /\ ~relay_enabled' /\ ~up' /\ dropped' /\ restarted'
    BY <1>3, Zenon DEF PowerCycle
  <2>2. /\ wq' = "idle" /\ baud' = FirstBaud /\ echoes' = 0 /\ bt' = "idle" /\ tries' = 0
        /\ toSerial' = <<>> /\ passed' = <<>> /\ boots' \in 0..MaxBoots
        /\ UNCHANGED <<links, write, phone, applied, heard, writes>>
    BY <1>3 DEF PowerCycle, TypeOK
  <2>3. toSerial' \in Seq(Writes) /\ passed' \in Seq(Writes) /\ Len(toSerial') = 0
    BY <2>2, EmptySeq
  <2>4. TypeOK'
    BY <2>1, <2>2, <2>3 DEF TypeOK
  <2>5. OneEcho' /\ Relayed' /\ InHand' /\ OnLink'
    BY <2>1, <2>2, <2>3 DEF TypeOK
  <2>6. Acknowledged'
    BY <2>1, <2>2 DEF Effect
  <2>7. QED
    BY <2>1, <2>4, <2>5, <2>6
<1>4. QED
  BY <1>1, <1>2, <1>3 DEF Undone

\* A write arrives.
LEMMA WriteStep == ASSUME IInv, NEW w \in Writes, NusReceived(w) PROVE IInv'
<1> USE DEF IInv
<1>1. /\ up /\ bt = "idle" /\ echoes = 0 /\ writes' \in 0..MaxWrites
      /\ phone' = IF Actionable(w) THEN "waiting" ELSE "idle"
      /\ heard' = 0 /\ tries' = 0
      /\ UNCHANGED <<device, radio, echoes, boots>>
  BY DEF NusReceived, TypeOK
<1>2. applied' = FALSE /\ dropped' = FALSE /\ restarted' = FALSE
  BY DEF NusReceived
<1>3. {applied', dropped', restarted'} \subseteq BOOLEAN
  BY <1>2, Zenon
<1>4. CASE link_secure
  <2>1. /\ bt' = Handler(CmdKind(w)) /\ write' = w
        /\ passed' = IF CmdKind(w) = "none" THEN Append(passed, w) ELSE passed
    BY <1>4 DEF NusReceived
  <2>2. CmdKind(w) \in {"none", "invalid", "relay_enable", "relay_disable", "set_baud"}
    BY DEF CmdKind
  <2>3. TypeOK'
    BY <1>1, <1>3, <2>1, <2>2, AppendProperties DEF TypeOK, Handler
  <2>4. InHand' /\ OnLink' /\ Acknowledged' /\ OneEcho'
    BY <1>1, <1>4, <2>1, <2>2 DEF InHand, OnLink, Acknowledged, OneEcho, Handler
  <2>5. Relayed'
    BY <1>1, <2>1, <2>2 DEF Relayed, Handler
  <2>6. QED
    BY <1>1, <2>3, <2>4, <2>5
<1>5. CASE ~link_secure
  <2>1. UNCHANGED <<bt, write, passed>>
    BY <1>5 DEF NusReceived
  <2>2. TypeOK'
    BY <1>1, <1>3, <2>1 DEF TypeOK
  <2>3. QED
    BY <1>1, <2>1, <2>2 DEF InHand, OnLink, Acknowledged, OneEcho, Relayed
<1>6. QED
  BY <1>4, <1>5

\* nus_received carries the command out, acknowledges it, or forwards the data.
LEMMA HandlerStep == ASSUME IInv, NusHandler PROVE IInv'
<1> USE DEF IInv
<1>1. CASE RelaySet
  <2> USE <1>1 DEF RelaySet
  <2>1. {relay_enabled', grace', applied'} \subseteq BOOLEAN
    BY Zenon
  <2>2. TypeOK'
    BY <2>1 DEF TypeOK
  <2>3. Acknowledged'
    BY DEF InHand, Acknowledged, Effect
  <2>4. QED
    BY <2>2, <2>3 DEF InHand, OnLink, OneEcho, Relayed
<1>2. ASSUME NEW ok \in BOOLEAN, UartSetBaud(ok) PROVE IInv'
  <2> USE <1>2 DEF UartSetBaud, AfterBaud
  <2>1. TypeOK'
    BY RateIsNat DEF TypeOK, InHand
  <2>2. Acknowledged'
    BY DEF InHand, Acknowledged, Effect
  <2>3. QED
    BY <2>1, <2>2 DEF InHand, OnLink, OneEcho, Relayed
<1>3. ASSUME NEW err \in SendErrors, CmdAckSend(err) PROVE IInv'
  <2> USE <1>3 DEF CmdAckSend, Again, NextTry
  <2>1. TypeOK'
    BY DEF TypeOK, Acknowledged
  <2>2. Acknowledged' /\ OneEcho'
    BY DEF TypeOK, Acknowledged, OneEcho, Effect, SendResult
  <2>3. QED
    BY <2>1, <2>2 DEF InHand, OnLink, Relayed
<1>4. CASE UartSend
  <2> USE <1>4 DEF UartSend
  <2>1. TypeOK'
    BY AppendProperties DEF TypeOK, InHand
  <2>2. Relayed'
    <3>1. /\ toSerial \in Seq(Writes) /\ write \in Writes
          /\ toSerial' = Append(toSerial, write) /\ ~Framed(write)
      BY DataNotFramed DEF TypeOK, InHand
    <3>2. QED
      BY <3>1, AppendProperties DEF Relayed
  <2>3. QED
    BY <2>1, <2>2 DEF InHand, OnLink, Acknowledged, OneEcho, Effect
<1>5. QED
  BY <1>1, <1>2, <1>3, <1>4 DEF NusHandler

\* The invariant holds in every state.
THEOREM Invariance == Spec => []IInv
<1>1. Init => IInv
  <2> SUFFICES ASSUME Init PROVE IInv
    OBVIOUS
  <2>1. /\ {connected, link_secure, up, relay_enabled, grace} \subseteq BOOLEAN
        /\ {applied, dropped, restarted} \subseteq BOOLEAN
    BY Zenon DEF Init
  <2>2. toSerial \in Seq(Writes) /\ passed \in Seq(Writes) /\ Len(toSerial) = 0
    BY EmptySeq DEF Init
  <2>3. TypeOK
    BY <2>1, <2>2 DEF Init, TypeOK
  <2>4. QED
    BY <2>2, <2>3 DEF Init, IInv, InHand, OnLink, Acknowledged, OneEcho, Relayed
<1>2. IInv /\ [Next]_vars => IInv'
  <2> SUFFICES ASSUME IInv, [Next]_vars PROVE IInv'
    OBVIOUS
  <2>1. CASE UNCHANGED vars
    BY <2>1 DEF vars, IInv, TypeOK, InHand, OnLink, Acknowledged, OneEcho, Relayed, Effect
  <2>2. CASE Next
    BY <2>2, LinkStep, WriteStep, HandlerStep, UndoneStep DEF Next, Phone
  <2>3. QED
    BY <2>1, <2>2
<1>3. QED
  BY <1>1, <1>2, PTL DEF Spec

\* The variables keep their types.
THEOREM TypeCorrect == Spec => []TypeOK
<1>1. IInv => TypeOK
  BY DEF IInv
<1>2. QED
  BY <1>1, Invariance, PTL

\* The echo the phone hears is of a command that has been carried out, and of it is left
\* what the release of the relay after a drop and a restart leave: no expiry that was
\* already under way when the owner came back undoes a relay command.
THEOREM EchoTrue == Spec => []EchoMeansApplied
<1>1. IInv => EchoMeansApplied
  BY DEF IInv, Acknowledged, EchoMeansApplied
<1>2. QED
  BY <1>1, Invariance, PTL

\* No command is echoed twice.
THEOREM EchoedOnce == Spec => []OneEcho
<1>1. IInv => OneEcho
  BY DEF IInv
<1>2. QED
  BY <1>1, Invariance, PTL

\* No framed packet reaches the serial line; the data written over a secure link does,
\* once and in order.
THEOREM DataForwarded == Spec => []OnlyDataForwarded
<1>1. IInv => OnlyDataForwarded
  <2> SUFFICES ASSUME IInv PROVE OnlyDataForwarded
    OBVIOUS
  <2>1. toSerial \in Seq(Writes) /\ (bt = "forward" => write \in Writes)
    BY DEF IInv, TypeOK, InHand
  <2>2. toSerial \o <<>> = toSerial
    BY <2>1, ConcatProperties, EmptySeq
  <2>3. bt = "forward" => toSerial \o <<write>> = Append(toSerial, write)
    BY <2>1, AppendProperties
  <2>4. QED
    BY <2>2, <2>3 DEF IInv, Relayed, OnlyDataForwarded
<1>2. QED
  BY <1>1, Invariance, PTL

\* A command that is about to be carried out would have been data with any one byte
\* wrong, or with any other length.
THEOREM CorruptionIsData == Spec => []CorruptionDetected
<1>1. IInv => CorruptionDetected
  <2> SUFFICES ASSUME IInv, bt \in {"relay", "baud"}
               PROVE  \A w \in Corrupted(write) : CmdKind(w) = "none"
    BY DEF CorruptionDetected
  <2>1. write \in Seq(Bytes) /\ Framed(write)
    BY DataNotFramed DEF IInv, InHand
  <2>2. QED
    BY <2>1, CorruptedIsData
<1>2. QED
  BY <1>1, Invariance, PTL

================================================================================
