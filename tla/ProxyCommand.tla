------------------------------ MODULE ProxyCommand ------------------------------
(* The device-control command of proxy_core.c: a write of the phone is one of our *)
(* packets or ordinary data.  A packet is a sequence of bytes; byte [i] of the    *)
(* code is element i + 1.                                                         *)
EXTENDS Naturals, Sequences

PROXY_CMD_START      == 34
PROXY_CMD_PACKET_LEN == 16
PROXY_OP_RELAY       == 1
PROXY_OP_BAUD        == 2

Bytes == 0..255

\* Mutant: the last payload byte is left out.
CmdChecksumShort(in) ==
  LET sum[i \in 0..PROXY_CMD_PACKET_LEN - 2] ==
        IF i = 0 THEN 0 ELSE (sum[i - 1] + in[i]) % 256
  IN  sum[PROXY_CMD_PACKET_LEN - 2]

\* cmd_checksum: the 8-bit sum of the bytes before the checksum.
CmdChecksum(in) ==
  LET sum[i \in 0..PROXY_CMD_PACKET_LEN - 1] ==
        IF i = 0 THEN 0 ELSE (sum[i - 1] + in[i]) % 256
  IN  sum[PROXY_CMD_PACKET_LEN - 1]

\* proxy_baud_supported.
BaudSupported(rate) == rate \in {1200, 9600, 19200, 38400, 57600, 115200}

\* le32 of the payload's first bytes.
Le32(in) == in[4] + in[5] * 2^8 + in[6] * 2^16 + in[7] * 2^24

\* The framing gate of proxy_cmd_parse.
Framed(in) ==
  /\ Len(in) = PROXY_CMD_PACKET_LEN
  /\ in[1] = PROXY_CMD_START /\ in[2] = PROXY_CMD_PACKET_LEN
  /\ in[PROXY_CMD_PACKET_LEN] = CmdChecksum(in)

\* proxy_cmd_parse: the kind of command.
CmdKind(in) ==
  CASE ~Framed(in) -> "none"
    [] Framed(in) /\ in[3] = PROXY_OP_RELAY /\ in[4] = 0 -> "relay_disable"
    [] Framed(in) /\ in[3] = PROXY_OP_RELAY /\ in[4] = 1 -> "relay_enable"
    [] Framed(in) /\ in[3] = PROXY_OP_BAUD /\ BaudSupported(Le32(in)) -> "set_baud"
    [] OTHER -> "invalid"

Actionable(in) == CmdKind(in) \notin {"none", "invalid"}

\* The packet a phone builds for an opcode and the payload's first four bytes.
Packet(op, payload) ==
  LET body == <<PROXY_CMD_START, PROXY_CMD_PACKET_LEN, op>> \o payload
              \o [i \in 1..8 |-> 0] \o <<0>>
  IN  [body EXCEPT ![PROXY_CMD_PACKET_LEN] = CmdChecksum(body)]

================================================================================
