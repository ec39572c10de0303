------------------------------- MODULE MCCommand -------------------------------
(* Small instances of Command for TLC.                                           *)
EXTENDS Command

RelayOn  == Packet(PROXY_OP_RELAY, <<1, 0, 0, 0>>)
RelayOff == Packet(PROXY_OP_RELAY, <<0, 0, 0, 0>>)
Baud9600 == Packet(PROXY_OP_BAUD, <<128, 37, 0, 0>>)

\* Framed, but out of range, not on the list, of an unknown opcode.
RelayTwo == Packet(PROXY_OP_RELAY, <<2, 0, 0, 0>>)
Baud300  == Packet(PROXY_OP_BAUD, <<44, 1, 0, 0>>)
OpNine   == Packet(9, <<1, 0, 0, 0>>)

\* Sixteen bytes of data that only look like a command, and a short chunk.
Lookalike == [RelayOn EXCEPT ![PROXY_CMD_PACKET_LEN] = 0]
Chunk     == <<34, 16, 1>>

AllWrites == {RelayOn, RelayOff, Baud9600, RelayTwo, Baud300, OpNine, Lookalike, Chunk}

ASSUME Classification ==
  /\ CmdKind(RelayOn) = "relay_enable" /\ CmdKind(RelayOff) = "relay_disable"
  /\ CmdKind(Baud9600) = "set_baud" /\ Le32(Baud9600) = 9600
  /\ \A w \in {RelayTwo, Baud300, OpNine} : CmdKind(w) = "invalid"
  /\ \A w \in {Lookalike, Chunk} : CmdKind(w) = "none"

================================================================================
