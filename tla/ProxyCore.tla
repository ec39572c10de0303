------------------------------- MODULE ProxyCore -------------------------------
(* The policies of proxy_core.c: decisions the glue in main.c takes from a      *)
(* snapshot of the link that it reads under conn_mutex, and how a notification  *)
(* is cut and its result classified.                                            *)
EXTENDS Naturals

\* proxy_should_start_adv: start only when idle, and never a second advertiser.
ShouldStartAdv(connected, advActive) == ~connected /\ ~advActive

\* Mutant: any connection will do.
MayForwardToAnyone(connected, linkSecure) == connected

\* proxy_may_forward: data flows only over an encrypted link.
MayForward(connected, linkSecure) == connected /\ linkSecure

\* proxy_nus_chunk_limit: the payload of a notification; 20 for a nonsense MTU.
ChunkLimit(attMtu) == IF attMtu > 3 THEN attMtu - 3 ELSE 20

\* proxy_next_slice: how much of outLen bytes to send next; 0 when nothing is left.
NextSlice(outLen, sent, maxSend) ==
  IF sent >= outLen THEN 0
  ELSE IF outLen - sent < maxSend THEN outLen - sent ELSE maxSend

SendErrors == {"0", "ENOMEM", "EAGAIN", "other"}

\* Mutant: every error is worth another try.
SendResultStubborn(err) == IF err = "0" THEN "consumed" ELSE "retry"

\* proxy_send_result: only a shortage of buffers is worth another try.
SendResult(err) ==
  CASE err = "0" -> "consumed"
    [] err \in {"ENOMEM", "EAGAIN"} -> "retry"
    [] OTHER -> "drop"

================================================================================
