--------------------------------- MODULE Service --------------------------------
(* What the device is to the people around it, without threads, timers, mutexes  *)
(* or connection objects: on air or not, the phone it serves, the phone that     *)
(* owns it, and the relay.  Link implements it.                                  *)

CONSTANTS
  Phones,   \* the phones around
  NoPhone   \* no phone

VARIABLES
  link,    \* "silent", "advertising", "open" (connected, not encrypted), "secure"
  client,  \* the phone that is connected
  owner,   \* the phone that is bonded, if any
  relay    \* is the relay on?

vars == <<link, client, owner, relay>>

Connected == link \in {"open", "secure"}

Init ==
  /\ link = "silent" /\ client = NoPhone
  /\ owner = {} \/ \E p \in Phones : owner = {p}
  /\ relay = FALSE

\* On air, and off air again.
Advertise ==
  /\ ~Connected
  /\ link' \in {"silent", "advertising"}
  /\ UNCHANGED <<client, owner, relay>>

\* One phone at a time; an owned device lets nobody but its owner in.  The advertiser
\* is gone before the connection is announced.
Connect(p) ==
  /\ link = "silent"
  /\ owner # {} => p \in owner
  /\ link' = "open" /\ client' = p
  /\ UNCHANGED <<owner, relay>>

Secure ==
  /\ link = "open" /\ link' = "secure"
  /\ UNCHANGED <<client, owner, relay>>

\* The first phone that pairs owns the device.
Pair ==
  /\ link = "secure" /\ owner \subseteq {client}
  /\ owner' = {client}
  /\ UNCHANGED <<link, client, relay>>

\* The relay obeys a phone on a secure link ...
Command ==
  /\ link = "secure"
  /\ relay' \in BOOLEAN
  /\ UNCHANGED <<link, client, owner>>

\* ... and is taken away from one that is not, never given.
Release ==
  /\ link # "secure" /\ relay' = FALSE
  /\ UNCHANGED <<link, client, owner>>

Disconnect ==
  /\ Connected
  /\ link' = "silent" /\ client' = NoPhone
  /\ UNCHANGED <<owner, relay>>

\* Power comes back: nobody is connected and the relay is off, the owner stays.
Restart ==
  /\ link' = "silent" /\ client' = NoPhone /\ relay' = FALSE
  /\ UNCHANGED owner

\* The button held through boot: only there does the device forget its owner.
Forget ==
  /\ link = "silent" /\ ~relay
  /\ owner' = {}
  /\ UNCHANGED <<link, client, relay>>

Next ==
  \/ Advertise
  \/ \E p \in Phones : Connect(p)
  \/ Secure \/ Pair \/ Command \/ Release
  \/ Disconnect
  \/ Restart \/ Forget

Spec == Init /\ [][Next]_vars

================================================================================
