------------------------------ MODULE PacketLife ------------------------------
(***************************************************************************)
(* What one node promises about a packet, whatever its connections do: it  *)
(* is taken in once, waits to be forwarded at most once in its stay, and   *)
(* is forgotten with no trace, after which the same key is a new packet.   *)
(* Packets are forwarded one by one and expire any number at a time.       *)
(***************************************************************************)
CONSTANTS Keys
VARIABLE life \* key -> "absent", "queued" to be forwarded, or only "held"

Init == life = [k \in Keys |-> "absent"]

(* Taken in, with hops left to forward it over or none. *)
Accept(k) ==
    /\ life[k] = "absent"
    /\ \E state \in {"queued", "held"} : life' = [life EXCEPT ![k] = state]

Forward(k) == life[k] = "queued" /\ life' = [life EXCEPT ![k] = "held"]

Expire(S) == life' = [k \in Keys |-> IF k \in S THEN "absent" ELSE life[k]]

Next ==
    \/ \E k \in Keys : Accept(k) \/ Forward(k)
    \/ \E S \in SUBSET Keys : Expire(S)

Spec == Init /\ [][Next]_life
==============================================================================
