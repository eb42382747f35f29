--------------------------------- MODULE Flood ---------------------------------
(***************************************************************************)
(* What a mesh of nodes promises about the packets that flood it.  A packet *)
(* starts at its author and is taken in only at a neighbour of a node that  *)
(* forwards it, or of its author when that announces itself; a node that    *)
(* has stored it does not take it in again, forwards it at most once, to    *)
(* any of its neighbours in one step, and may forget it at any time.        *)
(***************************************************************************)
CONSTANTS
    Node, Link, \* pairs of nodes
    Keys,       \* of messages and announcements
    Author      \* key -> the node that makes packets with it
VARIABLES
    stored,     \* <<node, key>> of what a node has stored
    queued      \* and of what it is still to forward

Init == stored = {} /\ queued = {}

Reach(n, k) == {<<m, k>> : m \in {m \in Node : <<n, m>> \in Link}}

(* Any of these places that do not have the packet store it, and any of     *)
(* them will forward it, besides those that already are to.                 *)
TakeIn(places, waiting) ==
    \E new \in SUBSET (places \ stored) : \E onward \in SUBSET new :
        stored' = stored \cup new /\ queued' = waiting \cup onward

Make(n, k) ==
    /\ Author[k] = n /\ <<n, k>> \notin stored
    /\ stored' = stored \cup {<<n, k>>} /\ queued' = queued \cup {<<n, k>>}

Forward(n, k) ==
    /\ <<n, k>> \in queued
    /\ TakeIn(Reach(n, k), queued \ {<<n, k>>})

Announce(n, k) ==
    /\ Author[k] = n
    /\ TakeIn(Reach(n, k), queued)

Expire(n) ==
    \E gone \in SUBSET {x \in stored : x[1] = n} :
        stored' = stored \ gone /\ queued' = queued \ gone

Next ==
    \E n \in Node :
        \/ \E k \in Keys : Make(n, k) \/ Forward(n, k) \/ Announce(n, k)
        \/ Expire(n)

Spec == Init /\ [][Next]_<<stored, queued>>
==============================================================================
