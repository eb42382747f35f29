----------------------------- MODULE MeshNetwork -----------------------------
(***************************************************************************)
(* Several nodes that flood messages and announcements and take the time   *)
(* from each other.  Each node is what MeshTracker shows of one: a packet  *)
(* is taken in when its key is not stored, waits in first-in first-out     *)
(* order and leaves in one step for links other than the one it came from; *)
(* a link on which it is refused, or that sendPackets passes over, is      *)
(* logged as sent like the others.  A packet waits in the lists of a node, *)
(* not on the air: it is received where it is sent, by those it reaches.   *)
(* A unit of time is longer than the timeouts, or as long as each.         *)
(***************************************************************************)
EXTENDS Integers, Sequences, Functions, FiniteSets

CONSTANTS
    Node,
    Link,      \* directed links: pairs of nodes, each with its reverse
    Message,   \* ids of messages: author and time
    MaxTtl,    \* 3 in the code
    Timeout,   \* MESSAGE_TIMEOUT, five minutes
    TenMinutes,
    BuildTime, \* build_time_ms
    Clock,     \* node -> the offset it starts with, below BuildTime without the time
    MaxEvents, \* bounds of the model: of the time that passes and the links that end,
    MaxFloods  \* and of the keys that wait anywhere when a packet of another is made

ASSUME TopologyAssumption ==
    /\ Message \subseteq Node \X Nat /\ Link \subseteq Node \X Node
    /\ \A l \in Link : l[1] # l[2] /\ <<l[2], l[1]>> \in Link
ASSUME KeyAssumption == Node \cap Message = {} \* hashes of senders and ids are apart
ASSUME ConstantAssumption ==
    /\ {MaxTtl, Timeout, TenMinutes, BuildTime, MaxEvents, MaxFloods} \subseteq Nat
    /\ MaxTtl > 0 /\ Clock \in [Node -> Nat]

(* Nobody is given a time that near to the build of the firmware.           *)
ASSUME ClockAssumption ==
    \A n \in Node : Clock[n] < BuildTime \/ Clock[n] >= BuildTime + MaxEvents

VARIABLES
    time,        \* since the boot of all nodes, the uptime of each
    offset,      \* node -> timestamp_offset_ms
    ends,        \* links that have ended
    held,        \* node -> key -> timestamp of the packet in messages or announces
    queue,       \* node -> packets in broadcast_packets_to_send_list
    announced,   \* links with an entry of the own announcement in the sent list
    announcedAt  \* node -> timestamp of the own announcement

clocks == <<time, offset>>
own == <<announced, announcedAt>>
vars == <<clocks, ends, held, queue, own>>

From(n) == {l \in Link : l[1] = n}
Reverse(l) == <<l[2], l[1]>>
Overlay(f, x, v) == [y \in DOMAIN f \cup {x} |-> IF y = x THEN v ELSE f[y]]
Keys == Node \cup Message
IsAnnounce(p) == p.key \in Node \* an announcement has its sender as key

Now(n) == offset[n] + time
WeHaveTheTime(n) == offset[n] >= BuildTime

Init ==
    /\ time = 0 /\ offset = Clock
    /\ ends = 0
    /\ held \in [Node -> [{} -> {}]] /\ queue = [n \in Node |-> <<>>]
    /\ announced = {} /\ announcedAt = [n \in Node |-> 0]

------------------------------------------------------------------------------
(* What a node receives.  Of a packet that no longer waits only the         *)
(* timestamp is kept; `hops` counts the links a message has been on. *)

(* Mutant: processWrite computes newTtl and does not store it. *)
SpentTtlUnchanged(ttl) == ttl
SpentTtl(ttl) == IF ttl - 1 > 0 THEN ttl - 1 ELSE ttl

(* Mutant: the clock follows only what is near. *)
FollowsNear(n, ts) == ts - Now(n) < Timeout /\ Now(n) - ts < Timeout
Follows(n, ts) == ts > Now(n) \/ Now(n) - ts > Timeout

(* Mutant: the offset set to the time, the uptime forgotten. *)
OffsetOfTime(n, ts) == IF Follows(n, ts) THEN ts ELSE offset[n]

(* possiblyUpdateTimeOffset *)
PossiblyUpdatedOffset(n, ts) == IF Follows(n, ts) THEN ts - time ELSE offset[n]

(* Mutant: a packet looked up among those that wait, not those stored.      *)
KnownWaiting(n, p) == \E q \in Range(queue[n]) : q.key = p.key
Known(n, p) == p.key \in DOMAIN held[n]
IsNewer(n, p) == IsAnnounce(p) /\ Known(n, p) /\ held[n][p.key] < p.ts

(* storeMessageAndReturnIfNew, storeAnnounceAndReturnIfNew *)
Stored(n, p) ==
    IF Known(n, p) /\ ~IsNewer(n, p) THEN held[n] ELSE Overlay(held[n], p.key, p.ts)

(* Queued when new and hops remain; a newer announcement takes the place of *)
(* one that waits, with the ttl it came with. *)
Queued(n, p, from) ==
    LET packet == [p EXCEPT !.hops = IF IsAnnounce(p) THEN 0 ELSE @ + 1, !.from = from]
    IN IF ~Known(n, p) /\ p.ttl - 1 > 0 THEN Append(queue[n], [packet EXCEPT !.ttl = SpentTtl(@)])
       ELSE IF IsNewer(n, p)
         THEN [i \in DOMAIN queue[n] |-> IF queue[n][i].key = p.key THEN packet ELSE queue[n][i]]
         ELSE queue[n]

(* processWrite at each of the nodes that node n reaches with p; n keeps    *)
(* `rest` of its own queue. *)
Receive(reached, p, n, rest) ==
    /\ held' = [m \in Node |-> IF m \in reached THEN Stored(m, p) ELSE held[m]]
    /\ queue' = [m \in Node |-> IF m \in reached THEN Queued(m, p, n)
                                ELSE IF m = n THEN rest ELSE queue[m]]
    /\ offset' = [m \in Node |-> IF m \in reached /\ IsAnnounce(p)
                                   THEN PossiblyUpdatedOffset(m, p.ts) ELSE offset[m]]

------------------------------------------------------------------------------
(* What a node sends *)

Waiting == UNION {{p.key : p \in Range(queue[n])} : n \in Node}
Room(key) == Cardinality(Waiting \ {key}) <= MaxFloods

(* announceToConnections, and the targeted packets of sendPackets.  The one *)
(* announcement gets a new timestamp in every round in which a link is left *)
(* to announce to, and leaves with it in that round or not at all. *)
Announce(n) ==
    /\ WeHaveTheTime(n) /\ Room(n)
    /\ \E accepted \in SUBSET (From(n) \ announced) \ {{}} :
         /\ announced' = announced \cup accepted
         /\ announcedAt' = [announcedAt EXCEPT ![n] = Now(n)]
         /\ Receive({l[2] : l \in accepted},
                    [key |-> n, ttl |-> MaxTtl, ts |-> Now(n), hops |-> 0, from |-> n], n, queue[n])
         /\ UNCHANGED <<time, ends>>

(* generateMessageIfNeeded: one id per node and time; one that is stored is *)
(* dropped. *)
MakeMessage(n) ==
    LET id == <<n, Now(n)>>
    IN /\ WeHaveTheTime(n) /\ Room(id) /\ id \in Message \ DOMAIN held[n]
       /\ held' = [held EXCEPT ![n] = Overlay(@, id, Now(n))]
       /\ queue' = [queue EXCEPT ![n] = Append(@,
               [key |-> id, ttl |-> MaxTtl, ts |-> Now(n), hops |-> 0, from |-> n])]
       /\ UNCHANGED <<clocks, ends, own>>

(* Mutant: remove_if without the erase that has to follow it. *)
DequeuedNothing(q) == q
Dequeued(q) == Tail(q)

(* sendPackets, the first broadcast packet. *)
SendQueued(n) ==
    /\ queue[n] # <<>> /\ From(n) # {}
    /\ LET p == Head(queue[n])
       IN \E reached \in SUBSET ({l[2] : l \in From(n)} \ {p.from}) :
            Receive(reached, p, n, Dequeued(queue[n]))
    /\ UNCHANGED <<time, ends, own>>

------------------------------------------------------------------------------
(* cleanupStaleItems: what is stale is forgotten, the entries of the own    *)
(* announcement too, which then goes out again. *)
Stale(n, ts) == ts + TenMinutes < Now(n)

(* The packets of q with one of these keys, in their order: SelectSeq, by    *)
(* the places it selects. *)
Kept(q, keys) ==
    LET places == {i \in DOMAIN q : q[i].key \in keys}
        Place(j) == CHOOSE i \in places : Cardinality(places \cap 1 .. i) = j
    IN [j \in 1 .. Cardinality(places) |-> q[Place(j)]]

CleanupStaleItems(n) ==
    LET kept == {k \in DOMAIN held[n] : ~Stale(n, held[n][k])}
    IN /\ held' = [held EXCEPT ![n] = [k \in kept |-> held[n][k]]]
       /\ queue' = [queue EXCEPT ![n] = Kept(@, kept)]
       /\ announced' = IF Stale(n, announcedAt[n])
                         THEN announced \ From(n) ELSE announced
       /\ UNCHANGED <<clocks, ends, announcedAt>>

Eventful == time + ends < MaxEvents

(* reportDisconnection at both ends of a link that ends and comes back; a   *)
(* link that is down is one on which nothing is accepted. *)
Reconnect(l) ==
    /\ Eventful /\ ends' = ends + 1
    /\ announced' = announced \ {l, Reverse(l)}
    /\ UNCHANGED <<clocks, held, queue, announcedAt>>

Tick ==
    /\ Eventful /\ time' = time + 1
    /\ UNCHANGED <<offset, ends, held, queue, own>>

------------------------------------------------------------------------------
Next ==
    \/ \E n \in Node :
         \/ Announce(n) \/ MakeMessage(n) \/ SendQueued(n)
         \/ CleanupStaleItems(n)
    \/ \E l \in Link : Reconnect(l)
    \/ Tick

Spec == Init /\ [][Next]_vars

(* Every loop comes round to announce and send, and an announcement that is *)
(* offered round after round is accepted on every link (MeshTracker,        *)
(* EveryoneAnnouncedTo). *)
FairSpec ==
    /\ Spec
    /\ \A n \in Node : WF_vars(SendQueued(n)) /\ WF_vars(Announce(n) /\ From(n) \subseteq announced')

------------------------------------------------------------------------------
(* Properties *)

(* No message goes further than MaxTtl links from its author, by whatever   *)
(* way and however often nodes on the way forget it and take it in again.   *)
HopsSpent ==
    \A n \in Node : \A p \in Range(queue[n]) :
        ~IsAnnounce(p) => p.ttl > 0 /\ p.ttl + p.hops <= MaxTtl

(* No clock is ahead of those the mesh started with, and no node that has   *)
(* the time falls back to before the build. *)
NoTimeInvented ==
    \A n \in Node :
        /\ \E m \in Node : offset[n] <= Clock[m]
        /\ Clock[n] >= BuildTime => WeHaveTheTime(n)

(* The mesh implements Flood: a packet that is stored again with a newer    *)
(* time, replaced while it waits, or dropped by the cleanup, is never        *)
(* forwarded twice in one stay, nor taken in where nobody forwards it.       *)
Waits(q, k) == \E i \in DOMAIN q : q[i].key = k
Flooding == INSTANCE Flood WITH
    Author <- [k \in Keys |-> IF k \in Node THEN k ELSE k[1]],
    stored <- {x \in Node \X Keys : x[2] \in DOMAIN held[x[1]]},
    queued <- {x \in Node \X Keys : Waits(queue[x[1]], x[2])}

ImplementsFlood == Flooding!Spec

(* When one node has the time every node has it in the end. *)
TimeReachesAll == <>[](\A n \in Node : WeHaveTheTime(n))

(* The flood ends: no packet waits to be forwarded for ever, though an      *)
(* announcement that replaces a queued one is forwarded with unspent ttl.   *)
StormEnds == <>[](\A n \in Node : queue[n] = <<>>)
==============================================================================
