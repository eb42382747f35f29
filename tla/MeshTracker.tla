----------------------------- MODULE MeshTracker -----------------------------
(***************************************************************************)
(* BleConnectionTracker and ProtocolProcessor: what one node knows of its  *)
(* Bluetooth connections, the messages and announcements it stores, and    *)
(* the lists of raw pointers to them from which it sends and forwards.     *)
(*                                                                         *)
(* The lists hold pointers: std::map keeps a node where it was allocated,  *)
(* so a stored packet is an address of Heap, `store` is what lies there,   *)
(* and the order of two addresses is the order in which a multimap keyed   *)
(* by Base* visits them.  Every callback and every call of the main loop   *)
(* runs to completion (the poll architecture of the cyw43 driver), so each *)
(* is one action.  Time is counted in abstract ticks.                      *)
(***************************************************************************)
EXTENDS Integers, FiniteSets

CONSTANTS
    Handle,         \* HCI connection handles, positive: 0 means "no connection"
    Heap,           \* addresses a stored packet can be allocated at
    OwnAnnounce,    \* address of the tracker's own `announce` member
    MessageIds,     \* keys of `messages`
    OwnIds,         \* those of this node's own messages
    AnnounceHashes, \* keys of `announces`
    SelfHashes,     \* those whose sender is this node (its announce, relayed back)
    MaxTtl,         \* hops a packet starts with: 3 in the firmware
    RxTtls,         \* bound: ttl values a received packet carries
    RxTimes,        \* bound: timestamps a received packet carries
    BuildTime,      \* build_time_ms
    MessageTimeout, \* MESSAGE_TIMEOUT
    TenMinutes,     \* ten_minutes_in_ms
    Wrap,           \* 2^64: timestamp_offset_ms is unsigned
    MaxUptime       \* bound: the clock stops there

ASSUME HandleAssumption == Handle \subseteq Nat \ {0} /\ IsFiniteSet(Handle)
ASSUME HeapAssumption == Heap \subseteq Nat /\ OwnAnnounce \in Nat \ Heap
ASSUME KeyAssumption ==
    /\ OwnIds \subseteq MessageIds
    /\ SelfHashes \subseteq AnnounceHashes /\ SelfHashes # {}
    /\ MessageIds \cap AnnounceHashes = {}
ASSUME NumberAssumption ==
    /\ MaxTtl \in Nat \ {0} /\ RxTtls \subseteq 0..MaxTtl
    /\ RxTimes \subseteq Nat
    /\ BuildTime \in Nat /\ MessageTimeout \in Nat /\ TenMinutes \in Nat
    /\ Wrap \in Nat \ {0} /\ MaxUptime \in Nat

VARIABLES
    connections, \* handle -> record: std::map connections
    store,       \* address -> packet: own announce, `messages` and `announces`
    broadcast,   \* addresses in broadcast_packets_to_send_list
    ahead,       \* <<a, b>>: a comes before b in that list
    targeted,    \* handles the own announce is queued for (targeted_packets_to_send_list)
    sent,        \* <<address, handle>> pairs of packets_connections_sent_list
    uptime,      \* time_us_64()
    offset       \* timestamp_offset_ms

lists == <<broadcast, ahead, targeted, sent>>
clocks == <<uptime, offset>>
vars == <<connections, store, lists, clocks>>

Pointer == Heap \cup {OwnAnnounce}
Keys == MessageIds \cup AnnounceHashes
Roles == {"master", "slave"}
Packet == [key : Keys, ttl : Nat, ts : Nat, from : Handle \cup {0}]
Connection == [connected : BOOLEAN, role : Roles, valueHandle : BOOLEAN, ts : Nat]

------------------------------------------------------------------------------
(* Clocks *)

Now == (offset + uptime) % Wrap
WeHaveTheTime == offset >= BuildTime

(* Mutant: the offset computed as a signed number. *)
PossiblyUpdatedOffsetSigned(timestamp) ==
    LET diff == timestamp - Now
    IN IF diff > 0 \/ -diff > MessageTimeout THEN offset + diff ELSE offset

(* possiblyUpdateTimeOffset: only late by less than MESSAGE_TIMEOUT is ignored. *)
PossiblyUpdatedOffset(timestamp) ==
    LET diff == timestamp - Now
    IN IF diff > 0 \/ -diff > MessageTimeout
         THEN (offset + diff) % Wrap
         ELSE offset

------------------------------------------------------------------------------
(* Connections and packets *)

Known == DOMAIN connections
Connected(h) == h \in Known /\ connections[h].connected
Available(h) ==
    /\ Connected(h)
    /\ connections[h].valueHandle \/ connections[h].role = "slave"

IsMessage(p) == store[p].key \in MessageIds
Stored(key) == {a \in Heap \cap DOMAIN store : store[a].key = key}

(* Mutant: reportDisconnection compares with the stored announcements only. *)
IsOwnAnnounceOnHeap(p) == p \in Heap /\ store[p].key \in SelfHashes

(* An announcement with the sender id of the own one, which is 0 until      *)
(* setupAnnounceIfNeeded has run.                                           *)
SetUp == store[OwnAnnounce].ttl = MaxTtl
IsOwnAnnounce(p) == SetUp /\ store[p].key \in SelfHashes

Overlay(f, x, v) == [y \in DOMAIN f \cup {x} |-> IF y = x THEN v ELSE f[y]]
Only(f, S) == [x \in DOMAIN f \cap S |-> f[x]]

StalePacket(p) == store[p].ts + TenMinutes < Now
StaleConnection(h) == ~connections[h].connected /\ connections[h].ts + TenMinutes < Now

(* Mutants: the lambda packet_connection_stale without one of its disjuncts. *)
StaleEntryByPacket(e) == StalePacket(e[1])
StaleEntryByConnection(e) == StaleConnection(e[2])
StaleEntry(e) == StalePacket(e[1]) \/ StaleConnection(e[2])

(* Mutant: stored and returned as new without a look at what is there.      *)
SlotAlways(key) == IF Stored(key) = {} THEN Heap \ DOMAIN store ELSE Stored(key)

(* storeMessageAndReturnIfNew, storeAnnounceAndReturnIfNew: the places where *)
(* a packet can be stored as new, none when its key is stored already.      *)
SlotIfNew(key) == IF Stored(key) = {} THEN Heap \ DOMAIN store ELSE {}

(* Mutant: processWrite computes newTtl and does not store it. *)
SpentTtlUnchanged(ttl) == ttl

(* What processWrite stores: the ttl is decremented when hops remain. *)
SpentTtl(ttl) == IF ttl - 1 > 0 THEN ttl - 1 ELSE ttl

(* enqueueBroadcastPacket.  A second copy of a pointer behind the first is  *)
(* never visited: sendPackets and cleanupStaleItems remove all copies.      *)
EnqueueBroadcast(a) ==
    /\ broadcast' = broadcast \cup {a}
    /\ ahead' = IF a \in broadcast THEN ahead ELSE ahead \cup (broadcast \X {a})

(* Mutant: std::ranges::remove_if without the erase that has to follow it. *)
DequeueNothing(S) == UNCHANGED <<broadcast, ahead>>
DequeueBroadcast(S) ==
    /\ broadcast' = broadcast \ S
    /\ ahead' = {pair \in ahead : pair[1] \notin S /\ pair[2] \notin S}

(* Mutant: the list kept in address order, as the multimaps are. *)
HeadByAddress(a) == a \in broadcast /\ \A b \in broadcast : a <= b
Head(a) == a \in broadcast /\ \A b \in broadcast : <<b, a>> \notin ahead

------------------------------------------------------------------------------
Init ==
    /\ connections \in [{} -> Connection]
    /\ store = [p \in {OwnAnnounce} |->
                  [key |-> CHOOSE k \in SelfHashes : TRUE, ttl |-> 0, ts |-> 0, from |-> 0]]
    /\ broadcast = {} /\ ahead = {} /\ targeted = {} /\ sent = {}
    /\ uptime = 0 /\ offset = 0

(* reportConnection.  The three events of one link (ATT_EVENT_CONNECTED and *)
(* the LE and GAP connection complete) come from one controller event, so   *)
(* the calls they make are one step.  An entry of available_neighbours for  *)
(* the address replaces the whole record; without one, the fields of the    *)
(* last connection with this handle stay.                                   *)
ReportConnection(h, role, wasNeighbour) ==
    LET kept == h \in Known /\ ~wasNeighbour
    IN /\ ~Connected(h)
       /\ connections' = Overlay(connections, h,
            [connected |-> TRUE, role |-> role, ts |-> uptime,
             valueHandle |-> kept /\ connections[h].valueHandle])
       /\ UNCHANGED <<store, lists, clocks>>

(* The GATT query found the packet characteristic, or the peer subscribed.  *)
StoreValueHandle(h) ==
    /\ Connected(h)
    /\ connections' = [connections EXCEPT ![h].valueHandle = TRUE]
    /\ UNCHANGED <<store, lists, clocks>>

ReportDisconnection(h) ==
    /\ h \in Known
    /\ connections' = [connections EXCEPT ![h].connected = FALSE]
    /\ sent' = {e \in sent : ~(IsOwnAnnounce(e[1]) /\ e[2] = h)}
    /\ targeted' = targeted \ {h}
    /\ UNCHANGED <<store, broadcast, ahead, clocks>>

(* processWrite of a packet whose key is new: stored, and queued when hops  *)
(* remain.                                                                  *)
TakeIn(h, key, ttl, ts) ==
    \E a \in SlotIfNew(key) :
        /\ store' = Overlay(store, a, [key |-> key, ttl |-> SpentTtl(ttl), ts |-> ts, from |-> h])
        /\ IF ttl - 1 > 0 THEN EnqueueBroadcast(a) ELSE UNCHANGED <<broadcast, ahead>>

(* processWrite of a message: a known id changes nothing. *)
ReceiveMessage(h, id, ttl, ts) ==
    /\ Connected(h)
    /\ TakeIn(h, id, ttl, ts)
    /\ UNCHANGED <<connections, targeted, sent, clocks>>

(* processWrite of an announce.  The clock follows its timestamp before it  *)
(* is known to be well formed.  A newer one replaces the stored one where   *)
(* it lies, with the ttl it came with, and is not queued again: `found`     *)
(* points at the entry just assigned, so its name is the new name.          *)
ReceiveAnnounce(h, hash, ttl, ts) ==
    /\ Connected(h)
    /\ offset' = PossiblyUpdatedOffset(ts)
    /\ \/ TakeIn(h, hash, ttl, ts)
       \/ \E a \in Stored(hash) :
            /\ store' = IF store[a].ts < ts
                          THEN [store EXCEPT ![a] = [key |-> hash, ttl |-> ttl, ts |-> ts, from |-> h]]
                          ELSE store
            /\ UNCHANGED <<broadcast, ahead>>
    /\ UNCHANGED <<connections, targeted, sent, uptime>>

(* An announce that fails to parse still moves the clock. *)
ReceiveMalformedAnnounce(h, ts) ==
    /\ Connected(h)
    /\ offset' = PossiblyUpdatedOffset(ts)
    /\ UNCHANGED <<connections, store, lists, uptime>>

(* generateMessageIfNeeded, seen from the tracker: from no connection, with *)
(* a full ttl.  A message whose id is stored already is dropped.            *)
GenerateMessage(id) ==
    /\ WeHaveTheTime
    /\ \E a \in SlotIfNew(id) :
         /\ store' = Overlay(store, a, [key |-> id, ttl |-> MaxTtl, ts |-> Now, from |-> 0])
         /\ EnqueueBroadcast(a)
    /\ UNCHANGED <<connections, targeted, sent, clocks>>

(* Mutant: not_announced_to asks whether it was announced to anyone. *)
UnannouncedToAll(h) == Available(h) /\ \A e \in sent : e[1] # OwnAnnounce
NotAnnouncedTo(h) == Available(h) /\ <<OwnAnnounce, h>> \notin sent

AnnounceToConnections ==
    LET unannounced == {h \in Known : NotAnnouncedTo(h)}
    IN /\ WeHaveTheTime
       /\ store' = [store EXCEPT ![OwnAnnounce].ttl = MaxTtl,
                                 ![OwnAnnounce].ts = IF unannounced = {} THEN @ ELSE Now]
       /\ targeted' = targeted \cup unannounced
       /\ UNCHANGED <<connections, broadcast, ahead, sent, clocks>>

------------------------------------------------------------------------------
(* sendPackets *)

(* The scan for "already sent" starts at the packet's first entry and runs  *)
(* to the end of the multimap, over the entries of every packet that lies   *)
(* at a higher address.                                                     *)
Blocked(p, h, log) == \E e \in log : e[1] >= p /\ e[2] = h

First(S) == {h \in S : \A g \in S : h <= g}

(* A packet without an entry passes the first connection; the entry made    *)
(* there starts the scan for the following ones.                            *)
Recipients(p, available, log) ==
    {h \in available : ~Blocked(p, h, log)}
    \cup (IF \A e \in log : e[1] # p THEN First(available) ELSE {})

SendHead(p, available, log) ==
    /\ sent' = log \cup ({p} \X Recipients(p, available, log))
    /\ DequeueBroadcast({p})

(* `accepted`: the connections for which SendPacketToConnection succeeds.   *)
(* One success empties the list of targets, whose only packet is the own    *)
(* announce; a broadcast packet is logged as sent whatever the outcome.     *)
SendPackets(accepted) ==
    LET announcedTo == {h \in targeted : <<OwnAnnounce, h>> \notin sent} \cap accepted
        log == sent \cup ({OwnAnnounce} \X announcedTo)
        available == {h \in Known : Available(h)}
    IN /\ broadcast # {} \/ targeted # {}
       /\ targeted' = IF announcedTo = {} THEN targeted ELSE {}
       /\ \/ /\ available # {}
             /\ \E p \in broadcast : Head(p) /\ SendHead(p, available, log)
          \/ /\ available = {} \/ broadcast = {}
             /\ sent' = log
             /\ UNCHANGED <<broadcast, ahead>>
       /\ UNCHANGED <<connections, store, clocks>>

(* cleanupStaleItems: connections that ended are aged with uptime against   *)
(* the wall clock. *)
CleanupStaleItems ==
    LET stalePackets == {p \in DOMAIN store : StalePacket(p)}
        staleConnections == {h \in Known : StaleConnection(h)}
    IN /\ sent' = {e \in sent : ~StaleEntry(e)}
       /\ DequeueBroadcast(stalePackets)
       /\ targeted' = {h \in targeted : ~StaleEntry(<<OwnAnnounce, h>>)}
       /\ connections' = Only(connections, Known \ staleConnections)
       /\ store' = Only(store, {OwnAnnounce} \cup (DOMAIN store \ stalePackets))
       /\ UNCHANGED clocks

Tick ==
    /\ uptime < MaxUptime
    /\ uptime' = uptime + 1
    /\ UNCHANGED <<connections, store, lists, offset>>

------------------------------------------------------------------------------
Link(h) ==
    \/ \E role \in Roles, wasNeighbour \in BOOLEAN : ReportConnection(h, role, wasNeighbour)
    \/ StoreValueHandle(h)
    \/ ReportDisconnection(h)

Receive(h) ==
    \/ \E id \in MessageIds, ttl \in RxTtls, ts \in RxTimes : ReceiveMessage(h, id, ttl, ts)
    \/ \E hash \in AnnounceHashes, ttl \in RxTtls, ts \in RxTimes :
         ReceiveAnnounce(h, hash, ttl, ts)
    \/ \E ts \in RxTimes : ReceiveMalformedAnnounce(h, ts)

Loop ==
    \/ \E id \in OwnIds : GenerateMessage(id)
    \/ AnnounceToConnections
    \/ \E accepted \in SUBSET Handle : SendPackets(accepted)
    \/ CleanupStaleItems
    \/ Tick

Next == (\E h \in Handle : Link(h) \/ Receive(h)) \/ Loop

Spec == Init /\ [][Next]_vars

(* The loop returns to both calls for ever, and the stack does not refuse   *)
(* for ever an announcement that is offered to it again and again.          *)
AnnounceAccepted(h) ==
    /\ h \in targeted
    /\ \E accepted \in SUBSET Handle : h \in accepted /\ SendPackets(accepted)

FairSpec ==
    /\ Spec
    /\ WF_vars(AnnounceToConnections)
    /\ WF_vars(\E accepted \in SUBSET Handle : SendPackets(accepted))
    /\ \A h \in Handle : SF_vars(AnnounceAccepted(h))

------------------------------------------------------------------------------
(* Properties *)

TypeOK ==
    /\ Known \subseteq Handle
    /\ connections \in [Known -> Connection]
    /\ DOMAIN store \subseteq Pointer
    /\ OwnAnnounce \in DOMAIN store
    /\ store \in [DOMAIN store -> Packet]
    /\ store[OwnAnnounce].key \in SelfHashes
    /\ broadcast \subseteq Heap
    /\ ahead \subseteq broadcast \X broadcast
    /\ targeted \subseteq Handle
    /\ sent \subseteq Pointer \X Handle
    /\ uptime \in 0..MaxUptime
    /\ offset \in 0..(Wrap - 1)

(* No list holds a pointer to a packet or to a connection that              *)
(* cleanupStaleItems has erased from the map that owned it: every later     *)
(* visit of a list dereferences both.                                       *)
NoDangling ==
    /\ broadcast \subseteq DOMAIN store
    /\ targeted \subseteq Known
    /\ \A e \in sent : e[1] \in DOMAIN store /\ e[2] \in Known

(* The own announce is queued for, or logged as sent to, connections that   *)
(* are up, and never both: whoever reuses a handle is announced to afresh,  *)
(* and an announcement queued in one session is not sent in the next.       *)
AnnouncePerSession ==
    \A h \in Handle :
        /\ h \in targeted => Connected(h) /\ <<OwnAnnounce, h>> \notin sent
        /\ <<OwnAnnounce, h>> \in sent => Connected(h)

(* A packet that waits in the broadcast list has not been logged as sent to  *)
(* anyone: it enters the list once in its stay in the store, and no entry of *)
(* an erased packet survives at an address that is allocated anew.           *)
QueuedOnce == \A p \in broadcast : \A e \in sent : e[1] # p

(* What is forwarded for another node has spent a hop; what is queued has a *)
(* hop left; only this node's own messages leave with the full ttl.         *)
MessageTtl ==
    \A p \in broadcast : IsMessage(p) =>
        /\ store[p].ttl > 0
        /\ store[p].ttl = MaxTtl => store[p].from = 0

(* The tracker implements PacketLife: `life` of a message id or an announce *)
(* hash is read off the stored packets and the broadcast list.              *)
LifeOf(key) ==
    CASE Stored(key) = {} -> "absent"
      [] Stored(key) \cap broadcast # {} -> "queued"
      [] OTHER -> "held"

Life == INSTANCE PacketLife WITH
    life <- [key \in Keys |-> LifeOf(key)]

ImplementsPacketLife == Life!Spec

(* A packet that is not stale leaves the broadcast list in first-in         *)
(* first-out order and only when it has been logged as sent to someone.     *)
LeavesInOrder ==
    [][\A p \in broadcast \ broadcast' :
          \/ StalePacket(p)
          \/ /\ \E h \in Handle : <<p, h>> \in sent'
             /\ \A q \in broadcast' : <<q, p>> \notin ahead]_vars

(* readme-picow.md:14 "It then single shot fires off a notification to any  *)
(* BLE devices it can scan for": when sendPackets takes a message off the   *)
(* list, every connection available then has been served.                   *)
BroadcastReachesAll ==
    [][\A p \in broadcast \ broadcast' :
          StalePacket(p) \/ \A h \in Known : Available(h) => <<p, h>> \in sent']_vars

(* While some connection stays available, a queued packet leaves the list:  *)
(* no entry, however old, can make sendPackets pass over its head for ever. *)
QueueDrains ==
    \A p \in Heap :
        p \in broadcast ~> (p \notin broadcast \/ \A h \in Handle : ~Available(h))

(* A connection that is available while the clock is set is announced to,   *)
(* whichever other targets fail or succeed before it.                       *)
EveryoneAnnouncedTo ==
    \A h \in Handle :
        (Available(h) /\ WeHaveTheTime)
            ~> (<<OwnAnnounce, h>> \in sent \/ ~Available(h) \/ ~WeHaveTheTime)

==============================================================================
