------------------------------ MODULE Discovery ------------------------------
(***************************************************************************)
(* main.cpp and the connection table of BleConnectionTracker: how a node   *)
(* hears of its neighbours in a scan, connects to one of them, is          *)
(* connected to, and finds on each link the attribute to which packets are *)
(* written.  The handlers of one event of the controller (LE and GAP       *)
(* connection complete with ATT_EVENT_CONNECTED, both disconnections) run  *)
(* in one poll and are one action.                                         *)
(***************************************************************************)
EXTENDS Integers, FiniteSets

CONSTANTS
    Peer,      \* addresses of the nodes around, in the order of available_neighbours
    Repeaters, \* those that advertise with the name of a repeater
    Random,    \* those with a random address
    Self,      \* this node, as the owner of an attribute
    Handle,    \* HCI handles of links
    Faults     \* links end, attempts fail and queries go unanswered

Nobody == 0
Failure == 0 \* the handle in the event of an attempt that failed

ASSUME PeerAssumption ==
    /\ Peer \subseteq Nat \ {Nobody} /\ Self \in Int \ (Peer \cup {Nobody})
    /\ Repeaters \subseteq Peer /\ Random \subseteq Peer
ASSUME HandleAssumption == Handle \subseteq Nat \ {Failure}
ASSUME FaultAssumption == Faults \in BOOLEAN

VARIABLES
    neighbours,           \* addresses in available_neighbours
    connections,          \* handle -> record
    scanning,
    connectionInProgress,
    discovering,          \* discover_primary_services or discover_characteristics_for_service
    haveTime,             \* weHaveTheTime()
    links,     \* the stack: handle -> the link that is up
    attempt,   \* the peer the controller tries to connect to
    query,     \* handle -> the GATT query that runs on it, with "End" once it was answered
    listening  \* handles whose record is in the stack's list of notification listeners

tracker == <<neighbours, connections>>
radio == <<scanning, connectionInProgress, discovering>>
stack == <<links, attempt, query, listening>>
vars == <<tracker, radio, haveTime, stack>>

Roles == {"master", "slave"}
Queries == {"none", "service", "serviceEnd", "characteristic", "characteristicEnd"}
Record == [connected : BOOLEAN, peer : Peer \cup {Nobody}, role : Roles \cup {"invalid"},
           service : BOOLEAN, value : Peer \cup {Self, Nobody}]
Link == [peer : Peer, role : Roles, answers : BOOLEAN]

Overlay(f, x, v) == [y \in DOMAIN f \cup {x} |-> IF y = x THEN v ELSE f[y]]
Without(f, S) == [x \in DOMAIN f \ S |-> f[x]]

Known == DOMAIN connections
Up(h) == h \in DOMAIN links
Linked(p) == \E h \in DOMAIN links : links[h].peer = p

Init ==
    /\ neighbours = {} /\ connections \in [{} -> Record]
    /\ scanning = TRUE /\ connectionInProgress = FALSE /\ discovering = FALSE
    /\ haveTime = FALSE
    /\ links \in [{} -> Link] /\ attempt = Nobody
    /\ query = [h \in Handle |-> "none"] /\ listening = {}

------------------------------------------------------------------------------
(* Scanning *)

StartScan ==
    /\ ~scanning /\ ~connectionInProgress
    /\ scanning' = TRUE
    /\ UNCHANGED <<tracker, connectionInProgress, discovering, haveTime, stack>>

StopScan ==
    /\ scanning /\ scanning' = FALSE
    /\ UNCHANGED <<tracker, connectionInProgress, discovering, haveTime, stack>>

AddAvailablePeer(p) == neighbours \cup {p}

(* GAP_EVENT_ADVERTISING_REPORT of a peer with the service, connected or    *)
(* not: nodes advertise on when they are connected.                         *)
AdvertisingReport(p) ==
    /\ scanning
    /\ neighbours' = AddAvailablePeer(p)
    /\ UNCHANGED <<connections, radio, haveTime, stack>>

------------------------------------------------------------------------------
(* Connecting *)

(* check_for_uuid: the name decides. *)
IsRepeater(p) == p \in Repeaters

Connectable == {p \in neighbours : (haveTime \/ IsRepeater(p)) /\ p \notin Random}
First(p) == p \in Connectable /\ \A q \in Connectable : p <= q
HasConnection(p) == \E h \in Known : connections[h].connected /\ connections[h].peer = p

SetConnectionStarted(p) == neighbours \ {p}

(* connect_to_first_neighbour: of the first alone it is asked whether it is *)
(* connected.  The stack takes one attempt at a time. *)
ConnectToFirstNeighbour(p) ==
    /\ ~scanning /\ ~connectionInProgress /\ ~discovering
    /\ First(p) /\ ~HasConnection(p)
    /\ attempt = Nobody /\ ~Linked(p)
    /\ attempt' = p
    /\ neighbours' = SetConnectionStarted(p)
    /\ connectionInProgress' = TRUE
    /\ UNCHANGED <<connections, scanning, discovering, haveTime, links, query, listening>>

Blank == [connected |-> FALSE, peer |-> Nobody, role |-> "invalid",
          service |-> FALSE, value |-> Nobody]

(* What reportConnection finds under the handle: a copy of the neighbour it *)
(* heard of, or what the last link with this handle left. *)
Found(h, p) == IF p \in neighbours \/ h \notin Known THEN Blank ELSE connections[h]

(* Mutant: the address is set only where there was none. *)
ReportedOnce(h, p, role) ==
    LET found == Found(h, p)
    IN [found EXCEPT !.connected = TRUE, !.role = role,
                     !.peer = IF found.peer = Nobody THEN p ELSE found.peer]
Reported(h, p, role) == [Found(h, p) EXCEPT !.connected = TRUE, !.peer = p, !.role = role]

(* The three reports of a connection; a master listens for notifications.   *)
ReportConnection(h, p, role) ==
    /\ connections' = Overlay(connections, h, Reported(h, p, role))
    /\ neighbours' = neighbours \ {p}
    /\ listening' = IF role = "master" THEN listening \cup {h} ELSE listening
    /\ connectionInProgress' = FALSE
    /\ discovering' = TRUE
    /\ UNCHANGED <<scanning, haveTime>>

(* LE connection complete, of the attempt or of a peer's.  That the query   *)
(* for the service could not be started is only logged. *)
ConnectionComplete(h, p, role, started, answers) ==
    /\ ~Up(h) /\ ~Linked(p)
    /\ role = "master" => attempt = p
    /\ answers => started
    /\ ~Faults => answers
    /\ links' = Overlay(links, h, [peer |-> p, role |-> role, answers |-> answers])
    /\ attempt' = IF role = "master" THEN Nobody ELSE attempt
    /\ query' = [query EXCEPT ![h] = IF started THEN "service" ELSE "none"]
    /\ ReportConnection(h, p, role)

(* The same event with a status, which is not read: the peer is reported as *)
(* connected with the handle 0, where no query starts. *)
ConnectionFailed ==
    /\ Faults /\ attempt # Nobody
    /\ attempt' = Nobody
    /\ ReportConnection(Failure, attempt, "master")
    /\ UNCHANGED <<links, query>>

------------------------------------------------------------------------------
(* Discovery on a link *)

StoreService(h) == [connections EXCEPT ![h].service = TRUE]
StoreValueHandle(h, owner) == [connections EXCEPT ![h].value = owner]

ServiceQueryResult(h) ==
    /\ query[h] = "service" /\ links[h].answers
    /\ query' = [query EXCEPT ![h] = "serviceEnd"]
    /\ connections' = StoreService(h)
    /\ UNCHANGED <<neighbours, radio, haveTime, links, attempt, listening>>

CharacteristicQueryResult(h) ==
    /\ query[h] = "characteristic" /\ links[h].answers
    /\ query' = [query EXCEPT ![h] = "characteristicEnd"]
    /\ connections' = StoreValueHandle(h, links[h].peer)
    /\ UNCHANGED <<neighbours, radio, haveTime, links, attempt, listening>>

(* Mutant: a flag of the program stands for the state of this link. *)
NeedsCharacteristicIfAsked(h) ==
    discovering /\ connections[h].service /\ connections[h].value = Nobody

(* canAndNeedToDiscoverPacketCharacteristicsQuery *)
NeedsCharacteristic(h) == connections[h].service /\ connections[h].value = Nobody

(* GATT_EVENT_QUERY_COMPLETE, whatever its status: the flags are those of   *)
(* the whole program, the next query is that of the link. *)
QueryComplete(h) ==
    /\ \/ query[h] \in {"serviceEnd", "characteristicEnd"}
       \/ query[h] # "none" /\ ~links[h].answers
    /\ discovering' = NeedsCharacteristic(h)
    /\ \/ NeedsCharacteristic(h) /\ query' = [query EXCEPT ![h] = "characteristic"]
       \/ /\ NeedsCharacteristic(h) => ~links[h].answers
          /\ query' = [query EXCEPT ![h] = "none"]
    /\ UNCHANGED <<tracker, scanning, connectionInProgress, haveTime, links, attempt, listening>>

(* att_write_callback, client configuration: who connected to this node     *)
(* subscribes, and the handle of the node's own attribute is stored where   *)
(* that of the peer's is. *)
Subscribe(h) ==
    /\ Up(h) /\ links[h].role = "slave"
    /\ connections' = StoreValueHandle(h, Self)
    /\ UNCHANGED <<neighbours, radio, haveTime, stack>>

ReportDisconnection(h) ==
    /\ connections' = [connections EXCEPT ![h].connected = FALSE]
    /\ listening' = IF connections[h].role = "master" THEN listening \ {h} ELSE listening

(* Both disconnection events.  The stack first completes the query of the   *)
(* link; the one that this starts never completes. *)
Disconnection(h) ==
    /\ Faults /\ Up(h)
    /\ discovering' = IF query[h] = "none" THEN discovering ELSE NeedsCharacteristic(h)
    /\ query' = [query EXCEPT ![h] = "none"]
    /\ links' = Without(links, {h})
    /\ ReportDisconnection(h)
    /\ UNCHANGED <<neighbours, scanning, connectionInProgress, haveTime, attempt>>

------------------------------------------------------------------------------
(* processWrite of an announcement. *)
ReceiveTime ==
    /\ DOMAIN links # {} /\ ~haveTime
    /\ haveTime' = TRUE
    /\ UNCHANGED <<tracker, radio, stack>>

(* cleanupStaleItems: a record's time is uptime and is compared with the    *)
(* wall clock, so with the clock set every record that is not connected is  *)
(* stale; before, any may be ten minutes old. *)
CleanupStaleItems ==
    LET idle == {h \in Known : ~connections[h].connected}
    IN \E heard \in SUBSET neighbours, ended \in SUBSET idle :
         /\ haveTime => heard = neighbours /\ ended = idle
         /\ neighbours' = neighbours \ heard
         /\ connections' = Without(connections, ended)
         /\ UNCHANGED <<radio, haveTime, stack>>

------------------------------------------------------------------------------
Scanning == StartScan \/ StopScan \/ \E p \in Peer : AdvertisingReport(p)

Connecting ==
    \/ \E p \in Peer : ConnectToFirstNeighbour(p)
    \/ \E h \in Handle, p \in Peer, role \in Roles, started, answers \in BOOLEAN :
         ConnectionComplete(h, p, role, started, answers)
    \/ ConnectionFailed

OnLink(h) ==
    \/ ServiceQueryResult(h) \/ CharacteristicQueryResult(h) \/ QueryComplete(h)
    \/ Subscribe(h) \/ Disconnection(h)

Next ==
    \/ Scanning \/ Connecting \/ (\E h \in Handle : OnLink(h))
    \/ ReceiveTime \/ CleanupStaleItems

Spec == Init /\ [][Next]_vars

(* A peer that answers does so in the end. *)
FairSpec ==
    /\ Spec
    /\ \A h \in Handle :
         /\ WF_vars(ServiceQueryResult(h))
         /\ WF_vars(CharacteristicQueryResult(h))
         /\ WF_vars(QueryComplete(h))

(* The loop scans and connects for ever, every peer is heard in scan after  *)
(* scan, and an attempt that is not given up completes. *)
RadioFairSpec ==
    /\ FairSpec
    /\ WF_vars(StartScan) /\ WF_vars(StopScan)
    /\ \A p \in Peer :
         /\ SF_vars(AdvertisingReport(p))
         /\ SF_vars(ConnectToFirstNeighbour(p))
         /\ SF_vars(\E h \in Handle : ConnectionComplete(h, p, "master", TRUE, TRUE))

------------------------------------------------------------------------------
(* Properties *)

TypeOK ==
    /\ neighbours \subseteq Peer
    /\ Known \subseteq Handle \cup {Failure} /\ connections \in [Known -> Record]
    /\ scanning \in BOOLEAN /\ connectionInProgress \in BOOLEAN /\ discovering \in BOOLEAN
    /\ haveTime \in BOOLEAN
    /\ DOMAIN links \subseteq Handle /\ links \in [DOMAIN links -> Link]
    /\ attempt \in Peer \cup {Nobody}
    /\ query \in [Handle -> Queries]
    /\ listening \subseteq Known

(* The program's picture is the stack's: under the handle of a link, and    *)
(* under no other, there is a connected record, with its peer and role,     *)
(* which decide whom packets go to and how; the list of listeners, which    *)
(* points into the records, holds those of the links this node made; and    *)
(* connection_in_progress is up only while an attempt can still lower it.   *)
StackAgrees ==
    /\ \A h \in Handle :
         /\ Up(h) <=> h \in Known /\ connections[h].connected
         /\ Up(h) => connections[h].peer = links[h].peer /\ connections[h].role = links[h].role
         /\ h \in listening <=> Up(h) /\ links[h].role = "master"
    /\ connectionInProgress => attempt # Nobody

(* A link made to a peer that answers, and whose record does not start with *)
(* the value handle of an earlier link, gets that peer's value handle in    *)
(* the end, whatever queries of other links lower the flags they share.     *)
FoundInTheEnd ==
    \A h \in Handle, p \in Peer :
        LET AnsweringLink == Up(h) /\ links[h] = [peer |-> p, role |-> "master", answers |-> TRUE]
        IN (AnsweringLink /\ connections[h].value = Nobody /\ []AnsweringLink)
             ~> (AnsweringLink /\ connections[h].value = p)

(* readme-picow.md:14 "It then single shot fires off a notification to any  *)
(* BLE devices it can scan for": a repeater that is heard in scan after     *)
(* scan is connected to in the end. *)
NeighbourReached == \A p \in Repeaters : <>Linked(p)
==============================================================================
