--------------------------- MODULE Discovery_proofs ---------------------------
(***************************************************************************)
(* The program's picture of its links is the stack's, for any sets of      *)
(* peers and handles.  The invariant is the type, StackAgrees, and that    *)
(* queries run on links only and listeners are connected, which also holds *)
(* of the record that a failed attempt leaves.                             *)
(***************************************************************************)
EXTENDS Discovery, TLAPS

QueriesOnLinks == \A h \in Handle : query[h] # "none" => Up(h)
ListenersConnected == \A h \in listening : h \in Known /\ connections[h].connected

Inv == TypeOK /\ StackAgrees /\ QueriesOnLinks /\ ListenersConnected

------------------------------------------------------------------------------
(* Records *)

LEMMA BlankType == Blank \in Record
BY DEF Blank, Record, Roles

LEMMA ReportedType ==
    ASSUME TypeOK, NEW h, NEW p \in Peer, NEW role \in Roles
    PROVE  /\ Reported(h, p, role) \in Record
           /\ Reported(h, p, role).connected
           /\ Reported(h, p, role).peer = p
           /\ Reported(h, p, role).role = role
<1>1. Found(h, p) \in Record
  BY BlankType DEF Found, TypeOK
<1>. QED
  BY <1>1 DEF Reported, Record, Roles

LEMMA InitInv == Init => Inv
<1> SUFFICES ASSUME Init PROVE Inv
  OBVIOUS
<1>1. TypeOK
  BY DEF Init, TypeOK, Known, Queries
<1>2. StackAgrees
  BY DEF Init, StackAgrees, Up, Known
<1>. QED
  BY <1>1, <1>2 DEF Init, Inv, QueriesOnLinks, ListenersConnected

------------------------------------------------------------------------------
(* What no handler of a link touches *)

LEMMA ScanningInv == ASSUME Inv, Scanning PROVE Inv'
<1>1. UNCHANGED <<connections, connectionInProgress, discovering, haveTime, stack>>
  BY DEF Scanning, StartScan, StopScan, AdvertisingReport, tracker, radio
<1>2. neighbours' \subseteq Peer /\ scanning' \in BOOLEAN
  BY DEF Scanning, StartScan, StopScan, AdvertisingReport, AddAvailablePeer, tracker, radio,
         Inv, TypeOK
<1>. QED
  BY <1>1, <1>2 DEF Inv, TypeOK, StackAgrees, QueriesOnLinks, ListenersConnected, Known, Up, stack

LEMMA ConnectInv ==
    ASSUME Inv, NEW p \in Peer, ConnectToFirstNeighbour(p)
    PROVE  Inv'
<1>1. /\ neighbours' \subseteq Peer /\ attempt' = p /\ p # Nobody
      /\ UNCHANGED <<connections, scanning, discovering, haveTime, links, query, listening>>
      /\ connectionInProgress' \in BOOLEAN
  BY PeerAssumption DEF ConnectToFirstNeighbour, SetConnectionStarted, Inv, TypeOK
<1>. QED
  BY <1>1 DEF Inv, TypeOK, StackAgrees, QueriesOnLinks, ListenersConnected, Known, Up

LEMMA TimeInv == ASSUME Inv, ReceiveTime PROVE Inv'
BY DEF ReceiveTime, tracker, radio, stack,
       Inv, TypeOK, StackAgrees, QueriesOnLinks, ListenersConnected, Known, Up

LEMMA CleanupInv == ASSUME Inv, CleanupStaleItems PROVE Inv'
<1> DEFINE idle == {h \in Known : ~connections[h].connected}
<1>1. PICK heard \in SUBSET neighbours, ended \in SUBSET idle :
        /\ neighbours' = neighbours \ heard
        /\ connections' = Without(connections, ended)
        /\ UNCHANGED <<radio, haveTime, stack>>
  BY DEF CleanupStaleItems
<1>2. /\ Known' = Known \ ended
      /\ \A h \in Known' : connections'[h] = connections[h]
      /\ \A h \in Known : connections[h].connected => h \in Known'
      /\ connections' = [h \in Known' |-> connections'[h]]
  BY <1>1 DEF Without, Known
<1>3. /\ connections' \in [Known' -> Record]
      /\ Known' \subseteq Handle \cup {Failure}
  BY <1>2 DEF Inv, TypeOK
<1>4. UNCHANGED <<radio, haveTime, stack>> /\ neighbours' \subseteq Peer
  BY <1>1 DEF Inv, TypeOK
<1>5. \A h \in listening' : h \in Known' /\ connections'[h].connected
  BY <1>2, <1>4 DEF Inv, ListenersConnected, stack
<1>6. TypeOK'
  BY <1>3, <1>4, <1>5 DEF Inv, TypeOK, radio, stack
<1>7. StackAgrees'
  BY <1>2, <1>4 DEF Inv, StackAgrees, Up, radio, stack
<1>. QED
  BY <1>4, <1>5, <1>6, <1>7 DEF Inv, QueriesOnLinks, ListenersConnected, Up, stack

------------------------------------------------------------------------------
(* Connections *)

(* What ReportConnection does to table and listeners. *)
LEMMA ReportedConnection ==
    ASSUME TypeOK, NEW h \in Handle \cup {Failure}, NEW p \in Peer, NEW role \in Roles,
           ReportConnection(h, p, role)
    PROVE  /\ Known' = Known \cup {h}
           /\ connections' \in [Known' -> Record]
           /\ connections'[h].connected /\ connections'[h].peer = p /\ connections'[h].role = role
           /\ \A g \in Known : g # h => connections'[g] = connections[g]
           /\ neighbours' \subseteq Peer
           /\ connectionInProgress' = FALSE /\ discovering' = TRUE
           /\ UNCHANGED <<scanning, haveTime>>
<1>1. /\ connections' = [y \in Known \cup {h} |->
                           IF y = h THEN Reported(h, p, role) ELSE connections[y]]
      /\ Known' = Known \cup {h}
  BY DEF ReportConnection, Overlay, Known
<1>2. /\ Reported(h, p, role) \in Record
      /\ Reported(h, p, role).connected
      /\ Reported(h, p, role).peer = p
      /\ Reported(h, p, role).role = role
  BY ReportedType
<1>. QED
  BY <1>1, <1>2 DEF ReportConnection, TypeOK

LEMMA CompleteInv ==
    ASSUME Inv, NEW h \in Handle, NEW p \in Peer, NEW role \in Roles,
           NEW started \in BOOLEAN, NEW answers \in BOOLEAN,
           ConnectionComplete(h, p, role, started, answers)
    PROVE  Inv'
<1>1. ReportConnection(h, p, role) /\ ~Up(h) /\ TypeOK
  BY DEF ConnectionComplete, Inv
<1>2. /\ Known' = Known \cup {h}
      /\ connections' \in [Known' -> Record]
      /\ connections'[h].connected /\ connections'[h].peer = p /\ connections'[h].role = role
      /\ \A g \in Known : g # h => connections'[g] = connections[g]
      /\ neighbours' \subseteq Peer
      /\ connectionInProgress' = FALSE /\ discovering' = TRUE
      /\ UNCHANGED <<scanning, haveTime>>
  BY <1>1, ReportedConnection
<1>3. /\ DOMAIN links' = DOMAIN links \cup {h}
      /\ links'[h].peer = p /\ links'[h].role = role
      /\ \A g \in DOMAIN links : g # h => links'[g] = links[g]
      /\ links' \in [DOMAIN links' -> Link]
  <2>1. links' = [y \in DOMAIN links \cup {h} |->
                    IF y = h THEN [peer |-> p, role |-> role, answers |-> answers] ELSE links[y]]
    BY DEF ConnectionComplete, Overlay
  <2>2. [peer |-> p, role |-> role, answers |-> answers] \in Link
    BY DEF Link
  <2>. QED
    BY <2>1, <2>2, <1>1 DEF TypeOK
<1>4. listening' = IF role = "master" THEN listening \cup {h} ELSE listening
  BY <1>1 DEF ReportConnection
<1>5. /\ query' = [query EXCEPT ![h] = IF started THEN "service" ELSE "none"]
      /\ query' \in [Handle -> Queries]
      /\ attempt' \in Peer \cup {Nobody}
  BY <1>1 DEF ConnectionComplete, TypeOK, Queries
<1>6. h \notin listening
  BY <1>1 DEF Inv, StackAgrees
<1>7. TypeOK'
  BY <1>1, <1>2, <1>3, <1>4, <1>5 DEF TypeOK
<1>8. StackAgrees'
  <2>1. ASSUME NEW g \in Handle
        PROVE  /\ Up(g)' <=> g \in Known' /\ connections'[g].connected
               /\ Up(g)' => connections'[g].peer = links'[g].peer
                            /\ connections'[g].role = links'[g].role
               /\ g \in listening' <=> Up(g)' /\ links'[g].role = "master"
    <3>1. CASE g = h
      BY <3>1, <1>2, <1>3, <1>4, <1>6 DEF Up
    <3>2. CASE g # h
      BY <3>2, <1>2, <1>3, <1>4 DEF Up, Inv, StackAgrees
    <3>. QED
      BY <3>1, <3>2
  <2>. QED
    BY <2>1, <1>2 DEF StackAgrees
<1>9. QueriesOnLinks' /\ ListenersConnected'
  BY <1>1, <1>2, <1>3, <1>4, <1>5 DEF Inv, QueriesOnLinks, ListenersConnected, Up, TypeOK
<1>. QED
  BY <1>7, <1>8, <1>9 DEF Inv

(* The record of a failed attempt is at a handle of no link. *)
LEMMA FailedInv == ASSUME Inv, ConnectionFailed PROVE Inv'
<1>1. /\ ReportConnection(Failure, attempt, "master") /\ attempt \in Peer /\ TypeOK
      /\ attempt' = Nobody /\ UNCHANGED <<links, query>> /\ "master" \in Roles
  BY DEF ConnectionFailed, Inv, TypeOK, Roles
<1>2. /\ Known' = Known \cup {Failure}
      /\ connections' \in [Known' -> Record]
      /\ connections'[Failure].connected
      /\ \A g \in Known : g # Failure => connections'[g] = connections[g]
      /\ neighbours' \subseteq Peer
      /\ connectionInProgress' = FALSE /\ discovering' = TRUE
      /\ UNCHANGED <<scanning, haveTime>>
  BY <1>1, ReportedConnection
<1>3. listening' = listening \cup {Failure}
  BY <1>1 DEF ReportConnection
<1>4. Failure \notin Handle
  BY HandleAssumption
<1>5. TypeOK'
  BY <1>1, <1>2, <1>3 DEF TypeOK
<1>6. StackAgrees'
  BY <1>1, <1>2, <1>3, <1>4 DEF Inv, StackAgrees, Up
<1>. QED
  BY <1>1, <1>2, <1>3, <1>5, <1>6 DEF Inv, QueriesOnLinks, ListenersConnected, Up

------------------------------------------------------------------------------
(* Events of a link *)

(* A change of the attributes in the record of a link. *)
LEMMA AttributesInv ==
    ASSUME Inv, NEW h \in Handle, Up(h),
           NEW r \in Record, connections' = [connections EXCEPT ![h] = r],
           r.connected = connections[h].connected, r.peer = connections[h].peer,
           r.role = connections[h].role,
           query' \in [Handle -> Queries],
           \A g \in Handle : query'[g] # "none" => Up(g),
           UNCHANGED <<neighbours, radio, haveTime, links, attempt, listening>>
    PROVE  Inv'
<1>1. /\ Known' = Known /\ h \in Known
      /\ connections' \in [Known' -> Record]
      /\ \A g \in Known : /\ connections'[g].connected = connections[g].connected
                          /\ connections'[g].peer = connections[g].peer
                          /\ connections'[g].role = connections[g].role
  BY DEF Inv, TypeOK, StackAgrees, Known
<1>2. TypeOK'
  BY <1>1 DEF Inv, TypeOK, radio
<1>3. StackAgrees'
  BY <1>1 DEF Inv, StackAgrees, Up, radio
<1>. QED
  BY <1>1, <1>2, <1>3 DEF Inv, QueriesOnLinks, ListenersConnected, Up

LEMMA ServiceInv == ASSUME Inv, NEW h \in Handle, ServiceQueryResult(h) PROVE Inv'
<1> DEFINE r == [connections[h] EXCEPT !.service = TRUE]
<1>1. Up(h) /\ connections[h] \in Record
  BY DEF ServiceQueryResult, Inv, QueriesOnLinks, StackAgrees, TypeOK
<1>2. /\ r \in Record /\ r.connected = connections[h].connected
      /\ r.peer = connections[h].peer /\ r.role = connections[h].role
  BY <1>1 DEF Record
<1>3. /\ connections' = [connections EXCEPT ![h] = r]
      /\ UNCHANGED <<neighbours, radio, haveTime, links, attempt, listening>>
  BY DEF ServiceQueryResult, StoreService
<1>4. /\ query' \in [Handle -> Queries]
      /\ \A g \in Handle : query'[g] # "none" => Up(g)
  BY <1>1 DEF ServiceQueryResult, Inv, TypeOK, QueriesOnLinks, Queries
<1>. QED
  BY <1>1, <1>2, <1>3, <1>4, AttributesInv

LEMMA ValueType ==
    ASSUME NEW c \in Record, NEW owner \in Peer \cup {Self, Nobody}
    PROVE  LET r == [c EXCEPT !.value = owner]
           IN /\ r \in Record /\ r.connected = c.connected
              /\ r.peer = c.peer /\ r.role = c.role
BY DEF Record

LEMMA CharacteristicInv == ASSUME Inv, NEW h \in Handle, CharacteristicQueryResult(h) PROVE Inv'
<1> DEFINE r == [connections[h] EXCEPT !.value = links[h].peer]
<1>1. Up(h) /\ connections[h] \in Record /\ links[h].peer \in Peer
  BY DEF CharacteristicQueryResult, Inv, QueriesOnLinks, StackAgrees, TypeOK, Up, Link
<1>2. /\ r \in Record /\ r.connected = connections[h].connected
      /\ r.peer = connections[h].peer /\ r.role = connections[h].role
  BY <1>1, ValueType
<1>3. /\ connections' = [connections EXCEPT ![h] = r]
      /\ UNCHANGED <<neighbours, radio, haveTime, links, attempt, listening>>
  BY DEF CharacteristicQueryResult, StoreValueHandle
<1>4. /\ query' \in [Handle -> Queries]
      /\ \A g \in Handle : query'[g] # "none" => Up(g)
  BY <1>1 DEF CharacteristicQueryResult, Inv, TypeOK, QueriesOnLinks, Queries
<1>. QED
  BY <1>1, <1>2, <1>3, <1>4, AttributesInv

LEMMA SubscribeInv == ASSUME Inv, NEW h \in Handle, Subscribe(h) PROVE Inv'
<1> DEFINE r == [connections[h] EXCEPT !.value = Self]
<1>1. Up(h) /\ connections[h] \in Record
  BY DEF Subscribe, Inv, StackAgrees, TypeOK
<1>2. /\ r \in Record /\ r.connected = connections[h].connected
      /\ r.peer = connections[h].peer /\ r.role = connections[h].role
  BY <1>1, ValueType
<1>3. /\ connections' = [connections EXCEPT ![h] = r]
      /\ UNCHANGED <<neighbours, radio, haveTime, links, attempt, query, listening>>
  BY DEF Subscribe, StoreValueHandle, stack
<1>4. /\ query' \in [Handle -> Queries]
      /\ \A g \in Handle : query'[g] # "none" => Up(g)
  BY <1>3 DEF Inv, TypeOK, QueriesOnLinks
<1>. QED
  BY <1>1, <1>2, <1>3, <1>4, AttributesInv

LEMMA QueryCompleteInv == ASSUME Inv, NEW h \in Handle, QueryComplete(h) PROVE Inv'
<1>1. Up(h) /\ h \in Known /\ connections[h] \in Record
  BY DEF QueryComplete, Inv, QueriesOnLinks, StackAgrees, TypeOK
<1>2. /\ UNCHANGED <<tracker, scanning, connectionInProgress, haveTime, links, attempt, listening>>
      /\ query' \in [Handle -> Queries]
      /\ \A g \in Handle : query'[g] # "none" => Up(g)
  BY <1>1 DEF QueryComplete, Inv, TypeOK, QueriesOnLinks, Queries
<1>3. discovering' \in BOOLEAN
  BY DEF QueryComplete, NeedsCharacteristic, Inv, TypeOK, Record
<1>. QED
  BY <1>2, <1>3 DEF Inv, TypeOK, StackAgrees, QueriesOnLinks, ListenersConnected, Known, Up, tracker

LEMMA DisconnectionInv == ASSUME Inv, NEW h \in Handle, Disconnection(h) PROVE Inv'
<1>1. Up(h) /\ h \in Known /\ connections[h] \in Record /\ connections[h].role = links[h].role
  BY DEF Disconnection, Inv, StackAgrees, TypeOK
<1>2. /\ Known' = Known /\ connections' \in [Known' -> Record]
      /\ ~connections'[h].connected
      /\ \A g \in Known : g # h => connections'[g] = connections[g]
  BY <1>1 DEF Disconnection, ReportDisconnection, Inv, TypeOK, Known, Record
<1>3. /\ DOMAIN links' = DOMAIN links \ {h} /\ links' \in [DOMAIN links' -> Link]
      /\ \A g \in DOMAIN links' : links'[g] = links[g]
  BY DEF Disconnection, Without, Inv, TypeOK
<1>4. listening' = listening \ {h}
  BY <1>1 DEF Disconnection, ReportDisconnection, Inv, StackAgrees
<1>5. query' \in [Handle -> Queries] /\ query'[h] = "none"
      /\ \A g \in Handle : g # h => query'[g] = query[g]
  BY DEF Disconnection, Inv, TypeOK, Queries
<1>6. discovering' \in BOOLEAN /\ UNCHANGED <<neighbours, scanning, connectionInProgress, haveTime, attempt>>
  BY DEF Disconnection, NeedsCharacteristic, Inv, TypeOK
<1>7. TypeOK'
  BY <1>2, <1>3, <1>4, <1>5, <1>6 DEF Inv, TypeOK
<1>8. StackAgrees'
  BY <1>1, <1>2, <1>3, <1>4, <1>6 DEF Inv, StackAgrees, Up
<1>. QED
  BY <1>2, <1>3, <1>4, <1>5, <1>7, <1>8 DEF Inv, QueriesOnLinks, ListenersConnected, Up

------------------------------------------------------------------------------
LEMMA NextInv == Inv /\ [Next]_vars => Inv'
<1> SUFFICES ASSUME Inv, [Next]_vars PROVE Inv'
  OBVIOUS
<1>1. CASE Scanning
  BY <1>1, ScanningInv
<1>2. CASE Connecting
  BY <1>2, ConnectInv, CompleteInv, FailedInv DEF Connecting
<1>3. CASE \E h \in Handle : OnLink(h)
  BY <1>3, ServiceInv, CharacteristicInv, QueryCompleteInv, SubscribeInv, DisconnectionInv DEF OnLink
<1>4. CASE ReceiveTime
  BY <1>4, TimeInv
<1>5. CASE CleanupStaleItems
  BY <1>5, CleanupInv
<1>6. CASE UNCHANGED vars
  BY <1>6 DEF vars, tracker, radio, stack,
              Inv, TypeOK, StackAgrees, QueriesOnLinks, ListenersConnected, Known, Up
<1>. QED
  BY <1>1, <1>2, <1>3, <1>4, <1>5, <1>6 DEF Next

LEMMA AlwaysInv == Spec => []Inv
BY InitInv, NextInv, PTL DEF Spec

(* Every reachable state is well typed: no event of the stack meets a       *)
(* handle without a record, and every listener's record exists. *)
THEOREM DiscoveryTypeCorrect == Spec => []TypeOK
<1>1. Inv => TypeOK
  BY DEF Inv
<1>. QED
  BY <1>1, AlwaysInv, PTL

(* The table agrees with the stack whatever comes in which order: failed    *)
(* attempts, reused handles, cleanups between, links that end. *)
THEOREM TableAgreesWithStack == Spec => []StackAgrees
<1>1. Inv => StackAgrees
  BY DEF Inv
<1>. QED
  BY <1>1, AlwaysInv, PTL
==============================================================================
