-------------------------- MODULE MeshTracker_proofs --------------------------
(***************************************************************************)
(* The invariants of MeshTracker, for any sets of handles, addresses, ids   *)
(* and times.  NoDangling is inductive with the type; what is queued and    *)
(* announced then follows, because a packet is stored at an address no list *)
(* mentions and a connection starts that no list mentions.  Seen from       *)
(* outside the steps implement PacketLife, and the broadcast list is served *)
(* first in, first out: the refinement needs that a key is stored at one    *)
(* address only, so that erasing a queued packet leaves no second copy.     *)
(***************************************************************************)
EXTENDS MeshTracker, TLAPS, WellFoundedInduction

(* Arithmetic modulo Wrap stays below Wrap. *)
LEMMA Wrapped == \A x \in Int : x % Wrap \in 0..(Wrap - 1)
BY NumberAssumption

LEMMA NowType == TypeOK => Now \in Nat
BY NumberAssumption, Wrapped DEF TypeOK, Now

LEMMA OffsetType ==
    ASSUME TypeOK, NEW timestamp \in Nat
    PROVE  PossiblyUpdatedOffset(timestamp) \in 0..(Wrap - 1)
<1>1. Now \in Nat
  BY NowType
<1>2. offset + (timestamp - Now) \in Int /\ offset \in 0..(Wrap - 1)
  BY <1>1, NumberAssumption DEF TypeOK
<1>. QED
  BY <1>2, Wrapped DEF PossiblyUpdatedOffset

LEMMA SpentTtlType == \A ttl \in Nat : SpentTtl(ttl) \in Nat
BY DEF SpentTtl

------------------------------------------------------------------------------
(* Type correctness, one lemma per kind of step. *)

LEMMA InitType == Init => TypeOK
<1> SUFFICES ASSUME Init PROVE TypeOK
  OBVIOUS
<1>1. (CHOOSE k \in SelfHashes : TRUE) \in SelfHashes
  BY KeyAssumption
<1>. QED
  BY <1>1, KeyAssumption, NumberAssumption DEF Init, TypeOK, Known, Pointer, Keys, Packet, Connection

(* A packet stored at an address of Heap leaves the own announce alone. *)
LEMMA StoreType ==
    ASSUME TypeOK, NEW a \in Heap, NEW p \in Packet, store' = Overlay(store, a, p)
    PROVE  /\ DOMAIN store' \subseteq Pointer
           /\ OwnAnnounce \in DOMAIN store'
           /\ store' \in [DOMAIN store' -> Packet]
           /\ store'[OwnAnnounce].key \in SelfHashes
<1>1. OwnAnnounce # a
  BY HeapAssumption
<1>2. store \in [DOMAIN store -> Packet] /\ OwnAnnounce \in DOMAIN store
  BY DEF TypeOK
<1>3. /\ store' \in [DOMAIN store \cup {a} -> Packet]
      /\ store'[OwnAnnounce] = store[OwnAnnounce]
  BY <1>1, <1>2 DEF Overlay
<1>. QED
  BY <1>2, <1>3 DEF TypeOK, Pointer

(* The list after a packet of Heap is queued behind it. *)
LEMMA EnqueueType ==
    ASSUME TypeOK, NEW a \in Heap, EnqueueBroadcast(a) \/ UNCHANGED <<broadcast, ahead>>
    PROVE  broadcast' \subseteq Heap /\ ahead' \subseteq broadcast' \X broadcast'
<1>1. CASE EnqueueBroadcast(a)
  BY <1>1 DEF TypeOK, EnqueueBroadcast
<1>2. CASE UNCHANGED <<broadcast, ahead>>
  BY <1>2 DEF TypeOK
<1>. QED
  BY <1>1, <1>2

LEMMA DequeueType ==
    ASSUME TypeOK, NEW S, DequeueBroadcast(S)
    PROVE  broadcast' \subseteq Heap /\ ahead' \subseteq broadcast' \X broadcast'
<1> SUFFICES ASSUME NEW pair \in ahead' PROVE pair \in broadcast' \X broadcast'
  BY DEF TypeOK, DequeueBroadcast
<1>1. pair \in ahead /\ pair[1] \notin S /\ pair[2] \notin S
  BY DEF DequeueBroadcast
<1>2. PICK b \in broadcast, c \in broadcast : pair = <<b, c>>
  BY <1>1 DEF TypeOK
<1>. QED
  BY <1>1, <1>2 DEF DequeueBroadcast

LEMMA LinkType ==
    ASSUME TypeOK, NEW h \in Handle, Link(h)
    PROVE  TypeOK'
<1>1. ASSUME NEW role \in Roles, NEW wasNeighbour \in BOOLEAN,
             ReportConnection(h, role, wasNeighbour)
      PROVE  TypeOK'
  <2> DEFINE kept == h \in Known /\ ~wasNeighbour
             new == [connected |-> TRUE, role |-> role, ts |-> uptime,
                     valueHandle |-> kept /\ connections[h].valueHandle]
  <2>1. new.valueHandle \in BOOLEAN
    BY Zenon DEF TypeOK, Known, Connection
  <2>2. new \in Connection
    BY <2>1 DEF TypeOK, Connection
  <2>3. connections' = Overlay(connections, h, new)
    BY <1>1 DEF ReportConnection
  <2>. HIDE DEF new
  <2>4. connections' \in [Known \cup {h} -> Connection] /\ Known' = Known \cup {h}
    BY <2>2, <2>3 DEF Overlay, TypeOK, Known
  <2>. QED
    BY <1>1, <2>4 DEF ReportConnection, TypeOK, lists, clocks
<1>2. ASSUME StoreValueHandle(h) \/ ReportDisconnection(h)
      PROVE  TypeOK'
  <2>1. h \in Known /\ connections \in [Known -> Connection]
    BY <1>2 DEF StoreValueHandle, ReportDisconnection, TypeOK, Connected
  <2>2. CASE StoreValueHandle(h)
    <3>1. [connections[h] EXCEPT !.valueHandle = TRUE] \in Connection
      BY <2>1 DEF Connection
    <3>2. connections' \in [Known -> Connection] /\ Known' = Known
      BY <2>1, <2>2, <3>1 DEF StoreValueHandle, Known
    <3>. QED
      BY <2>2, <3>2 DEF StoreValueHandle, TypeOK, lists, clocks
  <2>3. CASE ReportDisconnection(h)
    <3>1. [connections[h] EXCEPT !.connected = FALSE] \in Connection
      BY <2>1 DEF Connection
    <3>2. connections' \in [Known -> Connection] /\ Known' = Known
      BY <2>1, <2>3, <3>1 DEF ReportDisconnection, Known
    <3>. QED
      BY <2>3, <3>2 DEF ReportDisconnection, TypeOK, clocks
  <2>. QED
    BY <1>2, <2>2, <2>3
<1>. QED
  BY <1>1, <1>2 DEF Link

LEMMA TakeInType ==
    ASSUME TypeOK, NEW h \in Handle, NEW key \in Keys, NEW ttl \in RxTtls, NEW ts \in RxTimes,
           TakeIn(h, key, ttl, ts)
    PROVE  /\ DOMAIN store' \subseteq Pointer
           /\ OwnAnnounce \in DOMAIN store'
           /\ store' \in [DOMAIN store' -> Packet]
           /\ store'[OwnAnnounce].key \in SelfHashes
           /\ broadcast' \subseteq Heap /\ ahead' \subseteq broadcast' \X broadcast'
<1> DEFINE new == [key |-> key, ttl |-> SpentTtl(ttl), ts |-> ts, from |-> h]
<1>1. new \in Packet
  BY SpentTtlType, NumberAssumption DEF Packet
<1>2. PICK a \in Heap \ DOMAIN store :
         /\ store' = Overlay(store, a, new)
         /\ EnqueueBroadcast(a) \/ UNCHANGED <<broadcast, ahead>>
  BY DEF TakeIn, SlotIfNew
<1>. HIDE DEF new
<1>. QED
  BY <1>1, <1>2, StoreType, EnqueueType

LEMMA ReceiveType ==
    ASSUME TypeOK, NEW h \in Handle, Receive(h)
    PROVE  TypeOK'
<1>1. ASSUME NEW id \in MessageIds, NEW ttl \in RxTtls, NEW ts \in RxTimes,
             ReceiveMessage(h, id, ttl, ts)
      PROVE  TypeOK'
  <2>1. TakeIn(h, id, ttl, ts) /\ id \in Keys
    BY <1>1 DEF ReceiveMessage, Keys
  <2>2. UNCHANGED <<connections, targeted, sent, clocks>>
    BY <1>1 DEF ReceiveMessage
  <2>. QED
    BY <2>1, <2>2, TakeInType DEF TypeOK, Known, clocks
<1>2. ASSUME NEW hash \in AnnounceHashes, NEW ttl \in RxTtls, NEW ts \in RxTimes,
             ReceiveAnnounce(h, hash, ttl, ts)
      PROVE  TypeOK'
  <2> DEFINE announce == [key |-> hash, ttl |-> ttl, ts |-> ts, from |-> h]
  <2>1. announce \in Packet
    BY NumberAssumption DEF Packet, Keys
  <2>2. UNCHANGED <<connections, targeted, sent, uptime>>
    BY <1>2 DEF ReceiveAnnounce
  <2>3. offset' \in 0..(Wrap - 1)
    BY <1>2, OffsetType, NumberAssumption DEF ReceiveAnnounce
  <2>4. CASE TakeIn(h, hash, ttl, ts)
    <3>1. hash \in Keys
      BY DEF Keys
    <3>. QED
      BY <2>2, <2>3, <2>4, <3>1, TakeInType DEF TypeOK, Known
  <2>5. ASSUME NEW a \in Stored(hash), store' = [store EXCEPT ![a] = announce],
               UNCHANGED <<broadcast, ahead>>
        PROVE  TypeOK'
    <3>. HIDE DEF announce
    <3>1. a \in Heap \cap DOMAIN store
      BY DEF Stored
    <3>2. a # OwnAnnounce
      BY <3>1, HeapAssumption
    <3>3. store' \in [DOMAIN store -> Packet] /\ store'[OwnAnnounce] = store[OwnAnnounce]
      BY <2>1, <2>5, <3>1, <3>2 DEF TypeOK
    <3>. QED
      BY <2>2, <2>3, <2>5, <3>3 DEF TypeOK, Known
  <2>6. CASE UNCHANGED <<store, broadcast, ahead>>
    BY <2>2, <2>3, <2>6 DEF TypeOK, Known
  <2>. QED
    BY <1>2, <2>4, <2>5, <2>6 DEF ReceiveAnnounce
<1>3. ASSUME NEW ts \in RxTimes, ReceiveMalformedAnnounce(h, ts)
      PROVE  TypeOK'
  <2>1. offset' \in 0..(Wrap - 1)
    BY <1>3, OffsetType, NumberAssumption DEF ReceiveMalformedAnnounce
  <2>. QED
    BY <1>3, <2>1 DEF ReceiveMalformedAnnounce, TypeOK, Known, lists
<1>. QED
  BY <1>1, <1>2, <1>3 DEF Receive

LEMMA LoopType ==
    ASSUME TypeOK, Loop
    PROVE  TypeOK'
<1> USE NumberAssumption
<1>1. ASSUME NEW id \in OwnIds, GenerateMessage(id)
      PROVE  TypeOK'
  <2> DEFINE new == [key |-> id, ttl |-> MaxTtl, ts |-> Now, from |-> 0]
  <2>1. new \in Packet
    BY NowType, KeyAssumption DEF Packet, Keys
  <2>2. PICK a \in Heap \ DOMAIN store :
           store' = Overlay(store, a, new) /\ EnqueueBroadcast(a)
    BY <1>1 DEF GenerateMessage, SlotIfNew
  <2>3. UNCHANGED <<connections, targeted, sent, clocks>>
    BY <1>1 DEF GenerateMessage
  <2>. HIDE DEF new
  <2>4. /\ DOMAIN store' \subseteq Pointer
        /\ OwnAnnounce \in DOMAIN store'
        /\ store' \in [DOMAIN store' -> Packet]
        /\ store'[OwnAnnounce].key \in SelfHashes
    BY <2>1, <2>2, StoreType
  <2>5. broadcast' \subseteq Heap /\ ahead' \subseteq broadcast' \X broadcast'
    BY <2>2, EnqueueType
  <2>. QED
    BY <2>3, <2>4, <2>5 DEF TypeOK, Known, clocks
<1>2. CASE AnnounceToConnections
  <2>1. Now \in Nat /\ store[OwnAnnounce] \in Packet
    BY NowType DEF TypeOK
  <2>2. PICK ts \in Nat :
           store' = [store EXCEPT ![OwnAnnounce].ttl = MaxTtl, ![OwnAnnounce].ts = ts]
    BY <1>2, <2>1 DEF AnnounceToConnections, TypeOK, Packet
  <2>3. /\ store' \in [DOMAIN store -> Packet]
        /\ store'[OwnAnnounce].key = store[OwnAnnounce].key
    BY <2>1, <2>2 DEF TypeOK, Packet
  <2>4. targeted' \subseteq Handle
    BY <1>2 DEF AnnounceToConnections, TypeOK
  <2>. QED
    BY <1>2, <2>3, <2>4 DEF AnnounceToConnections, TypeOK, Known, clocks
<1>3. ASSUME NEW accepted \in SUBSET Handle, SendPackets(accepted)
      PROVE  TypeOK'
  <2> DEFINE announcedTo == {h \in targeted : <<OwnAnnounce, h>> \notin sent} \cap accepted
             log == sent \cup ({OwnAnnounce} \X announcedTo)
             available == {h \in Known : Available(h)}
  <2>1. UNCHANGED <<connections, store, clocks>> /\ targeted' \subseteq Handle
    BY <1>3 DEF SendPackets, TypeOK
  <2>2. log \subseteq Pointer \X Handle
    BY DEF TypeOK, Pointer
  <2>3. CASE sent' = log /\ UNCHANGED <<broadcast, ahead>>
    BY <2>1, <2>2, <2>3 DEF TypeOK, Known, clocks
  <2>4. ASSUME NEW p \in broadcast, SendHead(p, available, log)
        PROVE  TypeOK'
    <3>1. Recipients(p, available, log) \subseteq Handle
      BY DEF Recipients, First, TypeOK
    <3>2. sent' \subseteq Pointer \X Handle
      BY <2>2, <2>4, <3>1 DEF SendHead, TypeOK, Pointer
    <3>3. broadcast' \subseteq Heap /\ ahead' \subseteq broadcast' \X broadcast'
      BY <2>4, DequeueType DEF SendHead
    <3>. QED
      BY <2>1, <3>2, <3>3 DEF TypeOK, Known, clocks
  <2>. QED
    BY <1>3, <2>3, <2>4 DEF SendPackets
<1>4. CASE CleanupStaleItems
  <2>1. /\ connections' \in [Known' -> Connection]
        /\ Known' \subseteq Known
    BY <1>4 DEF CleanupStaleItems, Only, Known, TypeOK
  <2>2. /\ store' \in [DOMAIN store' -> Packet]
        /\ DOMAIN store' \subseteq DOMAIN store
        /\ OwnAnnounce \in DOMAIN store'
        /\ store'[OwnAnnounce] = store[OwnAnnounce]
    BY <1>4 DEF CleanupStaleItems, Only, TypeOK
  <2>3. broadcast' \subseteq Heap /\ ahead' \subseteq broadcast' \X broadcast'
    BY <1>4, DequeueType DEF CleanupStaleItems
  <2>4. sent' \subseteq sent /\ targeted' \subseteq targeted /\ UNCHANGED clocks
    BY <1>4 DEF CleanupStaleItems
  <2>. QED
    BY <2>1, <2>2, <2>3, <2>4 DEF TypeOK, clocks
<1>5. CASE Tick
  BY <1>5 DEF Tick, TypeOK, Known, lists
<1>. QED
  BY <1>1, <1>2, <1>3, <1>4, <1>5 DEF Loop

(* Whatever the sets of handles, addresses, ids and times, every variable of *)
(* the tracker keeps its type: the own announce is never erased or replaced, *)
(* the clock offset stays in 64 bits, the lists name handles and addresses.  *)
THEOREM TypeCorrect == Spec => []TypeOK
<1>1. TypeOK /\ [Next]_vars => TypeOK'
  <2>1. CASE UNCHANGED vars
    BY <2>1 DEF TypeOK, vars, lists, clocks, Known
  <2>. QED
    BY <2>1, LinkType, ReceiveType, LoopType DEF Next
<1>. QED
  BY InitType, <1>1, PTL DEF Spec

------------------------------------------------------------------------------
(* What the steps have in common, for the invariants that follow: a packet  *)
(* that a list names is not replaced by a new message, and what is recorded *)
(* as sent was sent to a connection that is known.                          *)

LEMMA SentBySendPackets ==
    ASSUME TypeOK, NoDangling, NEW accepted \in SUBSET Handle, SendPackets(accepted)
    PROVE  /\ UNCHANGED <<connections, store>>
           /\ sent \subseteq sent'
           /\ broadcast' \subseteq broadcast
           /\ targeted' \subseteq targeted
           /\ \A e \in sent' \ sent :
                 /\ e[1] \in DOMAIN store /\ e[2] \in Known
                 /\ e[1] \notin broadcast'
                 /\ e[1] = OwnAnnounce => e[2] \in targeted /\ targeted' = {}
<1> DEFINE announcedTo == {h \in targeted : <<OwnAnnounce, h>> \notin sent} \cap accepted
           log == sent \cup ({OwnAnnounce} \X announcedTo)
           available == {h \in Known : Available(h)}
<1>1. UNCHANGED <<connections, store>> /\ targeted' \subseteq targeted
  BY DEF SendPackets
<1>2. broadcast \subseteq Heap \cap DOMAIN store /\ OwnAnnounce \in DOMAIN store \ Heap
  BY HeapAssumption DEF TypeOK, NoDangling
<1>3. \A e \in log \ sent :
         e[1] = OwnAnnounce /\ e[2] \in targeted /\ e[2] \in Known /\ targeted' = {}
  BY DEF SendPackets, NoDangling
<1>4. CASE sent' = log /\ UNCHANGED <<broadcast, ahead>>
  BY <1>1, <1>2, <1>3, <1>4
<1>5. ASSUME NEW p \in broadcast, SendHead(p, available, log)
      PROVE  /\ sent \subseteq sent' /\ broadcast' \subseteq broadcast
             /\ \A e \in sent' \ sent :
                   /\ e[1] \in DOMAIN store /\ e[2] \in Known
                   /\ e[1] \notin broadcast'
                   /\ e[1] = OwnAnnounce => e[2] \in targeted /\ targeted' = {}
  <2>1. Recipients(p, available, log) \subseteq Known
    BY DEF Recipients, First
  <2>2. /\ sent' = log \cup ({p} \X Recipients(p, available, log))
        /\ broadcast' = broadcast \ {p}
    BY <1>5 DEF SendHead, DequeueBroadcast
  <2>3. \A e \in sent' \ log : e[1] = p /\ e[2] \in Known
    BY <2>1, <2>2
  <2>. QED
    BY <1>2, <1>3, <2>2, <2>3
<1>. QED
  BY <1>1, <1>4, <1>5 DEF SendPackets

(* A step of a connection takes the store as it is and queues nothing new.  *)
LEMMA LinkSteps ==
    ASSUME TypeOK, NEW h \in Handle, Link(h)
    PROVE  /\ UNCHANGED <<store, broadcast>>
           /\ targeted' \subseteq targeted /\ sent' \subseteq sent
           /\ Known \subseteq Known'
BY DEF Link, ReportConnection, StoreValueHandle, ReportDisconnection, lists, Known,
       Overlay

(* What a step does to the stored packets that stay queued.                 *)
LEMMA StoreStep ==
    ASSUME TypeOK, NoDangling, NEW a \in Heap, a \notin DOMAIN store,
           NEW p \in Packet, store' = Overlay(store, a, p)
    PROVE  /\ DOMAIN store \subseteq DOMAIN store' /\ a \in DOMAIN store'
           /\ a \notin broadcast /\ \A e \in sent : e[1] # a
           /\ store'[a] = p
           /\ \A q \in broadcast : store'[q] = store[q]
BY DEF TypeOK, NoDangling, Overlay

LEMMA EnqueueStep ==
    ASSUME NEW a, EnqueueBroadcast(a) \/ UNCHANGED <<broadcast, ahead>>
    PROVE  broadcast \subseteq broadcast' /\ broadcast' \subseteq broadcast \cup {a}
BY DEF EnqueueBroadcast

LEMMA CleanupStep ==
    ASSUME TypeOK, CleanupStaleItems
    PROVE  /\ sent' \subseteq sent /\ broadcast' \subseteq broadcast
           /\ targeted' \subseteq targeted
           /\ DOMAIN store' \subseteq DOMAIN store
           /\ \A p \in DOMAIN store' : store'[p] = store[p]
           /\ Known' \subseteq Known
           /\ \A h \in Known' : connections'[h] = connections[h]
           /\ \A h \in Known : Connected(h) => h \in Known'
BY DEF CleanupStaleItems, DequeueBroadcast, Only, TypeOK, Known, Connected, StaleConnection

(* A packet is taken in at one address, which no list names.                *)
LEMMA TakeInStep ==
    ASSUME TypeOK, NoDangling, NEW h \in Handle, NEW key \in Keys,
           NEW ttl \in RxTtls, NEW ts \in RxTimes, TakeIn(h, key, ttl, ts)
    PROVE  /\ DOMAIN store \subseteq DOMAIN store'
           /\ broadcast' \subseteq DOMAIN store'
           /\ store'[OwnAnnounce] = store[OwnAnnounce]
           /\ \A q \in broadcast' :
                 \/ q \in broadcast /\ store'[q] = store[q]
                 \/ /\ \A e \in sent : e[1] # q
                    /\ store'[q].ttl \in 1..(MaxTtl - 1)
<1> DEFINE new == [key |-> key, ttl |-> SpentTtl(ttl), ts |-> ts, from |-> h]
<1>1. new \in Packet
  BY SpentTtlType, NumberAssumption DEF Packet
<1>2. PICK a \in Heap \ DOMAIN store :
         /\ store' = Overlay(store, a, new)
         /\ EnqueueBroadcast(a) \/ UNCHANGED <<broadcast, ahead>>
         /\ broadcast' # broadcast => ttl - 1 > 0
  BY DEF TakeIn, SlotIfNew
<1>3. ttl - 1 > 0 => new.ttl \in 1..(MaxTtl - 1)
  BY NumberAssumption DEF SpentTtl
<1>. HIDE DEF new
<1>4. /\ DOMAIN store \subseteq DOMAIN store' /\ a \in DOMAIN store'
      /\ a \notin broadcast /\ \A e \in sent : e[1] # a
      /\ store'[a] = new
      /\ \A q \in broadcast : store'[q] = store[q]
  BY <1>1, <1>2, StoreStep
<1>5. broadcast' \subseteq broadcast \cup {a}
  BY <1>2, EnqueueStep
<1>6. store'[OwnAnnounce] = store[OwnAnnounce]
  BY <1>2, HeapAssumption DEF Overlay, TypeOK
<1>. QED
  BY <1>2, <1>3, <1>4, <1>5, <1>6 DEF NoDangling

(* A received packet is new, or an announce takes the place of the one with *)
(* the same hash, which stays queued when it was.                           *)
LEMMA ReceiveStep ==
    ASSUME TypeOK, NoDangling, NEW h \in Handle, Receive(h)
    PROVE  /\ UNCHANGED <<connections, targeted, sent>>
           /\ DOMAIN store \subseteq DOMAIN store'
           /\ broadcast' \subseteq DOMAIN store'
           /\ store'[OwnAnnounce] = store[OwnAnnounce]
           /\ \A q \in broadcast' :
                 \/ q \in broadcast /\ store'[q] = store[q]
                 \/ q \in broadcast /\ ~IsMessage(q)'
                 \/ /\ \A e \in sent : e[1] # q
                    /\ store'[q].ttl \in 1..(MaxTtl - 1)
<1>1. ASSUME NEW id \in MessageIds, NEW ttl \in RxTtls, NEW ts \in RxTimes,
             ReceiveMessage(h, id, ttl, ts)
      PROVE  UNCHANGED <<connections, targeted, sent>> /\ TakeIn(h, id, ttl, ts)
  BY <1>1 DEF ReceiveMessage
<1>2. ASSUME NEW hash \in AnnounceHashes, NEW ttl \in RxTtls, NEW ts \in RxTimes,
             ReceiveAnnounce(h, hash, ttl, ts)
      PROVE  /\ UNCHANGED <<connections, targeted, sent>>
             /\ \/ TakeIn(h, hash, ttl, ts)
                \/ /\ DOMAIN store' = DOMAIN store /\ UNCHANGED broadcast
                   /\ store'[OwnAnnounce] = store[OwnAnnounce]
                   /\ \A q \in broadcast : store'[q] = store[q] \/ ~IsMessage(q)'
  <2> DEFINE announce == [key |-> hash, ttl |-> ttl, ts |-> ts, from |-> h]
  <2>1. announce.key = hash /\ hash \notin MessageIds
    BY KeyAssumption
  <2>2. UNCHANGED <<connections, targeted, sent>>
    BY <1>2 DEF ReceiveAnnounce
  <2>3. ASSUME NEW a \in Stored(hash), store' = [store EXCEPT ![a] = announce]
        PROVE  /\ DOMAIN store' = DOMAIN store
               /\ store'[OwnAnnounce] = store[OwnAnnounce]
               /\ \A q \in broadcast : store'[q] = store[q] \/ ~IsMessage(q)'
    <3>. HIDE DEF announce
    <3>1. a \in Heap \cap DOMAIN store /\ a # OwnAnnounce
      BY HeapAssumption DEF Stored
    <3>. QED
      BY <2>1, <2>3, <3>1 DEF IsMessage, TypeOK, NoDangling
  <2>. QED
    BY <1>2, <2>2, <2>3 DEF ReceiveAnnounce
<1>3. ASSUME NEW ts \in RxTimes, ReceiveMalformedAnnounce(h, ts)
      PROVE  UNCHANGED <<connections, store, broadcast, targeted, sent>>
  BY <1>3 DEF ReceiveMalformedAnnounce, lists
<1>4. MessageIds \subseteq Keys /\ AnnounceHashes \subseteq Keys
  BY DEF Keys
<1>. QED
  BY <1>1, <1>2, <1>3, <1>4, TakeInStep DEF Receive, NoDangling

LEMMA GenerateStep ==
    ASSUME TypeOK, NoDangling, NEW id \in OwnIds, GenerateMessage(id)
    PROVE  /\ UNCHANGED <<connections, targeted, sent>>
           /\ DOMAIN store \subseteq DOMAIN store'
           /\ broadcast' \subseteq DOMAIN store'
           /\ store'[OwnAnnounce] = store[OwnAnnounce]
           /\ \A q \in broadcast' :
                 \/ q \in broadcast /\ store'[q] = store[q]
                 \/ /\ \A e \in sent : e[1] # q
                    /\ store'[q].ttl = MaxTtl /\ store'[q].from = 0
<1> DEFINE new == [key |-> id, ttl |-> MaxTtl, ts |-> Now, from |-> 0]
<1>1. new \in Packet
  BY NowType, KeyAssumption, NumberAssumption DEF Packet, Keys
<1>2. PICK a \in Heap \ DOMAIN store : store' = Overlay(store, a, new) /\ EnqueueBroadcast(a)
  BY DEF GenerateMessage, SlotIfNew
<1>3. new.ttl = MaxTtl /\ new.from = 0
  OBVIOUS
<1>. HIDE DEF new
<1>4. /\ DOMAIN store \subseteq DOMAIN store' /\ a \in DOMAIN store'
      /\ a \notin broadcast /\ \A e \in sent : e[1] # a
      /\ store'[a] = new
      /\ \A q \in broadcast : store'[q] = store[q]
  BY <1>1, <1>2, StoreStep
<1>5. broadcast' \subseteq broadcast \cup {a}
  BY <1>2, EnqueueStep
<1>6. store'[OwnAnnounce] = store[OwnAnnounce]
  BY <1>2, HeapAssumption DEF Overlay, TypeOK
<1>. QED
  BY <1>3, <1>4, <1>5, <1>6 DEF GenerateMessage, NoDangling

LEMMA AnnounceStep ==
    ASSUME TypeOK, NoDangling, AnnounceToConnections
    PROVE  /\ UNCHANGED <<connections, broadcast, sent>>
           /\ DOMAIN store' = DOMAIN store
           /\ \A q \in broadcast : store'[q] = store[q]
           /\ SetUp'
           /\ \A h \in targeted' \ targeted : Connected(h) /\ <<OwnAnnounce, h>> \notin sent
           /\ targeted' \subseteq Known
<1>1. \A q \in broadcast : q # OwnAnnounce
  BY HeapAssumption DEF TypeOK
<1>2. PICK ts : store' = [store EXCEPT ![OwnAnnounce].ttl = MaxTtl, ![OwnAnnounce].ts = ts]
  BY DEF AnnounceToConnections
<1>3. SetUp'
  BY <1>2 DEF SetUp, TypeOK, Packet
<1>. QED
  BY <1>1, <1>2, <1>3
  DEF AnnounceToConnections, TypeOK, NoDangling, NotAnnouncedTo, Available, Connected

------------------------------------------------------------------------------
LEMMA NoDanglingStep == TypeOK /\ NoDangling /\ [Next]_vars => NoDangling'
<1> SUFFICES ASSUME TypeOK, NoDangling, [Next]_vars PROVE NoDangling'
  OBVIOUS
<1>1. ASSUME NEW h \in Handle, Link(h) PROVE NoDangling'
  BY <1>1, LinkSteps DEF NoDangling
<1>2. ASSUME NEW h \in Handle, Receive(h) PROVE NoDangling'
  BY <1>2, ReceiveStep DEF NoDangling, Known
<1>3. ASSUME NEW id \in OwnIds, GenerateMessage(id) PROVE NoDangling'
  BY <1>3, GenerateStep DEF NoDangling, Known
<1>4. CASE AnnounceToConnections
  BY <1>4, AnnounceStep DEF NoDangling, Known
<1>5. ASSUME NEW accepted \in SUBSET Handle, SendPackets(accepted) PROVE NoDangling'
  BY <1>5, SentBySendPackets DEF NoDangling, Known
<1>6. CASE CleanupStaleItems
  <2>1. broadcast' = broadcast \ {p \in DOMAIN store : StalePacket(p)}
    BY <1>6 DEF CleanupStaleItems, DequeueBroadcast
  <2>2. DOMAIN store' = DOMAIN store \cap
          ({OwnAnnounce} \cup (DOMAIN store \ {p \in DOMAIN store : StalePacket(p)}))
    BY <1>6 DEF CleanupStaleItems, Only
  <2>3. Known' = Known \ {h \in Known : StaleConnection(h)}
    BY <1>6 DEF CleanupStaleItems, Only, Known
  <2>4. \A h \in targeted' : h \in targeted /\ ~StaleConnection(h)
    BY <1>6 DEF CleanupStaleItems, StaleEntry
  <2>5. \A e \in sent' : e \in sent /\ ~StalePacket(e[1]) /\ ~StaleConnection(e[2])
    BY <1>6 DEF CleanupStaleItems, StaleEntry
  <2>. QED
    BY <2>1, <2>2, <2>3, <2>4, <2>5 DEF NoDangling
<1>7. CASE Tick
  BY <1>7 DEF Tick, NoDangling, Known, lists
<1>8. CASE UNCHANGED vars
  BY <1>8 DEF vars, NoDangling, Known, lists
<1>. QED
  BY <1>1, <1>2, <1>3, <1>4, <1>5, <1>6, <1>7, <1>8 DEF Next, Loop

(* Between cleanups, disconnections, handle reuse, receptions and sends in   *)
(* any order, no list of the tracker names a packet or a connection that     *)
(* has been erased: the filters of cleanupStaleItems cover the erased ones.  *)
THEOREM NothingDangles == Spec => []NoDangling
<1>1. Init => NoDangling
  BY DEF Init, NoDangling
<1>. QED
  BY <1>1, TypeCorrect, NoDanglingStep, PTL DEF Spec

(* The sender id is filled in before the first announcement is queued, so   *)
(* that reportDisconnection recognises the own announce in the lists.       *)
AnnouncedWhenSetUp ==
    targeted # {} \/ (\E e \in sent : e[1] = OwnAnnounce) => SetUp

LEMMA AnnouncedWhenSetUpStep ==
    TypeOK /\ NoDangling /\ AnnouncedWhenSetUp /\ [Next]_vars => AnnouncedWhenSetUp'
<1> SUFFICES ASSUME TypeOK, NoDangling, AnnouncedWhenSetUp, [Next]_vars
             PROVE  AnnouncedWhenSetUp'
  OBVIOUS
<1>1. ASSUME store'[OwnAnnounce] = store[OwnAnnounce], targeted' \subseteq targeted,
             \A e \in sent' : e[1] = OwnAnnounce => e \in sent \/ targeted # {}
      PROVE  AnnouncedWhenSetUp'
  BY <1>1 DEF AnnouncedWhenSetUp, SetUp
<1>2. ASSUME NEW h \in Handle, Link(h) PROVE AnnouncedWhenSetUp'
  BY <1>1, <1>2, LinkSteps
<1>3. ASSUME NEW h \in Handle, Receive(h) PROVE AnnouncedWhenSetUp'
  BY <1>1, <1>3, ReceiveStep
<1>4. ASSUME NEW id \in OwnIds, GenerateMessage(id) PROVE AnnouncedWhenSetUp'
  BY <1>1, <1>4, GenerateStep
<1>5. CASE AnnounceToConnections
  BY <1>5, AnnounceStep DEF AnnouncedWhenSetUp
<1>6. ASSUME NEW accepted \in SUBSET Handle, SendPackets(accepted) PROVE AnnouncedWhenSetUp'
  BY <1>1, <1>6, SentBySendPackets
<1>7. CASE CleanupStaleItems
  <2>1. OwnAnnounce \in DOMAIN store'
    BY LoopType, <1>7 DEF TypeOK, Loop
  <2>. QED
    BY <1>1, <1>7, <2>1, CleanupStep
<1>8. CASE Tick \/ UNCHANGED vars
  BY <1>1, <1>8 DEF Tick, vars, lists
<1>. QED
  BY <1>2, <1>3, <1>4, <1>5, <1>6, <1>7, <1>8 DEF Next, Loop

LEMMA AnnouncePerSessionStep ==
    TypeOK /\ NoDangling /\ AnnouncedWhenSetUp /\ AnnouncePerSession /\ [Next]_vars
        => AnnouncePerSession'
<1> SUFFICES ASSUME TypeOK, NoDangling, AnnouncedWhenSetUp, AnnouncePerSession,
                    [Next]_vars, NEW g \in Handle
             PROVE  /\ g \in targeted' => Connected(g)' /\ <<OwnAnnounce, g>> \notin sent'
                    /\ <<OwnAnnounce, g>> \in sent' => Connected(g)'
  BY DEF AnnouncePerSession
<1>1. /\ g \in targeted => Connected(g) /\ <<OwnAnnounce, g>> \notin sent
      /\ <<OwnAnnounce, g>> \in sent => Connected(g)
  BY DEF AnnouncePerSession
<1>2. ASSUME NEW h \in Handle, Link(h)
      PROVE  /\ g \in targeted' => Connected(g)' /\ <<OwnAnnounce, g>> \notin sent'
             /\ <<OwnAnnounce, g>> \in sent' => Connected(g)'
  <2>1. targeted' \subseteq targeted /\ sent' \subseteq sent
    BY <1>2, LinkSteps
  <2>2. CASE ReportDisconnection(h)
    <3>1. CASE g = h
      <4>1. g \notin targeted'
        BY <2>2, <3>1 DEF ReportDisconnection
      <4>2. CASE <<OwnAnnounce, g>> \in sent
        <5>1. IsOwnAnnounce(OwnAnnounce)
          BY <4>2 DEF AnnouncedWhenSetUp, IsOwnAnnounce, TypeOK
        <5>. QED
          BY <2>2, <3>1, <4>1, <5>1 DEF ReportDisconnection
      <4>. QED
        BY <2>1, <4>1, <4>2
    <3>2. CASE g # h
      <4>1. Connected(g) => Connected(g)'
        BY <2>2, <3>2 DEF ReportDisconnection, Connected, Known, TypeOK
      <4>. QED
        BY <1>1, <2>1, <4>1
    <3>. QED
      BY <3>1, <3>2
  <2>3. CASE ~ReportDisconnection(h)
    <3>1. Connected(g) => Connected(g)'
      BY <1>2, <2>3 DEF Link, ReportConnection, StoreValueHandle, Connected, Known, TypeOK,
                        Connection, Overlay
    <3>. QED
      BY <1>1, <2>1, <3>1
  <2>. QED
    BY <2>2, <2>3
<1>3. ASSUME UNCHANGED <<connections, targeted, sent>>
      PROVE  /\ g \in targeted' => Connected(g)' /\ <<OwnAnnounce, g>> \notin sent'
             /\ <<OwnAnnounce, g>> \in sent' => Connected(g)'
  BY <1>1, <1>3 DEF Connected, Known
<1>4. ASSUME NEW h \in Handle, Receive(h) PROVE UNCHANGED <<connections, targeted, sent>>
  BY <1>4, ReceiveStep
<1>5. ASSUME NEW id \in OwnIds, GenerateMessage(id)
      PROVE  UNCHANGED <<connections, targeted, sent>>
  BY <1>5, GenerateStep
<1>6. CASE AnnounceToConnections
  BY <1>1, <1>6, AnnounceStep DEF Connected, Known
<1>7. ASSUME NEW accepted \in SUBSET Handle, SendPackets(accepted)
      PROVE  /\ g \in targeted' => Connected(g)' /\ <<OwnAnnounce, g>> \notin sent'
             /\ <<OwnAnnounce, g>> \in sent' => Connected(g)'
  <2>1. /\ connections' = connections /\ targeted' \subseteq targeted
        /\ <<OwnAnnounce, g>> \in sent' \ sent => g \in targeted /\ targeted' = {}
    BY <1>7, SentBySendPackets
  <2>. QED
    BY <1>1, <2>1 DEF Connected, Known
<1>8. CASE CleanupStaleItems
  <2>1. Connected(g) => Connected(g)'
    BY <1>8, CleanupStep DEF Connected, Known
  <2>. QED
    BY <1>1, <1>8, <2>1, CleanupStep
<1>9. CASE Tick
  BY <1>3, <1>9 DEF Tick, lists
<1>10. CASE UNCHANGED vars
  BY <1>3, <1>10 DEF vars, lists
<1>. QED
  BY <1>2, <1>3, <1>4, <1>5, <1>6, <1>7, <1>8, <1>9, <1>10 DEF Next, Loop

(* However handles are reused, the own announce is queued for, or recorded   *)
(* as sent to, connections of the current session only.                      *)
THEOREM AnnouncedPerSession == Spec => []AnnouncePerSession
<1>1. Init => AnnouncePerSession /\ AnnouncedWhenSetUp
  BY DEF Init, AnnouncePerSession, AnnouncedWhenSetUp
<1>. QED
  BY <1>1, AnnouncedWhenSetUpStep, TypeCorrect, NothingDangles, AnnouncePerSessionStep, PTL DEF Spec

(* What is queued has been sent to nobody; if a message, it has hops left.  *)
Forwardable(q) ==
    /\ \A e \in sent : e[1] # q
    /\ IsMessage(q) => store[q].ttl > 0 /\ (store[q].ttl = MaxTtl => store[q].from = 0)

AllForwardable == \A q \in broadcast : Forwardable(q)

LEMMA ForwardableStep ==
    TypeOK /\ NoDangling /\ AllForwardable /\ [Next]_vars => AllForwardable'
<1> SUFFICES ASSUME TypeOK, NoDangling, AllForwardable, [Next]_vars, NEW q \in broadcast'
             PROVE  Forwardable(q)'
  BY DEF AllForwardable
<1>1. ASSUME q \in broadcast, store'[q] = store[q] \/ ~IsMessage(q)',
             \A e \in sent' \ sent : e[1] # q
      PROVE  Forwardable(q)'
  BY <1>1 DEF AllForwardable, Forwardable, IsMessage
<1>2. ASSUME NEW h \in Handle, Link(h) PROVE Forwardable(q)'
  BY <1>1, <1>2, LinkSteps
<1>3. ASSUME NEW h \in Handle, Receive(h) PROVE Forwardable(q)'
  BY <1>1, <1>3, ReceiveStep, NumberAssumption DEF Forwardable
<1>4. ASSUME NEW id \in OwnIds, GenerateMessage(id) PROVE Forwardable(q)'
  BY <1>1, <1>4, GenerateStep, NumberAssumption DEF Forwardable
<1>5. CASE AnnounceToConnections
  BY <1>1, <1>5, AnnounceStep
<1>6. ASSUME NEW accepted \in SUBSET Handle, SendPackets(accepted) PROVE Forwardable(q)'
  BY <1>1, <1>6, SentBySendPackets
<1>7. CASE CleanupStaleItems
  <2>1. q \in DOMAIN store'
    BY NoDanglingStep DEF NoDangling
  <2>. QED
    BY <1>1, <1>7, <2>1, CleanupStep
<1>8. CASE Tick
  BY <1>1, <1>8 DEF Tick, lists
<1>9. CASE UNCHANGED vars
  BY <1>1, <1>9 DEF vars, lists
<1>. QED
  BY <1>2, <1>3, <1>4, <1>5, <1>6, <1>7, <1>8, <1>9 DEF Next, Loop

LEMMA QueuedAreForwardable == Spec => []AllForwardable
<1>1. Init => AllForwardable
  BY DEF Init, AllForwardable
<1>. QED
  BY <1>1, TypeCorrect, NothingDangles, ForwardableStep, PTL DEF Spec

(* Whatever the allocator reuses, no packet waits to be sent that has        *)
(* already been recorded as sent to someone.                                 *)
THEOREM QueuedAtMostOnce == Spec => []QueuedOnce
<1>1. AllForwardable => QueuedOnce
  BY DEF AllForwardable, Forwardable, QueuedOnce
<1>. QED
  BY <1>1, QueuedAreForwardable, PTL

(* A message forwarded for another node always has fewer hops left than a    *)
(* new one, and never none.                                                  *)
THEOREM HopsAreSpent == Spec => []MessageTtl
<1>1. AllForwardable => MessageTtl
  BY DEF AllForwardable, Forwardable, MessageTtl
<1>. QED
  BY <1>1, QueuedAreForwardable, PTL

------------------------------------------------------------------------------
(* The steps seen from outside *)

OneCopy == \A a, b \in Heap \cap DOMAIN store : store[a].key = store[b].key => a = b

(* A step that leaves the key at every address of Heap as it is.            *)
KeysKept ==
    \A a \in Heap :
        /\ a \in DOMAIN store' <=> a \in DOMAIN store
        /\ a \in DOMAIN store => store'[a].key = store[a].key

(* A step that stores a packet with a new key, and no other. *)
KeyTaken(k) ==
    /\ Stored(k) = {}
    /\ \E a \in Heap :
          /\ a \notin DOMAIN store
          /\ DOMAIN store' = DOMAIN store \cup {a}
          /\ store'[a].key = k
          /\ \A b \in DOMAIN store : store'[b] = store[b]
          /\ broadcast \subseteq broadcast' /\ broadcast' \subseteq broadcast \cup {a}

LEMMA NewKey ==
    ASSUME NEW k, NEW a \in Heap \ DOMAIN store, NEW new, new.key = k, Stored(k) = {},
           store' = Overlay(store, a, new),
           EnqueueBroadcast(a) \/ UNCHANGED <<broadcast, ahead>>
    PROVE  KeyTaken(k)
<1>1. broadcast \subseteq broadcast' /\ broadcast' \subseteq broadcast \cup {a}
  BY EnqueueStep
<1>. QED
  BY <1>1 DEF KeyTaken, Overlay

LEMMA TakeInMoves ==
    ASSUME NEW h, NEW k, NEW ttl, NEW ts, TakeIn(h, k, ttl, ts)
    PROVE  KeyTaken(k)
<1> DEFINE new == [key |-> k, ttl |-> SpentTtl(ttl), ts |-> ts, from |-> h]
<1>1. PICK a \in Heap \ DOMAIN store :
         /\ store' = Overlay(store, a, new)
         /\ EnqueueBroadcast(a) \/ UNCHANGED <<broadcast, ahead>>
  BY DEF TakeIn, SlotIfNew
<1>2. Stored(k) = {} /\ new.key = k
  BY DEF TakeIn, SlotIfNew
<1>. HIDE DEF new
<1>. QED
  BY <1>1, <1>2, NewKey

LEMMA GenerateMoves ==
    ASSUME NEW id \in OwnIds, GenerateMessage(id)
    PROVE  KeyTaken(id)
<1> DEFINE new == [key |-> id, ttl |-> MaxTtl, ts |-> Now, from |-> 0]
<1>1. PICK a \in Heap \ DOMAIN store : store' = Overlay(store, a, new) /\ EnqueueBroadcast(a)
  BY DEF GenerateMessage, SlotIfNew
<1>2. Stored(id) = {} /\ new.key = id
  BY DEF GenerateMessage, SlotIfNew
<1>. HIDE DEF new
<1>. QED
  BY <1>1, <1>2, NewKey

LEMMA ReceiveMoves ==
    ASSUME TypeOK, NEW h \in Handle, Receive(h)
    PROVE  (\E k \in Keys : KeyTaken(k)) \/ (KeysKept /\ UNCHANGED broadcast)
<1>1. ASSUME NEW id \in MessageIds, NEW ttl \in RxTtls, NEW ts \in RxTimes,
             ReceiveMessage(h, id, ttl, ts)
      PROVE  KeyTaken(id) /\ id \in Keys
  BY <1>1, TakeInMoves DEF ReceiveMessage, Keys
<1>2. ASSUME NEW hash \in AnnounceHashes, NEW ttl \in RxTtls, NEW ts \in RxTimes,
             ReceiveAnnounce(h, hash, ttl, ts)
      PROVE  (KeyTaken(hash) /\ hash \in Keys) \/ (KeysKept /\ UNCHANGED broadcast)
  <2> DEFINE announce == [key |-> hash, ttl |-> ttl, ts |-> ts, from |-> h]
  <2>1. CASE TakeIn(h, hash, ttl, ts)
    <3>1. hash \in Keys
      BY DEF Keys
    <3>. QED
      BY <2>1, <3>1, TakeInMoves
  <2>2. ASSUME NEW a \in Stored(hash), store' = [store EXCEPT ![a] = announce]
        PROVE  KeysKept
    <3>1. announce.key = store[a].key /\ a \in DOMAIN store
      BY DEF Stored
    <3>. HIDE DEF announce
    <3>. QED
      BY <2>2, <3>1 DEF KeysKept, TypeOK
  <2>3. ASSUME UNCHANGED store PROVE KeysKept
    BY <2>3 DEF KeysKept
  <2>4. CASE ~TakeIn(h, hash, ttl, ts)
    <3>1. PICK a \in Stored(hash) :
             /\ store' = IF store[a].ts < ts THEN [store EXCEPT ![a] = announce] ELSE store
             /\ UNCHANGED broadcast
      BY <1>2, <2>4 DEF ReceiveAnnounce
    <3>2. store' = [store EXCEPT ![a] = announce] \/ UNCHANGED store
      BY <3>1
    <3>. QED
      BY <2>2, <2>3, <3>1, <3>2
  <2>. QED
    BY <2>1, <2>4
<1>3. ASSUME NEW ts \in RxTimes, ReceiveMalformedAnnounce(h, ts)
      PROVE  KeysKept /\ UNCHANGED broadcast
  BY <1>3 DEF ReceiveMalformedAnnounce, lists, KeysKept
<1>. QED
  BY <1>1, <1>2, <1>3 DEF Receive

LEMMA AnnounceMoves ==
    ASSUME TypeOK, AnnounceToConnections
    PROVE  KeysKept /\ UNCHANGED broadcast
<1>1. \A a \in Heap : a # OwnAnnounce
  BY HeapAssumption
<1>2. PICK ts : store' = [store EXCEPT ![OwnAnnounce].ttl = MaxTtl, ![OwnAnnounce].ts = ts]
  BY DEF AnnounceToConnections
<1>. QED
  BY <1>1, <1>2 DEF AnnounceToConnections, KeysKept, TypeOK

(* Cleanup erases a queued packet from the store and from the list at once. *)
LEMMA CleanupMoves ==
    ASSUME TypeOK, CleanupStaleItems
    PROVE  /\ DOMAIN store' \subseteq DOMAIN store
           /\ \A a \in DOMAIN store' : store'[a] = store[a]
           /\ \A a \in Heap \cap DOMAIN store :
                 a \in broadcast' <=> a \in broadcast /\ a \in DOMAIN store'
<1>1. broadcast' = broadcast \ {p \in DOMAIN store : StalePacket(p)}
  BY DEF CleanupStaleItems, DequeueBroadcast
<1>2. DOMAIN store' = DOMAIN store \cap
        ({OwnAnnounce} \cup (DOMAIN store \ {p \in DOMAIN store : StalePacket(p)}))
  BY DEF CleanupStaleItems, Only
<1>3. OwnAnnounce \notin Heap
  BY HeapAssumption
<1>. QED
  BY <1>1, <1>2, <1>3, CleanupStep

------------------------------------------------------------------------------
(* The strengthening: no key is stored at two addresses. *)

LEMMA TakenOnce ==
    ASSUME OneCopy, NEW k, KeyTaken(k)
    PROVE  OneCopy'
<1>1. PICK a \in Heap :
         /\ a \notin DOMAIN store /\ DOMAIN store' = DOMAIN store \cup {a}
         /\ store'[a].key = k
         /\ \A b \in DOMAIN store : store'[b] = store[b]
  BY DEF KeyTaken
<1>2. \A b \in Heap \cap DOMAIN store : store[b].key # k
  BY DEF KeyTaken, Stored
<1>. QED
  BY <1>1, <1>2 DEF OneCopy

LEMMA OneCopyStep == TypeOK /\ OneCopy /\ [Next]_vars => OneCopy'
<1> SUFFICES ASSUME TypeOK, OneCopy, [Next]_vars PROVE OneCopy'
  OBVIOUS
<1>1. CASE KeysKept
  BY <1>1 DEF KeysKept, OneCopy
<1>2. CASE UNCHANGED store
  BY <1>2 DEF OneCopy
<1>3. ASSUME NEW h \in Handle, Link(h) PROVE UNCHANGED store
  BY <1>3, LinkSteps
<1>4. ASSUME NEW h \in Handle, Receive(h) PROVE OneCopy'
  BY <1>1, <1>4, ReceiveMoves, TakenOnce
<1>5. ASSUME NEW id \in OwnIds, GenerateMessage(id) PROVE OneCopy'
  BY <1>5, GenerateMoves, TakenOnce
<1>6. CASE AnnounceToConnections
  BY <1>1, <1>6, AnnounceMoves
<1>7. ASSUME NEW accepted \in SUBSET Handle, SendPackets(accepted) PROVE UNCHANGED store
  BY <1>7 DEF SendPackets
<1>8. CASE CleanupStaleItems
  BY <1>8, CleanupMoves DEF OneCopy
<1>9. CASE Tick \/ UNCHANGED vars
  BY <1>2, <1>9 DEF Tick, vars
<1>. QED
  BY <1>2, <1>3, <1>4, <1>5, <1>6, <1>7, <1>8, <1>9 DEF Next, Loop

LEMMA StoredOnce == Spec => []OneCopy
<1>1. Init => OneCopy
  BY HeapAssumption DEF Init, OneCopy
<1>. QED
  BY <1>1, TypeCorrect, OneCopyStep, PTL DEF Spec

------------------------------------------------------------------------------
(* The refinement. *)

TheLife == [key \in Keys |-> LifeOf(key)]

LEMMA SameLife ==
    ASSUME NEW k, Stored(k)' = Stored(k),
           \A a \in Stored(k) : a \in broadcast' <=> a \in broadcast
    PROVE  LifeOf(k)' = LifeOf(k)
<1>1. (Stored(k) \cap broadcast)' = Stored(k) \cap broadcast
  OBVIOUS
<1>. QED
  BY <1>1 DEF LifeOf

LEMMA KeptLife ==
    ASSUME KeysKept, UNCHANGED broadcast
    PROVE  TheLife' = TheLife
<1> SUFFICES ASSUME NEW k \in Keys PROVE LifeOf(k)' = LifeOf(k)
  BY DEF TheLife
<1>1. Stored(k)' = Stored(k)
  BY DEF KeysKept, Stored
<1>. QED
  BY <1>1, SameLife

LEMMA TakenLife ==
    ASSUME NEW k \in Keys, KeyTaken(k)
    PROVE  Life!Accept(k)
<1>1. PICK a \in Heap :
         /\ a \notin DOMAIN store /\ DOMAIN store' = DOMAIN store \cup {a}
         /\ store'[a].key = k
         /\ \A b \in DOMAIN store : store'[b] = store[b]
         /\ broadcast \subseteq broadcast' /\ broadcast' \subseteq broadcast \cup {a}
  BY DEF KeyTaken
<1>2. TheLife[k] = "absent"
  BY DEF KeyTaken, TheLife, LifeOf
<1>3. a \in Stored(k)'
  BY <1>1 DEF Stored
<1>4. LifeOf(k)' \in {"queued", "held"}
  BY <1>3 DEF LifeOf
<1>5. ASSUME NEW n \in Keys, n # k PROVE LifeOf(n)' = LifeOf(n)
  <2>1. Stored(n)' = Stored(n)
    BY <1>1, <1>5 DEF Stored
  <2>2. \A b \in Stored(n) : b \in DOMAIN store
    BY DEF Stored
  <2>. QED
    BY <1>1, <2>1, <2>2, SameLife
<1>6. TheLife' = [TheLife EXCEPT ![k] = LifeOf(k)']
  BY <1>5 DEF TheLife
<1>. QED
  BY <1>2, <1>4, <1>6 DEF Life!Accept, TheLife

LEMMA SentLife ==
    ASSUME TypeOK, NoDangling, OneCopy, NEW accepted \in SUBSET Handle, SendPackets(accepted)
    PROVE  (\E k \in Keys : Life!Forward(k)) \/ TheLife' = TheLife
<1>1. UNCHANGED store
  BY DEF SendPackets
<1>2. CASE UNCHANGED broadcast
  BY <1>1, <1>2 DEF TheLife, LifeOf, Stored
<1>3. ASSUME NEW p \in broadcast, broadcast' = broadcast \ {p}
      PROVE  \E k \in Keys : Life!Forward(k)
  <2>1. \A k \in Keys : Stored(k)' = Stored(k)
    BY <1>1 DEF Stored
  <2>2. PICK k \in Keys : k = store[p].key /\ p \in Heap /\ p \in DOMAIN store
    BY DEF TypeOK, NoDangling, Packet
  <2>3. Stored(k) = {p}
    BY <2>2 DEF Stored, OneCopy
  <2>4. ASSUME NEW n \in Keys, n # k PROVE LifeOf(n)' = LifeOf(n)
    <3>1. p \notin Stored(n)
      BY <2>2, <2>4 DEF Stored
    <3>. QED
      BY <1>3, <2>1, <3>1, SameLife
  <2>5. LifeOf(k) = "queued" /\ LifeOf(k)' = "held"
    <3>1. Stored(k) \cap broadcast = {p} /\ (Stored(k) \cap broadcast)' = {}
      BY <1>3, <2>1, <2>3
    <3>. QED
      BY <2>1, <2>3, <3>1 DEF LifeOf
  <2>6. TheLife' = [TheLife EXCEPT ![k] = "held"]
    BY <2>4, <2>5 DEF TheLife
  <2>. QED
    BY <2>5, <2>6 DEF Life!Forward, TheLife
<1>. QED
  BY <1>2, <1>3 DEF SendPackets, SendHead, DequeueBroadcast

LEMMA CleanupLife ==
    ASSUME TypeOK, OneCopy, CleanupStaleItems
    PROVE  \E S \in SUBSET Keys : Life!Expire(S)
<1> DEFINE S == {k \in Keys : Stored(k)' = {}}
<1>1. /\ DOMAIN store' \subseteq DOMAIN store
      /\ \A a \in DOMAIN store' : store'[a] = store[a]
      /\ \A a \in Heap \cap DOMAIN store :
            a \in broadcast' <=> a \in broadcast /\ a \in DOMAIN store'
  BY CleanupMoves
<1>2. ASSUME NEW k \in Keys, k \notin S PROVE LifeOf(k)' = LifeOf(k)
  <2>1. PICK a \in Heap : a \in DOMAIN store' /\ store'[a].key = k
    BY <1>2 DEF Stored
  <2>2. a \in DOMAIN store /\ store[a].key = k
    BY <1>1, <2>1
  <2>3. Stored(k) = {a}
    BY <2>2 DEF Stored, OneCopy
  <2>4. Stored(k)' = {a}
    BY <1>1, <2>1, <2>3 DEF Stored
  <2>. QED
    BY <1>1, <2>1, <2>2, <2>3, <2>4, SameLife
<1>3. ASSUME NEW k \in S PROVE LifeOf(k)' = "absent"
  BY <1>3 DEF LifeOf
<1>. HIDE DEF S
<1>4. TheLife' = [k \in Keys |-> IF k \in S THEN "absent" ELSE TheLife[k]]
  BY <1>2, <1>3 DEF TheLife
<1>5. S \in SUBSET Keys
  BY DEF S
<1>. QED
  BY <1>4, <1>5 DEF Life!Expire, TheLife

LEMMA LifeStep ==
    ASSUME TypeOK, NoDangling, OneCopy, [Next]_vars
    PROVE  Life!Next \/ TheLife' = TheLife
<1>1. CASE UNCHANGED <<store, broadcast>>
  BY <1>1 DEF TheLife, LifeOf, Stored
<1>2. ASSUME NEW h \in Handle, Link(h) PROVE UNCHANGED <<store, broadcast>>
  BY <1>2, LinkSteps
<1>3. ASSUME NEW h \in Handle, Receive(h) PROVE Life!Next \/ TheLife' = TheLife
  BY <1>3, ReceiveMoves, TakenLife, KeptLife DEF Life!Next
<1>4. ASSUME NEW id \in OwnIds, GenerateMessage(id) PROVE Life!Next
  <2>1. id \in Keys
    BY KeyAssumption DEF Keys
  <2>. QED
    BY <1>4, <2>1, GenerateMoves, TakenLife DEF Life!Next
<1>5. CASE AnnounceToConnections
  BY <1>5, AnnounceMoves, KeptLife
<1>6. ASSUME NEW accepted \in SUBSET Handle, SendPackets(accepted)
      PROVE  Life!Next \/ TheLife' = TheLife
  BY <1>6, SentLife DEF Life!Next
<1>7. CASE CleanupStaleItems
  BY <1>7, CleanupLife DEF Life!Next
<1>8. CASE Tick \/ UNCHANGED vars
  BY <1>1, <1>8 DEF Tick, vars, lists
<1>. QED
  BY <1>1, <1>2, <1>3, <1>4, <1>5, <1>6, <1>7, <1>8 DEF Next, Loop

(* The tracker implements PacketLife for any number of connections, keys and *)
(* addresses: a packet is taken in once, waits at most once to be forwarded  *)
(* and leaves no copy or queue entry behind when it expires.                 *)
THEOREM TrackerImplementsPacketLife == Spec => ImplementsPacketLife
<1>1. Init => Life!Init
  <2> SUFFICES ASSUME Init PROVE Life!Init
    OBVIOUS
  <2>1. \A k \in Keys : Stored(k) = {}
    BY HeapAssumption DEF Init, Stored
  <2>. QED
    BY <2>1 DEF Life!Init, LifeOf
<1>2. TypeOK /\ NoDangling /\ OneCopy /\ [Next]_vars
        => [Life!Next]_([key \in Keys |-> LifeOf(key)])
  BY LifeStep DEF TheLife
<1>. QED
  BY <1>1, <1>2, TypeCorrect, NothingDangles, StoredOnce, PTL
     DEF Spec, ImplementsPacketLife, Life!Spec

------------------------------------------------------------------------------
(* The order of the broadcast list. *)

LEMMA Smallest ==
    ASSUME NEW S \in SUBSET Nat, S # {}
    PROVE  First(S) # {}
<1>1. PICK x \in S : \A y \in S : ~(<<y, x>> \in OpToRel(<, Nat))
  BY NatLessThanWellFounded, WFMin
<1>2. \A y \in S : ~(y < x)
  BY <1>1 DEF OpToRel
<1>. QED
  BY <1>2 DEF First

LEMMA OrderStep ==
    ASSUME TypeOK, NoDangling, [Next]_vars, NEW p \in broadcast \ broadcast'
    PROVE  \/ StalePacket(p)
           \/ /\ \E h \in Handle : <<p, h>> \in sent'
              /\ \A q \in broadcast' : <<q, p>> \notin ahead
<1>1. ASSUME NEW accepted \in SUBSET Handle, SendPackets(accepted)
      PROVE  /\ \E h \in Handle : <<p, h>> \in sent'
             /\ \A q \in broadcast' : <<q, p>> \notin ahead
  <2> DEFINE announcedTo == {h \in targeted : <<OwnAnnounce, h>> \notin sent} \cap accepted
             log == sent \cup ({OwnAnnounce} \X announcedTo)
             available == {h \in Known : Available(h)}
  <2>1. available # {} /\ Head(p) /\ SendHead(p, available, log)
    <3>1. PICK q \in broadcast : available # {} /\ Head(q) /\ SendHead(q, available, log)
      BY <1>1 DEF SendPackets
    <3>2. p = q
      BY <3>1 DEF SendHead, DequeueBroadcast
    <3>. QED
      BY <3>1, <3>2
  <2>2. \E h \in Handle : <<p, h>> \in sent'
    <3>1. log \subseteq sent' /\ {p} \X Recipients(p, available, log) \subseteq sent'
      BY <2>1 DEF SendHead
    <3>2. CASE \E e \in log : e[1] = p
      <4>1. log \subseteq Pointer \X Handle
        BY DEF TypeOK, Pointer
      <4>. QED
        BY <3>1, <3>2, <4>1
    <3>3. CASE \A e \in log : e[1] # p
      <4>1. available \subseteq Handle /\ available \subseteq Nat
        BY HandleAssumption DEF TypeOK
      <4>2. PICK h \in First(available) : TRUE
        BY <2>1, <4>1, Smallest
      <4>3. h \in Handle /\ h \in Recipients(p, available, log)
        BY <3>3, <4>1 DEF Recipients, First
      <4>. QED
        BY <3>1, <4>3
    <3>. QED
      BY <3>2, <3>3
  <2>3. \A q \in broadcast' : <<q, p>> \notin ahead
    BY <2>1 DEF Head, SendHead, DequeueBroadcast
  <2>. QED
    BY <2>2, <2>3
<1>2. CASE CleanupStaleItems
  <2>1. broadcast' = broadcast \ {q \in DOMAIN store : StalePacket(q)}
    BY <1>2 DEF CleanupStaleItems, DequeueBroadcast
  <2>. QED
    BY <2>1
<1>3. ASSUME NEW h \in Handle, Link(h) PROVE FALSE
  BY <1>3, LinkSteps
<1>4. ASSUME NEW h \in Handle, Receive(h) PROVE FALSE
  <2>1. ASSUME NEW id \in MessageIds, NEW ttl \in RxTtls, NEW ts \in RxTimes,
               ReceiveMessage(h, id, ttl, ts)
        PROVE  broadcast \subseteq broadcast'
    BY <2>1, EnqueueStep DEF ReceiveMessage, TakeIn
  <2>2. ASSUME NEW hash \in AnnounceHashes, NEW ttl \in RxTtls, NEW ts \in RxTimes,
               ReceiveAnnounce(h, hash, ttl, ts)
        PROVE  broadcast \subseteq broadcast'
    BY <2>2, EnqueueStep DEF ReceiveAnnounce, TakeIn
  <2>3. ASSUME NEW ts \in RxTimes, ReceiveMalformedAnnounce(h, ts)
        PROVE  broadcast \subseteq broadcast'
    BY <2>3 DEF ReceiveMalformedAnnounce, lists
  <2>. QED
    BY <1>4, <2>1, <2>2, <2>3 DEF Receive
<1>5. ASSUME NEW id \in OwnIds, GenerateMessage(id) PROVE FALSE
  BY <1>5 DEF GenerateMessage, EnqueueBroadcast
<1>6. CASE AnnounceToConnections \/ Tick \/ UNCHANGED vars
  BY <1>6 DEF AnnounceToConnections, Tick, vars, lists
<1>. QED
  BY <1>1, <1>2, <1>3, <1>4, <1>5, <1>6 DEF Next, Loop

(* However connections come and go, what leaves the broadcast list before it *)
(* is stale was its head, and has been recorded as sent to someone.          *)
THEOREM ListIsFirstInFirstOut == Spec => LeavesInOrder
<1>1. TypeOK /\ NoDangling /\ [Next]_vars
        => [\A p \in broadcast \ broadcast' :
               \/ StalePacket(p)
               \/ /\ \E h \in Handle : <<p, h>> \in sent'
                  /\ \A q \in broadcast' : <<q, p>> \notin ahead]_vars
  BY OrderStep
<1>. QED
  BY <1>1, TypeCorrect, NothingDangles, PTL DEF Spec, LeavesInOrder
==============================================================================
