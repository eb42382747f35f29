-------------------------- MODULE MeshNetwork_proofs --------------------------
(***************************************************************************)
(* How far a message goes, and that no clock is invented, for any nodes,   *)
(* links, ttl and clocks.  The invariant says of every packet that waits   *)
(* anywhere what the properties say of messages and of clocks: its ttl and *)
(* its hops never exceed what it set out with, and its time is one that    *)
(* some clock had, and that lies after the build.  Then that the nodes     *)
(* together implement Flood: a packet that waits is stored, and no other   *)
(* with its key waits at that node.                                        *)
(***************************************************************************)
EXTENDS MeshNetwork, FiniteSetTheorems, WellFoundedInduction, TLAPS

Packets == [key : Keys, ttl : Nat, ts : Int, hops : Nat, from : Node]

(* A time that was shown by a clock, and not by one that was never set. *)
Trusted(ts) ==
    /\ \E m \in Node : ts <= Clock[m] + time
    /\ ts >= BuildTime + MaxEvents

Sound(p) ==
    /\ ~IsAnnounce(p) => p.ttl > 0 /\ p.ttl + p.hops <= MaxTtl
    /\ IsAnnounce(p) => Trusted(p.ts)

SoundQueue(q) == q \in Seq(Packets) /\ \A i \in DOMAIN q : Sound(q[i])

SoundClock(n) ==
    /\ \E m \in Node : offset[n] <= Clock[m]
    /\ WeHaveTheTime(n) => Now(n) >= BuildTime + MaxEvents
    /\ Clock[n] >= BuildTime => WeHaveTheTime(n)

Inv ==
    /\ time \in Nat /\ ends \in Nat /\ time + ends <= MaxEvents
    /\ offset \in [Node -> Int] /\ \A n \in Node : SoundClock(n)
    /\ DOMAIN queue = Node /\ \A n \in Node : SoundQueue(queue[n])

LEMMA Constants ==
    /\ MaxTtl \in Nat /\ MaxTtl > 0 /\ Timeout \in Nat
    /\ BuildTime \in Nat /\ MaxEvents \in Nat /\ Clock \in [Node -> Nat]
BY ConstantAssumption

------------------------------------------------------------------------------
(* Kept *)

(* Of a set of numbers up to n, and each j up to its size, one has exactly  *)
(* j of them up to itself: the least up to which there are j. *)
LEMMA PlaceExists ==
    ASSUME NEW n \in Nat, NEW S \in SUBSET (1 .. n), NEW j \in 1 .. Cardinality(S)
    PROVE  \E i \in S : Cardinality(S \cap 1 .. i) = j
<1> DEFINE C(i) == Cardinality(S \cap 1 .. i)
           Enough == {i \in Nat : C(i) >= j}
<1>1. \A i \in Int : IsFiniteSet(S \cap 1 .. i) /\ C(i) \in Nat
  <2> TAKE i \in Int
  <2>1. IsFiniteSet(1 .. i) /\ S \cap 1 .. i \in SUBSET (1 .. i)
    BY FS_Interval
  <2>. QED
    BY <2>1, FS_Subset, FS_CardinalityType
<1>2. Cardinality(S) \in Nat /\ j \in Nat /\ 0 < j /\ j <= Cardinality(S) /\ S \cap 1 .. n = S
  <2>1. S \cap 1 .. n = S
    OBVIOUS
  <2>2. Cardinality(S) \in Nat
    <3>1. IsFiniteSet(1 .. n)
      BY FS_Interval
    <3>. QED
      BY <3>1, FS_Subset, FS_CardinalityType
  <2>. QED
    BY <2>1, <2>2
<1>n. n \in Enough
  BY <1>2
<1>3. PICK x \in Enough : \A y \in Enough : ~(<<y, x>> \in OpToRel(<, Nat))
  BY <1>n, NatLessThanWellFounded, WFMin
<1>4. x \in Nat /\ C(x) >= j /\ \A y \in Nat : C(y) >= j => x <= y
  <2>1. x \in Nat /\ C(x) >= j
    OBVIOUS
  <2>2. \A y \in Nat : C(y) >= j => ~(y < x)
    BY <1>3, <2>1 DEF OpToRel
  <2> HIDE DEF C
  <2>. QED
    BY <2>1, <2>2
<1>5. x # 0
  <2>1. S \cap 1 .. 0 = {}
    OBVIOUS
  <2>. QED
    BY <1>2, <1>4, <2>1, FS_EmptySet
<1>6. x - 1 \in Nat /\ C(x - 1) < j
  <2>1. x - 1 \in Nat /\ C(x - 1) \in Nat
    BY <1>1, <1>4, <1>5
  <2> HIDE DEF C
  <2>. QED
    BY <1>2, <1>4, <2>1
<1>7. x \in S
  <2> SUFFICES ASSUME x \notin S PROVE FALSE
    OBVIOUS
  <2>1. S \cap 1 .. x = S \cap 1 .. (x - 1)
    BY <1>4, <1>5
  <2>2. C(x) = C(x - 1)
    BY <2>1
  <2>3. C(x) \in Nat
    <3>1. x \in Int
      BY <1>4
    <3> HIDE DEF C
    <3>. QED
      BY <1>1, <3>1
  <2> HIDE DEF C
  <2>. QED
    BY <1>2, <1>4, <1>6, <2>2, <2>3
<1>8. C(x) = C(x - 1) + 1
  <2>1. S \cap 1 .. x = (S \cap 1 .. (x - 1)) \cup {x} /\ x \notin S \cap 1 .. (x - 1)
    BY <1>4, <1>5, <1>7
  <2>. QED
    BY <2>1, <1>1, <1>6, FS_AddElement
<1>9. C(x) = j
  <2>1. C(x) \in Nat /\ C(x - 1) \in Nat
    <3>1. x \in Int /\ x - 1 \in Int
      BY <1>4
    <3> HIDE DEF C
    <3>. QED
      BY <1>1, <3>1
  <2> HIDE DEF C
  <2>. QED
    BY <1>2, <1>4, <1>6, <1>8, <2>1
<1>. QED
  BY <1>7, <1>9

LEMMA KeptIsSound ==
    ASSUME NEW q, SoundQueue(q), NEW keys
    PROVE  SoundQueue(Kept(q, keys))
<1> DEFINE places == {i \in DOMAIN q : q[i].key \in keys}
           Place(j) == CHOOSE i \in places : Cardinality(places \cap 1 .. i) = j
<1>1. q \in Seq(Packets) /\ Len(q) \in Nat /\ DOMAIN q = 1 .. Len(q)
  BY DEF SoundQueue
<1>2. places \in SUBSET (1 .. Len(q))
  BY <1>1
<1>3. Cardinality(places) \in Nat
  <2>1. IsFiniteSet(1 .. Len(q))
    BY <1>1, FS_Interval
  <2>. QED
    BY <1>2, <2>1, FS_Subset, FS_CardinalityType
<1>4. \A j \in 1 .. Cardinality(places) : Place(j) \in 1 .. Len(q)
  BY <1>1, <1>2, PlaceExists
<1>5. Kept(q, keys) = [j \in 1 .. Cardinality(places) |-> q[Place(j)]]
  BY DEF Kept
<1> HIDE DEF Place, places
<1>6. \A i \in 1 .. Len(q) : q[i] \in Packets /\ Sound(q[i])
  BY <1>1 DEF SoundQueue
<1>7. \A j \in 1 .. Cardinality(places) : q[Place(j)] \in Packets /\ Sound(q[Place(j)])
  BY <1>4, <1>6
<1>8. Kept(q, keys) \in Seq(Packets)
  BY <1>3, <1>5, <1>7
<1>. QED
  BY <1>5, <1>7, <1>8 DEF SoundQueue

------------------------------------------------------------------------------
(* Receiving *)

LEMMA QueuedIsSound ==
    ASSUME Inv, NEW m \in Node, NEW n \in Node, NEW p \in Packets, Sound(p)
    PROVE  SoundQueue(Queued(m, p, n))
<1> DEFINE packet == [p EXCEPT !.hops = IF IsAnnounce(p) THEN 0 ELSE @ + 1, !.from = n]
           spent == [packet EXCEPT !.ttl = SpentTtl(@)]
<1>1. /\ packet \in Packets
      /\ packet.key = p.key /\ packet.ttl = p.ttl /\ packet.ts = p.ts
      /\ packet.hops = IF IsAnnounce(p) THEN 0 ELSE p.hops + 1
  <2>1. CASE IsAnnounce(p)
    BY <2>1 DEF Packets
  <2>2. CASE ~IsAnnounce(p)
    <3>1. packet = [p EXCEPT !.hops = p.hops + 1, !.from = n]
      BY <2>2
    <3>2. p.hops + 1 \in Nat
      BY DEF Packets
    <3> HIDE DEF packet
    <3>. QED
      BY <2>2, <3>1, <3>2 DEF Packets
  <2>. QED
    BY <2>1, <2>2
<1>2. SoundQueue(queue[m])
  BY DEF Inv
<1>3. CASE ~Known(m, p) /\ p.ttl - 1 > 0
  <2>1. /\ spent \in Packets /\ spent.key = p.key /\ spent.ts = p.ts
        /\ spent.ttl = p.ttl - 1 /\ spent.hops = packet.hops
    <3>1. SpentTtl(packet.ttl) = p.ttl - 1 /\ p.ttl - 1 \in Nat
      BY <1>1, <1>3 DEF Packets, SpentTtl
    <3>2. spent = [packet EXCEPT !.ttl = p.ttl - 1]
      BY <3>1
    <3> HIDE DEF packet, spent
    <3>. QED
      BY <1>1, <3>1, <3>2 DEF Packets
  <2>2. Sound(spent)
    BY <1>1, <1>3, <2>1, Constants DEF Sound, IsAnnounce, Packets, Trusted
  <2>3. Queued(m, p, n) = Append(queue[m], spent)
    BY <1>3 DEF Queued
  <2> HIDE DEF spent
  <2>. QED
    BY <1>2, <2>1, <2>2, <2>3 DEF SoundQueue
<1>4. CASE ~(~Known(m, p) /\ p.ttl - 1 > 0) /\ IsNewer(m, p)
  <2>1. Queued(m, p, n) =
          [i \in DOMAIN queue[m] |-> IF queue[m][i].key = p.key THEN packet ELSE queue[m][i]]
    BY <1>4 DEF Queued
  <2>2. Sound(packet)
    BY <1>1, <1>4 DEF Sound, IsNewer, IsAnnounce
  <2> HIDE DEF packet
  <2>. QED
    BY <1>1, <1>2, <2>1, <2>2 DEF SoundQueue
<1>5. CASE ~(~Known(m, p) /\ p.ttl - 1 > 0) /\ ~IsNewer(m, p)
  BY <1>2, <1>5 DEF Queued
<1>. QED
  BY <1>3, <1>4, <1>5

(* A clock that follows a trusted time is one of those the mesh had. *)
LEMMA UpdatedClock ==
    ASSUME Inv, NEW m \in Node, NEW ts \in Int, Trusted(ts)
    PROVE  LET o == PossiblyUpdatedOffset(m, ts)
           IN /\ o \in Int
              /\ \E k \in Node : o <= Clock[k]
              /\ o >= BuildTime => o + time >= BuildTime + MaxEvents
              /\ Clock[m] >= BuildTime => o >= BuildTime
<1>1. CASE Follows(m, ts)
  BY <1>1, Constants DEF PossiblyUpdatedOffset, Trusted, Inv
<1>2. CASE ~Follows(m, ts)
  BY <1>2, Constants DEF PossiblyUpdatedOffset, Inv, SoundClock, WeHaveTheTime, Now
<1>. QED
  BY <1>1, <1>2

LEMMA ReceiveInv ==
    ASSUME Inv, NEW reached \in SUBSET Node, NEW p \in Packets, Sound(p), NEW n \in Node,
           NEW rest, SoundQueue(rest), Receive(reached, p, n, rest), UNCHANGED <<time, ends>>
    PROVE  Inv'
<1>1. ASSUME NEW m \in Node
      PROVE  SoundQueue(queue'[m])
  <2>1. queue'[m] \in {Queued(m, p, n), rest, queue[m]}
    BY DEF Receive
  <2>. QED
    BY <2>1, QueuedIsSound DEF Inv
<1>2. ASSUME NEW m \in Node
      PROVE  offset'[m] \in Int /\ SoundClock(m)'
  <2>1. CASE m \in reached /\ IsAnnounce(p)
    <3>1. offset'[m] = PossiblyUpdatedOffset(m, p.ts)
      BY <2>1 DEF Receive
    <3>2. p.ts \in Int /\ Trusted(p.ts)
      BY <2>1 DEF Packets, Sound
    <3>. QED
      BY <3>1, <3>2, UpdatedClock DEF SoundClock, WeHaveTheTime, Now
  <2>2. CASE ~(m \in reached /\ IsAnnounce(p))
    <3>1. offset'[m] = offset[m]
      BY <2>2 DEF Receive
    <3>. QED
      BY <3>1 DEF Inv, SoundClock, WeHaveTheTime, Now
  <2>. QED
    BY <2>1, <2>2
<1>3. DOMAIN queue' = Node /\ offset' \in [Node -> Int]
  BY <1>2 DEF Receive
<1>4. \A m \in Node : SoundQueue(queue[m])'
  BY <1>1 DEF SoundQueue, Sound, Trusted
<1>. QED
  BY <1>2, <1>3, <1>4 DEF Inv

------------------------------------------------------------------------------
LEMMA InitInv == Init => Inv
<1> SUFFICES ASSUME Init PROVE Inv
  OBVIOUS
<1>1. \A n \in Node : SoundClock(n)
  BY Constants, ClockAssumption DEF Init, SoundClock, WeHaveTheTime, Now
<1>2. \A n \in Node : SoundQueue(queue[n])
  BY DEF Init, SoundQueue
<1>. QED
  BY <1>1, <1>2, Constants DEF Init, Inv

(* What a node with the time sends is trusted. *)
LEMMA OwnTime ==
    ASSUME Inv, NEW n \in Node, WeHaveTheTime(n)
    PROVE  Now(n) \in Int /\ Trusted(Now(n))
BY Constants DEF Inv, SoundClock, Now, Trusted

LEMMA AnnounceInv == ASSUME Inv, NEW n \in Node, Announce(n) PROVE Inv'
<1> DEFINE p == [key |-> n, ttl |-> MaxTtl, ts |-> Now(n), hops |-> 0, from |-> n]
<1>1. PICK accepted \in SUBSET (From(n) \ announced) \ {{}} :
        Receive({l[2] : l \in accepted}, p, n, queue[n]) /\ UNCHANGED <<time, ends>>
  BY DEF Announce
<1>2. {l[2] : l \in accepted} \in SUBSET Node
  BY <1>1, TopologyAssumption DEF From
<1>3. p \in Packets /\ Sound(p)
  BY OwnTime, Constants DEF Announce, Packets, Keys, Sound, IsAnnounce
<1>4. SoundQueue(queue[n])
  BY DEF Inv
<1>. QED
  BY <1>1, <1>2, <1>3, <1>4, ReceiveInv

LEMMA MakeMessageInv == ASSUME Inv, NEW n \in Node, MakeMessage(n) PROVE Inv'
<1> DEFINE id == <<n, Now(n)>>
           p == [key |-> id, ttl |-> MaxTtl, ts |-> Now(n), hops |-> 0, from |-> n]
<1>1. /\ WeHaveTheTime(n) /\ id \in Message
      /\ queue' = [queue EXCEPT ![n] = Append(@, p)]
      /\ UNCHANGED <<time, offset, ends>>
  BY DEF MakeMessage, clocks
<1>2. p \in Packets /\ Sound(p)
  BY <1>1, OwnTime, Constants DEF Packets, Keys, Sound, IsAnnounce
<1> HIDE DEF p
<1>3. \A m \in Node : SoundQueue(queue[m])'
  BY <1>1, <1>2 DEF Inv, SoundQueue, Sound, Trusted
<1>. QED
  BY <1>1, <1>3 DEF Inv, SoundClock, WeHaveTheTime, Now

LEMMA SendQueuedInv == ASSUME Inv, NEW n \in Node, SendQueued(n) PROVE Inv'
<1> DEFINE p == Head(queue[n])
<1>1. SoundQueue(queue[n]) /\ queue[n] # <<>>
  BY DEF SendQueued, Inv
<1>2. p \in Packets /\ Sound(p) /\ SoundQueue(Tail(queue[n]))
  BY <1>1 DEF SoundQueue
<1>3. PICK reached \in SUBSET ({l[2] : l \in From(n)} \ {p.from}) :
        Receive(reached, p, n, Tail(queue[n])) /\ UNCHANGED <<time, ends>>
  BY DEF SendQueued, Dequeued
<1>4. reached \in SUBSET Node
  BY <1>3, TopologyAssumption DEF From
<1>. QED
  BY <1>2, <1>3, <1>4, ReceiveInv

LEMMA CleanupInv == ASSUME Inv, NEW n \in Node, CleanupStaleItems(n) PROVE Inv'
<1>1. PICK kept : queue' = [queue EXCEPT ![n] = Kept(@, kept)]
  BY DEF CleanupStaleItems
<1>2. UNCHANGED <<time, offset, ends>>
  BY DEF CleanupStaleItems, clocks
<1>3. SoundQueue(Kept(queue[n], kept))
  BY KeptIsSound DEF Inv
<1>4. \A m \in Node : SoundQueue(queue[m])'
  BY <1>1, <1>2, <1>3 DEF Inv, SoundQueue, Sound, Trusted
<1>. QED
  BY <1>1, <1>2, <1>4 DEF Inv, SoundClock, WeHaveTheTime, Now

LEMMA ReconnectInv == ASSUME Inv, NEW l \in Link, Reconnect(l) PROVE Inv'
BY Constants DEF Inv, Reconnect, Eventful, clocks, SoundClock, WeHaveTheTime, Now,
                 SoundQueue, Sound, Trusted

LEMMA TickInv == ASSUME Inv, Tick PROVE Inv'
<1>1. /\ time' = time + 1 /\ time' + ends' <= MaxEvents
      /\ UNCHANGED <<offset, ends, queue>>
  BY Constants DEF Tick, Eventful, Inv
<1>2. \A ts \in Int : Trusted(ts) => Trusted(ts)'
  BY <1>1, Constants DEF Trusted, Inv
<1>3. ASSUME NEW n \in Node
      PROVE  SoundQueue(queue[n])'
  <2>1. queue[n] \in Seq(Packets) /\ \A i \in DOMAIN queue[n] : Sound(queue[n][i])
    BY DEF Inv, SoundQueue
  <2>2. \A i \in DOMAIN queue[n] : queue[n][i] \in Packets
    BY <2>1
  <2>3. \A p \in Packets : p.ts \in Int
    BY DEF Packets
  <2>. QED
    BY <1>1, <1>2, <2>1, <2>2, <2>3 DEF SoundQueue, Sound
<1>4. \A n \in Node : SoundClock(n)'
  BY <1>1, Constants DEF Inv, SoundClock, WeHaveTheTime, Now
<1>. QED
  BY <1>1, <1>3, <1>4 DEF Inv

LEMMA NextInv == Inv /\ [Next]_vars => Inv'
<1> SUFFICES ASSUME Inv, [Next]_vars PROVE Inv'
  OBVIOUS
<1>1. ASSUME NEW n \in Node, Announce(n) PROVE Inv'
  BY <1>1, AnnounceInv
<1>2. ASSUME NEW n \in Node, MakeMessage(n) PROVE Inv'
  BY <1>2, MakeMessageInv
<1>3. ASSUME NEW n \in Node, SendQueued(n) PROVE Inv'
  BY <1>3, SendQueuedInv
<1>4. ASSUME NEW n \in Node, CleanupStaleItems(n) PROVE Inv'
  BY <1>4, CleanupInv
<1>5. ASSUME NEW l \in Link, Reconnect(l) PROVE Inv'
  BY <1>5, ReconnectInv
<1>6. CASE Tick
  BY <1>6, TickInv
<1>7. CASE UNCHANGED vars
  BY <1>7 DEF vars, clocks, Inv, SoundClock, WeHaveTheTime, Now, SoundQueue, Sound, Trusted
<1>. QED
  BY <1>1, <1>2, <1>3, <1>4, <1>5, <1>6, <1>7 DEF Next

LEMMA AlwaysInv == Spec => []Inv
BY InitInv, NextInv, PTL DEF Spec

(* No message is forwarded further than MaxTtl links from its author, over  *)
(* whatever ways, losses, cleanups and links that come and go. *)
THEOREM NoMessageGoesFurther == Spec => []HopsSpent
<1>1. Inv => HopsSpent
  BY DEF Inv, HopsSpent, SoundQueue, Sound, Range
<1>. QED
  BY <1>1, AlwaysInv, PTL

(* No clock gets ahead of those the mesh started with, and no node that has *)
(* the time falls back to before the build, however long announcements wait *)
(* on their way. *)
THEOREM NoTimeIsInvented == Spec => []NoTimeInvented
<1>1. Inv => NoTimeInvented
  BY DEF Inv, NoTimeInvented, SoundClock
<1>. QED
  BY <1>1, AlwaysInv, PTL

------------------------------------------------------------------------------
(* The mesh implements Flood: every packet that waits is stored, and waits  *)
(* once. *)

OnceEach(q, keys) ==
    /\ \A i \in DOMAIN q : q[i].key \in keys
    /\ \A i, j \in DOMAIN q : q[i].key = q[j].key => i = j

Stocked == DOMAIN held = Node /\ \A n \in Node : OnceEach(queue[n], DOMAIN held[n])

stored == {x \in Node \X Keys : x[2] \in DOMAIN held[x[1]]}
queued == {x \in Node \X Keys : Waits(queue[x[1]], x[2])}

LEMMA PlaceReached ==
    ASSUME NEW n \in Nat, NEW S \in SUBSET (1 .. n), NEW i \in S
    PROVE  LET j == Cardinality(S \cap 1 .. i)
           IN /\ j \in 1 .. Cardinality(S)
              /\ \A k \in S : Cardinality(S \cap 1 .. k) = j => k = i
<1> DEFINE C(k) == Cardinality(S \cap 1 .. k)
<1>1. \A k \in Nat : IsFiniteSet(S \cap 1 .. k) /\ C(k) \in Nat
  <2> TAKE k \in Nat
  <2>1. IsFiniteSet(1 .. k) /\ S \cap 1 .. k \in SUBSET (1 .. k)
    BY FS_Interval
  <2>. QED
    BY <2>1, FS_Subset, FS_CardinalityType
<1>2. IsFiniteSet(S) /\ Cardinality(S) \in Nat
  <2>1. IsFiniteSet(1 .. n)
    BY FS_Interval
  <2>. QED
    BY <2>1, FS_Subset, FS_CardinalityType
<1>3. C(i) <= Cardinality(S) /\ C(i) \in Nat
  <2>1. S \cap 1 .. i \subseteq S /\ i \in Nat
    OBVIOUS
  <2>. QED
    BY <1>1, <1>2, <2>1, FS_Subset
<1>4. C(i) # 0
  <2>1. i \in S \cap 1 .. i /\ i \in Nat
    OBVIOUS
  <2>2. IsFiniteSet(S \cap 1 .. i)
    BY <1>1, <2>1
  <2>. QED
    BY <2>1, <2>2, FS_EmptySet
(* From one member of S to a larger one the count grows. *)
<1>5. ASSUME NEW a \in S, NEW b \in S, a < b
      PROVE  C(a) # C(b)
  <2> DEFINE A == S \cap 1 .. a
             B == S \cap 1 .. b
  <2>1. a \in Nat /\ b \in Nat
    OBVIOUS
  <2>2. A \subseteq B /\ b \in B /\ b \notin A
    BY <1>5, <2>1
  <2>3. IsFiniteSet(A) /\ IsFiniteSet(B)
    BY <1>1, <2>1
  <2> HIDE DEF A, B
  <2>4. A \in SUBSET B /\ B # A
    BY <2>2
  <2>5. Cardinality(B) # Cardinality(A)
    BY <2>3, <2>4, FS_Subset
  <2>. QED
    BY <2>5 DEF A, B
<1>6. \A k \in S : k < i \/ i < k \/ k = i
  OBVIOUS
<1>. QED
  BY <1>2, <1>3, <1>4, <1>5, <1>6

(* The cleanup keeps of a queue the packets with these keys, each once. *)
LEMMA KeptOnceEach ==
    ASSUME NEW q \in Seq(Packets), NEW known, OnceEach(q, known), NEW keys
    PROVE  /\ OnceEach(Kept(q, keys), keys)
           /\ \A k : Waits(Kept(q, keys), k) <=> Waits(q, k) /\ k \in keys
<1> DEFINE places == {i \in DOMAIN q : q[i].key \in keys}
           Place(j) == CHOOSE i \in places : Cardinality(places \cap 1 .. i) = j
<1>1. Len(q) \in Nat /\ DOMAIN q = 1 .. Len(q) /\ places \in SUBSET (1 .. Len(q))
  OBVIOUS
<1>2. \A j \in 1 .. Cardinality(places) :
        Place(j) \in places /\ Cardinality(places \cap 1 .. Place(j)) = j
  BY <1>1, PlaceExists
<1>3. \A i \in places :
        Cardinality(places \cap 1 .. i) \in 1 .. Cardinality(places)
        /\ \A k \in places : Cardinality(places \cap 1 .. k) = Cardinality(places \cap 1 .. i) => k = i
  BY <1>1, PlaceReached
<1>4. Kept(q, keys) = [j \in 1 .. Cardinality(places) |-> q[Place(j)]]
  BY DEF Kept
<1>5. \A i \in places : i \in DOMAIN q /\ q[i].key \in keys
  OBVIOUS
<1>6. \A i \in DOMAIN q : q[i].key \in keys => i \in places
  OBVIOUS
<1> HIDE DEF Place, places
<1>7. \A j \in DOMAIN Kept(q, keys) :
        /\ j \in 1 .. Cardinality(places)
        /\ Kept(q, keys)[j] = q[Place(j)]
        /\ Place(j) \in DOMAIN q /\ q[Place(j)].key \in keys
  BY <1>2, <1>4, <1>5
<1>8. OnceEach(Kept(q, keys), keys)
  <2>1. ASSUME NEW i \in DOMAIN Kept(q, keys), NEW j \in DOMAIN Kept(q, keys),
               Kept(q, keys)[i].key = Kept(q, keys)[j].key
        PROVE  i = j
    <3>1. Place(i) = Place(j)
      BY <1>7, <2>1 DEF OnceEach
    <3>. QED
      BY <1>2, <1>7, <3>1
  <2>. QED
    BY <1>7, <2>1 DEF OnceEach
<1>9. ASSUME NEW k, Waits(q, k), k \in keys
      PROVE  Waits(Kept(q, keys), k)
  <2>1. PICK i \in DOMAIN q : q[i].key = k
    BY <1>9 DEF Waits
  <2>2. i \in places
    BY <1>6, <1>9, <2>1
  <2>3. PICK j \in 1 .. Cardinality(places) : j = Cardinality(places \cap 1 .. i)
    BY <1>3, <2>2
  <2>4. Place(j) = i
    BY <1>2, <1>3, <2>2, <2>3
  <2>5. j \in DOMAIN Kept(q, keys)
    BY <1>4
  <2>. QED
    BY <1>7, <2>1, <2>4, <2>5 DEF Waits
<1>. QED
  BY <1>7, <1>8, <1>9 DEF Waits

(* What is received waits if it was not stored, and stays stored. *)
LEMMA QueuedOnceEach ==
    ASSUME Inv, Stocked, NEW m \in Node, NEW n \in Node, NEW p \in Packets
    PROVE  /\ DOMAIN Stored(m, p) = DOMAIN held[m] \cup {p.key}
           /\ OnceEach(Queued(m, p, n), DOMAIN Stored(m, p))
           /\ \A k : Waits(queue[m], k) => Waits(Queued(m, p, n), k)
           /\ \A k : Waits(Queued(m, p, n), k) =>
                 Waits(queue[m], k) \/ (k = p.key /\ p.key \notin DOMAIN held[m])
<1> DEFINE packet == [p EXCEPT !.hops = IF IsAnnounce(p) THEN 0 ELSE @ + 1, !.from = n]
           spent == [packet EXCEPT !.ttl = SpentTtl(@)]
<1>1. /\ packet.key = p.key /\ spent.key = p.key
      /\ queue[m] \in Seq(Packets) /\ OnceEach(queue[m], DOMAIN held[m])
  BY DEF Packets, Inv, SoundQueue, Stocked
<1>2. DOMAIN Stored(m, p) = DOMAIN held[m] \cup {p.key}
  BY DEF Stored, Known, IsNewer, Overlay
<1>3. CASE ~Known(m, p) /\ p.ttl - 1 > 0
  <2>1. Queued(m, p, n) = Append(queue[m], spent) /\ p.key \notin DOMAIN held[m]
    BY <1>3 DEF Queued, Known
  <2> DEFINE q == queue[m]
  <2>2. q \in Seq(Packets) /\ OnceEach(q, DOMAIN held[m])
    BY <1>1
  <2> HIDE DEF packet, spent, q
  <2>3. /\ DOMAIN Append(q, spent) = 1 .. Len(q) + 1 /\ DOMAIN q = 1 .. Len(q) /\ Len(q) \in Nat
        /\ \A i \in 1 .. Len(q) : Append(q, spent)[i] = q[i]
        /\ Append(q, spent)[Len(q) + 1] = spent
    BY <2>2
  <2>4. \A i \in 1 .. Len(q) + 1 : i \in 1 .. Len(q) \/ i = Len(q) + 1
    BY <2>3
  <2> HIDE DEF OnceEach
  <2>5. \A i \in 1 .. Len(q) : q[i].key \in DOMAIN held[m] /\ q[i].key # p.key
    BY <2>1, <2>2, <2>3 DEF OnceEach
  <2>6. OnceEach(Append(q, spent), DOMAIN held[m] \cup {p.key})
    BY <1>1, <2>2, <2>3, <2>4, <2>5 DEF OnceEach
  <2>7. \A k : Waits(Append(q, spent), k) <=> Waits(q, k) \/ k = p.key
    BY <1>1, <2>3, <2>4 DEF Waits
  <2>. QED
    BY <1>2, <2>1, <2>6, <2>7 DEF q
<1>4. CASE ~(~Known(m, p) /\ p.ttl - 1 > 0) /\ IsNewer(m, p)
  <2>1. Queued(m, p, n) =
          [i \in DOMAIN queue[m] |-> IF queue[m][i].key = p.key THEN packet ELSE queue[m][i]]
    BY <1>4 DEF Queued
  <2> HIDE DEF packet, spent
  <2>2. \A i \in DOMAIN queue[m] : Queued(m, p, n)[i].key = queue[m][i].key
    BY <1>1, <2>1
  <2>3. DOMAIN Queued(m, p, n) = DOMAIN queue[m]
    BY <2>1
  <2>. QED
    BY <1>1, <1>2, <2>2, <2>3 DEF OnceEach, Waits
<1>5. CASE ~(~Known(m, p) /\ p.ttl - 1 > 0) /\ ~IsNewer(m, p)
  BY <1>1, <1>2, <1>5 DEF Queued, OnceEach
<1>. QED
  BY <1>3, <1>4, <1>5

(* What waits anywhere when node n has `rest` of its queue left. *)
WaitingWith(n, rest) ==
    {x \in Node \X Keys : Waits(IF x[1] = n THEN rest ELSE queue[x[1]], x[2])}

LEMMA ReceiveFloods ==
    ASSUME Inv, Stocked, NEW n \in Node, NEW p \in Packets,
           NEW reached \in SUBSET {m \in Node : <<n, m>> \in Link},
           NEW rest, OnceEach(rest, DOMAIN held[n]), Receive(reached, p, n, rest)
    PROVE  /\ Stocked'
           /\ \E new \in SUBSET (Flooding!Reach(n, p.key) \ stored) : \E onward \in SUBSET new :
                stored' = stored \cup new /\ queued' = WaitingWith(n, rest) \cup onward
<1> DEFINE new == {x \in Flooding!Reach(n, p.key) \ stored : x[1] \in reached}
           onward == {x \in new : Waits(queue'[x[1]], x[2])}
<1>1. n \notin reached
  <2>1. \A m \in reached : <<n, m>>[1] # <<n, m>>[2]
    BY TopologyAssumption
  <2>. QED
    BY <2>1
<1>2. p.key \in Keys
  BY DEF Packets
<1>3. DOMAIN held' = Node /\ DOMAIN queue' = Node
  BY DEF Receive
<1>4. ASSUME NEW m \in reached
      PROVE  /\ m \in Node /\ m # n
             /\ DOMAIN held'[m] = DOMAIN held[m] \cup {p.key}
             /\ OnceEach(queue'[m], DOMAIN held'[m])
             /\ \A k : Waits(queue[m], k) => Waits(queue'[m], k)
             /\ \A k : Waits(queue'[m], k) =>
                   Waits(queue[m], k) \/ (k = p.key /\ p.key \notin DOMAIN held[m])
  <2>1. m \in Node /\ held'[m] = Stored(m, p) /\ queue'[m] = Queued(m, p, n)
    BY DEF Receive
  <2>2. /\ DOMAIN Stored(m, p) = DOMAIN held[m] \cup {p.key}
        /\ OnceEach(Queued(m, p, n), DOMAIN Stored(m, p))
        /\ \A k : Waits(queue[m], k) => Waits(Queued(m, p, n), k)
        /\ \A k : Waits(Queued(m, p, n), k) =>
              Waits(queue[m], k) \/ (k = p.key /\ p.key \notin DOMAIN held[m])
    BY <2>1, QueuedOnceEach
  <2>3. m # n
    BY <1>1
  <2> HIDE DEF new, onward
  <2>. QED
    BY <2>1, <2>2, <2>3, Zenon
<1>5. ASSUME NEW m \in Node \ reached
      PROVE  held'[m] = held[m] /\ queue'[m] = IF m = n THEN rest ELSE queue[m]
  BY DEF Receive
<1>6. Stocked'
  <2>1. ASSUME NEW m \in Node
        PROVE  OnceEach(queue'[m], DOMAIN held'[m])
    <3>1. CASE m \in reached
      BY <1>4, <3>1
    <3>2. CASE m \notin reached
      BY <1>5, <3>2 DEF Stocked
    <3>. QED
      BY <3>1, <3>2
  <2>. QED
    BY <1>3, <2>1 DEF Stocked, OnceEach
<1>7. \A m \in reached : <<m, p.key>> \in Flooding!Reach(n, p.key)
  BY DEF Flooding!Reach
<1>8. \A x \in Flooding!Reach(n, p.key) : x \in Node \X Keys /\ x[2] = p.key
  <2> TAKE x \in Flooding!Reach(n, p.key)
  <2>1. PICK m \in Node : x = <<m, p.key>>
    BY DEF Flooding!Reach
  <2>. QED
    BY <1>2, <2>1
<1>9. stored' = stored \cup new
  <2>1. ASSUME NEW m \in Node, NEW k \in Keys
        PROVE  k \in DOMAIN held'[m] <=> k \in DOMAIN held[m] \/ <<m, k>> \in new
    <3>1. CASE m \in reached
      <4>1. <<m, k>> \in new <=> (k = p.key /\ <<m, k>> \notin stored)
        BY <1>7, <1>8, <3>1
      <4>. QED
        BY <1>4, <3>1, <4>1 DEF stored
    <3>2. CASE m \notin reached
      BY <1>5, <3>2
    <3>. QED
      BY <3>1, <3>2
  <2>2. new \subseteq Node \X Keys
    BY <1>8
  <2> HIDE DEF new
  <2>3. \A x \in Node \X Keys : x[2] \in DOMAIN held'[x[1]] <=> x \in stored \/ x \in new
    BY <2>1 DEF stored
  <2>. QED
    BY <2>2, <2>3 DEF stored
<1>10. queued' = WaitingWith(n, rest) \cup onward
  <2>1. ASSUME NEW m \in Node, NEW k \in Keys
        PROVE  Waits(queue'[m], k) <=>
                   Waits(IF m = n THEN rest ELSE queue[m], k) \/ <<m, k>> \in onward
    <3>1. CASE m \in reached
      <4>1. k = p.key /\ p.key \notin DOMAIN held[m] => <<m, k>> \in new
        BY <1>7, <3>1 DEF stored
      <4> HIDE DEF new
      <4>. QED
        BY <1>4, <3>1, <4>1
    <3>2. CASE m \notin reached
      <4>1. <<m, k>> \notin onward
        BY <3>2
      <4>. QED
        BY <1>5, <3>2, <4>1
    <3>. QED
      BY <3>1, <3>2
  <2>2. onward \subseteq Node \X Keys
    BY <1>8
  <2> HIDE DEF onward
  <2>3. \A x \in Node \X Keys : Waits(queue'[x[1]], x[2]) <=>
            x \in WaitingWith(n, rest) \/ x \in onward
    BY <2>1 DEF WaitingWith
  <2>4. WaitingWith(n, rest) \subseteq Node \X Keys
    BY DEF WaitingWith
  <2>. QED
    BY <2>2, <2>3, <2>4 DEF queued
<1>11. new \in SUBSET (Flooding!Reach(n, p.key) \ stored) /\ onward \in SUBSET new
  OBVIOUS
<1> HIDE DEF new, onward
<1>. QED
  BY <1>6, <1>9, <1>10, <1>11

LEMMA FloodInit == Init => Stocked /\ Flooding!Init
<1> SUFFICES ASSUME Init PROVE Stocked /\ Flooding!Init
  OBVIOUS
<1>1. DOMAIN held = Node /\ \A n \in Node : DOMAIN held[n] = {} /\ DOMAIN queue[n] = {}
  BY DEF Init
<1>2. stored = {} /\ queued = {}
  BY <1>1 DEF stored, queued, Waits
<1>. QED
  BY <1>1, <1>2 DEF Stocked, OnceEach, Flooding!Init, stored, queued

LEMMA FloodAnnounce ==
    ASSUME Inv, Stocked, NEW n \in Node, Announce(n)
    PROVE  Stocked' /\ Flooding!Announce(n, n)
<1> DEFINE p == [key |-> n, ttl |-> MaxTtl, ts |-> Now(n), hops |-> 0, from |-> n]
<1>1. PICK accepted \in SUBSET (From(n) \ announced) \ {{}} :
        Receive({l[2] : l \in accepted}, p, n, queue[n])
  BY DEF Announce
<1>2. {l[2] : l \in accepted} \in SUBSET {m \in Node : <<n, m>> \in Link}
  <2>1. ASSUME NEW l \in From(n)
        PROVE  l[2] \in Node /\ <<n, l[2]>> \in Link
    BY TopologyAssumption DEF From
  <2>. QED
    BY <1>1, <2>1
<1>3. p \in Packets /\ p.key = n
  BY OwnTime, Constants DEF Announce, Packets, Keys
<1>4. OnceEach(queue[n], DOMAIN held[n])
  BY DEF Stocked
<1>5. WaitingWith(n, queue[n]) = queued
  BY DEF WaitingWith, queued
<1> HIDE DEF p
<1>6. /\ Stocked'
      /\ \E new \in SUBSET (Flooding!Reach(n, n) \ stored) : \E onward \in SUBSET new :
           stored' = stored \cup new /\ queued' = queued \cup onward
  <2> DEFINE reached == {l[2] : l \in accepted}
             rest == queue[n]
  <2>1. /\ reached \in SUBSET {m \in Node : <<n, m>> \in Link}
        /\ OnceEach(rest, DOMAIN held[n]) /\ Receive(reached, p, n, rest)
    BY <1>1, <1>2, <1>4
  <2>2. WaitingWith(n, rest) = queued
    BY <1>5
  <2> HIDE DEF reached, rest
  <2>3. /\ Stocked'
        /\ \E new \in SUBSET (Flooding!Reach(n, p.key) \ stored) : \E onward \in SUBSET new :
             stored' = stored \cup new /\ queued' = WaitingWith(n, rest) \cup onward
    BY <1>3, <2>1, ReceiveFloods
  <2>. QED
    BY <1>3, <2>2, <2>3
<1>. QED
  BY <1>6 DEF Flooding!Announce, Flooding!TakeIn, stored, queued, Keys

LEMMA FloodMake ==
    ASSUME Inv, Stocked, NEW n \in Node, MakeMessage(n)
    PROVE  Stocked' /\ \E k \in Keys : Flooding!Make(n, k)
<1> DEFINE id == <<n, Now(n)>>
           p == [key |-> id, ttl |-> MaxTtl, ts |-> Now(n), hops |-> 0, from |-> n]
           q == queue[n]
<1>1. /\ id \in Message /\ id \notin DOMAIN held[n] /\ p.key = id
      /\ held' = [held EXCEPT ![n] = Overlay(@, id, Now(n))]
      /\ queue' = [queue EXCEPT ![n] = Append(@, p)]
  BY DEF MakeMessage
<1>2. id \in Keys /\ id \notin Node /\ id[1] = n
  BY <1>1, KeyAssumption DEF Keys
<1>3. q \in Seq(Packets) /\ OnceEach(q, DOMAIN held[n]) /\ DOMAIN held = Node /\ DOMAIN queue = Node
  BY DEF Inv, SoundQueue, Stocked
<1> HIDE DEF id, p
<1>4. /\ \A m \in Node : m # n => held'[m] = held[m] /\ queue'[m] = queue[m]
      /\ DOMAIN held' = Node /\ DOMAIN held'[n] = DOMAIN held[n] \cup {id}
      /\ queue'[n] = Append(q, p)
  BY <1>1, <1>3 DEF Overlay
<1> HIDE DEF q
<1>5. /\ DOMAIN Append(q, p) = 1 .. Len(q) + 1 /\ DOMAIN q = 1 .. Len(q) /\ Len(q) \in Nat
      /\ \A i \in 1 .. Len(q) : Append(q, p)[i] = q[i]
      /\ Append(q, p)[Len(q) + 1] = p
  BY <1>3
<1>6. \A i \in 1 .. Len(q) + 1 : i \in 1 .. Len(q) \/ i = Len(q) + 1
  BY <1>5
<1>7. \A i \in 1 .. Len(q) : q[i].key \in DOMAIN held[n] /\ q[i].key # id
  BY <1>1, <1>3, <1>5 DEF OnceEach
<1>8. OnceEach(Append(q, p), DOMAIN held[n] \cup {id})
  BY <1>1, <1>3, <1>5, <1>6, <1>7 DEF OnceEach
<1>9. \A k : Waits(Append(q, p), k) <=> Waits(q, k) \/ k = id
  BY <1>1, <1>5, <1>6 DEF Waits
<1>10. Stocked'
  <2>1. ASSUME NEW m \in Node
        PROVE  OnceEach(queue'[m], DOMAIN held'[m])
    BY <1>4, <1>8 DEF Stocked
  <2>. QED
    BY <1>4, <2>1 DEF Stocked, OnceEach
<1>11. stored' = stored \cup {<<n, id>>} /\ queued' = queued \cup {<<n, id>>}
  <2>1. ASSUME NEW m \in Node, NEW k \in Keys
        PROVE  /\ k \in DOMAIN held'[m] <=> k \in DOMAIN held[m] \/ (m = n /\ k = id)
               /\ Waits(queue'[m], k) <=> Waits(queue[m], k) \/ (m = n /\ k = id)
    BY <1>4, <1>9 DEF q
  <2>2. /\ \A x \in Node \X Keys : x[2] \in DOMAIN held'[x[1]] <=>
              x[2] \in DOMAIN held[x[1]] \/ x = <<n, id>>
        /\ \A x \in Node \X Keys : Waits(queue'[x[1]], x[2]) <=>
              Waits(queue[x[1]], x[2]) \/ x = <<n, id>>
    BY <2>1
  <2>. QED
    BY <1>2, <2>2 DEF stored, queued
<1>12. <<n, id>> \notin stored
  BY <1>1 DEF stored
<1>. QED
  BY <1>2, <1>10, <1>11, <1>12 DEF Flooding!Make, stored, queued

LEMMA FloodForward ==
    ASSUME Inv, Stocked, NEW n \in Node, SendQueued(n)
    PROVE  Stocked' /\ \E k \in Keys : Flooding!Forward(n, k)
<1> DEFINE q == queue[n]
           p == Head(q)
<1>1. q \in Seq(Packets) /\ q # <<>> /\ OnceEach(q, DOMAIN held[n])
  BY DEF SendQueued, Inv, SoundQueue, Stocked
<1>2. PICK reached \in SUBSET ({l[2] : l \in From(n)} \ {p.from}) :
        Receive(reached, p, n, Tail(q))
  BY DEF SendQueued, Dequeued
<1>3. reached \in SUBSET {m \in Node : <<n, m>> \in Link}
  <2>1. ASSUME NEW l \in From(n)
        PROVE  l[2] \in Node /\ <<n, l[2]>> \in Link
    BY TopologyAssumption DEF From
  <2>. QED
    BY <1>2, <2>1
<1> HIDE DEF q
<1>4. /\ p \in Packets /\ p = q[1] /\ 1 \in DOMAIN q /\ Len(q) \in Nat /\ DOMAIN q = 1 .. Len(q)
      /\ DOMAIN Tail(q) = 1 .. Len(q) - 1
      /\ \A i \in DOMAIN Tail(q) : i + 1 \in DOMAIN q /\ i + 1 # 1 /\ Tail(q)[i] = q[i + 1]
      /\ \A i \in DOMAIN q : i # 1 => i - 1 \in DOMAIN Tail(q) /\ Tail(q)[i - 1] = q[i]
  BY <1>1
<1>5. OnceEach(Tail(q), DOMAIN held[n])
  <2>1. \A i, j \in DOMAIN Tail(q) : i + 1 = j + 1 => i = j
    BY <1>4
  <2>. QED
    BY <1>1, <1>4, <2>1 DEF OnceEach
<1>6. \A k : Waits(Tail(q), k) <=> Waits(q, k) /\ k # p.key
  <2>1. \A i \in DOMAIN q : q[i].key = p.key => i = 1
    BY <1>1, <1>4 DEF OnceEach
  <2>2. ASSUME NEW k, Waits(Tail(q), k)
        PROVE  Waits(q, k) /\ k # p.key
    <3>1. PICK i \in DOMAIN Tail(q) : Tail(q)[i].key = k
      BY <2>2 DEF Waits
    <3>2. i + 1 \in DOMAIN q /\ i + 1 # 1 /\ q[i + 1].key = k
      BY <1>4, <3>1
    <3>. QED
      BY <2>1, <3>2 DEF Waits
  <2>3. ASSUME NEW k, Waits(q, k), k # p.key
        PROVE  Waits(Tail(q), k)
    <3>1. PICK i \in DOMAIN q : q[i].key = k
      BY <2>3 DEF Waits
    <3>2. i # 1
      BY <1>4, <2>3, <3>1
    <3>. QED
      BY <1>4, <3>1, <3>2 DEF Waits
  <2>. QED
    BY <2>2, <2>3
<1>7. p.key \in Keys /\ Waits(q, p.key)
  BY <1>4 DEF Packets, Waits
<1>8. WaitingWith(n, Tail(q)) = queued \ {<<n, p.key>>}
  <2>1. \A m \in Node, k \in Keys :
          Waits(IF m = n THEN Tail(q) ELSE queue[m], k) <=>
              Waits(queue[m], k) /\ ~(m = n /\ k = p.key)
    BY <1>6 DEF q
  <2>2. \A x \in Node \X Keys :
          Waits(IF x[1] = n THEN Tail(q) ELSE queue[x[1]], x[2]) <=>
              Waits(queue[x[1]], x[2]) /\ x # <<n, p.key>>
    BY <2>1
  <2>. QED
    BY <2>2 DEF WaitingWith, queued
<1>9. <<n, p.key>> \in queued
  BY <1>7 DEF queued, q
<1> HIDE DEF p
<1>10. /\ Stocked'
       /\ \E new \in SUBSET (Flooding!Reach(n, p.key) \ stored) : \E onward \in SUBSET new :
            /\ stored' = stored \cup new
            /\ queued' = (queued \ {<<n, p.key>>}) \cup onward
  <2> DEFINE rest == Tail(q)
  <2>1. p \in Packets /\ OnceEach(rest, DOMAIN held[n]) /\ Receive(reached, p, n, rest)
    BY <1>2, <1>4, <1>5
  <2>2. WaitingWith(n, rest) = queued \ {<<n, p.key>>}
    BY <1>8
  <2> HIDE DEF rest
  <2>3. /\ Stocked'
        /\ \E new \in SUBSET (Flooding!Reach(n, p.key) \ stored) : \E onward \in SUBSET new :
             stored' = stored \cup new /\ queued' = WaitingWith(n, rest) \cup onward
    BY <1>3, <2>1, ReceiveFloods
  <2>. QED
    BY <2>2, <2>3
<1>. QED
  BY <1>7, <1>9, <1>10 DEF Flooding!Forward, Flooding!TakeIn, stored, queued

LEMMA FloodExpire ==
    ASSUME Inv, Stocked, NEW n \in Node, CleanupStaleItems(n)
    PROVE  Stocked' /\ Flooding!Expire(n)
<1> DEFINE q == queue[n]
<1>1. PICK kept \in SUBSET DOMAIN held[n] :
        /\ held' = [held EXCEPT ![n] = [k \in kept |-> held[n][k]]]
        /\ queue' = [queue EXCEPT ![n] = Kept(@, kept)]
  BY DEF CleanupStaleItems
<1>2. q \in Seq(Packets) /\ OnceEach(q, DOMAIN held[n]) /\ DOMAIN held = Node /\ DOMAIN queue = Node
  BY DEF Inv, SoundQueue, Stocked
<1>3. /\ \A m \in Node : m # n => held'[m] = held[m] /\ queue'[m] = queue[m]
      /\ DOMAIN held' = Node /\ DOMAIN held'[n] = kept /\ queue'[n] = Kept(q, kept)
  BY <1>1, <1>2
<1> HIDE DEF q
<1>4. OnceEach(Kept(q, kept), kept) /\ \A k : Waits(Kept(q, kept), k) <=> Waits(q, k) /\ k \in kept
  BY <1>2, KeptOnceEach
<1>5. Stocked'
  <2>1. ASSUME NEW m \in Node
        PROVE  OnceEach(queue'[m], DOMAIN held'[m])
    BY <1>3, <1>4 DEF Stocked
  <2>. QED
    BY <1>3, <2>1 DEF Stocked, OnceEach
<1> DEFINE gone == {x \in stored : x[1] = n /\ x[2] \notin kept}
<1>6. \A k : Waits(q, k) => k \in DOMAIN held[n]
  BY <1>2 DEF OnceEach, Waits
<1>7. stored' = stored \ gone /\ queued' = queued \ gone
  <2>1. ASSUME NEW m \in Node, NEW k \in Keys
        PROVE  /\ k \in DOMAIN held'[m] <=> k \in DOMAIN held[m] /\ <<m, k>> \notin gone
               /\ Waits(queue'[m], k) <=> Waits(queue[m], k) /\ <<m, k>> \notin gone
    <3>1. CASE m = n
      <4>1. <<m, k>> \in gone <=> k \in DOMAIN held[n] /\ k \notin kept
        BY <3>1 DEF stored
      <4> HIDE DEF gone
      <4>. QED
        BY <1>1, <1>3, <1>4, <1>6, <3>1, <4>1 DEF q
    <3>2. CASE m # n
      <4>1. <<m, k>> \notin gone
        BY <3>2
      <4> HIDE DEF gone
      <4>. QED
        BY <1>3, <3>2, <4>1
    <3>. QED
      BY <3>1, <3>2
  <2> HIDE DEF gone
  <2>2. /\ \A x \in Node \X Keys : x[2] \in DOMAIN held'[x[1]] <=>
              x[2] \in DOMAIN held[x[1]] /\ x \notin gone
        /\ \A x \in Node \X Keys : Waits(queue'[x[1]], x[2]) <=>
              Waits(queue[x[1]], x[2]) /\ x \notin gone
    BY <2>1
  <2>. QED
    BY <2>2 DEF stored, queued
<1>8. gone \in SUBSET {x \in stored : x[1] = n}
  OBVIOUS
<1> HIDE DEF gone
<1>. QED
  BY <1>5, <1>7, <1>8 DEF Flooding!Expire, stored, queued

LEMMA FloodStep ==
    Inv /\ Stocked /\ [Next]_vars => Stocked' /\ [Flooding!Next]_<<stored, queued>>
<1> SUFFICES ASSUME Inv, Stocked, [Next]_vars
             PROVE  Stocked' /\ [Flooding!Next]_<<stored, queued>>
  OBVIOUS
<1>1. ASSUME NEW n \in Node, Announce(n)
      PROVE  Stocked' /\ Flooding!Next
  BY <1>1, FloodAnnounce DEF Flooding!Next, Keys
<1>2. ASSUME NEW n \in Node, MakeMessage(n)
      PROVE  Stocked' /\ Flooding!Next
  BY <1>2, FloodMake DEF Flooding!Next
<1>3. ASSUME NEW n \in Node, SendQueued(n)
      PROVE  Stocked' /\ Flooding!Next
  BY <1>3, FloodForward DEF Flooding!Next
<1>4. ASSUME NEW n \in Node, CleanupStaleItems(n)
      PROVE  Stocked' /\ Flooding!Next
  BY <1>4, FloodExpire DEF Flooding!Next
<1>5. ASSUME UNCHANGED <<held, queue>>
      PROVE  Stocked' /\ UNCHANGED <<stored, queued>>
  BY <1>5 DEF Stocked, OnceEach, stored, queued, Waits
<1>6. CASE \/ \E l \in Link : Reconnect(l)
           \/ Tick
           \/ UNCHANGED vars
  BY <1>5, <1>6 DEF Reconnect, Tick, vars
<1>. QED
  BY <1>1, <1>2, <1>3, <1>4, <1>5, <1>6 DEF Next

(* The mesh floods: in any network, whatever is lost, forgotten or replaced *)
(* while it waits, a packet is taken in only next to a node that forwards   *)
(* it or announces itself, and forwarded at most once in each stay.         *)
THEOREM MeshFloods == Spec => ImplementsFlood
<1>1. Init => Stocked /\ Flooding!Init
  BY FloodInit
<1>2. Inv /\ Stocked /\ [Next]_vars => Stocked' /\ [Flooding!Next]_<<stored, queued>>
  BY FloodStep
<1>. QED
  BY <1>1, <1>2, AlwaysInv, PTL DEF Spec, ImplementsFlood, Flooding!Spec, stored, queued
==============================================================================
