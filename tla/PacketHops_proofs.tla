--------------------------- MODULE PacketHops_proofs ---------------------------
(***************************************************************************)
(* What a packet keeps on its way, for any values, preferences, packets of  *)
(* apps and number of hops.  It rests on what the readers make of what the  *)
(* writers emit, and on sums of sizes over the places of a packet.          *)
(***************************************************************************)
EXTENDS PacketHops, TLAPS, WellFoundedInduction

------------------------------------------------------------------------------
(* Least numbers and sums *)

LEMMA Least ==
    ASSUME NEW S, S \subseteq Nat, S # {}
    PROVE  /\ \E x \in S : \A y \in S : x <= y
           /\ Min(S) \in S /\ \A y \in S : Min(S) <= y
<1>1. PICK x \in S : \A y \in S : ~(<<y, x>> \in OpToRel(<, Nat))
  BY NatLessThanWellFounded, WFMin
<1>2. \A y \in S : ~(y < x)
  <2> SUFFICES ASSUME NEW y \in S, y < x
               PROVE  FALSE
    OBVIOUS
  <2>1. x \in Nat /\ y \in Nat /\ <<y, x>> \in Nat \X Nat
    OBVIOUS
  <2>2. <<y, x>> \in OpToRel(<, Nat)
    BY <2>1 DEF OpToRel
  <2>. QED
    BY <1>1, <2>2
<1>3. \A y \in S : x <= y
  BY <1>2
<1>. QED
  BY <1>3 DEF Min

(* What is added at a place. *)
Part(size, i) == IF i \in DOMAIN size THEN size[i] ELSE 0
IsSum(f, size, n) == f = [i \in 0 .. n |-> IF i = 0 THEN 0 ELSE f[i - 1] + Part(size, i)]
IsSize(size) == /\ DOMAIN size \subseteq 1 .. MaxItems
                /\ \A i \in DOMAIN size : size[i] \in Nat \ {0}

LEMMA Bounds == MaxItems \in Nat /\ MaxItems >= 10 /\ MaxItems <= 255
BY ItemsAssumption

(* The recursive definition of Total defines a sum. *)
LEMMA SumExists ==
    ASSUME NEW size, NEW n \in Nat
    PROVE  \E f : IsSum(f, size, n)
<1> DEFINE Bad == {m \in Nat : ~\E f : IsSum(f, size, m)}
<1>1. SUFFICES ASSUME Bad # {}
               PROVE  FALSE
  OBVIOUS
<1>2. PICK m \in Bad : \A k \in Bad : m <= k
  BY <1>1, Least
<1>3. m # 0
  <2>1. IsSum([i \in 0 .. 0 |-> 0], size, 0)
    BY DEF IsSum
  <2>. QED
    BY <1>2, <2>1
<1>4. m - 1 \in Nat /\ m - 1 \notin Bad
  BY <1>2, <1>3
<1>5. PICK f : IsSum(f, size, m - 1)
  BY <1>4
<1> DEFINE g == [i \in 0 .. m |-> IF i = m THEN f[m - 1] + Part(size, m) ELSE f[i]]
<1>6. \A i \in 0 .. m : g[i] = IF i = 0 THEN 0 ELSE g[i - 1] + Part(size, i)
  <2> SUFFICES ASSUME NEW i \in 0 .. m
               PROVE  g[i] = IF i = 0 THEN 0 ELSE g[i - 1] + Part(size, i)
    OBVIOUS
  <2>1. CASE i = m
    <3>1. m - 1 \in 0 .. m /\ m - 1 # m
      BY <1>2, <1>3
    <3>2. g[m] = f[m - 1] + Part(size, m) /\ g[m - 1] = f[m - 1]
      BY <1>2, <3>1
    <3> HIDE DEF g
    <3>. QED
      BY <1>3, <2>1, <3>2
  <2>2. CASE i # m
    <3>1. i \in 0 .. m - 1 /\ g[i] = f[i]
      BY <1>2, <2>2
    <3>2. f[i] = IF i = 0 THEN 0 ELSE f[i - 1] + Part(size, i)
      BY <1>5, <3>1 DEF IsSum
    <3>3. i # 0 => i - 1 \in 0 .. m /\ i - 1 # m
      BY <1>2, <3>1
    <3>4. i # 0 => g[i - 1] = f[i - 1]
      BY <3>3
    <3> HIDE DEF g
    <3>. QED
      BY <3>1, <3>2, <3>4
  <2>. QED
    BY <2>1, <2>2
<1>7. IsSum(g, size, m)
  <2>1. g = [i \in 0 .. m |-> g[i]]
    OBVIOUS
  <2> HIDE DEF g
  <2>. QED
    BY <1>6, <2>1 DEF IsSum
<1>. QED
  BY <1>2, <1>7

LEMMA TotalIs ==
    ASSUME NEW size, IsSize(size)
    PROVE  /\ Total(size, 0) = 0
           /\ \A j \in 1 .. MaxItems : Total(size, j) = Total(size, j - 1) + Part(size, j)
           /\ \A j \in 0 .. MaxItems : Total(size, j) \in Nat
<1> DEFINE f == CHOOSE g : IsSum(g, size, MaxItems)
           Bad == {m \in 0 .. MaxItems : f[m] \notin Nat}
<1>1. IsSum(f, size, MaxItems)
  BY SumExists, Bounds
<1>2. \A j : Total(size, j) = f[j]
  BY DEF Total, IsSum, Part
<1>3. \A i \in 0 .. MaxItems : f[i] = IF i = 0 THEN 0 ELSE f[i - 1] + Part(size, i)
  <2> HIDE DEF f
  <2>. QED
    BY <1>1 DEF IsSum
<1> HIDE DEF f
<1>4. \A i \in 1 .. MaxItems : Part(size, i) \in Nat
  BY DEF IsSize, Part
<1>5. Bad = {}
  <2> SUFFICES ASSUME Bad # {}
               PROVE  FALSE
    OBVIOUS
  <2>0. Bad \subseteq Nat
    BY Bounds
  <2>1. PICK m \in Bad : \A k \in Bad : m <= k
    <3> HIDE DEF Bad
    <3>. QED
      BY <2>0, Least
  <2>2. m # 0 /\ m \in 1 .. MaxItems /\ m - 1 \in 0 .. MaxItems
    BY <1>3, <2>1, Bounds
  <2>3. f[m - 1] \in Nat
    BY <2>1, <2>2
  <2>4. f[m] = f[m - 1] + Part(size, m) /\ Part(size, m) \in Nat
    BY <1>3, <1>4, <2>2
  <2>. QED
    BY <2>1, <2>3, <2>4
<1>. QED
  BY <1>2, <1>3, <1>5, Bounds

LEMMA TotalGrows ==
    ASSUME NEW size, IsSize(size), NEW i \in 0 .. MaxItems, NEW j \in i .. MaxItems
    PROVE  /\ Total(size, i) <= Total(size, j)
           /\ \A k \in DOMAIN size : i < k /\ k <= j => Total(size, i) + size[k] <= Total(size, j)
<1> DEFINE f(m) == Total(size, m)
<1>1. \A m \in 0 .. MaxItems : f(m) \in Nat
  BY TotalIs
<1>2. \A m \in 1 .. MaxItems : f(m) = f(m - 1) + Part(size, m) /\ Part(size, m) \in Nat
  BY TotalIs DEF Part, IsSize
<1> HIDE DEF f
<1>3. ASSUME NEW x \in 0 .. MaxItems, NEW y \in x .. MaxItems
      PROVE  f(x) <= f(y)
  <2> DEFINE Bad == {m \in x .. MaxItems : f(x) > f(m)}
  <2>1. SUFFICES ASSUME Bad # {}
                 PROVE  FALSE
    BY <1>1, <1>3, Bounds
  <2>2. Bad \subseteq Nat
    BY Bounds
  <2>3. PICK m \in Bad : \A k \in Bad : m <= k
    <3> HIDE DEF Bad
    <3>. QED
      BY <2>1, <2>2, Least
  <2>4. m # x /\ m \in 1 .. MaxItems /\ m - 1 \in x .. MaxItems /\ m - 1 \in 0 .. MaxItems
    BY <1>1, <2>3, Bounds
  <2>5. ~(f(x) > f(m - 1))
    BY <2>3, <2>4
  <2>6. f(m) = f(m - 1) + Part(size, m) /\ Part(size, m) \in Nat
    BY <1>2, <2>4
  <2>7. f(m) \in Nat /\ f(m - 1) \in Nat /\ f(x) \in Nat /\ f(x) > f(m)
    BY <1>1, <2>3, <2>4, Bounds
  <2>. QED
    BY <2>5, <2>6, <2>7
<1>4. ASSUME NEW k \in DOMAIN size, i < k, k <= j
      PROVE  f(i) + size[k] <= f(j)
  <2>1. /\ k \in 1 .. MaxItems /\ k - 1 \in i .. MaxItems /\ k - 1 \in 0 .. MaxItems
        /\ k \in 0 .. MaxItems /\ j \in k .. MaxItems /\ j \in 0 .. MaxItems
    BY <1>4, Bounds DEF IsSize
  <2>2. f(k) = f(k - 1) + size[k] /\ size[k] \in Nat
    BY <1>2, <2>1 DEF Part, IsSize
  <2>3. f(i) <= f(k - 1) /\ f(k) <= f(j)
    BY <1>3, <2>1
  <2>4. f(i) \in Nat /\ f(k - 1) \in Nat /\ f(k) \in Nat /\ f(j) \in Nat
    BY <1>1, <2>1
  <2>. QED
    BY <2>2, <2>3, <2>4
<1>. QED
  BY <1>3, <1>4 DEF f

(* A sum is reached at a place that has something. *)
LEMMA TotalReached ==
    ASSUME NEW size, IsSize(size), NEW j \in 0 .. MaxItems, Total(size, j) > 0
    PROVE  \E k \in DOMAIN size : k <= j /\ Total(size, k) = Total(size, j)
<1> DEFINE T == {m \in 0 .. j : Total(size, m) = Total(size, j)}
<1>1. j \in T /\ T \subseteq Nat
  BY Bounds
<1>2. PICK m \in T : \A k \in T : m <= k
  <2> HIDE DEF T
  <2>. QED
    BY <1>1, Least
<1>3. m \in 0 .. j /\ Total(size, m) = Total(size, j)
  BY <1>2
<1>4. m # 0
  BY <1>3, TotalIs, Bounds
<1>5. m \in 1 .. MaxItems /\ m - 1 \in 0 .. j /\ m - 1 \notin T
  BY <1>2, <1>3, <1>4, Bounds
<1>6. Total(size, m - 1) # Total(size, m)
  BY <1>3, <1>5
<1>7. m - 1 \in 0 .. MaxItems
  BY <1>5, Bounds
<1>8. Total(size, m) = Total(size, m - 1) + Part(size, m) /\ Total(size, m - 1) \in Nat
  BY <1>5, <1>7, TotalIs
<1>9. Part(size, m) # 0
  BY <1>6, <1>8
<1>10. m \in DOMAIN size
  BY <1>9 DEF Part
<1>. QED
  BY <1>3, <1>10

(* Nothing is added behind the last place. *)
LEMMA TotalEnds ==
    ASSUME NEW size, IsSize(size), NEW k \in 0 .. MaxItems, DOMAIN size \subseteq 1 .. k
    PROVE  Total(size, MaxItems) = Total(size, k)
<1>1. /\ Total(size, k) <= Total(size, MaxItems)
      /\ Total(size, k) \in Nat /\ Total(size, MaxItems) \in Nat
  BY TotalGrows, TotalIs, Bounds
<1>2. CASE Total(size, MaxItems) > 0
  <2>1. PICK m \in DOMAIN size : m <= MaxItems /\ Total(size, m) = Total(size, MaxItems)
    BY <1>2, TotalReached, Bounds
  <2>2. m \in 0 .. MaxItems /\ k \in m .. MaxItems
    BY <2>1, Bounds
  <2>3. Total(size, m) <= Total(size, k)
    BY <2>2, TotalGrows
  <2>. QED
    BY <1>1, <2>1, <2>3
<1>. QED
  BY <1>1, <1>2

(* Sums of sizes of one byte each, type and length fit the 16 bits of a      *)
(* payload length. *)
LEMMA TotalFits ==
    ASSUME NEW size, IsSize(size), \A i \in DOMAIN size : size[i] <= 257,
           NEW j \in 0 .. MaxItems
    PROVE  Total(size, j) \in Nat /\ Total(size, j) <= MaxLength
<1> DEFINE f(m) == Total(size, m)
           Bad == {m \in 0 .. MaxItems : f(m) > 257 * m}
<1>1. \A m \in 0 .. MaxItems : f(m) \in Nat
  BY TotalIs
<1>2. /\ f(0) = 0
      /\ \A m \in 1 .. MaxItems : f(m) = f(m - 1) + Part(size, m)
  BY TotalIs
<1>3. \A m \in 1 .. MaxItems : Part(size, m) \in 0 .. 257
  BY DEF Part, IsSize
<1> HIDE DEF f
<1>4. Bad = {}
  <2> SUFFICES ASSUME Bad # {}
               PROVE  FALSE
    OBVIOUS
  <2>1. Bad \subseteq Nat
    BY Bounds
  <2>2. PICK m \in Bad : \A k \in Bad : m <= k
    <3> HIDE DEF Bad
    <3>. QED
      BY <2>1, Least
  <2>3. m \in 0 .. MaxItems /\ f(m) > 257 * m
    BY <2>2
  <2>4. m # 0
    BY <1>2, <2>3
  <2>5. m \in 1 .. MaxItems /\ m - 1 \in 0 .. MaxItems
    BY <2>3, <2>4, Bounds
  <2>6. ~(f(m - 1) > 257 * (m - 1))
    BY <2>2, <2>5
  <2>7. f(m) = f(m - 1) + Part(size, m) /\ Part(size, m) \in 0 .. 257 /\ f(m - 1) \in Nat
    BY <1>1, <1>2, <1>3, <2>5
  <2>. QED
    BY <2>3, <2>5, <2>6, <2>7
<1>5. f(j) \in Nat /\ ~(f(j) > 257 * j)
  BY <1>1, <1>4
<1>6. j \in Nat /\ j <= 255
  BY Bounds
<1>7. f(j) <= MaxLength
  BY <1>5, <1>6 DEF MaxLength
<1>. QED
  BY <1>5, <1>7 DEF f

------------------------------------------------------------------------------
(* What the readers make of what the writers emit *)

TypeAt(kind, i) == Writes[kind][i][1]
FieldAt(kind, i) == Writes[kind][i][2]

LEMMA ConcatIs ==
    ASSUME NEW S, NEW a \in Seq(S), NEW b \in Seq(S)
    PROVE  /\ a \o b \in Seq(S) /\ Len(a \o b) = Len(a) + Len(b)
           /\ \A i \in 1 .. Len(a) + Len(b) : (a \o b)[i] = IF i <= Len(a) THEN a[i] ELSE b[i - Len(a)]
OBVIOUS

LEMMA AnnounceTable ==
    /\ DOMAIN Writes.announce = 1 .. 7
    /\ TypeAt("announce", 1) = "announce_nickname" /\ FieldAt("announce", 1) = "name"
    /\ TypeAt("announce", 2) = "announce_noise_public_key" /\ FieldAt("announce", 2) = "noise_public_key"
    /\ TypeAt("announce", 3) = "announce_signing_public_key" /\ FieldAt("announce", 3) = "signing_public_key"
    /\ TypeAt("announce", 4) = "announce_direct_neighbors" /\ FieldAt("announce", 4) = "direct_neighbors"
    /\ TypeAt("announce", 5) = "message_location_latitude" /\ FieldAt("announce", 5) = "latitude_i"
    /\ TypeAt("announce", 6) = "message_location_longitude" /\ FieldAt("announce", 6) = "longitude_i"
    /\ TypeAt("announce", 7) = "message_location_altitude" /\ FieldAt("announce", 7) = "altitude"
BY DEF Writes, AnnounceWrites, TypeAt, FieldAt

LEMMA PreferencesTable ==
    /\ DOMAIN Writes.preferences = 1 .. 6
    /\ TypeAt("preferences", 1) = "preferences_key" /\ FieldAt("preferences", 1) = "key"
    /\ TypeAt("preferences", 2) = "preferences_ssid" /\ FieldAt("preferences", 2) = "ssid"
    /\ TypeAt("preferences", 3) = "preferences_password" /\ FieldAt("preferences", 3) = "password"
    /\ TypeAt("preferences", 4) = "preferences_latitude" /\ FieldAt("preferences", 4) = "latitude_i"
    /\ TypeAt("preferences", 5) = "preferences_longitude" /\ FieldAt("preferences", 5) = "longitude_i"
    /\ TypeAt("preferences", 6) = "preferences_altitude" /\ FieldAt("preferences", 6) = "altitude"
BY DEF Writes, PreferencesWrites, TypeAt, FieldAt

LEMMA ConcatOfFives ==
    ASSUME NEW a1, NEW a2, NEW a3, NEW a4, NEW a5, NEW b1, NEW b2, NEW b3, NEW b4, NEW b5
    PROVE  LET c == <<a1, a2, a3, a4, a5>> \o <<b1, b2, b3, b4, b5>>
           IN /\ DOMAIN c = 1 .. 10
              /\ c[1] = a1 /\ c[2] = a2 /\ c[3] = a3 /\ c[4] = a4 /\ c[5] = a5
              /\ c[6] = b1 /\ c[7] = b2 /\ c[8] = b3 /\ c[9] = b4 /\ c[10] = b5
<1> DEFINE S == {a1, a2, a3, a4, a5, b1, b2, b3, b4, b5}
           a == <<a1, a2, a3, a4, a5>>
           b == <<b1, b2, b3, b4, b5>>
<1>1. /\ a1 \in S /\ a2 \in S /\ a3 \in S /\ a4 \in S /\ a5 \in S
      /\ b1 \in S /\ b2 \in S /\ b3 \in S /\ b4 \in S /\ b5 \in S
  OBVIOUS
<1> HIDE DEF S
<1>2. a \in Seq(S) /\ b \in Seq(S) /\ Len(a) = 5 /\ Len(b) = 5
  BY <1>1
<1>3. /\ a[1] = a1 /\ a[2] = a2 /\ a[3] = a3 /\ a[4] = a4 /\ a[5] = a5
      /\ b[1] = b1 /\ b[2] = b2 /\ b[3] = b3 /\ b[4] = b4 /\ b[5] = b5
  OBVIOUS
<1> HIDE DEF a, b
<1>4. /\ a \o b \in Seq(S) /\ Len(a \o b) = Len(a) + Len(b)
      /\ \A i \in 1 .. Len(a) + Len(b) : (a \o b)[i] = IF i <= Len(a) THEN a[i] ELSE b[i - Len(a)]
  BY <1>2, ConcatIs
<1>5. /\ a \o b \in Seq(S) /\ Len(a \o b) = 10
      /\ \A i \in 1 .. 10 : (a \o b)[i] = IF i <= 5 THEN a[i] ELSE b[i - 5]
  BY <1>2, <1>4
<1> DEFINE c == a \o b
<1> HIDE DEF c
<1>6. /\ c \in Seq(S) /\ Len(c) = 10
      /\ \A i \in 1 .. 10 : c[i] = IF i <= 5 THEN a[i] ELSE b[i - 5]
  BY <1>5 DEF c
<1>7. DOMAIN c = 1 .. 10
  BY <1>6
<1>8. \A i \in 1 .. 5 : c[i] = a[i]
  BY <1>6
<1>9. \A i \in 1 .. 5 : c[i + 5] = b[i]
  BY <1>6
<1>10. c[1] = a1 /\ c[2] = a2 /\ c[3] = a3 /\ c[4] = a4 /\ c[5] = a5
  BY <1>3, <1>8
<1>11. c[6] = b1 /\ c[7] = b2 /\ c[8] = b3 /\ c[9] = b4 /\ c[10] = b5
  <2>1. /\ c[1 + 5] = b[1] /\ c[2 + 5] = b[2] /\ c[3 + 5] = b[3]
        /\ c[4 + 5] = b[4] /\ c[5 + 5] = b[5]
    BY <1>9
  <2>. QED
    BY <1>3, <2>1
<1>. QED
  BY <1>7, <1>10, <1>11 DEF c, a, b

LEMMA MessageTable ==
    /\ DOMAIN Writes.message = 1 .. 10
    /\ TypeAt("message", 1) = "message_id" /\ FieldAt("message", 1) = "message_id"
    /\ TypeAt("message", 2) = "message_sender_nickname" /\ FieldAt("message", 2) = "sender_nickname"
    /\ TypeAt("message", 3) = "message_channel" /\ FieldAt("message", 3) = "channel"
    /\ TypeAt("message", 4) = "message_channel_content" /\ FieldAt("message", 4) = "content"
    /\ TypeAt("message", 5) = "message_content" /\ FieldAt("message", 5) = "content"
    /\ TypeAt("message", 6) = "message_flags" /\ FieldAt("message", 6) = "message_flags"
    /\ TypeAt("message", 7) = "message_reply_to_id" /\ FieldAt("message", 7) = "reply_id"
    /\ TypeAt("message", 8) = "message_location_latitude" /\ FieldAt("message", 8) = "latitude_i"
    /\ TypeAt("message", 9) = "message_location_longitude" /\ FieldAt("message", 9) = "longitude_i"
    /\ TypeAt("message", 10) = "message_location_altitude" /\ FieldAt("message", 10) = "altitude"
BY ConcatOfFives
   DEF Writes, TypeAt, FieldAt, MessageWrites, MessageIdentityWrites, MessageOptionWrites

Kinds == {"announce", "message", "preferences"}

(* The names a reader knows. *)
LEMMA ReadsAre ==
    /\ DOMAIN Reads.announce = {
         "announce_nickname", "announce_noise_public_key", "announce_signing_public_key",
         "announce_direct_neighbors", "announce_location_latitude",
         "announce_location_longitude", "announce_location_altitude"}
    /\ DOMAIN Reads.message = {
         "message_id", "message_sender_nickname", "message_channel", "message_channel_content",
         "message_content", "message_flags", "message_reply_to_id",
         "message_location_latitude", "message_location_longitude", "message_location_altitude"}
    /\ DOMAIN Reads.preferences = {
         "preferences_key", "preferences_ssid", "preferences_password",
         "preferences_latitude", "preferences_longitude", "preferences_altitude"}
BY DEF Reads, AnnounceReads, MessageReads, PreferencesReads

(* Every writer starts with the place of what identifies a packet, and a    *)
(* reader that knows the type of a place reads the field it was written     *)
(* from.                                                                    *)
LEMMA Tables ==
    ASSUME NEW kind \in Kinds
    PROVE  /\ DOMAIN Writes[kind] \subseteq 1 .. 10 /\ 1 \in DOMAIN Writes[kind]
           /\ \A i \in DOMAIN Writes[kind] :
                TypeAt(kind, i) \in DOMAIN Reads[kind]
                    => Reads[kind][TypeAt(kind, i)] = FieldAt(kind, i)
<1>1. CASE kind = "announce"
  <2>1. /\ Reads.announce.announce_nickname = "name"
        /\ Reads.announce.announce_noise_public_key = "noise_public_key"
        /\ Reads.announce.announce_signing_public_key = "signing_public_key"
        /\ Reads.announce.announce_direct_neighbors = "direct_neighbors"
    BY DEF Reads, AnnounceReads
  <2>2. \A i \in 1 .. 7 : i = 1 \/ i = 2 \/ i = 3 \/ i = 4 \/ i = 5 \/ i = 6 \/ i = 7
    OBVIOUS
  <2>. QED
    BY <1>1, <2>1, <2>2, AnnounceTable, ReadsAre
<1>2. CASE kind = "message"
  <2>1. /\ Reads.message.message_id = "message_id"
        /\ Reads.message.message_sender_nickname = "sender_nickname"
        /\ Reads.message.message_channel = "channel"
        /\ Reads.message.message_channel_content = "content"
        /\ Reads.message.message_content = "content"
        /\ Reads.message.message_flags = "message_flags"
        /\ Reads.message.message_reply_to_id = "reply_id"
        /\ Reads.message.message_location_latitude = "latitude_i"
        /\ Reads.message.message_location_longitude = "longitude_i"
        /\ Reads.message.message_location_altitude = "altitude"
    BY DEF Reads, MessageReads
  <2>2. \A i \in 1 .. 10 : i = 1 \/ i = 2 \/ i = 3 \/ i = 4 \/ i = 5 \/ i = 6 \/ i = 7
                          \/ i = 8 \/ i = 9 \/ i = 10
    OBVIOUS
  <2>. QED
    BY <1>2, <2>1, <2>2, MessageTable, ReadsAre
<1>3. CASE kind = "preferences"
  <2>1. /\ Reads.preferences.preferences_key = "key"
        /\ Reads.preferences.preferences_ssid = "ssid"
        /\ Reads.preferences.preferences_password = "password"
        /\ Reads.preferences.preferences_latitude = "latitude_i"
        /\ Reads.preferences.preferences_longitude = "longitude_i"
        /\ Reads.preferences.preferences_altitude = "altitude"
    BY DEF Reads, PreferencesReads
  <2>2. \A i \in 1 .. 6 : i = 1 \/ i = 2 \/ i = 3 \/ i = 4 \/ i = 5 \/ i = 6
    OBVIOUS
  <2>. QED
    BY <1>3, <2>1, <2>2, PreferencesTable, ReadsAre
<1>. QED
  BY <1>1, <1>2, <1>3 DEF Kinds

(* Nothing written in a message or in preferences is unknown to the reader, *)
(* and there is a place for each of their fields. *)
LEMMA TablesComplete ==
    ASSUME NEW kind \in {"message", "preferences"}
    PROVE  /\ \A i \in DOMAIN Writes[kind] : TypeAt(kind, i) \in DOMAIN Reads[kind]
           /\ \A f \in Fields[kind] : \E i \in DOMAIN Writes[kind] : FieldAt(kind, i) = f
<1>1. CASE kind = "message"
  <2>1. \A i \in 1 .. 10 : i = 1 \/ i = 2 \/ i = 3 \/ i = 4 \/ i = 5 \/ i = 6 \/ i = 7
                          \/ i = 8 \/ i = 9 \/ i = 10
    OBVIOUS
  <2>2. Fields.message = {"message_id", "sender_nickname", "channel", "content", "message_flags",
                          "reply_id", "latitude_i", "longitude_i", "altitude"}
    BY DEF Fields, Reads, MessageReads
  <2>. QED
    BY <1>1, <2>1, <2>2, MessageTable, ReadsAre
<1>2. CASE kind = "preferences"
  <2>1. \A i \in 1 .. 6 : i = 1 \/ i = 2 \/ i = 3 \/ i = 4 \/ i = 5 \/ i = 6
    OBVIOUS
  <2>2. Fields.preferences = {"key", "ssid", "password", "latitude_i", "longitude_i", "altitude"}
    BY DEF Fields, Reads, PreferencesReads
  <2>. QED
    BY <1>2, <2>1, <2>2, PreferencesTable, ReadsAre
<1>. QED
  BY <1>1, <1>2

(* The two places for the content of a message exclude each other.          *)
LEMMA OnePlace ==
    ASSUME NEW kind \in Kinds, NEW fields, NEW i \in DOMAIN Writes[kind], NEW j \in DOMAIN Writes[kind],
           Counts(fields, TypeAt(kind, i), FieldAt(kind, i)),
           Counts(fields, TypeAt(kind, j), FieldAt(kind, j)),
           FieldAt(kind, i) = FieldAt(kind, j)
    PROVE  i = j
<1>1. CASE kind = "announce"
  <2>1. \A k \in 1 .. 7 : k = 1 \/ k = 2 \/ k = 3 \/ k = 4 \/ k = 5 \/ k = 6 \/ k = 7
    OBVIOUS
  <2>. QED
    BY <1>1, <2>1, AnnounceTable
<1>2. CASE kind = "message"
  <2>1. \A k \in 1 .. 10 : k = 1 \/ k = 2 \/ k = 3 \/ k = 4 \/ k = 5 \/ k = 6 \/ k = 7
                          \/ k = 8 \/ k = 9 \/ k = 10
    OBVIOUS
  <2>2. ~(i = 4 /\ j = 5) /\ ~(i = 5 /\ j = 4)
    BY <1>2, MessageTable DEF Counts
  <2>. QED
    BY <1>2, <2>1, <2>2, MessageTable
<1>3. CASE kind = "preferences"
  <2>1. \A k \in 1 .. 6 : k = 1 \/ k = 2 \/ k = 3 \/ k = 4 \/ k = 5 \/ k = 6
    OBVIOUS
  <2>. QED
    BY <1>3, <2>1, PreferencesTable
<1>. QED
  BY <1>1, <1>2, <1>3 DEF Kinds

------------------------------------------------------------------------------
(* What a reader makes of a packet *)

HasItems(w) == /\ DOMAIN w.items \subseteq 1 .. MaxItems
               /\ \A i \in DOMAIN w.items : w.items[i].value \in DOMAIN Bytes
Sizes(w) == [i \in DOMAIN w.items |-> Size(w.items[i].value)]

(* Fields of a kind, and fields that are as wide as their C++ type. *)
Typed(kind, fields) == /\ DOMAIN fields \subseteq Fields[kind]
                       /\ \A f \in DOMAIN fields : fields[f] \in DOMAIN Bytes
Fits(fields) == \A f \in DOMAIN fields \cap DOMAIN FixedWidth : Bytes[fields[f]] = FixedWidth[f]

LEMMA SizesAre ==
    ASSUME NEW w, HasItems(w)
    PROVE  /\ IsSize(Sizes(w)) /\ DOMAIN Sizes(w) = DOMAIN w.items
           /\ \A i \in DOMAIN Sizes(w) : Sizes(w)[i] <= 257
           /\ \A j : Consumed(w, j) = Total(Sizes(w), j)
           /\ \A j \in 0 .. MaxItems : Consumed(w, j) \in Nat
<1>1. DOMAIN Sizes(w) = DOMAIN w.items
  BY DEF Sizes
<1>2. \A i \in DOMAIN w.items : Sizes(w)[i] \in Nat \ {0} /\ Sizes(w)[i] <= 257
  <2> SUFFICES ASSUME NEW i \in DOMAIN w.items
               PROVE  Sizes(w)[i] \in Nat \ {0} /\ Sizes(w)[i] <= 257
    OBVIOUS
  <2>1. Bytes[w.items[i].value] \in 1 .. 255
    BY BytesAssumption DEF HasItems
  <2>. QED
    BY <2>1 DEF Sizes, Size
<1>3. IsSize(Sizes(w))
  BY <1>1, <1>2 DEF IsSize, HasItems
<1>4. \A j : Consumed(w, j) = Total(Sizes(w), j)
  BY DEF Consumed, Sizes
<1>. QED
  BY <1>1, <1>2, <1>3, <1>4, TotalIs

(* Where the loop of a reader ends. *)
LEMMA ReadToIs ==
    ASSUME NEW w, HasItems(w), NEW tail
    PROVE  \/ ReadTo(w, tail) = 0 /\ \A i \in DOMAIN w.items : ~LastItem(w, tail, i)
           \/ /\ ReadTo(w, tail) \in DOMAIN w.items /\ LastItem(w, tail, ReadTo(w, tail))
              /\ \A i \in DOMAIN w.items : LastItem(w, tail, i) => ReadTo(w, tail) <= i
<1> DEFINE last == {i \in DOMAIN w.items : LastItem(w, tail, i)}
<1>1. last \subseteq Nat
  BY DEF HasItems
<1>2. ReadTo(w, tail) = IF last = {} THEN 0 ELSE Min(last)
  BY DEF ReadTo
<1>3. last # {} => Min(last) \in last /\ \A i \in last : Min(last) <= i
  <2> HIDE DEF last
  <2>. QED
    BY <1>1, Least
<1>. QED
  BY <1>2, <1>3

(* A packet that claims what its items take is read whole, unless an item   *)
(* has the wrong width. *)
LEMMA ReadWhole ==
    ASSUME NEW w, HasItems(w), NEW tail \in Nat,
           w.claimed = Consumed(w, MaxItems), w.claimed > 0, w.claimed <= tail
    PROVE  /\ ReadTo(w, tail) \in DOMAIN w.items /\ ReadTo(w, tail) # 0
           /\ ~WrongWidth(w, ReadTo(w, tail))
                => \A i \in DOMAIN w.items : i <= ReadTo(w, tail) /\ ~WrongWidth(w, i)
<1> DEFINE n == ReadTo(w, tail)
           size == Sizes(w)
<1>0. DOMAIN w.items \subseteq 1 .. MaxItems /\ MaxItems \in Nat
  BY Bounds DEF HasItems
<1>1. /\ IsSize(size) /\ DOMAIN size = DOMAIN w.items
      /\ \A j : Consumed(w, j) = Total(size, j)
      /\ \A j \in 0 .. MaxItems : Consumed(w, j) \in Nat
  BY SizesAre
<1>2. MaxItems \in 0 .. MaxItems /\ Consumed(w, MaxItems) \in Nat
  BY <1>0, <1>1
<1> HIDE DEF size
<1>3. PICK k \in DOMAIN w.items : Consumed(w, k) = Consumed(w, MaxItems)
  BY <1>1, <1>2, TotalReached
<1>4. LastItem(w, tail, k)
  BY <1>2, <1>3 DEF LastItem
<1>5. n \in DOMAIN w.items /\ LastItem(w, tail, n)
      /\ \A i \in DOMAIN w.items : LastItem(w, tail, i) => n <= i
  BY <1>4, ReadToIs
<1> HIDE DEF n
<1>6. n \in 1 .. MaxItems /\ n # 0
  BY <1>0, <1>5
<1>7. ASSUME ~WrongWidth(w, n), NEW i \in DOMAIN w.items
      PROVE  i <= n /\ ~WrongWidth(w, i)
  <2>1. Consumed(w, n) >= w.claimed
    BY <1>2, <1>5, <1>7 DEF LastItem
  <2>2. i <= n
    <3>1. SUFFICES ASSUME n < i
                   PROVE  FALSE
      BY <1>0, <1>6
    <3>2. n \in 0 .. MaxItems /\ MaxItems \in n .. MaxItems /\ i \in 1 .. MaxItems
      BY <1>0, <1>6
    <3>3. Total(size, n) + size[i] <= Total(size, MaxItems)
      BY <1>1, <3>1, <3>2, TotalGrows
    <3>4. size[i] \in Nat \ {0} /\ Total(size, n) \in Nat /\ Total(size, MaxItems) \in Nat
      BY <1>1, <3>2, <1>2 DEF IsSize
    <3>. QED
      BY <1>1, <2>1, <3>3, <3>4
  <2>3. WrongWidth(w, i) => n <= i
    BY <1>5 DEF LastItem
  <2>4. WrongWidth(w, i) => i = n
    BY <1>0, <1>6, <2>2, <2>3
  <2>. QED
    BY <1>7, <2>2, <2>4
<1>. QED
  BY <1>5, <1>6, <1>7 DEF n

(* Each field read is the value of an item, and each item that can be read  *)
(* is there as a field. *)
LEMMA FieldsReadAre ==
    ASSUME NEW w, NEW n
    PROVE  /\ \A f \in DOMAIN FieldsRead(w, n) :
                \E i \in DOMAIN w.items :
                    /\ i <= n /\ Known(w, i) /\ ~WrongWidth(w, i) /\ FieldOf(w, i) = f
                    /\ FieldsRead(w, n)[f] = w.items[i].value
           /\ \A i \in DOMAIN w.items :
                i <= n /\ Known(w, i) /\ ~WrongWidth(w, i) => FieldOf(w, i) \in DOMAIN FieldsRead(w, n)
<1> DEFINE known == {i \in DOMAIN w.items : i <= n /\ Known(w, i) /\ ~WrongWidth(w, i)}
           names == {FieldOf(w, i) : i \in known}
           from(f) == CHOOSE i \in known : FieldOf(w, i) = f
<1>1. FieldsRead(w, n) = [f \in names |-> w.items[from(f)].value]
  BY DEF FieldsRead
<1>2. \A f \in names : from(f) \in known /\ FieldOf(w, from(f)) = f
  OBVIOUS
<1>3. DOMAIN FieldsRead(w, n) = names
  BY <1>1
<1>4. \A f \in names : FieldsRead(w, n)[f] = w.items[from(f)].value
  BY <1>1
<1> HIDE DEF from
<1>. QED
  BY <1>2, <1>3, <1>4

LEMMA ReadTyped ==
    ASSUME NEW w, HasItems(w), w.kind \in Kinds, NEW n
    PROVE  Typed(w.kind, FieldsRead(w, n)) /\ Fits(FieldsRead(w, n))
<1>1. ASSUME NEW f \in DOMAIN FieldsRead(w, n)
      PROVE  /\ f \in Fields[w.kind] /\ FieldsRead(w, n)[f] \in DOMAIN Bytes
             /\ f \in DOMAIN FixedWidth => Bytes[FieldsRead(w, n)[f]] = FixedWidth[f]
  <2>1. PICK i \in DOMAIN w.items :
          /\ Known(w, i) /\ ~WrongWidth(w, i) /\ FieldOf(w, i) = f
          /\ FieldsRead(w, n)[f] = w.items[i].value
    BY FieldsReadAre
  <2>2. f \in Fields[w.kind]
    BY <2>1 DEF Known, FieldOf, Fields, Kinds
  <2>3. w.items[i].value \in DOMAIN Bytes
    BY DEF HasItems
  <2>4. f \in DOMAIN FixedWidth => Bytes[w.items[i].value] = FixedWidth[f]
    BY <2>1 DEF WrongWidth
  <2>. QED
    BY <2>1, <2>2, <2>3, <2>4
<1>. QED
  BY <1>1 DEF Typed, Fits

LEMMA ReadSame ==
    ASSUME NEW w, HasItems(w), NEW n \in Nat, \A i \in DOMAIN w.items : i <= n
    PROVE  FieldsRead(w, n) = FieldsRead(w, MaxItems)
<1>1. \A i \in DOMAIN w.items : i <= MaxItems
  BY Bounds DEF HasItems
<1> DEFINE known(m) == {i \in DOMAIN w.items : i <= m /\ Known(w, i) /\ ~WrongWidth(w, i)}
           read(K) == [f \in {FieldOf(w, i) : i \in K} |->
                         w.items[CHOOSE i \in K : FieldOf(w, i) = f].value]
<1>2. known(n) = known(MaxItems)
  BY <1>1
<1>3. FieldsRead(w, n) = read(known(n)) /\ FieldsRead(w, MaxItems) = read(known(MaxItems))
  BY DEF FieldsRead
<1> HIDE DEF known, read
<1>. QED
  BY <1>2, <1>3

(* A whole packet that is not malformed is read to its end. *)
LEMMA DecodeWhole ==
    ASSUME NEW w, HasItems(w), w.claimed = Consumed(w, MaxItems), w.claimed > 0, ~Malformed(w)
    PROVE  Decode(w).fields = FieldsRead(w, MaxItems)
<1> DEFINE n == ReadTo(w, Remainder(w))
<1>1. Consumed(w, MaxItems) \in Nat
  BY SizesAre, Bounds
<1>2. Remainder(w) \in Nat /\ w.claimed <= Remainder(w)
  BY <1>1 DEF Remainder
<1>3. n \in DOMAIN w.items /\ n # 0 /\ \A i \in DOMAIN w.items : i <= n
  BY <1>2, ReadWhole DEF Malformed
<1>4. n \in Nat
  BY <1>3 DEF HasItems
<1>5. Decode(w).fields = FieldsRead(w, n)
  BY <1>3 DEF Decode
<1> HIDE DEF n
<1>. QED
  BY <1>3, <1>4, <1>5, ReadSame

------------------------------------------------------------------------------
(* What a reader makes of what a writer wrote *)

LEMMA ItemsAre ==
    ASSUME NEW kind \in Kinds, NEW fields, Typed(kind, fields),
           NEW w, w.kind = kind, w.items = Items(kind, fields)
    PROVE  /\ HasItems(w)
           /\ \A i : i \in DOMAIN w.items <=>
                /\ i \in DOMAIN Writes[kind]
                /\ Emits(fields, TypeAt(kind, i), FieldAt(kind, i))
           /\ \A i \in DOMAIN w.items :
                /\ FieldAt(kind, i) \in DOMAIN fields
                /\ w.items[i].type = TypeAt(kind, i)
                /\ w.items[i].value = fields[FieldAt(kind, i)]
                /\ Known(w, i) => FieldOf(w, i) = FieldAt(kind, i)
<1> DEFINE emitted == {i \in DOMAIN Writes[kind] : Emits(fields, TypeAt(kind, i), FieldAt(kind, i))}
<1>1. w.items = [i \in emitted |-> [type |-> TypeAt(kind, i), value |-> fields[FieldAt(kind, i)]]]
  BY DEF Items, TypeAt, FieldAt
<1>2. DOMAIN w.items = emitted
  BY <1>1
<1>3. \A i \in emitted : FieldAt(kind, i) \in DOMAIN fields
  BY DEF Emits, Counts
<1>4. \A i \in emitted : w.items[i].type = TypeAt(kind, i) /\ w.items[i].value = fields[FieldAt(kind, i)]
  BY <1>1
<1>5. \A i \in emitted : Known(w, i) => FieldOf(w, i) = FieldAt(kind, i)
  BY <1>4, Tables DEF Known, FieldOf
<1>6. emitted \subseteq 1 .. MaxItems
  <2>1. emitted \subseteq 1 .. 10
    BY Tables
  <2> HIDE DEF emitted
  <2>. QED
    BY <2>1, Bounds
<1>7. HasItems(w)
  BY <1>2, <1>3, <1>4, <1>6 DEF HasItems, Typed
<1>. QED
  BY <1>2, <1>3, <1>4, <1>5, <1>7

(* What is read at any place of a packet just written is a field of the     *)
(* object, and none of its items is wrong if the fields fit. *)
LEMMA WrittenAgrees ==
    ASSUME NEW kind \in Kinds, NEW fields, Typed(kind, fields),
           NEW w, w.kind = kind, w.items = Items(kind, fields)
    PROVE  /\ \A i \in DOMAIN w.items : Known(w, i) =>
                 /\ FieldOf(w, i) \in DOMAIN fields
                 /\ fields[FieldOf(w, i)] = w.items[i].value
           /\ Fits(fields) => \A i \in DOMAIN w.items : ~WrongWidth(w, i)
<1>1. \A i \in DOMAIN w.items : Known(w, i) =>
        FieldOf(w, i) \in DOMAIN fields /\ fields[FieldOf(w, i)] = w.items[i].value
  BY ItemsAre
<1>. QED
  BY <1>1 DEF WrongWidth, Fits

(* Nothing is lost but a channel without content. *)
LEMMA RoundTrip ==
    ASSUME NEW kind \in {"message", "preferences"}, NEW fields, Typed(kind, fields), Fits(fields),
           "channel" \in DOMAIN fields => "content" \in DOMAIN fields,
           fields = [f \in DOMAIN fields |-> fields[f]],
           NEW w, w.kind = kind, w.items = Items(kind, fields)
    PROVE  FieldsRead(w, MaxItems) = fields
<1> DEFINE read == FieldsRead(w, MaxItems)
<1>0. kind \in Kinds
  BY DEF Kinds
<1>1. /\ HasItems(w) /\ \A i \in DOMAIN w.items : i <= MaxItems /\ ~WrongWidth(w, i)
      /\ \A i \in DOMAIN w.items : Known(w, i) =>
           FieldOf(w, i) \in DOMAIN fields /\ fields[FieldOf(w, i)] = w.items[i].value
  BY <1>0, ItemsAre, WrittenAgrees, Bounds DEF HasItems
<1>2. \A f \in DOMAIN read : f \in DOMAIN fields /\ read[f] = fields[f]
  BY <1>1, FieldsReadAre
<1>3. ASSUME NEW f \in DOMAIN fields
      PROVE  f \in DOMAIN read
  <2>1. PICK i \in DOMAIN Writes[kind] :
          FieldAt(kind, i) = f /\ Emits(fields, TypeAt(kind, i), FieldAt(kind, i))
    <3>1. f \in Fields[kind]
      BY DEF Typed
    <3>2. PICK i \in DOMAIN Writes[kind] : FieldAt(kind, i) = f
      BY <3>1, TablesComplete
    <3>3. CASE kind = "preferences"
      <4>1. \A k \in 1 .. 6 : k = 1 \/ k = 2 \/ k = 3 \/ k = 4 \/ k = 5 \/ k = 6
        OBVIOUS
      <4>. QED
        BY <3>2, <3>3, <4>1, PreferencesTable DEF Emits, Counts
    <3>4. CASE kind = "message" /\ f # "content"
      <4>1. \A k \in 1 .. 10 : k = 1 \/ k = 2 \/ k = 3 \/ k = 4 \/ k = 5 \/ k = 6 \/ k = 7
                              \/ k = 8 \/ k = 9 \/ k = 10
        OBVIOUS
      <4>. QED
        BY <3>2, <3>4, <4>1, MessageTable DEF Emits, Counts
    <3>5. CASE kind = "message" /\ f = "content" /\ "channel" \in DOMAIN fields
      BY <3>5, MessageTable DEF Emits, Counts
    <3>6. CASE kind = "message" /\ f = "content" /\ "channel" \notin DOMAIN fields
      BY <3>6, MessageTable DEF Emits, Counts
    <3>. QED
      BY <3>3, <3>4, <3>5, <3>6
  <2>2. i \in DOMAIN w.items /\ w.items[i].type = TypeAt(kind, i)
    BY <1>0, <2>1, ItemsAre
  <2>3. Known(w, i)
    BY <2>2, TablesComplete DEF Known
  <2>4. FieldOf(w, i) = f
    BY <1>0, <2>1, <2>2, <2>3, ItemsAre
  <2>. QED
    BY <1>1, <2>2, <2>3, <2>4, FieldsReadAre
<1>4. read = [f \in DOMAIN read |-> read[f]]
  BY DEF FieldsRead
<1> HIDE DEF read
<1>5. DOMAIN read = DOMAIN fields
  BY <1>2, <1>3
<1>6. read = fields
  BY <1>2, <1>4, <1>5
<1>. QED
  BY <1>6 DEF read

(* The length of an object that remembers none is that of the items written *)
(* when nothing is counted that is not written. *)
LEMMA LengthOfItems ==
    ASSUME NEW kind \in Kinds, NEW fields, Typed(kind, fields),
           "channel" \in DOMAIN fields => "content" \in DOMAIN fields,
           NEW w, w.kind = kind, w.items = Items(kind, fields)
    PROVE  Consumed(w, MaxItems) = FieldsLength(kind, fields)
<1> DEFINE counted == {i \in DOMAIN Writes[kind] : Counts(fields, TypeAt(kind, i), FieldAt(kind, i))}
           size == [i \in counted |-> Size(fields[FieldAt(kind, i)])]
<1>1. FieldsLength(kind, fields) = Total(size, MaxItems)
  BY DEF FieldsLength, TypeAt, FieldAt
<1>2. \A i \in DOMAIN Writes[kind] :
        Counts(fields, TypeAt(kind, i), FieldAt(kind, i)) <=> Emits(fields, TypeAt(kind, i), FieldAt(kind, i))
  <2> SUFFICES ASSUME NEW i \in DOMAIN Writes[kind],
                      Counts(fields, TypeAt(kind, i), FieldAt(kind, i)), TypeAt(kind, i) = "message_channel"
               PROVE  FieldAt(kind, i) = "channel"
    BY DEF Counts, Emits
  <2>1. \A k \in 1 .. 10 : k = 1 \/ k = 2 \/ k = 3 \/ k = 4 \/ k = 5 \/ k = 6 \/ k = 7
                          \/ k = 8 \/ k = 9 \/ k = 10
    OBVIOUS
  <2>2. CASE kind = "message"
    BY <2>1, <2>2, MessageTable
  <2>3. CASE kind = "announce"
    <3>1. \A k \in 1 .. 7 : k = 1 \/ k = 2 \/ k = 3 \/ k = 4 \/ k = 5 \/ k = 6 \/ k = 7
      OBVIOUS
    <3>. QED
      BY <3>1, <2>3, AnnounceTable
  <2>4. CASE kind = "preferences"
    <3>1. \A k \in 1 .. 6 : k = 1 \/ k = 2 \/ k = 3 \/ k = 4 \/ k = 5 \/ k = 6
      OBVIOUS
    <3>. QED
      BY <3>1, <2>4, PreferencesTable
  <2>. QED
    BY <2>2, <2>3, <2>4 DEF Kinds
<1>3. DOMAIN w.items = counted
  BY <1>2, ItemsAre
<1>4. \A i \in counted : w.items[i].value = fields[FieldAt(kind, i)]
  BY <1>3, ItemsAre
<1>5. Sizes(w) = size
  <2> HIDE DEF counted
  <2>. QED
    BY <1>3, <1>4 DEF Sizes
<1>6. HasItems(w)
  BY ItemsAre
<1>7. Consumed(w, MaxItems) = Total(Sizes(w), MaxItems)
  BY <1>6, SizesAre
<1> HIDE DEF size
<1>. QED
  BY <1>1, <1>5, <1>7

------------------------------------------------------------------------------
(* Objects and packets *)

IsFun(f) == f = [x \in DOMAIN f |-> f[x]]

LEMMA Lengths == MaxLength \in Nat
BY DEF MaxLength

LEMMA ObjectIs ==
    ASSUME NEW o
    PROVE  Object(o) <=> /\ o.kind \in Kinds /\ o.ttl \in 0 .. 255
                         /\ o.to \in {"me", "other", "nobody"}
                         /\ o.length \in Nat /\ o.length <= MaxLength
                         /\ Typed(o.kind, o.fields)
<1>1. DOMAIN Fields = Kinds
  BY DEF Fields, Kinds
<1>2. o.length \in 0 .. MaxLength <=> o.length \in Nat /\ o.length <= MaxLength
  BY Lengths
<1>. QED
  BY <1>1, <1>2, Zenon DEF Object, Typed

(* The length of an object that remembers none fits its 16 bits, and is not *)
(* zero if there is something to write. *)
LEMMA LengthFits ==
    ASSUME NEW kind \in Kinds, NEW fields, Typed(kind, fields)
    PROVE  /\ FieldsLength(kind, fields) \in Nat /\ FieldsLength(kind, fields) <= MaxLength
           /\ \A i \in DOMAIN Writes[kind] :
                Counts(fields, TypeAt(kind, i), FieldAt(kind, i)) => FieldsLength(kind, fields) > 0
<1> DEFINE counted == {i \in DOMAIN Writes[kind] : Counts(fields, TypeAt(kind, i), FieldAt(kind, i))}
           size == [i \in counted |-> Size(fields[FieldAt(kind, i)])]
<1>1. FieldsLength(kind, fields) = Total(size, MaxItems)
  BY DEF FieldsLength, TypeAt, FieldAt
<1>2. counted \subseteq 1 .. MaxItems
  <2>1. counted \subseteq 1 .. 10
    BY Tables
  <2> HIDE DEF counted
  <2>. QED
    BY <2>1, Bounds
<1>3. ASSUME NEW i \in counted
      PROVE  size[i] \in Nat \ {0} /\ size[i] <= 257
  <2>1. FieldAt(kind, i) \in DOMAIN fields
    BY DEF Counts
  <2>2. Bytes[fields[FieldAt(kind, i)]] \in 1 .. 255
    BY <2>1, BytesAssumption DEF Typed
  <2>3. size[i] = 2 + Bytes[fields[FieldAt(kind, i)]]
    BY DEF Size
  <2> HIDE DEF size
  <2>. QED
    BY <2>2, <2>3
<1>4. DOMAIN size = counted
  OBVIOUS
<1>5. \A i \in DOMAIN Writes[kind] : Counts(fields, TypeAt(kind, i), FieldAt(kind, i)) => i \in counted
  OBVIOUS
<1> HIDE DEF size, counted
<1>6. IsSize(size) /\ \A i \in DOMAIN size : size[i] <= 257
  BY <1>2, <1>3, <1>4 DEF IsSize
<1>7. MaxItems \in 0 .. MaxItems /\ 0 \in 0 .. MaxItems
  BY Bounds
<1>8. Total(size, MaxItems) \in Nat /\ Total(size, MaxItems) <= MaxLength
  BY <1>6, <1>7, TotalFits
<1>9. ASSUME NEW i \in counted
      PROVE  Total(size, MaxItems) > 0
  <2>1. MaxItems \in 0 .. MaxItems /\ i \in 1 .. MaxItems /\ 0 < i /\ i <= MaxItems
    BY <1>2, Bounds
  <2>2. Total(size, 0) + size[i] <= Total(size, MaxItems)
    BY <1>4, <1>6, <1>7, <2>1, TotalGrows
  <2>3. Total(size, 0) = 0 /\ size[i] \in Nat \ {0}
    BY <1>3, <1>6, TotalIs
  <2>. QED
    BY <1>8, <2>2, <2>3
<1>. QED
  BY <1>1, <1>5, <1>8, <1>9

(* The constructor that takes a reader makes an object out of any packet. *)
LEMMA DecodeTyped ==
    ASSUME NEW w, IsPacket(w), w.kind \in Kinds
    PROVE  /\ HasItems(w) /\ Object(Decode(w)) /\ Decode(w).kind = w.kind
           /\ Decode(w).length = w.claimed /\ Decode(w).to = w.to
           /\ w.claimed \in Nat /\ w.claimed > 0 /\ w.claimed <= MaxLength
           /\ Fits(Decode(w).fields) /\ IsFun(Decode(w).fields)
<1> DEFINE n == ReadTo(w, Remainder(w))
           m == IF n = 0 THEN MaxItems ELSE n
<1>1. /\ Decode(w).kind = w.kind /\ Decode(w).ttl = w.ttl /\ Decode(w).to = w.to
      /\ Decode(w).length = w.claimed /\ Decode(w).fields = FieldsRead(w, m)
  BY DEF Decode
<1>2. HasItems(w)
  BY DEF IsPacket, HasItems
<1>3. w.claimed \in Nat /\ w.claimed > 0 /\ w.claimed <= MaxLength
  <2>1. w.claimed \in 1 .. MaxLength
    BY Zenon DEF IsPacket
  <2>. QED
    BY <2>1, Lengths
<1>4. w.ttl \in 0 .. 255 /\ w.to \in {"me", "other", "nobody"}
  BY Zenon DEF IsPacket
<1> HIDE DEF m
<1>5. Typed(w.kind, FieldsRead(w, m)) /\ Fits(FieldsRead(w, m))
  BY <1>2, ReadTyped
<1>6. IsFun(FieldsRead(w, m))
  BY DEF FieldsRead, IsFun
<1>7. Object(Decode(w))
  BY <1>1, <1>3, <1>4, <1>5, ObjectIs
<1>. QED
  BY <1>1, <1>2, <1>3, <1>5, <1>6, <1>7

(* An object that has something to write makes a packet. *)
LEMMA EncodeTyped ==
    ASSUME NEW o, Object(o),
           o.length = 0 => \E i \in DOMAIN Writes[o.kind] :
                             Counts(o.fields, TypeAt(o.kind, i), FieldAt(o.kind, i))
    PROVE  /\ IsPacket(Encode(o)) /\ Encode(o).kind = o.kind /\ Encode(o).items = Items(o.kind, o.fields)
           /\ Encode(o).claimed = PayloadLength(o) /\ Encode(o).ttl = o.ttl /\ Encode(o).to = o.to
           /\ PayloadLength(o) \in Nat /\ PayloadLength(o) > 0 /\ PayloadLength(o) <= MaxLength
<1>1. /\ Encode(o).kind = o.kind /\ Encode(o).items = Items(o.kind, o.fields)
      /\ Encode(o).claimed = PayloadLength(o) /\ Encode(o).ttl = o.ttl /\ Encode(o).to = o.to
  BY DEF Encode
<1>2. /\ o.kind \in Kinds /\ o.ttl \in 0 .. 255 /\ o.to \in {"me", "other", "nobody"}
      /\ o.length \in Nat /\ o.length <= MaxLength /\ Typed(o.kind, o.fields)
  BY ObjectIs
<1>3. PayloadLength(o) \in Nat /\ PayloadLength(o) > 0 /\ PayloadLength(o) <= MaxLength
  <2>1. CASE o.length > 0
    BY <1>2, <2>1 DEF PayloadLength
  <2>2. CASE o.length = 0
    <3>1. PayloadLength(o) = FieldsLength(o.kind, o.fields)
      BY <2>2 DEF PayloadLength
    <3>. QED
      BY <1>2, <2>2, <3>1, LengthFits
  <2>. QED
    BY <1>2, <2>1, <2>2
<1>4. PayloadLength(o) \in 1 .. MaxLength
  BY <1>3, Lengths
<1>5. HasItems(Encode(o))
  BY <1>1, <1>2, ItemsAre
<1>6. /\ Encode(o).ttl \in 0 .. 255 /\ Encode(o).to \in {"me", "other", "nobody"}
      /\ Encode(o).claimed \in 1 .. MaxLength
  BY <1>1, <1>2, <1>4
<1>7. IsPacket(Encode(o))
  BY <1>5, <1>6, Zenon DEF IsPacket, HasItems
<1>. QED
  BY <1>1, <1>3, <1>7

(* What identifies a packet is written first and has no width to get wrong. *)
LEMMA IdentityFirst ==
    ASSUME NEW kind \in {"announce", "message"}, NEW fields, Typed(kind, fields),
           NEW f \in {"message_id", "name"}, f \in DOMAIN fields,
           NEW w, w.kind = kind, w.items = Items(kind, fields)
    PROVE  /\ 1 \in DOMAIN w.items /\ Known(w, 1) /\ FieldOf(w, 1) = f
           /\ Counts(fields, TypeAt(kind, 1), FieldAt(kind, 1))
<1>1. kind \in Kinds /\ f \in Fields[kind]
  BY DEF Kinds, Typed
<1>2. CASE kind = "announce"
  <2>1. Fields.announce = {"name", "noise_public_key", "signing_public_key", "direct_neighbors",
                           "latitude_i", "longitude_i", "altitude"}
    BY DEF Fields, Reads, AnnounceReads
  <2>2. f = "name" /\ 1 \in DOMAIN Writes[kind] /\ TypeAt(kind, 1) = "announce_nickname"
        /\ FieldAt(kind, 1) = "name"
    BY <1>1, <1>2, <2>1, AnnounceTable
  <2>3. Emits(fields, TypeAt(kind, 1), FieldAt(kind, 1))
    BY <2>2 DEF Emits, Counts
  <2>4. 1 \in DOMAIN w.items /\ w.items[1].type = "announce_nickname"
    BY <1>1, <2>2, <2>3, ItemsAre
  <2>5. Known(w, 1)
    BY <1>2, <2>4, ReadsAre DEF Known
  <2>. QED
    BY <1>1, <2>2, <2>3, <2>4, <2>5, ItemsAre DEF Emits
<1>3. CASE kind = "message"
  <2>1. Fields.message = {"message_id", "sender_nickname", "channel", "content", "message_flags",
                          "reply_id", "latitude_i", "longitude_i", "altitude"}
    BY DEF Fields, Reads, MessageReads
  <2>2. f = "message_id" /\ 1 \in DOMAIN Writes[kind] /\ TypeAt(kind, 1) = "message_id"
        /\ FieldAt(kind, 1) = "message_id"
    BY <1>1, <1>3, <2>1, MessageTable
  <2>3. Emits(fields, TypeAt(kind, 1), FieldAt(kind, 1))
    BY <2>2 DEF Emits, Counts
  <2>4. 1 \in DOMAIN w.items /\ w.items[1].type = "message_id"
    BY <1>1, <2>2, <2>3, ItemsAre
  <2>5. Known(w, 1)
    BY <1>3, <2>4, ReadsAre DEF Known
  <2>. QED
    BY <1>1, <2>2, <2>3, <2>4, <2>5, ItemsAre DEF Emits
<1>. QED
  BY <1>2, <1>3

IsRecord(o) == o = [kind |-> o.kind, ttl |-> o.ttl, to |-> o.to, length |-> o.length, fields |-> o.fields]

LEMMA WrittenIs ==
    ASSUME NEW o, IsRecord(o)
    PROVE  /\ Written(o).kind = o.kind /\ Written(o).ttl = o.ttl /\ Written(o).to = o.to
           /\ Written(o).fields = o.fields /\ Written(o).length = PayloadLength(o)
           /\ IsRecord(Written(o))
<1> DEFINE r(l) == [kind |-> o.kind, ttl |-> o.ttl, to |-> o.to, length |-> l, fields |-> o.fields]
<1>1. o = r(o.length)
  BY DEF IsRecord
<1>2. \A l, n : [r(l) EXCEPT !.length = n] = r(n)
  OBVIOUS
<1>3. Written(o) = r(PayloadLength(o))
  BY <1>1, <1>2, Zenon DEF Written
<1>4. \A n : /\ r(n).kind = o.kind /\ r(n).ttl = o.ttl /\ r(n).to = o.to
            /\ r(n).fields = o.fields /\ r(n).length = n
  OBVIOUS
<1>. QED
  BY <1>3, <1>4 DEF IsRecord

------------------------------------------------------------------------------
(* Preferences in RAM and in flash *)

PrefsOK(p) == Object(p) /\ p.kind = "preferences" /\ Fits(p.fields) /\ IsFun(p.fields)

(* Preferences that may be programmed. *)
Storable(p) == /\ PrefsOK(p) /\ p.length > 0
               /\ p.length = FieldsLength("preferences", p.fields)
               /\ PacketSize(Encode(p)) < Page

(* The sector holds these fields, whole. *)
Stored(w, fields) ==
    /\ IsPacket(w) /\ w.kind = "preferences" /\ w.claimed <= Sector
    /\ w.items = Items("preferences", fields)
    /\ w.claimed = FieldsLength("preferences", fields)
    /\ Typed("preferences", fields) /\ Fits(fields) /\ IsFun(fields)

Enforces(fields, p) ==
    "key" \in DOMAIN fields => "key" \in DOMAIN p.fields /\ p.fields.key = fields.key

LEMMA NoChannel ==
    ASSUME NEW fields, Typed("preferences", fields)
    PROVE  "channel" \notin DOMAIN fields
<1>1. Fields.preferences = {"key", "ssid", "password", "latitude_i", "longitude_i", "altitude"}
  BY DEF Fields, Reads, PreferencesReads
<1>. QED
  BY <1>1 DEF Typed

LEMMA Storing ==
    ASSUME NEW p, Storable(p)
    PROVE  Stored(Encode(p), p.fields)
<1> DEFINE w == Encode(p)
<1>1. /\ Object(p) /\ p.kind = "preferences" /\ Fits(p.fields) /\ IsFun(p.fields)
      /\ p.length = FieldsLength("preferences", p.fields) /\ p.length > 0 /\ PacketSize(w) < Page
  BY DEF Storable, PrefsOK
<1>2. Typed("preferences", p.fields) /\ p.length \in Nat /\ "preferences" \in Kinds
  BY <1>1, ObjectIs DEF Kinds
<1>3. /\ IsPacket(w) /\ w.kind = "preferences" /\ w.items = Items("preferences", p.fields)
      /\ w.claimed = PayloadLength(p)
  BY <1>1, EncodeTyped
<1>4. w.claimed = p.length
  BY <1>1, <1>3 DEF PayloadLength
<1> HIDE DEF w
<1>5. Consumed(w, MaxItems) = p.length
  BY <1>1, <1>2, <1>3, NoChannel, LengthOfItems
<1>6. \E c \in Nat : PacketSize(w) = c + p.length + 1
  <2>1. PacketSize(w) = 22 + (IF w.to = "nobody" THEN 0 ELSE 8) + (p.length + 1)
    BY <1>5 DEF PacketSize, Remainder
  <2>2. CASE w.to = "nobody"
    BY <1>2, <2>1, <2>2
  <2>3. CASE w.to # "nobody"
    <3>1. PacketSize(w) = 30 + p.length + 1
      BY <1>2, <2>1, <2>3
    <3>. QED
      BY <3>1
  <2>. QED
    BY <2>2, <2>3
<1>7. p.length <= Sector
  BY <1>1, <1>2, <1>6, FlashAssumption
<1>. QED
  BY <1>1, <1>2, <1>3, <1>4, <1>7 DEF Stored, w

(* What is in the sector is read whole, as far as the boot can look.        *)
LEMMA Restoring ==
    ASSUME NEW w, NEW fields, Stored(w, fields)
    PROVE  /\ ReadTo(w, Sector) \in Nat /\ ReadTo(w, Sector) > 0
           /\ FieldsRead(w, ReadTo(w, Sector)) = fields
           /\ FieldsRead(w, MaxItems) = fields
           /\ PrefsOK([kind |-> "preferences", ttl |-> w.ttl, to |-> w.to,
                       length |-> w.claimed, fields |-> fields])
<1>1. /\ IsPacket(w) /\ w.kind = "preferences" /\ w.claimed <= Sector
      /\ w.items = Items("preferences", fields) /\ w.claimed = FieldsLength("preferences", fields)
      /\ Typed("preferences", fields) /\ Fits(fields) /\ IsFun(fields)
      /\ "preferences" \in Kinds
  BY DEF Stored, Kinds
<1>2. /\ HasItems(w) /\ w.claimed \in Nat /\ w.claimed > 0 /\ w.claimed <= MaxLength
  BY <1>1, DecodeTyped
<1>3. w.claimed = Consumed(w, MaxItems)
  BY <1>1, NoChannel, LengthOfItems
<1>4. Sector \in Nat
  BY FlashAssumption
<1>5. ReadTo(w, Sector) \in DOMAIN w.items /\ ReadTo(w, Sector) # 0
      /\ (~WrongWidth(w, ReadTo(w, Sector)) => \A i \in DOMAIN w.items : i <= ReadTo(w, Sector))
  BY <1>1, <1>2, <1>3, <1>4, ReadWhole
<1>6. \A i \in DOMAIN w.items : ~WrongWidth(w, i)
  BY <1>1, WrittenAgrees
<1>7. ReadTo(w, Sector) \in Nat
  BY <1>2, <1>5 DEF HasItems
<1>8. FieldsRead(w, ReadTo(w, Sector)) = FieldsRead(w, MaxItems)
  BY <1>2, <1>5, <1>6, <1>7, ReadSame
<1>9. FieldsRead(w, MaxItems) = fields
  BY <1>1, NoChannel, RoundTrip DEF IsFun
<1>10. PrefsOK([kind |-> "preferences", ttl |-> w.ttl, to |-> w.to,
                length |-> w.claimed, fields |-> fields])
  <2> DEFINE p == [kind |-> "preferences", ttl |-> w.ttl, to |-> w.to,
                   length |-> w.claimed, fields |-> fields]
  <2>1. /\ p.kind = "preferences" /\ p.ttl = w.ttl /\ p.to = w.to
        /\ p.length = w.claimed /\ p.fields = fields
    OBVIOUS
  <2>2. w.ttl \in 0 .. 255 /\ w.to \in {"me", "other", "nobody"}
    BY <1>1 DEF IsPacket
  <2> HIDE DEF p
  <2>3. Object(p)
    BY <1>1, <1>2, <2>1, <2>2, ObjectIs
  <2>4. PrefsOK(p)
    BY <1>1, <2>1, <2>3 DEF PrefsOK
  <2>. QED
    BY <2>4 DEF p
<1>. QED
  BY <1>5, <1>7, <1>8, <1>9, <1>10

(* Preferences from a phone can be stored as soon as they fit a page. *)
LEMMA Adopting ==
    ASSUME NEW w \in PhonePackets
    PROVE  /\ PrefsOK(Written(Adopted(Decode(w))))
           /\ Written(Adopted(Decode(w))).fields = Decode(w).fields
           /\ PacketSize(Encode(Adopted(Decode(w)))) < Page => Storable(Written(Adopted(Decode(w))))
<1> DEFINE p == Decode(w)
           q == Written(p)
<1>0. Adopted(p) = p
  BY DEF Adopted
<1>1. /\ IsPacket(w) /\ w.kind = "preferences" /\ w.kind \in Kinds
      /\ w.claimed = FieldsLength("preferences", p.fields)
  BY PhoneAssumption DEF Kinds
<1>2. /\ Object(p) /\ p.kind = "preferences" /\ p.length = w.claimed
      /\ w.claimed \in Nat /\ w.claimed > 0 /\ w.claimed <= MaxLength
      /\ Fits(p.fields) /\ IsFun(p.fields)
  BY <1>1, DecodeTyped
<1>3. IsRecord(p)
  BY DEF Decode, IsRecord
<1> HIDE DEF p
<1>4. PayloadLength(p) = p.length
  BY <1>2 DEF PayloadLength
<1>5. /\ q.kind = p.kind /\ q.ttl = p.ttl /\ q.to = p.to /\ q.fields = p.fields
      /\ q.length = p.length
  BY <1>3, <1>4, WrittenIs
<1> HIDE DEF q
<1>6. Object(q)
  BY <1>2, <1>5, ObjectIs
<1>7. PrefsOK(q)
  BY <1>2, <1>5, <1>6 DEF PrefsOK
<1>8. Encode(q) = Encode(p)
  <2>1. PayloadLength(q) = PayloadLength(p)
    BY <1>2, <1>5 DEF PayloadLength
  <2>. QED
    BY <1>5, <2>1 DEF Encode
<1>9. PacketSize(Encode(p)) < Page => Storable(q)
  BY <1>1, <1>2, <1>5, <1>7, <1>8 DEF Storable
<1>. QED
  BY <1>0, <1>5, <1>7, <1>9 DEF p, q

------------------------------------------------------------------------------
(* The announce and the messages of the node *)

(* The lengths of its announce: a name and up to three parts of a location. *)
AnnounceLength(l) == \E a \in 0 .. 3 : l = Size(OwnName) + 6 * a

OwnAnnounce(fields) ==
    /\ Typed("announce", fields) /\ Fits(fields)
    /\ DOMAIN fields \subseteq LocationFields \cup {"name"}
    /\ "name" \in DOMAIN fields /\ fields["name"] = OwnName

OwnMessage(fields) ==
    /\ Typed("message", fields) /\ Fits(fields) /\ IsFun(fields)
    /\ {"message_id", "channel", "content"} \subseteq DOMAIN fields

(* A packet that says the name, and nothing else that is understood. *)
SaysName(w) ==
    /\ 1 \in DOMAIN w.items /\ Known(w, 1) /\ FieldOf(w, 1) = "name"
    /\ w.items[1].value = OwnName
    /\ \A i \in DOMAIN w.items : Known(w, i) => i = 1
    /\ AnnounceLength(w.claimed) /\ AnnounceLength(Consumed(w, MaxItems))

LEMMA SumOfLocation ==
    ASSUME NEW size, IsSize(size), DOMAIN size \subseteq {1, 5, 6, 7}, 1 \in DOMAIN size,
           \A i \in DOMAIN size : i # 1 => size[i] = 6
    PROVE  \E a \in 0 .. 3 : Total(size, MaxItems) = size[1] + 6 * a
<1> DEFINE f(i) == Total(size, i)
<1>1. Total(size, MaxItems) = f(7)
  <2>1. 7 \in 0 .. MaxItems /\ DOMAIN size \subseteq 1 .. 7
    BY Bounds
  <2>. QED
    BY <2>1, TotalEnds
<1>2. f(0) = 0 /\ \A i \in 1 .. MaxItems : f(i) = f(i - 1) + Part(size, i)
  BY TotalIs
<1>3. \A i \in 1 .. 7 : i \in 1 .. MaxItems
  BY Bounds
<1>4. \A i \in 1 .. 7 : f(i) = f(i - 1) + Part(size, i)
  BY <1>2, <1>3
<1>5. size[1] \in Nat /\ Part(size, 1) = size[1]
  BY DEF IsSize, Part
<1>6. /\ Part(size, 2) = 0 /\ Part(size, 3) = 0 /\ Part(size, 4) = 0
      /\ Part(size, 5) \in {0, 6} /\ Part(size, 6) \in {0, 6} /\ Part(size, 7) \in {0, 6}
  BY DEF Part
<1> HIDE DEF f
<1>7. f(1) = size[1] /\ f(2) = f(1) /\ f(3) = f(2) /\ f(4) = f(3)
  <2>1. /\ f(1) = f(1 - 1) + Part(size, 1) /\ f(2) = f(2 - 1) + Part(size, 2)
        /\ f(3) = f(3 - 1) + Part(size, 3) /\ f(4) = f(4 - 1) + Part(size, 4)
    BY <1>4
  <2>. QED
    BY <1>2, <1>5, <1>6, <2>1
<1>8. /\ f(5) = f(4) + Part(size, 5) /\ f(6) = f(5) + Part(size, 6)
      /\ f(7) = f(6) + Part(size, 7)
  <2>1. /\ f(5) = f(5 - 1) + Part(size, 5) /\ f(6) = f(6 - 1) + Part(size, 6)
        /\ f(7) = f(7 - 1) + Part(size, 7)
    BY <1>4
  <2>. QED
    BY <2>1
<1>9. \E a \in 0 .. 3 : Part(size, 5) + Part(size, 6) + Part(size, 7) = 6 * a
  <2>1. /\ 0 = 6 * 0 /\ 6 = 6 * 1 /\ 12 = 6 * 2 /\ 18 = 6 * 3
        /\ 0 \in 0 .. 3 /\ 1 \in 0 .. 3 /\ 2 \in 0 .. 3 /\ 3 \in 0 .. 3
    OBVIOUS
  <2>2. Part(size, 5) + Part(size, 6) + Part(size, 7) \in {0, 6, 12, 18}
    BY <1>6
  <2> DEFINE sum == Part(size, 5) + Part(size, 6) + Part(size, 7)
  <2> HIDE DEF sum
  <2>3. sum \in {0, 6, 12, 18}
    BY <2>2 DEF sum
  <2>4. \E a \in 0 .. 3 : sum = 6 * a
    BY <2>1, <2>3
  <2>. QED
    BY <2>4 DEF sum
<1>10. PICK a \in 0 .. 3 : Part(size, 5) + Part(size, 6) + Part(size, 7) = 6 * a
  BY <1>9
<1>11. f(7) = size[1] + 6 * a
  BY <1>5, <1>6, <1>7, <1>8, <1>10
<1>. QED
  BY <1>1, <1>11

LEMMA AnnounceWritten ==
    ASSUME NEW fields, OwnAnnounce(fields),
           NEW w, w.kind = "announce", w.items = Items("announce", fields),
           w.claimed = FieldsLength("announce", fields) \/ AnnounceLength(w.claimed)
    PROVE  SaysName(w) /\ AnnounceLength(FieldsLength("announce", fields))
<1>1. /\ Typed("announce", fields) /\ Fits(fields) /\ "announce" \in Kinds
      /\ DOMAIN fields \subseteq {"latitude_i", "longitude_i", "altitude", "name"}
      /\ "name" \in DOMAIN fields /\ fields["name"] = OwnName /\ "channel" \notin DOMAIN fields
  BY DEF OwnAnnounce, LocationFields, Kinds
<1>2. 1 \in DOMAIN w.items /\ Known(w, 1) /\ FieldOf(w, 1) = "name"
  BY <1>1, IdentityFirst
<1>3. HasItems(w) /\ \A i \in DOMAIN w.items :
        /\ i \in DOMAIN Writes["announce"] /\ FieldAt("announce", i) \in DOMAIN fields
        /\ w.items[i].type = TypeAt("announce", i)
        /\ w.items[i].value = fields[FieldAt("announce", i)]
  BY <1>1, ItemsAre
<1>4. DOMAIN w.items \subseteq {1, 5, 6, 7}
  <2>1. \A k \in 1 .. 7 : k = 1 \/ k = 2 \/ k = 3 \/ k = 4 \/ k = 5 \/ k = 6 \/ k = 7
    OBVIOUS
  <2>. QED
    BY <1>1, <1>3, <2>1, AnnounceTable
<1>5. w.items[1].value = OwnName
  BY <1>1, <1>2, <1>3, AnnounceTable
<1>6. \A i \in DOMAIN w.items : Known(w, i) => i = 1
  BY <1>3, <1>4, AnnounceTable, ReadsAre DEF Known
<1>7. IsSize(Sizes(w)) /\ DOMAIN Sizes(w) = DOMAIN w.items
      /\ Consumed(w, MaxItems) = Total(Sizes(w), MaxItems)
  BY <1>3, SizesAre
<1>8. Sizes(w)[1] = Size(OwnName)
  BY <1>2, <1>5 DEF Sizes
<1>9. \A i \in DOMAIN w.items : i # 1 => Sizes(w)[i] = 6
  <2> SUFFICES ASSUME NEW i \in DOMAIN w.items, i # 1
               PROVE  Sizes(w)[i] = 6
    OBVIOUS
  <2>1. FieldAt("announce", i) \in LocationFields
    BY <1>4, AnnounceTable DEF LocationFields
  <2>2. FieldAt("announce", i) \in DOMAIN fields /\ w.items[i].value = fields[FieldAt("announce", i)]
    BY <1>3
  <2>3. FieldAt("announce", i) \in DOMAIN FixedWidth /\ FixedWidth[FieldAt("announce", i)] = 4
    BY <2>1 DEF FixedWidth, LocationFields
  <2>4. Bytes[w.items[i].value] = 4
    BY <1>1, <2>2, <2>3 DEF Fits
  <2>. QED
    BY <2>4 DEF Sizes, Size
<1>10. AnnounceLength(Consumed(w, MaxItems))
  BY <1>2, <1>4, <1>7, <1>8, <1>9, SumOfLocation DEF AnnounceLength
<1>11. Consumed(w, MaxItems) = FieldsLength("announce", fields)
  BY <1>1, LengthOfItems
<1>. QED
  BY <1>2, <1>5, <1>6, <1>10, <1>11 DEF SaysName

(* Whatever location its length is from, the announce is read, and what is  *)
(* read is the name. *)
LEMMA NameRead ==
    ASSUME NEW w, HasItems(w), SaysName(w)
    PROVE  /\ ~Malformed(w)
           /\ DOMAIN Decode(w).fields = {"name"} /\ Decode(w).fields["name"] = OwnName
<1> DEFINE n == ReadTo(w, Remainder(w))
<1>1. /\ 1 \in DOMAIN w.items /\ Known(w, 1) /\ FieldOf(w, 1) = "name"
      /\ w.items[1].value = OwnName
      /\ \A i \in DOMAIN w.items : Known(w, i) => i = 1
  BY DEF SaysName
<1>2. \A i \in DOMAIN w.items : ~WrongWidth(w, i)
  BY <1>1 DEF WrongWidth, FixedWidth, LocationFields
<1>3. PICK a \in 0 .. 3, b \in 0 .. 3 :
        w.claimed = Size(OwnName) + 6 * a /\ Consumed(w, MaxItems) = Size(OwnName) + 6 * b
  BY DEF SaysName, AnnounceLength
<1>4. Size(OwnName) \in Nat /\ Size(OwnName) > 0
  <2>1. Bytes[OwnName] \in 1 .. 255
    BY OwnAssumption, BytesAssumption
  <2>. QED
    BY <2>1 DEF Size
<1>5. \E i \in DOMAIN w.items : LastItem(w, Remainder(w), i)
  <2>1. CASE a > b
    <3>1. w.claimed > Remainder(w)
      BY <1>3, <1>4, <2>1 DEF Remainder
    <3>. QED
      BY <1>1, <3>1 DEF LastItem
  <2>2. CASE ~(a > b)
    <3>1. Consumed(w, MaxItems) >= w.claimed /\ Consumed(w, MaxItems) > 0
      <4> DEFINE s == Size(OwnName)
      <4> HIDE DEF s
      <4>1. s \in Nat /\ s > 0 /\ w.claimed = s + 6 * a /\ Consumed(w, MaxItems) = s + 6 * b
        BY <1>3, <1>4 DEF s
      <4>. QED
        BY <2>2, <4>1
    <3>2. MaxItems \in 0 .. MaxItems
      BY Bounds
    <3>3. /\ IsSize(Sizes(w)) /\ DOMAIN Sizes(w) = DOMAIN w.items
          /\ \A j : Consumed(w, j) = Total(Sizes(w), j)
      BY SizesAre
    <3>4. PICK k \in DOMAIN w.items : Consumed(w, k) = Consumed(w, MaxItems)
      BY <3>1, <3>2, <3>3, TotalReached
    <3>. QED
      BY <3>1, <3>4 DEF LastItem
  <2>. QED
    BY <2>1, <2>2
<1>6. n \in DOMAIN w.items
  BY <1>5, ReadToIs
<1>7. n \in 1 .. MaxItems
  BY <1>6 DEF HasItems
<1> HIDE DEF n
<1>8. n # 0 /\ 1 <= n
  BY <1>7, Bounds
<1>9. Decode(w).fields = FieldsRead(w, n)
  BY <1>8 DEF Decode, n
<1>10. "name" \in DOMAIN FieldsRead(w, n)
  BY <1>1, <1>2, <1>8, FieldsReadAre
<1>11. \A f \in DOMAIN FieldsRead(w, n) : f = "name" /\ FieldsRead(w, n)[f] = OwnName
  BY <1>1, FieldsReadAre
<1>12. ~Malformed(w)
  BY <1>2, <1>6, <1>8 DEF Malformed, n
<1>. QED
  BY <1>9, <1>10, <1>11, <1>12

------------------------------------------------------------------------------
(* From hop to hop *)

AnnounceOK(a) ==
    /\ Object(a) /\ IsRecord(a) /\ a.kind = "announce"
    /\ a.ttl > 0 => OwnAnnounce(a.fields)
    /\ a.length > 0 => AnnounceLength(a.length)

Identifying == {"message_id", "name"}

(* A packet in the air, and what it set out with.                           *)
AirOK(w, o) ==
    /\ IsPacket(w) /\ w.kind \in {"announce", "message"}
    /\ \A i \in DOMAIN w.items : Known(w, i) /\ ~WrongWidth(w, i) =>
         /\ FieldOf(w, i) \in DOMAIN o.fields
         /\ o.fields[FieldOf(w, i)] = w.items[i].value
    /\ \/ /\ ~o.own /\ o.fields = FieldsRead(w, MaxItems)
          /\ w.claimed = Consumed(w, MaxItems)
       \/ \A f \in Identifying \cap DOMAIN o.fields :
            1 \in DOMAIN w.items /\ Known(w, 1) /\ FieldOf(w, 1) = f
    /\ o.own /\ w.kind = "message" =>
         /\ OwnMessage(o.fields) /\ w.items = Items("message", o.fields)
         /\ w.claimed = FieldsLength("message", o.fields)
    /\ o.own /\ w.kind = "announce" => SaysName(w)

(* An object made of it.                                                    *)
HeldOK(h, o) ==
    /\ Object(h) /\ IsRecord(h) /\ h.kind \in {"announce", "message"} /\ h.length > 0
    /\ \A f \in DOMAIN h.fields : f \in DOMAIN o.fields /\ h.fields[f] = o.fields[f]
    /\ \A f \in Identifying \cap DOMAIN o.fields : f \in DOMAIN h.fields
    /\ o.own /\ h.kind = "message" =>
         /\ OwnMessage(o.fields) /\ h.fields = o.fields
         /\ h.length = FieldsLength("message", o.fields)
    /\ o.own /\ h.kind = "announce" => OwnAnnounce(h.fields) /\ AnnounceLength(h.length)

LEMMA MessageReadable ==
    ASSUME NEW fields, OwnMessage(fields), NEW w, IsPacket(w), w.kind = "message",
           w.items = Items("message", fields), w.claimed = FieldsLength("message", fields)
    PROVE  ~Malformed(w) /\ Decode(w).fields = fields
<1>1. /\ Typed("message", fields) /\ Fits(fields) /\ IsFun(fields)
      /\ "channel" \in DOMAIN fields /\ "content" \in DOMAIN fields /\ "message" \in Kinds
  BY DEF OwnMessage, Kinds
<1>2. HasItems(w) /\ w.claimed \in Nat /\ w.claimed > 0
  BY <1>1, DecodeTyped
<1>3. w.claimed = Consumed(w, MaxItems)
  BY <1>1, LengthOfItems
<1>4. Remainder(w) \in Nat /\ w.claimed <= Remainder(w)
  BY <1>2, <1>3 DEF Remainder
<1>5. ReadTo(w, Remainder(w)) \in DOMAIN w.items /\ ReadTo(w, Remainder(w)) # 0
  BY <1>2, <1>3, <1>4, ReadWhole
<1>6. ~Malformed(w)
  BY <1>1, <1>5, WrittenAgrees DEF Malformed
<1>7. Decode(w).fields = FieldsRead(w, MaxItems)
  BY <1>2, <1>3, <1>6, DecodeWhole
<1>8. FieldsRead(w, MaxItems) = fields
  BY <1>1, RoundTrip DEF IsFun
<1>. QED
  BY <1>6, <1>7, <1>8

(* What a node reads.                                                       *)
LEMMA Reading ==
    ASSUME NEW w, NEW o, AirOK(w, o), ~Malformed(w)
    PROVE  HeldOK(Decode(w), o)
<1> DEFINE h == Decode(w)
<1>1. IsPacket(w) /\ w.kind \in {"announce", "message"} /\ w.kind \in Kinds
  BY DEF AirOK, Kinds
<1>2. /\ HasItems(w) /\ Object(h) /\ h.kind = w.kind /\ h.length = w.claimed
      /\ w.claimed \in Nat /\ w.claimed > 0 /\ Fits(h.fields)
  BY <1>1, DecodeTyped
<1>3. IsRecord(h)
  BY DEF Decode, IsRecord
<1>4. PICK n : n \in DOMAIN w.items /\ h.fields = FieldsRead(w, n)
  <2>1. ReadTo(w, Remainder(w)) # 0
    BY DEF Malformed
  <2>2. ReadTo(w, Remainder(w)) \in DOMAIN w.items
    BY <1>2, <2>1, ReadToIs
  <2>. QED
    BY <2>1, <2>2 DEF Decode
<1> HIDE DEF h
<1>5. \A f \in DOMAIN h.fields : f \in DOMAIN o.fields /\ h.fields[f] = o.fields[f]
  BY <1>4, FieldsReadAre DEF AirOK
<1>6. ASSUME NEW f \in Identifying \cap DOMAIN o.fields
      PROVE  f \in DOMAIN h.fields
  <2>1. CASE o.fields = FieldsRead(w, MaxItems) /\ w.claimed = Consumed(w, MaxItems)
    <3>1. h.fields = o.fields
      BY <1>2, <2>1, DecodeWhole DEF h
    <3>. QED
      BY <3>1
  <2>2. CASE 1 \in DOMAIN w.items /\ Known(w, 1) /\ FieldOf(w, 1) = f
    <3>1. ~WrongWidth(w, 1)
      BY <2>2 DEF WrongWidth, FixedWidth, LocationFields, Identifying
    <3>2. 1 <= n
      BY <1>2, <1>4, Bounds DEF HasItems
    <3>. QED
      BY <1>4, <2>2, <3>1, <3>2, FieldsReadAre
  <2>. QED
    BY <2>1, <2>2 DEF AirOK
<1>7. ASSUME o.own, h.kind = "message"
      PROVE  /\ OwnMessage(o.fields) /\ h.fields = o.fields
             /\ h.length = FieldsLength("message", o.fields)
  <2>1. /\ OwnMessage(o.fields) /\ w.items = Items("message", o.fields)
        /\ w.claimed = FieldsLength("message", o.fields) /\ w.kind = "message"
    BY <1>2, <1>7 DEF AirOK
  <2>. QED
    BY <1>1, <1>2, <2>1, MessageReadable DEF h
<1>8. ASSUME o.own, h.kind = "announce"
      PROVE  OwnAnnounce(h.fields) /\ AnnounceLength(h.length)
  <2>1. SaysName(w)
    BY <1>2, <1>8 DEF AirOK
  <2>2. DOMAIN h.fields = {"name"} /\ h.fields["name"] = OwnName
    BY <1>2, <2>1, NameRead DEF h
  <2>3. Typed("announce", h.fields)
    BY <1>2, <1>8, ObjectIs
  <2>. QED
    BY <1>2, <2>1, <2>2, <2>3 DEF OwnAnnounce, SaysName
<1>9. HeldOK(h, o)
  BY <1>1, <1>2, <1>3, <1>5, <1>6, <1>7, <1>8 DEF HeldOK
<1>. QED
  BY <1>9 DEF h

(* What it writes for the next hop.                                         *)
LEMMA Forwarding ==
    ASSUME NEW h, NEW o, HeldOK(h, o), h.ttl - 1 > 0
    PROVE  AirOK(Encode([h EXCEPT !.ttl = @ - 1]), o)
<1> DEFINE g == [h EXCEPT !.ttl = @ - 1]
           w == Encode(g)
<1>1. /\ Object(h) /\ IsRecord(h) /\ h.kind \in {"announce", "message"} /\ h.length > 0
      /\ \A f \in DOMAIN h.fields : f \in DOMAIN o.fields /\ h.fields[f] = o.fields[f]
      /\ \A f \in Identifying \cap DOMAIN o.fields : f \in DOMAIN h.fields
  BY DEF HeldOK
<1>2. /\ g.kind = h.kind /\ g.ttl = h.ttl - 1 /\ g.to = h.to
      /\ g.length = h.length /\ g.fields = h.fields
  <2> DEFINE r(t) == [kind |-> h.kind, ttl |-> t, to |-> h.to, length |-> h.length, fields |-> h.fields]
  <2>1. h = r(h.ttl)
    BY <1>1 DEF IsRecord
  <2>2. \A s : [r(s) EXCEPT !.ttl = @ - 1] = r(s - 1)
    OBVIOUS
  <2>3. g = r(h.ttl - 1)
    BY <2>1, <2>2, Zenon
  <2> HIDE DEF g
  <2>. QED
    BY <2>3
<1> HIDE DEF g
<1>3. Object(g)
  <2>1. /\ h.kind \in Kinds /\ h.ttl \in 0 .. 255 /\ h.to \in {"me", "other", "nobody"}
        /\ h.length \in Nat /\ h.length <= MaxLength /\ Typed(h.kind, h.fields)
    BY <1>1, ObjectIs
  <2>2. h.ttl - 1 \in 0 .. 255
    BY <2>1
  <2>. QED
    BY <1>2, <2>1, <2>2, ObjectIs
<1>4. h.kind \in Kinds /\ Typed(h.kind, h.fields) /\ h.length \in Nat /\ h.length # 0
  BY <1>1, ObjectIs
<1>5. /\ IsPacket(w) /\ w.kind = h.kind /\ w.items = Items(h.kind, h.fields)
      /\ w.claimed = PayloadLength(g)
  BY <1>2, <1>3, <1>4, EncodeTyped
<1>6. w.claimed = h.length
  BY <1>1, <1>2, <1>5 DEF PayloadLength
<1> HIDE DEF w
<1>7. \A i \in DOMAIN w.items : Known(w, i) =>
        FieldOf(w, i) \in DOMAIN o.fields /\ o.fields[FieldOf(w, i)] = w.items[i].value
  <2>1. \A i \in DOMAIN w.items : Known(w, i) =>
          FieldOf(w, i) \in DOMAIN h.fields /\ h.fields[FieldOf(w, i)] = w.items[i].value
    BY <1>4, <1>5, WrittenAgrees
  <2>. QED
    BY <1>1, <2>1
<1>8. \A f \in Identifying \cap DOMAIN o.fields :
        1 \in DOMAIN w.items /\ Known(w, 1) /\ FieldOf(w, 1) = f
  BY <1>1, <1>4, <1>5, IdentityFirst DEF Identifying
<1>9. o.own /\ w.kind = "message" =>
        /\ OwnMessage(o.fields) /\ w.items = Items("message", o.fields)
        /\ w.claimed = FieldsLength("message", o.fields)
  BY <1>5, <1>6 DEF HeldOK
<1>10. o.own /\ w.kind = "announce" => SaysName(w)
  BY <1>5, <1>6, AnnounceWritten DEF HeldOK
<1>11. AirOK(w, o)
  BY <1>1, <1>5, <1>7, <1>8, <1>9, <1>10 DEF AirOK
<1>. QED
  BY <1>11 DEF w, g

(* An app may write what it likes, one item for a field.                    *)
LEMMA FromApp ==
    ASSUME NEW w \in AppPackets, NEW o, o.own = FALSE, o.fields = FieldsRead(w, MaxItems)
    PROVE  AirOK(w, o)
<1>1. /\ IsPacket(w) /\ w.kind \in {"announce", "message"} /\ w.claimed = Consumed(w, MaxItems)
      /\ \A i, j \in DOMAIN w.items :
           Known(w, i) /\ Known(w, j) /\ FieldOf(w, i) = FieldOf(w, j) => i = j
  BY AppAssumption
<1>2. \A i \in DOMAIN w.items : i <= MaxItems
  BY <1>1, Bounds DEF IsPacket
<1>3. ASSUME NEW i \in DOMAIN w.items, Known(w, i), ~WrongWidth(w, i)
      PROVE  FieldOf(w, i) \in DOMAIN o.fields /\ o.fields[FieldOf(w, i)] = w.items[i].value
  <2>1. FieldOf(w, i) \in DOMAIN o.fields
    BY <1>2, <1>3, FieldsReadAre
  <2>2. PICK j \in DOMAIN w.items : Known(w, j) /\ FieldOf(w, j) = FieldOf(w, i)
                                    /\ o.fields[FieldOf(w, i)] = w.items[j].value
    BY <2>1, FieldsReadAre
  <2>. QED
    BY <1>1, <1>3, <2>1, <2>2
<1>. QED
  BY <1>1, <1>3 DEF AirOK

(* What the node sets its announce up with, and puts in a message.          *)
LEMMA NamedIsOwn ==
    ASSUME PrefsOK(prefs)
    PROVE  OwnAnnounce(Named(Location))
<1>1. /\ DOMAIN Location = LocationFields \cap DOMAIN prefs.fields
      /\ \A f \in DOMAIN Location : Location[f] = prefs.fields[f]
  BY DEF Location
<1>2. Typed("preferences", prefs.fields) /\ Fits(prefs.fields)
  BY ObjectIs DEF PrefsOK
<1>3. \A f \in DOMAIN Location : Location[f] \in DOMAIN Bytes /\ f # "name"
                                /\ (f \in DOMAIN FixedWidth => Bytes[Location[f]] = FixedWidth[f])
  BY <1>1, <1>2 DEF Typed, Fits, LocationFields
<1> DEFINE a == Named(Location)
<1>4. /\ DOMAIN a = DOMAIN Location \cup {"name"} /\ a["name"] = OwnName
      /\ \A f \in DOMAIN Location : f # "name" => a[f] = Location[f]
  BY DEF Named
<1> HIDE DEF a
<1>5. DOMAIN a \subseteq LocationFields \cup {"name"}
  BY <1>1, <1>4
<1>6. LocationFields \cup {"name"} \subseteq Fields["announce"]
  BY DEF Fields, Reads, AnnounceReads, LocationFields
<1>7. OwnName \in DOMAIN Bytes
  BY OwnAssumption
<1>8. Typed("announce", a)
  BY <1>3, <1>4, <1>5, <1>6, <1>7 DEF Typed
<1>9. "name" \notin DOMAIN FixedWidth
  BY DEF FixedWidth, LocationFields
<1>10. Fits(a)
  BY <1>3, <1>4, <1>9 DEF Fits
<1>11. OwnAnnounce(a)
  BY <1>4, <1>5, <1>8, <1>10 DEF OwnAnnounce
<1>. QED
  BY <1>11 DEF a

LEMMA MessageIsOwn ==
    ASSUME PrefsOK(prefs), NEW content \in OwnContents
    PROVE  OwnMessage(MessageFields(content))
<1> DEFINE texts == {"message_id", "sender_nickname", "channel", "content"}
           places == DOMAIN Location
           a == MessageFields(content)
<1>1. /\ places = LocationFields \cap DOMAIN prefs.fields
      /\ \A f \in places : Location[f] = prefs.fields[f]
  BY DEF Location
<1>2. Typed("preferences", prefs.fields) /\ Fits(prefs.fields)
  BY ObjectIs DEF PrefsOK
<1>3. \A f \in places : /\ Location[f] \in DOMAIN Bytes
                        /\ f \in DOMAIN FixedWidth => Bytes[Location[f]] = FixedWidth[f]
  BY <1>1, <1>2 DEF Typed, Fits
<1>4. \A f \in places : f \notin texts
  BY <1>1 DEF LocationFields
<1>5. IsFun(a) /\ DOMAIN a = places \cup texts
  BY DEF MessageFields, IsFun
<1>6. /\ a["message_id"] = OwnId /\ a["sender_nickname"] = OwnName
      /\ a["channel"] = OwnChannel /\ a["content"] = content
  BY DEF MessageFields
<1>7. \A f \in places : f \notin texts => a[f] = Location[f]
  BY DEF MessageFields
<1>8. {"message_id", "channel", "content"} \subseteq DOMAIN a
  BY <1>5
<1>9. LocationFields \cup texts \subseteq Fields["message"]
  BY DEF Fields, Reads, MessageReads, LocationFields
<1>10. texts \cap DOMAIN FixedWidth = {}
  BY DEF FixedWidth, LocationFields
<1>11. /\ OwnName \in DOMAIN Bytes /\ OwnId \in DOMAIN Bytes /\ OwnChannel \in DOMAIN Bytes
       /\ content \in DOMAIN Bytes
  BY OwnAssumption
<1> HIDE DEF a
<1>12. \A f \in texts : a[f] \in DOMAIN Bytes
  BY <1>6, <1>11
<1> HIDE DEF texts, places
<1>13. \A f \in places : a[f] = Location[f]
  BY <1>4, <1>7
<1>14. Typed("message", a)
  <2>1. DOMAIN a \subseteq Fields["message"]
    BY <1>1, <1>5, <1>9
  <2>2. \A f \in DOMAIN a : a[f] \in DOMAIN Bytes
    BY <1>3, <1>5, <1>12, <1>13
  <2>. QED
    BY <2>1, <2>2 DEF Typed
<1>15. Fits(a)
  <2> SUFFICES ASSUME NEW f \in DOMAIN a, f \in DOMAIN FixedWidth
               PROVE  Bytes[a[f]] = FixedWidth[f]
    BY DEF Fits
  <2>1. f \in places
    BY <1>5, <1>10
  <2>. QED
    BY <1>3, <1>13, <2>1
<1>16. OwnMessage(a)
  BY <1>5, <1>8, <1>14, <1>15 DEF OwnMessage
<1>. QED
  BY <1>16 DEF a

LEMMA Announcing ==
    ASSUME NEW a, AnnounceOK(a), a.ttl > 0,
           NEW o, o.own = TRUE, o.fields = a.fields
    PROVE  AirOK(Encode(a), o) /\ AnnounceOK(Written(a))
<1> DEFINE w == Encode(a)
<1>1. /\ Object(a) /\ IsRecord(a) /\ a.kind = "announce" /\ OwnAnnounce(a.fields)
      /\ a.length > 0 => AnnounceLength(a.length)
  BY DEF AnnounceOK
<1>2. /\ Typed("announce", a.fields) /\ "name" \in DOMAIN a.fields
      /\ DOMAIN a.fields \subseteq LocationFields \cup {"name"}
  BY <1>1 DEF OwnAnnounce
<1>3. Counts(a.fields, TypeAt("announce", 1), FieldAt("announce", 1)) /\ 1 \in DOMAIN Writes["announce"]
  BY <1>2, AnnounceTable DEF Counts
<1>4. /\ IsPacket(w) /\ w.kind = "announce" /\ w.items = Items("announce", a.fields)
      /\ w.claimed = PayloadLength(a)
      /\ PayloadLength(a) \in Nat /\ PayloadLength(a) > 0 /\ PayloadLength(a) <= MaxLength
  BY <1>1, <1>3, EncodeTyped
<1> HIDE DEF w
<1>5. w.claimed = FieldsLength("announce", a.fields) \/ AnnounceLength(w.claimed)
  BY <1>1, <1>4 DEF PayloadLength
<1>6. SaysName(w) /\ AnnounceLength(w.claimed)
  BY <1>1, <1>4, <1>5, AnnounceWritten DEF SaysName
<1>7. \A i \in DOMAIN w.items : Known(w, i) =>
        FieldOf(w, i) \in DOMAIN o.fields /\ o.fields[FieldOf(w, i)] = w.items[i].value
  BY <1>2, <1>4, WrittenAgrees DEF Kinds
<1>8. \A f \in Identifying \cap DOMAIN o.fields :
        1 \in DOMAIN w.items /\ Known(w, 1) /\ FieldOf(w, 1) = f
  BY <1>2, <1>4, IdentityFirst DEF Identifying
<1>9. AirOK(w, o)
  BY <1>4, <1>6, <1>7, <1>8 DEF AirOK
<1>10. AnnounceOK(Written(a))
  <2> DEFINE b == Written(a)
  <2>1. /\ b.kind = a.kind /\ b.ttl = a.ttl /\ b.to = a.to /\ b.fields = a.fields
        /\ b.length = PayloadLength(a) /\ IsRecord(b)
    BY <1>1, WrittenIs
  <2> HIDE DEF b
  <2>2. Object(b)
    BY <1>1, <1>4, <2>1, ObjectIs
  <2>3. AnnounceOK(b)
    BY <1>1, <1>4, <1>6, <2>1, <2>2 DEF AnnounceOK
  <2>. QED
    BY <2>3 DEF b
<1>. QED
  BY <1>9, <1>10 DEF w

LEMMA Messaging ==
    ASSUME NEW fields, OwnMessage(fields), NEW o, o.own = TRUE, o.fields = fields
    PROVE  AirOK(Encode([kind |-> "message", ttl |-> OwnTtl, to |-> "nobody",
                         length |-> 0, fields |-> fields]), o)
<1> DEFINE m == [kind |-> "message", ttl |-> OwnTtl, to |-> "nobody", length |-> 0, fields |-> fields]
           w == Encode(m)
<1>1. /\ m.kind = "message" /\ m.ttl = OwnTtl /\ m.to = "nobody" /\ m.length = 0 /\ m.fields = fields
  OBVIOUS
<1> HIDE DEF m
<1>2. Typed("message", fields) /\ "message_id" \in DOMAIN fields /\ "message" \in Kinds
  BY DEF OwnMessage, Kinds
<1>3. Object(m)
  <2>1. OwnTtl \in 0 .. 255 /\ 0 \in Nat /\ 0 <= MaxLength
    BY TtlAssumption, Lengths
  <2>. QED
    BY <1>1, <1>2, <2>1, ObjectIs
<1>4. Counts(fields, TypeAt("message", 1), FieldAt("message", 1)) /\ 1 \in DOMAIN Writes["message"]
  BY <1>2, MessageTable DEF Counts
<1>5. /\ IsPacket(w) /\ w.kind = "message" /\ w.items = Items("message", fields)
      /\ w.claimed = PayloadLength(m)
  BY <1>1, <1>3, <1>4, EncodeTyped
<1>6. w.claimed = FieldsLength("message", fields)
  BY <1>1, <1>5 DEF PayloadLength
<1> HIDE DEF w
<1>7. \A i \in DOMAIN w.items : Known(w, i) =>
        FieldOf(w, i) \in DOMAIN o.fields /\ o.fields[FieldOf(w, i)] = w.items[i].value
  BY <1>2, <1>5, WrittenAgrees
<1>8. \A f \in Identifying \cap DOMAIN o.fields :
        1 \in DOMAIN w.items /\ Known(w, 1) /\ FieldOf(w, 1) = f
  BY <1>2, <1>5, IdentityFirst DEF Identifying
<1>9. AirOK(w, o)
  BY <1>5, <1>6, <1>7, <1>8 DEF AirOK
<1>. QED
  BY <1>9 DEF w, m

------------------------------------------------------------------------------
(* The inductive invariant *)

PrefsInv ==
    /\ PrefsOK(prefs)
    /\ saving => flash = Erased /\ Storable(prefs)
    /\ flash # Erased => Stored(flash, saved) /\ Enforces(saved, prefs)
Inv ==
    /\ PrefsInv
    /\ AnnounceOK(announce)
    /\ air # Nothing => AirOK(air, origin)
    /\ held # Nothing => HeldOK(held, origin)

LEMMA EmptyObject ==
    ASSUME NEW kind \in Kinds, NEW o,
           o = [kind |-> kind, ttl |-> 0, to |-> "nobody", length |-> 0, fields |-> <<>>]
    PROVE  Object(o) /\ IsRecord(o) /\ Fits(o.fields) /\ IsFun(o.fields)
<1>1. /\ o.kind = kind /\ o.ttl = 0 /\ o.to = "nobody" /\ o.length = 0
      /\ DOMAIN o.fields = {} /\ IsFun(o.fields) /\ IsRecord(o)
  BY DEF IsFun, IsRecord
<1>2. Typed(kind, o.fields) /\ Fits(o.fields)
  BY <1>1 DEF Typed, Fits
<1>3. 0 \in 0 .. 255 /\ 0 \in Nat /\ 0 <= MaxLength
  BY Lengths
<1>. QED
  BY <1>1, <1>2, <1>3, ObjectIs

LEMMA InitInv == Init => Inv
<1> SUFFICES ASSUME Init
             PROVE  Inv
  OBVIOUS
<1>1. PrefsOK(NoPreferences)
  BY EmptyObject DEF NoPreferences, PrefsOK, Kinds
<1>2. AnnounceOK(NewAnnounce)
  BY EmptyObject DEF NewAnnounce, AnnounceOK, Kinds
<1>. QED
  BY <1>1, <1>2 DEF Init, PreferencesInit, Inv, PrefsInv

LEMMA PrefsUpdate ==
    ASSUME PrefsInv, NEW w \in PhonePackets, UpdatePreferences(w)
    PROVE  PrefsInv'
<1> DEFINE p == Decode(w)
           q == Written(Adopted(p))
<1>1. /\ PrefsOK(q) /\ q.fields = p.fields
      /\ PacketSize(Encode(Adopted(p))) < Page => Storable(q)
  BY Adopting
<1>2. /\ ~saving /\ KeyMatches(p) /\ prefs' = q /\ saved' = saved
      /\ \/ PacketSize(Encode(Adopted(p))) < Page /\ flash' = Erased /\ saving'
         \/ flash' = flash /\ saving' = saving
  BY DEF UpdatePreferences
<1>3. ASSUME flash # Erased
      PROVE  Enforces(saved, q)
  BY <1>1, <1>2, <1>3 DEF PrefsInv, Enforces, KeyMatches
<1> HIDE DEF p, q
<1>4. PrefsOK(prefs')
  BY <1>1, <1>2
<1>5. saving' => flash' = Erased /\ Storable(prefs')
  BY <1>1, <1>2
<1>6. flash' # Erased => Stored(flash', saved') /\ Enforces(saved', prefs')
  BY <1>2, <1>3 DEF PrefsInv
<1>. QED
  BY <1>4, <1>5, <1>6 DEF PrefsInv

LEMMA PrefsProgram ==
    ASSUME PrefsInv, ProgramPage
    PROVE  PrefsInv'
<1>1. /\ PrefsOK(prefs) /\ Storable(prefs) /\ prefs' = prefs /\ ~saving'
      /\ \/ flash' = Encode(prefs) /\ saved' = prefs.fields
         \/ flash' = flash /\ saved' = saved
  BY DEF ProgramPage, PrefsInv
<1>2. Stored(Encode(prefs), prefs.fields) /\ Enforces(prefs.fields, prefs)
  BY <1>1, Storing DEF Enforces
<1>3. flash' # Erased => Stored(flash', saved') /\ Enforces(saved', prefs')
  BY <1>1, <1>2 DEF PrefsInv
<1>. QED
  BY <1>1, <1>3 DEF PrefsInv

(* What a boot finds: nothing, or all that was programmed. *)
LEMMA Booting ==
    ASSUME PrefsInv, PowerCut
    PROVE  /\ flash = Erased => prefs' = NoPreferences
           /\ flash # Erased => /\ PrefsOK(prefs') /\ prefs'.fields = saved
                                /\ Stored(flash, saved)
<1>1. CASE flash = Erased
  BY <1>1 DEF PowerCut
<1>2. CASE flash # Erased
  <2>1. Stored(flash, saved)
    BY <1>2 DEF PrefsInv
  <2>2. FieldsInFlash = {saved}
    <3>1. ReadTo(flash, Sector) > 0 /\ FieldsRead(flash, ReadTo(flash, Sector)) = saved
      BY <2>1, Restoring
    <3>2. FieldsInFlash = {FieldsRead(flash, ReadTo(flash, Sector))}
      <4> DEFINE n == ReadTo(flash, Sector)
                 any == {[f \in DOMAIN FieldsRead(flash, MaxItems) \cup {g} |->
                            IF f = g THEN v ELSE FieldsRead(flash, MaxItems)[f]] :
                          g \in {Reads.preferences[t] : t \in DOMAIN Reads.preferences},
                          v \in DOMAIN Bytes}
      <4>1. FieldsInFlash = IF n > 0 THEN {FieldsRead(flash, n)} ELSE any
        BY DEF FieldsInFlash
      <4> HIDE DEF any
      <4>. QED
        BY <3>1, <4>1
    <3>. QED
      BY <3>1, <3>2
  <2>3. prefs' = [kind |-> "preferences", ttl |-> flash.ttl, to |-> flash.to,
                  length |-> flash.claimed, fields |-> saved]
    BY <1>2, <2>2 DEF PowerCut
  <2>. QED
    BY <1>2, <2>1, <2>3, Restoring
<1>. QED
  BY <1>1, <1>2

LEMMA PrefsPowerCut ==
    ASSUME PrefsInv, PowerCut
    PROVE  PrefsInv'
<1>1. ~saving' /\ flash' = flash /\ saved' = saved
  BY DEF PowerCut
<1>2. PrefsOK(NoPreferences)
  BY EmptyObject DEF NoPreferences, PrefsOK, Kinds
<1>3. PrefsOK(prefs')
  BY <1>2, Booting
<1>4. flash # Erased => Stored(flash, saved) /\ Enforces(saved, prefs')
  BY Booting DEF Enforces
<1>. QED
  BY <1>1, <1>3, <1>4 DEF PrefsInv

LEMMA SetUp ==
    ASSUME NEW o, IsRecord(o), NEW t, NEW x, NEW b, b = [o EXCEPT !.ttl = t, !.fields = x]
    PROVE  /\ b.kind = o.kind /\ b.ttl = t /\ b.to = o.to
           /\ b.length = o.length /\ b.fields = x /\ IsRecord(b)
<1>1. DOMAIN o = {"kind", "ttl", "to", "length", "fields"}
  BY DEF IsRecord
<1>2. /\ b.kind = o.kind /\ b.ttl = t /\ b.to = o.to /\ b.length = o.length /\ b.fields = x
      /\ DOMAIN b = {"kind", "ttl", "to", "length", "fields"}
  BY <1>1
<1>3. b = [f \in DOMAIN b |-> b[f]]
  OBVIOUS
<1>4. IsRecord(b)
  BY <1>2, <1>3 DEF IsRecord
<1>. QED
  BY <1>2, <1>4

LEMMA NextInv == Inv /\ [Next]_vars => Inv'
<1> SUFFICES ASSUME Inv, [Next]_vars
             PROVE  Inv'
  OBVIOUS
<1>0. /\ PrefsInv /\ AnnounceOK(announce)
      /\ air # Nothing => AirOK(air, origin)
      /\ held # Nothing => HeldOK(held, origin)
  BY DEF Inv
<1>1. UNCHANGED prefsVars => PrefsInv'
  BY <1>0 DEF prefsVars, PrefsInv
<1>2. UNCHANGED hopVars => /\ AnnounceOK(announce') /\ (air' # Nothing => AirOK(air', origin'))
                          /\ (held' # Nothing => HeldOK(held', origin'))
  BY <1>0 DEF hopVars
<1>3. ASSUME NEW w \in PhonePackets, UpdatePreferences(w), UNCHANGED hopVars
      PROVE  Inv'
  BY <1>0, <1>2, <1>3, PrefsUpdate DEF Inv
<1>4. CASE ProgramPage /\ UNCHANGED hopVars
  BY <1>0, <1>2, <1>4, PrefsProgram DEF Inv
<1>5. CASE PowerCut /\ announce' = NewAnnounce /\ UNCHANGED <<air, held, origin>>
  <2>1. AnnounceOK(NewAnnounce)
    BY EmptyObject DEF NewAnnounce, AnnounceOK, Kinds
  <2>. QED
    BY <1>0, <1>5, <2>1, PrefsPowerCut DEF Inv
<1>6. CASE SetupAnnounceIfNeeded
  <2>1. announce' = [announce EXCEPT !.ttl = OwnTtl, !.fields = Named(Location)]
        /\ UNCHANGED <<prefsVars, air, held, origin>>
    BY <1>6 DEF SetupAnnounceIfNeeded
  <2>2. OwnAnnounce(Named(Location))
    BY <1>0, NamedIsOwn DEF PrefsInv
  <2>3. /\ Object(announce) /\ IsRecord(announce) /\ announce.kind = "announce"
        /\ announce.length > 0 => AnnounceLength(announce.length)
    BY <1>0 DEF AnnounceOK
  <2> DEFINE b == [announce EXCEPT !.ttl = OwnTtl, !.fields = Named(Location)]
  <2>6. announce' = b
    BY <2>1
  <2>7. /\ b.kind = announce.kind /\ b.ttl = OwnTtl /\ b.to = announce.to
        /\ b.length = announce.length /\ b.fields = Named(Location) /\ IsRecord(b)
    BY <2>3, SetUp
  <2> HIDE DEF b
  <2>8. OwnTtl \in 0 .. 255 /\ Typed("announce", Named(Location))
    BY <2>2, TtlAssumption DEF OwnAnnounce
  <2>9. Object(b)
    BY <2>3, <2>7, <2>8, ObjectIs
  <2>10. AnnounceOK(b)
    BY <2>2, <2>3, <2>7, <2>9 DEF AnnounceOK
  <2>. QED
    BY <1>0, <1>1, <2>1, <2>6, <2>10 DEF Inv
<1>7. CASE SendAnnounce
  <2>1. /\ announce.ttl > 0 /\ held = Nothing /\ air' = Encode(announce) /\ announce' = Written(announce)
        /\ origin' = [own |-> TRUE, fields |-> announce.fields] /\ UNCHANGED <<prefsVars, held>>
    BY <1>7 DEF SendAnnounce, OnItsWay
  <2>2. origin'.own = TRUE /\ origin'.fields = announce.fields
    BY <2>1
  <2>3. AirOK(air', origin') /\ AnnounceOK(announce')
    BY <1>0, <2>1, <2>2, Announcing
  <2>. QED
    BY <1>1, <2>1, <2>3 DEF Inv
<1>8. ASSUME NEW content \in OwnContents, SendMessage(content)
      PROVE  Inv'
  <2> DEFINE fields == MessageFields(content)
  <2>1. /\ held = Nothing /\ announce' = announce
        /\ air' = Encode([kind |-> "message", ttl |-> OwnTtl, to |-> "nobody",
                          length |-> 0, fields |-> fields])
        /\ origin' = [own |-> TRUE, fields |-> fields] /\ UNCHANGED <<prefsVars, held>>
    BY <1>8 DEF SendMessage, OnItsWay
  <2>2. OwnMessage(fields)
    BY <1>0, MessageIsOwn DEF PrefsInv
  <2> HIDE DEF fields
  <2>3. origin'.own = TRUE /\ origin'.fields = fields
    BY <2>1
  <2>4. AirOK(air', origin')
    BY <2>1, <2>2, <2>3, Messaging
  <2>. QED
    BY <1>0, <1>1, <2>1, <2>4 DEF Inv
<1>9. ASSUME NEW w \in AppPackets, SendFromApp(w)
      PROVE  Inv'
  <2>1. /\ held = Nothing /\ air' = w /\ announce' = announce
        /\ origin' = [own |-> FALSE, fields |-> FieldsRead(w, MaxItems)] /\ UNCHANGED <<prefsVars, held>>
    BY <1>9 DEF SendFromApp, OnItsWay
  <2>2. origin'.own = FALSE /\ origin'.fields = FieldsRead(w, MaxItems)
    BY <2>1
  <2>3. AirOK(air', origin')
    BY <2>1, <2>2, FromApp
  <2>. QED
    BY <1>0, <1>1, <2>1, <2>3 DEF Inv
<1>10. CASE Receive
  <2>1. /\ air # Nothing /\ air' = Nothing /\ UNCHANGED <<prefsVars, announce, origin>>
        /\ held' = IF Malformed(air) THEN Nothing ELSE Decode(air)
    BY <1>10 DEF Receive
  <2>2. held' # Nothing => HeldOK(held', origin)
    BY <1>0, <2>1, Reading
  <2>. QED
    BY <1>0, <1>1, <2>1, <2>2 DEF Inv
<1>11. CASE Forward
  <2>1. /\ held # Nothing /\ held' = Nothing /\ UNCHANGED <<prefsVars, announce, origin>>
        /\ air' = IF held.ttl - 1 > 0 THEN Encode([held EXCEPT !.ttl = @ - 1]) ELSE Nothing
    BY <1>11 DEF Forward
  <2>2. air' # Nothing => AirOK(air', origin)
    BY <1>0, <2>1, Forwarding
  <2>. QED
    BY <1>0, <1>1, <2>1, <2>2 DEF Inv
<1>12. CASE UNCHANGED vars
  BY <1>0, <1>1, <1>2, <1>12 DEF Inv, vars
<1>. QED
  BY <1>3, <1>4, <1>5, <1>6, <1>7, <1>8, <1>9, <1>10, <1>11, <1>12 DEF Next

(* The objects a node keeps, the packets in the air and the page in flash   *)
(* are what the code takes them for, and every step keeps it so.            *)
LEMMA InvCorrect == Spec => []Inv
BY InitInv, NextInv, PTL DEF Spec

------------------------------------------------------------------------------
(* What follows *)

(* Well-formed objects, packets with a payload of 16 bits, and something to *)
(* program whenever the sector is erased for it.                            *)
THEOREM HopsTypeCorrect == Spec => []TypeOK
<1>1. ASSUME Inv
      PROVE  TypeOK
  <2>1. Object(prefs) /\ prefs.kind = "preferences"
    BY <1>1 DEF Inv, PrefsInv, PrefsOK
  <2>2. Object(announce) /\ announce.kind = "announce"
    BY <1>1 DEF Inv, AnnounceOK
  <2>3. held # Nothing => Object(held)
    BY <1>1 DEF Inv, HeldOK
  <2>4. air # Nothing => air.claimed \in 1 .. MaxLength
    BY <1>1 DEF Inv, AirOK, IsPacket
  <2>5. flash # Erased => flash.claimed \in 1 .. MaxLength
    BY <1>1 DEF Inv, PrefsInv, Stored, IsPacket
  <2>6. saving => flash = Erased
    BY <1>1 DEF Inv, PrefsInv
  <2>. QED
    BY <2>1, <2>2, <2>3, <2>4, <2>5, <2>6 DEF TypeOK
<1>. QED
  BY <1>1, InvCorrect, PTL

(* A node reads nothing that the packet did not set out with.               *)
THEOREM HopsInventNothing == Spec => []NothingInvented
<1>1. Inv => NothingInvented
  BY DEF Inv, HeldOK, NothingInvented
<1>. QED
  BY <1>1, InvCorrect, PTL

(* A message of this firmware says the same at every hop.                   *)
THEOREM HopsKeepOwnMessage == Spec => []OwnMessageIntact
<1>1. Inv => OwnMessageIntact
  BY DEF Inv, HeldOK, OwnMessageIntact
<1>. QED
  BY <1>1, InvCorrect, PTL

(* No node drops a packet this firmware made as malformed.                  *)
THEOREM HopsReadOwn == Spec => []OwnReadable
<1>1. ASSUME Inv, air # Nothing, origin.own
      PROVE  ~Malformed(air)
  <2>1. AirOK(air, origin)
    BY <1>1 DEF Inv
  <2>2. IsPacket(air) /\ air.kind \in Kinds
    BY <2>1 DEF AirOK, Kinds
  <2>3. CASE air.kind = "message"
    BY <1>1, <2>1, <2>2, <2>3, MessageReadable DEF AirOK
  <2>4. CASE air.kind = "announce"
    BY <1>1, <2>1, <2>2, <2>4, DecodeTyped, NameRead DEF AirOK
  <2>. QED
    BY <2>1, <2>3, <2>4 DEF AirOK
<1>2. Inv => OwnReadable
  BY <1>1 DEF OwnReadable
<1>. QED
  BY <1>2, InvCorrect, PTL

(* The id of a message and the name of an announce survive every hop.       *)
THEOREM HopsKeepIdentity == Spec => []IdentitySurvives
<1>1. Inv => IdentitySurvives
  BY DEF Inv, HeldOK, IdentitySurvives, Identifying
<1>. QED
  BY <1>1, InvCorrect, PTL

(* The key in flash is the key that new preferences must carry.             *)
THEOREM HopsEnforceKey == Spec => []KeyEnforced
<1>1. ASSUME Inv, flash # Erased, "key" \in DOMAIN FieldsRead(flash, MaxItems)
      PROVE  "key" \in DOMAIN prefs.fields /\ prefs.fields.key = FieldsRead(flash, MaxItems).key
  <2>1. Stored(flash, saved) /\ Enforces(saved, prefs)
    BY <1>1 DEF Inv, PrefsInv
  <2>2. FieldsRead(flash, MaxItems) = saved
    BY <2>1, Restoring
  <2>. QED
    BY <1>1, <2>1, <2>2 DEF Enforces
<1>2. Inv => KeyEnforced
  BY <1>1 DEF KeyEnforced
<1>. QED
  BY <1>2, InvCorrect, PTL

(* A boot restores what was programmed or nothing, never part of it.        *)
THEOREM HopsRestoreAtBoot == Spec => BootRestores
<1>1. ASSUME Inv, PowerCut
      PROVE  prefs'.fields = IF flash = Erased THEN <<>> ELSE saved
  <2>1. PrefsInv
    BY <1>1 DEF Inv
  <2>. QED
    BY <1>1, <2>1, Booting DEF NoPreferences
<1>2. Inv /\ [Next]_vars => [PowerCut => prefs'.fields = IF flash = Erased THEN <<>> ELSE saved]_prefsVars
  BY <1>1
<1>. QED
  BY <1>2, InvCorrect, PTL DEF Spec, BootRestores
==============================================================================
