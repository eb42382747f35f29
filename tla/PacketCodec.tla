----------------------------- MODULE PacketCodec -----------------------------
(***************************************************************************)
(* What Base, Announce, Message and MicroMeshPreferences write and read.    *)
(* A packet object is its header, the payload length it remembers, and the  *)
(* fields that are set: an empty string and a zero are not in the domain of *)
(* `fields`, as no writer emits them.  A packet on the wire is its header,  *)
(* the payload length it claims, its items (type, length, value) and the    *)
(* zero byte writePacket adds.  An item is seen as its type and its value;  *)
(* what matters of a value is how many bytes it has.  Items are at places,  *)
(* in whose order they are written; a writer leaves places empty.           *)
(*                                                                          *)
(* Left out: signatures, version 2 (every packet is written as version 1),  *)
(* an item with an empty value, two items for one field.                    *)
(***************************************************************************)
EXTENDS Integers, Sequences, FiniteSets, FiniteSetsExt

CONSTANTS
    Bytes,   \* value -> its length in bytes
    MaxItems \* bound: the places of a packet

ASSUME BytesAssumption == \A v \in DOMAIN Bytes : Bytes[v] \in 1 .. 255
ASSUME ItemsAssumption == MaxItems \in 10 .. 255

LocationFields == {"latitude_i", "longitude_i", "altitude"}

(* What the constructors that take a reader do with each type of item.      *)
AnnounceReads == [
    announce_nickname |-> "name",
    announce_noise_public_key |-> "noise_public_key",
    announce_signing_public_key |-> "signing_public_key",
    announce_direct_neighbors |-> "direct_neighbors",
    announce_location_latitude |-> "latitude_i",
    announce_location_longitude |-> "longitude_i",
    announce_location_altitude |-> "altitude"]
MessageReads == [
    message_id |-> "message_id",
    message_sender_nickname |-> "sender_nickname",
    message_channel |-> "channel",
    message_channel_content |-> "content",
    message_content |-> "content",
    message_flags |-> "message_flags",
    message_reply_to_id |-> "reply_id",
    message_location_latitude |-> "latitude_i",
    message_location_longitude |-> "longitude_i",
    message_location_altitude |-> "altitude"]
PreferencesReads == [
    preferences_key |-> "key",
    preferences_ssid |-> "ssid",
    preferences_password |-> "password",
    preferences_latitude |-> "latitude_i",
    preferences_longitude |-> "longitude_i",
    preferences_altitude |-> "altitude"]
Reads == [announce |-> AnnounceReads, message |-> MessageReads,
          preferences |-> PreferencesReads]

(* Items that must have the width of their C++ type to be read.             *)
FixedWidth == [f \in LocationFields \cup {"reply_id", "message_flags"} |->
                 IF f = "message_flags" THEN 1 ELSE 4]

(* What writePacketPayload emits, as type and field, in its order.          *)
AnnounceWrites == <<
    <<"announce_nickname", "name">>,
    <<"announce_noise_public_key", "noise_public_key">>,
    <<"announce_signing_public_key", "signing_public_key">>,
    <<"announce_direct_neighbors", "direct_neighbors">>,
    <<"message_location_latitude", "latitude_i">>,
    <<"message_location_longitude", "longitude_i">>,
    <<"message_location_altitude", "altitude">> >>
MessageIdentityWrites == <<
    <<"message_id", "message_id">>,
    <<"message_sender_nickname", "sender_nickname">>,
    <<"message_channel", "channel">>,
    <<"message_channel_content", "content">>,
    <<"message_content", "content">> >>
MessageOptionWrites == <<
    <<"message_flags", "message_flags">>,
    <<"message_reply_to_id", "reply_id">>,
    <<"message_location_latitude", "latitude_i">>,
    <<"message_location_longitude", "longitude_i">>,
    <<"message_location_altitude", "altitude">> >>
PreferencesWrites == <<
    <<"preferences_key", "key">>,
    <<"preferences_ssid", "ssid">>,
    <<"preferences_password", "password">>,
    <<"preferences_latitude", "latitude_i">>,
    <<"preferences_longitude", "longitude_i">>,
    <<"preferences_altitude", "altitude">> >>

(* Mutants: latitude and longitude swapped, the id behind the rest.         *)
MessageWritesSwapped == MessageIdentityWrites \o [MessageOptionWrites EXCEPT
    ![3] = <<"message_location_latitude", "longitude_i">>,
    ![4] = <<"message_location_longitude", "latitude_i">>]
MessageWritesIdLast ==
    Tail(MessageIdentityWrites) \o MessageOptionWrites \o <<MessageIdentityWrites[1]>>
MessageWrites == MessageIdentityWrites \o MessageOptionWrites

Writes == [announce |-> AnnounceWrites, message |-> MessageWrites,
           preferences |-> PreferencesWrites]

------------------------------------------------------------------------------
(* variableLength and writeVariable: type, length byte, value.              *)
Size(value) == 2 + Bytes[value]

(* The sum of what is at the places up to the last.                         *)
Total(size, last) ==
    LET sum[i \in 0 .. MaxItems] ==
          IF i = 0 THEN 0 ELSE sum[i - 1] + (IF i \in DOMAIN size THEN size[i] ELSE 0)
    IN sum[last]

(* Whether getPayloadLength counts a field under this type, and whether     *)
(* writePacketPayload emits it.  A channel is counted also when there is no *)
(* content, although it is then not written.                                *)
Counts(fields, type, field) ==
    /\ field \in DOMAIN fields
    /\ type = "message_channel_content" => "channel" \in DOMAIN fields
    /\ type = "message_content" => "channel" \notin DOMAIN fields
Emits(fields, type, field) ==
    /\ Counts(fields, type, field)
    /\ type = "message_channel" => "content" \in DOMAIN fields

(* getPayloadLength of an object that remembers none.                       *)
FieldsLength(kind, fields) ==
    LET counted == {i \in DOMAIN Writes[kind] : Counts(fields, Writes[kind][i][1], Writes[kind][i][2])}
    IN Total([i \in counted |-> Size(fields[Writes[kind][i][2]])], MaxItems)

Items(kind, fields) ==
    LET emitted == {i \in DOMAIN Writes[kind] : Emits(fields, Writes[kind][i][1], Writes[kind][i][2])}
    IN [i \in emitted |-> [type |-> Writes[kind][i][1], value |-> fields[Writes[kind][i][2]]]]

(* Mutants: getPayloadLength of Base, the padding counted in, a type byte  *)
(* left out for each item.                                                  *)
PayloadLengthOfBase(o) == o.length
PayloadLengthPadded(o) == IF o.length > 0 THEN o.length ELSE FieldsLength(o.kind, o.fields) + 1
PayloadLengthUntyped(o) ==
    IF o.length > 0 THEN o.length
    ELSE FieldsLength(o.kind, o.fields) - Cardinality(DOMAIN o.fields)
PayloadLength(o) == IF o.length > 0 THEN o.length ELSE FieldsLength(o.kind, o.fields)

(* writePacket, and the length the object remembers from then on.           *)
Encode(o) == [kind |-> o.kind, ttl |-> o.ttl, to |-> o.to,
              claimed |-> PayloadLength(o), items |-> Items(o.kind, o.fields)]
Written(o) == [o EXCEPT !.length = PayloadLength(o)]

------------------------------------------------------------------------------
(* Bytes of the items up to place j, and of all that is left to read behind *)
(* the header: the items and the padding.                                   *)
Consumed(w, j) == Total([i \in DOMAIN w.items |-> Size(w.items[i].value)], j)
Remainder(w) == Consumed(w, MaxItems) + 1

Known(w, i) == w.items[i].type \in DOMAIN Reads[w.kind]
FieldOf(w, i) == Reads[w.kind][w.items[i].type]
WrongWidth(w, i) ==
    /\ Known(w, i)
    /\ FieldOf(w, i) \in DOMAIN FixedWidth
    /\ Bytes[w.items[i].value] # FixedWidth[FieldOf(w, i)]

(* `while (!isMalformed() && remainder > tail - getPayloadLength())` after  *)
(* the first item always read.  The difference is unsigned: a packet that   *)
(* claims more than there is ends after its first item.                     *)
LastItem(w, tail, i) ==
    \/ WrongWidth(w, i)
    \/ Consumed(w, i) >= w.claimed
    \/ w.claimed > tail

(* The item at which the loop ends, 0 if it runs on into the padding.       *)
ReadTo(w, tail) ==
    LET last == {i \in DOMAIN w.items : LastItem(w, tail, i)}
    IN IF last = {} THEN 0 ELSE Min(last)

(* The padding read as the type of one more item leaves no room for its     *)
(* length, and read_data then finds itself past the end.                    *)
Malformed(w) ==
    LET n == ReadTo(w, Remainder(w))
    IN n = 0 \/ WrongWidth(w, n)

FieldsRead(w, n) ==
    LET known == {i \in DOMAIN w.items : i <= n /\ Known(w, i) /\ ~WrongWidth(w, i)}
    IN [f \in {FieldOf(w, i) : i \in known} |->
          w.items[CHOOSE i \in known : FieldOf(w, i) = f].value]

(* The constructor that takes a reader.  A packet read on into the padding  *)
(* has had all its items read.                                              *)
Decode(w) ==
    LET n == ReadTo(w, Remainder(w))
    IN [kind |-> w.kind, ttl |-> w.ttl, to |-> w.to, length |-> w.claimed,
        fields |-> FieldsRead(w, IF n = 0 THEN MaxItems ELSE n)]

------------------------------------------------------------------------------
(* What write_uint16 and read_uint16 can say of a payload length.           *)
MaxLength == 65535

(* A packet that may come over the air, whatever its kind and its items.    *)
IsPacket(w) ==
    /\ w.ttl \in 0 .. 255
    /\ w.to \in {"me", "other", "nobody"}
    /\ w.claimed \in 1 .. MaxLength
    /\ DOMAIN w.items \subseteq 1 .. MaxItems
    /\ \A i \in DOMAIN w.items : w.items[i].value \in DOMAIN Bytes
==============================================================================
