------------------------------ MODULE PacketHops ------------------------------
(***************************************************************************)
(* One packet on its way through the mesh.  It starts at a node that keeps  *)
(* Preferences and an own announce, which it sets up from them again and    *)
(* again, or at an app that speaks the same protocol.  Every node it        *)
(* reaches reads it into an object and writes it anew, with one hop less.   *)
(***************************************************************************)
EXTENDS Preferences

CONSTANTS
    OwnName, OwnId, OwnChannel, \* what the node calls itself, its messages, "#smoke"
    OwnContents,                \* what its messages say
    AppPackets,                 \* bound: the packets that apps send
    OwnTtl                      \* ttl of its own packets

ASSUME TtlAssumption == OwnTtl \in 1 .. 255
ASSUME OwnAssumption == {OwnName, OwnId, OwnChannel} \cup OwnContents \subseteq DOMAIN Bytes
(* Apps claim the length of their items, and write one item for a field.    *)
ASSUME AppAssumption ==
    \A w \in AppPackets :
        /\ IsPacket(w) /\ w.kind \in {"announce", "message"}
        /\ w.claimed = Consumed(w, MaxItems)
        /\ \A i, j \in DOMAIN w.items :
             Known(w, i) /\ Known(w, j) /\ FieldOf(w, i) = FieldOf(w, j) => i = j

VARIABLES
    announce, \* BleConnectionTracker::announce
    air,      \* the packet as last written, or Nothing
    held,     \* the object at the node it has reached, or Nothing
    origin    \* ghost: the fields it set out with, and whether the node made it

hopVars == <<announce, air, held, origin>>
vars == <<prefsVars, hopVars>>

Nothing == [kind |-> "none"]
NewAnnounce == [kind |-> "announce", ttl |-> 0, to |-> "nobody",
                length |-> 0, fields |-> <<>>]
OnItsWay == air # Nothing \/ held # Nothing

Location == [f \in LocationFields \cap DOMAIN prefs.fields |-> prefs.fields[f]]

Init ==
    /\ PreferencesInit
    /\ announce = NewAnnounce
    /\ air = Nothing
    /\ held = Nothing
    /\ origin = [own |-> FALSE, fields |-> <<>>]

Named(fields) == [f \in DOMAIN fields \cup {"name"} |->
                    IF f = "name" THEN OwnName ELSE fields[f]]

(* setupAnnounceIfNeeded, on every announceToConnections.  The payload      *)
(* length the announce remembers since it was first written stays.          *)
SetupAnnounceIfNeeded ==
    /\ ~saving
    /\ announce' = [announce EXCEPT !.ttl = OwnTtl, !.fields = Named(Location)]
    /\ UNCHANGED <<prefsVars, air, held, origin>>

(* sendPackets writes the announce that was set up.                         *)
SendAnnounce ==
    /\ ~saving /\ ~OnItsWay
    /\ announce.ttl > 0
    /\ air' = Encode(announce)
    /\ announce' = Written(announce)
    /\ origin' = [own |-> TRUE, fields |-> announce.fields]
    /\ UNCHANGED <<prefsVars, held>>

MessageFields(content) ==
    [f \in DOMAIN Location \cup {"message_id", "sender_nickname", "channel", "content"} |->
       CASE f = "message_id" -> OwnId
         [] f = "sender_nickname" -> OwnName
         [] f = "channel" -> OwnChannel
         [] f = "content" -> content
         [] OTHER -> Location[f]]

(* generateMessageIfNeeded, and the message written for the first time.     *)
SendMessage(content) ==
    /\ ~saving /\ ~OnItsWay
    /\ LET fields == MessageFields(content)
       IN /\ air' = Encode([kind |-> "message", ttl |-> OwnTtl, to |-> "nobody",
                            length |-> 0, fields |-> fields])
          /\ origin' = [own |-> TRUE, fields |-> fields]
    /\ UNCHANGED <<prefsVars, announce, held>>

SendFromApp(w) ==
    /\ ~OnItsWay
    /\ air' = w
    /\ origin' = [own |-> FALSE, fields |-> FieldsRead(w, MaxItems)]
    /\ UNCHANGED <<prefsVars, announce, held>>

(* processWrite at the next node, or the packet is lost.                    *)
Receive ==
    /\ air # Nothing
    /\ air' = Nothing
    /\ held' = IF Malformed(air) THEN Nothing ELSE Decode(air)
    /\ UNCHANGED <<prefsVars, announce, origin>>

(* A stored packet with hops left is written anew; one without is kept.     *)
Forward ==
    /\ held # Nothing
    /\ held' = Nothing
    /\ air' = IF held.ttl - 1 > 0 THEN Encode([held EXCEPT !.ttl = @ - 1]) ELSE Nothing
    /\ UNCHANGED <<prefsVars, announce, origin>>

Next ==
    \/ \E w \in PhonePackets : UpdatePreferences(w) /\ UNCHANGED hopVars
    \/ ProgramPage /\ UNCHANGED hopVars
    \/ PowerCut /\ announce' = NewAnnounce /\ UNCHANGED <<air, held, origin>>
    \/ SetupAnnounceIfNeeded
    \/ SendAnnounce
    \/ \E content \in OwnContents : SendMessage(content)
    \/ \E w \in AppPackets : SendFromApp(w)
    \/ Receive
    \/ Forward

Spec == Init /\ [][Next]_vars

------------------------------------------------------------------------------
Fields == [
    announce |-> {Reads.announce[t] : t \in DOMAIN Reads.announce},
    message |-> {Reads.message[t] : t \in DOMAIN Reads.message},
    preferences |-> {Reads.preferences[t] : t \in DOMAIN Reads.preferences}]
Object(o) ==
    /\ o.kind \in DOMAIN Fields
    /\ o.ttl \in 0 .. 255
    /\ o.to \in {"me", "other", "nobody"}
    /\ o.length \in 0 .. MaxLength
    /\ DOMAIN o.fields \subseteq Fields[o.kind]
    /\ \A f \in DOMAIN o.fields : o.fields[f] \in DOMAIN Bytes

(* The objects are well typed, and so is what is read from the air or from  *)
(* the flash: a packet with a payload of 16 bits, and something to save.    *)
TypeOK ==
    /\ Object(prefs) /\ prefs.kind = "preferences"
    /\ Object(announce) /\ announce.kind = "announce"
    /\ held # Nothing => Object(held)
    /\ air # Nothing => air.claimed \in 1 .. MaxLength
    /\ flash # Erased => flash.claimed \in 1 .. MaxLength
    /\ saving => flash = Erased

(* What a node reads is part of what the packet set out with, field by      *)
(* field, at every hop: no length that disagrees with the payload makes the *)
(* loop read one item as another.                                           *)
NothingInvented ==
    held # Nothing =>
        \A f \in DOMAIN held.fields :
            f \in DOMAIN origin.fields /\ held.fields[f] = origin.fields[f]

(* A message this firmware made says the same to every node, whatever       *)
(* preferences it was made with.                                            *)
OwnMessageIntact ==
    held # Nothing /\ origin.own /\ held.kind = "message"
        => held.fields = origin.fields

(* No node drops a packet this firmware made as malformed, not even an      *)
(* announce written with the payload length of an earlier location.         *)
OwnReadable == air # Nothing /\ origin.own => ~Malformed(air)

(* The id by which nodes recognise a message, and the name of an announce,  *)
(* survive every hop, also of a packet that is cut short on the way because *)
(* a node ignored an item of it and kept the length.                        *)
IdentitySurvives ==
    held # Nothing =>
        \A f \in {"message_id", "name"} \cap DOMAIN origin.fields :
            f \in DOMAIN held.fields

(* Violated: PacketTypes.h says that an announce might want to include a    *)
(* location; the one a node includes is never read.                         *)
LocationArrives ==
    held # Nothing /\ origin.own /\ held.kind = "announce"
        => LocationFields \cap DOMAIN origin.fields \subseteq DOMAIN held.fields
==============================================================================
