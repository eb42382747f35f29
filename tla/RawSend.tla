------------------------------- MODULE RawSend -------------------------------
(***************************************************************************)
(* The last stage of BleConnectionTracker on the Pico: the serialised      *)
(* packets that wait in raw_packet_to_notify (for a central) or in         *)
(* raw_packet_to_write (for a peripheral) until the Bluetooth stack calls  *)
(* back.  Each of the two queues has one static registration, whose        *)
(* `context` names the handle to serve and which the stack keeps at every  *)
(* connection that was asked for; the two sides share only has_data.       *)
(*                                                                         *)
(* A queue is a multimap: it is seen here as the number of packets under   *)
(* each handle, of which the oldest leaves first.                          *)
(***************************************************************************)
EXTENDS Integers

CONSTANTS
    Handle, \* HCI connection handles, positive
    MaxRaw  \* bound: packets under one handle

ASSUME HandleAssumption == Handle \subseteq Nat \ {0}
ASSUME BoundAssumption == MaxRaw \in Nat

VARIABLES
    link,    \* handle -> "down", or the queue its role selects
    hasData, \* handle -> has_data_to_send of its record, FALSE without one
    raw,     \* queue -> handle -> number of packets
    context, \* queue -> context of its registration, 0 before the first
    asked,   \* queue -> handles of the connections that hold the registration
    fresh    \* ghost: queue -> handle -> packets queued since the link came up

vars == <<link, hasData, raw, context, asked, fresh>>

Queues == {"notify", "write"}
Results == {"success", "busy", "unknown"}
Up == {h \in Handle : link[h] # "down"}

Init ==
    /\ link = [h \in Handle |-> "down"]
    /\ hasData = [h \in Handle |-> FALSE]
    /\ raw = [q \in Queues |-> [h \in Handle |-> 0]]
    /\ context = [q \in Queues |-> 0]
    /\ asked = [q \in Queues |-> {}]
    /\ fresh = [q \in Queues |-> [h \in Handle |-> 0]]

------------------------------------------------------------------------------
(* reportConnection: the record of a neighbour replaces what the handle had.*)
ReportConnection(h, q, wasNeighbour) ==
    /\ h \notin Up
    /\ link' = [link EXCEPT ![h] = q]
    /\ hasData' = [hasData EXCEPT ![h] = @ /\ ~wasNeighbour]
    /\ UNCHANGED <<raw, context, asked, fresh>>

(* The link ends and the registrations kept at it go with it; the record    *)
(* and the queues stay.                                                     *)
ReportDisconnection(h) ==
    /\ h \in Up
    /\ link' = [link EXCEPT ![h] = "down"]
    /\ asked' = [q \in Queues |-> asked[q] \ {h}]
    /\ fresh' = [q \in Queues |-> [fresh[q] EXCEPT ![h] = 0]]
    /\ UNCHANGED <<hasData, raw, context>>

(* cleanupStaleItems erases the record. *)
ForgetConnection(h) ==
    /\ h \notin Up
    /\ hasData' = [hasData EXCEPT ![h] = FALSE]
    /\ UNCHANGED <<link, raw, context, asked, fresh>>

(* att_server_request_to_send_notification and its twin for writes: the     *)
(* stack keeps a registration once per link, and none without a link.       *)
Request(q, h) ==
    /\ context' = [context EXCEPT ![q] = h]
    /\ asked' = [asked EXCEPT ![q] = @ \cup ({h} \cap Up)]

(* Mutant: has_data_to_send set on a copy of the record. *)
MarkedOnCopy(h) == hasData
Marked(h) == [hasData EXCEPT ![h] = TRUE]

(* SendPacketToConnection; a refused request leaves the packet queued.      *)
SendPacketToConnection(h) ==
    LET q == link[h]
    IN /\ h \in Up
       /\ raw[q][h] < MaxRaw
       /\ hasData' = Marked(h)
       /\ raw' = [raw EXCEPT ![q][h] = @ + 1]
       /\ fresh' = [fresh EXCEPT ![q][h] = @ + 1]
       /\ Request(q, h)
       /\ UNCHANGED link

(* Mutant: upper_bound. *)
FromStrictly(queue, c) == {h \in Handle : h > c /\ queue[h] > 0}

(* equal_range(c).first is end() only when no handle from c on has packets. *)
From(queue, c) == {h \in Handle : h >= c /\ queue[h] > 0}

(* Mutant: a packet is erased only when nobody can take it. *)
ErasedWhenUnknown(result) == result = "unknown"
Erased(result) == result # "busy"

(* Mutant: the packet is erased by the handle that was asked for. *)
WithoutOneOfContext(queue, h, c) == [queue EXCEPT ![c] = @ - 1]
WithoutOne(queue, h, c) == [queue EXCEPT ![h] = @ - 1]

(* What the queue holds after the call for c: the first packet from c on is *)
(* given to the stack for c, whichever handle it lies under.                *)
AfterSend(queue, c, result) ==
    IF From(queue, c) = {} \/ ~Erased(result)
      THEN queue
      ELSE WithoutOne(queue, CHOOSE h \in From(queue, c) : \A g \in From(queue, c) : h <= g, c)

(* The connection l can send: the stack takes the registration from it and  *)
(* calls notifyRawPacket or writeRawPacket with the context of that moment. *)
CanSend(q, l, result) ==
    LET c == context[q]
        left == AfterSend(raw[q], c, result)
    IN /\ l \in asked[q]
       /\ result \in IF c \in Up THEN {"success", "busy"} ELSE {"unknown"}
       /\ raw' = [raw EXCEPT ![q] = left]
       /\ fresh' = [fresh EXCEPT ![q] =
                      [h \in Handle |-> IF fresh[q][h] > left[h] THEN left[h] ELSE fresh[q][h]]]
       /\ asked' = [asked EXCEPT ![q] =
                      (@ \ {l}) \cup (IF From(left, c) = {} THEN {} ELSE {c} \cap Up)]
       /\ UNCHANGED <<link, hasData, context>>

------------------------------------------------------------------------------
Next ==
    \/ \E h \in Handle :
         \/ \E q \in Queues, wasNeighbour \in BOOLEAN : ReportConnection(h, q, wasNeighbour)
         \/ ReportDisconnection(h)
         \/ ForgetConnection(h)
         \/ SendPacketToConnection(h)
    \/ \E q \in Queues, l \in Handle, result \in Results : CanSend(q, l, result)

Spec == Init /\ [][Next]_vars

(* The stack serves the connection that asked, and takes a packet in the    *)
(* end if it is offered one for ever.                                       *)
FairSpec ==
    /\ Spec
    /\ \A q \in Queues, l \in Handle : WF_vars(\E result \in Results : CanSend(q, l, result))
    /\ \A q \in Queues : SF_vars(\E l \in Handle : CanSend(q, l, "success"))

------------------------------------------------------------------------------
(* Properties *)

TypeOK ==
    /\ link \in [Handle -> {"down"} \cup Queues]
    /\ hasData \in [Handle -> BOOLEAN]
    /\ raw \in [Queues -> [Handle -> 0..MaxRaw]]
    /\ context \in [Queues -> Handle \cup {0}]
    /\ asked \in [Queues -> SUBSET Up]
    /\ fresh \in [Queues -> [Handle -> Nat]]

(* Whatever other connections do with the registration, the handle it names *)
(* has it at its own link as long as a packet of this session waits there:  *)
(* the packets sent last are not forgotten.                                 *)
NewestAsked ==
    \A q \in Queues, h \in Handle :
        context[q] = h /\ fresh[q][h] > 0 => h \in asked[q]

(* A packet of this session lies in the queue of the link's role, and the   *)
(* record says that there is data: only leftovers of an ended connection    *)
(* can meet the assertion of notifyRawPacket and writeRawPacket without it. *)
FreshHasData ==
    \A q \in Queues, h \in Handle : fresh[q][h] > 0 => link[h] = q /\ hasData[h]

(* The callbacks that ask to be called again come to an end when nothing    *)
(* more is sent, leftovers of ended connections included.                   *)
QuietsDown ==
    \/ []<><<\E h \in Handle : SendPacketToConnection(h)>>_vars
    \/ \A q \in Queues : []<>(asked[q] = {})

(* BleConnectionTracker.cpp:718 and 748 "ASSERT_DEBUG(connection.hasData())"*)
(* holds in every callback that finds a packet.                             *)
CallbackHasData ==
    \A q \in Queues :
        asked[q] # {} /\ From(raw[q], context[q]) # {} => hasData[context[q]]

==============================================================================
