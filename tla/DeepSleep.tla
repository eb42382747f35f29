------------------------------ MODULE DeepSleep ------------------------------
(***************************************************************************)
(* ble-smoke-detector.ino: the Arduino build, which sleeps when it has     *)
(* nothing left to do and boots anew when the smoke pin is low, or after   *)
(* two days.  loop() runs statement group by statement group; the          *)
(* callbacks of NimBLE run in a task of its own and the interrupt at any   *)
(* time.  The timers of loop() (announce, connect, send, scan) may or may  *)
(* not have run out.                                                       *)
(***************************************************************************)
EXTENDS Integers

VARIABLES
    pin,        \* the level of D0, low while there is smoke
    stay,       \* D10 is pulled down: the node is not to sleep
    at,         \* where loop() is, or "asleep"
    smoke,      \* inputD0smoke.state = 0
    freshBoot,
    haveTime,   \* weHaveTheTime()
    stored,     \* kinds of own messages stored in this minute
    queued,     \* what havePacketsToSend() sees
    client,     \* a link this node made is up
    server,     \* a link a peer made is up
    scan,       \* pBLEScan is set
    connectionInProgress,
    active,     \* global_activity is not last_activity
    uncounted,  \* onWrite has taken a packet in and not counted it yet
    long        \* more than five minutes since boot

pins == <<pin, stay>>
alarm == <<smoke, freshBoot, stored>>
tracker == <<haveTime, queued>>
links == <<client, server>>
radio == <<scan, connectionInProgress>>
vars == <<pins, at, alarm, tracker, links, radio, active, uncounted, long>>

SmokeKinds == {"!", "="}
Kinds == SmokeKinds \cup {"?"} \* "?" is a boot alone; life_check is never raised
Packets == Kinds \cup {"announce", "other"}
Places == {"generate", "scan", "announce", "connect", "send", "startScan", "note",
           "check", "wait", "asleep"}

(* RAM is as after power on: deep sleep keeps none of it. *)
Reset ==
    /\ at' = "generate"
    /\ smoke' = FALSE /\ freshBoot' = TRUE /\ stored' = {}
    /\ haveTime' = FALSE /\ queued' = {}
    /\ client' = FALSE /\ server' = FALSE
    /\ scan' = FALSE /\ connectionInProgress' = FALSE
    /\ active' = FALSE /\ uncounted' = FALSE /\ long' = FALSE

Init ==
    /\ pin \in {"low", "high"} /\ stay \in BOOLEAN
    /\ at = "generate"
    /\ smoke = FALSE /\ freshBoot = TRUE /\ stored = {}
    /\ haveTime = FALSE /\ queued = {}
    /\ client = FALSE /\ server = FALSE
    /\ scan = FALSE /\ connectionInProgress = FALSE
    /\ active = FALSE /\ uncounted = FALSE /\ long = FALSE

Awake == at # "asleep"
Linked == client \/ server

------------------------------------------------------------------------------
(* loop() *)

(* Mutant: only what the interrupt has seen. *)
SmokeInterrupted == smoke
SmokeSeen == smoke \/ pin = "low"

Kind == IF freshBoot /\ SmokeSeen THEN "=" ELSE IF SmokeSeen THEN "!" ELSE "?"

(* A message of a kind already stored in this minute is dropped. *)
GenerateMessageIfNeeded ==
    /\ at = "generate" /\ at' = "scan"
    /\ IF haveTime /\ (freshBoot \/ SmokeSeen)
         THEN /\ freshBoot' = FALSE
              /\ smoke' = FALSE
              /\ stored' = stored \cup {Kind}
              /\ queued' = IF Kind \in stored THEN queued ELSE queued \cup {Kind}
              /\ active' = (active \/ Kind \notin stored)
         ELSE UNCHANGED <<freshBoot, smoke, stored, queued, active>>
    /\ UNCHANGED <<pins, haveTime, links, radio, uncounted, long>>

(* getResults blocks for the time of the scan. *)
FinishScan ==
    /\ at = "scan" /\ at' = "announce"
    /\ scan' = FALSE /\ active' = (active \/ scan)
    /\ UNCHANGED <<pins, alarm, tracker, links, connectionInProgress, uncounted, long>>

Announce ==
    /\ at = "announce" /\ at' = "connect"
    /\ queued' \in {queued} \cup
         (IF haveTime /\ Linked THEN {queued \cup {"announce"}} ELSE {})
    /\ UNCHANGED <<pins, alarm, haveTime, links, radio, active, uncounted, long>>

(* connect_to_first_neighbour, with the callback of the client.  A link     *)
(* that is gone when connect returns leaves connection_in_progress up. *)
Connect ==
    /\ at = "connect" /\ at' = "send"
    /\ \/ UNCHANGED <<client, connectionInProgress, active>>
       \/ /\ ~connectionInProgress /\ ~client /\ active' = TRUE
          /\ \/ client' = TRUE /\ UNCHANGED connectionInProgress
             \/ client' = FALSE /\ connectionInProgress' = TRUE
             \/ UNCHANGED <<client, connectionInProgress>>
    /\ UNCHANGED <<pins, alarm, tracker, server, scan, uncounted, long>>

(* sendPackets: with a connection, the first broadcast packet and the       *)
(* announcement, unless no target accepts it. *)
SendPackets ==
    /\ at = "send" /\ at' = "startScan"
    /\ \/ UNCHANGED <<queued, active>>
       \/ /\ ~connectionInProgress /\ queued # {} /\ active' = TRUE
          /\ \/ ~Linked /\ UNCHANGED queued
             \/ /\ Linked
                /\ \E refused \in BOOLEAN, broadcast \in SUBSET (queued \ {"announce"}) :
                     /\ broadcast = {} <=> queued \subseteq {"announce"}
                     /\ \A p, q \in broadcast : p = q
                     /\ queued' = queued \ (broadcast \cup (IF refused THEN {} ELSE {"announce"}))
    /\ UNCHANGED <<pins, alarm, haveTime, links, radio, uncounted, long>>

StartScan ==
    /\ at = "startScan" /\ at' = "note"
    /\ \/ UNCHANGED <<scan, active>>
       \/ ~connectionInProgress /\ scan' = TRUE /\ active' = TRUE
    /\ UNCHANGED <<pins, alarm, tracker, links, connectionInProgress, uncounted, long>>

(* Mutant: last_activity is only read. *)
StillActive == active
Noted == FALSE

NoteActivity ==
    /\ at = "note" /\ at' = "check"
    /\ active' = Noted
    /\ UNCHANGED <<pins, alarm, tracker, links, radio, uncounted, long>>

MaySleep ==
    /\ ~stay
    /\ \/ haveTime /\ ~scan /\ ~connectionInProgress /\ queued = {}
       \/ long

CheckSleep ==
    /\ at = "check" /\ at' = (IF MaySleep THEN "wait" ELSE "generate")
    /\ UNCHANGED <<pins, alarm, tracker, links, radio, active, uncounted, long>>

(* After two seconds: no activity and the node sleeps. *)
SleepOrGoOn ==
    /\ at = "wait" /\ at' = (IF active THEN "generate" ELSE "asleep")
    /\ UNCHANGED <<pins, alarm, tracker, links, radio, active, uncounted, long>>

Loop ==
    \/ GenerateMessageIfNeeded \/ FinishScan \/ Announce \/ Connect \/ SendPackets
    \/ StartScan \/ NoteActivity \/ CheckSleep \/ SleepOrGoOn

(* The wakeup by the pin and by the timer: setup().  What woke the node is  *)
(* only printed. *)
WakeBySmoke == at = "asleep" /\ pin = "low" /\ Reset /\ UNCHANGED pins
WakeByTimer == at = "asleep" /\ Reset /\ UNCHANGED pins

------------------------------------------------------------------------------
(* The interrupt and the callbacks *)

(* isr reads the level, on a falling edge. *)
SmokeRises ==
    /\ pin = "high" /\ pin' = "low"
    /\ IF Awake THEN smoke' = TRUE /\ active' = TRUE ELSE UNCHANGED <<smoke, active>>
    /\ UNCHANGED <<stay, at, freshBoot, stored, tracker, links, radio, uncounted, long>>

(* The pin is high again when it is read: what was pending is taken back. *)
ShortPulse ==
    /\ Awake /\ pin = "high" /\ smoke' = FALSE /\ active' = TRUE
    /\ UNCHANGED <<pins, at, freshBoot, stored, tracker, links, radio, uncounted, long>>

SmokeClears ==
    /\ pin = "low" /\ pin' = "high"
    /\ UNCHANGED <<stay, at, alarm, tracker, links, radio, active, uncounted, long>>

PeerConnects ==
    /\ Awake /\ ~server /\ server' = TRUE /\ active' = TRUE
    /\ UNCHANGED <<pins, at, alarm, tracker, client, radio, uncounted, long>>

PeerDisconnects ==
    /\ Awake /\ server /\ server' = FALSE /\ active' = TRUE
    /\ queued' = queued \ (IF client THEN {} ELSE {"announce"})
    /\ UNCHANGED <<pins, at, alarm, haveTime, client, radio, uncounted, long>>

ClientDisconnects ==
    /\ Awake /\ client /\ client' = FALSE /\ active' = TRUE
    /\ connectionInProgress' = FALSE
    /\ queued' = queued \ (IF server THEN {} ELSE {"announce"})
    /\ UNCHANGED <<pins, at, alarm, haveTime, server, scan, uncounted, long>>

(* processWrite: an announcement brings the time, and what is new with hops *)
(* left is queued. *)
ProcessWrite(time, new) ==
    /\ haveTime' = (haveTime \/ time)
    /\ queued' = IF new THEN queued \cup {"other"} ELSE queued
    /\ UNCHANGED <<pins, at, alarm, links, radio, active, long>>

(* notifyCB, which counts no activity. *)
Notified(time, new) == Awake /\ client /\ ProcessWrite(time, new) /\ UNCHANGED uncounted

(* onWrite, which counts it last. *)
Written(time, new) ==
    /\ Awake /\ server /\ ~uncounted /\ ProcessWrite(time, new) /\ uncounted' = TRUE

CountWrite ==
    /\ Awake /\ uncounted /\ uncounted' = FALSE /\ active' = TRUE
    /\ UNCHANGED <<pins, at, alarm, tracker, links, radio, long>>

FiveMinutesPass ==
    /\ Awake /\ ~long /\ long' = TRUE
    /\ UNCHANGED <<pins, at, alarm, tracker, links, radio, active, uncounted>>

MinutePasses ==
    /\ stored # {} /\ stored' = {}
    /\ UNCHANGED <<pins, at, smoke, freshBoot, tracker, links, radio, active, uncounted, long>>

(* What counts as activity without loop(). *)
Counted ==
    SmokeRises \/ ShortPulse \/ PeerConnects \/ PeerDisconnects \/ ClientDisconnects \/ CountWrite

Next ==
    \/ Loop \/ WakeBySmoke \/ WakeByTimer
    \/ Counted \/ SmokeClears
    \/ \E time, new \in BOOLEAN : Notified(time, new) \/ Written(time, new)
    \/ FiveMinutesPass \/ MinutePasses

Spec == Init /\ [][Next]_vars

(* loop() goes on, time passes, and the pin or the timer wakes the node.    *)
(* Of what is possible again and again, the time comes before the message   *)
(* is generated, and the alarm waiting is the one sent. *)
FairSpec ==
    /\ Spec
    /\ WF_vars(Loop) /\ WF_vars(MinutePasses) /\ WF_vars(FiveMinutesPass)
    /\ WF_vars(WakeBySmoke) /\ WF_vars(WakeByTimer)
    /\ SF_vars(at = "generate" /\ Notified(TRUE, FALSE))
    /\ SF_vars(SendPackets /\ \E k \in SmokeKinds : k \in queued \ queued')

------------------------------------------------------------------------------
(* Properties *)

TypeOK ==
    /\ pin \in {"low", "high"} /\ at \in Places
    /\ stored \subseteq Kinds /\ queued \subseteq Packets
    /\ \A flag \in {stay, smoke, freshBoot, haveTime, client, server, scan,
                    connectionInProgress, active, uncounted, long} : flag \in BOOLEAN

(* Smoke that stays is sent on again and again: through every sleep, which  *)
(* forgets all of it, and every boot, which sees no edge of the pin; also   *)
(* when the five minutes put the node to sleep with the message unsent.     *)
(* This asks of the other nodes that a link is there again and again when   *)
(* loop() begins, and that links are not lost for ever. *)
HeldSmokeReported ==
    /\ <>[](pin = "low")
    /\ <>[][~PeerDisconnects /\ ~ClientDisconnects]_vars
    /\ []<>(at = "generate" /\ client)
    => []<><<at = "send" /\ \E k \in SmokeKinds : k \in queued \ queued'>>_vars

(* A node that is left alone sleeps in the end: only a jumper or callbacks  *)
(* without end keep it awake. *)
SleepsInTheEnd == <>[](Awake /\ ~stay) => []<><<Counted>>_vars
==============================================================================
