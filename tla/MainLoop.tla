------------------------------- MODULE MainLoop -------------------------------
(***************************************************************************)
(* main.cpp: the endless loop that polls the Bluetooth stack and, by its   *)
(* timers and by two radio flags, announces, connects, sends, releases the *)
(* keep alive pin, scans and cleans up.  The events the poll delivers are  *)
(* actions enabled while the loop polls.                                   *)
(*                                                                         *)
(* A timer is kept as its age, now - last, which is negative for a `last`  *)
(* in the future; the code subtracts unsigned 64 bit numbers, so what it   *)
(* compares with the gap is the difference modulo Wrap.                    *)
(***************************************************************************)
EXTENDS Integers

CONSTANTS
    SendGap, AnnounceGap, ConnectGap, OffGap, BootLimit,
    IdleScanGap,   \* between scans without a connection
    BusyScanGap,   \* between scans with one
    CleanupGap, CleanupDelay,
    ScanPeriod,    \* BLE_SCAN_PERIOD_MS
    MaxLoop,       \* bound: ticks one iteration takes
    Wrap           \* 2^64

Gaps == {SendGap, AnnounceGap, ConnectGap, OffGap, BootLimit, IdleScanGap,
         BusyScanGap, CleanupGap, CleanupDelay, CleanupDelay + CleanupGap, ScanPeriod}

ASSUME GapAssumption ==
    /\ Gaps \subseteq Nat /\ MaxLoop \in Nat \ {0}
    /\ Wrap \in Nat /\ \A g \in Gaps : 4 * (g + MaxLoop + 1) < Wrap

VARIABLES
    at,          \* the step of the loop that is next
    loopAge,     \* now - loopStart
    age,         \* timer -> now - last, held at its cap
    scanning,
    connectionInProgress,
    discovering, \* discover_primary_services or discover_characteristics_for_service:
                 \* "no", "asked" in this poll, or "running"
    linked,      \* conn_count > 0
    haveTime,    \* weHaveTheTime()
    alarm,       \* the boot message: "pending", "queued", or "sent" to a connection
    others,      \* havePacketsToSend() for other reasons
    keepAlive    \* KEEP_ALIVE_PIN is pulled down

radio == <<scanning, connectionInProgress, discovering>>
outside == <<linked, haveTime>>
packets == <<alarm, others>>
vars == <<at, loopAge, age, radio, outside, packets, keepAlive>>

Timers == {"announce", "connection", "send", "off", "boot", "scan", "cleanup"}

(* Ages past the cap compare alike. *)
Larger(a, b) == IF a > b THEN a ELSE b
Gap(t) ==
    CASE t = "announce" -> AnnounceGap
      [] t = "connection" -> ConnectGap
      [] t = "send" -> SendGap
      [] t = "off" -> OffGap
      [] t = "boot" -> Larger(BootLimit, CleanupDelay + CleanupGap)
      [] t = "scan" -> Larger(IdleScanGap, BusyScanGap)
      [] t = "cleanup" -> CleanupGap
Cap(t) == Gap(t) + MaxLoop + 1

(* (loopStart - last) > gap, on unsigned numbers. *)
Elapsed(t, gap) == (age[t] - loopAge) % Wrap > gap

(* Mutant: the time the timer is due next, where its last time is expected. *)
RestartAhead(S) == age' = [t \in Timers |-> IF t \in S THEN -Gap(t) ELSE age[t]]
Restart(S) == age' = [t \in Timers |-> IF t \in S THEN 0 ELSE age[t]]

Init ==
    /\ at = "poll" /\ loopAge = 0
    /\ age = [t \in Timers |-> IF t = "cleanup" THEN -CleanupDelay ELSE 0]
    /\ scanning = FALSE /\ connectionInProgress = FALSE /\ discovering = "no"
    /\ linked = FALSE /\ haveTime = FALSE
    /\ alarm = "pending" /\ others = FALSE
    /\ keepAlive = TRUE

(* Time passes between any two statements. *)
Tick ==
    /\ loopAge < MaxLoop
    /\ loopAge' = loopAge + 1
    /\ age' = [t \in Timers |-> IF age[t] < Cap(t) THEN age[t] + 1 ELSE age[t]]
    /\ UNCHANGED <<at, radio, outside, packets, keepAlive>>

------------------------------------------------------------------------------
(* cyw43_arch_poll: the events of the Bluetooth stack *)

Event ==
    /\ at = "poll"
    /\ UNCHANGED <<at, loopAge, age, alarm, keepAlive>>

(* stop_scan_handler, the one-shot timer of a scan: a poll that finds it due *)
(* runs it. *)
StopScanDue == scanning /\ age["scan"] > ScanPeriod
StopScan ==
    /\ Event /\ StopScanDue
    /\ scanning' = FALSE
    /\ UNCHANGED <<connectionInProgress, discovering, outside, others>>

(* HCI_EVENT_META_GAP, LE connection complete: of the connection this node  *)
(* asked for, or of one a peer made.                                        *)
ConnectionComplete ==
    /\ Event
    /\ connectionInProgress' = FALSE /\ discovering' = "asked" /\ linked' = TRUE
    /\ UNCHANGED <<scanning, haveTime, others>>

(* GATT_EVENT_QUERY_COMPLETE, which may start the query of characteristics; *)
(* a peer answers over the radio, after the poll that asked. *)
QueryComplete ==
    /\ Event /\ discovering = "running"
    /\ discovering' \in {"no", "asked"}
    /\ UNCHANGED <<scanning, connectionInProgress, outside, others>>

ConnectionsGone ==
    /\ Event /\ linked
    /\ linked' = FALSE
    /\ UNCHANGED <<radio, haveTime, others>>

(* processWrite: an announcement brings the time, any packet may be queued. *)
ReceivePacket ==
    /\ Event /\ linked
    /\ haveTime' = TRUE /\ others' \in {others, TRUE}
    /\ UNCHANGED <<radio, linked>>

------------------------------------------------------------------------------
(* The loop *)

(* The poll returns and generateMessageIfNeeded runs. *)
GenerateMessageIfNeeded ==
    /\ at = "poll" /\ at' = "announce" /\ ~StopScanDue
    /\ discovering' = IF discovering = "asked" THEN "running" ELSE discovering
    /\ alarm' = IF haveTime /\ alarm = "pending" THEN "queued" ELSE alarm
    /\ UNCHANGED <<loopAge, age, scanning, connectionInProgress, outside, others, keepAlive>>

Announce ==
    /\ at = "announce" /\ at' = "connect"
    /\ IF ~scanning /\ haveTime /\ Elapsed("announce", AnnounceGap)
         THEN Restart({"announce"}) /\ others' \in {others, TRUE}
         ELSE UNCHANGED <<age, others>>
    /\ UNCHANGED <<loopAge, radio, outside, alarm, keepAlive>>

(* Mutant: connections are tried for in every iteration. *)
MayConnectUntimed == ~scanning /\ ~connectionInProgress /\ discovering = "no"
MayConnect ==
    /\ ~scanning /\ ~connectionInProgress /\ discovering = "no"
    /\ Elapsed("connection", ConnectGap)

(* connect_to_first_neighbour starts a connection or finds nobody; then     *)
(* loopStart is read again, and after it lastSendPackets.                   *)
Connect ==
    /\ at = "connect"
    /\ \/ /\ MayConnect
          /\ at' = "hold" /\ loopAge' = 0
          /\ \/ connectionInProgress' = TRUE /\ Restart({"connection", "announce"})
             \/ UNCHANGED connectionInProgress /\ Restart({"connection"})
       \/ ~MayConnect /\ at' = "send" /\ UNCHANGED <<loopAge, age, connectionInProgress>>
    /\ UNCHANGED <<scanning, discovering, outside, packets, keepAlive>>

HoldSending(here, next) ==
    /\ at = here /\ at' = next
    /\ Restart({"send"})
    /\ UNCHANGED <<loopAge, radio, outside, packets, keepAlive>>

MaySend == ~scanning /\ ~connectionInProgress /\ Elapsed("send", SendGap)

(* sendPackets empties the list only over a connection. *)
Send ==
    /\ at = "send" /\ at' = "off"
    /\ IF MaySend
         THEN /\ Restart({"send"})
              /\ alarm' = IF linked /\ alarm = "queued" THEN "sent" ELSE alarm
              /\ others' \in {others, others /\ ~linked}
         ELSE UNCHANGED <<age, packets>>
    /\ UNCHANGED <<loopAge, radio, outside, keepAlive>>

HavePacketsToSend == alarm = "queued" \/ others

(* Mutant: no limit on the time a packet is waited for. *)
MayTurnOffUnlimited == ~HavePacketsToSend
MayTurnOff == ~HavePacketsToSend \/ Elapsed("boot", BootLimit)

TryToOff ==
    /\ at = "off" /\ at' = "scan"
    /\ IF Elapsed("off", OffGap)
         THEN IF MayTurnOff
                THEN keepAlive' = FALSE /\ UNCHANGED age
                ELSE Restart({"off"}) /\ UNCHANGED keepAlive
         ELSE UNCHANGED <<age, keepAlive>>
    /\ UNCHANGED <<loopAge, radio, outside, packets>>

(* Mutant: a scan is started whatever the radio does. *)
MayScanAlways == Elapsed("scan", IF linked THEN BusyScanGap ELSE IdleScanGap)
MayScan ==
    /\ ~scanning /\ ~connectionInProgress
    /\ Elapsed("scan", IF linked THEN BusyScanGap ELSE IdleScanGap)

(* start_scanning_for_local_nodes. *)
Scan ==
    /\ at = "scan"
    /\ IF MayScan
         THEN scanning' = TRUE /\ Restart({"scan"}) /\ at' = "holdScan" /\ loopAge' = 0
         ELSE at' = "cleanup" /\ UNCHANGED <<scanning, age, loopAge>>
    /\ UNCHANGED <<connectionInProgress, discovering, outside, packets, keepAlive>>

Cleanup ==
    /\ at = "cleanup" /\ at' = "sleep"
    /\ IF Elapsed("cleanup", CleanupGap)
         THEN Restart({"cleanup"})
         ELSE UNCHANGED age
    /\ UNCHANGED <<loopAge, radio, outside, packets, keepAlive>>

(* best_effort_wfe_or_timeout, then the next iteration reads loopStart. *)
Sleep ==
    /\ at = "sleep" /\ at' = "poll"
    /\ loopAge' = 0
    /\ UNCHANGED <<age, radio, outside, packets, keepAlive>>

Loop ==
    \/ GenerateMessageIfNeeded \/ Announce \/ Connect \/ HoldSending("hold", "send")
    \/ Send \/ TryToOff \/ Scan \/ HoldSending("holdScan", "cleanup") \/ Cleanup \/ Sleep

Events == StopScan \/ ConnectionComplete \/ QueryComplete \/ ConnectionsGone \/ ReceivePacket

Next == Tick \/ Events \/ Loop

Spec == Init /\ [][Next]_vars

(* The loop and the clock run on, a connection asked for completes, and a   *)
(* GATT query is answered, in the end. *)
FairSpec ==
    /\ Spec
    /\ WF_vars(Loop) /\ WF_vars(Tick) /\ WF_vars(StopScan)
    /\ SF_vars(connectionInProgress /\ ConnectionComplete)

------------------------------------------------------------------------------
(* Properties *)

TypeOK ==
    /\ at \in {"poll", "announce", "connect", "hold", "send", "off", "scan",
              "holdScan", "cleanup", "sleep"}
    /\ loopAge \in 0..MaxLoop
    /\ \A t \in Timers : age[t] \in -CleanupDelay..Cap(t)
    /\ scanning \in BOOLEAN /\ connectionInProgress \in BOOLEAN
    /\ discovering \in {"no", "asked", "running"}
    /\ linked \in BOOLEAN /\ haveTime \in BOOLEAN
    /\ alarm \in {"pending", "queued", "sent"} /\ others \in BOOLEAN
    /\ keepAlive \in BOOLEAN

(* The radio scans or connects, never both: each flag is raised in a part   *)
(* of the loop and lowered by an event, and each is asked by the other part.*)
RadioExclusive == ~(scanning /\ connectionInProgress)

(* With a connection that stays up, the boot message is sent in the end:    *)
(* scans, connection attempts and the resets of lastSendPackets that go     *)
(* with them cannot hold sendPackets off for ever. *)
AlarmSent == (alarm = "queued" /\ []linked) ~> alarm = "sent"

(* readme-picow.md:15 "signals done and expects to be powered off": the pin *)
(* is released in the end, with packets still queued if need be.            *)
PowersOff == <>~keepAlive
==============================================================================
