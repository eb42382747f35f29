---------------------------- MODULE MainLoop_proofs ----------------------------
(***************************************************************************)
(* The loop's types, and that the radio scans or connects but never both,  *)
(* for any gaps.  Both are inductive: what raises one radio flag asks the  *)
(* other in the same step of the loop, and no event raises either.         *)
(***************************************************************************)
EXTENDS MainLoop, TLAPS

LEMMA Constants ==
    /\ CleanupDelay \in Nat /\ CleanupGap \in Nat /\ MaxLoop \in Nat /\ MaxLoop > 0
    /\ \A t \in Timers : Cap(t) \in Nat /\ Cap(t) > 0
<1>1. CleanupDelay \in Nat /\ CleanupGap \in Nat /\ MaxLoop \in Nat /\ MaxLoop > 0
  BY GapAssumption DEF Gaps
<1>2. /\ AnnounceGap \in Nat /\ ConnectGap \in Nat /\ SendGap \in Nat /\ OffGap \in Nat
      /\ BootLimit \in Nat /\ IdleScanGap \in Nat /\ BusyScanGap \in Nat
      /\ CleanupDelay + CleanupGap \in Nat
  BY GapAssumption DEF Gaps
<1>3. \A t \in Timers : Gap(t) \in Nat
  BY <1>1, <1>2 DEF Timers, Gap, Larger
<1>. QED
  BY <1>1, <1>3 DEF Cap

Ages == \A t \in Timers : age[t] \in -CleanupDelay .. Cap(t)

(* A timer that is restarted, or not, has an age within its bounds. *)
LEMMA RestartAges ==
    ASSUME Ages, NEW S, age' = age \/ Restart(S)
    PROVE  Ages'
BY Constants DEF Ages, Restart

LEMMA InitType == Init => TypeOK /\ RadioExclusive
<1> SUFFICES ASSUME Init PROVE TypeOK /\ RadioExclusive
  OBVIOUS
<1>1. Ages
  BY Constants DEF Init, Ages
<1>2. loopAge \in 0 .. MaxLoop
  BY Constants DEF Init
<1>. QED
  BY <1>1, <1>2 DEF Init, TypeOK, Ages, RadioExclusive

LEMMA TickType == ASSUME TypeOK, Tick PROVE TypeOK'
<1>1. Ages'
  BY Constants DEF TypeOK, Tick, Ages
<1>2. loopAge' \in 0 .. MaxLoop
  BY Constants DEF TypeOK, Tick
<1>. QED
  BY <1>1, <1>2 DEF TypeOK, Tick, Ages, radio, outside, packets

LEMMA EventsType == ASSUME TypeOK, Events PROVE TypeOK'
<1>1. CASE StopScan
  BY <1>1 DEF TypeOK, StopScan, Event, outside
<1>2. CASE ConnectionComplete
  BY <1>2 DEF TypeOK, ConnectionComplete, Event
<1>3. CASE QueryComplete
  BY <1>3 DEF TypeOK, QueryComplete, Event, outside
<1>4. CASE ConnectionsGone
  BY <1>4 DEF TypeOK, ConnectionsGone, Event, radio
<1>5. CASE ReceivePacket
  BY <1>5 DEF TypeOK, ReceivePacket, Event, radio
<1>. QED
  BY <1>1, <1>2, <1>3, <1>4, <1>5 DEF Events

LEMMA LoopType == ASSUME TypeOK, Loop PROVE TypeOK'
<1>0. Ages /\ 0 \in 0 .. MaxLoop
  BY Constants DEF TypeOK, Ages
<1>1. CASE GenerateMessageIfNeeded
  BY <1>1 DEF TypeOK, GenerateMessageIfNeeded, outside
<1>2. CASE Announce
  <2>1. age' = age \/ Restart({"announce"})
    BY <1>2 DEF Announce
  <2>2. Ages'
    BY <1>0, <2>1, RestartAges
  <2>. QED
    BY <1>2, <2>2 DEF TypeOK, Announce, Ages, radio, outside
<1>3. CASE Connect
  <2>1. age' = age \/ Restart({"connection", "announce"}) \/ Restart({"connection"})
    BY <1>3 DEF Connect
  <2>2. Ages'
    BY <1>0, <2>1, RestartAges
  <2>. QED
    BY <1>0, <1>3, <2>2 DEF TypeOK, Connect, Ages, outside, packets
<1>4. ASSUME NEW here, NEW next, HoldSending(here, next), next \in {"send", "cleanup"}
      PROVE  TypeOK'
  <2>1. Ages'
    BY <1>0, <1>4, RestartAges DEF HoldSending
  <2>. QED
    BY <1>4, <2>1 DEF TypeOK, HoldSending, Ages, radio, outside, packets
<1>5. CASE Send
  <2>1. age' = age \/ Restart({"send"})
    BY <1>5 DEF Send
  <2>2. Ages'
    BY <1>0, <2>1, RestartAges
  <2>. QED
    BY <1>5, <2>2 DEF TypeOK, Send, Ages, radio, outside, packets
<1>6. CASE TryToOff
  <2>1. age' = age \/ Restart({"off"})
    BY <1>6 DEF TryToOff
  <2>2. Ages'
    BY <1>0, <2>1, RestartAges
  <2>. QED
    BY <1>6, <2>2 DEF TypeOK, TryToOff, Ages, radio, outside, packets
<1>7. CASE Scan
  <2>1. age' = age \/ Restart({"scan"})
    BY <1>7 DEF Scan
  <2>2. Ages'
    BY <1>0, <2>1, RestartAges
  <2>. QED
    BY <1>0, <1>7, <2>2 DEF TypeOK, Scan, Ages, outside, packets
<1>8. CASE Cleanup
  <2>1. age' = age \/ Restart({"cleanup"})
    BY <1>8 DEF Cleanup
  <2>2. Ages'
    BY <1>0, <2>1, RestartAges
  <2>. QED
    BY <1>8, <2>2 DEF TypeOK, Cleanup, Ages, radio, outside, packets
<1>9. CASE Sleep
  BY <1>0, <1>9 DEF TypeOK, Sleep, radio, outside, packets
<1>. QED
  BY <1>1, <1>2, <1>3, <1>4, <1>5, <1>6, <1>7, <1>8, <1>9 DEF Loop

(* Every reachable state of the loop is well typed, whatever the gaps: no    *)
(* timer is further in the future than the first cleanup, or past its cap.   *)
THEOREM LoopTypeCorrect == Spec => []TypeOK
<1>1. TypeOK /\ [Next]_vars => TypeOK'
  <2> SUFFICES ASSUME TypeOK, [Next]_vars PROVE TypeOK'
    OBVIOUS
  <2>1. CASE UNCHANGED vars
    BY <2>1 DEF vars, radio, outside, packets, TypeOK
  <2>. QED
    BY <2>1, TickType, EventsType, LoopType DEF Next
<1>. QED
  BY <1>1, InitType, PTL DEF Spec

LEMMA RadioStep == RadioExclusive /\ [Next]_vars => RadioExclusive'
<1> SUFFICES ASSUME RadioExclusive, [Next]_vars PROVE RadioExclusive'
  OBVIOUS
<1>1. CASE Connect
  BY <1>1 DEF RadioExclusive, Connect, MayConnect
<1>2. CASE Scan
  BY <1>2 DEF RadioExclusive, Scan, MayScan
<1>3. CASE Tick \/ Sleep \/ Cleanup \/ TryToOff \/ Send \/ Announce \/ GenerateMessageIfNeeded
  BY <1>3 DEF RadioExclusive, Tick, Sleep, Cleanup, TryToOff, Send, Announce,
     GenerateMessageIfNeeded, radio
<1>4. CASE HoldSending("hold", "send") \/ HoldSending("holdScan", "cleanup")
  BY <1>4 DEF RadioExclusive, HoldSending, radio
<1>5. CASE Events
  BY <1>5 DEF RadioExclusive, Events, StopScan, ConnectionComplete, QueryComplete,
     ConnectionsGone, ReceivePacket, radio
<1>6. CASE UNCHANGED vars
  BY <1>6 DEF RadioExclusive, vars, radio
<1>. QED
  BY <1>1, <1>2, <1>3, <1>4, <1>5, <1>6 DEF Next, Loop

(* The radio never scans and connects at once, whatever the gaps and the     *)
(* time an iteration takes, with the clock moving between any two statements *)
(* and events in any order. *)
THEOREM RadioIsExclusive == Spec => []RadioExclusive
BY InitType, RadioStep, PTL DEF Spec
==============================================================================
