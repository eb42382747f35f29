---------------------------- MODULE RawSend_proofs ----------------------------
(***************************************************************************)
(* The invariants of RawSend, for any set of handles and any bound of a    *)
(* queue.  TypeOK and FreshHasData are inductive; NewestAsked is with them.*)
(***************************************************************************)
EXTENDS RawSend, TLAPS, WellFoundedInduction

LEMMA FirstOfQueue ==
    ASSUME NEW queue, NEW c, From(queue, c) # {}
    PROVE  \E h \in From(queue, c) : \A g \in From(queue, c) : h <= g
<1> DEFINE S == From(queue, c)
<1>1. S \subseteq Nat
  BY HandleAssumption DEF From
<1>2. PICK x \in S : \A y \in S : ~(<<y, x>> \in OpToRel(<, Nat))
  BY <1>1, NatLessThanWellFounded, WFMin
<1>3. \A y \in S : ~(y < x)
  BY <1>1, <1>2 DEF OpToRel
<1>. QED
  BY <1>1, <1>3

(* A call leaves a number of packets, none negative, under every handle. *)
LEMMA AfterSendShrinks ==
    ASSUME NEW queue \in [Handle -> 0..MaxRaw], NEW c, NEW result
    PROVE  AfterSend(queue, c, result) \in [Handle -> 0..MaxRaw]
<1>1. CASE From(queue, c) = {} \/ ~Erased(result)
  BY <1>1 DEF AfterSend
<1>2. CASE ~(From(queue, c) = {} \/ ~Erased(result))
  <2> DEFINE h == CHOOSE f \in From(queue, c) : \A g \in From(queue, c) : f <= g
  <2>1. h \in From(queue, c)
    BY <1>2, FirstOfQueue
  <2>2. h \in Handle /\ queue[h] > 0
    BY <2>1 DEF From
  <2>3. AfterSend(queue, c, result) = [queue EXCEPT ![h] = @ - 1]
    BY <1>2 DEF AfterSend, WithoutOne
  <2>. QED
    BY <2>2, <2>3, BoundAssumption
<1>. QED
  BY <1>1, <1>2

------------------------------------------------------------------------------
(* Type correctness *)

LEMMA InitType == Init => TypeOK
BY BoundAssumption DEF Init, TypeOK, Queues, Up

LEMMA CanSendType ==
    ASSUME TypeOK, NEW q \in Queues, NEW l \in Handle, NEW result \in Results,
           CanSend(q, l, result)
    PROVE  TypeOK'
<1> DEFINE left == AfterSend(raw[q], context[q], result)
<1>1. left \in [Handle -> 0..MaxRaw]
  BY AfterSendShrinks DEF TypeOK
<1>2. raw' = [raw EXCEPT ![q] = left] /\ raw' \in [Queues -> [Handle -> 0..MaxRaw]]
  BY <1>1 DEF CanSend, TypeOK
<1>3. fresh' \in [Queues -> [Handle -> Nat]]
  <2> DEFINE rest == [h \in Handle |-> IF fresh[q][h] > left[h] THEN left[h] ELSE fresh[q][h]]
  <2>1. rest \in [Handle -> Nat]
    BY <1>1 DEF TypeOK
  <2>2. fresh' = [fresh EXCEPT ![q] = rest]
    BY DEF CanSend
  <2>. QED
    BY <2>1, <2>2 DEF TypeOK
<1>4. asked' \in [Queues -> SUBSET Up]
  BY DEF CanSend, TypeOK
<1>5. link' = link /\ Up' = Up
  BY DEF CanSend, Up
<1>. QED
  BY <1>2, <1>3, <1>4, <1>5 DEF TypeOK, CanSend

LEMMA SendType ==
    ASSUME TypeOK, NEW h \in Handle, SendPacketToConnection(h)
    PROVE  TypeOK'
<1>1. link[h] \in Queues /\ h \in Up /\ Up' = Up
  BY DEF SendPacketToConnection, TypeOK, Up
<1>2. /\ raw' = [raw EXCEPT ![link[h]][h] = @ + 1]
      /\ raw[link[h]][h] < MaxRaw
      /\ fresh' = [fresh EXCEPT ![link[h]][h] = @ + 1]
  BY DEF SendPacketToConnection
<1>3. raw' \in [Queues -> [Handle -> 0..MaxRaw]]
  BY <1>1, <1>2, BoundAssumption DEF TypeOK
<1>4. fresh' \in [Queues -> [Handle -> Nat]]
  BY <1>1, <1>2 DEF TypeOK
<1>5. /\ context' \in [Queues -> Handle \cup {0}]
      /\ asked' \in [Queues -> SUBSET Up']
      /\ hasData' \in [Handle -> BOOLEAN]
      /\ link' = link
  BY <1>1 DEF SendPacketToConnection, Request, Marked, TypeOK
<1>. QED
  BY <1>3, <1>4, <1>5 DEF TypeOK

LEMMA TypeStep == TypeOK /\ [Next]_vars => TypeOK'
<1> SUFFICES ASSUME TypeOK, [Next]_vars PROVE TypeOK'
  OBVIOUS
<1>1. ASSUME NEW h \in Handle, NEW q \in Queues, NEW wasNeighbour \in BOOLEAN,
             ReportConnection(h, q, wasNeighbour)
      PROVE  TypeOK'
  BY <1>1 DEF ReportConnection, TypeOK, Up, Queues
<1>2. ASSUME NEW h \in Handle, ReportDisconnection(h)
      PROVE  TypeOK'
  BY <1>2 DEF ReportDisconnection, TypeOK, Up, Queues
<1>3. ASSUME NEW h \in Handle, ForgetConnection(h)
      PROVE  TypeOK'
  BY <1>3 DEF ForgetConnection, TypeOK, Up
<1>4. CASE UNCHANGED vars
  BY <1>4 DEF vars, TypeOK, Up
<1>. QED
  BY <1>1, <1>2, <1>3, <1>4, SendType, CanSendType DEF Next

(* Every reachable state is well typed; in particular a callback never      *)
(* takes a packet from under a handle that has none.                        *)
THEOREM RawTypeCorrect == Spec => []TypeOK
BY InitType, TypeStep, PTL DEF Spec

------------------------------------------------------------------------------
(* Packets of the session that is up *)

LEMMA InitFresh == Init => FreshHasData /\ NewestAsked
BY DEF Init, FreshHasData, NewestAsked, Queues

(* A callback leaves no handle with more packets of its session.            *)
LEMMA CanSendFresh ==
    ASSUME TypeOK, NEW q \in Queues, NEW l \in Handle, NEW result \in Results,
           CanSend(q, l, result), NEW p \in Queues, NEW h \in Handle
    PROVE  /\ fresh'[p][h] <= fresh[p][h]
           /\ fresh'[p][h] <= raw'[p][h] \/ p # q
<1> DEFINE left == AfterSend(raw[q], context[q], result)
           rest == [g \in Handle |-> IF fresh[q][g] > left[g] THEN left[g] ELSE fresh[q][g]]
<1>1. left \in [Handle -> 0..MaxRaw]
  BY AfterSendShrinks DEF TypeOK
<1>2. fresh' = [fresh EXCEPT ![q] = rest] /\ raw' = [raw EXCEPT ![q] = left]
  BY DEF CanSend
<1>3. rest[h] <= fresh[q][h] /\ rest[h] <= left[h]
  BY <1>1, BoundAssumption DEF TypeOK
<1>. QED
  BY <1>2, <1>3 DEF TypeOK

LEMMA FreshStep == TypeOK /\ FreshHasData /\ [Next]_vars => FreshHasData'
<1> SUFFICES ASSUME TypeOK, FreshHasData, [Next]_vars,
                    NEW q \in Queues, NEW h \in Handle, fresh'[q][h] > 0
             PROVE  link'[h] = q /\ hasData'[h]
  BY DEF FreshHasData
<1>1. ASSUME NEW g \in Handle, NEW r \in Queues, NEW wasNeighbour \in BOOLEAN,
             ReportConnection(g, r, wasNeighbour)
      PROVE  link'[h] = q /\ hasData'[h]
  <2>1. link[h] = q /\ hasData[h]
    BY <1>1 DEF ReportConnection, FreshHasData
  <2>2. h # g
    BY <1>1, <2>1 DEF ReportConnection, Up, Queues
  <2>. QED
    BY <1>1, <2>1, <2>2 DEF ReportConnection, TypeOK
<1>2. ASSUME NEW g \in Handle, ReportDisconnection(g)
      PROVE  link'[h] = q /\ hasData'[h]
  <2>1. h # g /\ fresh[q][h] > 0
    BY <1>2 DEF ReportDisconnection, TypeOK
  <2>. QED
    BY <1>2, <2>1 DEF ReportDisconnection, TypeOK, FreshHasData
<1>3. ASSUME NEW g \in Handle, ForgetConnection(g)
      PROVE  link'[h] = q /\ hasData'[h]
  <2>1. link[h] = q /\ hasData[h]
    BY <1>3 DEF ForgetConnection, FreshHasData
  <2>2. h # g
    BY <1>3, <2>1 DEF ForgetConnection, Up, Queues
  <2>. QED
    BY <1>3, <2>1, <2>2 DEF ForgetConnection, TypeOK
<1>4. ASSUME NEW g \in Handle, SendPacketToConnection(g)
      PROVE  link'[h] = q /\ hasData'[h]
  <2>1. /\ link' = link
        /\ hasData' = [hasData EXCEPT ![g] = TRUE]
        /\ link[g] \in Queues
        /\ fresh' = [fresh EXCEPT ![link[g]][g] = @ + 1]
    BY <1>4 DEF SendPacketToConnection, Marked, Up, TypeOK
  <2>2. CASE h = g /\ q = link[g]
    BY <2>1, <2>2 DEF TypeOK
  <2>3. CASE ~(h = g /\ q = link[g])
    <3>1. fresh[q][h] > 0
      BY <2>1, <2>3 DEF TypeOK
    <3>. QED
      BY <2>1, <3>1 DEF TypeOK, FreshHasData
  <2>. QED
    BY <2>2, <2>3
<1>5. ASSUME NEW r \in Queues, NEW l \in Handle, NEW result \in Results, CanSend(r, l, result)
      PROVE  link'[h] = q /\ hasData'[h]
  <2>1. fresh'[q][h] <= fresh[q][h]
    BY <1>5, CanSendFresh
  <2>2. fresh[q][h] > 0
    <3>1. fresh[q][h] \in Nat /\ fresh'[q][h] \in Nat
      BY <1>5, CanSendType DEF TypeOK
    <3>. QED
      BY <2>1, <3>1
  <2>. QED
    BY <1>5, <2>2 DEF CanSend, FreshHasData
<1>6. CASE UNCHANGED vars
  BY <1>6 DEF vars, FreshHasData
<1>. QED
  BY <1>1, <1>2, <1>3, <1>4, <1>5, <1>6 DEF Next

(* A packet of this session finds its record with data; what can meet the   *)
(* assertion of a callback without is left over from an ended connection.   *)
THEOREM FreshPacketsHaveData == Spec => []FreshHasData
<1>1. Init => FreshHasData
  BY InitFresh
<1>. QED
  BY <1>1, RawTypeCorrect, FreshStep, PTL DEF Spec

------------------------------------------------------------------------------
(* The registration of a queue *)

LEMMA NewestStep == TypeOK /\ NewestAsked /\ [Next]_vars => NewestAsked'
<1> SUFFICES ASSUME TypeOK, NewestAsked, [Next]_vars,
                    NEW q \in Queues, NEW h \in Handle, context'[q] = h, fresh'[q][h] > 0
             PROVE  h \in asked'[q]
  BY DEF NewestAsked
<1>1. ASSUME NEW g \in Handle, ReportDisconnection(g)
      PROVE  h \in asked'[q]
  <2>1. h # g /\ fresh[q][h] > 0 /\ context[q] = h
    BY <1>1 DEF ReportDisconnection, TypeOK
  <2>. QED
    BY <1>1, <2>1 DEF ReportDisconnection, NewestAsked
<1>2. ASSUME NEW g \in Handle, SendPacketToConnection(g)
      PROVE  h \in asked'[q]
  <2>1. /\ g \in Up /\ link[g] \in Queues
        /\ context' = [context EXCEPT ![link[g]] = g]
        /\ asked' = [asked EXCEPT ![link[g]] = @ \cup ({g} \cap Up)]
        /\ fresh' = [fresh EXCEPT ![link[g]][g] = @ + 1]
    BY <1>2 DEF SendPacketToConnection, Request, Up, TypeOK
  <2>2. CASE q = link[g]
    BY <2>1, <2>2 DEF TypeOK
  <2>3. CASE q # link[g]
    <3>1. context[q] = h /\ fresh[q][h] > 0
      BY <2>1, <2>3 DEF TypeOK
    <3>. QED
      BY <2>1, <2>3, <3>1 DEF TypeOK, NewestAsked
  <2>. QED
    BY <2>2, <2>3
<1>3. ASSUME NEW r \in Queues, NEW l \in Handle, NEW result \in Results, CanSend(r, l, result)
      PROVE  h \in asked'[q]
  <2> DEFINE left == AfterSend(raw[r], context[r], result)
  <2>1. /\ fresh'[q][h] <= fresh[q][h]
        /\ fresh'[q][h] <= raw'[q][h] \/ q # r
    BY <1>3, CanSendFresh
  <2>2. fresh[q][h] \in Nat /\ fresh'[q][h] \in Nat /\ raw'[q][h] \in Nat
    BY <1>3, CanSendType DEF TypeOK
  <2>3. context[q] = h /\ fresh[q][h] > 0 /\ (raw'[q][h] > 0 \/ q # r)
    BY <1>3, <2>1, <2>2 DEF CanSend
  <2>4. h \in asked[q] /\ h \in Up
    BY <2>3 DEF NewestAsked, TypeOK
  <2>5. CASE q # r
    BY <1>3, <2>4, <2>5 DEF CanSend
  <2>6. CASE q = r
    <3>1. raw'[q] = left
      BY <1>3, <2>6 DEF CanSend, TypeOK
    <3>2. h \in From(left, context[r])
      BY <2>3, <2>6, <3>1, HandleAssumption DEF From
    <3>3. asked'[q] = (asked[q] \ {l}) \cup ({h} \cap Up)
      BY <1>3, <2>3, <2>6, <3>2 DEF CanSend, TypeOK
    <3>. QED
      BY <2>4, <3>3
  <2>. QED
    BY <2>5, <2>6
<1>4. ASSUME UNCHANGED <<context, asked, fresh>>
      PROVE  h \in asked'[q]
  BY <1>4 DEF NewestAsked
<1>. QED
  BY <1>1, <1>2, <1>3, <1>4 DEF Next, vars, ReportConnection, ForgetConnection

(* The handle a registration names has it at its own link as long as a      *)
(* packet of this session waits there, whoever else was asked for.          *)
THEOREM NewestIsAskedFor == Spec => []NewestAsked
<1>1. Init => NewestAsked
  BY InitFresh
<1>. QED
  BY <1>1, RawTypeCorrect, NewestStep, PTL DEF Spec
==============================================================================
