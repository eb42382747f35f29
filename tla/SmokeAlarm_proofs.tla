--------------------------- MODULE SmokeAlarm_proofs ---------------------------
(***************************************************************************)
(* Smoke and the boot are not lost, and the boot is the first to be told,  *)
(* for any bounds on the clock and the interrupts.  The invariant follows  *)
(* a call of generateMessageIfNeeded: what it copied is still flagged      *)
(* until its own flag is lowered, a boot that is owed is copied by every   *)
(* call, and the character of a stored message is that of its flags.       *)
(***************************************************************************)
EXTENDS SmokeAlarm, TLAPS

(* The steps of a call before the flag's copy, and before it is lowered.    *)
Uncopied == {"poll", "copyBoot"}
BeforeClear(flag) ==
    {"copyBoot", "copySmoke", "copyLife", "decide", "clearBoot"}
      \cup (IF flag = "boot" THEN {} ELSE {"clearLife"})
      \cup (IF flag = "smoke" THEN {"clearSmoke"} ELSE {})

CopiesFlagged == \A f \in copied : pc \in BeforeClear(f) => f \in raised
BootCopied == "boot" \in owed /\ pc \notin Uncopied => "boot" \in copied
KindsTell == \A m \in messages : m.kind = Kind(m.content)

Inv ==
    /\ TypeOK /\ SmokeNotLost /\ BootFirst
    /\ CopiesFlagged /\ BootCopied /\ KindsTell

------------------------------------------------------------------------------
(* The character of a message tells whether smoke is among its flags.       *)
LEMMA KindTellsSmoke ==
    ASSUME NEW f \in SUBSET Flags, NEW g \in SUBSET Flags, Kind(f) = Kind(g), "smoke" \in f
    PROVE  "smoke" \in g
<1>1. Kind(f) \in {"*", "+", "!"}
  BY DEF Kind, Flags
<1>2. "smoke" \notin g => Kind(g) \in {"-", "?"}
  BY DEF Kind, Flags
<1>. QED
  BY <1>1, <1>2

LEMMA KindType == \A f \in SUBSET Flags : Kind(f) \in Kinds
BY DEF Kind, Kinds

LEMMA InitInv == Init => Inv
<1> SUFFICES ASSUME Init PROVE Inv
  OBVIOUS
<1>1. TypeOK
  <2>1. 0 \in 0 .. MaxMinute /\ 0 \in 0 .. MaxEdges
    BY BoundsAssumption
  <2>2. edges \in [Pins -> 0 .. MaxEdges]
    BY <2>1 DEF Init
  <2>. QED
    BY <2>1, <2>2 DEF Init, TypeOK, Flags, Steps
<1>2. SmokeNotLost
  BY DEF Init, SmokeNotLost, NotLost
<1>. QED
  BY <1>1, <1>2 DEF Init, Inv, BootFirst, CopiesFlagged, BootCopied, KindsTell, Uncopied

------------------------------------------------------------------------------
LEMMA GpioInv == ASSUME Inv, NEW pin \in Pins, GpioCallback(pin) PROVE Inv'
<1>1. TypeOK'
  BY BoundsAssumption DEF Inv, GpioCallback, TypeOK, clock, Pins, Flags
<1>. QED
  BY <1>1 DEF Inv, GpioCallback, clock, Pins, SmokeNotLost, NotLost, CopyHeld, BootFirst,
     CopiesFlagged, BootCopied, KindsTell

(* What neither touches the flags nor adds a message. *)
LEMMA ClockInv ==
    ASSUME Inv, TypeOK', messages' \subseteq messages, UNCHANGED <<raised, copied, pc, owed>>
    PROVE  Inv'
BY DEF Inv, SmokeNotLost, NotLost, CopyHeld, BootFirst, CopiesFlagged, BootCopied,
   KindsTell

LEMMA TickInv == ASSUME Inv, Tick PROVE Inv'
<1>1. TypeOK'
  BY BoundsAssumption DEF Inv, Tick, TypeOK, code
<1>. QED
  BY <1>1, ClockInv DEF Tick, code

LEMMA SetClockInv == ASSUME Inv, SetClock PROVE Inv'
<1>1. TypeOK'
  BY DEF Inv, SetClock, TypeOK, code
<1>. QED
  BY <1>1, ClockInv DEF SetClock, code

LEMMA ForgetInv == ASSUME Inv, ForgetMessages PROVE Inv'
<1>1. TypeOK'
  BY DEF Inv, ForgetMessages, TypeOK, clock
<1>. QED
  BY <1>1, ClockInv DEF ForgetMessages

LEMMA ReadTimeInv == ASSUME Inv, ReadTime PROVE Inv'
<1>1. TypeOK'
  BY DEF Inv, ReadTime, TypeOK, clock, Steps
<1>2. SmokeNotLost'
  BY DEF Inv, ReadTime, SmokeNotLost, NotLost, CopyHeld
<1>. QED
  BY <1>1, <1>2 DEF Inv, ReadTime, BootFirst, CopiesFlagged, BootCopied,
     KindsTell, Uncopied

LEMMA CopyInv ==
    ASSUME Inv, NEW flag \in Flags, NEW here, NEW next, Copy(flag, here, next),
           <<flag, here, next>> \in {<<"boot", "copyBoot", "copySmoke">>,
               <<"smoke", "copySmoke", "copyLife">>, <<"life", "copyLife", "decide">>}
    PROVE  Inv'
<1>1. TypeOK'
  BY DEF Inv, Copy, TypeOK, clock, Steps
<1>2. copied \subseteq copied' /\ UNCHANGED <<raised, owed, messages>>
  BY DEF Copy
<1>3. SmokeNotLost'
  BY <1>2 DEF Inv, Copy, SmokeNotLost, NotLost, CopyHeld
<1>4. CopiesFlagged'
  <2>1. \A f \in copied : f \in raised
    BY DEF Inv, Copy, CopiesFlagged, BeforeClear
  <2>. QED
    BY <1>2, <2>1 DEF Copy, CopiesFlagged
<1>5. BootCopied'
  <2>1. CASE flag = "boot"
    BY <1>2, <2>1 DEF Inv, Copy, BootCopied, SmokeNotLost, NotLost, CopyHeld
  <2>2. CASE flag # "boot"
    BY <1>2, <2>2 DEF Inv, Copy, BootCopied, Uncopied
  <2>. QED
    BY <2>1, <2>2
<1>. QED
  BY <1>1, <1>2, <1>3, <1>4, <1>5 DEF Inv, Copy, BootFirst, KindsTell

LEMMA DecideInv == ASSUME Inv, Decide PROVE Inv'
<1>1. TypeOK'
  BY DEF Inv, Decide, TypeOK, clock, Steps
<1>2. \A f \in copied : f \in raised
  BY DEF Inv, Decide, CopiesFlagged, BeforeClear
<1>3. SmokeNotLost'
  BY <1>2 DEF Inv, Decide, SmokeNotLost, NotLost, CopyHeld
<1>4. CopiesFlagged'
  BY <1>2 DEF Decide, CopiesFlagged
<1>. QED
  BY <1>1, <1>3, <1>4 DEF Inv, Decide, BootFirst, BootCopied, KindsTell, Uncopied

LEMMA ClearInv ==
    ASSUME Inv, NEW flag \in Flags, NEW here, NEW next, Clear(flag, here, next),
           <<flag, here, next>> \in {<<"boot", "clearBoot", "clearLife">>,
               <<"life", "clearLife", "clearSmoke">>, <<"smoke", "clearSmoke", "store">>}
    PROVE  Inv'
<1>1. TypeOK'
  BY DEF Inv, Clear, TypeOK, clock, Steps
<1>2. SmokeNotLost'
  BY DEF Inv, Clear, SmokeNotLost, NotLost, CopyHeld
<1>3. CopiesFlagged'
  BY DEF Inv, Clear, CopiesFlagged, BeforeClear
<1>. QED
  BY <1>1, <1>2, <1>3 DEF Inv, Clear, BootFirst, BootCopied, KindsTell, Uncopied

(* A message is stored, or one of its minute with the same character is, and *)
(* that names smoke when this one does. *)
LEMMA StoreInv == ASSUME Inv, Store PROVE Inv'
<1> DEFINE message == [at |-> timestamp, kind |-> Kind(copied), content |-> copied]
<1>1. /\ pc = "store" /\ pc' = "poll"
      /\ messages' = IF IsNew(Kind(copied)) THEN messages \cup {message} ELSE messages
      /\ raised' = IF IsNew(Kind(copied)) THEN raised \ {"boot"} ELSE raised
      /\ owed' = owed \ {f \in copied : \E m \in messages' : m.at = timestamp /\ f \in m.content}
      /\ UNCHANGED <<copied, timestamp, clock, edges>>
  BY DEF Store
<1>2. message \in Message
  BY KindType DEF Inv, TypeOK, Message
<1>3. TypeOK'
  BY <1>1, <1>2 DEF Inv, TypeOK, clock, Steps
<1>4. KindsTell'
  BY <1>1 DEF Inv, KindsTell
<1>n. ASSUME IsNew(Kind(copied)), NEW f \in copied
      PROVE  f \notin owed'
  <2>1. message \in messages' /\ message.at = timestamp /\ f \in message.content
    BY <1>1, <1>n
  <2> HIDE DEF message
  <2>. QED
    BY <1>1, <2>1
<1>5. ASSUME "smoke" \in copied
      PROVE  "smoke" \notin owed'
  <2>1. CASE IsNew(Kind(copied))
    BY <1>5, <1>n, <2>1
  <2>2. CASE ~IsNew(Kind(copied))
    <3>1. PICK m \in messages : m.at = timestamp /\ m.kind = Kind(copied)
      BY <2>2 DEF IsNew
    <3>2. m.content \in SUBSET Flags /\ Kind(m.content) = Kind(copied)
      BY <3>1 DEF Inv, TypeOK, Message, KindsTell
    <3>3. "smoke" \in m.content
      BY <1>5, <3>2, KindTellsSmoke DEF Inv, TypeOK
    <3>. QED
      BY <1>1, <1>5, <2>2, <3>1, <3>3
  <2>. QED
    BY <2>1, <2>2
<1>6. "boot" \notin owed'
  <2>1. CASE "boot" \in owed
    <3>1. messages = {} /\ "boot" \in copied
      BY <1>1, <2>1 DEF Inv, BootFirst, BootCopied, Uncopied
    <3>2. IsNew(Kind(copied))
      BY <3>1 DEF IsNew
    <3>. QED
      BY <1>n, <3>1, <3>2
  <2>2. CASE "boot" \notin owed
    BY <1>1, <2>2
  <2>. QED
    BY <2>1, <2>2
<1>7. SmokeNotLost'
  <2>1. "smoke" \in owed' => "smoke" \in raised'
    BY <1>1, <1>5 DEF Inv, SmokeNotLost, NotLost, CopyHeld
  <2>. QED
    BY <1>6, <2>1 DEF SmokeNotLost, NotLost
<1>. QED
  BY <1>1, <1>3, <1>4, <1>6, <1>7 DEF Inv, BootFirst, CopiesFlagged, BeforeClear, BootCopied

LEMMA NextInv == Inv /\ [Next]_vars => Inv'
<1> SUFFICES ASSUME Inv, [Next]_vars PROVE Inv'
  OBVIOUS
<1>1. ASSUME NEW pin \in Pins, GpioCallback(pin) PROVE Inv'
  BY <1>1, GpioInv
<1>2. CASE Tick
  BY <1>2, TickInv
<1>3. CASE SetClock
  BY <1>3, SetClockInv
<1>4. CASE ForgetMessages
  BY <1>4, ForgetInv
<1>5. CASE GenerateMessageIfNeeded
  <2>1. CASE ReadTime
    BY <2>1, ReadTimeInv
  <2>2. CASE Copy("boot", "copyBoot", "copySmoke")
    BY <2>2, CopyInv DEF Flags
  <2>3. CASE Copy("smoke", "copySmoke", "copyLife")
    BY <2>3, CopyInv DEF Flags
  <2>4. CASE Copy("life", "copyLife", "decide")
    BY <2>4, CopyInv DEF Flags
  <2>5. CASE Decide
    BY <2>5, DecideInv
  <2>6. CASE Clear("boot", "clearBoot", "clearLife")
    BY <2>6, ClearInv DEF Flags
  <2>7. CASE Clear("life", "clearLife", "clearSmoke")
    BY <2>7, ClearInv DEF Flags
  <2>8. CASE Clear("smoke", "clearSmoke", "store")
    BY <2>8, ClearInv DEF Flags
  <2>9. CASE Store
    BY <2>9, StoreInv
  <2>. QED
    BY <1>5, <2>1, <2>2, <2>3, <2>4, <2>5, <2>6, <2>7, <2>8, <2>9 DEF GenerateMessageIfNeeded
<1>6. CASE UNCHANGED vars
  <2>1. TypeOK'
    BY <1>6 DEF vars, code, clock, Inv, TypeOK
  <2>. QED
    BY <1>6, <2>1, ClockInv DEF vars, code
<1>. QED
  BY <1>1, <1>2, <1>3, <1>4, <1>5, <1>6 DEF Next

LEMMA AlwaysInv == Spec => []Inv
BY InitInv, NextInv, PTL DEF Spec

(* Every reachable state of the flags and of a call is well typed. *)
THEOREM SmokeTypeCorrect == Spec => []TypeOK
<1>1. Inv => TypeOK
  BY DEF Inv
<1>. QED
  BY <1>1, AlwaysInv, PTL

(* Wherever in generateMessageIfNeeded an interrupt falls, and however the  *)
(* clock jumps, smoke and the boot stay flagged or are named by a message.  *)
THEOREM SmokeIsKept == Spec => []SmokeNotLost
<1>1. Inv => SmokeNotLost
  BY DEF Inv
<1>. QED
  BY <1>1, AlwaysInv, PTL

(* Until a message has named the boot this node stores none. *)
THEOREM BootIsFirst == Spec => []BootFirst
<1>1. Inv => BootFirst
  BY DEF Inv
<1>. QED
  BY <1>1, AlwaysInv, PTL
==============================================================================
