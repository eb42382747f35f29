------------------------------ MODULE SmokeAlarm ------------------------------
(***************************************************************************)
(* main.cpp: the three flags the smoke detector raises, the GPIO interrupt *)
(* that raises two of them at any instruction, and generateMessageIfNeeded,*)
(* which the main loop runs between polls of the Bluetooth stack and which *)
(* reads, reports and lowers them one after the other.                     *)
(***************************************************************************)
EXTENDS Naturals, FiniteSets

CONSTANTS
    MaxMinute,  \* bound: the clock, in minutes, stays below
    MaxEdges    \* bound: interrupts of each pin

ASSUME BoundsAssumption == MaxMinute \in Nat /\ MaxEdges \in Nat

VARIABLES
    raised,    \* flags that are TRUE, of fresh_boot, smoke_seen and life_check
    copied,    \* their copies in the running call
    pc,        \* the statement of generateMessageIfNeeded that is next
    timestamp, \* timestamp_ms of the running call, in minutes
    minute,    \* getTimeMs(), in minutes
    haveTime,  \* weHaveTheTime()
    messages,  \* this node's entries of the tracker's `messages`
    edges,     \* how often each pin interrupted
    owed       \* ghost: alarms raised and not yet in a message stored since

code == <<raised, copied, pc, timestamp, messages>>
clock == <<minute, haveTime>>
vars == <<code, clock, edges, owed>>

Flags == {"boot", "smoke", "life"}
Pins == {"smoke", "life"}
Steps == {"poll", "copyBoot", "copySmoke", "copyLife", "decide",
          "clearBoot", "clearLife", "clearSmoke", "store"}
Kinds == {"*", "+", "!", "-", "?"}
Message == [at : 0..MaxMinute, kind : Kinds, content : SUBSET Flags]

(* The character that tells the messages of one minute and sender apart.    *)
Kind(flags) ==
    CASE flags = Flags -> "*"
      [] flags = {"boot", "smoke"} -> "+"
      [] "smoke" \in flags /\ flags # Flags /\ flags # {"boot", "smoke"} -> "!"
      [] "life" \in flags /\ "smoke" \notin flags -> "-"
      [] OTHER -> "?"

Init ==
    /\ raised = {"boot"} /\ copied = {} /\ pc = "poll" /\ timestamp = 0
    /\ minute = 0 /\ haveTime = FALSE
    /\ messages = {} /\ edges = [p \in Pins |-> 0] /\ owed = {"boot"}

------------------------------------------------------------------------------
(* gpio_callback: an interrupt, between any two statements below. *)
GpioCallback(pin) ==
    /\ edges[pin] < MaxEdges
    /\ edges' = [edges EXCEPT ![pin] = @ + 1]
    /\ raised' = raised \cup {pin}
    /\ owed' = owed \cup {pin}
    /\ UNCHANGED <<copied, pc, timestamp, messages, clock>>

Tick ==
    /\ minute < MaxMinute
    /\ minute' = minute + 1
    /\ UNCHANGED <<code, haveTime, edges, owed>>

(* cyw43_arch_poll: an announcement sets the clock, forwards or backwards,  *)
(* and with it weHaveTheTime; cleanupStaleItems forgets old messages.       *)
SetClock ==
    /\ pc = "poll"
    /\ minute' \in 0..MaxMinute
    /\ haveTime' \in BOOLEAN
    /\ UNCHANGED <<code, edges, owed>>

ForgetMessages ==
    /\ pc = "poll"
    /\ messages' = {m \in messages : m.at >= minute}
    /\ UNCHANGED <<raised, copied, pc, timestamp, clock, edges, owed>>

(* generateMessageIfNeeded: the time, then the three copies. *)
ReadTime ==
    /\ pc = "poll" /\ pc' = "copyBoot"
    /\ timestamp' = minute
    /\ copied' = {}
    /\ UNCHANGED <<raised, messages, clock, edges, owed>>

(* Mutant: fresh_boot is not copied. *)
CopyPinsOnly(flag, here, next) ==
    /\ pc = here /\ pc' = next
    /\ copied' = copied \cup ({flag} \cap raised \cap Pins)
    /\ UNCHANGED <<raised, timestamp, messages, clock, edges, owed>>

Copy(flag, here, next) ==
    /\ pc = here /\ pc' = next
    /\ copied' = copied \cup ({flag} \cap raised)
    /\ UNCHANGED <<raised, timestamp, messages, clock, edges, owed>>

(* Mutant: the copies joined with && for ||. *)
DecideOnAll ==
    /\ pc = "decide"
    /\ pc' = IF haveTime /\ copied = Flags THEN "clearBoot" ELSE "poll"
    /\ UNCHANGED <<raised, copied, timestamp, messages, clock, edges, owed>>

Decide ==
    /\ pc = "decide"
    /\ pc' = IF haveTime /\ copied # {} THEN "clearBoot" ELSE "poll"
    /\ UNCHANGED <<raised, copied, timestamp, messages, clock, edges, owed>>

(* Mutant: the flag is lowered whether or not its copy was taken. *)
ClearAlways(flag, here, next) ==
    /\ pc = here /\ pc' = next
    /\ raised' = raised \ {flag}
    /\ UNCHANGED <<copied, timestamp, messages, clock, edges, owed>>

(* A flag is lowered when its copy said it was up. *)
Clear(flag, here, next) ==
    /\ pc = here /\ pc' = next
    /\ raised' = raised \ ({flag} \cap copied)
    /\ UNCHANGED <<copied, timestamp, messages, clock, edges, owed>>

IsNew(kind) == ~\E m \in messages : m.at = timestamp /\ m.kind = kind

(* storeMessageAndReturnIfNew and enqueueBroadcastPacket; a message whose   *)
(* id is stored is dropped.  The alarms this call copied are no longer owed *)
(* when a message that names them carries its time.                         *)
Store ==
    LET message == [at |-> timestamp, kind |-> Kind(copied), content |-> copied]
    IN /\ pc = "store" /\ pc' = "poll"
       /\ messages' = IF IsNew(message.kind) THEN messages \cup {message} ELSE messages
       /\ raised' = IF IsNew(message.kind) THEN raised \ {"boot"} ELSE raised
       /\ owed' = owed \ {f \in copied :
                            \E m \in messages' : m.at = timestamp /\ f \in m.content}
       /\ UNCHANGED <<copied, timestamp, clock, edges>>

GenerateMessageIfNeeded ==
    \/ ReadTime
    \/ Copy("boot", "copyBoot", "copySmoke")
    \/ Copy("smoke", "copySmoke", "copyLife")
    \/ Copy("life", "copyLife", "decide")
    \/ Decide
    \/ Clear("boot", "clearBoot", "clearLife")
    \/ Clear("life", "clearLife", "clearSmoke")
    \/ Clear("smoke", "clearSmoke", "store")
    \/ Store

Next ==
    \/ \E pin \in Pins : GpioCallback(pin)
    \/ Tick \/ SetClock \/ ForgetMessages
    \/ GenerateMessageIfNeeded

Spec == Init /\ [][Next]_vars

(* The main loop keeps running; interrupts and announcements may never come. *)
FairSpec == Spec /\ WF_vars(GenerateMessageIfNeeded)

------------------------------------------------------------------------------
(* Properties *)

TypeOK ==
    /\ raised \subseteq Flags /\ copied \subseteq Flags
    /\ pc \in Steps
    /\ timestamp \in 0..MaxMinute /\ minute \in 0..MaxMinute
    /\ haveTime \in BOOLEAN
    /\ messages \subseteq Message
    /\ edges \in [Pins -> 0..MaxEdges]
    /\ owed \subseteq Flags

(* The steps of a call after the copy of a flag and before its message.     *)
CopyHeld(flag) ==
    /\ flag \in copied
    /\ pc \in {"copySmoke", "copyLife", "decide", "clearBoot", "clearLife",
              "clearSmoke", "store"}

NotLost(flag) == flag \in owed => flag \in raised \/ CopyHeld(flag)

(* Wherever in generateMessageIfNeeded the interrupt falls, a smoke edge is *)
(* either still flagged, or in the hands of the running call, or named by a *)
(* stored message of that minute; so is the boot.                           *)
SmokeNotLost == NotLost("smoke") /\ NotLost("boot")

(* main.cpp:1011 "Switch - pull to ground to send a still alive message":   *)
(* the same for the life check switch.                                      *)
LifeCheckNotLost == NotLost("life")

(* The first message of a boot says so: until one has named the boot, this  *)
(* node has stored no message at all.                                       *)
BootFirst == "boot" \in owed => messages = {}

(* With the clock set, a smoke edge is named by a stored message in the end.*)
SmokeReported == ("smoke" \in owed /\ []haveTime) ~> "smoke" \notin owed

==============================================================================
