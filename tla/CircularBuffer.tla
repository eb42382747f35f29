---------------------------- MODULE CircularBuffer ----------------------------
(***************************************************************************)
(* serialLogBuffer, the ring of characters between LOG_DEBUG and            *)
(* printAvailableLogging.  The main loop logs between two calls of          *)
(* printAvailableLogging; the GPIO interrupt logs between any two of its    *)
(* statements, and on the Pico there is no lock.  An interrupt within       *)
(* write() itself is left out, and so are the members only tests call.      *)
(*                                                                          *)
(* What is logged is complete lines.  The hex dump of a packet is longer    *)
(* than what consume_line is asked for; LineIsOldest and PrintingEnds hold   *)
(* of shorter lines only.                                                   *)
(***************************************************************************)
EXTENDS Integers, Sequences, FiniteSetsExt

CONSTANTS
    FixedSize,    \* fixed_size, 2000
    LineSize,     \* line_size, SERIAL_LOG_BUFFER_LEN - 1
    Lines,        \* bound: the lines that are logged
    MaxInterrupts \* bound: interrupts in one call of printAvailableLogging

ASSUME SizeAssumption ==
    FixedSize \in Nat /\ LineSize \in 1 .. FixedSize - 2 /\ FixedSize + LineSize < 65536
ASSUME LinesAssumption ==
    \A l \in Lines : /\ l \in Seq(STRING \ {"end"}) /\ Len(l) \in 1 .. FixedSize - 1
                     /\ \A i \in DOMAIN l : l[i] = "\n" <=> i = Len(l)
ASSUME InterruptsAssumption == MaxInterrupts \in Nat

VARIABLES
    buffer, \* FixedSize characters and one more for the end item
    head, tail, maxed, willClear,
    pc,     \* the statement printAvailableLogging is at, "idle" outside
    copy,   \* head_copy and tail_copy of consume_line
    lineEnd,\* line_end: an index, or Null, or Beyond
    line,   \* the line consume_line has put together
    interrupts,
    pending,\* ghost: what a queue of FixedSize - 1 characters would hold
    raced   \* ghost: an interrupt logged what the code may lose (Loses)

ring == <<buffer, head, tail, maxed, willClear>>
reading == <<copy, lineEnd, line>>
vars == <<ring, pc, reading, interrupts, pending, raced>>

Null == -1
Beyond == FixedSize + 1
Empty == head = tail
InLine == {"measure", "take", "release", "finish"}
NewestOf(s) == SubSeq(s, Max({1, Len(s) - FixedSize + 2}), Len(s))

(* The memory of the ring is not initialised.                               *)
Init ==
    /\ \E c \in {"end", "junk"} : buffer = [i \in 0 .. FixedSize |-> c]
    /\ head = 0 /\ tail = 0 /\ maxed = FALSE /\ willClear = FALSE
    /\ pc = "idle"
    /\ copy = [head |-> 0, tail |-> 0]
    /\ lineEnd = Null
    /\ line = <<>>
    /\ interrupts = 0
    /\ pending = <<>>
    /\ raced = FALSE

------------------------------------------------------------------------------
(* Mutant: an index that is not taken round the ring. *)
PosUnwrapped(i) == head + i
Pos(i) == (head + i) % FixedSize

(* Mutant: the tail at the start of the ring not considered. *)
ReachesTailInside(items) ==
    \E i \in 0 .. Len(items) - 1 : (Pos(i) + 1) % FixedSize = tail - 1
ReachesTail(items) ==
    \E i \in 0 .. Len(items) - 1 :
        \/ (Pos(i) + 1) % FixedSize = tail - 1
        \/ tail = 0 /\ Pos(i) = FixedSize - 1

(* write(const T *items) of CircularBuffer.                                 *)
Write(items) ==
    LET n == Len(items)
        filled == [p \in 0 .. FixedSize |->
                     IF \E i \in 0 .. n - 1 : Pos(i) = p
                     THEN items[1 + (CHOOSE i \in 0 .. n - 1 : Pos(i) = p)]
                     ELSE buffer[p]]
    IN /\ willClear' = FALSE
       /\ buffer' = [filled EXCEPT ![Pos(n - 1) + 1] = "end"]
       /\ tail' = IF maxed \/ ReachesTail(items) THEN Pos(n + 1) ELSE tail
       /\ head' = Pos(n)
       /\ maxed' = (head' = tail' - 1)
       /\ pending' = NewestOf(pending \o items)

LogFromLoop ==
    /\ pc = "idle"
    /\ \E l \in Lines : Write(l)
    /\ UNCHANGED <<pc, reading, interrupts, raced>>

(* What an interrupt logs may be lost, or take other text with it, when it   *)
(* overruns the ring while a line is read from it; when it fills the ring    *)
(* after `maxed` is lowered and before the tail moves, as `maxed` then stays *)
(* up over a ring with room; and just before the ring is reset.              *)
Loses(l) ==
    \/ pc \in InLine /\ Len(pending \o l) >= FixedSize
    \/ pc = "finish" /\ Len(pending \o l) = FixedSize - 1
    \/ pc = "reset"

LogFromInterrupt ==
    /\ pc # "idle"
    /\ interrupts < MaxInterrupts
    /\ interrupts' = interrupts + 1
    /\ \E l \in Lines :
         /\ Write(l)
         /\ raced' = (raced \/ Loses(l))
    /\ UNCHANGED <<pc, reading>>

------------------------------------------------------------------------------
(* strchr(&buffer[from], '\n'): the end item stops it.  With no end item in *)
(* the ring it reads on behind it, where it may find a newline or not.      *)
Found(from) ==
    LET stops == {i \in from .. FixedSize : buffer[i] \in {"\n", "end"}}
    IN IF stops = {} THEN {Null, Beyond}
       ELSE {IF buffer[Min(stops)] = "\n" THEN Min(stops) ELSE Null}

(* memcpy out of the ring; behind its allocation lies anything.             *)
Text(from, n) ==
    [i \in 1 .. n |-> IF from + i - 1 <= FixedSize THEN buffer[from + i - 1] ELSE "junk"]
Least(a, b) == IF a < b THEN a ELSE b

(* head_copy <= tail_copy && !empty(), and what follows from it.            *)
Wrapped == copy.head <= copy.tail /\ ~Empty
(* Mutant: text that crosses the end of the ring forgotten. *)
ConsumableUnwrapped == copy.head - copy.tail
Consumable == ((IF Wrapped THEN FixedSize ELSE copy.head) - copy.tail) % 65536
WillConsume == Least(LineSize, Consumable)

(* printAvailableLogging: a ring that is full starts with part of a line.   *)
PrintAvailableLogging ==
    /\ pc = "idle"
    /\ interrupts' = 0
    /\ pc' = IF maxed THEN "line" ELSE "while"
    /\ UNCHANGED <<ring, reading, pending, raced>>
While ==
    /\ pc = "while"
    /\ pc' = IF Empty THEN "clear" ELSE "line"
    /\ UNCHANGED <<ring, reading, interrupts, pending, raced>>

(* consume_line: the copies of head and tail,                               *)
CopyEnds ==
    /\ pc = "line"
    /\ copy' = [head |-> head, tail |-> tail]
    /\ pc' = "measure"
    /\ UNCHANGED <<ring, lineEnd, line, interrupts, pending, raced>>
(* the search for the end of the line,                                      *)
FindLineEnd ==
    /\ pc = "measure"
    /\ lineEnd' \in Found(copy.tail)
    /\ pc' = "take"
    /\ UNCHANGED <<ring, copy, line, interrupts, pending, raced>>

(* Mutant: the newline left behind. *)
ExtraWithoutNewline(end) == end
Extra(end) == end + 1

(* A chunk longer than LineSize with no newline: more of it, wherever the  *)
(* comparison with head_copy sends the tail.                                *)
TailOfLongChunk ==
    LET t == copy.tail + LineSize
    IN IF LineSize <= copy.head THEN t % FixedSize
       ELSE IF copy.head <= t /\ ~Empty THEN LineSize
       ELSE copy.head

(* the copy of a line up to its newline, or up to the end of the ring and   *)
(* on from its start; the copy of tail moves behind it.                     *)
TakeLine ==
    /\ pc = "take"
    /\ IF lineEnd # Null
       THEN LET n == Least(WillConsume, lineEnd - copy.tail + 1)
            IN /\ line' = Text(copy.tail, n)
               /\ copy' = [copy EXCEPT !.tail = (@ + n) % FixedSize]
       ELSE IF Consumable # WillConsume
       THEN /\ line' = Text(copy.tail, LineSize)
            /\ copy' = [copy EXCEPT !.tail = TailOfLongChunk]
       ELSE IF Wrapped
       THEN \E end \in Found(0) :
              LET n == IF end = Null THEN 0
                       ELSE Least(LineSize - WillConsume, Extra(end))
              IN /\ line' = Text(copy.tail, WillConsume) \o Text(0, n)
                 /\ copy' = [copy EXCEPT !.tail = n % FixedSize]
       ELSE /\ line' = Text(copy.tail, WillConsume)
            /\ copy' = [copy EXCEPT !.tail = copy.head]
    /\ pc' = "release"
    /\ UNCHANGED <<ring, lineEnd, interrupts, pending, raced>>
(* and the ring released.                                                   *)
ReleaseMaxed ==
    /\ pc = "release"
    /\ maxed' = FALSE
    /\ pc' = "finish"
    /\ UNCHANGED <<buffer, head, tail, willClear, reading, interrupts, pending, raced>>
(* Mutant: the copy of tail not stored. *)
FinishKeepingTail ==
    /\ pc = "finish"
    /\ pc' = "while"
    /\ UNCHANGED <<ring, reading, interrupts, pending, raced>>
Finish ==
    /\ pc = "finish"
    /\ tail' = copy.tail
    /\ pc' = "while"
    /\ pending' = SubSeq(pending, Len(line) + 1, Len(pending))
    /\ UNCHANGED <<buffer, head, maxed, willClear, reading, interrupts, raced>>

------------------------------------------------------------------------------
(* clear_if_empty: the flag that a write lowers again, the test, the reset. *)
WillClear ==
    /\ pc = "clear"
    /\ willClear' = TRUE
    /\ pc' = "test"
    /\ UNCHANGED <<buffer, head, tail, maxed, reading, interrupts, pending, raced>>
TestEmpty ==
    /\ pc = "test"
    /\ pc' = IF Empty /\ willClear THEN "reset" ELSE "idle"
    /\ UNCHANGED <<ring, reading, interrupts, pending, raced>>
Reset ==
    /\ pc = "reset"
    /\ head' = 0 /\ tail' = 0 /\ maxed' = FALSE
    /\ pc' = "idle"
    /\ UNCHANGED <<buffer, willClear, reading, interrupts, pending, raced>>

PrintStep ==
    \/ While \/ CopyEnds \/ FindLineEnd \/ TakeLine \/ ReleaseMaxed \/ Finish
    \/ WillClear \/ TestEmpty \/ Reset

Next == LogFromLoop \/ LogFromInterrupt \/ PrintAvailableLogging \/ PrintStep

Spec == Init /\ [][Next]_vars /\ WF_vars(PrintStep)

------------------------------------------------------------------------------
Characters == {"end", "junk"} \cup UNION {{l[i] : i \in DOMAIN l} : l \in Lines}

(* The type of every variable.                                              *)
TypeOK ==
    /\ buffer \in [0 .. FixedSize -> Characters]
    /\ head \in 0 .. FixedSize - 1 /\ tail \in 0 .. FixedSize - 1
    /\ maxed \in BOOLEAN /\ willClear \in BOOLEAN /\ raced \in BOOLEAN
    /\ pc \in InLine \cup {"idle", "while", "line", "clear", "test", "reset"}
    /\ copy \in [head : 0 .. FixedSize - 1, tail : 0 .. FixedSize - 1]
    /\ lineEnd \in Null .. Beyond
    /\ \A i \in DOMAIN line : line[i] \in Characters
    /\ interrupts \in 0 .. MaxInterrupts
    /\ \A i \in DOMAIN pending : pending[i] \in Characters

Held == [i \in 1 .. (head - tail) % FixedSize |-> buffer[(tail + i - 1) % FixedSize]]

(* Unless an interrupt lost text (Loses), the ring holds what a             *)
(* queue would: the newest FixedSize - 1 characters logged and not yet      *)
(* read, in order, wherever the text crosses the end of the ring.           *)
InOrder == ~raced => Held = pending

(* test_circular_buffer.cpp:326 "d lineabcdefghijklmnopqrstuvwx": what is    *)
(* read is the oldest text of the queue, in pieces if there is no newline    *)
(* within line_size, wherever it lies in the ring.                           *)
ReadInOrder == (pc = "finish" /\ ~raced) => line = SubSeq(pending, 1, Len(line))

(* Of lines that fit, what is read is the oldest up to its newline, also     *)
(* across the end of the ring: nothing is printed twice, skipped or made up. *)
(* Only a newline that strchr finds behind the ring cuts a line in two.      *)
LineIsOldest ==
    /\ ReadInOrder
    /\ (pc = "finish" /\ ~raced /\ lineEnd # Beyond) => line[Len(line)] = "\n"

(* printAvailableLogging does not look at line[-1]: consume_line returns at *)
(* least one character of a ring that was found not empty.                  *)
LineHasText == (pc = "finish" /\ ~raced) => line # <<>>

(* printAvailableLogging comes to an end, interrupts that log while it runs *)
(* and all.                                                                 *)
PrintingEnds == pc # "idle" ~> pc = "idle"
=============================================================================
