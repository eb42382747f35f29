------------------------- MODULE CircularBuffer_proofs -------------------------
(***************************************************************************)
(* The ring is a queue of FixedSize - 1 characters, for any size, any lines *)
(* that fit a line of the log and any number of interrupts.  The invariant  *)
(* gives a meaning to `maxed`, to the copies of head and tail, and to the   *)
(* end of the line that consume_line has found, at each of its statements;  *)
(* it rests on where the newlines are in the text.                          *)
(***************************************************************************)
EXTENDS CircularBuffer, TLAPS, WellFoundedInduction

(* The lines that consume_line can return whole. *)
LinesFit == \A l \in Lines : Len(l) <= LineSize

(* The characters of the text. *)
Ink == UNION {{l[i] : i \in DOMAIN l} : l \in Lines}

(* Places round the ring, without a modulus: i places on from t. *)
At(t, i) == IF t + i < FixedSize THEN t + i ELSE t + i - FixedSize

(* The ring of b with these ends holds the text s. *)
Holds(b, h, t, s) ==
    /\ Len(s) <= FixedSize - 1
    /\ h = At(t, Len(s))
    /\ \A j \in 1 .. Len(s) : b[At(t, j - 1)] = s[j]

(* From any character of the text there is a newline within LineSize. *)
HasLines(s) ==
    \A i \in 1 .. Len(s) : \E j \in i .. Len(s) : j < i + LineSize /\ s[j] = "\n"

First(s, k) == k \in 1 .. Len(s) /\ s[k] = "\n" /\ \A i \in 1 .. k - 1 : s[i] # "\n"

MaxedRight ==
    /\ pc # "finish" => (maxed <=> head = tail - 1)
    /\ pc = "finish" => ~maxed

SnapshotRight ==
    pc \in {"measure", "take"} =>
        /\ copy.tail = tail
        /\ \E m \in 1 .. Len(pending) : copy.head = At(tail, m) /\ pending[m] = "\n"

LineEndRight ==
    pc = "take" =>
        \E k \in 1 .. LineSize :
            /\ First(pending, k)
            /\ IF tail + k - 1 < FixedSize THEN lineEnd = tail + k - 1
               ELSE lineEnd \in {Null, Beyond}

LineRight ==
    pc \in {"release", "finish"} =>
        /\ Len(line) \in 1 .. Len(pending)
        /\ line = SubSeq(pending, 1, Len(line))
        /\ copy.tail = At(tail, Len(line))
        /\ line[Len(line)] = "\n" \/ lineEnd = Beyond

Typed ==
    /\ TypeOK
    /\ pending \in Seq(Ink) /\ line \in Seq(Characters)
    /\ buffer[FixedSize] # "\n"

Good ==
    /\ Holds(buffer, head, tail, pending)
    /\ MaxedRight
    /\ pc = "line" => pending # <<>>
    /\ pc = "reset" => pending = <<>>
    /\ SnapshotRight
    /\ LineEndRight
    /\ LineRight

Inv == Typed /\ HasLines(pending) /\ (~raced => Good)

------------------------------------------------------------------------------
(* Numbers *)

LEMMA Sizes ==
    /\ FixedSize \in Nat /\ LineSize \in Nat /\ LineSize >= 1
    /\ LineSize <= FixedSize - 2 /\ FixedSize + LineSize < 65536
BY SizeAssumption

LEMMA AtRange ==
    ASSUME NEW t \in 0 .. FixedSize - 1, NEW i \in 0 .. FixedSize
    PROVE  At(t, i) \in 0 .. FixedSize - 1
BY Sizes DEF At

LEMMA AtAt ==
    ASSUME NEW t \in 0 .. FixedSize - 1, NEW a \in 0 .. FixedSize, NEW b \in 0 .. FixedSize
    PROVE  At(At(t, a), b) = IF a + b <= FixedSize THEN At(t, a + b) ELSE At(t, a + b - FixedSize)
BY Sizes DEF At

LEMMA AtInjective ==
    ASSUME NEW t \in 0 .. FixedSize - 1, NEW i \in 0 .. FixedSize - 1, NEW j \in 0 .. FixedSize - 1,
           At(t, i) = At(t, j)
    PROVE  i = j
BY Sizes DEF At

LEMMA ModIs ==
    ASSUME NEW d \in Nat, d > 0, NEW x \in Int, -d <= x, x < 2 * d
    PROVE  x % d = IF x < 0 THEN x + d ELSE IF x < d THEN x ELSE x - d
<1>1. CASE x < 0
  BY <1>1, SMTT(30)
<1>2. CASE 0 <= x /\ x < d
  BY <1>2, SMTT(30)
<1>3. CASE d <= x
  BY <1>3, SMTT(30)
<1>. QED
  BY <1>1, <1>2, <1>3

LEMMA PosIsAt ==
    ASSUME head \in 0 .. FixedSize - 1, NEW i \in 0 .. FixedSize
    PROVE  Pos(i) = At(head, i) /\ Pos(i) \in 0 .. FixedSize - 1
<1>1. head + i \in Int /\ 0 <= head + i /\ head + i < 2 * FixedSize
  BY Sizes
<1>2. (head + i) % FixedSize = IF head + i < FixedSize THEN head + i ELSE head + i - FixedSize
  BY <1>1, Sizes
<1>. QED
  BY <1>1, <1>2, Sizes DEF Pos, At

LEMMA MaxOf ==
    ASSUME NEW x \in Int
    PROVE  Max({1, x}) = IF x > 1 THEN x ELSE 1
BY DEF Max

LEMMA NewestIs ==
    ASSUME NEW S, NEW s \in Seq(S)
    PROVE  LET kept == IF Len(s) < FixedSize THEN Len(s) ELSE FixedSize - 1
           IN /\ NewestOf(s) \in Seq(S) /\ Len(NewestOf(s)) = kept
              /\ \A j \in 1 .. kept : NewestOf(s)[j] = s[Len(s) - kept + j]
<1> DEFINE from == Len(s) - FixedSize + 2
<1>1. Len(s) \in Nat /\ from \in Int
  BY Sizes
<1>2. NewestOf(s) = SubSeq(s, IF from > 1 THEN from ELSE 1, Len(s))
  BY <1>1, MaxOf DEF NewestOf
<1>3. CASE Len(s) < FixedSize
  <2>1. ~(from > 1)
    BY <1>1, <1>3, Sizes
  <2>2. NewestOf(s) = SubSeq(s, 1, Len(s))
    BY <1>2, <2>1
  <2> HIDE DEF from
  <2>. QED
    BY <1>1, <1>3, <2>2
<1>4. CASE ~(Len(s) < FixedSize)
  <2>1. from >= 1 /\ from <= Len(s) /\ Len(s) - (FixedSize - 1) = from - 1
    BY <1>1, <1>4, Sizes
  <2>2. NewestOf(s) = SubSeq(s, from, Len(s))
    BY <1>1, <1>2, <2>1
  <2>3. Len(s) - from + 1 = FixedSize - 1
    BY <1>1, Sizes
  <2> HIDE DEF from
  <2>. QED
    BY <1>1, <1>4, <2>1, <2>2, <2>3, Sizes
<1>. QED
  BY <1>3, <1>4

LEMMA LineFacts ==
    /\ "end" \notin Ink /\ Ink \subseteq Characters
    /\ \A l \in Lines : /\ l \in Seq(Ink) /\ Len(l) \in 1 .. FixedSize - 1
                        /\ l[Len(l)] = "\n" /\ \A i \in 1 .. Len(l) : l[i] = "\n" => i = Len(l)
<1>1. ASSUME NEW l \in Lines
      PROVE  /\ l \in Seq(STRING \ {"end"}) /\ Len(l) \in 1 .. FixedSize - 1
             /\ DOMAIN l = 1 .. Len(l)
             /\ \A i \in 1 .. Len(l) : l[i] = "\n" <=> i = Len(l)
  BY LinesAssumption
<1>2. \A l \in Lines : \A i \in 1 .. Len(l) : l[i] \in Ink /\ l[i] # "end"
  BY <1>1 DEF Ink
<1>3. "end" \notin Ink
  BY <1>1, <1>2 DEF Ink
<1>4. ASSUME NEW l \in Lines
      PROVE  l \in Seq(Ink)
  BY <1>1, <1>2
<1>5. Ink \subseteq Characters
  BY DEF Ink, Characters
<1>. QED
  BY <1>1, <1>3, <1>4, <1>5, Sizes
------------------------------------------------------------------------------
(* Writing *)

(* A line is written from head on, with an end item behind it, and nothing  *)
(* else is. *)
LEMMA WriteBuffer ==
    ASSUME Typed, NEW l \in Lines, Write(l)
    PROVE  /\ buffer' \in [0 .. FixedSize -> Characters] /\ buffer'[FixedSize] # "\n"
           /\ \A i \in 0 .. Len(l) - 1 : buffer'[At(head, i)] = l[i + 1]
           /\ \A p \in 0 .. FixedSize - 1 :
                (\A i \in 0 .. Len(l) : At(head, i) # p) => buffer'[p] = buffer[p]
<1> DEFINE n == Len(l)
           At0(i) == At(head, i)
           filled == [p \in 0 .. FixedSize |->
                        IF \E i \in 0 .. n - 1 : Pos(i) = p
                        THEN l[1 + (CHOOSE i \in 0 .. n - 1 : Pos(i) = p)]
                        ELSE buffer[p]]
<1>1. /\ l \in Seq(Ink) /\ n \in 1 .. FixedSize - 1 /\ DOMAIN l = 1 .. n
      /\ \A i \in 1 .. n : l[i] \in Characters
  BY LineFacts
<1>2. /\ buffer \in [0 .. FixedSize -> Characters] /\ head \in 0 .. FixedSize - 1
      /\ buffer[FixedSize] # "\n" /\ "end" \in Characters
  BY DEF Typed, TypeOK, Characters
<1>3. \A i \in 0 .. n : Pos(i) = At0(i) /\ At0(i) \in 0 .. FixedSize - 1
  <2>1. ASSUME NEW i \in 0 .. n
        PROVE  Pos(i) = At(head, i) /\ At(head, i) \in 0 .. FixedSize - 1
    <3>1. i \in 0 .. FixedSize
      BY <1>1, Sizes
    <3>2. Pos(i) = At(head, i) /\ Pos(i) \in 0 .. FixedSize - 1
      BY <1>2, <3>1, PosIsAt
    <3>. QED
      BY <3>2
  <2>. QED
    BY <2>1
<1>4. \A i, j \in 0 .. n : At0(i) = At0(j) => i = j
  BY <1>1, <1>2, Sizes DEF At
<1>5. Pos(n - 1) + 1 \in 1 .. FixedSize /\ Pos(n - 1) + 1 \in {At0(n), FixedSize}
  BY <1>1, <1>2, <1>3, Sizes DEF At
<1>6. buffer' = [filled EXCEPT ![Pos(n - 1) + 1] = "end"]
  BY DEF Write
<1>7. \A i \in 0 .. n - 1 : filled[At0(i)] = l[i + 1]
  <2> SUFFICES ASSUME NEW i \in 0 .. n - 1
               PROVE  filled[At0(i)] = l[i + 1]
    OBVIOUS
  <2>1. i \in 0 .. n /\ At0(i) \in 0 .. FixedSize /\ Pos(i) = At0(i)
    BY <1>1, <1>3, Sizes
  <2> DEFINE c == CHOOSE k \in 0 .. n - 1 : Pos(k) = At0(i)
  <2>2. c \in 0 .. n - 1 /\ Pos(c) = At0(i)
    BY <2>1
  <2>3. c = i
    BY <1>1, <1>3, <1>4, <2>1, <2>2
  <2>4. filled[At0(i)] = l[1 + c]
    BY <2>1
  <2> HIDE DEF c, filled, At0
  <2>. QED
    BY <2>3, <2>4
<1>8. \A p \in 0 .. FixedSize : (\A i \in 0 .. n - 1 : At0(i) # p) => filled[p] = buffer[p]
  <2> SUFFICES ASSUME NEW p \in 0 .. FixedSize, \A i \in 0 .. n - 1 : At0(i) # p
               PROVE  filled[p] = buffer[p]
    OBVIOUS
  <2>1. ~\E i \in 0 .. n - 1 : Pos(i) = p
    BY <1>1, <1>3
  <2>. QED
    BY <2>1
<1>9. filled \in [0 .. FixedSize -> Characters] /\ filled[FixedSize] # "\n"
  <2>1. ASSUME NEW p \in 0 .. FixedSize
        PROVE  filled[p] \in Characters
    <3>1. CASE \E i \in 0 .. n - 1 : Pos(i) = p
      <4>1. PICK i \in 0 .. n - 1 : Pos(i) = p
        BY <3>1
      <4>2. i \in 0 .. n /\ i + 1 \in 1 .. n
        BY <1>1
      <4>3. p = At0(i)
        BY <1>3, <4>1, <4>2
      <4> HIDE DEF filled, At0
      <4>4. filled[p] = l[i + 1]
        BY <1>7, <4>3
      <4>. QED
        BY <1>1, <4>2, <4>4
    <3>2. CASE ~\E i \in 0 .. n - 1 : Pos(i) = p
      BY <1>2, <3>2
    <3>. QED
      BY <3>1, <3>2
  <2>2. filled[FixedSize] = buffer[FixedSize]
    <3>1. FixedSize \in 0 .. FixedSize
      BY Sizes
    <3>2. ASSUME NEW i \in 0 .. n - 1
          PROVE  At0(i) # FixedSize
      <4>1. i \in 0 .. n
        BY <1>1
      <4>2. At0(i) \in 0 .. FixedSize - 1
        BY <1>3, <4>1
      <4> HIDE DEF At0
      <4>. QED
        BY <4>2, Sizes
    <3> HIDE DEF filled, At0
    <3>. QED
      BY <1>8, <3>1, <3>2
  <2>. QED
    BY <1>2, <2>1, <2>2
<1> HIDE DEF filled
<1>10. /\ buffer' \in [0 .. FixedSize -> Characters] /\ buffer'[FixedSize] # "\n"
       /\ \A p \in 0 .. FixedSize : p # Pos(n - 1) + 1 => buffer'[p] = filled[p]
  BY <1>2, <1>5, <1>6, <1>9, Sizes
<1>11. \A i \in 0 .. n - 1 : buffer'[At0(i)] = l[i + 1]
  <2>1. \A i \in 0 .. n - 1 : At0(i) # Pos(n - 1) + 1 /\ At0(i) \in 0 .. FixedSize
    BY <1>1, <1>3, <1>4, <1>5, Sizes
  <2>. QED
    BY <1>7, <1>10, <2>1
<1>12. \A p \in 0 .. FixedSize - 1 : (\A i \in 0 .. n : At0(i) # p) => buffer'[p] = buffer[p]
  <2> SUFFICES ASSUME NEW p \in 0 .. FixedSize - 1, \A i \in 0 .. n : At0(i) # p
               PROVE  buffer'[p] = buffer[p]
    OBVIOUS
  <2>1. p # Pos(n - 1) + 1 /\ p \in 0 .. FixedSize
    BY <1>1, <1>5, Sizes
  <2>2. \A i \in 0 .. n - 1 : At0(i) # p
    BY <1>1
  <2>. QED
    BY <1>8, <1>10, <2>1, <2>2
<1>. QED
  BY <1>10, <1>11, <1>12

(* The ends of the ring after a write of n characters. *)
LEMMA WriteEnds ==
    ASSUME Typed, NEW l \in Lines, Write(l)
    PROVE  /\ head' = At(head, Len(l)) /\ head' \in 0 .. FixedSize - 1
           /\ tail' = (IF maxed \/ ReachesTail(l) THEN At(head, Len(l) + 1) ELSE tail)
           /\ tail' \in 0 .. FixedSize - 1
           /\ maxed' = (head' = tail' - 1) /\ willClear' = FALSE
           /\ pending' = NewestOf(pending \o l)
<1>1. Len(l) \in 1 .. FixedSize - 1 /\ head \in 0 .. FixedSize - 1 /\ tail \in 0 .. FixedSize - 1
  BY LineFacts DEF Typed, TypeOK
<1>2. /\ Pos(Len(l)) = At(head, Len(l)) /\ Pos(Len(l)) \in 0 .. FixedSize - 1
      /\ Pos(Len(l) + 1) = At(head, Len(l) + 1) /\ Pos(Len(l) + 1) \in 0 .. FixedSize - 1
  BY <1>1, PosIsAt, Sizes
<1>. QED
  BY <1>1, <1>2 DEF Write

(* The characters of a line are written up to the tail exactly when the     *)
(* text and the line are FixedSize - 1 characters or more, except that at   *)
(* index 0 the tail is met one character later, and that a ring that is     *)
(* full already does not meet it. *)
LEMMA ReachesTailIs ==
    ASSUME head \in 0 .. FixedSize - 1, tail \in 0 .. FixedSize - 1,
           NEW c \in 0 .. FixedSize - 1, head = At(tail, c), NEW l \in Lines
    PROVE  ReachesTail(l) <=> IF tail = 0 THEN c + Len(l) >= FixedSize
                              ELSE c < FixedSize - 1 /\ c + Len(l) >= FixedSize - 1
<1> DEFINE n == Len(l)
<1>1. n \in 1 .. FixedSize - 1
  BY LineFacts
<1> HIDE DEF n
<1>2. \A i \in 0 .. n - 1 : Pos(i) = At(head, i) /\ Pos(i) \in 0 .. FixedSize - 1
  BY <1>1, PosIsAt, Sizes
<1>3. \A i \in 0 .. n - 1 : (Pos(i) + 1) % FixedSize = At(head, i + 1)
  <2> SUFFICES ASSUME NEW i \in 0 .. n - 1
               PROVE  (Pos(i) + 1) % FixedSize = At(head, i + 1)
    OBVIOUS
  <2>1. Pos(i) \in 0 .. FixedSize - 1 /\ Pos(i) = At(head, i)
    BY <1>2
  <2>2. (Pos(i) + 1) % FixedSize = IF Pos(i) = FixedSize - 1 THEN 0 ELSE Pos(i) + 1
    BY <2>1, Sizes
  <2>. QED
    BY <1>1, <2>1, <2>2, Sizes DEF At
<1>4. ReachesTail(l) <=> \E i \in 0 .. n - 1 : \/ At(head, i + 1) = tail - 1
                                               \/ tail = 0 /\ At(head, i) = FixedSize - 1
  BY <1>2, <1>3 DEF ReachesTail, n
<1>5. CASE tail = 0
  <2>1. \A i \in 0 .. n - 1 : At(head, i + 1) # tail - 1
    BY <1>1, <1>5, Sizes DEF At
  <2>2. \A i \in 0 .. n - 1 : At(head, i) = FixedSize - 1 <=> i = FixedSize - 1 - c
    BY <1>1, <1>5, Sizes DEF At
  <2>3. FixedSize - 1 - c \in 0 .. n - 1 <=> c + n >= FixedSize
    BY <1>1, Sizes
  <2>. QED
    BY <1>4, <1>5, <2>1, <2>2, <2>3 DEF n
<1>6. CASE tail # 0
  <2>1. \A i \in 0 .. n - 1 : At(head, i + 1) = tail - 1 <=> i = FixedSize - 2 - c
    BY <1>1, <1>6, Sizes DEF At
  <2>2. FixedSize - 2 - c \in 0 .. n - 1 <=> c < FixedSize - 1 /\ c + n >= FixedSize - 1
    BY <1>1, Sizes
  <2>. QED
    BY <1>4, <1>6, <2>1, <2>2 DEF n
<1>. QED
  BY <1>5, <1>6

(* A write that keeps to the ring puts the line behind the text, and one    *)
(* that does not keeps the newest of both. *)
LEMMA WriteHolds ==
    ASSUME Typed, Holds(buffer, head, tail, pending), NEW l \in Lines, Write(l),
           maxed => head = tail - 1,
           Len(pending) + Len(l) < FixedSize \/ (head = tail - 1 => maxed)
    PROVE  /\ Holds(buffer', head', tail', pending')
           /\ Len(pending) + Len(l) < FixedSize => tail' = tail /\ pending' = pending \o l
<1> DEFINE c == Len(pending)
           n == Len(l)
           text == pending \o l
<1>1. /\ c \in 0 .. FixedSize - 1 /\ n \in 1 .. FixedSize - 1
      /\ head \in 0 .. FixedSize - 1 /\ tail \in 0 .. FixedSize - 1
      /\ pending \in Seq(Ink) /\ l \in Seq(Ink)
  BY LineFacts, Sizes DEF Typed, TypeOK, Holds
<1>2. head = At(tail, c) /\ \A j \in 1 .. c : buffer[At(tail, j - 1)] = pending[j]
  BY DEF Holds
<1>3. /\ text \in Seq(Ink) /\ Len(text) = c + n
      /\ \A j \in 1 .. c : text[j] = pending[j]
      /\ \A j \in 1 .. c + n : j > c => text[j] = l[j - c]
  BY <1>1
<1>4. /\ head' = At(head, n)
      /\ tail' = (IF maxed \/ ReachesTail(l) THEN At(head, n + 1) ELSE tail)
      /\ pending' = NewestOf(text)
  BY WriteEnds
<1>5. /\ \A i \in 0 .. n - 1 : buffer'[At(head, i)] = l[i + 1]
      /\ \A p \in 0 .. FixedSize - 1 : (\A i \in 0 .. n : At(head, i) # p) => buffer'[p] = buffer[p]
  BY WriteBuffer
<1>6. ReachesTail(l) <=> IF tail = 0 THEN c + n >= FixedSize
                         ELSE c < FixedSize - 1 /\ c + n >= FixedSize - 1
  BY <1>1, <1>2, ReachesTailIs
<1>0. maxed \in BOOLEAN /\ (maxed => head = tail - 1) /\ Len(text) \in Nat
  BY <1>1, <1>3 DEF Typed, TypeOK
<1> HIDE DEF c, n, text
<1>7. head = tail - 1 <=> tail # 0 /\ c = FixedSize - 1
  BY <1>1, <1>2, Sizes DEF At
<1>8. CASE c + n < FixedSize
  <2>1. pending' = text /\ Len(pending') = c + n
    <3>1. /\ Len(NewestOf(text)) = Len(text) /\ NewestOf(text) \in Seq(Ink)
          /\ \A j \in 1 .. Len(text) : NewestOf(text)[j] = text[Len(text) - Len(text) + j]
      <4>1. Len(text) < FixedSize /\ text \in Seq(Ink)
        BY <1>3, <1>8
      <4>. QED
        BY <4>1, NewestIs
    <3>2. \A j \in 1 .. Len(text) : NewestOf(text)[j] = text[j]
      BY <1>0, <3>1
    <3>. QED
      BY <1>3, <1>4, <3>1, <3>2
  <2>2. tail' = tail
    <3>0. head # tail - 1
      BY <1>1, <1>7, <1>8, Sizes
    <3>1. ~maxed
      BY <1>0, <3>0, Zenon
    <3>2. ReachesTail(l) => c + n = FixedSize - 1
      BY <1>1, <1>6, <1>8, Sizes
    <3>3. c + n = FixedSize - 1 => At(head, n + 1) = tail
      BY <1>1, <1>2, Sizes DEF At
    <3>. QED
      BY <1>4, <3>1, <3>2, <3>3
  <2>3. head' = At(tail', c + n)
    BY <1>1, <1>2, <1>4, <1>8, <2>2, AtAt, Sizes DEF At
  <2>4. ASSUME NEW j \in 1 .. c + n
        PROVE  buffer'[At(tail, j - 1)] = text[j]
    <3>1. CASE j <= c
      <4>0. j - 1 \in 0 .. FixedSize /\ j \in 1 .. c
        BY <1>1, <3>1, Sizes
      <4>1. At(tail, j - 1) \in 0 .. FixedSize - 1
        BY <1>1, <4>0, AtRange
      <4>2. \A i \in 0 .. n : At(head, i) # At(tail, j - 1)
        BY <1>1, <1>2, <1>8, <3>1, Sizes DEF At
      <4>. QED
        BY <1>2, <1>3, <1>5, <4>0, <4>1, <4>2
    <3>2. CASE j > c
      <4>1. j - 1 - c \in 0 .. n - 1 /\ At(tail, j - 1) = At(head, j - 1 - c)
        BY <1>1, <1>2, <1>8, <3>2, Sizes DEF At
      <4>2. buffer'[At(head, j - 1 - c)] = l[j - 1 - c + 1] /\ j - 1 - c + 1 = j - c
        BY <1>1, <1>5, <4>1
      <4>. QED
        BY <1>3, <3>2, <4>1, <4>2
    <3>. QED
      BY <1>1, <3>1, <3>2
  <2>. QED
    BY <1>1, <1>8, <2>1, <2>2, <2>3, <2>4, Sizes DEF Holds, text, c, n
<1>9. CASE ~(c + n < FixedSize)
  <2> DEFINE at(j) == c + n - (FixedSize - 1) + j
  <2>1. /\ Len(pending') = FixedSize - 1
        /\ \A j \in 1 .. FixedSize - 1 : pending'[j] = text[at(j)]
    <3>1. ~(Len(text) < FixedSize) /\ text \in Seq(Ink)
      BY <1>3, <1>9
    <3>2. /\ Len(NewestOf(text)) = FixedSize - 1
          /\ \A j \in 1 .. FixedSize - 1 : NewestOf(text)[j] = text[Len(text) - (FixedSize - 1) + j]
      BY <3>1, NewestIs
    <3>3. Len(text) = c + n
      BY <1>3
    <3>4. pending' = NewestOf(text)
      BY <1>4
    <3>. QED
      BY <1>1, <3>2, <3>3, <3>4, Sizes
  <2>2. tail' = At(head, n + 1)
    <3>1. maxed \/ ReachesTail(l)
      BY <1>1, <1>6, <1>7, <1>9, Sizes DEF c, n
    <3>. QED
      BY <1>4, <3>1
  <2>3. head' = At(tail', FixedSize - 1)
    BY <1>1, <1>4, <2>2, Sizes DEF At
  <2>4. ASSUME NEW j \in 1 .. FixedSize - 1
        PROVE  buffer'[At(tail', j - 1)] = text[at(j)]
    <3>1. at(j) \in 1 .. c + n
      BY <1>1, <1>9, Sizes
    <3>2. CASE at(j) <= c
      <4>0. at(j) - 1 \in 0 .. FixedSize /\ at(j) \in 1 .. c
        BY <1>1, <3>1, <3>2, Sizes
      <4>1. At(tail', j - 1) = At(tail, at(j) - 1)
        <5>1. tail' = At(tail, c + n + 1 - FixedSize)
          BY <1>1, <1>2, <1>9, <2>2, Sizes DEF At
        <5>2. c + n + 1 - FixedSize \in 0 .. FixedSize /\ j - 1 \in 0 .. FixedSize
          BY <1>1, <1>9, Sizes
        <5>3. (c + n + 1 - FixedSize) + (j - 1) = at(j) - 1
          BY <1>1, Sizes
        <5> HIDE DEF at
        <5>. QED
          BY <1>1, <4>0, <5>1, <5>2, <5>3, AtAt, Sizes
      <4>2. At(tail, at(j) - 1) \in 0 .. FixedSize - 1
        <5> HIDE DEF at
        <5>. QED
          BY <1>1, <4>0, AtRange
      <4>3. \A i \in 0 .. n : At(head, i) # At(tail, at(j) - 1)
        BY <1>1, <1>2, <1>9, <3>1, <3>2, Sizes DEF At
      <4>. QED
        BY <1>2, <1>3, <1>5, <4>0, <4>1, <4>2, <4>3
    <3>3. CASE at(j) > c
      <4>1. /\ at(j) - 1 - c \in 0 .. n - 1
            /\ At(tail', j - 1) = At(head, at(j) - 1 - c)
        BY <1>1, <1>2, <1>9, <2>2, <3>1, <3>3, Sizes DEF At
      <4>2. at(j) - 1 - c + 1 = at(j) - c
        BY <1>1, <3>1
      <4>3. buffer'[At(head, at(j) - 1 - c)] = l[at(j) - 1 - c + 1]
        <5> HIDE DEF at
        <5>. QED
          BY <1>5, <4>1
      <4>. QED
        BY <1>3, <3>1, <3>3, <4>1, <4>2, <4>3
    <3>. QED
      BY <1>1, <3>1, <3>2, <3>3
  <2> HIDE DEF at
  <2>. QED
    BY <1>1, <1>9, <2>1, <2>3, <2>4, Sizes DEF Holds, c, n
<1>. QED
  BY <1>8, <1>9

(* What the ring holds, read from tail to head. *)
LEMMA HeldIs ==
    ASSUME Typed, Holds(buffer, head, tail, pending)
    PROVE  Held = pending
<1>1. /\ Len(pending) \in 0 .. FixedSize - 1 /\ pending \in Seq(Ink)
      /\ head \in 0 .. FixedSize - 1 /\ tail \in 0 .. FixedSize - 1
      /\ head = At(tail, Len(pending))
  BY Sizes DEF Typed, TypeOK, Holds
<1>2. (head - tail) % FixedSize = Len(pending)
  <2> DEFINE x == head - tail
  <2>1. x = Len(pending) \/ x = Len(pending) - FixedSize
    BY <1>1, Sizes DEF At
  <2>2. FixedSize \in Nat /\ FixedSize > 0 /\ x \in Int /\ -FixedSize <= x /\ x < 2 * FixedSize
    BY <1>1, Sizes
  <2> HIDE DEF x
  <2>3. x % FixedSize = IF x < 0 THEN x + FixedSize ELSE IF x < FixedSize THEN x ELSE x - FixedSize
    BY <2>2, ModIs
  <2>4. x % FixedSize = Len(pending)
    BY <1>1, <2>1, <2>3, Sizes
  <2>. QED
    BY <2>4 DEF x
<1>3. ASSUME NEW i \in 1 .. Len(pending)
      PROVE  buffer[(tail + i - 1) % FixedSize] = pending[i]
  <2>1. tail + i - 1 \in 0 .. 2 * FixedSize - 2
    BY <1>1, Sizes
  <2>2. (tail + i - 1) % FixedSize = At(tail, i - 1)
    <3> DEFINE x == tail + i - 1
    <3>1. /\ FixedSize \in Nat /\ FixedSize > 0 /\ x \in Int /\ 0 <= x /\ -FixedSize <= x
          /\ x < 2 * FixedSize
      BY <2>1, Sizes
    <3>2. At(tail, i - 1) = IF x < FixedSize THEN x ELSE x - FixedSize
      BY <1>1, Sizes DEF At
    <3> HIDE DEF x
    <3>3. x % FixedSize = IF x < FixedSize THEN x ELSE x - FixedSize
      BY <3>1, ModIs
    <3>. QED
      BY <3>2, <3>3 DEF x
  <2>. QED
    BY <2>2 DEF Holds
<1>. QED
  BY <1>1, <1>2, <1>3 DEF Held

------------------------------------------------------------------------------
(* Newlines in the text *)

LEMMA MinOf ==
    ASSUME NEW S, S \subseteq Nat, S # {}
    PROVE  Min(S) \in S /\ \A y \in S : Min(S) <= y
<1>1. PICK x \in S : \A y \in S : ~(<<y, x>> \in OpToRel(<, Nat))
  BY NatLessThanWellFounded, WFMin
<1>2. \A y \in S : ~(y < x)
  <2> SUFFICES ASSUME NEW y \in S, y < x
               PROVE  FALSE
    OBVIOUS
  <2>1. x \in Nat /\ y \in Nat /\ <<y, x>> \in Nat \X Nat
    OBVIOUS
  <2>2. <<y, x>> \in OpToRel(<, Nat)
    BY <2>1 DEF OpToRel
  <2>. QED
    BY <1>1, <2>2
<1>3. \A y \in S : x <= y
  BY <1>2
<1>. QED
  BY <1>3 DEF Min

(* The end of a text has a newline where the text has one. *)
LEMMA EndHasLines ==
    ASSUME NEW s \in Seq(Ink), HasLines(s), NEW k \in 0 .. Len(s),
           NEW r \in Seq(Ink), Len(r) = Len(s) - k,
           \A j \in 1 .. Len(s) - k : r[j] = s[k + j]
    PROVE  HasLines(r)
<1> SUFFICES ASSUME NEW i \in 1 .. Len(r)
             PROVE  \E j \in i .. Len(r) : j < i + LineSize /\ r[j] = "\n"
  BY DEF HasLines
<1>1. k + i \in 1 .. Len(s)
  OBVIOUS
<1>2. PICK j \in k + i .. Len(s) : j < k + i + LineSize /\ s[j] = "\n"
  BY <1>1 DEF HasLines
<1>3. j - k \in i .. Len(r) /\ j - k < i + LineSize
  BY <1>2, Sizes
<1>4. r[j - k] = s[k + (j - k)] /\ k + (j - k) = j
  BY <1>3
<1>. QED
  BY <1>2, <1>3, <1>4

(* A line that fits leaves no stretch of the text without a newline. *)
LEMMA WriteHasLines ==
    ASSUME LinesFit, NEW s \in Seq(Ink), HasLines(s), NEW l \in Lines
    PROVE  HasLines(NewestOf(s \o l))
<1> DEFINE t == s \o l
           kept == IF Len(t) < FixedSize THEN Len(t) ELSE FixedSize - 1
<1>1. l \in Seq(Ink) /\ Len(l) \in 1 .. LineSize /\ l[Len(l)] = "\n"
  BY LineFacts, Sizes DEF LinesFit
<1>2. /\ t \in Seq(Ink) /\ Len(t) = Len(s) + Len(l)
      /\ \A j \in 1 .. Len(s) : t[j] = s[j]
      /\ t[Len(t)] = "\n"
  BY <1>1
<1> HIDE DEF t
<1>3. HasLines(t)
  <2> SUFFICES ASSUME NEW i \in 1 .. Len(t)
               PROVE  \E j \in i .. Len(t) : j < i + LineSize /\ t[j] = "\n"
    BY DEF HasLines
  <2>1. CASE i <= Len(s)
    <3>1. i \in 1 .. Len(s)
      BY <2>1
    <3>2. PICK j \in i .. Len(s) : j < i + LineSize /\ s[j] = "\n"
      BY <3>1 DEF HasLines
    <3>. QED
      BY <1>1, <1>2, <3>1, <3>2
  <2>2. CASE ~(i <= Len(s))
    BY <1>1, <1>2, <2>2, Sizes
  <2>. QED
    BY <2>1, <2>2
<1>4. /\ NewestOf(t) \in Seq(Ink) /\ Len(NewestOf(t)) = kept
      /\ \A j \in 1 .. kept : NewestOf(t)[j] = t[Len(t) - kept + j]
  BY <1>2, NewestIs
<1>5. Len(t) \in Nat /\ kept \in 0 .. Len(t)
  BY <1>2, Sizes
<1> HIDE DEF kept
<1>6. /\ Len(t) - kept \in 0 .. Len(t) /\ Len(NewestOf(t)) = Len(t) - (Len(t) - kept)
      /\ \A j \in 1 .. Len(t) - (Len(t) - kept) : NewestOf(t)[j] = t[Len(t) - kept + j]
  BY <1>4, <1>5
<1>7. HasLines(NewestOf(t))
  BY <1>2, <1>3, <1>4, <1>6, EndHasLines
<1>. QED
  BY <1>7 DEF t

(* What is left of a text after its first characters are taken. *)
LEMMA RestOf ==
    ASSUME NEW s \in Seq(Ink), NEW k \in Nat
    PROVE  LET r == SubSeq(s, k + 1, Len(s))
           IN /\ r \in Seq(Ink)
              /\ k <= Len(s) => Len(r) = Len(s) - k /\ \A j \in 1 .. Len(s) - k : r[j] = s[k + j]
              /\ k > Len(s) => r = <<>>
OBVIOUS

LEMMA FirstLine ==
    ASSUME NEW s \in Seq(Ink), HasLines(s), s # <<>>
    PROVE  \E k \in 1 .. LineSize : First(s, k)
<1> DEFINE S == {i \in 1 .. Len(s) : s[i] = "\n"}
<1>1. 1 \in 1 .. Len(s)
  OBVIOUS
<1>2. PICK j \in 1 .. Len(s) : j < 1 + LineSize /\ s[j] = "\n"
  BY <1>1 DEF HasLines
<1>3. j \in S /\ S \subseteq Nat
  BY <1>2
<1>4. Min(S) \in S /\ \A y \in S : Min(S) <= y
  BY <1>3, MinOf
<1> DEFINE k == Min(S)
<1>5. k \in 1 .. Len(s) /\ s[k] = "\n" /\ k <= j
  BY <1>3, <1>4
<1>6. \A i \in 1 .. k - 1 : s[i] # "\n"
  <2> SUFFICES ASSUME NEW i \in 1 .. k - 1, s[i] = "\n"
               PROVE  FALSE
    OBVIOUS
  <2>1. i \in S
    BY <1>5
  <2>2. k <= i
    BY <1>4, <2>1
  <2> HIDE DEF k
  <2>. QED
    BY <1>5, <2>2
<1>. QED
  <2> HIDE DEF k
  <2>. QED
    BY <1>2, <1>5, <1>6, Sizes DEF First

------------------------------------------------------------------------------
(* Reading *)

(* What strchr returns from there, with a newline before any end item, and  *)
(* with neither in the ring. *)
LEMMA FoundIs ==
    ASSUME NEW from \in 0 .. FixedSize
    PROVE  /\ Found(from) \subseteq Null .. Beyond
           /\ \A q \in from .. FixedSize :
                (buffer[q] = "\n" /\ \A i \in from .. q - 1 : buffer[i] \notin {"\n", "end"})
                    => Found(from) = {q}
           /\ (buffer[FixedSize] # "\n" /\ \A i \in from .. FixedSize - 1 : buffer[i] \notin {"\n", "end"})
                    => Found(from) \subseteq {Null, Beyond}
<1> DEFINE stops == {i \in from .. FixedSize : buffer[i] \in {"\n", "end"}}
           first == Min(stops)
<1>1. stops \subseteq Nat
  BY Sizes
<1>2. stops # {} => first \in stops /\ \A y \in stops : first <= y
  BY <1>1, MinOf
<1>3. Found(from) = IF stops = {} THEN {Null, Beyond}
                    ELSE {IF buffer[first] = "\n" THEN first ELSE Null}
  BY DEF Found
<1>4. stops # {} => first \in from .. FixedSize /\ buffer[first] \in {"\n", "end"}
  BY <1>2
<1>5. ASSUME NEW q \in from .. FixedSize, buffer[q] = "\n",
             \A i \in from .. q - 1 : buffer[i] \notin {"\n", "end"}
      PROVE  Found(from) = {q}
  <2>1. q \in stops
    BY <1>5
  <2>2. first <= q /\ first \in from .. FixedSize /\ buffer[first] \in {"\n", "end"}
    BY <1>2, <1>4, <2>1
  <2> HIDE DEF first, stops
  <2>3. first = q
    BY <1>5, <2>2, Sizes
  <2>. QED
    BY <1>3, <1>5, <2>1, <2>3
<1>6. ASSUME buffer[FixedSize] # "\n", \A i \in from .. FixedSize - 1 : buffer[i] \notin {"\n", "end"}
      PROVE  Found(from) \subseteq {Null, Beyond}
  <2> HIDE DEF first
  <2>1. stops # {} => first = FixedSize
    BY <1>4, <1>6, Sizes
  <2> HIDE DEF stops
  <2>. QED
    BY <1>3, <1>6, <2>1
<1>7. Found(from) \subseteq Null .. Beyond
  <2> HIDE DEF first, stops
  <2>. QED
    BY <1>3, <1>4, Sizes DEF Null, Beyond
<1>. QED
  BY <1>5, <1>6, <1>7

LEMMA TextIs ==
    ASSUME Typed, NEW from \in 0 .. FixedSize - 1, NEW n \in Int
    PROVE  /\ Text(from, n) \in Seq(Characters)
           /\ n \in 0 .. FixedSize - from =>
                Len(Text(from, n)) = n /\ \A i \in 1 .. n : Text(from, n)[i] = buffer[from + i - 1]
<1>1. buffer \in [0 .. FixedSize -> Characters] /\ "junk" \in Characters
  BY DEF Typed, TypeOK, Characters
<1>2. \A i \in 1 .. n : from + i - 1 \in Nat
  BY Sizes
<1>3. Text(from, n) \in [1 .. n -> Characters]
  BY <1>1, <1>2, Sizes DEF Text
<1>4. CASE n >= 0
  <2>1. Text(from, n) \in Seq(Characters) /\ Len(Text(from, n)) = n
    BY <1>3, <1>4
  <2>2. n \in 0 .. FixedSize - from => \A i \in 1 .. n : from + i - 1 <= FixedSize
    BY Sizes
  <2>. QED
    BY <2>1, <2>2 DEF Text
<1>5. CASE n < 0
  <2>1. 1 .. n = 1 .. 0
    BY <1>5
  <2>2. Text(from, n) \in [1 .. 0 -> Characters]
    BY <1>3, <2>1
  <2>. QED
    BY <1>5, <2>2
<1>. QED
  BY <1>4, <1>5

------------------------------------------------------------------------------
(* The types, whatever interrupts overwrite *)

LEMMA TypedIs ==
    Typed <=>
        /\ buffer \in [0 .. FixedSize -> Characters] /\ buffer[FixedSize] # "\n"
        /\ head \in 0 .. FixedSize - 1 /\ tail \in 0 .. FixedSize - 1
        /\ maxed \in BOOLEAN /\ willClear \in BOOLEAN /\ raced \in BOOLEAN
        /\ pc \in InLine \cup {"idle", "while", "line", "clear", "test", "reset"}
        /\ copy \in [head : 0 .. FixedSize - 1, tail : 0 .. FixedSize - 1]
        /\ lineEnd \in Null .. Beyond
        /\ line \in Seq(Characters) /\ pending \in Seq(Ink)
        /\ interrupts \in 0 .. MaxInterrupts
<1>1. line \in Seq(Characters) => \A i \in DOMAIN line : line[i] \in Characters
  OBVIOUS
<1>2. pending \in Seq(Ink) => \A i \in DOMAIN pending : pending[i] \in Characters
  BY LineFacts
<1>. QED
  BY <1>1, <1>2 DEF Typed, TypeOK

LEMMA WriteTyped ==
    ASSUME Typed, NEW l \in Lines, Write(l)
    PROVE  /\ buffer' \in [0 .. FixedSize -> Characters] /\ buffer'[FixedSize] # "\n"
           /\ head' \in 0 .. FixedSize - 1 /\ tail' \in 0 .. FixedSize - 1
           /\ maxed' \in BOOLEAN /\ willClear' \in BOOLEAN
           /\ pending' \in Seq(Ink)
<1>1. pending \o l \in Seq(Ink)
  BY TypedIs, LineFacts
<1>2. NewestOf(pending \o l) \in Seq(Ink)
  BY <1>1, NewestIs
<1>3. maxed' \in BOOLEAN /\ willClear' \in BOOLEAN
  BY WriteEnds, Zenon
<1>. QED
  BY <1>2, <1>3, WriteBuffer, WriteEnds

LEMMA TakeTyped ==
    ASSUME Typed, TakeLine
    PROVE  /\ line' \in Seq(Characters)
           /\ copy' \in [head : 0 .. FixedSize - 1, tail : 0 .. FixedSize - 1]
<1>1. /\ copy \in [head : 0 .. FixedSize - 1, tail : 0 .. FixedSize - 1]
      /\ copy.head \in 0 .. FixedSize - 1 /\ copy.tail \in 0 .. FixedSize - 1
      /\ lineEnd \in Int /\ FixedSize \in Nat /\ LineSize \in Nat
  BY TypedIs, Sizes DEF Null, Beyond
<1>2. Consumable \in Int
  BY <1>1 DEF Consumable
<1>3. \A a, b \in Int : Least(a, b) \in Int
  BY DEF Least
<1>4. WillConsume \in Int
  BY <1>1, <1>2, <1>3 DEF WillConsume
<1>5. \A n \in Int : n % FixedSize \in 0 .. FixedSize - 1
  BY Sizes
<1>6. \A n \in Int : Text(copy.tail, n) \in Seq(Characters) /\ Text(0, n) \in Seq(Characters)
  <2> SUFFICES ASSUME NEW n \in Int
               PROVE  Text(copy.tail, n) \in Seq(Characters) /\ Text(0, n) \in Seq(Characters)
    OBVIOUS
  <2>1. 0 \in 0 .. FixedSize - 1
    BY Sizes
  <2>. QED
    BY <1>1, <2>1, TextIs
<1>7. CASE lineEnd # Null
  <2> DEFINE n == Least(WillConsume, lineEnd - copy.tail + 1)
  <2>1. n \in Int
    BY <1>1, <1>3, <1>4
  <2>2. line' = Text(copy.tail, n) /\ copy' = [copy EXCEPT !.tail = (copy.tail + n) % FixedSize]
    BY <1>7 DEF TakeLine
  <2> HIDE DEF n
  <2>3. (copy.tail + n) % FixedSize \in 0 .. FixedSize - 1
    BY <1>1, <1>5, <2>1
  <2>. QED
    BY <1>1, <1>6, <2>1, <2>2, <2>3
<1>8. CASE lineEnd = Null /\ Consumable # WillConsume
  <2>1. line' = Text(copy.tail, LineSize) /\ copy' = [copy EXCEPT !.tail = TailOfLongChunk]
    BY <1>8 DEF TakeLine
  <2>2. (copy.tail + LineSize) % FixedSize \in 0 .. FixedSize - 1
    BY <1>1, <1>5
  <2>3. TailOfLongChunk \in 0 .. FixedSize - 1
    BY <1>1, <2>2, Sizes DEF TailOfLongChunk
  <2>4. Text(copy.tail, LineSize) \in Seq(Characters)
    BY <1>1, <1>6
  <2>. QED
    BY <1>1, <2>1, <2>3, <2>4
<1>9. CASE lineEnd = Null /\ ~(Consumable # WillConsume) /\ Wrapped
  <2>1. PICK end \in Found(0) :
          LET n == IF end = Null THEN 0 ELSE Least(LineSize - WillConsume, Extra(end))
          IN /\ line' = Text(copy.tail, WillConsume) \o Text(0, n)
             /\ copy' = [copy EXCEPT !.tail = n % FixedSize]
    BY <1>9 DEF TakeLine
  <2> DEFINE n == IF end = Null THEN 0 ELSE Least(LineSize - WillConsume, Extra(end))
  <2>2. end \in Int
    <3>1. 0 \in 0 .. FixedSize
      BY Sizes
    <3>2. end \in Null .. Beyond
      BY <2>1, <3>1, FoundIs
    <3>. QED
      BY <3>2, Sizes DEF Null, Beyond
  <2>3. n \in Int
    BY <1>1, <1>3, <1>4, <2>2 DEF Extra
  <2>4. line' = Text(copy.tail, WillConsume) \o Text(0, n) /\ copy' = [copy EXCEPT !.tail = n % FixedSize]
    BY <2>1
  <2> HIDE DEF n
  <2>5. n % FixedSize \in 0 .. FixedSize - 1
    BY <1>5, <2>3
  <2>6. Text(copy.tail, WillConsume) \in Seq(Characters) /\ Text(0, n) \in Seq(Characters)
    BY <1>4, <1>6, <2>3
  <2> DEFINE front == Text(copy.tail, WillConsume)
             back == Text(0, n)
             at == n % FixedSize
  <2>7. front \in Seq(Characters) /\ back \in Seq(Characters) /\ at \in 0 .. FixedSize - 1
        /\ line' = front \o back /\ copy' = [copy EXCEPT !.tail = at]
    BY <2>4, <2>5, <2>6
  <2> HIDE DEF front, back, at
  <2>8. front \o back \in Seq(Characters)
    BY <2>7
  <2>. QED
    BY <1>1, <2>7, <2>8
<1>10. CASE lineEnd = Null /\ ~(Consumable # WillConsume) /\ ~Wrapped
  <2>1. line' = Text(copy.tail, WillConsume) /\ copy' = [copy EXCEPT !.tail = copy.head]
    BY <1>10 DEF TakeLine
  <2>. QED
    BY <1>1, <1>4, <1>6, <2>1
<1>. QED
  BY <1>7, <1>8, <1>9, <1>10

LEMMA TypedInit == Init => Typed
<1> SUFFICES ASSUME Init
             PROVE  Typed
  OBVIOUS
<1>1. "end" \in Characters /\ "junk" \in Characters
  BY DEF Characters
<1>2. /\ buffer \in [0 .. FixedSize -> Characters] /\ buffer[FixedSize] # "\n"
      /\ 0 \in 0 .. FixedSize - 1 /\ Null \in Null .. Beyond /\ 0 \in 0 .. MaxInterrupts
  BY <1>1, Sizes, InterruptsAssumption DEF Init, Null, Beyond
<1>3. <<>> \in Seq(Characters) /\ <<>> \in Seq(Ink)
  OBVIOUS
<1>. QED
  BY <1>2, <1>3, TypedIs DEF Init, InLine

LEMMA TypedStep == Typed /\ [Next]_vars => Typed'
<1> SUFFICES ASSUME Typed, [Next]_vars
             PROVE  Typed'
  OBVIOUS
<1>0. Typed' <=>
        /\ buffer' \in [0 .. FixedSize -> Characters] /\ buffer'[FixedSize] # "\n"
        /\ head' \in 0 .. FixedSize - 1 /\ tail' \in 0 .. FixedSize - 1
        /\ maxed' \in BOOLEAN /\ willClear' \in BOOLEAN /\ raced' \in BOOLEAN
        /\ pc' \in InLine \cup {"idle", "while", "line", "clear", "test", "reset"}
        /\ copy' \in [head : 0 .. FixedSize - 1, tail : 0 .. FixedSize - 1]
        /\ lineEnd' \in Null .. Beyond
        /\ line' \in Seq(Characters) /\ pending' \in Seq(Ink)
        /\ interrupts' \in 0 .. MaxInterrupts
  <2>1. line' \in Seq(Characters) => \A i \in DOMAIN line' : line'[i] \in Characters
    OBVIOUS
  <2>2. pending' \in Seq(Ink) => \A i \in DOMAIN pending' : pending'[i] \in Characters
    BY LineFacts
  <2>. QED
    BY <2>1, <2>2 DEF Typed, TypeOK
<1>1. CASE LogFromLoop
  <2>1. PICK l \in Lines : Write(l)
    BY <1>1 DEF LogFromLoop
  <2>. QED
    BY <1>0, <1>1, <2>1, WriteTyped, TypedIs DEF LogFromLoop, reading
<1>2. CASE LogFromInterrupt
  <2>1. PICK l \in Lines : Write(l) /\ raced' = (raced \/ Loses(l))
    BY <1>2 DEF LogFromInterrupt
  <2>2. raced' \in BOOLEAN
    BY <2>1, Zenon
  <2>3. interrupts' \in 0 .. MaxInterrupts
    BY <1>2, TypedIs, InterruptsAssumption DEF LogFromInterrupt
  <2>. QED
    BY <1>0, <1>2, <2>1, <2>2, <2>3, WriteTyped, TypedIs DEF LogFromInterrupt, reading
<1>3. CASE PrintAvailableLogging
  BY <1>0, <1>3, TypedIs, InterruptsAssumption DEF PrintAvailableLogging, ring, reading
<1>4. CASE While
  BY <1>0, <1>4, TypedIs DEF While, ring, reading
<1>5. CASE CopyEnds
  BY <1>0, <1>5, TypedIs DEF CopyEnds, ring, InLine
<1>6. CASE FindLineEnd
  <2>1. copy.tail \in 0 .. FixedSize
    BY TypedIs, Sizes
  <2>2. lineEnd' \in Null .. Beyond
    BY <1>6, <2>1, FoundIs DEF FindLineEnd
  <2>. QED
    BY <1>0, <1>6, <2>2, TypedIs DEF FindLineEnd, ring, InLine
<1>7. CASE TakeLine
  <2>1. pc' = "release" /\ UNCHANGED <<ring, lineEnd, interrupts, pending, raced>>
    BY <1>7 DEF TakeLine
  <2>. QED
    BY <1>0, <1>7, <2>1, TakeTyped, TypedIs DEF ring, InLine
<1>8. CASE ReleaseMaxed
  BY <1>0, <1>8, TypedIs DEF ReleaseMaxed, reading, InLine
<1>9. CASE Finish
  <2>1. SubSeq(pending, Len(line) + 1, Len(pending)) \in Seq(Ink)
    BY TypedIs, RestOf
  <2>. QED
    BY <1>0, <1>9, <2>1, TypedIs DEF Finish, reading
<1>10. CASE WillClear
  BY <1>0, <1>10, TypedIs DEF WillClear, reading
<1>11. CASE TestEmpty
  BY <1>0, <1>11, TypedIs DEF TestEmpty, ring, reading
<1>12. CASE Reset
  <2>1. 0 \in 0 .. FixedSize - 1
    BY Sizes
  <2>. QED
    BY <1>0, <1>12, <2>1, TypedIs DEF Reset, reading
<1>13. CASE UNCHANGED vars
  BY <1>0, <1>13, TypedIs DEF vars, ring, reading
<1>. QED
  BY <1>1, <1>2, <1>3, <1>4, <1>5, <1>6, <1>7, <1>8, <1>9, <1>10, <1>11, <1>12, <1>13
     DEF Next, PrintStep

(* Whatever is logged, and whenever, every index stays inside the ring: the *)
(* type of each variable, overrun or not, for any lines (TypeOK).            *)
THEOREM RingTypeCorrect == Spec => []TypeOK
<1>1. Typed => TypeOK
  BY DEF Typed
<1>. QED
  BY <1>1, TypedInit, TypedStep, PTL DEF Spec

------------------------------------------------------------------------------
(* The invariant, step by step *)

LEMMA EndsOf ==
    ASSUME NEW h, NEW t \in 0 .. FixedSize - 1, NEW c \in 0 .. FixedSize - 1, h = At(t, c)
    PROVE  /\ h \in 0 .. FixedSize - 1
           /\ h = t <=> c = 0
           /\ h = t - 1 => c = FixedSize - 1
BY Sizes DEF At

LEMMA HasLinesStep ==
    ASSUME LinesFit, Typed, HasLines(pending), [Next]_vars
    PROVE  HasLines(pending')
<1>1. ASSUME NEW l \in Lines, Write(l)
      PROVE  HasLines(pending')
  <2>1. pending' = NewestOf(pending \o l)
    BY <1>1 DEF Write
  <2>. QED
    BY <1>1, <2>1, TypedIs, WriteHasLines
<1>2. CASE Finish
  <2>1. pending \in Seq(Ink) /\ Len(line) \in Nat /\ pending' = SubSeq(pending, Len(line) + 1, Len(pending))
    BY <1>2, TypedIs DEF Finish
  <2>2. CASE Len(line) <= Len(pending)
    <3>1. /\ Len(line) \in 0 .. Len(pending) /\ pending' \in Seq(Ink)
          /\ Len(pending') = Len(pending) - Len(line)
          /\ \A j \in 1 .. Len(pending) - Len(line) : pending'[j] = pending[Len(line) + j]
      BY <2>1, <2>2, RestOf
    <3>. QED
      BY <2>1, <3>1, EndHasLines
  <2>3. CASE ~(Len(line) <= Len(pending))
    <3>1. pending' = <<>>
      BY <2>1, <2>3, RestOf
    <3>. QED
      BY <3>1 DEF HasLines
  <2>. QED
    BY <2>2, <2>3
<1>3. CASE UNCHANGED pending
  BY <1>3
<1>. QED
  BY <1>1, <1>2, <1>3 DEF Next, PrintStep, LogFromLoop, LogFromInterrupt, PrintAvailableLogging, While,
     CopyEnds, FindLineEnd, TakeLine, ReleaseMaxed, WillClear, TestEmpty, Reset, vars

(* A line logged where the code does not lose it. *)
LEMMA GoodWrite ==
    ASSUME Typed, Good, NEW l \in Lines, Write(l), ~Loses(l), UNCHANGED <<pc, reading>>
    PROVE  Good'
<1> DEFINE c == Len(pending)
           n == Len(l)
<1>1. /\ pending \in Seq(Ink) /\ l \in Seq(Ink) /\ n \in 1 .. FixedSize - 1
      /\ tail \in 0 .. FixedSize - 1 /\ tail' \in 0 .. FixedSize - 1
      /\ maxed \in BOOLEAN /\ maxed' \in BOOLEAN
  BY TypedIs, WriteTyped, LineFacts
<1>2. Holds(buffer, head, tail, pending) /\ c \in 0 .. FixedSize - 1 /\ head = At(tail, c)
  BY <1>1, Sizes DEF Good, Holds
<1>3. Len(pending \o l) = c + n
  BY <1>1
<1>4. /\ pc \in InLine => c + n < FixedSize
      /\ pc = "finish" => c + n # FixedSize - 1
      /\ pc # "reset"
  <2> HIDE DEF c, n
  <2>. QED
    BY <1>1, <1>2, <1>3, Sizes DEF Loses
<1>5. maxed => head = tail - 1
  BY DEF Good, MaxedRight
<1>6. c + n < FixedSize \/ (head = tail - 1 => maxed)
  BY <1>4 DEF Good, MaxedRight, InLine
<1>7. /\ Holds(buffer', head', tail', pending')
      /\ c + n < FixedSize => tail' = tail /\ pending' = pending \o l
  BY <1>2, <1>5, <1>6, WriteHolds
<1>8. maxed' = (head' = tail' - 1)
  BY DEF Write
<1>9. MaxedRight'
  <2>1. pc # "finish" => MaxedRight'
    BY <1>8 DEF MaxedRight
  <2>2. CASE pc = "finish"
    <3>1. c + n < FixedSize - 1 /\ pending' = pending \o l /\ Len(pending') = c + n
      <4>1. c + n < FixedSize /\ c + n # FixedSize - 1
        BY <1>4, <2>2 DEF InLine
      <4>2. pending' = pending \o l
        BY <1>7, <4>1
      <4>3. Len(pending') = c + n
        BY <1>3, <4>2
      <4> HIDE DEF c, n
      <4>. QED
        BY <1>1, <1>2, <4>1, <4>2, <4>3, Sizes
    <3>2. head' = At(tail', c + n) /\ c + n \in 0 .. FixedSize - 1 /\ c + n # FixedSize - 1
      BY <1>1, <1>2, <1>7, <3>1, Sizes DEF Holds
    <3>3. head' # tail' - 1
      BY <1>1, <3>2, EndsOf
    <3>. QED
      BY <1>8, <2>2, <3>3 DEF MaxedRight
  <2>. QED
    BY <2>1, <2>2
<1>10. pc = "line" => pending' # <<>>
  <2>1. Len(pending') > 0
    <3>1. pending \o l \in Seq(Ink) /\ Len(pending \o l) > 0
      BY <1>1, <1>2, <1>3
    <3>2. pending' = NewestOf(pending \o l)
      BY DEF Write
    <3>. QED
      <4>1. Len(NewestOf(pending \o l)) = IF Len(pending \o l) < FixedSize THEN Len(pending \o l)
                                          ELSE FixedSize - 1
        BY <3>1, NewestIs
      <4>. QED
        BY <3>1, <3>2, <4>1, Sizes
  <2>. QED
    BY <2>1
<1>11. pc \in InLine =>
          /\ tail' = tail /\ Len(pending') = c + n
          /\ \A j \in 1 .. c : pending'[j] = pending[j]
          /\ \A k \in 0 .. c : SubSeq(pending', 1, k) = SubSeq(pending, 1, k)
  BY <1>1, <1>4, <1>7
<1>12. pc' = pc /\ copy' = copy /\ lineEnd' = lineEnd /\ line' = line
  BY DEF reading
<1> HIDE DEF n
<1>13. SnapshotRight'
  <2>1. ASSUME pc \in {"measure", "take"}
        PROVE  /\ copy.tail = tail
               /\ \E m \in 1 .. Len(pending') : copy.head = At(tail, m) /\ pending'[m] = "\n"
    <3>1. copy.tail = tail /\ \E m \in 1 .. c : copy.head = At(tail, m) /\ pending[m] = "\n"
      BY <2>1 DEF Good, SnapshotRight
    <3>2. pc \in InLine
      BY <2>1 DEF InLine
    <3>3. PICK m \in 1 .. c : copy.head = At(tail, m) /\ pending[m] = "\n"
      BY <3>1
    <3>4. m \in 1 .. Len(pending') /\ pending'[m] = "\n"
      BY <1>1, <1>2, <1>11, <3>2, <3>3
    <3>. QED
      BY <3>1, <3>3, <3>4
  <2>. QED
    BY <1>11, <1>12, <2>1 DEF SnapshotRight, InLine
<1>14. LineEndRight'
  <2>1. ASSUME pc = "take"
        PROVE  \E k \in 1 .. LineSize :
                 /\ First(pending', k)
                 /\ IF tail + k - 1 < FixedSize THEN lineEnd = tail + k - 1
                    ELSE lineEnd \in {Null, Beyond}
    <3>1. PICK k \in 1 .. LineSize :
                 /\ First(pending, k)
                 /\ IF tail + k - 1 < FixedSize THEN lineEnd = tail + k - 1
                    ELSE lineEnd \in {Null, Beyond}
      BY <2>1 DEF Good, LineEndRight
    <3>2. First(pending', k)
      BY <1>1, <1>2, <1>11, <2>1, <3>1 DEF InLine, First
    <3>. QED
      BY <3>1, <3>2
  <2>. QED
    BY <1>11, <1>12, <2>1 DEF LineEndRight, InLine
<1>15. LineRight'
  <2>1. ASSUME pc \in {"release", "finish"}
        PROVE  /\ Len(line) \in 1 .. Len(pending')
               /\ line = SubSeq(pending', 1, Len(line))
               /\ copy.tail = At(tail, Len(line))
               /\ line[Len(line)] = "\n" \/ lineEnd = Beyond
    <3>1. /\ Len(line) \in 1 .. c
          /\ line = SubSeq(pending, 1, Len(line))
          /\ copy.tail = At(tail, Len(line))
          /\ line[Len(line)] = "\n" \/ lineEnd = Beyond
      BY <2>1 DEF Good, LineRight
    <3>2. Len(line) \in 0 .. c /\ Len(line) \in 1 .. c + Len(l)
      BY <1>1, <1>2, <3>1
    <3>3. /\ Len(pending') = c + Len(l)
          /\ SubSeq(pending', 1, Len(line)) = SubSeq(pending, 1, Len(line))
      BY <1>11, <2>1, <3>2 DEF InLine, n
    <3>. QED
      BY <3>1, <3>2, <3>3
  <2>. QED
    BY <1>11, <1>12, <2>1 DEF LineRight, InLine
<1>. QED
  BY <1>4, <1>7, <1>9, <1>10, <1>12, <1>13, <1>14, <1>15 DEF Good

(* What the invariant says of a line that is being read: k is where its     *)
(* newline is in the text, and m what was in the ring when it was started.  *)
LEMMA WhileReading ==
    ASSUME Typed, Good, HasLines(pending), pc \in {"measure", "take"}
    PROVE  /\ copy.tail = tail /\ ~Empty /\ tail \in 0 .. FixedSize - 1
           /\ Len(pending) \in 1 .. FixedSize - 1 /\ pending \in Seq(Ink)
           /\ \A j \in 1 .. Len(pending) : buffer[At(tail, j - 1)] = pending[j] /\ pending[j] # "end"
           /\ \E k \in 1 .. LineSize : First(pending, k)
           /\ \E m \in 1 .. Len(pending) : copy.head = At(tail, m) /\ pending[m] = "\n"
<1>1. /\ tail \in 0 .. FixedSize - 1 /\ pending \in Seq(Ink) /\ Len(pending) \in 0 .. FixedSize - 1
      /\ head = At(tail, Len(pending))
      /\ \A j \in 1 .. Len(pending) : buffer[At(tail, j - 1)] = pending[j]
  BY TypedIs, Sizes DEF Good, Holds
<1>2. copy.tail = tail /\ \E m \in 1 .. Len(pending) : copy.head = At(tail, m) /\ pending[m] = "\n"
  BY DEF Good, SnapshotRight
<1>3. Len(pending) \in 1 .. FixedSize - 1 /\ pending # <<>>
  BY <1>1, <1>2
<1>4. ~Empty
  BY <1>1, <1>3, Sizes DEF Empty, At
<1>5. \A j \in 1 .. Len(pending) : pending[j] # "end"
  BY <1>1, LineFacts
<1>. QED
  BY <1>1, <1>2, <1>3, <1>4, <1>5, FirstLine

LEMMA GoodFind ==
    ASSUME Typed, Good, HasLines(pending), FindLineEnd
    PROVE  LineEndRight'
<1>1. pc = "measure" /\ pc' = "take" /\ lineEnd' \in Found(copy.tail) /\ tail' = tail /\ pending' = pending
  BY DEF FindLineEnd, ring
<1>2. /\ copy.tail = tail /\ tail \in 0 .. FixedSize - 1
      /\ Len(pending) \in 1 .. FixedSize - 1
      /\ \A j \in 1 .. Len(pending) : buffer[At(tail, j - 1)] = pending[j] /\ pending[j] # "end"
  BY <1>1, WhileReading
<1>3. PICK k \in 1 .. LineSize : First(pending, k)
  BY <1>1, WhileReading
<1>4. k \in 1 .. Len(pending) /\ pending[k] = "\n" /\ \A i \in 1 .. k - 1 : pending[i] # "\n"
  BY <1>3 DEF First
<1>5. \A i \in tail .. tail + k - 1 : i < FixedSize =>
        i - tail + 1 \in 1 .. k /\ buffer[i] = pending[i - tail + 1] /\ buffer[i] # "end"
  <2> SUFFICES ASSUME NEW i \in tail .. tail + k - 1, i < FixedSize
               PROVE  i - tail + 1 \in 1 .. k /\ buffer[i] = pending[i - tail + 1] /\ buffer[i] # "end"
    OBVIOUS
  <2>1. /\ i - tail + 1 \in 1 .. k /\ i - tail + 1 \in 1 .. Len(pending)
        /\ At(tail, (i - tail + 1) - 1) = i
    BY <1>2, <1>4, Sizes DEF At
  <2>. QED
    BY <1>2, <2>1
<1>6. \A i \in tail .. tail + k - 2 : i < FixedSize => buffer[i] \notin {"\n", "end"}
  <2> SUFFICES ASSUME NEW i \in tail .. tail + k - 2, i < FixedSize
               PROVE  buffer[i] \notin {"\n", "end"}
    OBVIOUS
  <2>1. i \in tail .. tail + k - 1 /\ i - tail + 1 \in 1 .. k - 1
    BY <1>2, <1>4
  <2>. QED
    BY <1>4, <1>5, <2>1
<1>7. tail \in 0 .. FixedSize
  BY <1>2, Sizes
<1>8. CASE tail + k - 1 < FixedSize
  <2> DEFINE q == tail + k - 1
  <2>1. q \in tail .. FixedSize /\ q \in tail .. tail + k - 1 /\ q - tail + 1 = k
    BY <1>2, <1>4, <1>8, Sizes
  <2>2. buffer[q] = "\n"
    BY <1>4, <1>5, <1>8, <2>1
  <2>3. \A i \in tail .. q - 1 : buffer[i] \notin {"\n", "end"}
    BY <1>2, <1>4, <1>6, <1>8, Sizes
  <2> HIDE DEF q
  <2>4. Found(tail) = {q}
    BY <1>7, <2>1, <2>2, <2>3, FoundIs
  <2>5. lineEnd' = tail + k - 1
    BY <1>1, <1>2, <2>4 DEF q
  <2>. QED
    BY <1>1, <1>3, <1>8, <2>5 DEF LineEndRight
<1>9. CASE ~(tail + k - 1 < FixedSize)
  <2>1. \A i \in tail .. FixedSize - 1 : buffer[i] \notin {"\n", "end"}
    BY <1>2, <1>4, <1>6, <1>9, Sizes
  <2>2. lineEnd' \in {Null, Beyond}
    BY <1>1, <1>2, <1>7, <2>1, FoundIs, TypedIs
  <2>. QED
    BY <1>1, <1>3, <1>9, <2>2 DEF LineEndRight
<1>. QED
  BY <1>8, <1>9

LEMMA ConcatIs ==
    ASSUME NEW S, NEW a \in Seq(S), NEW b \in Seq(S)
    PROVE  /\ a \o b \in Seq(S) /\ Len(a \o b) = Len(a) + Len(b)
           /\ \A i \in 1 .. Len(a) + Len(b) : (a \o b)[i] = IF i <= Len(a) THEN a[i] ELSE b[i - Len(a)]
OBVIOUS

LEMMA GoodTake ==
    ASSUME Typed, Good, HasLines(pending), TakeLine
    PROVE  LineRight'
<1> DEFINE f == FixedSize - tail
<1>1. pc = "take" /\ pc' = "release" /\ tail' = tail /\ pending' = pending /\ lineEnd' = lineEnd
  BY DEF TakeLine, ring
<1>2. /\ copy.tail = tail /\ ~Empty /\ tail \in 0 .. FixedSize - 1
      /\ Len(pending) \in 1 .. FixedSize - 1 /\ pending \in Seq(Ink)
      /\ \A j \in 1 .. Len(pending) : buffer[At(tail, j - 1)] = pending[j] /\ pending[j] # "end"
  BY <1>1, WhileReading
<1>3. PICK m \in 1 .. Len(pending) : copy.head = At(tail, m) /\ pending[m] = "\n"
  BY <1>1, WhileReading
<1>4. PICK k \in 1 .. LineSize :
        /\ First(pending, k)
        /\ IF tail + k - 1 < FixedSize THEN lineEnd = tail + k - 1
           ELSE lineEnd \in {Null, Beyond}
  BY <1>1 DEF Good, LineEndRight
<1>5. /\ k \in 1 .. Len(pending) /\ pending[k] = "\n" /\ \A i \in 1 .. k - 1 : pending[i] # "\n"
      /\ k <= m /\ m \in 1 .. FixedSize - 1 /\ f \in 1 .. FixedSize
  BY <1>2, <1>3, <1>4, Sizes DEF First
<1>6. copy \in [head : 0 .. FixedSize - 1, tail : 0 .. FixedSize - 1]
  BY TypedIs
<1>7. Wrapped <=> tail + m >= FixedSize
  BY <1>2, <1>3, <1>5, Sizes DEF Wrapped, At
<1>8. Consumable = IF tail + m >= FixedSize THEN f ELSE m
  <2>1. (IF Wrapped THEN FixedSize ELSE copy.head) - copy.tail = IF tail + m >= FixedSize THEN f ELSE m
    BY <1>2, <1>3, <1>5, <1>7, Sizes DEF At
  <2> DEFINE x == IF tail + m >= FixedSize THEN f ELSE m
  <2>2. x \in 0 .. FixedSize
    BY <1>5, Sizes
  <2>3. FixedSize < 65536
    BY Sizes
  <2> HIDE DEF x
  <2>4. x % 65536 = x
    BY <2>2, <2>3, Sizes
  <2>5. Consumable = x % 65536
    BY <2>1 DEF Consumable, x
  <2>. QED
    BY <2>4, <2>5 DEF x
<1>9. WillConsume = IF LineSize < Consumable THEN LineSize ELSE Consumable
  BY DEF WillConsume, Least
<1>10. \A n \in 0 .. f : /\ Text(tail, n) \in Seq(Characters) /\ Len(Text(tail, n)) = n
                         /\ \A i \in 1 .. n : i <= Len(pending) => Text(tail, n)[i] = pending[i]
  <2> SUFFICES ASSUME NEW n \in 0 .. f
               PROVE  /\ Text(tail, n) \in Seq(Characters) /\ Len(Text(tail, n)) = n
                      /\ \A i \in 1 .. n : i <= Len(pending) => Text(tail, n)[i] = pending[i]
    OBVIOUS
  <2>1. /\ Text(tail, n) \in Seq(Characters) /\ Len(Text(tail, n)) = n
        /\ \A i \in 1 .. n : Text(tail, n)[i] = buffer[tail + i - 1]
    BY <1>2, <1>5, TextIs
  <2>2. ASSUME NEW i \in 1 .. n, i <= Len(pending)
        PROVE  i \in 1 .. Len(pending) /\ At(tail, i - 1) = tail + i - 1
    BY <1>2, <1>5, <2>2, Sizes DEF At
  <2>. QED
    BY <1>2, <2>1, <2>2
(* What is left to show of a line that is put together. *)
<1>11. ASSUME NEW n \in 1 .. Len(pending), line' \in Seq(Characters), Len(line') = n,
              \A i \in 1 .. n : line'[i] = pending[i],
              copy' = [copy EXCEPT !.tail = At(tail, n)],
              n = k \/ lineEnd = Beyond
       PROVE  LineRight'
  <2>1. line' = SubSeq(pending, 1, n)
    <3> DEFINE text == SubSeq(pending, 1, n)
    <3>1. text \in Seq(Ink) /\ Len(text) = n /\ \A i \in 1 .. n : text[i] = pending[i]
      BY <1>2, <1>11
    <3>2. \A i \in 1 .. n : line'[i] = text[i]
      BY <1>11, <3>1
    <3> HIDE DEF text
    <3>3. line' = text
      BY <1>11, <3>1, <3>2
    <3>. QED
      BY <3>3 DEF text
  <2>2. copy'.tail = At(tail, n)
    BY <1>6, <1>11
  <2>3. line'[n] = "\n" \/ lineEnd = Beyond
    BY <1>5, <1>11
  <2>. QED
    BY <1>1, <1>11, <2>1, <2>2, <2>3 DEF LineRight
<1>12. CASE tail + k - 1 < FixedSize
  <2>1. lineEnd = tail + k - 1 /\ lineEnd # Null
    BY <1>2, <1>4, <1>12, Sizes DEF Null
  <2>2. Least(WillConsume, lineEnd - copy.tail + 1) = k
    <3>1. lineEnd - copy.tail + 1 = k
      BY <1>2, <1>5, <2>1, Sizes
    <3>2. k <= LineSize /\ k <= Consumable
      BY <1>2, <1>5, <1>8, <1>12, Sizes
    <3>3. Consumable \in Int
      BY <1>5, <1>8
    <3>4. WillConsume \in Int /\ k <= WillConsume
      BY <1>9, <3>2, <3>3, Sizes
    <3>. QED
      BY <3>1, <3>4 DEF Least
  <2>3. line' = Text(tail, k) /\ copy' = [copy EXCEPT !.tail = (tail + k) % FixedSize]
    BY <1>2, <2>1, <2>2 DEF TakeLine
  <2>4. k \in 0 .. f /\ k \in 0 .. FixedSize
    BY <1>2, <1>5, <1>12, Sizes
  <2>5. /\ line' \in Seq(Characters) /\ Len(line') = k
        /\ \A i \in 1 .. k : line'[i] = pending[i]
    BY <1>5, <1>10, <2>3, <2>4
  <2>6. (tail + k) % FixedSize = At(tail, k)
    <3> DEFINE x == tail + k
    <3>1. x \in 0 .. FixedSize
      BY <1>2, <2>4, <1>12, Sizes
    <3> HIDE DEF x
    <3>2. x % FixedSize = IF x < FixedSize THEN x ELSE x - FixedSize
      BY <3>1, Sizes
    <3>3. At(tail, k) = IF x < FixedSize THEN x ELSE x - FixedSize
      BY <1>2, <2>4, Sizes DEF At, x
    <3>4. x % FixedSize = At(tail, k)
      BY <3>2, <3>3
    <3>. QED
      BY <3>4 DEF x
  <2>. QED
    BY <1>5, <1>11, <2>3, <2>5, <2>6
<1>13. CASE ~(tail + k - 1 < FixedSize)
  <2>1. f \in 1 .. k - 1 /\ tail + m >= FixedSize /\ Wrapped
    BY <1>2, <1>5, <1>7, <1>13, Sizes
  <2>2. Consumable = f /\ WillConsume = f
    BY <1>8, <1>9, <2>1, Sizes
  <2>3. At(tail, f) = 0
    BY <1>2, Sizes DEF At
  <2>4. /\ Text(tail, f) \in Seq(Characters) /\ Len(Text(tail, f)) = f
        /\ \A i \in 1 .. f : Text(tail, f)[i] = pending[i]
    <3>1. f \in 0 .. f /\ \A i \in 1 .. f : i <= Len(pending)
      BY <1>5, <2>1
    <3> HIDE DEF f
    <3>. QED
      BY <1>10, <3>1
  <2>5. CASE lineEnd = Beyond
    <3>1. Least(WillConsume, lineEnd - copy.tail + 1) = f /\ lineEnd # Null
      BY <1>2, <2>2, <2>5, Sizes DEF Least, Beyond, Null
    <3>2. line' = Text(tail, f) /\ copy' = [copy EXCEPT !.tail = (tail + f) % FixedSize]
      BY <1>2, <3>1 DEF TakeLine
    <3>3. (tail + f) % FixedSize = 0
      BY <1>2, Sizes
    <3>4. f \in 1 .. Len(pending)
      BY <1>5, <2>1
    <3> HIDE DEF f
    <3>. QED
      BY <1>11, <2>3, <2>4, <2>5, <3>2, <3>3, <3>4
  <2>6. CASE lineEnd = Null
    <3> DEFINE n == k - f
               end == n - 1
    <3>1. n \in 1 .. LineSize /\ end \in 0 .. FixedSize /\ n \in 1 .. FixedSize - 1
      BY <1>4, <2>1, Sizes
    <3>2. \A j \in 1 .. n : buffer[j - 1] = pending[f + j] /\ f + j \in 1 .. k
      <4> SUFFICES ASSUME NEW j \in 1 .. n
                   PROVE  buffer[j - 1] = pending[f + j] /\ f + j \in 1 .. k
        OBVIOUS
      <4>1. f + j \in 1 .. k /\ f + j \in 1 .. Len(pending) /\ At(tail, (f + j) - 1) = j - 1
        BY <1>2, <1>5, <2>1, <3>1, Sizes DEF At
      <4>. QED
        BY <1>2, <4>1
    <3>3. Found(0) = {end}
      <4>1. buffer[end] = "\n"
        <5>1. n \in 1 .. n /\ f + n = k
          BY <1>5, <2>1, <3>1
        <5>2. buffer[n - 1] = pending[k]
          BY <3>2, <5>1
        <5>. QED
          BY <1>5, <5>2
      <4>2. \A i \in 0 .. end - 1 : buffer[i] \notin {"\n", "end"}
        <5> SUFFICES ASSUME NEW i \in 0 .. end - 1
                     PROVE  buffer[i] \notin {"\n", "end"}
          OBVIOUS
        <5>1. i + 1 \in 1 .. n /\ (i + 1) - 1 = i /\ f + (i + 1) \in 1 .. k - 1 /\ f + (i + 1) \in 1 .. Len(pending)
          <6>1. f \in Nat /\ k \in Nat /\ k <= Len(pending) /\ Len(pending) \in Nat
            BY <1>2, <1>5
          <6>2. n \in 1 .. LineSize /\ LineSize \in Nat
            BY <3>1, Sizes
          <6> HIDE DEF f
          <6>. QED
            BY <6>1, <6>2
        <5>2. buffer[i] = pending[f + (i + 1)]
          BY <3>2, <5>1
        <5>. QED
          BY <1>2, <1>5, <5>1, <5>2
      <4>3. 0 \in 0 .. FixedSize /\ end \in 0 .. FixedSize
        BY <3>1, Sizes
      <4> HIDE DEF end
      <4>. QED
        BY <4>1, <4>2, <4>3, FoundIs
    <3>4. Least(LineSize - WillConsume, Extra(end)) = n /\ end # Null
      BY <1>4, <2>1, <2>2, <3>1, Sizes DEF Least, Extra, Null
    <3>5. line' = Text(tail, f) \o Text(0, n) /\ copy' = [copy EXCEPT !.tail = n % FixedSize]
      <4> HIDE DEF n, end, f
      <4>1. PICK e \in Found(0) :
              LET x == IF e = Null THEN 0 ELSE Least(LineSize - WillConsume, Extra(e))
              IN /\ line' = Text(copy.tail, WillConsume) \o Text(0, x)
                 /\ copy' = [copy EXCEPT !.tail = x % FixedSize]
        BY <2>1, <2>2, <2>6 DEF TakeLine
      <4>2. e = end
        BY <3>3, <4>1
      <4>. QED
        BY <1>2, <2>2, <3>4, <4>1, <4>2
    <3>6. /\ Text(0, n) \in Seq(Characters) /\ Len(Text(0, n)) = n
          /\ \A j \in 1 .. n : Text(0, n)[j] = pending[f + j]
      <4>1. 0 \in 0 .. FixedSize - 1 /\ n \in 0 .. FixedSize - 0 /\ n \in Int
        BY <3>1, Sizes
      <4>2. /\ Text(0, n) \in Seq(Characters) /\ Len(Text(0, n)) = n
            /\ \A j \in 1 .. n : Text(0, n)[j] = buffer[0 + j - 1]
        <5> HIDE DEF n
        <5>. QED
          BY <4>1, TextIs
      <4>3. \A j \in 1 .. n : 0 + j - 1 = j - 1
        OBVIOUS
      <4>. QED
        BY <3>2, <4>2, <4>3
    <3>7. n % FixedSize = At(tail, k)
      <4>1. n % FixedSize = n
        BY <3>1, Sizes
      <4>2. At(tail, k) = n
        BY <1>2, <1>5, <2>1, Sizes DEF At
      <4>. QED
        BY <4>1, <4>2
    <3>8. f \in 1 .. k - 1 /\ k = f + n /\ n \in Nat
      BY <1>5, <2>1, <3>1
    <3> HIDE DEF f, n
    <3>9. /\ line' \in Seq(Characters) /\ Len(line') = k
          /\ \A i \in 1 .. k : line'[i] = pending[i]
      <4> DEFINE front == Text(tail, f)
                 back == Text(0, n)
      <4>1. /\ front \in Seq(Characters) /\ Len(front) = f /\ \A i \in 1 .. f : front[i] = pending[i]
            /\ back \in Seq(Characters) /\ Len(back) = n /\ \A j \in 1 .. n : back[j] = pending[f + j]
            /\ line' = front \o back
        BY <2>4, <3>5, <3>6
      <4> HIDE DEF front, back
      <4>2. /\ line' \in Seq(Characters) /\ Len(line') = k
            /\ \A i \in 1 .. f : line'[i] = front[i]
            /\ \A i \in f + 1 .. k : line'[i] = back[i - f] /\ i - f \in 1 .. n /\ f + (i - f) = i
        <5>1. /\ line' \in Seq(Characters) /\ Len(line') = Len(front) + Len(back)
              /\ \A i \in 1 .. Len(front) + Len(back) :
                   line'[i] = IF i <= Len(front) THEN front[i] ELSE back[i - Len(front)]
          BY <4>1, ConcatIs
        <5>. QED
          BY <3>8, <4>1, <5>1
      <4>. QED
        BY <3>8, <4>1, <4>2
    <3>. QED
      BY <1>5, <1>11, <3>5, <3>7, <3>9
  <2>. QED
    BY <1>4, <1>13, <2>5, <2>6
<1>. QED
  BY <1>12, <1>13

LEMMA GoodFinish ==
    ASSUME Typed, Good, Finish
    PROVE  Good'
<1> DEFINE c == Len(pending)
           n == Len(line)
<1>1. /\ pc = "finish" /\ pc' = "while" /\ tail' = copy.tail
      /\ pending' = SubSeq(pending, n + 1, c)
      /\ buffer' = buffer /\ head' = head /\ maxed' = maxed
  BY DEF Finish
<1>2. /\ n \in 1 .. c /\ copy.tail = At(tail, n) /\ ~maxed
      /\ c <= FixedSize - 1 /\ head = At(tail, c)
      /\ \A j \in 1 .. c : buffer[At(tail, j - 1)] = pending[j]
  BY <1>1 DEF Good, LineRight, MaxedRight, Holds
<1>3. tail \in 0 .. FixedSize - 1 /\ copy.tail \in 0 .. FixedSize - 1 /\ pending \in Seq(Ink) /\ c \in Nat
  BY TypedIs
<1>4. /\ Len(pending') = c - n
      /\ \A j \in 1 .. c - n : pending'[j] = pending[n + j]
  BY <1>1, <1>2, <1>3, RestOf
<1> HIDE DEF c, n
<1>5. c - n \in 0 .. FixedSize - 2
  BY <1>2, <1>3, Sizes
<1>6. \A i \in 0 .. c - n : At(tail', i) = At(tail, n + i)
  BY <1>1, <1>2, <1>3, Sizes DEF At
<1>7. head' = At(tail', c - n)
  <2>1. c - n \in 0 .. c - n /\ n + (c - n) = c
    BY <1>2, <1>3, <1>5
  <2>. QED
    BY <1>1, <1>2, <1>6, <2>1
<1>8. \A j \in 1 .. c - n : buffer'[At(tail', j - 1)] = pending'[j]
  <2> SUFFICES ASSUME NEW j \in 1 .. c - n
               PROVE  buffer'[At(tail', j - 1)] = pending'[j]
    OBVIOUS
  <2>1. j - 1 \in 0 .. c - n /\ n + j \in 1 .. c /\ n + (j - 1) = (n + j) - 1
    BY <1>2, <1>3, <1>5
  <2>. QED
    BY <1>1, <1>2, <1>4, <1>6, <2>1
<1>9. Holds(buffer', head', tail', pending')
  BY <1>4, <1>5, <1>7, <1>8, Sizes DEF Holds
<1>10. head' # tail' - 1
  <2>1. tail' \in 0 .. FixedSize - 1 /\ c - n \in 0 .. FixedSize - 1 /\ c - n # FixedSize - 1
    BY <1>1, <1>3, <1>5, Sizes
  <2>. QED
    BY <1>7, <2>1, EndsOf
<1>11. MaxedRight'
  BY <1>1, <1>2, <1>10 DEF MaxedRight
<1>. QED
  BY <1>1, <1>9, <1>11 DEF Good, SnapshotRight, LineEndRight, LineRight

LEMMA InvInit == Init => Inv
<1> SUFFICES ASSUME Init
             PROVE  Inv
  OBVIOUS
<1>1. HasLines(pending)
  BY DEF Init, HasLines
<1>2. Holds(buffer, head, tail, pending)
  BY Sizes DEF Init, Holds, At
<1>. QED
  BY <1>1, <1>2, TypedInit DEF Init, Inv, Good, MaxedRight, SnapshotRight, LineEndRight, LineRight

LEMMA InvStep ==
    ASSUME LinesFit
    PROVE  Inv /\ [Next]_vars => Inv'
<1> SUFFICES ASSUME Inv, [Next]_vars
             PROVE  Inv'
  OBVIOUS
<1>1. Typed /\ HasLines(pending) /\ Typed' /\ HasLines(pending')
  BY TypedStep, HasLinesStep DEF Inv
<1>2. SUFFICES ASSUME ~raced'
               PROVE  Good'
  BY <1>1 DEF Inv
<1>3. raced \in BOOLEAN
  BY <1>1, TypedIs
<1>4. ~raced
  <2>1. CASE LogFromInterrupt
    <3>1. PICK l \in Lines : raced' = (raced \/ Loses(l))
      BY <2>1 DEF LogFromInterrupt
    <3>. QED
      BY <1>2, <3>1, Zenon
  <2>2. CASE raced' = raced
    BY <1>2, <2>2
  <2>. QED
    BY <2>1, <2>2 DEF Next, PrintStep, LogFromLoop, PrintAvailableLogging, While, CopyEnds, FindLineEnd,
       TakeLine, ReleaseMaxed, Finish, WillClear, TestEmpty, Reset, vars
<1>5. Good
  BY <1>4 DEF Inv
<1>6. /\ tail \in 0 .. FixedSize - 1 /\ pending \in Seq(Ink) /\ Len(pending) \in 0 .. FixedSize - 1
      /\ Holds(buffer, head, tail, pending) /\ head = At(tail, Len(pending))
  BY <1>1, <1>5, TypedIs, Sizes DEF Good, Holds
<1>7. /\ head = tail <=> pending = <<>>
      /\ head = tail - 1 => pending # <<>>
  <2>1. pending = <<>> <=> Len(pending) = 0
    BY <1>6
  <2> DEFINE c == Len(pending)
  <2>2. c \in 0 .. FixedSize - 1 /\ head = At(tail, c)
    BY <1>6
  <2> HIDE DEF c
  <2>3. (head = tail <=> c = 0) /\ (head = tail - 1 => c # 0)
    BY <1>6, <2>2, Sizes DEF At
  <2>. QED
    BY <2>1, <2>3 DEF c
<1>8. CASE LogFromLoop
  <2>1. PICK l \in Lines : Write(l)
    BY <1>8 DEF LogFromLoop
  <2>2. ~Loses(l)
    BY <1>8 DEF LogFromLoop, Loses, InLine
  <2>. QED
    BY <1>1, <1>5, <1>8, <2>1, <2>2, GoodWrite DEF LogFromLoop
<1>9. CASE LogFromInterrupt
  <2>1. PICK l \in Lines : Write(l) /\ raced' = (raced \/ Loses(l))
    BY <1>9 DEF LogFromInterrupt
  <2>2. ~Loses(l)
    BY <1>2, <2>1, Zenon
  <2>. QED
    BY <1>1, <1>5, <1>9, <2>1, <2>2, GoodWrite DEF LogFromInterrupt
<1>10. CASE PrintAvailableLogging
  <2>1. maxed => pending # <<>>
    BY <1>5, <1>7, <1>10 DEF PrintAvailableLogging, Good, MaxedRight
  <2>2. pc = "idle" /\ pc' \in {"line", "while"} /\ (pc' = "line" => maxed) /\ UNCHANGED <<ring, pending>>
    BY <1>10 DEF PrintAvailableLogging
  <2>. QED
    BY <1>5, <2>1, <2>2 DEF ring, Good, MaxedRight, SnapshotRight, LineEndRight, LineRight
<1>11. CASE While
  <2>1. pc = "while" /\ pc' \in {"line", "clear"} /\ (pc' = "line" => ~Empty) /\ UNCHANGED <<ring, pending>>
    BY <1>11 DEF While
  <2>. QED
    BY <1>5, <1>7, <2>1 DEF Empty, ring, Good, MaxedRight, SnapshotRight, LineEndRight, LineRight
<1>12. CASE CopyEnds
  <2>1. /\ pc = "line" /\ pc' = "measure" /\ copy' = [head |-> head, tail |-> tail] /\ UNCHANGED <<ring, pending>>
    BY <1>12 DEF CopyEnds
  <2>2. Len(pending) \in 1 .. Len(pending)
    BY <1>5, <1>6, <2>1 DEF Good
  <2>3. pending[Len(pending)] = "\n"
    <3>1. PICK j \in Len(pending) .. Len(pending) : pending[j] = "\n"
      BY <1>1, <2>2 DEF HasLines
    <3>2. j = Len(pending)
      BY <1>6, <3>1
    <3>. QED
      BY <3>1, <3>2
  <2>4. SnapshotRight'
    BY <1>6, <2>1, <2>2, <2>3 DEF SnapshotRight, ring
  <2>. QED
    BY <1>5, <2>1, <2>4 DEF ring, Good, MaxedRight, LineEndRight, LineRight
<1>13. CASE FindLineEnd
  <2>1. LineEndRight'
    BY <1>1, <1>5, <1>13, GoodFind
  <2>2. pc = "measure" /\ pc' = "take" /\ UNCHANGED <<ring, copy, pending>>
    BY <1>13 DEF FindLineEnd
  <2>. QED
    BY <1>5, <2>1, <2>2 DEF ring, Good, MaxedRight, SnapshotRight, LineRight
<1>14. CASE TakeLine
  <2>1. LineRight'
    BY <1>1, <1>5, <1>14, GoodTake
  <2>2. pc = "take" /\ pc' = "release" /\ UNCHANGED <<ring, pending>>
    BY <1>14 DEF TakeLine
  <2>. QED
    BY <1>5, <2>1, <2>2 DEF ring, Good, MaxedRight, SnapshotRight, LineEndRight
<1>15. CASE ReleaseMaxed
  <2>1. /\ pc = "release" /\ pc' = "finish" /\ maxed' = FALSE
        /\ UNCHANGED <<buffer, head, tail, reading, pending>>
    BY <1>15 DEF ReleaseMaxed
  <2>. QED
    BY <1>5, <2>1 DEF reading, Good, MaxedRight, SnapshotRight, LineEndRight, LineRight
<1>16. CASE Finish
  BY <1>1, <1>5, <1>16, GoodFinish
<1>17. CASE WillClear
  <2>1. pc = "clear" /\ pc' = "test" /\ UNCHANGED <<buffer, head, tail, maxed, pending>>
    BY <1>17 DEF WillClear
  <2>. QED
    BY <1>5, <2>1 DEF Good, MaxedRight, SnapshotRight, LineEndRight, LineRight
<1>18. CASE TestEmpty
  <2>1. /\ pc = "test" /\ pc' \in {"reset", "idle"} /\ (pc' = "reset" => head = tail)
        /\ UNCHANGED <<ring, pending>>
    BY <1>18 DEF TestEmpty, Empty
  <2>. QED
    BY <1>5, <1>7, <2>1 DEF ring, Good, MaxedRight, SnapshotRight, LineEndRight, LineRight
<1>19. CASE Reset
  <2>1. /\ pc = "reset" /\ pc' = "idle" /\ head' = 0 /\ tail' = 0 /\ ~maxed'
        /\ pending' = <<>>
    BY <1>5, <1>19 DEF Reset, Good
  <2>2. Holds(buffer', head', tail', pending')
    BY <2>1, Sizes DEF Holds, At
  <2>. QED
    BY <2>1, <2>2 DEF Good, MaxedRight, SnapshotRight, LineEndRight, LineRight
<1>20. CASE UNCHANGED vars
  BY <1>5, <1>20 DEF vars, ring, reading, Good, MaxedRight, SnapshotRight, LineEndRight, LineRight, First
<1>. QED
  BY <1>8, <1>9, <1>10, <1>11, <1>12, <1>13, <1>14, <1>15, <1>16, <1>17, <1>18, <1>19, <1>20
     DEF Next, PrintStep

THEOREM InvCorrect ==
    ASSUME LinesFit
    PROVE  Spec => []Inv
BY InvInit, InvStep, PTL DEF Spec

(* The ring of printAvailableLogging, of any size, with any lines that fit  *)
(* and any number of interrupts, holds the newest characters not yet read,  *)
(* in order, unless an interrupt logged where text is lost (InOrder).       *)
THEOREM RingInOrder ==
    ASSUME LinesFit
    PROVE  Spec => []InOrder
<1>1. Inv => InOrder
  BY HeldIs DEF Inv, Good, InOrder
<1>. QED
  BY <1>1, InvCorrect, PTL

(* consume_line returns the oldest text of the ring up to its newline, also  *)
(* across the end of the ring (LineIsOldest).                                *)
THEOREM RingLineIsOldest ==
    ASSUME LinesFit
    PROVE  Spec => []LineIsOldest
<1>1. Inv => LineIsOldest
  BY DEF Inv, Good, LineRight, LineIsOldest, ReadInOrder
<1>. QED
  BY <1>1, InvCorrect, PTL

(* consume_line returns at least one character of a ring found not empty,    *)
(* so that printAvailableLogging does not look at line[-1] (LineHasText).    *)
THEOREM RingLineHasText ==
    ASSUME LinesFit
    PROVE  Spec => []LineHasText
<1>1. Inv => LineHasText
  <2> SUFFICES ASSUME Inv, pc = "finish", ~raced
               PROVE  line # <<>>
    BY DEF LineHasText
  <2>1. Len(line) \in 1 .. Len(pending)
    BY DEF Inv, Good, LineRight
  <2>. QED
    BY <2>1
<1>. QED
  BY <1>1, InvCorrect, PTL
==============================================================================
