----------------------------- MODULE RingProofs -----------------------------
(***************************************************************************)
(* Proofs about Ring, for any capacity, any cursor width that is a         *)
(* multiple of it and any number of items, when a panic in drain's         *)
(* callback is not caught: no slot is written while it holds an item or    *)
(* read before it does, no wake is lost, and the ring is a bounded FIFO    *)
(* whose bursts enter back to front.                                       *)
(***************************************************************************)
EXTENDS RingRefinement, TLAPS

\* From oldest to newest, the cursors are the producer's cache of tail, tail, the
\* next slot to move out, head and the next slot to write: never more than CAP in all.
Lag       == Span(cachedTail, tail)
Taken     == Span(tail, c)
Published == Span(c, head)
Written   == Span(head, h)

Order ==
  /\ Lag + Taken + Published + Written <= CAP
  /\ pp = "write" => Lag + Taken + Published + Written + left <= CAP
  /\ pp \notin {"write", "publish"} => h = head
  /\ cp \notin {"free", "take", "call", "commit"} => c = tail

\* A burst under way is not empty, and its items can be counted.
Burst ==
  pp \in {"room", "refresh", "closed", "arm", "look", "lookClosed", "sleep", "disarm", "write"} =>
    left >= 1 /\ sent + left <= MaxItems

\* What the consumer takes for published is.
Known ==
  /\ cp \in {"idle", "cached", "refresh", "closed", "reread", "read", "free", "wake",
             "arm", "look", "lookClosed", "sleep", "disarm", "load"} =>
       Span(c, cachedHead) <= Published
  /\ cp = "read" => cachedHead # c
  /\ cp \in {"take", "call", "commit", "drainWake"} => Span(c, stop) <= Published
  /\ cp = "take" => stop # c
  /\ cp \in {"commit", "drainWake"} => stop = c

\* How far a slot lies after the next one to move out.
After(s) == (s - Mask(c)) % CAP

\* The slots from there on hold the items in the order they were written, and the
\* other slots nothing.
Items ==
  /\ sent = got + Span(c, h)
  /\ \A s \in Slot :
       slots[s] = IF ~freed /\ After(s) < Span(c, h) THEN got + 1 + After(s) ELSE 0
  /\ freed => pp = "gone" /\ cp = "gone"

\* The flag is set by the first of the two that goes.
Flag == closed <=> pp \in Closing \/ cp \in Closing

\* A producer on its way to sleep is already owed what it no longer looks at.
SenderInv ==
  /\ pp \in {"look", "lookClosed", "sleep", "disarm"} => parked["not_full"]
  /\ pp \in {"lookClosed", "sleep"} /\ Span(tail, head) < CAP =>
       token["not_full"] \/ cp \in {"wake", "drainWake", "drop", "closeFull"}
  /\ pp = "sleep" /\ closed => token["not_full"] \/ cp = "closeFull"

\* And so is a consumer.
ReceiverInv ==
  /\ cp \in {"look", "lookClosed", "sleep", "disarm"} => parked["not_empty"]
  /\ cp \in {"lookClosed", "sleep"} /\ head # tail =>
       token["not_empty"] \/ pp \in {"wake", "closeFull", "closeEmpty"}
  /\ cp = "sleep" /\ closed => token["not_empty"] \/ pp \in {"closeFull", "closeEmpty"}

IInv ==
  TypeOK /\ Order /\ Burst /\ Known /\ Items /\ Flag /\ SenderInv /\ ReceiverInv

-----------------------------------------------------------------------------
(* Arithmetic of the cursors.                                              *)

\* RingAssumption, spelled out for the arithmetic below.
LEMMA Sizes ==
  /\ CAP \in Nat \ {0} /\ Width \in Nat \ {0} /\ Width > CAP /\ Width % CAP = 0
  /\ MaxItems \in Nat
BY RingAssumption

\* What is known of a remainder: its range, its value near the divisor, and that
\* multiples of the divisor do not change it.
LEMMA Remainders ==
  ASSUME NEW n \in Nat \ {0}
  PROVE  /\ \A x \in Int : x % n \in 0 .. n - 1
         /\ \A x \in Int : 0 <= x /\ x < n => x % n = x
         /\ \A x \in Int : n <= x /\ x < n + n => x % n = x - n
         /\ \A x \in Int : -n <= x /\ x < 0 => x % n = x + n
<1>1. \A x \in Int : x % n \in 0 .. n - 1
  OBVIOUS
<1>2. \A x \in Int : 0 <= x /\ x < n => x % n = x
  OBVIOUS
<1>3. \A x \in Int : n <= x /\ x < n + n => x % n = x - n
  OBVIOUS
<1>4. \A x \in Int : -n <= x /\ x < 0 => x % n = x + n
  OBVIOUS
<1>5. QED
  BY <1>1, <1>2, <1>3, <1>4

\* A number is a multiple of the divisor plus one remainder only.
LEMMA RemainderUnique ==
  ASSUME NEW n \in Nat \ {0}, NEW q \in Int, NEW r \in 0 .. n - 1
  PROVE  (n * q + r) % n = r
OBVIOUS

\* And every number is one.
LEMMA Quotient ==
  ASSUME NEW n \in Nat \ {0}, NEW x \in Int
  PROVE  \E q \in Int : x - n * q = x % n
<1>1. x \div n \in Int
  OBVIOUS
<1>2. x - n * (x \div n) = x % n
  OBVIOUS
<1>3. QED
  BY <1>1, <1>2

\* The distance from one cursor to another, and a cursor that moves.
LEMMA SpanValue ==
  ASSUME NEW x \in Cursor, NEW y \in Cursor
  PROVE  Span(x, y) = IF x <= y THEN y - x ELSE y - x + Width
<1>1. x \in Int /\ y \in Int /\ Width \in Nat \ {0} /\ x >= 0 /\ y >= 0 /\ x < Width /\ y < Width
  BY Sizes DEF Cursor
<1>2. CASE x <= y
  <2>1. y - x \in Int /\ 0 <= y - x /\ y - x < Width
    BY <1>1, <1>2
  <2>2. QED
    BY <1>1, <1>2, <2>1, Remainders DEF Span
<1>3. CASE ~(x <= y)
  <2>1. y - x \in Int /\ -Width <= y - x /\ y - x < 0
    BY <1>1, <1>3
  <2>2. QED
    BY <1>1, <1>3, <2>1, Remainders DEF Span
<1>4. QED
  BY <1>2, <1>3

\* A cursor moved on, without the remainder.
LEMMA PlusValue ==
  ASSUME NEW x \in Cursor, NEW k \in 0 .. Width - 1
  PROVE  Plus(x, k) = IF x + k < Width THEN x + k ELSE x + k - Width
<1>1. /\ x \in Int /\ k \in Int /\ Width \in Nat \ {0} /\ x + k \in Int
      /\ 0 <= x + k /\ x + k < Width + Width
  BY Sizes DEF Cursor
<1>2. CASE x + k < Width
  BY <1>1, <1>2, Remainders DEF Plus
<1>3. CASE Width <= x + k
  <2>1. \A y \in Int : Width <= y /\ y < Width + Width => y % Width = y - Width
    BY <1>1, Remainders, Zenon
  <2>2. QED
    BY <1>1, <1>3, <2>1 DEF Plus
<1>4. QED
  BY <1>1, <1>2, <1>3

\* Distances: zero only from a cursor to itself, and they add up within a word.
LEMMA SpanFacts ==
  /\ \A x, y \in Cursor : Span(x, y) \in Nat /\ Span(x, y) < Width
  /\ \A x, y \in Cursor : Span(x, y) = 0 <=> x = y
  /\ \A x, y, z \in Cursor :
       Span(x, y) + Span(y, z) < Width => Span(x, z) = Span(x, y) + Span(y, z)
<1>1. Width \in Nat \ {0} /\ \A x \in Cursor : x \in Nat /\ x < Width
  BY Sizes DEF Cursor
<1>2. QED
  BY <1>1, SpanValue

\* A cursor moved on by k slots is k slots away.
LEMMA PlusFacts ==
  ASSUME NEW x \in Cursor, NEW k \in 0 .. CAP
  PROVE  Plus(x, k) \in Cursor /\ Span(x, Plus(x, k)) = k
<1>1. x \in Nat /\ x < Width /\ k \in Nat /\ k < Width /\ Width \in Nat
  BY Sizes DEF Cursor
<1>2. Plus(x, k) = IF x + k < Width THEN x + k ELSE x + k - Width
  BY <1>1, PlusValue
<1>3. Plus(x, k) \in Cursor
  BY <1>1, <1>2 DEF Cursor
<1>4. QED
  BY <1>1, <1>2, <1>3, SpanValue

\* One slot on: one further from the cursors behind, one nearer to those ahead.
LEMMA NextCursor ==
  ASSUME NEW x \in Cursor, NEW y \in Cursor
  PROVE  /\ Plus(x, 1) \in Cursor
         /\ Span(y, x) < CAP => Span(y, Plus(x, 1)) = Span(y, x) + 1
         /\ Span(x, y) > 0 => Span(Plus(x, 1), y) = Span(x, y) - 1
<1>1. /\ x \in Nat /\ x < Width /\ y \in Nat /\ y < Width
      /\ CAP \in Nat \ {0} /\ Width \in Nat /\ CAP < Width
  BY Sizes DEF Cursor
<1>2. Plus(x, 1) = IF x + 1 < Width THEN x + 1 ELSE x + 1 - Width
  BY <1>1, PlusValue
<1>3. Plus(x, 1) \in Cursor
  BY <1>1, <1>2 DEF Cursor
<1>4. Span(y, Plus(x, 1)) = IF y <= Plus(x, 1) THEN Plus(x, 1) - y ELSE Plus(x, 1) - y + Width
  BY <1>3, SpanValue
<1>5. Span(Plus(x, 1), y) = IF Plus(x, 1) <= y THEN y - Plus(x, 1) ELSE y - Plus(x, 1) + Width
  BY <1>3, SpanValue
<1>6. Span(y, x) < CAP => Span(y, Plus(x, 1)) = Span(y, x) + 1
  BY <1>1, <1>2, <1>4, SpanValue
<1>7. Span(x, y) > 0 => Span(Plus(x, 1), y) = Span(x, y) - 1
  BY <1>1, <1>2, <1>5, SpanValue
<1>8. QED
  BY <1>3, <1>6, <1>7

\* Cursors less than CAP apart mark slots as far apart.
LEMMA MaskSpan ==
  ASSUME NEW x \in Cursor, NEW y \in Cursor, Span(x, y) < CAP
  PROVE  (Mask(y) - Mask(x)) % CAP = Span(x, y)
<1>1. /\ x \in Int /\ y \in Int /\ CAP \in Nat \ {0} /\ Width \in Int
      /\ Span(x, y) \in 0 .. CAP - 1
  BY Sizes, SpanFacts DEF Cursor
<1>2. Mask(x) \in 0 .. CAP - 1 /\ Mask(y) \in 0 .. CAP - 1
  BY <1>1, Remainders DEF Mask
<1>3. PICK qx \in Int : x - CAP * qx = Mask(x)
  BY <1>1, Quotient DEF Mask
<1>4. PICK qy \in Int : y - CAP * qy = Mask(y)
  BY <1>1, Quotient DEF Mask
<1>5. PICK qw \in Int : Width = CAP * qw
  <2>1. PICK q \in Int : Width - CAP * q = 0
    BY <1>1, Quotient, Sizes
  <2>2. CAP * q \in Int
    BY <1>1
  <2>3. QED
    BY <1>1, <2>1, <2>2
<1>6. PICK q \in Int : Mask(y) - Mask(x) = CAP * q + Span(x, y)
  <2>1. CASE Span(x, y) = y - x
    <3>1. CAP * (qx - qy) = CAP * qx - CAP * qy /\ CAP * qx \in Int /\ CAP * qy \in Int
      BY <1>1, <1>3, <1>4
    <3>2. Mask(y) - Mask(x) = CAP * (qx - qy) + Span(x, y)
      BY <1>1, <1>2, <1>3, <1>4, <2>1, <3>1
    <3>3. QED
      BY <3>2
  <2>2. CASE Span(x, y) = y - x + Width
    <3>1. /\ CAP * (qx - qy - qw) = CAP * qx - CAP * qy - CAP * qw
          /\ CAP * qx \in Int /\ CAP * qy \in Int /\ CAP * qw \in Int
      BY <1>1, <1>3, <1>4, <1>5
    <3>2. Mask(y) - Mask(x) = CAP * (qx - qy - qw) + Span(x, y)
      BY <1>1, <1>2, <1>3, <1>4, <1>5, <2>2, <3>1
    <3>3. QED
      BY <3>2
  <2>3. QED
    BY <2>1, <2>2, SpanValue
<1>7. QED
  BY <1>1, <1>6, RemainderUnique

\* The slots after a given one, in order.
LEMMA SlotFacts ==
  /\ \A x \in Int : Mask(x) \in Slot
  /\ \A a, b \in Slot : (b - a) % CAP = IF a <= b THEN b - a ELSE b - a + CAP
<1>1. CAP \in Nat \ {0}
  BY Sizes
<1>2. \A x \in Int : Mask(x) \in Slot
  BY <1>1, Remainders DEF Mask, Slot
<1>3. ASSUME NEW a \in Slot, NEW b \in Slot
      PROVE  (b - a) % CAP = IF a <= b THEN b - a ELSE b - a + CAP
  <2>1. CASE a <= b
    <3>1. b - a \in Int /\ 0 <= b - a /\ b - a < CAP
      BY <1>1, <2>1 DEF Slot
    <3>2. QED
      BY <1>1, <2>1, <3>1, Remainders
  <2>2. CASE ~(a <= b)
    <3>1. b - a \in Int /\ -CAP <= b - a /\ b - a < 0
      BY <1>1, <2>2 DEF Slot
    <3>2. QED
      BY <1>1, <2>2, <3>1, Remainders
  <2>3. QED
    BY <2>1, <2>2
<1>4. QED
  BY <1>2, <1>3

\* The counts of the type invariant are numbers.
LEMMA Counts ==
  ASSUME TypeOK
  PROVE  /\ left \in Nat /\ left <= CAP /\ CAP \in Nat
         /\ sent \in Nat /\ sent <= MaxItems /\ got \in Nat /\ got <= MaxItems
         /\ MaxItems \in Nat
<1>1. left \in 0..CAP /\ sent \in 0..MaxItems /\ got \in 0..MaxItems
  BY DEF TypeOK
<1>2. QED
  BY <1>1, Sizes

\* Distances along the ring add up.
LEMMA OrderFacts ==
  ASSUME TypeOK, Order
  PROVE  /\ Lag \in Nat /\ Taken \in Nat /\ Published \in Nat /\ Written \in Nat
         /\ Span(cachedTail, head) = Lag + Taken + Published
         /\ Span(tail, head) = Taken + Published
         /\ Span(c, h) = Published + Written /\ Span(c, h) <= CAP
         /\ Span(cachedTail, c) = Lag + Taken
         /\ Lag + Taken + Published + Written < Width
<1>1. /\ head \in Cursor /\ tail \in Cursor /\ h \in Cursor /\ c \in Cursor
      /\ cachedTail \in Cursor
  BY DEF TypeOK
<1>2. Lag \in Nat /\ Taken \in Nat /\ Published \in Nat /\ Written \in Nat
  BY <1>1, SpanFacts DEF Lag, Taken, Published, Written
<1>3. CAP \in Nat /\ Width \in Nat /\ CAP < Width /\ Lag + Taken + Published + Written <= CAP
  BY Sizes DEF Order
<1>4. /\ Lag + Taken < Width /\ Taken + Published < Width /\ Published + Written < Width
      /\ Lag + Taken + Published < Width
  BY <1>2, <1>3
<1>5. Span(cachedTail, c) = Lag + Taken
  BY <1>1, <1>4, SpanFacts DEF Lag, Taken
<1>6. Span(tail, head) = Taken + Published
  BY <1>1, <1>4, SpanFacts DEF Taken, Published
<1>7. Span(c, h) = Published + Written
  BY <1>1, <1>4, SpanFacts DEF Published, Written
<1>8. Span(cachedTail, head) = Lag + Taken + Published
  <2>1. Span(cachedTail, c) + Span(c, head) < Width
    BY <1>4, <1>5 DEF Published
  <2>2. Span(cachedTail, head) = Span(cachedTail, c) + Span(c, head)
    BY <1>1, <2>1, SpanFacts
  <2>3. QED
    BY <1>5, <2>2 DEF Published
<1>9. Span(c, h) <= CAP /\ Lag + Taken + Published + Written < Width
  BY <1>2, <1>3, <1>7
<1>10. QED
  BY <1>2, <1>5, <1>6, <1>7, <1>8, <1>9

-----------------------------------------------------------------------------
(* Types.                                                                  *)

RingType ==
  /\ head' \in Cursor /\ tail' \in Cursor /\ slots' \in [Slot -> 0..MaxItems]
  /\ closed' \in BOOLEAN /\ freed' \in BOOLEAN
GateType == parked' \in [Side -> BOOLEAN] /\ token' \in [Side -> BOOLEAN]
ProducerType ==
  /\ pp' \in ProducerPoints /\ send' \in {"none", "try_send", "send", "try_send_bulk"}
  /\ cachedTail' \in Cursor /\ h' \in Cursor /\ left' \in 0..CAP /\ sent' \in 0..MaxItems
  /\ name' \in [0..MaxItems -> 0..MaxItems]
ConsumerType ==
  /\ cp' \in ConsumerPoints /\ recv' \in {"none", "try_recv", "recv", "drain"}
  /\ cachedHead' \in Cursor /\ c' \in Cursor /\ stop' \in Cursor /\ got' \in 0..MaxItems
  /\ outcome' \in {"none", "item", "empty", "closed", "panic"}

\* The four parts of the type invariant after a step.
LEMMA TypeParts == RingType /\ GateType /\ ProducerType /\ ConsumerType => TypeOK'
BY DEF TypeOK, RingType, GateType, ProducerType, ConsumerType

\* What a step leaves alone keeps its type.
LEMMA TypeFrame ==
  ASSUME TypeOK
  PROVE  /\ UNCHANGED <<ringVars, freed>> => RingType
         /\ UNCHANGED gateVars => GateType
         /\ UNCHANGED prodVars => ProducerType
         /\ UNCHANGED consVars => ConsumerType
         /\ pp' \in ProducerPoints /\ UNCHANGED <<send, cachedTail, h, left, sent, name>> =>
              ProducerType
         /\ cp' \in ConsumerPoints /\ UNCHANGED <<recv, cachedHead, c, stop, got, outcome>> =>
              ConsumerType
<1>1. UNCHANGED <<ringVars, freed>> => RingType
  BY DEF TypeOK, RingType, ringVars
<1>2. UNCHANGED gateVars => GateType
  BY DEF TypeOK, GateType, gateVars
<1>3. pp' \in ProducerPoints /\ UNCHANGED <<send, cachedTail, h, left, sent, name>> => ProducerType
  BY DEF TypeOK, ProducerType
<1>4. /\ cp' \in ConsumerPoints /\ UNCHANGED <<recv, cachedHead, c, stop, got, outcome>> =>
           ConsumerType
  BY DEF TypeOK, ConsumerType
<1>5. UNCHANGED prodVars => ProducerType
  BY DEF TypeOK, ProducerType, prodVars
<1>6. UNCHANGED consVars => ConsumerType
  BY DEF TypeOK, ConsumerType, consVars
<1>7. QED
  BY <1>1, <1>2, <1>3, <1>4, <1>5, <1>6

\* The waiters: announcing, ending and waking.
LEMMA GateFacts ==
  ASSUME TypeOK, NEW s \in Side
  PROVE  /\ \A b \in BOOLEAN : Arm(s, b) =>
              /\ parked' \in [Side -> BOOLEAN] /\ parked'[s] = b
              /\ \A r \in Side : r # s => parked'[r] = parked[r]
         /\ Wake(s) =>
              /\ token' \in [Side -> BOOLEAN] /\ (parked[s] => token'[s])
              /\ \A r \in Side : token[r] => token'[r]
         /\ token' = [token EXCEPT ![s] = FALSE] =>
              /\ token' \in [Side -> BOOLEAN]
              /\ \A r \in Side : r # s => token'[r] = token[r]
BY DEF Arm, Wake, TypeOK

\* The two waiters.
LEMMA Sides == {"not_full", "not_empty"} = Side
BY DEF Side

\* What a producer's step makes of the types.
LEMMA ProducerTypes ==
  ASSUME IInv,
         \/ \E op \in {"try_send", "send", "try_send_bulk"}, n \in 1..CAP : StartSend(op, n)
         \/ ProducerStep \/ ProducerCancel \/ ProducerDrop
  PROVE  TypeOK'
<1>0. TypeOK /\ Order /\ Burst /\ Items
  BY DEF IInv
<1> USE DEF ProducerAt, ProducerPoints
<1>1. ASSUME NEW op \in {"try_send", "send", "try_send_bulk"}, NEW n \in 1..CAP,
             StartSend(op, n)
      PROVE  TypeOK'
  <2>1. n \in 0..CAP
    BY Sizes
  <2>2. ProducerType
    BY <1>0, <1>1, <2>1 DEF StartSend, ProducerType, TypeOK
  <2>3. QED
    BY <1>0, <1>1, <2>2, TypeFrame, TypeParts DEF StartSend
<1>2. ASSUME NEW t \in Cursor, Admit(t) PROVE left' \in 0..CAP
  <2>1. left \in 0..CAP /\ Span(t, head) \in Nat /\ CAP \in Nat
    BY <1>0, SpanFacts, Sizes DEF TypeOK
  <2>2. CAP - Span(t, head) > 0 => CAP - Span(t, head) \in 0..CAP
    BY <2>1
  <2>3. QED
    BY <1>2, <2>1, <2>2 DEF Admit
<1>3. CASE Room
  <2>1. left' \in 0..CAP
    BY <1>0, <1>2, <1>3 DEF Room, TypeOK
  <2>2. ProducerType
    BY <1>0, <1>3, <2>1 DEF Room, Admit, ProducerType, TypeOK
  <2>3. QED
    BY <1>0, <1>3, <2>2, TypeFrame, TypeParts DEF Room
<1>4. CASE RefreshTail
  <2>1. left' \in 0..CAP
    BY <1>0, <1>2, <1>4 DEF RefreshTail, TypeOK
  <2>2. ProducerType
    BY <1>0, <1>4, <2>1 DEF RefreshTail, Admit, ProducerType, TypeOK
  <2>3. QED
    BY <1>0, <1>4, <2>2, TypeFrame, TypeParts DEF RefreshTail
<1>5. CASE WriteSlot
  <2>1. /\ left \in 0..CAP /\ left >= 1 /\ sent \in 0..MaxItems /\ sent + left <= MaxItems
        /\ CAP \in Nat /\ MaxItems \in Nat
    BY <1>0, <1>5, Sizes DEF WriteSlot, Burst, TypeOK
  <2>2. left - 1 \in 0..CAP /\ sent + 1 \in 0..MaxItems
    BY <2>1
  <2>3. Plus(h, 1) \in Cursor
    BY <1>0, NextCursor DEF TypeOK
  <2>4. name' \in [0..MaxItems -> 0..MaxItems]
    <3>1. got \in Nat /\ Published \in Nat /\ Written \in Nat /\ sent = got + Published + Written
      BY <1>0, OrderFacts, Counts DEF Items
    <3>2. Popped = sent - Written + left
      BY DEF Popped, Written
    <3>3. Popped \in 0..MaxItems
      BY <2>1, <3>1, <3>2
    <3>4. QED
      BY <1>0, <1>5, <3>3 DEF WriteSlot, TypeOK
  <2>5. ProducerType
    BY <1>0, <1>5, <2>2, <2>3, <2>4 DEF WriteSlot, ProducerType, TypeOK
  <2>6. RingType
    BY <1>0, <1>5, <2>2 DEF WriteSlot, RingType, TypeOK
  <2>7. QED
    BY <1>0, <1>5, <2>5, <2>6, TypeFrame, TypeParts DEF WriteSlot
<1>6. CASE PublishHead
  <2>1. RingType
    BY <1>0, <1>6 DEF PublishHead, RingType, TypeOK
  <2>2. QED
    BY <1>0, <1>6, <2>1, TypeFrame, TypeParts DEF PublishHead
<1>7. CASE FullOrClosed \/ ProducerLook \/ ProducerLookClosed
  BY <1>0, <1>7, TypeFrame, TypeParts DEF FullOrClosed, ProducerLook, ProducerLookClosed
<1>8. CASE WakeConsumer \/ ProducerCloseWakes
  <2>1. GateType
    BY <1>0, <1>8, GateFacts, Sides DEF WakeConsumer, ProducerCloseWakes, GateType, TypeOK
  <2>2. QED
    BY <1>0, <1>8, <2>1, TypeFrame, TypeParts DEF WakeConsumer, ProducerCloseWakes
<1>9. CASE ProducerArm \/ ProducerDisarm \/ ProducerCancel
  <2>1. GateType
    BY <1>0, <1>9, GateFacts, Sides
    DEF ProducerArm, ProducerDisarm, ProducerCancel, GateType, TypeOK
  <2>2. QED
    BY <1>0, <1>9, <2>1, TypeFrame, TypeParts DEF ProducerArm, ProducerDisarm, ProducerCancel
<1>10. CASE ProducerWoken
  <2>1. GateType
    BY <1>0, <1>10, GateFacts, Sides DEF ProducerWoken, GateType, TypeOK
  <2>2. QED
    BY <1>0, <1>10, <2>1, TypeFrame, TypeParts DEF ProducerWoken
<1>11. CASE ProducerDrop
  <2>1. RingType
    BY <1>0, <1>11 DEF ProducerDrop, RingType, TypeOK
  <2>2. QED
    BY <1>0, <1>11, <2>1, TypeFrame, TypeParts DEF ProducerDrop
<1>12. QED
  BY <1>1, <1>3, <1>4, <1>5, <1>6, <1>7, <1>8, <1>9, <1>10, <1>11 DEF ProducerStep

\* What a consumer's step makes of them, and the last of the ring.
LEMMA ConsumerTypes ==
  ASSUME IInv,
         \/ \E op \in {"try_recv", "recv", "drain"} : StartRecv(op)
         \/ ConsumerStep \/ ConsumerCancel \/ DrainPanic \/ ConsumerDrop
         \/ DropRing
  PROVE  TypeOK'
<1>0. TypeOK
  BY DEF IInv
<1> USE DEF ConsumerAt, ConsumerPoints
<1>1. ASSUME NEW op \in {"try_recv", "recv", "drain"}, StartRecv(op) PROVE TypeOK'
  <2>1. ConsumerType
    BY <1>0, <1>1 DEF StartRecv, ConsumerType, TypeOK
  <2>2. QED
    BY <1>0, <1>1, <2>1, TypeFrame, TypeParts DEF StartRecv
<1>2. CASE CachedHead \/ ConsumerLook \/ ConsumerLookClosed \/ DrainCall
  BY <1>0, <1>2, TypeFrame, TypeParts
  DEF CachedHead, ConsumerLook, ConsumerLookClosed, DrainCall
<1>3. CASE RefreshHead \/ EmptyOrClosed
  <2>1. ConsumerType
    BY <1>0, <1>3 DEF RefreshHead, EmptyOrClosed, ConsumerType, TypeOK
  <2>2. QED
    BY <1>0, <1>3, <2>1, TypeFrame, TypeParts DEF RefreshHead, EmptyOrClosed
<1>4. CASE RereadHead \/ DrainLoad
  <2>1. ConsumerType
    BY <1>0, <1>4 DEF RereadHead, DrainLoad, ConsumerType, TypeOK
  <2>2. QED
    BY <1>0, <1>4, <2>1, TypeFrame, TypeParts DEF RereadHead, DrainLoad
<1>5. CASE ReadSlot \/ DrainTake
  <2>1. c \in Cursor /\ Mask(c) \in Slot /\ Plus(c, 1) \in Cursor /\ 0 \in 0..MaxItems
    <3>1. c \in Cursor
      BY <1>0 DEF TypeOK
    <3>2. Mask(c) \in Slot /\ Plus(c, 1) \in Cursor
      BY <3>1, SlotFacts, NextCursor DEF Cursor
    <3>3. QED
      BY <3>1, <3>2, Sizes
  <2>2. slots[Mask(c)] \in 0..MaxItems
    BY <1>0, <2>1 DEF TypeOK
  <2>3. ConsumerType
    BY <1>0, <1>5, <2>1, <2>2 DEF ReadSlot, DrainTake, MoveOut, ConsumerType, TypeOK
  <2>4. RingType
    BY <1>0, <1>5, <2>1 DEF ReadSlot, DrainTake, MoveOut, RingType, TypeOK
  <2>5. QED
    BY <1>0, <1>5, <2>3, <2>4, TypeFrame, TypeParts DEF ReadSlot, DrainTake, MoveOut
<1>6. CASE FreeSlot \/ DrainCommit
  <2>1. RingType
    BY <1>0, <1>6 DEF FreeSlot, DrainCommit, RingType, TypeOK
  <2>2. QED
    BY <1>0, <1>6, <2>1, TypeFrame, TypeParts DEF FreeSlot, DrainCommit
<1>7. CASE DrainPanic
  <2>1. RingType /\ ConsumerType
    BY <1>0, <1>7 DEF DrainPanic, RingType, ConsumerType, TypeOK
  <2>2. QED
    BY <1>0, <1>7, <2>1, TypeFrame, TypeParts DEF DrainPanic
<1>8. CASE WakeProducer \/ DrainWake
  <2>1. GateType
    BY <1>0, <1>8, GateFacts, Sides DEF WakeProducer, DrainWake, GateType, TypeOK
  <2>2. ConsumerType
    BY <1>0, <1>8 DEF WakeProducer, DrainWake, ConsumerType, TypeOK
  <2>3. QED
    BY <1>0, <1>8, <2>1, <2>2, TypeFrame, TypeParts DEF WakeProducer, DrainWake
<1>9. CASE ConsumerArm \/ ConsumerDisarm \/ ConsumerCancel
  <2>1. GateType
    BY <1>0, <1>9, GateFacts, Sides
    DEF ConsumerArm, ConsumerDisarm, ConsumerCancel, GateType, TypeOK
  <2>2. QED
    BY <1>0, <1>9, <2>1, TypeFrame, TypeParts DEF ConsumerArm, ConsumerDisarm, ConsumerCancel
<1>10. CASE ConsumerWoken \/ ConsumerCloseWakes
  <2>1. GateType
    BY <1>0, <1>10, GateFacts, Sides DEF ConsumerWoken, ConsumerCloseWakes, GateType, TypeOK
  <2>2. QED
    BY <1>0, <1>10, <2>1, TypeFrame, TypeParts DEF ConsumerWoken, ConsumerCloseWakes
<1>11. CASE ConsumerDrop
  <2>1. RingType
    BY <1>0, <1>11 DEF ConsumerDrop, RingType, TypeOK
  <2>2. QED
    BY <1>0, <1>11, <2>1, TypeFrame, TypeParts DEF ConsumerDrop
<1>12. CASE DropRing
  <2>1. \A s \in Slot : (IF s \in Occupied(tail, head) THEN 0 ELSE slots[s]) \in 0..MaxItems
    BY <1>0, Sizes DEF TypeOK
  <2>2. slots' \in [Slot -> 0..MaxItems]
    BY <1>12, <2>1 DEF DropRing
  <2>3. RingType
    BY <1>0, <1>12, <2>2 DEF DropRing, RingType, TypeOK
  <2>4. QED
    BY <1>0, <1>12, <2>3, TypeFrame, TypeParts DEF DropRing
<1>13. QED
  BY <1>1, <1>2, <1>3, <1>4, <1>5, <1>6, <1>7, <1>8, <1>9, <1>10, <1>11, <1>12
  DEF ConsumerStep

-----------------------------------------------------------------------------
(* The cursors and the slots.                                              *)

\* The slots between two cursors no more than CAP apart.
LEMMA OccupiedFacts ==
  ASSUME NEW x \in Cursor, NEW y \in Cursor, Span(x, y) <= CAP, NEW s \in Slot
  PROVE  s \in Occupied(x, y) <=> (s - Mask(x)) % CAP < Span(x, y)
<1>1. /\ x \in Int /\ Mask(x) \in Slot /\ CAP \in Nat \ {0} /\ Span(x, y) \in Nat
      /\ s \in Int /\ Mask(x) \in Int
  BY SlotFacts, SpanFacts, Sizes DEF Cursor, Slot
<1>2. ASSUME NEW k \in 0 .. CAP - 1
      PROVE  (Mask(Plus(x, k)) - Mask(x)) % CAP = k
  <2>1. k \in 0 .. CAP
    BY <1>1
  <2>2. Plus(x, k) \in Cursor /\ Span(x, Plus(x, k)) = k
    BY <2>1, PlusFacts
  <2>3. Span(x, Plus(x, k)) < CAP
    BY <1>1, <2>2
  <2>4. (Mask(Plus(x, k)) - Mask(x)) % CAP = Span(x, Plus(x, k))
    BY <2>2, <2>3, MaskSpan
  <2>5. QED
    BY <2>2, <2>4
<1>3. ASSUME s \in Occupied(x, y) PROVE (s - Mask(x)) % CAP < Span(x, y)
  <2>1. PICK k \in 0 .. Span(x, y) - 1 : s = Mask(Plus(x, k))
    BY <1>3 DEF Occupied
  <2>2. k \in 0 .. CAP - 1 /\ k < Span(x, y)
    BY <1>1
  <2>3. QED
    BY <1>2, <2>1, <2>2
<1>4. ASSUME (s - Mask(x)) % CAP < Span(x, y) PROVE s \in Occupied(x, y)
  <2> DEFINE k == (s - Mask(x)) % CAP
  <2>0. s - Mask(x) \in Int
    BY <1>1
  <2>1. k \in 0 .. CAP - 1
    BY <1>1, <2>0, Remainders
  <2>2. k \in 0 .. Span(x, y) - 1
    BY <1>1, <1>4, <2>1
  <2>3. (Mask(Plus(x, k)) - Mask(x)) % CAP = k
    BY <1>2, <2>1
  <2>4. Mask(Plus(x, k)) \in Slot
    <3>1. k \in 0 .. CAP
      BY <1>1, <2>1
    <3>2. Plus(x, k) \in Int
      BY <3>1, PlusFacts DEF Cursor
    <3>3. QED
      BY <3>2, SlotFacts
  <2>5. \A a, b \in Slot : (a - Mask(x)) % CAP = (b - Mask(x)) % CAP => a = b
    BY <1>1, SlotFacts DEF Slot
  <2>6. Mask(Plus(x, k)) = s
    BY <2>3, <2>4, <2>5
  <2>7. QED
    BY <2>2, <2>6 DEF Occupied
<1>5. QED
  BY <1>3, <1>4

\* The slots of the cursors: the next one to write lies Span(c, h) after the next one
\* to move out.
LEMMA AfterFacts ==
  ASSUME TypeOK
  PROVE  /\ \A s \in Slot : After(s) \in 0 .. CAP - 1
         /\ Mask(c) \in Slot /\ After(Mask(c)) = 0
         /\ \A s \in Slot : After(s) = 0 <=> s = Mask(c)
         /\ Mask(h) \in Slot
         /\ Span(c, h) < CAP => After(Mask(h)) = Span(c, h)
         /\ \A a, b \in Slot : After(a) = After(b) => a = b
<1>1. c \in Cursor /\ h \in Cursor /\ c \in Int /\ h \in Int /\ CAP \in Nat \ {0}
  BY Sizes DEF TypeOK, Cursor
<1>2. Mask(c) \in Slot /\ Mask(h) \in Slot
  BY <1>1, SlotFacts
<1>3. \A s \in Slot : After(s) = IF Mask(c) <= s THEN s - Mask(c) ELSE s - Mask(c) + CAP
  BY <1>2, SlotFacts DEF After
<1>4. Span(c, h) < CAP => After(Mask(h)) = Span(c, h)
  BY <1>1, MaskSpan DEF After
<1>5. \A s \in Slot : After(s) \in 0 .. CAP - 1 /\ (After(s) = 0 <=> s = Mask(c))
  BY <1>1, <1>2, <1>3 DEF Slot
<1>6. \A a, b \in Slot : After(a) = After(b) => a = b
  BY <1>1, <1>2, <1>3 DEF Slot
<1>7. QED
  BY <1>2, <1>4, <1>5, <1>6

\* When the next one is moved out the others come one nearer.
LEMMA AfterNext ==
  ASSUME TypeOK, c' = Plus(c, 1), NEW s \in Slot
  PROVE  After(s)' = IF s = Mask(c) THEN CAP - 1 ELSE After(s) - 1
<1>1. c \in Cursor /\ Plus(c, 1) \in Cursor /\ CAP \in Nat \ {0} /\ c \in Int /\ Plus(c, 1) \in Int
  BY NextCursor, Sizes DEF TypeOK, Cursor
<1>2. Mask(c) \in Slot /\ Mask(Plus(c, 1)) \in Slot
  BY <1>1, SlotFacts
<1>3. After(s) = IF Mask(c) <= s THEN s - Mask(c) ELSE s - Mask(c) + CAP
  BY <1>2, SlotFacts DEF After
<1>4. After(s)' = IF Mask(Plus(c, 1)) <= s THEN s - Mask(Plus(c, 1))
                                           ELSE s - Mask(Plus(c, 1)) + CAP
  <2>1. After(s)' = (s - Mask(Plus(c, 1))) % CAP
    BY DEF After, Mask
  <2>2. QED
    BY <1>2, <2>1, SlotFacts
<1>5. Mask(Plus(c, 1)) = IF Mask(c) = CAP - 1 THEN 0 ELSE Mask(c) + 1
  <2>1. CASE CAP = 1
    BY <1>2, <2>1 DEF Slot
  <2>2. CASE CAP # 1
    <3>1. 1 \in 0..CAP /\ 1 < CAP
      BY <1>1, <2>2
    <3>2. Span(c, Plus(c, 1)) = 1
      BY <1>1, <3>1, PlusFacts
    <3>3. (Mask(Plus(c, 1)) - Mask(c)) % CAP = 1
      BY <1>1, <3>1, <3>2, MaskSpan
    <3>4. (Mask(Plus(c, 1)) - Mask(c)) % CAP =
            IF Mask(c) <= Mask(Plus(c, 1)) THEN Mask(Plus(c, 1)) - Mask(c)
                                           ELSE Mask(Plus(c, 1)) - Mask(c) + CAP
      BY <1>2, SlotFacts
    <3>5. QED
      BY <1>1, <1>2, <3>1, <3>3, <3>4 DEF Slot
  <2>3. QED
    BY <2>1, <2>2
<1>6. QED
  BY <1>1, <1>2, <1>3, <1>4, <1>5 DEF Slot

\* SlotOwnership for the producer: the slot it writes lies beyond the items.
LEMMA NextWrite ==
  ASSUME TypeOK, Order, Burst, Items, pp = "write"
  PROVE  /\ ~freed /\ Span(c, h) < CAP /\ Written + 1 <= CAP
         /\ Mask(h) \in Slot /\ After(Mask(h)) = Span(c, h) /\ slots[Mask(h)] = 0
<1>1. ~freed
  BY DEF Items
<1>2. left \in Nat /\ left >= 1 /\ CAP \in Nat
  BY Sizes DEF Burst, TypeOK
<1>3. Lag + Taken + Published + Written + left <= CAP
  BY DEF Order
<1>4. Span(c, h) < CAP /\ Written + 1 <= CAP
  BY <1>2, <1>3, OrderFacts
<1>5. Mask(h) \in Slot /\ After(Mask(h)) = Span(c, h)
  BY <1>4, AfterFacts
<1>6. ~(Span(c, h) < Span(c, h))
  BY OrderFacts
<1>7. QED
  BY <1>1, <1>4, <1>5, <1>6 DEF Items

\* And for the consumer: the slot it moves out holds the next item.
LEMMA NextTake ==
  ASSUME TypeOK, Order, Known, Items, cp \in {"read", "take"}
  PROVE  ~freed /\ Published > 0 /\ Mask(c) \in Slot /\ slots[Mask(c)] = got + 1
<1>1. ~freed
  BY DEF Items
<1>2. cachedHead \in Cursor /\ stop \in Cursor /\ c \in Cursor /\ Published \in Nat
  BY OrderFacts DEF TypeOK
<1>3. Published > 0
  <2>1. CASE cp = "read"
    <3>1. Span(c, cachedHead) # 0 /\ Span(c, cachedHead) \in Nat
      BY <1>2, <2>1, SpanFacts DEF Known
    <3>2. Span(c, cachedHead) <= Published
      BY <2>1 DEF Known
    <3>3. QED
      BY <1>2, <3>1, <3>2
  <2>2. CASE cp = "take"
    <3>1. Span(c, stop) # 0 /\ Span(c, stop) \in Nat
      BY <1>2, <2>2, SpanFacts DEF Known
    <3>2. Span(c, stop) <= Published
      BY <2>2 DEF Known
    <3>3. QED
      BY <1>2, <3>1, <3>2
  <2>3. QED
    BY <2>1, <2>2
<1>4. Mask(c) \in Slot /\ After(Mask(c)) = 0
  BY AfterFacts
<1>5. 0 < Span(c, h)
  BY <1>3, OrderFacts
<1>6. got \in Nat
  BY Sizes DEF TypeOK
<1>7. slots[Mask(c)] = got + 1 + 0
  BY <1>1, <1>4, <1>5 DEF Items
<1>8. QED
  BY <1>1, <1>3, <1>4, <1>6, <1>7

\* A slot written.
LEMMA ItemsWrite ==
  ASSUME TypeOK, Order, Burst, Items, WriteSlot
  PROVE  Items'
<1>1. /\ pp = "write" /\ UNCHANGED <<c, got, freed>> /\ h' = Plus(h, 1) /\ sent' = sent + 1
      /\ slots' = [slots EXCEPT ![Mask(h)] = sent + 1]
  BY DEF WriteSlot, ProducerAt, consVars
<1>2. /\ ~freed /\ Span(c, h) < CAP /\ Mask(h) \in Slot /\ After(Mask(h)) = Span(c, h)
  BY <1>1, NextWrite
<1>3. Span(c, h)' = Span(c, h) + 1
  <2>1. c \in Cursor /\ h \in Cursor
    BY DEF TypeOK
  <2>2. Span(c, Plus(h, 1)) = Span(c, h) + 1
    BY <1>2, <2>1, NextCursor
  <2>3. Span(c, h)' = Span(c, Plus(h, 1))
    BY <1>1 DEF Span
  <2>4. QED
    BY <2>2, <2>3
<1>4. got \in Nat /\ sent \in Nat /\ Span(c, h) \in Nat /\ sent = got + Span(c, h)
  BY Counts, OrderFacts DEF Items
<1>5. sent' = got' + Span(c, h)'
  BY <1>1, <1>3, <1>4
<1>6. ASSUME NEW s \in Slot
      PROVE  slots'[s] = IF After(s) < Span(c, h) + 1 THEN got + 1 + After(s) ELSE 0
  <2>1. After(s) \in Nat /\ (After(s) = Span(c, h) => s = Mask(h))
    BY <1>2, AfterFacts
  <2>2. CASE s = Mask(h)
    <3>1. slots'[s] = sent + 1
      BY <1>1, <1>2, <2>2 DEF TypeOK
    <3>2. QED
      BY <1>2, <1>4, <2>2, <3>1
  <2>3. CASE s # Mask(h)
    <3>1. slots'[s] = IF After(s) < Span(c, h) THEN got + 1 + After(s) ELSE 0
      BY <1>1, <1>2, <2>3 DEF TypeOK, Items
    <3>2. After(s) < Span(c, h) <=> After(s) < Span(c, h) + 1
      BY <1>4, <2>1, <2>3
    <3>3. QED
      BY <3>1, <3>2
  <2>4. QED
    BY <2>2, <2>3
<1>7. \A s \in Slot : After(s)' = After(s)
  BY <1>1 DEF After
<1>8. QED
  BY <1>1, <1>2, <1>3, <1>5, <1>6, <1>7 DEF Items

\* A slot moved out.
LEMMA ItemsTake ==
  ASSUME TypeOK, Order, Known, Items, cp \in {"read", "take"}, MoveOut
  PROVE  Items'
<1>1. /\ UNCHANGED <<h, sent, freed>> /\ c' = Plus(c, 1) /\ got' = slots[Mask(c)]
      /\ slots' = [slots EXCEPT ![Mask(c)] = 0]
  BY DEF MoveOut, prodVars
<1>2. /\ ~freed /\ Published > 0 /\ Mask(c) \in Slot /\ slots[Mask(c)] = got + 1
  BY NextTake
<1>3. got \in Nat /\ sent \in Nat /\ Span(c, h) \in Nat /\ sent = got + Span(c, h)
      /\ Span(c, h) > 0 /\ Span(c, h) <= CAP /\ CAP \in Nat
  BY <1>2, Counts, OrderFacts DEF Items
<1>4. Span(c, h)' = Span(c, h) - 1
  <2>1. c \in Cursor /\ h \in Cursor
    BY DEF TypeOK
  <2>2. Span(Plus(c, 1), h) = Span(c, h) - 1
    BY <1>3, <2>1, NextCursor
  <2>3. Span(c, h)' = Span(Plus(c, 1), h)
    BY <1>1 DEF Span
  <2>4. QED
    BY <2>2, <2>3
<1>5. got' = got + 1 /\ sent' = got' + Span(c, h)'
  BY <1>1, <1>2, <1>3, <1>4
<1>6. ASSUME NEW s \in Slot
      PROVE  slots'[s] = IF After(s)' < Span(c, h) - 1 THEN got + 1 + 1 + After(s)' ELSE 0
  <2>1. After(s) \in Nat /\ After(s)' = IF s = Mask(c) THEN CAP - 1 ELSE After(s) - 1
    BY <1>1, AfterFacts, AfterNext
  <2>2. CASE s = Mask(c)
    <3>1. slots'[s] = 0
      BY <1>1, <1>2, <2>2 DEF TypeOK
    <3>2. ~(After(s)' < Span(c, h) - 1)
      BY <1>3, <2>1, <2>2
    <3>3. QED
      BY <3>1, <3>2
  <2>3. CASE s # Mask(c)
    <3>1. slots'[s] = IF After(s) < Span(c, h) THEN got + 1 + After(s) ELSE 0
      BY <1>1, <1>2, <2>3 DEF TypeOK, Items
    <3>2. After(s)' = After(s) - 1
      BY <2>1, <2>3
    <3>3. QED
      BY <1>3, <2>1, <3>1, <3>2
  <2>4. QED
    BY <2>2, <2>3
<1>7. QED
  BY <1>1, <1>2, <1>4, <1>5, <1>6 DEF Items

\* A step that touches no slot.
LEMMA ItemsFrame ==
  ASSUME Items, UNCHANGED <<slots, c, h, got, sent, freed>>, pp # "gone" \/ cp # "gone"
  PROVE  Items'
<1>1. ~freed
  BY DEF Items
<1>2. Span(c, h)' = Span(c, h) /\ \A s \in Slot : After(s)' = After(s)
  BY DEF Span, After
<1>3. QED
  BY <1>1, <1>2 DEF Items

\* Drop for Ring leaves no item in any slot.
LEMMA ItemsDropped ==
  ASSUME TypeOK, Order, Items, DropRing
  PROVE  Items'
<1>1. /\ pp = "gone" /\ cp = "gone" /\ ~freed /\ freed' /\ UNCHANGED <<c, h, got, sent, pp, cp>>
      /\ slots' = [s \in Slot |-> IF s \in Occupied(tail, head) THEN 0 ELSE slots[s]]
  BY DEF DropRing, prodVars, consVars
<1>2. c = tail /\ h = head
  BY <1>1 DEF Order
<1>3. \A s \in Slot : s \in Occupied(tail, head) <=> After(s) < Span(c, h)
  <2>1. tail \in Cursor /\ head \in Cursor /\ Span(tail, head) <= CAP
    BY <1>2, OrderFacts DEF TypeOK
  <2>2. QED
    BY <1>2, <2>1, OccupiedFacts DEF After
<1>4. ASSUME NEW s \in Slot PROVE slots'[s] = 0
  BY <1>1, <1>3 DEF Items
<1>5. sent' = got' + Span(c, h)'
  BY <1>1 DEF Items, Span
<1>6. QED
  BY <1>1, <1>4, <1>5 DEF Items

-----------------------------------------------------------------------------
(* The producer's steps.                                                   *)

\* What they mean to the consumer: items come with a wake, and so does the end.
ProducerKeeps ==
  /\ UNCHANGED <<tail, freed, consVars>> /\ pp # "gone"
  /\ parked'["not_empty"] = parked["not_empty"]
  /\ token["not_empty"] => token'["not_empty"]
  /\ pp \in {"wake", "closeEmpty"} /\ parked["not_empty"] => token'["not_empty"]
  /\ pp = "closeFull" => pp' = "closeEmpty"
  /\ Published <= Published'
  /\ head' = head \/ pp' = "wake"
  /\ \/ closed' = closed /\ (pp' \in Closing <=> pp \in Closing)
     \/ closed' /\ pp' = "closeFull"

ProducerDone == ProducerKeeps /\ Order' /\ Burst' /\ Items' /\ SenderInv'

\* Steps that move no cursor.
LEMMA ProducerStill ==
  ASSUME TypeOK, Order, Items,
         UNCHANGED <<head, tail, slots, freed, cachedTail, h, sent, consVars>>,
         pp \notin {"write", "publish", "gone"}, pp' \notin {"write", "publish"}
  PROVE  Order' /\ Items' /\ Published <= Published'
<1>1. h = head /\ UNCHANGED <<c, cp, got>>
  BY DEF Order, consVars
<1>2. /\ Lag' = Lag /\ Taken' = Taken /\ Published' = Published /\ Written' = Written
      /\ Published <= Published'
  BY <1>1, OrderFacts DEF Lag, Taken, Published, Written, Span
<1>3. Order'
  BY <1>1, <1>2 DEF Order
<1>4. Items'
  BY <1>1, ItemsFrame
<1>5. QED
  BY <1>2, <1>3, <1>4

\* Of those, the ones that leave the consumer's waiter and the flag alone.
LEMMA ProducerMoves ==
  ASSUME TypeOK, Order, Items,
         UNCHANGED <<head, tail, slots, closed, freed, cachedTail, h, sent, consVars>>,
         pp \notin {"write", "publish", "wake"} \cup Closing,
         pp' \notin {"write", "publish"} \cup Closing,
         parked'["not_empty"] = parked["not_empty"], token'["not_empty"] = token["not_empty"]
  PROVE  ProducerKeeps /\ Order' /\ Items'
<1>1. pp # "gone" /\ pp # "closeFull" /\ pp # "closeEmpty"
  BY DEF Closing
<1>2. Order' /\ Items' /\ Published <= Published'
  BY <1>1, ProducerStill
<1>3. QED
  BY <1>1, <1>2 DEF ProducerKeeps

\* A producer that has announced nothing is owed nothing.
LEMMA SenderQuiet ==
  ASSUME pp' \notin {"look", "lookClosed", "sleep", "disarm"}
  PROVE  SenderInv'
BY DEF SenderInv

\* A call, and its room: the burst is cut to what the view of tail leaves free.
LEMMA ProducerAdmits ==
  ASSUME TypeOK, Order, Burst, Items, UNCHANGED <<ringVars, gateVars, freed, h, sent, consVars>>,
         pp \in {"room", "refresh"}, cachedTail' \in {cachedTail, tail}, Admit(cachedTail')
  PROVE  ProducerDone
<1>1. /\ h = head /\ pp' = "write" /\ UNCHANGED <<head, tail, slots, closed, c, cp, got>>
  BY DEF Order, Admit, ringVars, consVars
<1>2. Taken' = Taken /\ Published' = Published /\ Written = 0 /\ Written' = 0
  BY <1>1, SpanFacts DEF Taken, Published, Written, Span, TypeOK
<1>3. Lag' \in {Lag, 0} /\ Span(cachedTail', head) = Lag' + Taken + Published
  <2>1. CASE cachedTail' = cachedTail
    BY <1>1, <2>1, OrderFacts DEF Lag, Span
  <2>2. CASE cachedTail' = tail
    <3>1. Lag' = Span(tail, tail)
      BY <1>1, <2>2 DEF Lag, Span
    <3>2. Lag' = 0
      BY <3>1, SpanFacts DEF TypeOK
    <3>3. QED
      BY <2>2, <3>2, OrderFacts
  <2>3. QED
    BY <2>1, <2>2
<1>4. /\ Lag \in Nat /\ Taken \in Nat /\ Published \in Nat /\ left \in Nat /\ CAP \in Nat
      /\ sent \in Nat /\ MaxItems \in Nat /\ left >= 1 /\ sent + left <= MaxItems
      /\ Lag + Taken + Published + Written <= CAP
  BY Counts, OrderFacts DEF Burst, Order
<1>5. PICK used \in Nat :
        /\ Lag' + Taken' + Published' + Written' = used
        /\ CAP - used > 0 /\ left' = IF left <= CAP - used THEN left ELSE CAP - used
  <2>1. Lag' \in Nat
    BY <1>3, <1>4
  <2>2. Lag' + Taken' + Published' + Written' = Lag' + Taken + Published
    BY <1>2, <1>4, <2>1
  <2>3. Span(cachedTail', head) \in Nat
    BY SpanFacts DEF TypeOK
  <2>4. PICK used \in Nat : used = Span(cachedTail', head) /\ used = Lag' + Taken + Published
    BY <1>3, <2>3
  <2>5. CAP - used > 0 /\ left' = IF left <= CAP - used THEN left ELSE CAP - used
    BY <1>3, <2>4 DEF Admit
  <2>6. QED
    BY <2>2, <2>4, <2>5
<1>6. left' >= 1 /\ used + left' <= CAP /\ used <= CAP /\ sent + left' <= MaxItems
  BY <1>4, <1>5
<1>7. Order'
  BY <1>1, <1>5, <1>6 DEF Order
<1>8. Burst'
  BY <1>6 DEF Burst
<1>9. Items'
  BY <1>1, ItemsFrame
<1>10. ProducerKeeps
  <2>1. Published <= Published'
    BY <1>2, <1>4
  <2>2. QED
    BY <1>1, <2>1 DEF ProducerKeeps, gateVars, Closing
<1>11. QED
  BY <1>1, <1>7, <1>8, <1>9, <1>10, SenderQuiet DEF ProducerDone

\* Room, refresh and the answer to a full ring.
LEMMA ProducerCalls ==
  ASSUME IInv,
         \/ \E op \in {"try_send", "send", "try_send_bulk"}, n \in 1..CAP : StartSend(op, n)
         \/ Room \/ RefreshTail \/ FullOrClosed
  PROVE  ProducerDone
<1>0. TypeOK /\ Order /\ Burst /\ Items
  BY DEF IInv
<1> USE DEF ProducerAt
<1>1. ASSUME NEW op \in {"try_send", "send", "try_send_bulk"}, NEW n \in 1..CAP,
             StartSend(op, n)
      PROVE  ProducerDone
  <2>1. pp = "idle" /\ pp' = "room" /\ h' = h
    BY <1>0, <1>1 DEF StartSend, Order
  <2>2. ProducerKeeps /\ Order' /\ Items'
    BY <1>0, <1>1, <2>1, ProducerMoves DEF StartSend, ringVars, gateVars, Closing
  <2>3. n >= 1 /\ sent' + left' <= MaxItems /\ left' = n
    BY <1>1, Sizes DEF StartSend
  <2>4. QED
    BY <2>1, <2>2, <2>3, SenderQuiet DEF ProducerDone, Burst
<1>2. ASSUME UNCHANGED <<ringVars, gateVars, freed, h, sent, consVars>>,
             pp \in {"room", "refresh", "closed"}, pp' \in {"refresh", "closed", "idle", "arm"},
             UNCHANGED <<cachedTail, left>>
      PROVE  ProducerDone
  <2>1. ProducerKeeps /\ Order' /\ Items'
    BY <1>0, <1>2, ProducerMoves DEF ringVars, gateVars, Closing
  <2>2. Burst'
    BY <1>0, <1>2 DEF Burst
  <2>3. QED
    BY <1>2, <2>1, <2>2, SenderQuiet DEF ProducerDone
<1>3. CASE Room
  BY <1>0, <1>2, <1>3, ProducerAdmits DEF Room
<1>4. CASE RefreshTail
  <2>1. CASE Admit(tail)
    BY <1>0, <1>4, <2>1, ProducerAdmits DEF RefreshTail
  <2>2. CASE pp' \in {"idle", "closed"} /\ UNCHANGED left
    <3>1. /\ h = head /\ UNCHANGED <<head, tail, slots, closed, c, cp, got>> /\ pp = "refresh"
      BY <1>0, <1>4 DEF Order, RefreshTail, ringVars, consVars
    <3>2. /\ Taken' = Taken /\ Published' = Published /\ Written = 0 /\ Written' = 0
          /\ Lag' = Span(tail, tail)
      BY <1>0, <1>4, <3>1, SpanFacts DEF Lag, Taken, Published, Written, Span, TypeOK, RefreshTail
    <3>3. Lag' = 0
      BY <1>0, <3>2, SpanFacts DEF TypeOK
    <3>4. /\ Lag \in Nat /\ Taken \in Nat /\ Published \in Nat /\ CAP \in Nat
          /\ Lag + Taken + Published + Written <= CAP
      BY <1>0, Sizes, OrderFacts DEF Order
    <3>5. Lag' + Taken' + Published' + Written' <= CAP
      BY <3>2, <3>3, <3>4
    <3>6. Order'
      BY <1>0, <2>2, <3>1, <3>5, <1>4 DEF Order, RefreshTail
    <3>7. Items'
      BY <1>0, <1>4, <3>1, ItemsFrame DEF RefreshTail
    <3>8. Published <= Published'
      BY <3>2, <3>4
    <3>9. ProducerKeeps
      BY <1>4, <2>2, <3>1, <3>8 DEF ProducerKeeps, RefreshTail, gateVars, Closing
    <3>10. Burst'
      BY <1>0, <1>4, <2>2, <3>1 DEF Burst, RefreshTail
    <3>11. QED
      BY <2>2, <3>6, <3>7, <3>9, <3>10, SenderQuiet DEF ProducerDone
  <2>3. QED
    BY <1>4, <2>1, <2>2 DEF RefreshTail
<1>5. CASE FullOrClosed
  BY <1>2, <1>5 DEF FullOrClosed
<1>6. QED
  BY <1>1, <1>3, <1>4, <1>5

\* The burst grows by the slot written.
LEMMA WrittenNext == ASSUME IInv, WriteSlot PROVE Written' = Written + 1
<1>1. /\ TypeOK /\ Order /\ Burst /\ Items /\ pp = "write"
      /\ h' = Plus(h, 1) /\ head' = head
  BY DEF IInv, WriteSlot, ProducerAt
<1>2. head \in Cursor /\ h \in Cursor
  BY <1>1 DEF TypeOK
<1>3. Span(head, h) < CAP
  BY <1>1, NextWrite, OrderFacts, Sizes DEF Written
<1>4. Span(head, Plus(h, 1)) = Span(head, h) + 1
  BY <1>2, <1>3, NextCursor
<1>5. Written' = Span(head, Plus(h, 1))
  BY <1>1 DEF Written, Span
<1>6. QED
  BY <1>4, <1>5 DEF Written

\* One slot of the burst.
LEMMA ProducerWrites == ASSUME IInv, WriteSlot PROVE ProducerDone
<1>0. TypeOK /\ Order /\ Burst /\ Items
  BY DEF IInv
<1>1. /\ pp = "write" /\ pp' = IF left = 1 THEN "publish" ELSE "write"
      /\ h' = Plus(h, 1) /\ left' = left - 1 /\ sent' = sent + 1
      /\ UNCHANGED <<head, tail, closed, freed, parked, token, cachedTail, c, cp, consVars>>
  BY DEF WriteSlot, ProducerAt, consVars, gateVars
<1>2. Lag' = Lag /\ Taken' = Taken /\ Published' = Published
  BY <1>1 DEF Lag, Taken, Published, Span
<1>3. Written' = Written + 1
  BY WrittenNext
<1>4. /\ Lag \in Nat /\ Taken \in Nat /\ Published \in Nat /\ Written \in Nat /\ CAP \in Nat
      /\ left \in Nat /\ sent \in Nat /\ MaxItems \in Nat
  BY <1>0, Counts, OrderFacts
<1>5. Lag + Taken + Published + Written + left <= CAP /\ left >= 1 /\ sent + left <= MaxItems
  BY <1>0, <1>1 DEF Order, Burst
<1>6. Order'
  <2>1. Lag' + Taken' + Published' + Written' + left' <= CAP
    BY <1>1, <1>2, <1>3, <1>4, <1>5
  <2>2. Lag' + Taken' + Published' + Written' <= CAP
    BY <1>2, <1>3, <1>4, <1>5
  <2>3. cp \notin {"free", "take", "call", "commit"} => c = tail
    BY <1>0 DEF Order
  <2>4. QED
    BY <1>1, <2>1, <2>2, <2>3 DEF Order
<1>7. Burst'
  <2>1. left # 1 => left' >= 1
    BY <1>1, <1>4, <1>5
  <2>2. sent' + left' <= MaxItems
    BY <1>1, <1>4, <1>5
  <2>3. QED
    BY <1>1, <2>1, <2>2 DEF Burst
<1>8. Items'
  BY <1>0, ItemsWrite
<1>9. ProducerKeeps
  <2>1. Published <= Published'
    BY <1>2, <1>4
  <2>2. QED
    BY <1>1, <2>1 DEF ProducerKeeps, Closing
<1>10. QED
  BY <1>1, <1>6, <1>7, <1>8, <1>9, SenderQuiet DEF ProducerDone

\* head.store: what was written is published.
LEMMA ProducerPublishes == ASSUME IInv, PublishHead PROVE ProducerDone
<1>0. TypeOK /\ Order /\ Items
  BY DEF IInv
<1>1. /\ pp = "publish" /\ pp' = "wake" /\ head' = h
      /\ UNCHANGED <<tail, slots, closed, freed, parked, token, cachedTail, h, left, sent,
                     c, cp, got, consVars>>
  BY DEF PublishHead, ProducerAt, consVars, gateVars
<1>2. Lag' = Lag /\ Taken' = Taken /\ Published' = Span(c, h) /\ Written' = Span(h, h)
  BY <1>1 DEF Lag, Taken, Published, Written, Span
<1>3. Published' = Published + Written /\ Written' = 0
  BY <1>0, <1>2, OrderFacts, SpanFacts DEF TypeOK
<1>4. /\ Lag \in Nat /\ Taken \in Nat /\ Published \in Nat /\ Written \in Nat /\ CAP \in Nat
      /\ Lag + Taken + Published + Written <= CAP
  BY <1>0, Sizes, OrderFacts DEF Order
<1>5. Lag' + Taken' + Published' + Written' <= CAP /\ Published <= Published'
  BY <1>2, <1>3, <1>4
<1>6. Order'
  BY <1>0, <1>1, <1>5 DEF Order
<1>7. Items'
  BY <1>0, <1>1, ItemsFrame
<1>8. ProducerKeeps
  BY <1>1, <1>5 DEF ProducerKeeps, Closing
<1>9. QED
  BY <1>1, <1>6, <1>7, <1>8, SenderQuiet DEF ProducerDone, Burst

\* The wait for room: announced before tail and the flag are looked at.
LEMMA ProducerWaits ==
  ASSUME IInv,
         \/ ProducerArm \/ ProducerLook \/ ProducerLookClosed
         \/ ProducerWoken \/ ProducerDisarm \/ ProducerCancel
  PROVE  ProducerDone
<1>0. TypeOK /\ Order /\ Burst /\ Items /\ SenderInv
  BY DEF IInv
<1>1. /\ pp \in {"arm", "look", "lookClosed", "sleep", "disarm"}
      /\ pp' \in {"look", "lookClosed", "sleep", "disarm", "room", "idle"}
      /\ UNCHANGED <<ringVars, freed, cachedTail, h, left, sent, consVars>>
  BY DEF ProducerAt, ProducerArm, ProducerLook, ProducerLookClosed, ProducerWoken,
         ProducerDisarm, ProducerCancel
<1>2. parked'["not_empty"] = parked["not_empty"] /\ token'["not_empty"] = token["not_empty"]
  BY <1>0, GateFacts, Sides
  DEF ProducerArm, ProducerLook, ProducerLookClosed, ProducerWoken, ProducerDisarm,
      ProducerCancel, gateVars
<1>3. ProducerKeeps /\ Order' /\ Items'
  BY <1>0, <1>1, <1>2, ProducerMoves DEF ringVars, Closing
<1>4. Burst'
  BY <1>0, <1>1 DEF Burst
<1>5. SenderInv'
  <2>1. CASE ProducerArm
    BY <1>0, <2>1, GateFacts, Sides DEF ProducerArm, ProducerAt, SenderInv
  <2>2. CASE ProducerLook
    BY <1>0, <2>2 DEF ProducerLook, ProducerAt, SenderInv, ringVars, gateVars, Span
  <2>3. CASE ProducerLookClosed
    BY <1>0, <2>3 DEF ProducerLookClosed, ProducerAt, SenderInv, ringVars, gateVars, consVars, Span
  <2>4. CASE ProducerWoken
    BY <1>0, <2>4 DEF ProducerWoken, ProducerAt, SenderInv
  <2>5. CASE ProducerDisarm \/ ProducerCancel
    BY <2>5, SenderQuiet DEF ProducerDisarm, ProducerCancel, ProducerAt
  <2>6. QED
    BY <2>1, <2>2, <2>3, <2>4, <2>5
<1>6. QED
  BY <1>3, <1>4, <1>5 DEF ProducerDone

\* The wakes, and Drop for Producer.
LEMMA ProducerEnds ==
  ASSUME IInv, WakeConsumer \/ ProducerDrop \/ ProducerCloseWakes
  PROVE  ProducerDone
<1>0. TypeOK /\ Order /\ Items
  BY DEF IInv
<1>1. /\ pp \in {"wake", "idle", "closeFull", "closeEmpty"}
      /\ pp' \in {"idle", "closeFull", "closeEmpty", "gone"}
      /\ UNCHANGED <<head, tail, slots, freed, parked, cachedTail, h, left, sent, consVars>>
  BY DEF ProducerAt, WakeConsumer, ProducerDrop, ProducerCloseWakes, ringVars, gateVars
<1>2. Order' /\ Items' /\ Published <= Published'
  BY <1>0, <1>1, ProducerStill
<1>3. ProducerKeeps
  <2>1. CASE WakeConsumer
    BY <1>0, <1>1, <1>2, <2>1, GateFacts, Sides
    DEF WakeConsumer, ProducerAt, ProducerKeeps, Closing, ringVars
  <2>2. CASE ProducerDrop
    BY <1>1, <1>2, <2>2 DEF ProducerDrop, ProducerKeeps, gateVars
  <2>3. CASE ProducerCloseWakes
    BY <1>0, <1>1, <1>2, <2>3, GateFacts, Sides
    DEF ProducerCloseWakes, ProducerAt, ProducerKeeps, Closing, ringVars
  <2>4. QED
    BY <2>1, <2>2, <2>3
<1>4. QED
  BY <1>1, <1>2, <1>3, SenderQuiet DEF ProducerDone, Burst

\* A step of the producer.
LEMMA ProducerSteps ==
  ASSUME IInv,
         \/ \E op \in {"try_send", "send", "try_send_bulk"}, n \in 1..CAP : StartSend(op, n)
         \/ ProducerStep \/ ProducerCancel \/ ProducerDrop
  PROVE  IInv'
<1>0. TypeOK /\ Order /\ Known /\ Flag /\ ReceiverInv /\ TypeOK'
  BY ProducerTypes DEF IInv
<1>1. ProducerDone
  BY ProducerCalls, ProducerWrites, ProducerPublishes, ProducerWaits, ProducerEnds
  DEF ProducerStep
<1>2. /\ UNCHANGED <<tail, cp, c, stop, cachedHead>> /\ Published <= Published'
      /\ Published \in Nat /\ Published' \in Nat
  BY <1>0, <1>1, OrderFacts, SpanFacts DEF ProducerDone, ProducerKeeps, consVars, Published, TypeOK
<1>3. Known'
  <2>1. Span(c, cachedHead) \in Nat /\ Span(c, stop) \in Nat
    BY <1>0, SpanFacts DEF TypeOK
  <2>2. Span(c, cachedHead)' = Span(c, cachedHead) /\ Span(c, stop)' = Span(c, stop)
    BY <1>2 DEF Span
  <2>3. /\ Span(c, cachedHead) <= Published => Span(c, cachedHead) <= Published'
        /\ Span(c, stop) <= Published => Span(c, stop) <= Published'
    BY <1>2, <2>1
  <2>4. QED
    BY <1>0, <1>2, <2>2, <2>3 DEF Known
<1>4. Flag'
  BY <1>0, <1>1, <1>2 DEF Flag, ProducerDone, ProducerKeeps, Closing
<1>5. ReceiverInv'
  BY <1>0, <1>1, <1>2 DEF ReceiverInv, ProducerDone, ProducerKeeps
<1>6. QED
  BY <1>0, <1>1, <1>3, <1>4, <1>5 DEF IInv, ProducerDone

-----------------------------------------------------------------------------
(* The consumer's steps.                                                   *)

\* What they mean to the producer: room comes with a wake, unless the consumer is on
\* its way out, and then the end does.
ConsumerKeeps ==
  /\ UNCHANGED <<head, freed, prodVars>> /\ cp # "gone"
  /\ parked'["not_full"] = parked["not_full"]
  /\ token["not_full"] => token'["not_full"]
  /\ cp \in {"wake", "drainWake", "closeFull"} /\ parked["not_full"] => token'["not_full"]
  /\ cp = "drop" => cp' = "closeFull"
  /\ tail' = tail \/ cp' \in {"wake", "drainWake", "drop"}
  /\ \/ closed' = closed /\ (cp' \in Closing <=> cp \in Closing)
     \/ closed' /\ cp' = "closeFull"

ConsumerDone == ConsumerKeeps /\ Order' /\ Known' /\ Items' /\ ReceiverInv'

Ahead == {"free", "take", "call", "commit"}

\* Steps that move no cursor.
LEMMA ConsumerStill ==
  ASSUME TypeOK, Order, Items, UNCHANGED <<head, tail, slots, freed, c, got, prodVars>>,
         cp # "gone", cp \notin Ahead \/ cp' \in Ahead
  PROVE  Order' /\ Items'
<1>1. UNCHANGED <<cachedTail, h, left, sent, pp>>
  BY DEF prodVars
<1>2. Lag' = Lag /\ Taken' = Taken /\ Published' = Published /\ Written' = Written
  BY <1>1 DEF Lag, Taken, Published, Written, Span
<1>3. Order'
  BY <1>1, <1>2 DEF Order, Ahead
<1>4. Items'
  BY <1>1, ItemsFrame
<1>5. QED
  BY <1>3, <1>4

\* Of those, the ones that leave the producer's waiter and the flag alone.
LEMMA ConsumerMoves ==
  ASSUME TypeOK, Order, Items, UNCHANGED <<head, tail, slots, closed, freed, c, got, prodVars>>,
         cp \notin {"wake", "drainWake", "drop"} \cup Closing, cp' \notin Closing,
         cp \notin Ahead \/ cp' \in Ahead,
         parked'["not_full"] = parked["not_full"], token'["not_full"] = token["not_full"]
  PROVE  ConsumerKeeps /\ Order' /\ Items'
<1>1. cp \notin {"gone", "closeFull", "closeEmpty", "drop", "wake", "drainWake"}
  BY DEF Closing
<1>2. Order' /\ Items'
  BY <1>1, ConsumerStill
<1>3. QED
  BY <1>1, <1>2 DEF ConsumerKeeps

\* What the consumer takes for published stays so while the cursors stand.
LEMMA KnownFrame ==
  ASSUME Known, UNCHANGED <<head, c, cachedHead>>,
         cp \in {"idle", "cached", "refresh", "closed", "reread", "read", "free", "wake",
                 "arm", "look", "lookClosed", "sleep", "disarm", "load"},
         cp' \in {"idle", "cached", "refresh", "closed", "reread", "free", "wake",
                  "arm", "look", "lookClosed", "sleep", "disarm", "load"}
                 \cup {"drop", "closeFull", "closeEmpty", "gone"}
  PROVE  Known'
<1>1. Span(c, cachedHead)' = Span(c, cachedHead) /\ Published' = Published
  BY DEF Span, Published
<1>2. QED
  BY <1>1 DEF Known

\* A consumer on its way out takes nothing for published.
LEMMA KnownGone ==
  ASSUME cp' \in {"drop", "closeFull", "closeEmpty", "gone"}
  PROVE  Known'
BY DEF Known

\* A consumer that has announced nothing is owed nothing.
LEMMA ReceiverQuiet ==
  ASSUME cp' \notin {"look", "lookClosed", "sleep", "disarm"}
  PROVE  ReceiverInv'
BY DEF ReceiverInv

\* A call, and its looks at the cursors and the flag.
LEMMA ConsumerCalls ==
  ASSUME IInv,
         \/ \E op \in {"try_recv", "recv", "drain"} : StartRecv(op)
         \/ CachedHead \/ RefreshHead \/ EmptyOrClosed \/ RereadHead \/ DrainLoad \/ DrainCall
  PROVE  ConsumerDone
<1>0. TypeOK /\ Order /\ Known /\ Items
  BY DEF IInv
<1> USE DEF ConsumerAt
<1>1. /\ cp \in {"idle", "cached", "refresh", "closed", "reread", "load", "call"}
      /\ cp' \in {"load", "cached", "refresh", "read", "closed", "reread", "arm", "idle",
                  "take", "commit"}
      /\ cp = "call" => cp' \in {"take", "commit"}
      /\ UNCHANGED <<ringVars, gateVars, freed, prodVars, got>>
  BY DEF StartRecv, CachedHead, RefreshHead, EmptyOrClosed, RereadHead, DrainLoad, DrainCall
<1>2. UNCHANGED c
  BY <1>0 DEF StartRecv, CachedHead, RefreshHead, EmptyOrClosed, RereadHead, DrainLoad,
              DrainCall, Order
<1>3. ConsumerKeeps /\ Order' /\ Items'
  BY <1>0, <1>1, <1>2, ConsumerMoves DEF ringVars, gateVars, Closing, Ahead
<1>4. Known'
  <2>1. UNCHANGED <<head, tail>> /\ c \in Cursor /\ head \in Cursor /\ Published' = Published
    BY <1>0, <1>1, <1>2 DEF ringVars, TypeOK, Published, Span
  <2>2. ASSUME NEW op \in {"try_recv", "recv", "drain"}, StartRecv(op) PROVE Known'
    BY <1>0, <1>2, <2>1, <2>2, KnownFrame DEF StartRecv
  <2>3. CASE CachedHead
    <3>1. CASE cp' = "refresh"
      BY <1>0, <1>2, <2>1, <2>3, <3>1, KnownFrame DEF CachedHead
    <3>2. CASE cp' = "read" /\ cachedHead # tail
      <4>1. c = tail
        BY <1>0, <2>3 DEF CachedHead, Order
      <4>2. Span(c, cachedHead)' = Span(c, cachedHead)
        BY <1>2, <2>3 DEF CachedHead, Span
      <4>3. QED
        BY <1>0, <1>2, <2>1, <2>3, <3>2, <4>1, <4>2 DEF CachedHead, Known
    <3>3. QED
      BY <2>3, <3>1, <3>2 DEF CachedHead
  <2>4. CASE RefreshHead \/ RereadHead
    <3>1. c = tail /\ cachedHead' = head /\ cp' \in {"closed", "idle", "read"}
          /\ (cp' = "read" => head # tail)
      BY <1>0, <2>4 DEF RefreshHead, RereadHead, Order
    <3>2. Span(c, cachedHead)' = Published' /\ Published \in Nat
      BY <1>0, <1>2, <2>1, <3>1, OrderFacts DEF Published, Span
    <3>3. Span(c, cachedHead)' <= Published'
      BY <2>1, <3>2
    <3>4. QED
      BY <1>2, <3>1, <3>3 DEF Known
  <2>5. CASE EmptyOrClosed
    BY <1>0, <1>2, <2>1, <2>5, KnownFrame DEF EmptyOrClosed
  <2>6. CASE DrainLoad
    <3>1. c = tail /\ stop' = head /\ UNCHANGED cachedHead /\ cp = "load"
          /\ cp' = IF head = tail THEN "idle" ELSE "take"
      BY <1>0, <2>6 DEF DrainLoad, Order
    <3>2. Span(c, stop)' = Published' /\ Published \in Nat
      BY <1>0, <1>2, <2>1, <3>1, OrderFacts DEF Published, Span
    <3>3. Span(c, stop)' <= Published'
      BY <2>1, <3>2
    <3>4. CASE cp' = "idle"
      BY <1>0, <1>2, <2>1, <3>1, <3>4, KnownFrame
    <3>5. CASE cp' = "take" /\ head # tail
      BY <1>2, <3>1, <3>3, <3>5 DEF Known
    <3>6. QED
      BY <3>1, <3>4, <3>5
  <2>7. CASE DrainCall
    <3>1. Span(c, stop)' = Span(c, stop) /\ UNCHANGED stop
      BY <1>2, <2>7 DEF DrainCall, Span
    <3>2. QED
      BY <1>0, <1>2, <2>1, <2>7, <3>1 DEF DrainCall, Known
  <2>8. QED
    BY <2>2, <2>3, <2>4, <2>5, <2>6, <2>7
<1>5. ReceiverInv'
  BY <1>1, ReceiverQuiet
<1>6. QED
  BY <1>3, <1>4, <1>5 DEF ConsumerDone

\* An item moved out: the private cursor runs ahead of tail.
LEMMA ConsumerTakes == ASSUME IInv, ReadSlot \/ DrainTake PROVE ConsumerDone
<1>0. TypeOK /\ Order /\ Known /\ Items
  BY DEF IInv
<1>1. /\ cp \in {"read", "take"} /\ cp' = IF cp = "read" THEN "free" ELSE "call"
      /\ c' = Plus(c, 1)
      /\ UNCHANGED <<head, tail, closed, freed, parked, token, prodVars, cachedHead, stop>>
      /\ MoveOut
  BY DEF ReadSlot, DrainTake, ConsumerAt, MoveOut, gateVars
<1>2. UNCHANGED <<cachedTail, h, left, sent, pp>>
  BY <1>1 DEF prodVars
<1>3. /\ head \in Cursor /\ tail \in Cursor /\ c \in Cursor /\ cachedHead \in Cursor
      /\ stop \in Cursor /\ Plus(c, 1) \in Cursor
  BY <1>0, NextCursor DEF TypeOK
<1>4. /\ Lag \in Nat /\ Taken \in Nat /\ Published \in Nat /\ Written \in Nat /\ CAP \in Nat
      /\ Published > 0 /\ Lag + Taken + Published + Written <= CAP
  BY <1>0, <1>1, NextTake, OrderFacts, Sizes DEF Order
<1>5. Lag' = Lag /\ Written' = Written
  BY <1>1, <1>2 DEF Lag, Written, Span
<1>6. Published' = Published - 1
  <2>1. Published' = Span(Plus(c, 1), head)
    BY <1>1 DEF Published, Span
  <2>2. QED
    BY <1>3, <1>4, <2>1, NextCursor DEF Published
<1>7. Taken' = Taken + 1
  <2>1. Taken' = Span(tail, Plus(c, 1))
    BY <1>1 DEF Taken, Span
  <2>2. Taken < CAP
    BY <1>4
  <2>3. QED
    BY <1>3, <2>1, <2>2, NextCursor DEF Taken
<1>8. Order'
  <2>1. Lag' + Taken' + Published' + Written' = Lag + Taken + Published + Written
    BY <1>4, <1>5, <1>6, <1>7
  <2>2. QED
    BY <1>0, <1>1, <1>2, <2>1 DEF Order
<1>9. Items'
  BY <1>0, <1>1, ItemsTake
<1>10. Known'
  <2>1. CASE cp = "read"
    <3>1. Span(c, cachedHead) <= Published /\ Span(c, cachedHead) # 0
          /\ Span(c, cachedHead) \in Nat
      BY <1>0, <1>3, <2>1, SpanFacts DEF Known
    <3>2. Span(c, cachedHead)' = Span(Plus(c, 1), cachedHead)
      BY <1>1 DEF Span
    <3>3. Span(c, cachedHead)' = Span(c, cachedHead) - 1
      BY <1>3, <3>1, <3>2, NextCursor
    <3>4. Span(c, cachedHead)' <= Published'
      BY <1>4, <1>6, <3>1, <3>3
    <3>5. QED
      BY <1>1, <2>1, <3>4 DEF Known
  <2>2. CASE cp = "take"
    <3>1. Span(c, stop) <= Published /\ Span(c, stop) # 0 /\ Span(c, stop) \in Nat
      BY <1>0, <1>3, <2>2, SpanFacts DEF Known
    <3>2. Span(c, stop)' = Span(Plus(c, 1), stop)
      BY <1>1 DEF Span
    <3>3. Span(c, stop)' = Span(c, stop) - 1
      BY <1>3, <3>1, <3>2, NextCursor
    <3>4. Span(c, stop)' <= Published'
      BY <1>4, <1>6, <3>1, <3>3
    <3>5. QED
      BY <1>1, <2>2, <3>4 DEF Known
  <2>3. QED
    BY <1>1, <2>1, <2>2
<1>11. ConsumerKeeps
  BY <1>1 DEF ConsumerKeeps, Closing
<1>12. QED
  BY <1>1, <1>8, <1>9, <1>10, <1>11, ReceiverQuiet DEF ConsumerDone

\* tail.store, of one item, of a batch, or by the guard of a batch that panics: what
\* was taken is given back.
LEMMA ConsumerFrees ==
  ASSUME IInv, ~Catches, FreeSlot \/ DrainCommit \/ DrainPanic
  PROVE  ConsumerDone
<1>0. TypeOK /\ Order /\ Known /\ Items
  BY DEF IInv
<1>1. /\ tail' = c /\ cp \in {"free", "commit", "call"}
      /\ cp' = CASE cp = "free" -> "wake" [] cp = "commit" -> "drainWake" [] OTHER -> "drop"
      /\ UNCHANGED <<head, slots, closed, freed, gateVars, prodVars, cachedHead, c, stop, got>>
  BY DEF FreeSlot, DrainCommit, DrainPanic, ConsumerAt
<1>2. UNCHANGED <<cachedTail, h, left, sent, pp, parked, token>>
  BY <1>1 DEF prodVars, gateVars
<1>3. Lag' = Span(cachedTail, c) /\ Taken' = Span(c, c) /\ Published' = Published
      /\ Written' = Written
  BY <1>1, <1>2 DEF Lag, Taken, Published, Written, Span
<1>4. Lag' = Lag + Taken /\ Taken' = 0
  BY <1>0, <1>3, OrderFacts, SpanFacts DEF TypeOK
<1>5. /\ Lag \in Nat /\ Taken \in Nat /\ Published \in Nat /\ Written \in Nat
      /\ Lag' + Taken' + Published' + Written' = Lag + Taken + Published + Written
  BY <1>0, <1>3, <1>4, OrderFacts
<1>6. Order'
  BY <1>0, <1>1, <1>2, <1>5 DEF Order
<1>7. Items'
  BY <1>0, <1>1, <1>2, ItemsFrame
<1>8. Known'
  <2>1. CASE cp = "free"
    BY <1>0, <1>1, <2>1, KnownFrame
  <2>2. CASE cp = "commit"
    <3>1. Span(c, stop)' = Span(c, stop)
      BY <1>1 DEF Span
    <3>2. QED
      BY <1>0, <1>1, <1>3, <2>2, <3>1 DEF Known
  <2>3. CASE cp = "call"
    BY <1>1, <2>3, KnownGone
  <2>4. QED
    BY <1>1, <2>1, <2>2, <2>3
<1>9. ConsumerKeeps
  BY <1>1, <1>2 DEF ConsumerKeeps, Closing
<1>10. QED
  BY <1>1, <1>6, <1>7, <1>8, <1>9, ReceiverQuiet DEF ConsumerDone

\* The wait for an item: announced before head and the flag are looked at.
LEMMA ConsumerWaits ==
  ASSUME IInv,
         \/ ConsumerArm \/ ConsumerLook \/ ConsumerLookClosed
         \/ ConsumerWoken \/ ConsumerDisarm \/ ConsumerCancel
  PROVE  ConsumerDone
<1>0. TypeOK /\ Order /\ Known /\ Items /\ ReceiverInv
  BY DEF IInv
<1>1. /\ cp \in {"arm", "look", "lookClosed", "sleep", "disarm"}
      /\ cp' \in {"look", "lookClosed", "sleep", "disarm", "cached", "idle"}
      /\ UNCHANGED <<ringVars, freed, prodVars, cachedHead, c, stop, got>>
  BY DEF ConsumerAt, ConsumerArm, ConsumerLook, ConsumerLookClosed, ConsumerWoken,
         ConsumerDisarm, ConsumerCancel
<1>2. parked'["not_full"] = parked["not_full"] /\ token'["not_full"] = token["not_full"]
  BY <1>0, GateFacts, Sides
  DEF ConsumerArm, ConsumerLook, ConsumerLookClosed, ConsumerWoken, ConsumerDisarm,
      ConsumerCancel, gateVars
<1>3. ConsumerKeeps /\ Order' /\ Items'
  BY <1>0, <1>1, <1>2, ConsumerMoves DEF ringVars, Closing, Ahead
<1>4. Known'
  BY <1>0, <1>1, KnownFrame DEF ringVars
<1>5. ReceiverInv'
  <2>1. CASE ConsumerArm
    BY <1>0, <2>1, GateFacts, Sides DEF ConsumerArm, ConsumerAt, ReceiverInv
  <2>2. CASE ConsumerLook
    BY <1>0, <2>2 DEF ConsumerLook, ConsumerAt, ReceiverInv, ringVars, gateVars
  <2>3. CASE ConsumerLookClosed
    BY <1>0, <2>3 DEF ConsumerLookClosed, ConsumerAt, ReceiverInv, ringVars, gateVars, prodVars
  <2>4. CASE ConsumerWoken
    BY <1>0, <2>4 DEF ConsumerWoken, ConsumerAt, ReceiverInv
  <2>5. CASE ConsumerDisarm \/ ConsumerCancel
    BY <2>5, ReceiverQuiet DEF ConsumerDisarm, ConsumerCancel, ConsumerAt
  <2>6. QED
    BY <2>1, <2>2, <2>3, <2>4, <2>5
<1>6. QED
  BY <1>3, <1>4, <1>5 DEF ConsumerDone

\* The wakes, and Drop for Consumer.
LEMMA ConsumerEnds ==
  ASSUME IInv, WakeProducer \/ DrainWake \/ ConsumerDrop \/ ConsumerCloseWakes
  PROVE  ConsumerDone
<1>0. TypeOK /\ Order /\ Known /\ Items
  BY DEF IInv
<1>1. /\ cp \in {"wake", "drainWake", "idle", "drop", "closeFull", "closeEmpty"}
      /\ cp' \in {"idle", "closeFull", "closeEmpty", "gone"}
      /\ UNCHANGED <<head, tail, slots, freed, parked, prodVars, c, stop, got>>
  BY DEF ConsumerAt, WakeProducer, DrainWake, ConsumerDrop, ConsumerCloseWakes, ringVars, gateVars
<1>2. Order' /\ Items'
  BY <1>0, <1>1, ConsumerStill DEF Ahead
<1>3. Known'
  <2>1. CASE DrainWake
    <3>1. cp = "drainWake" /\ cp' = "idle" /\ cachedHead' = stop
      BY <2>1 DEF DrainWake, ConsumerAt
    <3>2. Span(c, cachedHead)' = Span(c, stop) /\ Published' = Published
      BY <1>1, <3>1 DEF Span, Published
    <3>3. QED
      BY <1>0, <3>1, <3>2 DEF Known
  <2>2. CASE WakeProducer
    BY <1>0, <1>1, <2>2, KnownFrame DEF WakeProducer, ConsumerAt
  <2>3. CASE ConsumerDrop \/ ConsumerCloseWakes
    BY <2>3, KnownGone DEF ConsumerDrop, ConsumerCloseWakes, ConsumerAt
  <2>4. QED
    BY <2>1, <2>2, <2>3
<1>4. ConsumerKeeps
  <2>1. CASE WakeProducer \/ DrainWake
    BY <1>0, <1>1, <2>1, GateFacts, Sides
    DEF WakeProducer, DrainWake, ConsumerAt, ConsumerKeeps, Closing, ringVars
  <2>2. CASE ConsumerDrop
    BY <1>1, <2>2 DEF ConsumerDrop, ConsumerKeeps, gateVars
  <2>3. CASE ConsumerCloseWakes
    BY <1>0, <1>1, <2>3, GateFacts, Sides
    DEF ConsumerCloseWakes, ConsumerAt, ConsumerKeeps, Closing, ringVars
  <2>4. QED
    BY <2>1, <2>2, <2>3
<1>5. QED
  BY <1>1, <1>2, <1>3, <1>4, ReceiverQuiet DEF ConsumerDone

\* A step of the consumer.
LEMMA ConsumerSteps ==
  ASSUME IInv, ~Catches,
         \/ \E op \in {"try_recv", "recv", "drain"} : StartRecv(op)
         \/ ConsumerStep \/ ConsumerCancel \/ DrainPanic \/ ConsumerDrop
  PROVE  IInv'
<1>0. TypeOK /\ Burst /\ Flag /\ SenderInv /\ TypeOK'
  BY ConsumerTypes DEF IInv
<1>1. ConsumerDone
  BY ConsumerCalls, ConsumerTakes, ConsumerFrees, ConsumerWaits, ConsumerEnds
  DEF ConsumerStep
<1>2. UNCHANGED <<head, pp, left, sent>>
  BY <1>1 DEF ConsumerDone, ConsumerKeeps, prodVars
<1>3. Burst'
  BY <1>0, <1>2 DEF Burst
<1>4. Flag'
  BY <1>0, <1>1, <1>2 DEF Flag, ConsumerDone, ConsumerKeeps, Closing
<1>5. SenderInv'
  <2>1. tail' = tail => Span(tail, head)' = Span(tail, head)
    BY <1>2 DEF Span
  <2>2. QED
    BY <1>0, <1>1, <1>2, <2>1 DEF SenderInv, ConsumerDone, ConsumerKeeps
<1>6. QED
  BY <1>0, <1>1, <1>3, <1>4, <1>5 DEF IInv, ConsumerDone

-----------------------------------------------------------------------------
(* The invariant and what follows from it.                                 *)

\* A new ring.
LEMMA InitInv == Init => IInv
<1> SUFFICES ASSUME Init PROVE IInv
  OBVIOUS
<1>1. 0 \in Cursor /\ 0 \in 0..MaxItems /\ 0 \in 0..CAP
  BY Sizes DEF Cursor
<1>2. TypeOK
  BY <1>1 DEF Init, TypeOK, ProducerPoints, ConsumerPoints
<1>3. Span(0, 0) = 0
  BY <1>1, SpanFacts
<1>4. Order
  <2>1. Lag = 0 /\ Taken = 0 /\ Published = 0 /\ Written = 0
    BY <1>3 DEF Init, Lag, Taken, Published, Written
  <2>2. Lag + Taken + Published + Written <= CAP
    BY <2>1, Sizes
  <2>3. QED
    BY <2>2 DEF Init, Order
<1>5. Known /\ Burst
  BY <1>3 DEF Init, Known, Burst, Published
<1>6. Items
  <2>1. \A s \in Slot : ~(After(s) < Span(c, h))
    BY <1>2, <1>3, AfterFacts DEF Init
  <2>2. QED
    BY <1>3, <2>1 DEF Init, Items
<1>7. Flag /\ SenderInv /\ ReceiverInv
  BY DEF Init, Flag, Closing, SenderInv, ReceiverInv
<1>8. QED
  BY <1>2, <1>4, <1>5, <1>6, <1>7 DEF IInv

\* A step that changes nothing but the slots of a ring nobody has a handle on.
LEMMA OtherSteps ==
  ASSUME IInv, TypeOK', Items',
         UNCHANGED <<head, tail, closed, gateVars, prodVars, consVars>>
  PROVE  IInv'
<1>1. /\ UNCHANGED <<head, tail, closed, parked, token, pp, cachedTail, h, left, sent>>
      /\ UNCHANGED <<cp, cachedHead, c, stop, got>>
  BY DEF gateVars, prodVars, consVars
<1>2. Order'
  <2>1. Lag' = Lag /\ Taken' = Taken /\ Published' = Published /\ Written' = Written
    BY <1>1 DEF Lag, Taken, Published, Written, Span
  <2>2. QED
    BY <1>1, <2>1 DEF IInv, Order
<1>3. Burst' /\ Flag'
  BY <1>1 DEF IInv, Burst, Flag, Closing
<1>4. Known'
  BY <1>1 DEF IInv, Known, Published, Span
<1>5. SenderInv' /\ ReceiverInv'
  BY <1>1 DEF IInv, SenderInv, ReceiverInv, Span
<1>6. QED
  BY <1>2, <1>3, <1>4, <1>5 DEF IInv

\* IInv is inductive.
LEMMA StepInv == ASSUME ~Catches, IInv, [Next]_vars PROVE IInv'
<1>1. CASE DropRing
  <2>1. TypeOK' /\ Items'
    BY <1>1, ConsumerTypes, ItemsDropped DEF IInv
  <2>2. QED
    BY <1>1, <2>1, OtherSteps DEF DropRing
<1>2. CASE UNCHANGED vars
  <2>1. TypeOK'
    BY <1>2, TypeFrame, TypeParts DEF IInv, vars
  <2>2. UNCHANGED <<head, tail, slots, closed, freed, c, h, got, sent, pp, cp>>
    BY <1>2 DEF vars, ringVars, prodVars, consVars
  <2>3. Items'
    BY <2>2 DEF IInv, Items, After, Span
  <2>4. QED
    BY <1>2, <2>1, <2>2, <2>3, OtherSteps DEF vars
<1>3. QED
  BY <1>1, <1>2, ProducerSteps, ConsumerSteps DEF Next

\* The cursors are in order and never more than CAP apart, the slots between them and
\* no others hold the items, in order, and a side on its way to sleep is owed what it
\* no longer looks at.
THEOREM RingInductive == ASSUME ~Catches PROVE Spec => []IInv
<1>1. IInv /\ [Next]_vars => IInv'
  BY StepInv
<1>2. QED
  BY <1>1, InitInv, PTL DEF Spec

\* Cursors stay within their word and the slots hold only items that were written.
THEOREM RingTypeOK == ASSUME ~Catches PROVE Spec => []TypeOK
<1>1. IInv => TypeOK
  BY DEF IInv
<1>2. QED
  BY <1>1, RingInductive, PTL

\* The SAFETY comments of try_send and try_recv: a slot is written only when it holds
\* no item, and moved out only when it holds the next one, with caches of the other
\* side's cursor however stale and cursors that wrap.
THEOREM RingSlotOwnership == ASSUME ~Catches PROVE Spec => []SlotOwnership
<1>1. IInv => SlotOwnership
  BY NextWrite, NextTake DEF IInv, SlotOwnership
<1>2. QED
  BY <1>1, RingInductive, PTL

\* "slot[i & MASK] is initialized iff tail <= i < head (wrapping-aware)", and nothing
\* is after Drop for Ring: each item left is dropped once, and none is missed.
THEOREM RingSlotsMatchCursors == ASSUME ~Catches PROVE Spec => []SlotsMatchCursors
<1>1. ASSUME IInv PROVE SlotsMatchCursors
  <2>1. TypeOK /\ Order /\ Items /\ c \in Cursor /\ h \in Cursor /\ got \in Nat
    BY <1>1, Sizes DEF IInv, TypeOK
  <2>2. ASSUME NEW s \in Slot PROVE slots[s] # 0 <=> ~freed /\ s \in Occupied(c, h)
    <3>1. s \in Occupied(c, h) <=> After(s) < Span(c, h)
      BY <2>1, OccupiedFacts, OrderFacts DEF After
    <3>2. got + 1 + After(s) # 0
      BY <2>1, AfterFacts
    <3>3. QED
      BY <2>1, <3>1, <3>2 DEF Items
  <2>3. QED
    BY <2>1, <2>2 DEF SlotsMatchCursors, Order
<1>2. QED
  BY <1>1, RingInductive, PTL

\* The unconditional wakes of try_recv, drain and close: no producer sleeps unowed on
\* a ring with room, or whose consumer is gone.
THEOREM RingSenderOwedWake == ASSUME ~Catches PROVE Spec => []SenderOwedWake
<1>1. IInv => SenderOwedWake
  BY DEF IInv, SenderInv, SenderOwedWake
<1>2. QED
  BY <1>1, RingInductive, PTL

\* Those of try_send and close: no consumer sleeps unowed on an item, or once the
\* producer is gone.
THEOREM RingReceiverOwedWake == ASSUME ~Catches PROVE Spec => []ReceiverOwedWake
<1>1. IInv => ReceiverOwedWake
  BY DEF IInv, ReceiverInv, ReceiverOwedWake
<1>2. QED
  BY <1>1, RingInductive, PTL

-----------------------------------------------------------------------------
(* The ring is a bounded FIFO.                                             *)

\* Closed is only looked into once the flag was seen, and only reported at the end
\* of a call.
EndInv ==
  /\ cp = "reread" => closed
  /\ cp \notin {"idle"} \cup Closing => outcome # "closed"

\* Each call starts by forgetting what the last one reported.
LEMMA EndStep == EndInv /\ [Next]_vars => EndInv'
<1> SUFFICES ASSUME EndInv, [Next]_vars PROVE EndInv'
  OBVIOUS
<1> USE DEF EndInv, Closing, ConsumerAt
<1>1. ASSUME UNCHANGED consVars, closed => closed' PROVE EndInv'
  BY <1>1 DEF consVars
<1>2. ASSUME NEW op \in {"try_send", "send", "try_send_bulk"}, NEW n \in 1..CAP,
             StartSend(op, n)
      PROVE  EndInv'
  BY <1>1, <1>2 DEF StartSend, ringVars
<1>3. CASE ProducerStep \/ ProducerCancel \/ ProducerDrop
  BY <1>1, <1>3
  DEF ProducerStep, ProducerCancel, ProducerDrop, Room, RefreshTail, FullOrClosed, WriteSlot,
      PublishHead, WakeConsumer, ProducerArm, ProducerLook, ProducerLookClosed, ProducerWoken,
      ProducerDisarm, ProducerCloseWakes, ringVars
<1>4. ASSUME NEW op \in {"try_recv", "recv", "drain"}, StartRecv(op) PROVE EndInv'
  BY <1>4 DEF StartRecv
<1>5. CASE CachedHead \/ RefreshHead \/ EmptyOrClosed \/ RereadHead \/ ReadSlot \/ FreeSlot
  BY <1>5
  DEF CachedHead, RefreshHead, EmptyOrClosed, RereadHead, ReadSlot, MoveOut, FreeSlot, ringVars
<1>6. CASE \/ WakeProducer \/ ConsumerArm \/ ConsumerLook \/ ConsumerLookClosed
           \/ ConsumerWoken \/ ConsumerDisarm \/ ConsumerCancel \/ ConsumerCloseWakes
  BY <1>6
  DEF WakeProducer, ConsumerArm, ConsumerLook, ConsumerLookClosed, ConsumerWoken,
      ConsumerDisarm, ConsumerCancel, ConsumerCloseWakes, ringVars
<1>7. CASE \/ DrainLoad \/ DrainTake \/ DrainCall \/ DrainCommit \/ DrainWake \/ DrainPanic
           \/ ConsumerDrop
  BY <1>7
  DEF DrainLoad, DrainTake, MoveOut, DrainCall, DrainCommit, DrainWake, DrainPanic,
      ConsumerDrop, ringVars
<1>8. CASE DropRing
  BY <1>1, <1>8 DEF DropRing
<1>9. CASE UNCHANGED vars
  BY <1>1, <1>9 DEF vars, ringVars
<1>10. QED
  BY <1>2, <1>3, <1>4, <1>5, <1>6, <1>7, <1>8, <1>9 DEF Next, ConsumerStep

\* What the burst under way has written so far bears the numbers of its items backwards.
NameInv ==
  /\ pp = "publish" => left = 0
  /\ pp \in {"write", "publish"} =>
       \A j \in 1..Written : name[sent - Written + j] = sent + left + 1 - j

\* The next item of the burst comes before the one written last.
LEMMA NameWrite == ASSUME IInv, NameInv, WriteSlot PROVE NameInv'
<1>1. /\ pp = "write" /\ pp' = IF left = 1 THEN "publish" ELSE "write"
      /\ left' = left - 1 /\ sent' = sent + 1 /\ name' = [name EXCEPT ![sent + 1] = Popped]
  BY DEF WriteSlot, ProducerAt
<1>2. TypeOK /\ Order /\ Burst /\ Items
  BY DEF IInv
<1>3. /\ sent \in Nat /\ left \in Nat /\ Written \in Nat /\ MaxItems \in Nat
      /\ left >= 1 /\ sent + left <= MaxItems
  BY <1>1, <1>2, Counts, OrderFacts DEF Burst
<1>4. got \in Nat /\ Published \in Nat /\ sent = got + Published + Written
  BY <1>2, Counts, OrderFacts DEF Items
<1>5. Written' = Written + 1 /\ Popped = sent - Written + left
  BY WrittenNext DEF Popped, Written
<1>6. DOMAIN name = 0..MaxItems
  BY <1>2 DEF TypeOK
<1>7. ASSUME NEW j \in 1 .. Written + 1
      PROVE  name'[(sent + 1) - (Written + 1) + j] = (sent + 1) + (left - 1) + 1 - j
  <2>1. j \in Nat /\ (sent + 1) - (Written + 1) + j = sent - Written + j
    BY <1>3
  <2>2. CASE j = Written + 1
    <3>1. sent - Written + j = sent + 1 /\ sent + 1 \in 0..MaxItems
      BY <1>3, <2>2
    <3>2. name'[sent + 1] = Popped
      BY <1>1, <1>6, <3>1
    <3>3. (sent + 1) + (left - 1) + 1 - j = sent - Written + left
      BY <1>3, <2>2
    <3>4. QED
      BY <1>5, <2>1, <3>1, <3>2, <3>3
  <2>3. CASE j # Written + 1
    <3>1. j \in 1..Written /\ sent - Written + j # sent + 1 /\ sent - Written + j \in 0..MaxItems
      BY <1>3, <1>4, <2>3
    <3>2. name'[sent - Written + j] = name[sent - Written + j]
      BY <1>1, <1>6, <3>1
    <3>3. name[sent - Written + j] = sent + left + 1 - j
      BY <1>1, <3>1 DEF NameInv
    <3>4. (sent + 1) + (left - 1) + 1 - j = sent + left + 1 - j
      BY <1>3, <2>1
    <3>5. QED
      BY <2>1, <3>2, <3>3, <3>4
  <2>4. QED
    BY <2>2, <2>3
<1>8. left = 1 => left' = 0
  BY <1>1
<1>9. QED
  BY <1>1, <1>5, <1>7, <1>8 DEF NameInv

\* A burst that is let in has written nothing yet.
LEMMA NameAdmit ==
  ASSUME IInv, NameInv, Room \/ RefreshTail
  PROVE  NameInv'
<1>1. pp \in {"room", "refresh"} /\ pp' # "publish" /\ UNCHANGED <<head, h>>
  BY DEF Room, RefreshTail, Admit, ringVars
<1>2. h = head /\ head \in Cursor
  BY <1>1 DEF IInv, Order, TypeOK
<1>3. Written' = 0
  BY <1>1, <1>2, SpanFacts DEF Written
<1>4. QED
  BY <1>1, <1>3 DEF NameInv

\* NameInv is inductive, given IInv.
LEMMA NameStep == ASSUME IInv, NameInv, [Next]_vars PROVE NameInv'
<1> USE DEF ProducerAt
<1>1. ASSUME UNCHANGED <<pp, head, h, left, sent, name>> PROVE NameInv'
  <2>1. Written' = Written
    BY <1>1 DEF Written, Span
  <2>2. QED
    BY <1>1, <2>1 DEF NameInv
<1>2. ASSUME pp' \notin {"write", "publish"} PROVE NameInv'
  BY <1>2 DEF NameInv
<1>3. ASSUME NEW op \in {"try_send", "send", "try_send_bulk"}, NEW n \in 1..CAP,
             StartSend(op, n)
      PROVE  NameInv'
  BY <1>2, <1>3 DEF StartSend
<1>4. CASE \/ FullOrClosed \/ PublishHead \/ WakeConsumer \/ ProducerArm \/ ProducerLook
           \/ ProducerLookClosed \/ ProducerWoken \/ ProducerDisarm \/ ProducerCancel
           \/ ProducerDrop \/ ProducerCloseWakes
  BY <1>2, <1>4
  DEF FullOrClosed, PublishHead, WakeConsumer, ProducerArm, ProducerLook, ProducerLookClosed,
      ProducerWoken, ProducerDisarm, ProducerCancel, ProducerDrop, ProducerCloseWakes
<1>5. ASSUME NEW op \in {"try_recv", "recv", "drain"}, StartRecv(op) PROVE NameInv'
  BY <1>1, <1>5 DEF StartRecv, ringVars, prodVars
<1>6. CASE ConsumerStep \/ ConsumerCancel \/ DrainPanic \/ ConsumerDrop \/ DropRing
  <2>1. UNCHANGED <<head, prodVars>>
    BY <1>6
    DEF ConsumerStep, CachedHead, RefreshHead, EmptyOrClosed, RereadHead, ReadSlot, MoveOut,
        FreeSlot, WakeProducer, ConsumerArm, ConsumerLook, ConsumerLookClosed, ConsumerWoken,
        ConsumerDisarm, ConsumerCancel, DrainLoad, DrainTake, DrainCall, DrainCommit,
        DrainWake, DrainPanic, ConsumerDrop, ConsumerCloseWakes, DropRing, ringVars
  <2>2. QED
    BY <1>1, <2>1 DEF prodVars
<1>7. CASE UNCHANGED vars
  BY <1>1, <1>7 DEF vars, ringVars, prodVars
<1>8. QED
  BY <1>3, <1>4, <1>5, <1>6, <1>7, NameWrite, NameAdmit DEF Next, ProducerStep

\* What f says of the n items after g.
Named(f, g, n) == [i \in 1..n |-> f[g + i]]

\* Sequences with the same elements.
LEMMA SameSequence ==
  ASSUME NEW s \in Seq(Nat), NEW t \in Seq(Nat), NEW n,
         Len(s) = n, Len(t) = n, \A i \in 1..n : s[i] = t[i]
  PROVE  s = t
OBVIOUS

\* Such a queue when a burst enters and when its head leaves.
LEMMA NamedFacts ==
  ASSUME NEW f, NEW g \in Nat, NEW n \in Nat, \A i \in 1..n : f[g + i] \in Nat
  PROVE  /\ n = 0 => Named(f, g, n) = <<>>
         /\ Len(Named(f, g, n)) = n
         /\ n > 0 => /\ Named(f, g, n) # <<>>
                     /\ Head(Named(f, g, n)) = f[g + 1]
                     /\ Tail(Named(f, g, n)) = Named(f, g + 1, n - 1)
<1>1. Named(f, g, n) \in Seq(Nat) /\ Len(Named(f, g, n)) = n
  BY DEF Named
<1>2. n = 0 => Named(f, g, n) = <<>>
  BY <1>1
<1>3. ASSUME n > 0
      PROVE  /\ Named(f, g, n) # <<>>
             /\ Head(Named(f, g, n)) = f[g + 1]
             /\ Tail(Named(f, g, n)) = Named(f, g + 1, n - 1)
  <2>1. Named(f, g, n) # <<>> /\ Head(Named(f, g, n)) = f[g + 1]
    BY <1>1, <1>3 DEF Named
  <2>2. /\ Tail(Named(f, g, n)) \in Seq(Nat) /\ Len(Tail(Named(f, g, n))) = n - 1
        /\ \A i \in 1..n - 1 : Tail(Named(f, g, n))[i] = Named(f, g, n)[i + 1]
    BY <1>1, <1>3
  <2>3. ASSUME NEW i \in 1..n - 1
        PROVE  /\ Named(f, g, n)[i + 1] = f[g + 1 + i]
               /\ f[g + 1 + i] \in Nat
    <3>1. i \in Nat /\ i + 1 \in 1..n /\ g + (i + 1) = g + 1 + i
      BY <1>3
    <3>2. Named(f, g, n)[i + 1] = f[g + (i + 1)] /\ f[g + (i + 1)] \in Nat
      BY <3>1 DEF Named
    <3>3. QED
      BY <3>1, <3>2
  <2>4. Named(f, g + 1, n - 1) \in Seq(Nat) /\ Len(Named(f, g + 1, n - 1)) = n - 1
    BY <1>3, <2>3 DEF Named
  <2>5. \A i \in 1..n - 1 : Tail(Named(f, g, n))[i] = Named(f, g + 1, n - 1)[i]
    BY <2>2, <2>3 DEF Named
  <2>6. Tail(Named(f, g, n)) = Named(f, g + 1, n - 1)
    BY <2>2, <2>4, <2>5, SameSequence, Zenon
  <2>7. QED
    BY <2>1, <2>6
<1>4. QED
  BY <1>1, <1>2, <1>3

\* Two sequences, one behind the other.
LEMMA Joined ==
  ASSUME NEW s \in Seq(Nat), NEW t \in Seq(Nat)
  PROVE  /\ s \o t \in Seq(Nat) /\ Len(s \o t) = Len(s) + Len(t)
         /\ \A i \in 1 .. Len(s) + Len(t) :
              /\ i <= Len(s) => (s \o t)[i] = s[i]
              /\ ~(i <= Len(s)) => (s \o t)[i] = t[i - Len(s)]
OBVIOUS

\* Two such queues.
LEMMA NamedJoin ==
  ASSUME NEW g \in Nat, NEW n \in Nat, NEW k \in Nat,
         \A i \in 1 .. n + k : name[g + i] \in Nat
  PROVE  Named(name, g, n + k) = Named(name, g, n) \o Named(name, g + n, k)
<1> DEFINE front == Named(name, g, n)
           back  == Named(name, g + n, k)
<1>1. \A i \in 1..n : name[g + i] \in Nat
  OBVIOUS
<1>2. \A i \in 1..k : name[(g + n) + i] \in Nat
  <2>1. \A i \in 1..k : n + i \in 1 .. n + k /\ g + (n + i) = (g + n) + i
    OBVIOUS
  <2>2. QED
    BY <2>1
<1>3. front \in Seq(Nat) /\ Len(front) = n /\ \A i \in 1..n : front[i] = name[g + i]
  BY <1>1 DEF Named
<1>4. back \in Seq(Nat) /\ Len(back) = k /\ \A i \in 1..k : back[i] = name[(g + n) + i]
  BY <1>2 DEF Named
<1>5. Named(name, g, n + k) \in Seq(Nat) /\ Len(Named(name, g, n + k)) = n + k
  BY DEF Named
<1> HIDE DEF front, back
<1>6. /\ front \o back \in Seq(Nat) /\ Len(front \o back) = n + k
      /\ \A i \in 1 .. n + k : /\ i <= n => (front \o back)[i] = front[i]
                              /\ ~(i <= n) => (front \o back)[i] = back[i - n]
  BY <1>3, <1>4, Joined
<1>7. ASSUME NEW i \in 1 .. n + k
      PROVE  (front \o back)[i] = Named(name, g, n + k)[i]
  <2>1. Named(name, g, n + k)[i] = name[g + i]
    BY DEF Named
  <2>2. CASE i <= n
    <3>1. i \in 1..n
      BY <2>2
    <3>2. QED
      BY <1>3, <1>6, <2>1, <2>2, <3>1
  <2>3. CASE ~(i <= n)
    <3>1. i - n \in 1..k /\ (g + n) + (i - n) = g + i
      BY <2>3
    <3>2. back[i - n] = name[(g + n) + (i - n)]
      BY <1>4, <3>1
    <3>3. QED
      BY <1>6, <2>1, <2>3, <3>1, <3>2
  <2>4. QED
    BY <2>2, <2>3
<1>8. front \o back = Named(name, g, n + k)
  BY <1>5, <1>6, <1>7, SameSequence, Zenon
<1>9. QED
  BY <1>8 DEF front, back

\* The slots from x on, when they hold the items after g.
LEMMA SlotsNumbered ==
  ASSUME NEW x \in Cursor, NEW n \in 0..CAP, NEW g \in Nat, NEW f,
         \A s \in Slot : (s - Mask(x)) % CAP < n => f[s] = g + 1 + ((s - Mask(x)) % CAP)
  PROVE  \A i \in 1..n : f[Mask(Plus(x, i - 1))] = g + i
<1>1. ASSUME NEW i \in 1..n PROVE f[Mask(Plus(x, i - 1))] = g + i
  <2>0. n \in Nat /\ n <= CAP /\ i \in Nat /\ 1 <= i /\ i <= n /\ CAP \in Nat
    BY Sizes
  <2>1. i - 1 \in 0..CAP /\ i - 1 < CAP /\ i - 1 < n /\ i \in Nat
    BY <2>0
  <2>2. Plus(x, i - 1) \in Cursor /\ Span(x, Plus(x, i - 1)) = i - 1
    BY <2>1, PlusFacts
  <2>3. (Mask(Plus(x, i - 1)) - Mask(x)) % CAP = i - 1
    BY <2>1, <2>2, MaskSpan
  <2>4. Mask(Plus(x, i - 1)) \in Slot
    BY <2>2, SlotFacts DEF Cursor
  <2>5. f[Mask(Plus(x, i - 1))] = g + 1 + ((Mask(Plus(x, i - 1)) - Mask(x)) % CAP)
    <3>1. (Mask(Plus(x, i - 1)) - Mask(x)) % CAP < n
      BY <2>1, <2>3, Zenon
    <3>2. QED
      BY <2>4, <3>1, Zenon
  <2>6. f[Mask(Plus(x, i - 1))] = g + 1 + (i - 1)
    BY <2>3, <2>5, Zenon
  <2>7. QED
    BY <2>1, <2>6
<1>2. QED
  BY <1>1

\* The items published and written have names.
LEMMA NameTypes ==
  ASSUME IInv
  PROVE  /\ got \in Nat /\ Published \in Nat /\ Written \in Nat
         /\ \A i \in 1 .. Published + Written : name[got + i] \in Nat
<1>1. TypeOK /\ Order /\ Items
  BY DEF IInv
<1>2. /\ got \in Nat /\ sent \in Nat /\ sent <= MaxItems /\ MaxItems \in Nat
      /\ Published \in Nat /\ Written \in Nat /\ sent = got + Published + Written
  BY <1>1, Counts, OrderFacts DEF Items
<1>3. \A i \in 1 .. Published + Written : got + i \in 0..MaxItems
  BY <1>2
<1>4. \A i \in 0..MaxItems : name[i] \in 0..MaxItems
  BY <1>1 DEF TypeOK
<1>5. QED
  BY <1>2, <1>3, <1>4

\* So they can be counted, taken from the front and added to at the back.
LEMMA NamesQueued ==
  ASSUME IInv
  PROVE  /\ Len(Named(name, got, Published)) = Published
         /\ Published > 0 =>
              /\ Named(name, got, Published) # <<>>
              /\ Head(Named(name, got, Published)) = name[got + 1]
              /\ Tail(Named(name, got, Published)) = Named(name, got + 1, Published - 1)
         /\ Named(name, got, Published + Written) =
              Named(name, got, Published) \o Named(name, got + Published, Written)
<1>1. /\ got \in Nat /\ Published \in Nat /\ Written \in Nat
      /\ \A i \in 1 .. Published + Written : name[got + i] \in Nat
  BY NameTypes
<1>2. \A i \in 1..Published : i \in 1 .. Published + Written
  BY <1>1
<1>3. \A i \in 1..Published : name[got + i] \in Nat
  BY <1>1, <1>2
<1>4. /\ Len(Named(name, got, Published)) = Published
      /\ Published > 0 =>
           /\ Named(name, got, Published) # <<>>
           /\ Head(Named(name, got, Published)) = name[got + 1]
           /\ Tail(Named(name, got, Published)) = Named(name, got + 1, Published - 1)
  BY <1>1, <1>3, NamedFacts, Zenon
<1>5. Named(name, got, Published + Written) =
        Named(name, got, Published) \o Named(name, got + Published, Written)
  BY <1>1, NamedJoin, Zenon
<1>6. QED
  BY <1>4, <1>5, Zenon

\* The queue holds the published items that were not moved out, by name.
LEMMA QueueNamed ==
  IInv => queueBar = IF freed THEN <<>> ELSE Named(name, got, Published)
<1> SUFFICES ASSUME IInv, ~freed PROVE queueBar = Named(name, got, Published)
  BY DEF queueBar
<1>1. TypeOK /\ Order /\ Items
  BY DEF IInv
<1>2. c \in Cursor /\ got \in Nat
  BY <1>1, Sizes DEF TypeOK
<1>3. /\ Published \in Nat /\ Written \in Nat /\ Span(c, h) = Published + Written
      /\ Span(c, h) <= CAP /\ CAP \in Nat
  BY <1>1, OrderFacts, Sizes
<1>4. Published \in 0..CAP
  BY <1>3
<1>5. ASSUME NEW s \in Slot, (s - Mask(c)) % CAP < Published
      PROVE  slots[s] = got + 1 + ((s - Mask(c)) % CAP)
  <2>1. After(s) \in Nat /\ After(s) < Published
    BY <1>1, <1>5, AfterFacts DEF After
  <2>2. After(s) < Span(c, h)
    BY <1>3, <2>1
  <2>3. slots[s] = got + 1 + After(s)
    BY <1>1, <2>2 DEF Items
  <2>4. QED
    BY <2>3, Zenon DEF After
<1>6. \A i \in 1..Published : slots[Mask(Plus(c, i - 1))] = got + i
  BY <1>2, <1>4, <1>5, SlotsNumbered
<1>7. [i \in 1..Published |-> name[slots[Mask(Plus(c, i - 1))]]] = Named(name, got, Published)
  BY <1>6 DEF Named
<1>8. QED
  BY <1>7 DEF queueBar, Published

\* And after a step.
LEMMA QueueNext ==
  ASSUME IInv'
  PROVE  queueBar' = IF freed' THEN <<>> ELSE Named(name', got', Published')
<1>1. (IInv => queueBar = IF freed THEN <<>> ELSE Named(name, got, Published))'
  BY QueueNamed, PTL
<1>2. QED
  BY <1>1

\* A step that moves neither the consumer's cursors nor head, and renames nothing that
\* was published, leaves the queue and the counts alone.
LEMMA QueueKept ==
  ASSUME IInv, IInv', UNCHANGED <<head, tail, c, got>>,
         \A i \in 0 .. got + Published : name'[i] = name[i]
  PROVE  /\ freed' = freed => queueBar' = queueBar
         /\ Published' = Published /\ Span(tail, c)' = Span(tail, c)
         /\ Span(c, head)' = Span(c, head)
         /\ name'[got'] = name[got]
<1>1. /\ Published' = Published /\ Span(tail, c)' = Span(tail, c)
      /\ Span(c, head)' = Span(c, head)
  BY DEF Published, Span
<1>2. got \in Nat /\ Published \in Nat
  BY NameTypes
<1>3. \A i \in 1..Published : got + i \in 0 .. got + Published
  BY <1>2
<1>4. Named(name', got, Published) = Named(name, got, Published)
  BY <1>3 DEF Named
<1>5. freed' = freed => queueBar' = queueBar
  BY <1>1, <1>4, QueueNamed, QueueNext
<1>6. got \in 0 .. got + Published
  BY <1>2
<1>7. QED
  BY <1>1, <1>5, <1>6

\* If its ends stay what they were, it is invisible.
LEMMA FifoStutter ==
  ASSUME IInv, IInv', UNCHANGED <<head, tail, c, got, freed>>,
         \A i \in 0 .. got + Published : name'[i] = name[i],
         pp' \in Closing <=> pp \in Closing, cp' \in Closing <=> cp \in Closing,
         outcome' = "closed" <=> outcome = "closed"
  PROVE  UNCHANGED Abstract!vars
<1>1. /\ (pp \notin Closing)' = (pp \notin Closing) /\ (cp \notin Closing)' = (cp \notin Closing)
      /\ (outcome = "closed")' = (outcome = "closed")
  OBVIOUS
<1>2. QED
  BY <1>1, QueueKept DEF Abstract!vars

\* A slot written is not in the queue yet.
LEMMA FifoWrites == ASSUME IInv, IInv', WriteSlot PROVE UNCHANGED Abstract!vars
<1>1. /\ UNCHANGED <<head, tail, c, got, freed, cp, outcome>>
      /\ pp = "write" /\ pp' \in {"write", "publish"}
      /\ name' = [name EXCEPT ![sent + 1] = Popped]
  BY DEF WriteSlot, ProducerAt, consVars
<1>2. /\ got \in Nat /\ sent \in Nat /\ Published \in Nat /\ Written \in Nat
      /\ sent = got + Published + Written
  BY Counts, OrderFacts DEF IInv, Items
<1>3. \A i \in 0 .. got + Published : i # sent + 1
  BY <1>2
<1>4. \A i \in 0 .. got + Published : name'[i] = name[i]
  BY <1>1, <1>3 DEF IInv, TypeOK
<1>5. QED
  BY <1>1, <1>4, FifoStutter DEF Closing

\* head.store: the whole burst enters at once, its last item first.
LEMMA FifoAccepts ==
  ASSUME IInv, IInv', NameInv, PublishHead
  PROVE  (\E k \in 1..CAP : Abstract!Accept(k)) \/ UNCHANGED Abstract!vars
<1>1. TypeOK /\ Order /\ Items
  BY DEF IInv
<1>2. /\ pp = "publish" /\ pp' = "wake" /\ head' = h
      /\ UNCHANGED <<c, tail, h, got, freed, cp, outcome, sent, left, name>>
  BY DEF PublishHead, ProducerAt, prodVars, consVars
<1>3. /\ Published \in Nat /\ Written \in Nat /\ Taken \in Nat /\ Lag \in Nat /\ CAP \in Nat
      /\ Span(c, h) = Published + Written /\ got \in Nat /\ sent \in Nat /\ ~freed
      /\ Lag + Taken + Published + Written <= CAP /\ sent = got + Published + Written
  BY <1>1, <1>2, Counts, OrderFacts DEF Items, Order
<1>4. Published' = Published + Written
  BY <1>2, <1>3 DEF Published
<1>5. /\ queueBar = Named(name, got, Published)
      /\ queueBar' = Named(name, got, Published + Written)
  BY <1>2, <1>3, <1>4, QueueNamed, QueueNext
<1>6. Span(tail, c)' = Span(tail, c) /\ Span(c, head)' = Span(c, head) + Written
  BY <1>2, <1>4 DEF Span, Published
<1>7. CASE Written = 0
  <2>1. queueBar' = queueBar /\ Span(c, head)' = Span(c, head)
    BY <1>3, <1>5, <1>6, <1>7 DEF Published
  <2>2. QED
    BY <1>2, <1>6, <2>1 DEF Abstract!vars, Closing
<1>8. CASE Written > 0
  <2>1. Written \in 1..CAP
    BY <1>3, <1>8
  <2>2. Len(queueBar) = Published
    BY <1>5, NamesQueued, Zenon
  <2>3. Len(queueBar) + Span(tail, c) + Written <= CAP
    BY <1>3, <2>2 DEF Taken
  <2>4. Named(name, got + Published, Written) =
          [i \in 1..Written |-> (got + Published) + Written + 1 - i]
    <3>1. ASSUME NEW i \in 1..Written
          PROVE  name[got + Published + i] = (got + Published) + Written + 1 - i
      <4>1. sent - Written + i = got + Published + i /\ left = 0
        BY <1>2, <1>3 DEF NameInv
      <4>2. name[sent - Written + i] = sent + left + 1 - i
        BY <1>2 DEF NameInv
      <4>3. sent + left + 1 - i = (got + Published) + Written + 1 - i
        BY <1>3, <4>1
      <4>4. QED
        BY <4>1, <4>2, <4>3
    <3>2. QED
      BY <3>1 DEF Named
  <2>5. queueBar' = queueBar \o [i \in 1..Written |-> (got + Span(c, head)) + Written + 1 - i]
    <3>1. Named(name, got, Published + Written) =
            Named(name, got, Published) \o Named(name, got + Published, Written)
      BY NamesQueued, Zenon
    <3>2. QED
      BY <1>5, <2>4, <3>1 DEF Published
  <2>6. (got + Span(c, head))' = (got + Span(c, head)) + Written
    BY <1>2, <1>3, <1>6 DEF Published
  <2>7. Abstract!Accept(Written)
    BY <1>2, <1>6, <2>3, <2>5, <2>6 DEF Abstract!Accept, Closing
  <2>8. QED
    BY <2>1, <2>7
<1>9. QED
  BY <1>3, <1>7, <1>8

\* An item moved out is the one longest in the queue.
LEMMA FifoDelivers ==
  ASSUME IInv, IInv', EndInv, ReadSlot \/ DrainTake
  PROVE  Abstract!Deliver
<1>1. TypeOK /\ Order /\ Known /\ Items
  BY DEF IInv
<1>2. /\ cp \in {"read", "take"} /\ cp' \in {"free", "call"} /\ c' = Plus(c, 1)
      /\ got' = slots[Mask(c)] /\ UNCHANGED <<head, tail, freed, pp, name>>
      /\ outcome' \in {outcome, "item"}
  BY DEF ReadSlot, DrainTake, MoveOut, ConsumerAt, prodVars
<1>3. ~freed /\ Published > 0 /\ slots[Mask(c)] = got + 1
  BY <1>1, <1>2, NextTake
<1>4. /\ Published \in Nat /\ Taken \in Nat /\ Written \in Nat /\ Lag \in Nat /\ got \in Nat
      /\ CAP \in Nat /\ Lag + Taken + Published + Written <= CAP
      /\ c \in Cursor /\ head \in Cursor /\ tail \in Cursor
  BY <1>1, OrderFacts, Sizes DEF Order, TypeOK
<1>5. Published' = Published - 1
  BY <1>2, <1>3, <1>4, NextCursor DEF Published
<1>6. Taken' = Taken + 1
  <2>1. Span(tail, c) < CAP
    BY <1>3, <1>4 DEF Taken
  <2>2. QED
    BY <1>2, <1>4, <2>1, NextCursor DEF Taken
<1>7. /\ queueBar = Named(name, got, Published)
      /\ queueBar' = Named(name, got + 1, Published - 1)
  BY <1>2, <1>3, <1>5, QueueNamed, QueueNext
<1>8. queueBar # <<>> /\ Head(queueBar) = name[got + 1] /\ queueBar' = Tail(queueBar)
  BY <1>3, <1>7, NamesQueued, Zenon
<1>9. /\ Span(tail, c)' = Span(tail, c) + 1 /\ name'[got'] = name[got + 1]
      /\ (got + Span(c, head))' = got + Span(c, head)
  <2>1. (got + Span(c, head))' = (got + 1) + (Published - 1)
    BY <1>2, <1>3, <1>5 DEF Published
  <2>2. QED
    BY <1>2, <1>3, <1>4, <1>6, <2>1 DEF Taken, Published
<1>10. cp \notin Closing /\ cp' \notin Closing /\ outcome # "closed" /\ outcome' # "closed"
  BY <1>2 DEF EndInv, Closing
<1>11. QED
  BY <1>2, <1>3, <1>8, <1>9, <1>10 DEF Abstract!Deliver

\* tail.store gives back the room of what was moved out.
LEMMA FifoGivesBack ==
  ASSUME IInv, IInv', EndInv, FreeSlot \/ DrainCommit \/ DrainPanic
  PROVE  Abstract!GiveBack
<1>1. /\ cp \in {"free", "commit", "call"} /\ cp' \in {"wake", "drainWake", "idle", "drop"}
      /\ tail' = c /\ UNCHANGED <<head, c, got, freed, pp, name>>
      /\ outcome' \in {outcome, "panic"}
  BY DEF FreeSlot, DrainCommit, DrainPanic, ConsumerAt, prodVars
<1>2. c \in Cursor
  BY DEF IInv, TypeOK
<1>3. Span(tail, c)' = 0
  BY <1>1, <1>2, SpanFacts
<1>4. queueBar' = queueBar /\ (got + Span(c, head))' = got + Span(c, head)
  <2>1. Published' = Published /\ Span(c, head)' = Span(c, head)
    BY <1>1 DEF Published, Span
  <2>2. QED
    BY <1>1, <2>1, QueueNamed, QueueNext
<1>5. cp \notin Closing /\ cp' \notin Closing /\ outcome # "closed" /\ outcome' # "closed"
  BY <1>1 DEF EndInv, Closing
<1>6. QED
  BY <1>1, <1>3, <1>4, <1>5 DEF Abstract!GiveBack

\* A receive starts, and may end with the news that nothing more can come.
LEMMA FifoEnds ==
  ASSUME IInv, IInv', EndInv, RereadHead
  PROVE  Abstract!End \/ UNCHANGED Abstract!vars
<1>1. /\ TypeOK /\ Order /\ Items /\ Flag /\ cp = "reread" /\ closed
      /\ UNCHANGED <<head, tail, c, got, freed, pp, name>>
  BY DEF IInv, EndInv, RereadHead, ConsumerAt, ringVars, prodVars
<1>2. CASE head = tail /\ cp' = "idle" /\ outcome' = "closed"
  <2>1. c = tail /\ ~freed /\ pp \in Closing
    BY <1>1 DEF Order, Items, Flag, Closing
  <2>2. Published = 0 /\ Published' = 0 /\ got \in Nat /\ c \in Cursor
    <3>1. c = head /\ c' = head' /\ c \in Cursor /\ head \in Cursor /\ got \in Nat
      BY <1>1, <1>2, <2>1, Sizes DEF TypeOK
    <3>2. QED
      BY <1>1, <3>1, SpanFacts DEF Published
  <2>3. queueBar = <<>> /\ queueBar' = <<>>
    BY <1>1, <2>1, <2>2, QueueNamed, QueueNext DEF Named
  <2>4. Span(tail, c)' = Span(tail, c) /\ (got + Span(c, head))' = got + Span(c, head)
    BY <1>1 DEF Span
  <2>5. QED
    BY <1>1, <1>2, <2>1, <2>3, <2>4 DEF Abstract!End, Closing
<1>3. CASE head # tail /\ cp' = "read" /\ UNCHANGED outcome
  BY <1>1, <1>3, FifoStutter DEF Closing
<1>4. QED
  BY <1>2, <1>3 DEF RereadHead

\* A receive starts.
LEMMA FifoAsks ==
  ASSUME IInv, IInv', NEW op \in {"try_recv", "recv", "drain"}, StartRecv(op)
  PROVE  Abstract!Ask
<1>1. /\ cp = "idle" /\ cp' \in {"load", "cached"} /\ c' = tail /\ outcome' = "none"
      /\ UNCHANGED <<head, tail, got, freed, pp, name>>
  BY DEF StartRecv, ConsumerAt, ringVars, prodVars
<1>2. c' = c
  BY <1>1 DEF IInv, Order
<1>3. QED
  BY <1>1, <1>2, QueueKept DEF Abstract!Ask, Closing

\* The two drops of a handle, and the ring's own.
LEMMA FifoCloses ==
  ASSUME IInv, IInv'
  PROVE  /\ ProducerDrop => Abstract!CloseSender
         /\ ConsumerDrop => Abstract!CloseReceiver
         /\ DropRing => Abstract!Discard
<1>1. ASSUME ProducerDrop PROVE Abstract!CloseSender
  <2>1. /\ UNCHANGED <<head, tail, c, got, freed, cp, outcome, name>> /\ pp' = "closeFull"
    BY <1>1 DEF ProducerDrop, consVars
  <2>2. QED
    BY <2>1, QueueKept DEF Abstract!CloseSender, Closing
<1>2. ASSUME ConsumerDrop PROVE Abstract!CloseReceiver
  <2>1. /\ UNCHANGED <<head, tail, c, got, freed, pp, outcome, name>> /\ cp' = "closeFull"
    BY <1>2 DEF ConsumerDrop, prodVars
  <2>2. QED
    BY <2>1, QueueKept DEF Abstract!CloseReceiver, Closing
<1>3. ASSUME DropRing PROVE Abstract!Discard
  <2>1. /\ UNCHANGED <<head, tail, c, got, pp, cp, outcome, name>> /\ freed'
        /\ pp = "gone" /\ cp = "gone"
    BY <1>3 DEF DropRing, prodVars, consVars
  <2>2. queueBar' = <<>>
    BY <2>1, QueueNext
  <2>3. QED
    BY <2>1, <2>2, QueueKept DEF Abstract!Discard, Closing
<1>4. QED
  BY <1>1, <1>2, <1>3

\* The ring starts as an empty queue.
LEMMA FifoInit == Init => Abstract!Init
<1> SUFFICES ASSUME Init PROVE Abstract!Init
  OBVIOUS
<1>1. 0 \in Cursor
  BY Sizes DEF Cursor
<1>2. /\ head = 0 /\ tail = 0 /\ c = 0 /\ got = 0 /\ freed = FALSE
      /\ pp = "idle" /\ cp = "idle" /\ outcome = "none"
  BY DEF Init
<1>3. Span(tail, c) = 0 /\ Span(c, head) = 0
  BY <1>1, <1>2, SpanFacts
<1>4. queueBar = <<>>
  BY <1>2, <1>3, InitInv, QueueNamed DEF Published, Named
<1>5. name[got] = 0
  BY <1>2, Sizes DEF Init
<1>6. QED
  BY <1>2, <1>3, <1>4, <1>5 DEF Abstract!Init, Closing

\* Every step of the ring is a step of the FIFO or invisible.
LEMMA FifoStep ==
  ASSUME IInv, IInv', EndInv, NameInv, [Next]_vars
  PROVE  [Abstract!Next]_(Abstract!vars)
<1> USE DEF ProducerAt, ConsumerAt, Closing
<1>1. ASSUME NEW op \in {"try_send", "send", "try_send_bulk"}, NEW n \in 1..CAP,
             StartSend(op, n)
      PROVE  UNCHANGED Abstract!vars
  BY <1>1, FifoStutter DEF StartSend, ringVars, consVars
<1>2. CASE \/ Room \/ RefreshTail \/ FullOrClosed \/ WakeConsumer
           \/ ProducerArm \/ ProducerLook \/ ProducerLookClosed \/ ProducerWoken
           \/ ProducerDisarm \/ ProducerCancel \/ ProducerCloseWakes
  BY <1>2, FifoStutter
  DEF Room, RefreshTail, Admit, FullOrClosed, WakeConsumer, ProducerArm,
      ProducerLook, ProducerLookClosed, ProducerWoken, ProducerDisarm, ProducerCancel,
      ProducerCloseWakes, ringVars, consVars
<1>3. CASE \/ CachedHead \/ RefreshHead \/ WakeProducer \/ ConsumerArm \/ ConsumerLook
           \/ ConsumerLookClosed \/ ConsumerWoken \/ ConsumerDisarm \/ ConsumerCancel
           \/ DrainLoad \/ DrainCall \/ DrainWake \/ ConsumerCloseWakes
  BY <1>3, FifoStutter
  DEF CachedHead, RefreshHead, WakeProducer, ConsumerArm, ConsumerLook,
      ConsumerLookClosed, ConsumerWoken, ConsumerDisarm, ConsumerCancel,
      DrainLoad, DrainCall, DrainWake, ConsumerCloseWakes, ringVars, prodVars
<1>4. CASE EmptyOrClosed
  <2>1. outcome # "closed" /\ outcome' \in {outcome, "empty"}
    BY <1>4 DEF EmptyOrClosed, EndInv
  <2>2. QED
    BY <1>4, <2>1, FifoStutter DEF EmptyOrClosed, ringVars, prodVars
<1>5. CASE PublishHead
  BY <1>5, FifoAccepts DEF Abstract!Next
<1>6. CASE ReadSlot \/ DrainTake
  BY <1>6, FifoDelivers DEF Abstract!Next
<1>7. CASE FreeSlot \/ DrainCommit \/ DrainPanic
  BY <1>7, FifoGivesBack DEF Abstract!Next
<1>8. CASE RereadHead
  BY <1>8, FifoEnds DEF Abstract!Next
<1>9. ASSUME NEW op \in {"try_recv", "recv", "drain"}, StartRecv(op) PROVE Abstract!Next
  BY <1>9, FifoAsks DEF Abstract!Next
<1>10. CASE ProducerDrop \/ ConsumerDrop \/ DropRing
  BY <1>10, FifoCloses DEF Abstract!Next
<1>11. CASE UNCHANGED vars
  BY <1>11, FifoStutter DEF vars, ringVars, prodVars, consVars
<1>12. QED
  BY <1>1, <1>2, <1>3, <1>4, <1>5, <1>6, <1>7, <1>8, <1>9, <1>10, <1>11, FifoWrites
  DEF Next, ProducerStep, ConsumerStep

\* The ring hands out what it accepted: each item once, single sends in the order they
\* were made, a burst whole but last item first (items.pop() in try_send_bulk, where
\* stream/mod.rs promises "order preserved"); never more than CAP are inside, and
\* Closed is reported only when nothing is left to receive.
THEOREM RingImplementsFifo == ASSUME ~Catches PROVE Spec => RingIsFifo
<1>1. Init => EndInv /\ NameInv
  BY DEF Init, EndInv, NameInv
<1>2. IInv /\ NameInv /\ [Next]_vars => NameInv'
  BY NameStep
<1>3. IInv /\ IInv' /\ EndInv /\ NameInv /\ [Next]_vars => [Abstract!Next]_(Abstract!vars)
  BY FifoStep
<1>4. QED
  BY <1>1, <1>2, <1>3, EndStep, FifoInit, RingInductive, PTL
  DEF Spec, RingIsFifo, Abstract!Spec

=============================================================================
