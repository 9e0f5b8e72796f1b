-------------------------------- MODULE Ring --------------------------------
(***************************************************************************)
(* The split-handle SPSC ring of stream/ring.rs: a Producer and a Consumer *)
(* handle sharing two cursors, CAP slots, a closed flag and two waiters.   *)
(*                                                                         *)
(* Each load or store of a shared atomic and each slot access is a step.   *)
(* Cursors are machine words that wrap at Width.  A slot holds the number  *)
(* of the write that filled it, 0 when it holds no live value (never       *)
(* written, or moved out); name says which item of the caller each write   *)
(* stored, for a burst is taken from the back of the caller's Vec.  The    *)
(* waiters follow WakeContract: a side announces itself, evaluates its     *)
(* predicate, and sleeps until a wake that found it announced has left it  *)
(* a token.                                                                *)
(***************************************************************************)
EXTENDS Integers

CONSTANTS
  CAP,       \* slots
  Width,     \* cursor arithmetic is modulo Width (2^64 in the code)
  MaxItems,  \* bound: items the producer ever writes
  Catches    \* a panic in drain's callback is caught and the consumer reused

ASSUME RingAssumption ==
  /\ CAP \in Nat \ {0}
  /\ Width \in Nat /\ Width > CAP /\ Width % CAP = 0
  /\ MaxItems \in Nat
  /\ Catches \in BOOLEAN

VARIABLES
  head, tail, slots, closed,      \* the shared struct
  parked, token,                  \* the waiters not_full and not_empty
  freed,                          \* the last Arc is gone and Drop has run
  pp, send, cachedTail, h, left,  \* producer: point, operation, cache, bulk
  sent,                           \* items written so far
  name,                           \* which of the caller's items each write stored
  cp, recv, cachedHead, c, stop,  \* consumer: point, operation, cache, drain
  got,                            \* items moved out so far
  outcome                         \* what the last receive reported

ringVars == <<head, tail, slots, closed>>
gateVars == <<parked, token>>
prodVars == <<pp, send, cachedTail, h, left, sent, name>>
consVars == <<cp, recv, cachedHead, c, stop, got, outcome>>
vars == <<ringVars, gateVars, freed, prodVars, consVars>>

Side   == {"not_full", "not_empty"}
Cursor == 0 .. Width - 1
Slot   == 0 .. CAP - 1

\* Mutant: cursor arithmetic that does not wrap.
Plus_NoWrap(i, k) == i + k

Plus(i, k) == (i + k) % Width
Span(i, j) == (j - i) % Width     \* j.wrapping_sub(i)
Mask(i)    == i % CAP             \* i & MASK

ProducerPoints ==
  {"idle", "room", "refresh", "closed", "write", "publish", "wake",
   "arm", "look", "lookClosed", "sleep", "disarm",
   "drop", "closeFull", "closeEmpty", "gone"}
ConsumerPoints ==
  {"idle", "cached", "refresh", "closed", "reread", "read", "free", "wake",
   "arm", "look", "lookClosed", "sleep", "disarm",
   "load", "take", "call", "commit", "drainWake",
   "drop", "closeFull", "closeEmpty", "gone"}

TypeOK ==
  /\ head \in Cursor /\ tail \in Cursor
  /\ slots \in [Slot -> 0..MaxItems]
  /\ closed \in BOOLEAN /\ freed \in BOOLEAN
  /\ parked \in [Side -> BOOLEAN] /\ token \in [Side -> BOOLEAN]
  /\ pp \in ProducerPoints /\ send \in {"none", "try_send", "send", "try_send_bulk"}
  /\ cachedTail \in Cursor /\ h \in Cursor /\ left \in 0..CAP
  /\ sent \in 0..MaxItems /\ name \in [0..MaxItems -> 0..MaxItems]
  /\ cp \in ConsumerPoints /\ recv \in {"none", "try_recv", "recv", "drain"}
  /\ cachedHead \in Cursor /\ c \in Cursor /\ stop \in Cursor
  /\ got \in 0..MaxItems
  /\ outcome \in {"none", "item", "empty", "closed", "panic"}

Init ==
  /\ head = 0 /\ tail = 0 /\ closed = FALSE
  /\ slots = [i \in Slot |-> 0]
  /\ parked = [s \in Side |-> FALSE] /\ token = [s \in Side |-> FALSE]
  /\ freed = FALSE
  /\ pp = "idle" /\ send = "none" /\ cachedTail = 0 /\ h = 0 /\ left = 0 /\ sent = 0
  /\ name = [i \in 0..MaxItems |-> 0]
  /\ cp = "idle" /\ recv = "none" /\ cachedHead = 0 /\ c = 0 /\ stop = 0 /\ got = 0
  /\ outcome = "none"

\* wake() of one of the two waiters.
Wake(s) == token' = [token EXCEPT ![s] = @ \/ parked[s]]

Arm(s, b) == parked' = [parked EXCEPT ![s] = b]

-----------------------------------------------------------------------------
(* Producer.                                                               *)

ProducerAt(from, to) == pp = from /\ pp' = to

\* try_send, send or try_send_bulk of n items is called.
StartSend(op, n) ==
  /\ ProducerAt("idle", "room")
  /\ n = 1 \/ op = "try_send_bulk"
  /\ sent + n <= MaxItems
  /\ send' = op /\ left' = n /\ h' = head
  /\ UNCHANGED <<ringVars, gateVars, freed, cachedTail, sent, name, consVars>>

\* Mutant: one slot too many is taken for free.
Admit_OffByOne(t) ==
  LET free == CAP + 1 - Span(t, head)
  IN  free > 0 /\ pp' = "write" /\ left' = IF left <= free THEN left ELSE free

\* Room according to a view t of the tail: the burst is cut to what fits.
Admit(t) ==
  LET free == CAP - Span(t, head)
  IN  free > 0 /\ pp' = "write" /\ left' = IF left <= free THEN left ELSE free

\* The private cache is asked first.
Room ==
  /\ pp = "room"
  /\ \/ Admit(cachedTail)
     \/ Span(cachedTail, head) >= CAP /\ pp' = "refresh" /\ UNCHANGED left
  /\ UNCHANGED <<ringVars, gateVars, freed, send, cachedTail, h, sent, name, consVars>>

\* It says full: the shared tail is loaded.
RefreshTail ==
  /\ pp = "refresh"
  /\ cachedTail' = tail
  /\ \/ Admit(tail)
     \/ /\ Span(tail, head) >= CAP
        /\ pp' = IF send = "try_send_bulk" THEN "idle" ELSE "closed"
        /\ UNCHANGED left
  /\ UNCHANGED <<ringVars, gateVars, freed, send, h, sent, name, consVars>>

\* Really full: Closed, or Full, which send answers by waiting.
FullOrClosed ==
  /\ ProducerAt("closed", IF closed \/ send = "try_send" THEN "idle" ELSE "arm")
  /\ UNCHANGED <<ringVars, gateVars, freed, send, cachedTail, h, left, sent, name, consVars>>

\* Mutant: a burst taken from the front of the Vec.
Popped_Front == sent + 1

\* items.pop(): a call's items are numbered after those of the calls before it, the
\* sent - Span(head, h) already published, in the caller's order; of the left ones
\* not yet taken the last goes first.  A burst that is cut leaves the first items of
\* the Vec behind: they get their numbers from the call that accepts them.
Popped == sent - Span(head, h) + left

\* One slot write.
WriteSlot ==
  /\ ProducerAt("write", IF left = 1 THEN "publish" ELSE "write")
  /\ slots' = [slots EXCEPT ![Mask(h)] = sent + 1]
  /\ sent' = sent + 1
  /\ name' = [name EXCEPT ![sent + 1] = Popped]
  /\ h' = Plus(h, 1)
  /\ left' = left - 1
  /\ UNCHANGED <<head, tail, closed, gateVars, freed, send, cachedTail, consVars>>

\* head.store(Release): the whole burst at once.
PublishHead ==
  /\ ProducerAt("publish", "wake")
  /\ head' = h
  /\ UNCHANGED <<tail, slots, closed, gateVars, freed, send, cachedTail, h, left, sent, name, consVars>>

\* Mutant: the wake is kept for the empty-to-nonempty edge as the cached tail
\* shows it (should_notify_consumer, audit item R1).
WakeConsumer_OnEdge ==
  /\ ProducerAt("wake", "idle")
  /\ IF Span(cachedTail, head) = 1 THEN Wake("not_empty") ELSE UNCHANGED token
  /\ UNCHANGED <<ringVars, parked, freed, send, cachedTail, h, left, sent, name, consVars>>

WakeConsumer ==
  /\ ProducerAt("wake", "idle")
  /\ Wake("not_empty")
  /\ UNCHANGED <<ringVars, parked, freed, send, cachedTail, h, left, sent, name, consVars>>

\* not_full.wait_until(|| !is_full() || is_closed()): announce ...
ProducerArm ==
  /\ ProducerAt("arm", "look")
  /\ Arm("not_full", TRUE)
  /\ UNCHANGED <<ringVars, token, freed, send, cachedTail, h, left, sent, name, consVars>>

\* ... evaluate the predicate, two loads ...
ProducerLook ==
  /\ ProducerAt("look", IF Span(tail, head) < CAP THEN "disarm" ELSE "lookClosed")
  /\ UNCHANGED <<ringVars, gateVars, freed, send, cachedTail, h, left, sent, name, consVars>>

ProducerLookClosed ==
  /\ ProducerAt("lookClosed", IF closed THEN "disarm" ELSE "sleep")
  /\ UNCHANGED <<ringVars, gateVars, freed, send, cachedTail, h, left, sent, name, consVars>>

\* ... and sleep until there is a token, then evaluate it again.
ProducerWoken ==
  /\ token["not_full"]
  /\ ProducerAt("sleep", "look")
  /\ token' = [token EXCEPT !["not_full"] = FALSE]
  /\ UNCHANGED <<ringVars, parked, freed, send, cachedTail, h, left, sent, name, consVars>>

\* The wait returns and send tries again.
ProducerDisarm ==
  /\ ProducerAt("disarm", "room")
  /\ Arm("not_full", FALSE)
  /\ UNCHANGED <<ringVars, token, freed, send, cachedTail, h, left, sent, name, consVars>>

\* send_async: the future is dropped while it waits.
ProducerCancel ==
  /\ ProducerAt("sleep", "idle")
  /\ Arm("not_full", FALSE)
  /\ UNCHANGED <<ringVars, token, freed, send, cachedTail, h, left, sent, name, consVars>>

\* Drop for Producer: close() sets the flag and wakes both waiters, then the
\* Arc is released.
ProducerDrop ==
  /\ pp = "idle" /\ pp' = "closeFull"
  /\ closed' = TRUE
  /\ UNCHANGED <<head, tail, slots, gateVars, freed, send, cachedTail, h, left, sent, name, consVars>>

\* Mutant: close() wakes only the waiter of the side that is dropped.
ProducerCloseWakes_Own ==
  /\ \/ ProducerAt("closeFull", "closeEmpty") /\ Wake("not_full")
     \/ ProducerAt("closeEmpty", "gone") /\ UNCHANGED token
  /\ UNCHANGED <<ringVars, parked, freed, send, cachedTail, h, left, sent, name, consVars>>

ProducerCloseWakes ==
  /\ \/ ProducerAt("closeFull", "closeEmpty") /\ Wake("not_full")
     \/ ProducerAt("closeEmpty", "gone") /\ Wake("not_empty")
  /\ UNCHANGED <<ringVars, parked, freed, send, cachedTail, h, left, sent, name, consVars>>

ProducerStep ==
  \/ Room \/ RefreshTail \/ FullOrClosed \/ WriteSlot \/ PublishHead \/ WakeConsumer
  \/ ProducerArm \/ ProducerLook \/ ProducerLookClosed \/ ProducerWoken \/ ProducerDisarm
  \/ ProducerCloseWakes

-----------------------------------------------------------------------------
(* Consumer.                                                               *)

ConsumerAt(from, to) == cp = from /\ cp' = to

\* try_recv, recv or drain is called.
StartRecv(op) ==
  /\ ConsumerAt("idle", IF op = "drain" THEN "load" ELSE "cached")
  /\ recv' = op /\ outcome' = "none" /\ c' = tail
  /\ UNCHANGED <<ringVars, gateVars, freed, prodVars, cachedHead, stop, got>>

\* The private cache is asked first: any difference from tail means data.
CachedHead ==
  /\ ConsumerAt("cached", IF cachedHead = tail THEN "refresh" ELSE "read")
  /\ UNCHANGED <<ringVars, gateVars, freed, prodVars, recv, cachedHead, c, stop, got, outcome>>

\* It says empty: the shared head is loaded.
RefreshHead ==
  /\ ConsumerAt("refresh", IF head = tail THEN "closed" ELSE "read")
  /\ cachedHead' = head
  /\ UNCHANGED <<ringVars, gateVars, freed, prodVars, recv, c, stop, got, outcome>>

\* Empty: the closed flag decides; recv answers Empty by waiting.
EmptyOrClosed ==
  /\ cp = "closed"
  /\ cp' = IF closed THEN "reread" ELSE IF recv = "recv" THEN "arm" ELSE "idle"
  /\ outcome' = IF closed \/ recv = "recv" THEN outcome ELSE "empty"
  /\ UNCHANGED <<ringVars, gateVars, freed, prodVars, recv, cachedHead, c, stop, got>>

\* Mutant: Closed is reported on the head read before the flag.
RereadHead_Dropped ==
  /\ ConsumerAt("reread", "idle")
  /\ outcome' = "closed"
  /\ UNCHANGED <<ringVars, gateVars, freed, prodVars, recv, cachedHead, c, stop, got>>

\* Closed: head is read once more before Closed is reported.
RereadHead ==
  /\ cp = "reread"
  /\ cachedHead' = head
  /\ \/ head = tail /\ cp' = "idle" /\ outcome' = "closed"
     \/ head # tail /\ cp' = "read" /\ UNCHANGED outcome
  /\ UNCHANGED <<ringVars, gateVars, freed, prodVars, recv, c, stop, got>>

\* The slot at c is moved out.
MoveOut ==
  /\ slots' = [slots EXCEPT ![Mask(c)] = 0]
  /\ got' = slots[Mask(c)]
  /\ c' = Plus(c, 1)
  /\ UNCHANGED <<head, tail, closed, gateVars, freed, prodVars>>

ReadSlot ==
  /\ ConsumerAt("read", "free")
  /\ MoveOut
  /\ outcome' = "item"
  /\ UNCHANGED <<recv, cachedHead, stop>>

\* tail.store(Release).
FreeSlot ==
  /\ ConsumerAt("free", "wake")
  /\ tail' = c
  /\ UNCHANGED <<head, slots, closed, gateVars, freed, prodVars, recv, cachedHead, c, stop, got, outcome>>

\* Mutant: the wake after the tail store is left out.
WakeProducer_Dropped ==
  /\ ConsumerAt("wake", "idle")
  /\ UNCHANGED <<ringVars, gateVars, freed, prodVars, recv, cachedHead, c, stop, got, outcome>>

WakeProducer ==
  /\ ConsumerAt("wake", "idle")
  /\ Wake("not_full")
  /\ UNCHANGED <<ringVars, parked, freed, prodVars, recv, cachedHead, c, stop, got, outcome>>

\* not_empty.wait_until(|| !is_empty() || is_closed()).
ConsumerArm ==
  /\ ConsumerAt("arm", "look")
  /\ Arm("not_empty", TRUE)
  /\ UNCHANGED <<ringVars, token, freed, prodVars, recv, cachedHead, c, stop, got, outcome>>

ConsumerLook ==
  /\ ConsumerAt("look", IF head # tail THEN "disarm" ELSE "lookClosed")
  /\ UNCHANGED <<ringVars, gateVars, freed, prodVars, recv, cachedHead, c, stop, got, outcome>>

ConsumerLookClosed ==
  /\ ConsumerAt("lookClosed", IF closed THEN "disarm" ELSE "sleep")
  /\ UNCHANGED <<ringVars, gateVars, freed, prodVars, recv, cachedHead, c, stop, got, outcome>>

ConsumerWoken ==
  /\ token["not_empty"]
  /\ ConsumerAt("sleep", "look")
  /\ token' = [token EXCEPT !["not_empty"] = FALSE]
  /\ UNCHANGED <<ringVars, parked, freed, prodVars, recv, cachedHead, c, stop, got, outcome>>

ConsumerDisarm ==
  /\ ConsumerAt("disarm", "cached")
  /\ Arm("not_empty", FALSE)
  /\ UNCHANGED <<ringVars, token, freed, prodVars, recv, cachedHead, c, stop, got, outcome>>

\* recv_async: the future is dropped while it waits.
ConsumerCancel ==
  /\ ConsumerAt("sleep", "idle")
  /\ Arm("not_empty", FALSE)
  /\ UNCHANGED <<ringVars, token, freed, prodVars, recv, cachedHead, c, stop, got, outcome>>

\* drain: one load of head bounds the batch.
DrainLoad ==
  /\ ConsumerAt("load", IF head = tail THEN "idle" ELSE "take")
  /\ stop' = head
  /\ UNCHANGED <<ringVars, gateVars, freed, prodVars, recv, cachedHead, c, got, outcome>>

\* The item is moved out and the guard's cursor advanced before the callback.
DrainTake ==
  /\ ConsumerAt("take", "call")
  /\ MoveOut
  /\ UNCHANGED <<recv, cachedHead, stop, outcome>>

\* The callback returns ...
DrainCall ==
  /\ ConsumerAt("call", IF c = stop THEN "commit" ELSE "take")
  /\ UNCHANGED <<ringVars, gateVars, freed, prodVars, recv, cachedHead, c, stop, got, outcome>>

\* Mutant: no guard, so a panic leaves the tail where the batch began (R2).
DrainPanic_NoGuard ==
  /\ ConsumerAt("call", IF Catches THEN "idle" ELSE "drop")
  /\ outcome' = "panic"
  /\ UNCHANGED <<ringVars, gateVars, freed, prodVars, recv, cachedHead, c, stop, got>>

\* ... or panics: the guard publishes the tail, and nothing after the loop
\* runs.  Unwinding reaches the consumer's own Drop unless somebody catches.
DrainPanic ==
  /\ ConsumerAt("call", IF Catches THEN "idle" ELSE "drop")
  /\ tail' = c
  /\ outcome' = "panic"
  /\ UNCHANGED <<head, slots, closed, gateVars, freed, prodVars, recv, cachedHead, c, stop, got>>

DrainCommit ==
  /\ ConsumerAt("commit", "drainWake")
  /\ tail' = c
  /\ UNCHANGED <<head, slots, closed, gateVars, freed, prodVars, recv, cachedHead, c, stop, got, outcome>>

DrainWake ==
  /\ ConsumerAt("drainWake", "idle")
  /\ Wake("not_full")
  /\ cachedHead' = stop
  /\ UNCHANGED <<ringVars, parked, freed, prodVars, recv, c, stop, got, outcome>>

ConsumerDrop ==
  /\ cp \in {"idle", "drop"} /\ cp' = "closeFull"
  /\ closed' = TRUE
  /\ UNCHANGED <<head, tail, slots, gateVars, freed, prodVars, recv, cachedHead, c, stop, got, outcome>>

ConsumerCloseWakes ==
  /\ \/ ConsumerAt("closeFull", "closeEmpty") /\ Wake("not_full")
     \/ ConsumerAt("closeEmpty", "gone") /\ Wake("not_empty")
  /\ UNCHANGED <<ringVars, parked, freed, prodVars, recv, cachedHead, c, stop, got, outcome>>

ConsumerStep ==
  \/ CachedHead \/ RefreshHead \/ EmptyOrClosed \/ RereadHead
  \/ ReadSlot \/ FreeSlot \/ WakeProducer
  \/ ConsumerArm \/ ConsumerLook \/ ConsumerLookClosed \/ ConsumerWoken \/ ConsumerDisarm
  \/ DrainLoad \/ DrainTake \/ DrainCall \/ DrainCommit \/ DrainWake
  \/ ConsumerCloseWakes

-----------------------------------------------------------------------------
\* Slots in [from, to), wrapping.
Occupied(from, to) == {Mask(Plus(from, k)) : k \in 0 .. Span(from, to) - 1}

\* Drop for Ring: the last handle is gone; what lies in [tail, head) is dropped.
DropRing ==
  /\ pp = "gone" /\ cp = "gone" /\ ~freed
  /\ freed' = TRUE
  /\ slots' = [i \in Slot |-> IF i \in Occupied(tail, head) THEN 0 ELSE slots[i]]
  /\ UNCHANGED <<head, tail, closed, gateVars, prodVars, consVars>>

Next ==
  \/ \E op \in {"try_send", "send", "try_send_bulk"}, n \in 1..CAP : StartSend(op, n)
  \/ ProducerStep \/ ProducerCancel \/ ProducerDrop
  \/ \E op \in {"try_recv", "recv", "drain"} : StartRecv(op)
  \/ ConsumerStep \/ ConsumerCancel \/ DrainPanic \/ ConsumerDrop
  \/ DropRing

\* A call that has begun runs on; an unwinding consumer is dropped.  Calls,
\* panics, cancellations and drops are the callers' choice.
Fairness ==
  /\ WF_vars(ProducerStep)
  /\ WF_vars(ConsumerStep)
  /\ WF_vars(cp = "drop" /\ ConsumerDrop)

Spec     == Init /\ [][Next]_vars
LiveSpec == Spec /\ Fairness

-----------------------------------------------------------------------------
(* Properties.                                                             *)

\* The producer only writes slots that hold no live value, and the consumer
\* moves out what was written next after what it moved out last: never an
\* uninitialised slot, never one twice, never one passed over (SAFETY comments of
\* try_send and try_recv).  Which item of the caller that is, is RingIsFifo's.
SlotOwnership ==
  /\ pp = "write" => slots[Mask(h)] = 0
  /\ cp \in {"read", "take"} => slots[Mask(c)] = got + 1

\* The SAFETY comment of try_recv alone: "cached_head > tail guarantees it is
\* initialized".
ReadsInitialised == cp \in {"read", "take"} => slots[Mask(c)] # 0

\* "slot[i & MASK] is initialized iff tail <= i < head (wrapping-aware)", with
\* the part of a burst already written and the part of a batch already moved
\* out counted by their private cursors; between calls tail says the same, so
\* the ring's Drop destroys what is left, once, and leaves nothing.
SlotsMatchCursors ==
  /\ \A i \in Slot : slots[i] # 0 <=> ~freed /\ i \in Occupied(c, h)
  /\ cp \notin {"free", "take", "call", "commit"} => c = tail
  /\ pp \notin {"write", "publish"} => h = head

\* A producer asleep in send while there is room, or after the consumer is
\* gone, has its token or is owed the wake by a consumer still in its call.
SenderOwedWake ==
  pp = "sleep" /\ (Span(tail, head) < CAP \/ closed) =>
    token["not_full"] \/ cp \in {"wake", "drainWake", "drop", "closeFull"}

\* The same for a consumer asleep in recv with an item published or the
\* producer gone.
ReceiverOwedWake ==
  cp = "sleep" /\ (head # tail \/ closed) =>
    token["not_empty"] \/ pp \in {"wake", "closeFull", "closeEmpty"}

Sending   == pp \in {"arm", "look", "lookClosed", "sleep", "disarm"}
Receiving == cp \in {"arm", "look", "lookClosed", "sleep", "disarm"}

\* A blocked send leaves its wait once there is room or the consumer is gone, a
\* blocked recv once there is an item or the producer is gone.
Unblocks ==
  /\ Sending /\ (Span(tail, head) < CAP \/ closed) ~> ~Sending
  /\ Receiving /\ (head # tail \/ closed) ~> ~Receiving
=============================================================================
