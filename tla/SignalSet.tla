----------------------------- MODULE SignalSet -----------------------------
(***************************************************************************)
(* The gates of gate/signal_set.rs: a bitmap in chunks of 64 bits, a       *)
(* waiter for its one consumer (WakeContract), producers that open gates.  *)
(*                                                                         *)
(* Its document sends callers who must not lose an event to queues of      *)
(* their own: "use the bit to wake a consumer that drains a separate       *)
(* queue".  The order in which the consumer looks, locks and then drains   *)
(* is the discipline of this module, not of the document, whose usage      *)
(* handles an event before lock_mask and so can forget one that arrives    *)
(* in between.  Each access to a chunk, a queue or the waiter is a step.   *)
(***************************************************************************)
EXTENDS Integers

CONSTANTS
  Producers,
  N,      \* gates created
  BITS,   \* bits in a chunk (64)
  MASKS   \* the masks the consumer waits for, in chunk 0

Gates   == 0 .. N - 1
NChunks == ((N - 1) \div BITS) + 1
Chunk(d) == {g \in Gates : g \div BITS = d}

ASSUME SignalSetAssumption ==
  /\ N \in Nat \ {0} /\ BITS \in Nat \ {0}
  /\ MASKS \subseteq SUBSET Chunk(0)

VARIABLES
  open,            \* chunks: the gates whose bit is set
  work,            \* the gates whose queue holds an event
  parked, token,   \* the waiter
  pp, id,          \* where each producer is, and with which gate
  cp, call, mask,  \* where the consumer is, in which acquire
  c, s             \* the chunk it is at; what it saw there and has not drained

prod == <<pp, id>>
cons == <<cp, call, mask, c, s>>
vars == <<open, work, parked, token, prod, cons>>

Calls == {"acquire_any", "acquire_all", "acquire_any_chunk"}

TypeOK ==
  /\ open \subseteq Gates /\ work \subseteq Gates
  /\ parked \in BOOLEAN /\ token \in BOOLEAN
  /\ pp \in [Producers -> {"idle", "release", "wake"}]
  /\ id \in [Producers -> Gates]
  /\ cp \in {"idle", "arm", "look", "sleep", "disarm", "state", "lock", "drain"}
  /\ call \in Calls /\ mask \in SUBSET Gates
  /\ c \in 0 .. NChunks - 1 /\ s \subseteq Gates

Init ==
  /\ open = {} /\ work = {}
  /\ parked = FALSE /\ token = FALSE
  /\ pp = [p \in Producers |-> "idle"] /\ id = [p \in Producers |-> 0]
  /\ cp = "idle" /\ call = "acquire_any_chunk" /\ mask = {}
  /\ c = 0 /\ s = {}

-----------------------------------------------------------------------------
(* Producers.                                                              *)

\* The event goes to its queue first.
Publish(p, g) ==
  /\ pp[p] = "idle"
  /\ pp' = [pp EXCEPT ![p] = "release"]
  /\ id' = [id EXCEPT ![p] = g]
  /\ work' = work \cup {g}
  /\ UNCHANGED <<open, parked, token, cons>>

\* Mutant: only the first gate of a chunk to open wakes the consumer.
Release_OnEmpty(p) ==
  /\ pp[p] = "release"
  /\ pp' = [pp EXCEPT ![p] = IF Chunk(id[p] \div BITS) \cap open # {} THEN "idle" ELSE "wake"]
  /\ open' = open \cup {id[p]}
  /\ UNCHANGED <<work, parked, token, id, cons>>

\* release: fetch_or; only the call that opened the gate goes on to the wake.
Release(p) ==
  /\ pp[p] = "release"
  /\ pp' = [pp EXCEPT ![p] = IF id[p] \in open THEN "idle" ELSE "wake"]
  /\ open' = open \cup {id[p]}
  /\ UNCHANGED <<work, parked, token, id, cons>>

Wake(p) ==
  /\ pp[p] = "wake"
  /\ pp' = [pp EXCEPT ![p] = "idle"]
  /\ token' = (token \/ parked)
  /\ UNCHANGED <<open, work, parked, id, cons>>

-----------------------------------------------------------------------------
(* The consumer.                                                           *)

Goto(from, to) == cp = from /\ cp' = to /\ UNCHANGED <<call, mask>>

\* An acquire is called, blocking or asynchronous; acquire() is acquire_any of
\* all the bits of chunk 0.
Acquire(op, m) ==
  /\ cp = "idle"
  /\ cp' = "arm" /\ call' = op /\ mask' = m
  /\ UNCHANGED <<open, work, parked, token, prod, c, s>>

\* Mutant: the number of chunks for the index of the last one.
Last_OffByOne == IF call = "acquire_any_chunk" THEN NChunks ELSE 0

\* The last chunk a call looks at: only acquire_any_chunk knows of others.
Last == IF call = "acquire_any_chunk" THEN NChunks - 1 ELSE 0

\* What its predicate makes of chunk d.
Sees(d) ==
  CASE call = "acquire_any"       -> mask \cap open # {}
    [] call = "acquire_all"       -> mask \subseteq open
    [] call = "acquire_any_chunk" -> Chunk(d) \cap open # {}

\* wait_until announces the wait ...
Arm ==
  /\ Goto("arm", "look")
  /\ parked' = TRUE
  /\ UNCHANGED <<open, work, token, prod, c, s>>

\* Mutant: the announcement comes after the look.
Look_Unarmed ==
  /\ \/ Sees(c) /\ Goto("look", "disarm") /\ c' = 0 /\ UNCHANGED <<parked, token>>
     \/ ~Sees(c) /\ c < Last /\ Goto("look", "look") /\ c' = c + 1 /\ UNCHANGED <<parked, token>>
     \/ ~Sees(c) /\ c = Last /\ Goto("look", "sleep") /\ c' = 0 /\ parked' = TRUE /\ token' = FALSE
  /\ UNCHANGED <<open, work, prod, s>>

\* ... then looks, chunk after chunk, and sleeps if it saw nothing.
Look ==
  /\ \/ Sees(c) /\ Goto("look", "disarm") /\ c' = 0
     \/ ~Sees(c) /\ c < Last /\ Goto("look", "look") /\ c' = c + 1
     \/ ~Sees(c) /\ c = Last /\ Goto("look", "sleep") /\ c' = 0
  /\ UNCHANGED <<open, work, parked, token, prod, s>>

Woken ==
  /\ token
  /\ Goto("sleep", "look")
  /\ token' = FALSE
  /\ UNCHANGED <<open, work, parked, prod, c, s>>

\* The end of the wait; a token that comes too late is forgotten.
Disarm ==
  /\ Goto("disarm", "state")
  /\ parked' = FALSE /\ token' = FALSE
  /\ UNCHANGED <<open, work, prod, c, s>>

\* An acquire_async is dropped while suspended.
Cancel ==
  /\ Goto("sleep", "idle")
  /\ parked' = FALSE /\ token' = FALSE
  /\ UNCHANGED <<open, work, prod, c, s>>

\* state() or state_chunk(c).
State ==
  /\ Goto("state", "lock")
  /\ s' = Chunk(c) \cap open
  /\ UNCHANGED <<open, work, parked, token, prod, c>>

\* Mutant: the whole chunk is locked, not what was seen of it.
LockMask_All ==
  /\ Goto("lock", "drain")
  /\ open' = open \ Chunk(c)
  /\ UNCHANGED <<work, parked, token, prod, c, s>>

\* lock_mask(s) or lock_chunk_mask(c, s); what was released since the look, to
\* gates that were open then, is closed with them.
LockMask ==
  /\ Goto("lock", "drain")
  /\ open' = open \ s
  /\ UNCHANGED <<work, parked, token, prod, c, s>>

\* lock(g), on the consumer's own account.
Lock(g) ==
  /\ Goto("idle", "drain")
  /\ open' = open \ {g}
  /\ s' = {g} /\ c' = Last
  /\ UNCHANGED <<work, parked, token, prod>>

\* The queue behind one of the gates is drained.
Drain(g) ==
  /\ g \in s
  /\ Goto("drain", "drain")
  /\ work' = work \ {g} /\ s' = s \ {g}
  /\ UNCHANGED <<open, parked, token, prod, c>>

\* The next chunk, or the next call.
Drained ==
  /\ s = {}
  /\ \/ c < Last /\ Goto("drain", "state") /\ c' = c + 1
     \/ c = Last /\ Goto("drain", "idle") /\ c' = 0
  /\ UNCHANGED <<open, work, parked, token, prod, s>>

ConsumerStep ==
  \/ Arm \/ Look \/ Woken \/ Disarm \/ State \/ LockMask
  \/ (\E g \in s : Drain(g)) \/ Drained

-----------------------------------------------------------------------------
Next ==
  \/ \E p \in Producers : (\E g \in Gates : Publish(p, g)) \/ Release(p) \/ Wake(p)
  \/ \E op \in Calls, m \in MASKS : Acquire(op, m)
  \/ ConsumerStep \/ Cancel
  \/ \E g \in Gates : Lock(g)

\* A release and an acquire that have begun run on, and an acquire is followed
\* by the look, the lock and the drain; calls and cancellations are the
\* callers' choice.
Fairness ==
  /\ \A p \in Producers : WF_vars(Release(p) \/ Wake(p))
  /\ WF_vars(ConsumerStep)

Spec     == Init /\ [][Next]_vars
LiveSpec == Spec /\ Fairness

-----------------------------------------------------------------------------
(* Properties.                                                             *)

\* The consumer asleep while what it waits for is open (one gate of its mask,
\* all of them, one of any chunk) has its token or is owed it by the producer
\* that opened a gate, though another, who released last, was not the one to
\* open it, and though the chunks are looked at one after the other.
AcquirerOwedWake ==
  cp = "sleep" /\ (\E d \in 0..Last : Sees(d)) =>
    token \/ \E p \in Producers : pp[p] = "wake"

\* No event is forgotten in its queue: its gate is open, or is about to be
\* opened, or the consumer is about to drain the queue.  It is so because the
\* consumer locks what it saw before it drains: a gate released between the
\* look and the lock is closed with its event, and coalesces with the one seen
\* (AUDIT.md, G-F4).
EventNotLost ==
  \A g \in work :
    \/ g \in open
    \/ \E p \in Producers : pp[p] = "release" /\ id[p] = g
    \/ cp = "drain" /\ g \in s

\* The queues hold what the consumer waits for.
Due ==
  CASE call = "acquire_any"       -> mask \cap work # {}
    [] call = "acquire_all"       -> mask \subseteq work
    [] call = "acquire_any_chunk" -> work # {}

\* The consumer does not sleep for ever on events that lie in its queues.
EventsRouse == []<>~(cp = "sleep" /\ Due)
=============================================================================
