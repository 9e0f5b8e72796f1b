---------------------------- MODULE SignalProofs ----------------------------
(* What holds of SignalSet for any producers, gates, chunk size and masks. *)
EXTENDS SignalSet, TLAPS

\* Somebody's wake is on its way to the consumer, or has arrived.
Owed == token \/ \E p \in Producers : pp[p] = "wake"

\* Where the consumer is in its pass over the chunks.
PlaceInv ==
  /\ parked <=> cp \in {"look", "sleep", "disarm"}
  /\ cp \in {"idle", "arm", "sleep", "disarm"} => c = 0
  /\ cp \in {"look", "state", "lock", "drain"} => c <= Last

\* What has opened behind the look, or since it fell asleep, is announced.
OwedInv ==
  /\ cp = "look" => \A d \in 0 .. c - 1 : Sees(d) => Owed
  /\ cp = "sleep" => \A d \in 0..Last : Sees(d) => Owed

IInv == TypeOK /\ PlaceInv /\ OwedInv /\ EventNotLost

\* There is a chunk, and the last one a call looks at is one of them.
LEMMA ChunksFact == NChunks \in Nat \ {0} /\ Last \in 0 .. NChunks - 1
<1>1. (N - 1) \div BITS \in Nat
  BY SignalSetAssumption
<1>2. QED
  BY <1>1 DEF NChunks, Last

\* Before anything is published there is nothing to lose.
LEMMA InitInv == Init => IInv
<1> SUFFICES ASSUME Init PROVE IInv
  OBVIOUS
<1>1. TypeOK
  <2>1. 0 \in Gates /\ 0 \in 0 .. NChunks - 1
    BY ChunksFact, SignalSetAssumption DEF Gates
  <2>2. QED
    BY <2>1 DEF Init, TypeOK, Calls
<1>2. PlaceInv
  BY DEF Init, PlaceInv
<1>3. OwedInv /\ EventNotLost
  BY DEF Init, OwedInv, EventNotLost
<1>4. QED
  BY <1>1, <1>2, <1>3 DEF IInv

\* Types and places, step by step.
LEMMA StepType == IInv /\ [Next]_vars => TypeOK' /\ PlaceInv'
<1> SUFFICES ASSUME IInv, [Next]_vars PROVE TypeOK' /\ PlaceInv'
  OBVIOUS
<1>0. TypeOK /\ PlaceInv
  BY DEF IInv
<1> USE ChunksFact, SignalSetAssumption
<1>1. ASSUME NEW p \in Producers, NEW g \in Gates, Publish(p, g) PROVE TypeOK' /\ PlaceInv'
  BY <1>0, <1>1 DEF Publish, cons, TypeOK, PlaceInv, Last
<1>2. ASSUME NEW p \in Producers, Release(p) PROVE TypeOK' /\ PlaceInv'
  BY <1>0, <1>2 DEF Release, cons, TypeOK, PlaceInv, Last
<1>3. ASSUME NEW p \in Producers, Wake(p) PROVE TypeOK' /\ PlaceInv'
  BY <1>0, <1>3 DEF Wake, cons, TypeOK, PlaceInv, Last
<1>4. ASSUME NEW op \in Calls, NEW m \in MASKS, Acquire(op, m) PROVE TypeOK' /\ PlaceInv'
  BY <1>0, <1>4 DEF Acquire, prod, TypeOK, PlaceInv, Last, Chunk
<1>5. CASE Arm
  BY <1>0, <1>5 DEF Arm, Goto, prod, TypeOK, PlaceInv, Last
<1>6. CASE Look
  BY <1>0, <1>6 DEF Look, Goto, prod, TypeOK, PlaceInv, Last
<1>7. CASE Woken
  <2>1. TypeOK'
    BY <1>0, <1>7 DEF Woken, Goto, prod, TypeOK, PlaceInv
  <2>2. cp' = "look" /\ c' = 0 /\ Last' = Last /\ parked' = parked
    BY <1>0, <1>7 DEF Woken, Goto, PlaceInv, Last
  <2>3. QED
    BY <1>0, <1>7, <2>1, <2>2 DEF Woken, Goto, PlaceInv
<1>8. CASE Disarm
  <2>1. TypeOK'
    BY <1>0, <1>8 DEF Disarm, Goto, prod, TypeOK, PlaceInv
  <2>2. cp' = "state" /\ c' = 0 /\ Last' = Last /\ parked' = FALSE
    BY <1>0, <1>8 DEF Disarm, Goto, PlaceInv, Last
  <2>3. QED
    BY <1>0, <1>8, <2>1, <2>2 DEF Disarm, Goto, PlaceInv
<1>9. CASE Cancel
  BY <1>0, <1>9 DEF Cancel, Goto, prod, TypeOK, PlaceInv, Last
<1>10. CASE State
  BY <1>0, <1>10 DEF State, Goto, prod, TypeOK, PlaceInv, Last
<1>11. CASE LockMask
  BY <1>0, <1>11 DEF LockMask, Goto, prod, TypeOK, PlaceInv, Last
<1>12. ASSUME NEW g \in Gates, Lock(g) PROVE TypeOK' /\ PlaceInv'
  BY <1>0, <1>12 DEF Lock, Goto, prod, TypeOK, PlaceInv, Last
<1>13. ASSUME NEW g \in s, Drain(g) PROVE TypeOK' /\ PlaceInv'
  BY <1>0, <1>13 DEF Drain, Goto, prod, TypeOK, PlaceInv, Last
<1>14. CASE Drained
  BY <1>0, <1>14 DEF Drained, Goto, prod, TypeOK, PlaceInv, Last
<1>15. CASE UNCHANGED vars
  BY <1>0, <1>15 DEF vars, prod, cons, TypeOK, PlaceInv, Last
<1>16. QED
  BY <1>1, <1>2, <1>3, <1>4, <1>5, <1>6, <1>7, <1>8, <1>9, <1>10, <1>11, <1>12, <1>13,
     <1>14, <1>15 DEF Next, ConsumerStep

\* A step that leaves the bitmap and the consumer alone and takes back no wake
\* leaves what is owed as it was.
LEMMA OwedKept ==
  ASSUME OwedInv, UNCHANGED <<open, cons>>, Owed => Owed'
  PROVE  OwedInv'
BY DEF OwedInv, Last, Sees, cons

\* The wake of the release that opened a gate is owed until it is made, and the
\* consumer's own steps only look.
LEMMA StepOwed == IInv /\ [Next]_vars => OwedInv'
<1> SUFFICES ASSUME IInv, [Next]_vars PROVE OwedInv'
  OBVIOUS
<1>0. TypeOK /\ PlaceInv /\ OwedInv
  BY DEF IInv
<1> USE ChunksFact
<1>1. ASSUME NEW p \in Producers, NEW g \in Gates, Publish(p, g) PROVE OwedInv'
  <2>1. Owed => Owed'
    BY <1>0, <1>1 DEF Publish, Owed, TypeOK
  <2>2. QED
    BY <1>0, <1>1, <2>1, OwedKept DEF Publish
<1>2. ASSUME NEW p \in Producers, Release(p) PROVE OwedInv'
  <2>1. Owed => Owed'
    BY <1>0, <1>2 DEF Release, Owed, TypeOK
  <2>2. CASE id[p] \in open
    <3>1. open' = open
      BY <1>2, <2>2 DEF Release
    <3>2. QED
      BY <1>0, <1>2, <2>1, <3>1, OwedKept DEF Release
  <2>3. CASE id[p] \notin open
    <3>1. pp'[p] = "wake"
      BY <1>0, <1>2, <2>3 DEF Release, TypeOK
    <3>2. Owed'
      BY <3>1 DEF Owed
    <3>3. QED
      BY <3>2 DEF OwedInv
  <2>4. QED
    BY <2>2, <2>3
<1>3. ASSUME NEW p \in Producers, Wake(p) PROVE OwedInv'
  <2>1. cp \in {"look", "sleep"} => Owed'
    BY <1>0, <1>3 DEF Wake, PlaceInv, Owed
  <2>2. cp' = cp
    BY <1>3 DEF Wake, cons
  <2>3. QED
    BY <2>1, <2>2 DEF OwedInv
<1>4. ASSUME NEW op \in Calls, NEW m \in MASKS, Acquire(op, m) PROVE OwedInv'
  BY <1>4 DEF Acquire, OwedInv
<1>5. CASE Arm
  BY <1>0, <1>5 DEF Arm, Goto, OwedInv, PlaceInv
<1>6. CASE Look
  <2>1. /\ UNCHANGED <<call, mask, open>> /\ (Owed => Owed')
        /\ cp = "look" /\ c \in Nat /\ c <= Last /\ Last \in Nat
    BY <1>0, <1>6 DEF Look, Goto, Owed, prod, PlaceInv, TypeOK
  <2>2. Last' = Last /\ \A d : Sees(d)' <=> Sees(d)
    BY <2>1 DEF Last, Sees
  <2>3. CASE Sees(c)
    BY <1>6, <2>3 DEF Look, Goto, OwedInv
  <2>4. CASE ~Sees(c) /\ c < Last
    <3>1. cp' = "look" /\ c' = c + 1
      BY <1>6, <2>4 DEF Look, Goto
    <3>2. \A d \in 0 .. c' - 1 : Sees(d) => Owed
      BY <1>0, <2>1, <2>4, <3>1 DEF OwedInv
    <3>3. QED
      BY <2>1, <2>2, <3>1, <3>2 DEF OwedInv
  <2>5. CASE ~Sees(c) /\ c = Last
    <3>1. cp' = "sleep"
      BY <1>6, <2>1, <2>5 DEF Look, Goto
    <3>2. \A d \in 0..Last : Sees(d) => Owed
      BY <1>0, <2>1, <2>5 DEF OwedInv
    <3>3. QED
      BY <2>1, <2>2, <3>1, <3>2 DEF OwedInv
  <2>6. QED
    BY <2>1, <2>3, <2>4, <2>5
<1>7. CASE Woken
  <2>1. cp' = "look" /\ c' = 0
    BY <1>0, <1>7 DEF Woken, Goto, PlaceInv
  <2>2. QED
    BY <2>1 DEF OwedInv
<1>8. cp' \notin {"look", "sleep"} => OwedInv'
  BY DEF OwedInv
<1>9. CASE Disarm \/ Cancel \/ State \/ LockMask \/ Drained
  BY <1>8, <1>9 DEF Disarm, Cancel, State, LockMask, Drained, Goto
<1>10. ASSUME NEW g \in Gates, Lock(g) PROVE OwedInv'
  BY <1>8, <1>10 DEF Lock, Goto
<1>11. ASSUME NEW g \in s, Drain(g) PROVE OwedInv'
  BY <1>8, <1>11 DEF Drain, Goto
<1>12. CASE UNCHANGED vars
  <2>1. Owed => Owed'
    BY <1>12 DEF vars, prod, Owed
  <2>2. QED
    BY <1>0, <1>12, <2>1, OwedKept DEF vars
<1>13. QED
  BY <1>1, <1>2, <1>3, <1>4, <1>5, <1>6, <1>7, <1>9, <1>10, <1>11, <1>12
     DEF Next, ConsumerStep

\* An event leaves its queue only by being drained, and a gate is closed only
\* on the way to the drain.
LEMMA StepEvent == IInv /\ [Next]_vars => EventNotLost'
<1> SUFFICES ASSUME IInv, [Next]_vars PROVE EventNotLost'
  OBVIOUS
<1>0. TypeOK /\ EventNotLost
  BY DEF IInv
<1>1. ASSUME NEW p \in Producers, NEW g \in Gates, Publish(p, g) PROVE EventNotLost'
  <2>1. pp'[p] = "release" /\ id'[p] = g
    BY <1>0, <1>1 DEF Publish, TypeOK
  <2>2. \A q \in Producers : pp[q] = "release" => pp'[q] = "release" /\ id'[q] = id[q]
    BY <1>0, <1>1 DEF Publish, TypeOK
  <2>3. QED
    BY <1>0, <1>1, <2>1, <2>2 DEF Publish, EventNotLost, cons
<1>2. ASSUME NEW p \in Producers, Release(p) PROVE EventNotLost'
  <2>1. \A q \in Producers : q # p => pp'[q] = pp[q] /\ id'[q] = id[q]
    BY <1>0, <1>2 DEF Release, TypeOK
  <2>2. id[p] \in open' /\ open \subseteq open'
    BY <1>2 DEF Release
  <2>3. QED
    BY <1>0, <1>2, <2>1, <2>2 DEF Release, EventNotLost, cons
<1>3. ASSUME NEW p \in Producers, Wake(p) PROVE EventNotLost'
  <2>1. \A q \in Producers : pp[q] = "release" => pp'[q] = "release" /\ id'[q] = id[q]
    BY <1>0, <1>3 DEF Wake, TypeOK
  <2>2. QED
    BY <1>0, <1>3, <2>1 DEF Wake, EventNotLost, cons
<1>4. ASSUME NEW op \in Calls, NEW m \in MASKS, Acquire(op, m) PROVE EventNotLost'
  BY <1>0, <1>4 DEF Acquire, EventNotLost, prod
<1>5. CASE Arm \/ Look \/ Woken \/ Disarm \/ Cancel
  BY <1>0, <1>5 DEF Arm, Look, Woken, Disarm, Cancel, Goto, EventNotLost, prod
<1>6. CASE State
  BY <1>0, <1>6 DEF State, Goto, EventNotLost, prod
<1>7. CASE LockMask
  BY <1>0, <1>7 DEF LockMask, Goto, EventNotLost, prod
<1>8. ASSUME NEW g \in Gates, Lock(g) PROVE EventNotLost'
  BY <1>0, <1>8 DEF Lock, Goto, EventNotLost, prod
<1>9. ASSUME NEW g \in s, Drain(g) PROVE EventNotLost'
  BY <1>0, <1>9 DEF Drain, Goto, EventNotLost, prod
<1>10. CASE Drained
  BY <1>0, <1>10 DEF Drained, Goto, EventNotLost, prod
<1>11. CASE UNCHANGED vars
  BY <1>0, <1>11 DEF vars, prod, cons, EventNotLost
<1>12. QED
  BY <1>1, <1>2, <1>3, <1>4, <1>5, <1>6, <1>7, <1>8, <1>9, <1>10, <1>11 DEF Next, ConsumerStep

-----------------------------------------------------------------------------
\* The inductive invariant holds in every reachable state of the gates.
THEOREM SignalInductive == Spec => []IInv
<1>1. IInv /\ [Next]_vars => IInv'
  BY StepType, StepOwed, StepEvent DEF IInv
<1>2. QED
  BY InitInv, <1>1, PTL DEF Spec

\* Type correctness of the gates.
THEOREM SignalTypeOK == Spec => []TypeOK
<1>1. IInv => TypeOK
  BY DEF IInv
<1>2. QED
  BY <1>1, SignalInductive, PTL

\* A consumer asleep in an acquire whose predicate has come true has its token
\* or is owed it, for any number of producers and chunks, although only the
\* release that opens a gate wakes (the edge of release).
THEOREM SignalOwedWake == Spec => []AcquirerOwedWake
<1>1. IInv => AcquirerOwedWake
  BY DEF IInv, OwedInv, Owed, AcquirerOwedWake
<1>2. QED
  BY <1>1, SignalInductive, PTL

\* No event is forgotten behind a gate that was locked before its queue was
\* drained (lock, lock_mask, lock_chunk_mask).
THEOREM SignalEventNotLost == Spec => []EventNotLost
<1>1. IInv => EventNotLost
  BY DEF IInv
<1>2. QED
  BY <1>1, SignalInductive, PTL
=============================================================================
