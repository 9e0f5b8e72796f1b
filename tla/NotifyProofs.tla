---------------------------- MODULE NotifyProofs ----------------------------
(***************************************************************************)
(* Proofs about the async waiter, for every set of wakers and every bound  *)
(* on the data: the inductive invariant, the safety properties it implies, *)
(* and that the waiter implements the wake contract.                       *)
(***************************************************************************)
EXTENDS NotifyRefinement, TLAPS

\* A data store is buffered only until the first locked instruction of the wake
\* that follows it, so there is at most one.
BufferedInWake ==
  \A w \in Wakers : buf[w] <= 1 /\ (buf[w] > 0 => wkpc[w] # "idle")

\* What each point of the task says of its Notified future and of the data.
TaskPointInv ==
  /\ wpc = "suspended" => notified \in {"enqueued", "notified"}
  /\ notified = "enqueued" => wpc = "suspended"
  /\ wpc = "leave" => Ready

IInv ==
  /\ TypeOK
  /\ ArmedWhileGuarded
  /\ BufferedInWake
  /\ TaskPointInv
  /\ HonestResult
  /\ NoLostWake

-----------------------------------------------------------------------------
\* The invariant holds before any call.
LEMMA InitInv == Init => IInv
<1> SUFFICES ASSUME Init PROVE IInv
  OBVIOUS
<1>1. TypeOK
  <2>1. armed \in 0..1 /\ posted \in Nat /\ taken \in Nat /\ buf \in [Wakers -> Nat]
    BY DEF Init
  <2>2. QED
    BY <2>1 DEF Init, TypeOK
<1>2. QED
  BY <1>1 DEF Init, IInv, ArmedWhileGuarded, BufferedInWake, TaskPointInv,
    HonestResult, NoLostWake, Asleep, Guarded

\* Every step of a waker or of the task keeps it.
LEMMA StepInv == IInv /\ [Next]_vars => IInv'
<1> SUFFICES ASSUME IInv, [Next]_vars PROVE IInv'
  OBVIOUS
<1> USE NotifyAssumption DEF IInv, TypeOK, ArmedWhileGuarded, BufferedInWake,
    TaskPointInv, HonestResult, NoLostWake, Asleep, Ready, Waiting, Guarded,
    dataVars, gateVars
<1>1. ASSUME NEW w \in Wakers, Store(w) PROVE IInv'
  BY <1>1 DEF Store, WakerAt
<1>2. ASSUME NEW w \in Wakers, Flush(w) PROVE IInv'
  <2>1. wkpc'[w] # "idle" /\ buf'[w] = 0  \* the wake of that store is not over
    BY <1>2 DEF Flush
  <2>2. NoLostWake'
    BY <2>1
  <2>3. QED
    BY <1>2, <2>2 DEF Flush
<1>3. ASSUME NEW w \in Wakers, ProbeLoad(w) PROVE IInv'
  BY <1>3 DEF ProbeLoad, WakerAt
<1>4. ASSUME NEW w \in Wakers, ProbeRmw(w) PROVE IInv'
  <2>1. Asleep => wkpc'[w] = "notify"  \* the gate is armed, and the RMW sees it
    BY <1>4 DEF ProbeRmw, WakerAt
  <2>2. NoLostWake'
    BY <1>4, <2>1 DEF ProbeRmw, WakerAt
  <2>3. QED
    BY <1>4, <2>2 DEF ProbeRmw, WakerAt
<1>5. ASSUME NEW w \in Wakers, NotifyOne(w) PROVE IInv'
  <2>1. ~Asleep'  \* it dequeues the future or leaves the permit the poll takes
    BY <1>5 DEF NotifyOne, WakerAt
  <2>2. NoLostWake'
    BY <2>1
  <2>3. TypeOK'
    <3>1. permit' \in BOOLEAN
      BY <1>5 DEF NotifyOne
    <3>2. QED
      BY <1>5, <3>1 DEF NotifyOne, WakerAt
  <2>4. QED
    BY <1>5, <2>2, <2>3 DEF NotifyOne, WakerAt
<1>6. CASE Consume
  BY <1>6 DEF Consume
<1>7. CASE Call
  BY <1>7 DEF Call, TaskAt
<1>8. CASE Entry
  BY <1>8 DEF Entry, Return
<1>9. CASE Notified
  BY <1>9 DEF Notified, TaskAt
<1>10. CASE Recheck
  BY <1>10 DEF Recheck, TaskAt
<1>11. CASE Poll
  BY <1>11 DEF Poll
<1>12. CASE Resume
  BY <1>12 DEF Resume, TaskAt
<1>13. CASE Disarm
  BY <1>13 DEF Disarm, TaskAt, Return
<1>14. CASE Final
  BY <1>14 DEF Final, Return
<1>15. CASE Cancel
  BY <1>15 DEF Cancel, TaskAt
<1>16. CASE UNCHANGED vars
  BY <1>16 DEF vars
<1>17. QED
  BY <1>1, <1>2, <1>3, <1>4, <1>5, <1>6, <1>7, <1>8, <1>9, <1>10, <1>11, <1>12, <1>13,
    <1>14, <1>15, <1>16 DEF Next, WakerStep, TaskStep

\* The invariant holds in every reachable state.
LEMMA NotifyInductive == Spec => []IInv
  BY InitInv, StepInv, PTL DEF Spec

\* The lost-wake proof of the module comment of waiter/notify.rs, for any
\* number of wakers: no suspended task is forgotten, cancellations included.
THEOREM NotifyNoLostWake == Spec => []NoLostWake
<1>1. IInv => NoLostWake
  BY DEF IInv
<1>2. QED
  BY <1>1, NotifyInductive, PTL

\* Types of the gate; the counter never leaves 0..1.
THEOREM NotifyTypeOK == Spec => []TypeOK
<1>1. IInv => TypeOK
  BY DEF IInv
<1>2. QED
  BY <1>1, NotifyInductive, PTL

\* The armed counter is exact on every path out of a wait, cancellation included.
THEOREM NotifyArmedWhileGuarded == Spec => []ArmedWhileGuarded
<1>1. IInv => ArmedWhileGuarded
  BY DEF IInv
<1>2. QED
  BY <1>1, NotifyInductive, PTL

\* wait_until returns only with its predicate true, whatever permits it has met.
THEOREM NotifyHonestResult == Spec => []HonestResult
<1>1. IInv => HonestResult
  BY DEF IInv
<1>2. QED
  BY <1>1, NotifyInductive, PTL

-----------------------------------------------------------------------------
(* Refinement.                                                             *)

\* Initially nothing is owed and nobody sleeps.
LEMMA ContractInit == Init => Contract!Init
  BY DEF Init, Contract!Init, owingBar, Asleep

\* A step of the gate is a step of the contract, or invisible to it.
LEMMA ContractStep ==
  ASSUME IInv, [Next]_vars
  PROVE  [Contract!Next]_(Contract!vars)
<1> USE DEF IInv, TypeOK, ArmedWhileGuarded, BufferedInWake, TaskPointInv,
    NoLostWake, Asleep, Ready, Waiting, Guarded, owingBar, Contract!vars,
    dataVars, gateVars
<1>1. ASSUME NEW w \in Wakers, Store(w) PROVE UNCHANGED Contract!vars
  BY <1>1 DEF Store, WakerAt
<1>2. ASSUME NEW w \in Wakers, Flush(w) PROVE Contract!Post(w)
  BY <1>2 DEF Flush, Contract!Post
<1>3. ASSUME NEW w \in Wakers, ProbeLoad(w) PROVE UNCHANGED Contract!vars
  BY <1>3 DEF ProbeLoad, WakerAt
<1>4. ASSUME NEW w \in Wakers, ProbeRmw(w) PROVE Contract!Settle(w) \/ UNCHANGED Contract!vars
  BY <1>4 DEF ProbeRmw, WakerAt, Contract!Settle, Contract!Ready
<1>5. ASSUME NEW w \in Wakers, NotifyOne(w) PROVE Contract!Settle(w)
  <2>1. ~Asleep'
    BY <1>5 DEF NotifyOne, WakerAt
  <2>2. owingBar' = owingBar \ {w} /\ w \in owingBar
    BY <1>5 DEF NotifyOne, WakerAt
  <2>3. QED
    BY <1>5, <2>1, <2>2 DEF NotifyOne, Contract!Settle
<1>6. ASSUME Consume PROVE Contract!Take
  BY <1>6 DEF Consume, Contract!Take, Contract!Ready
<1>7. ASSUME Call PROVE UNCHANGED Contract!vars
  BY <1>7 DEF Call, TaskAt
<1>8. ASSUME Entry PROVE UNCHANGED Contract!vars
  BY <1>8 DEF Entry, Return
<1>9. ASSUME Notified PROVE UNCHANGED Contract!vars
  BY <1>9 DEF Notified, TaskAt
<1>10. ASSUME Recheck PROVE Contract!Doze \/ UNCHANGED Contract!vars
  BY <1>10 DEF Recheck, TaskAt, Contract!Doze, Contract!Ready
<1>11. ASSUME Poll PROVE UNCHANGED Contract!vars
  BY <1>11 DEF Poll
<1>12. ASSUME Resume PROVE UNCHANGED Contract!vars
  BY <1>12 DEF Resume, TaskAt
<1>13. ASSUME Disarm PROVE UNCHANGED Contract!vars
  BY <1>13 DEF Disarm, TaskAt, Return
<1>14. ASSUME Final PROVE UNCHANGED Contract!vars
  BY <1>14 DEF Final, Return
<1>15. ASSUME Cancel PROVE Contract!Rouse \/ UNCHANGED Contract!vars
  BY <1>15 DEF Cancel, TaskAt, Contract!Rouse
<1>16. CASE UNCHANGED vars
  BY <1>16 DEF vars
<1>17. QED
  BY <1>1, <1>2, <1>3, <1>4, <1>5, <1>6, <1>7, <1>8, <1>9, <1>10, <1>11, <1>12, <1>13,
    <1>14, <1>15, <1>16 DEF Next, WakerStep, TaskStep, Contract!Next

\* The async waiter implements the wake contract.
THEOREM NotifyImplementsContract == Spec => NotifyKeepsContract
<1>1. QED
  BY ContractInit, ContractStep, NotifyInductive, PTL
    DEF Spec, NotifyKeepsContract, Contract!Spec
=============================================================================
