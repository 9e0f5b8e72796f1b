----------------------------- MODULE ParkProofs -----------------------------
(***************************************************************************)
(* Proofs about the park waiter, for every set of threads and wakers and   *)
(* every bound on the data: the inductive invariant, the safety properties *)
(* that follow from it, and that the waiter implements the wake contract.  *)
(***************************************************************************)
EXTENDS ParkRefinement, TLAPS

\* Program points reached only past the assertion on has_worker.
Asserted == Announced \cup {"spin", "clock", "announce", "late"}

\* T2 runs on every exit: outside the park path the flag is UNPARKED.
QuietWhenAway == parked = PARKED <=> wpc \in Announced

\* A data store is still buffered only between the store and the first fence
\* or locked instruction of the wake that follows it.
BufferedInWake ==
  \A w \in Wakers : buf[w] > 0 => wkpc[w] \in {"probe", "fence", "clone"}

\* What is known of the registration at each point of the protocol.
RegistrationInv ==
  /\ registered \/ publishing => worker # NoThread
  /\ wpc \in Waiting => worker \in {home, NoThread}
  /\ wpc \in Asserted => worker = home
  /\ \A w \in Wakers : wkpc[w] = "unpark" => handle[w] # NoThread

\* What each program point of the waiter says of the data and the clock.
WaiterPointInv ==
  /\ wpc = "leave" => Ready
  /\ wpc \in {"clock", "loop", "late"} => timed
  /\ wpc = "late" => expired

IInv ==
  /\ TypeOK
  /\ QuietWhenAway
  /\ BufferedInWake
  /\ RegistrationInv
  /\ DeliveryFindsWorker
  /\ WaiterPointInv
  /\ NoLostWake

-----------------------------------------------------------------------------
\* The invariant holds before any call.
LEMMA InitInv == Init => IInv
<1> SUFFICES ASSUME Init PROVE IInv
  OBVIOUS
<1>0. buf \in [Wakers -> 0..1]
  BY DEF Init
<1>1. TypeOK
  BY <1>0, ParkAssumption DEF Init, WithSpin, TypeOK, UNPARKED, PARKED
<1>2. QED
  BY <1>1 DEF Init, WithSpin, IInv, QuietWhenAway, BufferedInWake, RegistrationInv, Waiting,
    Asserted, Announced, DeliveryFindsWorker, WaiterPointInv,
    NoLostWake, UNPARKED, PARKED

\* Every step of a waker, of a registration or of the waiter keeps it.
LEMMA StepInv == IInv /\ [Next]_vars => IInv'
<1> SUFFICES ASSUME IInv, [Next]_vars PROVE IInv'
  OBVIOUS
<1> USE ParkAssumption DEF IInv, TypeOK, QuietWhenAway, BufferedInWake,
    RegistrationInv, DeliveryFindsWorker, WaiterPointInv,
    NoLostWake, WillUnpark, Ready, Waiting, Asserted, Announced, UNPARKED, PARKED,
    dataVars, regVars, wakeVars, waitVars, waitElse
<1>1. ASSUME NEW w \in Wakers, Store(w) PROVE IInv'
  BY <1>1 DEF Store, WakerAt
<1>2. ASSUME NEW w \in Wakers, Flush(w) PROVE IInv'
  <2>1. WillUnpark(w)'  \* the store was buffered, so its wake is not over
    BY <1>2 DEF Flush
  <2>2. NoLostWake'
    BY <2>1
  <2>3. QED
    BY <1>2, <2>2 DEF Flush
<1>3. ASSUME NEW w \in Wakers, FastProbe(w) PROVE IInv'
  BY <1>3 DEF FastProbe, WakerAt
<1>4. ASSUME NEW w \in Wakers, Fence(w) PROVE IInv'
  BY <1>4 DEF Fence, WakerAt
<1>5. ASSUME NEW w \in Wakers, Confirm(w) PROVE IInv'
  <2>1. wpc \in Announced => WillUnpark(w)'  \* the flag is up, so the probe is positive
    BY <1>5 DEF Confirm, WakerAt
  <2>2. NoLostWake'
    BY <1>5, <2>1 DEF Confirm, WakerAt
  <2>3. QED
    BY <1>5, <2>2 DEF Confirm, WakerAt
<1>6. ASSUME NEW w \in Wakers, Clone(w) PROVE IInv'
  <2>1. wpc \in {"loop", "park"} => WillUnpark(w)'  \* it clones home's handle
    BY <1>6 DEF Clone, WakerAt
  <2>2. NoLostWake'
    BY <1>6, <2>1 DEF Clone, WakerAt
  <2>3. QED
    BY <1>6, <2>2 DEF Clone, WakerAt
<1>7. ASSUME NEW w \in Wakers, Unpark(w) PROVE IInv'
  <2>1. handle[w] = home => token'[home]
    BY <1>7 DEF Unpark, WakerAt
  <2>2. NoLostWake'  \* a stale handle owed this waiter nothing
    BY <1>7, <2>1 DEF Unpark, WakerAt
  <2>3. QED
    BY <1>7, <2>2 DEF Unpark, WakerAt
<1>8. ASSUME NEW t \in Threads, SetWorker(t) PROVE IInv'
  BY <1>8 DEF SetWorker
<1>9. ASSUME NEW t \in Threads, Migrate(t) PROVE IInv'
  BY <1>9 DEF Migrate
<1>10. ASSUME NEW d \in BOOLEAN, Call(d) PROVE IInv'
  BY <1>10 DEF Call, WaiterAt
<1>11. CASE Publish
  <2>1. TypeOK'
    BY <1>11 DEF Publish
  <2>2. QuietWhenAway' /\ BufferedInWake' /\ RegistrationInv' /\ DeliveryFindsWorker'
    BY <1>11 DEF Publish
  <2>3. WaiterPointInv' /\ NoLostWake'
    BY <1>11 DEF Publish
  <2>4. QED
    BY <2>1, <2>2, <2>3
<1>12. CASE Consume
  BY <1>12 DEF Consume
<1>13. CASE Elapse
  BY <1>13 DEF Elapse
<1>14. CASE ParkSpurious
  BY <1>14 DEF ParkSpurious, WaiterAt
<1>15. CASE Entry
  BY <1>15 DEF Entry, Return
<1>16. CASE AssertWorker
  BY <1>16 DEF AssertWorker, WaiterAt
<1>17. CASE Spin
  BY <1>17 DEF Spin, Return
<1>18. CASE SpinClock
  BY <1>18 DEF SpinClock, Return
<1>19. CASE Announce
  BY <1>19 DEF Announce, WaiterAt
<1>20. CASE Recheck
  BY <1>20 DEF Recheck, WaiterAt
<1>21. CASE DeadlineCheck
  BY <1>21 DEF DeadlineCheck
<1>22. CASE ParkToken
  BY <1>22 DEF ParkToken, WaiterAt
<1>23. CASE ParkTimeout
  BY <1>23 DEF ParkTimeout, WaiterAt
<1>24. CASE Woken
  BY <1>24 DEF Woken, WaiterAt
<1>25. CASE Leave
  BY <1>25 DEF Leave, Return
<1>26. CASE Late
  BY <1>26 DEF Late, Return
<1>27. CASE UNCHANGED vars
  BY <1>27 DEF vars
<1>28. QED
  BY <1>1, <1>2, <1>3, <1>4, <1>5, <1>6, <1>7, <1>8, <1>9, <1>10, <1>11, <1>12, <1>13, <1>14, <1>15, <1>16, <1>17, <1>18, <1>19, <1>20, <1>21, <1>22, <1>23, <1>24, <1>25, <1>26, <1>27
    DEF Next, WakerStep, WaiterStep

\* The invariant holds in every reachable state.
THEOREM ParkInductive == Spec => []IInv
<1>1. QED
  BY InitInv, StepInv, PTL DEF Spec

\* Type correctness of the waiter.
THEOREM ParkTypeCorrect == Spec => []TypeOK
<1>1. IInv => TypeOK
  BY DEF IInv
<1>2. QED
  BY <1>1, ParkInductive, PTL

\* The lost-wake proof of the module comment of waiter/park.rs, for any number
\* of wakers, with a store buffer in front of every data store.
THEOREM ParkNoLostWake == Spec => []NoLostWake
<1>1. IInv => NoLostWake
  BY DEF IInv
<1>2. QED
  BY <1>1, ParkInductive, PTL

\* unpark_registered never finds the handle empty: a positive probe is only
\* possible after set_worker.
THEOREM ParkDeliveryFindsWorker == Spec => []DeliveryFindsWorker
<1>1. IInv => DeliveryFindsWorker
  BY DEF IInv
<1>2. QED
  BY <1>1, ParkInductive, PTL

\* A wait ends in five places only.
LEMMA HonestStep ==
  ASSUME IInv, [Next]_vars, wpc # "idle", wpc' = "idle"
  PROVE  \/ result' = "ready" /\ Ready'
         \/ /\ result' = "elapsed" /\ timed /\ expired /\ parked' = UNPARKED
            /\ wpc = "clock" \/ ~Ready
<1> USE DEF IInv, TypeOK, QuietWhenAway, WaiterPointInv, Ready, Return, waitElse, dataVars,
        Announced, UNPARKED, PARKED
<1>1. CASE Entry
  BY <1>1 DEF Entry
<1>2. CASE Spin
  BY <1>2 DEF Spin
<1>3. CASE SpinClock
  BY <1>3 DEF SpinClock
<1>4. CASE Leave
  BY <1>4 DEF Leave
<1>5. CASE Late
  BY <1>5 DEF Late
<1>6. ASSUME NEW w \in Wakers, Store(w) \/ Flush(w) \/ WakerStep(w) PROVE FALSE
  BY <1>6 DEF Store, Flush, WakerStep, FastProbe, Fence, Confirm, Clone, Unpark, waitVars
<1>7. ASSUME NEW t \in Threads, SetWorker(t) \/ Migrate(t) PROVE FALSE
  BY <1>7 DEF SetWorker, Migrate, waitVars
<1>8. ASSUME NEW d \in BOOLEAN, Call(d) PROVE FALSE
  BY <1>8 DEF Call, WaiterAt
<1>9. CASE Publish \/ Consume \/ Elapse \/ ParkSpurious
  BY <1>9 DEF Publish, Consume, Elapse, ParkSpurious, WaiterAt, waitVars
<1>10. CASE AssertWorker \/ Announce \/ Recheck \/ DeadlineCheck \/ ParkToken \/ ParkTimeout \/ Woken
  BY <1>10
  DEF AssertWorker, Announce, Recheck, DeadlineCheck, ParkToken, ParkTimeout, Woken, WaiterAt
<1>11. CASE UNCHANGED vars
  BY <1>11 DEF vars, waitVars
<1>12. QED
  BY <1>1, <1>2, <1>3, <1>4, <1>5, <1>6, <1>7, <1>8, <1>9, <1>10, <1>11 DEF Next, WaiterStep

\* What wait_until and wait_until_deadline return is true, whatever tokens and spurious
\* returns of park they have met on the way, and a wait that times out on the park path
\* has taken its announcement back and looked once more.
THEOREM ParkHonestResult == Spec => HonestResult
<1>1. IInv /\ [Next]_vars =>
        [wpc # "idle" /\ wpc' = "idle" =>
           \/ result' = "ready" /\ Ready'
           \/ /\ result' = "elapsed" /\ timed /\ expired /\ parked' = UNPARKED
              /\ wpc = "clock" \/ ~Ready]_vars
  BY HonestStep
<1>2. QED
  BY <1>1, ParkInductive, PTL DEF Spec, HonestResult

\* The flag is up exactly between T1 and T2, so outside the park path a wake
\* costs no delivery.
THEOREM ParkQuietWhenAway == Spec => []QuietWhenAway
<1>1. IInv => QuietWhenAway
  BY DEF IInv
<1>2. QED
  BY <1>1, ParkInductive, PTL

-----------------------------------------------------------------------------
(* Refinement.                                                             *)

\* Initially nothing is owed and nobody sleeps.
LEMMA ContractInit == Init => Contract!Init
  BY DEF Init, Contract!Init, owingBar, asleepBar

\* A step of the waiter protocol is a step of the contract, or leaves what the
\* contract speaks of unchanged.
LEMMA ContractStep ==
  ASSUME IInv, IInv', [Next]_vars
  PROVE  [Contract!Next]_(Contract!vars)
<1> USE ParkAssumption DEF IInv, TypeOK, QuietWhenAway, BufferedInWake,
    RegistrationInv, DeliveryFindsWorker, WaiterPointInv, NoLostWake, WillUnpark,
    Ready, Waiting, Asserted, Announced, owingBar, asleepBar, Contract!vars,
    UNPARKED, PARKED,
    dataVars, regVars, wakeVars, waitVars, waitElse
<1>1. ASSUME NEW w \in Wakers, Store(w) PROVE UNCHANGED Contract!vars
  BY <1>1 DEF Store, WakerAt
<1>2. ASSUME NEW w \in Wakers, Flush(w) PROVE Contract!Post(w)
  BY <1>2 DEF Flush, Contract!Post
<1>3. ASSUME NEW w \in Wakers, FastProbe(w) PROVE UNCHANGED Contract!vars
  BY <1>3 DEF FastProbe, WakerAt
<1>4. ASSUME NEW w \in Wakers, Fence(w) PROVE UNCHANGED Contract!vars
  BY <1>4 DEF Fence, WakerAt
<1>5. ASSUME NEW w \in Wakers, Confirm(w) PROVE Contract!Settle(w) \/ UNCHANGED Contract!vars
  BY <1>5 DEF Confirm, WakerAt, Contract!Settle, Contract!Ready
<1>6. ASSUME NEW w \in Wakers, Clone(w) PROVE Contract!Settle(w) \/ UNCHANGED Contract!vars
  BY <1>6 DEF Clone, WakerAt, Contract!Settle, Contract!Ready
<1>7. ASSUME NEW w \in Wakers, Unpark(w) PROVE Contract!Settle(w)
  BY <1>7 DEF Unpark, WakerAt, Contract!Settle, Contract!Ready
<1>8. ASSUME NEW t \in Threads, SetWorker(t) PROVE UNCHANGED Contract!vars
  BY <1>8 DEF SetWorker
<1>9. ASSUME NEW t \in Threads, Migrate(t) PROVE UNCHANGED Contract!vars
  BY <1>9 DEF Migrate
<1>10. ASSUME NEW d \in BOOLEAN, Call(d) PROVE UNCHANGED Contract!vars
  BY <1>10 DEF Call, WaiterAt
<1>11. ASSUME Publish PROVE UNCHANGED Contract!vars
  BY <1>11 DEF Publish
<1>12. ASSUME Consume PROVE Contract!Take
  BY <1>12 DEF Consume, Contract!Take, Contract!Ready
<1>13. ASSUME Elapse PROVE UNCHANGED Contract!vars
  BY <1>13 DEF Elapse
<1>14. ASSUME ParkSpurious PROVE Contract!Rouse \/ UNCHANGED Contract!vars
  BY <1>14 DEF ParkSpurious, WaiterAt, Contract!Rouse
<1>15. ASSUME Entry PROVE UNCHANGED Contract!vars
  BY <1>15 DEF Entry, Return
<1>16. ASSUME AssertWorker PROVE UNCHANGED Contract!vars
  BY <1>16 DEF AssertWorker, WaiterAt
<1>17. ASSUME Spin PROVE UNCHANGED Contract!vars
  BY <1>17 DEF Spin, Return
<1>18. ASSUME SpinClock PROVE UNCHANGED Contract!vars
  BY <1>18 DEF SpinClock, Return
<1>19. ASSUME Announce PROVE UNCHANGED Contract!vars
  BY <1>19 DEF Announce, WaiterAt
<1>20. ASSUME Recheck PROVE Contract!Doze \/ UNCHANGED Contract!vars
  BY <1>20 DEF Recheck, WaiterAt, Contract!Doze, Contract!Ready
<1>21. ASSUME DeadlineCheck PROVE Contract!Rouse \/ UNCHANGED Contract!vars
  BY <1>21 DEF DeadlineCheck, Contract!Rouse
<1>22. ASSUME ParkToken PROVE UNCHANGED Contract!vars
  BY <1>22 DEF ParkToken, WaiterAt
<1>23. ASSUME ParkTimeout PROVE Contract!Rouse \/ UNCHANGED Contract!vars
  BY <1>23 DEF ParkTimeout, WaiterAt, Contract!Rouse
<1>24. ASSUME Woken PROVE Contract!Doze \/ UNCHANGED Contract!vars
  BY <1>24 DEF Woken, WaiterAt, Contract!Doze, Contract!Ready
<1>25. ASSUME Leave PROVE UNCHANGED Contract!vars
  BY <1>25 DEF Leave, Return
<1>26. ASSUME Late PROVE UNCHANGED Contract!vars
  BY <1>26 DEF Late, Return
<1>27. CASE UNCHANGED vars
  BY <1>27 DEF vars
<1>28. QED
  BY <1>1, <1>2, <1>3, <1>4, <1>5, <1>6, <1>7, <1>8, <1>9, <1>10, <1>11, <1>12, <1>13, <1>14, <1>15, <1>16, <1>17, <1>18, <1>19, <1>20, <1>21, <1>22, <1>23, <1>24, <1>25, <1>26, <1>27
    DEF Next, WakerStep, WaiterStep, Contract!Next

\* The contract is enough: whatever keeps it leaves no sleeper with a true predicate
\* and no wake owed.
THEOREM ContractNoLostWake == Contract!Spec => []Contract!NoLostWake
<1>1. Contract!Init => Contract!NoLostWake
  BY DEF Contract!Init, Contract!NoLostWake
<1>2. Contract!NoLostWake /\ [Contract!Next]_(Contract!vars) => Contract!NoLostWake'
  <2> SUFFICES ASSUME Contract!NoLostWake, [Contract!Next]_(Contract!vars)
               PROVE  Contract!NoLostWake'
    OBVIOUS
  <2> USE DEF Contract!NoLostWake, Contract!Ready
  <2>1. ASSUME NEW w \in Wakers, Contract!Post(w) PROVE Contract!NoLostWake'
    BY <2>1 DEF Contract!Post
  <2>2. ASSUME NEW w \in Wakers, Contract!Settle(w) PROVE Contract!NoLostWake'
    BY <2>2 DEF Contract!Settle
  <2>3. CASE Contract!Doze
    BY <2>3 DEF Contract!Doze
  <2>4. CASE Contract!Rouse
    BY <2>4 DEF Contract!Rouse
  <2>5. CASE Contract!Take
    BY <2>5 DEF Contract!Take
  <2>6. CASE UNCHANGED Contract!vars
    BY <2>6 DEF Contract!vars
  <2>7. QED
    BY <2>1, <2>2, <2>3, <2>4, <2>5, <2>6 DEF Contract!Next
<1>3. QED
  BY <1>1, <1>2, PTL DEF Contract!Spec

\* The park waiter implements the wake contract.
THEOREM ParkImplementsContract == Spec => ParkKeepsContract
<1>1. QED
  BY ContractInit, ContractStep, ParkInductive, PTL DEF Spec, ParkKeepsContract, Contract!Spec
=============================================================================
