--------------------------- MODULE ParkRefinement ---------------------------
(***************************************************************************)
(* The park waiter implements the wake contract.  A datum is published     *)
(* when its store reaches memory; its waker owes a wake from then until it *)
(* leaves wake(); the waiter sleeps when it is committed to thread::park   *)
(* and no token is waiting for it there.                                   *)
(***************************************************************************)
EXTENDS ParkWaiter

owingBar  == {w \in Wakers : wkpc[w] # "idle" /\ buf[w] = 0}
asleepBar == wpc \in {"loop", "park"} /\ ~token[home]

Contract == INSTANCE WakeContract WITH owing <- owingBar, asleep <- asleepBar

\* Every step of waiter/park.rs is a step the contract allows, or invisible.
ParkKeepsContract == Contract!Spec
=============================================================================
