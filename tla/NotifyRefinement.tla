-------------------------- MODULE NotifyRefinement --------------------------
(***************************************************************************)
(* The async waiter implements the same wake contract as the park waiter:  *)
(* a datum is published when its store reaches memory, its waker owes a    *)
(* wake until it leaves wake(), and the waiter sleeps from the predicate   *)
(* evaluation that found nothing until a notification is on its way.       *)
(***************************************************************************)
EXTENDS NotifyGate

owingBar == {w \in Wakers : wkpc[w] # "idle" /\ buf[w] = 0}

Contract == INSTANCE WakeContract WITH owing <- owingBar, asleep <- Asleep

\* Every step of waiter/notify.rs is a step the contract allows, or invisible.
NotifyKeepsContract == Contract!Spec
=============================================================================
