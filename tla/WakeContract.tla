---------------------------- MODULE WakeContract ----------------------------
(***************************************************************************)
(* What every waiter of the crate promises its callers (waiter/mod.rs):    *)
(* a thread that finds its predicate false may sleep; one that makes the   *)
(* predicate true and then calls wake ends the sleep.  No memory model, no *)
(* flag and no token: only the data, the wakers that have published and    *)
(* not yet returned from wake, and whether the waiter sleeps.  The park    *)
(* waiter implements it (ParkRefinement); the channel modules assume it.   *)
(***************************************************************************)
EXTENDS Naturals

CONSTANT Wakers

VARIABLES
  posted, taken,  \* events published and consumed
  owing,          \* wakers between their publication and their wake's end
  asleep          \* the waiter sleeps until somebody rouses it

vars == <<posted, taken, owing, asleep>>

Ready == posted > taken

Init == posted = 0 /\ taken = 0 /\ owing = {} /\ asleep = FALSE

\* A waker's datum becomes visible; it owes a wake.
Post(w) ==
  /\ posted' = posted + 1
  /\ owing' = owing \cup {w}
  /\ UNCHANGED <<taken, asleep>>

\* wake returns.  It may leave a sleeper alone (the probe found the flag
\* clear, or the handle was that of an earlier wait) only when the sleeper has
\* nothing to see or another waker still owes it the wake.
Settle(w) ==
  /\ w \in owing
  /\ owing' = owing \ {w}
  /\ \/ asleep' = FALSE
     \/ asleep' = asleep /\ (asleep /\ Ready => owing' # {})
  /\ UNCHANGED <<posted, taken>>

\* The waiter goes to sleep: only with its predicate false.
Doze == ~asleep /\ ~Ready /\ asleep' = TRUE /\ UNCHANGED <<posted, taken, owing>>

\* Spurious return, or the deadline.
Rouse == asleep /\ asleep' = FALSE /\ UNCHANGED <<posted, taken, owing>>

\* The owner of the waiting end consumes a datum.
Take ==
  /\ ~asleep /\ Ready
  /\ taken' = taken + 1
  /\ UNCHANGED <<posted, owing, asleep>>

Next == (\E w \in Wakers : Post(w) \/ Settle(w)) \/ Doze \/ Rouse \/ Take

Spec == Init /\ [][Next]_vars

-----------------------------------------------------------------------------
\* A sleeper with its predicate true is owed a wake.
NoLostWake == asleep /\ Ready => owing # {}
=============================================================================
