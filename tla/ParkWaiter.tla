----------------------------- MODULE ParkWaiter -----------------------------
(***************************************************************************)
(* The OS-thread waiter of waiter/park.rs: one waiter thread blocking in   *)
(* wait_until or wait_until_deadline, any number of threads calling wake,  *)
(* and set_worker called by whoever owns the handle.                       *)
(*                                                                         *)
(* Every atomic access is a step of its own.  Memory is x86-TSO: a waker's *)
(* data store sits in its private store buffer until it is flushed, a      *)
(* fence or a locked instruction waits for the buffer to be empty, and     *)
(* everybody else reads memory.  This is the hardware the module comment   *)
(* argues about ("TSO store-buffer race"): without it the SeqCst fence of  *)
(* T3b would have nothing to do.  The waiter's own writes of `parked' are  *)
(* locked swaps and need no buffer.                                        *)
(*                                                                         *)
(* The caller's data is a count of published events: `posted' have reached *)
(* memory, `taken' have been consumed, and the predicate handed to the     *)
(* waiter is that some are left.                                           *)
(***************************************************************************)
EXTENDS Naturals

CONSTANTS
  Threads,    \* threads the waiting side may run on, one after the other
  NoThread,   \* the handle before any set_worker
  Wakers,     \* threads that publish data and call wake
  MaxPosts    \* bound: no data is published once this many are in memory

ASSUME ParkAssumption ==
  /\ NoThread \notin Threads
  /\ MaxPosts \in Nat

VARIABLES
  posted, taken,      \* the caller's data, in memory
  buf,                \* data stores still in each waker's store buffer
  parked,             \* the `parked' flag
  worker, registered, \* the handle under the mutex, and its published flag
  publishing,         \* a set_worker call is between its two writes
  token,              \* std's unpark token of each thread
  wkpc, handle,       \* where each waker is in wake, and the handle it cloned
  wpc, home,          \* where the waiter is, and the thread it runs on
  timed, expired,     \* the current wait has a deadline; it has elapsed
  result              \* how the last wait ended

dataVars == <<posted, taken, buf>>
regVars  == <<worker, registered, publishing>>
wakeVars == <<wkpc, handle>>
waitVars == <<wpc, home, timed, expired, result>>
vars == <<dataVars, parked, regVars, token, wakeVars, waitVars>>

UNPARKED == 0
PARKED   == 1

\* Program points of the waiter from the announcement (T1) to T2.
Announced == {"recheck", "loop", "park", "woken", "leave"}
\* ... and of the whole call.
Waiting   == Announced \cup {"entry", "assert", "spin", "clock",
                          "announce", "late"}

Ready == posted > taken

\* A waker's buffer is empty again when its wake returns, so it never holds more
\* than the one store that wake is about.
TypeOK ==
  /\ posted \in Nat /\ taken \in Nat
  /\ buf \in [Wakers -> 0..1]
  /\ parked \in {UNPARKED, PARKED}
  /\ worker \in Threads \cup {NoThread}
  /\ registered \in BOOLEAN /\ publishing \in BOOLEAN
  /\ token \in [Threads -> BOOLEAN]
  /\ wkpc \in [Wakers -> {"idle", "probe", "fence", "confirm", "clone", "unpark"}]
  /\ handle \in [Wakers -> Threads \cup {NoThread}]
  /\ wpc \in Waiting \cup {"idle", "panicked"}
  /\ home \in Threads
  /\ timed \in BOOLEAN /\ expired \in BOOLEAN
  /\ result \in {"none", "ready", "elapsed"}

\* ParkWaiter::with_spin: unparked, nobody registered.
WithSpin == parked = UNPARKED /\ worker = NoThread /\ registered = FALSE

Init ==
  /\ WithSpin
  /\ posted = 0 /\ taken = 0
  /\ buf = [w \in Wakers |-> 0]
  /\ publishing = FALSE
  /\ token = [t \in Threads |-> FALSE]
  /\ wkpc = [w \in Wakers |-> "idle"]
  /\ handle = [w \in Wakers |-> NoThread]
  /\ wpc = "idle" /\ home \in Threads
  /\ timed = FALSE /\ expired = FALSE
  /\ result = "none"

-----------------------------------------------------------------------------
(* Wakers: the caller's data store, then wake().                           *)

WakerAt(w, from, to) ==
  /\ wkpc[w] = from
  /\ wkpc' = [wkpc EXCEPT ![w] = to]

\* The caller publishes a datum (a plain store) and calls wake.
Store(w) ==
  /\ posted < MaxPosts
  /\ WakerAt(w, "idle", "probe")
  /\ buf' = [buf EXCEPT ![w] = @ + 1]
  /\ UNCHANGED <<posted, taken, parked, regVars, token, handle, waitVars>>

\* The memory system writes back the oldest buffered store.
Flush(w) ==
  /\ buf[w] > 0
  /\ buf' = [buf EXCEPT ![w] = @ - 1]
  /\ posted' = posted + 1
  /\ UNCHANGED <<taken, parked, regVars, token, wakeVars, waitVars>>

\* T3a: the positive-only probe.
FastProbe(w) ==
  /\ WakerAt(w, "probe", IF parked = PARKED THEN "clone" ELSE "fence")
  /\ UNCHANGED <<dataVars, parked, regVars, token, handle, waitVars>>

\* Mutant: the waker's SeqCst fence is dropped.
Fence_Dropped(w) ==
  /\ WakerAt(w, "fence", "confirm")
  /\ UNCHANGED <<dataVars, parked, regVars, token, handle, waitVars>>

\* fence(SeqCst): nothing later is performed until the buffer is empty.
Fence(w) ==
  /\ buf[w] = 0
  /\ WakerAt(w, "fence", "confirm")
  /\ UNCHANGED <<dataVars, parked, regVars, token, handle, waitVars>>

\* T3b: the authoritative probe.
Confirm(w) ==
  /\ WakerAt(w, "confirm", IF parked = PARKED THEN "clone" ELSE "idle")
  /\ UNCHANGED <<dataVars, parked, regVars, token, handle, waitVars>>

\* T4, first half: lock (a locked instruction), clone the handle, unlock.
Clone(w) ==
  /\ buf[w] = 0
  /\ WakerAt(w, "clone", IF worker = NoThread THEN "idle" ELSE "unpark")
  /\ handle' = [handle EXCEPT ![w] = worker]
  /\ UNCHANGED <<dataVars, parked, regVars, token, waitVars>>

\* T4, second half: unpark the cloned handle, outside the mutex.
Unpark(w) ==
  /\ WakerAt(w, "unpark", "idle")
  /\ token' = [token EXCEPT ![handle[w]] = TRUE]
  /\ handle' = [handle EXCEPT ![w] = NoThread]
  /\ UNCHANGED <<dataVars, parked, regVars, waitVars>>

WakerStep(w) ==
  FastProbe(w) \/ Fence(w) \/ Confirm(w) \/ Clone(w) \/ Unpark(w)

-----------------------------------------------------------------------------
(* Registration.                                                           *)

\* set_worker, first half.  While the waiter is inside a wait, only its own
\* thread may be (re-)registered: wait_until "must be called from the thread
\* registered via set_worker".
SetWorker(t) ==
  /\ ~publishing
  /\ wpc = "idle" \/ t = home
  /\ worker' = t
  /\ publishing' = TRUE
  /\ UNCHANGED <<dataVars, parked, registered, token, wakeVars, waitVars>>

\* set_worker, second half: registered.store(true).
Publish ==
  /\ publishing
  /\ registered' = TRUE
  /\ publishing' = FALSE
  /\ UNCHANGED <<dataVars, parked, worker, token, wakeVars, waitVars>>

-----------------------------------------------------------------------------
(* The waiter.                                                             *)

WaiterAt(from, to) == wpc = from /\ wpc' = to

waitElse == <<dataVars, regVars, wakeVars, home, timed, expired>>

Return(r) == wpc' = "idle" /\ result' = r

\* Between waits the owner of the waiting end may move to another thread.
Migrate(t) ==
  /\ wpc = "idle"
  /\ home' = t
  /\ UNCHANGED <<dataVars, parked, regVars, token, wakeVars,
                 wpc, timed, expired, result>>

\* The caller consumes one datum after (or without) a wait.
Consume ==
  /\ wpc = "idle" /\ Ready
  /\ taken' = taken + 1
  /\ result' = "none"
  /\ UNCHANGED <<posted, buf, parked, regVars, token, wakeVars,
                 wpc, home, timed, expired>>

\* wait_until (deadline = FALSE) or wait_until_deadline is called, by the
\* registered thread or before any registration.
Call(deadline) ==
  /\ WaiterAt("idle", "entry")
  /\ worker \in {home, NoThread}
  /\ timed' = deadline /\ expired' = FALSE /\ result' = "none"
  /\ UNCHANGED <<dataVars, parked, regVars, token, wakeVars, home>>

\* The clock passes the deadline.
Elapse ==
  /\ timed /\ ~expired /\ wpc \in Waiting
  /\ expired' = TRUE
  /\ UNCHANGED <<dataVars, parked, regVars, token, wakeVars,
                 wpc, home, timed, result>>

\* First evaluation of the predicate.
Entry ==
  /\ wpc = "entry"
  /\ \/ Ready /\ Return("ready")
     \/ ~Ready /\ wpc' = "assert" /\ UNCHANGED result
  /\ UNCHANGED <<waitElse, parked, token>>

\* Mutant: the assertion on has_worker is dropped.
AssertWorker_Dropped ==
  /\ WaiterAt("assert", "spin")
  /\ UNCHANGED <<waitElse, parked, token, result>>

\* assert!(has_worker())
AssertWorker ==
  /\ WaiterAt("assert", IF registered THEN "spin" ELSE "panicked")
  /\ UNCHANGED <<waitElse, parked, token, result>>

\* The two spin phases evaluate the predicate; an iteration that finds it
\* false and is not the last changes nothing.
Spin ==
  /\ wpc = "spin"
  /\ \/ Ready /\ Return("ready")
     \/ ~Ready /\ wpc' = (IF timed THEN "clock" ELSE "announce") /\ UNCHANGED result
  /\ UNCHANGED <<waitElse, parked, token>>

\* With a deadline each iteration then reads the clock; past the deadline it
\* returns on the word of the evaluation before.
SpinClock ==
  /\ wpc = "clock"
  /\ \/ expired /\ Return("elapsed")
     \/ ~expired /\ wpc' \in {"spin", "announce"} /\ UNCHANGED result
  /\ UNCHANGED <<waitElse, parked, token>>

\* Mutant: T1 is left out.
Announce_NoFlag ==
  /\ WaiterAt("announce", "recheck")
  /\ UNCHANGED <<waitElse, parked, token, result>>

\* T1: parked.swap(PARKED) and the waiter's fence.
Announce ==
  /\ WaiterAt("announce", "recheck")
  /\ parked' = PARKED
  /\ UNCHANGED <<waitElse, token, result>>

\* Mutant: the waiter parks without evaluating the predicate after T1.
Recheck_Dropped ==
  /\ WaiterAt("recheck", IF timed THEN "loop" ELSE "park")
  /\ UNCHANGED <<waitElse, parked, token, result>>

\* The predicate is evaluated again after T1; if false the park loop begins.
Recheck ==
  /\ WaiterAt("recheck", IF Ready THEN "leave" ELSE IF timed THEN "loop" ELSE "park")
  /\ UNCHANGED <<waitElse, parked, token, result>>

\* Mutant: the loop never looks at the clock.
DeadlineCheck_NoClock ==
  /\ WaiterAt("loop", "park")
  /\ UNCHANGED <<waitElse, parked, token, result>>

\* Mutant: T2 is left out on the way to the last look.
DeadlineCheck_FlagUp ==
  /\ WaiterAt("loop", IF expired THEN "late" ELSE "park")
  /\ UNCHANGED <<waitElse, parked, token, result>>

\* Head of the timed loop: past the deadline, T2 and one last evaluation.
DeadlineCheck ==
  /\ wpc = "loop"
  /\ \/ expired /\ wpc' = "late" /\ parked' = UNPARKED
     \/ ~expired /\ wpc' = "park" /\ UNCHANGED parked
  /\ UNCHANGED <<waitElse, token, result>>

\* thread::park returns because the token is there, and takes it.
ParkToken ==
  /\ token[home]
  /\ WaiterAt("park", "woken")
  /\ token' = [token EXCEPT ![home] = FALSE]
  /\ UNCHANGED <<waitElse, parked, result>>

\* park_timeout returns because the deadline has passed.
ParkTimeout ==
  /\ timed /\ expired
  /\ WaiterAt("park", "woken")
  /\ UNCHANGED <<waitElse, parked, token, result>>

\* thread::park may return for no reason at all.
ParkSpurious ==
  /\ WaiterAt("park", "woken")
  /\ UNCHANGED <<waitElse, parked, token, result>>

\* Mutant: the return of park is taken for the predicate.
Woken_NoRecheck ==
  /\ WaiterAt("woken", "leave")
  /\ UNCHANGED <<waitElse, parked, token, result>>

\* The predicate is evaluated after every return of park.
Woken ==
  /\ WaiterAt("woken", IF Ready THEN "leave" ELSE IF timed THEN "loop" ELSE "park")
  /\ UNCHANGED <<waitElse, parked, token, result>>

\* T2, then return with the predicate true.
Leave ==
  /\ wpc = "leave"
  /\ parked' = UNPARKED
  /\ Return("ready")
  /\ UNCHANGED <<waitElse, token>>

\* Mutant: the deadline is reported without a last look.
Late_NoLook ==
  /\ wpc = "late"
  /\ Return("elapsed")
  /\ UNCHANGED <<waitElse, parked, token>>

\* After a timed-out T2: `return !ready()'.
Late ==
  /\ wpc = "late"
  /\ Return(IF Ready THEN "ready" ELSE "elapsed")
  /\ UNCHANGED <<waitElse, parked, token>>

WaiterStep ==
  \/ Entry \/ AssertWorker \/ Spin \/ SpinClock \/ Announce \/ Recheck
  \/ DeadlineCheck \/ ParkToken \/ ParkTimeout \/ Woken \/ Leave \/ Late

-----------------------------------------------------------------------------
Next ==
  \/ \E w \in Wakers : Store(w) \/ Flush(w) \/ WakerStep(w)
  \/ \E t \in Threads : SetWorker(t) \/ Migrate(t)
  \/ \E deadline \in BOOLEAN : Call(deadline)
  \/ Publish \/ Consume \/ Elapse \/ ParkSpurious
  \/ WaiterStep

\* Running threads run, and the store buffer drains; publishing data, calling
\* a wait, the clock and spurious returns are the environment's choice.
Fairness ==
  /\ WF_vars(WaiterStep)
  /\ \A w \in Wakers : WF_vars(WakerStep(w)) /\ WF_vars(Flush(w))

Spec     == Init /\ [][Next]_vars
LiveSpec == Spec /\ Fairness

-----------------------------------------------------------------------------
(* Properties.                                                             *)

\* A waker whose data is in memory and that is certain to put the token on the
\* waiter's thread if that is parked: it still has a probe to make, or it will
\* read or already holds the right handle.
WillUnpark(w) ==
  /\ buf[w] = 0
  /\ \/ wkpc[w] \in {"probe", "fence", "confirm", "clone"}
     \/ wkpc[w] = "unpark" /\ handle[w] = home

\* No wake is lost (module comment, "why no wake is ever lost"): a waiter
\* that is parked, or about to park, while the predicate is true in memory
\* either has its token already or is owed one by a waker still in wake().
NoLostWake ==
  wpc \in {"loop", "park"} /\ Ready =>
    token[home] \/ \E w \in Wakers : WillUnpark(w)

\* T4 always finds a registered thread (comment of unpark_registered): a
\* positive probe is only possible after set_worker.
DeliveryFindsWorker ==
  \A w \in Wakers : wkpc[w] = "clone" => worker # NoThread

\* What a wait reports is so.  True: the predicate holds for its caller, whatever
\* spurious returns and stale tokens of earlier waits it met.  Deadline: the wait has
\* one and ran past it, took its announcement back, and a wait that had announced
\* itself found the predicate false when it looked once more after that, so that what
\* came while it timed out is not reported as nothing.  (A spinning wait has no such
\* last look: it goes by the evaluation before it read the clock.)
HonestResult ==
  [][wpc # "idle" /\ wpc' = "idle" =>
       \/ result' = "ready" /\ Ready'
       \/ /\ result' = "elapsed" /\ timed /\ expired /\ parked' = UNPARKED
          /\ wpc = "clock" \/ ~Ready]_vars

\* A waiter whose predicate has become true returns from the wait.
ReadyReturns == wpc \in Waiting /\ Ready ~> wpc \in {"idle", "panicked"}

\* A timed wait returns once its deadline has passed, wakes or no wakes.
DeadlineReturns == wpc \in Waiting /\ timed /\ expired ~> wpc \in {"idle", "panicked"}
=============================================================================
