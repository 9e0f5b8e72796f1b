----------------------------- MODULE NotifyGate -----------------------------
(***************************************************************************)
(* The async waiter of waiter/notify.rs: tokio's Notify behind the armed   *)
(* counter of WakeGate.  One task runs wait_until, any number of threads   *)
(* call wake, and the task's future may be dropped while it is suspended.  *)
(*                                                                         *)
(* Memory and data are as in ParkWaiter: x86-TSO with a store buffer in    *)
(* front of each waker's data store, drained by a locked instruction, and  *)
(* a count of events as the data.  Notify itself is tokio's: one permit,   *)
(* one Notified future that is built, then enqueued by its first poll.     *)
(***************************************************************************)
EXTENDS Naturals

CONSTANTS
  Wakers,     \* threads that publish data and call wake
  MaxPosts    \* bound: no data is published once this many are in memory

ASSUME NotifyAssumption == MaxPosts \in Nat

VARIABLES
  posted, taken,  \* the caller's data, in memory
  buf,            \* data stores still in each waker's store buffer
  armed,          \* WakeGate's count of live GuardedNotified futures
  permit,         \* Notify holds a stored permit
  notified,       \* the Notified future: none, built, enqueued or notified
  wkpc,           \* where each waker is in wake
  wpc,            \* where the task is in wait_until
  result          \* how the last wait ended

dataVars == <<posted, taken, buf>>
gateVars == <<armed, permit, notified>>
vars == <<dataVars, gateVars, wkpc, wpc, result>>

\* Points of the task at which its guard is alive, and of the whole wait.
Guarded == {"recheck", "poll", "suspended", "disarm", "leave", "cancelled"}
Waiting == Guarded \cup {"entry", "arm", "final"}

Ready == posted > taken

TypeOK ==
  /\ posted \in Nat /\ taken \in Nat
  /\ buf \in [Wakers -> Nat]
  /\ armed \in 0..1 /\ permit \in BOOLEAN
  /\ notified \in {"none", "built", "enqueued", "notified"}
  /\ wkpc \in [Wakers -> {"idle", "probe", "rmw", "notify"}]
  /\ wpc \in Waiting \cup {"idle"}
  /\ result \in {"none", "ready"}

\* NotifyWaiter::default(): disarmed, no permit.
Init ==
  /\ posted = 0 /\ taken = 0
  /\ buf = [w \in Wakers |-> 0]
  /\ armed = 0 /\ permit = FALSE /\ notified = "none"
  /\ wkpc = [w \in Wakers |-> "idle"]
  /\ wpc = "idle" /\ result = "none"

-----------------------------------------------------------------------------
(* Wakers: the caller's data store, then WakeGate::wake.                   *)

WakerAt(w, from, to) ==
  /\ wkpc[w] = from
  /\ wkpc' = [wkpc EXCEPT ![w] = to]

\* The caller publishes a datum (a plain store) and calls wake.
Store(w) ==
  /\ posted < MaxPosts
  /\ WakerAt(w, "idle", "probe")
  /\ buf' = [buf EXCEPT ![w] = @ + 1]
  /\ UNCHANGED <<posted, taken, gateVars, wpc, result>>

\* The memory system writes back the oldest buffered store.
Flush(w) ==
  /\ buf[w] > 0
  /\ buf' = [buf EXCEPT ![w] = @ - 1]
  /\ posted' = posted + 1
  /\ UNCHANGED <<taken, gateVars, wkpc, wpc, result>>

\* T3a: the positive-only load.
ProbeLoad(w) ==
  /\ WakerAt(w, "probe", IF armed # 0 THEN "notify" ELSE "rmw")
  /\ UNCHANGED <<dataVars, gateVars, wpc, result>>

\* Mutant: the authoritative probe is a plain load.
ProbeRmw_Load(w) ==
  /\ WakerAt(w, "rmw", IF armed # 0 THEN "notify" ELSE "idle")
  /\ UNCHANGED <<dataVars, gateVars, wpc, result>>

\* T3b: armed.fetch_add(0), a locked instruction.
ProbeRmw(w) ==
  /\ buf[w] = 0
  /\ WakerAt(w, "rmw", IF armed # 0 THEN "notify" ELSE "idle")
  /\ UNCHANGED <<dataVars, gateVars, wpc, result>>

\* Mutant: a notification that finds nobody enqueued leaves no permit.
NotifyOne_NoPermit(w) ==
  /\ buf[w] = 0
  /\ WakerAt(w, "notify", "idle")
  /\ notified' = IF notified = "enqueued" THEN "notified" ELSE notified
  /\ UNCHANGED <<dataVars, armed, permit, wpc, result>>

\* Notify::notify_one: it dequeues the enqueued future, or stores a permit;
\* either way by a locked instruction.
NotifyOne(w) ==
  /\ buf[w] = 0
  /\ WakerAt(w, "notify", "idle")
  /\ IF notified = "enqueued"
       THEN notified' = "notified" /\ UNCHANGED permit
       ELSE permit' = TRUE /\ UNCHANGED notified
  /\ UNCHANGED <<dataVars, armed, wpc, result>>

WakerStep(w) == ProbeLoad(w) \/ ProbeRmw(w) \/ NotifyOne(w)

-----------------------------------------------------------------------------
(* The task.                                                               *)

TaskAt(from, to) == wpc = from /\ wpc' = to

Return == wpc' = "idle" /\ result' = "ready"

\* The caller consumes one datum after (or without) a wait.
Consume ==
  /\ wpc = "idle" /\ Ready
  /\ taken' = taken + 1 /\ result' = "none"
  /\ UNCHANGED <<posted, buf, gateVars, wkpc, wpc>>

\* wait_until is called and its future polled.
Call ==
  /\ TaskAt("idle", "entry")
  /\ result' = "none"
  /\ UNCHANGED <<dataVars, gateVars, wkpc>>

\* First evaluation of the predicate, before any arming.
Entry ==
  /\ wpc = "entry"
  /\ \/ Ready /\ Return
     \/ ~Ready /\ wpc' = "arm" /\ UNCHANGED result
  /\ UNCHANGED <<dataVars, gateVars, wkpc>>

\* Mutant: the predicate is evaluated before the gate is armed.
Notified_AfterCheck ==
  /\ TaskAt("arm", "poll")
  /\ armed' = armed + 1 /\ notified' = "built"
  /\ UNCHANGED <<dataVars, permit, wkpc, result>>

\* T1, WakeGate::notified: arm the gate, then build the Notified.
Notified ==
  /\ TaskAt("arm", "recheck")
  /\ armed' = armed + 1 /\ notified' = "built"
  /\ UNCHANGED <<dataVars, permit, wkpc, result>>

\* The predicate again, with the gate armed.
Recheck ==
  /\ TaskAt("recheck", IF Ready THEN "leave" ELSE "poll")
  /\ UNCHANGED <<dataVars, gateVars, wkpc, result>>

\* First poll of the Notified: it takes the permit, or enqueues itself and the
\* task is suspended.
Poll ==
  /\ wpc = "poll"
  /\ IF permit
       THEN permit' = FALSE /\ notified' = "notified" /\ wpc' = "disarm"
       ELSE notified' = "enqueued" /\ wpc' = "suspended" /\ UNCHANGED permit
  /\ UNCHANGED <<dataVars, armed, wkpc, result>>

\* The runtime polls the task once its Notified has been notified.
Resume ==
  /\ notified = "notified"
  /\ TaskAt("suspended", "disarm")
  /\ UNCHANGED <<dataVars, gateVars, wkpc, result>>

\* Mutant: the guard is not dropped with the future it guards.
Disarm_Forgotten ==
  /\ \/ TaskAt("disarm", "final") /\ UNCHANGED result
     \/ wpc = "leave" /\ Return
     \/ TaskAt("cancelled", "idle") /\ UNCHANGED result
  /\ notified' = "none"
  /\ UNCHANGED <<dataVars, armed, permit, wkpc>>

\* T2, DisarmOnDrop: after completion, on a true predicate, or on cancellation.
Disarm ==
  /\ \/ TaskAt("disarm", "final") /\ UNCHANGED result
     \/ wpc = "leave" /\ Return
     \/ TaskAt("cancelled", "idle") /\ UNCHANGED result
  /\ armed' = armed - 1 /\ notified' = "none"
  /\ UNCHANGED <<dataVars, permit, wkpc>>

\* The predicate after the await, with the gate disarmed.
Final ==
  /\ wpc = "final"
  /\ \/ Ready /\ Return
     \/ ~Ready /\ wpc' = "arm" /\ UNCHANGED result
  /\ UNCHANGED <<dataVars, gateVars, wkpc>>

\* Mutant: the guard is not part of the cancelled future.
Cancel_NoGuard ==
  /\ TaskAt("suspended", "idle")
  /\ permit' = (permit \/ notified = "notified")
  /\ notified' = "none"
  /\ UNCHANGED <<dataVars, armed, wkpc, result>>

\* The suspended future is dropped: first its Notified, which passes a
\* notification it has already received on as a permit, then its guard.
Cancel ==
  /\ TaskAt("suspended", "cancelled")
  /\ permit' = (permit \/ notified = "notified")
  /\ notified' = "none"
  /\ UNCHANGED <<dataVars, armed, wkpc, result>>

TaskStep ==
  Entry \/ Notified \/ Recheck \/ Poll \/ Resume \/ Disarm \/ Final

-----------------------------------------------------------------------------
Next ==
  \/ \E w \in Wakers : Store(w) \/ Flush(w) \/ WakerStep(w)
  \/ Consume \/ Call \/ TaskStep \/ Cancel

\* Running threads run, the runtime polls a task whose future was notified, and
\* the store buffer drains; data, calls and cancellations are the callers'.
Fairness ==
  /\ WF_vars(TaskStep)
  /\ \A w \in Wakers : WF_vars(WakerStep(w)) /\ WF_vars(Flush(w))

Spec     == Init /\ [][Next]_vars
LiveSpec == Spec /\ Fairness

-----------------------------------------------------------------------------
(* Properties.                                                             *)

\* The task sleeps, or its next step puts it to sleep.
Asleep ==
  \/ wpc = "poll" /\ ~permit
  \/ wpc = "suspended" /\ notified = "enqueued"

\* No wake is lost (module comment, "why no wake is ever lost"): a task that is
\* suspended, or about to be, while the predicate is true in memory is owed a
\* notification by a waker whose datum that was.
NoLostWake ==
  Asleep /\ Ready => \E w \in Wakers : wkpc[w] # "idle" /\ buf[w] = 0

\* The gate is armed exactly while a guarded future is alive, on every exit
\* path and between the two drops of a cancellation ("a cancelled wait leaves
\* armed back at 0"): no wake is skipped for a suspended task, and none costs
\* a notification once nobody waits.
ArmedWhileGuarded == armed = (IF wpc \in Guarded THEN 1 ELSE 0)

\* wait_until only returns with the predicate true, whatever stale permits of
\* earlier or cancelled waits it has met on the way.
HonestResult == result = "ready" => Ready

\* A wait whose predicate has become true ends.
ReadyReturns == wpc \in Waiting /\ Ready ~> wpc = "idle"
=============================================================================
