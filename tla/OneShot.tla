------------------------------- MODULE OneShot -------------------------------
(***************************************************************************)
(* The single-use reply slot of route/oneshot.rs: one Sender that sends or *)
(* is dropped, one Receiver that several threads may poll through &self    *)
(* (try_recv) before one of them consumes it (recv, recv_async) or drops   *)
(* it, an atomic state, a slot, and the Inner that dies with both halves.  *)
(* Each access to the state or the slot is a step; the waiter follows      *)
(* WakeContract, as in Ring.                                               *)
(***************************************************************************)
EXTENDS Naturals

CONSTANT Pollers  \* threads that may hold a reference to the receiver

VARIABLES
  state,           \* the atomic state
  slot,            \* what the slot holds: nothing, the value, moved-out bytes
  parked, token,   \* the waiter
  sp,              \* where the sender is
  rp,              \* where the consuming call (or Drop) of the receiver is
  poll,            \* where each polling thread is
  inFlight,        \* send was called with the value and has not placed it
  taken, dropped,  \* how often the value was handed out and destroyed
  answer,          \* what the consuming receive returned
  freed            \* Inner has been dropped

gate == <<parked, token>>
vars == <<state, slot, gate, sp, rp, poll, inFlight, taken, dropped, answer, freed>>

State == {"EMPTY", "FULL", "CLOSED", "TAKEN", "RX_DROPPED"}

TypeOK ==
  /\ state \in State
  /\ slot \in {"uninit", "value", "moved"}
  /\ parked \in BOOLEAN /\ token \in BOOLEAN
  /\ sp \in {"idle", "check", "write", "publish", "close", "wake", "done"}
  /\ rp \in {"idle", "take", "arm", "look", "sleep", "disarm", "final", "read", "drop", "done"}
  /\ poll \in [Pollers -> {"idle", "take", "read"}]
  /\ inFlight \in BOOLEAN
  /\ taken \in 0..1 /\ dropped \in 0..1
  /\ answer \in {"none", "value", "closed", "panic"}
  /\ freed \in BOOLEAN

Init ==
  /\ state = "EMPTY" /\ slot = "uninit"
  /\ parked = FALSE /\ token = FALSE
  /\ sp = "idle" /\ rp = "idle" /\ poll = [p \in Pollers |-> "idle"]
  /\ inFlight = FALSE /\ taken = 0 /\ dropped = 0
  /\ answer = "none" /\ freed = FALSE

-----------------------------------------------------------------------------
(* Sender.                                                                 *)

SenderAt(from, to) == sp = from /\ sp' = to

\* send(self, value) is called: from here its Drop is suppressed.
Send ==
  /\ SenderAt("idle", "check")
  /\ inFlight' = TRUE
  /\ UNCHANGED <<state, slot, gate, rp, poll, taken, dropped, answer, freed>>

\* The best-effort check: a receiver seen gone means the value is dropped here.
SendCheck ==
  /\ \/ /\ state = "RX_DROPPED"
        /\ SenderAt("check", "done")
        /\ inFlight' = FALSE /\ dropped' = dropped + 1
     \/ /\ state # "RX_DROPPED"
        /\ SenderAt("check", "write")
        /\ UNCHANGED <<inFlight, dropped>>
  /\ UNCHANGED <<state, slot, gate, rp, poll, taken, answer, freed>>

SendWrite ==
  /\ SenderAt("write", "publish")
  /\ slot' = "value" /\ inFlight' = FALSE
  /\ UNCHANGED <<state, gate, rp, poll, taken, dropped, answer, freed>>

\* state.store(FULL): a store, whatever the state has become meanwhile.
SendPublish ==
  /\ SenderAt("publish", "wake")
  /\ state' = "FULL"
  /\ UNCHANGED <<slot, gate, rp, poll, inFlight, taken, dropped, answer, freed>>

\* Drop of an unsent sender: CAS EMPTY -> CLOSED, and a wake if it succeeds.
SenderDrop ==
  /\ SenderAt("idle", "close")
  /\ UNCHANGED <<state, slot, gate, rp, poll, inFlight, taken, dropped, answer, freed>>

SenderClose ==
  /\ \/ state = "EMPTY" /\ state' = "CLOSED" /\ SenderAt("close", "wake")
     \/ state # "EMPTY" /\ SenderAt("close", "done") /\ UNCHANGED state
  /\ UNCHANGED <<slot, gate, rp, poll, inFlight, taken, dropped, answer, freed>>

\* Mutant: wake does nothing.
SenderWake_Dropped ==
  /\ SenderAt("wake", "done")
  /\ UNCHANGED <<state, slot, gate, rp, poll, inFlight, taken, dropped, answer, freed>>

SenderWake ==
  /\ SenderAt("wake", "done")
  /\ token' = (token \/ parked)
  /\ UNCHANGED <<state, slot, parked, rp, poll, inFlight, taken, dropped, answer, freed>>

SenderStep == SendCheck \/ SendWrite \/ SendPublish \/ SenderClose \/ SenderWake

-----------------------------------------------------------------------------
(* Receiver.                                                               *)

\* The value leaves the slot.
MoveOut == slot' = "moved" /\ taken' = taken + 1

\* try_recv(&self) by any thread that borrows the receiver.
StartPoll(p) ==
  /\ rp = "idle" /\ poll[p] = "idle"
  /\ poll' = [poll EXCEPT ![p] = "take"]
  /\ UNCHANGED <<state, slot, gate, sp, rp, inFlight, taken, dropped, answer, freed>>

\* Mutant: the state is loaded instead of swapped to TAKEN.
PollTake_Load(p) ==
  /\ poll[p] = "take"
  /\ poll' = [poll EXCEPT ![p] = IF state = "FULL" THEN "read" ELSE "idle"]
  /\ UNCHANGED <<state, slot, gate, sp, rp, inFlight, taken, dropped, answer, freed>>

\* try_take_inner: CAS FULL -> TAKEN, or no value for this poll ...
PollTake(p) ==
  /\ poll[p] = "take"
  /\ \/ state = "FULL" /\ state' = "TAKEN" /\ poll' = [poll EXCEPT ![p] = "read"]
     \/ state # "FULL" /\ poll' = [poll EXCEPT ![p] = "idle"] /\ UNCHANGED state
  /\ UNCHANGED <<slot, gate, sp, rp, inFlight, taken, dropped, answer, freed>>

\* ... and then the slot is read.
PollRead(p) ==
  /\ poll[p] = "read"
  /\ MoveOut
  /\ poll' = [poll EXCEPT ![p] = "idle"]
  /\ UNCHANGED <<state, gate, sp, rp, inFlight, dropped, answer, freed>>

ReceiverAt(from, to) == rp = from /\ rp' = to

\* recv(self) or Drop: the borrows have ended.
Consume(to) ==
  /\ ReceiverAt("idle", to)
  /\ \A p \in Pollers : poll[p] = "idle"
  /\ UNCHANGED <<state, slot, gate, sp, poll, inFlight, taken, dropped, answer, freed>>

\* Mutant: every failed take is reported as Closed.
RecvTake_EmptyIsClosed(from) ==
  /\ rp = from
  /\ \/ state = "FULL" /\ state' = "TAKEN" /\ rp' = "read" /\ UNCHANGED answer
     \/ state # "FULL" /\ rp' = "done" /\ answer' = "closed" /\ UNCHANGED state
  /\ UNCHANGED <<slot, gate, sp, poll, inFlight, taken, dropped, freed>>

\* One try_take_inner of recv, before (from = "take") or after the wait.  The
\* second must not come back empty-handed: it is unwrapped.
RecvTake(from) ==
  /\ rp = from
  /\ \/ state = "FULL" /\ state' = "TAKEN" /\ rp' = "read" /\ UNCHANGED answer
     \/ /\ state \in {"CLOSED", "TAKEN"}
        /\ rp' = "done" /\ answer' = "closed" /\ UNCHANGED state
     \/ /\ state \in {"EMPTY", "RX_DROPPED"} /\ UNCHANGED state
        /\ IF from = "take" THEN rp' = "arm" /\ UNCHANGED answer
                            ELSE rp' = "done" /\ answer' = "panic"
  /\ UNCHANGED <<slot, gate, sp, poll, inFlight, taken, dropped, freed>>

RecvRead ==
  /\ ReceiverAt("read", "done")
  /\ MoveOut
  /\ answer' = "value"
  /\ UNCHANGED <<state, gate, sp, poll, inFlight, dropped, freed>>

\* wait_until(|| state != EMPTY).
RecvArm ==
  /\ ReceiverAt("arm", "look")
  /\ parked' = TRUE
  /\ UNCHANGED <<state, slot, token, sp, poll, inFlight, taken, dropped, answer, freed>>

RecvLook ==
  /\ ReceiverAt("look", IF state # "EMPTY" THEN "disarm" ELSE "sleep")
  /\ UNCHANGED <<state, slot, gate, sp, poll, inFlight, taken, dropped, answer, freed>>

RecvWoken ==
  /\ token
  /\ ReceiverAt("sleep", "look")
  /\ token' = FALSE
  /\ UNCHANGED <<state, slot, parked, sp, poll, inFlight, taken, dropped, answer, freed>>

RecvDisarm ==
  /\ ReceiverAt("disarm", "final")
  /\ parked' = FALSE
  /\ UNCHANGED <<state, slot, token, sp, poll, inFlight, taken, dropped, answer, freed>>

\* The future of recv_async is dropped while it waits: the receiver's Drop
\* was suppressed, so the state is not marked.
RecvCancel ==
  /\ ReceiverAt("sleep", "done")
  /\ parked' = FALSE
  /\ UNCHANGED <<state, slot, token, sp, poll, inFlight, taken, dropped, answer, freed>>

\* Drop for Receiver: CAS EMPTY -> RX_DROPPED.
ReceiverDrop ==
  /\ ReceiverAt("drop", "done")
  /\ state' = IF state = "EMPTY" THEN "RX_DROPPED" ELSE state
  /\ UNCHANGED <<slot, gate, sp, poll, inFlight, taken, dropped, answer, freed>>

ReceiverStep ==
  \/ RecvTake("take") \/ RecvTake("final") \/ RecvRead
  \/ RecvArm \/ RecvLook \/ RecvWoken \/ RecvDisarm \/ ReceiverDrop

-----------------------------------------------------------------------------
\* Mutant: a slot that was ever written is dropped, taken or not.
DropInner_Written ==
  /\ sp = "done" /\ rp = "done" /\ ~freed
  /\ freed' = TRUE
  /\ \/ slot # "uninit" /\ slot' = "moved" /\ dropped' = dropped + 1
     \/ slot = "uninit" /\ UNCHANGED <<slot, dropped>>
  /\ UNCHANGED <<state, gate, sp, rp, poll, inFlight, taken, answer>>

\* Drop for Inner, when both halves have released it.
DropInner ==
  /\ sp = "done" /\ rp = "done" /\ ~freed
  /\ freed' = TRUE
  /\ \/ state = "FULL" /\ slot' = "moved" /\ dropped' = dropped + 1
     \/ state # "FULL" /\ UNCHANGED <<slot, dropped>>
  /\ UNCHANGED <<state, gate, sp, rp, poll, inFlight, taken, answer>>

Next ==
  \/ Send \/ SenderDrop \/ SenderStep
  \/ \E p \in Pollers : StartPoll(p) \/ PollTake(p) \/ PollRead(p)
  \/ \E to \in {"take", "drop"} : Consume(to)
  \/ ReceiverStep \/ RecvCancel
  \/ DropInner

\* A call that has begun runs on, and the last reference frees the Inner.
Fairness == WF_vars(SenderStep) /\ WF_vars(ReceiverStep) /\ WF_vars(DropInner)

Spec     == Init /\ [][Next]_vars
LiveSpec == Spec /\ Fairness

-----------------------------------------------------------------------------
(* Properties.                                                             *)

\* The value is handed out or destroyed at most once, and exactly once by the
\* time the Inner is gone, however sends, polls and drops of the two halves
\* interleave (comments of send and of both Drops).
ValueExactlyOnce ==
  /\ taken + dropped <= 1
  /\ freed /\ slot # "uninit" => taken + dropped = 1
  /\ freed => ~inFlight /\ slot # "value"

\* What a recv that has waited concludes from one look at the state.  Closed
\* only if the value can never come: the sender was dropped unsent, or an
\* earlier poll took the value; and never a panic: "predicate guarantees state
\* != EMPTY => try_take_inner returns Some".  (recv owns the receiver, so the
\* polls have ended by then; what they left behind is in the state.)
ClosedIsFinal ==
  /\ answer = "closed" => taken = 1 \/ (state = "CLOSED" /\ sp \in {"wake", "done"})
  /\ answer # "panic"

\* A blocked recv returns once the sender has sent or is gone.
RecvReturns == rp \notin {"idle", "done"} /\ sp = "done" ~> rp = "done"
=============================================================================
