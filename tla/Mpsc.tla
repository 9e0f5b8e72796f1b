-------------------------------- MODULE Mpsc --------------------------------
(***************************************************************************)
(* The M:1 channel of route/mpsc.rs: one ring per producer, scanned by one *)
(* consumer; a fan-in waiter for the consumer, a back-pressure waiter per  *)
(* producer, a count of live producers and a shutdown flag.                *)
(*                                                                         *)
(* A ring is the bounded FIFO it implements (RingRefinement), here only    *)
(* the number of items in it; its own waiters are NoopWaiters.  Waiters    *)
(* follow WakeContract: waiter 0 is the consumer's, waiter p producer p's. *)
(* Each access to the flag, the count, a ring or a waiter is a step.       *)
(***************************************************************************)
EXTENDS Integers

CONSTANTS
  M,    \* producers
  CAP,  \* capacity of each ring
  SENDS, RECVS   \* the calls each producer and the consumer make

\* "send" stands for send_async too, "recv" and "recv_batch" for their async
\* forms: what sets the async_send ones apart is that they arm ahead.
AllSends == {"try_send", "try_send_bulk", "send", "send_async_send"}
AllRecvs == {"try_recv", "try_recv_batch", "recv", "recv_batch",
             "recv_async_send", "recv_batch_async_send"}

ASSUME MpscAssumption ==
  /\ M \in Nat \ {0} /\ CAP \in Nat \ {0}
  /\ SENDS \in [1..M -> SUBSET AllSends] /\ RECVS \subseteq AllRecvs

VARIABLES
  count,                \* items in each producer's ring
  live,                 \* live_producers
  sd,                   \* signal: -1 not called, w about to wake w, M + 1 over
  parked, token,        \* the waiters
  pp, send,             \* where each producer is, and in which call
  cp, recv,             \* where the consumer is, and in which call
  i, stop, pass, total, \* its scan: ring, end of a drain, found in pass, at all
  ended                 \* the last receive returned Err(Shutdown)

gates == <<parked, token>>
prod  == <<pp, send>>
scan  == <<i, stop, pass, total>>
cons  == <<cp, recv, scan, ended>>
vars  == <<count, live, sd, gates, prod, cons>>

Producers == 1..M
Shutdown  == sd >= 0
ArmsAhead == recv \in {"recv_async_send", "recv_batch_async_send"}
Tries     == recv \in {"try_recv", "try_recv_batch"}
batch     == recv \in {"try_recv_batch", "recv_batch", "recv_batch_async_send"}

TypeOK ==
  /\ count \in [Producers -> 0..CAP]
  /\ live \in 0..M /\ sd \in -1 .. M + 1
  /\ parked \in [0..M -> BOOLEAN] /\ token \in [0..M -> BOOLEAN]
  /\ pp \in [Producers -> {"idle", "check", "try", "push", "wake", "arm", "look",
                           "lookFull", "sleep", "disarm", "leave", "drop", "lastWake", "gone"}]
  /\ send \in [Producers -> AllSends \cup {"none"}]
  /\ cp \in {"idle", "arm", "scan", "commit", "wake", "finShutdown", "finLive", "finScan",
             "look", "sleep", "disarm", "leave", "gone"}
  /\ recv \in RECVS \cup {"none"}
  /\ i \in Producers /\ stop \in 0..CAP /\ pass \in BOOLEAN /\ total \in BOOLEAN
  /\ ended \in BOOLEAN

Init ==
  /\ count = [p \in Producers |-> 0]
  /\ live = M /\ sd = -1
  /\ parked = [w \in 0..M |-> FALSE] /\ token = [w \in 0..M |-> FALSE]
  /\ pp = [p \in Producers |-> "idle"] /\ send = [p \in Producers |-> "none"]
  /\ cp = "idle" /\ recv = "none"
  /\ i = 1 /\ stop = 0 /\ pass = FALSE /\ total = FALSE
  /\ ended = FALSE

Wake(w)   == token' = [token EXCEPT ![w] = @ \/ parked[w]]
Arm(w, b) == parked' = [parked EXCEPT ![w] = b]
\* The wait is over.  A token that comes too late is forgotten: kept, it would
\* only have the next wait look once more.
Disarm(w) == Arm(w, FALSE) /\ token' = [token EXCEPT ![w] = FALSE]
Take(w)   == token[w] /\ token' = [token EXCEPT ![w] = FALSE]

-----------------------------------------------------------------------------
(* Producers.                                                              *)

ProducerAt(p, from, to) ==
  /\ pp[p] = from
  /\ pp' = [pp EXCEPT ![p] = to]
  /\ send' = IF to = "idle" THEN [send EXCEPT ![p] = "none"] ELSE send

prodElse == <<live, sd, cons>>

\* try_send, try_send_bulk, send (or send_async), send_async_send is called.
StartSend(p, op) ==
  /\ pp[p] = "idle"
  /\ pp' = [pp EXCEPT ![p] = CASE op = "send" -> "check"
                               [] op = "send_async_send" -> "arm"
                               [] OTHER -> "try"]
  /\ send' = [send EXCEPT ![p] = op]
  /\ UNCHANGED <<count, live, sd, gates, cons>>

\* send: the flag, at the head of the loop.
SendCheck(p) ==
  /\ ProducerAt(p, "check", IF Shutdown THEN "idle" ELSE "try")
  /\ UNCHANGED <<count, gates, prodElse>>

\* What a send that could not place its item does next.
Refused(p) ==
  CASE send[p] = "send" -> "arm"
    [] send[p] = "send_async_send" -> "sleep"
    [] OTHER -> "idle"

\* try_send: the flag again.
TryCheck(p) ==
  /\ ProducerAt(p, "try", IF ~Shutdown THEN "push"
                          ELSE IF send[p] = "send_async_send" THEN "leave"
                          ELSE Refused(p))
  /\ UNCHANGED <<count, gates, prodElse>>

\* Mutant: the capacity of the ring is not looked at.
Push_NoRoom(p) ==
  /\ ProducerAt(p, "push", "wake")
  /\ count' = [count EXCEPT ![p] = @ + 1]
  /\ UNCHANGED <<gates, prodElse>>

\* The ring takes the item (or the burst, as far as there is room), or is
\* full; a full ring whose consumer is gone ends send_async_send.
Push(p) ==
  /\ \/ \E k \in 1 .. CAP - count[p] :
          /\ k = 1 \/ send[p] = "try_send_bulk"
          /\ ProducerAt(p, "push", "wake")
          /\ count' = [count EXCEPT ![p] = @ + k]
     \/ /\ count[p] = CAP
        /\ ProducerAt(p, "push", IF send[p] = "send_async_send" /\ cp = "gone"
                                   THEN "leave" ELSE Refused(p))
        /\ UNCHANGED count
  /\ UNCHANGED <<gates, prodElse>>

\* Mutant: the wake is kept for the first item of a ring (R1).
FanInWake_OnEdge(p) ==
  /\ ProducerAt(p, "wake", IF send[p] = "send_async_send" THEN "leave" ELSE "idle")
  /\ IF count[p] = 1 THEN Wake(0) ELSE UNCHANGED token
  /\ UNCHANGED <<count, parked, prodElse>>

\* R1: the consumer is woken unconditionally.
FanInWake(p) ==
  /\ ProducerAt(p, "wake", IF send[p] = "send_async_send" THEN "leave" ELSE "idle")
  /\ Wake(0)
  /\ UNCHANGED <<count, parked, prodElse>>

\* The producer announces its wait: before the predicate of wait_until, or, in
\* send_async_send, before the attempt itself.
ProducerArm(p) ==
  /\ ProducerAt(p, "arm", IF send[p] = "send" THEN "look" ELSE "try")
  /\ Arm(p, TRUE)
  /\ UNCHANGED <<count, token, prodElse>>

\* The predicate: shutdown ...
ProducerLook(p) ==
  /\ ProducerAt(p, "look", IF Shutdown THEN "disarm" ELSE "lookFull")
  /\ UNCHANGED <<count, gates, prodElse>>

\* ... or a ring that is not full.
ProducerLookFull(p) ==
  /\ ProducerAt(p, "lookFull", IF count[p] < CAP THEN "disarm" ELSE "sleep")
  /\ UNCHANGED <<count, gates, prodElse>>

ProducerWoken(p) ==
  /\ ProducerAt(p, "sleep", IF send[p] = "send" THEN "look" ELSE "disarm")
  /\ Take(p)
  /\ UNCHANGED <<count, parked, prodElse>>

\* The wait is over and the loop begins again.
ProducerDisarm(p) ==
  /\ ProducerAt(p, "disarm", IF send[p] = "send" THEN "check" ELSE "arm")
  /\ Disarm(p)
  /\ UNCHANGED <<count, prodElse>>

\* send_async_send returns, dropping its guard.
ProducerLeave(p) ==
  /\ ProducerAt(p, "leave", "idle")
  /\ Disarm(p)
  /\ UNCHANGED <<count, prodElse>>

\* An asynchronous send is dropped while suspended.
ProducerCancel(p) ==
  /\ ProducerAt(p, "sleep", "idle")
  /\ Disarm(p)
  /\ UNCHANGED <<count, prodElse>>

\* Drop for MpscProducer: the ring is closed, which its consumer takes for
\* empty ...
ProducerDrop(p) ==
  /\ ProducerAt(p, "idle", "drop")
  /\ UNCHANGED <<count, gates, prodElse>>

\* ... the count goes down ...
Decrement(p) ==
  /\ live' = live - 1
  /\ ProducerAt(p, "drop", IF live = 1 THEN "lastWake" ELSE "gone")
  /\ UNCHANGED <<count, sd, gates, cons>>

\* ... and the last one wakes the consumer.
LastWake(p) ==
  /\ ProducerAt(p, "lastWake", "gone")
  /\ Wake(0)
  /\ UNCHANGED <<count, parked, prodElse>>

ProducerStep(p) ==
  \/ SendCheck(p) \/ TryCheck(p) \/ Push(p) \/ FanInWake(p)
  \/ ProducerArm(p) \/ ProducerLook(p) \/ ProducerLookFull(p)
  \/ ProducerWoken(p) \/ ProducerDisarm(p) \/ ProducerLeave(p)
  \/ Decrement(p) \/ LastWake(p)

-----------------------------------------------------------------------------
(* Shutdown.                                                               *)

\* signal: the flag ...
Signal == sd = -1 /\ sd' = 0 /\ UNCHANGED <<count, live, gates, prod, cons>>

\* Mutant: only the consumer is woken.
SignalWake_FanInOnly ==
  /\ sd \in 0..M
  /\ sd' = sd + 1
  /\ IF sd = 0 THEN Wake(0) ELSE UNCHANGED token
  /\ UNCHANGED <<count, live, parked, prod, cons>>

\* ... then every waiter, the fan-in first.
SignalWake ==
  /\ sd \in 0..M
  /\ sd' = sd + 1
  /\ Wake(sd)
  /\ UNCHANGED <<count, live, parked, prod, cons>>

-----------------------------------------------------------------------------
(* Consumer.                                                               *)

Goto(to) ==
  /\ cp' = to
  /\ recv' = IF to = "idle" THEN "none" ELSE recv
  /\ UNCHANGED ended
ConsumerAt(from, to) == cp = from /\ Goto(to)

consElse == <<live, sd, prod>>

\* Where a call that has its answer goes: the async_send ones drop a guard.
Back == IF ArmsAhead THEN "leave" ELSE "idle"

\* Where a scan that found every ring empty goes.
NoItem == IF Tries THEN "idle" ELSE "finShutdown"

FirstRing == i' = 1 /\ stop' = 0 /\ pass' = FALSE /\ total' = FALSE
NextRing  == i' = i + 1 /\ UNCHANGED <<stop, pass, total>>

\* try_recv, recv, recv_async_send or their batch form is called.
StartRecv(op) ==
  /\ cp = "idle"
  /\ recv' = op /\ ended' = FALSE
  /\ cp' = IF op \in {"recv_async_send", "recv_batch_async_send"} THEN "arm" ELSE "scan"
  /\ UNCHANGED <<count, gates, scan, consElse>>

\* try_recv, one ring of the scan.
TryRecv ==
  /\ cp = "scan" /\ ~batch
  /\ \/ /\ count[i] > 0
        /\ count' = [count EXCEPT ![i] = @ - 1]
        /\ Goto("wake") /\ UNCHANGED scan
     \/ /\ count[i] = 0 /\ i < M
        /\ NextRing /\ UNCHANGED <<count, cp, recv, ended>>
     \/ /\ count[i] = 0 /\ i = M
        /\ Goto(NoItem) /\ FirstRing /\ UNCHANGED count
  /\ UNCHANGED <<gates, consElse>>

\* try_recv_batch, after one ring: the next one, or another pass if this one
\* found something, or the end.
NextDrain ==
  \/ i < M /\ Goto("scan") /\ NextRing
  \/ /\ i = M /\ pass
     /\ Goto("scan") /\ i' = 1 /\ pass' = FALSE /\ UNCHANGED <<stop, total>>
  \/ /\ i = M /\ ~pass
     /\ Goto(IF total THEN Back ELSE NoItem) /\ FirstRing

\* drain of one ring: its head is read once ...
DrainRing ==
  /\ cp = "scan" /\ batch
  /\ \/ /\ count[i] > 0
        /\ stop' = count[i] /\ Goto("commit") /\ UNCHANGED <<i, pass, total>>
     \/ /\ count[i] = 0
        /\ NextDrain
  /\ UNCHANGED <<count, gates, consElse>>

\* ... and the room comes back when every callback has returned.
DrainCommit ==
  /\ ConsumerAt("commit", "wake")
  /\ count' = [count EXCEPT ![i] = @ - stop]
  /\ stop' = 0 /\ pass' = TRUE /\ total' = TRUE
  /\ UNCHANGED <<gates, i, consElse>>

\* A callback panics: the ring's guard gives back what was moved out, and the
\* unwinding drops the armed guard, if any, and the consumer.
DrainPanic ==
  /\ ConsumerAt("commit", "gone")
  /\ \E k \in 1..stop : count' = [count EXCEPT ![i] = @ - k]
  /\ FirstRing
  /\ IF ArmsAhead THEN Disarm(0) ELSE UNCHANGED gates
  /\ UNCHANGED consElse

\* Mutant: the wake goes to the first producer, whichever ring was emptied.
WakeProducer_First ==
  /\ cp = "wake"
  /\ Wake(1)
  /\ \/ ~batch /\ Goto(Back) /\ FirstRing
     \/ batch /\ NextDrain
  /\ UNCHANGED <<count, parked, consElse>>

\* The producer of that ring is woken.
WakeProducer ==
  /\ cp = "wake"
  /\ Wake(i)
  /\ \/ ~batch /\ Goto(Back) /\ FirstRing
     \/ batch /\ NextDrain
  /\ UNCHANGED <<count, parked, consElse>>

\* is_finished is asked before the wait, and again by the predicate of the
\* wait once the gate is armed (in the async_send calls it is always armed).
Finished ==
  \/ ~ArmsAhead /\ parked[0] /\ Goto("disarm")
  \/ /\ ArmsAhead \/ ~parked[0]
     /\ cp' = Back /\ ended' = TRUE
     /\ recv' = IF ArmsAhead THEN recv ELSE "none"
NotFinished == Goto(IF parked[0] THEN "sleep" ELSE "arm")

IsShutdown ==
  /\ cp = "finShutdown"
  /\ \/ Shutdown /\ Finished
     \/ ~Shutdown /\ Goto("finLive")
  /\ UNCHANGED <<count, gates, scan, consElse>>

\* Mutant: the rings are not looked at once the producers are gone.
AllProducersGone_NoScan ==
  /\ cp = "finLive"
  /\ \/ live = 0 /\ Finished
     \/ live > 0 /\ NotFinished
  /\ UNCHANGED <<count, gates, scan, consElse>>

AllProducersGone ==
  /\ cp = "finLive"
  /\ \/ live = 0 /\ Goto("finScan")
     \/ live > 0 /\ NotFinished
  /\ UNCHANGED <<count, gates, scan, consElse>>

\* !any_ring_has_work(), one ring.
FinishedScan ==
  /\ cp = "finScan"
  /\ \/ count[i] > 0 /\ NotFinished /\ FirstRing
     \/ count[i] = 0 /\ i = M /\ Finished /\ FirstRing
     \/ count[i] = 0 /\ i < M /\ NextRing /\ UNCHANGED <<cp, recv, ended>>
  /\ UNCHANGED <<count, gates, consElse>>

\* fanin_waiter.wait_until, or notified() ahead of the scan.
ConsumerArm ==
  /\ ConsumerAt("arm", IF ArmsAhead THEN "scan" ELSE "look")
  /\ Arm(0, TRUE)
  /\ UNCHANGED <<count, token, scan, consElse>>

\* any_ring_has_work(), one ring of the predicate.
LookRing ==
  /\ cp = "look"
  /\ \/ count[i] > 0 /\ Goto("disarm") /\ FirstRing
     \/ count[i] = 0 /\ i = M /\ Goto("finShutdown") /\ FirstRing
     \/ count[i] = 0 /\ i < M /\ NextRing /\ UNCHANGED <<cp, recv, ended>>
  /\ UNCHANGED <<count, gates, consElse>>

ConsumerWoken ==
  /\ ConsumerAt("sleep", IF ArmsAhead THEN "disarm" ELSE "look")
  /\ Take(0)
  /\ UNCHANGED <<count, parked, scan, consElse>>

ConsumerDisarm ==
  /\ ConsumerAt("disarm", IF ArmsAhead THEN "arm" ELSE "scan")
  /\ Disarm(0)
  /\ UNCHANGED <<count, scan, consElse>>

ConsumerLeave ==
  /\ ConsumerAt("leave", "idle")
  /\ Disarm(0)
  /\ UNCHANGED <<count, scan, consElse>>

\* An asynchronous receive is dropped while suspended.
ConsumerCancel ==
  /\ ConsumerAt("sleep", "idle")
  /\ Disarm(0)
  /\ UNCHANGED <<count, scan, consElse>>

\* MpscConsumer has no Drop: its rings are closed, and nobody is woken.
ConsumerDrop ==
  /\ ConsumerAt("idle", "gone")
  /\ UNCHANGED <<count, gates, scan, consElse>>

ConsumerStep ==
  \/ TryRecv \/ DrainRing \/ DrainCommit \/ WakeProducer
  \/ IsShutdown \/ AllProducersGone \/ FinishedScan
  \/ ConsumerArm \/ LookRing \/ ConsumerWoken \/ ConsumerDisarm \/ ConsumerLeave

-----------------------------------------------------------------------------
Next ==
  \/ \E p \in Producers :
       \/ \E op \in SENDS[p] : StartSend(p, op)
       \/ ProducerStep(p) \/ ProducerCancel(p) \/ ProducerDrop(p)
  \/ Signal \/ SignalWake
  \/ \E op \in RECVS : StartRecv(op)
  \/ ConsumerStep \/ ConsumerCancel \/ ConsumerDrop \/ DrainPanic

\* A call that has begun runs on; calls, cancellations, panics and drops are
\* the callers' choice.
Fairness ==
  /\ \A p \in Producers : WF_vars(ProducerStep(p))
  /\ WF_vars(ConsumerStep)
  /\ WF_vars(SignalWake)

Spec     == Init /\ [][Next]_vars
LiveSpec == Spec /\ Fairness

-----------------------------------------------------------------------------
(* Properties.                                                             *)

\* "All producers gone AND every ring drained": without a shutdown, a receive
\* ends the channel only when nothing can arrive and nothing is left, though
\* the count is read before the rings and producers run in between.
EndMeansDrained ==
  ended /\ ~Shutdown =>
    \A p \in Producers : pp[p] \in {"lastWake", "gone"} /\ count[p] = 0

\* "Err(Shutdown) after shutdown AND all rings drained" (recv; docs/mpsc.md:
\* "after draining any pending messages"): with no send under way, a receive
\* that decides to end the channel leaves no item behind.
ShutdownDrains ==
  [][/\ ~ended /\ ended'
     /\ \A p \in Producers : pp[p] = "idle"
     => \A p \in Producers : count[p] = 0]_vars

\* A producer asleep on its own waiter while its ring has room, or after the
\* signal, has its token or is owed it; a consumer that is gone owes nothing.
SenderOwedWake ==
  \A p \in Producers :
    pp[p] = "sleep" /\ (count[p] < CAP \/ Shutdown) =>
      \/ token[p] \/ sd \in 0..p
      \/ cp = "wake" /\ i = p
      \/ cp = "gone"

\* The consumer asleep while any ring has an item, after the last producer or
\* after the signal has its token or is owed it, by whichever producer it was;
\* what it saw of one ring while it scanned the others may be stale.
ReceiverOwedWake ==
  cp = "sleep" /\ (Shutdown \/ live = 0 \/ \E p \in Producers : count[p] > 0) =>
    \/ token[0] \/ sd = 0
    \/ \E p \in Producers : pp[p] \in {"wake", "lastWake"}

Sending(p) == pp[p] \in {"check", "try", "push", "arm", "look", "lookFull", "sleep", "disarm"}

\* Nobody sleeps for ever with a reason to be up: a send with room in its ring,
\* while there is a consumer; a receive with an item in some ring, after the
\* last producer or after the signal.  No send, asleep or not, outlives the
\* signal.
Unblocks ==
  /\ \A p \in Producers :
       /\ []<>~(pp[p] = "sleep" /\ cp # "gone" /\ count[p] < CAP)
       /\ []<>~(Sending(p) /\ Shutdown)
  /\ []<>~(cp = "sleep" /\ (Shutdown \/ live = 0 \/ \E p \in Producers : count[p] > 0))
=============================================================================
