-------------------------------- MODULE Mpmc --------------------------------
(***************************************************************************)
(* The M:N channel of route/mpmc.rs: one shard per consumer, one ring per  *)
(* producer in each; producers rotate over the shards, consumers scan the  *)
(* rings of their own; counts of live producers and consumers, a flag.     *)
(*                                                                         *)
(* A ring is the number of items in it.  Of a waiter (1..N the consumers', *)
(* N + 1 .. N + M the producers') only the promise of WakeContract is left:*)
(* its owner looks, falls asleep if there is nothing to see, and is roused *)
(* by the next wake.                                                       *)
(*                                                                         *)
(* Each access to a count, the flag, a ring or a waiter is a step, but a   *)
(* predicate that nobody except its reader can make false again (terminal, *)
(* room in my rings, work in my shard) is evaluated in one: where it came  *)
(* out false, it was false when its evaluation began.                      *)
(***************************************************************************)
EXTENDS Integers

CONSTANTS
  M, N,          \* producers; consumers, each with its shard
  CAP,           \* RING_CAP
  SENDS, RECVS   \* the calls each producer, each consumer makes

\* "send" and "recv" stand for send_async and recv_async too, whose loops are
\* the same; only these can be dropped while suspended.
AllSends == {"try_send", "try_send_batch", "send"}
AllRecvs == {"try_recv", "try_recv_batch", "recv", "recv_batch"}

ASSUME MpmcAssumption ==
  /\ M \in Nat \ {0} /\ N \in Nat \ {0} /\ CAP \in Nat \ {0}
  /\ SENDS \in [1..M -> SUBSET AllSends] /\ RECVS \in [1..N -> SUBSET AllRecvs]

VARIABLES
  count,                            \* items in shards[s].rings[p]
  live_producers, live_consumers,
  sd,                               \* signal: 0 not called, w about to wake w, over
  asleep,                           \* the waiters whose owners sleep
  pp, send, cursor, k,              \* producers; k shards scanned, or woken
  cp, recv, i, stop, progress, got, \* consumers; ring i scanned, or producer woken
  had                               \* history: the shard had items at the call

lives == <<live_producers, live_consumers>>
prod  == <<pp, send, cursor, k>>
scan  == <<i, stop, progress, got>>
cons  == <<cp, recv, scan, had>>
vars  == <<count, lives, sd, asleep, prod, cons>>

Producers == 1..M
Shards    == 1..N
Waiters   == 1 .. N + M

Shutdown == sd > 0
is_terminal_for_consumer == Shutdown \/ live_producers = 0
is_terminal_for_producer == Shutdown \/ live_consumers = 0
has_idle_shard(p)    == \E s \in Shards : count[s][p] < CAP
any_ring_has_work(s) == \E p \in Producers : count[s][p] > 0

TypeOK ==
  /\ count \in [Shards -> [Producers -> 0..CAP]]
  /\ live_producers \in 0..M /\ live_consumers \in 0..N
  /\ sd \in 0 .. N + M + 1
  /\ asleep \subseteq Waiters
  /\ pp \in [Producers -> {"idle", "try", "scan", "wake", "wait", "lastWake", "gone"}]
  /\ send \in [Producers -> AllSends \cup {"none"}]
  /\ cursor \in [Producers -> Shards] /\ k \in [Producers -> 0 .. N - 1]
  /\ cp \in [Shards -> {"idle", "scan", "commit", "wake", "terminal", "wait", "unwind",
                        "lastWake", "gone"}]
  /\ recv \in [Shards -> AllRecvs \cup {"none"}]
  /\ i \in [Shards -> Producers] /\ stop \in [Shards -> 0..CAP]
  /\ progress \in [Shards -> BOOLEAN] /\ got \in [Shards -> BOOLEAN]
  /\ had \in [Shards -> BOOLEAN]

Init ==
  /\ count = [s \in Shards |-> [p \in Producers |-> 0]]
  /\ live_producers = M /\ live_consumers = N
  /\ sd = 0
  /\ asleep = {}
  /\ pp = [p \in Producers |-> "idle"] /\ send = [p \in Producers |-> "none"]
  /\ cursor = [p \in Producers |-> ((p - 1) % N) + 1] /\ k = [p \in Producers |-> 0]
  /\ cp = [s \in Shards |-> "idle"] /\ recv = [s \in Shards |-> "none"]
  /\ i = [s \in Shards |-> 1] /\ stop = [s \in Shards |-> 0]
  /\ progress = [s \in Shards |-> FALSE] /\ got = [s \in Shards |-> FALSE]
  /\ had = [s \in Shards |-> FALSE]

Wake(w) == asleep' = asleep \ {w}

\* wait_until: done when b is true; otherwise its owner sleeps.
Wait(w, b) ==
  /\ w \notin asleep
  /\ asleep' = IF b THEN asleep ELSE asleep \cup {w}

-----------------------------------------------------------------------------
(* Producers.                                                              *)

ProducerAt(p, from, to) ==
  /\ pp[p] = from
  /\ pp' = [pp EXCEPT ![p] = to]
  /\ send' = IF to = "idle" THEN [send EXCEPT ![p] = "none"] ELSE send

prodElse == <<lives, sd, cons>>

\* The shard a scan is at: k further than the cursor.
At(p) == ((cursor[p] - 1 + k[p]) % N) + 1

\* try_send, try_send_batch or send is called; send asks at once whether there
\* is anybody to send to.
StartSend(p, op) ==
  /\ pp[p] = "idle"
  /\ op = "send" => ~is_terminal_for_producer
  /\ pp' = [pp EXCEPT ![p] = IF op = "try_send_batch" THEN "scan" ELSE "try"]
  /\ send' = [send EXCEPT ![p] = op]
  /\ UNCHANGED <<count, asleep, cursor, k, prodElse>>

\* What a call that could not place its item does next.
Refused(p) == IF send[p] = "send" THEN "wait" ELSE "idle"

\* try_send (in send: once more); try_send_batch does not ask.
TryCheck(p) ==
  /\ ProducerAt(p, "try", IF is_terminal_for_producer THEN Refused(p) ELSE "scan")
  /\ UNCHANGED <<count, asleep, cursor, k, prodElse>>

\* Mutant: the tail is not compared.
ScanShard_NoRoom(p) ==
  /\ ProducerAt(p, "scan", "wake")
  /\ count' = [count EXCEPT ![At(p)][p] = @ + 1]
  /\ UNCHANGED <<asleep, cursor, k, prodElse>>

\* The ring of one shard takes the item (of a batch, what fits), or is full
\* and the next shard is tried.
ScanShard(p) ==
  /\ \/ \E n \in 1 .. CAP - count[At(p)][p] :
          /\ n = 1 \/ send[p] = "try_send_batch"
          /\ ProducerAt(p, "scan", "wake")
          /\ count' = [count EXCEPT ![At(p)][p] = @ + n]
          /\ UNCHANGED k
     \/ /\ count[At(p)][p] = CAP /\ k[p] + 1 < N
        /\ ProducerAt(p, "scan", "scan")
        /\ k' = [k EXCEPT ![p] = @ + 1]
        /\ UNCHANGED count
     \/ /\ count[At(p)][p] = CAP /\ k[p] + 1 = N
        /\ ProducerAt(p, "scan", Refused(p))
        /\ k' = [k EXCEPT ![p] = 0]
        /\ UNCHANGED count
  /\ UNCHANGED <<asleep, cursor, prodElse>>

\* Mutant: the cursor moves first, so the next shard's consumer is woken.
WakeConsumer_CursorFirst(p) ==
  /\ ProducerAt(p, "wake", "idle")
  /\ Wake((At(p) % N) + 1)
  /\ cursor' = [cursor EXCEPT ![p] = (At(p) % N) + 1]
  /\ k' = [k EXCEPT ![p] = 0]
  /\ UNCHANGED <<count, prodElse>>

\* maybe_wake_consumer; the cursor passes to the next shard.
WakeConsumer(p) ==
  /\ ProducerAt(p, "wake", "idle")
  /\ Wake(At(p))
  /\ cursor' = [cursor EXCEPT ![p] = (At(p) % N) + 1]
  /\ k' = [k EXCEPT ![p] = 0]
  /\ UNCHANGED <<count, prodElse>>

\* wait_until of send; when it is done, send asks again before it tries again.
ProducerWait(p) ==
  /\ LET b == has_idle_shard(p) \/ is_terminal_for_producer
     IN  /\ ProducerAt(p, "wait", IF ~b THEN "wait"
                                 ELSE IF is_terminal_for_producer THEN "idle" ELSE "try")
         /\ Wait(N + p, b)
  /\ UNCHANGED <<count, cursor, k, prodElse>>

\* send_async is dropped while suspended.
ProducerCancel(p) ==
  /\ N + p \in asleep
  /\ ProducerAt(p, "wait", "idle")
  /\ Wake(N + p)
  /\ UNCHANGED <<count, cursor, k, prodElse>>

\* Drop for MpmcProducer: fetch_sub ...
ProducerDrop(p) ==
  /\ ProducerAt(p, "idle", IF live_producers = 1 THEN "lastWake" ELSE "gone")
  /\ live_producers' = live_producers - 1
  /\ UNCHANGED <<count, asleep, cursor, k, live_consumers, sd, cons>>

\* Mutant: only the first shard's consumer is woken.
ProducerLastWake_First(p) ==
  /\ ProducerAt(p, "lastWake", "gone")
  /\ Wake(1)
  /\ UNCHANGED <<count, cursor, k, prodElse>>

\* ... and the last one wakes the consumers, shard by shard.
ProducerLastWake(p) ==
  /\ ProducerAt(p, "lastWake", IF k[p] + 1 < N THEN "lastWake" ELSE "gone")
  /\ Wake(k[p] + 1)
  /\ k' = [k EXCEPT ![p] = (@ + 1) % N]
  /\ UNCHANGED <<count, cursor, prodElse>>

ProducerStep(p) ==
  \/ TryCheck(p) \/ ScanShard(p) \/ WakeConsumer(p) \/ ProducerWait(p)
  \/ ProducerLastWake(p)

-----------------------------------------------------------------------------
(* Shutdown.                                                               *)

\* signal: the flag ...
Signal == sd = 0 /\ sd' = 1 /\ UNCHANGED <<count, lives, asleep, prod, cons>>

\* ... then the consumers' waiters and the producers', one after the other.
SignalWake ==
  /\ sd \in Waiters
  /\ sd' = sd + 1
  /\ Wake(sd)
  /\ UNCHANGED <<count, lives, prod, cons>>

-----------------------------------------------------------------------------
(* Consumers.                                                              *)

ConsumerAt(s, from, to) ==
  /\ cp[s] = from
  /\ cp' = [cp EXCEPT ![s] = to]
  /\ recv' = IF to = "idle" THEN [recv EXCEPT ![s] = "none"] ELSE recv
  /\ had' = IF to = "idle" THEN [had EXCEPT ![s] = FALSE] ELSE had

batch(s) == recv[s] \in {"try_recv_batch", "recv_batch"}
consElse == <<lives, sd, prod>>

Ring(s, r, g, b) ==
  /\ i' = [i EXCEPT ![s] = r]
  /\ progress' = [progress EXCEPT ![s] = g]
  /\ got' = [got EXCEPT ![s] = b]
FirstRing(s) == Ring(s, 1, FALSE, FALSE)
NextRing(s)  == Ring(s, i[s] + 1, progress[s], got[s])

\* try_recv, recv or their batch form is called.
StartRecv(s, op) ==
  /\ cp[s] = "idle"
  /\ cp' = [cp EXCEPT ![s] = "scan"]
  /\ recv' = [recv EXCEPT ![s] = op]
  /\ had' = [had EXCEPT ![s] = any_ring_has_work(s)]
  /\ UNCHANGED <<count, asleep, scan, consElse>>

\* Where a scan that found every ring empty goes.
NoItem(s) == IF recv[s] \in {"try_recv", "try_recv_batch"} THEN "idle" ELSE "terminal"

\* Mutant: the last ring is left out.
TryRecv_OffByOne(s) ==
  /\ ~batch(s)
  /\ \/ /\ count[s][i[s]] > 0 /\ i[s] < M
        /\ ConsumerAt(s, "scan", "wake")
        /\ count' = [count EXCEPT ![s][i[s]] = @ - 1]
        /\ UNCHANGED scan
     \/ /\ count[s][i[s]] = 0 /\ i[s] < M
        /\ ConsumerAt(s, "scan", "scan")
        /\ NextRing(s) /\ UNCHANGED <<count, stop>>
     \/ /\ i[s] = M
        /\ ConsumerAt(s, "scan", NoItem(s))
        /\ FirstRing(s) /\ UNCHANGED <<count, stop>>
  /\ UNCHANGED <<asleep, consElse>>

\* try_recv, one ring of the scan.
TryRecv(s) ==
  /\ ~batch(s)
  /\ \/ /\ count[s][i[s]] > 0
        /\ ConsumerAt(s, "scan", "wake")
        /\ count' = [count EXCEPT ![s][i[s]] = @ - 1]
        /\ UNCHANGED scan
     \/ /\ count[s][i[s]] = 0 /\ i[s] < M
        /\ ConsumerAt(s, "scan", "scan")
        /\ NextRing(s) /\ UNCHANGED <<count, stop>>
     \/ /\ count[s][i[s]] = 0 /\ i[s] = M
        /\ ConsumerAt(s, "scan", NoItem(s))
        /\ FirstRing(s) /\ UNCHANGED <<count, stop>>
  /\ UNCHANGED <<asleep, consElse>>

\* drain_all, after one ring: the next one, or another pass if this one made
\* progress, or the end.
NextDrain(s, from) ==
  \/ i[s] < M /\ ConsumerAt(s, from, "scan") /\ NextRing(s)
  \/ i[s] = M /\ progress[s] /\ ConsumerAt(s, from, "scan") /\ Ring(s, 1, FALSE, TRUE)
  \/ /\ i[s] = M /\ ~progress[s]
     /\ ConsumerAt(s, from, IF got[s] THEN "idle" ELSE NoItem(s))
     /\ FirstRing(s)

\* drain_all, one ring: its head is read once ...
DrainRing(s) ==
  /\ batch(s)
  /\ \/ /\ count[s][i[s]] > 0
        /\ ConsumerAt(s, "scan", "commit")
        /\ stop' = [stop EXCEPT ![s] = count[s][i[s]]]
        /\ UNCHANGED <<i, progress, got>>
     \/ /\ count[s][i[s]] = 0
        /\ NextDrain(s, "scan") /\ UNCHANGED stop
  /\ UNCHANGED <<count, asleep, consElse>>

\* ... and the TailGuard gives the room back after the last callback.
DrainCommit(s) ==
  /\ ConsumerAt(s, "commit", "wake")
  /\ count' = [count EXCEPT ![s][i[s]] = @ - stop[s]]
  /\ stop' = [stop EXCEPT ![s] = 0]
  /\ Ring(s, i[s], TRUE, TRUE)
  /\ UNCHANGED <<asleep, consElse>>

\* A callback panics: the guard gives back what was moved out, the wake is
\* skipped, and the unwinding drops the consumer.
DrainPanic(s) ==
  /\ ConsumerAt(s, "commit", "unwind")
  /\ \E n \in 1..stop[s] : count' = [count EXCEPT ![s][i[s]] = @ - n]
  /\ stop' = [stop EXCEPT ![s] = 0]
  /\ FirstRing(s)
  /\ UNCHANGED <<asleep, consElse>>

\* Mutant: every consumer wakes the producer it has the number of.
WakeProducer_Own(s) ==
  /\ Wake(N + ((s - 1) % M) + 1)
  /\ \/ ~batch(s) /\ ConsumerAt(s, "wake", "idle") /\ FirstRing(s)
     \/ batch(s) /\ NextDrain(s, "wake")
  /\ UNCHANGED <<count, stop, consElse>>

\* The producer of that ring is woken.
WakeProducer(s) ==
  /\ Wake(N + i[s])
  /\ \/ ~batch(s) /\ ConsumerAt(s, "wake", "idle") /\ FirstRing(s)
     \/ batch(s) /\ NextDrain(s, "wake")
  /\ UNCHANGED <<count, stop, consElse>>

\* recv: the flag and the count, and not the rings again; Err(Shutdown).
IsTerminal(s) ==
  /\ ConsumerAt(s, "terminal", IF is_terminal_for_consumer THEN "idle" ELSE "wait")
  /\ UNCHANGED <<count, asleep, scan, consElse>>

\* wait_until of recv; when it is done the loop begins again.
ConsumerWait(s) ==
  /\ LET b == any_ring_has_work(s) \/ is_terminal_for_consumer
     IN  ConsumerAt(s, "wait", IF b THEN "scan" ELSE "wait") /\ Wait(s, b)
  /\ UNCHANGED <<count, scan, consElse>>

\* recv_async is dropped while suspended.
ConsumerCancel(s) ==
  /\ s \in asleep /\ recv[s] = "recv"
  /\ ConsumerAt(s, "wait", "idle")
  /\ Wake(s)
  /\ UNCHANGED <<count, scan, consElse>>

\* Drop for MpmcConsumer, called or unwound into: fetch_sub ...
ConsumerDrop(s) ==
  /\ \E from \in {"idle", "unwind"} :
       ConsumerAt(s, from, IF live_consumers = 1 THEN "lastWake" ELSE "gone")
  /\ live_consumers' = live_consumers - 1
  /\ UNCHANGED <<count, asleep, scan, live_producers, sd, prod>>

\* ... and the last one wakes the producers, one by one.
ConsumerLastWake(s) ==
  /\ ConsumerAt(s, "lastWake", IF i[s] < M THEN "lastWake" ELSE "gone")
  /\ Wake(N + i[s])
  /\ i' = [i EXCEPT ![s] = (@ % M) + 1]
  /\ UNCHANGED <<count, stop, progress, got, consElse>>

ConsumerStep(s) ==
  \/ TryRecv(s) \/ DrainRing(s) \/ DrainCommit(s) \/ WakeProducer(s)
  \/ IsTerminal(s) \/ ConsumerWait(s) \/ ConsumerLastWake(s)
  \/ cp[s] = "unwind" /\ ConsumerDrop(s)

-----------------------------------------------------------------------------
Next ==
  \/ \E p \in Producers :
       \/ \E op \in SENDS[p] : StartSend(p, op)
       \/ ProducerStep(p) \/ ProducerCancel(p) \/ ProducerDrop(p)
  \/ Signal \/ SignalWake
  \/ \E s \in Shards :
       \/ \E op \in RECVS[s] : StartRecv(s, op)
       \/ ConsumerStep(s) \/ ConsumerCancel(s) \/ ConsumerDrop(s) \/ DrainPanic(s)

\* A call that has begun runs on; calls, cancellations, panics and drops are
\* the callers' choice.
Fairness ==
  /\ \A p \in Producers : WF_vars(ProducerStep(p))
  /\ \A s \in Shards : WF_vars(ConsumerStep(s))
  /\ WF_vars(SignalWake)

Spec     == Init /\ [][Next]_vars
LiveSpec == Spec /\ Fairness

-----------------------------------------------------------------------------
(* Properties.                                                             *)

\* The shard's consumer will not make room on its own account any more.
Leaving(s) == cp[s] \in {"unwind", "lastWake", "gone"}

\* What a sleeper would see if it looked; room in the shard of a consumer that
\* is gone is nobody's to announce.
SenderReason(p) ==
  is_terminal_for_producer \/ \E s \in Shards : ~Leaving(s) /\ count[s][p] < CAP
ReceiverReason(s) == is_terminal_for_consumer \/ any_ring_has_work(s)

\* A producer asleep while a live shard has room for it, or after the signal or
\* the last consumer, is owed a wake: by the consumer that made the room, in the
\* middle of its pass, by the signal or the last consumer, part way through.
SenderOwedWake ==
  \A p \in Producers :
    N + p \in asleep /\ SenderReason(p) =>
      \/ sd \in 1 .. N + p
      \/ \E s \in Shards : cp[s] = "wake" /\ i[s] = p
      \/ \E s \in Shards : cp[s] = "lastWake" /\ i[s] <= p

\* A consumer asleep while its shard has an item, after the signal or after the
\* last producer, is owed a wake: by whoever published there, though its cursor
\* is about to move on, by the signal or the last producer, part way through.
ReceiverOwedWake ==
  \A s \in Shards :
    s \in asleep /\ ReceiverReason(s) =>
      \/ sd \in 1..s
      \/ \E p \in Producers : pp[p] = "wake" /\ At(p) = s
      \/ \E p \in Producers : pp[p] = "lastWake" /\ k[p] < s

\* A step in which a receive of s returns Err(Shutdown).
Ends(s) == cp[s] = "terminal" /\ cp'[s] = "idle"

\* What was in the shard when a receive was called is not left behind by its
\* Err(Shutdown), whatever the flag and the counts said meanwhile (the test
\* shutdown_drains_inflight, for every interleaving).
DrainsInflight == [][\A s \in Shards : Ends(s) => ~had[s]]_vars

\* "Consumers return Err(Shutdown) after draining any pending messages"
\* (docs/mpmc.md), asked without a signal: when the last producer is gone,
\* nothing is left in the shard whose consumer is told so.
EndMeansDrained == [][\A s \in Shards : Ends(s) /\ ~Shutdown => ~any_ring_has_work(s)]_vars

\* Nobody sleeps for ever with a reason to be up: a send with room in a live
\* shard, a receive with an item, and both after the other side's last handle
\* is dropped or the signal is given.
Unblocks ==
  /\ \A p \in Producers : []<>~(N + p \in asleep /\ SenderReason(p))
  /\ \A s \in Shards : []<>~(s \in asleep /\ ReceiverReason(s))
=============================================================================
