# arbitro-kit in TLA+

TLA+ models of the lock-free primitives of arbitro-kit, checked with TLC on
small instances and proved with TLAPS for every value of the constants: all the
safety properties of the passing runs, and the three refinements, have a theorem;
what needs fairness is model-checked. Paths below are relative to the repository
(`src/…` is its crate source).

## 1. The system

arbitro-kit is a library: its threads and tasks are its callers'. A component
is a struct of atomics and cells shared by handles, each handle with one owner.

| part | source | state | operations | modelled by |
|---|---|---|---|---|
| waiter traits | `src/waiter/mod.rs` | none (a promise) | `wake`, `wait_until`, `set_worker` | `WakeContract` |
| ParkWaiter | `src/waiter/park.rs` | `parked` flag, mutexed thread handle, `has_worker`; std's unpark token | `wake`, `wait_until`, `wait_until_deadline`, `set_worker` | `ParkWaiter` |
| NotifyWaiter, WakeGate | `src/waiter/notify.rs` | `armed` counter; tokio's `Notify` | `wake`, `notified`, `wait_until`, drop of a future | `NotifyGate` |
| NoopWaiter | `src/waiter/noop.rs` | none | no-ops | as the absence of a step |
| Ring | `src/stream/ring.rs` | `head`, `tail`, slots, `closed`, two waiters, two private caches | `try_send`, `try_send_bulk`, `send`, `send_async`, `try_recv`, `drain`, `recv`, `recv_async`, three Drops | `Ring`, `Fifo` |
| OneShot | `src/route/oneshot.rs` | `state`, slot, waiter | `send`, `try_recv`, `recv`, `recv_async`, three Drops | `OneShot` |
| Mpsc | `src/route/mpsc.rs` | M rings, fan-in waiter, M producer waiters, `live_producers`, `shutdown` | all sends and receives, Drops, `signal` | `Mpsc` |
| MpscProducerPool | `src/route/mpsc.rs` | occupancy bitmap, cells | `acquire`, drop of a lease | `ProducerPool` |
| Mpmc | `src/route/mpmc.rs` | N shards of M rings, N + M waiters, counts of live handles, `shutdown` | all sends and receives, Drops, `signal` | `Mpmc` |
| SignalSet | `src/gate/signal_set.rs` | bitmap in chunks, waiter | `release`, the acquires, `lock`, `lock_mask`, `state` | `SignalSet` |

Not modelled, with no code in `src/` to model: Pipe, Channel, Hub, Stream,
Duplex, BufferedSender, OneSignal and Lifeline, which only the documents under
`docs/` describe. The crate root and the `mod.rs` files only re-export. Benches,
examples and tests were read for the scenarios they cover.

**Interactions.** Everything that blocks does so through a waiter: publish data
in an atomic, then `wake`; announce, look at the atomics again, then sleep. Ring
and OneShot own their waiters. Mpsc builds its rings with NoopWaiter, so the
ring's own wakes vanish, and adds one fan-in waiter for the consumer and one
waiter per producer. Mpmc has the same with one waiter per consumer. The pool
hands out Mpsc producers whole. SignalSet is not connected to the others: its
callers keep queues of their own behind its gates.

**What is hard.** The store-buffer race between "publish, look at the flag" and
"raise the flag, look at the data"; unpark tokens and permits of earlier waits
that end a later one; a waiter that moves between threads; futures dropped while
suspended; cursors that wrap and caches that lag; the last item racing the close
of its sender; a callback that panics in the middle of a batch; the drop of the
last producer, or a shutdown, racing a consumer that is scanning several rings;
the last of several handles dropped at once; a producer that may be unblocked by
any of several consumers; wakes coalesced into a bit; RMWs on a bitmap whose
other words are stale. `hazards` in `PROJECT.json` lists
each at its line with the properties aimed at it.

**What makes each part correct.** A waiter loses no wake, reports no false wait
and returns. A ring touches a slot only in its owner's turn, hands items out
once, in the order they were sent (a burst as one, from its last item to its
first), and says Closed only after the last. A OneShot hands its
value out or destroys it, once. A channel never leaves an endpoint asleep that
has something to do, and a receive that ends leaves nothing behind that was
there when it was called. A pool never gives one producer to two callers. A
signal set forgets no event whose gate was opened after it.

## 2. The modules

    WakeContract <--implements-- ParkWaiter   (ParkRefinement, ParkProofs)
                 <--implements-- NotifyGate   (NotifyRefinement, NotifyProofs)
    Fifo         <--implements-- Ring         (RingRefinement, RingProofs)
    OneShot      uses a waiter as in WakeContract                       (OneShotProofs)
    Mpsc         uses waiters as in WakeContract and rings as in Fifo   (MpscMC, MpscProofs)
    Mpmc         uses waiters as in WakeContract and rings as in Fifo   (MpmcMC, MpmcProofs)
    SignalSet    uses a waiter as in WakeContract                       (SignalProofs)
    ProducerPool                                                        (PoolProofs)

The models are layered: the waiters are checked and proved at the grain of their
atomic accesses against `WakeContract`; the modules above them use a waiter by
that promise (announced or not, token or not; in `Mpmc`, with N + M of them, only
asleep or not), and the channels use a ring by the promise of `Fifo` (a number of
items, room, nothing else).

**WakeContract.** `Post` makes a datum visible and owes a wake, `Settle` is the
end of that wake, `Doze` needs a false predicate. `Settle` may leave a sleeper
asleep only if it has nothing to see or another wake is owed.

**ParkWaiter.** `Store`/`Flush` are the caller's data store and its way through
the store buffer; `FastProbe`, `Fence`, `Confirm`, `Clone`, `Unpark` are the
lines of `wake` (T3a, T3b, T4); `SetWorker`, `Publish` the two writes of
`set_worker`; `Entry`, `AssertWorker`, `Spin`, `Announce` (T1), `Recheck`, the
park, `Woken`, `Leave` (T2), and `SpinClock`, `DeadlineCheck`, `Late` those of
the two waits. `Migrate` moves the waiting end to another thread, which then
registers; `ParkSpurious` is std's licence to return from `park`.

**NotifyGate.** `ProbeLoad`, `ProbeRmw` (T3a, T3b) and `NotifyOne` are `wake`;
`Entry`, `Notified` (T1), `Recheck`, `Poll`, `Resume`, `Disarm` (T2), `Final`
are `NotifyWaiter::wait_until`; `Cancel` drops the suspended future, its inner
`Notified` first and its guard after, as the field order of `GuardedNotified`
has it. `Notify` itself is external: one permit, one future with the states
built, enqueued, notified.

**Ring.** Each atomic access and each slot access is a step, with the private
caches and the wrapping cursors of the code; `try_send` is a burst of one. Drain
moves items out one callback at a time, and `DrainPanic` unwinds through the
Commit guard. `ProducerDrop`, `ConsumerDrop` set `closed` and wake both waiters
one by one; `DropRing` is the Drop of the shared struct. A slot holds the number
of the write that filled it, and the history variable `name` says which of the
caller's items that was, counted as the caller lists them: `try_send_bulk` takes
its items with `pop`, from the back of the Vec (`Popped`), so that the writes of a
burst store it backwards. `Fifo` is the promise, in the caller's numbers: bursts
enter whole, the last item of each first, what is queued longest leaves first, room
comes back, and the end is told only when the sender is gone and the queue empty.

**OneShot.** The state machine of `oneshot.rs` with `send`'s relaxed check and
unconditional store, polls by several threads through `&self`, the consuming
receives, cancellation, and the Inner that dies with both halves.

**Mpsc.** Waiter 0 is the fan-in waiter, waiter p that of producer p; `sd`
counts how far `signal` has come (flag, then one waiter after another). A send
is `SendCheck`, `TryCheck`, `Push`, `FanInWake` and, when refused,
`ProducerArm`, `ProducerLook`, `ProducerLookFull` and the sleep. The consumer
scans ring by ring (`TryRecv`; `DrainRing`, `DrainCommit`, `NextDrain` for
batches), wakes the producer whose ring it emptied, and asks `is_finished` in
the code's order: `IsShutdown`, `AllProducersGone`, `FinishedScan`. The
`async_send` calls arm before they look, the others after. `SENDS` (per
producer) and `RECVS` choose the calls a program makes; "send" and "recv" stand
for `send_async` and `recv_async` too, whose loops are the same and whose
suspension may be cancelled. The first look that `wait_until` takes before it
announces itself is left to the waiters, and so is a token that comes after the
wait: `Disarm` forgets it, since the waiters are shown to cope with tokens of
earlier waits, of which the wait that consumes one is a spurious turn of the
loop.

**Mpmc.** Waiters 1..N are the consumers', N + 1 .. N + M the producers'. A ring
is its number of items. A send is `StartSend`, `TryCheck` (the terminal check,
which a batch skips), `ScanShard` for each shard from the cursor on,
`WakeConsumer` with the cursor's move, and `ProducerWait`; a receive is
`TryRecv` or `DrainRing`, `DrainCommit`, `NextDrain` for each ring,
`WakeProducer`, `IsTerminal`, `ConsumerWait`. `ProducerDrop` and `ConsumerDrop`
are the `fetch_sub`, the `LastWake` actions the wakes of the last one; `sd`
counts how far `signal` has come. A predicate that only its reader can make
false again is read in one step; the header of the module says why that loses
nothing. `had` is a history variable: the shard had items when the receive was
called.

**SignalSet.** `Publish` fills the queue behind a gate and `Release` opens it
(`fetch_or`), with a `Wake` if it was closed; the consumer's acquires are `Arm`,
`Look` (one step per chunk), the sleep, `Disarm`; then it snapshots (`State`),
closes what it saw (`LockMask`) or everything (`Lock`) and drains the queues
behind it. The queues and the order lock, then drain are the callers' side: the
discipline under which the set is usable as a wake for a queue. With the order
of the usage in `docs/signalset.md` (handle, then `lock_mask`) an event released
in between would be forgotten.

**ProducerPool.** `Load`, `FetchOr`, `Take` are `acquire`; `Return`, `FetchAnd`
the Drop of a lease. `full` is a history variable of the model: whether, since a
caller's call, every bit has been set at once.

A `.cfg` names the specification it runs and gives the constants their values;
the refinement modules are the ones TLC runs for the waiters and the ring, so
that one run checks the detailed specification and its mapping.

## 3. The runs

Operators with a suffix (`Fence_Dropped`, `Push_NoRoom`, …) are mutants: the
change a plausible bug would make to the operator of that name. Each property
has one that violates it; none is used by a specification.

| run | question | bounds |
|---|---|---|
| `park_waiter` | no lost wake; a wait reports what is so, the deadline only after its last look; deliveries find a thread; waits return; ParkWaiter implements WakeContract | 2 wakers, 2 threads, 2 data in memory |
| `notify_gate` | the same of the async gate, with an exact counter | 2 wakers, 3 data |
| `ring` | slot ownership, owed wakes; blocked calls end; Ring implements Fifo, bursts reversed | 2 slots, cursors modulo 4, 5 items |
| `ring_caught_panic` | violated: see findings | 2 slots, 2 items |
| `oneshot` | exactly once, Closed final and no panic, recv returns | 3 polling threads |
| `mpsc` | owed wakes, end of channel; sleeping sends and receives are roused, no send outlives the signal | 2 producers (bursts and `send`; `send_async_send`), rings of 2; `try_recv`, `recv`, `recv_batch_async_send` |
| `mpsc_shutdown_loss` | violated: see findings | 2 producers, rings of 1 |
| `mpmc` | owed wakes of both sides; a receive that ends leaves nothing behind of what it found; every sleeper with a reason is roused | 2 producers (one sends singly and in bursts, one is only dropped), 2 consumers (`recv`; `recv_batch`), rings of 2 |
| `mpmc_last_item` | violated: see findings | 2 producers, 2 consumers, rings of 1 |
| `signal_set` | owed wake of the consumer, no event forgotten, events rouse it | 2 producers, 3 gates in 2 chunks of 2 bits, masks {0} and {0, 1} |
| `pool` | exclusion, no cell empty when won | 4 callers, 3 producers, 2-bit words |
| `pool_none` | violated: see findings | 4 callers, 3 producers, 2-bit words |

**Why the bounds are enough.** Two wakers give one that is late while the other
delivers, and a token or permit left over from the first; two threads give a
stale handle. `MaxPosts` bounds only the data in memory, so waits and wakes go
on repeating until it is spent: two data make a second wait that meets the
leftovers of the first. Five items through two slots with cursors modulo four
take both cursors through the wrap while the caches lag by a lap. Two producers
are the fewest with one ring ahead of, and one behind, the consumer's scan, and
with a last one to go. A ring of one slot is full as soon as it is not empty,
which is where both sides may sleep; bursts, and batches that find more than
one item, need two. The Mpsc runs take calls of each kind (burst, look and
then arm, arm and then look, poll, batch), one kind per producer, rather than all
at once: the others are the same loops. Two shards of two rings let a scan pass a
ring and a cursor leave a shard; one producer of `mpmc` has no calls
because its rings share nothing with the first's but the shard's waiter and the
counts, and its drop, before or after the other's, is what those are for (the
safety part holds for any calls: section 4). Three gates in two chunks put one
gate behind, and one ahead of, the look of `acquire_any_chunk`, with two gates
in one chunk for `acquire_all`. These models have no counter to bound: their
state spaces are finite and explored whole. Four callers for three
slots in two words are the fewest that make one of them find both words full,
and a slot freed behind its back.

**Deadlock** is not checked: callers may drop every handle, or never call again,
and a ring may exhaust its items.

**Fairness.** A call that has begun keeps running (the scheduler runs its
thread; the runtime polls a task whose future was notified), the store buffer
drains, an unwinding consumer finishes unwinding, and `signal` goes on to the
next waiter. Calls, data, cancellations, panics, spurious returns, drops and
the clock are never assumed to happen. All of it is weak fairness.

**Memory.** The waiters are checked on x86-TSO, the hardware their comments argue
about: a waker's data store waits in a buffer until a fence or a locked
instruction, and everything else is sequentially consistent. Weaker models (Arm)
are out of scope. The modules above the waiters interleave whole accesses: a
late store to a ring's cursor is what the contract proved of the waiters covers,
and Release/Acquire on one location gives nothing else on TSO.

## 4. What is proved

`ParkProofs`, `NotifyProofs`, `RingProofs`, `OneShotProofs`, `MpscProofs`,
`MpmcProofs`, `PoolProofs` and `SignalProofs`, for every set of threads, wakers
and callers, every bound on the data, every number of producers, consumers, gates
and bits, every capacity and every choice of calls, from the ASSUMEs of the
modules (TLC evaluates these in the runs). Two results say more in their
statement: those about the ring assume `~Catches`, and `PoolNoneWhenFull` a pool
of one word.

* **Contract.** `ContractNoLostWake` (in `ParkProofs`): whatever implements
  `WakeContract` never leaves a sleeper with a true predicate and no wake owed.
* **Park waiter.** `NoLostWake` says of a waiter about to sleep that it has its
  token or a waker is certain to leave it one, and "certain" depends on what
  else holds: a data store is buffered only before the fence of the same wake
  (`BufferedInWake`), the flag is up exactly between T1 and T2
  (`QuietWhenAway`), a waker past `Clone` holds a registered handle, and the
  waiter past its assertion runs on the registered thread (`RegistrationInv`).
  Their conjunction `IInv` is inductive: one step of the proof per action. From
  it follow `ParkNoLostWake`, `ParkTypeCorrect`, `ParkDeliveryFindsWorker`,
  `ParkHonestResult`, `ParkQuietWhenAway` and `ParkImplementsContract`, in which
  every step maps to a step of WakeContract or to a stutter. `HonestResult` is an
  action property: it says of the step that ends a wait what must hold of its
  result, the last look after T2 and the flag taken down included.
* **Async gate.** The same argument with the counter for the flag and the RMW
  for the fence: `NotifyArmedWhileGuarded` on every path, cancellation included;
  `NotifyNoLostWake`, `NotifyTypeOK`, `NotifyHonestResult`,
  `NotifyImplementsContract`.
* **Ring.** The invariant orders the five cursors, `cachedTail`, `tail`, `c`,
  `head`, `h`, by the distances from each to the next (`Lag`, `Taken`,
  `Published`, `Written`), whose sum never exceeds `CAP` (`Order`), and says of
  each slot, by its distance from `c`, which item it holds, if any (`Items`). A
  stale cache is then only a larger `Lag`, or for the consumer a smaller view of
  `Published` (`Known`). `Flag`, `SenderInv` and `ReceiverInv` carry the wakes:
  what a side on its way to sleep no longer looks at is owed to it. Under this
  lies the arithmetic that the code takes for granted when it subtracts cursors
  that wrap and masks them: distances below a word add up (`SpanFacts`), and
  cursors less than `CAP` apart lie in slots as far apart, because `CAP` divides
  the word (`MaskSpan`). Hence `RingSlotOwnership`, `RingSlotsMatchCursors`,
  `RingSenderOwedWake`, `RingReceiverOwedWake`, `RingTypeOK`, and
  `RingImplementsFifo`: the slots from `c` to `head` are the queue of `Fifo`, by
  the caller's names of what they hold (`QueueNamed`); `NameInv` says that the
  writes of a burst still unpublished store its items counted down from the last,
  which is what makes a published burst the one `Accept` queues; a `head` store
  maps to one `Accept` of the whole burst, a slot moved out to `Deliver`, a `tail`
  store to `GiveBack`, `RereadHead` that finds nothing to `End`, and all else to
  the drops, `Ask` or a stutter. `~Catches` is needed: with a panic that is caught
  the ring breaks, as the run `ring_caught_panic` shows.
* **OneShot.** Where the value is, by the state word (`SlotInv`), by the places of
  the two halves (`PlaceInv`) and, between the exchange to TAKEN and the read, by
  the one thread past it (`ReaderInv`). `OneShotValueExactlyOnce`,
  `OneShotClosedIsFinal`, `OneShotTypeOK`.
* **Pool.** Exclusion is inductive only with the bit that stands for it
  (`BitHeld`): who owns a cell has its bit set, and a bit is won only when it
  was clear. With it, a cell is empty exactly while its lease is out, so the
  `unwrap` of `acquire` never fails: `PoolLeaseExclusive`, `PoolCellsAccounted`,
  `PoolTypeOK`. `PoolNoneWhenFull`: with `m <= BITS` (64 producers in the code)
  `acquire` returns `None` only if every slot was held at some moment of the call,
  which is false of larger pools (run `pool_none`).
* **Fan-in channel.** As for the M:N channel below, with the looks taken apart: a
  scan that found a ring empty, the flag read, the count read, each may be out of
  date by the time the consumer sleeps, but only with a wake to come
  (`ReceiverInv`, over the rings `Passed`), and the same for a producer that has
  announced itself before, or after, its try (`SenderAt`). `Counted` makes the
  last producer's drop the one that wakes; `Passing` says that only a batch goes
  over the rings twice. `EndInv` carries the last look at the rings, which begins
  when nobody is left to fill them. `MpscSenderOwedWake`,
  `MpscReceiverOwedWake`, `MpscEndMeansDrained`, `MpscTypeOK`.
* **M:N channel.** The owed wakes are inductive with four more parts. `Counted`:
  `live_producers` and `live_consumers` are the cardinalities of the sets of
  handles not yet dropped, so exactly one drop finds the count at one (the lemma
  is `FS_RemoveElement`). `Sleepers`: who is asleep is in its wait. `AtFirst`: a
  scan, and the round of wakes of the last handle, starts at the first ring or
  shard, so the last handle still owes everybody a wake when the count reaches
  zero. `HadInv`: what was in the shard at the call is ahead of the scan, or the
  call has something to return. `Held`: a batch takes no more than is there,
  which keeps the counts within `0..CAP`. Each action has its step in each part;
  `RecvFrame`, `SendFrame` and `HadFrame` say once what all the actions that
  touch none of it have in common. It follows that no wake is lost on either
  side (`MpmcSenderOwedWake`, `MpmcReceiverOwedWake`), `MpmcTypeOK`, and
  `MpmcDrainsInflight`: a receive that returns `Err(Shutdown)` leaves nothing of
  what was in its shard when it was called.
* **Signal set.** `AcquirerOwedWake` says of a consumer asleep with its
  predicate true that its token is there or a producer is before its wake. A
  look that goes chunk by chunk makes it inductive only together with the chunks
  already passed (`OwedInv`): a gate open behind the look has its producer still
  to wake. `EventNotLost` is inductive with the types and the consumer's place:
  a queue with an event has its gate open, its producer before `release`, or the
  consumer's drain ahead of it. `SignalOwedWake`, `SignalEventNotLost`,
  `SignalTypeOK`.

Only model-checked: everything under fairness, for which TLAPS has no usable rules
here (`ReadyReturns`, `DeadlineReturns`, `RecvReturns`, the three `Unblocks`,
`EventsRouse`). The theorems say that a wake is owed to every sleeper that should
be up; that it arrives is what these runs add. `NotifyGate`'s `HonestResult` and
`ParkWaiter`'s `QuietWhenAway` are the other way round: proved, and not in a run.

## 5. Findings

* `ring_caught_panic` (bug): if a panic in `drain`'s callback is caught and the
  consumer used again, `cached_head` may lie below `tail`, and `try_recv` on the
  empty ring reads a slot nobody has written. `DrainPanic` with `Catches = TRUE`
  keeps the consumer; the other runs let the unwinding drop it.
* `mpsc_shutdown_loss` (documents differ): `is_finished` does not look at the
  rings once the flag is up, so a receive that had scanned a ring before an item
  and then the signal arrived returns `Err(Shutdown)` with the item inside.
* `mpmc_last_item` (documents differ): `recv` of the M:N channel looks at the
  flag and the count of producers after its scan, and not at the rings again as
  Mpsc does. When the last producer sends and is dropped in between, the receive
  returns `Err(Shutdown)` with the item in its shard, though nobody signalled.
  What was there when the receive was called is not lost (`DrainsInflight`).
* `pool_none` (documents differ): with more than one bitmap word `acquire` may
  return `None` when at no moment of the call every slot was held.

Four more places where a document and the code differ, which no run shows as a
violation:

* `try_send_bulk` reverses each batch: it pops its items from the back of the Vec
  (`ring.rs:474`), so the last item is received first, and when the ring has room
  for a part of the batch the *last* items go and the first stay behind. The
  function's own comment says that items are taken from the end
  (`ring.rs:442-444`); `stream/mod.rs:3-4` promises "order preserved", the bulk
  send of Mpsc is described without it (`mpsc.rs:243-246`), and `AUDIT.md:46`
  (ST-F6) calls it a violation of the FIFO contract. `Fifo`, and with it
  `RingIsFifo`, states what the code does.
* An Mpsc producer blocked on a full ring stays asleep when the consumer is dropped,
  which wakes nobody (`AUDIT.md:18`, R-S1). `SenderOwedWake` and `Unblocks` exempt a
  gone consumer for that reason.
* `docs/mpmc.md:357-360` says that rings do not refuse writes on shutdown, whereas
  `try_send` refuses and `send` drops its item and returns once the channel is
  terminal (`try_send_batch` accepts).
* The usage in `docs/signalset.md:53-57` handles an event before `lock_mask`, see
  SignalSet above: an event released in between is forgotten (`AUDIT.md`, G-F4).

## 6. What is left out, and the plan

Left out: the values and types of payloads (items are numbered, or counted);
`len`, `pending`, `available` and other read-only counters; the spin count (any
number of turns); builder panics; Arc counts, except where the last one matters
(`DropRing`, `DropInner`); in Mpsc and Mpmc a callback panic that the caller
catches and a second `signal`, which repeats wakes; names and `id_of` of a
SignalSet, and the choice of a mask by its callers (one outside chunk 0 can never
be satisfied); weak memory, under which `lock` and `lock_mask` (Release, not
Acquire) would need a second look.

Nothing is said of fairness between rings, which the code does not promise:
`try_recv` begins at ring 0 each time, and a batch goes on for as long as a pass
finds anything.

Next, in this order:

1. An abstract channel, a bounded queue per producer, with the proof that `Mpsc`
   and each shard of `Mpmc` implement it, drops and signal included.
2. `OneShot` over `ParkWaiter`: a worker registered by another thread.
3. What a caught panic leaves intact: the ring's invariant with `Known` weakened to
   the cursors a second `drain` uses.
