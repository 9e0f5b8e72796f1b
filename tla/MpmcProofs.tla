----------------------------- MODULE MpmcProofs -----------------------------
(***************************************************************************)
(* What holds of Mpmc for any number of producers and consumers, rings of  *)
(* any capacity and any calls.                                             *)
(***************************************************************************)
EXTENDS Mpmc, FiniteSetTheorems, TLAPS

LiveProducers == {p \in Producers : pp[p] \notin {"lastWake", "gone"}}
LiveConsumers == {s \in Shards : cp[s] \notin {"lastWake", "gone"}}

\* The counts of live handles are exact.
Counted ==
  /\ live_producers = Cardinality(LiveProducers)
  /\ live_consumers = Cardinality(LiveConsumers)

\* Who sleeps is in its wait.
Sleepers ==
  /\ \A p \in Producers : N + p \in asleep => pp[p] = "wait"
  /\ \A s \in Shards : s \in asleep => cp[s] = "wait"

\* Scans and rounds of wakes start at the first.
AtFirst ==
  /\ \A p \in Producers : pp[p] \in {"idle", "try", "wait", "gone"} => k[p] = 0
  /\ \A s \in Shards : cp[s] \in {"idle", "terminal", "wait", "unwind", "gone"} => i[s] = 1

\* A batch takes no more than the ring still holds.
Held == \A s \in Shards : cp[s] = "commit" => stop[s] <= count[s][i[s]]

PlaceInv == Sleepers /\ AtFirst /\ Held

\* What was in the shard at the call is still ahead of the scan, unless the
\* call has something to return already.
HadAt(s) ==
  /\ cp[s] \in {"idle", "terminal", "wait"} => ~got[s]
  /\ cp[s] = "commit" => batch(s)
  /\ cp[s] \in {"scan", "wake"} /\ ~batch(s) => ~got[s]
  /\ cp[s] = "wake" /\ batch(s) => got[s]
  /\ cp[s] = "scan" /\ had[s] /\ ~got[s] => \E r \in Producers : r >= i[s] /\ count[s][r] > 0
  /\ cp[s] \in {"terminal", "wait"} => ~had[s]

HadInv == \A s \in Shards : HadAt(s)

IInv == TypeOK /\ Counted /\ PlaceInv /\ HadInv /\ SenderOwedWake /\ ReceiverOwedWake

-----------------------------------------------------------------------------
\* Numbers of waiters, rings and shards.
LEMMA Indices ==
  /\ 1 \in Producers /\ 1 \in Shards
  /\ \A p \in Producers : p \in Nat /\ p >= 1 /\ p <= M /\ N + p \in Waiters
  /\ \A s \in Shards : s \in Nat /\ s >= 1 /\ s <= N /\ s \in Waiters
  /\ \A p \in Producers, s \in Shards : N + p # s
  /\ \A p, q \in Producers : N + p = N + q => p = q
BY MpmcAssumption DEF Producers, Shards, Waiters

\* The parameters are positive.
LEMMA Sizes == M \in Nat \ {0} /\ N \in Nat \ {0} /\ CAP \in Nat \ {0}
BY MpmcAssumption

\* Rotations stay in range.
LEMMA Modulo == ASSUME NEW m \in Nat \ {0}, NEW a \in Nat PROVE a % m \in 0 .. m - 1
OBVIOUS

\* A round of wakes that is over begins at the first again.
LEMMA RoundOver ==
  /\ \A r \in Producers : r % M = IF r = M THEN 0 ELSE r
  /\ \A j \in 0 .. N - 1 : (j + 1) % N = IF j + 1 = N THEN 0 ELSE j + 1
BY Sizes DEF Producers

\* The shard a send is at exists, and so does the next one.
LEMMA AtShard ==
  ASSUME TypeOK, NEW p \in Producers
  PROVE  At(p) \in Shards /\ (At(p) % N) + 1 \in Shards
<1>1. At(p) \in Shards
  <2>1. cursor[p] \in 1..N /\ k[p] \in 0 .. N - 1
    BY DEF TypeOK, Shards
  <2>2. cursor[p] - 1 + k[p] \in Nat
    BY <2>1, Sizes
  <2>3. (cursor[p] - 1 + k[p]) % N \in 0 .. N - 1
    BY <2>2, Sizes, Modulo
  <2>4. QED
    BY <2>3, Sizes DEF At, Shards
<1>2. At(p) % N \in 0 .. N - 1
  <2>1. At(p) \in Nat
    BY <1>1, Sizes DEF Shards
  <2>2. QED
    BY <2>1, Modulo, Sizes
<1>3. QED
  BY <1>1, <1>2, Sizes DEF Shards

\* A scan or a round of wakes that goes on reaches a ring, or a shard, that exists.
LEMMA Next1 ==
  /\ \A r \in Producers : (r < M => r + 1 \in Producers) /\ (r % M) + 1 \in Producers
  /\ \A j \in 0 .. N - 1 : (j + 1 < N => j + 1 \in 0 .. N - 1) /\ (j + 1) % N \in 0 .. N - 1
<1>1. ASSUME NEW r \in Producers PROVE (r < M => r + 1 \in Producers) /\ (r % M) + 1 \in Producers
  <2>1. r \in Nat /\ r % M \in 0 .. M - 1
    BY Sizes, Modulo DEF Producers
  <2>2. QED
    BY <2>1, Sizes DEF Producers
<1>2. ASSUME NEW j \in 0 .. N - 1
      PROVE  (j + 1 < N => j + 1 \in 0 .. N - 1) /\ (j + 1) % N \in 0 .. N - 1
  <2>1. j + 1 \in Nat
    BY Sizes
  <2>2. (j + 1) % N \in 0 .. N - 1
    BY <2>1, Modulo, Sizes
  <2>3. QED
    BY <2>1, <2>2, Sizes
<1>3. QED
  BY <1>1, <1>2

\* The calls made are calls there are.
LEMMA CallsMade ==
  /\ \A p \in Producers : SENDS[p] \subseteq AllSends
  /\ \A s \in Shards : RECVS[s] \subseteq AllRecvs
BY MpmcAssumption DEF Producers, Shards

\* A ring's count is changed, the place of a scan is moved.
LEMMA CountType ==
  ASSUME TypeOK, NEW s \in Shards, NEW p \in Producers, NEW v \in 0..CAP
  PROVE  [count EXCEPT ![s][p] = v] \in [Shards -> [Producers -> 0..CAP]]
BY DEF TypeOK

\* What a consumer's step changes.
LEMMA ConsumerAtFacts ==
  ASSUME TypeOK, NEW s \in Shards, NEW from, NEW to, ConsumerAt(s, from, to)
  PROVE  /\ cp[s] = from /\ cp'[s] = to
         /\ to # "idle" => recv'[s] = recv[s] /\ had'[s] = had[s]
         /\ to = "idle" => ~had'[s]
         /\ \A t \in Shards \ {s} : cp'[t] = cp[t] /\ recv'[t] = recv[t] /\ had'[t] = had[t]
<1>1. cp[s] = from /\ cp'[s] = to /\ \A t \in Shards \ {s} : cp'[t] = cp[t]
  BY DEF ConsumerAt, TypeOK
<1>2. CASE to = "idle"
  BY <1>1, <1>2 DEF ConsumerAt, TypeOK
<1>3. CASE to # "idle"
  BY <1>1, <1>3 DEF ConsumerAt
<1>4. QED
  BY <1>1, <1>2, <1>3

\* The rings scanned by the other consumers stay where they are.
LEMMA RingFacts ==
  ASSUME TypeOK, NEW s \in Shards
  PROVE  /\ \A r \in Producers, g, b \in BOOLEAN : Ring(s, r, g, b) =>
              /\ i'[s] = r /\ progress'[s] = g /\ got'[s] = b
              /\ \A t \in Shards \ {s} : i'[t] = i[t] /\ got'[t] = got[t]
         /\ FirstRing(s) =>
              /\ i'[s] = 1 /\ ~got'[s]
              /\ \A t \in Shards \ {s} : i'[t] = i[t] /\ got'[t] = got[t]
         /\ NextRing(s) =>
              /\ i'[s] = i[s] + 1 /\ got'[s] = got[s]
              /\ \A t \in Shards \ {s} : i'[t] = i[t] /\ got'[t] = got[t]
<1>1. ASSUME NEW r \in Producers, NEW g \in BOOLEAN, NEW b \in BOOLEAN, Ring(s, r, g, b)
      PROVE  /\ i'[s] = r /\ progress'[s] = g /\ got'[s] = b
             /\ \A t \in Shards \ {s} : i'[t] = i[t] /\ got'[t] = got[t]
  BY <1>1 DEF Ring, TypeOK
<1>2. ASSUME FirstRing(s)
      PROVE  i'[s] = 1 /\ ~got'[s] /\ \A t \in Shards \ {s} : i'[t] = i[t] /\ got'[t] = got[t]
  BY <1>2 DEF FirstRing, Ring, TypeOK
<1>3. ASSUME NextRing(s)
      PROVE  /\ i'[s] = i[s] + 1 /\ got'[s] = got[s]
             /\ \A t \in Shards \ {s} : i'[t] = i[t] /\ got'[t] = got[t]
  BY <1>3 DEF NextRing, Ring, TypeOK
<1>4. QED
  BY <1>1, <1>2, <1>3

\* The four outcomes of a batch after one ring: next ring, another pass, done, or on to
\* the terminal check.
LEMMA NextDrainFacts ==
  ASSUME TypeOK, NEW s \in Shards, NEW from, NextDrain(s, from)
  PROVE  /\ cp[s] = from
         /\ \A t \in Shards \ {s} :
              cp'[t] = cp[t] /\ recv'[t] = recv[t] /\ had'[t] = had[t] /\ i'[t] = i[t] /\ got'[t] = got[t]
         /\ \/ /\ cp'[s] = "scan" /\ recv'[s] = recv[s] /\ had'[s] = had[s]
               /\ i[s] < M /\ i'[s] = i[s] + 1 /\ got'[s] = got[s]
            \/ /\ cp'[s] = "scan" /\ recv'[s] = recv[s] /\ had'[s] = had[s]
               /\ i[s] = M /\ i'[s] = 1 /\ got'[s]
            \/ cp'[s] = "idle" /\ i[s] = M /\ i'[s] = 1 /\ ~got'[s] /\ ~had'[s]
            \/ /\ cp'[s] = "terminal" /\ recv'[s] = recv[s] /\ had'[s] = had[s]
               /\ i[s] = M /\ i'[s] = 1 /\ ~got[s] /\ ~got'[s]
<1>1. CASE i[s] < M /\ ConsumerAt(s, from, "scan") /\ NextRing(s)
  BY <1>1, ConsumerAtFacts, RingFacts
<1>2. CASE i[s] = M /\ progress[s] /\ ConsumerAt(s, from, "scan") /\ Ring(s, 1, FALSE, TRUE)
  <2>1. i'[s] = 1 /\ got'[s] /\ \A t \in Shards \ {s} : i'[t] = i[t] /\ got'[t] = got[t]
    BY <1>2 DEF Ring, TypeOK
  <2>2. ConsumerAt(s, from, "scan")
    BY <1>2
  <2>3. /\ cp[s] = from /\ cp'[s] = "scan" /\ recv'[s] = recv[s] /\ had'[s] = had[s]
        /\ \A t \in Shards \ {s} : cp'[t] = cp[t] /\ recv'[t] = recv[t] /\ had'[t] = had[t]
    BY <2>2, ConsumerAtFacts
  <2>4. QED
    BY <1>2, <2>1, <2>3
<1>3. CASE /\ i[s] = M /\ ~progress[s]
           /\ ConsumerAt(s, from, IF got[s] THEN "idle" ELSE NoItem(s))
           /\ FirstRing(s)
  <2>1. NoItem(s) \in {"idle", "terminal"}
    BY DEF NoItem
  <2>2. CASE got[s] \/ NoItem(s) = "idle"
    <3>1. ConsumerAt(s, from, "idle")
      BY <1>3, <2>2
    <3>2. QED
      BY <1>3, <3>1, ConsumerAtFacts, RingFacts
  <2>3. CASE ~got[s] /\ NoItem(s) = "terminal"
    <3>1. ConsumerAt(s, from, "terminal")
      BY <1>3, <2>3
    <3>2. QED
      BY <1>3, <2>3, <3>1, ConsumerAtFacts, RingFacts
  <2>4. QED
    BY <2>1, <2>2, <2>3
<1>4. QED
  BY <1>1, <1>2, <1>3 DEF NextDrain

\* Where a consumer may be.
ConsumerType ==
  /\ cp' \in [Shards -> {"idle", "scan", "commit", "wake", "terminal", "wait", "unwind",
                         "lastWake", "gone"}]
  /\ recv' \in [Shards -> AllRecvs \cup {"none"}]
  /\ had' \in [Shards -> BOOLEAN]

\* A consumer at a point keeps the type of cp.
LEMMA ConsumerAtType ==
  ASSUME TypeOK, NEW s \in Shards, NEW from,
         NEW to \in {"idle", "scan", "commit", "wake", "terminal", "wait", "unwind",
                     "lastWake", "gone"},
         ConsumerAt(s, from, to)
  PROVE  ConsumerType
BY DEF ConsumerAt, ConsumerType, TypeOK

\* Where a scan that found nothing goes.
LEMMA NoItemFact == \A s \in Shards : NoItem(s) \in {"idle", "terminal"}
BY DEF NoItem

RingType ==
  /\ i' \in [Shards -> Producers]
  /\ progress' \in [Shards -> BOOLEAN] /\ got' \in [Shards -> BOOLEAN]

\* The three moves of a receive keep to the rings there are.
LEMMA RingTypes ==
  ASSUME TypeOK, NEW s \in Shards
  PROVE  /\ \A r \in Producers, g, b \in BOOLEAN : Ring(s, r, g, b) => RingType
         /\ FirstRing(s) => RingType
         /\ NextRing(s) /\ i[s] < M => RingType
<1>1. ASSUME NEW r \in Producers, NEW g \in BOOLEAN, NEW b \in BOOLEAN, Ring(s, r, g, b)
      PROVE  RingType
  BY <1>1 DEF TypeOK, Ring, RingType
<1>2. FirstRing(s) => RingType
  BY <1>1, Indices DEF FirstRing
<1>3. NextRing(s) /\ i[s] < M => RingType
  <2>1. i[s] \in Producers /\ progress[s] \in BOOLEAN /\ got[s] \in BOOLEAN
    BY DEF TypeOK
  <2>2. QED
    BY <1>1, <2>1, Next1 DEF NextRing
<1>4. QED
  BY <1>1, <1>2, <1>3

\* A batch's move keeps to the rings there are.
LEMMA NextDrainType ==
  ASSUME TypeOK, NEW s \in Shards, NEW from, NextDrain(s, from)
  PROVE  RingType /\ ConsumerType
<1>1. CASE i[s] < M /\ ConsumerAt(s, from, "scan") /\ NextRing(s)
  BY <1>1, RingTypes, ConsumerAtType
<1>2. CASE i[s] = M /\ progress[s] /\ ConsumerAt(s, from, "scan") /\ Ring(s, 1, FALSE, TRUE)
  <2>1. RingType
    BY <1>2, RingTypes, Indices
  <2>2. ConsumerAt(s, from, "scan")
    BY <1>2
  <2>3. QED
    BY <2>1, <2>2, ConsumerAtType
<1>3. CASE ConsumerAt(s, from, IF got[s] THEN "idle" ELSE NoItem(s)) /\ FirstRing(s)
  <2>1. PICK to \in {"idle", "terminal"} : ConsumerAt(s, from, to)
    BY <1>3, NoItemFact
  <2>2. ConsumerType
    BY <2>1, ConsumerAtType
  <2>3. QED
    BY <1>3, <2>2, RingTypes
<1>4. QED
  BY <1>1, <1>2, <1>3 DEF NextDrain

\* A live handle that goes lowers the number of live ones by one.
LEMMA LiveFinite ==
  /\ IsFiniteSet(LiveProducers) /\ Cardinality(LiveProducers) \in 0..M
  /\ IsFiniteSet(LiveConsumers) /\ Cardinality(LiveConsumers) \in 0..N
<1>1. /\ IsFiniteSet(Producers) /\ Cardinality(Producers) = M
      /\ IsFiniteSet(Shards) /\ Cardinality(Shards) = N
  BY FS_Interval, MpmcAssumption DEF Producers, Shards
<1>2. LiveProducers \subseteq Producers /\ LiveConsumers \subseteq Shards
  BY DEF LiveProducers, LiveConsumers
<1>3. QED
  BY <1>1, <1>2, FS_Subset, FS_CardinalityType, MpmcAssumption

\* A count that is not yet zero when a live handle is dropped.
LEMMA SomeoneLive ==
  ASSUME Counted, TypeOK
  PROVE  /\ \A p \in Producers : pp[p] = "idle" => live_producers \in 1..M
         /\ \A s \in Shards : cp[s] \in {"idle", "unwind"} => live_consumers \in 1..N
<1>1. ASSUME NEW p \in Producers, pp[p] = "idle" PROVE LiveProducers # {}
  BY <1>1 DEF LiveProducers
<1>2. ASSUME NEW s \in Shards, cp[s] \in {"idle", "unwind"} PROVE LiveConsumers # {}
  BY <1>2 DEF LiveConsumers
<1>3. QED
  BY <1>1, <1>2, LiveFinite, FS_EmptySet, Sizes DEF Counted

\* New channel: every handle lives, nobody sleeps, every ring is empty.
LEMMA InitInv == Init => IInv
<1> SUFFICES ASSUME Init PROVE IInv
  OBVIOUS
<1>1. TypeOK
  <2>1. ASSUME NEW p \in Producers PROVE ((p - 1) % N) + 1 \in Shards
    <3>1. (p - 1) % N \in 0 .. N - 1
      BY Sizes, Modulo DEF Producers
    <3>2. QED
      BY <3>1, Sizes DEF Shards
  <2>2. QED
    BY <2>1, Indices, Sizes DEF Init, TypeOK
<1>2. Counted
  <2>1. LiveProducers = Producers /\ LiveConsumers = Shards
    BY DEF Init, LiveProducers, LiveConsumers
  <2>2. QED
    BY <2>1, FS_Interval, MpmcAssumption DEF Init, Counted, Producers, Shards
<1>3. PlaceInv /\ HadInv
  BY DEF Init, PlaceInv, Sleepers, AtFirst, Held, HadInv, HadAt
<1>4. SenderOwedWake /\ ReceiverOwedWake
  BY DEF Init, SenderOwedWake, ReceiverOwedWake
<1>5. QED
  BY <1>1, <1>2, <1>3, <1>4 DEF IInv

\* Types, step by step.
LEMMA StepType == IInv /\ [Next]_vars => TypeOK'
<1> SUFFICES ASSUME IInv, [Next]_vars PROVE TypeOK'
  OBVIOUS
<1>0. TypeOK /\ Counted /\ PlaceInv
  BY DEF IInv
<1>1. ASSUME NEW p \in Producers, NEW op \in SENDS[p], StartSend(p, op) PROVE TypeOK'
  BY <1>0, <1>1, CallsMade DEF StartSend, TypeOK, lives, cons, scan, prodElse
<1>2. ASSUME NEW p \in Producers, TryCheck(p) PROVE TypeOK'
  BY <1>0, <1>2
     DEF TryCheck, ProducerAt, Refused, lives, cons, scan, prodElse, TypeOK
<1>3. ASSUME NEW p \in Producers, ScanShard(p) PROVE TypeOK'
  <2>1. At(p) \in Shards
    BY <1>0, AtShard
  <2>2. pp' \in [Producers -> {"idle", "try", "scan", "wake", "wait", "lastWake", "gone"}]
        /\ send' \in [Producers -> AllSends \cup {"none"}] /\ k' \in [Producers -> 0 .. N - 1]
    <3>1. k[p] \in 0 .. N - 1 /\ 0 \in 0 .. N - 1 /\ (k[p] + 1 < N => k[p] + 1 \in 0 .. N - 1)
      BY <1>0, Next1, Sizes DEF TypeOK
    <3>2. k' = k \/ k' = [k EXCEPT ![p] = 0] \/ (k[p] + 1 < N /\ k' = [k EXCEPT ![p] = @ + 1])
      BY <1>3 DEF ScanShard
    <3>3. k' \in [Producers -> 0 .. N - 1]
      <4>1. k \in [Producers -> 0 .. N - 1]
        BY <1>0 DEF TypeOK
      <4>2. PICK j \in 0 .. N - 1 : k' = k \/ k' = [k EXCEPT ![p] = j]
        BY <3>1, <3>2
      <4>3. QED
        BY <4>1, <4>2
    <3>4. PICK to \in {"wake", "scan", "wait", "idle"} : ProducerAt(p, "scan", to)
      <4>1. \/ ProducerAt(p, "scan", "wake") \/ ProducerAt(p, "scan", "scan")
            \/ ProducerAt(p, "scan", Refused(p))
        BY <1>3, Zenon DEF ScanShard
      <4>2. Refused(p) \in {"wait", "idle"}
        BY DEF Refused
      <4>3. QED
        BY <4>1, <4>2
    <3>5. QED
      BY <1>0, <3>3, <3>4 DEF ProducerAt, TypeOK
  <2>3. count' \in [Shards -> [Producers -> 0..CAP]]
    <3>1. ASSUME NEW n \in 1 .. CAP - count[At(p)][p],
                 count' = [count EXCEPT ![At(p)][p] = @ + n]
          PROVE  count' \in [Shards -> [Producers -> 0..CAP]]
      <4>1. count[At(p)][p] \in 0..CAP
        BY <1>0, <2>1 DEF TypeOK
      <4>2. count[At(p)][p] + n \in 0..CAP
        BY <4>1, Sizes
      <4>3. QED
        BY <1>0, <2>1, <3>1, <4>2, CountType
    <3>2. count \in [Shards -> [Producers -> 0..CAP]]
      BY <1>0 DEF TypeOK
    <3>3. QED
      BY <1>3, <3>1, <3>2 DEF ScanShard
  <2>4. QED
    BY <1>0, <1>3, <2>2, <2>3 DEF ScanShard, TypeOK, lives, cons, scan, prodElse
<1>4. ASSUME NEW p \in Producers, WakeConsumer(p) PROVE TypeOK'
  <2>1. (At(p) % N) + 1 \in Shards
    BY <1>0, AtShard
  <2>2. QED
    BY <1>0, <1>4, <2>1, Sizes
       DEF WakeConsumer, ProducerAt, Wake, TypeOK, lives, cons, scan, prodElse
<1>5. ASSUME NEW p \in Producers, ProducerWait(p) PROVE TypeOK'
  BY <1>0, <1>5, Indices
     DEF ProducerWait, ProducerAt, Wait, lives, cons, scan, prodElse, TypeOK
<1>6. ASSUME NEW p \in Producers, ProducerCancel(p) PROVE TypeOK'
  BY <1>0, <1>6
     DEF ProducerCancel, ProducerAt, Wake, lives, cons, scan, prodElse, TypeOK
<1>7. ASSUME NEW p \in Producers, ProducerDrop(p) PROVE TypeOK'
  <2>1. live_producers \in 1..M
    BY <1>0, <1>7, SomeoneLive DEF ProducerDrop, ProducerAt
  <2>2. live_producers' \in 0..M
    BY <1>7, <2>1, Sizes DEF ProducerDrop
  <2>3. QED
    BY <1>0, <1>7, <2>2 DEF ProducerDrop, ProducerAt, TypeOK, cons, scan
<1>8. ASSUME NEW p \in Producers, ProducerLastWake(p) PROVE TypeOK'
  BY <1>0, <1>8, Sizes
     DEF ProducerLastWake, ProducerAt, Wake, lives, cons, scan, prodElse, TypeOK
<1>9. ASSUME Signal PROVE TypeOK'
  BY <1>0, <1>9, Sizes DEF Signal, lives, prod, cons, scan, TypeOK
<1>10. ASSUME SignalWake PROVE TypeOK'
  BY <1>0, <1>10, Sizes
     DEF SignalWake, Wake, TypeOK, Waiters, lives, prod, cons, scan
<1>11. ASSUME NEW s \in Shards, NEW op \in RECVS[s], StartRecv(s, op) PROVE TypeOK'
  <2>1. any_ring_has_work(s) \in BOOLEAN
    BY DEF any_ring_has_work
  <2>2. QED
    BY <1>0, <1>11, <2>1, CallsMade
       DEF StartRecv, TypeOK, lives, prod, scan, consElse
<1>12. ASSUME NEW s \in Shards, TryRecv(s) PROVE TypeOK'
  <2>1. count' \in [Shards -> [Producers -> 0..CAP]]
    <3>1. i[s] \in Producers /\ count[s][i[s]] \in 0..CAP
      BY <1>0 DEF TypeOK
    <3>2. CASE count[s][i[s]] > 0 /\ count' = [count EXCEPT ![s][i[s]] = @ - 1]
      <4>1. count[s][i[s]] - 1 \in 0..CAP
        BY <3>1, <3>2, Sizes
      <4>2. QED
        BY <1>0, <3>1, <3>2, <4>1, CountType
    <3>3. CASE UNCHANGED count
      BY <1>0, <3>3 DEF TypeOK
    <3>4. QED
      BY <1>12, <3>2, <3>3 DEF TryRecv
  <2>2. RingType
    <3>1. UNCHANGED scan => RingType
      BY <1>0 DEF scan, RingType, TypeOK
    <3>2. UNCHANGED scan \/ (NextRing(s) /\ i[s] < M) \/ FirstRing(s)
      BY <1>12 DEF TryRecv
    <3>3. QED
      BY <1>0, <3>1, <3>2, RingTypes
  <2>3. ConsumerType
    <3>1. PICK to \in {"wake", "scan", "idle", "terminal"} : ConsumerAt(s, "scan", to)
      BY <1>12, NoItemFact DEF TryRecv
    <3>2. QED
      BY <1>0, <3>1, ConsumerAtType
  <2>4. stop' = stop
    BY <1>12 DEF TryRecv, scan
  <2>5. UNCHANGED <<asleep, consElse>>
    BY <1>12 DEF TryRecv
  <2>6. QED
    BY <1>0, <2>1, <2>2, <2>3, <2>4, <2>5
       DEF RingType, ConsumerType, TypeOK, lives, prod, consElse
<1>13. ASSUME NEW s \in Shards, DrainRing(s) PROVE TypeOK'
  <2>1. stop' \in [Shards -> 0..CAP]
    <3>1. stop \in [Shards -> 0..CAP] /\ count[s][i[s]] \in 0..CAP
      BY <1>0 DEF TypeOK
    <3>2. QED
      BY <1>13, <3>1 DEF DrainRing
  <2>2. RingType
    <3>1. UNCHANGED <<i, progress, got>> => RingType
      BY <1>0 DEF RingType, TypeOK
    <3>2. QED
      BY <1>0, <1>13, <3>1, NextDrainType DEF DrainRing
  <2>3. ConsumerType
    BY <1>0, <1>13, ConsumerAtType, NextDrainType DEF DrainRing
  <2>4. UNCHANGED <<count, asleep, consElse>>
    BY <1>13 DEF DrainRing
  <2>5. QED
    BY <1>0, <2>1, <2>2, <2>3, <2>4
       DEF RingType, ConsumerType, TypeOK, lives, prod, consElse
<1>14. ASSUME NEW s \in Shards, DrainCommit(s) PROVE TypeOK'
  BY <1>0, <1>14, Sizes
     DEF DrainCommit, ConsumerAt, Ring, lives, prod, consElse, TypeOK, PlaceInv,
         Held
<1>15. ASSUME NEW s \in Shards, DrainPanic(s) PROVE TypeOK'
  BY <1>0, <1>15, Indices, Sizes
     DEF DrainPanic, ConsumerAt, Ring, FirstRing, lives, prod, consElse, TypeOK,
         PlaceInv, Held
<1>16. ASSUME NEW s \in Shards, WakeProducer(s) PROVE TypeOK'
  <2>1. RingType
    BY <1>0, <1>16, RingTypes, NextDrainType DEF WakeProducer
  <2>2. ConsumerType
    BY <1>0, <1>16, ConsumerAtType, NextDrainType DEF WakeProducer
  <2>3. UNCHANGED <<count, stop, consElse>> /\ asleep' \subseteq asleep
    BY <1>16 DEF WakeProducer, Wake
  <2>4. QED
    BY <1>0, <2>1, <2>2, <2>3
       DEF RingType, ConsumerType, TypeOK, lives, prod, consElse
<1>17. ASSUME NEW s \in Shards, IsTerminal(s) PROVE TypeOK'
  BY <1>0, <1>17 DEF IsTerminal, ConsumerAt, lives, prod, scan, consElse, TypeOK
<1>18. ASSUME NEW s \in Shards, ConsumerWait(s) PROVE TypeOK'
  BY <1>0, <1>18, Indices
     DEF ConsumerWait, ConsumerAt, Wait, lives, prod, scan, consElse, TypeOK
<1>19. ASSUME NEW s \in Shards, ConsumerCancel(s) PROVE TypeOK'
  BY <1>0, <1>19
     DEF ConsumerCancel, ConsumerAt, Wake, lives, prod, scan, consElse, TypeOK
<1>20. ASSUME NEW s \in Shards, ConsumerDrop(s) PROVE TypeOK'
  <2>1. live_consumers \in 1..N
    BY <1>0, <1>20, SomeoneLive DEF ConsumerDrop, ConsumerAt
  <2>2. live_consumers' \in 0..N
    BY <1>20, <2>1, Sizes DEF ConsumerDrop
  <2>3. QED
    BY <1>0, <1>20, <2>2 DEF ConsumerDrop, ConsumerAt, TypeOK, prod, scan
<1>21. ASSUME NEW s \in Shards, ConsumerLastWake(s) PROVE TypeOK'
  BY <1>0, <1>21, Next1
     DEF ConsumerLastWake, ConsumerAt, Wake, TypeOK, lives, prod, consElse
<1>22. CASE UNCHANGED vars
  BY <1>0, <1>22 DEF vars, lives, prod, cons, scan, TypeOK
<1>23. QED
  BY <1>1, <1>10, <1>11, <1>12, <1>13, <1>14, <1>15, <1>16, <1>17, <1>18, <1>19,
     <1>2, <1>20, <1>21, <1>22, <1>3, <1>4, <1>5, <1>6, <1>7, <1>8, <1>9
     DEF Next, ProducerStep, ConsumerStep

Left == {"lastWake", "gone"}

\* No handle goes.
SameLive ==
  /\ \A p \in Producers : pp'[p] \in Left <=> pp[p] \in Left
  /\ \A s \in Shards : cp'[s] \in Left <=> cp[s] \in Left

\* A step in which no handle goes keeps the counts exact.
LEMMA CountedKept == Counted /\ SameLive /\ UNCHANGED lives => Counted'
<1> SUFFICES ASSUME Counted, SameLive, UNCHANGED lives PROVE Counted'
  OBVIOUS
<1>1. LiveProducers' = LiveProducers /\ LiveConsumers' = LiveConsumers
  BY DEF LiveProducers, LiveConsumers, SameLive, Left
<1>2. QED
  BY <1>1 DEF Counted, lives

\* Each drop takes one handle off its count, and nothing else does.
LEMMA StepCounted == IInv /\ [Next]_vars => Counted'
<1> SUFFICES ASSUME IInv, [Next]_vars PROVE Counted'
  OBVIOUS
<1>0. TypeOK /\ Counted /\ PlaceInv
  BY DEF IInv
<1>1. ASSUME NEW p \in Producers, NEW op \in SENDS[p], StartSend(p, op) PROVE Counted'
  <2>1. SameLive /\ UNCHANGED lives
    BY <1>1 DEF StartSend, SameLive, Left, cons, prodElse
  <2>2. QED
    BY <1>0, <2>1, CountedKept
<1>2. ASSUME NEW p \in Producers, TryCheck(p) PROVE Counted'
  <2>1. SameLive /\ UNCHANGED lives
    BY <1>2 DEF TryCheck, ProducerAt, Refused, SameLive, Left, cons, prodElse
  <2>2. QED
    BY <1>0, <2>1, CountedKept
<1>3. ASSUME NEW p \in Producers, ScanShard(p) PROVE Counted'
  <2>1. SameLive /\ UNCHANGED lives
    BY <1>0, <1>3
       DEF ScanShard, ProducerAt, Refused, SameLive, Left, TypeOK, cons,
           prodElse
  <2>2. QED
    BY <1>0, <2>1, CountedKept
<1>4. ASSUME NEW p \in Producers, WakeConsumer(p) PROVE Counted'
  <2>1. SameLive /\ UNCHANGED lives
    BY <1>4 DEF WakeConsumer, ProducerAt, SameLive, Left, cons, prodElse
  <2>2. QED
    BY <1>0, <2>1, CountedKept
<1>5. ASSUME NEW p \in Producers, ProducerWait(p) PROVE Counted'
  <2>1. SameLive /\ UNCHANGED lives
    BY <1>5 DEF ProducerWait, ProducerAt, SameLive, Left, cons, prodElse
  <2>2. QED
    BY <1>0, <2>1, CountedKept
<1>6. ASSUME NEW p \in Producers, ProducerCancel(p) PROVE Counted'
  <2>1. SameLive /\ UNCHANGED lives
    BY <1>6 DEF ProducerCancel, ProducerAt, SameLive, Left, cons, prodElse
  <2>2. QED
    BY <1>0, <2>1, CountedKept
<1>7. ASSUME NEW p \in Producers, ProducerDrop(p) PROVE Counted'
  <2>1. /\ p \in LiveProducers /\ LiveProducers' = LiveProducers \ {p}
        /\ LiveConsumers' = LiveConsumers /\ live_consumers' = live_consumers
    BY <1>0, <1>7
       DEF ProducerDrop, ProducerAt, TypeOK, LiveProducers, LiveConsumers, cons
  <2>2. Cardinality(LiveProducers') = Cardinality(LiveProducers) - 1
    BY <2>1, LiveFinite, FS_RemoveElement
  <2>3. QED
    BY <1>0, <1>7, <2>1, <2>2 DEF ProducerDrop, Counted
<1>8. ASSUME NEW p \in Producers, ProducerLastWake(p) PROVE Counted'
  <2>1. SameLive /\ UNCHANGED lives
    BY <1>8 DEF ProducerLastWake, ProducerAt, SameLive, Left, cons, prodElse
  <2>2. QED
    BY <1>0, <2>1, CountedKept
<1>9. ASSUME Signal PROVE Counted'
  <2>1. SameLive /\ UNCHANGED lives
    BY <1>9 DEF Signal, SameLive, prod, cons
  <2>2. QED
    BY <1>0, <2>1, CountedKept
<1>10. ASSUME SignalWake PROVE Counted'
  <2>1. SameLive /\ UNCHANGED lives
    BY <1>10 DEF SignalWake, SameLive, prod, cons
  <2>2. QED
    BY <1>0, <2>1, CountedKept
<1>11. ASSUME NEW s \in Shards, NEW op \in RECVS[s], StartRecv(s, op) PROVE Counted'
  <2>1. SameLive /\ UNCHANGED lives
    BY <1>11 DEF StartRecv, SameLive, Left, prod, consElse
  <2>2. QED
    BY <1>0, <2>1, CountedKept
<1>12. ASSUME NEW s \in Shards, TryRecv(s) PROVE Counted'
  <2>1. SameLive /\ UNCHANGED lives
    BY <1>0, <1>12
       DEF TryRecv, ConsumerAt, NoItem, SameLive, Left, TypeOK, prod, consElse
  <2>2. QED
    BY <1>0, <2>1, CountedKept
<1>13. ASSUME NEW s \in Shards, DrainRing(s) PROVE Counted'
  <2>1. SameLive /\ UNCHANGED lives
    BY <1>0, <1>13
       DEF DrainRing, ConsumerAt, NextDrain, NoItem, Ring, SameLive, Left,
           TypeOK, prod, consElse
  <2>2. QED
    BY <1>0, <2>1, CountedKept
<1>14. ASSUME NEW s \in Shards, DrainCommit(s) PROVE Counted'
  <2>1. SameLive /\ UNCHANGED lives
    BY <1>14 DEF DrainCommit, ConsumerAt, SameLive, Left, prod, consElse
  <2>2. QED
    BY <1>0, <2>1, CountedKept
<1>15. ASSUME NEW s \in Shards, DrainPanic(s) PROVE Counted'
  <2>1. SameLive /\ UNCHANGED lives
    BY <1>15 DEF DrainPanic, ConsumerAt, SameLive, Left, prod, consElse
  <2>2. QED
    BY <1>0, <2>1, CountedKept
<1>16. ASSUME NEW s \in Shards, WakeProducer(s) PROVE Counted'
  <2>1. SameLive /\ UNCHANGED lives
    BY <1>0, <1>16
       DEF WakeProducer, ConsumerAt, NextDrain, NoItem, Ring, SameLive, Left,
           TypeOK, prod, consElse
  <2>2. QED
    BY <1>0, <2>1, CountedKept
<1>17. ASSUME NEW s \in Shards, IsTerminal(s) PROVE Counted'
  <2>1. SameLive /\ UNCHANGED lives
    BY <1>17 DEF IsTerminal, ConsumerAt, SameLive, Left, prod, consElse
  <2>2. QED
    BY <1>0, <2>1, CountedKept
<1>18. ASSUME NEW s \in Shards, ConsumerWait(s) PROVE Counted'
  <2>1. SameLive /\ UNCHANGED lives
    BY <1>18 DEF ConsumerWait, ConsumerAt, SameLive, Left, prod, consElse
  <2>2. QED
    BY <1>0, <2>1, CountedKept
<1>19. ASSUME NEW s \in Shards, ConsumerCancel(s) PROVE Counted'
  <2>1. SameLive /\ UNCHANGED lives
    BY <1>19 DEF ConsumerCancel, ConsumerAt, SameLive, Left, prod, consElse
  <2>2. QED
    BY <1>0, <2>1, CountedKept
<1>20. ASSUME NEW s \in Shards, ConsumerDrop(s) PROVE Counted'
  <2>1. /\ s \in LiveConsumers /\ LiveConsumers' = LiveConsumers \ {s}
        /\ LiveProducers' = LiveProducers /\ live_producers' = live_producers
    BY <1>0, <1>20
       DEF ConsumerDrop, ConsumerAt, TypeOK, LiveProducers, LiveConsumers, prod
  <2>2. Cardinality(LiveConsumers') = Cardinality(LiveConsumers) - 1
    BY <2>1, LiveFinite, FS_RemoveElement
  <2>3. QED
    BY <1>0, <1>20, <2>1, <2>2 DEF ConsumerDrop, Counted
<1>21. ASSUME NEW s \in Shards, ConsumerLastWake(s) PROVE Counted'
  <2>1. SameLive /\ UNCHANGED lives
    BY <1>21 DEF ConsumerLastWake, ConsumerAt, SameLive, Left, prod, consElse
  <2>2. QED
    BY <1>0, <2>1, CountedKept
<1>22. CASE UNCHANGED vars
  BY <1>0, <1>22
     DEF vars, lives, prod, cons, Counted, LiveProducers, LiveConsumers
<1>23. QED
  BY <1>1, <1>10, <1>11, <1>12, <1>13, <1>14, <1>15, <1>16, <1>17, <1>18, <1>19,
     <1>2, <1>20, <1>21, <1>22, <1>3, <1>4, <1>5, <1>6, <1>7, <1>8, <1>9
     DEF Next, ProducerStep, ConsumerStep

\* A send fills rings, and only the producer's own.
LEMMA ScanGrows ==
  ASSUME TypeOK, NEW p \in Producers, ScanShard(p)
  PROVE  /\ count' \in [Shards -> [Producers -> 0..CAP]]
         /\ \A s \in Shards, r \in Producers :
              count[s][r] <= count'[s][r] /\ (count'[s][r] # count[s][r] => r = p /\ s = At(p))
         /\ (pp'[p] = "wake" /\ UNCHANGED k) \/ UNCHANGED count
<1>0. count \in [Shards -> [Producers -> 0..CAP]]
  BY DEF TypeOK
<1>1. CASE UNCHANGED count
  BY <1>0, <1>1, Sizes
<1>2. ASSUME NEW n \in 1 .. CAP - count[At(p)][p],
             count' = [count EXCEPT ![At(p)][p] = @ + n]
      PROVE  /\ count' \in [Shards -> [Producers -> 0..CAP]]
             /\ \A s \in Shards, r \in Producers :
                  count[s][r] <= count'[s][r] /\ (count'[s][r] # count[s][r] => r = p /\ s = At(p))
  <2>1. At(p) \in Shards
    BY AtShard
  <2>2. count[At(p)][p] + n \in 0..CAP /\ count[At(p)][p] < count[At(p)][p] + n
    BY <1>0, <2>1, Sizes
  <2>3. count' \in [Shards -> [Producers -> 0..CAP]]
    BY <1>2, <2>1, <2>2, CountType
  <2>4. ASSUME NEW s \in Shards, NEW r \in Producers
        PROVE  count[s][r] <= count'[s][r] /\ (count'[s][r] # count[s][r] => r = p /\ s = At(p))
    <3>1. count[s][r] \in 0..CAP /\ CAP \in Nat
      BY <1>0, Sizes
    <3>2. count'[s][r] = IF s = At(p) /\ r = p THEN count[At(p)][p] + n ELSE count[s][r]
      BY <1>0, <1>2
    <3>3. QED
      BY <2>2, <3>1, <3>2
  <2>5. QED
    BY <2>3, <2>4
<1>3. pp \in [Producers -> {"idle", "try", "scan", "wake", "wait", "lastWake", "gone"}]
  BY DEF TypeOK
<1>4. QED
  BY <1>1, <1>2, <1>3 DEF ScanShard, ProducerAt

\* Where the sleepers and the scans are.
LEMMA StepPlace == IInv /\ [Next]_vars => PlaceInv'
<1> SUFFICES ASSUME IInv, [Next]_vars PROVE PlaceInv'
  OBVIOUS
<1>0. TypeOK /\ Counted /\ PlaceInv
  BY DEF IInv
<1>1. ASSUME NEW p \in Producers, NEW op \in SENDS[p], StartSend(p, op) PROVE PlaceInv'
  BY <1>0, <1>1
     DEF StartSend, cons, scan, prodElse, PlaceInv, Sleepers, AtFirst, Held
<1>2. ASSUME NEW p \in Producers, TryCheck(p) PROVE PlaceInv'
  BY <1>0, <1>2
     DEF TryCheck, ProducerAt, cons, scan, prodElse, PlaceInv, Sleepers,
         AtFirst, Held
<1>3. ASSUME NEW p \in Producers, ScanShard(p) PROVE PlaceInv'
  <2>1. Sleepers'
    BY <1>0, <1>3
       DEF ScanShard, ProducerAt, TypeOK, cons, prodElse, Sleepers, PlaceInv
  <2>2. AtFirst'
    BY <1>0, <1>3
       DEF ScanShard, ProducerAt, TypeOK, cons, scan, prodElse, AtFirst,
           PlaceInv
  <2>3. Held'
    <3>1. UNCHANGED <<cp, stop, i>> /\ stop \in [Shards -> 0..CAP] /\ i \in [Shards -> Producers]
      BY <1>0, <1>3 DEF ScanShard, prodElse, cons, scan, TypeOK
    <3>2. \A s \in Shards : count[s][i[s]] <= count'[s][i[s]]
      BY <1>0, <1>3, <3>1, ScanGrows
    <3>3. \A s \in Shards : count[s][i[s]] \in 0..CAP /\ count'[s][i[s]] \in 0..CAP
      BY <1>0, <1>3, <3>1, ScanGrows DEF TypeOK
    <3>4. QED
      BY <1>0, <3>1, <3>2, <3>3 DEF Held, PlaceInv
  <2>4. QED
    BY <2>1, <2>2, <2>3 DEF PlaceInv
<1>4. ASSUME NEW p \in Producers, WakeConsumer(p) PROVE PlaceInv'
  BY <1>0, <1>4
     DEF WakeConsumer, ProducerAt, Wake, cons, scan, prodElse, TypeOK, PlaceInv,
         Sleepers, AtFirst, Held
<1>5. ASSUME NEW p \in Producers, ProducerWait(p) PROVE PlaceInv'
  BY <1>0, <1>5, Indices
     DEF ProducerWait, ProducerAt, Wait, cons, scan, prodElse, PlaceInv,
         Sleepers, AtFirst, Held
<1>6. ASSUME NEW p \in Producers, ProducerCancel(p) PROVE PlaceInv'
  BY <1>0, <1>6
     DEF ProducerCancel, ProducerAt, Wake, cons, scan, prodElse, PlaceInv,
         Sleepers, AtFirst, Held
<1>7. ASSUME NEW p \in Producers, ProducerDrop(p) PROVE PlaceInv'
  BY <1>0, <1>7
     DEF ProducerDrop, ProducerAt, cons, scan, PlaceInv, Sleepers, AtFirst, Held
<1>8. ASSUME NEW p \in Producers, ProducerLastWake(p) PROVE PlaceInv'
  <2>1. Sleepers'
    BY <1>0, <1>8
       DEF ProducerLastWake, ProducerAt, Wake, cons, prodElse, Sleepers,
           PlaceInv
  <2>2. AtFirst'
    <3>1. k[p] \in 0 .. N - 1 /\ N \in Nat
      BY <1>0, Sizes DEF TypeOK
    <3>2. pp'[p] \in {"lastWake", "gone"} /\ (pp'[p] = "gone" => k'[p] = 0)
      BY <1>0, <1>8, <3>1, RoundOver DEF ProducerLastWake, ProducerAt, TypeOK
    <3>3. QED
      BY <1>0, <1>8, <3>2
         DEF ProducerLastWake, ProducerAt, prodElse, cons, scan, AtFirst,
             PlaceInv
  <2>3. Held'
    BY <1>0, <1>8 DEF ProducerLastWake, cons, scan, prodElse, Held, PlaceInv
  <2>4. QED
    BY <2>1, <2>2, <2>3 DEF PlaceInv
<1>9. ASSUME Signal PROVE PlaceInv'
  BY <1>0, <1>9 DEF Signal, prod, cons, scan, PlaceInv, Sleepers, AtFirst, Held
<1>10. ASSUME SignalWake PROVE PlaceInv'
  BY <1>0, <1>10
     DEF SignalWake, Wake, prod, cons, scan, PlaceInv, Sleepers, AtFirst, Held
<1>11. ASSUME NEW s \in Shards, NEW op \in RECVS[s], StartRecv(s, op) PROVE PlaceInv'
  BY <1>0, <1>11
     DEF StartRecv, prod, scan, consElse, PlaceInv, Sleepers, AtFirst, Held
<1>12. ASSUME NEW s \in Shards, TryRecv(s) PROVE PlaceInv'
  <2>1. Sleepers'
    BY <1>0, <1>12
       DEF TryRecv, ConsumerAt, TypeOK, prod, consElse, Sleepers, PlaceInv
  <2>2. AtFirst'
    BY <1>0, <1>12
       DEF TryRecv, ConsumerAt, Ring, FirstRing, NextRing, TypeOK, prod, scan,
           consElse, AtFirst, PlaceInv
  <2>3. Held'
    BY <1>0, <1>12
       DEF TryRecv, ConsumerAt, NoItem, Ring, FirstRing, NextRing, TypeOK, scan,
           Held, PlaceInv
  <2>4. QED
    BY <2>1, <2>2, <2>3 DEF PlaceInv
<1>13. ASSUME NEW s \in Shards, DrainRing(s) PROVE PlaceInv'
  <2>1. Sleepers'
    BY <1>0, <1>13
       DEF DrainRing, ConsumerAt, NextDrain, Ring, TypeOK, prod, consElse,
           Sleepers, PlaceInv
  <2>2. AtFirst'
    BY <1>0, <1>13
       DEF DrainRing, ConsumerAt, NextDrain, Ring, FirstRing, NextRing, TypeOK,
           prod, consElse, AtFirst, PlaceInv
  <2>3. Held'
    <3>0. count \in [Shards -> [Producers -> 0..CAP]] /\ i \in [Shards -> Producers]
      BY <1>0 DEF TypeOK
    <3>1. UNCHANGED count
      BY <1>13 DEF DrainRing
    <3>2. ASSUME NEW t \in Shards, cp'[t] = "commit", t # s PROVE stop'[t] <= count[t][i'[t]]
      BY <1>0, <1>13, <3>2
         DEF DrainRing, NextDrain, ConsumerAt, Ring, FirstRing, NextRing,
             TypeOK, Held, PlaceInv
    <3>3. ASSUME cp'[s] = "commit" PROVE stop'[s] = count[s][i[s]] /\ i' = i
      BY <1>0, <1>13, <3>3 DEF DrainRing, NextDrain, ConsumerAt, NoItem, TypeOK
    <3>4. count[s][i[s]] \in 0..CAP /\ CAP \in Nat
      BY <3>0, Sizes
    <3>5. QED
      BY <3>1, <3>2, <3>3, <3>4, Sizes DEF Held
  <2>4. QED
    BY <2>1, <2>2, <2>3 DEF PlaceInv
<1>14. ASSUME NEW s \in Shards, DrainCommit(s) PROVE PlaceInv'
  BY <1>0, <1>14
     DEF DrainCommit, ConsumerAt, Ring, prod, consElse, TypeOK, PlaceInv,
         Sleepers, AtFirst, Held
<1>15. ASSUME NEW s \in Shards, DrainPanic(s) PROVE PlaceInv'
  BY <1>0, <1>15
     DEF DrainPanic, ConsumerAt, Ring, FirstRing, prod, consElse, TypeOK,
         PlaceInv, Sleepers, AtFirst, Held
<1>16. ASSUME NEW s \in Shards, WakeProducer(s) PROVE PlaceInv'
  <2>1. Sleepers'
    BY <1>0, <1>16
       DEF WakeProducer, ConsumerAt, NextDrain, Wake, TypeOK, prod, consElse,
           Sleepers, PlaceInv
  <2>2. AtFirst'
    <3>1. cp'[s] = "scan" \/ i'[s] = 1
      BY <1>0, <1>16
         DEF WakeProducer, ConsumerAt, NextDrain, Ring, FirstRing, TypeOK
    <3>2. \A t \in Shards \ {s} : cp'[t] = cp[t] /\ i'[t] = i[t]
      BY <1>0, <1>16
         DEF WakeProducer, ConsumerAt, NextDrain, Ring, FirstRing, NextRing,
             TypeOK
    <3>3. UNCHANGED <<pp, k>>
      BY <1>16 DEF WakeProducer, consElse, prod
    <3>4. QED
      BY <1>0, <3>1, <3>2, <3>3 DEF AtFirst, PlaceInv
  <2>3. Held'
    <3>1. UNCHANGED <<count, stop>>
      BY <1>16 DEF WakeProducer
    <3>2. cp'[s] # "commit" /\ \A t \in Shards \ {s} : cp'[t] = cp[t] /\ i'[t] = i[t]
      <4>1. CASE ConsumerAt(s, "wake", "idle") /\ FirstRing(s)
        BY <1>0, <4>1, ConsumerAtFacts, RingFacts
      <4>2. CASE NextDrain(s, "wake")
        BY <1>0, <4>2, NextDrainFacts
      <4>3. QED
        BY <1>16, <4>1, <4>2 DEF WakeProducer
    <3>3. QED
      BY <1>0, <3>1, <3>2 DEF Held, PlaceInv
  <2>4. QED
    BY <2>1, <2>2, <2>3 DEF PlaceInv
<1>17. ASSUME NEW s \in Shards, IsTerminal(s) PROVE PlaceInv'
  BY <1>0, <1>17
     DEF IsTerminal, ConsumerAt, prod, scan, consElse, PlaceInv, Sleepers,
         AtFirst, Held
<1>18. ASSUME NEW s \in Shards, ConsumerWait(s) PROVE PlaceInv'
  BY <1>0, <1>18, Indices
     DEF ConsumerWait, ConsumerAt, Wait, prod, scan, consElse, PlaceInv,
         Sleepers, AtFirst, Held
<1>19. ASSUME NEW s \in Shards, ConsumerCancel(s) PROVE PlaceInv'
  BY <1>0, <1>19
     DEF ConsumerCancel, ConsumerAt, Wake, prod, scan, consElse, PlaceInv,
         Sleepers, AtFirst, Held
<1>20. ASSUME NEW s \in Shards, ConsumerDrop(s) PROVE PlaceInv'
  BY <1>0, <1>20
     DEF ConsumerDrop, ConsumerAt, prod, scan, PlaceInv, Sleepers, AtFirst, Held
<1>21. ASSUME NEW s \in Shards, ConsumerLastWake(s) PROVE PlaceInv'
  <2>1. Sleepers'
    BY <1>0, <1>21
       DEF ConsumerLastWake, ConsumerAt, Wake, prod, consElse, Sleepers,
           PlaceInv
  <2>2. AtFirst'
    <3>1. i[s] \in 1..M /\ M \in Nat \ {0}
      BY <1>0, Sizes DEF TypeOK, Producers
    <3>2. cp'[s] \in {"lastWake", "gone"} /\ (cp'[s] = "gone" => i'[s] = 1)
      <4>1. cp'[s] = (IF i[s] < M THEN "lastWake" ELSE "gone") /\ i'[s] = (i[s] % M) + 1
        BY <1>0, <1>21 DEF ConsumerLastWake, ConsumerAt, TypeOK
      <4>2. i[s] % M = IF i[s] = M THEN 0 ELSE i[s]
        BY <3>1, RoundOver DEF Producers
      <4>3. QED
        BY <3>1, <4>1, <4>2
    <3>3. QED
      BY <1>0, <1>21, <3>2
         DEF ConsumerLastWake, ConsumerAt, consElse, prod, AtFirst, PlaceInv
  <2>3. Held'
    BY <1>0, <1>21 DEF ConsumerLastWake, ConsumerAt, Held, PlaceInv
  <2>4. QED
    BY <2>1, <2>2, <2>3 DEF PlaceInv
<1>22. CASE UNCHANGED vars
  BY <1>0, <1>22 DEF vars, prod, cons, scan, PlaceInv, Sleepers, AtFirst, Held
<1>23. QED
  BY <1>1, <1>10, <1>11, <1>12, <1>13, <1>14, <1>15, <1>16, <1>17, <1>18, <1>19,
     <1>2, <1>20, <1>21, <1>22, <1>3, <1>4, <1>5, <1>6, <1>7, <1>8, <1>9
     DEF Next, ProducerStep, ConsumerStep

-----------------------------------------------------------------------------
\* Nothing of the shard changes except that items may come.
LEMMA HadFrame ==
  ASSUME count \in [Shards -> [Producers -> 0..CAP]], count' \in [Shards -> [Producers -> 0..CAP]],
         NEW s \in Shards, HadAt(s),
         cp'[s] = cp[s], recv'[s] = recv[s], i'[s] = i[s], got'[s] = got[s], had'[s] = had[s],
         \A r \in Producers : count[s][r] <= count'[s][r]
  PROVE  HadAt(s)'
<1>1. batch(s)' = batch(s)
  BY DEF batch
<1>2. ASSUME NEW r \in Producers, r >= i[s], count[s][r] > 0 PROVE r >= i'[s] /\ count'[s][r] > 0
  <2>1. count[s][r] \in 0..CAP /\ count'[s][r] \in 0..CAP /\ CAP \in Nat
    BY Sizes
  <2>2. count[s][r] <= count'[s][r] /\ i'[s] = i[s]
    OBVIOUS
  <2>3. QED
    BY <1>2, <2>1, <2>2
<1>3. QED
  BY <1>1, <1>2 DEF HadAt

\* A step of a producer, or of the signal.
LEMMA HadProducers ==
  ASSUME TypeOK, TypeOK', HadInv, UNCHANGED cons,
         \A s \in Shards, r \in Producers : count[s][r] <= count'[s][r]
  PROVE  HadInv'
<1>1. UNCHANGED <<cp, recv, i, got, had>>
  BY DEF cons, scan
<1>2. QED
  BY <1>1, HadFrame DEF HadInv, TypeOK

\* A step of one consumer.
Others(s) ==
  \A t \in Shards \ {s} :
    /\ cp'[t] = cp[t] /\ recv'[t] = recv[t] /\ i'[t] = i[t] /\ got'[t] = got[t]
    /\ had'[t] = had[t] /\ count'[t] = count[t]

\* It concerns the step's own consumer only.
LEMMA HadConsumer ==
  ASSUME TypeOK, TypeOK', HadInv, NEW s \in Shards, Others(s), HadAt(s)'
  PROVE  HadInv'
<1>1. ASSUME NEW t \in Shards \ {s} PROVE HadAt(t)'
  <2>1. ASSUME NEW r \in Producers PROVE count[t][r] <= count'[t][r]
    <3>1. count[t][r] \in 0..CAP /\ count'[t] = count[t] /\ CAP \in Nat
      BY Sizes DEF TypeOK, Others
    <3>2. QED
      BY <3>1
  <2>2. QED
    BY <2>1, HadFrame DEF HadInv, TypeOK, Others
<1>2. QED
  BY <1>1 DEF HadInv

\* A scan passes over no item that was there when the receive was called.
LEMMA StepHad == IInv /\ [Next]_vars => HadInv'
<1> SUFFICES ASSUME IInv, [Next]_vars PROVE HadInv'
  OBVIOUS
<1>0. TypeOK /\ PlaceInv /\ HadInv /\ TypeOK'
  BY StepType DEF IInv
<1>1. ASSUME NEW p \in Producers, NEW op \in SENDS[p], StartSend(p, op) PROVE HadInv'
  <2>1. UNCHANGED <<count, cons>>
    BY <1>1 DEF StartSend, cons, prodElse
  <2>2. ASSUME NEW s \in Shards, NEW r \in Producers PROVE count[s][r] <= count'[s][r]
    BY <1>0, <2>1, Sizes DEF TypeOK
  <2>3. QED
    BY <1>0, <2>1, <2>2, HadProducers
<1>2. ASSUME NEW p \in Producers, TryCheck(p) PROVE HadInv'
  <2>1. UNCHANGED <<count, cons>>
    BY <1>2 DEF TryCheck, cons, prodElse
  <2>2. ASSUME NEW s \in Shards, NEW r \in Producers PROVE count[s][r] <= count'[s][r]
    BY <1>0, <2>1, Sizes DEF TypeOK
  <2>3. QED
    BY <1>0, <2>1, <2>2, HadProducers
<1>3. ASSUME NEW p \in Producers, ScanShard(p) PROVE HadInv'
  BY <1>0, <1>3, HadProducers, ScanGrows DEF ScanShard, prodElse
<1>4. ASSUME NEW p \in Producers, WakeConsumer(p) PROVE HadInv'
  <2>1. UNCHANGED <<count, cons>>
    BY <1>4 DEF WakeConsumer, cons, prodElse
  <2>2. ASSUME NEW s \in Shards, NEW r \in Producers PROVE count[s][r] <= count'[s][r]
    BY <1>0, <2>1, Sizes DEF TypeOK
  <2>3. QED
    BY <1>0, <2>1, <2>2, HadProducers
<1>5. ASSUME NEW p \in Producers, ProducerWait(p) PROVE HadInv'
  <2>1. UNCHANGED <<count, cons>>
    BY <1>5 DEF ProducerWait, cons, prodElse
  <2>2. ASSUME NEW s \in Shards, NEW r \in Producers PROVE count[s][r] <= count'[s][r]
    BY <1>0, <2>1, Sizes DEF TypeOK
  <2>3. QED
    BY <1>0, <2>1, <2>2, HadProducers
<1>6. ASSUME NEW p \in Producers, ProducerCancel(p) PROVE HadInv'
  <2>1. UNCHANGED <<count, cons>>
    BY <1>6 DEF ProducerCancel, cons, prodElse
  <2>2. ASSUME NEW s \in Shards, NEW r \in Producers PROVE count[s][r] <= count'[s][r]
    BY <1>0, <2>1, Sizes DEF TypeOK
  <2>3. QED
    BY <1>0, <2>1, <2>2, HadProducers
<1>7. ASSUME NEW p \in Producers, ProducerDrop(p) PROVE HadInv'
  <2>1. UNCHANGED <<count, cons>>
    BY <1>7 DEF ProducerDrop, cons, prodElse
  <2>2. ASSUME NEW s \in Shards, NEW r \in Producers PROVE count[s][r] <= count'[s][r]
    BY <1>0, <2>1, Sizes DEF TypeOK
  <2>3. QED
    BY <1>0, <2>1, <2>2, HadProducers
<1>8. ASSUME NEW p \in Producers, ProducerLastWake(p) PROVE HadInv'
  <2>1. UNCHANGED <<count, cons>>
    BY <1>8 DEF ProducerLastWake, cons, prodElse
  <2>2. ASSUME NEW s \in Shards, NEW r \in Producers PROVE count[s][r] <= count'[s][r]
    BY <1>0, <2>1, Sizes DEF TypeOK
  <2>3. QED
    BY <1>0, <2>1, <2>2, HadProducers
<1>9. ASSUME Signal PROVE HadInv'
  <2>1. UNCHANGED <<count, cons>>
    BY <1>9 DEF Signal, cons
  <2>2. ASSUME NEW s \in Shards, NEW r \in Producers PROVE count[s][r] <= count'[s][r]
    BY <1>0, <2>1, Sizes DEF TypeOK
  <2>3. QED
    BY <1>0, <2>1, <2>2, HadProducers
<1>10. ASSUME SignalWake PROVE HadInv'
  <2>1. UNCHANGED <<count, cons>>
    BY <1>10 DEF SignalWake, cons
  <2>2. ASSUME NEW s \in Shards, NEW r \in Producers PROVE count[s][r] <= count'[s][r]
    BY <1>0, <2>1, Sizes DEF TypeOK
  <2>3. QED
    BY <1>0, <2>1, <2>2, HadProducers
<1>11. ASSUME NEW s \in Shards, NEW op \in RECVS[s], StartRecv(s, op) PROVE HadInv'
  <2>1. Others(s)
    BY <1>11 DEF StartRecv, Others, scan
  <2>2. HadAt(s)'
    BY <1>0, <1>11, Indices
       DEF StartRecv, HadInv, HadAt, any_ring_has_work, PlaceInv, AtFirst, scan,
           TypeOK
  <2>3. QED
    BY <1>0, <2>1, <2>2, HadConsumer
<1>12. ASSUME NEW s \in Shards, TryRecv(s) PROVE HadInv'
  <2>0. i[s] \in Nat /\ i[s] >= 1 /\ i[s] <= M /\ M \in Nat /\ cp[s] = "scan" /\ HadAt(s)
    BY <1>0, <1>12, Indices, Sizes DEF TryRecv, ConsumerAt, TypeOK, HadInv
  <2>1. CASE /\ count[s][i[s]] > 0 /\ ConsumerAt(s, "scan", "wake") /\ UNCHANGED scan
             /\ count' = [count EXCEPT ![s][i[s]] = @ - 1]
    <3>1. Others(s)
      BY <1>0, <2>1, ConsumerAtFacts DEF Others, scan, TypeOK
    <3>2. HadAt(s)'
      BY <1>0, <1>12, <2>0, <2>1, ConsumerAtFacts
         DEF TryRecv, HadAt, batch, scan
    <3>3. QED
      BY <1>0, <3>1, <3>2, HadConsumer
  <2>2. CASE /\ count[s][i[s]] = 0 /\ i[s] < M /\ ConsumerAt(s, "scan", "scan")
             /\ NextRing(s) /\ UNCHANGED count
    <3>1. Others(s)
      BY <1>0, <2>2, ConsumerAtFacts, RingFacts DEF Others
    <3>2. /\ cp'[s] = "scan" /\ recv'[s] = recv[s] /\ had'[s] = had[s]
          /\ i'[s] = i[s] + 1 /\ got'[s] = got[s]
      BY <1>0, <2>2, ConsumerAtFacts, RingFacts
    <3>3. ASSUME NEW r \in Producers, r >= i[s], count[s][r] > 0 PROVE r >= i[s] + 1
      BY <2>0, <2>2, <3>3, Indices
    <3>4. HadAt(s)'
      BY <2>0, <2>2, <3>2, <3>3 DEF HadAt, batch
    <3>5. QED
      BY <1>0, <3>1, <3>4, HadConsumer
  <2>3. CASE /\ count[s][i[s]] = 0 /\ i[s] = M /\ ConsumerAt(s, "scan", NoItem(s))
             /\ FirstRing(s) /\ UNCHANGED count
    <3>1. Others(s)
      BY <1>0, <2>3, ConsumerAtFacts, RingFacts DEF Others
    <3>2. ~got[s] /\ ~got'[s]
      BY <1>0, <1>12, <2>0, <2>3, RingFacts DEF TryRecv, HadAt
    <3>3. ~had[s]
      <4>1. ASSUME NEW r \in Producers, r >= i[s] PROVE r = M
        BY <2>0, <2>3, <4>1, Indices
      <4>2. QED
        BY <2>0, <2>3, <3>2, <4>1 DEF HadAt
    <3>4. cp'[s] = NoItem(s) /\ NoItem(s) \in {"idle", "terminal"} /\ (cp'[s] = "terminal" => ~had'[s])
      BY <1>0, <2>3, <3>3, ConsumerAtFacts DEF NoItem
    <3>5. HadAt(s)'
      BY <3>2, <3>4 DEF HadAt
    <3>6. QED
      BY <1>0, <3>1, <3>5, HadConsumer
  <2>4. QED
    BY <1>12, <2>1, <2>2, <2>3 DEF TryRecv
<1>13. ASSUME NEW s \in Shards, DrainRing(s) PROVE HadInv'
  <2>0. /\ i[s] \in Nat /\ i[s] >= 1 /\ i[s] <= M /\ M \in Nat /\ HadAt(s)
        /\ batch(s) /\ UNCHANGED count
    BY <1>0, <1>13, Indices, Sizes DEF DrainRing, TypeOK, HadInv
  <2>1. CASE ConsumerAt(s, "scan", "commit") /\ UNCHANGED <<i, progress, got>>
    <3>1. Others(s)
      BY <1>0, <2>0, <2>1, ConsumerAtFacts DEF Others
    <3>2. HadAt(s)'
      BY <1>0, <2>0, <2>1, ConsumerAtFacts DEF HadAt, batch
    <3>3. QED
      BY <1>0, <3>1, <3>2, HadConsumer
  <2>2. CASE count[s][i[s]] = 0 /\ NextDrain(s, "scan")
    <3>1. Others(s)
      BY <1>0, <2>0, <2>2, NextDrainFacts DEF Others
    <3>2. ASSUME NEW r \in Producers, r >= i[s], count[s][r] > 0 PROVE i[s] # M /\ r >= i[s] + 1
      BY <2>0, <2>2, <3>2, Indices
    <3>3. HadAt(s)'
      BY <1>0, <2>0, <2>2, <3>2, NextDrainFacts DEF HadAt, batch
    <3>4. QED
      BY <1>0, <3>1, <3>3, HadConsumer
  <2>3. QED
    BY <1>13, <2>1, <2>2 DEF DrainRing
<1>14. ASSUME NEW s \in Shards, DrainCommit(s) PROVE HadInv'
  <2>1. Others(s)
    BY <1>14 DEF DrainCommit, ConsumerAt, Ring, Others
  <2>2. HadAt(s)'
    BY <1>0, <1>14
       DEF DrainCommit, ConsumerAt, Ring, HadInv, HadAt, batch, TypeOK
  <2>3. QED
    BY <1>0, <2>1, <2>2, HadConsumer
<1>15. ASSUME NEW s \in Shards, DrainPanic(s) PROVE HadInv'
  <2>1. Others(s)
    BY <1>15 DEF DrainPanic, ConsumerAt, Ring, FirstRing, Others
  <2>2. HadAt(s)'
    BY <1>0, <1>15 DEF DrainPanic, ConsumerAt, HadInv, HadAt, batch
  <2>3. QED
    BY <1>0, <2>1, <2>2, HadConsumer
<1>16. ASSUME NEW s \in Shards, WakeProducer(s) PROVE HadInv'
  <2>0. HadAt(s) /\ UNCHANGED count
    BY <1>0, <1>16 DEF WakeProducer, HadInv
  <2>1. CASE ConsumerAt(s, "wake", "idle") /\ FirstRing(s)
    <3>1. Others(s)
      BY <1>0, <2>0, <2>1, ConsumerAtFacts, RingFacts DEF Others
    <3>2. HadAt(s)'
      BY <1>0, <2>0, <2>1, ConsumerAtFacts, RingFacts DEF HadAt
    <3>3. QED
      BY <1>0, <3>1, <3>2, HadConsumer
  <2>2. CASE batch(s) /\ NextDrain(s, "wake")
    <3>1. Others(s)
      BY <1>0, <2>0, <2>2, NextDrainFacts DEF Others
    <3>2. got[s]
      BY <1>0, <2>0, <2>2, NextDrainFacts DEF HadAt
    <3>3. HadAt(s)'
      BY <1>0, <2>2, <3>2, NextDrainFacts DEF HadAt, batch
    <3>4. QED
      BY <1>0, <3>1, <3>3, HadConsumer
  <2>3. QED
    BY <1>16, <2>1, <2>2 DEF WakeProducer
<1>17. ASSUME NEW s \in Shards, IsTerminal(s) PROVE HadInv'
  <2>1. Others(s)
    BY <1>17 DEF IsTerminal, ConsumerAt, Others, scan
  <2>2. HadAt(s)'
    BY <1>0, <1>17 DEF IsTerminal, ConsumerAt, HadInv, HadAt, scan
  <2>3. QED
    BY <1>0, <2>1, <2>2, HadConsumer
<1>18. ASSUME NEW s \in Shards, ConsumerWait(s) PROVE HadInv'
  <2>1. Others(s)
    BY <1>18 DEF ConsumerWait, ConsumerAt, Others, scan
  <2>2. HadAt(s)'
    BY <1>0, <1>18 DEF ConsumerWait, ConsumerAt, HadInv, HadAt, scan
  <2>3. QED
    BY <1>0, <2>1, <2>2, HadConsumer
<1>19. ASSUME NEW s \in Shards, ConsumerCancel(s) PROVE HadInv'
  <2>1. Others(s)
    BY <1>19 DEF ConsumerCancel, ConsumerAt, Others, scan
  <2>2. HadAt(s)'
    BY <1>0, <1>19 DEF ConsumerCancel, ConsumerAt, HadInv, HadAt, scan
  <2>3. QED
    BY <1>0, <2>1, <2>2, HadConsumer
<1>20. ASSUME NEW s \in Shards, ConsumerDrop(s) PROVE HadInv'
  <2>1. Others(s)
    BY <1>20 DEF ConsumerDrop, ConsumerAt, Others, scan
  <2>2. HadAt(s)'
    BY <1>0, <1>20 DEF ConsumerDrop, ConsumerAt, HadInv, HadAt, scan
  <2>3. QED
    BY <1>0, <2>1, <2>2, HadConsumer
<1>21. ASSUME NEW s \in Shards, ConsumerLastWake(s) PROVE HadInv'
  <2>1. Others(s)
    BY <1>21 DEF ConsumerLastWake, ConsumerAt, Others
  <2>2. HadAt(s)'
    BY <1>21 DEF ConsumerLastWake, ConsumerAt, HadAt
  <2>3. QED
    BY <1>0, <2>1, <2>2, HadConsumer
<1>22. CASE UNCHANGED vars
  BY <1>0, <1>22 DEF vars, cons, scan, HadInv, HadAt, batch
<1>23. QED
  BY <1>1, <1>10, <1>11, <1>12, <1>13, <1>14, <1>15, <1>16, <1>17, <1>18, <1>19,
     <1>2, <1>20, <1>21, <1>22, <1>3, <1>4, <1>5, <1>6, <1>7, <1>8, <1>9
     DEF Next, ProducerStep, ConsumerStep

-----------------------------------------------------------------------------
\* A consumer's wake that is still to come.
RecvOwed(s) ==
  \/ sd \in 1..s
  \/ \E p \in Producers : pp[p] = "wake" /\ At(p) = s
  \/ \E p \in Producers : pp[p] = "lastWake" /\ k[p] < s
RecvAt(s) == s \in asleep /\ ReceiverReason(s) => RecvOwed(s)

\* The property, shard by shard ...
LEMMA RecvByShard == ReceiverOwedWake <=> \A s \in Shards : RecvAt(s)
BY DEF ReceiverOwedWake, RecvAt, RecvOwed

\* ... and after a step.
LEMMA RecvAfter == (\A s \in Shards : s \in asleep' /\ ReceiverReason(s)' => RecvOwed(s)')
                     => ReceiverOwedWake'
BY DEF ReceiverOwedWake, RecvOwed

\* Nobody falls asleep, gets a reason to be up, or forgets a wake.
WakersKept ==
  \A q \in Producers : pp[q] \in {"wake", "lastWake"} =>
    pp'[q] = pp[q] /\ At(q)' = At(q) /\ k'[q] = k[q]
NoMoreWork == \A s \in Shards : any_ring_has_work(s)' => any_ring_has_work(s)

\* A step that touches none of it owes the same wakes afterwards.
LEMMA RecvFrame ==
  ASSUME ReceiverOwedWake, UNCHANGED <<sd, live_producers>>, WakersKept, NoMoreWork,
         \A s \in Shards : s \in asleep' => s \in asleep
  PROVE  ReceiverOwedWake'
<1>1. ASSUME NEW s \in Shards, RecvAt(s), s \in asleep', ReceiverReason(s)' PROVE RecvOwed(s)'
  <2>1. s \in asleep /\ ReceiverReason(s)
    BY <1>1 DEF ReceiverReason, is_terminal_for_consumer, Shutdown, NoMoreWork
  <2>2. RecvOwed(s)
    BY <1>1, <2>1 DEF RecvAt
  <2>3. QED
    BY <2>2 DEF RecvOwed, WakersKept
<1>2. \A s \in Shards : RecvAt(s)
  BY RecvByShard
<1>3. QED
  BY <1>1, <1>2, RecvAfter

\* An item less, or the same.
LEMMA FewerItems ==
  ASSUME TypeOK, TypeOK', \A s \in Shards, r \in Producers : count'[s][r] <= count[s][r]
  PROVE  NoMoreWork
<1>1. ASSUME NEW s \in Shards, NEW r \in Producers, count'[s][r] > 0 PROVE count[s][r] > 0
  <2>1. count[s][r] \in 0..CAP /\ count'[s][r] \in 0..CAP /\ count'[s][r] <= count[s][r]
    BY DEF TypeOK
  <2>2. QED
    BY <1>1, <2>1, Sizes
<1>2. QED
  BY <1>1 DEF NoMoreWork, any_ring_has_work

\* A receive takes items out of one ring of its shard.
LEMMA TakesItems ==
  ASSUME TypeOK, PlaceInv, NEW s \in Shards, TryRecv(s) \/ DrainCommit(s) \/ DrainPanic(s)
  PROVE  /\ \A t \in Shards, r \in Producers : count'[t][r] <= count[t][r]
         /\ \A t \in Shards, r \in Producers : count'[t][r] # count[t][r] => t = s /\ r = i[s]
<1>0. /\ count \in [Shards -> [Producers -> 0..CAP]] /\ i[s] \in Producers /\ stop[s] \in 0..CAP
  BY DEF TypeOK
<1>1. UNCHANGED count \/ \E n \in 0..CAP : count' = [count EXCEPT ![s][i[s]] = @ - n]
  <2>1. CASE TryRecv(s)
    <3>1. UNCHANGED count \/ count' = [count EXCEPT ![s][i[s]] = @ - 1]
      BY <2>1 DEF TryRecv
    <3>2. 1 \in 0..CAP
      BY Sizes
    <3>3. QED
      BY <3>1, <3>2
  <2>2. CASE DrainCommit(s)
    BY <1>0, <2>2 DEF DrainCommit
  <2>3. CASE DrainPanic(s)
    <3>1. PICK n \in 1..stop[s] : count' = [count EXCEPT ![s][i[s]] = @ - n]
      BY <2>3 DEF DrainPanic
    <3>2. n \in 0..CAP
      BY <1>0, Sizes
    <3>3. QED
      BY <3>1, <3>2
  <2>4. QED
    BY <2>1, <2>2, <2>3
<1>2. ASSUME NEW t \in Shards, NEW r \in Producers
      PROVE  count'[t][r] <= count[t][r] /\ (count'[t][r] # count[t][r] => t = s /\ r = i[s])
  <2>1. count[t][r] \in 0..CAP /\ CAP \in Nat
    BY <1>0, Sizes
  <2>2. ASSUME NEW n \in 0..CAP, count' = [count EXCEPT ![s][i[s]] = @ - n]
        PROVE  count'[t][r] <= count[t][r] /\ (count'[t][r] # count[t][r] => t = s /\ r = i[s])
    <3>1. count'[t][r] = IF t = s /\ r = i[s] THEN count[s][i[s]] - n ELSE count[t][r]
      BY <1>0, <2>2
    <3>2. QED
      BY <2>1, <3>1
  <2>3. QED
    BY <1>1, <2>1, <2>2
<1>3. QED
  BY <1>2

\* No consumer is left asleep with a reason to be up and nobody to wake it.
LEMMA StepReceiver == IInv /\ [Next]_vars => ReceiverOwedWake'
<1> SUFFICES ASSUME IInv, [Next]_vars PROVE ReceiverOwedWake'
  OBVIOUS
<1>0. TypeOK /\ PlaceInv /\ ReceiverOwedWake /\ TypeOK'
  BY StepType DEF IInv
<1>1. ASSUME NEW p \in Producers, NEW op \in SENDS[p], StartSend(p, op) PROVE ReceiverOwedWake'
  <2>1. UNCHANGED <<sd, live_producers, count, cursor, k>>
    BY <1>1 DEF StartSend, prodElse, lives
  <2>2. WakersKept
    BY <1>1 DEF StartSend, WakersKept, At
  <2>3. NoMoreWork
    BY <2>1 DEF NoMoreWork, any_ring_has_work
  <2>4. \A s \in Shards : s \in asleep' => s \in asleep
    BY <1>1, Indices DEF StartSend, prodElse
  <2>5. QED
    BY <1>0, <2>1, <2>2, <2>3, <2>4, RecvFrame
<1>2. ASSUME NEW p \in Producers, TryCheck(p) PROVE ReceiverOwedWake'
  <2>1. UNCHANGED <<sd, live_producers, count, cursor, k>>
    BY <1>2 DEF TryCheck, prodElse, lives
  <2>2. WakersKept
    BY <1>2 DEF TryCheck, ProducerAt, WakersKept, At
  <2>3. NoMoreWork
    BY <2>1 DEF NoMoreWork, any_ring_has_work
  <2>4. \A s \in Shards : s \in asleep' => s \in asleep
    BY <1>2, Indices DEF TryCheck, ProducerAt, Refused, prodElse
  <2>5. QED
    BY <1>0, <2>1, <2>2, <2>3, <2>4, RecvFrame
<1>3. ASSUME NEW p \in Producers, ScanShard(p) PROVE ReceiverOwedWake'
  <2>1. UNCHANGED <<sd, live_producers, asleep, cursor>>
    BY <1>3 DEF ScanShard, prodElse, lives
  <2>2. WakersKept
    <3>1. pp[p] = "scan" /\ \A q \in Producers \ {p} : pp'[q] = pp[q] /\ k'[q] = k[q]
      BY <1>0, <1>3 DEF ScanShard, ProducerAt, TypeOK
    <3>2. \A q \in Producers \ {p} : At(q)' = At(q)
      BY <2>1, <3>1 DEF At
    <3>3. QED
      BY <3>1, <3>2 DEF WakersKept
  <2>3. CASE UNCHANGED count
    <3>1. NoMoreWork
      BY <2>3 DEF NoMoreWork, any_ring_has_work
    <3>2. QED
      BY <1>0, <2>1, <2>2, <3>1, RecvFrame
  <2>4. CASE pp'[p] = "wake" /\ UNCHANGED k
    <3>1. At(p)' = At(p)
      BY <2>1, <2>4 DEF At
    <3>2. ASSUME NEW s \in Shards PROVE s \in asleep' /\ ReceiverReason(s)' => RecvOwed(s)'
      <4>1. CASE s = At(p)
        BY <2>4, <3>1, <4>1 DEF RecvOwed
      <4>2. CASE s # At(p)
        <5>1. any_ring_has_work(s)' => any_ring_has_work(s)
          BY <1>0, <1>3, <4>2, ScanGrows DEF any_ring_has_work
        <5>2. RecvAt(s)
          BY <1>0, RecvByShard
        <5>3. ReceiverReason(s)' => ReceiverReason(s)
          BY <2>1, <5>1 DEF ReceiverReason, is_terminal_for_consumer, Shutdown
        <5>4. RecvOwed(s) => RecvOwed(s)'
          BY <2>1, <2>2 DEF RecvOwed, WakersKept
        <5>5. QED
          BY <2>1, <5>2, <5>3, <5>4 DEF RecvAt
      <4>3. QED
        BY <4>1, <4>2
    <3>3. QED
      BY <3>2, RecvAfter
  <2>5. QED
    BY <1>0, <1>3, <2>3, <2>4, ScanGrows
<1>4. ASSUME NEW p \in Producers, WakeConsumer(p) PROVE ReceiverOwedWake'
  <2>1. UNCHANGED <<sd, live_producers, count>> /\ asleep' = asleep \ {At(p)}
    BY <1>4 DEF WakeConsumer, Wake, prodElse, lives
  <2>2. \A q \in Producers \ {p} : pp'[q] = pp[q] /\ At(q)' = At(q) /\ k'[q] = k[q]
    BY <1>0, <1>4 DEF WakeConsumer, ProducerAt, At, TypeOK
  <2>3. ASSUME NEW s \in Shards, s \in asleep', ReceiverReason(s)' PROVE RecvOwed(s)'
    <3>1. s # At(p) /\ RecvOwed(s)
      BY <1>0, <2>1, <2>3, RecvByShard
         DEF RecvAt, ReceiverReason, is_terminal_for_consumer, Shutdown,
             any_ring_has_work
    <3>2. pp[p] = "wake"
      BY <1>4 DEF WakeConsumer, ProducerAt
    <3>3. QED
      BY <2>1, <2>2, <3>1, <3>2 DEF RecvOwed
  <2>4. QED
    BY <2>3, RecvAfter
<1>5. ASSUME NEW p \in Producers, ProducerWait(p) PROVE ReceiverOwedWake'
  <2>1. UNCHANGED <<sd, live_producers, count, cursor, k>>
    BY <1>5 DEF ProducerWait, prodElse, lives
  <2>2. WakersKept
    BY <1>5 DEF ProducerWait, ProducerAt, WakersKept, At
  <2>3. NoMoreWork
    BY <2>1 DEF NoMoreWork, any_ring_has_work
  <2>4. \A s \in Shards : s \in asleep' => s \in asleep
    BY <1>5, Indices DEF ProducerWait, ProducerAt, Wait, prodElse
  <2>5. QED
    BY <1>0, <2>1, <2>2, <2>3, <2>4, RecvFrame
<1>6. ASSUME NEW p \in Producers, ProducerCancel(p) PROVE ReceiverOwedWake'
  <2>1. UNCHANGED <<sd, live_producers, count, cursor, k>>
    BY <1>6 DEF ProducerCancel, prodElse, lives
  <2>2. WakersKept
    BY <1>6 DEF ProducerCancel, ProducerAt, WakersKept, At
  <2>3. NoMoreWork
    BY <2>1 DEF NoMoreWork, any_ring_has_work
  <2>4. \A s \in Shards : s \in asleep' => s \in asleep
    BY <1>6, Indices DEF ProducerCancel, ProducerAt, Wake, prodElse
  <2>5. QED
    BY <1>0, <2>1, <2>2, <2>3, <2>4, RecvFrame
<1>7. ASSUME NEW p \in Producers, ProducerDrop(p) PROVE ReceiverOwedWake'
  <2>1. UNCHANGED <<sd, count, asleep, cursor, k>> /\ live_producers' = live_producers - 1
    BY <1>7 DEF ProducerDrop
  <2>2. CASE live_producers = 1
    <3>1. pp'[p] = "lastWake" /\ k'[p] = 0
      BY <1>0, <1>7, <2>2
         DEF ProducerDrop, ProducerAt, PlaceInv, AtFirst, TypeOK
    <3>2. \A s \in Shards : RecvOwed(s)'
      BY <3>1, Indices DEF RecvOwed
    <3>3. QED
      BY <3>2, RecvAfter
  <2>3. CASE live_producers # 1
    <3>1. WakersKept
      BY <1>7 DEF ProducerDrop, ProducerAt, WakersKept, At
    <3>2. ASSUME NEW s \in Shards, s \in asleep', ReceiverReason(s)' PROVE RecvOwed(s)'
      <4>1. live_producers' # 0
        BY <1>0, <2>1, <2>3, Sizes DEF TypeOK
      <4>2. ReceiverReason(s)
        BY <2>1, <3>2, <4>1
           DEF ReceiverReason, is_terminal_for_consumer, Shutdown,
               any_ring_has_work
      <4>3. RecvOwed(s)
        BY <1>0, <2>1, <3>2, <4>2, RecvByShard DEF RecvAt
      <4>4. QED
        BY <2>1, <3>1, <4>3 DEF RecvOwed, WakersKept
    <3>3. QED
      BY <3>2, RecvAfter
  <2>4. QED
    BY <2>2, <2>3
<1>8. ASSUME NEW p \in Producers, ProducerLastWake(p) PROVE ReceiverOwedWake'
  <2>1. UNCHANGED <<sd, live_producers, count, cursor>> /\ asleep' = asleep \ {k[p] + 1}
    BY <1>8 DEF ProducerLastWake, Wake, prodElse, lives
  <2>2. \A q \in Producers \ {p} : pp'[q] = pp[q] /\ At(q)' = At(q) /\ k'[q] = k[q]
    BY <1>8 DEF ProducerLastWake, ProducerAt, At
  <2>3. k[p] \in 0 .. N - 1 /\ pp[p] = "lastWake" /\ k'[p] = (k[p] + 1) % N
        /\ pp'[p] = (IF k[p] + 1 < N THEN "lastWake" ELSE "gone")
    BY <1>0, <1>8 DEF ProducerLastWake, ProducerAt, TypeOK
  <2>4. ASSUME NEW s \in Shards, s \in asleep', ReceiverReason(s)' PROVE RecvOwed(s)'
    <3>1. s # k[p] + 1 /\ RecvOwed(s)
      BY <1>0, <2>1, <2>4, RecvByShard
         DEF RecvAt, ReceiverReason, is_terminal_for_consumer, Shutdown,
             any_ring_has_work
    <3>2. ASSUME k[p] < s PROVE pp'[p] = "lastWake" /\ k'[p] < s
      <4>1. s \in 1..N /\ N \in Nat
        BY Sizes DEF Shards
      <4>2. k[p] + 1 < s /\ k[p] + 1 < N
        BY <2>3, <3>1, <3>2, <4>1
      <4>3. k'[p] = k[p] + 1
        BY <2>3, <4>2, RoundOver, Sizes
      <4>4. QED
        BY <2>3, <4>2, <4>3
    <3>3. QED
      BY <2>1, <2>2, <2>3, <3>1, <3>2 DEF RecvOwed
  <2>5. QED
    BY <2>4, RecvAfter
<1>9. ASSUME Signal PROVE ReceiverOwedWake'
  <2>1. \A s \in Shards : RecvOwed(s)'
    BY <1>9, Indices DEF Signal, RecvOwed
  <2>2. QED
    BY <2>1, RecvAfter
<1>10. ASSUME SignalWake PROVE ReceiverOwedWake'
  <2>1. UNCHANGED <<live_producers, count, pp, cursor, k>> /\ asleep' = asleep \ {sd} /\ sd' = sd + 1
    BY <1>10 DEF SignalWake, Wake, lives, prod
  <2>2. sd \in Nat /\ sd > 0
    BY <1>10, Sizes DEF SignalWake, Waiters
  <2>3. ASSUME NEW s \in Shards, s \in asleep', ReceiverReason(s)' PROVE RecvOwed(s)'
    <3>1. s # sd /\ RecvOwed(s)
      BY <1>0, <2>1, <2>2, <2>3, RecvByShard
         DEF RecvAt, ReceiverReason, is_terminal_for_consumer, Shutdown
    <3>2. sd \in 1..s => sd' \in 1..s
      BY <2>1, <2>2, <3>1, Indices
    <3>3. At(1)' = At(1) /\ \A q \in Producers : At(q)' = At(q)
      BY <2>1 DEF At
    <3>4. QED
      BY <2>1, <3>1, <3>2, <3>3 DEF RecvOwed
  <2>4. QED
    BY <2>3, RecvAfter
<1>11. ASSUME NEW s \in Shards, NEW op \in RECVS[s], StartRecv(s, op) PROVE ReceiverOwedWake'
  <2>1. UNCHANGED <<sd, live_producers, pp, cursor, k>>
    BY <1>11 DEF StartRecv, consElse, lives, prod
  <2>2. WakersKept
    BY <2>1 DEF WakersKept, At
  <2>3. \A t \in Shards, r \in Producers : count'[t][r] <= count[t][r]
    <3>1. UNCHANGED count
      BY <1>11 DEF StartRecv
    <3>2. QED
      BY <1>0, <3>1, Sizes DEF TypeOK
  <2>4. \A t \in Shards : t \in asleep' => t \in asleep
    BY <1>11 DEF StartRecv
  <2>5. QED
    BY <1>0, <2>1, <2>2, <2>3, <2>4, FewerItems, RecvFrame
<1>12. ASSUME NEW s \in Shards, TryRecv(s) PROVE ReceiverOwedWake'
  <2>1. UNCHANGED <<sd, live_producers, pp, cursor, k>>
    BY <1>12 DEF TryRecv, consElse, lives, prod
  <2>2. WakersKept
    BY <2>1 DEF WakersKept, At
  <2>3. \A t \in Shards, r \in Producers : count'[t][r] <= count[t][r]
    BY <1>0, <1>12, TakesItems
  <2>4. \A t \in Shards : t \in asleep' => t \in asleep
    BY <1>12 DEF TryRecv
  <2>5. QED
    BY <1>0, <2>1, <2>2, <2>3, <2>4, FewerItems, RecvFrame
<1>13. ASSUME NEW s \in Shards, DrainRing(s) PROVE ReceiverOwedWake'
  <2>1. UNCHANGED <<sd, live_producers, pp, cursor, k>>
    BY <1>13 DEF DrainRing, consElse, lives, prod
  <2>2. WakersKept
    BY <2>1 DEF WakersKept, At
  <2>3. \A t \in Shards, r \in Producers : count'[t][r] <= count[t][r]
    <3>1. UNCHANGED count
      BY <1>13 DEF DrainRing
    <3>2. QED
      BY <1>0, <3>1, Sizes DEF TypeOK
  <2>4. \A t \in Shards : t \in asleep' => t \in asleep
    BY <1>13 DEF DrainRing
  <2>5. QED
    BY <1>0, <2>1, <2>2, <2>3, <2>4, FewerItems, RecvFrame
<1>14. ASSUME NEW s \in Shards, DrainCommit(s) PROVE ReceiverOwedWake'
  <2>1. UNCHANGED <<sd, live_producers, pp, cursor, k>>
    BY <1>14 DEF DrainCommit, consElse, lives, prod
  <2>2. WakersKept
    BY <2>1 DEF WakersKept, At
  <2>3. \A t \in Shards, r \in Producers : count'[t][r] <= count[t][r]
    BY <1>0, <1>14, TakesItems
  <2>4. \A t \in Shards : t \in asleep' => t \in asleep
    BY <1>14 DEF DrainCommit
  <2>5. QED
    BY <1>0, <2>1, <2>2, <2>3, <2>4, FewerItems, RecvFrame
<1>15. ASSUME NEW s \in Shards, DrainPanic(s) PROVE ReceiverOwedWake'
  <2>1. UNCHANGED <<sd, live_producers, pp, cursor, k>>
    BY <1>15 DEF DrainPanic, consElse, lives, prod
  <2>2. WakersKept
    BY <2>1 DEF WakersKept, At
  <2>3. \A t \in Shards, r \in Producers : count'[t][r] <= count[t][r]
    BY <1>0, <1>15, TakesItems
  <2>4. \A t \in Shards : t \in asleep' => t \in asleep
    BY <1>15 DEF DrainPanic
  <2>5. QED
    BY <1>0, <2>1, <2>2, <2>3, <2>4, FewerItems, RecvFrame
<1>16. ASSUME NEW s \in Shards, WakeProducer(s) PROVE ReceiverOwedWake'
  <2>1. UNCHANGED <<sd, live_producers, pp, cursor, k>>
    BY <1>16 DEF WakeProducer, consElse, lives, prod
  <2>2. WakersKept
    BY <2>1 DEF WakersKept, At
  <2>3. \A t \in Shards, r \in Producers : count'[t][r] <= count[t][r]
    <3>1. UNCHANGED count
      BY <1>16 DEF WakeProducer
    <3>2. QED
      BY <1>0, <3>1, Sizes DEF TypeOK
  <2>4. \A t \in Shards : t \in asleep' => t \in asleep
    BY <1>16 DEF WakeProducer, Wake
  <2>5. QED
    BY <1>0, <2>1, <2>2, <2>3, <2>4, FewerItems, RecvFrame
<1>17. ASSUME NEW s \in Shards, IsTerminal(s) PROVE ReceiverOwedWake'
  <2>1. UNCHANGED <<sd, live_producers, pp, cursor, k>>
    BY <1>17 DEF IsTerminal, consElse, lives, prod
  <2>2. WakersKept
    BY <2>1 DEF WakersKept, At
  <2>3. \A t \in Shards, r \in Producers : count'[t][r] <= count[t][r]
    <3>1. UNCHANGED count
      BY <1>17 DEF IsTerminal
    <3>2. QED
      BY <1>0, <3>1, Sizes DEF TypeOK
  <2>4. \A t \in Shards : t \in asleep' => t \in asleep
    BY <1>17 DEF IsTerminal
  <2>5. QED
    BY <1>0, <2>1, <2>2, <2>3, <2>4, FewerItems, RecvFrame
<1>18. ASSUME NEW s \in Shards, ConsumerWait(s) PROVE ReceiverOwedWake'
  <2>1. UNCHANGED <<sd, live_producers, pp, cursor, k, count>>
    BY <1>18 DEF ConsumerWait, consElse, lives, prod
  <2>2. asleep' = asleep \/ (~ReceiverReason(s) /\ asleep' = asleep \cup {s})
    <3>1. Wait(s, any_ring_has_work(s) \/ is_terminal_for_consumer)
      BY <1>18 DEF ConsumerWait
    <3>2. QED
      BY <3>1 DEF Wait, ReceiverReason
  <2>3. ASSUME NEW t \in Shards, t \in asleep', ReceiverReason(t)' PROVE RecvOwed(t)'
    <3>1. ReceiverReason(t)
      BY <2>1, <2>3
         DEF ReceiverReason, is_terminal_for_consumer, Shutdown,
             any_ring_has_work
    <3>2. t \in asleep
      BY <2>2, <2>3, <3>1
    <3>3. RecvOwed(t)
      BY <1>0, <3>1, <3>2, RecvByShard DEF RecvAt
    <3>4. QED
      BY <2>1, <3>3 DEF RecvOwed, At
  <2>4. QED
    BY <2>3, RecvAfter
<1>19. ASSUME NEW s \in Shards, ConsumerCancel(s) PROVE ReceiverOwedWake'
  <2>1. UNCHANGED <<sd, live_producers, pp, cursor, k>>
    BY <1>19 DEF ConsumerCancel, consElse, lives, prod
  <2>2. WakersKept
    BY <2>1 DEF WakersKept, At
  <2>3. \A t \in Shards, r \in Producers : count'[t][r] <= count[t][r]
    <3>1. UNCHANGED count
      BY <1>19 DEF ConsumerCancel
    <3>2. QED
      BY <1>0, <3>1, Sizes DEF TypeOK
  <2>4. \A t \in Shards : t \in asleep' => t \in asleep
    BY <1>19 DEF ConsumerCancel, Wake
  <2>5. QED
    BY <1>0, <2>1, <2>2, <2>3, <2>4, FewerItems, RecvFrame
<1>20. ASSUME NEW s \in Shards, ConsumerDrop(s) PROVE ReceiverOwedWake'
  <2>1. UNCHANGED <<sd, live_producers, pp, cursor, k>>
    BY <1>20 DEF ConsumerDrop, consElse, lives, prod
  <2>2. WakersKept
    BY <2>1 DEF WakersKept, At
  <2>3. \A t \in Shards, r \in Producers : count'[t][r] <= count[t][r]
    <3>1. UNCHANGED count
      BY <1>20 DEF ConsumerDrop
    <3>2. QED
      BY <1>0, <3>1, Sizes DEF TypeOK
  <2>4. \A t \in Shards : t \in asleep' => t \in asleep
    BY <1>20 DEF ConsumerDrop
  <2>5. QED
    BY <1>0, <2>1, <2>2, <2>3, <2>4, FewerItems, RecvFrame
<1>21. ASSUME NEW s \in Shards, ConsumerLastWake(s) PROVE ReceiverOwedWake'
  <2>1. UNCHANGED <<sd, live_producers, pp, cursor, k>>
    BY <1>21 DEF ConsumerLastWake, consElse, lives, prod
  <2>2. WakersKept
    BY <2>1 DEF WakersKept, At
  <2>3. \A t \in Shards, r \in Producers : count'[t][r] <= count[t][r]
    <3>1. UNCHANGED count
      BY <1>21 DEF ConsumerLastWake
    <3>2. QED
      BY <1>0, <3>1, Sizes DEF TypeOK
  <2>4. \A t \in Shards : t \in asleep' => t \in asleep
    BY <1>21 DEF ConsumerLastWake, Wake
  <2>5. QED
    BY <1>0, <2>1, <2>2, <2>3, <2>4, FewerItems, RecvFrame
<1>22. CASE UNCHANGED vars
  BY <1>0, <1>22
     DEF vars, lives, prod, At, ReceiverOwedWake, ReceiverReason,
         is_terminal_for_consumer, Shutdown, any_ring_has_work
<1>23. QED
  BY <1>1, <1>10, <1>11, <1>12, <1>13, <1>14, <1>15, <1>16, <1>17, <1>18, <1>19,
     <1>2, <1>20, <1>21, <1>22, <1>3, <1>4, <1>5, <1>6, <1>7, <1>8, <1>9
     DEF Next, ProducerStep, ConsumerStep

-----------------------------------------------------------------------------
\* A producer's wake that is still to come.
SendOwed(p) ==
  \/ sd \in 1 .. N + p
  \/ \E s \in Shards : cp[s] = "wake" /\ i[s] = p
  \/ \E s \in Shards : cp[s] = "lastWake" /\ i[s] <= p
SendAt(p) == N + p \in asleep /\ SenderReason(p) => SendOwed(p)

\* The property, producer by producer ...
LEMMA SendByProducer == SenderOwedWake <=> \A p \in Producers : SendAt(p)
BY DEF SenderOwedWake, SendAt, SendOwed

\* ... and after a step.
LEMMA SendAfter == (\A p \in Producers : N + p \in asleep' /\ SenderReason(p)' => SendOwed(p)')
                     => SenderOwedWake'
BY DEF SenderOwedWake, SendOwed

\* Nobody falls asleep, gets a reason to be up, or forgets a wake.
ServersKept ==
  \A t \in Shards : cp[t] \in {"wake", "lastWake"} => cp'[t] = cp[t] /\ i'[t] = i[t]
StillLeaving == \A t \in Shards : Leaving(t) => Leaving(t)'
NoMoreRoom(p) == \A t \in Shards : count'[t][p] < CAP => Leaving(t)' \/ count[t][p] < CAP

\* Who has a reason to be up had it before.
LEMMA SenderReasonOld ==
  ASSUME NEW p \in Producers, SenderReason(p)', sd' > 0 => sd > 0,
         live_consumers' = 0 => live_consumers = 0, StillLeaving, NoMoreRoom(p)
  PROVE  SenderReason(p)
BY DEF SenderReason, is_terminal_for_producer, Shutdown, StillLeaving,
       NoMoreRoom

\* A step that touches none of it owes the same wakes afterwards.
LEMMA SendFrame ==
  ASSUME SenderOwedWake, UNCHANGED <<sd, live_consumers>>, ServersKept, StillLeaving,
         \A p \in Producers : NoMoreRoom(p),
         \A p \in Producers : N + p \in asleep' => N + p \in asleep
  PROVE  SenderOwedWake'
<1>1. ASSUME NEW p \in Producers, N + p \in asleep', SenderReason(p)' PROVE SendOwed(p)'
  <2>1. SenderReason(p)
    BY <1>1, SenderReasonOld
  <2>2. SendOwed(p)
    BY <1>1, <2>1, SendByProducer DEF SendAt
  <2>3. QED
    BY <2>2 DEF SendOwed, ServersKept
<1>2. QED
  BY <1>1, SendAfter

\* No producer is left asleep with a reason to be up and nobody to wake it.
LEMMA StepSender == IInv /\ [Next]_vars => SenderOwedWake'
<1> SUFFICES ASSUME IInv, [Next]_vars PROVE SenderOwedWake'
  OBVIOUS
<1>0. TypeOK /\ PlaceInv /\ SenderOwedWake /\ TypeOK'
  BY StepType DEF IInv
<1>1. ASSUME NEW p \in Producers, NEW op \in SENDS[p], StartSend(p, op) PROVE SenderOwedWake'
  <2>1. UNCHANGED <<sd, live_consumers, cp, i>>
    BY <1>1 DEF StartSend, prodElse, lives, cons, scan
  <2>2. ServersKept /\ StillLeaving
    BY <2>1 DEF ServersKept, StillLeaving, Leaving
  <2>3. \A q \in Producers : NoMoreRoom(q)
    <3>1. UNCHANGED count
      BY <1>1 DEF StartSend
    <3>2. QED
      BY <3>1 DEF NoMoreRoom
  <2>4. \A q \in Producers : N + q \in asleep' => N + q \in asleep
    BY <1>1 DEF StartSend
  <2>5. QED
    BY <1>0, <2>1, <2>2, <2>3, <2>4, SendFrame
<1>2. ASSUME NEW p \in Producers, TryCheck(p) PROVE SenderOwedWake'
  <2>1. UNCHANGED <<sd, live_consumers, cp, i>>
    BY <1>2 DEF TryCheck, prodElse, lives, cons, scan
  <2>2. ServersKept /\ StillLeaving
    BY <2>1 DEF ServersKept, StillLeaving, Leaving
  <2>3. \A q \in Producers : NoMoreRoom(q)
    <3>1. UNCHANGED count
      BY <1>2 DEF TryCheck
    <3>2. QED
      BY <3>1 DEF NoMoreRoom
  <2>4. \A q \in Producers : N + q \in asleep' => N + q \in asleep
    BY <1>2 DEF TryCheck
  <2>5. QED
    BY <1>0, <2>1, <2>2, <2>3, <2>4, SendFrame
<1>3. ASSUME NEW p \in Producers, ScanShard(p) PROVE SenderOwedWake'
  <2>1. UNCHANGED <<sd, live_consumers, cp, i>>
    BY <1>3 DEF ScanShard, prodElse, lives, cons, scan
  <2>2. ServersKept /\ StillLeaving
    BY <2>1 DEF ServersKept, StillLeaving, Leaving
  <2>3. \A q \in Producers : NoMoreRoom(q)
    <3>1. ASSUME NEW q \in Producers, NEW t \in Shards, count'[t][q] < CAP PROVE count[t][q] < CAP
      <4>1. count[t][q] <= count'[t][q]
        BY <1>0, <1>3, ScanGrows
      <4>2. count[t][q] \in 0..CAP /\ count'[t][q] \in 0..CAP /\ CAP \in Nat
        BY <1>0, Sizes DEF TypeOK
      <4>3. QED
        BY <3>1, <4>1, <4>2
    <3>2. QED
      BY <3>1 DEF NoMoreRoom
  <2>4. \A q \in Producers : N + q \in asleep' => N + q \in asleep
    BY <1>3 DEF ScanShard
  <2>5. QED
    BY <1>0, <2>1, <2>2, <2>3, <2>4, SendFrame
<1>4. ASSUME NEW p \in Producers, WakeConsumer(p) PROVE SenderOwedWake'
  <2>1. UNCHANGED <<sd, live_consumers, cp, i>>
    BY <1>4 DEF WakeConsumer, prodElse, lives, cons, scan
  <2>2. ServersKept /\ StillLeaving
    BY <2>1 DEF ServersKept, StillLeaving, Leaving
  <2>3. \A q \in Producers : NoMoreRoom(q)
    <3>1. UNCHANGED count
      BY <1>4 DEF WakeConsumer
    <3>2. QED
      BY <3>1 DEF NoMoreRoom
  <2>4. \A q \in Producers : N + q \in asleep' => N + q \in asleep
    BY <1>4 DEF WakeConsumer, Wake
  <2>5. QED
    BY <1>0, <2>1, <2>2, <2>3, <2>4, SendFrame
<1>5. ASSUME NEW p \in Producers, ProducerWait(p) PROVE SenderOwedWake'
  <2>1. UNCHANGED <<sd, live_consumers, cp, i, count>>
    BY <1>5 DEF ProducerWait, prodElse, lives, cons, scan
  <2>2. asleep' = asleep \/ (~SenderReason(p) /\ asleep' = asleep \cup {N + p})
    <3>1. Wait(N + p, has_idle_shard(p) \/ is_terminal_for_producer)
      BY <1>5 DEF ProducerWait
    <3>2. ~(has_idle_shard(p) \/ is_terminal_for_producer) => ~SenderReason(p)
      BY DEF SenderReason, has_idle_shard
    <3>3. QED
      BY <3>1, <3>2 DEF Wait
  <2>3. ASSUME NEW q \in Producers, N + q \in asleep', SenderReason(q)' PROVE SendOwed(q)'
    <3>1. SenderReason(q)
      BY <2>1, <2>3
         DEF SenderReason, is_terminal_for_producer, Shutdown, Leaving
    <3>2. N + q \in asleep
      BY <2>2, <2>3, <3>1, Indices
    <3>3. SendOwed(q)
      BY <1>0, <3>1, <3>2, SendByProducer DEF SendAt
    <3>4. QED
      BY <2>1, <3>3 DEF SendOwed
  <2>4. QED
    BY <2>3, SendAfter
<1>6. ASSUME NEW p \in Producers, ProducerCancel(p) PROVE SenderOwedWake'
  <2>1. UNCHANGED <<sd, live_consumers, cp, i>>
    BY <1>6 DEF ProducerCancel, prodElse, lives, cons, scan
  <2>2. ServersKept /\ StillLeaving
    BY <2>1 DEF ServersKept, StillLeaving, Leaving
  <2>3. \A q \in Producers : NoMoreRoom(q)
    <3>1. UNCHANGED count
      BY <1>6 DEF ProducerCancel
    <3>2. QED
      BY <3>1 DEF NoMoreRoom
  <2>4. \A q \in Producers : N + q \in asleep' => N + q \in asleep
    BY <1>6 DEF ProducerCancel, Wake
  <2>5. QED
    BY <1>0, <2>1, <2>2, <2>3, <2>4, SendFrame
<1>7. ASSUME NEW p \in Producers, ProducerDrop(p) PROVE SenderOwedWake'
  <2>1. UNCHANGED <<sd, live_consumers, cp, i>>
    BY <1>7 DEF ProducerDrop, prodElse, lives, cons, scan
  <2>2. ServersKept /\ StillLeaving
    BY <2>1 DEF ServersKept, StillLeaving, Leaving
  <2>3. \A q \in Producers : NoMoreRoom(q)
    <3>1. UNCHANGED count
      BY <1>7 DEF ProducerDrop
    <3>2. QED
      BY <3>1 DEF NoMoreRoom
  <2>4. \A q \in Producers : N + q \in asleep' => N + q \in asleep
    BY <1>7 DEF ProducerDrop
  <2>5. QED
    BY <1>0, <2>1, <2>2, <2>3, <2>4, SendFrame
<1>8. ASSUME NEW p \in Producers, ProducerLastWake(p) PROVE SenderOwedWake'
  <2>1. UNCHANGED <<sd, live_consumers, cp, i>>
    BY <1>8 DEF ProducerLastWake, prodElse, lives, cons, scan
  <2>2. ServersKept /\ StillLeaving
    BY <2>1 DEF ServersKept, StillLeaving, Leaving
  <2>3. \A q \in Producers : NoMoreRoom(q)
    <3>1. UNCHANGED count
      BY <1>8 DEF ProducerLastWake
    <3>2. QED
      BY <3>1 DEF NoMoreRoom
  <2>4. \A q \in Producers : N + q \in asleep' => N + q \in asleep
    BY <1>8 DEF ProducerLastWake, Wake
  <2>5. QED
    BY <1>0, <2>1, <2>2, <2>3, <2>4, SendFrame
<1>9. ASSUME Signal PROVE SenderOwedWake'
  <2>1. \A p \in Producers : SendOwed(p)'
    BY <1>9, Indices, Sizes DEF Signal, SendOwed
  <2>2. QED
    BY <2>1, SendAfter
<1>10. ASSUME SignalWake PROVE SenderOwedWake'
  <2>1. UNCHANGED <<live_consumers, count, cp, i>> /\ asleep' = asleep \ {sd} /\ sd' = sd + 1
    BY <1>10 DEF SignalWake, Wake, lives, cons, scan
  <2>2. sd \in Nat /\ sd > 0
    BY <1>10, Sizes DEF SignalWake, Waiters
  <2>3. ASSUME NEW p \in Producers, N + p \in asleep', SenderReason(p)' PROVE SendOwed(p)'
    <3>1. SenderReason(p)
      BY <2>2 DEF SenderReason, is_terminal_for_producer, Shutdown
    <3>2. N + p # sd /\ SendOwed(p)
      BY <1>0, <2>1, <2>3, <3>1, SendByProducer DEF SendAt
    <3>3. sd \in 1 .. N + p => sd' \in 1 .. N + p
      BY <2>1, <2>2, <3>2, Indices, Sizes
    <3>4. QED
      BY <2>1, <3>2, <3>3 DEF SendOwed
  <2>4. QED
    BY <2>3, SendAfter
<1>11. ASSUME NEW s \in Shards, NEW op \in RECVS[s], StartRecv(s, op) PROVE SenderOwedWake'
  <2>1. UNCHANGED <<sd, live_consumers>>
    BY <1>11 DEF StartRecv, consElse, lives
  <2>2. ServersKept /\ StillLeaving
    BY <1>11 DEF StartRecv, ServersKept, StillLeaving, Leaving, scan
  <2>3. \A q \in Producers : NoMoreRoom(q)
    <3>1. UNCHANGED count
      BY <1>11 DEF StartRecv
    <3>2. QED
      BY <3>1 DEF NoMoreRoom
  <2>4. \A q \in Producers : N + q \in asleep' => N + q \in asleep
    BY <1>11, Indices DEF StartRecv
  <2>5. QED
    BY <1>0, <2>1, <2>2, <2>3, <2>4, SendFrame
<1>12. ASSUME NEW s \in Shards, TryRecv(s) PROVE SenderOwedWake'
  <2>1. UNCHANGED <<sd, live_consumers, asleep>>
    BY <1>12 DEF TryRecv, consElse, lives
  <2>2. CASE cp'[s] = "wake" /\ i'[s] = i[s] /\ cp[s] \in {"scan", "commit"}
             /\ \A t \in Shards \ {s} : cp'[t] = cp[t] /\ i'[t] = i[t]
    <3>1. ServersKept /\ StillLeaving
      BY <2>2 DEF ServersKept, StillLeaving, Leaving
    <3>2. ASSUME NEW q \in Producers, N + q \in asleep', SenderReason(q)' PROVE SendOwed(q)'
      <4>1. CASE q = i[s]
        BY <2>2, <4>1 DEF SendOwed
      <4>2. CASE q # i[s]
        <5>1. NoMoreRoom(q)
          BY <1>0, <1>12, <4>2, TakesItems DEF NoMoreRoom
        <5>2. SenderReason(q)
          BY <2>1, <3>1, <3>2, <5>1, SenderReasonOld
        <5>3. SendOwed(q)
          BY <1>0, <2>1, <3>2, <5>2, SendByProducer DEF SendAt
        <5>4. QED
          BY <2>1, <3>1, <5>3 DEF SendOwed, ServersKept
      <4>3. QED
        BY <4>1, <4>2
    <3>3. QED
      BY <3>2, SendAfter
  <2>3. CASE UNCHANGED count /\ cp[s] = "scan"
             /\ \A t \in Shards \ {s} : cp'[t] = cp[t] /\ i'[t] = i[t]
    <3>1. ServersKept /\ StillLeaving /\ \A q \in Producers : NoMoreRoom(q)
      BY <2>3 DEF ServersKept, StillLeaving, Leaving, NoMoreRoom
    <3>2. QED
      BY <1>0, <2>1, <3>1, SendFrame
  <2>4. QED
    <3>1. CASE ConsumerAt(s, "scan", "wake") /\ UNCHANGED scan
      BY <1>0, <2>2, <3>1, ConsumerAtFacts DEF scan
    <3>2. CASE ConsumerAt(s, "scan", "scan") /\ NextRing(s) /\ UNCHANGED count
      BY <1>0, <2>3, <3>2, ConsumerAtFacts, RingFacts
    <3>3. CASE ConsumerAt(s, "scan", NoItem(s)) /\ FirstRing(s) /\ UNCHANGED count
      BY <1>0, <2>3, <3>3, ConsumerAtFacts, RingFacts
    <3>4. QED
      BY <1>12, <3>1, <3>2, <3>3 DEF TryRecv
<1>13. ASSUME NEW s \in Shards, DrainRing(s) PROVE SenderOwedWake'
  <2>1. UNCHANGED <<sd, live_consumers>>
    BY <1>13 DEF DrainRing, consElse, lives
  <2>2. ServersKept /\ StillLeaving
    <3>1. cp[s] = "scan" /\ \A t \in Shards \ {s} : cp'[t] = cp[t] /\ i'[t] = i[t]
      <4>1. CASE ConsumerAt(s, "scan", "commit") /\ UNCHANGED i
        BY <1>0, <4>1, ConsumerAtFacts
      <4>2. CASE NextDrain(s, "scan")
        BY <1>0, <4>2, NextDrainFacts
      <4>3. QED
        BY <1>13, <4>1, <4>2 DEF DrainRing
    <3>2. QED
      BY <3>1 DEF ServersKept, StillLeaving, Leaving
  <2>3. \A q \in Producers : NoMoreRoom(q)
    <3>1. UNCHANGED count
      BY <1>13 DEF DrainRing
    <3>2. QED
      BY <3>1 DEF NoMoreRoom
  <2>4. \A q \in Producers : N + q \in asleep' => N + q \in asleep
    BY <1>13, Indices DEF DrainRing
  <2>5. QED
    BY <1>0, <2>1, <2>2, <2>3, <2>4, SendFrame
<1>14. ASSUME NEW s \in Shards, DrainCommit(s) PROVE SenderOwedWake'
  <2>1. UNCHANGED <<sd, live_consumers, asleep>>
    BY <1>14 DEF DrainCommit, consElse, lives
  <2>2. CASE cp'[s] = "wake" /\ i'[s] = i[s] /\ cp[s] \in {"scan", "commit"}
             /\ \A t \in Shards \ {s} : cp'[t] = cp[t] /\ i'[t] = i[t]
    <3>1. ServersKept /\ StillLeaving
      BY <2>2 DEF ServersKept, StillLeaving, Leaving
    <3>2. ASSUME NEW q \in Producers, N + q \in asleep', SenderReason(q)' PROVE SendOwed(q)'
      <4>1. CASE q = i[s]
        BY <2>2, <4>1 DEF SendOwed
      <4>2. CASE q # i[s]
        <5>1. NoMoreRoom(q)
          BY <1>0, <1>14, <4>2, TakesItems DEF NoMoreRoom
        <5>2. SenderReason(q)
          BY <2>1, <3>1, <3>2, <5>1, SenderReasonOld
        <5>3. SendOwed(q)
          BY <1>0, <2>1, <3>2, <5>2, SendByProducer DEF SendAt
        <5>4. QED
          BY <2>1, <3>1, <5>3 DEF SendOwed, ServersKept
      <4>3. QED
        BY <4>1, <4>2
    <3>3. QED
      BY <3>2, SendAfter
  <2>3. QED
    <3>1. ConsumerAt(s, "commit", "wake") /\ Ring(s, i[s], TRUE, TRUE)
      BY <1>14 DEF DrainCommit
    <3>2. i'[s] = i[s] /\ \A t \in Shards \ {s} : i'[t] = i[t]
      BY <1>0, <3>1 DEF Ring, TypeOK
    <3>3. QED
      BY <1>0, <2>2, <3>1, <3>2, ConsumerAtFacts
<1>15. ASSUME NEW s \in Shards, DrainPanic(s) PROVE SenderOwedWake'
  <2>1. UNCHANGED <<sd, live_consumers>>
    BY <1>15 DEF DrainPanic, consElse, lives
  <2>2. ServersKept /\ StillLeaving
    BY <1>15
       DEF DrainPanic, ConsumerAt, Ring, FirstRing, ServersKept, StillLeaving,
           Leaving
  <2>3. \A q \in Producers : NoMoreRoom(q)
    <3>1. Leaving(s)'
      BY <1>0, <1>15 DEF DrainPanic, ConsumerAt, Leaving, TypeOK
    <3>2. ASSUME NEW t \in Shards \ {s}, NEW q \in Producers PROVE count'[t][q] = count[t][q]
      BY <1>0, <1>15, TakesItems
    <3>3. QED
      BY <3>1, <3>2 DEF NoMoreRoom
  <2>4. \A q \in Producers : N + q \in asleep' => N + q \in asleep
    BY <1>15, Indices DEF DrainPanic
  <2>5. QED
    BY <1>0, <2>1, <2>2, <2>3, <2>4, SendFrame
<1>16. ASSUME NEW s \in Shards, WakeProducer(s) PROVE SenderOwedWake'
  <2>1. UNCHANGED <<sd, live_consumers, count>> /\ asleep' = asleep \ {N + i[s]}
    BY <1>16 DEF WakeProducer, Wake, consElse, lives
  <2>2. cp[s] = "wake" /\ \A t \in Shards \ {s} : cp'[t] = cp[t] /\ i'[t] = i[t]
    <3>1. CASE ConsumerAt(s, "wake", "idle") /\ FirstRing(s)
      BY <1>0, <3>1, ConsumerAtFacts, RingFacts
    <3>2. CASE NextDrain(s, "wake")
      BY <1>0, <3>2, NextDrainFacts
    <3>3. QED
      BY <1>16, <3>1, <3>2 DEF WakeProducer
  <2>3. ASSUME NEW p \in Producers, N + p \in asleep', SenderReason(p)' PROVE SendOwed(p)'
    <3>1. StillLeaving /\ NoMoreRoom(p)
      BY <2>1, <2>2 DEF StillLeaving, NoMoreRoom, Leaving
    <3>2. SenderReason(p)
      BY <2>1, <2>3, <3>1, SenderReasonOld
    <3>3. i[s] # p /\ SendOwed(p)
      BY <1>0, <2>1, <2>3, <3>2, SendByProducer DEF SendAt
    <3>4. QED
      BY <2>1, <2>2, <3>3 DEF SendOwed
  <2>4. QED
    BY <2>3, SendAfter
<1>17. ASSUME NEW s \in Shards, IsTerminal(s) PROVE SenderOwedWake'
  <2>1. UNCHANGED <<sd, live_consumers>>
    BY <1>17 DEF IsTerminal, consElse, lives
  <2>2. ServersKept /\ StillLeaving
    BY <1>17
       DEF IsTerminal, ConsumerAt, ServersKept, StillLeaving, Leaving, scan
  <2>3. \A q \in Producers : NoMoreRoom(q)
    <3>1. UNCHANGED count
      BY <1>17 DEF IsTerminal
    <3>2. QED
      BY <3>1 DEF NoMoreRoom
  <2>4. \A q \in Producers : N + q \in asleep' => N + q \in asleep
    BY <1>17, Indices DEF IsTerminal
  <2>5. QED
    BY <1>0, <2>1, <2>2, <2>3, <2>4, SendFrame
<1>18. ASSUME NEW s \in Shards, ConsumerWait(s) PROVE SenderOwedWake'
  <2>1. UNCHANGED <<sd, live_consumers>>
    BY <1>18 DEF ConsumerWait, consElse, lives
  <2>2. ServersKept /\ StillLeaving
    BY <1>18
       DEF ConsumerWait, ConsumerAt, ServersKept, StillLeaving, Leaving, scan
  <2>3. \A q \in Producers : NoMoreRoom(q)
    <3>1. UNCHANGED count
      BY <1>18 DEF ConsumerWait
    <3>2. QED
      BY <3>1 DEF NoMoreRoom
  <2>4. \A q \in Producers : N + q \in asleep' => N + q \in asleep
    BY <1>18, Indices DEF ConsumerWait, Wait
  <2>5. QED
    BY <1>0, <2>1, <2>2, <2>3, <2>4, SendFrame
<1>19. ASSUME NEW s \in Shards, ConsumerCancel(s) PROVE SenderOwedWake'
  <2>1. UNCHANGED <<sd, live_consumers>>
    BY <1>19 DEF ConsumerCancel, consElse, lives
  <2>2. ServersKept /\ StillLeaving
    BY <1>19
       DEF ConsumerCancel, ConsumerAt, ServersKept, StillLeaving, Leaving, scan
  <2>3. \A q \in Producers : NoMoreRoom(q)
    <3>1. UNCHANGED count
      BY <1>19 DEF ConsumerCancel
    <3>2. QED
      BY <3>1 DEF NoMoreRoom
  <2>4. \A q \in Producers : N + q \in asleep' => N + q \in asleep
    BY <1>19, Indices DEF ConsumerCancel, Wake
  <2>5. QED
    BY <1>0, <2>1, <2>2, <2>3, <2>4, SendFrame
<1>20. ASSUME NEW s \in Shards, ConsumerDrop(s) PROVE SenderOwedWake'
  <2>1. UNCHANGED <<sd, count, asleep, i>> /\ live_consumers' = live_consumers - 1
    BY <1>20 DEF ConsumerDrop, scan
  <2>2. /\ cp[s] \in {"idle", "unwind"} /\ cp'[s] = (IF live_consumers = 1 THEN "lastWake" ELSE "gone")
        /\ \A t \in Shards \ {s} : cp'[t] = cp[t]
    BY <1>0, <1>20 DEF ConsumerDrop, ConsumerAt, TypeOK
  <2>3. CASE live_consumers = 1
    <3>1. cp'[s] = "lastWake" /\ i'[s] = 1
      BY <1>0, <2>1, <2>2, <2>3 DEF PlaceInv, AtFirst
    <3>2. \A p \in Producers : SendOwed(p)'
      BY <3>1, Indices DEF SendOwed
    <3>3. QED
      BY <3>2, SendAfter
  <2>4. CASE live_consumers # 1
    <3>1. live_consumers' # 0
      BY <1>0, <2>1, <2>4, Sizes DEF TypeOK
    <3>2. ServersKept /\ StillLeaving /\ \A p \in Producers : NoMoreRoom(p)
      BY <2>1, <2>2 DEF ServersKept, StillLeaving, Leaving, NoMoreRoom
    <3>3. ASSUME NEW p \in Producers, N + p \in asleep', SenderReason(p)' PROVE SendOwed(p)'
      <4>1. SenderReason(p)
        BY <2>1, <3>1, <3>2, <3>3, SenderReasonOld
      <4>2. SendOwed(p)
        BY <1>0, <2>1, <3>3, <4>1, SendByProducer DEF SendAt
      <4>3. QED
        BY <2>1, <3>2, <4>2 DEF SendOwed, ServersKept
    <3>4. QED
      BY <3>3, SendAfter
  <2>5. QED
    BY <2>3, <2>4
<1>21. ASSUME NEW s \in Shards, ConsumerLastWake(s) PROVE SenderOwedWake'
  <2>1. UNCHANGED <<sd, live_consumers, count>> /\ asleep' = asleep \ {N + i[s]}
    BY <1>21 DEF ConsumerLastWake, Wake, consElse, lives
  <2>2. /\ cp[s] = "lastWake" /\ cp'[s] = (IF i[s] < M THEN "lastWake" ELSE "gone")
        /\ i'[s] = (i[s] % M) + 1
        /\ \A t \in Shards \ {s} : cp'[t] = cp[t] /\ i'[t] = i[t]
    BY <1>0, <1>21 DEF ConsumerLastWake, ConsumerAt, TypeOK
  <2>3. ASSUME NEW p \in Producers, N + p \in asleep', SenderReason(p)' PROVE SendOwed(p)'
    <3>1. StillLeaving /\ NoMoreRoom(p)
      BY <2>1, <2>2 DEF StillLeaving, NoMoreRoom, Leaving
    <3>2. SenderReason(p)
      BY <2>1, <2>3, <3>1, SenderReasonOld
    <3>3. i[s] # p /\ SendOwed(p)
      BY <1>0, <2>1, <2>3, <3>2, SendByProducer DEF SendAt
    <3>4. ASSUME i[s] <= p PROVE cp'[s] = "lastWake" /\ i'[s] <= p
      <4>1. i[s] \in Producers /\ i[s] \in Nat /\ p \in Nat /\ p <= M /\ M \in Nat
        BY <1>0, Indices, Sizes DEF TypeOK
      <4>2. i[s] < p /\ i[s] < M
        BY <3>3, <3>4, <4>1
      <4>3. i[s] % M = i[s]
        BY <4>1, <4>2, RoundOver
      <4>4. QED
        BY <2>2, <4>1, <4>2, <4>3
    <3>5. QED
      BY <2>1, <2>2, <3>3, <3>4 DEF SendOwed
  <2>4. QED
    BY <2>3, SendAfter
<1>22. CASE UNCHANGED vars
  BY <1>0, <1>22
     DEF vars, lives, cons, scan, Leaving, SenderOwedWake, SenderReason,
         is_terminal_for_producer, Shutdown
<1>23. QED
  BY <1>1, <1>10, <1>11, <1>12, <1>13, <1>14, <1>15, <1>16, <1>17, <1>18, <1>19,
     <1>2, <1>20, <1>21, <1>22, <1>3, <1>4, <1>5, <1>6, <1>7, <1>8, <1>9
     DEF Next, ProducerStep, ConsumerStep

-----------------------------------------------------------------------------
\* The invariant is inductive and holds from the start.
THEOREM MpmcInductive == Spec => []IInv
<1>1. IInv /\ [Next]_vars => IInv'
  BY StepType, StepCounted, StepPlace, StepHad, StepSender, StepReceiver
     DEF IInv
<1>2. QED
  BY <1>1, InitInv, PTL DEF Spec

\* The counts, cursors and scans of the code stay within their arrays.
THEOREM MpmcTypeOK == Spec => []TypeOK
<1>1. IInv => TypeOK
  BY DEF IInv
<1>2. QED
  BY <1>1, MpmcInductive, PTL

\* No wake is lost to a producer, whatever the number of shards and rings.
THEOREM MpmcSenderOwedWake == Spec => []SenderOwedWake
<1>1. IInv => SenderOwedWake
  BY DEF IInv
<1>2. QED
  BY <1>1, MpmcInductive, PTL

\* No wake is lost to a consumer: the one who publishes in its shard, the last
\* producer or the signal is still to make it.
THEOREM MpmcReceiverOwedWake == Spec => []ReceiverOwedWake
<1>1. IInv => ReceiverOwedWake
  BY DEF IInv
<1>2. QED
  BY <1>1, MpmcInductive, PTL

\* A receive that returns Err(Shutdown) leaves none of the items behind that were
\* in its shard when it was called: its scan has passed over every ring.
THEOREM MpmcDrainsInflight == Spec => DrainsInflight
<1>1. IInv /\ [Next]_vars => [\A s \in Shards : Ends(s) => ~had[s]]_vars
  BY DEF IInv, HadInv, HadAt, Ends
<1>2. QED
  BY <1>1, MpmcInductive, PTL DEF Spec, DrainsInflight
=============================================================================
