----------------------------- MODULE MpscProofs -----------------------------
(***************************************************************************)
(* Proofs about Mpsc, for any number of producers, rings of any capacity   *)
(* and any calls: no wake of either side is lost, and without a shutdown a *)
(* receive ends the channel only when nothing is left and nothing can come.*)
(***************************************************************************)
EXTENDS Mpsc, FiniteSetTheorems, TLAPS

LiveProducers == {p \in Producers : pp[p] \notin {"lastWake", "gone"}}

\* The count of live producers is exact.
Counted == live = Cardinality(LiveProducers)

\* A scan of the rings begins at the first.
AtFirst ==
  cp \in {"idle", "arm", "finShutdown", "finLive", "sleep", "disarm", "leave", "gone"} => i = 1

\* A batch takes no more than the ring still holds.
Held == cp = "commit" => stop <= count[i]

\* Only a batch goes over the rings again, and it does after each ring it emptied.
Passing ==
  /\ cp = "commit" => batch
  /\ pass => batch /\ cp \in {"scan", "commit", "wake"}
  /\ cp = "wake" /\ batch => pass

PlaceInv == AtFirst /\ Held /\ Passing

\* A producer with its own waiter announced, and past its look at the flag.
Announced(p) ==
  \/ pp[p] \in {"look", "lookFull", "sleep", "disarm"}
  \/ send[p] = "send_async_send" /\ pp[p] \in {"try", "push"}
Committed(p) ==
  \/ pp[p] \in {"lookFull", "sleep"}
  \/ send[p] = "send_async_send" /\ pp[p] = "push"

SenderOwed(p) ==
  \/ token[p] \/ sd \in 0..p
  \/ cp = "wake" /\ i = p
  \/ cp = "gone"

\* A producer on its way to sleep is already owed what it no longer looks at.
SenderAt(p) ==
  /\ pp[p] = "check" => send[p] = "send"
  /\ Announced(p) => parked[p]
  /\ Committed(p) /\ Shutdown => SenderOwed(p)
  /\ pp[p] = "sleep" /\ count[p] < CAP => SenderOwed(p)

SenderInv == \A p \in Producers : SenderAt(p)

ReceiverOwed == token[0] \/ sd = 0 \/ \E p \in Producers : pp[p] \in {"wake", "lastWake"}

\* Rings the announced consumer has found empty and will not look at again before
\* it sleeps.
Passed(r) ==
  \/ cp \in {"finShutdown", "finLive", "finScan"} /\ parked[0]
  \/ cp = "sleep"
  \/ cp = "look" /\ r < i
  \/ cp = "scan" /\ parked[0] /\ ~pass /\ r < i

\* What it has passed, and the flag and the count once it has read them, can only
\* have changed with a wake to come.
ReceiverInv ==
  /\ cp \in {"look", "sleep"} => parked[0]
  /\ \A r \in Producers : Passed(r) /\ count[r] > 0 => ReceiverOwed
  /\ (cp \in {"finLive", "finScan"} /\ parked[0]) \/ cp = "sleep" =>
       (Shutdown => ReceiverOwed)
  /\ cp = "sleep" /\ live = 0 => ReceiverOwed

\* The last look at the rings begins when nobody is left to fill them.
EndInv ==
  /\ cp = "finScan" => live = 0 /\ \A r \in Producers : r < i => count[r] = 0
  /\ EndMeansDrained

IInv == TypeOK /\ Counted /\ PlaceInv /\ SenderInv /\ ReceiverInv /\ EndInv

-----------------------------------------------------------------------------
\* Numbers of waiters and rings.
LEMMA Indices ==
  /\ M \in Nat \ {0} /\ CAP \in Nat \ {0}
  /\ 1 \in Producers /\ 0 \in 0..M
  /\ \A p \in Producers : p \in Nat /\ p >= 1 /\ p <= M /\ p \in 0..M /\ p # 0
  /\ \A p \in Producers : p < M => p + 1 \in Producers
BY MpscAssumption DEF Producers

\* The calls made are calls there are.
LEMMA CallsMade == (\A p \in Producers : SENDS[p] \subseteq AllSends) /\ RECVS \subseteq AllRecvs
BY MpscAssumption DEF Producers

ProducerPoints == {"idle", "check", "try", "push", "wake", "arm", "look",
                   "lookFull", "sleep", "disarm", "leave", "drop", "lastWake", "gone"}
ConsumerPoints == {"idle", "arm", "scan", "commit", "wake", "finShutdown", "finLive",
                   "finScan", "look", "sleep", "disarm", "leave", "gone"}

ProducerType ==
  /\ pp' \in [Producers -> ProducerPoints]
  /\ send' \in [Producers -> AllSends \cup {"none"}]
ConsumerType ==
  /\ cp' \in ConsumerPoints /\ recv' \in RECVS \cup {"none"} /\ ended' \in BOOLEAN
GateType == parked' \in [0..M -> BOOLEAN] /\ token' \in [0..M -> BOOLEAN]
ScanType == i' \in Producers /\ stop' \in 0..CAP /\ pass' \in BOOLEAN /\ total' \in BOOLEAN
CountType == count' \in [Producers -> 0..CAP]
OtherType == live' \in 0..M /\ sd' \in -1 .. M + 1

\* The six parts of the type invariant after a step.
LEMMA TypeParts ==
  CountType /\ OtherType /\ GateType /\ ProducerType /\ ConsumerType /\ ScanType => TypeOK'
BY DEF TypeOK, CountType, OtherType, GateType, ProducerType, ConsumerType, ScanType,
       ProducerPoints, ConsumerPoints

\* What a step leaves alone keeps its type.
LEMMA TypeFrame ==
  ASSUME TypeOK
  PROVE  /\ UNCHANGED count => CountType
         /\ UNCHANGED <<live, sd>> => OtherType
         /\ UNCHANGED gates => GateType
         /\ UNCHANGED prod => ProducerType
         /\ UNCHANGED <<cp, recv, ended>> => ConsumerType
         /\ UNCHANGED scan => ScanType
BY DEF TypeOK, CountType, OtherType, GateType, ProducerType, ConsumerType, ScanType,
       ProducerPoints, ConsumerPoints, gates, prod, scan

\* What a producer's step to another point changes.
LEMMA ProducerAtFacts ==
  ASSUME TypeOK, NEW p \in Producers, NEW from, NEW to \in ProducerPoints,
         ProducerAt(p, from, to)
  PROVE  /\ pp[p] = from /\ pp'[p] = to
         /\ to # "idle" => send'[p] = send[p]
         /\ to = "idle" => send'[p] = "none"
         /\ \A q \in Producers \ {p} : pp'[q] = pp[q] /\ send'[q] = send[q]
         /\ ProducerType
<1>1. pp[p] = from /\ pp'[p] = to /\ \A q \in Producers \ {p} : pp'[q] = pp[q]
  BY DEF ProducerAt, TypeOK
<1>2. pp' \in [Producers -> ProducerPoints]
  BY DEF ProducerAt, TypeOK, ProducerPoints
<1>3. CASE to = "idle"
  BY <1>1, <1>2, <1>3 DEF ProducerAt, TypeOK, ProducerType
<1>4. CASE to # "idle"
  BY <1>1, <1>2, <1>4 DEF ProducerAt, TypeOK, ProducerType
<1>5. QED
  BY <1>3, <1>4

\* What a step of the consumer to another point changes.
LEMMA GotoFacts ==
  ASSUME TypeOK, NEW to \in ConsumerPoints, Goto(to)
  PROVE  /\ cp' = to /\ ended' = ended
         /\ to # "idle" => recv' = recv
         /\ ConsumerType
BY DEF Goto, TypeOK, ConsumerType, ConsumerPoints

\* Announcing a wait, ending it, taking and giving tokens.
LEMMA GateFacts ==
  ASSUME TypeOK, NEW w \in 0..M
  PROVE  /\ \A b \in BOOLEAN : Arm(w, b) =>
              /\ parked' \in [0..M -> BOOLEAN] /\ parked'[w] = b
              /\ \A v \in 0..M : v # w => parked'[v] = parked[v]
         /\ Wake(w) =>
              /\ token' \in [0..M -> BOOLEAN] /\ (parked[w] => token'[w])
              /\ \A v \in 0..M : token[v] => token'[v]
         /\ Take(w) =>
              /\ token' \in [0..M -> BOOLEAN]
              /\ \A v \in 0..M : v # w => token'[v] = token[v]
         /\ Disarm(w) =>
              /\ parked' \in [0..M -> BOOLEAN] /\ token' \in [0..M -> BOOLEAN]
              /\ ~parked'[w] /\ ~token'[w]
              /\ \A v \in 0..M : v # w => parked'[v] = parked[v] /\ token'[v] = token[v]
BY DEF Arm, Wake, Take, Disarm, TypeOK

\* Places of the scan.
LEMMA ScanFacts ==
  ASSUME TypeOK
  PROVE  /\ FirstRing => ScanType
         /\ NextRing /\ i < M => ScanType
<1>1. 0 \in 0..CAP
  BY Indices
<1>2. FirstRing => ScanType
  BY <1>1, Indices DEF FirstRing, ScanType
<1>3. NextRing /\ i < M => ScanType
  BY Indices DEF NextRing, ScanType, TypeOK
<1>4. QED
  BY <1>2, <1>3

\* Where a call that is answered, and a scan that found nothing, go.
LEMMA Turns ==
  /\ Back \in {"leave", "idle"} /\ (Back = "leave" <=> ArmsAhead)
  /\ NoItem \in {"idle", "finShutdown"}
BY DEF Back, NoItem

\* The end of a pass over the rings: the next ring, another pass, or an answer.
LEMMA NextDrainFacts ==
  ASSUME TypeOK, NextDrain
  PROVE  /\ ScanType /\ ConsumerType /\ ended' = ended
         /\ \/ i < M /\ cp' = "scan" /\ recv' = recv /\ i' = i + 1 /\ pass' = pass
            \/ i = M /\ pass /\ cp' = "scan" /\ recv' = recv /\ i' = 1 /\ ~pass'
            \/ i = M /\ ~pass /\ cp' \in {"idle", "leave", "finShutdown"} /\ i' = 1 /\ ~pass'
<1>1. CASE i < M /\ Goto("scan") /\ NextRing
  BY <1>1, GotoFacts, ScanFacts DEF NextRing, ConsumerPoints
<1>2. CASE i = M /\ pass /\ Goto("scan") /\ i' = 1 /\ pass' = FALSE /\ UNCHANGED <<stop, total>>
  <2>1. ScanType
    BY <1>2, Indices DEF ScanType, TypeOK
  <2>2. QED
    BY <1>2, <2>1, GotoFacts DEF ConsumerPoints
<1>3. CASE i = M /\ ~pass /\ Goto(IF total THEN Back ELSE NoItem) /\ FirstRing
  <2>1. PICK to \in {"idle", "leave", "finShutdown"} : Goto(to)
    BY <1>3, Turns
  <2>2. cp' = to /\ ended' = ended /\ ConsumerType
    BY <2>1, GotoFacts DEF ConsumerPoints
  <2>3. i' = 1 /\ ~pass' /\ ScanType
    BY <1>3, ScanFacts DEF FirstRing
  <2>4. QED
    BY <1>3, <2>2, <2>3
<1>4. QED
  BY <1>1, <1>2, <1>3 DEF NextDrain

\* The two answers of is_finished.
LEMMA FinishedFacts ==
  ASSUME TypeOK, Finished
  PROVE  /\ ConsumerType /\ cp' \in {"disarm", "leave", "idle"}
         /\ cp' = "disarm" => ended' = ended
<1>1. CASE ~ArmsAhead /\ parked[0] /\ Goto("disarm")
  BY <1>1, GotoFacts DEF ConsumerPoints
<1>2. CASE /\ cp' = Back /\ ended' = TRUE
           /\ recv' = IF ArmsAhead THEN recv ELSE "none"
  <2>1. recv' \in RECVS \cup {"none"}
    BY <1>2 DEF TypeOK
  <2>2. QED
    BY <1>2, <2>1, Turns DEF ConsumerType, ConsumerPoints
<1>3. QED
  BY <1>1, <1>2 DEF Finished

\* Not finished: the receive goes on, to sleep if it has announced itself already.
LEMMA NotFinishedFacts ==
  ASSUME TypeOK, NotFinished
  PROVE  /\ ConsumerType /\ ended' = ended /\ recv' = recv
         /\ IF parked[0] THEN cp' = "sleep" ELSE cp' = "arm"
<1>1. PICK to \in {"sleep", "arm"} : Goto(to) /\ to = IF parked[0] THEN "sleep" ELSE "arm"
  BY DEF NotFinished
<1>2. QED
  BY <1>1, GotoFacts DEF ConsumerPoints

\* The producers not yet gone.
LEMMA LiveFinite == IsFiniteSet(LiveProducers) /\ Cardinality(LiveProducers) \in 0..M
<1>1. IsFiniteSet(Producers) /\ Cardinality(Producers) = M
  BY FS_Interval, MpscAssumption DEF Producers
<1>2. LiveProducers \subseteq Producers
  BY DEF LiveProducers
<1>3. QED
  BY <1>1, <1>2, FS_Subset, FS_CardinalityType, MpscAssumption

\* The count is not zero while a producer is there to be dropped, and zero says
\* that none is.
LEMMA SomeoneLive ==
  ASSUME Counted, TypeOK
  PROVE  /\ \A p \in Producers : pp[p] \notin {"lastWake", "gone"} => live \in 1..M
         /\ live = 0 => \A p \in Producers : pp[p] \in {"lastWake", "gone"}
<1>1. ASSUME NEW p \in Producers, pp[p] \notin {"lastWake", "gone"} PROVE live \in 1..M
  <2>1. LiveProducers # {}
    BY <1>1 DEF LiveProducers
  <2>2. Cardinality(LiveProducers) # 0
    BY <2>1, LiveFinite, FS_EmptySet
  <2>3. QED
    BY <2>2, LiveFinite, Indices DEF Counted
<1>2. QED
  BY <1>1, Indices

\* A new channel.
LEMMA InitInv == Init => IInv
<1> SUFFICES ASSUME Init PROVE IInv
  OBVIOUS
<1>1. TypeOK
  <2>1. stop \in 0..CAP /\ live \in 0..M /\ sd \in -1 .. M + 1 /\ i \in Producers
    BY Indices DEF Init
  <2>2. count \in [Producers -> 0..CAP]
    BY Indices DEF Init
  <2>3. QED
    BY <2>1, <2>2, Indices DEF Init, TypeOK
<1>2. Counted
  <2>1. LiveProducers = Producers
    BY DEF Init, LiveProducers
  <2>2. QED
    BY <2>1, FS_Interval, MpscAssumption DEF Init, Counted, Producers
<1>3. PlaceInv
  BY DEF Init, PlaceInv, AtFirst, Held, Passing
<1>4. SenderInv /\ ReceiverInv
  BY DEF Init, SenderInv, SenderAt, Announced, Committed, ReceiverInv, Passed
<1>5. EndInv
  BY DEF Init, EndInv, EndMeansDrained
<1>6. QED
  BY <1>1, <1>2, <1>3, <1>4, <1>5 DEF IInv

\* Types, step by step.
LEMMA StepType == IInv /\ [Next]_vars => TypeOK'
<1> SUFFICES ASSUME IInv, [Next]_vars PROVE TypeOK'
  OBVIOUS
<1>0. TypeOK /\ Counted /\ PlaceInv
  BY DEF IInv
<1> USE DEF prodElse, consElse, cons, gates, prod
<1>1. ASSUME NEW p \in Producers, NEW op \in SENDS[p], StartSend(p, op) PROVE TypeOK'
  <2>1. ProducerType
    BY <1>0, <1>1, CallsMade DEF StartSend, TypeOK, ProducerType, ProducerPoints
  <2>2. QED
    BY <1>0, <1>1, <2>1, TypeFrame, TypeParts DEF StartSend
<1>2. ASSUME NEW p \in Producers, SendCheck(p) PROVE TypeOK'
  <2>1. PICK to \in {"idle", "try"} : ProducerAt(p, "check", to)
    BY <1>2 DEF SendCheck
  <2>2. QED
    BY <1>0, <1>2, <2>1, ProducerAtFacts, TypeFrame, TypeParts DEF SendCheck, ProducerPoints
<1>3. ASSUME NEW p \in Producers, TryCheck(p) PROVE TypeOK'
  <2>1. PICK to \in {"push", "leave", "arm", "sleep", "idle"} : ProducerAt(p, "try", to)
    BY <1>3 DEF TryCheck, Refused
  <2>2. QED
    BY <1>0, <1>3, <2>1, ProducerAtFacts, TypeFrame, TypeParts DEF TryCheck, ProducerPoints
<1>4. ASSUME NEW p \in Producers, Push(p) PROVE TypeOK'
  <2>1. PICK to \in {"wake", "leave", "arm", "sleep", "idle"} : ProducerAt(p, "push", to)
    BY <1>4 DEF Push, Refused
  <2>2. CountType
    <3>1. CASE UNCHANGED count
      BY <1>0, <3>1, TypeFrame
    <3>2. ASSUME NEW k \in 1 .. CAP - count[p], count' = [count EXCEPT ![p] = @ + k]
          PROVE  CountType
      <4>1. count[p] \in 0..CAP
        BY <1>0 DEF TypeOK
      <4>2. count[p] + k \in 0..CAP
        BY <4>1, Indices
      <4>3. QED
        BY <1>0, <3>2, <4>2 DEF CountType, TypeOK
    <3>3. QED
      BY <1>4, <3>1, <3>2 DEF Push
  <2>3. QED
    BY <1>0, <1>4, <2>1, <2>2, ProducerAtFacts, TypeFrame, TypeParts DEF Push, ProducerPoints
<1>5. ASSUME NEW p \in Producers, FanInWake(p) PROVE TypeOK'
  <2>1. PICK to \in {"leave", "idle"} : ProducerAt(p, "wake", to)
    BY <1>5 DEF FanInWake
  <2>2. GateType
    BY <1>0, <1>5, GateFacts, Indices DEF FanInWake, GateType, TypeOK
  <2>3. QED
    BY <1>0, <1>5, <2>1, <2>2, ProducerAtFacts, TypeFrame, TypeParts DEF FanInWake, ProducerPoints
<1>6. ASSUME NEW p \in Producers, ProducerArm(p) PROVE TypeOK'
  <2>1. PICK to \in {"look", "try"} : ProducerAt(p, "arm", to)
    BY <1>6 DEF ProducerArm
  <2>2. GateType
    BY <1>0, <1>6, GateFacts, Indices DEF ProducerArm, GateType, TypeOK
  <2>3. QED
    BY <1>0, <1>6, <2>1, <2>2, ProducerAtFacts, TypeFrame, TypeParts DEF ProducerArm, ProducerPoints
<1>7. ASSUME NEW p \in Producers, ProducerLook(p) PROVE TypeOK'
  <2>1. PICK to \in {"disarm", "lookFull"} : ProducerAt(p, "look", to)
    BY <1>7 DEF ProducerLook
  <2>2. QED
    BY <1>0, <1>7, <2>1, ProducerAtFacts, TypeFrame, TypeParts DEF ProducerLook, ProducerPoints
<1>8. ASSUME NEW p \in Producers, ProducerLookFull(p) PROVE TypeOK'
  <2>1. PICK to \in {"disarm", "sleep"} : ProducerAt(p, "lookFull", to)
    BY <1>8 DEF ProducerLookFull
  <2>2. QED
    BY <1>0, <1>8, <2>1, ProducerAtFacts, TypeFrame, TypeParts DEF ProducerLookFull, ProducerPoints
<1>9. ASSUME NEW p \in Producers, ProducerWoken(p) PROVE TypeOK'
  <2>1. PICK to \in {"look", "disarm"} : ProducerAt(p, "sleep", to)
    BY <1>9 DEF ProducerWoken
  <2>2. GateType
    BY <1>0, <1>9, GateFacts, Indices DEF ProducerWoken, GateType, TypeOK
  <2>3. QED
    BY <1>0, <1>9, <2>1, <2>2, ProducerAtFacts, TypeFrame, TypeParts DEF ProducerWoken, ProducerPoints
<1>10. ASSUME NEW p \in Producers, ProducerDisarm(p) PROVE TypeOK'
  <2>1. PICK to \in {"check", "arm"} : ProducerAt(p, "disarm", to)
    BY <1>10 DEF ProducerDisarm
  <2>2. GateType
    BY <1>0, <1>10, GateFacts, Indices DEF ProducerDisarm, GateType
  <2>3. QED
    BY <1>0, <1>10, <2>1, <2>2, ProducerAtFacts, TypeFrame, TypeParts DEF ProducerDisarm, ProducerPoints
<1>11. ASSUME NEW p \in Producers, ProducerLeave(p) PROVE TypeOK'
  <2>1. GateType
    BY <1>0, <1>11, GateFacts, Indices DEF ProducerLeave, GateType
  <2>2. QED
    BY <1>0, <1>11, <2>1, ProducerAtFacts, TypeFrame, TypeParts DEF ProducerLeave, ProducerPoints
<1>12. ASSUME NEW p \in Producers, ProducerCancel(p) PROVE TypeOK'
  <2>1. GateType
    BY <1>0, <1>12, GateFacts, Indices DEF ProducerCancel, GateType
  <2>2. QED
    BY <1>0, <1>12, <2>1, ProducerAtFacts, TypeFrame, TypeParts DEF ProducerCancel, ProducerPoints
<1>13. ASSUME NEW p \in Producers, ProducerDrop(p) PROVE TypeOK'
  BY <1>0, <1>13, ProducerAtFacts, TypeFrame, TypeParts DEF ProducerDrop, ProducerPoints
<1>14. ASSUME NEW p \in Producers, Decrement(p) PROVE TypeOK'
  <2>1. PICK to \in {"lastWake", "gone"} : ProducerAt(p, "drop", to)
    BY <1>14 DEF Decrement
  <2>2. live \in 1..M
    BY <1>0, <2>1, SomeoneLive DEF ProducerAt
  <2>3. OtherType
    BY <1>0, <1>14, <2>2, Indices DEF Decrement, OtherType, TypeOK
  <2>4. QED
    BY <1>0, <1>14, <2>1, <2>3, ProducerAtFacts, TypeFrame, TypeParts DEF Decrement, ProducerPoints
<1>15. ASSUME NEW p \in Producers, LastWake(p) PROVE TypeOK'
  <2>1. GateType
    BY <1>0, <1>15, GateFacts, Indices DEF LastWake, GateType, TypeOK
  <2>2. QED
    BY <1>0, <1>15, <2>1, ProducerAtFacts, TypeFrame, TypeParts DEF LastWake, ProducerPoints
<1>16. CASE Signal
  <2>1. OtherType
    BY <1>0, <1>16, Indices DEF Signal, OtherType, TypeOK
  <2>2. QED
    BY <1>0, <1>16, <2>1, TypeFrame, TypeParts DEF Signal
<1>17. CASE SignalWake
  <2>1. OtherType
    BY <1>0, <1>17, Indices DEF SignalWake, OtherType, TypeOK
  <2>2. GateType
    BY <1>0, <1>17, GateFacts DEF SignalWake, GateType, TypeOK
  <2>3. QED
    BY <1>0, <1>17, <2>1, <2>2, TypeFrame, TypeParts DEF SignalWake
<1>18. ASSUME NEW op \in RECVS, StartRecv(op) PROVE TypeOK'
  <2>1. ConsumerType
    BY <1>18 DEF StartRecv, ConsumerType, ConsumerPoints
  <2>2. QED
    BY <1>0, <1>18, <2>1, TypeFrame, TypeParts DEF StartRecv
<1>19. CASE TryRecv
  <2>1. CASE count[i] > 0 /\ count' = [count EXCEPT ![i] = @ - 1] /\ Goto("wake") /\ UNCHANGED scan
    <3>1. i \in Producers /\ count[i] \in 0..CAP
      BY <1>0 DEF TypeOK
    <3>2. count[i] - 1 \in 0..CAP
      BY <2>1, <3>1, Indices
    <3>3. CountType
      BY <1>0, <2>1, <3>2 DEF CountType, TypeOK
    <3>4. QED
      BY <1>0, <1>19, <2>1, <3>3, GotoFacts, TypeFrame, TypeParts DEF TryRecv, ConsumerPoints
  <2>2. CASE i < M /\ NextRing /\ UNCHANGED <<count, cp, recv, ended>>
    BY <1>0, <1>19, <2>2, ScanFacts, TypeFrame, TypeParts DEF TryRecv
  <2>3. CASE Goto(NoItem) /\ FirstRing /\ UNCHANGED count
    <3>1. PICK to \in {"idle", "finShutdown"} : Goto(to)
      BY <2>3, Turns
    <3>2. QED
      BY <1>0, <1>19, <2>3, <3>1, GotoFacts, ScanFacts, TypeFrame, TypeParts
      DEF TryRecv, ConsumerPoints
  <2>4. QED
    BY <1>19, <2>1, <2>2, <2>3 DEF TryRecv
<1>20. CASE DrainRing
  <2>1. CASE stop' = count[i] /\ Goto("commit") /\ UNCHANGED <<i, pass, total>>
    <3>1. ScanType
      BY <1>0, <2>1 DEF ScanType, TypeOK
    <3>2. QED
      BY <1>0, <1>20, <2>1, <3>1, GotoFacts, TypeFrame, TypeParts DEF DrainRing, ConsumerPoints
  <2>2. CASE NextDrain
    BY <1>0, <1>20, <2>2, NextDrainFacts, TypeFrame, TypeParts DEF DrainRing
  <2>3. QED
    BY <1>20, <2>1, <2>2 DEF DrainRing
<1>21. CASE DrainCommit
  <2>1. i \in Producers /\ count[i] \in 0..CAP /\ stop \in 0..CAP /\ stop <= count[i]
    BY <1>0, <1>21 DEF TypeOK, PlaceInv, Held, DrainCommit, ConsumerAt
  <2>2. count[i] - stop \in 0..CAP
    BY <2>1, Indices
  <2>3. CountType
    BY <1>0, <1>21, <2>2 DEF CountType, TypeOK, DrainCommit
  <2>4. ScanType
    BY <1>0, <1>21, Indices DEF ScanType, TypeOK, DrainCommit
  <2>5. QED
    BY <1>0, <1>21, <2>3, <2>4, GotoFacts, TypeFrame, TypeParts
    DEF DrainCommit, ConsumerAt, ConsumerPoints
<1>22. CASE DrainPanic
  <2>1. i \in Producers /\ count[i] \in 0..CAP /\ stop \in 0..CAP /\ stop <= count[i]
    BY <1>0, <1>22 DEF TypeOK, PlaceInv, Held, DrainPanic, ConsumerAt
  <2>2. CountType
    <3>1. PICK k \in 1..stop : count' = [count EXCEPT ![i] = @ - k]
      BY <1>22 DEF DrainPanic
    <3>2. count[i] - k \in 0..CAP
      BY <2>1, Indices
    <3>3. QED
      BY <1>0, <3>1, <3>2 DEF CountType, TypeOK
  <2>3. GateType
    <3>1. CASE Disarm(0)
      BY <1>0, <3>1, GateFacts, Indices DEF GateType
    <3>2. CASE UNCHANGED gates
      BY <1>0, <3>2, TypeFrame
    <3>3. QED
      BY <1>22, <3>1, <3>2 DEF DrainPanic
  <2>4. QED
    BY <1>0, <1>22, <2>2, <2>3, GotoFacts, ScanFacts, TypeFrame, TypeParts
    DEF DrainPanic, ConsumerAt, ConsumerPoints
<1>23. CASE WakeProducer
  <2>1. i \in 0..M
    BY <1>0, Indices DEF TypeOK
  <2>2. GateType
    BY <1>0, <1>23, <2>1, GateFacts DEF WakeProducer, GateType, TypeOK
  <2>3. ConsumerType /\ ScanType
    <3>1. CASE Goto(Back) /\ FirstRing
      <4>1. PICK to \in {"leave", "idle"} : Goto(to)
        BY <3>1, Turns
      <4>2. QED
        BY <1>0, <3>1, <4>1, GotoFacts, ScanFacts DEF ConsumerPoints
    <3>2. CASE NextDrain
      BY <1>0, <3>2, NextDrainFacts
    <3>3. QED
      BY <1>23, <3>1, <3>2 DEF WakeProducer
  <2>4. QED
    BY <1>0, <1>23, <2>2, <2>3, TypeFrame, TypeParts DEF WakeProducer
<1>24. CASE IsShutdown
  <2>1. ConsumerType
    BY <1>0, <1>24, FinishedFacts, GotoFacts DEF IsShutdown, ConsumerPoints
  <2>2. QED
    BY <1>0, <1>24, <2>1, TypeFrame, TypeParts DEF IsShutdown
<1>25. CASE AllProducersGone
  <2>1. ConsumerType
    BY <1>0, <1>25, NotFinishedFacts, GotoFacts DEF AllProducersGone, ConsumerPoints
  <2>2. QED
    BY <1>0, <1>25, <2>1, TypeFrame, TypeParts DEF AllProducersGone
<1>26. CASE FinishedScan
  <2>1. ConsumerType /\ ScanType
    BY <1>0, <1>26, NotFinishedFacts, FinishedFacts, ScanFacts, TypeFrame DEF FinishedScan
  <2>2. QED
    BY <1>0, <1>26, <2>1, TypeFrame, TypeParts DEF FinishedScan
<1>27. CASE ConsumerArm
  <2>1. PICK to \in {"scan", "look"} : Goto(to)
    BY <1>27 DEF ConsumerArm, ConsumerAt
  <2>2. GateType
    BY <1>0, <1>27, GateFacts, Indices DEF ConsumerArm, GateType, TypeOK
  <2>3. QED
    BY <1>0, <1>27, <2>1, <2>2, GotoFacts, TypeFrame, TypeParts DEF ConsumerArm, ConsumerPoints
<1>28. CASE LookRing
  <2>1. ConsumerType /\ ScanType
    BY <1>0, <1>28, GotoFacts, ScanFacts, TypeFrame DEF LookRing, ConsumerPoints
  <2>2. QED
    BY <1>0, <1>28, <2>1, TypeFrame, TypeParts DEF LookRing
<1>29. CASE ConsumerWoken
  <2>1. PICK to \in {"disarm", "look"} : Goto(to)
    BY <1>29 DEF ConsumerWoken, ConsumerAt
  <2>2. GateType
    BY <1>0, <1>29, GateFacts, Indices DEF ConsumerWoken, GateType, TypeOK
  <2>3. QED
    BY <1>0, <1>29, <2>1, <2>2, GotoFacts, TypeFrame, TypeParts DEF ConsumerWoken, ConsumerPoints
<1>30. CASE ConsumerDisarm
  <2>1. PICK to \in {"scan", "arm"} : Goto(to)
    BY <1>30 DEF ConsumerDisarm, ConsumerAt
  <2>2. GateType
    BY <1>0, <1>30, GateFacts, Indices DEF ConsumerDisarm, GateType
  <2>3. QED
    BY <1>0, <1>30, <2>1, <2>2, GotoFacts, TypeFrame, TypeParts DEF ConsumerDisarm, ConsumerPoints
<1>31. CASE ConsumerLeave
  <2>1. GateType
    BY <1>0, <1>31, GateFacts, Indices DEF ConsumerLeave, GateType
  <2>2. QED
    BY <1>0, <1>31, <2>1, GotoFacts, TypeFrame, TypeParts
    DEF ConsumerLeave, ConsumerAt, ConsumerPoints
<1>32. CASE ConsumerCancel
  <2>1. GateType
    BY <1>0, <1>32, GateFacts, Indices DEF ConsumerCancel, GateType
  <2>2. QED
    BY <1>0, <1>32, <2>1, GotoFacts, TypeFrame, TypeParts
    DEF ConsumerCancel, ConsumerAt, ConsumerPoints
<1>33. CASE ConsumerDrop
  BY <1>0, <1>33, GotoFacts, TypeFrame, TypeParts DEF ConsumerDrop, ConsumerAt, ConsumerPoints
<1>34. CASE UNCHANGED vars
  BY <1>0, <1>34, TypeFrame, TypeParts DEF vars
<1>35. QED
  BY <1>1, <1>2, <1>3, <1>4, <1>5, <1>6, <1>7, <1>8, <1>9, <1>10, <1>11, <1>12, <1>13,
    <1>14, <1>15, <1>16, <1>17, <1>18, <1>19, <1>20, <1>21, <1>22, <1>23, <1>24, <1>25,
    <1>26, <1>27, <1>28, <1>29, <1>30, <1>31, <1>32, <1>33, <1>34
    DEF Next, ProducerStep, ConsumerStep

-----------------------------------------------------------------------------
(* What the steps of one side mean to the other.                           *)

Gone == {"lastWake", "gone"}

\* A producer changes nothing of another's, and nothing of the consumer's but its
\* token; items come with a wake, and the last producer goes with one.
ProducerKeeps(p) ==
  /\ UNCHANGED <<sd, cp, recv, scan, ended>>
  /\ \A q \in Producers \ {p} :
       /\ pp'[q] = pp[q] /\ send'[q] = send[q] /\ count'[q] = count[q]
       /\ parked'[q] = parked[q] /\ (token[q] => token'[q])
  /\ parked'[0] = parked[0] /\ (token[0] => token'[0])
  /\ pp[p] \in {"wake", "lastWake"} /\ parked[0] => token'[0]
  /\ count'[p] = count[p] \/ (count'[p] > count[p] /\ pp'[p] = "wake")
  /\ pp[p] \in Gone => pp'[p] \in Gone /\ count'[p] = count[p]
  /\ \/ live' = live /\ (pp'[p] \in Gone <=> pp[p] \in Gone)
     \/ /\ live' = live - 1 /\ pp[p] = "drop"
        /\ pp'[p] = IF live = 1 THEN "lastWake" ELSE "gone"

\* A producer's step that only moves it from one point to another.
LEMMA ProducerMoves ==
  ASSUME TypeOK, NEW p \in Producers, NEW from, NEW to \in ProducerPoints,
         ProducerAt(p, from, to), from \notin {"wake", "lastWake"},
         from \in Gone <=> to \in Gone,
         UNCHANGED <<count, gates, prodElse>>
  PROVE  ProducerKeeps(p)
<1>1. pp[p] = from /\ pp'[p] = to
      /\ \A q \in Producers \ {p} : pp'[q] = pp[q] /\ send'[q] = send[q]
  BY ProducerAtFacts
<1>2. QED
  BY <1>1 DEF ProducerKeeps, prodElse, cons, gates

\* A producer's step that changes its own waiter.
LEMMA ProducerWaits ==
  ASSUME TypeOK, NEW p \in Producers, NEW from, NEW to \in ProducerPoints \ Gone,
         ProducerAt(p, from, to), from \notin {"wake"} \cup Gone,
         \/ Disarm(p)
         \/ Take(p) /\ UNCHANGED parked
         \/ Arm(p, TRUE) /\ UNCHANGED token,
         UNCHANGED <<count, prodElse>>
  PROVE  ProducerKeeps(p)
<1>1. /\ pp[p] = from /\ pp'[p] = to
      /\ \A q \in Producers \ {p} : pp'[q] = pp[q] /\ send'[q] = send[q]
  BY ProducerAtFacts
<1>2. p \in 0..M /\ p # 0
  BY Indices
<1>3. \A v \in 0..M : v # p => parked'[v] = parked[v] /\ token'[v] = token[v]
  BY <1>2, GateFacts
<1>4. 0 \in 0..M /\ \A q \in Producers : q \in 0..M
  BY Indices
<1>5. QED
  BY <1>1, <1>2, <1>3, <1>4 DEF ProducerKeeps, prodElse, cons, Gone

\* A producer's step that wakes the consumer.
LEMMA ProducerWakes ==
  ASSUME TypeOK, NEW p \in Producers, NEW from, NEW to \in ProducerPoints,
         ProducerAt(p, from, to), from \in Gone <=> to \in Gone,
         Wake(0), UNCHANGED <<count, parked, prodElse>>
  PROVE  ProducerKeeps(p)
<1>1. pp[p] = from /\ pp'[p] = to
      /\ \A q \in Producers \ {p} : pp'[q] = pp[q] /\ send'[q] = send[q]
  BY ProducerAtFacts
<1>2. 0 \in 0..M /\ \A q \in Producers : q \in 0..M
  BY Indices
<1>3. (parked[0] => token'[0]) /\ \A v \in 0..M : token[v] => token'[v]
  BY <1>2, GateFacts
<1>4. QED
  BY <1>1, <1>2, <1>3 DEF ProducerKeeps, prodElse, cons

ProducerActs(p) ==
  \/ \E op \in SENDS[p] : StartSend(p, op)
  \/ ProducerStep(p) \/ ProducerCancel(p) \/ ProducerDrop(p)

\* Every step of a producer is like that.
LEMMA ProducerFacts ==
  ASSUME TypeOK, NEW p \in Producers, ProducerActs(p)
  PROVE  ProducerKeeps(p)
<1> USE DEF ProducerPoints, Gone
<1>1. ASSUME NEW op \in SENDS[p], StartSend(p, op) PROVE ProducerKeeps(p)
  <2>1. pp[p] = "idle" /\ pp'[p] \in {"check", "arm", "try"}
    BY <1>1 DEF StartSend, TypeOK
  <2>2. \A q \in Producers \ {p} : pp'[q] = pp[q] /\ send'[q] = send[q]
    BY <1>1 DEF StartSend, TypeOK
  <2>3. QED
    BY <1>1, <2>1, <2>2 DEF StartSend, ProducerKeeps, gates, cons
<1>2. CASE SendCheck(p)
  <2>1. PICK to \in {"idle", "try"} : ProducerAt(p, "check", to)
    BY <1>2 DEF SendCheck
  <2>2. QED
    BY <1>2, <2>1, ProducerMoves DEF SendCheck
<1>3. CASE TryCheck(p)
  <2>1. PICK to \in {"push", "leave", "arm", "sleep", "idle"} : ProducerAt(p, "try", to)
    BY <1>3 DEF TryCheck, Refused
  <2>2. QED
    BY <1>3, <2>1, ProducerMoves DEF TryCheck
<1>4. CASE Push(p)
  <2>1. ASSUME NEW k \in 1 .. CAP - count[p], ProducerAt(p, "push", "wake"),
               count' = [count EXCEPT ![p] = @ + k]
        PROVE  ProducerKeeps(p)
    <3>1. pp[p] = "push" /\ pp'[p] = "wake"
          /\ \A q \in Producers \ {p} : pp'[q] = pp[q] /\ send'[q] = send[q]
      BY <2>1, ProducerAtFacts
    <3>2. count[p] \in 0..CAP
      BY DEF TypeOK
    <3>3. count'[p] > count[p] /\ \A q \in Producers \ {p} : count'[q] = count[q]
      BY <2>1, <3>2, Indices DEF TypeOK
    <3>4. QED
      BY <1>4, <3>1, <3>3 DEF Push, ProducerKeeps, prodElse, cons, gates
  <2>2. ASSUME UNCHANGED count PROVE ProducerKeeps(p)
    <3>1. PICK to \in {"wake", "leave", "arm", "sleep", "idle"} : ProducerAt(p, "push", to)
      BY <1>4 DEF Push, Refused
    <3>2. QED
      BY <1>4, <2>2, <3>1, ProducerMoves DEF Push
  <2>3. QED
    BY <1>4, <2>1, <2>2 DEF Push
<1>5. CASE FanInWake(p)
  <2>1. PICK to \in {"leave", "idle"} : ProducerAt(p, "wake", to)
    BY <1>5 DEF FanInWake
  <2>2. QED
    BY <1>5, <2>1, ProducerWakes DEF FanInWake
<1>6. CASE ProducerArm(p)
  <2>1. PICK to \in {"look", "try"} : ProducerAt(p, "arm", to)
    BY <1>6 DEF ProducerArm
  <2>2. QED
    BY <1>6, <2>1, ProducerWaits DEF ProducerArm
<1>7. CASE ProducerLook(p)
  <2>1. PICK to \in {"disarm", "lookFull"} : ProducerAt(p, "look", to)
    BY <1>7 DEF ProducerLook
  <2>2. QED
    BY <1>7, <2>1, ProducerMoves DEF ProducerLook
<1>8. CASE ProducerLookFull(p)
  <2>1. PICK to \in {"disarm", "sleep"} : ProducerAt(p, "lookFull", to)
    BY <1>8 DEF ProducerLookFull
  <2>2. QED
    BY <1>8, <2>1, ProducerMoves DEF ProducerLookFull
<1>9. CASE ProducerWoken(p)
  <2>1. PICK to \in {"look", "disarm"} : ProducerAt(p, "sleep", to)
    BY <1>9 DEF ProducerWoken
  <2>2. QED
    BY <1>9, <2>1, ProducerWaits DEF ProducerWoken
<1>10. CASE ProducerDisarm(p)
  <2>1. PICK to \in {"check", "arm"} : ProducerAt(p, "disarm", to)
    BY <1>10 DEF ProducerDisarm
  <2>2. QED
    BY <1>10, <2>1, ProducerWaits DEF ProducerDisarm
<1>11. CASE ProducerLeave(p)
  BY <1>11, ProducerWaits DEF ProducerLeave
<1>12. CASE ProducerCancel(p)
  BY <1>12, ProducerWaits DEF ProducerCancel
<1>13. CASE ProducerDrop(p)
  BY <1>13, ProducerMoves DEF ProducerDrop
<1>14. CASE Decrement(p)
  <2>1. PICK to \in {"lastWake", "gone"} :
          ProducerAt(p, "drop", to) /\ to = IF live = 1 THEN "lastWake" ELSE "gone"
    BY <1>14 DEF Decrement
  <2>2. pp[p] = "drop" /\ pp'[p] = to
        /\ \A q \in Producers \ {p} : pp'[q] = pp[q] /\ send'[q] = send[q]
    BY <2>1, ProducerAtFacts
  <2>3. QED
    BY <1>14, <2>1, <2>2 DEF Decrement, ProducerKeeps, cons, gates
<1>15. CASE LastWake(p)
  BY <1>15, ProducerWakes DEF LastWake
<1>16. QED
  BY <1>1, <1>2, <1>3, <1>4, <1>5, <1>6, <1>7, <1>8, <1>9, <1>10, <1>11, <1>12, <1>13,
    <1>14, <1>15 DEF ProducerActs, ProducerStep

\* A drop lowers the count by the one producer that goes.
LEMMA CountedProducer ==
  ASSUME TypeOK, Counted, NEW p \in Producers, ProducerKeeps(p)
  PROVE  Counted'
<1>1. CASE live' = live /\ (pp'[p] \in Gone <=> pp[p] \in Gone)
  <2>1. LiveProducers' = LiveProducers
    BY <1>1 DEF LiveProducers, ProducerKeeps, Gone
  <2>2. QED
    BY <1>1, <2>1 DEF Counted
<1>2. CASE /\ live' = live - 1 /\ pp[p] = "drop"
           /\ pp'[p] = IF live = 1 THEN "lastWake" ELSE "gone"
  <2>1. p \in LiveProducers /\ LiveProducers' = LiveProducers \ {p}
    BY <1>2 DEF LiveProducers, ProducerKeeps
  <2>2. Cardinality(LiveProducers') = Cardinality(LiveProducers) - 1
    BY <2>1, LiveFinite, FS_RemoveElement
  <2>3. QED
    BY <1>2, <2>2 DEF Counted
<1>3. QED
  BY <1>1, <1>2 DEF ProducerKeeps

\* A producer leaves the consumer's scan where it was, and its ring no emptier.
LEMMA PlaceProducer ==
  ASSUME TypeOK, TypeOK', PlaceInv, NEW p \in Producers, ProducerKeeps(p)
  PROVE  PlaceInv'
<1>1. UNCHANGED <<cp, recv, i, stop, pass>>
  BY DEF ProducerKeeps, scan
<1>2. i \in Producers /\ stop \in 0..CAP /\ count[i] \in 0..CAP /\ count'[i] \in 0..CAP
  BY DEF TypeOK
<1>3. count'[i] = count[i] \/ count'[i] > count[i]
  BY <1>2 DEF ProducerKeeps
<1>4. ASSUME cp = "commit" PROVE stop <= count'[i]
  <2>1. stop <= count[i]
    BY <1>4 DEF PlaceInv, Held
  <2>2. CASE count'[i] = count[i]
    BY <2>1, <2>2
  <2>3. CASE count'[i] > count[i]
    BY <1>2, <2>1, <2>3, Indices
  <2>4. QED
    BY <1>3, <2>2, <2>3
<1>5. Held'
  BY <1>1, <1>4 DEF Held
<1>6. AtFirst' /\ Passing'
  BY <1>1 DEF PlaceInv, AtFirst, Passing, batch
<1>7. QED
  BY <1>5, <1>6 DEF PlaceInv

\* What the announced consumer has passed changes only with a wake to come.
LEMMA ReceiverProducer ==
  ASSUME TypeOK, ReceiverInv, NEW p \in Producers, ProducerKeeps(p)
  PROVE  ReceiverInv'
<1>1. UNCHANGED <<cp, i, pass, sd>> /\ parked'[0] = parked[0]
  BY DEF ProducerKeeps, scan
<1>2. parked[0] /\ ReceiverOwed => ReceiverOwed'
  <2>1. ASSUME parked[0], NEW q \in Producers, pp[q] \in {"wake", "lastWake"}
        PROVE  token'[0] \/ pp'[q] \in {"wake", "lastWake"}
    BY <2>1 DEF ProducerKeeps
  <2>2. token[0] => token'[0]
    BY DEF ProducerKeeps
  <2>3. QED
    BY <1>1, <2>1, <2>2 DEF ReceiverOwed
<1>3. ASSUME NEW r \in Producers, count'[r] > 0 PROVE count[r] > 0 \/ ReceiverOwed'
  <2>1. count'[r] = count[r] \/ (r = p /\ pp'[p] = "wake")
    BY DEF ProducerKeeps
  <2>2. QED
    BY <1>3, <2>1 DEF ReceiverOwed
<1>4. live' = 0 => live = 0 \/ ReceiverOwed'
  <2>1. live \in 0..M
    BY DEF TypeOK
  <2>2. live' = live \/ (live' = live - 1 /\ (live = 1 => pp'[p] = "lastWake"))
    BY DEF ProducerKeeps
  <2>3. live' = 0 => live = 0 \/ pp'[p] = "lastWake"
    BY <2>1, <2>2, Indices
  <2>4. QED
    BY <2>3 DEF ReceiverOwed
<1>5. ASSUME NEW r \in Producers PROVE Passed(r)' <=> Passed(r)
  BY <1>1 DEF Passed
<1>6. ASSUME NEW r \in Producers, Passed(r) PROVE parked[0]
  BY <1>6 DEF Passed, ReceiverInv
<1>7. ASSUME NEW r \in Producers, Passed(r)', count'[r] > 0 PROVE ReceiverOwed'
  BY <1>2, <1>3, <1>5, <1>6, <1>7 DEF ReceiverInv
<1>8. QED
  BY <1>1, <1>2, <1>4, <1>7 DEF ReceiverInv, Shutdown

\* Nobody fills a ring once the count is zero.
LEMMA EndProducer ==
  ASSUME TypeOK, Counted, EndInv, NEW p \in Producers, ProducerKeeps(p)
  PROVE  EndInv'
<1>1. UNCHANGED <<cp, i, sd, ended>>
  BY DEF ProducerKeeps, scan
<1>2. live = 0 => live' = 0 /\ \A r \in Producers : count'[r] = count[r]
  <2>1. live = 0 => pp[p] \in Gone
    BY SomeoneLive DEF Gone
  <2>2. pp[p] \in Gone => live' = live /\ count'[p] = count[p]
    BY DEF ProducerKeeps, Gone
  <2>3. \A q \in Producers \ {p} : count'[q] = count[q]
    BY DEF ProducerKeeps
  <2>4. QED
    BY <2>1, <2>2, <2>3
<1>3. EndMeansDrained'
  <2>1. ASSUME NEW q \in Producers, pp[q] \in Gone
        PROVE  pp'[q] \in Gone /\ count'[q] = count[q]
    BY <2>1 DEF ProducerKeeps
  <2>2. QED
    BY <1>1, <2>1 DEF EndInv, EndMeansDrained, Shutdown, Gone
<1>4. QED
  BY <1>1, <1>2, <1>3 DEF EndInv

\* A producer's wait is not disturbed by another step, unless its ring is given room,
\* and then it is owed the wake.
LEMMA SenderFrame ==
  ASSUME NEW q \in Producers, SenderAt(q), UNCHANGED sd,
         pp'[q] = pp[q], send'[q] = send[q], parked'[q] = parked[q],
         parked[q] /\ SenderOwed(q) => SenderOwed(q)',
         count'[q] < CAP => count[q] < CAP \/ SenderOwed(q)'
  PROVE  SenderAt(q)'
BY DEF SenderAt, Announced, Committed, Shutdown

\* The same, of another producer's step.
LEMMA SenderOthers ==
  ASSUME NEW p \in Producers, ProducerKeeps(p), NEW q \in Producers \ {p}, SenderAt(q)
  PROVE  SenderAt(q)'
<1>1. /\ UNCHANGED <<sd, cp, i>>
      /\ pp'[q] = pp[q] /\ send'[q] = send[q] /\ count'[q] = count[q]
      /\ parked'[q] = parked[q] /\ (token[q] => token'[q])
  BY DEF ProducerKeeps, scan
<1>2. SenderOwed(q) => SenderOwed(q)'
  BY <1>1 DEF SenderOwed
<1>3. QED
  BY <1>1, <1>2, SenderFrame

\* A producer that has announced nothing is owed nothing.
LEMMA SenderQuiet ==
  ASSUME NEW p \in Producers,
         pp'[p] \in {"idle", "arm", "wake", "leave", "drop", "lastWake", "gone"}
  PROVE  SenderAt(p)'
BY DEF SenderAt, Announced, Committed

\* The producer's own wait: announced before it looks, and owed the wake before
\* it stops looking.
LEMMA SenderOwn ==
  ASSUME TypeOK, NEW p \in Producers, SenderAt(p), ProducerActs(p)
  PROVE  SenderAt(p)'
<1> USE DEF ProducerPoints
<1>0. ProducerKeeps(p)
  BY ProducerFacts
<1>1. ASSUME NEW op \in SENDS[p], StartSend(p, op) PROVE SenderAt(p)'
  <2>1. send'[p] = op
    BY <1>1, CallsMade DEF StartSend, TypeOK
  <2>2. pp'[p] = CASE op = "send" -> "check"
                   [] op = "send_async_send" -> "arm"
                   [] OTHER -> "try"
    BY <1>1 DEF StartSend, TypeOK
  <2>3. QED
    BY <2>1, <2>2 DEF SenderAt, Announced, Committed
<1>2. CASE SendCheck(p)
  <2>1. PICK to \in {"idle", "try"} : ProducerAt(p, "check", to)
    BY <1>2 DEF SendCheck
  <2>2. pp[p] = "check" /\ pp'[p] = to /\ (to # "idle" => send'[p] = send[p])
    BY <2>1, ProducerAtFacts
  <2>3. CASE to = "idle"
    BY <2>2, <2>3, SenderQuiet
  <2>4. CASE to = "try"
    BY <2>2, <2>4 DEF SenderAt, Announced, Committed
  <2>5. QED
    BY <2>3, <2>4
<1>3. CASE TryCheck(p)
  <2>1. PICK to \in {"push", "leave", "arm", "sleep", "idle"} :
          /\ ProducerAt(p, "try", to)
          /\ to = "push" => ~Shutdown
          /\ to # "sleep"
    BY <1>3 DEF TryCheck, Refused
  <2>2. pp[p] = "try" /\ pp'[p] = to /\ (to # "idle" => send'[p] = send[p])
    BY <2>1, ProducerAtFacts
  <2>3. CASE to = "push"
    BY <1>3, <2>1, <2>2, <2>3
    DEF TryCheck, SenderAt, Announced, Committed, Shutdown, prodElse, gates
  <2>4. CASE to # "push"
    BY <2>1, <2>2, <2>4, SenderQuiet
  <2>5. QED
    BY <2>3, <2>4
<1>4. CASE Push(p)
  <2>1. CASE ProducerAt(p, "push", "wake")
    <3>1. pp'[p] = "wake"
      BY <2>1, ProducerAtFacts
    <3>2. QED
      BY <3>1, SenderQuiet
  <2>2. ASSUME UNCHANGED count, count[p] = CAP,
               NEW to \in {"leave", "arm", "sleep", "idle"}, ProducerAt(p, "push", to),
               to = "sleep" => send[p] = "send_async_send"
        PROVE  SenderAt(p)'
    <3>1. pp[p] = "push" /\ pp'[p] = to /\ (to # "idle" => send'[p] = send[p])
      BY <2>2, ProducerAtFacts
    <3>2. CASE to = "sleep"
      <4>1. Committed(p) /\ Announced(p) /\ UNCHANGED <<parked, token, sd, cp, i>>
        BY <1>4, <2>2, <3>1, <3>2
        DEF Committed, Announced, Push, prodElse, gates, cons, scan
      <4>2. parked'[p] /\ (Shutdown' => SenderOwed(p)')
        BY <4>1 DEF SenderAt, Shutdown, SenderOwed
      <4>3. ~(count'[p] < CAP)
        BY <2>2, Indices
      <4>4. QED
        BY <3>1, <3>2, <4>2, <4>3 DEF SenderAt
    <3>3. CASE to # "sleep"
      BY <2>2, <3>1, <3>3, SenderQuiet
    <3>4. QED
      BY <3>2, <3>3
  <2>3. ASSUME UNCHANGED count, count[p] = CAP,
               ProducerAt(p, "push", IF send[p] = "send_async_send" /\ cp = "gone"
                                       THEN "leave" ELSE Refused(p))
        PROVE  SenderAt(p)'
    BY <2>2, <2>3 DEF Refused
  <2>4. QED
    BY <1>4, <2>1, <2>3 DEF Push
<1>5. CASE FanInWake(p)
  <2>1. PICK to \in {"leave", "idle"} : ProducerAt(p, "wake", to)
    BY <1>5 DEF FanInWake
  <2>2. QED
    BY <2>1, ProducerAtFacts, SenderQuiet
<1>6. CASE ProducerArm(p)
  <2>1. PICK to \in {"look", "try"} : ProducerAt(p, "arm", to)
    BY <1>6 DEF ProducerArm
  <2>2. pp'[p] = to
    BY <2>1, ProducerAtFacts
  <2>3. parked'[p]
    BY <1>6, GateFacts, Indices DEF ProducerArm
  <2>4. QED
    BY <2>1, <2>2, <2>3 DEF SenderAt, Announced, Committed
<1>7. CASE ProducerLook(p)
  <2>1. PICK to \in {"disarm", "lookFull"} :
          ProducerAt(p, "look", to) /\ (to = "lookFull" => ~Shutdown)
    BY <1>7 DEF ProducerLook
  <2>2. pp[p] = "look" /\ pp'[p] = to
    BY <2>1, ProducerAtFacts
  <2>3. parked[p] /\ UNCHANGED <<parked, sd>>
    BY <1>7, <2>2 DEF SenderAt, Announced, ProducerLook, prodElse, gates
  <2>4. QED
    BY <2>1, <2>2, <2>3 DEF SenderAt, Announced, Committed, Shutdown
<1>8. CASE ProducerLookFull(p)
  <2>1. PICK to \in {"disarm", "sleep"} :
          ProducerAt(p, "lookFull", to) /\ (to = "sleep" => ~(count[p] < CAP))
    BY <1>8 DEF ProducerLookFull
  <2>2. pp[p] = "lookFull" /\ pp'[p] = to
    BY <2>1, ProducerAtFacts
  <2>3. UNCHANGED <<count, parked, token, sd, cp, i>>
    BY <1>8 DEF ProducerLookFull, prodElse, gates, cons, scan
  <2>4. parked'[p] /\ (Shutdown' => SenderOwed(p)')
    BY <2>2, <2>3 DEF SenderAt, Announced, Committed, Shutdown, SenderOwed
  <2>5. QED
    BY <2>1, <2>2, <2>3, <2>4 DEF SenderAt, Committed
<1>9. CASE ProducerWoken(p)
  <2>1. PICK to \in {"look", "disarm"} : ProducerAt(p, "sleep", to)
    BY <1>9 DEF ProducerWoken
  <2>2. pp[p] = "sleep" /\ pp'[p] = to /\ UNCHANGED parked
    BY <1>9, <2>1, ProducerAtFacts DEF ProducerWoken
  <2>3. QED
    BY <2>1, <2>2 DEF SenderAt, Announced, Committed
<1>10. CASE ProducerDisarm(p)
  <2>1. PICK to \in {"check", "arm"} :
          ProducerAt(p, "disarm", to) /\ (to = "check" => send[p] = "send")
    BY <1>10 DEF ProducerDisarm
  <2>2. pp'[p] = to /\ send'[p] = send[p]
    BY <2>1, ProducerAtFacts
  <2>3. QED
    BY <2>1, <2>2 DEF SenderAt, Announced, Committed
<1>11. CASE ProducerLeave(p) \/ ProducerCancel(p)
  <2>1. PICK from : ProducerAt(p, from, "idle")
    BY <1>11 DEF ProducerLeave, ProducerCancel
  <2>2. QED
    BY <2>1, ProducerAtFacts, SenderQuiet
<1>12. CASE ProducerDrop(p)
  BY <1>12, ProducerAtFacts, SenderQuiet DEF ProducerDrop
<1>13. CASE Decrement(p)
  <2>1. PICK to \in {"lastWake", "gone"} : ProducerAt(p, "drop", to)
    BY <1>13 DEF Decrement
  <2>2. QED
    BY <2>1, ProducerAtFacts, SenderQuiet
<1>14. CASE LastWake(p)
  BY <1>14, ProducerAtFacts, SenderQuiet DEF LastWake
<1>15. QED
  BY <1>1, <1>2, <1>3, <1>4, <1>5, <1>6, <1>7, <1>8, <1>9, <1>10, <1>11, <1>12, <1>13,
    <1>14 DEF ProducerActs, ProducerStep

\* The consumer changes nothing of a producer's but its token and its ring, and a
\* ring it takes from it owes a wake to, or is about to be gone.
ConsumerKeeps ==
  /\ UNCHANGED <<live, sd, pp, send>>
  /\ cp # "gone"
  /\ \A p \in Producers :
       /\ parked'[p] = parked[p] /\ (token[p] => token'[p])
       /\ \/ count'[p] = count[p]
          \/ /\ count'[p] < count[p]
             /\ cp' = "gone" \/ (cp' = "wake" /\ i' = p)
  /\ cp = "wake" /\ parked[i] => token'[i]

\* A step of the consumer that takes no item and wakes nobody.
LEMMA ConsumerStill ==
  ASSUME cp \notin {"wake", "gone"}, UNCHANGED <<count, consElse>>,
         \A p \in Producers : parked'[p] = parked[p] /\ token'[p] = token[p]
  PROVE  ConsumerKeeps
BY DEF ConsumerKeeps, consElse, prod

\* What it does with its own waiter is no matter of a producer's.
LEMMA OwnGate ==
  ASSUME TypeOK,
         \/ Disarm(0)
         \/ Take(0) /\ UNCHANGED parked
         \/ Arm(0, TRUE) /\ UNCHANGED token
  PROVE  \A p \in Producers : parked'[p] = parked[p] /\ token'[p] = token[p]
<1>1. 0 \in 0..M /\ \A p \in Producers : p \in 0..M /\ p # 0
  BY Indices
<1>2. QED
  BY <1>1, GateFacts

\* A producer's wait outlives a step of the consumer.
LEMMA SenderConsumer ==
  ASSUME TypeOK, ConsumerKeeps, NEW q \in Producers, SenderAt(q)
  PROVE  SenderAt(q)'
<1>1. parked[q] /\ SenderOwed(q) => SenderOwed(q)'
  BY DEF ConsumerKeeps, SenderOwed
<1>2. count'[q] < CAP => count[q] < CAP \/ SenderOwed(q)'
  BY DEF ConsumerKeeps, SenderOwed
<1>3. QED
  BY <1>1, <1>2, SenderFrame DEF ConsumerKeeps

\* A step that starts no drop of a producer keeps the count of them exact.
LEMMA CountedConsumer ==
  ASSUME Counted, UNCHANGED <<live, pp>>
  PROVE  Counted'
BY DEF Counted, LiveProducers

\* Between two scans, and with a batch in hand, nothing has been passed.
LEMMA ReceiverQuiet ==
  ASSUME cp' \in {"idle", "arm", "commit", "wake", "disarm", "leave", "gone"}
  PROVE  ReceiverInv'
BY DEF ReceiverInv, Passed

\* A scan that starts over stands at the first ring with nothing in hand.
LEMMA PlaceFirst ==
  ASSUME i' = 1, ~pass', cp' \notin {"commit", "wake"}
  PROVE  PlaceInv'
BY DEF PlaceInv, AtFirst, Held, Passing

\* Of a channel that has ended nothing is brought back.
LEMMA EndFrame ==
  ASSUME TypeOK, TypeOK', EndInv, ConsumerKeeps, ended' => ended, cp' # "finScan"
  PROVE  EndInv'
<1>1. ASSUME NEW p \in Producers, count[p] = 0 PROVE count'[p] = 0
  <2>1. count[p] \in 0..CAP /\ count'[p] \in 0..CAP
    BY DEF TypeOK
  <2>2. ~(count'[p] < count[p])
    BY <1>1, <2>1, Indices
  <2>3. QED
    BY <1>1, <2>2 DEF ConsumerKeeps
<1>2. QED
  BY <1>1 DEF EndInv, EndMeansDrained, Shutdown, ConsumerKeeps

\* A receive that is over, or begins again.
LEMMA ConsumerQuiet ==
  ASSUME TypeOK, TypeOK', EndInv, ConsumerKeeps, ended' => ended, i' = 1, ~pass',
         cp' \in {"idle", "arm", "disarm", "leave", "gone"}
  PROVE  PlaceInv' /\ ReceiverInv' /\ EndInv'
BY ReceiverQuiet, PlaceFirst, EndFrame

\* While the consumer's token and what else it is owed stand, it is owed a wake.
LEMMA ReceiverOwedKept ==
  ASSUME UNCHANGED <<sd, pp>>, token[0] => token'[0]
  PROVE  ReceiverOwed => ReceiverOwed'
BY DEF ReceiverOwed

\* Rings passed in order.
LEMMA RingsBefore ==
  ASSUME TypeOK, NEW r \in Producers
  PROVE  /\ ~(r < 1)
         /\ r < i + 1 => r < i \/ r = i
         /\ i = M => r < i \/ r = i
<1>1. r \in Nat /\ i \in Nat /\ r >= 1 /\ r <= M /\ M \in Nat
  BY Indices DEF TypeOK
<1>2. QED
  BY <1>1

ConsumerDone == ConsumerKeeps /\ PlaceInv' /\ ReceiverInv' /\ EndInv'

\* The call, and the steps that end a wait or a receive.
LEMMA ConsumerEnds ==
  ASSUME IInv, TypeOK',
         \/ \E op \in RECVS : StartRecv(op)
         \/ ConsumerDisarm \/ ConsumerLeave \/ ConsumerCancel \/ ConsumerDrop
  PROVE  ConsumerDone
<1>0. TypeOK /\ PlaceInv /\ EndInv
  BY DEF IInv
<1>1. ASSUME NEW op \in RECVS, StartRecv(op) PROVE ConsumerDone
  <2>1. cp = "idle" /\ cp' \in {"arm", "scan"} /\ ~ended' /\ UNCHANGED <<i, pass>>
    BY <1>1 DEF StartRecv, scan
  <2>2. i = 1 /\ ~pass
    BY <1>0, <2>1 DEF PlaceInv, AtFirst, Passing
  <2>3. ConsumerKeeps
    BY <1>1, ConsumerStill DEF StartRecv, gates
  <2>4. \A r \in Producers : ~(r < i')
    BY <1>0, <2>1, <2>2, RingsBefore
  <2>5. ReceiverInv'
    BY <2>1, <2>4 DEF ReceiverInv, Passed
  <2>6. QED
    BY <1>0, <2>1, <2>2, <2>3, <2>5, PlaceFirst, EndFrame DEF ConsumerDone
<1>2. ASSUME NEW to \in {"idle", "arm", "scan", "gone"}, Goto(to),
             cp \in {"idle", "sleep", "disarm", "leave"},
             to = "scan" => ~parked'[0],
             \A p \in Producers : parked'[p] = parked[p] /\ token'[p] = token[p],
             UNCHANGED <<count, scan, consElse>>
      PROVE  ConsumerDone
  <2>1. cp' = to /\ ended' = ended
    BY <1>0, <1>2, GotoFacts DEF ConsumerPoints
  <2>2. i' = 1 /\ ~pass'
    BY <1>0, <1>2 DEF PlaceInv, AtFirst, Passing, scan
  <2>3. ConsumerKeeps
    BY <1>2, ConsumerStill
  <2>4. ReceiverInv'
    BY <1>2, <2>1, ReceiverQuiet DEF ReceiverInv, Passed
  <2>5. QED
    BY <1>0, <1>2, <2>1, <2>2, <2>3, <2>4, PlaceFirst, EndFrame DEF ConsumerDone
<1>3. CASE ConsumerDisarm
  <2>1. PICK to \in {"arm", "scan"} : Goto(to)
    BY <1>3 DEF ConsumerDisarm, ConsumerAt
  <2>2. ~parked'[0]
    BY <1>0, <1>3, GateFacts, Indices DEF ConsumerDisarm
  <2>3. QED
    BY <1>0, <1>2, <1>3, <2>1, <2>2, OwnGate DEF ConsumerDisarm, ConsumerAt
<1>4. CASE ConsumerLeave
  BY <1>0, <1>2, <1>4, OwnGate DEF ConsumerLeave, ConsumerAt
<1>5. CASE ConsumerCancel
  BY <1>0, <1>2, <1>5, OwnGate DEF ConsumerCancel, ConsumerAt
<1>6. CASE ConsumerDrop
  BY <1>0, <1>2, <1>6 DEF ConsumerDrop, ConsumerAt, gates
<1>7. QED
  BY <1>1, <1>3, <1>4, <1>5, <1>6

\* Announcing the wait, and waking from it.
LEMMA ConsumerWaits ==
  ASSUME IInv, TypeOK', ConsumerArm \/ ConsumerWoken
  PROVE  ConsumerDone
<1>0. TypeOK /\ PlaceInv /\ ReceiverInv /\ EndInv
  BY DEF IInv
<1>1. PICK to \in {"scan", "look", "disarm"} :
        /\ Goto(to) /\ (to = "disarm" => ConsumerWoken)
        /\ to = "scan" => ConsumerArm
  BY DEF ConsumerArm, ConsumerWoken, ConsumerAt
<1>2. cp' = to /\ ended' = ended /\ cp \in {"arm", "sleep"} /\ UNCHANGED <<count, scan, consElse>>
  BY <1>0, <1>1, GotoFacts DEF ConsumerPoints, ConsumerArm, ConsumerWoken, ConsumerAt
<1>3. i' = 1 /\ ~pass'
  BY <1>0, <1>2 DEF PlaceInv, AtFirst, Passing, scan
<1>4. parked'[0]
  <2>1. CASE ConsumerArm
    BY <1>0, <2>1, GateFacts, Indices DEF ConsumerArm
  <2>2. CASE ConsumerWoken
    BY <1>0, <2>2 DEF ConsumerWoken, ConsumerAt, ReceiverInv
  <2>3. QED
    BY <2>1, <2>2
<1>5. ConsumerKeeps
  BY <1>0, <1>2, OwnGate, ConsumerStill DEF ConsumerArm, ConsumerWoken
<1>6. \A r \in Producers : ~(r < i')
  BY <1>0, <1>3, RingsBefore
<1>7. ReceiverInv'
  BY <1>1, <1>2, <1>4, <1>6 DEF ReceiverInv, Passed
<1>8. QED
  BY <1>0, <1>1, <1>2, <1>3, <1>5, <1>7, PlaceFirst, EndFrame DEF ConsumerDone

\* A ring found empty is passed; the next one is looked at, or all have been.
LEMMA RingEmpty ==
  ASSUME TypeOK, ReceiverInv, UNCHANGED <<count, gates, sd, pp>>, count[i] = 0,
         cp \in {"look", "scan"}, cp' \in {"look", "scan", "finShutdown"},
         parked[0], ~pass,
         \/ cp' = cp /\ i' = i + 1
         \/ cp' = "finShutdown" /\ i = M
  PROVE  ReceiverInv'
<1>1. ASSUME NEW r \in Producers, Passed(r)' PROVE r = i \/ Passed(r)
  BY <1>1, RingsBefore DEF Passed
<1>2. ReceiverOwed => ReceiverOwed'
  BY ReceiverOwedKept DEF gates
<1>3. ASSUME NEW r \in Producers, Passed(r)', count'[r] > 0 PROVE ReceiverOwed'
  <2>1. count[r] > 0 /\ ~(0 > 0)
    BY <1>3
  <2>2. r # i
    BY <2>1
  <2>3. QED
    BY <1>1, <1>2, <1>3, <2>1, <2>2 DEF ReceiverInv
<1>4. QED
  BY <1>3 DEF ReceiverInv, gates

\* try_recv: an item of a ring, or the end of the scan.
LEMMA ConsumerTries == ASSUME IInv, TypeOK', TryRecv PROVE ConsumerDone
<1>0. TypeOK /\ PlaceInv /\ ReceiverInv /\ EndInv /\ cp = "scan" /\ ~batch
  BY DEF IInv, TryRecv
<1>1. ~pass
  BY <1>0 DEF PlaceInv, Passing
<1>2. UNCHANGED <<gates, sd, live, pp, send>>
  BY DEF TryRecv, consElse, prod
<1>3. CASE /\ count[i] > 0 /\ count' = [count EXCEPT ![i] = @ - 1]
           /\ Goto("wake") /\ UNCHANGED scan
  <2>1. cp' = "wake" /\ ended' = ended /\ recv' = recv /\ UNCHANGED <<i, pass>>
    BY <1>0, <1>3, GotoFacts DEF ConsumerPoints, scan
  <2>2. count[i] \in 0..CAP /\ i \in Producers
    BY <1>0 DEF TypeOK
  <2>3. count'[i] < count[i] /\ \A p \in Producers : p # i => count'[p] = count[p]
    BY <1>0, <1>3, <2>2, Indices DEF TypeOK
  <2>4. ConsumerKeeps
    BY <1>0, <1>2, <2>1, <2>3 DEF ConsumerKeeps, gates
  <2>5. PlaceInv'
    BY <1>0, <1>1, <2>1 DEF PlaceInv, AtFirst, Held, Passing, batch
  <2>6. QED
    BY <1>0, <2>1, <2>4, <2>5, ReceiverQuiet, EndFrame DEF ConsumerDone
<1>4. CASE count[i] = 0 /\ i < M /\ NextRing /\ UNCHANGED <<count, cp, recv, ended>>
  <2>1. ConsumerKeeps
    BY <1>0, <1>2, <1>4 DEF ConsumerKeeps, gates
  <2>2. PlaceInv'
    BY <1>0, <1>1, <1>4 DEF PlaceInv, AtFirst, Held, Passing, NextRing
  <2>3. ReceiverInv'
    <3>1. CASE parked[0]
      BY <1>0, <1>1, <1>2, <1>4, <3>1, RingEmpty DEF NextRing
    <3>2. CASE ~parked[0]
      BY <1>0, <1>2, <1>4, <3>2 DEF ReceiverInv, Passed, gates
    <3>3. QED
      BY <3>1, <3>2
  <2>4. QED
    BY <1>0, <1>4, <2>1, <2>2, <2>3, EndFrame DEF ConsumerDone
<1>5. CASE count[i] = 0 /\ i = M /\ Goto(NoItem) /\ FirstRing /\ UNCHANGED count
  <2>1. PICK to \in {"idle", "finShutdown"} : Goto(to)
    BY <1>5, Turns
  <2>2. cp' = to /\ ended' = ended /\ i' = 1 /\ ~pass'
    BY <1>0, <1>5, <2>1, GotoFacts DEF ConsumerPoints, FirstRing
  <2>3. ConsumerKeeps
    BY <1>0, <1>2, <1>5 DEF ConsumerKeeps, gates
  <2>4. ReceiverInv'
    <3>1. CASE to = "idle" \/ ~parked[0]
      BY <1>2, <2>1, <2>2, <3>1, ReceiverQuiet DEF ReceiverInv, Passed, gates
    <3>2. CASE to = "finShutdown" /\ parked[0]
      BY <1>0, <1>1, <1>2, <1>5, <2>2, <3>2, RingEmpty
    <3>3. QED
      BY <2>1, <3>1, <3>2
  <2>5. QED
    BY <1>0, <2>1, <2>2, <2>3, <2>4, PlaceFirst, EndFrame DEF ConsumerDone
<1>6. QED
  BY <1>3, <1>4, <1>5 DEF TryRecv

\* The end of a ring of a batch: an empty one with the others of the pass is passed,
\* one that was emptied brings another pass.
LEMMA ConsumerNextDrain ==
  ASSUME IInv, TypeOK', NextDrain, ConsumerKeeps, UNCHANGED <<count, parked>>,
         batch, token[0] => token'[0],
         \/ cp = "scan" /\ count[i] = 0
         \/ cp = "wake"
  PROVE  ConsumerDone
<1>0. TypeOK /\ PlaceInv /\ ReceiverInv /\ EndInv /\ UNCHANGED <<sd, live, pp, send>>
  BY DEF IInv, ConsumerKeeps
<1>1. cp = "wake" => pass
  BY <1>0 DEF PlaceInv, Passing
<1>2. ended' = ended
  BY <1>0, NextDrainFacts
<1>3. ReceiverOwed => ReceiverOwed'
  BY <1>0, ReceiverOwedKept
<1>4. CASE i < M /\ cp' = "scan" /\ recv' = recv /\ i' = i + 1 /\ pass' = pass
  <2>1. PlaceInv'
    BY <1>0, <1>4 DEF PlaceInv, AtFirst, Held, Passing, batch
  <2>2. ASSUME NEW r \in Producers, Passed(r)', count[r] > 0 PROVE ReceiverOwed
    <3>1. parked[0] /\ ~pass /\ r < i + 1
      BY <1>4, <2>2 DEF Passed
    <3>2. cp = "scan" /\ count[i] = 0
      BY <1>1, <3>1
    <3>3. r # i
      BY <2>2, <3>2
    <3>4. Passed(r)
      BY <1>0, <3>1, <3>2, <3>3, RingsBefore DEF Passed
    <3>5. QED
      BY <1>0, <2>2, <3>4 DEF ReceiverInv
  <2>3. ReceiverInv'
    BY <1>3, <1>4, <2>2 DEF ReceiverInv
  <2>4. QED
    BY <1>0, <1>2, <1>4, <2>1, <2>3, EndFrame DEF ConsumerDone
<1>5. CASE i = M /\ pass /\ cp' = "scan" /\ recv' = recv /\ i' = 1 /\ ~pass'
  <2>1. ReceiverInv'
    BY <1>0, <1>5, RingsBefore DEF ReceiverInv, Passed
  <2>2. QED
    BY <1>0, <1>2, <1>5, <2>1, PlaceFirst, EndFrame DEF ConsumerDone
<1>6. CASE i = M /\ ~pass /\ cp' \in {"idle", "leave", "finShutdown"} /\ i' = 1 /\ ~pass'
  <2>1. ASSUME NEW r \in Producers, Passed(r)', count[r] > 0 PROVE ReceiverOwed
    <3>1. parked[0] /\ cp = "scan" /\ count[i] = 0
      BY <1>1, <1>6, <2>1 DEF Passed
    <3>2. r # i
      BY <2>1, <3>1
    <3>3. Passed(r)
      BY <1>0, <1>6, <3>1, <3>2, RingsBefore DEF Passed
    <3>4. QED
      BY <1>0, <2>1, <3>3 DEF ReceiverInv
  <2>2. ReceiverInv'
    BY <1>3, <1>6, <2>1 DEF ReceiverInv
  <2>3. QED
    BY <1>0, <1>2, <1>6, <2>2, PlaceFirst, EndFrame DEF ConsumerDone
<1>7. QED
  BY <1>0, <1>4, <1>5, <1>6, NextDrainFacts

\* try_recv_batch: a ring drained, or passed, or a callback that panics.
LEMMA ConsumerDrains ==
  ASSUME IInv, TypeOK', DrainRing \/ DrainCommit \/ DrainPanic
  PROVE  ConsumerDone
<1>0. TypeOK /\ PlaceInv /\ ReceiverInv /\ EndInv
  BY DEF IInv
<1>1. CASE DrainRing
  <2>1. ConsumerKeeps
    BY <1>1, ConsumerStill DEF DrainRing, gates
  <2>2. CASE stop' = count[i] /\ Goto("commit") /\ UNCHANGED <<i, pass, total>>
    <3>1. cp' = "commit" /\ ended' = ended /\ recv' = recv
      BY <1>0, <2>2, GotoFacts DEF ConsumerPoints
    <3>2. stop' <= count'[i']
      BY <1>0, <1>1, <2>2, Indices DEF DrainRing, TypeOK
    <3>3. PlaceInv'
      BY <1>0, <1>1, <2>2, <3>1, <3>2 DEF PlaceInv, AtFirst, Held, Passing, batch, DrainRing
    <3>4. QED
      BY <1>0, <2>1, <3>1, <3>3, ReceiverQuiet, EndFrame DEF ConsumerDone
  <2>3. CASE count[i] = 0 /\ NextDrain
    BY <1>1, <2>1, <2>3, ConsumerNextDrain DEF DrainRing, gates
  <2>4. QED
    BY <1>1, <2>2, <2>3 DEF DrainRing
<1>2. CASE DrainCommit
  <2>1. cp = "commit" /\ cp' = "wake" /\ ended' = ended /\ recv' = recv /\ pass' /\ i' = i
    BY <1>0, <1>2, GotoFacts DEF ConsumerPoints, DrainCommit, ConsumerAt
  <2>2. i \in Producers /\ count[i] \in 0..CAP /\ stop \in 0..CAP /\ CAP \in Nat
    BY <1>0, Indices DEF TypeOK
  <2>3. count'[i] = count[i] - stop /\ \A p \in Producers : p # i => count'[p] = count[p]
    BY <1>0, <1>2, <2>2 DEF DrainCommit, TypeOK
  <2>4. count'[i] = count[i] \/ count'[i] < count[i]
    BY <2>2, <2>3
  <2>5. ConsumerKeeps
    BY <1>2, <2>1, <2>3, <2>4 DEF ConsumerKeeps, DrainCommit, consElse, prod, gates
  <2>6. PlaceInv'
    BY <1>0, <2>1 DEF PlaceInv, AtFirst, Held, Passing, batch
  <2>7. QED
    BY <1>0, <2>1, <2>5, <2>6, ReceiverQuiet, EndFrame DEF ConsumerDone
<1>3. CASE DrainPanic
  <2>1. cp = "commit" /\ cp' = "gone" /\ ended' = ended /\ i' = 1 /\ ~pass'
    BY <1>0, <1>3, GotoFacts DEF ConsumerPoints, DrainPanic, ConsumerAt, FirstRing
  <2>2. PICK k \in 1..stop : count' = [count EXCEPT ![i] = @ - k]
    BY <1>3 DEF DrainPanic
  <2>3. i \in Producers /\ count[i] \in 0..CAP /\ stop \in 0..CAP /\ CAP \in Nat
    BY <1>0, Indices DEF TypeOK
  <2>4. count[i] - k < count[i]
    BY <2>2, <2>3
  <2>5. \A p \in Producers : count'[p] = count[p] \/ count'[p] < count[p]
    BY <1>0, <2>2, <2>3, <2>4 DEF TypeOK
  <2>6. \A p \in Producers : parked'[p] = parked[p] /\ token'[p] = token[p]
    BY <1>0, <1>3, OwnGate DEF DrainPanic, gates
  <2>7. ConsumerKeeps
    BY <1>3, <2>1, <2>5, <2>6 DEF ConsumerKeeps, DrainPanic, consElse, prod
  <2>8. QED
    BY <1>0, <2>1, <2>7, ConsumerQuiet DEF ConsumerDone
<1>4. QED
  BY <1>1, <1>2, <1>3

\* The wake of the producer whose ring was emptied.
LEMMA ConsumerWakes == ASSUME IInv, TypeOK', WakeProducer PROVE ConsumerDone
<1>0. TypeOK /\ PlaceInv /\ ReceiverInv /\ EndInv /\ cp = "wake"
  BY DEF IInv, WakeProducer
<1>1. i \in 0..M /\ 0 \in 0..M /\ \A p \in Producers : p \in 0..M
  BY <1>0, Indices DEF TypeOK
<1>2. (parked[i] => token'[i]) /\ \A v \in 0..M : token[v] => token'[v]
  BY <1>0, <1>1, GateFacts DEF WakeProducer
<1>3. ConsumerKeeps
  BY <1>0, <1>1, <1>2 DEF ConsumerKeeps, WakeProducer, consElse, prod
<1>4. CASE ~batch /\ Goto(Back) /\ FirstRing
  <2>1. PICK to \in {"idle", "leave"} : Goto(to)
    BY <1>4, Turns
  <2>2. cp' = to /\ ended' = ended /\ i' = 1 /\ ~pass'
    BY <1>0, <1>4, <2>1, GotoFacts DEF ConsumerPoints, FirstRing
  <2>3. QED
    BY <1>0, <1>3, <2>1, <2>2, ConsumerQuiet DEF ConsumerDone
<1>5. CASE batch /\ NextDrain
  BY <1>0, <1>1, <1>2, <1>3, <1>5, ConsumerNextDrain DEF WakeProducer
<1>6. QED
  BY <1>4, <1>5 DEF WakeProducer

\* The predicate of the wait: a ring with an item ends it, all of them empty leave
\* the flag and the count to look at.
LEMMA ConsumerLooks == ASSUME IInv, TypeOK', LookRing PROVE ConsumerDone
<1>0. TypeOK /\ PlaceInv /\ ReceiverInv /\ EndInv /\ cp = "look"
  BY DEF IInv, LookRing
<1>1. ConsumerKeeps
  BY <1>0, ConsumerStill DEF LookRing, gates
<1>2. parked[0] /\ ~pass /\ UNCHANGED <<count, gates, sd, pp>>
  BY <1>0 DEF ReceiverInv, PlaceInv, Passing, LookRing, consElse, prod
<1>3. CASE Goto("disarm") /\ FirstRing
  BY <1>0, <1>1, <1>3, GotoFacts, ConsumerQuiet DEF ConsumerPoints, FirstRing, ConsumerDone
<1>4. CASE count[i] = 0 /\ i = M /\ Goto("finShutdown") /\ FirstRing
  <2>1. cp' = "finShutdown" /\ ended' = ended /\ i' = 1 /\ ~pass'
    BY <1>0, <1>4, GotoFacts DEF ConsumerPoints, FirstRing
  <2>2. ReceiverInv'
    BY <1>0, <1>2, <1>4, <2>1, RingEmpty
  <2>3. QED
    BY <1>0, <1>1, <2>1, <2>2, PlaceFirst, EndFrame DEF ConsumerDone
<1>5. CASE count[i] = 0 /\ i < M /\ NextRing /\ UNCHANGED <<cp, recv, ended>>
  <2>1. ReceiverInv'
    BY <1>0, <1>2, <1>5, RingEmpty DEF NextRing
  <2>2. PlaceInv'
    BY <1>0, <1>2, <1>5 DEF PlaceInv, AtFirst, Held, Passing, NextRing
  <2>3. QED
    BY <1>0, <1>1, <1>5, <2>1, <2>2, EndFrame DEF ConsumerDone
<1>6. QED
  BY <1>3, <1>4, <1>5 DEF LookRing

\* is_finished: the flag, the count, and the rings once more.
LEMMA ConsumerFinishes ==
  ASSUME IInv, TypeOK', IsShutdown \/ AllProducersGone \/ FinishedScan
  PROVE  ConsumerDone
<1>0. /\ TypeOK /\ Counted /\ PlaceInv /\ ReceiverInv /\ EndInv
      /\ cp \in {"finShutdown", "finLive", "finScan"} /\ ~pass
      /\ UNCHANGED <<count, gates, live, sd, pp>>
  BY DEF IInv, IsShutdown, AllProducersGone, FinishedScan, PlaceInv, Passing, consElse, prod
<1>1. ConsumerKeeps
  BY <1>0, ConsumerStill
  DEF IsShutdown, AllProducersGone, FinishedScan, gates, consElse, prod
<1>2. ReceiverOwed => ReceiverOwed'
  BY <1>0, ReceiverOwedKept DEF gates
\* An answer: without a shutdown, nothing is left and nobody is there.
<1>3. ASSUME Finished, i' = 1, ~pass',
             Shutdown \/ \A p \in Producers : pp[p] \in {"lastWake", "gone"} /\ count[p] = 0
      PROVE  ConsumerDone
  <2>1. cp' \in {"disarm", "leave", "idle"}
    BY <1>0, <1>3, FinishedFacts
  <2>2. EndInv'
    BY <1>0, <1>3, <2>1 DEF EndInv, EndMeansDrained, Shutdown
  <2>3. QED
    BY <1>1, <1>3, <2>1, <2>2, ReceiverQuiet, PlaceFirst DEF ConsumerDone
\* No answer: the consumer announces its wait, or sleeps.
<1>4. ASSUME NotFinished, i' = 1, ~pass', cp \in {"finLive", "finScan"},
             live = 0 /\ parked[0] => ReceiverOwed
      PROVE  ConsumerDone
  <2>1. ended' = ended /\ IF parked[0] THEN cp' = "sleep" ELSE cp' = "arm"
    BY <1>0, <1>4, NotFinishedFacts
  <2>2. CASE cp' = "arm"
    BY <1>0, <1>1, <1>4, <2>1, <2>2, ConsumerQuiet DEF ConsumerDone
  <2>3. CASE cp' = "sleep" /\ parked[0]
    <3>1. \A r \in Producers : Passed(r)
      BY <1>4, <2>3 DEF Passed
    <3>2. \A r \in Producers : count'[r] > 0 => ReceiverOwed'
      BY <1>0, <1>2, <3>1 DEF ReceiverInv
    <3>3. parked'[0] /\ (Shutdown' => ReceiverOwed')
      BY <1>0, <1>2, <1>4, <2>3 DEF ReceiverInv, Shutdown, gates
    <3>4. live' = 0 => ReceiverOwed'
      BY <1>0, <1>2, <1>4, <2>3
    <3>5. ReceiverInv'
      BY <2>3, <3>2, <3>3, <3>4 DEF ReceiverInv
    <3>6. QED
      BY <1>0, <1>1, <1>4, <2>1, <2>3, <3>5, PlaceFirst, EndFrame DEF ConsumerDone
  <2>4. QED
    BY <2>1, <2>2, <2>3
<1>5. CASE IsShutdown
  <2>0. cp = "finShutdown" /\ UNCHANGED <<i, pass>> /\ i = 1
    BY <1>0, <1>5 DEF IsShutdown, scan, PlaceInv, AtFirst
  <2>1. CASE Shutdown /\ Finished
    BY <1>0, <1>3, <2>0, <2>1
  <2>2. CASE ~Shutdown /\ Goto("finLive")
    <3>1. cp' = "finLive" /\ ended' = ended
      BY <1>0, <2>2, GotoFacts DEF ConsumerPoints
    <3>2. \A r \in Producers : Passed(r)' => Passed(r)
      BY <1>0, <2>0, <3>1 DEF Passed, gates
    <3>3. ReceiverInv'
      BY <1>0, <1>2, <2>2, <3>1, <3>2 DEF ReceiverInv, Shutdown
    <3>4. QED
      BY <1>0, <1>1, <2>0, <3>1, <3>3, PlaceFirst, EndFrame DEF ConsumerDone
  <2>3. QED
    BY <1>5, <2>1, <2>2 DEF IsShutdown
<1>6. CASE AllProducersGone
  <2>0. cp = "finLive" /\ UNCHANGED <<i, pass>> /\ i = 1
    BY <1>0, <1>6 DEF AllProducersGone, scan, PlaceInv, AtFirst
  <2>1. CASE live = 0 /\ Goto("finScan")
    <3>1. cp' = "finScan" /\ ended' = ended
      BY <1>0, <2>1, GotoFacts DEF ConsumerPoints
    <3>2. \A r \in Producers : Passed(r)' => Passed(r)
      BY <1>0, <2>0, <3>1 DEF Passed, gates
    <3>3. ReceiverInv'
      BY <1>0, <1>2, <2>0, <3>1, <3>2 DEF ReceiverInv, Shutdown, gates
    <3>4. \A r \in Producers : ~(r < i')
      BY <1>0, <2>0, RingsBefore
    <3>5. EndInv'
      BY <1>0, <2>1, <3>1, <3>4 DEF EndInv, EndMeansDrained, Shutdown
    <3>6. QED
      BY <1>0, <1>1, <2>0, <3>1, <3>3, <3>5, PlaceFirst DEF ConsumerDone
  <2>2. CASE live > 0 /\ NotFinished
    <3>1. live # 0
      BY <1>0, <2>2, Indices DEF TypeOK
    <3>2. QED
      BY <1>0, <1>4, <2>0, <2>2, <3>1
  <2>3. QED
    BY <1>6, <2>1, <2>2 DEF AllProducersGone
<1>7. CASE FinishedScan
  <2>0. cp = "finScan" /\ live = 0 /\ \A r \in Producers : r < i => count[r] = 0
    BY <1>0, <1>7 DEF FinishedScan, EndInv
  <2>1. CASE count[i] > 0 /\ NotFinished /\ FirstRing
    <3>1. parked[0] => ReceiverOwed
      BY <1>0, <2>0, <2>1 DEF ReceiverInv, Passed, TypeOK
    <3>2. QED
      BY <1>4, <2>0, <2>1, <3>1 DEF FirstRing
  <2>2. CASE count[i] = 0 /\ i = M /\ Finished /\ FirstRing
    <3>1. \A r \in Producers : count[r] = 0
      BY <1>0, <2>0, <2>2, RingsBefore
    <3>2. \A r \in Producers : pp[r] \in {"lastWake", "gone"}
      BY <1>0, <2>0, SomeoneLive
    <3>3. QED
      BY <1>3, <2>2, <3>1, <3>2 DEF FirstRing
  <2>3. CASE count[i] = 0 /\ i < M /\ NextRing /\ UNCHANGED <<cp, recv, ended>>
    <3>1. PlaceInv'
      BY <1>0, <2>0, <2>3 DEF PlaceInv, AtFirst, Held, Passing, NextRing
    <3>2. \A r \in Producers : Passed(r)' => Passed(r)
      BY <1>0, <2>0, <2>3 DEF Passed, gates
    <3>3. ReceiverInv'
      BY <1>0, <1>2, <2>0, <2>3, <3>2 DEF ReceiverInv, Shutdown, gates
    <3>4. \A r \in Producers : r < i' => count'[r] = 0
      BY <1>0, <2>0, <2>3, RingsBefore DEF NextRing
    <3>5. EndInv'
      BY <1>0, <2>0, <2>3, <3>4 DEF EndInv, EndMeansDrained, Shutdown
    <3>6. QED
      BY <1>1, <3>1, <3>3, <3>5 DEF ConsumerDone
  <2>4. QED
    BY <1>7, <2>1, <2>2, <2>3 DEF FinishedScan
<1>8. QED
  BY <1>5, <1>6, <1>7

-----------------------------------------------------------------------------
(* The signal, and every step.                                             *)

\* The signal owes every waiter a wake until it has given it.
LEMMA SignalSteps ==
  ASSUME IInv, TypeOK', Signal \/ SignalWake
  PROVE  IInv'
<1>0. /\ TypeOK /\ Counted /\ PlaceInv /\ SenderInv /\ ReceiverInv /\ EndInv
      /\ UNCHANGED <<count, live, parked, prod, cons>>
  BY DEF IInv, Signal, SignalWake, gates
<1>1. UNCHANGED <<pp, send, cp, recv, i, stop, pass, ended>>
  BY <1>0 DEF prod, cons, scan
<1>2. sd \in -1 .. M + 1 /\ M \in Nat
  BY <1>0, Indices DEF TypeOK
<1>3. Shutdown'
  BY <1>2 DEF Signal, SignalWake, Shutdown
<1>4. ASSUME NEW w \in 0..M, parked[w], ~Shutdown \/ token[w] \/ sd \in 0..w
      PROVE  token'[w] \/ sd' \in 0..w
  <2>1. CASE Signal
    BY <2>1 DEF Signal
  <2>2. CASE SignalWake
    <3>1. sd \in 0..M /\ sd' = sd + 1 /\ Wake(sd)
      BY <2>2 DEF SignalWake
    <3>2. token[w] => token'[w]
      BY <1>0, <3>1, GateFacts
    <3>3. sd = w => token'[w]
      BY <1>0, <1>4, <3>1, GateFacts
    <3>4. sd \in 0..w /\ sd # w => sd' \in 0..w
      BY <3>1
    <3>5. Shutdown
      BY <3>1 DEF Shutdown
    <3>6. QED
      BY <1>4, <3>2, <3>3, <3>4, <3>5
  <2>3. QED
    BY <2>1, <2>2
<1>5. Counted' /\ PlaceInv'
  BY <1>0, <1>1, CountedConsumer DEF PlaceInv, AtFirst, Held, Passing, batch
<1>6. ASSUME NEW q \in Producers PROVE SenderAt(q)'
  <2>1. SenderAt(q) /\ q \in 0..M
    BY <1>0, Indices DEF SenderInv
  <2>2. Announced(q)' = Announced(q) /\ Committed(q)' = Committed(q)
    BY <1>1 DEF Announced, Committed
  <2>3. Committed(q) => parked[q]
    BY <2>1 DEF SenderAt, Announced, Committed
  <2>4. parked[q] /\ (~Shutdown \/ SenderOwed(q)) => SenderOwed(q)'
    BY <1>1, <1>4, <2>1 DEF SenderOwed
  <2>5. pp[q] = "sleep" => Committed(q)
    BY DEF Committed
  <2>6. Committed(q) => SenderOwed(q)'
    BY <2>1, <2>3, <2>4 DEF SenderAt
  <2>7. QED
    BY <1>0, <1>1, <2>1, <2>2, <2>5, <2>6 DEF SenderAt
<1>7. ReceiverInv'
  <2>1. parked[0] /\ (~Shutdown \/ ReceiverOwed) => ReceiverOwed'
    <3>1. 0 \in 0..M /\ (sd = 0 => sd \in 0..0) /\ (sd' \in 0..0 => sd' = 0)
      BY Indices
    <3>2. QED
      BY <1>1, <1>4, <3>1 DEF ReceiverOwed
  <2>2. \A r \in Producers : Passed(r)' = Passed(r)
    BY <1>0, <1>1 DEF Passed
  <2>3. \A r \in Producers : Passed(r) => parked[0]
    BY <1>0 DEF Passed, ReceiverInv
  <2>4. \A r \in Producers : Passed(r)' /\ count'[r] > 0 => ReceiverOwed'
    BY <1>0, <2>1, <2>2, <2>3 DEF ReceiverInv
  <2>5. (cp \in {"finLive", "finScan"} /\ parked[0]) \/ cp = "sleep" => ReceiverOwed'
    BY <1>0, <2>1 DEF ReceiverInv
  <2>6. QED
    BY <1>0, <1>1, <2>4, <2>5 DEF ReceiverInv
<1>8. EndInv'
  BY <1>0, <1>1, <1>3 DEF EndInv, EndMeansDrained
<1>9. QED
  BY <1>5, <1>6, <1>7, <1>8 DEF IInv, SenderInv

\* A producer's step.
LEMMA ProducerSteps ==
  ASSUME IInv, TypeOK', NEW p \in Producers, ProducerActs(p)
  PROVE  IInv'
<1>1. ProducerKeeps(p) /\ TypeOK /\ Counted /\ PlaceInv /\ SenderInv /\ ReceiverInv /\ EndInv
  BY ProducerFacts DEF IInv
<1>2. \A q \in Producers : SenderAt(q)'
  BY <1>1, SenderOwn, SenderOthers DEF SenderInv
<1>3. Counted' /\ PlaceInv' /\ ReceiverInv' /\ EndInv'
  BY <1>1, CountedProducer, PlaceProducer, ReceiverProducer, EndProducer
<1>4. QED
  BY <1>2, <1>3 DEF IInv, SenderInv

ConsumerActs ==
  \/ \E op \in RECVS : StartRecv(op)
  \/ ConsumerStep \/ ConsumerCancel \/ ConsumerDrop \/ DrainPanic

\* The consumer's.
LEMMA ConsumerSteps ==
  ASSUME IInv, TypeOK', ConsumerActs
  PROVE  IInv'
<1>1. ConsumerDone
  BY ConsumerEnds, ConsumerWaits, ConsumerTries, ConsumerDrains, ConsumerWakes,
     ConsumerLooks, ConsumerFinishes DEF ConsumerActs, ConsumerStep
<1>2. TypeOK /\ Counted /\ SenderInv
  BY DEF IInv
<1>3. SenderInv'
  BY <1>1, <1>2, SenderConsumer DEF SenderInv, ConsumerDone
<1>4. Counted'
  BY <1>1, <1>2, CountedConsumer DEF ConsumerDone, ConsumerKeeps
<1>5. QED
  BY <1>1, <1>3, <1>4 DEF IInv, ConsumerDone

\* A step of anything else.
LEMMA Stutter == IInv /\ UNCHANGED vars => IInv'
<1> SUFFICES ASSUME IInv, UNCHANGED vars PROVE IInv'
  OBVIOUS
<1> USE DEF vars, gates, prod, cons, scan
<1>1. TypeOK' /\ Counted' /\ PlaceInv'
  BY CountedConsumer DEF IInv, TypeOK, PlaceInv, AtFirst, Held, Passing, batch
<1>2. SenderInv'
  BY DEF IInv, SenderInv, SenderAt, Announced, Committed, SenderOwed, Shutdown
<1>3. ReceiverInv'
  BY DEF IInv, ReceiverInv, ReceiverOwed, Passed, Shutdown
<1>4. EndInv'
  BY DEF IInv, EndInv, EndMeansDrained, Shutdown
<1>5. QED
  BY <1>1, <1>2, <1>3, <1>4 DEF IInv

\* What a sender or a receiver on its way to sleep is owed, the place of the scan
\* and the count of producers hold together.
THEOREM MpscInductive == Spec => []IInv
<1>1. IInv /\ [Next]_vars => IInv'
  <2> SUFFICES ASSUME IInv, [Next]_vars PROVE IInv'
    OBVIOUS
  <2>1. TypeOK'
    BY StepType
  <2>2. ASSUME NEW p \in Producers, ProducerActs(p) PROVE IInv'
    BY <2>1, <2>2, ProducerSteps
  <2>3. CASE Signal \/ SignalWake
    BY <2>1, <2>3, SignalSteps
  <2>4. CASE ConsumerActs
    BY <2>1, <2>4, ConsumerSteps
  <2>5. CASE UNCHANGED vars
    BY <2>5, Stutter
  <2>6. QED
    BY <2>2, <2>3, <2>4, <2>5 DEF Next, ProducerActs, ConsumerActs
<1>2. QED
  BY <1>1, InitInv, PTL DEF Spec

\* Every variable keeps to its range, the rings to their capacity and the count of
\* live producers to their number.
THEOREM MpscTypeOK == Spec => []TypeOK
<1>1. IInv => TypeOK
  BY DEF IInv
<1>2. QED
  BY <1>1, MpscInductive, PTL

\* R2 and the order of signal: no producer sleeps unowed on a ring with room, or
\* after the signal, unless the consumer is gone.
THEOREM MpscSenderOwedWake == Spec => []SenderOwedWake
<1>1. IInv => SenderOwedWake
  BY DEF IInv, SenderInv, SenderAt, Committed, SenderOwed, SenderOwedWake
<1>2. QED
  BY <1>1, MpscInductive, PTL

\* R1, Drop for MpscProducer and signal: the consumer, which scans the rings one by
\* one while any producer runs, does not sleep unowed on an item, on the end of the
\* last producer or on the signal.
THEOREM MpscReceiverOwedWake == Spec => []ReceiverOwedWake
<1>1. IInv => ReceiverOwedWake
  BY DEF IInv, ReceiverInv, Passed, ReceiverOwed, ReceiverOwedWake
<1>2. QED
  BY <1>1, MpscInductive, PTL

\* is_finished: without a shutdown a receive ends the channel only when every
\* producer is gone and every ring empty, though the count and the rings are read
\* one after the other while producers run.
THEOREM MpscEndMeansDrained == Spec => []EndMeansDrained
<1>1. IInv => EndMeansDrained
  BY DEF IInv, EndInv
<1>2. QED
  BY <1>1, MpscInductive, PTL

=============================================================================
