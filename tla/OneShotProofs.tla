---------------------------- MODULE OneShotProofs ----------------------------
(***************************************************************************)
(* Proofs about the reply slot, for every set of polling threads.  The     *)
(* counts of ValueExactlyOnce say where the value went; the invariant adds *)
(* where it is meanwhile: with the sender, in the slot, or with the one    *)
(* thread whose exchange of the state to TAKEN succeeded.                  *)
(***************************************************************************)
EXTENDS OneShot, TLAPS

\* The sender has neither published nor closed.
Early == sp \in {"idle", "check", "write", "publish", "close"}

\* What the places of the two halves and of the polls say.
PlaceInv ==
  /\ inFlight <=> sp \in {"check", "write"}
  /\ state = "RX_DROPPED" => rp = "done"
  /\ rp \in {"disarm", "final"} => state # "EMPTY"
  /\ rp # "idle" => \A p \in Pollers : poll[p] = "idle"
  /\ freed => sp = "done" /\ rp = "done"
  /\ Early => state \in {"EMPTY", "RX_DROPPED"}
  /\ ~Early => state # "EMPTY"

\* What each value of the state says of the slot and of the counts.
SlotInv ==
  /\ state \in {"EMPTY", "RX_DROPPED", "CLOSED"} =>
       taken = 0 /\ slot = IF sp = "publish" THEN "value" ELSE "uninit"
  /\ state \in {"EMPTY", "CLOSED"} \/ (state = "RX_DROPPED" /\ sp # "done") => dropped = 0
  /\ state = "FULL" =>
       /\ taken = 0
       /\ freed  => slot = "moved" /\ dropped = 1
       /\ ~freed => slot = "value" /\ dropped = 0
  /\ state = "TAKEN" =>
       dropped = 0 /\ slot = IF taken = 0 THEN "value" ELSE "moved"

\* Between TAKEN and the read of the slot exactly one thread has the value.
ReaderInv ==
  /\ \A p \in Pollers : poll[p] = "read" =>
       /\ state = "TAKEN" /\ taken = 0
       /\ \A q \in Pollers : poll[q] = "read" => q = p
  /\ rp = "read" => state = "TAKEN" /\ taken = 0
  /\ state = "TAKEN" /\ taken = 0 =>
       rp = "read" \/ \E p \in Pollers : poll[p] = "read"

IInv == TypeOK /\ PlaceInv /\ SlotInv /\ ReaderInv /\ ClosedIsFinal

-----------------------------------------------------------------------------
\* A new pair: nothing was sent, nobody reads.
LEMMA OneShotInit == Init => IInv
<1> SUFFICES ASSUME Init PROVE IInv
  OBVIOUS
<1>1. TypeOK
  <2>1. taken \in 0..1 /\ dropped \in 0..1
    BY DEF Init
  <2>2. QED
    BY <2>1 DEF Init, TypeOK, State
<1>2. PlaceInv /\ SlotInv /\ ReaderInv /\ ClosedIsFinal
  BY DEF Init, PlaceInv, Early, SlotInv, ReaderInv, ClosedIsFinal
<1>3. QED
  BY <1>1, <1>2 DEF IInv

\* Every step of the sender, of a poll, of the receiver and of the last Drop.
LEMMA OneShotStep == IInv /\ [Next]_vars => IInv'
<1> SUFFICES ASSUME IInv, [Next]_vars PROVE IInv'
  OBVIOUS
<1> USE DEF IInv, TypeOK, State, PlaceInv, Early, SlotInv, ReaderInv, ClosedIsFinal, gate
<1>1. CASE Send
  BY <1>1 DEF Send, SenderAt
<1>2. CASE SenderDrop
  BY <1>2 DEF SenderDrop, SenderAt
<1>3. CASE SendCheck
  <2>1. TypeOK'
    <3>1. dropped' \in 0..1  \* nobody else has had the value
      BY <1>3 DEF SendCheck, SenderAt
    <3>2. inFlight' \in BOOLEAN /\ sp' \in {"done", "write"}
      BY <1>3 DEF SendCheck, SenderAt
    <3>3. QED
      BY <1>3, <3>1, <3>2 DEF SendCheck
  <2>2. PlaceInv' /\ SlotInv'
    BY <1>3 DEF SendCheck, SenderAt
  <2>3. ReaderInv' /\ ClosedIsFinal'
    BY <1>3 DEF SendCheck, SenderAt
  <2>4. QED
    BY <2>1, <2>2, <2>3
<1>4. CASE SendWrite
  <2>1. TypeOK'
    BY <1>4 DEF SendWrite, SenderAt
  <2>2. PlaceInv' /\ SlotInv'
    BY <1>4 DEF SendWrite, SenderAt
  <2>3. ReaderInv' /\ ClosedIsFinal'
    BY <1>4 DEF SendWrite, SenderAt
  <2>4. QED
    BY <2>1, <2>2, <2>3
<1>5. CASE SendPublish
  BY <1>5 DEF SendPublish, SenderAt
<1>6. CASE SenderClose
  BY <1>6 DEF SenderClose, SenderAt
<1>7. CASE SenderWake
  BY <1>7 DEF SenderWake, SenderAt
<1>8. ASSUME NEW p \in Pollers, StartPoll(p) PROVE IInv'
  BY <1>8 DEF StartPoll
<1>9. ASSUME NEW p \in Pollers, PollTake(p) PROVE IInv'
  BY <1>9 DEF PollTake
<1>10. ASSUME NEW p \in Pollers, PollRead(p) PROVE IInv'
  BY <1>10 DEF PollRead, MoveOut
<1>11. ASSUME NEW to \in {"take", "drop"}, Consume(to) PROVE IInv'
  BY <1>11 DEF Consume, ReceiverAt
<1>12. CASE RecvTake("take")
  BY <1>12 DEF RecvTake
<1>13. CASE RecvTake("final")
  BY <1>13 DEF RecvTake
<1>14. CASE RecvRead
  BY <1>14 DEF RecvRead, MoveOut, ReceiverAt
<1>15. CASE RecvArm
  BY <1>15 DEF RecvArm, ReceiverAt
<1>16. CASE RecvLook
  BY <1>16 DEF RecvLook, ReceiverAt
<1>17. CASE RecvWoken
  <2>1. TypeOK'
    BY <1>17 DEF RecvWoken, ReceiverAt
  <2>2. PlaceInv' /\ SlotInv'
    BY <1>17 DEF RecvWoken, ReceiverAt
  <2>3. ReaderInv' /\ ClosedIsFinal'
    BY <1>17 DEF RecvWoken, ReceiverAt
  <2>4. QED
    BY <2>1, <2>2, <2>3
<1>18. CASE RecvDisarm
  <2>1. TypeOK'
    BY <1>18 DEF RecvDisarm, ReceiverAt
  <2>2. PlaceInv' /\ SlotInv'
    BY <1>18 DEF RecvDisarm, ReceiverAt
  <2>3. ReaderInv' /\ ClosedIsFinal'
    BY <1>18 DEF RecvDisarm, ReceiverAt
  <2>4. QED
    BY <2>1, <2>2, <2>3
<1>19. CASE RecvCancel
  <2>1. TypeOK'
    BY <1>19 DEF RecvCancel, ReceiverAt
  <2>2. PlaceInv' /\ SlotInv'
    BY <1>19 DEF RecvCancel, ReceiverAt
  <2>3. ReaderInv' /\ ClosedIsFinal'
    BY <1>19 DEF RecvCancel, ReceiverAt
  <2>4. QED
    BY <2>1, <2>2, <2>3
<1>20. CASE ReceiverDrop
  BY <1>20 DEF ReceiverDrop, ReceiverAt
<1>21. CASE DropInner
  BY <1>21 DEF DropInner
<1>22. CASE UNCHANGED vars
  BY <1>22 DEF vars
<1>23. QED
  BY <1>1, <1>2, <1>3, <1>4, <1>5, <1>6, <1>7, <1>8, <1>9, <1>10, <1>11, <1>12, <1>13,
    <1>14, <1>15, <1>16, <1>17, <1>18, <1>19, <1>20, <1>21, <1>22
    DEF Next, SenderStep, ReceiverStep

\* The invariant holds in every reachable state.
THEOREM OneShotInductive == Spec => []IInv
  BY OneShotInit, OneShotStep, PTL DEF Spec

\* The counts never pass one, and the slot and the places keep their types.
THEOREM OneShotTypeOK == Spec => []TypeOK
<1>1. IInv => TypeOK
  BY DEF IInv
<1>2. QED
  BY <1>1, OneShotInductive, PTL

\* The value is handed out or destroyed, once, however send, the polls, the
\* consuming receive and the two Drops interleave.
THEOREM OneShotValueExactlyOnce == Spec => []ValueExactlyOnce
<1>1. IInv => ValueExactlyOnce
  BY DEF IInv, TypeOK, State, PlaceInv, Early, SlotInv, ReaderInv, ValueExactlyOnce
<1>2. QED
  BY <1>1, OneShotInductive, PTL

\* Closed is the last word, and the unwrap after the wait of recv never panics.
THEOREM OneShotClosedIsFinal == Spec => []ClosedIsFinal
<1>1. IInv => ClosedIsFinal
  BY DEF IInv
<1>2. QED
  BY <1>1, OneShotInductive, PTL
=============================================================================
