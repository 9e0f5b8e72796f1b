----------------------------- MODULE PoolProofs -----------------------------
(***************************************************************************)
(* Proofs about ProducerPool, for every number of callers, producers and   *)
(* bits in a word.  The exclusion of LeaseExclusive is inductive only with *)
(* the bit that stands for it: who owns a cell has its bit set, and a bit  *)
(* is won only while clear.                                                *)
(***************************************************************************)
EXTENDS ProducerPool, TLAPS

\* A caller that owns a cell has set its bit and not yet cleared it.
BitHeld == \A c \in Callers : pc[c] \in Owning => slot[c] \in occupancy

Inv == TypeOK /\ BitHeld /\ LeaseExclusive /\ CellsAccounted

\* There is a first word and a first slot.
LEMMA WordZero == 0 \in Words /\ 0 \in Slots
BY PoolAssumption, SMT DEF Words, Slots

\* The pool starts with every producer in its cell and every bit clear.
LEMMA PoolInit == Init => Inv
BY WordZero DEF Init, Inv, TypeOK, BitHeld, LeaseExclusive, CellsAccounted, Owner, Owning

\* One caller's step, whatever the others are doing, keeps the invariant.
LEMMA PoolStep == Inv /\ [Next]_vars => Inv'
<1> SUFFICES ASSUME Inv, [Next]_vars PROVE Inv'
  OBVIOUS
<1> USE DEF Inv
<1>1. ASSUME NEW c \in Callers, Acquire(c) PROVE Inv'
  BY <1>1, WordZero
  DEF Acquire, At, TypeOK, BitHeld, LeaseExclusive, CellsAccounted, Owner, Owning
<1>2. ASSUME NEW c \in Callers, Load(c) PROVE Inv'
  <2>1. TypeOK'
    BY <1>2 DEF Load, At, InWord, TypeOK, Owning
  <2>2. \A d \in Callers : (pc'[d] \in Owning <=> pc[d] \in Owning)
                        /\ (pc'[d] = "leased" <=> pc[d] = "leased")
                        /\ (pc[d] \in Owning => slot'[d] = slot[d])
    BY <1>2 DEF Load, At, TypeOK, Owning
  <2>3. QED
    BY <1>2, <2>1, <2>2
    DEF Load, BitHeld, LeaseExclusive, CellsAccounted, Owner, Owning
<1>3. ASSUME NEW c \in Callers, FetchOr(c) PROVE Inv'
  <2>1. TypeOK'
    BY <1>3 DEF FetchOr, At, TypeOK, Owning
  <2>2. BitHeld'
    BY <1>3 DEF FetchOr, At, TypeOK, BitHeld, Owning
  <2>3. LeaseExclusive'
    \* The winner found the bit clear, so BitHeld says nobody owned the cell.
    BY <1>3 DEF FetchOr, At, TypeOK, BitHeld, LeaseExclusive, Owner, Owning
  <2>4. CellsAccounted'
    BY <1>3 DEF FetchOr, At, TypeOK, CellsAccounted, Owning
  <2>5. QED
    BY <2>1, <2>2, <2>3, <2>4
<1>4. ASSUME NEW c \in Callers, Take(c) PROVE Inv'
  <2>1. TypeOK' /\ BitHeld' /\ LeaseExclusive'
    BY <1>4 DEF Take, At, TypeOK, BitHeld, LeaseExclusive, Owner, Owning
  <2>2. CellsAccounted'
    BY <1>4 DEF Take, At, TypeOK, LeaseExclusive, CellsAccounted, Owner, Owning
  <2>3. QED
    BY <2>1, <2>2
<1>5. ASSUME NEW c \in Callers, None(c) PROVE Inv'
  BY <1>5 DEF None, At, TypeOK, BitHeld, LeaseExclusive, CellsAccounted, Owner, Owning
<1>6. ASSUME NEW c \in Callers, Return(c) PROVE Inv'
  <2>1. TypeOK' /\ BitHeld' /\ LeaseExclusive'
    BY <1>6 DEF Return, At, TypeOK, BitHeld, LeaseExclusive, Owner, Owning
  <2>2. CellsAccounted'
    BY <1>6 DEF Return, At, TypeOK, LeaseExclusive, CellsAccounted, Owner, Owning
  <2>3. QED
    BY <2>1, <2>2
<1>7. ASSUME NEW c \in Callers, FetchAnd(c) PROVE Inv'
  <2>1. TypeOK' /\ LeaseExclusive' /\ CellsAccounted'
    BY <1>7 DEF FetchAnd, At, TypeOK, LeaseExclusive, CellsAccounted, Owner, Owning
  <2>2. BitHeld'
    \* The bit that goes was this caller's alone.
    BY <1>7 DEF FetchAnd, At, TypeOK, BitHeld, LeaseExclusive, Owner, Owning
  <2>3. QED
    BY <2>1, <2>2
<1>8. CASE UNCHANGED vars
  BY <1>8 DEF vars, TypeOK, BitHeld, LeaseExclusive, CellsAccounted, Owner, Owning
<1>9. QED
  BY <1>1, <1>2, <1>3, <1>4, <1>5, <1>6, <1>7, <1>8 DEF Next

\* Holding the bit is holding the cell: two leases never share a producer.
THEOREM PoolLeaseExclusive == Spec => []LeaseExclusive
<1>1. Inv => LeaseExclusive
  BY DEF Inv
<1>2. QED
  BY PoolInit, PoolStep, <1>1, PTL DEF Spec

\* No producer is lost or handed out twice, so the unwrap in acquire never
\* meets an empty cell.
THEOREM PoolCellsAccounted == Spec => []CellsAccounted
<1>1. Inv => CellsAccounted
  BY DEF Inv
<1>2. QED
  BY PoolInit, PoolStep, <1>1, PTL DEF Spec

\* The pool's variables keep their types.
THEOREM PoolTypeOK == Spec => []TypeOK
<1>1. Inv => TypeOK
  BY DEF Inv
<1>2. QED
  BY PoolInit, PoolStep, <1>1, PTL DEF Spec

-----------------------------------------------------------------------------
(* Pools of one word.                                                      *)

\* A caller looks at the only word there is, and full has missed no moment at which
\* every slot was held.
FullSeen ==
  /\ \A c \in Callers : pc[c] # "idle" /\ occupancy = Slots => full[c]
  /\ NoneWhenFull

\* A pool no larger than a word has no other.
LEMMA OneWord ==
  ASSUME m <= BITS
  PROVE  Words = {0} /\ InWord(0) = Slots
<1>1. \A x \in Slots : x \div BITS = 0
  BY PoolAssumption DEF Slots
<1>2. (m - 1) \div BITS = 0
  BY PoolAssumption
<1>3. QED
  BY <1>1, <1>2 DEF Words, InWord

\* None is returned after a look at the whole bitmap at once.
LEMMA FullStep ==
  ASSUME m <= BITS, TypeOK, FullSeen, [Next]_vars
  PROVE  FullSeen'
<1> USE DEF FullSeen, NoneWhenFull, At, TypeOK
<1>1. ASSUME NEW c \in Callers, Acquire(c) PROVE FullSeen'
  BY <1>1 DEF Acquire
<1>2. ASSUME NEW c \in Callers, Load(c) PROVE FullSeen'
  <2>1. word[c] = 0 /\ InWord(word[c]) = Slots
    BY OneWord
  <2>2. pc[c] = "load" /\ UNCHANGED <<occupancy, full>>
    BY <1>2 DEF Load
  <2>3. pc'[c] = "none" => full[c]
    BY <1>2, <2>1, <2>2 DEF Load
  <2>4. \A d \in Callers : d # c => pc'[d] = pc[d]
    BY <1>2 DEF Load
  <2>5. QED
    BY <2>2, <2>3, <2>4
<1>3. ASSUME NEW c \in Callers, FetchOr(c) PROVE FullSeen'
  <2>1. \A d \in Callers : full'[d] = (full[d] \/ occupancy' = Slots)
    BY <1>3 DEF FetchOr
  <2>2. \A d \in Callers : pc'[d] = "none" => pc[d] = "none"
    BY <1>3 DEF FetchOr
  <2>3. QED
    BY <2>1, <2>2
<1>4. ASSUME NEW c \in Callers, Take(c) \/ Return(c) PROVE FullSeen'
  BY <1>4 DEF Take, Return
<1>5. ASSUME NEW c \in Callers, None(c) PROVE FullSeen'
  BY <1>5 DEF None
<1>6. ASSUME NEW c \in Callers, FetchAnd(c) PROVE FullSeen'
  <2>1. slot[c] \in Slots /\ occupancy' # Slots
    BY <1>6 DEF FetchAnd
  <2>2. \A d \in Callers : pc'[d] = "none" => pc[d] = "none" /\ full'[d] = full[d]
    BY <1>6 DEF FetchAnd
  <2>3. QED
    BY <2>1, <2>2
<1>7. CASE UNCHANGED vars
  BY <1>7 DEF vars
<1>8. QED
  BY <1>1, <1>2, <1>3, <1>4, <1>5, <1>6, <1>7 DEF Next

\* acquire "returns None iff every slot is currently held": false of pools with more
\* words than one (the run pool_none), true of those of up to BITS producers.
THEOREM PoolNoneWhenFull == ASSUME m <= BITS PROVE Spec => []NoneWhenFull
<1>1. Init => FullSeen
  BY DEF Init, FullSeen, NoneWhenFull
<1>2. Inv => TypeOK
  BY DEF Inv
<1>3. TypeOK /\ FullSeen /\ [Next]_vars => FullSeen'
  BY FullStep
<1>4. FullSeen => NoneWhenFull
  BY DEF FullSeen
<1>5. QED
  BY PoolInit, PoolStep, <1>1, <1>2, <1>3, <1>4, PTL DEF Spec

=============================================================================
