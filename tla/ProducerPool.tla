---------------------------- MODULE ProducerPool ----------------------------
(***************************************************************************)
(* The lease pool of route/mpsc.rs: Mpsc producers handed out and returned *)
(* under an occupancy bitmap of several words, each word updated by        *)
(* fetch_or and fetch_and, the producer itself kept in a plain cell.       *)
(*                                                                         *)
(* A caller asks for one lease at a time; a thread that holds several      *)
(* stands for as many callers.  A load of a word, an RMW and an access to  *)
(* a cell are steps.                                                       *)
(***************************************************************************)
EXTENDS Integers

CONSTANTS
  Callers,
  m,     \* producers in the pool
  BITS   \* bits of a word (64 in the code)

ASSUME PoolAssumption == m \in Nat \ {0} /\ BITS \in Nat \ {0}

VARIABLES
  occupancy,  \* slots whose bit is set
  slots,      \* slots whose cell is Some
  pc, word, slot,
  full        \* has the pool been seen full since the caller's call?

vars == <<occupancy, slots, pc, word, slot, full>>

Slots    == 0 .. m - 1
Words    == 0 .. (m - 1) \div BITS
InWord(w) == {s \in Slots : s \div BITS = w}

\* Where a caller owns the cell of its slot.
Owning == {"take", "leased", "clear"}
Owner(c, s) == pc[c] \in Owning /\ slot[c] = s

TypeOK ==
  /\ occupancy \subseteq Slots /\ slots \subseteq Slots
  /\ pc \in [Callers -> {"idle", "load", "claim", "none"} \cup Owning]
  /\ word \in [Callers -> Words]
  /\ slot \in [Callers -> Slots]
  /\ full \in [Callers -> BOOLEAN]

Init ==
  /\ occupancy = {} /\ slots = Slots
  /\ pc = [c \in Callers |-> "idle"]
  /\ word = [c \in Callers |-> 0] /\ slot = [c \in Callers |-> 0]
  /\ full = [c \in Callers |-> FALSE]

At(c, from, to) == pc[c] = from /\ pc' = [pc EXCEPT ![c] = to]

Acquire(c) ==
  /\ At(c, "idle", "load")
  /\ word' = [word EXCEPT ![c] = 0]
  /\ full' = [full EXCEPT ![c] = occupancy = Slots]
  /\ UNCHANGED <<occupancy, slots, slot>>

\* Mutant: the search goes on past the last word.
Load_AnyWord(c) ==
  /\ \/ \E s \in InWord(word[c]) \ occupancy :
          /\ At(c, "load", "claim")
          /\ slot' = [slot EXCEPT ![c] = s]
          /\ UNCHANGED word
     \/ /\ InWord(word[c]) \subseteq occupancy
        /\ At(c, "load", "load")
        /\ word' = [word EXCEPT ![c] = @ + 1]
        /\ UNCHANGED slot
  /\ UNCHANGED <<occupancy, slots, full>>

\* One word is read: its lowest free bit, the next word, or None.
Load(c) ==
  /\ \/ \E s \in InWord(word[c]) \ occupancy :
          /\ \A r \in InWord(word[c]) \ occupancy : s <= r
          /\ At(c, "load", "claim")
          /\ slot' = [slot EXCEPT ![c] = s]
          /\ UNCHANGED word
     \/ /\ InWord(word[c]) \subseteq occupancy /\ word[c] + 1 \in Words
        /\ At(c, "load", "load")
        /\ word' = [word EXCEPT ![c] = @ + 1]
        /\ UNCHANGED slot
     \/ /\ InWord(word[c]) \subseteq occupancy /\ word[c] + 1 \notin Words
        /\ At(c, "load", "none")
        /\ UNCHANGED <<word, slot>>
  /\ UNCHANGED <<occupancy, slots, full>>

\* Mutant: the previous value of the word is not looked at.
FetchOr_Blind(c) ==
  /\ At(c, "claim", "take")
  /\ occupancy' = occupancy \cup {slot[c]}
  /\ full' = [d \in Callers |-> full[d] \/ occupancy' = Slots]
  /\ UNCHANGED <<slots, word, slot>>

\* fetch_or: the bit is won, or somebody else's and the word is read again.
FetchOr(c) ==
  /\ \/ slot[c] \notin occupancy /\ At(c, "claim", "take")
     \/ slot[c] \in occupancy /\ At(c, "claim", "load")
  /\ occupancy' = occupancy \cup {slot[c]}
  /\ full' = [d \in Callers |-> full[d] \/ occupancy' = Slots]
  /\ UNCHANGED <<slots, word, slot>>

\* The producer is moved out of its cell.
Take(c) ==
  /\ At(c, "take", "leased")
  /\ slots' = slots \ {slot[c]}
  /\ UNCHANGED <<occupancy, word, slot, full>>

None(c) == At(c, "none", "idle") /\ UNCHANGED <<occupancy, slots, word, slot, full>>

\* Mutant: the bit is cleared before the producer is back in its cell.
Return_BitFirst(c) ==
  /\ At(c, "leased", "clear")
  /\ occupancy' = occupancy \ {slot[c]}
  /\ UNCHANGED <<slots, word, slot, full>>

\* Drop for MpscProducerLease: the producer goes back to its cell ...
Return(c) ==
  /\ At(c, "leased", "clear")
  /\ slots' = slots \cup {slot[c]}
  /\ UNCHANGED <<occupancy, word, slot, full>>

\* ... and the bit is cleared.
FetchAnd(c) ==
  /\ At(c, "clear", "idle")
  /\ occupancy' = occupancy \ {slot[c]}
  /\ UNCHANGED <<slots, word, slot, full>>

Next == \E c \in Callers :
  \/ Acquire(c) \/ Load(c) \/ FetchOr(c) \/ Take(c) \/ None(c)
  \/ Return(c) \/ FetchAnd(c)

Spec == Init /\ [][Next]_vars

-----------------------------------------------------------------------------
(* Properties.                                                             *)

\* "Holding the bit == holding &mut on that slot's Option<MpscProducer>": two
\* callers never own the same cell.
LeaseExclusive ==
  \A c, d \in Callers : \A s \in Slots : Owner(c, s) /\ Owner(d, s) => c = d

\* The unwrap of acquire never meets an empty cell, and no producer is ever
\* lost: a cell is empty only while the lease that emptied it is out.
CellsAccounted ==
  \A s \in Slots : s \in slots <=> ~ \E c \in Callers : pc[c] = "leased" /\ slot[c] = s

\* acquire "returns None iff every slot is currently held": at some moment of
\* a call that returns None every slot was held.
NoneWhenFull == \A c \in Callers : pc[c] = "none" => full[c]
=============================================================================
