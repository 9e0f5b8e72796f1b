--------------------------- MODULE RingRefinement ---------------------------
(***************************************************************************)
(* The ring implements the bounded FIFO.  The queue is the caller's names  *)
(* of what the slots hold from the consumer's private cursor up to the     *)
(* published head; slots moved out but not yet below tail are held back    *)
(* from the sender.                                                        *)
(***************************************************************************)
EXTENDS Ring, Sequences

Closing == {"closeFull", "closeEmpty", "gone"}

queueBar ==
  IF freed THEN <<>>
  ELSE [i \in 1 .. Span(c, head) |-> name[slots[Mask(Plus(c, i - 1))]]]

Abstract == INSTANCE Fifo WITH
  queue <- queueBar,
  held <- Span(tail, c),
  accepted <- got + Span(c, head),
  delivered <- name[got],
  sending <- pp \notin Closing,
  receiving <- cp \notin Closing,
  ended <- outcome = "closed"

\* Every step of the ring is a step of the FIFO or invisible: each item comes out
\* once, single sends in the order they were made and a burst after what was sent
\* before it, in the order of its pops, which is the caller's order backwards (not
\* the "order preserved" of stream/mod.rs); never more than CAP are inside, a burst
\* is published whole, and Closed is reported only after the last item.
RingIsFifo == Abstract!Spec
=============================================================================
