-------------------------------- MODULE Fifo --------------------------------
(***************************************************************************)
(* What the split-handle ring does for its callers: a bounded queue that   *)
(* hands out what it accepted, each item once and oldest call first, with  *)
(* the disconnect rules of stream/ring.rs.  Items are numbered in the      *)
(* order the sending side lists them: one after the other for single       *)
(* sends, by place in the caller's Vec for a burst.                        *)
(*                                                                         *)
(* stream/mod.rs speaks of a "continuous flow of payloads from one         *)
(* producer to one consumer, with order preserved".  For single sends this *)
(* is that; a burst is queued last item first, as try_send_bulk pops it.   *)
(***************************************************************************)
EXTENDS Naturals, Sequences

CONSTANT CAP

VARIABLES
  queue,                 \* items accepted and not handed out
  held,                  \* slots emptied but not yet given back to the sender
  accepted,              \* how many items were accepted so far
  delivered,             \* the item handed out last
  sending, receiving,    \* the two ends exist
  ended                  \* the receiver was just told there is nothing more

vars == <<queue, held, accepted, delivered, sending, receiving, ended>>

Init ==
  /\ queue = <<>> /\ held = 0 /\ accepted = 0 /\ delivered = 0
  /\ sending = TRUE /\ receiving = TRUE /\ ended = FALSE

\* k items enter at once if there is room for all, the last of them first.
Accept(k) ==
  /\ sending
  /\ Len(queue) + held + k <= CAP
  /\ queue' = queue \o [i \in 1..k |-> accepted + k + 1 - i]
  /\ accepted' = accepted + k
  /\ UNCHANGED <<held, delivered, sending, receiving, ended>>

\* The item that has been in the queue longest is handed to the receiver.
Deliver ==
  /\ receiving
  /\ queue # <<>>
  /\ queue' = Tail(queue)
  /\ delivered' = Head(queue)
  /\ held' = held + 1
  /\ UNCHANGED <<accepted, sending, receiving, ended>>

\* The room of the items handed out is given back.
GiveBack ==
  /\ held' = 0
  /\ UNCHANGED <<queue, accepted, delivered, sending, receiving, ended>>

\* The receiver learns of the disconnection: nothing more can ever arrive.
End ==
  /\ receiving /\ ~sending /\ queue = <<>>
  /\ ended' = TRUE
  /\ UNCHANGED <<queue, held, accepted, delivered, sending, receiving>>

\* The receiver asks again.
Ask ==
  /\ ended' = FALSE
  /\ UNCHANGED <<queue, held, accepted, delivered, sending, receiving>>

CloseSender ==
  /\ sending' = FALSE
  /\ UNCHANGED <<queue, held, accepted, delivered, receiving, ended>>

CloseReceiver ==
  /\ receiving' = FALSE
  /\ UNCHANGED <<queue, held, accepted, delivered, sending, ended>>

\* With both ends gone what was never handed out is destroyed.
Discard ==
  /\ ~sending /\ ~receiving
  /\ queue' = <<>>
  /\ UNCHANGED <<held, accepted, delivered, sending, receiving, ended>>

Next ==
  \/ \E k \in 1..CAP : Accept(k)
  \/ Deliver \/ GiveBack \/ End \/ Ask
  \/ CloseSender \/ CloseReceiver \/ Discard

Spec == Init /\ [][Next]_vars
=============================================================================
