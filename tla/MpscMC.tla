------------------------------- MODULE MpscMC -------------------------------
(* The calls of the two producers of the runs.                             *)
EXTENDS Mpsc

MCSends == <<{"try_send_bulk", "send"}, {"send_async_send"}>>
MCBlockingSends == <<{"send"}, {"send"}>>
=============================================================================
