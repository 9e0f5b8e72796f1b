------------------------------- MODULE MpmcMC -------------------------------
(* The calls of the two producers and the two consumers of the runs.       *)
EXTENDS Mpmc

MCSends == <<{}, {"send", "try_send_batch"}>>
MCRecvs == <<{"recv"}, {"recv_batch"}>>
MCSingleSends == <<{"send"}, {"try_send"}>>
MCSingleRecvs == <<{"try_recv", "recv"}, {"recv"}>>
=============================================================================
