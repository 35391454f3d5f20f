------------------------------ MODULE MCHandoff ------------------------------
(* The mailbox on a small instance.  The cfg file gives the counters' wrap. *)
EXTENDS Handoff
=============================================================================
