------------------------------ MODULE MCSpiEcho ------------------------------
(* A link test of a few frames.  The cfg file gives the sizes.               *)
EXTENDS SpiEchoProofs
=============================================================================
