------------------------------ MODULE MCStepGen ------------------------------
(* The step generator on a small instance.  The cfg file gives the sizes.   *)
EXTENDS StepGenProofs
=============================================================================
