------------------------------- MODULE MCLink --------------------------------
(* The link on a small instance.  The cfg files give the sizes.             *)
EXTENDS LinkProofs
=============================================================================
