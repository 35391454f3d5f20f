----------------------------- MODULE MCFreshness -----------------------------
(* The freshness of the link on a small instance.  The cfg gives the sizes. *)
EXTENDS FreshnessProofs
=============================================================================
