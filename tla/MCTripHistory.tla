---------------------------- MODULE MCTripHistory ----------------------------
(* What main.c says about the end of a trip.                                *)
EXTENDS TripHistory
=============================================================================
