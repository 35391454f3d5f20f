------------------------------ MODULE MCMatrix -------------------------------
(* A matrix of 4 by 3 LEDs on 4 pins: a text of five columns runs over two  *)
(* rows, a fixed sign of four columns is in the third.  Bytes of 5 LEDs     *)
(* straddle the rows, as the source's do.                                  *)
EXTENDS MatrixProofs

MCText == <<{0, 1}, {1}, {}, {0}, {}>>
MCSign == <<{0}, {}, {0}, {0}>>
=============================================================================
