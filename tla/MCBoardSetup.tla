---------------------------- MODULE MCBoardSetup -----------------------------
\* BoardSetup for TLC.
EXTENDS BoardSetupProofs
=============================================================================
