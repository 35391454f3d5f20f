----------------------------- MODULE MCEstimator -----------------------------
\* Estimator for TLC.
EXTENDS Estimator
=============================================================================
