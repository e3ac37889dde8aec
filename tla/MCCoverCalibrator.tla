--------------------------- MODULE MCCoverCalibrator ---------------------------
(* CoverCalibrator for TLC: two covers that share the timer, and one channel.  *)
EXTENDS CoverCalibrator
=============================================================================
