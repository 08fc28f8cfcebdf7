----------------------------- MODULE MCMetrics -----------------------------
(* Instances of Metrics for TLC.                                           *)
EXTENDS Metrics
=============================================================================
