---------------------------- MODULE MCMetricsBuffer ----------------------------
(* Instances of MetricsBuffer for TLC. *)
EXTENDS MetricsBuffer, TLC
=============================================================================
