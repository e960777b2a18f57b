---------------------------- MODULE MCLeaderMetrics ----------------------------
(***************************************************************************)
(* An instance of LeaderMetrics for TLC: two signals, which share the main   *)
(* thread or run one on it and one on an OpenMP thread.                      *)
(***************************************************************************)
EXTENDS LeaderMetrics

MCSignals == {"SIGTERM", "SIGINT"}
MCThreads == {"main", "omp"}
=============================================================================
