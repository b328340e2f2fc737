-------------------------- MODULE MCWorkerBroadcast --------------------------
(***************************************************************************)
(* The instance of WorkerBroadcast for TLC: enough calls for a worker to   *)
(* fall behind rank 0 more than once.                                      *)
(***************************************************************************)
EXTENDS WorkerBroadcast

\* The calls are bounded, and a bounded engine may stop without exit.
MCMaxCalls == 3
=============================================================================
