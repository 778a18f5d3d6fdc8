----------------------------- MODULE MCAgentRun -----------------------------
(* Small instances of AgentRun for TLC. *)
EXTENDS AgentRun

CONSTANTS w1, w2

\* Two workers: executor and recovery command, or one after the crash of the other.
MCWorkers == {w1, w2}
MCKinds   == RunKinds
=============================================================================
