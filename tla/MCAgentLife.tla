----------------------------- MODULE MCAgentLife -----------------------------
(* Small instances of AgentLife.                                             *)
EXTENDS AgentLife, TLC

\* Not for liveness: symmetric processes are told apart there.
Processes == Permutations(Activated) \cup Permutations(Doctor)
=============================================================================
