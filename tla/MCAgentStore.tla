---------------------------- MODULE MCAgentStore ----------------------------
(* Small instances of AgentStore for TLC. *)
EXTENDS AgentStore, TLC

CONSTANTS a, b, u, v, p, q

Symmetry == Permutations({a, b}) \cup Permutations({u, v}) \cup Permutations({p, q})
=============================================================================
