--------------------------- MODULE MCAgentSession ---------------------------
(***************************************************************************)
(* Instance of AgentSession for TLC.                                       *)
(***************************************************************************)
EXTENDS AgentSession, TLC

Symmetry == Permutations(Requests)

=============================================================================
