--------------------------- MODULE MCQueryFlight ---------------------------
(***************************************************************************)
(* Instance of QueryFlight for TLC.                                        *)
(***************************************************************************)
EXTENDS QueryFlight, TLC

Symmetry == Permutations(Requests) \cup Permutations(Keys)

=============================================================================
