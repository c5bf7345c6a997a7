---------------------------- MODULE MCHubRegistry ----------------------------
(***************************************************************************)
(* Instances of HubRegistry for TLC.                                       *)
(***************************************************************************)
EXTENDS HubRegistry, TLC

CONSTANTS v1, a1, c1, c2

TwoTabs == (c1 :> v1) @@ (c2 :> v1)
OneDevice == c1 :> a1

\* The conversations are alike, and so are the workers.
WorkerSymmetry == Permutations(Workers) \cup Permutations(Convs)

=============================================================================
