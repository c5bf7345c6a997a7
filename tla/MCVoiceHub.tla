----------------------------- MODULE MCVoiceHub -----------------------------
(***************************************************************************)
(* Instances of VoiceHub for TLC.                                          *)
(***************************************************************************)
EXTENDS VoiceHub, TLC

Symmetry == Permutations(Agents) \cup Permutations(Calls)

=============================================================================
