---------------------------- MODULE MCVoiceCall ----------------------------
(***************************************************************************)
(* Instances of VoiceCall for TLC.                                         *)
(***************************************************************************)
EXTENDS VoiceCall, TLC

CONSTANTS c1, c2, v1, v2

\* One visitor makes every call, or each visitor makes one.
OneCaller == [c \in Calls |-> v1]
TwoCallers == [c \in Calls |-> IF c = c1 THEN v1 ELSE v2]

\* For OneCaller only.
Symmetry == Permutations(Agents) \cup Permutations(Calls)

=============================================================================
