---------------------------- MODULE MCHallMedia ----------------------------
(***************************************************************************)
(* Instances of HallMedia for TLC.                                         *)
(***************************************************************************)
EXTENDS HallMedia

CONSTANTS v1, v2, a1

OneEach == [k \in AllKinds |-> 1]
NobodySpeaks == [k \in AllKinds |-> {}]
FirstSpeaks == [k \in AllKinds |-> {v1}]

=============================================================================
