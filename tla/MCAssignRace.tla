---------------------------- MODULE MCAssignRace ----------------------------
(* Instances of AssignRace for TLC.                                        *)
EXTENDS AssignRace, TLC

Symmetry == Permutations(Collaborators)
=============================================================================
