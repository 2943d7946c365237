------------------------ MODULE MCRotatingStrongBox ------------------------
(* Instances of RotatingStrongBox for TLC. *)
EXTENDS RotatingStrongBox, TLC

CONSTANTS current_root, old_root, foreign_root

TwoRoots == <<current_root, old_root>>
OneRoot == <<current_root>>
=============================================================================
