--------------------------- MODULE MCStrongBoxes ---------------------------
(* Two parts of the strong-box crate, side by side: a rotating box that    *)
(* threads share, and the boxes that a service derives.  In a behavior,    *)
(* one of them moves.                                                      *)
EXTENDS MCRotatingStrongBox, StrongBoxes

VARIABLE rotating

MCInit == rotating \in BOOLEAN /\ Init /\ BoxesInit

RotatingMoves == rotating /\ Next /\ UNCHANGED <<rotating, boxVars>>
DerivedMove == ~rotating /\ BoxesNext /\ UNCHANGED <<rotating, vars>>
MCNext == RotatingMoves \/ DerivedMove

MCSpec == MCInit /\ [][MCNext]_<<rotating, vars, boxVars>>

Symmetry == Permutations(Threads) \cup Permutations(RootKeys) \cup Permutations(Contexts)
=============================================================================
