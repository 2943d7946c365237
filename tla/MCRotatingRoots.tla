-------------------------- MODULE MCRotatingRoots --------------------------
(* A box with a decryption key, or one with none, whose refreshes panic,   *)
(* under a clock that may go back.                                         *)
EXTENDS RotatingStrongBox, TLC

CONSTANT current_root

OneRoot == <<current_root>>
NoRoots == <<>>

VARIABLE rooted

Rootless == INSTANCE RotatingStrongBox WITH DecKeys <- NoRoots

MCInit == rooted \in BOOLEAN /\ IF rooted THEN Init ELSE Rootless!Init
Rooted == rooted /\ Next /\ UNCHANGED rooted
WithoutRoots == ~rooted /\ Rootless!Next /\ UNCHANGED rooted
SetBack == StepBack /\ UNCHANGED rooted
MCNext == Rooted \/ WithoutRoots \/ SetBack

StepOf(th) == (IF rooted THEN Step(th) ELSE Rootless!Step(th)) /\ UNCHANGED rooted
MCSpec == MCInit /\ [][MCNext]_<<vars, rooted>> /\ \A th \in Threads : SF_<<vars, rooted>>(StepOf(th))
=============================================================================
