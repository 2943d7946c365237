--------------------------- MODULE MCCredentials ---------------------------
(* Instances of Credentials for TLC. *)
EXTENDS Credentials, TLC

CONSTANTS alice, bob, carol

(* Bob is elsewhere, carol where alice is.                                 *)
SharedUrl == [a \in Accounts |-> IF a = bob THEN "two" ELSE "one"]
OneUrl == [a \in Accounts |-> "one"]

NeverWrapped == [a \in Accounts |-> 0]
WrappedOnce == [a \in Accounts |-> 1]
AliceWrappedOnce == [a \in Accounts |-> IF a = alice THEN 1 ELSE 0]

Symmetry == Permutations(Commands)
=============================================================================
