------------------------- MODULE MCStrongBoxWorker -------------------------
(* Instances of StrongBoxWorker for TLC. *)
EXTENDS StrongBoxWorker, TLC

Decrypts(input) == [op |-> "decrypt", input |-> input]
Opens(input) == [op |-> "hpke_decap", input |-> input]

Forged == Decrypts("forged")

(* Ciphertexts that compete for the cache, one that is refused, and an     *)
(* operation of the same input that the cache must not answer              *)
Mixed == {Decrypts("a"), Decrypts("b"), Decrypts("c"), Forged, Opens("a")}

BadOnes == {Forged}

=============================================================================
