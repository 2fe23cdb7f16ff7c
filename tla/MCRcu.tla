-------------------------------- MODULE MCRcu -------------------------------
(* Instances of Rcu for TLC. *)
EXTENDS Rcu, TLC

(* Without caches, transactions nest; with one, an epoch more is needed     *)
(* before a stash comes back.                                               *)
NotCaching == [caching |-> {}, depth |-> 2, epochs |-> 4]
MCBounds == {NotCaching} \cup {[caching |-> {t}, depth |-> 1, epochs |-> 5] : t \in Threads}

Symmetry == Permutations(Threads) \cup Permutations(Pointers)
=============================================================================
