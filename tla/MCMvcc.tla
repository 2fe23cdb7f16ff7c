------------------------------- MODULE MCMvcc -------------------------------
(* Instances of Mvcc for TLC. *)
EXTENDS Mvcc, TLC

Symmetry == Permutations(Workers) \cup Permutations(Contexts)
=============================================================================
