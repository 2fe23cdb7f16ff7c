----------------------------- MODULE MCRecovery -----------------------------
(***************************************************************************)
(* Instances of Recovery for TLC.                                          *)
(***************************************************************************)
EXTENDS Recovery, TLC

Budget(t, o, c, p) == [txns |-> t, ops |-> o, crashes |-> c, chkpts |-> p]

(* Crashes during recovery and after it; checkpoints among transactions;   *)
(* checkpoints with nothing between them.                                  *)
MCBudgets == {Budget(3, 1, 2, 0), Budget(2, 2, 2, 0), Budget(2, 2, 1, 1), Budget(2, 1, 1, 2)}

Symmetry == Permutations(Workers)
=============================================================================
