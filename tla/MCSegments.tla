----------------------------- MODULE MCSegments -----------------------------
(***************************************************************************)
(* The segments of the log, and the lock-free list of rcu-slist.h, for     *)
(* TLC, one at a time.                                                     *)
(***************************************************************************)
EXTENDS Segments, TLC

CONSTANTS Nodes, List, Nil

VARIABLES part, next, th, free, unused, removable, fast, blamed, budget

lvars == <<next, th, free, unused, removable, fast, blamed, budget>>

KillOrRead == {<<1, 0>>, <<0, 1>>}
Boundaries == {<<14, 0, 3>>, <<12, 1, 3>>, <<9, 2, 3>>, <<13, 0, 2>>}

S == INSTANCE RcuSlist WITH Budgets <- KillOrRead, left <- budget

(* The part that stands still has one of its budgets. *)
MCInit ==
    /\ Init /\ S!Init
    /\ part \in {"segments", "list"}
    /\ part = "segments" => budget.kills = 1
    /\ part = "list" => <<last, crashes, slots>> = <<14, 0, 3>>
MCNext ==
    \/ part = "segments" /\ SegNext /\ UNCHANGED <<part, lvars>>
    \/ part = "list" /\ S!Next /\ UNCHANGED <<part, vars>>
MCSpec == MCInit /\ [][MCNext]_<<part, vars, lvars>>

Symmetry == Permutations(Threads) \cup Permutations(Nodes)

(* The property of RcuSlist, where it is stated and explained. *)
SlistSound == part = "list" => S!ListSound
=============================================================================
