------------------------------ MODULE MCSerial ------------------------------
EXTENDS Serial, TLC, Functions

Symmetry == Permutations(Txns)

R(r) == <<"read", r>>
W(r) == <<"update", r>>

(* Two transactions that read a row and write the other, in the same order *)
(* or crosswise, with a third one or with a reader.                        *)
CONSTANTS x, y, z
Running(f, p) == Cardinality({t \in Txns : f[t] = p})
Mixed == {f \in [Txns -> {<<R(x), W(y)>>, <<R(y), W(x)>>, <<R(x), R(y)>>}] :
            /\ Running(f, <<R(x), W(y)>>) \in Max({1, Running(f, <<R(y), W(x)>>)})..2
            /\ Running(f, <<R(x), R(y)>>) <= 1}

(* A plain writer, a transaction that reads what it writes, and a reader. *)
Triangle == {f \in [Txns -> {<<W(x)>>, <<R(x), W(y)>>, <<R(x), R(y)>>}] : IsInjective(f)}

Mixes == Mixed \cup Triangle

(* One transaction writes z and reads two rows that others overwrite; a     *)
(* reader sees one of these new versions and the old z.                    *)
CONSTANTS t1, t2, t3, t4
Pivot == {(t1 :> <<W(z), R(x), R(y)>>) @@ (t2 :> <<W(x)>>) @@ (t3 :> <<R(x), R(z)>>) @@ (t4 :> <<W(y)>>)}

(* The same system, in the behaviours where operations and commits do not  *)
(* overlap: at most one transaction is not between two operations.         *)
Between == {"begin", "run", "end of txn"}
TurnSpec == Init /\ [][\E t \in Txns : Work(t) /\ \A u \in Txns \ {t} : pc[u] \in Between]_vars
=============================================================================
