----------------------------- MODULE MCMasstree -----------------------------
EXTENDS Masstree

K(i) == <<i>>
Ins(k, o) == [op |-> "insert", key |-> k, oid |-> o, bound |-> <<>>]
Rem(k) == [op |-> "remove", key |-> k, oid |-> Nil, bound |-> <<>>]
Get(k) == [op |-> "search", key |-> k, oid |-> Nil, bound |-> <<>>]
Scan(k, b) == [op |-> "scan", key |-> k, oid |-> Nil, bound |-> b]
RScan(k, b) == [op |-> "rscan", key |-> k, oid |-> Nil, bound |-> b]

(* Trees the loader builds: one full leaf; two leaves and a hole; three    *)
(* levels from ascending, descending and mixed keys; nested layers.        *)
Load(s) == [i \in DOMAIN s |-> Ins(s[i], i)]
Full == Load(<<K(2), K(4), K(6)>>)
Holes == Load(<<K(1), K(2), K(3), K(5), K(6)>>) \o <<Rem(K(5)), Ins(K(7), 9)>>
Rising == Load(<<K(1), K(2), K(3), K(4), K(5), K(6), K(7)>>)
Falling == Load(<<K(8), K(7), K(6), K(5), K(4), K(3), K(2)>>)
Mixed == Load(<<K(1), K(3), K(5), K(7), K(9), K(2), K(4), K(6), K(8)>>)
Sparse == Mixed \o <<Rem(K(2)), Rem(K(4)), Rem(K(6)), Rem(K(8))>>
Wide == Rising \o <<Ins(K(8), 8), Ins(K(9), 9)>>
Thin == Wide \o <<Ins(K(10), 10), Rem(K(10)), Rem(K(7)), Rem(K(8)), Rem(K(9)), Rem(K(4)), Rem(K(5))>>
Layers == Load(<<<<5, 2, 1>>, <<5, 1>>, K(6)>>)

MCThreads == {"load", "a", "b", "c"}
MCLoader == "load"
MCKeys == { K(i) : i \in 1 .. 10 } \cup { <<5, i>> : i \in 1 .. 3 } \cup {<<2, 1>>, <<4, 1>>, <<8, 1>>, <<5, 2, 1>>, <<5, 2, 2>>}

Calls(a, b, c) == [t \in {"a", "b", "c"} |-> CASE t = "a" -> a [] t = "b" -> b [] t = "c" -> c]
Scenario(loads, A, B) == { [load |-> l, calls |-> Calls(<<a>>, b, <<>>), empty |-> {}] : l \in loads, a \in A, b \in B }

OneLeaf == Scenario({Full, Holes},
    {Ins(K(5), 11), Ins(K(1), 11), Ins(K(8), 11), Rem(K(6)), Ins(<<4, 1>>, 11)},
    {<<Get(K(6)), Ins(K(4), 12)>>, <<Get(K(5)), Ins(K(5), 12)>>, <<Scan(K(1), <<>>)>>, <<RScan(K(9), <<>>)>>,
     <<Ins(K(3), 12)>>, <<Rem(K(6)), Ins(K(6), 12)>>, <<Scan(K(3), K(7)), Ins(K(4), 12)>>})

Trees == Scenario({Rising, Falling, Mixed, Sparse},
    {Ins(<<4, 1>>, 11), Ins(K(9), 11), Rem(K(1)), Rem(K(3)), Rem(K(5)), Rem(K(7))},
    {<<Get(K(5))>>, <<Get(K(4))>>, <<Scan(K(3), K(7))>>, <<RScan(K(9), K(2))>>, <<Rem(K(7))>>, <<Rem(K(9))>>, <<Rem(K(3)), Ins(K(4), 12)>>})

Tries == Scenario({Layers},
    {Ins(<<5, 2, 2>>, 11), Ins(<<5, 3>>, 11), Rem(<<5, 1>>), Rem(<<5, 2, 1>>)},
    {<<Get(<<5, 2, 1>>)>>, <<Scan(<<5, 1>>, <<>>)>>, <<RScan(<<5, 3>>, <<>>)>>, <<Rem(<<5, 2, 1>>)>>, <<Ins(<<5, 2>>, 12)>>,
     <<Scan(K(1), <<5, 3>>)>>, <<RScan(K(9), <<5, 1>>)>>})

(* Entries whose versions were unlinked by an aborted transaction. *)
Reused == { [load |-> Full, calls |-> Calls(<<Ins(K(4), 11)>>, b, <<>>), empty |-> {2}] :
            b \in {<<Get(K(4))>>, <<Scan(K(1), <<>>)>>, <<Get(K(4)), Ins(K(4), 12)>>} }

Three == { [load |-> l, calls |-> Calls(<<Rem(K(5))>>, b, <<Get(K(6))>>), empty |-> {}] :
           l \in {Rising}, b \in {<<Ins(<<4, 1>>, 12)>>, <<Rem(K(7))>>} }

Parents == Scenario({Wide}, {Ins(<<2, 1>>, 11)}, {<<Ins(<<8, 1>>, 12)>>, <<Get(K(9))>>}) \cup
           Scenario({Thin}, {Rem(K(6))}, {<<Get(K(2))>>, <<RScan(K(9), <<>>)>>, <<Rem(K(2)), Ins(K(6), 12)>>})

MCScenarios == OneLeaf \cup Trees \cup Tries \cup Parents \cup Reused \cup Three

=============================================================================
