------------------------------ MODULE RcuSlist ------------------------------
(***************************************************************************)
(* The latch-free list of dbcore/rcu-slist.h and rcu-slist.cpp.  The next  *)
(* pointer of a node carries a bit that says its owner is dead; the head   *)
(* of the list is such a pointer too, and its bit says that the list was   *)
(* killed.  Nodes are pushed at the head, marked dead where they are, and  *)
(* unlinked and given to rcu_free() together with the dead nodes around    *)
(* them by whoever changes the pointer in front of them.                   *)
(*                                                                         *)
(* A step is one read or one compare-and-swap of a shared pointer.  RCU    *)
(* keeps a freed node readable until its readers are gone, so the nodes    *)
(* here are never reused.                                                  *)
(***************************************************************************)
EXTENDS Integers, FiniteSets

CONSTANTS
    Nodes,      \* list nodes, each pushed at most once
    List,       \* the list's own pointer
    Nil,        \* the null pointer
    Threads,
    Budgets     \* bound: how many kills and traversals a behaviour has, as pairs

VARIABLES
    next,       \* next_ptr of the head and of each node
    th,         \* the call each thread is in
    free,       \* how often each node was passed to rcu_free()
    unused,     \* nodes not pushed yet
    removable,  \* nodes in the list nobody has been told to remove
    fast,       \* history: remove_fast() left cleaning up to somebody
    blamed,     \* history: somebody was told that the list became empty
    left        \* bound: kills and traversals left

vars == <<next, th, free, unused, removable, fast, blamed, left>>

Ptr(x, d) == [to |-> x, dead |-> d]
Idle == [op |-> "none", pc |-> "idle", n |-> Nil, at |-> List, copy |-> Ptr(Nil, FALSE),
         other |-> Ptr(Nil, FALSE), succ |-> Nil, must |-> {}]

Init ==
    /\ next = [x \in Nodes \cup {List} |-> Ptr(Nil, FALSE)]
    /\ th = [t \in Threads |-> Idle]
    /\ free = [x \in Nodes |-> 0]
    /\ unused = Nodes
    /\ removable = {}
    /\ fast = FALSE
    /\ blamed = FALSE
    /\ \E b \in Budgets : left = [kills |-> b[1], reads |-> b[2]]

Set(t, r) == th' = [th EXCEPT ![t] = r]

(* A cached_next is made: the pointer at x is read. *)
Cached(r, x) == [r EXCEPT !.at = x, !.copy = next[x], !.other = next[x], !.pc = "find"]

----------------------------------------------------------------------------
(* The calls.  It is for the caller to see that one thread removes a node. *)

Push(t, n) ==
    /\ th[t].pc = "idle"
    /\ n \in unused
    /\ unused' = unused \ {n}
    /\ Set(t, Cached([Idle EXCEPT !.op = "push", !.n = n], List))
    /\ UNCHANGED <<next, free, removable, fast, blamed, left>>

Remove(t, n, op) ==
    /\ th[t].pc = "idle"
    /\ n \in removable
    /\ removable' = removable \ {n}
    /\ Set(t, Cached([Idle EXCEPT !.op = op, !.n = n], n))
    /\ UNCHANGED <<next, free, unused, fast, blamed, left>>

Kill(t) ==
    /\ th[t].pc = "idle"
    /\ left.kills > 0
    /\ left' = [left EXCEPT !.kills = @ - 1]
    /\ Set(t, Cached([Idle EXCEPT !.op = "kill"], List))
    /\ UNCHANGED <<next, free, unused, removable, fast, blamed>>

(* find_live_successor(): one more node is examined. *)
FindLiveSuccessor(t) ==
    LET r == th[t]
        x == r.other.to
    IN  /\ r.pc = "find"
        /\ Set(t, IF x = Nil THEN [r EXCEPT !.succ = Nil, !.pc = "cas"]
                  ELSE IF next[x].dead THEN [r EXCEPT !.other = next[x]]
                  ELSE [r EXCEPT !.succ = x, !.pc = "cas"])
        /\ UNCHANGED <<next, free, unused, removable, fast, blamed, left>>

(* What is installed in place of the copy. *)
Installed(r) ==
    CASE r.op = "push" -> Ptr(r.n, FALSE)
      [] r.op # "push" /\ r.at # List -> Ptr(r.succ, TRUE)
      [] r.op = "remove" /\ r.at = List -> Ptr(r.succ, FALSE)
      [] r.op \in {"kill", "remove_and_kill"} /\ r.at = List -> Ptr(r.succ, r.succ = Nil)

(* The nodes from the old successor up to the new one, all dead. *)
Sublist(x, end) ==
    LET on[k \in 0..Cardinality(Nodes)] ==
            IF k = 0 THEN {x} ELSE on[k - 1] \cup {next[y].to : y \in on[k - 1] \ {end, Nil}}
    IN  on[Cardinality(Nodes)] \ {end, Nil}

(* atomic_cas() finds the pointer as it was copied. *)
MutSame(r) == TRUE
Same(r) == next[r.at] = r.copy

(* install_successor() succeeds: the dead sublist goes to rcu_free(), and  *)
(* the call goes on or returns.  A node is confirmed to have a live        *)
(* successor, or the head of the list is looked at.                        *)
Install(t) ==
    LET r == th[t]
        done == \/ r.at = List
                \/ r.op = "remove_fast" /\ r.succ = Nil
    IN  /\ r.pc = "cas" /\ Same(r)
        /\ next' = IF r.op = "push" THEN [next EXCEPT ![r.at] = Installed(r), ![r.n] = Ptr(r.succ, FALSE)]
                   ELSE [next EXCEPT ![r.at] = Installed(r)]
        /\ free' = [x \in Nodes |-> IF x \in Sublist(r.copy.to, r.succ) THEN free[x] + 1 ELSE free[x]]
        /\ removable' = IF r.op = "push" THEN removable \cup {r.n} ELSE removable
        /\ blamed' = ((r.at = List /\ r.op # "push" /\ r.succ = Nil) \/ (blamed /\ r.op # "push"))
        /\ fast' = (fast \/ (r.op = "remove_fast" /\ r.succ = Nil))
        /\ Set(t, IF done THEN Idle ELSE [r EXCEPT !.pc = IF r.succ = Nil THEN "head" ELSE "confirm"])
        /\ UNCHANGED <<unused, left>>

Retry(r) == IF r.at = List THEN r.op \in {"push", "kill"} /\ ~next[r.at].dead ELSE TRUE

(* The compare-and-swap fails: try again with what was found, or leave the *)
(* work and the blame to the other thread.                                 *)
NotInstalled(t) ==
    LET r == th[t]
    IN  /\ r.pc = "cas" /\ ~Same(r)
        /\ Set(t, IF Retry(r) THEN Cached(r, r.at) ELSE Idle)
        /\ unused' = IF r.op = "push" /\ ~Retry(r) THEN unused \cup {r.n} ELSE unused
        /\ UNCHANGED <<next, free, removable, fast, blamed, left>>

Confirmed(r) == ~next[r.succ].dead

Confirm(t) ==
    LET r == th[t]
    IN  /\ r.pc = "confirm"
        /\ Set(t, IF Confirmed(r) \/ r.op = "remove_fast" THEN Idle ELSE [r EXCEPT !.pc = "head"])
        /\ fast' = (fast \/ (r.op = "remove_fast" /\ ~Confirmed(r)))
        /\ UNCHANGED <<next, free, unused, removable, blamed, left>>

CheckHead(t) ==
    /\ th[t].pc = "head"
    /\ Set(t, Cached(th[t], List))
    /\ UNCHANGED <<next, free, unused, removable, fast, blamed, left>>

----------------------------------------------------------------------------
(* Readers: begin(), the iterator and visit(). *)

Listed == removable \cup {r.n : r \in {th[t] : t \in Threads}}
Live == {x \in Listed \cap Nodes : ~next[x].dead /\ x \in Nodes \ unused}
    \ {th[t].n : t \in {u \in Threads : th[u].op = "push"}}

Begin(t) ==
    /\ th[t].pc = "idle"
    /\ left.reads > 0
    /\ left' = [left EXCEPT !.reads = @ - 1]
    /\ Set(t, [Idle EXCEPT !.op = "read", !.pc = "next", !.other = next[List], !.must = Live])
    /\ UNCHANGED <<next, free, unused, removable, fast, blamed>>

Passed(x) == next[x]

(* ++iterator, one node: a dead node is passed over. *)
Advance(t) ==
    LET r == th[t]
        x == r.other.to
    IN  /\ r.pc = "next" /\ x # Nil
        /\ Set(t, [r EXCEPT !.other = Passed(x), !.must = {y \in @ \ {x} : ~next[y].dead}])
        /\ UNCHANGED <<next, free, unused, removable, fast, blamed, left>>

AtEnd(t) ==
    /\ th[t].pc = "next" /\ th[t].other.to = Nil
    /\ Set(t, Idle)
    /\ UNCHANGED <<next, free, unused, removable, fast, blamed, left>>

Removals == {"remove", "remove_fast", "remove_and_kill"}

Next == \E t \in Threads :
    \/ \E n \in Nodes : Push(t, n) \/ \E op \in Removals : Remove(t, n, op)
    \/ Kill(t) \/ FindLiveSuccessor(t) \/ Install(t) \/ NotInstalled(t) \/ Confirm(t) \/ CheckHead(t)
    \/ Begin(t) \/ Advance(t) \/ AtEnd(t)

SlistSpec == Init /\ [][Next]_vars

----------------------------------------------------------------------------
(* Properties. *)

FromHead == Sublist(next[List].to, Nil)

SlistTypeOK ==
    /\ next \in [Nodes \cup {List} -> [to : Nodes \cup {Nil}, dead : BOOLEAN]]
    /\ free \in [Nodes -> 0..1]
    /\ unused \subseteq Nodes /\ removable \subseteq Nodes
    /\ fast \in BOOLEAN /\ blamed \in BOOLEAN

(* A node is given to rcu_free() when it is dead and can no longer be      *)
(* reached from the head, whatever pushes and removals of its neighbours   *)
(* were under way: a reader that arrives later never meets freed memory.   *)
FreedIsUnlinked == \A x \in Nodes : free[x] > 0 => next[x].dead /\ x \notin FromHead

(* A node that was linked is in the list until it has been freed: no       *)
(* unlinking takes a live node along, and no dead node is unlinked without *)
(* being freed.                                                            *)
Linked == {x \in Nodes \ unused : ~\E t \in Threads : th[t].op = "push" /\ th[t].n = x}
LinkedOrFreed == \A x \in Linked : x \in FromHead \/ free[x] = 1

AllIdle == \A t \in Threads : th[t].pc = "idle"

(* "The last node to die always leaves a list truly empty" (rcu-slist.h):  *)
(* once the calls have returned and no live node is left, no dead node is  *)
(* left either, all were freed, and somebody was told the list is empty.   *)
(* remove_fast() may leave the cleaning to others, and says so.            *)
TrulyEmpty ==
    (AllIdle /\ removable = {} /\ unused # Nodes /\ ~fast) =>
        /\ next[List].to = Nil
        /\ \A x \in Nodes : next[x].dead => free[x] = 1
        /\ (\E x \in Nodes : next[x].dead) => blamed

(* "Readers unlucky enough to land on a dead node can still finish their   *)
(* list traversal and will still see any live nodes that succeed the       *)
(* deleted node" (rcu-slist.h): a traversal misses no node that was in the *)
(* list when it began and is alive when it ends.                           *)
ReadersMissNothing == \A t \in Threads : (th[t].pc = "next" /\ th[t].other.to = Nil) =>
                          \A x \in th[t].must : next[x].dead

(* The list under concurrent push, remove, kill and traversal: nodes are   *)
(* freed once unlinked, none is lost, and readers miss no live one.        *)
ListSound == SlistTypeOK /\ FreedIsUnlinked /\ LinkedOrFreed /\ ReadersMissNothing
=============================================================================
