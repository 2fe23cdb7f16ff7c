------------------------------ MODULE Masstree ------------------------------
(***************************************************************************)
(* The index: Masstree (masstree/masstree_*.hh, btree_leaflink.hh) as the  *)
(* engine uses it through masstree_btree.h, by any number of threads.      *)
(* Readers take no locks.  They read a version word, then the node, then   *)
(* the version again; writers lock the nodes they change and say in the    *)
(* version word what they are about to do.                                 *)
(*                                                                         *)
(* A step is what a thread does between two accesses whose order matters:  *)
(* reading a stable version, reading the permutation, reading a slot,      *)
(* checking the version, taking a lock, and each kind of store to a node   *)
(* others can see.  Nodes nobody can reach yet are made in one step, and   *)
(* the walk of unsplit_ancestor() is one.  A thread that would spin waits. *)
(* Removed nodes are not reused, and the garbage collection of layers does *)
(* not happen: simple_threadinfo::rcu_register() drops the callback.       *)
(*                                                                         *)
(* The calls of a thread are one transaction, which remembers the leaves   *)
(* it found keys missing from (transaction::absent_set).                   *)
(***************************************************************************)
EXTENDS MasstreeNode, FiniteSets

CONSTANTS
    Threads,
    Loader,     \* the thread that fills the tree before the others start
    Keys,
    Scenarios   \* bound: [load, calls, empty] with the calls of each thread

VARIABLES
    nodes,      \* the nodes, by address
    root,       \* basic_table::root_
    th,         \* the call each thread is in
    todo,       \* the calls each thread has still to make
    tx,         \* the transaction of each thread
    empty,      \* OIDs with an empty version chain
    reused,     \* history: keys whose entry with an empty chain was used again
    first,      \* history: keys that were put into a leaf without keys
    content,    \* history: the OID of each key, Nil when it is not in the tree
    seen,       \* history: what each key had while the current call ran
    last,       \* history: the last call of each thread and its outcome
    broken      \* history: the masstree_invariants that failed

vars == <<nodes, root, th, todo, tx, empty, reused, first, content, seen, last, broken>>

NoCall == [op |-> "none", key |-> <<>>, oid |-> Nil, bound |-> <<>>]
NoKey == [pre |-> <<>>, ikey |-> 0, len |-> 0, suf |-> <<>>]
NoInfo == [node |-> Nil, old |-> <<>>, new |-> <<>>]

Idle ==
    [pc |-> "idle", call |-> NoCall, start |-> Nil, n |-> Nil, v |-> NewVersion, m |-> Nil, mv |-> NewVersion,
     ka |-> NoKey, perm |-> 0, kx |-> [i |-> 0, p |-> -1], lv |-> Nil, st |-> 0, info |-> NoInfo,
     sn |-> Nil, c |-> Nil, nc |-> Nil, p |-> Nil, kp |-> 0, x |-> 0, up |-> 0, type |-> 0, reshape |-> -1,
     ent |-> NoSlot, mode |-> "initial", ki |-> 0, ub |-> FALSE, vis |-> FALSE, bc |-> FALSE, stack |-> <<>>, out |-> <<>>]

NewTxn == [state |-> "open", absent |-> <<>>, doomed |-> FALSE, reads |-> {}, own |-> {}, missed |-> {}]

Init ==
    /\ nodes = <<RootLeaf>>
    /\ root = 1
    /\ th = [t \in Threads |-> Idle]
    /\ \E s \in Scenarios : todo = [t \in Threads |-> IF t = Loader THEN s.load ELSE s.calls[t]] /\ empty = s.empty
    /\ tx = [t \in Threads |-> NewTxn]
    /\ reused = {}
    /\ first = {}
    /\ content = [k \in Keys |-> Nil]
    /\ seen = [t \in Threads |-> [k \in Keys |-> {}]]
    /\ last = [t \in Threads |-> [call |-> NoCall, out |-> <<>>]]
    /\ broken = {}

Loaded == th[Loader].pc = "idle" /\ todo[Loader] = <<>>

Outside == <<todo, tx, empty, reused, first, content, seen, last>>
Go(t, r) == th' = [th EXCEPT ![t] = r]
In(t, pc) == th[t].pc = pc

(* A step that changes nothing but the thread. *)
Local(t, r) == Go(t, r) /\ UNCHANGED <<nodes, root, broken, Outside>>

(* A step that stores into nodes. *)
Store(t, r, N) == Go(t, r) /\ nodes' = N /\ UNCHANGED <<root, broken, Outside>>

(* ... after checking an invariant of the code. *)
Checked(t, r, N, name, holds) ==
    /\ Go(t, r) /\ nodes' = N
    /\ broken' = IF holds THEN broken ELSE broken \cup {name}
    /\ UNCHANGED <<root, Outside>>

(* The entry of a key changes: the calls in progress have seen both. *)
Becomes(k, o) ==
    /\ content' = [content EXCEPT ![k] = o]
    /\ seen' = [t \in Threads |-> IF In(t, "idle") THEN seen[t] ELSE [seen[t] EXCEPT ![k] = @ \cup {o}]]

Up(x) == IF HasSplit(nodes[x].v) /\ nodes[x].parent # Nil THEN nodes[x].parent ELSE x
UnsplitAncestor(x) == Up(Up(Up(x)))     \* bound: trees of at most four levels

Unlocked(N, S) == [n \in DOMAIN N |-> IF n \in S THEN [N[n] EXCEPT !.v = Unlock(@)] ELSE N[n]]

Reset(r, start) == [r EXCEPT !.start = start, !.n = start, !.pc = "reach"]

----------------------------------------------------------------------------
(* The calls: search(), insert_if_absent(), remove(), search_range_call()  *)
(* and rsearch_range_call().  A writer corrects a stale root first.        *)

Writes(call) == call.op \in {"insert", "remove"}

Call(t) ==
    /\ In(t, "idle") /\ todo[t] # <<>> /\ (t = Loader \/ Loaded)
    /\ LET call == Head(todo[t])
           r == IF Writes(call) THEN UnsplitAncestor(root) ELSE root
       IN  /\ root' = r
           /\ Go(t, Reset([Idle EXCEPT !.call = call, !.ka = Key(call.key)], r))
    /\ todo' = [todo EXCEPT ![t] = Tail(@)]
    /\ seen' = [seen EXCEPT ![t] = [k \in Keys |-> {content[k]}]]
    /\ last' = [last EXCEPT ![t] = [call |-> NoCall, out |-> <<>>]]
    /\ UNCHANGED <<nodes, tx, empty, reused, first, content, broken>>

Return(t, out) ==
    /\ Go(t, Idle)
    /\ last' = [last EXCEPT ![t] = [call |-> th[t].call, out |-> out]]

(* transaction::do_node_read(): a node already there must have the same    *)
(* version.                                                                *)
Conflicts(a, n, v) == n \in DOMAIN a /\ a[n] # v
NodeRead(a, n, v) == IF n \in DOMAIN a THEN a ELSE [m \in DOMAIN a \cup {n} |-> IF m = n THEN v ELSE a[m]]

(* search() and do_search(): a key without a visible version is missing,   *)
(* and the leaf it would be in is remembered.                              *)
Searched(t, o) ==
    LET r == th[t]
        full == FullVersion(r.v, Size(r.perm))
        miss == o = Nil \/ o \in empty
        dies == miss /\ Conflicts(tx[t].absent, r.n, full)
    IN  /\ Return(t, o)
        /\ tx' = IF ~miss THEN tx
                 ELSE [tx EXCEPT ![t].absent = NodeRead(@, r.n, full), ![t].doomed = dies,
                                 ![t].reads = @ \cup {[from |-> r.call, got |-> {}]}]
        /\ todo' = IF dies THEN [todo EXCEPT ![t] = <<>>] ELSE todo
        /\ UNCHANGED <<nodes, root, empty, reused, first, content, seen, broken>>

----------------------------------------------------------------------------
(* reach_leaf(): from the root of a layer down to the leaf for ka.         *)

AtLeaf(r) == [r EXCEPT !.pc = IF r.call.op = "search" THEN "get"
                              ELSE IF Writes(r.call) THEN "permutation"
                              ELSE IF r.mode = "initial" THEN "initial" ELSE "retry"]
Reached(r) == IF nodes[r.n].leaf THEN AtLeaf(r) ELSE [r EXCEPT !.pc = "down"]

ReachRoot(t) ==
    LET r == th[t]
        v == nodes[r.n].v
    IN  /\ In(t, "reach") /\ ~Dirty(v)
        /\ Local(t, IF HasSplit(v) THEN [r EXCEPT !.n = UnsplitAncestor(r.n)] ELSE Reached([r EXCEPT !.v = v]))

ReadChild(t) ==
    LET r == th[t]
        m == nodes[r.n].child[Upper(r.ka.ikey, nodes[r.n])]
    IN  /\ In(t, "down")
        /\ Local(t, IF m = Nil THEN Reset(r, r.start) ELSE [r EXCEPT !.m = m, !.pc = "child"])

StableChild(t) ==
    LET r == th[t]
    IN  /\ In(t, "child") /\ ~Dirty(nodes[r.m].v)
        /\ Local(t, [r EXCEPT !.mv = nodes[r.m].v, !.pc = "check"])

CheckParent(t) ==
    LET r == th[t]
    IN  /\ In(t, "check")
        /\ Local(t, IF HasChanged(nodes[r.n].v, r.v) THEN [r EXCEPT !.pc = "again"]
                    ELSE Reached([r EXCEPT !.n = r.m, !.v = r.mv]))

(* stable_last_key_compare(); a node without keys compares with whatever   *)
(* lies before its array.                                                  *)
Again(t) ==
    LET r == th[t]
        nd == nodes[r.n]
    IN  /\ In(t, "again") /\ ~Dirty(nd.v)
        /\ \E beyond \in IF nd.nkeys = 0 THEN BOOLEAN ELSE {r.ka.ikey > nd.ikey[nd.nkeys - 1]} :
              Local(t, IF HasSplitSince(r.v, nd.v) /\ beyond THEN Reset(r, r.start)
                       ELSE [r EXCEPT !.v = nd.v, !.pc = "down"])

(* advance_to_key(): after a split, to the right. *)
Advance(t) ==
    LET r == th[t]
        nd == nodes[r.n]
    IN  /\ In(t, "advance") /\ ~Dirty(nd.v)
        /\ Local(t, IF HasSplitSince(r.v, nd.v) /\ LastKeyCompare(r.ka, nd) > 0
                    THEN [r EXCEPT !.v = nd.v, !.pc = "walk"] ELSE AtLeaf([r EXCEPT !.v = nd.v]))

Walk(t) ==
    LET r == th[t]
        next == nodes[r.n].next.to
        right == ~r.v.deleted /\ next # Nil /\ r.ka.ikey >= IkeyBound(nodes[next])
    IN  /\ In(t, "walk") /\ (right => ~Dirty(nodes[next].v))
        /\ Local(t, IF right THEN [r EXCEPT !.n = next, !.v = nodes[next].v] ELSE AtLeaf(r))

----------------------------------------------------------------------------
(* find_unlocked() *)

GetIndex(t) ==
    LET r == th[t]
        perm == nodes[r.n].perm
    IN  /\ In(t, "get")
        /\ Local(t, IF r.v.deleted THEN Reset(r, r.start)
                    ELSE [r EXCEPT !.perm = perm, !.kx = Lower(r.ka, perm, nodes[r.n]), !.pc = "value"])

GetValue(t) ==
    LET r == th[t]
        s == nodes[r.n].slot[r.kx.p]
    IN  /\ In(t, "value")
        /\ Local(t, IF r.kx.p < 0 THEN [r EXCEPT !.lv = Nil, !.st = 0, !.pc = "validate"]
                    ELSE [r EXCEPT !.lv = s.lv, !.st = KsufMatches(r.ka, s), !.pc = "validate"])

GetValidate(t) ==
    LET r == th[t]
        changed == HasChanged(nodes[r.n].v, r.v)
    IN  /\ In(t, "validate")
        /\ \/ changed /\ Local(t, [r EXCEPT !.pc = "advance"])
           \/ ~changed /\ r.st < 0 /\ Local(t, Reset([r EXCEPT !.ka = Shift(@)], r.lv))
           \/ ~changed /\ r.st >= 0 /\ Searched(t, IF r.st = 1 THEN r.lv ELSE Nil)

----------------------------------------------------------------------------
(* find_locked() *)

ReadPermutation(t) ==
    LET r == th[t]
    IN  /\ In(t, "permutation")
        /\ Local(t, IF r.v.deleted THEN Reset(r, r.start) ELSE [r EXCEPT !.perm = nodes[r.n].perm, !.pc = "find"])

Find(t) ==
    LET r == th[t]
        nd == nodes[r.n]
        kx == Lower(r.ka, nd.perm, nd)
        s == nd.slot[kx.p]
        st == IF kx.p < 0 THEN 0 ELSE KsufMatches(r.ka, s)
    IN  /\ In(t, "find")
        /\ Local(t, IF st < 0 /\ ~HasChanged(nd.v, r.v) /\ ~HasSplit(nodes[s.lv].v)
                    THEN Reset([r EXCEPT !.ka = Shift(@)], s.lv)
                    ELSE [r EXCEPT !.kx = kx, !.st = st, !.pc = "lock"])

LockLeaf(t) ==
    LET r == th[t]
        nd == nodes[r.n]
        layer == UnsplitAncestor(nd.slot[r.kx.p].lv)
    IN  /\ In(t, "lock") /\ ~nd.v.locked
        /\ IF HasChanged(nd.v, r.v) \/ nd.perm # r.perm THEN Local(t, [r EXCEPT !.pc = "advance"])
           ELSE IF r.st < 0
           THEN Store(t, Reset([r EXCEPT !.ka = Shift(@)], layer), [nodes EXCEPT ![r.n].slot[r.kx.p].lv = layer])
           ELSE Store(t, [r EXCEPT !.pc = r.call.op], [nodes EXCEPT ![r.n].v = Lock(@)])

----------------------------------------------------------------------------
(* find_insert(), with the leaf locked. *)

FindInsert(t) ==
    LET r == th[t]
        mod == nodes[r.n].mod
    IN  /\ In(t, "insert")
        /\ IF r.st = 1 THEN Local(t, [r EXCEPT !.pc = "assign"])
           ELSE IF r.kx.p >= 0 THEN Local(t, [r EXCEPT !.st = 2, !.pc = "layer"])
           ELSE Store(t, [r EXCEPT !.st = 2, !.pc = "slot"],
                      IF mod = "insert" THEN nodes ELSE [nodes EXCEPT ![r.n].v = MarkInsert(@), ![r.n].mod = "insert"])

(* Position 0 holds the lower bound of the leaf and is not used for        *)
(* another ikey unless the leaf is the first.                              *)
Usable(nd, p, ka) == p # 0 \/ nd.prev = Nil \/ IkeyBound(nd) = ka.ikey

AssignSlot(t) ==
    LET r == th[t]
        nd == nodes[r.n]
        p == Back(nd.perm)
    IN  /\ In(t, "slot")
        /\ IF Size(nd.perm) < LeafWidth /\ Usable(nd, p, r.ka)
           THEN Store(t, [r EXCEPT !.kx.p = p, !.pc = "assign"], [nodes EXCEPT ![r.n].slot[p] = Slot(r.ka, Nil)])
           ELSE Local(t, [r EXCEPT !.pc = "split"])

(* make_new_layer(): the key and the one with the same ikey move to a leaf *)
(* of a new layer, below a twig of leaves for the ikeys they share.        *)
Shared(s, k) == LET J == { j \in 0 .. Len(s) - 1 : j < Len(k) /\ \A i \in 1 .. j : s[i] = k[i] }
                IN  CHOOSE j \in J : \A i \in J : i <= j

NewLayer(r) ==
    LET old == nodes[r.n].slot[r.kx.p]
        j == Shared(old.suf, r.ka.suf)
        oka == Key(SubSeq(old.suf, j + 1, Len(old.suf)))
        ka == KeyAt(r.ka.pre \o <<r.ka.ikey>> \o SubSeq(r.ka.suf, 1, j), SubSeq(r.ka.suf, j + 1, Len(r.ka.suf)))
        below == Compare(oka, ka.ikey, ka.len) < 0      \* kcmp < 0
        top == Len(nodes)
        twig == [i \in 1 .. j |-> [RootLeaf EXCEPT !.slot[0] = LayerSlot(old.suf[i], top + i + 1), !.perm = MakeSorted(1)]]
        leaf == [RootLeaf EXCEPT !.v = Lock(@),
                                 !.slot[IF below THEN 0 ELSE 1] = Slot(oka, old.lv),
                                 !.slot[IF below THEN 1 ELSE 0] = Slot(ka, Nil),
                                 !.perm = Stored(IF below THEN MakeSorted(1) ELSE RemoveToBack(MakeSorted(2), 0))]
    IN  [made |-> twig \o <<leaf>>, ka |-> ka, at |-> IF below THEN 1 ELSE 0]

MakeNewLayer(t) ==
    LET r == th[t]
        new == NewLayer(r)
    IN  /\ In(t, "layer")
        /\ Store(t, [r EXCEPT !.ka = new.ka, !.c = Len(nodes) + 1, !.m = Len(nodes) + Len(new.made), !.x = new.at, !.pc = "layer value"],
                  [nodes EXCEPT ![r.n].v = MarkInsert(@)] \o new.made)

LayerValue(t) ==
    LET r == th[t]
    IN  /\ In(t, "layer value")
        /\ Store(t, [r EXCEPT !.pc = "layer length"], [nodes EXCEPT ![r.n].slot[r.kx.p].lv = r.c])

LayerLength(t) ==
    LET r == th[t]
    IN  /\ In(t, "layer length")
        /\ Store(t, [r EXCEPT !.n = r.m, !.kx = [i |-> r.x, p |-> r.x], !.c = Nil, !.x = 0, !.pc = "assign"],
                  Unlocked([nodes EXCEPT ![r.n].slot[r.kx.p] = LayerSlot(@.ikey, r.c)], {r.n}))

----------------------------------------------------------------------------
(* make_split() *)

(* A free position at the back that is not 0 makes the split unnecessary. *)
Rearrange(t) ==
    LET r == th[t]
        nd == nodes[r.n]
        perm == Exchange(nd.perm, Size(nd.perm), LeafWidth - 1)
    IN  /\ In(t, "split")
        /\ IF Size(nd.perm) < LeafWidth /\ Back(perm) # 0
           THEN Store(t, [r EXCEPT !.pc = "slot"], [nodes EXCEPT ![r.n].perm = perm])
           ELSE Local(t, [r EXCEPT !.pc = "split leaf"])

(* leaf::split_into() and the first half of link_split(): lock_next(). *)
SplitLeaf(t) ==
    LET r == th[t]
        nd == nodes[r.n]
        mid == Middle(nd, r.ka, r.kx.i)
        right == [RightHalf(nd, r.ka, r.kx.i, mid) EXCEPT !.v = nd.v, !.prev = r.n]
    IN  /\ In(t, "split leaf") /\ ~nd.next.marked
        /\ Checked(t, [r EXCEPT !.sn = r.n, !.c = Len(nodes) + 1, !.x = IkeyBound(right),
                                !.type = SplitType(nd, r.kx.i, mid), !.pc = "link"],
                    Append(IF nd.next.to = Nil THEN nodes ELSE [nodes EXCEPT ![r.n].next.marked = TRUE], right),
                    "split_into: mid", mid > 0 /\ mid <= Size(nd.perm) /\ Size(nd.perm) >= LeafWidth - 1)

LinkNext(t) ==
    LET r == th[t]
        next == nodes[r.n].next.to
        N == [nodes EXCEPT ![r.c].next = Link(next, FALSE)]
    IN  /\ In(t, "link")
        /\ Store(t, [r EXCEPT !.pc = "link left"], IF next = Nil THEN N ELSE [N EXCEPT ![next].prev = r.c])

LinkLeft(t) ==
    LET r == th[t]
    IN  /\ In(t, "link left")
        /\ Store(t, [r EXCEPT !.pc = "parent"], [nodes EXCEPT ![r.n].next = Link(r.c, FALSE)])

(* locked_parent() of sn: read the pointer, lock, and look again. *)
ReadParent(t, from, to) ==
    LET r == th[t]
        p == nodes[r.sn].parent
    IN  /\ In(t, from)
        /\ Local(t, [r EXCEPT !.p = p, !.pc = IF p = Nil THEN to ELSE from \o " lock"])

LockParent(t, from, to) ==
    LET r == th[t]
    IN  /\ In(t, from \o " lock") /\ ~nodes[r.p].v.locked
        /\ IF nodes[r.sn].parent # r.p THEN Local(t, [r EXCEPT !.pc = from])
           ELSE Checked(t, [r EXCEPT !.pc = to], [nodes EXCEPT ![r.p].v = Lock(@)],
                        "locked_parent: internode", ~nodes[r.p].leaf)

SplitReadParent(t) == ReadParent(t, "parent", "enter")
SplitLockParent(t) == LockParent(t, "parent", "enter")

Adopt(N, S, p) == [n \in DOMAIN N |-> IF n \in S THEN [N[n] EXCEPT !.parent = p] ELSE N[n]]

(* The parent of the two halves: a new root, a node with room, or one that *)
(* has to be split itself.                                                 *)
Enter(t) ==
    LET r == th[t]
        p == nodes[r.p]
        kp == Upper(r.x, p)
        new == Len(nodes) + 1
        nn == [NewInternode EXCEPT !.v = MarkRoot(@), !.nkeys = 1, !.ikey[0] = r.x, !.child[0] = r.sn, !.child[1] = r.c]
        mid == MiddleKey(r.type)
        nr == RightInternode(p, kp, r.x, r.c, mid)
        held == nodes[r.sn].v.locked /\ nodes[r.c].v.locked /\ (nodes[r.sn].leaf \/ nodes[r.sn].v.splitting)
        So(x, N) == Checked(t, x, N, "make_split: locked", held)
    IN  /\ In(t, "enter")
        /\ IF r.p = Nil
           THEN So([r EXCEPT !.pc = "halve"], Adopt(Append(nodes, nn), {r.c, r.sn}, new))
           ELSE IF p.nkeys < InternodeWidth
           THEN So([r EXCEPT !.kp = kp, !.pc = "shift up"], [nodes EXCEPT ![r.p].v = MarkInsert(@)])
           ELSE So([r EXCEPT !.kp = kp, !.nc = new, !.up = KeyIn(p, kp, r.x, mid), !.pc = "split parent"],
                   Adopt(Append(nodes, nr), { nr.child[i] : i \in 0 .. nr.nkeys }, new))

SplitParent(t) ==
    LET r == th[t]
        mid == MiddleKey(r.type)
        left == r.kp < mid
    IN  /\ In(t, "split parent")
        /\ Store(t, [r EXCEPT !.pc = IF left THEN "shift up" ELSE "halve"],
                  [nodes EXCEPT ![r.p].v = MarkSplit(@), ![r.p].nkeys = IF left THEN mid - 1 ELSE mid])

ShiftUp(t) ==
    LET r == th[t]
    IN  /\ In(t, "shift up")
        /\ Store(t, [r EXCEPT !.pc = "halve"],
                  Adopt([nodes EXCEPT ![r.p] = Entered(@, r.kp, r.x, r.c)], {r.c}, r.p))

(* The left half of a leaf is marked, and then gives up its keys. *)
MarkHalf(t) ==
    LET r == th[t]
    IN  /\ In(t, "halve")
        /\ IF nodes[r.sn].leaf
           THEN Store(t, [r EXCEPT !.pc = "left half"], [nodes EXCEPT ![r.sn].v = MarkSplit(@)])
           ELSE Local(t, [r EXCEPT !.pc = "release"])

LeftHalf(t) ==
    LET r == th[t]
        perm == LeftPerm(nodes[r.sn], nodes[r.c])
        p == Back(perm)
        N == [nodes EXCEPT ![r.sn].perm = perm]
        i == r.kx.i - Size(perm)
    IN  /\ In(t, "left half")
        /\ IF r.type = 0
           THEN Store(t, [r EXCEPT !.kx.p = p, !.pc = "release"], [N EXCEPT ![r.sn].slot[p] = Slot(r.ka, Nil)])
           ELSE Store(t, [r EXCEPT !.kx = [i |-> i, p |-> i], !.n = r.c, !.pc = "release"], N)

(* All but the leaf with the new key are unlocked, or handed to the next   *)
(* round.                                                                  *)
Release(t) ==
    LET r == th[t]
        done == {r.sn, r.c} \ {r.n}
        clean == [r EXCEPT !.sn = Nil, !.c = Nil, !.p = Nil, !.kp = 0, !.x = 0, !.up = 0, !.type = 0, !.pc = "assign"]
    IN  /\ In(t, "release")
        /\ IF r.nc # Nil
           THEN Store(t, [r EXCEPT !.sn = r.p, !.c = r.nc, !.nc = Nil, !.x = r.up, !.pc = "parent"], Unlocked(nodes, done))
           ELSE Store(t, clean, Unlocked(nodes, done \cup ({r.p} \ {Nil})))

----------------------------------------------------------------------------
(* insert_if_absent(), with the cursor on the slot, and finish().          *)

Info(r, nd) ==
    [node |-> r.n, old |-> FullVersion(UnlockedVersionValue(nd.v), Size(nd.perm)),
     new |-> FullVersion(Unlock(nd.v), Size(nd.perm) + (IF r.st = 2 THEN 1 ELSE 0))]

(* An entry that was found is used again when its version chain is empty.  *)
InsertValue(t) ==
    LET r == th[t]
        taken == r.st = 1 /\ nodes[r.n].slot[r.kx.p].lv \notin empty
        again == r.st = 1 /\ ~taken
        k == r.call.key
    IN  /\ In(t, "assign")
        /\ IF taken
           THEN Local(t, [r EXCEPT !.out = FALSE, !.pc = "unlock"])
           ELSE /\ Go(t, [r EXCEPT !.out = TRUE, !.info = Info(r, nodes[r.n]), !.pc = IF again THEN "unlock" ELSE "finish"])
                /\ nodes' = [nodes EXCEPT ![r.n].slot[r.kx.p].lv = r.call.oid]
                /\ IF again THEN Becomes(k, r.call.oid) /\ reused' = reused \cup {k}
                   ELSE UNCHANGED <<content, seen, reused>>
                /\ UNCHANGED <<root, todo, tx, empty, first, last, broken>>

FinishInsert(t) ==
    LET r == th[t]
        perm == nodes[r.n].perm
    IN  /\ In(t, "finish")
        /\ Go(t, [r EXCEPT !.pc = "unlock"])
        /\ nodes' = [nodes EXCEPT ![r.n].perm = Stored(InsertFromBack(perm, r.kx.i))]
        /\ broken' = IF Back(perm) = r.kx.p THEN broken ELSE broken \cup {"finish_insert: back"}
        /\ Becomes(r.call.key, r.call.oid)
        /\ first' = IF Size(perm) = 0 THEN first \cup {r.call.key} ELSE first
        /\ UNCHANGED <<root, todo, tx, empty, reused, last>>

(* try_insert_new_tuple(): the leaf the key was missing from must be as it *)
(* was, and is now expected to be as the insertion leaves it.              *)
Finish(t) ==
    LET r == th[t]
        a == tx[t].absent
        new == r.call.op = "insert" /\ r.out
        known == new /\ r.info.node \in DOMAIN a
        dies == known /\ a[r.info.node] # r.info.old
    IN  /\ In(t, "unlock")
        /\ nodes' = Unlocked(nodes, {r.n})
        /\ Return(t, r.out)
        /\ tx' = [tx EXCEPT ![t].own = IF new THEN @ \cup {r.call.key} ELSE @,
                            ![t].absent = IF known /\ ~dies THEN [@ EXCEPT ![r.info.node] = r.info.new] ELSE @,
                            ![t].doomed = dies]
        /\ empty' = IF dies THEN empty \cup {r.call.oid} ELSE empty
        /\ todo' = IF dies THEN [todo EXCEPT ![t] = <<>>] ELSE todo
        /\ UNCHANGED <<root, reused, first, content, seen, broken>>

----------------------------------------------------------------------------
(* finish_remove() and remove_leaf() *)

FinishRemove(t) ==
    LET r == th[t]
        mod == nodes[r.n].mod
    IN  /\ In(t, "remove")
        /\ IF r.st = 0 THEN Local(t, [r EXCEPT !.out = FALSE, !.pc = "unlock"])
           ELSE Store(t, [r EXCEPT !.out = TRUE, !.pc = "take"],
                      IF mod # "insert" THEN nodes ELSE [nodes EXCEPT ![r.n].v = MarkInsert(@), ![r.n].mod = "remove"])

TakeKey(t) ==
    LET r == th[t]
        perm == Remove(nodes[r.n].perm, r.kx.i)
        stays == Size(perm) > 0 \/ nodes[r.n].prev = Nil
    IN  /\ In(t, "take")
        /\ Go(t, [r EXCEPT !.pc = IF stays THEN "unlock" ELSE "delete"])
        /\ nodes' = [nodes EXCEPT ![r.n].perm = perm]
        /\ Becomes(r.call.key, Nil)
        /\ UNCHANGED <<root, todo, tx, empty, reused, first, last, broken>>

DeleteLeaf(t) ==
    LET r == th[t]
    IN  /\ In(t, "delete")
        /\ Store(t, [r EXCEPT !.sn = r.n, !.x = IkeyBound(nodes[r.n]), !.pc = "unlink"],
                  [nodes EXCEPT ![r.n].v = MarkDeleted(@)])

(* unlink(): lock_next(), then the pointer of the left neighbour. *)
Unlink(t) ==
    LET r == th[t]
        next == nodes[r.n].next
    IN  /\ In(t, "unlink") /\ ~next.marked
        /\ Store(t, [r EXCEPT !.m = next.to, !.pc = "unlink left"],
                  IF next.to = Nil THEN nodes ELSE [nodes EXCEPT ![r.n].next.marked = TRUE])

UnlinkLeft(t) ==
    LET r == th[t]
        prev == nodes[r.n].prev
    IN  /\ In(t, "unlink left") /\ nodes[prev].next = Link(r.n, FALSE)
        /\ Store(t, [r EXCEPT !.c = prev, !.pc = "unlink right"], [nodes EXCEPT ![prev].next.marked = TRUE])

UnlinkRight(t) ==
    LET r == th[t]
    IN  /\ In(t, "unlink right")
        /\ Store(t, [r EXCEPT !.pc = "unlinked"], IF r.m = Nil THEN nodes ELSE [nodes EXCEPT ![r.m].prev = r.c])

Unlinked(t) ==
    LET r == th[t]
    IN  /\ In(t, "unlinked")
        /\ Store(t, [r EXCEPT !.m = Nil, !.c = Nil, !.pc = "remove parent"], [nodes EXCEPT ![r.c].next = Link(r.m, FALSE)])

RemoveReadParent(t) == ReadParent(t, "remove parent", "remove child")
RemoveLockParent(t) == LockParent(t, "remove parent", "remove child")

(* The removed child is unlocked before its parent changes. *)
MarkParent(t) ==
    LET r == th[t]
        p == nodes[r.p]
        kp == Upper(r.x, p)
        N == Unlocked(nodes, {r.sn})
    IN  /\ In(t, "remove child")
        /\ Checked(t, [r EXCEPT !.kp = kp, !.pc = "shift down"],
                    IF kp = 0 THEN N ELSE [N EXCEPT ![r.p].v = MarkInsert(@)],
                    "remove_leaf: key", r.p # Nil /\ (kp > 0 => p.ikey[kp - 1] = r.x))

(* The key goes, or becomes the one of a child that lost its first.  When  *)
(* the node has no first child left the search for the key goes on above.  *)
ShiftDown(t) ==
    LET r == th[t]
        p == nodes[r.p]
        q == IF r.kp = 0 THEN p ELSE IF r.reshape < 0 THEN Taken(p, r.kp) ELSE [p EXCEPT !.ikey[r.kp - 1] = r.reshape]
        ends == r.kp > 1 \/ (r.kp = 1 /\ q.child[0] # Nil)
        above == [r EXCEPT !.sn = r.p, !.pc = "remove parent"]
    IN  /\ In(t, "shift down")
        /\ IF ends /\ q.nkeys = 0
           THEN Store(t, [r EXCEPT !.sn = r.p, !.pc = "collapse"], [nodes EXCEPT ![r.p] = q])
           ELSE IF ends
           THEN /\ Return(t, TRUE)
                /\ nodes' = Unlocked([nodes EXCEPT ![r.p] = q], {r.p})
                /\ UNCHANGED <<root, todo, tx, empty, reused, first, content, seen, broken>>
           ELSE IF r.reshape >= 0 THEN Store(t, above, [nodes EXCEPT ![r.p] = q])
           ELSE IF q.nkeys = 0 THEN Store(t, above, [nodes EXCEPT ![r.p] = [q EXCEPT !.v = MarkDeleted(@)]])
           ELSE Store(t, [above EXCEPT !.reshape = q.ikey[0]], [nodes EXCEPT ![r.p] = [q EXCEPT !.child[0] = Nil]])

(* collapse(): an internode without keys is replaced by its only child. *)
CollapseReadParent(t) == ReadParent(t, "collapse", "replace")
CollapseLockParent(t) == LockParent(t, "collapse", "replace")

Replace(t) ==
    LET r == th[t]
        only == nodes[r.sn].child[0]
        kp == Upper(r.x, nodes[r.p])
    IN  /\ In(t, "replace")
        /\ IF r.p = Nil
           THEN /\ Return(t, TRUE)
                /\ nodes' = Unlocked(nodes, {r.sn})
                /\ UNCHANGED <<root, todo, tx, empty, reused, first, content, seen, broken>>
           ELSE Checked(t, [r EXCEPT !.m = only, !.pc = "replaced"], [nodes EXCEPT ![r.p].child[kp] = only],
                        "collapse: child", nodes[r.p].child[kp] = r.sn)

Replaced(t) ==
    LET r == th[t]
    IN  /\ In(t, "replaced")
        /\ Store(t, [r EXCEPT !.m = Nil, !.pc = "collapsed"], Adopt(nodes, {r.m}, r.p))

Collapsed(t) ==
    LET r == th[t]
        N == Unlocked([nodes EXCEPT ![r.sn].v = MarkDeleted(@)], {r.sn})
    IN  /\ In(t, "collapsed")
        /\ IF nodes[r.p].nkeys = 0 THEN Store(t, [r EXCEPT !.sn = r.p, !.pc = "collapse"], N)
           ELSE /\ Return(t, TRUE)
                /\ nodes' = Unlocked(N, {r.p})
                /\ UNCHANGED <<root, todo, tx, empty, reused, first, content, seen, broken>>

----------------------------------------------------------------------------
(* scan() and rscan(), with the helpers for the two directions and the     *)
(* scanner of masstree_btree.h.                                            *)

Reverse(r) == r.call.op = "rscan"
NextKi(r) == IF Reverse(r) THEN r.ki - 1 ELSE r.ki + 1
IsDuplicate(r, s) == IF Reverse(r) THEN Compare(r.ka, s.ikey, s.len) <= 0 /\ ~r.ub ELSE Compare(r.ka, s.ikey, s.len) >= 0

LowerKi(r, perm) ==
    LET kx == Lower(r.ka, perm, nodes[r.n])
    IN  IF ~Reverse(r) THEN kx.i ELSE IF r.ub THEN Size(perm) - 1 ELSE IF kx.p < 0 THEN kx.i - 1 ELSE kx.i

ShiftClear(r) ==
    LET pre == Append(r.ka.pre, r.ka.ikey)
    IN  IF Reverse(r) THEN [r EXCEPT !.ka = [pre |-> pre, ikey |-> MaxIkey, len |-> HasSuffix, suf |-> <<>>], !.ub = TRUE]
        ELSE [r EXCEPT !.ka = [pre |-> pre, ikey |-> 0, len |-> 0, suf |-> <<>>]]

Unshift(ka) == [pre |-> SubSeq(ka.pre, 1, Len(ka.pre) - 1), ikey |-> ka.pre[Len(ka.pre)], len |-> HasSuffix, suf |-> <<>>]

Push(r, below) == Reset([r EXCEPT !.stack = Append(@, [start |-> r.start, n |-> r.n, v |-> r.v, perm |-> r.perm, ki |-> r.ki])], below)

(* search_range_scanner_base::check(): from here on keys may be outside.   *)
BoundaryCompar(r) ==
    LET b == r.call.bound
        depth == Len(r.ka.pre)
        m == IF Len(b) < depth THEN Len(b) ELSE depth
        head == SubSeq(b, 1, m)
        pre == SubSeq(r.ka.pre, 1, m)
        last_ikey == nodes[r.n].slot[IF Size(r.perm) = 0 THEN 0 ELSE At(r.perm, Size(r.perm) - 1)].ikey
    IN  IF b = <<>> THEN r.bc
        ELSE IF Reverse(r) THEN r.bc \/ ~Before(head, pre)
        ELSE IF Before(head, pre) \/ (head = pre /\ Len(b) <= depth) THEN TRUE
        ELSE IF head = pre THEN b[depth + 1] <= last_ikey ELSE r.bc

(* visit_leaf() and on_resp_node(): the leaf as the scan saw it.           *)
Visit(t, r) ==
    /\ tx' = [tx EXCEPT ![t].absent = NodeRead(@, r.n, FullVersion(r.v, Size(r.perm)))]
    /\ UNCHANGED <<nodes, root, todo, empty, reused, first, content, seen, last, broken>>

PastBoundary(r) == LET k == FullString(r.ka) IN
    r.bc /\ (IF Reverse(r) THEN ~Before(r.call.bound, k) ELSE ~Before(k, r.call.bound))

(* A scan ends: the transaction has read the range. *)
Scanned(t, absent, r) ==
    /\ Return(t, r.out)
    /\ tx' = [tx EXCEPT ![t].absent = absent,
                        ![t].reads = @ \cup {[from |-> r.call, got |-> { r.out[i].key : i \in DOMAIN r.out }]}]
    /\ UNCHANGED <<nodes, root, todo, empty, reused, first, content, seen, broken>>

(* What follows an entry: scan_emit and visit_value(), or scan_down.  The  *)
(* leaf is visited first when vis says so.                                 *)
Emit(t, r, vis) ==
    LET r1 == IF vis THEN [r EXCEPT !.bc = BoundaryCompar(r)] ELSE r
        absent == IF vis THEN NodeRead(tx[t].absent, r.n, FullVersion(r.v, Size(r.perm))) ELSE tx[t].absent
        seeable == r.ent.lv \notin empty
        r2 == IF seeable THEN [r1 EXCEPT !.out = Append(@, [key |-> FullString(r.ka), oid |-> r.ent.lv])] ELSE r1
    IN  IF seeable /\ PastBoundary(r1) THEN Scanned(t, absent, r1)
        ELSE /\ Go(t, [r2 EXCEPT !.ki = NextKi(r), !.vis = FALSE, !.pc = "next"])
             /\ tx' = [tx EXCEPT ![t].absent = absent]
             /\ UNCHANGED <<nodes, root, todo, empty, reused, first, content, seen, last, broken>>

Onward(t, r, vis) ==
    IF vis THEN Go(t, [r EXCEPT !.bc = BoundaryCompar(th[t])]) /\ Visit(t, th[t])
    ELSE Local(t, r)

ScanInitial(t) ==
    LET r == th[t]
        perm == nodes[r.n].perm
        kx == Lower(r.ka, perm, nodes[r.n])
    IN  /\ In(t, "initial")
        /\ Local(t, IF r.v.deleted THEN Reset(r, r.start)
                    ELSE [r EXCEPT !.perm = perm, !.kx = kx, !.pc = "initial entry",
                                   !.ki = IF Reverse(r) /\ kx.p < 0 THEN kx.i - 1 ELSE kx.i])

InitialEntry(t) ==
    LET r == th[t]
    IN  /\ In(t, "initial entry")
        /\ Local(t, [r EXCEPT !.ent = IF r.kx.p < 0 THEN NoSlot ELSE nodes[r.n].slot[r.kx.p], !.pc = "initial check"])

(* initial_ksuf_match() decides on the first key when it has a suffix. *)
Matches(r) == r.ent.len = Ends \/ r.ent.suf = r.ka.suf
              \/ (IF Reverse(r) THEN Before(r.ent.suf, r.ka.suf) ELSE Before(r.ka.suf, r.ent.suf))

InitialCheck(t) ==
    LET r == th[t]
        go == [r EXCEPT !.mode = "retry", !.vis = TRUE, !.pc = "next"]
        hit == [r EXCEPT !.mode = "retry", !.ka.suf = r.ent.suf, !.ka.len = IF r.ent.suf = <<>> THEN Ends ELSE HasSuffix]
    IN  /\ In(t, "initial check")
        /\ IF HasChanged(nodes[r.n].v, r.v) THEN Local(t, [r EXCEPT !.pc = "advance"])
           ELSE IF r.kx.p < 0 THEN Onward(t, go, TRUE)
           ELSE IF r.ent.len = Layer THEN Onward(t, [Push(r, r.ent.lv) EXCEPT !.ka = Shift(@)], TRUE)
           ELSE IF Matches(r) THEN Emit(t, hit, TRUE)
           ELSE Onward(t, [go EXCEPT !.ki = NextKi(r)], TRUE)

(* find_retry() *)
ScanRetry(t) ==
    LET r == th[t]
        perm == nodes[r.n].perm
    IN  /\ In(t, "retry")
        /\ Local(t, IF r.v.deleted THEN Reset(r, r.start)
                    ELSE [r EXCEPT !.perm = perm, !.ki = LowerKi(r, perm), !.vis = TRUE, !.pc = "next"])

(* find_next() *)
NextEntry(t) ==
    LET r == th[t]
        there == r.ki \in 0 .. Size(r.perm) - 1
        nd == nodes[r.n]
    IN  /\ In(t, "next")
        /\ IF r.v.deleted THEN Onward(t, Reset(r, r.start), r.vis)
           ELSE IF there THEN Local(t, [r EXCEPT !.ent = nd.slot[At(r.perm, r.ki)], !.pc = "next check"])
           ELSE Local(t, [r EXCEPT !.pc = IF HasChanged(nd.v, r.v) THEN "changed" ELSE "next leaf"])

NextCheck(t) ==
    LET r == th[t]
        s == r.ent
        found == [r EXCEPT !.ka.ikey = s.ikey, !.ub = FALSE]
    IN  /\ In(t, "next check")
        /\ IF HasChanged(nodes[r.n].v, r.v) THEN Local(t, [r EXCEPT !.pc = "changed"])
           ELSE IF IsDuplicate(r, s) THEN Local(t, [r EXCEPT !.ki = NextKi(r), !.pc = "next"])
           ELSE IF s.len = Layer THEN Onward(t, Push(ShiftClear(found), s.lv), r.vis)
           ELSE Emit(t, [found EXCEPT !.ka.len = s.len, !.ka.suf = s.suf], r.vis)

(* helper.advance(), and scan_up when there is no further leaf. *)
NextLeaf(t) ==
    LET r == th[t]
        nd == nodes[r.n]
        to == IF Reverse(r) THEN nd.prev ELSE nd.next.to
        ka == IF Reverse(r) THEN [r.ka EXCEPT !.ikey = IkeyBound(nd), !.len = 0, !.suf = <<>>] ELSE r.ka
        f == r.stack[Len(r.stack)]
        up == [r EXCEPT !.stack = SubSeq(@, 1, Len(@) - 1), !.start = f.start, !.n = f.n, !.v = f.v, !.perm = f.perm,
                        !.ka = Unshift(@), !.vis = TRUE, !.pc = "next"]
    IN  /\ In(t, "next leaf")
        /\ IF to # Nil THEN Local(t, [r EXCEPT !.n = to, !.ka = ka, !.pc = "changed"])
           ELSE IF r.stack = <<>> THEN Scanned(t, tx[t].absent, r)
           ELSE Local(t, [up EXCEPT !.ki = IF Reverse(r) THEN f.ki - 1 ELSE f.ki + 1])

(* helper.stable(): backwards, a leaf that has split is left to the right. *)
Changed(t) ==
    LET r == th[t]
        nd == nodes[r.n]
        next == nd.next.to
        bound == IkeyBound(nodes[next])
        right == Reverse(r) /\ next # Nil /\ (r.ka.ikey > bound \/ (r.ka.ikey = bound /\ r.ka.len # 0))
    IN  /\ In(t, "changed") /\ ~Dirty(nd.v)
        /\ Local(t, IF right THEN [r EXCEPT !.n = next] ELSE [r EXCEPT !.v = nd.v, !.pc = "changed permutation"])

ChangedPermutation(t) ==
    LET r == th[t]
        perm == nodes[r.n].perm
        r1 == [r EXCEPT !.perm = perm, !.ki = LowerKi(r, perm)]
    IN  /\ In(t, "changed permutation")
        /\ IF r.vis THEN Go(t, [r1 EXCEPT !.bc = BoundaryCompar(r1), !.pc = "next"]) /\ Visit(t, r1)
           ELSE Local(t, [r1 EXCEPT !.vis = TRUE, !.pc = "next"])

----------------------------------------------------------------------------
(* check_phantom() at the end of the transaction: every remembered leaf    *)
(* has the version it had.                                                 *)

InRange(call, k) ==
    LET b == call.bound
    IN  CASE call.op = "search" -> k = call.key
          [] call.op = "scan" -> ~Before(k, call.key) /\ (b = <<>> \/ Before(k, b))
          [] OTHER -> ~Before(call.key, k) /\ (b = <<>> \/ Before(b, k))

There(k) == content[k] # Nil /\ content[k] \notin empty

CheckPhantom(a) == \A n \in DOMAIN a : LeafVersion(nodes[n]) = a[n]

(* missed: keys of others that came or went in the ranges it has read. *)
Commit(t) ==
    LET x == tx[t]
        Changed_(q) == { k \in Keys \ x.own : InRange(q.from, k) /\ (There(k) # (k \in q.got)) }
        missed == UNION { { [op |-> q.from.op, key |-> k] : k \in Changed_(q) } : q \in x.reads }
    IN  /\ t # Loader /\ Loaded /\ In(t, "idle") /\ todo[t] = <<>> /\ x.state = "open"
        /\ tx' = [tx EXCEPT ![t] = IF ~x.doomed /\ CheckPhantom(x.absent)
                                   THEN [NewTxn EXCEPT !.state = "committed", !.missed = missed]
                                   ELSE [NewTxn EXCEPT !.state = "aborted"]]
        /\ UNCHANGED <<nodes, root, th, todo, empty, reused, first, content, seen, last, broken>>

Done == \A t \in Threads : In(t, "idle") /\ todo[t] = <<>> /\ (t = Loader \/ tx[t].state # "open")
Finished == Done /\ UNCHANGED vars

Step(t) ==
    \/ Call(t) \/ ReachRoot(t) \/ ReadChild(t) \/ StableChild(t) \/ CheckParent(t) \/ Again(t) \/ Advance(t) \/ Walk(t)
    \/ GetIndex(t) \/ GetValue(t) \/ GetValidate(t)
    \/ ReadPermutation(t) \/ Find(t) \/ LockLeaf(t)
    \/ FindInsert(t) \/ AssignSlot(t) \/ MakeNewLayer(t) \/ LayerValue(t) \/ LayerLength(t)
    \/ Rearrange(t) \/ SplitLeaf(t) \/ LinkNext(t) \/ LinkLeft(t) \/ SplitReadParent(t) \/ SplitLockParent(t)
    \/ Enter(t) \/ SplitParent(t) \/ ShiftUp(t) \/ MarkHalf(t) \/ LeftHalf(t) \/ Release(t)
    \/ InsertValue(t) \/ FinishInsert(t) \/ Finish(t)
    \/ FinishRemove(t) \/ TakeKey(t) \/ DeleteLeaf(t) \/ Unlink(t) \/ UnlinkLeft(t) \/ UnlinkRight(t) \/ Unlinked(t)
    \/ RemoveReadParent(t) \/ RemoveLockParent(t) \/ MarkParent(t) \/ ShiftDown(t)
    \/ CollapseReadParent(t) \/ CollapseLockParent(t) \/ Replace(t) \/ Replaced(t) \/ Collapsed(t)
    \/ ScanInitial(t) \/ InitialEntry(t) \/ InitialCheck(t) \/ ScanRetry(t) \/ NextEntry(t) \/ NextCheck(t)
    \/ NextLeaf(t) \/ Changed(t) \/ ChangedPermutation(t)
    \/ Commit(t)

Next == (\E t \in Threads : Step(t)) \/ Finished

Spec == Init /\ [][Next]_vars
FairSpec == Spec /\ \A t \in Threads : WF_vars(Step(t))

----------------------------------------------------------------------------
(* Properties *)

(* Nodes, roots, permutations and remembered leaves are what the types of  *)
(* masstree_struct.hh allow: a permutation names every position once.      *)
MtTypeOK ==
    /\ root \in DOMAIN nodes
    /\ \A n \in DOMAIN nodes :
         LET nd == nodes[n]
         IN  IF nd.leaf THEN /\ Size(nd.perm) \in 0 .. LeafWidth /\ nd.perm < WordBits
                             /\ { At(nd.perm, i) : i \in 0 .. LeafWidth - 1 } = 0 .. LeafWidth - 1
             ELSE nd.nkeys \in 0 .. InternodeWidth
    /\ \A t \in Threads : th[t].n \in {Nil} \cup DOMAIN nodes /\ DOMAIN tx[t].absent \subseteq DOMAIN nodes

(* search() is linearisable: whatever splits, new layers, removals and     *)
(* reused positions it met, it returns what the key had at some moment     *)
(* between its call and its return.                                        *)
GetIsCurrent ==
    \A t \in Threads : last[t].call.op = "search" => last[t].out \in seen[t][last[t].call.key]

(* The guarantee of search_range_call(): "all keys which, at the time of   *)
(* invocation, are known to exist in the btree will be discovered on a     *)
(* scan", unless they are removed meanwhile.  They come in order, once,    *)
(* from inside the range, with a value they had during the scan.           *)
ScanComplete ==
    \A t \in Threads :
        LET call == last[t].call
            out == last[t].out
        IN  call.op \in {"scan", "rscan"} =>
              /\ \A i \in 1 .. Len(out) - 1 :
                    IF call.op = "scan" THEN Before(out[i].key, out[i + 1].key) ELSE Before(out[i + 1].key, out[i].key)
              /\ \A i \in DOMAIN out : out[i].key \in Keys /\ InRange(call, out[i].key) /\ out[i].oid \in seen[t][out[i].key] \ {Nil}
              /\ \A k \in Keys : InRange(call, k) /\ seen[t][k] \cap (empty \cup {Nil}) = {}
                                => \E i \in DOMAIN out : out[i].key = k

(* A transaction that check_phantom() lets commit has missed no insertion  *)
(* or removal in what it has read, but for two kinds of insertion: into an *)
(* entry with an empty version chain, which changes no version, and of the *)
(* first key of a new last leaf, which scan() leaves without visiting it.  *)
PhantomsSeen ==
    \A t \in Threads : \A m \in tx[t].missed : m.key \in reused \/ (m.key \in first /\ m.op # "search")

(* "on_resp_node() is called at least once per node which has a            *)
(* responibility range that overlaps with the scan range", so that a       *)
(* transaction that commits has missed no insertion into what it read.     *)
NoPhantom == \A t \in Threads : tx[t].missed = {}

(* The invariants the code asserts hold: locked_parent(), make_split(),    *)
(* split_into(), finish_insert(), remove_leaf() and collapse().            *)
AssertsHold == broken = {}

(* When all calls have returned nothing is locked, marked or lost: every   *)
(* node knows its parent, the leaves of a layer are one list in the order  *)
(* of their bounds, each within its bounds and sorted, and the entries are *)
(* exactly what insert_if_absent() and remove() have left.                 *)
RECURSIVE Under(_)
Under(n) == {n} \cup IF nodes[n].leaf THEN {} ELSE UNION { Under(nodes[n].child[i]) : i \in { j \in 0 .. nodes[n].nkeys : nodes[n].child[j] # Nil } }

RECURSIVE Entries(_, _)
Entries(top, pre) ==
    UNION { LET nd == nodes[n]
                E(s) == IF s.len = Layer THEN Entries(UnsplitAncestor(s.lv), Append(pre, s.ikey))
                        ELSE {[key |-> pre \o <<s.ikey>> \o s.suf, oid |-> s.lv]}
            IN  UNION { E(nd.slot[p]) : p \in Used(nd.perm) }
          : n \in { m \in Under(top) : nodes[m].leaf } }

RECURSIVE Tops(_)
Tops(top) ==
    LET L == { n \in Under(top) : nodes[n].leaf }
        S == UNION { { nodes[n].slot[p] : p \in Used(nodes[n].perm) } : n \in L }
    IN  {top} \cup UNION { Tops(UnsplitAncestor(s.lv)) : s \in { x \in S : x.len = Layer } }

LeafSound(n, L) ==
    LET nd == nodes[n]
        S(i) == nd.slot[At(nd.perm, i)]
    IN  /\ nd.next.to # Nil => /\ nd.next.to \in L /\ nodes[nd.next.to].prev = n
                               /\ \A i \in 0 .. Size(nd.perm) - 1 : S(i).ikey < IkeyBound(nodes[nd.next.to])
        /\ nd.prev # Nil => \A i \in 0 .. Size(nd.perm) - 1 : S(i).ikey >= IkeyBound(nd)
        /\ \A i \in 0 .. Size(nd.perm) - 2 : S(i).ikey < S(i + 1).ikey \/ (S(i).ikey = S(i + 1).ikey /\ S(i).len < S(i + 1).len)

TopSound(top) ==
    LET U == Under(top)
        L == { n \in U : nodes[n].leaf }
    IN  /\ nodes[top].parent = Nil
        /\ \A n \in U : ~nodes[n].v.locked /\ ~Dirty(nodes[n].v) /\ ~nodes[n].v.deleted
        /\ \A n \in U \ L : \A i \in 0 .. nodes[n].nkeys : nodes[n].child[i] # Nil => nodes[nodes[n].child[i]].parent = n
        /\ Cardinality({ n \in L : nodes[n].prev = Nil }) = 1 /\ Cardinality({ n \in L : nodes[n].next.to = Nil }) = 1
        /\ \A n \in L : ~nodes[n].next.marked /\ LeafSound(n, L)

TreeSound ==
    (\A t \in Threads : In(t, "idle")) =>
        LET top == UnsplitAncestor(root)
        IN  /\ \A n \in Tops(top) : TopSound(n)
            /\ Entries(top, <<>>) = { [key |-> k, oid |-> content[k]] : k \in { x \in Keys : content[x] # Nil } }

(* Every call returns: nobody waits for a lock, a mark or a stable version *)
(* for ever.                                                               *)
CallsReturn == <>[]Done

(* The structure of the tree: permutations are permutations, what the code *)
(* asserts holds, and the calls leave a sound tree behind.                 *)
IndexSound == MtTypeOK /\ AssertsHold /\ TreeSound
=============================================================================
