---------------------------- MODULE MasstreeNode ----------------------------
(***************************************************************************)
(* The nodes of Masstree (masstree_struct.hh), their version words         *)
(* (nodeversion.hh), keys (masstree_key.hh) and searches (ksearch.hh), as  *)
(* values: what a node is and what the operations on one node return.      *)
(*                                                                         *)
(* A key is a sequence of slices, each an ikey of eight bytes compared as  *)
(* one number; keys whose last slice is short are left out.  A stored key  *)
(* has a length code: it ends with its ikey (keylenx_ 8), has a suffix     *)
(* (64), or stands for a layer of keys that begin with it (128).  The      *)
(* suffix is kept with the slot; the bags of suffixes are left out.        *)
(***************************************************************************)
EXTENDS KPermuter, Sequences

InternodeWidth == 2     \* bound: as small as a split allows; the engine has 15
Nil == 0                \* the null pointer, and the empty leafvalue
MaxIkey == 99           \* ~ikey_type(0)

Ends == 1
HasSuffix == 2
Layer == 3

----------------------------------------------------------------------------
(* Version words.  The counters are not cut to their widths: a reader that *)
(* sleeps through 2^19 splits of a leaf is left out.                       *)

NewVersion == [locked |-> FALSE, inserting |-> FALSE, splitting |-> FALSE, vinsert |-> 0,
               vsplit |-> 0, deleted |-> FALSE, root |-> FALSE]

Dirty(v) == v.inserting \/ v.splitting
HasChanged(x, v) == [x EXCEPT !.locked = FALSE] # [v EXCEPT !.locked = FALSE]
HasSplitSince(x, v) == <<x.vsplit, x.deleted, x.root>> # <<v.vsplit, v.deleted, v.root>>
HasSplit(v) == ~v.root

Lock(v) == [v EXCEPT !.locked = TRUE]
MutMarkInsert(v) == v
MarkInsert(v) == [v EXCEPT !.inserting = TRUE]
MutMarkSplit(v) == v
MarkSplit(v) == [v EXCEPT !.splitting = TRUE]
MarkDeleted(v) == [v EXCEPT !.deleted = TRUE, !.splitting = TRUE]
MarkRoot(v) == [v EXCEPT !.root = TRUE]
MarkNonroot(v) == [v EXCEPT !.root = FALSE]

Unlock(v) ==
    [v EXCEPT !.locked = FALSE, !.inserting = FALSE, !.splitting = FALSE,
              !.vsplit = IF v.splitting THEN @ + 1 ELSE @,
              !.vinsert = IF v.splitting THEN 0 ELSE IF v.inserting THEN @ + 1 ELSE @,
              !.root = IF v.splitting THEN FALSE ELSE @]

(* The version shifted left by size_bits, which drops the deleted, root    *)
(* and leaf bits, plus the number of keys.                                 *)
MutFullVersion(v, size) == <<v.locked, v.inserting, v.splitting, v.vinsert, v.vsplit, 0>>
FullVersion(v, size) == <<v.locked, v.inserting, v.splitting, v.vinsert, v.vsplit, size>>
UnlockedVersionValue(v) == [v EXCEPT !.locked = FALSE, !.inserting = FALSE, !.splitting = FALSE]

----------------------------------------------------------------------------
(* Keys.  ka is what is left of a key below the layers in pre.             *)

KeyAt(pre, s) == [pre |-> pre, ikey |-> s[1], len |-> IF Len(s) > 1 THEN HasSuffix ELSE Ends, suf |-> Tail(s)]
Key(s) == KeyAt(<<>>, s)
Shift(ka) == KeyAt(Append(ka.pre, ka.ikey), ka.suf)
UnshiftAll(ka) == Key(ka.pre \o <<ka.ikey>> \o ka.suf)
FullString(ka) == ka.pre \o <<ka.ikey>> \o (IF ka.len = HasSuffix THEN ka.suf ELSE <<>>)

(* key::compare(): a key with a suffix equals any stored key that goes on. *)
Compare(ka, ikey, len) ==
    IF ka.ikey # ikey THEN ka.ikey - ikey
    ELSE IF ka.len = HasSuffix THEN (IF len = Ends THEN 1 ELSE 0)
    ELSE ka.len - len

(* The order of whole keys. *)
Before(a, b) ==
    \E i \in 1 .. Len(b) :
        /\ \A j \in 1 .. i - 1 : j <= Len(a) /\ a[j] = b[j]
        /\ i = Len(a) + 1 \/ (i <= Len(a) /\ a[i] < b[i])

----------------------------------------------------------------------------
(* Nodes *)

Slot(ka, lv) == [ikey |-> ka.ikey, len |-> ka.len, suf |-> ka.suf, lv |-> lv]
LayerSlot(ikey, n) == [ikey |-> ikey, len |-> Layer, suf |-> <<>>, lv |-> n]
NoSlot == [ikey |-> 0, len |-> 0, suf |-> <<>>, lv |-> Nil]

Link(n, m) == [to |-> n, marked |-> m]

NewLeaf == [leaf |-> TRUE, v |-> NewVersion, parent |-> Nil, mod |-> "insert", perm |-> MakeEmpty,
            slot |-> [p \in 0 .. LeafWidth - 1 |-> NoSlot], next |-> Link(Nil, FALSE), prev |-> Nil]
RootLeaf == [NewLeaf EXCEPT !.v = MarkRoot(@)]

NewInternode == [leaf |-> FALSE, v |-> NewVersion, parent |-> Nil, nkeys |-> 0,
                 ikey |-> [i \in 0 .. InternodeWidth - 1 |-> 0],
                 child |-> [i \in 0 .. InternodeWidth |-> Nil]]

IkeyBound(nd) == nd.slot[0].ikey
LeafVersion(nd) == FullVersion(nd.v, Size(nd.perm))

(* key_upper_bound(): how many keys of an internode are at most ikey. *)
Upper(ikey, nd) == LET S == { i \in 0 .. nd.nkeys - 1 : nd.ikey[i] > ikey }
                   IN  IF S = {} THEN nd.nkeys ELSE CHOOSE i \in S : \A j \in S : i <= j

(* key_lower_bound(): the index and position of an equal key, or the index *)
(* of the first greater one and no position.                               *)
Lower(ka, perm, nd) ==
    LET Cmp(i) == Compare(ka, nd.slot[At(perm, i)].ikey, nd.slot[At(perm, i)].len)
        S == { i \in 0 .. Size(perm) - 1 : Cmp(i) <= 0 }
        i == IF S = {} THEN Size(perm) ELSE CHOOSE x \in S : \A y \in S : x <= y
    IN  [i |-> i, p |-> IF S # {} /\ Cmp(i) = 0 THEN At(perm, i) ELSE -1]

(* compare_key() with the last key; an empty leaf answers with position 0. *)
LastKeyCompare(ka, nd) ==
    LET s == nd.slot[IF Size(nd.perm) = 0 THEN 0 ELSE At(nd.perm, Size(nd.perm) - 1)]
    IN  Compare(ka, s.ikey, s.len)

(* ksuf_matches(): 1 found, 0 not found, -1 look in the layer. *)
KsufMatches(ka, s) ==
    IF s.len = Layer THEN -1 ELSE IF s.len = Ends \/ s.suf = ka.suf THEN 1 ELSE 0
----------------------------------------------------------------------------
(* leaf::split_into(): nd, with ka to be inserted as its p-th key, gives   *)
(* the keys from mid on to a new right neighbour.                          *)

Item(nd, x, ka, p) ==
    IF x = p THEN Slot(ka, Nil) ELSE nd.slot[At(nd.perm, IF x > p THEN x - 1 ELSE x)]

Middle(nd, ka, p) ==
    LET width == Size(nd.perm)
        mid == IF p = 0 /\ nd.prev = Nil THEN 1
               ELSE IF p = width /\ nd.next.to = Nil THEN width ELSE LeafWidth \div 2 + 1
        I(x) == Item(nd, x, ka, p).ikey
        Right(d) == mid + 1 + d <= width /\ I(mid + 1 + d) # I(mid)
        D == { d \in 0 .. width : Right(d) \/ (mid - 2 - d >= 0 /\ I(mid - 2 - d) # I(mid)) }
        d == CHOOSE x \in D : \A y \in D : x <= y
    IN  IF I(mid) # I(mid - 1) THEN mid ELSE IF Right(d) THEN mid + 1 + d ELSE mid - 1 - d

SplitType(nd, p, mid) == IF p < mid THEN 0 ELSE IF mid = Size(nd.perm) THEN 2 ELSE 1

RightHalf(nd, ka, p, mid) ==
    LET n == Size(nd.perm) + 1 - mid
    IN  [NewLeaf EXCEPT
           !.slot = [x \in DOMAIN @ |-> IF x < n THEN Item(nd, mid + x, ka, p) ELSE @[x]],
           !.perm = Stored(IF p < mid THEN MakeSorted(n) ELSE RemoveToBack(MakeSorted(n), p - mid))]

(* What make_split() leaves in the permutation of the left half. *)
LeftPerm(nd, right) ==
    LET size == Size(nd.perm) - Size(right.perm)
        x == SetSize(nd.perm, size)
    IN  IF Size(nd.perm) = LeafWidth THEN x ELSE Exchange(x, size, LeafWidth - 1)

(* Entering a key and the child to its right: shift_up() and assign(). *)
Entered(nd, kp, ikey, c) ==
    [nd EXCEPT !.nkeys = @ + 1,
               !.ikey = [i \in DOMAIN @ |-> IF i < kp \/ i > nd.nkeys THEN @[i] ELSE IF i = kp THEN ikey ELSE @[i - 1]],
               !.child = [i \in DOMAIN @ |-> IF i <= kp \/ i > nd.nkeys + 1 THEN @[i] ELSE IF i = kp + 1 THEN c ELSE @[i - 1]]]

(* internode::split_into(): with ikey and its child at kp, a full node     *)
(* keeps what is left of the middle and hands the middle key up.           *)
MiddleKey(type) == IF type = 2 THEN InternodeWidth ELSE (InternodeWidth + 1) \div 2
KeyIn(nd, kp, ikey, j) == IF j < kp THEN nd.ikey[j] ELSE IF j = kp THEN ikey ELSE nd.ikey[j - 1]
ChildIn(nd, kp, c, j) == IF j <= kp THEN nd.child[j] ELSE IF j = kp + 1 THEN c ELSE nd.child[j - 1]

RightInternode(nd, kp, ikey, c, mid) ==
    [NewInternode EXCEPT
       !.v = MarkNonroot(nd.v), !.nkeys = InternodeWidth - mid,
       !.ikey = [i \in DOMAIN @ |-> IF i < InternodeWidth - mid THEN KeyIn(nd, kp, ikey, mid + 1 + i) ELSE @[i]],
       !.child = [i \in DOMAIN @ |-> IF i <= InternodeWidth - mid THEN ChildIn(nd, kp, c, mid + 1 + i) ELSE @[i]]]

(* remove_leaf(): the key at kp - 1 goes with the child to its right. *)
Taken(nd, kp) ==
    [nd EXCEPT !.nkeys = @ - 1,
               !.ikey = [i \in DOMAIN @ |-> IF i >= kp - 1 /\ i < nd.nkeys - 1 THEN @[i + 1] ELSE @[i]],
               !.child = [i \in DOMAIN @ |-> IF i >= kp /\ i < nd.nkeys THEN @[i + 1] ELSE @[i]]]

============================================================================
