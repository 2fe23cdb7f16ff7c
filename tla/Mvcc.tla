-------------------------------- MODULE Mvcc --------------------------------
(***************************************************************************)
(* Multi-version storage and transactions of the SI and RC builds: the     *)
(* OID array and its version chains (dbcore/sm-oid.cpp), XID contexts      *)
(* (dbcore/xid.h), the transaction life cycle (txn.cc), and the search,    *)
(* update and insert paths of base_txn_btree.cc over one index leaf.       *)
(*                                                                         *)
(* A worker runs one transaction at a time.  Each read or write of a word  *)
(* that other workers use is a step.  A version is known by its address, a *)
(* pair of its creator's XID and a number; its contents do not matter.     *)
(* Addresses are not reused: the allocator and its epochs are the subject  *)
(* of VersionGc.                                                           *)
(***************************************************************************)
EXTENDS Integers, Sequences, FiniteSets, Functions

CONSTANTS
    Workers,    \* threads that run transactions
    Contexts,   \* slots of the contexts[] array
    NoContext,  \* not a slot
    Keys,       \* keys of the index, 1..n
    Loaded,     \* keys that have a committed version at the start
    Builds,     \* for each build considered, whether it defines RC
    MaxTxns,    \* bound: transactions of all workers
    MaxEpoch,   \* bound: the epoch of the last XIDs issued
    MaxOps,     \* bound: operations of each transaction
    MaxOid      \* bound: the last OID that may be allocated

ASSUME ContextsAssumption == NoContext \notin Contexts
ASSUME KeysAssumption == (\A k \in Keys : k \in Nat /\ k # 0) /\ Loaded \subseteq Keys
ASSUME LoadedAssumption == \A k \in Loaded : k <= MaxOid
ASSUME BuildAssumption == Builds \subseteq BOOLEAN
ASSUME BoundsAssumption == MaxTxns \in Nat /\ MaxEpoch \in Nat /\ MaxOps \in Nat /\ MaxOid \in Nat

VARIABLES
    rc,         \* the build defines RC (read committed); never changes
    lsn,        \* sm_log_alloc_mgr::_lsn_offset
    owner,      \* xid_context::owner of each slot
    gen,        \* epoch of the last XID issued for each slot
    cstate,     \* xid_context::state
    cend,       \* xid_context::end
    head,       \* oid_array::_entries: the newest version of each OID
    next,       \* object::_next of each object
    clsn,       \* object::_clsn
    defunct,    \* objects marked by mark_defunct()
    index,      \* the OID each key of the leaf leads to, 0 if none
    nver,       \* version number of the leaf
    oids,       \* OIDs handed out by alloc_oid()
    xid,        \* transaction::xid of each worker
    begin,      \* xid_context::begin of that transaction
    wset,       \* transaction::write_set: pairs of OID and object
    absent,     \* version recorded in absent_set for the leaf, 0 if none
    unlinked,   \* tls_unlinked_objects: first object of the list
    pc,         \* next step of each worker
    op,         \* the operation in progress: its kind, key and OID
    cur,        \* the object under examination, or being undone
    nxt,        \* the successor of cur, as read
    holder,     \* the XID found in cur, and what was read of its context
    saw,        \* leaf version seen by the search
    left,       \* bound: transactions and operations left
    born,       \* history: begin stamp of each object's creator
    reads       \* history: what the current transaction's reads returned

contexts == <<owner, gen, cstate, cend>>
store == <<head, next, clsn, defunct>>
leaf == <<index, nver, oids>>
locals == <<cur, nxt, holder, saw>>
txn == <<xid, begin, wset, absent, unlinked>>
shared == <<rc, lsn, contexts, store, leaf, txn, left, born, reads>>
vars == <<shared, pc, op, locals>>

NoXid == <<NoContext, 0>>
NoObj == <<NoXid, 0>>
NoOp == [kind |-> "none", key |-> 0, oid |-> 0]

(* Stamps: the fat_ptr in _clsn is null, an XID or a log address. *)
NullPtr == [asi |-> "NULL", xid |-> NoXid, lsn |-> 0]
Xid(x) == [asi |-> "XID", xid |-> x, lsn |-> 0]
Log(n) == [asi |-> "LOG", xid |-> NoXid, lsn |-> n]

LogBlock == 2   \* bytes of a log block; any size above one
Oids == 1..MaxOid
Objects == DOMAIN clsn
Ctx(x) == x[1]
Epoch(x) == x[2]

Init ==
    /\ rc \in Builds
    /\ lsn = 0
    /\ owner = [c \in Contexts |-> NoXid]
    /\ gen = [c \in Contexts |-> 0]
    /\ cstate = [c \in Contexts |-> "ACTIVE"]
    /\ cend = [c \in Contexts |-> 0]
    /\ head = [o \in Oids |-> IF o \in Loaded THEN <<NoXid, o>> ELSE NoObj]
    /\ clsn = [v \in {<<NoXid, k>> : k \in Loaded} |-> Log(0)]
    /\ next = [v \in {<<NoXid, k>> : k \in Loaded} |-> NoObj]
    /\ born = [v \in {<<NoXid, k>> : k \in Loaded} |-> 0]
    /\ defunct = {}
    /\ index = [k \in Keys |-> IF k \in Loaded THEN k ELSE 0]
    /\ nver = 1
    /\ oids = Loaded
    /\ xid = [w \in Workers |-> NoXid]
    /\ begin = [w \in Workers |-> 0]
    /\ wset = [w \in Workers |-> <<>>]
    /\ absent = [w \in Workers |-> 0]
    /\ unlinked = [w \in Workers |-> NoObj]
    /\ pc = [w \in Workers |-> "idle"]
    /\ op = [w \in Workers |-> NoOp]
    /\ cur = [w \in Workers |-> NoObj]
    /\ nxt = [w \in Workers |-> NoObj]
    /\ holder = [w \in Workers |-> [xid |-> NoXid, state |-> "ACTIVE"]]
    /\ saw = [w \in Workers |-> 0]
    /\ left = [txns |-> MaxTxns, ops |-> [w \in Workers |-> 0]]
    /\ reads = [w \in Workers |-> {}]

Goto(w, label) == pc' = [pc EXCEPT ![w] = label]
Extend(f, v, x) == [u \in DOMAIN f \cup {v} |-> IF u = v THEN x ELSE f[u]]
Own(w) == Ctx(xid[w])
Numbers(x) == {0} \cup {v[2] : v \in {u \in Objects : u[1] = x}}
NewObj(w) == <<xid[w], 1 + CHOOSE n \in Numbers(xid[w]) : \A i \in Numbers(xid[w]) : i <= n>>

MutCreate(w, v, succ) ==
    /\ clsn' = Extend(clsn, v, Xid(xid[w]))
    /\ next' = next
    /\ born' = Extend(born, v, begin[w])

(* object::create_tuple_object() and the stores that prepare the version:  *)
(* its stamp is the creator's XID before anybody can reach it.             *)
Create(w, v, succ) ==
    /\ clsn' = Extend(clsn, v, Xid(xid[w]))
    /\ next' = Extend(next, v, succ)
    /\ born' = Extend(born, v, begin[w])

(* MM::deallocate() *)
Deallocate(w, v) ==
    /\ next' = [next EXCEPT ![v] = unlinked[w]]
    /\ unlinked' = [unlinked EXCEPT ![w] = v]

(* oid_unlink(): ditches the head, whatever it is. *)
Unlink(o) == head' = [head EXCEPT ![o] = next[head[o]]]

(* The locals of a finished operation. *)
Return(w) ==
    /\ op' = [op EXCEPT ![w] = NoOp]
    /\ cur' = [cur EXCEPT ![w] = NoObj]
    /\ nxt' = [nxt EXCEPT ![w] = NoObj]
    /\ holder' = [holder EXCEPT ![w] = [xid |-> NoXid, state |-> "ACTIVE"]]
    /\ saw' = [saw EXCEPT ![w] = 0]

-----------------------------------------------------------------------------
(* transaction::transaction() *)

(* xid_alloc(), as its contract has it: the slot is free and the XID was   *)
(* never used.  xid_free() returns a slot to the bitmap it came from, whose*)
(* turn is every fourth epoch.                                             *)
XidAlloc(w, c) ==
    /\ pc[w] = "idle" /\ left.txns > 0 /\ owner[c] = NoXid /\ gen[c] + 4 <= MaxEpoch
    /\ gen' = [gen EXCEPT ![c] = @ + 4]
    /\ owner' = [owner EXCEPT ![c] = <<c, gen[c] + 4>>]
    /\ cend' = [cend EXCEPT ![c] = 0]
    /\ cstate' = [cstate EXCEPT ![c] = "ACTIVE"]
    /\ xid' = [xid EXCEPT ![w] = <<c, gen[c] + 4>>]
    /\ left' = [left EXCEPT !.txns = @ - 1, !.ops[w] = MaxOps]
    /\ Goto(w, "ctor")
    /\ UNCHANGED <<rc, lsn, store, leaf, begin, wset, absent, unlinked, op, locals, born, reads>>

SetBegin(w) ==
    /\ pc[w] = "ctor"
    /\ begin' = [begin EXCEPT ![w] = lsn + 1]
    /\ Goto(w, "active")
    /\ UNCHANGED <<rc, lsn, contexts, store, leaf, xid, wset, absent, unlinked, op, locals, left, born, reads>>

-----------------------------------------------------------------------------
(* The index: mbtree::search() up to the OID, for do_search() and          *)
(* do_tree_put().                                                          *)

LookUp(w, kind, k) ==
    /\ op' = [op EXCEPT ![w] = [kind |-> kind, key |-> k, oid |-> index[k]]]
    /\ saw' = [saw EXCEPT ![w] = nver]
    /\ Goto(w, IF index[k] = 0 THEN "missing" ELSE "get")

Search(w, kind, k) ==
    /\ pc[w] = "active" /\ left.ops[w] > 0
    /\ left' = [left EXCEPT !.ops[w] = @ - 1]
    /\ LookUp(w, kind, k)
    /\ UNCHANGED <<rc, lsn, contexts, store, leaf, txn, cur, nxt, holder, born, reads>>

(* No visible version.  A read notes the leaf in absent_set, or finds that *)
(* it has changed (do_node_read()); a put gives up.                        *)
Missing(w) ==
    /\ pc[w] = "missing"
    /\ IF op[w].kind = "read"
         THEN /\ absent' = [absent EXCEPT ![w] = IF @ = 0 THEN saw[w] ELSE @]
              /\ Goto(w, IF absent[w] \in {0, saw[w]} THEN "active" ELSE "abort")
              /\ reads' = [reads EXCEPT ![w] = @ \cup {<<op[w].key, NoObj>>}]
         ELSE Goto(w, "abort") /\ UNCHANGED <<absent, reads>>
    /\ Return(w)
    /\ UNCHANGED <<rc, lsn, contexts, store, leaf, xid, begin, wset, unlinked, left, born>>

-----------------------------------------------------------------------------
(* oid_get_version() *)

(* Read the entry of the OID array; every "goto start_over" leads here. *)
GetHead(w) ==
    /\ pc[w] = "get"
    /\ cur' = [cur EXCEPT ![w] = head[op[w].oid]]
    /\ Goto(w, IF head[op[w].oid] = NoObj THEN "missing" ELSE "next")
    /\ UNCHANGED <<shared, op, nxt, holder, saw>>

GetNext(w) ==
    /\ pc[w] = "next"
    /\ nxt' = [nxt EXCEPT ![w] = next[cur[w]]]
    /\ Goto(w, "clsn")
    /\ UNCHANGED <<shared, op, cur, holder, saw>>

(* The successor to go on to: the value read before _clsn. *)
MutSuccessor(w) == next[cur[w]]
Successor(w) == nxt[w]

StartOver(w) == Goto(w, "get") /\ UNCHANGED cur

Found(w) ==
    /\ Goto(w, IF op[w].kind = "read" THEN "tuple" ELSE "put")
    /\ UNCHANGED cur

Advance(w) ==
    /\ cur' = [cur EXCEPT ![w] = Successor(w)]
    /\ Goto(w, IF Successor(w) = NoObj THEN "missing" ELSE "next")

MutVisibleLog(w, n) == TRUE
VisibleLog(w, n) == rc \/ n <= begin[w]
VisibleContext(w, end) == end < begin[w]

GetClsn(w) ==
    /\ pc[w] = "clsn"
    /\ LET c == clsn[cur[w]] IN
       \/ /\ c = NullPtr
          /\ StartOver(w) /\ UNCHANGED holder
       \/ /\ c.asi = "LOG"
          /\ IF VisibleLog(w, c.lsn) THEN Found(w) ELSE Advance(w)
          /\ UNCHANGED holder
       \/ /\ c = Xid(xid[w])
          /\ Found(w) /\ UNCHANGED holder
       \/ /\ c.asi = "XID" /\ c.xid # xid[w]
          /\ holder' = [holder EXCEPT ![w].xid = c.xid]
          /\ Goto(w, "ctx") /\ UNCHANGED cur
    /\ UNCHANGED <<shared, op, nxt, saw>>

(* xid_get_context(): the slot has an owner, of about the right epoch. *)
HasContext(x) ==
    /\ owner[Ctx(x)] # NoXid
    /\ Epoch(owner[Ctx(x)]) \in Epoch(x) .. Epoch(x) + 2

GetContext(w) ==
    /\ pc[w] = "ctx"
    /\ Goto(w, IF HasContext(holder[w].xid) THEN "state" ELSE "get")
    /\ UNCHANGED <<shared, op, locals>>

GetState(w) ==
    /\ pc[w] = "state"
    /\ holder' = [holder EXCEPT ![w].state = cstate[Ctx(holder[w].xid)]]
    /\ Goto(w, "owner")
    /\ UNCHANGED <<shared, op, cur, nxt, saw>>

(* The context still belongs to the XID found in the version. *)
Verified(w) == owner[Ctx(holder[w].xid)] = holder[w].xid

GetOwner(w) ==
    /\ pc[w] = "owner"
    /\ \/ /\ ~Verified(w)
          /\ StartOver(w)
       \/ /\ Verified(w) /\ holder[w].state = "CMMTD"
          /\ IF rc THEN Found(w) ELSE Goto(w, "end") /\ UNCHANGED cur
       \/ /\ Verified(w) /\ holder[w].state # "CMMTD"
          /\ Advance(w)
    /\ UNCHANGED <<shared, op, nxt, holder, saw>>

(* holder->end is read after the owner was verified. *)
GetEnd(w) ==
    /\ pc[w] = "end"
    /\ IF VisibleContext(w, cend[Ctx(holder[w].xid)]) THEN Found(w) ELSE Advance(w)
    /\ UNCHANGED <<shared, op, nxt, holder, saw>>

(* do_tuple_read() of the version found. *)
ReadTuple(w) ==
    /\ pc[w] = "tuple"
    /\ reads' = [reads EXCEPT ![w] = @ \cup {<<op[w].key, cur[w]>>}]
    /\ Goto(w, "active")
    /\ Return(w)
    /\ UNCHANGED <<rc, lsn, contexts, store, leaf, txn, left, born>>

-----------------------------------------------------------------------------
(* oid_put_update() and the rest of do_tree_put() *)

PutHead(w) ==
    /\ pc[w] = "put"
    /\ cur' = [cur EXCEPT ![w] = head[op[w].oid]]
    /\ Goto(w, "p_clsn")
    /\ UNCHANGED <<shared, op, nxt, holder, saw>>

(* First updater wins. *)
MayOverwrite(w, n) == rc \/ n < begin[w]

(* The entry is not null, or the next access would fault: the row was found. *)
PutClsn(w) ==
    /\ pc[w] = "p_clsn" /\ cur[w] # NoObj
    /\ LET c == clsn[cur[w]] IN
       \/ /\ c = NullPtr
          /\ Goto(w, "put") /\ UNCHANGED holder
       \/ /\ c = Xid(xid[w])
          /\ Goto(w, "overwrite") /\ UNCHANGED holder
       \/ /\ c.asi = "XID" /\ c.xid # xid[w]
          /\ holder' = [holder EXCEPT ![w].xid = c.xid]
          /\ Goto(w, "p_ctx")
       \/ /\ c.asi = "LOG"
          /\ Goto(w, IF MayOverwrite(w, c.lsn) THEN "install" ELSE "abort")
          /\ UNCHANGED holder
    /\ UNCHANGED <<shared, op, cur, nxt, saw>>

PutContext(w) ==
    /\ pc[w] = "p_ctx"
    /\ Goto(w, IF HasContext(holder[w].xid) THEN "p_state" ELSE "put")
    /\ UNCHANGED <<shared, op, locals>>

PutState(w) ==
    /\ pc[w] = "p_state"
    /\ holder' = [holder EXCEPT ![w].state = cstate[Ctx(holder[w].xid)]]
    /\ Goto(w, "p_owner")
    /\ UNCHANGED <<shared, op, cur, nxt, saw>>

(* The holder has left its mark on the head: only a committed one may be   *)
(* built upon.                                                             *)
MutSettled(s) == s \in {"CMMTD", "ABRTD"}
Settled(s) == s = "CMMTD"

PutOwner(w) ==
    /\ pc[w] = "p_owner"
    /\ Goto(w, IF ~Verified(w) THEN "put"
               ELSE IF Settled(holder[w].state) THEN "install" ELSE "abort")
    /\ UNCHANGED <<shared, op, locals>>

(* The compare-and-swap of the array entry. *)
Swapped(w) == head[op[w].oid] = cur[w]

Install(w) ==
    /\ pc[w] = "install"
    /\ IF Swapped(w)
         THEN LET v == NewObj(w) IN
              /\ Create(w, v, cur[w])
              /\ head' = [head EXCEPT ![op[w].oid] = v]
              /\ wset' = [wset EXCEPT ![w] = Append(@, <<op[w].oid, v>>)]
              /\ Goto(w, "active")
         ELSE Goto(w, "abort") /\ UNCHANGED <<head, clsn, next, born, wset>>
    /\ Return(w)
    /\ UNCHANGED <<rc, lsn, contexts, defunct, leaf, xid, begin, absent, unlinked, left, reads>>

(* An update of the transaction's own update replaces it ... *)
Overwrite(w) ==
    /\ pc[w] = "overwrite"
    /\ LET v == NewObj(w) IN
       /\ Create(w, v, next[cur[w]])
       /\ head' = [head EXCEPT ![op[w].oid] = v]
       /\ wset' = [wset EXCEPT ![w] = Append(@, <<op[w].oid, v>>)]
    /\ defunct' = defunct \cup {cur[w]}
    /\ Goto(w, "dealloc")
    /\ UNCHANGED <<rc, lsn, contexts, leaf, xid, begin, absent, unlinked, op, locals, left, reads>>

(* ... and do_tree_put() gives the replaced one back. *)
FreeOverwritten(w) ==
    /\ pc[w] = "dealloc"
    /\ Deallocate(w, cur[w])
    /\ Goto(w, "active")
    /\ Return(w)
    /\ UNCHANGED <<rc, lsn, contexts, head, clsn, defunct, leaf, xid, begin, wset, absent, left, born, reads>>

-----------------------------------------------------------------------------
(* try_insert_new_tuple() *)

(* alloc_oid() and oid_put_new() *)
Insert(w, k) ==
    /\ pc[w] = "active" /\ left.ops[w] > 0
    /\ \E o \in Oids \ oids :
         /\ \A p \in Oids \ oids : o <= p
         /\ oids' = oids \cup {o}
         /\ LET v == NewObj(w) IN
            /\ Create(w, v, NoObj)
            /\ head' = [head EXCEPT ![o] = v]
            /\ cur' = [cur EXCEPT ![w] = v]
         /\ op' = [op EXCEPT ![w] = [kind |-> "insert", key |-> k, oid |-> o]]
    /\ left' = [left EXCEPT !.ops[w] = @ - 1]
    /\ Goto(w, "insert")
    /\ UNCHANGED <<rc, lsn, contexts, defunct, index, nver, txn, nxt, holder, saw, reads>>

(* insert_if_absent() runs under the leaf's lock.  A key whose chain is    *)
(* empty counts as absent; only a key that is new changes the version.     *)
MutAbsent(k) == index[k] # 0 /\ head[index[k]] # NoObj => clsn[head[index[k]]].asi # "LOG"
Absent(k) == index[k] # 0 => head[index[k]] = NoObj

InsertIfAbsent(w) ==
    /\ pc[w] = "insert"
    /\ LET k == op[w].key
           o == op[w].oid
           bump == IF index[k] = 0 THEN nver + 1 ELSE nver IN
       \/ /\ ~Absent(k)
          /\ Goto(w, "retract")
          /\ UNCHANGED <<index, nver, absent, wset, op, locals>>
       \/ /\ Absent(k)
          /\ index' = [index EXCEPT ![k] = o] /\ nver' = bump
          /\ IF absent[w] \in {0, nver}
               THEN /\ absent' = [absent EXCEPT ![w] = IF @ = 0 THEN 0 ELSE bump]
                    /\ wset' = [wset EXCEPT ![w] = Append(@, <<o, cur[w]>>)]
                    /\ Goto(w, "active") /\ Return(w)
               ELSE Goto(w, "retract") /\ UNCHANGED <<absent, wset, op, locals>>
    /\ UNCHANGED <<rc, lsn, contexts, store, oids, xid, begin, unlinked, left, born, reads>>

(* The insert failed: the version is unlinked and a put takes its place. *)
Retract(w) ==
    /\ pc[w] = "retract"
    /\ Unlink(op[w].oid)
    /\ Goto(w, "upsert")
    /\ UNCHANGED <<rc, lsn, contexts, next, clsn, defunct, leaf, txn, op, locals, left, born, reads>>

Upsert(w) ==
    /\ pc[w] = "upsert"
    /\ LookUp(w, "put", op[w].key)
    /\ UNCHANGED <<shared, cur, nxt, holder>>

-----------------------------------------------------------------------------
(* transaction::commit() and si_commit() *)

CommitBegin(w) ==
    /\ pc[w] = "active"
    /\ cstate' = [cstate EXCEPT ![Own(w)] = "COMMITTING"]
    /\ Goto(w, "pre")
    /\ UNCHANGED <<rc, lsn, owner, gen, cend, store, leaf, txn, op, locals, left, born, reads>>

(* log->pre_commit(): the fetch-and-add that orders the transaction.  The  *)
(* stamp is the end of the block, and nobody reads it before CMMTD.        *)
PreCommit(w) ==
    /\ pc[w] = "pre"
    /\ lsn' = lsn + LogBlock
    /\ cend' = [cend EXCEPT ![Own(w)] = lsn + LogBlock]
    /\ Goto(w, "phantom")
    /\ UNCHANGED <<rc, owner, gen, cstate, store, leaf, txn, op, locals, left, born, reads>>

CheckPhantom(w) ==
    /\ pc[w] = "phantom"
    /\ Goto(w, IF absent[w] \in {0, nver} THEN "stamp" ELSE "abort")
    /\ UNCHANGED <<shared, op, locals>>

(* Post-commit: the versions of the write set get their log stamp ... *)
Stamp(w) ==
    /\ pc[w] = "stamp" /\ wset[w] # <<>>
    /\ LET v == Head(wset[w])[2] IN
       clsn' = IF v \in defunct THEN clsn ELSE [clsn EXCEPT ![v] = Log(cend[Own(w)])]
    /\ wset' = [wset EXCEPT ![w] = Tail(@)]
    /\ UNCHANGED <<rc, lsn, contexts, head, next, defunct, leaf, xid, begin, absent, unlinked,
                   pc, op, locals, left, born, reads>>

(* ... and then the transaction is committed. *)
MutAllStamped(w) == TRUE
AllStamped(w) == wset[w] = <<>>

Committed(w) ==
    /\ pc[w] = "stamp" /\ AllStamped(w)
    /\ cstate' = [cstate EXCEPT ![Own(w)] = "CMMTD"]
    /\ Goto(w, "exit")
    /\ UNCHANGED <<rc, lsn, owner, gen, cend, store, leaf, txn, op, locals, left, born, reads>>

-----------------------------------------------------------------------------
(* abort_impl(), after a failed operation or on request *)

AbortBegin(w) ==
    /\ pc[w] \in {"active", "abort"}
    /\ cstate' = [cstate EXCEPT ![Own(w)] = "ABRTD"]
    /\ Goto(w, "undo")
    /\ Return(w)
    /\ UNCHANGED <<rc, lsn, owner, gen, cend, store, leaf, txn, left, born, reads>>

UndoUnlink(w) ==
    /\ pc[w] = "undo" /\ wset[w] # <<>>
    /\ LET e == Head(wset[w]) IN
       IF e[2] \in defunct
         THEN /\ wset' = [wset EXCEPT ![w] = Tail(@)]
              /\ UNCHANGED <<head, pc>>
         ELSE /\ Unlink(e[1])
              /\ Goto(w, "undo_clsn")
              /\ UNCHANGED wset
    /\ UNCHANGED <<rc, lsn, contexts, next, clsn, defunct, leaf, xid, begin, absent, unlinked,
                   op, locals, left, born, reads>>

UndoClsn(w) ==
    /\ pc[w] = "undo_clsn"
    /\ clsn' = [clsn EXCEPT ![Head(wset[w])[2]] = NullPtr]
    /\ Goto(w, "undo_free")
    /\ UNCHANGED <<rc, lsn, contexts, head, next, defunct, leaf, txn, op, locals, left, born, reads>>

UndoFree(w) ==
    /\ pc[w] = "undo_free"
    /\ Deallocate(w, Head(wset[w])[2])
    /\ wset' = [wset EXCEPT ![w] = Tail(@)]
    /\ Goto(w, "undo")
    /\ UNCHANGED <<rc, lsn, contexts, head, clsn, defunct, leaf, xid, begin, absent,
                   op, locals, left, born, reads>>

-----------------------------------------------------------------------------
(* transaction::~transaction(), up to xid_free() *)

MutResolved(w) == pc[w] \in {"exit", "undo"}
Resolved(w) == pc[w] = "exit" \/ (pc[w] = "undo" /\ wset[w] = <<>>)

XidFree(w) ==
    /\ Resolved(w)
    /\ owner' = [owner EXCEPT ![Own(w)] = NoXid]
    /\ xid' = [xid EXCEPT ![w] = NoXid]
    /\ begin' = [begin EXCEPT ![w] = 0]
    /\ absent' = [absent EXCEPT ![w] = 0]
    /\ wset' = [wset EXCEPT ![w] = <<>>]
    /\ reads' = [reads EXCEPT ![w] = {}]
    /\ left' = [left EXCEPT !.ops[w] = 0]
    /\ Goto(w, "idle")
    /\ UNCHANGED <<rc, lsn, gen, cstate, cend, store, leaf, unlinked, op, locals, born>>

(* The bound on transactions is used up. *)
Finished ==
    /\ left.txns = 0 /\ \A w \in Workers : pc[w] = "idle"
    /\ UNCHANGED vars

Visit(w) ==
    \/ GetHead(w) \/ GetNext(w) \/ GetClsn(w) \/ GetContext(w) \/ GetState(w)
    \/ GetOwner(w) \/ GetEnd(w) \/ ReadTuple(w) \/ Missing(w)
Update(w) ==
    \/ PutHead(w) \/ PutClsn(w) \/ PutContext(w) \/ PutState(w) \/ PutOwner(w)
    \/ Install(w) \/ Overwrite(w) \/ FreeOverwritten(w)
    \/ InsertIfAbsent(w) \/ Retract(w) \/ Upsert(w)
Resolve(w) ==
    \/ PreCommit(w) \/ CheckPhantom(w) \/ Stamp(w) \/ Committed(w)
    \/ UndoUnlink(w) \/ UndoClsn(w) \/ UndoFree(w) \/ XidFree(w)
Choose(w) ==
    \/ \E k \in Keys : Search(w, "read", k) \/ Search(w, "put", k) \/ Insert(w, k)
    \/ CommitBegin(w) \/ AbortBegin(w)
Start(w) == (\E c \in Contexts : XidAlloc(w, c)) \/ SetBegin(w)

Next ==
    \/ \E w \in Workers : Visit(w) \/ Update(w) \/ Resolve(w) \/ Choose(w) \/ Start(w)
    \/ Finished

Spec == Init /\ [][Next]_vars

(* Threads are scheduled by the operating system: each goes on with the    *)
(* call it is in.                                                          *)
Continue(w) ==
    \/ Visit(w) \/ Update(w) \/ Resolve(w) \/ SetBegin(w)
    \/ pc[w] = "abort" /\ AbortBegin(w)
FairSpec == Spec /\ \A w \in Workers : WF_vars(Continue(w))

-----------------------------------------------------------------------------
(* The versions of an OID, from its array entry down. *)
Chain(o) ==
    LET at[n \in 0..Cardinality(Objects)] ==
          IF n = 0 THEN head[o]
          ELSE IF at[n - 1] = NoObj THEN NoObj ELSE next[at[n - 1]]
    IN  {at[n] : n \in DOMAIN at} \ {NoObj}

IsLog(v) == v # NoObj /\ clsn[v].asi = "LOG"

Labels == {"idle", "ctor", "active", "missing", "get", "next", "clsn", "ctx", "state",
           "owner", "end", "tuple", "put", "p_clsn", "p_ctx", "p_state", "p_owner",
           "install", "overwrite", "dealloc", "insert", "retract", "upsert", "pre",
           "phantom", "stamp", "abort", "undo", "undo_clsn", "undo_free", "exit"}
States == {"ACTIVE", "COMMITTING", "CMMTD", "ABRTD"}
Xids == {NoXid} \cup (Contexts \X Nat)

(* Every variable has its type: stamps are null, an XID or an LSN, links   *)
(* and array entries lead to objects, and a worker outside a transaction   *)
(* (transaction::~transaction()) holds no XID.                             *)
TypeOK ==
    /\ lsn \in Nat /\ nver \in Nat
    /\ owner \in [Contexts -> Xids] /\ gen \in [Contexts -> Nat]
    /\ cstate \in [Contexts -> States] /\ cend \in [Contexts -> Nat]
    /\ head \in [Oids -> Objects \cup {NoObj}]
    /\ next \in [Objects -> Objects \cup {NoObj}]
    /\ \A v \in Objects :
          \/ clsn[v] = NullPtr
          \/ IsLog(v) /\ clsn[v] = Log(clsn[v].lsn) /\ clsn[v].lsn \in Nat
          \/ clsn[v].xid \in Xids /\ clsn[v] = Xid(clsn[v].xid)
    /\ defunct \subseteq Objects /\ DOMAIN born = Objects
    /\ index \in [Keys -> 0..MaxOid] /\ oids \subseteq Oids
    /\ begin \in [Workers -> Nat] /\ absent \in [Workers -> 0..nver]
    /\ unlinked \in [Workers -> Objects \cup {NoObj}]
    /\ pc \in [Workers -> Labels]
    /\ cur \in [Workers -> Objects \cup {NoObj}] /\ nxt \in [Workers -> Objects \cup {NoObj}]
    /\ \A w \in Workers : xid[w] = NoXid <=> pc[w] = "idle"

(* Chain order: an entry of the OID array leads to a version that no abort *)
(* has nulled, and whatever lies below it, or below a committed version,   *)
(* is committed and older.  oid_unlink() counts on the head being "the     *)
(* (only) dirty version" when it drops the head without a compare-and-swap.*)
ChainOrder ==
    \A v \in Objects : v \in Range(head) \/ IsLog(v) =>
        /\ clsn[v] # NullPtr
        /\ next[v] # NoObj =>
             /\ IsLog(next[v])
             /\ IsLog(v) => clsn[next[v]].lsn < clsn[v].lsn

(* No committed version drops out of the store or out of the index's       *)
(* reach: whatever updates, aborts and failed inserts go on beside it, and *)
(* though insert_if_absent() may lead a key to a new OID, a key leads to   *)
(* it or it lies below a version that is committed or that a key leads to. *)
CommittedKept ==
    LET Entries == {head[index[k]] : k \in {l \in Keys : index[l] # 0}} IN
    \A v \in Objects : IsLog(v) =>
        v \in Entries \/ \E u \in Objects : next[u] = v /\ (IsLog(u) \/ u \in Entries)

(* The versions that a search can reach from now on. *)
InChain(v) ==
    \/ v \in Range(head)
    \/ \E u \in Objects : next[u] = v /\ (u \in Range(head) \/ IsLog(u))

(* What oid_get_version() hands to do_tuple_read() was never uncommitted   *)
(* or aborted work of another: it is the reader's own version, a committed *)
(* one, or one that its creator, committed by now, had itself overwritten  *)
(* or retracted, so that it is in no chain.  (The assertion at the top of  *)
(* do_tuple_read() leaves the last case out.)                              *)
NoDirtyRead ==
    \A w \in Workers : pc[w] = "tuple" =>
        \/ clsn[cur[w]] = Xid(xid[w])
        \/ IsLog(cur[w])
        \/ /\ clsn[cur[w]] = Xid(holder[w].xid) /\ holder[w].state = "CMMTD"
           /\ ~InChain(cur[w])

(* Under snapshot isolation a transaction never reads a version of another *)
(* one that committed at or after its own begin stamp, nor an aborted one, *)
(* unless the context of the version's creator has been issued again: then *)
(* oid_get_version() may have compared with the end stamp of its new owner.*)
NoFutureRead ==
    \A w \in Workers : \A r \in reads[w] :
        ~rc /\ r[2] # NoObj =>
          \/ r[2][1] = xid[w]
          \/ IsLog(r[2]) /\ clsn[r[2]].lsn < begin[w]
          \/ Epoch(r[2][1]) < gen[Ctx(r[2][1])]

(* Every call returns: no worker loops forever on "goto start_over" over a *)
(* version whose creator is gone, and every commit or abort ends.          *)
CallsReturn == \A w \in Workers : []<>(pc[w] \in {"idle", "active"})

-----------------------------------------------------------------------------
(* What comments promise and the code does not keep. *)

(* First updater wins (oid_put_update()): a version is never put over one  *)
(* that a concurrent transaction committed after the updater began.        *)
FirstUpdaterWins ==
    \A o \in Oids : \A v \in Chain(o) :
        next[v] # NoObj => clsn[next[v]].lsn < born[v]

(* The store of CMMTD at the end of si_commit() is "where (committed)      *)
(* tuple data are made visible to readers": who reads one version of a     *)
(* transaction reads no version that the same transaction has replaced.    *)
VisibleTogether ==
    \A w \in Workers : \A r, s \in reads[w] :
        (IsLog(r[2]) /\ r[2][1] # xid[w] /\ s[2] # NoObj) =>
            ~ \E v \in Chain(index[s[1]]) :
                /\ v[1] = r[2][1] /\ next[v] = s[2]
                /\ IsLog(v)

(* oid_get_version() does not lose its way: a row that was committed       *)
(* before the reader began is found.                                       *)
RowFound ==
    \A w \in Workers : \A r \in reads[w] :
        r[2] = NoObj /\ index[r[1]] # 0 =>
            \A v \in Chain(index[r[1]]) : IsLog(v) => clsn[v].lsn > begin[w]
=============================================================================
