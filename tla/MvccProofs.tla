----------------------------- MODULE MvccProofs -----------------------------
(***************************************************************************)
(* For any number of workers, contexts, keys, transactions and operations, *)
(* in the SI and the RC build: the version chains are in order, committed  *)
(* versions stay within reach of the index, and no read returns            *)
(* uncommitted or aborted work of another transaction.                     *)
(***************************************************************************)
EXTENDS MvccSteps

(* The provers of a leaf that names none, and their seconds. *)
USE ZenonT(10), SMTT(30), ZenonT(60)

(* Steps of w that only read what others can see. *)
Kept == UNCHANGED <<lsn, owner, gen, cstate, cend, head, next, clsn, defunct, born, index, nver, oids,
                    xid, wset, unlinked>>
Calm == Labels \ ({"idle", "ctor", "exit", "insert", "retract", "phantom", "stamp"} \cup Undoing)
Reads(w) ==
    /\ Kept /\ Others(w)
    /\ \/ pc[w] \in Calm \cup {"ctor", "phantom"} /\ pc'[w] \in Calm
       \/ pc[w] = "phantom" /\ pc'[w] = "stamp"

LEMMA ReadsKeep ==
    ASSUME IInv, NEW w \in Workers, Reads(w), TxnTypes', LocalTypes', Local(w)'
    PROVE  IInv'
<1>k. Types /\ Owners /\ Outcomes /\ WriteSet(w) /\ Kept
  BY DEF IInv, WriteSets, Reads
<1>0. /\ Objects' = Objects /\ Range(head)' = Range(head)
      /\ Writes(w)' = Writes(w) /\ Own(w)' = Own(w)
      /\ \A i : Entry(w, i)' = Entry(w, i)
  BY <1>k DEF Kept, Objects, Writes, Own, Entry
<1>p. /\ pc[w] \notin {"idle", "exit"} \cup Undoing \cup Inserting
      /\ pc'[w] \notin {"idle", "ctor", "exit"} \cup Undoing \cup Inserting
      /\ pc'[w] \in {"phantom", "stamp"} => pc[w] \in {"phantom", "stamp"}
  BY DEF Reads, Calm, Labels, Undoing, Inserting
<1>1. Types'
  BY <1>k, <1>0 DEF Types, ContextTypes, StoreTypes, LeafTypes, Kept
<1>2. ContextSteps(w)
  BY SMTT(30), SMTT(60), <1>k, <1>p DEF ContextSteps, Owners, Slot, Kept, Types, ContextTypes
<1>3. StoreSteps(w)
  BY <1>k, <1>0 DEF StoreSteps, Kept
<1>4. LeafSteps(w)
  BY SMTT(30), SMTT(60), <1>k DEF LeafSteps, Kept, Types, LeafTypes
<1>5. OwnHeads(w)
  BY <1>k, <1>0, <1>p DEF OwnHeads, Writer, Kept
<1>6. Holds(w)' /\ Outcome(w)'
  BY <1>k, <1>0, <1>p DEF Owners, Outcomes, Holds, Outcome, Kept
<1>7. WriteSet(w)'
  <2>1. pc'[w] \notin Undone /\ pc[w] \notin Undone
    BY <1>p DEF Undoing, Undone
  <2>2. \A o, v : Dirty(w, o, v) => Dirty(w, o, v)'
    BY <1>k, <1>0, <1>p DEF Dirty, Kept
  <2>3. \A i \in Writes(w) : Written(w, i)'
    BY <1>k, <1>0, <2>1, <2>2 DEF WriteSet, Written, Kept
  <2> QED
    BY <1>0, <1>p, <2>1, <2>3 DEF WriteSet
<1> QED
  BY <1>1, <1>2, <1>3, <1>4, <1>5, <1>6, <1>7, Combine DEF Step, Mine, Reads

(* Labels at which a worker believes nothing in particular. *)
Plain == Labels \ {"owner", "p_owner", "end", "tuple", "p_clsn", "install", "overwrite", "dealloc",
                   "insert", "retract"}
LEMMA PlainLocal ==
    ASSUME NEW w \in Workers, pc'[w] \in Plain, Refs(w)' PROVE Local(w)'
BY DEF Plain, Local, Reader, Updater, Inserting

(* The facts about w that the steps of w start from. *)
LEMMA Start0 ==
    ASSUME IInv, NEW w \in Workers
    PROVE  /\ Types /\ ContextTypes /\ StoreTypes /\ LeafTypes /\ TxnTypes /\ LocalTypes
           /\ Local(w) /\ Refs(w) /\ Reader(w) /\ Updater(w) /\ Holds(w) /\ Outcome(w) /\ WriteSet(w)
           /\ \A o \in Oids : Headed(o)
           /\ Names /\ Stamps /\ Owners /\ Links /\ ChainOrder /\ NoObj \notin Objects
           /\ pc[w] \in Labels /\ op[w] \in OpType /\ op[w].oid \in 0..MaxOid /\ holder[w] \in HolderType
           /\ pc[w] \in UsesCur => cur[w] \in Objects
BY Kinds DEF IInv, Types, LocalTypes, Locals, Local, Owners, Outcomes, WriteSets, Heads, Refs, OpType

(* What the write set holds, and a leaf that stays. *)
LEMMA EntryTypes ==
    ASSUME TxnTypes, NEW w \in Workers, NEW i \in Writes(w)
    PROVE  Entry(w, i)[1] \in Oids /\ Entry(w, i)[2] \in Ids
  BY SMTT(30), SMTT(60) DEF TxnTypes, Entry, Writes

LEMMA SameLeaf == ASSUME LeafTypes, UNCHANGED <<index, nver>>, NEW w PROVE LeafSteps(w)
<1>1. nver <= nver'
  BY SMTT(30), SMTT(60) DEF LeafTypes
<1> QED
  BY <1>1 DEF LeafSteps

LEMMA SameContexts ==
    ASSUME IInv, NEW w \in Workers, pc[w] # "exit", UNCHANGED <<lsn, owner, gen, cstate, cend, xid>>
    PROVE  ContextTypes' /\ ContextSteps(w)
<1>1. ContextTypes /\ Owners
  BY Start0
<1>2. ContextTypes' /\ lsn <= lsn' /\ \A c \in Contexts : gen[c] <= gen'[c]
  BY SMTT(30), SMTT(60), <1>1 DEF ContextTypes
<1> QED
  BY ZenonT(60), ZenonT(90), <1>1, <1>2 DEF ContextSteps, Owners, Slot, Own

LEMMA LookUpKeeps ==
    ASSUME IInv, NEW w \in Workers, NEW kind \in {"read", "put"}, NEW k \in Keys,
           pc[w] \in {"active", "upsert"}, LookUp(w, kind, k), Kept,
           UNCHANGED <<begin, absent, cur, nxt, holder>>
    PROVE  IInv'
<1>k. LocalTypes /\ TxnTypes /\ LeafTypes /\ Refs(w)
  BY Start0
<1>0. /\ op' = [op EXCEPT ![w] = [kind |-> kind, key |-> k, oid |-> index[k]]]
      /\ saw' = [saw EXCEPT ![w] = nver]
      /\ pc' = [pc EXCEPT ![w] = IF index[k] = 0 THEN "missing" ELSE "get"]
  BY DEF LookUp, Goto
<1>1. index[k] \in 0..MaxOid /\ nver \in Nat
  BY <1>k DEF LeafTypes
<1>2. TxnTypes'
  BY <1>k DEF TxnTypes, Kept
<1>3. LocalTypes'
  <2>1. pc' \in [Workers -> Labels]
    BY <1>k, <1>0 DEF LocalTypes, Labels
  <2>2. op' \in [Workers -> OpType]
    BY <1>k, <1>0, <1>1 DEF LocalTypes, OpType
  <2>3. saw' \in [Workers -> Nat]
    BY <1>k, <1>0, <1>1 DEF LocalTypes
  <2> QED
    BY <1>k, <2>1, <2>2, <2>3 DEF LocalTypes
<1>4. /\ pc'[w] = IF index[k] = 0 THEN "missing" ELSE "get"
      /\ op'[w].oid = index[k] /\ saw'[w] = nver
  BY <1>k, <1>0 DEF LocalTypes
<1>5. Reads(w)
  <2>1. Others(w)
    BY <1>k, <1>0 DEF Others, Kept, LocalTypes
  <2> QED
    BY <1>4, <2>1 DEF Reads, Calm, Labels, Undoing
<1>6. Local(w)'
  <2>1. pc'[w] = "get" => op'[w].oid \in Oids
    BY SMTT(30), SMTT(60), <1>1, <1>4, BoundsAssumption DEF Oids
  <2>2. Objects' = Objects
    BY DEF Kept, Objects
  <2>3. Refs(w)'
    BY SMTT(30), SMTT(60), <1>k, <1>1, <1>4, <2>1, <2>2 DEF Refs, Kept, UsesOid, UsesCur, UsesKey, UsesHolder
  <2> QED
    BY <1>4, <2>3, PlainLocal DEF Plain, Labels
<1> QED
  BY <1>2, <1>3, <1>5, <1>6, ReadsKeep

LEMMA SearchKeeps ==
    ASSUME IInv, NEW w \in Workers, NEW kind \in {"read", "put"}, NEW k \in Keys, Search(w, kind, k)
    PROVE  IInv'
<1>1. Kept /\ UNCHANGED <<begin, absent, cur, nxt, holder>>
  BY DEF Search, Kept, contexts, store, leaf, txn
<1> QED
  BY <1>1, LookUpKeeps DEF Search

LEMMA UpsertKeeps ==
    ASSUME IInv, NEW w \in Workers, Upsert(w)
    PROVE  IInv'
<1>1. Kept /\ UNCHANGED <<begin, absent, cur, nxt, holder>>
  BY DEF Upsert, Kept, shared, contexts, store, leaf, txn
<1>2. op[w].key \in Keys
  BY Start0 DEF Upsert, Refs, UsesKey
<1> QED
  BY <1>1, <1>2, LookUpKeeps DEF Upsert

(* Returning from an operation leaves nothing in w's hands. *)
LEMMA ReturnTypes ==
    ASSUME LocalTypes, NEW w \in Workers, Return(w), NEW l \in Labels, pc' = [pc EXCEPT ![w] = l]
    PROVE  /\ LocalTypes'
           /\ pc'[w] = l /\ op'[w] = NoOp /\ cur'[w] = NoObj /\ nxt'[w] = NoObj /\ saw'[w] = 0
           /\ \A u \in Workers : u # w =>
                /\ pc'[u] = pc[u] /\ op'[u] = op[u] /\ cur'[u] = cur[u] /\ nxt'[u] = nxt[u]
                /\ holder'[u] = holder[u] /\ saw'[u] = saw[u]
<1>1. NoObj \in Ids /\ NoXid \in Xids
  BY DEF NoObj, NoXid, Ids, Xids
<1>2. pc' \in [Workers -> Labels]
  BY DEF LocalTypes
<1>3. NoOp \in OpType
  BY SMTT(30), SMTT(60), BoundsAssumption DEF NoOp, OpType
<1>4. op' \in [Workers -> OpType]
  BY <1>3 DEF LocalTypes, Return
<1>5. cur' \in [Workers -> Ids] /\ nxt' \in [Workers -> Ids]
  BY <1>1 DEF LocalTypes, Return
<1>6. [xid |-> NoXid, state |-> "ACTIVE"] \in HolderType
  BY <1>1 DEF HolderType, States
<1>7. holder' \in [Workers -> HolderType]
  BY <1>6 DEF LocalTypes, Return
<1>8. saw' \in [Workers -> Nat]
  BY DEF LocalTypes, Return
<1>9. LocalTypes'
  BY <1>2, <1>4, <1>5, <1>7, <1>8 DEF LocalTypes
<1> QED
  BY <1>9 DEF LocalTypes, Return

TxnsStay(w) ==
    \A u \in Workers : u # w =>
        /\ xid'[u] = xid[u] /\ wset'[u] = wset[u]
        /\ absent'[u] = absent[u] /\ unlinked'[u] = unlinked[u]
LEMMA ReturnStep ==
    ASSUME LocalTypes, NEW w \in Workers, Return(w), NEW l \in Labels, pc' = [pc EXCEPT ![w] = l], TxnsStay(w)
    PROVE  LocalTypes' /\ Others(w) /\ pc'[w] = l
  BY ReturnTypes DEF Others, TxnsStay

LEMMA ReturnLocal ==
    ASSUME LocalTypes, TxnTypes', LeafTypes', NEW w \in Workers, Return(w),
           NEW l \in {"active", "abort", "undo"}, pc' = [pc EXCEPT ![w] = l],
           unlinked'[w] \in Objects' \cup {NoObj}, absent'[w] <= nver'
    PROVE  Local(w)'
<1>1. pc'[w] = l /\ cur'[w] = NoObj /\ nxt'[w] = NoObj /\ saw'[w] = 0
  BY ReturnTypes DEF Labels
<1>2. Refs(w)'
  BY SMTT(30), SMTT(60), <1>1 DEF Refs, UsesOid, UsesCur, UsesKey, UsesHolder, LeafTypes
<1> QED
  BY <1>1, <1>2, PlainLocal DEF Plain, Labels

LEMMA MissingKeeps ==
    ASSUME IInv, NEW w \in Workers, Missing(w) PROVE IInv'
<1>k. LocalTypes /\ TxnTypes /\ LeafTypes /\ Refs(w)
  BY Start0
<1>0. /\ pc[w] = "missing" /\ Kept /\ UNCHANGED begin /\ Return(w)
      /\ absent' = absent \/ absent' = [absent EXCEPT ![w] = IF @ = 0 THEN saw[w] ELSE @]
  BY DEF Missing, Kept, contexts, store, leaf
<1>1. PICK l \in {"active", "abort"} : pc' = [pc EXCEPT ![w] = l]
  BY DEF Missing, Goto
<1>2. absent' \in [Workers -> Nat] /\ absent'[w] <= nver /\ \A u \in Workers : u # w => absent'[u] = absent[u]
  BY <1>k, <1>0 DEF TxnTypes, LocalTypes, Refs
<1>3. TxnTypes' /\ LeafTypes'
  BY <1>k, <1>0, <1>2 DEF TxnTypes, LeafTypes, Kept
<1>4. LocalTypes' /\ Others(w) /\ pc'[w] = l
  <2>1. l \in Labels /\ TxnsStay(w)
    BY <1>0, <1>1, <1>2 DEF TxnsStay, Kept, Labels
  <2> QED
    BY <1>k, <1>0, <1>1, <2>1, ReturnStep
<1>5. Reads(w)
  BY <1>0, <1>4 DEF Reads, Calm, Labels, Undoing
<1>6. Local(w)'
  BY <1>k, <1>0, <1>1, <1>2, <1>3, ReturnLocal DEF Refs, Kept, Objects
<1> QED
  BY <1>3, <1>4, <1>5, <1>6, ReadsKeep

LEMMA ReadTupleKeeps ==
    ASSUME IInv, NEW w \in Workers, ReadTuple(w) PROVE IInv'
<1>k. LocalTypes /\ TxnTypes /\ LeafTypes /\ Refs(w)
  BY Start0
<1>0. /\ pc[w] = "tuple" /\ Kept /\ UNCHANGED <<begin, absent>> /\ Return(w)
      /\ pc' = [pc EXCEPT ![w] = "active"]
  BY DEF ReadTuple, Goto, Kept, contexts, store, leaf, txn
<1>3. TxnTypes' /\ LeafTypes'
  BY <1>k, <1>0 DEF TxnTypes, LeafTypes, Kept
<1>4. LocalTypes' /\ Others(w) /\ pc'[w] = "active"
  <2>1. "active" \in Labels /\ TxnsStay(w)
    BY <1>0 DEF TxnsStay, Kept, Labels
  <2> QED
    BY <1>k, <1>0, <2>1, ReturnStep
<1>5. Reads(w)
  BY <1>0, <1>4 DEF Reads, Calm, Labels, Undoing
<1>6. Local(w)'
  BY <1>k, <1>0, <1>3, ReturnLocal DEF Refs, Kept, Objects
<1> QED
  BY <1>3, <1>4, <1>5, <1>6, ReadsKeep

(* The steps of oid_get_version() and oid_put_update() up to the result. *)
Moves(w) ==
    /\ Kept /\ UNCHANGED <<begin, absent, op, saw>>
    /\ \A u \in Workers : u # w =>
         pc'[u] = pc[u] /\ cur'[u] = cur[u] /\ nxt'[u] = nxt[u] /\ holder'[u] = holder[u]
    /\ pc[w] \in Calm /\ pc'[w] \in Calm

LEMMA MovesKeep ==
    ASSUME IInv, NEW w \in Workers, Moves(w), LocalTypes',
           cur'[w] \in Objects \cup {NoObj}, nxt'[w] \in Objects \cup {NoObj},
           pc'[w] \in UsesOid => op[w].oid \in Oids,
           pc'[w] \notin UsesKey,
           pc'[w] \in UsesCur => cur'[w] # NoObj,
           pc'[w] \in UsesHolder => holder'[w].xid = cur'[w][1] /\ Known(holder'[w].xid),
           Reader(w)', Updater(w)'
    PROVE  IInv'
<1>1. TxnTypes'
  BY Start0 DEF Moves, Kept, TxnTypes
<1>2. Reads(w)
  BY DEF Reads, Moves, Others, Kept
<1>3. Refs(w)'
  <2>1. Refs(w)
    BY Start0
  <2>2. Known(holder'[w].xid) => Known(holder[w].xid)'
    BY DEF Known, Moves, Kept
  <2> QED
    BY <2>1, <2>2 DEF Refs, Moves, Kept, Objects
<1> QED
  BY <1>1, <1>2, <1>3, ReadsKeep DEF Local

(* A committed context that still belongs to the creator of a version: the *)
(* version is committed, or in no chain.                                   *)
LEMMA Verdict ==
    ASSUME IInv, NEW w \in Workers, pc[w] \in {"owner", "p_owner"}, Verified(w), holder[w].state = "CMMTD"
    PROVE  /\ ReadsCommitted(w)
           /\ IsLog(cur[w]) \/ cur[w] \notin Range(head)
<1> DEFINE h == holder[w].xid
           v == cur[w]
<1>k. Names /\ Stamps /\ Owners /\ StoreTypes
  BY Start0
<1>1. v \in Objects /\ h = v[1] /\ Known(h)
  BY Start0 DEF Refs, UsesHolder, UsesCur, UsesOid
<1>2. owner[Ctx(h)] = h /\ cstate[Ctx(h)] = "CMMTD"
  BY Start0 DEF Reader, Verified
<1>3. Done(h)
  <2> SUFFICES ASSUME NEW u \in Workers, xid[u] = h PROVE pc[u] = "exit"
    BY DEF Done
  <2>1. xid[u] # NoXid
    BY <1>k, <1>1, Kinds DEF Known
  <2>2. pc[u] # "idle" /\ Own(u) = Ctx(h)
    BY <1>k, <2>1 DEF Owners, Holds, Own
  <2> QED
    BY <1>2, <2>2 DEF IInv, Outcomes, Outcome
<1>4. clsn[v] # NullPtr
  BY SMTT(30), SMTT(60), <1>k, <1>1, <1>2, StampFacts DEF Stamps, Stamped
<1>5. IsLog(v) \/ clsn[v] = Xid(h)
  BY <1>k, <1>1, <1>4, Kinds
<1>6. ASSUME clsn[v] = Xid(h), v \in Range(head) PROVE FALSE
  <2>1. PICK o \in Oids : head[o] = v
    BY <1>k, <1>6, Entries
  <2>2. PICK u \in Workers : xid[u] = v[1] /\ Writer(u, o)
    BY <1>k, <1>1, <1>6, <2>1, Kinds, StampFacts DEF IInv, Heads, Headed
  <2>3. pc[u] = "exit"
    BY <1>1, <1>3, <2>2 DEF Done
  <2>4. wset[u] = <<>>
    BY <2>3 DEF IInv, WriteSets, WriteSet
  <2> QED
    BY SMTT(30), SMTT(60), <2>2, <2>3, <2>4 DEF Writer, Writes, Inserting
<1> QED
  BY <1>1, <1>3, <1>5, <1>6 DEF ReadsCommitted

LEMMA GetHeadKeeps ==
    ASSUME IInv, NEW w \in Workers, GetHead(w) PROVE IInv'
<1>k. LocalTypes /\ StoreTypes /\ Refs(w) /\ \A o \in Oids : Headed(o)
  BY Start0
<1>0. /\ pc[w] = "get" /\ cur' = [cur EXCEPT ![w] = head[op[w].oid]]
      /\ pc' = [pc EXCEPT ![w] = IF head[op[w].oid] = NoObj THEN "missing" ELSE "next"]
      /\ Kept /\ UNCHANGED <<begin, absent, op, nxt, holder, saw>>
  BY DEF GetHead, Goto, Kept, shared, contexts, store, leaf, txn
<1>1. op[w].oid \in Oids /\ head[op[w].oid] \in Objects \cup {NoObj} /\ head[op[w].oid] \in Ids
  BY <1>k, <1>0 DEF Refs, UsesOid, Headed, StoreTypes
<1>2. LocalTypes'
  BY <1>k, <1>0, <1>1 DEF LocalTypes, Labels
<1>3. /\ pc'[w] = IF head[op[w].oid] = NoObj THEN "missing" ELSE "next"
      /\ cur'[w] = head[op[w].oid] /\ nxt'[w] = nxt[w]
  BY <1>k, <1>0 DEF LocalTypes
<1>4. Moves(w)
  BY <1>k, <1>0, <1>3 DEF Moves, LocalTypes, Calm, Labels, Undoing
<1>5. Reader(w)' /\ Updater(w)'
  BY <1>3 DEF Reader, Updater, Inserting
<1> QED
  BY <1>k, <1>1, <1>2, <1>3, <1>4, <1>5, MovesKeep DEF Refs, UsesOid, UsesCur, UsesKey, UsesHolder

LEMMA GetNextKeeps ==
    ASSUME IInv, NEW w \in Workers, GetNext(w) PROVE IInv'
<1>k. LocalTypes /\ StoreTypes /\ Refs(w) /\ Links /\ NoObj \notin Objects
  BY Start0
<1>0. /\ pc[w] = "next" /\ nxt' = [nxt EXCEPT ![w] = next[cur[w]]]
      /\ pc' = [pc EXCEPT ![w] = "clsn"]
      /\ Kept /\ UNCHANGED <<begin, absent, op, cur, holder, saw>>
  BY DEF GetNext, Goto, Kept, shared, contexts, store, leaf, txn
<1>1. /\ op[w].oid \in Oids /\ cur[w] \in Objects
      /\ next[cur[w]] \in Objects \cup {NoObj} /\ next[cur[w]] \in Ids
  BY <1>k, <1>0 DEF Refs, UsesOid, UsesCur, Links, StoreTypes
<1>2. LocalTypes'
  BY <1>k, <1>0, <1>1 DEF LocalTypes, Labels
<1>3. pc'[w] = "clsn" /\ nxt'[w] = next[cur[w]] /\ cur'[w] = cur[w]
  BY <1>k, <1>0 DEF LocalTypes
<1>4. Moves(w)
  BY <1>k, <1>0, <1>3 DEF Moves, LocalTypes, Calm, Labels, Undoing
<1>5. Reader(w)' /\ Updater(w)'
  BY <1>3 DEF Reader, Updater, Inserting
<1> QED
  BY <1>k, <1>1, <1>2, <1>3, <1>4, <1>5, MovesKeep DEF UsesKey, UsesHolder

(* Where a visit to a version may lead: back to the array entry, on to the *)
(* successor, or out with the version.                                     *)
LEMMA VisitEnds ==
    ASSUME IInv, NEW w \in Workers, pc[w] \in {"clsn", "owner", "end"},
           Kept, UNCHANGED <<begin, absent, op, nxt, holder, saw>>,
           \/ StartOver(w) \/ Advance(w)
           \/ Found(w) /\ (clsn[cur[w]] = Xid(xid[w]) \/ IsLog(cur[w]) \/ ReadsCommitted(w))
    PROVE  IInv'
<1>k. LocalTypes /\ Refs(w) /\ NoObj \notin Objects
  BY Start0
<1>1. op[w].oid \in Oids /\ cur[w] \in Objects /\ nxt[w] \in Ids /\ nxt[w] \in Objects \cup {NoObj}
  BY <1>k DEF Refs, UsesOid, UsesCur, LocalTypes
<1>2. CASE StartOver(w)
  <2>0. pc' = [pc EXCEPT ![w] = "get"] /\ cur' = cur
    BY <1>2 DEF StartOver, Goto
  <2>1. LocalTypes' /\ pc'[w] = "get"
    BY <1>k, <2>0 DEF LocalTypes, Labels
  <2>2. Moves(w)
    BY <1>k, <2>0, <2>1 DEF Moves, LocalTypes, Calm, Labels, Undoing
  <2>3. Reader(w)' /\ Updater(w)'
    BY <2>1 DEF Reader, Updater, Inserting
  <2> QED
    BY <1>k, <1>1, <2>0, <2>1, <2>2, <2>3, MovesKeep DEF UsesOid, UsesCur, UsesKey, UsesHolder
<1>3. CASE Advance(w)
  <2>0. /\ pc' = [pc EXCEPT ![w] = IF nxt[w] = NoObj THEN "missing" ELSE "next"]
        /\ cur' = [cur EXCEPT ![w] = nxt[w]]
    BY <1>3 DEF Advance, Goto, Successor
  <2>1. LocalTypes' /\ pc'[w] = (IF nxt[w] = NoObj THEN "missing" ELSE "next") /\ cur'[w] = nxt[w]
    BY <1>k, <1>1, <2>0 DEF LocalTypes, Labels
  <2>2. Moves(w)
    BY <1>k, <2>0, <2>1 DEF Moves, LocalTypes, Calm, Labels, Undoing
  <2>3. Reader(w)' /\ Updater(w)'
    BY <2>1 DEF Reader, Updater, Inserting
  <2> QED
    BY SMTT(30), SMTT(60), <1>k, <1>1, <2>0, <2>1, <2>2, <2>3, MovesKeep DEF UsesOid, UsesCur, UsesKey, UsesHolder
<1>4. CASE Found(w) /\ (clsn[cur[w]] = Xid(xid[w]) \/ IsLog(cur[w]) \/ ReadsCommitted(w))
  <2>0. pc' = [pc EXCEPT ![w] = IF op[w].kind = "read" THEN "tuple" ELSE "put"] /\ cur' = cur
    BY <1>4 DEF Found, Goto
  <2>1. LocalTypes' /\ pc'[w] = IF op[w].kind = "read" THEN "tuple" ELSE "put"
    BY <1>k, <2>0 DEF LocalTypes, Labels
  <2>2. Moves(w)
    BY <1>k, <2>0, <2>1 DEF Moves, LocalTypes, Calm, Labels, Undoing
  <2>3. ReadsCommitted(w) => ReadsCommitted(w)'
    <3>1. \A x : Done(x) => Done(x)'
      BY <2>2 DEF Done, Moves, Kept, Calm
    <3> QED
      BY <2>0, <3>1 DEF ReadsCommitted, Kept, IsLog, Known
  <2>4. Reader(w)' /\ Updater(w)'
    <3>1. Updater(w)' /\ (pc'[w] = "put" => Reader(w)')
      BY <2>1 DEF Reader, Updater, Inserting
    <3>2. \/ clsn'[cur'[w]] = Xid(xid'[w])
          \/ IsLog(cur[w])'
          \/ ReadsCommitted(w)'
      BY <1>4, <2>0, <2>3 DEF Kept, IsLog
    <3>3. pc'[w] = "tuple" => Reader(w)'
      BY <3>2 DEF Reader
    <3> QED
      BY <2>1, <3>1, <3>3
  <2> QED
    BY SMTT(30), SMTT(60), <1>k, <1>1, <2>0, <2>1, <2>2, <2>4, MovesKeep DEF UsesOid, UsesCur, UsesKey, UsesHolder
<1> QED
  BY <1>2, <1>3, <1>4

(* The XID in a version's stamp is its creator's. *)
LEMMA HolderStep ==
    ASSUME IInv, NEW w \in Workers, NEW l \in {"ctx", "p_ctx"}, pc[w] \in {"clsn", "p_clsn"},
           op[w].oid \in Oids, cur[w] \in Objects, clsn[cur[w]].asi = "XID",
           holder' = [holder EXCEPT ![w].xid = clsn[cur[w]].xid],
           pc' = [pc EXCEPT ![w] = l], Kept, UNCHANGED <<begin, absent, op, cur, nxt, saw>>
    PROVE  IInv'
<1>k. LocalTypes /\ Refs(w) /\ NoObj \notin Objects /\ Names /\ Stamps
  BY Start0
<1>1. clsn[cur[w]] = Xid(cur[w][1]) /\ Known(cur[w][1])
  BY <1>k, Kinds
<1>2. clsn[cur[w]].xid = cur[w][1] /\ cur[w][1] \in Xids
  BY <1>1, StampFacts DEF Known, Issued, Xids
<1>3. holder' \in [Workers -> HolderType]
  BY <1>k, <1>2 DEF LocalTypes, HolderType
<1>4. LocalTypes' /\ pc'[w] = l
  BY <1>k, <1>3 DEF LocalTypes, Labels
<1>5. holder'[w].xid = cur[w][1] /\ \A u \in Workers : u # w => holder'[u] = holder[u]
  BY <1>k, <1>2 DEF LocalTypes, HolderType
<1>6. Moves(w)
  BY <1>k, <1>4, <1>5 DEF Moves, LocalTypes, Calm, Labels, Undoing
<1>7. Reader(w)' /\ Updater(w)'
  BY <1>4 DEF Reader, Updater, Inserting
<1> QED
  BY <1>k, <1>1, <1>4, <1>5, <1>6, <1>7, MovesKeep DEF Refs, UsesOid, UsesCur, UsesKey, UsesHolder

LEMMA GetClsnKeeps ==
    ASSUME IInv, NEW w \in Workers, GetClsn(w) PROVE IInv'
<1> DEFINE c == clsn[cur[w]]
<1>k. Refs(w) /\ NoObj \notin Objects
  BY Start0
<1>0. pc[w] = "clsn" /\ Kept /\ UNCHANGED <<begin, absent, op, nxt, saw>>
  BY DEF GetClsn, Kept, shared, contexts, store, leaf, txn
<1>1. op[w].oid \in Oids /\ cur[w] \in Objects
  BY <1>k, <1>0 DEF Refs, UsesOid, UsesCur
<1>2. CASE c.asi = "XID" /\ holder' = [holder EXCEPT ![w].xid = c.xid] /\ Goto(w, "ctx") /\ UNCHANGED cur
  BY <1>0, <1>1, <1>2, HolderStep DEF Goto
<1>3. CASE UNCHANGED holder /\ (StartOver(w) \/ Advance(w))
  BY <1>0, <1>3, VisitEnds
<1>4. CASE UNCHANGED holder /\ Found(w) /\ (c.asi = "LOG" \/ c = Xid(xid[w]))
  <2>1. c = Xid(xid[w]) \/ IsLog(cur[w])
    BY <1>k, <1>1, <1>4 DEF IsLog
  <2> QED
    BY <1>0, <1>4, <2>1, VisitEnds
<1> QED
  BY <1>2, <1>3, <1>4 DEF GetClsn

LEMMA GetOwnerKeeps ==
    ASSUME IInv, NEW w \in Workers, GetOwner(w) PROVE IInv'
<1>0. pc[w] = "owner" /\ Kept /\ UNCHANGED <<begin, absent, op, nxt, holder, saw>>
  BY DEF GetOwner, Kept, shared, contexts, store, leaf, txn
<1>1. CASE StartOver(w) \/ Advance(w)
  BY <1>0, <1>1, VisitEnds
<1>2. CASE Verified(w) /\ holder[w].state = "CMMTD" /\ Found(w)
  BY <1>0, <1>2, VisitEnds, Verdict
<1>3. CASE Verified(w) /\ holder[w].state = "CMMTD" /\ Goto(w, "end") /\ UNCHANGED cur
  <2>k. LocalTypes /\ Refs(w) /\ NoObj \notin Objects
    BY Start0
  <2>0. ReadsCommitted(w)
    BY <1>0, <1>3, Verdict
  <2>1. LocalTypes' /\ pc'[w] = "end"
    BY <1>0, <1>3, <2>k DEF LocalTypes, Labels, Goto
  <2>2. Moves(w)
    BY <1>0, <1>3, <2>k, <2>1 DEF Moves, LocalTypes, Calm, Labels, Undoing, Goto
  <2>3. \A x : Done(x) => Done(x)'
    BY <2>2 DEF Done, Moves, Kept, Calm
  <2>4. ReadsCommitted(w)'
    BY <1>0, <1>3, <2>0, <2>3 DEF ReadsCommitted, Kept, IsLog, Known
  <2>5. Reader(w)' /\ Updater(w)'
    BY <2>1, <2>4 DEF Reader, Updater, Inserting
  <2>6. Known(holder'[w].xid)
    BY <1>0, <2>k DEF Refs, UsesHolder
  <2> QED
    BY <1>0, <1>3, <2>k, <2>1, <2>2, <2>5, <2>6, MovesKeep DEF Refs, UsesOid, UsesCur, UsesKey, UsesHolder
<1> QED
  BY <1>1, <1>2, <1>3 DEF GetOwner

LEMMA GetEndKeeps ==
    ASSUME IInv, NEW w \in Workers, GetEnd(w) PROVE IInv'
<1>0. pc[w] = "end" /\ Kept /\ UNCHANGED <<begin, absent, op, nxt, holder, saw>>
  BY DEF GetEnd, Kept, shared, contexts, store, leaf, txn
<1>1. ReadsCommitted(w)
  BY <1>0, Start0 DEF Reader
<1> QED
  BY <1>0, <1>1, VisitEnds DEF GetEnd

(* xid_get_context(), and the read of the state it leads to. *)
LEMMA ContextStep ==
    ASSUME IInv, NEW w \in Workers, pc[w] \in {"ctx", "p_ctx"},
           NEW l \in {"state", "get", "p_state", "put"}, pc' = [pc EXCEPT ![w] = l],
           Kept, UNCHANGED <<begin, absent, op, locals>>
    PROVE  IInv'
<1>k. LocalTypes /\ Refs(w)
  BY Start0
<1>0. UNCHANGED <<cur, nxt, holder, saw>>
  BY DEF locals
<1>1. LocalTypes' /\ pc'[w] = l
  BY <1>k, <1>0 DEF LocalTypes, Labels
<1>2. Moves(w)
  BY <1>k, <1>0, <1>1 DEF Moves, LocalTypes, Calm, Labels, Undoing
<1>3. Reader(w)' /\ Updater(w)'
  BY <1>1 DEF Reader, Updater, Inserting
<1> QED
  BY <1>k, <1>0, <1>1, <1>2, <1>3, MovesKeep DEF Refs, UsesOid, UsesCur, UsesKey, UsesHolder

LEMMA StateStep ==
    ASSUME IInv, NEW w \in Workers, pc[w] \in {"state", "p_state"},
           NEW l \in {"owner", "p_owner"}, pc' = [pc EXCEPT ![w] = l],
           holder' = [holder EXCEPT ![w].state = cstate[Ctx(holder[w].xid)]],
           Kept, UNCHANGED <<begin, absent, op, cur, nxt, saw>>
    PROVE  IInv'
<1>k. LocalTypes /\ ContextTypes /\ Refs(w) /\ holder[w] \in HolderType
  BY Start0
<1>1. Known(holder[w].xid) /\ holder[w].xid = cur[w][1]
  BY <1>k DEF Refs, UsesHolder
<1>2. cstate[Ctx(holder[w].xid)] \in States
  BY <1>k, <1>1 DEF Known, Issued, Ctx, ContextTypes
<1>3. holder' \in [Workers -> HolderType]
  BY <1>k, <1>2 DEF LocalTypes, HolderType
<1>4. LocalTypes' /\ pc'[w] = l
  BY <1>k, <1>3 DEF LocalTypes, Labels
<1>5. /\ holder'[w].xid = holder[w].xid /\ holder'[w].state = cstate[Ctx(holder[w].xid)]
      /\ \A u \in Workers : u # w => holder'[u] = holder[u]
  BY <1>k DEF LocalTypes, HolderType
<1>6. Moves(w)
  BY <1>k, <1>4, <1>5 DEF Moves, LocalTypes, Calm, Labels, Undoing
<1>7. Reader(w)' /\ Updater(w)'
  BY <1>4, <1>5 DEF Reader, Updater, Inserting, Kept
<1> QED
  BY <1>k, <1>1, <1>4, <1>5, <1>6, <1>7, MovesKeep DEF Refs, UsesOid, UsesCur, UsesKey, UsesHolder

LEMMA GetContextKeeps ==
    ASSUME IInv, NEW w \in Workers, GetContext(w) \/ PutContext(w) PROVE IInv'
<1>1. Kept /\ UNCHANGED <<begin, absent, op, locals>> /\ pc[w] \in {"ctx", "p_ctx"}
  BY DEF GetContext, PutContext, Kept, shared, contexts, store, leaf, txn
<1>2. PICK l \in {"state", "get", "p_state", "put"} : pc' = [pc EXCEPT ![w] = l]
  BY DEF GetContext, PutContext, Goto
<1> QED
  BY <1>1, <1>2, ContextStep

LEMMA GetStateKeeps ==
    ASSUME IInv, NEW w \in Workers, GetState(w) \/ PutState(w) PROVE IInv'
<1>1. /\ Kept /\ UNCHANGED <<begin, absent, op, cur, nxt, saw>> /\ pc[w] \in {"state", "p_state"}
      /\ holder' = [holder EXCEPT ![w].state = cstate[Ctx(holder[w].xid)]]
  BY DEF GetState, PutState, Kept, shared, contexts, store, leaf, txn
<1>2. PICK l \in {"owner", "p_owner"} : pc' = [pc EXCEPT ![w] = l]
  BY DEF GetState, PutState, Goto
<1> QED
  BY <1>1, <1>2, StateStep

LEMMA PutHeadKeeps ==
    ASSUME IInv, NEW w \in Workers, PutHead(w) PROVE IInv'
<1>k. LocalTypes /\ StoreTypes /\ Refs(w) /\ \A o \in Oids : Headed(o)
  BY Start0
<1>0. /\ pc[w] = "put" /\ cur' = [cur EXCEPT ![w] = head[op[w].oid]]
      /\ pc' = [pc EXCEPT ![w] = "p_clsn"]
      /\ Kept /\ UNCHANGED <<begin, absent, op, nxt, holder, saw>>
  BY DEF PutHead, Goto, Kept, shared, contexts, store, leaf, txn
<1>1. op[w].oid \in Oids /\ head[op[w].oid] \in Objects \cup {NoObj} /\ head[op[w].oid] \in Ids
  BY <1>k, <1>0 DEF Refs, UsesOid, Headed, StoreTypes
<1>2. LocalTypes'
  BY <1>k, <1>0, <1>1 DEF LocalTypes, Labels
<1>3. pc'[w] = "p_clsn" /\ cur'[w] = head[op[w].oid] /\ nxt'[w] = nxt[w]
  BY <1>k, <1>0 DEF LocalTypes
<1>4. Moves(w)
  BY <1>k, <1>0, <1>3 DEF Moves, LocalTypes, Calm, Labels, Undoing
<1>5. Reader(w)' /\ Updater(w)'
  BY <1>0, <1>3 DEF Reader, Updater, Inserting, Kept
<1> QED
  BY <1>k, <1>1, <1>2, <1>3, <1>4, <1>5, MovesKeep DEF Refs, UsesKey, UsesHolder, UsesCur

(* The rest of the steps of a put that change nothing but its label. *)
LEMMA PutTurn ==
    ASSUME IInv, NEW w \in Workers, pc[w] \in {"p_clsn", "p_owner"},
           NEW l \in {"put", "overwrite", "install", "abort"}, pc' = [pc EXCEPT ![w] = l],
           Kept, UNCHANGED <<begin, absent, op, locals>>,
           cur[w] # NoObj, op[w].oid \in Oids,
           l = "overwrite" => head[op[w].oid] = cur[w] /\ clsn[cur[w]] = Xid(xid[w]),
           l = "install" /\ head[op[w].oid] = cur[w] => IsLog(cur[w])
    PROVE  IInv'
<1>k. LocalTypes /\ Refs(w)
  BY Start0
<1>0. UNCHANGED <<cur, nxt, holder, saw>>
  BY DEF locals
<1>1. LocalTypes' /\ pc'[w] = l
  BY <1>k, <1>0 DEF LocalTypes, Labels
<1>2. Moves(w)
  BY <1>k, <1>0, <1>1 DEF Moves, LocalTypes, Calm, Labels, Undoing
<1>3. Reader(w)' /\ Updater(w)'
  BY <1>0, <1>1 DEF Reader, Updater, Inserting, Kept, IsLog
<1> QED
  BY <1>k, <1>0, <1>1, <1>2, <1>3, MovesKeep DEF Refs, UsesOid, UsesCur, UsesKey, UsesHolder

LEMMA PutClsnKeeps ==
    ASSUME IInv, NEW w \in Workers, PutClsn(w) PROVE IInv'
<1> DEFINE c == clsn[cur[w]]
<1>k. Refs(w) /\ Updater(w)
  BY Start0
<1>0. pc[w] = "p_clsn" /\ cur[w] # NoObj /\ Kept /\ UNCHANGED <<begin, absent, op, cur, nxt, saw>>
  BY DEF PutClsn, Kept, shared, contexts, store, leaf, txn
<1>1. op[w].oid \in Oids /\ cur[w] \in Objects
  BY <1>k, <1>0 DEF Refs, UsesOid
<1>2. CASE c.asi = "XID" /\ holder' = [holder EXCEPT ![w].xid = c.xid] /\ Goto(w, "p_ctx")
  BY <1>0, <1>1, <1>2, HolderStep DEF Goto
<1>3. CASE UNCHANGED holder /\ c = NullPtr /\ Goto(w, "put")
  BY <1>0, <1>1, <1>3, PutTurn DEF Goto, locals
<1>4. CASE UNCHANGED holder /\ c = Xid(xid[w]) /\ Goto(w, "overwrite")
  <2>1. head[op[w].oid] = cur[w]
    BY <1>k, <1>0, <1>4 DEF Updater
  <2> QED
    BY <1>0, <1>1, <1>4, <2>1, PutTurn DEF Goto, locals
<1>5. CASE UNCHANGED holder /\ c.asi = "LOG" /\ (Goto(w, "install") \/ Goto(w, "abort"))
  <2>1. IsLog(cur[w])
    BY <1>0, <1>5 DEF IsLog
  <2> QED
    BY <1>0, <1>1, <1>5, <2>1, PutTurn DEF Goto, locals
<1> QED
  BY <1>2, <1>3, <1>4, <1>5 DEF PutClsn, Goto

LEMMA PutOwnerKeeps ==
    ASSUME IInv, NEW w \in Workers, PutOwner(w) PROVE IInv'
<1>0. pc[w] = "p_owner" /\ Kept /\ UNCHANGED <<begin, absent, op, locals>>
  BY DEF PutOwner, Kept, shared, contexts, store, leaf, txn
<1>1. op[w].oid \in Oids /\ cur[w] # NoObj
  BY <1>0, Start0 DEF Refs, UsesOid, UsesCur
<1>2. CASE pc' = [pc EXCEPT ![w] = "put"] \/ pc' = [pc EXCEPT ![w] = "abort"]
  BY <1>0, <1>1, <1>2, PutTurn
<1>3. CASE Verified(w) /\ Settled(holder[w].state) /\ pc' = [pc EXCEPT ![w] = "install"]
  <2>1. IsLog(cur[w]) \/ cur[w] \notin Range(head)
    BY <1>0, <1>3, Verdict DEF Settled
  <2>2. head[op[w].oid] \in Range(head)
    BY <1>1, Start0, Entries
  <2> QED
    BY <1>0, <1>1, <1>3, <2>1, <2>2, PutTurn
<1> QED
  BY <1>2, <1>3 DEF PutOwner, Goto

LEMMA SetBeginKeeps ==
    ASSUME IInv, NEW w \in Workers, SetBegin(w) PROVE IInv'
<1>k. LocalTypes /\ ContextTypes /\ TxnTypes /\ Refs(w)
  BY Start0
<1>0. /\ pc[w] = "ctor" /\ begin' = [begin EXCEPT ![w] = lsn + 1] /\ pc' = [pc EXCEPT ![w] = "active"]
      /\ Kept /\ UNCHANGED <<absent, op, cur, nxt, holder, saw>>
  BY DEF SetBegin, Goto, Kept, contexts, store, leaf, locals
<1>1. LocalTypes' /\ pc'[w] = "active"
  BY <1>k, <1>0 DEF LocalTypes, Labels
<1>2. TxnTypes'
  BY SMTT(30), SMTT(60), <1>k, <1>0 DEF TxnTypes, ContextTypes, Kept
<1>3. Reads(w)
  BY <1>k, <1>0, <1>1 DEF Reads, Others, Kept, LocalTypes, Calm, Labels, Undoing
<1>4. Refs(w)'
  BY <1>k, <1>0, <1>1 DEF Refs, Kept, Objects, UsesOid, UsesCur, UsesKey, UsesHolder
<1> QED
  BY <1>1, <1>2, <1>3, <1>4, ReadsKeep, PlainLocal DEF Plain, Labels

LEMMA CheckPhantomKeeps ==
    ASSUME IInv, NEW w \in Workers, CheckPhantom(w) PROVE IInv'
<1>k. LocalTypes /\ TxnTypes /\ Refs(w)
  BY Start0
<1>0. pc[w] = "phantom" /\ Kept /\ UNCHANGED <<begin, absent, op, cur, nxt, holder, saw>>
  BY DEF CheckPhantom, Kept, shared, contexts, store, leaf, txn, locals
<1>l. PICK l \in {"stamp", "abort"} : pc' = [pc EXCEPT ![w] = l]
  BY DEF CheckPhantom, Goto
<1>1. LocalTypes' /\ pc'[w] = l
  BY <1>k, <1>0, <1>l DEF LocalTypes, Labels
<1>2. TxnTypes'
  BY <1>k, <1>0 DEF TxnTypes, Kept
<1>3. Reads(w)
  BY <1>k, <1>0, <1>l, <1>1 DEF Reads, Others, Kept, LocalTypes, Calm, Labels, Undoing
<1>4. Refs(w)'
  BY <1>k, <1>0, <1>1 DEF Refs, Kept, Objects, UsesOid, UsesCur, UsesKey, UsesHolder
<1> QED
  BY <1>1, <1>2, <1>3, <1>4, ReadsKeep, PlainLocal DEF Plain, Labels

-----------------------------------------------------------------------------
(* Contexts: a worker's own is nobody else's. *)
LEMMA OwnApart ==
    ASSUME IInv, NEW w \in Workers
    PROVE  /\ \A u \in Workers : pc[u] # "idle" =>
                /\ xid[u] \in Issued /\ xid[u] # NoXid /\ Own(u) \in Contexts
                /\ owner[Own(u)] = xid[u] /\ xid[u] = <<Own(u), gen[Own(u)]>>
           /\ pc[w] # "idle" => \A u \in Workers : u # w /\ pc[u] # "idle" => Own(u) # Own(w)
<1>k. Names /\ Stamps /\ Owners
  BY DEF IInv
<1>1. ASSUME NEW u \in Workers, pc[u] # "idle"
      PROVE  /\ xid[u] \in Issued /\ xid[u] # NoXid /\ Own(u) \in Contexts
             /\ owner[Own(u)] = xid[u] /\ xid[u] = <<Own(u), gen[Own(u)]>>
  <2>1. xid[u] \in Issued /\ owner[Own(u)] = xid[u] /\ xid[u] # NoXid
    BY <1>k, <1>1, Kinds DEF Owners, Holds
  <2>2. Own(u) \in Contexts
    BY <2>1 DEF Own, Ctx, Issued
  <2> QED
    BY <1>k, <2>1, <2>2 DEF Owners, Slot
<1> QED
  BY <1>k, <1>1 DEF Owners

(* The steps of a transaction that change its state or its end stamp. *)
Turn(w, l, s, e) ==
    /\ pc[w] \in {"active", "abort", "pre", "stamp"} /\ pc'[w] = l
    /\ cstate' = [cstate EXCEPT ![Own(w)] = s] /\ cend' = [cend EXCEPT ![Own(w)] = e]
    /\ lsn' \in Nat /\ lsn <= lsn' /\ e <= lsn'
    /\ s = "CMMTD" <=> l = "exit"
    /\ s = "ABRTD" <=> l = "undo"
    /\ l = "phantom" => lsn < e
    /\ l = "exit" => wset[w] = <<>>
    /\ UNCHANGED <<owner, gen, head, next, clsn, defunct, born, index, nver, oids,
                   xid, begin, wset, absent, unlinked>>
    /\ Others(w) /\ LocalTypes' /\ Refs(w)'

LEMMA Turns ==
    ASSUME IInv, NEW w \in Workers, NEW l \in {"pre", "phantom", "exit", "undo"}, NEW s \in States, NEW e \in Nat,
           Turn(w, l, s, e)
    PROVE  IInv'
<1> USE DEF Turn
<1>k. /\ Types /\ ContextTypes /\ StoreTypes /\ LeafTypes /\ TxnTypes /\ Owners /\ Outcome(w) /\ WriteSet(w)
      /\ Names /\ Stamps /\ ChainOrder /\ Links
  BY Start0
<1>0. /\ Objects' = Objects /\ Range(head)' = Range(head)
      /\ Writes(w)' = Writes(w) /\ Own(w)' = Own(w) /\ \A i : Entry(w, i)' = Entry(w, i)
  BY DEF Objects, Writes, Own, Entry
<1>p. Own(w) \in Contexts /\ xid[w] \in Issued /\ owner[Own(w)] = xid[w]
  BY OwnApart
<1>q. cstate'[Own(w)] = s /\ cend'[Own(w)] = e
  BY <1>k, <1>p DEF ContextTypes
<1>r. \A c \in Contexts : c # Own(w) => cstate'[c] = cstate[c] /\ cend'[c] = cend[c]
  BY <1>k, <1>p DEF ContextTypes
<1>1. Types'
  <2>1. cstate' \in [Contexts -> States] /\ cend' \in [Contexts -> Nat]
    BY <1>k DEF ContextTypes
  <2>2. ContextTypes'
    BY <1>k, <2>1 DEF ContextTypes
  <2>3. StoreTypes' /\ LeafTypes'
    BY <1>k, <1>0 DEF StoreTypes, LeafTypes
  <2>4. TxnTypes'
    BY <1>k DEF TxnTypes
  <2> QED
    BY <2>2, <2>3, <2>4 DEF Types
<1>2. ContextSteps(w)
  <2>1. \A c \in Contexts : Slot(c)'
    <3> SUFFICES ASSUME NEW c \in Contexts PROVE Slot(c)'
      OBVIOUS
    <3>1. Slot(c) /\ cend[c] \in Nat /\ lsn \in Nat
      BY <1>k DEF Owners, ContextTypes
    <3>2. cend'[c] <= lsn'
      BY SMTT(30), SMTT(60), <1>q, <1>r, <3>1 DEF Slot
    <3> QED
      BY <3>1, <3>2 DEF Slot
  <2>2. cstate[Own(w)] \notin {"CMMTD", "ABRTD"}
    BY <1>k DEF Outcome, Undoing
  <2>3. \A c \in Contexts : cstate[c] \in {"CMMTD", "ABRTD"} => cstate'[c] = cstate[c]
    BY <1>r, <2>2
  <2>4. \A u \in Workers : u # w /\ pc[u] # "idle" =>
          owner'[Own(u)] = owner[Own(u)] /\ cstate'[Own(u)] = cstate[Own(u)] /\ cend'[Own(u)] = cend[Own(u)]
    BY <1>r, OwnApart
  <2> QED
    BY SMTT(30), SMTT(60), <1>k, <2>1, <2>3, <2>4 DEF ContextSteps, ContextTypes
<1>3. StoreSteps(w)
  BY <1>0 DEF StoreSteps
<1>4. LeafSteps(w)
  BY <1>k, SameLeaf
<1>5. OwnHeads(w)
  BY <1>0 DEF OwnHeads, Writer, Inserting
<1>6. Holds(w)' /\ Outcome(w)'
  BY <1>0, <1>p, <1>q DEF Holds, Outcome, Undoing
<1>7. WriteSet(w)'
  <2>1. pc'[w] \notin Undone /\ pc[w] \notin Undone
    BY DEF Undone
  <2>2. ASSUME NEW o \in Oids, NEW v \in Objects, Dirty(w, o, v) PROVE Dirty(w, o, v)'
    <3>1. CASE l # "phantom"
      BY <1>0, <2>2, <3>1 DEF Dirty
    <3>2. CASE l = "phantom"
      <4>1. v \in Range(head)
        BY <1>k, <2>2, Entries DEF Dirty
      <4>2. next[v] # NoObj => IsLog(next[v]) /\ next[v] \in Objects
        BY <1>k, <4>1 DEF ChainOrder, Links
      <4>3. next[v] # NoObj => clsn[next[v]].lsn \in 0..lsn
        BY <1>k, <4>2, Kinds
      <4>4. next[v] # NoObj => clsn[next[v]].lsn < e
        BY SMTT(30), SMTT(60), <1>k, <3>2, <4>3 DEF ContextTypes
      <4> QED
        BY <1>0, <1>q, <2>2, <4>4 DEF Dirty
    <3> QED
      BY <3>1, <3>2
  <2>3. ASSUME NEW i \in Writes(w) PROVE Written(w, i)'
    <3>1. Written(w, i) /\ Entry(w, i)[1] \in Oids /\ Entry(w, i)[2] \in Objects
      BY SMTT(30), SMTT(60), <1>k DEF WriteSet, Written, TxnTypes, Entry, Writes
    <3> QED
      BY <1>0, <2>1, <2>2, <3>1 DEF Written
  <2> QED
    BY <1>0, <2>1, <2>3 DEF WriteSet
<1>8. Local(w)'
  BY PlainLocal DEF Plain, Labels
<1> QED
  BY <1>1, <1>2, <1>3, <1>4, <1>5, <1>6, <1>7, <1>8, Combine DEF Step, Mine

(* The same, of a step that leaves the locals alone. *)
LEMMA TurnLocals ==
    ASSUME IInv, NEW w \in Workers, pc[w] # "idle", NEW l \in {"pre", "phantom", "exit"},
           pc' = [pc EXCEPT ![w] = l],
           UNCHANGED <<clsn, nver, xid, wset, absent, unlinked, op, cur, nxt, holder, saw>>
    PROVE  pc'[w] = l /\ Others(w) /\ LocalTypes' /\ Refs(w)'
<1>k. LocalTypes /\ Refs(w)
  BY Start0
<1>1. pc'[w] = l /\ LocalTypes'
  BY <1>k DEF LocalTypes, Labels
<1>2. Others(w)
  BY <1>k DEF Others, LocalTypes
<1>3. Refs(w)'
  BY <1>k, <1>1 DEF Refs, Objects, UsesOid, UsesCur, UsesKey, UsesHolder
<1> QED
  BY <1>1, <1>2, <1>3

LEMMA CommitBeginKeeps ==
    ASSUME IInv, NEW w \in Workers, CommitBegin(w) PROVE IInv'
<1>k. ContextTypes /\ Owners
  BY Start0
<1>0. /\ pc[w] = "active" /\ pc' = [pc EXCEPT ![w] = "pre"]
      /\ cstate' = [cstate EXCEPT ![Own(w)] = "COMMITTING"]
      /\ UNCHANGED <<lsn, owner, gen, cend, head, next, clsn, defunct, born, index, nver, oids,
                     xid, begin, wset, absent, unlinked, op, cur, nxt, holder, saw>>
  BY DEF CommitBegin, Goto, store, leaf, txn, locals
<1>1. pc'[w] = "pre" /\ Others(w) /\ LocalTypes' /\ Refs(w)'
  BY <1>0, TurnLocals
<1>2. Own(w) \in Contexts
  BY <1>0, OwnApart
<1>3. cend[Own(w)] \in Nat /\ cend[Own(w)] <= lsn /\ lsn \in Nat
  BY <1>k, <1>2 DEF ContextTypes, Owners, Slot
<1>4. cend' = [cend EXCEPT ![Own(w)] = cend[Own(w)]]
  BY <1>k, <1>0 DEF ContextTypes
<1>6. Turn(w, "pre", "COMMITTING", cend[Own(w)])
  <2>1. lsn' \in Nat /\ lsn <= lsn' /\ cend[Own(w)] <= lsn'
    BY SMTT(30), SMTT(60), <1>0, <1>3
  <2> QED
    BY ZenonT(60), ZenonT(90), <1>0, <1>1, <1>4, <2>1 DEF Turn
<1> QED
  BY <1>3, <1>4, <1>6, Turns DEF States

LEMMA PreCommitKeeps ==
    ASSUME IInv, NEW w \in Workers, PreCommit(w) PROVE IInv'
<1>k. ContextTypes /\ Owners /\ Outcome(w)
  BY Start0
<1>0. /\ pc[w] = "pre" /\ pc' = [pc EXCEPT ![w] = "phantom"]
      /\ lsn' = lsn + 2 /\ cend' = [cend EXCEPT ![Own(w)] = lsn + 2]
      /\ UNCHANGED <<owner, gen, cstate, head, next, clsn, defunct, born, index, nver, oids,
                     xid, begin, wset, absent, unlinked, op, cur, nxt, holder, saw>>
  BY DEF PreCommit, LogBlock, Goto, store, leaf, txn, locals
<1>1. pc'[w] = "phantom" /\ Others(w) /\ LocalTypes' /\ Refs(w)'
  BY <1>0, TurnLocals
<1>2. Own(w) \in Contexts
  BY <1>0, OwnApart
<1>3. lsn \in Nat /\ lsn + 2 \in Nat /\ lsn < lsn + 2 /\ lsn <= lsn'
  BY SMTT(30), SMTT(60), <1>k, <1>0 DEF ContextTypes
<1>4. cstate' = [cstate EXCEPT ![Own(w)] = cstate[Own(w)]] /\ cstate[Own(w)] \in States
  BY <1>k, <1>0, <1>2 DEF ContextTypes
<1>5. cstate[Own(w)] \notin {"CMMTD", "ABRTD"}
  BY <1>k, <1>0 DEF Outcome, Undoing
<1>6. Turn(w, "phantom", cstate[Own(w)], lsn + 2)
  <2>1. lsn' \in Nat /\ lsn <= lsn' /\ lsn + 2 <= lsn' /\ lsn < lsn + 2
    BY SMTT(30), SMTT(60), <1>0, <1>3
  <2> QED
    BY ZenonT(60), ZenonT(90), <1>0, <1>1, <1>4, <1>5, <2>1 DEF Turn
<1> QED
  BY <1>3, <1>4, <1>6, Turns DEF States

LEMMA CommittedKeeps ==
    ASSUME IInv, NEW w \in Workers, Committed(w) PROVE IInv'
<1>k. ContextTypes /\ Owners
  BY Start0
<1>0. /\ pc[w] = "stamp" /\ pc' = [pc EXCEPT ![w] = "exit"] /\ wset[w] = <<>>
      /\ cstate' = [cstate EXCEPT ![Own(w)] = "CMMTD"]
      /\ UNCHANGED <<lsn, owner, gen, cend, head, next, clsn, defunct, born, index, nver, oids,
                     xid, begin, wset, absent, unlinked, op, cur, nxt, holder, saw>>
  BY DEF Committed, AllStamped, Goto, store, leaf, txn, locals
<1>1. pc'[w] = "exit" /\ Others(w) /\ LocalTypes' /\ Refs(w)'
  BY <1>0, TurnLocals
<1>2. Own(w) \in Contexts
  BY <1>0, OwnApart
<1>3. cend[Own(w)] \in Nat /\ cend[Own(w)] <= lsn /\ lsn \in Nat
  BY <1>k, <1>2 DEF ContextTypes, Owners, Slot
<1>4. cend' = [cend EXCEPT ![Own(w)] = cend[Own(w)]]
  BY <1>k, <1>0 DEF ContextTypes
<1>6. Turn(w, "exit", "CMMTD", cend[Own(w)])
  <2>1. lsn' \in Nat /\ lsn <= lsn' /\ cend[Own(w)] <= lsn'
    BY SMTT(30), SMTT(60), <1>0, <1>3
  <2> QED
    BY ZenonT(60), ZenonT(90), <1>0, <1>1, <1>4, <2>1 DEF Turn
<1> QED
  BY <1>3, <1>4, <1>6, Turns DEF States

LEMMA AbortBeginKeeps ==
    ASSUME IInv, NEW w \in Workers, AbortBegin(w) PROVE IInv'
<1>k. ContextTypes /\ Owners /\ LocalTypes /\ Refs(w) /\ LeafTypes /\ TxnTypes
  BY Start0
<1>0. /\ pc[w] \in {"active", "abort"} /\ pc' = [pc EXCEPT ![w] = "undo"] /\ Return(w)
      /\ cstate' = [cstate EXCEPT ![Own(w)] = "ABRTD"]
      /\ UNCHANGED <<lsn, owner, gen, cend, head, next, clsn, defunct, born, index, nver, oids,
                     xid, begin, wset, absent, unlinked>>
  BY DEF AbortBegin, Goto, store, leaf, txn
<1>1. pc'[w] = "undo" /\ Others(w) /\ LocalTypes'
  <2>1. "undo" \in Labels /\ TxnsStay(w)
    BY <1>0 DEF TxnsStay, Labels
  <2> QED
    BY <1>k, <1>0, <2>1, ReturnStep
<1>2. Refs(w)'
  <2>1. TxnTypes' /\ LeafTypes'
    BY <1>k, <1>0 DEF TxnTypes, LeafTypes
  <2> QED
    BY <1>k, <1>0, <2>1, ReturnLocal DEF Refs, Objects, Local
<1>3. Own(w) \in Contexts
  BY <1>0, OwnApart
<1>4. cend[Own(w)] \in Nat /\ cend[Own(w)] <= lsn /\ lsn \in Nat
  BY <1>k, <1>3 DEF ContextTypes, Owners, Slot
<1>5. cend' = [cend EXCEPT ![Own(w)] = cend[Own(w)]]
  BY <1>k, <1>0 DEF ContextTypes
<1>6. Turn(w, "undo", "ABRTD", cend[Own(w)])
  <2>1. lsn' \in Nat /\ lsn <= lsn' /\ cend[Own(w)] <= lsn'
    BY SMTT(30), SMTT(60), <1>0, <1>4
  <2> QED
    BY ZenonT(60), ZenonT(90), <1>0, <1>1, <1>2, <1>5, <2>1 DEF Turn
<1> QED
  BY <1>4, <1>6, Turns DEF States

(* xid_alloc() and xid_free(). *)
LEMMA XidAllocKeeps ==
    ASSUME IInv, NEW w \in Workers, NEW c \in Contexts, XidAlloc(w, c) PROVE IInv'
<1> DEFINE x == <<c, gen[c] + 4>>
<1>k. /\ Types /\ ContextTypes /\ StoreTypes /\ LeafTypes /\ TxnTypes /\ LocalTypes /\ Owners /\ Refs(w)
      /\ WriteSet(w)
  BY Start0
<1>0. /\ pc[w] = "idle" /\ pc' = [pc EXCEPT ![w] = "ctor"] /\ owner[c] = NoXid
      /\ gen' = [gen EXCEPT ![c] = gen[c] + 4] /\ owner' = [owner EXCEPT ![c] = x]
      /\ cend' = [cend EXCEPT ![c] = 0] /\ cstate' = [cstate EXCEPT ![c] = "ACTIVE"]
      /\ xid' = [xid EXCEPT ![w] = x]
      /\ UNCHANGED <<lsn, head, next, clsn, defunct, born, index, nver, oids, begin, wset, absent, unlinked,
                     op, cur, nxt, holder, saw>>
  BY DEF XidAlloc, Goto, store, leaf, locals
<1>1. gen[c] \in Nat /\ x \in Issued /\ x \in Xids /\ Ctx(x) = c /\ Epoch(x) = gen[c] + 4
  BY SMTT(30), SMTT(60), <1>k DEF ContextTypes, Issued, Xids, Ctx, Epoch
<1> HIDE DEF x
<1>2. gen'[c] = gen[c] + 4 /\ owner'[c] = x /\ cend'[c] = 0 /\ cstate'[c] = "ACTIVE" /\ xid'[w] = x /\ pc'[w] = "ctor"
  BY <1>k, <1>0 DEF ContextTypes, TxnTypes, LocalTypes
<1>3. \A d \in Contexts : d # c =>
        gen'[d] = gen[d] /\ owner'[d] = owner[d] /\ cend'[d] = cend[d] /\ cstate'[d] = cstate[d]
  BY <1>k, <1>0 DEF ContextTypes
<1>4. /\ Objects' = Objects /\ Range(head)' = Range(head)
      /\ Writes(w)' = Writes(w) /\ \A i : Entry(w, i)' = Entry(w, i)
  BY <1>0 DEF Objects, Writes, Entry
<1>5. ContextTypes'
  <2>1. gen' \in [Contexts -> Nat] /\ cend' \in [Contexts -> Nat]
    BY SMTT(30), SMTT(60), <1>k, <1>0, <1>1 DEF ContextTypes
  <2>2. owner' \in [Contexts -> Xids] /\ cstate' \in [Contexts -> States]
    BY <1>k, <1>0, <1>1 DEF ContextTypes, States
  <2> QED
    BY <1>k, <1>0, <2>1, <2>2 DEF ContextTypes
<1>6. StoreTypes' /\ LeafTypes'
  BY <1>k, <1>0, <1>4 DEF StoreTypes, LeafTypes
<1>7. TxnTypes'
  BY <1>k, <1>0, <1>1 DEF TxnTypes
<1>8. LocalTypes'
  BY <1>k, <1>0 DEF LocalTypes, Labels
<1>9. Others(w)
  BY <1>k, <1>0 DEF Others, LocalTypes, TxnTypes
<1>10. ContextSteps(w)
  <2>1. \A d \in Contexts : Slot(d)'
    <3>1. Slot(c)'
      BY SMTT(30), SMTT(60), <1>k, <1>0, <1>2 DEF Slot, ContextTypes, x
    <3>2. \A d \in Contexts : d # c => Slot(d)'
      BY <1>k, <1>0, <1>3 DEF Slot, Owners
    <3> QED
      BY <3>1, <3>2
  <2>2. \A d \in Contexts :
          /\ gen[d] <= gen'[d]
          /\ owner'[d] = owner[d] \/ owner'[d] = NoXid \/ gen[d] < gen'[d]
          /\ owner'[d] = owner[d] /\ owner[d] # NoXid /\ cstate[d] \in {"CMMTD", "ABRTD"} => cstate'[d] = cstate[d]
    BY SMTT(30), SMTT(60), <1>k, <1>0, <1>1, <1>2, <1>3 DEF ContextTypes
  <2>3. \A u \in Workers : u # w /\ pc[u] # "idle" => Own(u) \in Contexts /\ Own(u) # c
    BY <1>0, OwnApart
  <2> QED
    BY SMTT(30), SMTT(60), <1>k, <1>0, <1>1, <1>2, <1>3, <2>1, <2>2, <2>3 DEF ContextSteps, ContextTypes
<1>11. StoreSteps(w)
  BY <1>0, <1>4 DEF StoreSteps
<1>12. LeafSteps(w)
  BY <1>k, <1>0, SameLeaf
<1>13. wset[w] = <<>> /\ Writes(w) = {}
  BY SMTT(30), SMTT(60), <1>k, <1>0 DEF WriteSet, Writes
<1>14. OwnHeads(w)
  BY <1>0, <1>13 DEF OwnHeads, Writer, Inserting
<1>15. Holds(w)' /\ Outcome(w)'
  BY <1>1, <1>2 DEF Holds, Outcome, Own, Undoing
<1>16. WriteSet(w)'
  BY <1>0, <1>2, <1>4, <1>13 DEF WriteSet, Undone
<1>17. Local(w)'
  <2>1. Refs(w)'
    BY <1>k, <1>0, <1>2, <1>4 DEF Refs, UsesOid, UsesCur, UsesKey, UsesHolder
  <2> QED
    BY <1>2, <2>1, PlainLocal DEF Plain, Labels
<1> QED
  BY <1>5, <1>6, <1>7, <1>8, <1>9, <1>10, <1>11, <1>12, <1>14, <1>15, <1>16, <1>17, Combine DEF Step, Mine, Types

LEMMA XidFreeKeeps ==
    ASSUME IInv, NEW w \in Workers, XidFree(w) PROVE IInv'
<1>k. /\ Types /\ ContextTypes /\ StoreTypes /\ LeafTypes /\ TxnTypes /\ LocalTypes /\ Owners /\ Refs(w)
      /\ WriteSet(w)
  BY Start0
<1>0. /\ pc[w] \in {"exit", "undo"} /\ wset[w] = <<>> /\ pc' = [pc EXCEPT ![w] = "idle"]
      /\ owner' = [owner EXCEPT ![Own(w)] = NoXid] /\ xid' = [xid EXCEPT ![w] = NoXid]
      /\ begin' = [begin EXCEPT ![w] = 0] /\ absent' = [absent EXCEPT ![w] = 0]
      /\ wset' = [wset EXCEPT ![w] = <<>>]
      /\ UNCHANGED <<lsn, gen, cstate, cend, head, next, clsn, defunct, born, index, nver, oids, unlinked,
                     op, cur, nxt, holder, saw>>
  BY <1>k DEF XidFree, Resolved, WriteSet, Goto, store, leaf, locals
<1>1. Own(w) \in Contexts /\ NoXid \in Xids
  BY <1>0, OwnApart DEF Xids
<1>2. /\ pc'[w] = "idle" /\ xid'[w] = NoXid /\ wset'[w] = <<>> /\ absent'[w] = 0 /\ owner'[Own(w)] = NoXid
      /\ \A d \in Contexts : d # Own(w) => owner'[d] = owner[d]
  BY <1>k, <1>0, <1>1 DEF ContextTypes, TxnTypes, LocalTypes
<1>3. Objects' = Objects /\ Range(head)' = Range(head)
  BY <1>0 DEF Objects
<1>4. ContextTypes'
  BY <1>k, <1>0, <1>1 DEF ContextTypes
<1>5. StoreTypes' /\ LeafTypes'
  BY <1>k, <1>0, <1>3 DEF StoreTypes, LeafTypes
<1>6. TxnTypes'
  <2>1. xid' \in [Workers -> Xids] /\ begin' \in [Workers -> Nat] /\ absent' \in [Workers -> Nat]
    BY <1>k, <1>0, <1>1 DEF TxnTypes
  <2>2. wset' \in [Workers -> Seq(Oids \X Ids)]
    BY <1>k, <1>0 DEF TxnTypes
  <2> QED
    BY <1>k, <1>0, <2>1, <2>2 DEF TxnTypes
<1>7. LocalTypes'
  BY <1>k, <1>0 DEF LocalTypes, Labels
<1>8. Others(w)
  BY <1>k, <1>0 DEF Others, LocalTypes, TxnTypes
<1>9. ContextSteps(w)
  <2>1. \A d \in Contexts : Slot(d)'
    BY <1>k, <1>0, <1>2 DEF Slot, Owners
  <2>2. \A u \in Workers : u # w /\ pc[u] # "idle" => Own(u) \in Contexts /\ Own(u) # Own(w)
    BY <1>0, OwnApart
  <2> QED
    BY SMTT(30), SMTT(60), <1>k, <1>0, <1>2, <2>1, <2>2 DEF ContextSteps, ContextTypes
<1>10. StoreSteps(w)
  BY <1>0, <1>3 DEF StoreSteps
<1>11. LeafSteps(w)
  BY <1>k, <1>0, SameLeaf
<1>12. Writes(w) = {} /\ Writes(w)' = {}
  BY SMTT(30), SMTT(60), <1>0, <1>2 DEF Writes
<1>13. OwnHeads(w)
  BY <1>0, <1>12 DEF OwnHeads, Writer, Inserting
<1>14. Holds(w)' /\ Outcome(w)'
  BY <1>2 DEF Holds, Outcome
<1>15. WriteSet(w)'
  BY <1>2, <1>12 DEF WriteSet, Undone
<1>16. Local(w)'
  <2>1. Refs(w)'
    BY SMTT(30), SMTT(60), <1>k, <1>0, <1>2, <1>3 DEF Refs, LeafTypes, UsesOid, UsesCur, UsesKey, UsesHolder
  <2> QED
    BY <1>2, <2>1, PlainLocal DEF Plain, Labels
<1> QED
  BY <1>4, <1>5, <1>6, <1>7, <1>8, <1>9, <1>10, <1>11, <1>13, <1>14, <1>15, <1>16, Combine DEF Step, Mine, Types

-----------------------------------------------------------------------------
(* Write sets as sequences. *)
LEMMA Grown ==
    ASSUME TxnTypes, NEW w \in Workers, NEW e \in Oids \X Ids, wset' = [wset EXCEPT ![w] = Append(wset[w], e)]
    PROVE  /\ wset' \in [Workers -> Seq(Oids \X Ids)] /\ wset'[w] = Append(wset[w], e)
           /\ \A i \in Writes(w) : Entry(w, i)' = Entry(w, i)
           /\ \E n : Writes(w)' = Writes(w) \cup {n} /\ n \notin Writes(w) /\ Entry(w, n)' = e
           /\ \A u \in Workers : u # w => wset'[u] = wset[u]
<1>1. wset[w] \in Seq(Oids \X Ids)
  BY DEF TxnTypes
<1>2. wset'[w] = Append(wset[w], e) /\ \A u \in Workers : u # w => wset'[u] = wset[u]
  BY DEF TxnTypes
<1>3. Append(wset[w], e) \in Seq(Oids \X Ids) /\ Len(Append(wset[w], e)) = Len(wset[w]) + 1 /\ Len(wset[w]) \in Nat
  BY SMTT(30), SMTT(60), <1>1
<1>4. wset' \in [Workers -> Seq(Oids \X Ids)]
  BY <1>3 DEF TxnTypes
<1>5. Writes(w)' = Writes(w) \cup {Len(wset[w]) + 1} /\ Len(wset[w]) + 1 \notin Writes(w)
  BY SMTT(30), SMTT(60), <1>2, <1>3 DEF Writes
<1>6. \A i \in Writes(w) : Entry(w, i)' = Entry(w, i)
  BY SMTT(30), SMTT(60), <1>1, <1>2 DEF Writes, Entry
<1>7. \E n : Writes(w)' = Writes(w) \cup {n} /\ n \notin Writes(w) /\ Entry(w, n)' = e
  <2>0. PICK n : n = Len(wset[w]) + 1
    OBVIOUS
  <2>1. Append(wset[w], e)[n] = e
    BY SMTT(30), SMTT(60), <1>1, <2>0
  <2>2. Entry(w, n)' = e
    BY <1>2, <2>1 DEF Entry
  <2> QED
    BY <1>5, <2>0, <2>2
<1> QED
  BY <1>2, <1>4, <1>6, <1>7

LEMMA Shrunk ==
    ASSUME TxnTypes, NEW w \in Workers, wset[w] # <<>>, wset' = [wset EXCEPT ![w] = Tail(wset[w])]
    PROVE  /\ wset' \in [Workers -> Seq(Oids \X Ids)]
           /\ 1 \in Writes(w) /\ Entry(w, 1) = Head(wset[w])
           /\ \A i \in Writes(w)' : i + 1 \in Writes(w) /\ i + 1 # 1 /\ Entry(w, i)' = Entry(w, i + 1) /\ i \in Nat
           /\ \A i \in Writes(w) : i # 1 => i - 1 \in Writes(w)' /\ Entry(w, i - 1)' = Entry(w, i)
           /\ \A u \in Workers : u # w => wset'[u] = wset[u]
<1>1. wset[w] \in Seq(Oids \X Ids)
  BY DEF TxnTypes
<1>2. wset'[w] = Tail(wset[w]) /\ \A u \in Workers : u # w => wset'[u] = wset[u]
  BY DEF TxnTypes
<1>3. /\ Tail(wset[w]) \in Seq(Oids \X Ids) /\ Len(Tail(wset[w])) = Len(wset[w]) - 1
      /\ Len(wset[w]) \in Nat /\ Len(wset[w]) > 0
  BY SMTT(30), SMTT(60), <1>1
<1>4. wset' \in [Workers -> Seq(Oids \X Ids)]
  BY <1>3 DEF TxnTypes
<1>5. \A i \in 1 .. Len(wset[w]) - 1 : Tail(wset[w])[i] = wset[w][i + 1]
  BY SMTT(30), SMTT(60), <1>1, <1>3
<1>6. Writes(w)' = 1 .. Len(wset[w]) - 1 /\ \A i : Entry(w, i)' = Tail(wset[w])[i]
  BY <1>2, <1>3 DEF Writes, Entry
<1>7. 1 \in Writes(w) /\ Entry(w, 1) = Head(wset[w])
  BY SMTT(30), SMTT(60), <1>1, <1>3 DEF Writes, Entry
<1>8. \A i \in Writes(w)' : i + 1 \in Writes(w) /\ i + 1 # 1 /\ Entry(w, i)' = Entry(w, i + 1) /\ i \in Nat
  BY SMTT(30), SMTT(60), <1>3, <1>5, <1>6 DEF Writes, Entry
<1>9. \A i \in Writes(w) : i # 1 => i - 1 \in Writes(w)' /\ Entry(w, i - 1)' = Entry(w, i)
  <2> SUFFICES ASSUME NEW i \in Writes(w), i # 1
               PROVE  i - 1 \in Writes(w)' /\ Tail(wset[w])[i - 1] = wset[w][i]
    BY <1>6 DEF Entry
  <2>1. i - 1 \in 1 .. Len(wset[w]) - 1 /\ (i - 1) + 1 = i
    BY SMTT(30), SMTT(60), <1>3 DEF Writes
  <2> QED
    BY <1>5, <1>6, <2>1
<1> QED
  BY <1>2, <1>4, <1>7, <1>8, <1>9

(* A transaction's version heads one chain only. *)
LEMMA OneHead ==
    ASSUME IInv, NEW w \in Workers, pc[w] \notin Inserting \cup {"idle"},
           NEW o \in Oids, NEW p \in Oids, head[o] = head[p], head[o] \in Objects, clsn[head[o]] = Xid(xid[w])
    PROVE  o = p /\ \E i \in Writes(w) : Entry(w, i) = <<o, head[o]>>
<1>k. Names /\ Stamps /\ Owners /\ Heads /\ WriteSet(w) /\ head[o] # NoObj
  BY Start0 DEF IInv
<1>1. head[o][1] = xid[w] /\ clsn[head[o]].asi = "XID"
  BY <1>k, Kinds, StampFacts
<1>2. ASSUME NEW q \in Oids, head[q] = head[o] PROVE \E i \in Writes(w) : Entry(w, i) = <<q, head[o]>>
  <2>1. PICK u \in Workers : xid[u] = xid[w] /\ Writer(u, q)
    BY <1>k, <1>1, <1>2 DEF Heads, Headed
  <2>2. u = w
    BY <1>k, <2>1 DEF Owners
  <2> QED
    BY <1>2, <2>1, <2>2 DEF Writer
<1>3. PICK i \in Writes(w) : Entry(w, i) = <<o, head[o]>>
  BY <1>2
<1>4. PICK j \in Writes(w) : Entry(w, j) = <<p, head[o]>>
  BY <1>2
<1>5. i = j
  BY SMTT(30), SMTT(60), <1>k, <1>3, <1>4 DEF WriteSet, Written
<1> QED
  BY SMTT(30), SMTT(60), <1>3, <1>4, <1>5

(* The stores of a new version. *)
LEMMA Created ==
    ASSUME IInv, NEW w \in Workers, pc[w] # "idle", NEW o \in Oids, NEW s \in Ids,
           Create(w, NewObj(w), s), head' = [head EXCEPT ![o] = NewObj(w)]
    PROVE  /\ NewObj(w) \notin Objects /\ NewObj(w) \in Ids /\ NewObj(w)[1] = xid[w]
           /\ Objects' = Objects \cup {NewObj(w)}
           /\ \A v \in Objects : clsn'[v] = clsn[v] /\ next'[v] = next[v] /\ v # NewObj(w)
           /\ clsn'[NewObj(w)] = Xid(xid[w]) /\ next'[NewObj(w)] = s
           /\ head'[o] = NewObj(w) /\ \A p \in Oids : p # o => head'[p] = head[p]
           /\ StoreTypes'
<1>k. Types /\ StoreTypes /\ Names /\ Owners
  BY Start0
<1> DEFINE v == NewObj(w)
<1>1. v \notin Objects /\ v \in Ids /\ v[1] = xid[w]
  BY <1>k, Fresh
<1> HIDE DEF v
<1>2. /\ clsn' = [u \in Objects \cup {v} |-> IF u = v THEN Xid(xid[w]) ELSE clsn[u]]
      /\ next' = [u \in Objects \cup {v} |-> IF u = v THEN s ELSE next[u]]
      /\ born' = [u \in Objects \cup {v} |-> IF u = v THEN begin[w] ELSE born[u]]
      /\ head' = [head EXCEPT ![o] = v]
  BY <1>k DEF Create, Extend, StoreTypes, Objects, v
<1>3. Objects' = Objects \cup {v}
  BY <1>2 DEF Objects
<1>4. \A u \in Objects : clsn'[u] = clsn[u] /\ next'[u] = next[u] /\ u # v
  BY <1>1, <1>2
<1>5. clsn'[v] = Xid(xid[w]) /\ next'[v] = s
  BY <1>2
<1>6. head'[o] = v /\ \A p \in Oids : p # o => head'[p] = head[p]
  BY <1>k, <1>2 DEF StoreTypes
<1>7. head' \in [Oids -> Ids]
  BY <1>k, <1>1, <1>2 DEF StoreTypes
<1>8. next' \in [Objects' -> Ids]
  BY <1>k, <1>2, <1>3 DEF StoreTypes
<1>9. DOMAIN born' = Objects'
  BY <1>2, <1>3
<1> QED
  BY <1>1, <1>3, <1>4, <1>5, <1>6, <1>7, <1>8, <1>9 DEF StoreTypes, v

(* Installing a version, over nothing, a committed version or w's own. *)
Creation(w, o, s) ==
    /\ pc[w] \in {"install", "overwrite", "active"}
    /\ Create(w, NewObj(w), s) /\ head' = [head EXCEPT ![o] = NewObj(w)]
    /\ \/ head[o] = NoObj /\ s = NoObj /\ defunct' = defunct
       \/ head[o] \in Objects /\ IsLog(head[o]) /\ s = head[o] /\ defunct' = defunct
       \/ /\ head[o] \in Objects /\ clsn[head[o]] = Xid(xid[w]) /\ s = next[head[o]]
          /\ defunct' = defunct \cup {head[o]}
    /\ \/ /\ wset' = [wset EXCEPT ![w] = Append(wset[w], <<o, NewObj(w)>>)]
          /\ pc'[w] \in {"active", "dealloc"}
       \/ wset' = wset /\ pc'[w] = "insert" /\ cur'[w] = NewObj(w) /\ op'[w].oid = o
    /\ head[o] = NoObj => pc'[w] = "insert"
    /\ oids \subseteq oids' /\ o \in oids' /\ oids' \subseteq Oids
    /\ UNCHANGED <<lsn, owner, gen, cstate, cend, index, nver, xid, begin, absent, unlinked>>
    /\ Others(w) /\ LocalTypes' /\ Local(w)'

LEMMA Creates ==
    ASSUME IInv, NEW w \in Workers, NEW o \in Oids, NEW s \in Ids, Creation(w, o, s)
    PROVE  IInv'
<1> USE DEF Creation
<1>k. /\ Types /\ ContextTypes /\ StoreTypes /\ LeafTypes /\ TxnTypes /\ Owners /\ Holds(w) /\ Outcome(w)
      /\ WriteSet(w) /\ Names /\ Stamps /\ NoObj \notin Objects
  BY Start0
<1>v. PICK v : v = NewObj(w)
  OBVIOUS
<1>1. /\ v \notin Objects /\ v \in Ids /\ v[1] = xid[w]
      /\ Objects' = Objects \cup {v}
      /\ \A u \in Objects : clsn'[u] = clsn[u] /\ next'[u] = next[u] /\ u # v
      /\ clsn'[v] = Xid(xid[w]) /\ next'[v] = s
      /\ head'[o] = v /\ \A p \in Oids : p # o => head'[p] = head[p]
      /\ StoreTypes'
  <2>1. Create(w, NewObj(w), s) /\ head' = [head EXCEPT ![o] = NewObj(w)] /\ pc[w] # "idle"
    OBVIOUS
  <2> HIDE DEF Creation
  <2> QED
    BY ZenonT(60), ZenonT(90), <1>v, <2>1, Created
<1>2. /\ pc[w] \notin Inserting \cup {"idle"} \cup Undone
      /\ pc'[w] \notin Undone \cup {"idle", "ctor", "exit", "phantom", "stamp", "retract"}
  BY DEF Inserting, Undone
<1>3. <<o, v>> \in Oids \X Ids
  BY SMTT(30), SMTT(60), <1>1
<1>c. \/ wset' = [wset EXCEPT ![w] = Append(wset[w], <<o, v>>)]
      \/ wset' = wset /\ pc'[w] = "insert" /\ cur'[w] = v /\ op'[w].oid = o
  BY <1>v
<1>4. /\ \A i \in Writes(w) : Entry(w, i)' = Entry(w, i)
      /\ \/ \E n : Writes(w)' = Writes(w) \cup {n} /\ n \notin Writes(w) /\ Entry(w, n)' = <<o, v>>
         \/ Writes(w)' = Writes(w) /\ pc'[w] = "insert" /\ cur'[w] = v /\ op'[w].oid = o
  <2>1. CASE wset' = [wset EXCEPT ![w] = Append(wset[w], <<o, v>>)]
    BY <1>k, <1>3, <2>1, Grown
  <2>2. CASE wset' = wset /\ pc'[w] = "insert" /\ cur'[w] = v /\ op'[w].oid = o
    BY <2>2 DEF Writes, Entry
  <2> QED
    BY <1>c, <2>1, <2>2
<1>5. wset' \in [Workers -> Seq(Oids \X Ids)]
  <2>1. CASE wset' = [wset EXCEPT ![w] = Append(wset[w], <<o, v>>)]
    BY <1>k, <1>3, <2>1, Grown
  <2>2. CASE wset' = wset
    BY <1>k, <2>2 DEF TxnTypes
  <2> QED
    BY <1>c, <2>1, <2>2
<1>w. Writer(w, o)'
  <2>1. CASE \E n : Writes(w)' = Writes(w) \cup {n} /\ Entry(w, n)' = <<o, v>>
    BY <1>1, <2>1 DEF Writer
  <2>2. CASE pc'[w] = "insert" /\ cur'[w] = v /\ op'[w].oid = o
    BY <1>1, <2>2 DEF Writer, Inserting
  <2> QED
    BY <1>4, <2>1, <2>2
<1>6. Types'
  <2>1. ContextTypes' /\ LeafTypes'
    BY <1>k DEF ContextTypes, LeafTypes
  <2>2. TxnTypes'
    BY <1>k, <1>5 DEF TxnTypes
  <2> QED
    BY ZenonT(60), ZenonT(90), <1>1, <2>1, <2>2 DEF Types
<1>7. ContextSteps(w)
  <2>1. pc[w] # "exit"
    OBVIOUS
  <2> QED
    BY <2>1, SameContexts
<1>8. LeafSteps(w)
  BY <1>k, SameLeaf
<1>9. StoreSteps(w)
  <2>1. Installs(w, o)
    BY <1>v, <1>1, <1>2, <1>w DEF Installs
  <2>2. \A p \in Oids : head'[p] = head[p] \/ Installs(w, p)
    BY <1>1, <2>1
  <2>3. ASSUME NEW u \in defunct' \ defunct
        PROVE  u \in Objects /\ clsn[u] = Xid(xid[w]) /\ clsn'[u] = clsn[u] /\ u \notin Range(head)'
    <3>1. u = head[o] /\ u \in Objects /\ clsn[u] = Xid(xid[w])
      BY <2>3
    <3>2. ASSUME NEW p \in Oids, p # o PROVE head[p] # u
      BY <1>2, <3>1, <3>2, OneHead
    <3> QED
      BY <1>1, <3>1, <3>2 DEF StoreTypes, Range
  <2> QED
    BY <1>v, <1>1, <2>1, <2>2, <2>3 DEF StoreSteps
<1>10. OwnHeads(w)
  <2>1. ASSUME NEW p \in Oids, head'[p] = head[p], Writer(w, p) PROVE Writer(w, p)'
    BY <1>2, <1>4, <2>1 DEF Writer
  <2>2. ASSUME NEW p \in Oids, head'[p] # NoObj, head[p] = NoObj PROVE Indexed(p)'
    <3>1. p = o
      BY <1>1, <2>2
    <3>2. pc'[w] \in Inserting /\ op'[w].oid = o
      BY <1>2, <2>2, <3>1 DEF Inserting
    <3> QED
      BY <3>1, <3>2 DEF Indexed
  <2> QED
    BY <1>2, <2>1, <2>2 DEF OwnHeads
<1>11. Holds(w)' /\ Outcome(w)'
  BY <1>k, <1>2 DEF Holds, Outcome, Own, Undoing, Undone
<1>12. WriteSet(w)'
  <2>0. \A i \in Writes(w) : Entry(w, i)[1] \in Oids
    BY <1>k, EntryTypes
  <2>1. ASSUME NEW i \in Writes(w) PROVE Written(w, i) /\ Entry(w, i)[1] \in Oids /\ Entry(w, i)[2] \in Objects
    BY <1>k, <2>0 DEF WriteSet, Written
  <2>2. ASSUME NEW i \in Writes(w), Entry(w, i)[2] \notin defunct'
        PROVE  head'[Entry(w, i)[1]] = Entry(w, i)[2] /\ clsn'[Entry(w, i)[2]] = Xid(xid[w])
    <3>1. Entry(w, i)[2] \notin defunct
      BY <2>2
    <3>2. Dirty(w, Entry(w, i)[1], Entry(w, i)[2])
      BY <1>2, <2>1, <3>1 DEF Written
    <3>3. head[Entry(w, i)[1]] = Entry(w, i)[2] /\ clsn[Entry(w, i)[2]] = Xid(xid[w])
      BY <3>2 DEF Dirty
    <3>4. Entry(w, i)[1] # o
      BY SMTT(30), SMTT(60), <1>k, <2>1, <2>2, <3>3, StampFacts DEF IsLog
    <3> QED
      BY <1>1, <2>1, <3>3, <3>4
  <2>3. ASSUME NEW i \in Writes(w) PROVE Written(w, i)'
    <3>1. Entry(w, i)' = Entry(w, i) /\ Entry(w, i)[2] \in Objects' /\ Entry(w, i)[2][1] = xid[w]
      BY <1>1, <1>4, <2>1 DEF Written
    <3>2. \A j \in Writes(w)' : Entry(w, j)'[2] = Entry(w, i)[2] => i = j
      <4> SUFFICES ASSUME NEW j \in Writes(w)', Entry(w, j)'[2] = Entry(w, i)[2] PROVE i = j
        OBVIOUS
      <4>1. CASE j \in Writes(w)
        BY <1>4, <2>1, <4>1 DEF Written
      <4>2. CASE j \notin Writes(w)
        <5>1. Entry(w, j)' = <<o, v>>
          BY <1>4, <4>2
        <5>2. Entry(w, j)'[2] = v
          BY SMTT(30), SMTT(60), <5>1
        <5> QED
          BY <1>1, <2>1, <5>2
      <4> QED
        BY <4>1, <4>2
    <3> QED
      BY <1>2, <2>2, <3>1, <3>2 DEF Written, Dirty
  <2>4. ASSUME NEW i \in Writes(w)', i \notin Writes(w) PROVE Written(w, i)'
    <3>1. Entry(w, i)' = <<o, v>> /\ \A j \in Writes(w)' : j \in Writes(w) \/ i = j
      BY <1>4, <2>4
    <3>2. \A j \in Writes(w) : Entry(w, j)'[2] # v
      BY <1>1, <1>4, <2>1
    <3>3. Dirty(w, o, v)'
      BY <1>1, <1>2 DEF Dirty
    <3>4. Entry(w, i)'[1] = o /\ Entry(w, i)'[2] = v
      <4> HIDE DEF Creation
      <4> QED
        BY SMTT(30), SMTT(60), <3>1
    <3>5. v \in Objects' /\ v[1] = xid'[w] /\ pc'[w] \notin Undone
      BY SMTT(30), SMTT(60), <1>1, <1>2
    <3>6. \A j \in Writes(w)' : Entry(w, j)'[2] = v => i = j
      BY <3>1, <3>2
    <3> HIDE DEF Creation
    <3> QED
      BY <3>3, <3>4, <3>5, <3>6 DEF Written, Dirty
  <2> QED
    BY <1>2, <2>3, <2>4 DEF WriteSet
<1> QED
  BY ZenonT(60), ZenonT(90), <1>6, <1>7, <1>8, <1>9, <1>10, <1>11, <1>12, Combine DEF Step, Mine

LEMMA InstallKeeps ==
    ASSUME IInv, NEW w \in Workers, Install(w) PROVE IInv'
<1>k. /\ LocalTypes /\ TxnTypes /\ LeafTypes /\ StoreTypes /\ Refs(w) /\ Updater(w) /\ NoObj \notin Objects
      /\ \A o \in Oids : Headed(o)
  BY Start0
<1>0. /\ pc[w] = "install" /\ Return(w)
      /\ UNCHANGED <<lsn, owner, gen, cstate, cend, defunct, index, nver, oids, xid, begin, absent, unlinked>>
  BY DEF Install, contexts, leaf
<1>1. op[w].oid \in Oids /\ cur[w] \in Objects
  BY <1>k, <1>0 DEF Refs, UsesOid, UsesCur
<1>2. CASE Swapped(w)
  <2>0. /\ Create(w, NewObj(w), cur[w]) /\ head' = [head EXCEPT ![op[w].oid] = NewObj(w)]
        /\ wset' = [wset EXCEPT ![w] = Append(wset[w], <<op[w].oid, NewObj(w)>>)]
        /\ pc' = [pc EXCEPT ![w] = "active"]
    BY <1>2 DEF Install, Goto
  <2>1. head[op[w].oid] = cur[w] /\ IsLog(cur[w]) /\ cur[w] \in Ids
    BY <1>k, <1>0, <1>2 DEF Swapped, Updater, LocalTypes
  <2>2. op[w].oid \in oids
    BY <1>k, <1>1, <2>1 DEF Headed
  <2>3. LocalTypes' /\ pc'[w] = "active" /\ Others(w)
    <3>1. \A u \in Workers : u # w => wset'[u] = wset[u]
      BY <1>k, <2>0 DEF TxnTypes
    <3>2. "active" \in Labels /\ TxnsStay(w)
      BY <1>0, <3>1 DEF TxnsStay, Labels
    <3> QED
      BY <1>k, <1>0, <2>0, <3>2, ReturnStep
  <2>4. Objects' = Objects \cup {NewObj(w)} /\ <<op[w].oid, NewObj(w)>> \in Oids \X Ids
    BY <1>0, <1>1, <2>0, <2>1, Created
  <2>5. TxnTypes' /\ LeafTypes'
    <3>1. wset' \in [Workers -> Seq(Oids \X Ids)]
      BY <1>k, <2>0, <2>4, Grown
    <3> QED
      BY <1>k, <1>0, <3>1 DEF TxnTypes, LeafTypes
  <2>6. Local(w)'
    BY <1>k, <1>0, <2>0, <2>4, <2>5, ReturnLocal DEF Refs
  <2>7. Creation(w, op[w].oid, cur[w])
    <3>1. oids \subseteq oids' /\ op[w].oid \in oids' /\ oids' \subseteq Oids
      BY <1>k, <1>0, <2>2 DEF LeafTypes
    <3>2. head[op[w].oid] # NoObj
      BY <1>k, <1>1, <2>1
    <3> QED
      BY ZenonT(60), ZenonT(90), <1>0, <1>1, <2>0, <2>1, <2>3, <2>6, <3>1, <3>2 DEF Creation
  <2> QED
    BY <1>1, <2>1, <2>7, Creates
<1>3. CASE ~Swapped(w)
  <2>0. Kept /\ pc' = [pc EXCEPT ![w] = "abort"] /\ UNCHANGED begin
    BY <1>0, <1>3 DEF Install, Goto, Kept
  <2>1. TxnTypes' /\ LeafTypes'
    BY <1>k, <1>0, <2>0 DEF TxnTypes, LeafTypes, Kept
  <2>2. LocalTypes' /\ Others(w) /\ pc'[w] = "abort"
    <3>1. "abort" \in Labels /\ TxnsStay(w)
      BY <1>0, <2>0 DEF TxnsStay, Kept, Labels
    <3> QED
      BY <1>k, <1>0, <2>0, <3>1, ReturnStep
  <2>3. Reads(w)
    BY <1>0, <2>0, <2>2 DEF Reads, Calm, Labels, Undoing
  <2>4. Local(w)'
    BY <1>k, <1>0, <2>0, <2>1, ReturnLocal DEF Refs, Kept, Objects
  <2> QED
    BY <2>1, <2>2, <2>3, <2>4, ReadsKeep
<1> QED
  BY <1>2, <1>3

LEMMA OverwriteKeeps ==
    ASSUME IInv, NEW w \in Workers, Overwrite(w) PROVE IInv'
<1>k. /\ LocalTypes /\ TxnTypes /\ LeafTypes /\ StoreTypes /\ Refs(w) /\ Updater(w) /\ NoObj \notin Objects
      /\ \A o \in Oids : Headed(o)
  BY Start0
<1>0. /\ pc[w] = "overwrite" /\ pc' = [pc EXCEPT ![w] = "dealloc"]
      /\ Create(w, NewObj(w), next[cur[w]]) /\ head' = [head EXCEPT ![op[w].oid] = NewObj(w)]
      /\ wset' = [wset EXCEPT ![w] = Append(wset[w], <<op[w].oid, NewObj(w)>>)]
      /\ defunct' = defunct \cup {cur[w]}
      /\ UNCHANGED <<lsn, owner, gen, cstate, cend, index, nver, oids, xid, begin, absent, unlinked,
                     op, cur, nxt, holder, saw>>
  BY DEF Overwrite, Goto, contexts, leaf, locals
<1>1. op[w].oid \in Oids /\ cur[w] \in Objects /\ next[cur[w]] \in Ids
  BY <1>k, <1>0 DEF Refs, UsesOid, UsesCur, StoreTypes
<1>2. head[op[w].oid] = cur[w] /\ clsn[cur[w]] = Xid(xid[w]) /\ head[op[w].oid] # NoObj
  BY <1>k, <1>0, <1>1 DEF Updater
<1>3. op[w].oid \in oids
  BY <1>k, <1>1, <1>2 DEF Headed
<1>4. LocalTypes' /\ pc'[w] = "dealloc"
  BY <1>k, <1>0 DEF LocalTypes, Labels
<1>5. Others(w)
  BY <1>k, <1>0 DEF Others, LocalTypes, TxnTypes
<1>6. Objects' = Objects \cup {NewObj(w)}
  BY <1>0, <1>1, Created
<1>7. Local(w)'
  <2>1. Refs(w)'
    BY <1>k, <1>0, <1>1, <1>4, <1>6 DEF Refs, UsesOid, UsesCur, UsesKey, UsesHolder
  <2>2. Reader(w)' /\ Updater(w)'
    BY <1>0, <1>4 DEF Reader, Updater, Inserting
  <2> QED
    BY <2>1, <2>2 DEF Local
<1>8. Creation(w, op[w].oid, next[cur[w]])
  <2>1. oids \subseteq oids' /\ op[w].oid \in oids' /\ oids' \subseteq Oids
    BY <1>k, <1>0, <1>3 DEF LeafTypes
  <2> QED
    BY ZenonT(60), ZenonT(90), <1>0, <1>1, <1>2, <1>4, <1>5, <1>7, <2>1 DEF Creation
<1> QED
  BY <1>1, <1>8, Creates

LEMMA InsertKeeps ==
    ASSUME IInv, NEW w \in Workers, NEW k \in Keys, Insert(w, k) PROVE IInv'
<1>k. /\ LocalTypes /\ TxnTypes /\ LeafTypes /\ StoreTypes /\ Refs(w) /\ NoObj \notin Objects /\ WriteSet(w)
      /\ \A o \in Oids : Headed(o)
  BY Start0
<1>1. PICK o \in Oids \ oids :
        /\ oids' = oids \cup {o} /\ Create(w, NewObj(w), NoObj)
        /\ head' = [head EXCEPT ![o] = NewObj(w)] /\ cur' = [cur EXCEPT ![w] = NewObj(w)]
        /\ op' = [op EXCEPT ![w] = [kind |-> "insert", key |-> k, oid |-> o]]
  BY DEF Insert
<1>0. /\ pc[w] = "active" /\ pc' = [pc EXCEPT ![w] = "insert"]
      /\ UNCHANGED <<lsn, owner, gen, cstate, cend, defunct, index, nver, xid, begin, wset, absent, unlinked,
                     nxt, holder, saw>>
  BY DEF Insert, Goto, contexts, txn
<1>2. NoObj \in Ids /\ head[o] = NoObj
  BY <1>k DEF Headed, NoObj, NoXid, Ids, Xids
<1>3. /\ NewObj(w) \notin Objects /\ NewObj(w) \in Ids /\ Objects' = Objects \cup {NewObj(w)}
      /\ clsn'[NewObj(w)] = Xid(xid[w]) /\ next'[NewObj(w)] = NoObj /\ head'[o] = NewObj(w)
      /\ NewObj(w) \in Xids \X (Nat \ {0})
  <2>1. Types /\ Names /\ Owners /\ pc[w] # "idle" /\ o \in Oids
    BY <1>0, Start0
  <2>2. NewObj(w) \in Xids \X (Nat \ {0})
    BY <2>1, Fresh
  <2> QED
    <3>1. Create(w, NewObj(w), NoObj) /\ head' = [head EXCEPT ![o] = NewObj(w)] /\ NoObj \in Ids
      BY <1>1, <1>2
    <3>2. /\ NewObj(w) \notin Objects /\ NewObj(w) \in Ids /\ Objects' = Objects \cup {NewObj(w)}
          /\ clsn'[NewObj(w)] = Xid(xid[w]) /\ next'[NewObj(w)] = NoObj /\ head'[o] = NewObj(w)
      BY ZenonT(60), ZenonT(90), <2>1, <3>1, Created
    <3> QED
      BY <2>2, <3>2
<1>4. NewObj(w) # NoObj
  BY SMTT(30), SMTT(60), <1>3 DEF NoObj
<1>5. LocalTypes'
  <2>1. pc' \in [Workers -> Labels] /\ cur' \in [Workers -> Ids]
    BY <1>k, <1>0, <1>1, <1>3 DEF LocalTypes, Labels
  <2>2. o \in 0..MaxOid
    BY SMTT(30), SMTT(60), BoundsAssumption DEF Oids
  <2>3. op' \in [Workers -> OpType]
    BY <1>k, <1>1, <2>2 DEF LocalTypes, OpType
  <2> QED
    BY <1>k, <1>0, <2>1, <2>3 DEF LocalTypes
<1>6. pc'[w] = "insert" /\ cur'[w] = NewObj(w) /\ op'[w].oid = o /\ op'[w].key = k
  BY <1>k, <1>0, <1>1 DEF LocalTypes
<1>7. Others(w)
  BY <1>k, <1>0, <1>1 DEF Others, LocalTypes, TxnTypes
<1>8. Local(w)'
  <2>1. Refs(w)'
    BY <1>k, <1>0, <1>3, <1>4, <1>6 DEF Refs, UsesOid, UsesCur, UsesKey, UsesHolder
  <2>2. \A i \in Writes(w)' : Entry(w, i)'[2] # cur'[w]
    <3>1. Writes(w)' = Writes(w) /\ \A i : Entry(w, i)' = Entry(w, i)
      BY <1>0 DEF Writes, Entry
    <3>2. \A i \in Writes(w) : Entry(w, i)[2] \in Objects
      BY <1>k DEF WriteSet, Written
    <3> QED
      BY <1>3, <1>6, <3>1, <3>2
  <2>3. Reader(w)'
    BY <1>6 DEF Reader
  <2>4. Updater(w)'
    BY <1>0, <1>3, <1>6, <2>2 DEF Updater, Inserting
  <2> QED
    BY <2>1, <2>3, <2>4 DEF Local
<1>9. Creation(w, o, NoObj)
  <2>1. oids \subseteq oids' /\ o \in oids' /\ oids' \subseteq Oids
    BY <1>k, <1>1 DEF LeafTypes
  <2> QED
    BY ZenonT(60), ZenonT(90), <1>0, <1>1, <1>2, <1>5, <1>6, <1>7, <1>8, <2>1 DEF Creation
<1> QED
  BY <1>2, <1>9, Creates

-----------------------------------------------------------------------------
(* Giving a version back: its link now leads to the list of such versions. *)
LEMMA Freed ==
    ASSUME IInv, NEW w \in Workers, NEW v \in Objects, Deallocate(w, v), clsn' = clsn, born' = born, head' = head
    PROVE  /\ Objects' = Objects /\ Range(head)' = Range(head) /\ StoreTypes'
           /\ next'[v] \in Objects \cup {NoObj} /\ \A u \in Objects : u # v => next'[u] = next[u]
           /\ unlinked' \in [Workers -> Ids] /\ unlinked'[w] = v
           /\ \A u \in Workers : u # w => unlinked'[u] = unlinked[u]
<1>k. StoreTypes /\ TxnTypes /\ Refs(w) /\ Names
  BY Start0
<1>1. next' = [next EXCEPT ![v] = unlinked[w]] /\ unlinked' = [unlinked EXCEPT ![w] = v]
  BY DEF Deallocate
<1>2. Objects' = Objects /\ v \in Ids /\ unlinked[w] \in Ids
  BY <1>k DEF Objects, Names, Ids, TxnTypes
<1>3. next' \in [Objects' -> Ids]
  BY <1>k, <1>1, <1>2 DEF StoreTypes
<1>4. StoreTypes'
  BY <1>k, <1>2, <1>3 DEF StoreTypes
<1>5. next'[v] = unlinked[w] /\ \A u \in Objects : u # v => next'[u] = next[u]
  BY <1>k, <1>1 DEF StoreTypes
<1>6. unlinked' \in [Workers -> Ids] /\ unlinked'[w] = v /\ \A u \in Workers : u # w => unlinked'[u] = unlinked[u]
  BY <1>k, <1>1, <1>2 DEF TxnTypes
<1> QED
  BY <1>k, <1>2, <1>4, <1>5, <1>6 DEF Refs

LEMMA FreeOverwrittenKeeps ==
    ASSUME IInv, NEW w \in Workers, FreeOverwritten(w) PROVE IInv'
<1>k. /\ LocalTypes /\ TxnTypes /\ LeafTypes /\ StoreTypes /\ ContextTypes /\ Refs(w) /\ Updater(w)
      /\ NoObj \notin Objects /\ WriteSet(w) /\ Owners /\ Holds(w) /\ Outcome(w)
  BY Start0
<1>0. /\ pc[w] = "dealloc" /\ pc' = [pc EXCEPT ![w] = "active"] /\ Return(w) /\ Deallocate(w, cur[w])
      /\ UNCHANGED <<lsn, owner, gen, cstate, cend, head, clsn, defunct, born, index, nver, oids,
                     xid, begin, wset, absent>>
  BY DEF FreeOverwritten, Goto, contexts, leaf
<1>1. cur[w] \in Objects /\ cur[w] \in defunct
  BY <1>k, <1>0 DEF Refs, UsesOid, UsesCur, Updater
<1>2. /\ Objects' = Objects /\ Range(head)' = Range(head) /\ StoreTypes'
      /\ next'[cur[w]] \in Objects \cup {NoObj} /\ \A u \in Objects : u # cur[w] => next'[u] = next[u]
      /\ unlinked' \in [Workers -> Ids] /\ unlinked'[w] = cur[w]
      /\ \A u \in Workers : u # w => unlinked'[u] = unlinked[u]
  BY <1>0, <1>1, Freed
<1>3. TxnTypes' /\ LeafTypes' /\ ContextTypes'
  BY <1>k, <1>0, <1>2 DEF TxnTypes, LeafTypes, ContextTypes
<1>4. LocalTypes' /\ pc'[w] = "active" /\ Others(w)
  <2>1. "active" \in Labels /\ TxnsStay(w)
    BY <1>0, <1>2 DEF TxnsStay, Labels
  <2> QED
    BY <1>k, <1>0, <2>1, ReturnStep
<1>5. Local(w)'
  BY <1>k, <1>0, <1>1, <1>2, <1>3, ReturnLocal DEF Refs
<1>6. ContextSteps(w)
  BY <1>0, SameContexts
<1>7. StoreSteps(w)
  BY <1>0, <1>1, <1>2 DEF StoreSteps
<1>8. LeafSteps(w)
  BY <1>k, <1>0, SameLeaf
<1>9. Writes(w)' = Writes(w) /\ \A i : Entry(w, i)' = Entry(w, i)
  BY <1>0 DEF Writes, Entry
<1>10. OwnHeads(w)
  BY <1>0, <1>4, <1>9 DEF OwnHeads, Writer, Inserting
<1>11. Holds(w)' /\ Outcome(w)'
  BY <1>k, <1>0, <1>4 DEF Holds, Outcome, Own, Undoing
<1>12. WriteSet(w)'
  <2>1. pc[w] \notin Undone /\ pc'[w] \notin Undone \cup {"idle", "ctor", "exit", "phantom", "stamp"}
    BY <1>0, <1>4 DEF Undone
  <2>2. ASSUME NEW i \in Writes(w) PROVE Written(w, i)'
    <3>1. Written(w, i) /\ Entry(w, i)' = Entry(w, i)
      BY <1>k, <1>9 DEF WriteSet
    <3>2. Entry(w, i)[2] \notin defunct => Dirty(w, Entry(w, i)[1], Entry(w, i)[2])'
      BY <1>0, <2>1, <3>1 DEF Written, Dirty
    <3> QED
      BY <1>0, <1>2, <1>9, <2>1, <3>1, <3>2 DEF Written
  <2> QED
    BY <1>9, <2>1, <2>2 DEF WriteSet
<1> QED
  BY <1>2, <1>3, <1>4, <1>5, <1>6, <1>7, <1>8, <1>10, <1>11, <1>12, Combine DEF Step, Mine, Types

-----------------------------------------------------------------------------
(* Working off the write set, from its front. *)

(* What is left of the write set keeps its heads if they stay. *)
LEMMA RestWritten ==
    ASSUME IInv, NEW w \in Workers, wset[w] # <<>>, wset' = [wset EXCEPT ![w] = Tail(wset[w])],
           pc[w] \in Undoing \cup {"stamp"}, pc'[w] \in {"undo", "stamp"}, xid'[w] = xid[w], cend' = cend,
           pc'[w] = "stamp" => pc[w] = "stamp",
           Objects' = Objects, defunct' = defunct, head' = head,
           \A i \in Writes(w) : i # 1 /\ Entry(w, i)[2] \notin defunct =>
              /\ clsn'[Entry(w, i)[2]] = clsn[Entry(w, i)[2]]
              /\ pc[w] = "stamp" => LET v == Entry(w, i)[2] IN
                   next'[v] = next[v] /\ (next[v] # NoObj => clsn'[next[v]] = clsn[next[v]])
    PROVE  WriteSet(w)'
<1>k. TxnTypes /\ WriteSet(w)
  BY Start0
<1>1. \A i \in Writes(w)' : i + 1 \in Writes(w) /\ i + 1 # 1 /\ Entry(w, i)' = Entry(w, i + 1) /\ i \in Nat
  BY <1>k, Shrunk
<1>2. pc'[w] \notin Undone \cup {"idle", "ctor", "exit", "phantom"} /\ Own(w)' = Own(w)
  BY DEF Undone, Own
<1>3. ASSUME NEW i \in Writes(w)' PROVE Written(w, i)'
  <2>0. PICK e : e = Entry(w, i + 1)
    OBVIOUS
  <2>1. i + 1 \in Writes(w) /\ i + 1 # 1 /\ Entry(w, i)' = e /\ i \in Nat
    BY <1>1, <2>0
  <2>2. Written(w, i + 1) /\ e[2] \in Objects /\ e[2][1] = xid[w]
    BY <1>k, <2>0, <2>1 DEF WriteSet, Written
  <2>3. ASSUME NEW j \in Writes(w)', Entry(w, j)'[2] = e[2] PROVE i = j
    <3>1. j + 1 \in Writes(w) /\ Entry(w, j)' = Entry(w, j + 1) /\ j \in Nat
      BY <1>1, <2>3
    <3>2. i + 1 = j + 1
      BY <2>0, <2>2, <2>3, <3>1 DEF Written
    <3> QED
      BY SMTT(30), SMTT(60), <2>1, <3>1, <3>2
  <2>4. ASSUME e[2] \notin defunct PROVE Dirty(w, e[1], e[2])'
    <3>1. Dirty(w, e[1], e[2])
      BY <2>0, <2>1, <2>2, <2>4 DEF Written
    <3>2. /\ clsn'[e[2]] = clsn[e[2]]
          /\ pc[w] = "stamp" => next'[e[2]] = next[e[2]] /\ (next[e[2]] # NoObj => clsn'[next[e[2]]] = clsn[next[e[2]]])
      BY <2>0, <2>1, <2>4
    <3> QED
      BY <1>2, <3>1, <3>2 DEF Dirty
  <2> QED
    BY <1>2, <2>1, <2>2, <2>3, <2>4 DEF Written, Dirty
<1> QED
  BY <1>2, <1>3 DEF WriteSet

(* What w heads, it still has in its write set, unless it was the first. *)
LEMMA RestHeads ==
    ASSUME IInv, NEW w \in Workers, wset[w] # <<>>, wset' = [wset EXCEPT ![w] = Tail(wset[w])],
           pc[w] \in Undoing \cup {"stamp"}, xid'[w] = xid[w], head' = head,
           \A o \in Oids : head[o] \in Objects /\ clsn'[head[o]] = Xid(xid[w]) => head[o] # Entry(w, 1)[2]
    PROVE  OwnHeads(w)
<1>k. TxnTypes
  BY Start0
<1>1. \A i \in Writes(w) : i # 1 => i - 1 \in Writes(w)' /\ Entry(w, i - 1)' = Entry(w, i)
  BY <1>k, Shrunk
<1>2. pc[w] \notin Inserting
  BY DEF Inserting, Undoing
<1>3. ASSUME NEW o \in Oids, head[o] \in Objects, clsn'[head[o]] = Xid(xid[w]), Writer(w, o)
      PROVE  Writer(w, o)'
  <2>1. PICK i \in Writes(w) : Entry(w, i) = <<o, head[o]>>
    BY <1>2, <1>3 DEF Writer
  <2>2. i # 1
    BY SMTT(30), SMTT(60), <1>3, <2>1
  <2>3. i - 1 \in Writes(w)' /\ Entry(w, i - 1)' = <<o, head'[o]>>
    BY <1>1, <2>1, <2>2
  <2> QED
    BY <2>3 DEF Writer
<1> QED
  BY <1>2, <1>3 DEF OwnHeads

(* The frame of these steps. *)
Resolution(w) ==
    /\ \/ pc[w] \in Undoing /\ pc'[w] \in Undoing
       \/ pc[w] = "stamp" /\ pc'[w] = "stamp"
    /\ \A u \in Workers : u # w => pc'[u] = pc[u] /\ wset'[u] = wset[u] /\ unlinked'[u] = unlinked[u]
    /\ pc' \in [Workers -> Labels] /\ wset' \in [Workers -> Seq(Oids \X Ids)] /\ unlinked' \in [Workers -> Ids]
    /\ unlinked'[w] \in Objects \cup {NoObj} /\ Objects' = Objects /\ StoreTypes'
    /\ UNCHANGED <<lsn, owner, gen, cstate, cend, index, nver, oids, xid, begin, absent, op, cur, nxt, holder, saw>>
    /\ StoreSteps(w) /\ OwnHeads(w) /\ WriteSet(w)'

LEMMA Resolving ==
    ASSUME IInv, NEW w \in Workers, Resolution(w)
    PROVE  IInv'
<1> USE DEF Resolution
<1>k. /\ LocalTypes /\ TxnTypes /\ LeafTypes /\ ContextTypes /\ Refs(w) /\ Owners /\ Holds(w) /\ Outcome(w)
  BY Start0
<1>1. TxnTypes' /\ LeafTypes' /\ ContextTypes' /\ LocalTypes'
  BY <1>k DEF TxnTypes, LeafTypes, ContextTypes, LocalTypes
<1>2. Others(w)
  BY DEF Others
<1>3. ContextSteps(w)
  <2>1. pc[w] # "exit"
    BY DEF Undoing
  <2> QED
    BY <2>1, SameContexts
<1>4. LeafSteps(w)
  BY <1>k, SameLeaf
<1>5. Holds(w)' /\ Outcome(w)'
  BY <1>k DEF Holds, Outcome, Own, Undoing
<1>6. Refs(w)'
  BY <1>k DEF Refs, UsesOid, UsesCur, UsesKey, UsesHolder, Undoing
<1>7. Local(w)'
  BY <1>6, PlainLocal DEF Plain, Labels, Undoing
<1> QED
  BY <1>1, <1>2, <1>3, <1>4, <1>5, <1>7, Combine DEF Step, Mine, Types

LEMMA StampKeeps ==
    ASSUME IInv, NEW w \in Workers, Stamp(w) PROVE IInv'
<1>k. /\ LocalTypes /\ TxnTypes /\ StoreTypes /\ Refs(w) /\ WriteSet(w) /\ Links /\ ChainOrder /\ Names /\ Stamps
      /\ \A o \in Oids : Headed(o)
  BY Start0
<1> DEFINE v == Entry(w, 1)[2]
<1>0. /\ pc[w] = "stamp" /\ wset[w] # <<>> /\ wset' = [wset EXCEPT ![w] = Tail(wset[w])]
      /\ clsn' = IF Head(wset[w])[2] \in defunct THEN clsn
                 ELSE [clsn EXCEPT ![Head(wset[w])[2]] = Log(cend[Own(w)])]
      /\ UNCHANGED <<lsn, owner, gen, cstate, cend, head, next, defunct, born, index, nver, oids, xid, begin,
                     absent, unlinked, pc, op, cur, nxt, holder, saw>>
  BY DEF Stamp, contexts, leaf, locals
<1>1. /\ wset' \in [Workers -> Seq(Oids \X Ids)] /\ 1 \in Writes(w) /\ v = Head(wset[w])[2]
      /\ \A u \in Workers : u # w => wset'[u] = wset[u]
  BY <1>k, <1>0, Shrunk
<1>2. Written(w, 1) /\ v \in Objects /\ Entry(w, 1)[1] \in Oids
  BY SMTT(30), SMTT(60), <1>k, <1>1 DEF WriteSet, Written, TxnTypes, Entry, Writes
<1>3. v \notin defunct => Dirty(w, Entry(w, 1)[1], v)
  BY <1>0, <1>2 DEF Written, Undone
<1> HIDE DEF v
<1>4. /\ Objects' = Objects /\ \A u \in Objects : u # v => clsn'[u] = clsn[u]
      /\ IF v \in defunct THEN clsn'[v] = clsn[v] ELSE clsn'[v] = Log(cend[Own(w)])
  <2>1. CASE v \in defunct
    BY <1>0, <1>1, <2>1 DEF Objects
  <2>2. CASE v \notin defunct
    <3>1. clsn' = [clsn EXCEPT ![v] = Log(cend[Own(w)])]
      BY <1>0, <1>1, <2>2
    <3>2. DOMAIN clsn' = DOMAIN clsn /\ v \in DOMAIN clsn
      BY <1>2, <3>1 DEF Objects
    <3> QED
      BY <2>2, <3>1, <3>2 DEF Objects
  <2> QED
    BY <2>1, <2>2
<1>5. StoreTypes' /\ Range(head)' = Range(head)
  BY <1>k, <1>0, <1>4 DEF StoreTypes
<1>6. v \notin defunct => Commits(w, v)
  <2> SUFFICES ASSUME v \notin defunct PROVE Commits(w, v)
    OBVIOUS
  <2>1. head[Entry(w, 1)[1]] = v /\ clsn[v] = Xid(xid[w]) /\ (next[v] # NoObj => clsn[next[v]].lsn < cend[Own(w)])
    BY <1>0, <1>3 DEF Dirty
  <2>2. v \in Range(head)
    BY <1>k, <1>2, <2>1, Entries
  <2> QED
    BY <1>0, <1>4, <2>1, <2>2 DEF Commits
<1>7. StoreSteps(w)
  BY <1>0, <1>4, <1>5, <1>6 DEF StoreSteps
<1>8. ASSUME NEW o \in Oids, head[o] \in Objects, clsn'[head[o]] = Xid(xid[w]) PROVE head[o] # v
  <2>1. head[o] # NoObj
    BY <1>8, Start0
  <2>2. head[o] \notin defunct
    BY <1>k, <2>1 DEF Headed
  <2> QED
    BY SMTT(30), SMTT(60), <1>4, <1>8, <2>2, StampFacts
<1>9. OwnHeads(w)
  BY <1>0, <1>8, RestHeads DEF v
<1>10. ASSUME NEW i \in Writes(w), i # 1, Entry(w, i)[2] \notin defunct
       PROVE  /\ clsn'[Entry(w, i)[2]] = clsn[Entry(w, i)[2]]
              /\ next[Entry(w, i)[2]] # NoObj =>
                   clsn'[next[Entry(w, i)[2]]] = clsn[next[Entry(w, i)[2]]]
  <2>1. Entry(w, i)[2] \in Objects /\ Entry(w, i)[2] # v
    BY <1>k, <1>1, <1>10 DEF WriteSet, Written, v
  <2>2. v \notin defunct => clsn[v] = Xid(xid[w])
    BY <1>6 DEF Commits
  <2>3. head[Entry(w, i)[1]] = Entry(w, i)[2] /\ Entry(w, i)[1] \in Oids
    <3>1. Entry(w, i)[1] \in Oids
      BY <1>k, EntryTypes
    <3> QED
      BY <1>k, <1>0, <1>10, <3>1 DEF WriteSet, Written, Dirty, Undone
  <2>4. Entry(w, i)[2] \in Range(head)
    BY <1>k, <2>3, Entries
  <2>5. next[Entry(w, i)[2]] # NoObj => IsLog(next[Entry(w, i)[2]]) /\ next[Entry(w, i)[2]] \in Objects
    BY <1>k, <2>1, <2>4 DEF ChainOrder, Links
  <2>6. ASSUME NEW u \in Objects, IsLog(u) PROVE clsn'[u] = clsn[u]
    BY <1>4, <2>2, <2>6, StampFacts DEF IsLog
  <2> QED
    BY <1>4, <2>1, <2>5, <2>6
<1>11. WriteSet(w)'
  BY <1>0, <1>4, <1>10, RestWritten DEF Undoing
<1>20. Resolution(w)
  BY ZenonT(60), ZenonT(90), <1>k, <1>0, <1>1, <1>4, <1>5, <1>7, <1>9, <1>11 DEF Resolution, Refs, TxnTypes, LocalTypes
<1> QED
  BY <1>20, Resolving

LEMMA UndoUnlinkKeeps ==
    ASSUME IInv, NEW w \in Workers, UndoUnlink(w) PROVE IInv'
<1>k. /\ LocalTypes /\ TxnTypes /\ StoreTypes /\ Refs(w) /\ WriteSet(w) /\ Links /\ ChainOrder /\ Names /\ Stamps
      /\ NoObj \notin Objects /\ \A o \in Oids : Headed(o)
  BY Start0
<1> DEFINE o == Entry(w, 1)[1]
           v == Entry(w, 1)[2]
<1>0. /\ pc[w] = "undo" /\ wset[w] # <<>>
      /\ UNCHANGED <<lsn, owner, gen, cstate, cend, next, clsn, defunct, born, index, nver, oids, xid, begin,
                     absent, unlinked, op, cur, nxt, holder, saw>>
  BY DEF UndoUnlink, contexts, leaf, locals
<1>1. 1 \in Writes(w) /\ Entry(w, 1) = Head(wset[w])
  BY SMTT(30), SMTT(60), <1>k, <1>0 DEF Writes, Entry, TxnTypes
<1>2. Written(w, 1) /\ v \in Objects /\ o \in Oids
  <2>1. o \in Oids
    BY <1>k, <1>1, EntryTypes
  <2> QED
    BY <1>k, <1>1, <2>1 DEF WriteSet, Written
<1>3. Objects' = Objects
  BY <1>0 DEF Objects
<1>4. CASE v \in defunct
  <2>0. wset' = [wset EXCEPT ![w] = Tail(wset[w])] /\ UNCHANGED <<head, pc>>
    BY <1>1, <1>4 DEF UndoUnlink
  <2>1. wset' \in [Workers -> Seq(Oids \X Ids)] /\ \A u \in Workers : u # w => wset'[u] = wset[u]
    BY <1>k, <1>0, <2>0, Shrunk
  <2>2. \A p \in Oids : head[p] \in Objects => head[p] # v
    BY <1>k, <1>4 DEF Headed
  <2>3. OwnHeads(w)
    BY <1>0, <2>0, <2>2, RestHeads DEF Undoing
  <2>4. WriteSet(w)'
    BY <1>0, <1>3, <2>0, RestWritten DEF Undoing
  <2>5. StoreTypes' /\ StoreSteps(w)
    BY <1>k, <1>0, <1>3, <2>0 DEF StoreTypes, StoreSteps
  <2>20. Resolution(w)
    BY ZenonT(60), ZenonT(90), <1>k, <1>0, <1>3, <2>0, <2>1, <2>3, <2>4, <2>5 DEF Resolution, Refs, TxnTypes, LocalTypes, Undoing
  <2> QED
    BY <2>20, Resolving
<1>5. CASE v \notin defunct
  <2>0. head' = [head EXCEPT ![o] = next[head[o]]] /\ pc' = [pc EXCEPT ![w] = "undo_clsn"] /\ UNCHANGED wset
    BY <1>1, <1>5 DEF UndoUnlink, Unlink, Goto
  <2>1. head[o] = v /\ clsn[v] = Xid(xid[w])
    BY <1>0, <1>2, <1>5 DEF Written, Dirty, Undone
  <2>2. v \in Range(head)
    BY <1>k, <1>2, <2>1, Entries
  <2>3. next[v] = NoObj \/ (IsLog(next[v]) /\ next[v] \in Objects)
    BY <1>k, <1>2, <2>2 DEF ChainOrder, Links
  <2>4. next[v] # v /\ next[v] \in Ids
    BY SMTT(30), SMTT(60), <1>k, <1>2, <2>1, <2>3, StampFacts DEF IsLog, StoreTypes
  <2>5. head'[o] = next[v] /\ \A p \in Oids : p # o => head'[p] = head[p]
    BY <1>k, <1>2, <2>0, <2>1 DEF StoreTypes
  <2>6. StoreTypes'
    BY <1>k, <1>0, <1>3, <2>0, <2>1, <2>4 DEF StoreTypes
  <2>7. pc' \in [Workers -> Labels] /\ pc'[w] = "undo_clsn" /\ \A u \in Workers : u # w => pc'[u] = pc[u]
    BY <1>k, <2>0 DEF LocalTypes, Labels
  <2>8. StoreSteps(w)
    <3>1. Unlinks(w, o)
      BY <1>2, <2>1, <2>5 DEF Unlinks
    <3>2. \A p \in Oids : head'[p] = head[p] \/ Unlinks(w, p)
      BY <2>5, <3>1
    <3> QED
      BY <1>0, <1>3, <3>2 DEF StoreSteps
  <2>9. Writes(w)' = Writes(w) /\ \A i : Entry(w, i)' = Entry(w, i)
    BY <2>0 DEF Writes, Entry
  <2>10. OwnHeads(w)
    <3>1. pc[w] \notin Inserting
      BY <1>0 DEF Inserting
    <3>2. \A p \in Oids : head[p] = NoObj => head'[p] = NoObj
      BY <1>k, <1>2, <2>1, <2>5
    <3> QED
      BY <1>0, <2>9, <3>1, <3>2 DEF OwnHeads, Writer
  <2>11. v \notin Range(head)'
    <3>1. \A p \in Oids : p # o => head[p] # v
      BY <1>0, <1>2, <2>1, OneHead DEF Inserting
    <3> QED
      BY <2>4, <2>5, <2>6, <3>1 DEF StoreTypes, Range
  <2>12. ASSUME NEW i \in Writes(w) PROVE Written(w, i)'
    <3>0. PICK e : e = Entry(w, i)
      OBVIOUS
    <3>1. Written(w, i) /\ Entry(w, i)' = e /\ e[1] \in Oids
      BY SMTT(30), SMTT(60), <1>k, <2>9, <3>0 DEF WriteSet, TxnTypes, Entry, Writes
    <3>2. CASE i = 1
      <4>1. e[2] = v /\ Taken(w, e[2])'
        BY <1>0, <2>1, <2>7, <2>11, <3>0, <3>2 DEF Taken
      <4> QED
        BY <1>0, <1>3, <2>7, <2>9, <3>0, <3>1, <3>2, <4>1 DEF Written, Undone, Taken
    <3>3. CASE i # 1
      <4>1. e[2] # v
        BY <1>1, <3>0, <3>1, <3>3 DEF Written
      <4>2. e[2] \notin defunct => head'[e[1]] = e[2] /\ clsn'[e[2]] = Xid(xid[w])
        BY <1>0, <2>1, <2>5, <3>0, <3>1, <3>3, <4>1 DEF Written, Dirty
      <4>3. e[2] \notin defunct => Dirty(w, e[1], e[2])'
        BY <1>0, <2>7, <4>2 DEF Dirty
      <4> QED
        BY <1>0, <1>3, <2>9, <3>0, <3>1, <3>3, <4>3 DEF Written, Dirty
    <3> QED
      BY <3>2, <3>3
  <2>13. WriteSet(w)'
    BY <1>0, <1>5, <2>0, <2>7, <2>9, <2>12 DEF WriteSet, Undone
  <2>20. Resolution(w)
    BY ZenonT(60), ZenonT(90), <1>k, <1>0, <1>3, <2>0, <2>6, <2>7, <2>8, <2>10, <2>13 DEF Resolution, Refs, TxnTypes, Undoing
  <2> QED
    BY <2>20, Resolving
<1> QED
  BY <1>4, <1>5

LEMMA UndoClsnKeeps ==
    ASSUME IInv, NEW w \in Workers, UndoClsn(w) PROVE IInv'
<1>k. LocalTypes /\ TxnTypes /\ StoreTypes /\ Refs(w) /\ WriteSet(w)
  BY Start0
<1> DEFINE v == Entry(w, 1)[2]
<1>0. /\ pc[w] = "undo_clsn" /\ pc' = [pc EXCEPT ![w] = "undo_free"]
      /\ clsn' = [clsn EXCEPT ![Head(wset[w])[2]] = NullPtr]
      /\ UNCHANGED <<lsn, owner, gen, cstate, cend, head, next, defunct, born, index, nver, oids, xid, begin,
                     wset, absent, unlinked, op, cur, nxt, holder, saw>>
  BY DEF UndoClsn, Goto, contexts, leaf, txn, locals
<1>1. wset[w] # <<>> /\ v \notin defunct
  BY <1>k, <1>0 DEF WriteSet, Undone
<1>2. 1 \in Writes(w) /\ Entry(w, 1) = Head(wset[w])
  BY SMTT(30), SMTT(60), <1>k, <1>1 DEF Writes, Entry, TxnTypes
<1>3. Written(w, 1) /\ v \in Objects
  BY <1>k, <1>2 DEF WriteSet, Written
<1>4. v \notin Range(head) /\ clsn[v] = Xid(xid[w])
  BY <1>0, <1>1, <1>3 DEF Written, Undone, Taken
<1>5. clsn' = [clsn EXCEPT ![v] = NullPtr]
  BY <1>0, <1>2
<1> HIDE DEF v
<1>6. Objects' = Objects /\ clsn'[v] = NullPtr /\ \A u \in Objects : u # v => clsn'[u] = clsn[u]
  <2>1. DOMAIN clsn' = DOMAIN clsn /\ v \in DOMAIN clsn
    BY <1>3, <1>5 DEF Objects
  <2> QED
    BY <1>5, <2>1 DEF Objects
<1>7. StoreTypes' /\ Range(head)' = Range(head)
  BY <1>k, <1>0, <1>6 DEF StoreTypes
<1>8. pc' \in [Workers -> Labels] /\ pc'[w] = "undo_free" /\ \A u \in Workers : u # w => pc'[u] = pc[u]
  BY <1>k, <1>0 DEF LocalTypes, Labels
<1>9. StoreSteps(w)
  <2>1. Nulls(w, v)
    BY <1>0, <1>1, <1>4, <1>6 DEF Nulls
  <2>2. \A u \in Objects : clsn'[u] = clsn[u] \/ Nulls(w, u)
    BY <1>6, <2>1
  <2> QED
    BY <1>0, <1>6, <1>7, <2>2 DEF StoreSteps
<1>10. Writes(w)' = Writes(w) /\ \A i : Entry(w, i)' = Entry(w, i)
  BY <1>0 DEF Writes, Entry
<1>11. OwnHeads(w)
  BY <1>0, <1>8, <1>10 DEF OwnHeads, Writer, Inserting
<1>12. ASSUME NEW i \in Writes(w) PROVE Written(w, i)'
  <2>0. PICK e : e = Entry(w, i)
    OBVIOUS
  <2>1. Written(w, i) /\ Entry(w, i)' = e /\ e[2] \in Objects
    BY <1>k, <1>10, <2>0 DEF WriteSet, Written
  <2>2. CASE i = 1
    <3>1. e[2] = v /\ Taken(w, e[2])'
      BY <1>4, <1>6, <1>7, <1>8, <2>0, <2>2 DEF Taken, v
    <3> QED
      BY <1>0, <1>6, <1>8, <1>10, <2>0, <2>1, <2>2, <3>1 DEF Written, Undone, Taken
  <2>3. CASE i # 1
    <3>1. e[2] # v
      BY <1>2, <2>0, <2>1, <2>3 DEF Written, v
    <3>2. e[2] \notin defunct => Dirty(w, e[1], e[2])'
      BY <1>0, <1>6, <1>8, <2>0, <2>1, <2>3, <3>1 DEF Written, Dirty
    <3> QED
      BY <1>0, <1>6, <1>10, <2>0, <2>1, <2>3, <3>2 DEF Written, Dirty
  <2> QED
    BY <2>2, <2>3
<1>13. WriteSet(w)'
  BY <1>0, <1>1, <1>8, <1>10, <1>12 DEF WriteSet, Undone, v
<1>14. Resolution(w)
  BY ZenonT(60), ZenonT(90), <1>k, <1>0, <1>6, <1>7, <1>8, <1>9, <1>11, <1>13 DEF Resolution, Refs, TxnTypes, Undoing
<1> QED
  BY <1>14, Resolving

LEMMA UndoFreeKeeps ==
    ASSUME IInv, NEW w \in Workers, UndoFree(w) PROVE IInv'
<1>k. /\ LocalTypes /\ TxnTypes /\ StoreTypes /\ Refs(w) /\ WriteSet(w) /\ NoObj \notin Objects
      /\ \A o \in Oids : Headed(o)
  BY Start0
<1> DEFINE v == Entry(w, 1)[2]
<1>0. /\ pc[w] = "undo_free" /\ pc' = [pc EXCEPT ![w] = "undo"]
      /\ wset' = [wset EXCEPT ![w] = Tail(wset[w])] /\ Deallocate(w, Head(wset[w])[2])
      /\ UNCHANGED <<lsn, owner, gen, cstate, cend, head, clsn, defunct, born, index, nver, oids, xid, begin,
                     absent, op, cur, nxt, holder, saw>>
  BY DEF UndoFree, Goto, contexts, leaf, locals
<1>1. wset[w] # <<>> /\ v \notin defunct
  BY <1>k, <1>0 DEF WriteSet, Undone
<1>2. /\ wset' \in [Workers -> Seq(Oids \X Ids)] /\ 1 \in Writes(w) /\ Entry(w, 1) = Head(wset[w])
      /\ \A u \in Workers : u # w => wset'[u] = wset[u]
  BY <1>k, <1>0, <1>1, Shrunk
<1>3. v \in Objects /\ v \notin Range(head) /\ clsn[v] = NullPtr
  BY <1>k, <1>0, <1>1, <1>2 DEF WriteSet, Written, Undone, Taken
<1>4. /\ Objects' = Objects /\ Range(head)' = Range(head) /\ StoreTypes'
      /\ next'[v] \in Objects \cup {NoObj} /\ \A u \in Objects : u # v => next'[u] = next[u]
      /\ unlinked' \in [Workers -> Ids] /\ unlinked'[w] = v
      /\ \A u \in Workers : u # w => unlinked'[u] = unlinked[u]
  <2>1. Deallocate(w, v) /\ clsn' = clsn /\ born' = born /\ head' = head
    BY <1>0, <1>2
  <2> HIDE DEF v
  <2> QED
    BY ZenonT(60), ZenonT(90), <1>3, <2>1, Freed
<1>5. pc' \in [Workers -> Labels] /\ pc'[w] = "undo" /\ \A u \in Workers : u # w => pc'[u] = pc[u]
  BY <1>k, <1>0 DEF LocalTypes, Labels
<1>6. StoreSteps(w)
  BY <1>0, <1>3, <1>4 DEF StoreSteps
<1>7. \A o \in Oids : head[o] # v
  BY <1>k, <1>3, Entries
<1>8. OwnHeads(w)
  BY <1>0, <1>1, <1>7, RestHeads DEF Undoing
<1>9. WriteSet(w)'
  BY <1>0, <1>1, <1>4, <1>5, RestWritten DEF Undoing
<1>10. Resolution(w)
  BY ZenonT(60), ZenonT(90), <1>0, <1>2, <1>3, <1>4, <1>5, <1>6, <1>8, <1>9 DEF Resolution, Undoing
<1> QED
  BY <1>10, Resolving

-----------------------------------------------------------------------------
(* insert_if_absent(), and the retreat from an insert that failed. *)
LEMMA InsertIfAbsentKeeps ==
    ASSUME IInv, NEW w \in Workers, InsertIfAbsent(w) PROVE IInv'
<1>k. /\ LocalTypes /\ TxnTypes /\ StoreTypes /\ LeafTypes /\ ContextTypes /\ Refs(w) /\ Reader(w) /\ Updater(w)
      /\ WriteSet(w) /\ Owners /\ Holds(w) /\ Outcome(w) /\ Names /\ Stamps /\ NoObj \notin Objects
  BY Start0
<1> DEFINE k == op[w].key
           o == op[w].oid
           bump == IF index[k] = 0 THEN nver + 1 ELSE nver
<1>0. /\ pc[w] = "insert"
      /\ UNCHANGED <<lsn, owner, gen, cstate, cend, head, next, clsn, defunct, born, oids, xid, begin, unlinked>>
  BY DEF InsertIfAbsent, contexts, store
<1>1. k \in Keys /\ o \in Oids /\ cur[w] \in Objects /\ bump \in Nat /\ nver <= bump /\ nver \in Nat /\ o \in 0..MaxOid
  <2>1. k \in Keys /\ o \in Oids /\ cur[w] \in Objects
    BY <1>k, <1>0 DEF Refs, UsesKey, UsesOid, UsesCur
  <2>2. nver \in Nat
    BY <1>k DEF LeafTypes
  <2>3. bump \in Nat /\ nver <= bump
    BY SMTT(30), SMTT(60), <2>2
  <2>4. o \in 0..MaxOid
    BY SMTT(30), SMTT(60), <2>1, BoundsAssumption DEF Oids
  <2> QED
    BY <2>1, <2>2, <2>3, <2>4
<1>2. /\ head[o] = cur[w] /\ clsn[cur[w]] = Xid(xid[w]) /\ next[cur[w]] = NoObj
      /\ \A i \in Writes(w) : Entry(w, i)[2] # cur[w]
  BY <1>k, <1>0 DEF Updater, Inserting
<1>3. \/ index' = index /\ nver' = nver
      \/ Absent(k) /\ index' = [index EXCEPT ![k] = o] /\ nver' = bump
  BY DEF InsertIfAbsent
<1>4. index' \in [Keys -> 0..MaxOid] /\ nver' \in Nat /\ nver <= nver'
  BY SMTT(30), SMTT(60), <1>k, <1>1, <1>3 DEF LeafTypes
<1>5. LeafTypes' /\ LeafSteps(w)
  <2>1. LeafTypes'
    BY <1>k, <1>0, <1>4 DEF LeafTypes
  <2>2. \A l \in Keys : index'[l] = index[l] \/ index[l] = 0 \/ head[index[l]] = NoObj
    BY <1>k, <1>1, <1>3 DEF Absent, LeafTypes
  <2> QED
    BY <1>4, <2>1, <2>2 DEF LeafSteps
<1> HIDE DEF bump
<1>6. Objects' = Objects /\ Range(head)' = Range(head) /\ Own(w)' = Own(w)
  BY <1>0 DEF Objects, Own
<1>7. StoreTypes' /\ ContextTypes' /\ StoreSteps(w) /\ ContextSteps(w)
  <2>1. ContextTypes' /\ ContextSteps(w)
    BY <1>0, SameContexts
  <2>2. StoreTypes' /\ StoreSteps(w)
    BY <1>k, <1>0, <1>6 DEF StoreTypes, StoreSteps
  <2> QED
    BY <2>1, <2>2
<1>8. CASE pc' = [pc EXCEPT ![w] = "retract"] /\ UNCHANGED <<absent, wset, op, locals>>
  <2>0. UNCHANGED <<cur, nxt, holder, saw>>
    BY <1>8 DEF locals
  <2>1. LocalTypes' /\ TxnTypes' /\ pc'[w] = "retract"
    BY <1>k, <1>0, <1>8, <2>0 DEF LocalTypes, TxnTypes, Labels
  <2>2. Others(w)
    BY <1>k, <1>0, <1>8, <2>0 DEF Others, LocalTypes
  <2>3. Writes(w)' = Writes(w) /\ \A i : Entry(w, i)' = Entry(w, i)
    BY <1>8 DEF Writes, Entry
  <2>4. OwnHeads(w)
    <3>1. pc'[w] \in Inserting /\ pc[w] \in Inserting
      BY <1>0, <2>1 DEF Inserting
    <3>2. \A p \in Oids : Writer(w, p) => Writer(w, p)'
      BY <1>0, <1>8, <2>0, <2>3, <3>1 DEF Writer
    <3>3. \A p \in Oids : op[w].oid = p => Indexed(p)'
      BY <1>8, <3>1 DEF Indexed
    <3> QED
      BY <1>0, <3>2, <3>3 DEF OwnHeads
  <2>5. Holds(w)' /\ Outcome(w)'
    BY <1>k, <1>0, <1>6, <2>1 DEF Holds, Outcome, Undoing
  <2>6. WriteSet(w)'
    <3>1. pc[w] \notin Undone /\ pc'[w] \notin Undone \cup {"idle", "ctor", "exit", "phantom", "stamp"}
      BY <1>0, <2>1 DEF Undone
    <3>2. \A i \in Writes(w) : Written(w, i)'
      BY <1>k, <1>0, <1>6, <2>3, <3>1 DEF WriteSet, Written, Dirty
    <3> QED
      BY <2>3, <3>1, <3>2 DEF WriteSet
  <2>7. Local(w)'
    <3>1. absent'[w] <= nver' /\ saw'[w] <= nver'
      BY SMTT(30), SMTT(60), <1>k, <1>1, <1>4, <1>8, <2>0 DEF Refs, TxnTypes, LocalTypes
    <3>2. Refs(w)'
      BY <1>k, <1>0, <1>1, <1>6, <1>8, <2>0, <2>1, <3>1 DEF Refs, UsesOid, UsesCur, UsesKey, UsesHolder
    <3>3. Reader(w)'
      BY <2>1 DEF Reader
    <3>4. Updater(w)'
      BY <1>0, <1>2, <1>8, <2>0, <2>1, <2>3 DEF Updater, Inserting
    <3> QED
      BY <3>2, <3>3, <3>4 DEF Local
  <2> QED
    BY <1>5, <1>7, <2>1, <2>2, <2>4, <2>5, <2>6, <2>7, Combine DEF Step, Mine, Types
<1>9. CASE /\ index' = [index EXCEPT ![k] = o] /\ absent' = [absent EXCEPT ![w] = IF @ = 0 THEN 0 ELSE bump]
           /\ wset' = [wset EXCEPT ![w] = Append(@, <<o, cur[w]>>)] /\ nver' = bump
           /\ pc' = [pc EXCEPT ![w] = "active"] /\ Return(w)
  <2>0. <<o, cur[w]>> \in Oids \X Ids /\ cur[w][1] = xid[w]
    <3>1. cur[w] \in Ids /\ cur[w][1] = xid[w]
      BY <1>k, <1>1, <1>2, Kinds DEF LocalTypes
    <3> QED
      BY SMTT(30), SMTT(60), <1>1, <3>1
  <2>1. /\ wset' \in [Workers -> Seq(Oids \X Ids)]
        /\ \A i \in Writes(w) : Entry(w, i)' = Entry(w, i)
        /\ \E n : Writes(w)' = Writes(w) \cup {n} /\ n \notin Writes(w) /\ Entry(w, n)' = <<o, cur[w]>>
        /\ \A u \in Workers : u # w => wset'[u] = wset[u]
    BY <1>k, <1>9, <2>0, Grown
  <2>2. /\ absent' \in [Workers -> Nat] /\ absent'[w] <= nver'
        /\ \A u \in Workers : u # w => absent'[u] = absent[u]
    BY SMTT(30), SMTT(60), <1>k, <1>1, <1>9 DEF TxnTypes
  <2>3. TxnTypes'
    BY <1>k, <1>0, <2>1, <2>2 DEF TxnTypes
  <2>4. LocalTypes' /\ Others(w) /\ pc'[w] = "active"
    <3>1. "active" \in Labels /\ TxnsStay(w)
      BY <1>0, <2>1, <2>2 DEF TxnsStay, Labels
    <3> QED
      BY <1>k, <1>9, <3>1, ReturnStep
  <2>5. Local(w)'
    BY <1>k, <1>0, <1>5, <1>6, <1>9, <2>2, <2>3, ReturnLocal DEF Refs
  <2>6. OwnHeads(w)
    <3>1. pc[w] \in Inserting
      BY <1>0 DEF Inserting
    <3>2. ASSUME NEW p \in Oids, Writer(w, p) PROVE Writer(w, p)'
      <4>1. CASE \E i \in Writes(w) : Entry(w, i) = <<p, head[p]>>
        BY <1>0, <2>1, <4>1 DEF Writer
      <4>2. CASE op[w].oid = p /\ cur[w] = head[p]
        BY <1>0, <2>1, <3>1, <4>2 DEF Writer
      <4> QED
        BY <3>2, <4>1, <4>2 DEF Writer
    <3>3. index'[k] = o
      BY <1>k, <1>1, <1>9 DEF LeafTypes
    <3>4. \A p \in Oids : op[w].oid = p => Indexed(p)'
      BY <1>1, <3>3 DEF Indexed
    <3> QED
      BY <1>0, <3>2, <3>4 DEF OwnHeads
  <2>7. Holds(w)' /\ Outcome(w)'
    BY <1>k, <1>0, <1>6, <2>4 DEF Holds, Outcome, Undoing
  <2>8. WriteSet(w)'
    <3>1. pc[w] \notin Undone /\ pc'[w] \notin Undone \cup {"idle", "ctor", "exit", "phantom", "stamp"}
      BY <1>0, <2>4 DEF Undone
    <3>2. \A i \in Writes(w) : Written(w, i) /\ Entry(w, i)[2] # cur[w]
      BY <1>k, <1>2 DEF WriteSet
    <3>3. ASSUME NEW i \in Writes(w) PROVE Written(w, i)'
      <4>1. \A j \in Writes(w)' : Entry(w, j)'[2] = Entry(w, i)[2] => i = j
        BY SMTT(30), SMTT(60), <2>1, <3>2 DEF Written
      <4> QED
        BY <1>0, <1>6, <2>1, <3>1, <3>2, <4>1 DEF Written, Dirty
    <3>4. ASSUME NEW i \in Writes(w)', i \notin Writes(w) PROVE Written(w, i)'
      <4>1. Entry(w, i)' = <<o, cur[w]>> /\ \A j \in Writes(w)' : j \in Writes(w) \/ i = j
        BY <2>1, <3>4
      <4>2. \A j \in Writes(w)' : Entry(w, j)'[2] = cur[w] => i = j
        BY <2>1, <3>2, <4>1
      <4> QED
        BY SMTT(30), SMTT(60), <1>0, <1>1, <1>2, <1>6, <2>0, <3>1, <4>1, <4>2 DEF Written, Dirty
    <3> QED
      BY <3>1, <3>3, <3>4 DEF WriteSet
  <2> QED
    BY <1>5, <1>7, <2>3, <2>4, <2>5, <2>6, <2>7, <2>8, Combine DEF Step, Mine, Types
<1> QED
  BY <1>8, <1>9 DEF InsertIfAbsent, Goto, bump

LEMMA RetractKeeps ==
    ASSUME IInv, NEW w \in Workers, Retract(w) PROVE IInv'
<1>k. /\ LocalTypes /\ TxnTypes /\ StoreTypes /\ LeafTypes /\ ContextTypes /\ Refs(w) /\ Updater(w)
      /\ WriteSet(w) /\ Owners /\ Holds(w) /\ Outcome(w) /\ NoObj \notin Objects
  BY Start0
<1> DEFINE o == op[w].oid
<1>0. /\ pc[w] = "retract" /\ pc' = [pc EXCEPT ![w] = "upsert"] /\ head' = [head EXCEPT ![o] = next[head[o]]]
      /\ UNCHANGED <<lsn, owner, gen, cstate, cend, next, clsn, defunct, born, index, nver, oids, xid, begin,
                     wset, absent, unlinked, op, cur, nxt, holder, saw>>
  BY DEF Retract, Unlink, Goto, contexts, leaf, txn, locals
<1>1. o \in Oids /\ cur[w] \in Objects
  BY <1>k, <1>0 DEF Refs, UsesOid, UsesCur
<1>2. /\ head[o] = cur[w] /\ clsn[cur[w]] = Xid(xid[w]) /\ next[cur[w]] = NoObj
      /\ \A i \in Writes(w) : Entry(w, i)[2] # cur[w]
  BY <1>k, <1>0 DEF Updater, Inserting
<1>3. head'[o] = NoObj /\ \A p \in Oids : p # o => head'[p] = head[p]
  BY <1>k, <1>0, <1>1, <1>2 DEF StoreTypes
<1>4. Objects' = Objects /\ NoObj \in Ids /\ Own(w)' = Own(w)
  BY <1>0 DEF Objects, NoObj, NoXid, Ids, Xids, Own
<1>5. StoreTypes'
  BY <1>k, <1>0, <1>2, <1>4 DEF StoreTypes
<1>6. ContextTypes' /\ LeafTypes' /\ TxnTypes' /\ LocalTypes' /\ pc'[w] = "upsert"
  BY <1>k, <1>0 DEF ContextTypes, LeafTypes, TxnTypes, LocalTypes, Labels
<1>7. Others(w)
  BY <1>k, <1>0 DEF Others, LocalTypes
<1>8. ContextSteps(w)
  BY <1>0, SameContexts
<1>9. StoreSteps(w)
  <2>1. Unlinks(w, o)
    BY <1>1, <1>2, <1>3 DEF Unlinks
  <2>2. \A p \in Oids : head'[p] = head[p] \/ Unlinks(w, p)
    BY <1>3, <2>1
  <2> QED
    BY <1>0, <1>4, <2>2 DEF StoreSteps
<1>10. LeafSteps(w)
  BY <1>k, <1>0, SameLeaf
<1>11. Writes(w)' = Writes(w) /\ \A i : Entry(w, i)' = Entry(w, i)
  BY <1>0 DEF Writes, Entry
<1>12. OwnHeads(w)
  <2>1. ASSUME NEW p \in Oids, head'[p] = head[p], head[p] \in Objects, Writer(w, p) PROVE Writer(w, p)'
    <3>1. p # o
      BY <1>k, <1>3, <2>1
    <3> QED
      BY <1>11, <2>1, <3>1 DEF Writer
  <2>2. ASSUME NEW p \in Oids, head'[p] # NoObj PROVE head[p] # NoObj /\ p # o
    BY <1>3, <2>2
  <2> QED
    BY <1>0, <2>1, <2>2 DEF OwnHeads
<1>13. Holds(w)' /\ Outcome(w)'
  BY <1>k, <1>0, <1>4, <1>6 DEF Holds, Outcome, Undoing
<1>14. WriteSet(w)'
  <2>1. pc[w] \notin Undone /\ pc'[w] \notin Undone \cup {"idle", "ctor", "exit", "phantom", "stamp"}
    BY <1>0, <1>6 DEF Undone
  <2>2. ASSUME NEW i \in Writes(w) PROVE Written(w, i)'
    <3>0. PICK e : e = Entry(w, i)
      OBVIOUS
    <3>9. e[1] \in Oids
      BY <1>k, <3>0, EntryTypes
    <3>1. Written(w, i) /\ Entry(w, i)' = e /\ e[1] \in Oids /\ e[2] # cur[w]
      BY <1>k, <1>2, <1>11, <3>0, <3>9 DEF WriteSet
    <3>2. e[2] \notin defunct => Dirty(w, e[1], e[2])'
      BY <1>0, <1>2, <1>3, <2>1, <3>0, <3>1 DEF Written, Dirty
    <3> QED
      BY <1>0, <1>4, <1>11, <2>1, <3>0, <3>1, <3>2 DEF Written, Dirty
  <2> QED
    BY <1>11, <2>1, <2>2 DEF WriteSet
<1>15. Local(w)'
  <2>1. Refs(w)'
    BY <1>k, <1>0, <1>4, <1>6 DEF Refs, UsesOid, UsesCur, UsesKey, UsesHolder
  <2> QED
    BY <1>6, <2>1, PlainLocal DEF Plain, Labels
<1> QED
  BY <1>5, <1>6, <1>7, <1>8, <1>9, <1>10, <1>12, <1>13, <1>14, <1>15, Combine DEF Step, Mine, Types

(* A step that changes nothing keeps the invariant. *)
LEMMA StutterKeeps == IInv /\ UNCHANGED vars => IInv'
<1> SUFFICES ASSUME IInv, UNCHANGED vars PROVE IInv'
  OBVIOUS
<1>0. /\ lsn' = lsn /\ owner' = owner /\ gen' = gen /\ cstate' = cstate /\ cend' = cend /\ head' = head
      /\ next' = next /\ clsn' = clsn /\ defunct' = defunct /\ born' = born /\ index' = index /\ nver' = nver
      /\ oids' = oids /\ xid' = xid /\ begin' = begin /\ wset' = wset /\ absent' = absent /\ unlinked' = unlinked
      /\ pc' = pc /\ op' = op /\ cur' = cur /\ nxt' = nxt /\ holder' = holder /\ saw' = saw
  BY DEF vars, shared, contexts, store, leaf, txn, locals
<1>1. Objects' = Objects /\ \A x : Made(x)' = Made(x) /\ (Known(x) => Known(x)')
  BY <1>0 DEF Objects, Made, Known
<1>2. Types'
  BY ZenonT(60), ZenonT(90), <1>0, <1>1 DEF IInv, Types, ContextTypes, StoreTypes, LeafTypes, TxnTypes, LocalTypes
<1>3. Names' /\ Stamps'
  BY ZenonT(60), ZenonT(90), <1>0, <1>1 DEF IInv, Names, Stamps, Stamped
<1>4. Owners' /\ Outcomes'
  BY ZenonT(60), ZenonT(90), <1>0 DEF IInv, Owners, Slot, Holds, Own, Outcomes, Outcome
<1>5. WriteSets'
  BY ZenonT(60), ZenonT(90), <1>0, <1>1 DEF IInv, WriteSets, WriteSet, Written, Taken, Dirty, Writes, Entry, Own
<1>6. Heads' /\ Links' /\ ChainOrder' /\ Covers'
  <2>1. Heads'
    BY ZenonT(60), ZenonT(90), <1>0, <1>1 DEF IInv, Heads, Headed, Indexed, Writer, Writes, Entry
  <2>2. Links' /\ ChainOrder'
    BY <1>0, <1>1 DEF IInv, Links, ChainOrder, IsLog
  <2>3. \A v : IsLog(v)' <=> IsLog(v)
    BY <1>0 DEF IsLog
  <2>4. \A v : Reached(v)' <=> Reached(v)
    BY <1>0 DEF Reached
  <2>5. Covers'
    BY <1>0, <1>1, <2>3, <2>4 DEF IInv, Covers, Covered
  <2> QED
    BY <2>1, <2>2, <2>5
<1>7. Locals'
  <2> SUFFICES ASSUME NEW w \in Workers PROVE Refs(w)' /\ Reader(w)' /\ Updater(w)'
    BY DEF Locals, Local
  <2>1. Refs(w) /\ Reader(w) /\ Updater(w)
    BY Start0
  <2>2. Refs(w)'
    BY ZenonT(60), ZenonT(90), <1>0, <1>1, <2>1 DEF Refs
  <2>3. Reader(w)'
    BY ZenonT(60), ZenonT(90), <1>0, <1>1, <2>1 DEF Reader, ReadsCommitted, Done, IsLog
  <2>4. Updater(w)'
    BY ZenonT(60), ZenonT(90), <1>0, <2>1 DEF Updater, IsLog, Writes, Entry
  <2> QED
    BY <2>2, <2>3, <2>4
<1> QED
  BY <1>2, <1>3, <1>4, <1>5, <1>6, <1>7 DEF IInv

LEMMA NextKeeps == IInv /\ [Next]_vars => IInv'
<1> SUFFICES ASSUME IInv, [Next]_vars PROVE IInv'
  OBVIOUS
<1>1. CASE UNCHANGED vars
  BY <1>1, StutterKeeps
<1>2. ASSUME NEW w \in Workers, Visit(w) PROVE IInv'
  BY <1>2, GetHeadKeeps, GetNextKeeps, GetClsnKeeps, GetContextKeeps, GetStateKeeps, GetOwnerKeeps, GetEndKeeps,
     ReadTupleKeeps, MissingKeeps DEF Visit
<1>3. ASSUME NEW w \in Workers, Update(w) PROVE IInv'
  BY <1>3, PutHeadKeeps, PutClsnKeeps, GetContextKeeps, GetStateKeeps, PutOwnerKeeps, InstallKeeps, OverwriteKeeps,
     FreeOverwrittenKeeps, InsertIfAbsentKeeps, RetractKeeps, UpsertKeeps DEF Update
<1>4. ASSUME NEW w \in Workers, Resolve(w) PROVE IInv'
  BY <1>4, PreCommitKeeps, CheckPhantomKeeps, StampKeeps, CommittedKeeps, UndoUnlinkKeeps, UndoClsnKeeps,
     UndoFreeKeeps, XidFreeKeeps DEF Resolve
<1>5. ASSUME NEW w \in Workers, Choose(w) PROVE IInv'
  BY <1>5, SearchKeeps, InsertKeeps, CommitBeginKeeps, AbortBeginKeeps DEF Choose
<1>6. ASSUME NEW w \in Workers, Start(w) PROVE IInv'
  BY <1>6, XidAllocKeeps, SetBeginKeeps DEF Start
<1> QED
  BY <1>1, <1>2, <1>3, <1>4, <1>5, <1>6 DEF Next, Finished

-----------------------------------------------------------------------------
(* The state of the transactions, the OID array and the version chains is  *)
(* always described by the inductive invariant.                            *)
THEOREM Invariance == Spec => []IInv
BY InitInv, NextKeeps, PTL DEF Spec

(* Every stamp is null, an XID or an LSN, every link and array entry leads *)
(* to an object or nowhere, and a worker holds an XID exactly from         *)
(* xid_alloc() to xid_free(), in every reachable state.                    *)
THEOREM TypeCorrect == Spec => []TypeOK
<1>1. IInv => TypeOK
  <2> SUFFICES ASSUME IInv PROVE TypeOK
    OBVIOUS
  <2>k. /\ Types /\ ContextTypes /\ StoreTypes /\ LeafTypes /\ TxnTypes /\ LocalTypes /\ Names /\ Stamps /\ Owners
        /\ Heads /\ Links /\ Locals /\ NoXid \notin Issued
    BY Kinds DEF IInv, Types
  <2>1. head \in [Oids -> Objects \cup {NoObj}] /\ next \in [Objects -> Objects \cup {NoObj}]
    BY <2>k DEF StoreTypes, Heads, Headed, Links
  <2>2. \A w \in Workers : /\ cur[w] \in Objects \cup {NoObj} /\ nxt[w] \in Objects \cup {NoObj}
                           /\ unlinked[w] \in Objects \cup {NoObj} /\ absent[w] <= nver
    BY <2>k DEF Locals, Local, Refs
  <2>3. /\ cur \in [Workers -> Objects \cup {NoObj}] /\ nxt \in [Workers -> Objects \cup {NoObj}]
        /\ unlinked \in [Workers -> Objects \cup {NoObj}]
    BY <2>k, <2>2 DEF LocalTypes, TxnTypes
  <2>4. absent \in [Workers -> 0..nver]
    BY SMTT(30), SMTT(60), <2>k, <2>2 DEF TxnTypes, LeafTypes
  <2>5. ASSUME NEW v \in Objects
        PROVE  \/ clsn[v] = NullPtr
               \/ IsLog(v) /\ clsn[v] = Log(clsn[v].lsn) /\ clsn[v].lsn \in Nat
               \/ clsn[v].xid \in Xids /\ clsn[v] = Xid(clsn[v].xid)
    <3>1. v[1] \in Xids /\ v # NoObj
      BY <2>k, Kinds DEF Names
    <3> QED
      BY SMTT(30), SMTT(60), <2>k, <3>1, StampFacts DEF Stamps, Stamped, IsLog, ContextTypes
  <2>6. defunct \subseteq Objects
    BY <2>k DEF Links
  <2>7. \A w \in Workers : xid[w] = NoXid <=> pc[w] = "idle"
    BY <2>k DEF Owners, Holds
  <2> QED
    BY <2>k, <2>1, <2>3, <2>4, <2>5, <2>6, <2>7
       DEF TypeOK, ContextTypes, StoreTypes, LeafTypes, TxnTypes, LocalTypes
<1> QED
  BY <1>1, Invariance, PTL

(* The version chains are in order: below the entry of an OID, and below a *)
(* committed version, everything is committed, with ever smaller stamps,   *)
(* and no entry is a version that an abort has nulled.  oid_put_update()   *)
(* and oid_unlink() keep it so for any number of writers.                  *)
THEOREM ChainsOrdered == Spec => []ChainOrder
<1>1. IInv => ChainOrder
  BY DEF IInv
<1> QED
  BY <1>1, Invariance, PTL

(* No commit is lost: whatever updates, aborts, retracted inserts and      *)
(* re-led keys go on, a committed version stays within reach of the index. *)
THEOREM CommitsKept == Spec => []CommittedKept
<1>1. IInv => CommittedKept
  <2> DEFINE E == {head[index[k]] : k \in {l \in Keys : index[l] # 0}}
  <2>1. \A v : v \in E <=> Reached(v)
    BY DEF Reached
  <2>2. CommittedKept <=> \A v \in Objects : IsLog(v) =>
                            v \in E \/ \E u \in Objects : next[u] = v /\ (IsLog(u) \/ u \in E)
    BY DEF CommittedKept
  <2> HIDE DEF E
  <2> QED
    BY <2>1, <2>2 DEF IInv, Covers, Covered
<1> QED
  BY <1>1, Invariance, PTL

(* A version that carries the stamp of a transaction that is over is in no *)
(* chain.                                                                  *)
LEMMA LeftOver ==
    ASSUME IInv, NEW v \in Objects, NEW x, clsn[v] = Xid(x), Done(x) PROVE ~InChain(v)
<1>k. Names /\ Stamps /\ StoreTypes /\ Heads /\ WriteSets /\ ChainOrder
  BY DEF IInv, Types
<1>0. v # NoObj /\ v[1] = x /\ clsn[v].asi = "XID" /\ ~IsLog(v)
  BY <1>k, Kinds, StampFacts DEF IsLog
<1>1. v \notin Range(head)
  <2> SUFFICES ASSUME v \in Range(head) PROVE FALSE
    OBVIOUS
  <2>1. PICK o \in Oids : head[o] = v
    BY <1>k, Entries
  <2>2. PICK u \in Workers : xid[u] = x /\ Writer(u, o)
    BY <1>k, <1>0, <2>1 DEF Heads, Headed
  <2>3. pc[u] = "exit" /\ wset[u] = <<>>
    BY <1>k, <2>2 DEF Done, WriteSets, WriteSet
  <2>4. Writes(u) = {}
    BY SMTT(30), SMTT(60), <2>3 DEF Writes
  <2> QED
    BY <2>2, <2>3, <2>4 DEF Writer, Inserting
<1>2. ASSUME NEW u \in Objects, next[u] = v, u \in Range(head) \/ IsLog(u) PROVE FALSE
  BY <1>k, <1>0, <1>2 DEF ChainOrder
<1> QED
  BY <1>1, <1>2 DEF InChain

(* What oid_get_version() hands out was never uncommitted or aborted work  *)
(* of another transaction, for any number of readers and writers and       *)
(* however often contexts are recycled under a reader.                     *)
THEOREM NoDirtyReads == Spec => []NoDirtyRead
<1>1. IInv => NoDirtyRead
  <2> SUFFICES ASSUME IInv, NEW w \in Workers, pc[w] = "tuple"
               PROVE  \/ clsn[cur[w]] = Xid(xid[w])
                      \/ IsLog(cur[w])
                      \/ /\ clsn[cur[w]] = Xid(holder[w].xid) /\ holder[w].state = "CMMTD"
                         /\ ~InChain(cur[w])
    BY DEF NoDirtyRead
  <2>1. Reader(w) /\ cur[w] \in Objects
    BY Start0 DEF UsesCur, UsesOid
  <2> QED
    BY <2>1, LeftOver DEF Reader, ReadsCommitted
<1> QED
  BY <1>1, Invariance, PTL
=============================================================================
