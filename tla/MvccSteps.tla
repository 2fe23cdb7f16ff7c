----------------------------- MODULE MvccSteps -----------------------------
(***************************************************************************)
(* The inductive invariant of Mvcc, and what it takes for a step of one    *)
(* worker to keep it: the step does to the shared state only what Step(w)  *)
(* allows, and leaves the worker's own transaction in order (Mine).        *)
(***************************************************************************)
EXTENDS Mvcc, TLAPS

(* The provers of a leaf that names none, and their seconds. *)
USE ZenonT(10), SMTT(30), ZenonT(60)

Issued == Contexts \X Nat
Ids == Xids \X Nat
Undoing == {"undo", "undo_clsn", "undo_free"}
Undone == {"undo_clsn", "undo_free"}
Inserting == {"insert", "retract"}
Entry(w, i) == wset[w][i]
Writes(w) == 1..Len(wset[w])
Made(x) == {v \in Objects : v[1] = x}
Known(x) == x \in Issued /\ Epoch(x) <= gen[Ctx(x)]

ContextTypes ==
    /\ lsn \in Nat
    /\ owner \in [Contexts -> Xids] /\ gen \in [Contexts -> Nat]
    /\ cstate \in [Contexts -> States] /\ cend \in [Contexts -> Nat]
StoreTypes == head \in [Oids -> Ids] /\ next \in [Objects -> Ids] /\ DOMAIN born = Objects
LeafTypes == index \in [Keys -> 0..MaxOid] /\ nver \in Nat /\ oids \subseteq Oids
TxnTypes ==
    /\ xid \in [Workers -> Xids] /\ begin \in [Workers -> Nat]
    /\ wset \in [Workers -> Seq(Oids \X Ids)]
    /\ absent \in [Workers -> Nat] /\ unlinked \in [Workers -> Ids]
OpType == [kind : {"none", "read", "put", "insert"}, key : Keys \cup {0}, oid : 0..MaxOid]
HolderType == [xid : Xids, state : States]
LocalTypes ==
    /\ pc \in [Workers -> Labels] /\ op \in [Workers -> OpType]
    /\ cur \in [Workers -> Ids] /\ nxt \in [Workers -> Ids]
    /\ holder \in [Workers -> HolderType] /\ saw \in [Workers -> Nat]
Types == ContextTypes /\ StoreTypes /\ LeafTypes /\ TxnTypes /\ LocalTypes

(* Objects are numbered within the transaction that creates them, so that  *)
(* a new one is new.                                                       *)
Names ==
    /\ Objects \subseteq Xids \X (Nat \ {0})
    /\ \A x \in Issued : \E n \in Nat : Made(x) = {<<x, i>> : i \in 1..n}

(* A stamp is the creator's XID, a log address that exists, or null once   *)
(* the creator has aborted.                                                *)
Stamped(v) ==
    \/ clsn[v] = Xid(v[1]) /\ Known(v[1])
    \/ clsn[v] = Log(clsn[v].lsn) /\ clsn[v].lsn \in 0..lsn
    \/ /\ clsn[v] = NullPtr /\ Known(v[1])
       /\ owner[Ctx(v[1])] = v[1] => cstate[Ctx(v[1])] = "ABRTD"
Stamps == \A v \in Objects : Stamped(v)

(* A context belongs to the one worker whose transaction it is. *)
Slot(c) == owner[c] \in {NoXid, <<c, gen[c]>>} /\ cend[c] <= lsn
Holds(w) == IF pc[w] = "idle" THEN xid[w] = NoXid ELSE xid[w] \in Issued /\ owner[Own(w)] = xid[w]
Owners ==
    /\ \A c \in Contexts : Slot(c)
    /\ \A w \in Workers : Holds(w)
    /\ \A u, w \in Workers : xid[u] = xid[w] /\ pc[u] # "idle" => u = w

Outcome(w) ==
    pc[w] # "idle" => /\ cstate[Own(w)] = "CMMTD" <=> pc[w] = "exit"
                      /\ cstate[Own(w)] = "ABRTD" <=> pc[w] \in Undoing
Outcomes == \A w \in Workers : Outcome(w)

(* What a transaction has written is in its write set, and as long as it   *)
(* is neither replaced nor undone it is the head of its chain.             *)
Taken(w, v) ==
    v \notin Range(head) /\ clsn[v] = IF pc[w] = "undo_clsn" THEN Xid(xid[w]) ELSE NullPtr
Dirty(w, o, v) ==
    /\ head[o] = v /\ clsn[v] = Xid(xid[w])
    /\ pc[w] \in {"phantom", "stamp"} /\ next[v] # NoObj => clsn[next[v]].lsn < cend[Own(w)]
Written(w, i) ==
    /\ Entry(w, i)[2] \in Objects /\ Entry(w, i)[2][1] = xid[w]
    /\ \A j \in Writes(w) : Entry(w, j)[2] = Entry(w, i)[2] => i = j
    /\ Entry(w, i)[2] \notin defunct =>
         IF i = 1 /\ pc[w] \in Undone THEN Taken(w, Entry(w, i)[2])
                                      ELSE Dirty(w, Entry(w, i)[1], Entry(w, i)[2])
WriteSet(w) ==
    /\ \A i \in Writes(w) : Written(w, i)
    /\ pc[w] \in Undone => wset[w] # <<>> /\ Entry(w, 1)[2] \notin defunct
    /\ pc[w] \in {"idle", "ctor", "exit"} => wset[w] = <<>>
WriteSets == \A w \in Workers : WriteSet(w)

(* A head with an XID stamp is a write of the transaction it names, and an *)
(* OID with versions is reached by a key or about to be.                   *)
Writer(w, o) ==
    \/ \E i \in Writes(w) : Entry(w, i) = <<o, head[o]>>
    \/ pc[w] \in Inserting /\ op[w].oid = o /\ cur[w] = head[o]
Headed(o) ==
    head[o] # NoObj =>
      /\ o \in oids /\ head[o] \in Objects /\ head[o] \notin defunct
      /\ clsn[head[o]].asi = "XID" => \E w \in Workers : xid[w] = head[o][1] /\ Writer(w, o)
Indexed(o) ==
    head[o] # NoObj => \/ \E k \in Keys : index[k] = o
                       \/ \E w \in Workers : pc[w] \in Inserting /\ op[w].oid = o
Heads == \A o \in Oids : Headed(o) /\ Indexed(o)

Links ==
    /\ \A v \in Objects : next[v] \in Objects \cup {NoObj}
    /\ \A v \in defunct : v \in Objects /\ clsn[v] = Xid(v[1])

(* A committed version is the entry of a key's OID, or below such an entry *)
(* or below a committed version.                                           *)
Reached(v) == \E k \in Keys : index[k] # 0 /\ head[index[k]] = v
Covered(v) == Reached(v) \/ \E u \in Objects : next[u] = v /\ (IsLog(u) \/ Reached(u))
Covers == \A v \in Objects : IsLog(v) => Covered(v)

(* The transaction x, if it is still there, has nothing left to do. *)
Done(x) == \A u \in Workers : xid[u] = x => pc[u] = "exit"
ReadsCommitted(w) ==
    /\ holder[w].state = "CMMTD"
    /\ IsLog(cur[w]) \/ (clsn[cur[w]] = Xid(holder[w].xid) /\ Known(holder[w].xid) /\ Done(holder[w].xid))

UsesOid == {"get", "next", "clsn", "ctx", "state", "owner", "end", "tuple", "put", "p_clsn", "p_ctx",
            "p_state", "p_owner", "install", "overwrite", "dealloc", "insert", "retract"}
UsesCur == UsesOid \ {"get", "put", "p_clsn"}
UsesKey == {"insert", "retract", "upsert"}
UsesHolder == {"ctx", "state", "owner", "end", "p_ctx", "p_state", "p_owner"}

(* What a worker has in hand. *)
Refs(w) ==
    /\ cur[w] \in Objects \cup {NoObj} /\ nxt[w] \in Objects \cup {NoObj}
    /\ unlinked[w] \in Objects \cup {NoObj}
    /\ absent[w] <= nver /\ saw[w] <= nver
    /\ pc[w] \in UsesOid => op[w].oid \in Oids
    /\ pc[w] \in UsesKey => op[w].key \in Keys
    /\ pc[w] \in UsesCur => cur[w] # NoObj
    /\ pc[w] \in UsesHolder => holder[w].xid = cur[w][1] /\ Known(holder[w].xid)
Reader(w) ==
    /\ pc[w] \in {"owner", "p_owner"} /\ holder[w].state = "CMMTD"
         /\ owner[Ctx(holder[w].xid)] = holder[w].xid => cstate[Ctx(holder[w].xid)] = "CMMTD"
    /\ pc[w] = "end" => ReadsCommitted(w)
    /\ pc[w] = "tuple" => clsn[cur[w]] = Xid(xid[w]) \/ IsLog(cur[w]) \/ ReadsCommitted(w)
Updater(w) ==
    /\ pc[w] = "p_clsn" /\ cur[w] # NoObj /\ clsn[cur[w]] = Xid(xid[w]) => head[op[w].oid] = cur[w]
    /\ pc[w] = "install" /\ head[op[w].oid] = cur[w] => IsLog(cur[w])
    /\ pc[w] = "overwrite" => head[op[w].oid] = cur[w] /\ clsn[cur[w]] = Xid(xid[w])
    /\ pc[w] = "dealloc" => cur[w] \in defunct
    /\ pc[w] \in Inserting =>
         /\ head[op[w].oid] = cur[w] /\ clsn[cur[w]] = Xid(xid[w]) /\ next[cur[w]] = NoObj
         /\ \A i \in Writes(w) : Entry(w, i)[2] # cur[w]
Local(w) == Refs(w) /\ Reader(w) /\ Updater(w)
Locals == \A w \in Workers : Local(w)

IInv ==
    /\ Types /\ Names /\ Stamps /\ Owners /\ Outcomes /\ WriteSets /\ Heads /\ Links
    /\ ChainOrder /\ Covers /\ Locals

-----------------------------------------------------------------------------
(* Stamps are told apart by their kind, and hold what they were made from. *)
LEMMA StampFacts ==
    /\ \A x : Xid(x).asi = "XID" /\ Xid(x).xid = x /\ Xid(x) # NullPtr
    /\ \A x, y : Xid(x) = Xid(y) => x = y
    /\ \A n : Log(n).asi = "LOG" /\ Log(n).lsn = n /\ Log(n) # NullPtr
    /\ \A x, n : Xid(x) # Log(n)
    /\ NullPtr.asi = "NULL"
BY DEF Xid, Log, NullPtr

(* The null pointer is no object, no transaction has the null XID, and an  *)
(* object has one of three kinds of stamps.                                *)
LEMMA Kinds ==
    ASSUME Names, Stamps
    PROVE  /\ NoObj \notin Objects /\ NoXid \notin Issued
           /\ \A v \in Objects :
                /\ IsLog(v) <=> clsn[v].asi = "LOG"
                /\ clsn[v].asi = "XID" <=> clsn[v] = Xid(v[1])
                /\ \A x : clsn[v] = Xid(x) => v[1] = x /\ Known(x)
                /\ clsn[v].asi = "NULL" <=> clsn[v] = NullPtr
                /\ clsn[v].asi \in {"XID", "LOG", "NULL"}
                /\ IsLog(v) => clsn[v].lsn \in 0..lsn
<1>1. NoObj \notin Objects
  BY DEF Names, NoObj
<1>2. NoXid \notin Issued
  BY ContextsAssumption DEF NoXid, Issued
<1> QED
  BY SMTT(30), SMTT(60), <1>1, <1>2, StampFacts DEF Stamps, Stamped, IsLog

(* The entries of the OID array. *)
LEMMA Entries ==
    ASSUME StoreTypes
    PROVE  \A v : v \in Range(head) <=> \E o \in Oids : head[o] = v
BY DEF StoreTypes, Range

-----------------------------------------------------------------------------
(* What a step of worker w may do to the state that others rely on. *)
Others(w) ==
    \A u \in Workers : u # w =>
        /\ pc'[u] = pc[u] /\ op'[u] = op[u] /\ cur'[u] = cur[u] /\ nxt'[u] = nxt[u]
        /\ holder'[u] = holder[u] /\ saw'[u] = saw[u] /\ xid'[u] = xid[u] /\ wset'[u] = wset[u]
        /\ absent'[u] = absent[u] /\ unlinked'[u] = unlinked[u]

ContextSteps(w) ==
    /\ lsn <= lsn'
    /\ \A c \in Contexts :
         /\ gen[c] <= gen'[c] /\ Slot(c)'
         /\ owner'[c] = owner[c] \/ owner'[c] = NoXid \/ gen[c] < gen'[c]
         /\ owner'[c] = owner[c] /\ owner[c] # NoXid /\ cstate[c] \in {"CMMTD", "ABRTD"} =>
              cstate'[c] = cstate[c]
    /\ \A u \in Workers : u # w /\ pc[u] # "idle" =>
         owner'[Own(u)] = owner[Own(u)] /\ cstate'[Own(u)] = cstate[Own(u)] /\ cend'[Own(u)] = cend[Own(u)]
    /\ \/ xid'[w] = xid[w] \/ xid'[w] = NoXid
       \/ xid'[w] \in Issued /\ gen[Ctx(xid'[w])] < Epoch(xid'[w])
    /\ pc[w] = "exit" => xid'[w] = NoXid

Unlinks(w, o) == head[o] \in Objects /\ clsn[head[o]] = Xid(xid[w]) /\ head'[o] = next[head[o]]
Installs(w, o) ==
    /\ pc[w] # "idle" /\ head'[o] = NewObj(w) /\ o \in oids' /\ Writer(w, o)' /\ xid'[w] = xid[w]
    /\ Objects' = Objects \cup {NewObj(w)} /\ clsn'[NewObj(w)] = Xid(xid[w])
    /\ \/ head[o] = NoObj /\ next'[NewObj(w)] = NoObj
       \/ head[o] \in Objects /\ IsLog(head[o]) /\ next'[NewObj(w)] = head[o]
       \/ head[o] \in Objects /\ clsn[head[o]] = Xid(xid[w]) /\ next'[NewObj(w)] = next[head[o]]
Commits(w, v) ==
    /\ pc[w] = "stamp" /\ v \notin defunct /\ v \in Range(head) /\ head' = head
    /\ clsn[v] = Xid(xid[w]) /\ clsn'[v] = Log(cend[Own(w)])
    /\ next[v] # NoObj => clsn[next[v]].lsn < cend[Own(w)]
Nulls(w, v) ==
    /\ pc[w] = "undo_clsn" /\ v \notin defunct /\ v \notin Range(head) /\ head' = head
    /\ clsn[v] = Xid(xid[w]) /\ clsn'[v] = NullPtr

StoreSteps(w) ==
    /\ Objects' = Objects \/ \E o \in Oids : Installs(w, o)
    /\ \A o \in Oids : head'[o] = head[o] \/ Unlinks(w, o) \/ Installs(w, o)
    /\ \A v \in Objects : clsn'[v] = clsn[v] \/ Commits(w, v) \/ Nulls(w, v)
    /\ \A v \in Objects :
         \/ next'[v] = next[v]
         \/ (v \in defunct \/ clsn[v] = NullPtr) /\ next'[v] \in Objects \cup {NoObj}
    /\ defunct \subseteq defunct' /\ oids \subseteq oids'
    /\ \A v \in defunct' \ defunct :
         v \in Objects /\ clsn[v] = Xid(xid[w]) /\ clsn'[v] = clsn[v] /\ v \notin Range(head)'

LeafSteps(w) ==
    /\ nver <= nver'
    /\ \A k \in Keys : index'[k] = index[k] \/ index[k] = 0 \/ head[index[k]] = NoObj

(* What is left to show of the heads that are w's own. *)
OwnHeads(w) ==
    /\ \A o \in Oids :
         head'[o] = head[o] /\ head[o] \in Objects /\ clsn'[head[o]] = Xid(xid[w]) /\ Writer(w, o) =>
           Writer(w, o)' /\ xid'[w] = xid[w]
    /\ \A o \in Oids :
         head'[o] # NoObj /\ (head[o] = NoObj \/ (pc[w] \in Inserting /\ op[w].oid = o)) => Indexed(o)'

Step(w) == Others(w) /\ ContextSteps(w) /\ StoreSteps(w) /\ LeafSteps(w) /\ OwnHeads(w)
Mine(w) == Holds(w) /\ Outcome(w) /\ WriteSet(w) /\ Local(w)

-----------------------------------------------------------------------------
(* A new object gets a number its transaction has not used. *)
LEMMA Numbered ==
    ASSUME NEW w \in Workers, NEW n \in Nat, Made(xid[w]) = {<<xid[w], i>> : i \in 1..n}
    PROVE  NewObj(w) = <<xid[w], 1 + n>>
<1> DEFINE S == Numbers(xid[w])
           Last(m) == m \in S /\ \A i \in S : i <= m
<1>1. S = {0} \cup {v[2] : v \in Made(xid[w])}
  BY DEF Numbers, Made
<1>2. S = 0..n
  <2>1. \A v \in Made(xid[w]) : v[2] \in 1..n
    BY SMTT(30), SMTT(60)
  <2>2. ASSUME NEW i \in 1..n PROVE \E v \in Made(xid[w]) : v[2] = i
    <3>1. <<xid[w], i>> \in Made(xid[w])
      OBVIOUS
    <3>2. <<xid[w], i>>[2] = i
      BY SMTT(30), SMTT(60)
    <3> QED
      BY <3>1, <3>2
  <2>3. {v[2] : v \in Made(xid[w])} = 1..n
    BY <2>1, <2>2
  <2>4. {0} \cup (1..n) = 0..n
    BY SMTT(30), SMTT(60)
  <2> QED
    BY <1>1, <2>3, <2>4
<1> HIDE DEF S
<1>3. \A m : Last(m) <=> m = n
  BY SMTT(30), SMTT(60), <1>2
<1>4. (CHOOSE m \in S : \A i \in S : i <= m) = n
  BY <1>3
<1> QED
  BY <1>4 DEF NewObj, S

LEMMA Fresh ==
    ASSUME Types, Names, Owners, NEW w \in Workers, pc[w] # "idle"
    PROVE  /\ NewObj(w) \notin Objects /\ NewObj(w)[1] = xid[w]
           /\ NewObj(w) \in Ids /\ NewObj(w) \in Xids \X (Nat \ {0})
           /\ xid[w] \in Issued /\ Known(xid[w])
<1>1. xid[w] \in Issued /\ owner[Own(w)] = xid[w]
  BY DEF Owners, Holds
<1>2. PICK n \in Nat : Made(xid[w]) = {<<xid[w], i>> : i \in 1..n}
  BY <1>1 DEF Names
<1>4. NewObj(w) = <<xid[w], 1 + n>>
  BY <1>2, Numbered
<1>5. <<xid[w], 1 + n>> \notin Made(xid[w])
  BY SMTT(30), SMTT(60), <1>2
<1>6. NewObj(w) \notin Objects
  BY <1>4, <1>5 DEF Made
<1>7. Known(xid[w])
  <2>1. Own(w) \in Contexts /\ xid[w] = <<Own(w), Epoch(xid[w])>> /\ Epoch(xid[w]) \in Nat
    BY SMTT(30), SMTT(60), <1>1 DEF Issued, Own, Ctx, Epoch
  <2>2. owner[Own(w)] \in {NoXid, <<Own(w), gen[Own(w)]>>}
    BY <2>1 DEF Owners, Slot
  <2>3. xid[w] # NoXid
    BY SMTT(30), SMTT(60), <1>1, ContextsAssumption DEF Issued, NoXid
  <2>4. gen[Own(w)] \in Nat
    BY <2>1 DEF Types, ContextTypes
  <2> QED
    BY SMTT(30), SMTT(60), <1>1, <2>1, <2>2, <2>3, <2>4 DEF Known, Own, Ctx, Epoch
<1> QED
  BY SMTT(30), SMTT(60), <1>1, <1>2, <1>4, <1>6, <1>7 DEF Issued, Ids, Xids

(* Numbering survives the creation of an object. *)
LEMMA NamesKeep ==
    ASSUME Types, Names, Owners, NEW w \in Workers,
           Objects' = Objects \/ (pc[w] # "idle" /\ Objects' = Objects \cup {NewObj(w)})
    PROVE  Names'
<1>1. CASE Objects' = Objects
  <2>1. \A x : Made(x)' = Made(x)
    BY <1>1 DEF Made
  <2> QED
    BY <1>1, <2>1 DEF Names
<1>2. CASE pc[w] # "idle" /\ Objects' = Objects \cup {NewObj(w)}
  <2>1. NewObj(w) \notin Objects /\ NewObj(w)[1] = xid[w] /\ NewObj(w) \in Xids \X (Nat \ {0})
    BY <1>2, Fresh
  <2>2. Objects' \subseteq Xids \X (Nat \ {0})
    BY <1>2, <2>1 DEF Names
  <2>3. ASSUME NEW x \in Issued PROVE \E n \in Nat : Made(x)' = {<<x, i>> : i \in 1..n}
    <3>1. PICK n \in Nat : Made(x) = {<<x, i>> : i \in 1..n}
      BY DEF Names
    <3>2. CASE x # xid[w]
      <4>1. Made(x)' = Made(x)
        BY <1>2, <2>1, <3>2 DEF Made
      <4> QED
        BY <3>1, <4>1
    <3>3. CASE x = xid[w]
      <4>1. Made(x)' = Made(x) \cup {NewObj(w)}
        BY <1>2, <2>1, <3>3 DEF Made
      <4>2. NewObj(w) = <<x, 1 + n>>
        BY <3>1, <3>3, Numbered
      <4>3. 1 .. n + 1 = (1..n) \cup {1 + n} /\ n + 1 \in Nat
        BY SMTT(30), SMTT(60)
      <4>4. {<<x, i>> : i \in 1..n} \cup {<<x, 1 + n>>} = {<<x, i>> : i \in 1 .. n + 1}
        BY <4>3
      <4> QED
        BY <3>1, <4>1, <4>2, <4>3, <4>4
    <3> QED
      BY <3>2, <3>3
  <2> QED
    BY <2>2, <2>3 DEF Names
<1> QED
  BY <1>1, <1>2

(* What stays as it is in a step of w. *)
LEMMA Stable ==
    ASSUME IInv, NEW w \in Workers, Step(w), Types'
    PROVE  /\ \A v \in Objects : v \in Objects'
           /\ \A u \in Workers : u # w /\ pc[u] # "idle" => xid[u] # xid[w]
           /\ \A v \in Objects : IsLog(v) => IsLog(v)' /\ clsn'[v] = clsn[v]
           /\ \A v \in Objects : clsn[v] = NullPtr => clsn'[v] = NullPtr
           /\ \A v \in Objects : \A x : clsn[v] = Xid(x) /\ x # xid[w] => clsn'[v] = clsn[v]
           /\ \A v \in Objects : v \in Range(head) \/ IsLog(v) => next'[v] = next[v]
           /\ \A v \in defunct : clsn'[v] = clsn[v]
           /\ \A x : Known(x) => Known(x)'
           /\ \A x : Known(x) /\ owner'[Ctx(x)] = x => owner[Ctx(x)] = x
           /\ \A x : Known(x) /\ Done(x) => Done(x)'
<1> USE DEF Step
<1>k. Names /\ Stamps /\ Owners /\ Types
  BY DEF IInv
<1>1. \A v \in Objects : v \in Objects'
  BY DEF StoreSteps, Installs
<1>2. \A u \in Workers : u # w /\ pc[u] # "idle" => xid[u] # xid[w]
  BY <1>k DEF Owners
<1>3. \A v \in Objects : IsLog(v) => IsLog(v)' /\ clsn'[v] = clsn[v]
  BY <1>k, StampFacts, Kinds DEF StoreSteps, Commits, Nulls, IsLog
<1>4. \A v \in Objects : clsn[v] = NullPtr => clsn'[v] = NullPtr
  BY StampFacts DEF StoreSteps, Commits, Nulls
<1>5. \A v \in Objects : \A x : clsn[v] = Xid(x) /\ x # xid[w] => clsn'[v] = clsn[v]
  BY SMTT(30), SMTT(60), StampFacts DEF StoreSteps, Commits, Nulls
<1>6. ASSUME NEW v \in Objects, v \in Range(head) \/ IsLog(v)
      PROVE  next'[v] = next[v]
  <2>1. clsn[v] # NullPtr
    BY <1>6 DEF IInv, ChainOrder
  <2>2. v \notin defunct
    <3>1. CASE IsLog(v)
      BY <3>1, StampFacts DEF IInv, Links, IsLog
    <3>2. CASE v \in Range(head)
      <4>1. PICK o \in Oids : head[o] = v
        BY <1>k, <3>2, Entries DEF Types
      <4>2. v # NoObj
        BY <1>k, Kinds
      <4> QED
        BY <4>1, <4>2 DEF IInv, Heads, Headed
    <3> QED
      BY <1>6, <3>1, <3>2
  <2> QED
    BY <2>1, <2>2 DEF StoreSteps
<1>7. \A v \in defunct : clsn'[v] = clsn[v]
  BY DEF StoreSteps, Commits, Nulls, IInv, Links
<1>8. ASSUME NEW x, Known(x) PROVE Known(x)'
  <2>1. Ctx(x) \in Contexts /\ Epoch(x) \in Nat
    BY <1>8 DEF Known, Issued, Ctx, Epoch
  <2>2. gen[Ctx(x)] \in Nat /\ gen'[Ctx(x)] \in Nat /\ gen[Ctx(x)] <= gen'[Ctx(x)]
    BY <1>k, <2>1 DEF ContextSteps, Types, ContextTypes
  <2> QED
    BY SMTT(30), SMTT(60), <1>8, <2>1, <2>2 DEF Known
<1>9. ASSUME NEW x, Known(x), owner'[Ctx(x)] = x PROVE owner[Ctx(x)] = x
  <2>1. Ctx(x) \in Contexts /\ Epoch(x) \in Nat /\ x # NoXid
    BY <1>9, <1>k, Kinds DEF Known, Issued, Ctx, Epoch
  <2>2. gen[Ctx(x)] \in Nat /\ gen'[Ctx(x)] \in Nat
    BY <1>k, <2>1 DEF Types, ContextTypes
  <2>3. owner'[Ctx(x)] \in {NoXid, <<Ctx(x), gen'[Ctx(x)]>>}
    BY <2>1 DEF ContextSteps, Slot
  <2>4. Epoch(x) = gen'[Ctx(x)]
    BY SMTT(30), SMTT(60), <1>9, <2>1, <2>3 DEF Epoch
  <2>5. ~(gen[Ctx(x)] < gen'[Ctx(x)])
    BY SMTT(30), SMTT(60), <1>9, <2>2, <2>4 DEF Known
  <2> QED
    BY <1>9, <2>1, <2>5 DEF ContextSteps
<1>10. ASSUME NEW x, Known(x), Done(x) PROVE Done(x)'
  <2> SUFFICES ASSUME NEW u \in Workers, xid'[u] = x
               PROVE  pc'[u] = "exit"
    BY DEF Done
  <2>1. CASE u # w
    BY <1>10, <2>1 DEF Others, Done
  <2>2. CASE u = w
    <3>1. x \in Issued /\ Epoch(x) <= gen[Ctx(x)] /\ x # NoXid
      BY <1>10, <1>k, Kinds DEF Known
    <3>2. gen[Ctx(x)] \in Nat /\ Epoch(x) \in Nat
      BY <1>k, <3>1 DEF Types, ContextTypes, Issued, Ctx, Epoch
    <3>3. xid'[w] = xid[w]
      BY SMTT(30), SMTT(60), <2>2, <3>1, <3>2 DEF ContextSteps
    <3>4. pc[w] = "exit"
      BY <1>10, <2>2, <3>3 DEF Done
    <3> QED
      BY <2>2, <3>1, <3>4 DEF ContextSteps
  <2> QED
    BY <2>1, <2>2
<1> QED
  BY <1>1, <1>2, <1>3, <1>4, <1>5, <1>6, <1>7, <1>8, <1>9, <1>10

(* The transactions of the others keep what they have written. *)
LEMMA OthersWritten ==
    ASSUME IInv, NEW w \in Workers, Step(w), Types', NEW u \in Workers, u # w
    PROVE  WriteSet(u)'
<1> USE DEF Step
<1>k. Names /\ Stamps /\ Types /\ StoreTypes /\ StoreTypes'
  BY DEF IInv, Types
<1>s. /\ pc'[u] = pc[u] /\ xid'[u] = xid[u] /\ wset'[u] = wset[u]
      /\ Writes(u)' = Writes(u) /\ \A i : Entry(u, i)' = Entry(u, i)
  BY DEF Others, Writes, Entry
<1>1. ASSUME NEW i \in Writes(u), Entry(u, i)[2] \notin defunct' PROVE Entry(u, i)[2] \notin defunct
  BY <1>1 DEF StoreSteps
<1>2. ASSUME NEW i \in Writes(u), Entry(u, i)[2] \notin defunct PROVE Entry(u, i)[2] \notin defunct'
  <2>1. Entry(u, i)[2] \in Objects /\ Entry(u, i)[2][1] = xid[u]
    BY DEF IInv, WriteSets, WriteSet, Written
  <2>2. pc[u] # "idle"
    <3>1. CASE pc[u] = "idle"
      <4>1. wset[u] = <<>>
        BY <3>1 DEF IInv, WriteSets, WriteSet
      <4> QED
        BY SMTT(30), SMTT(60), <4>1 DEF Writes
    <3> QED
      BY <3>1
  <2>3. xid[u] # xid[w]
    BY <2>2, Stable
  <2>4. clsn[Entry(u, i)[2]] # Xid(xid[w])
    BY <1>k, <2>1, <2>3, Kinds
  <2> QED
    BY <1>2, <2>4 DEF StoreSteps
<1>3. ASSUME NEW i \in Writes(u) PROVE Written(u, i)'
  <2> DEFINE o == Entry(u, i)[1]
             v == Entry(u, i)[2]
  <2>1. Written(u, i) /\ v \in Objects /\ v[1] = xid[u] /\ v \in Objects'
    BY Stable DEF IInv, WriteSets, WriteSet, Written
  <2>2. o \in Oids /\ v \in Ids
    BY SMTT(30), SMTT(60), <1>k DEF Types, TxnTypes, Writes, Entry
  <2>3. pc[u] # "idle"
    <3>1. CASE pc[u] = "idle"
      <4>1. wset[u] = <<>>
        BY <3>1 DEF IInv, WriteSets, WriteSet
      <4> QED
        BY SMTT(30), SMTT(60), <4>1 DEF Writes
    <3> QED
      BY <3>1
  <2>4. xid[u] # xid[w] /\ v # NoObj
    BY <1>k, <2>1, <2>3, Stable, Kinds
  <2>5. \A j \in Writes(u)' : Entry(u, j)[2]' = v => i = j
    BY <1>s, <2>1 DEF Written
  <2>6. ASSUME v \notin defunct', i = 1 /\ pc[u] \in Undone PROVE Taken(u, v)'
    <3>1. Taken(u, v)
      BY <1>1, <2>1, <2>6 DEF Written
    <3>2. clsn'[v] = clsn[v]
      BY SMTT(30), SMTT(60), <2>1, <2>4, <3>1, Stable DEF Taken
    <3>3. ~IsLog(v)
      BY <3>1, StampFacts DEF Taken, IsLog
    <3>4. v # NewObj(w) \/ \A p \in Oids : ~Installs(w, p)
      <4>1. CASE pc[w] # "idle"
        BY <2>1, <4>1, Fresh DEF IInv
      <4>2. CASE pc[w] = "idle"
        BY <4>2 DEF Installs
      <4> QED
        BY <4>1, <4>2
    <3>5. ASSUME NEW p \in Oids PROVE head'[p] # v
      <4>1. head[p] # v
        BY <1>k, <3>1, Entries DEF Taken
      <4>2. CASE Unlinks(w, p)
        <5>1. head[p] \in Range(head)
          BY <1>k, Entries
        <5>2. next[head[p]] = NoObj \/ IsLog(next[head[p]])
          BY <4>2, <5>1 DEF IInv, ChainOrder, Unlinks
        <5> QED
          BY <2>4, <3>3, <4>2, <5>2 DEF Unlinks
      <4> QED
        BY <3>4, <4>1, <4>2 DEF StoreSteps, Installs
    <3> QED
      BY SMTT(30), SMTT(60), <1>k, <1>s, <3>1, <3>2, <3>5, Entries DEF Taken, StoreTypes, Range
  <2>7. ASSUME v \notin defunct', ~(i = 1 /\ pc[u] \in Undone) PROVE Dirty(u, o, v)'
    <3>1. Dirty(u, o, v)
      BY <1>1, <2>1, <2>7 DEF Written
    <3>2. clsn'[v] = clsn[v]
      BY SMTT(30), SMTT(60), <2>1, <2>4, <3>1, Stable DEF Dirty
    <3>3. ~IsLog(v) /\ v \in Range(head)
      BY <1>k, <2>2, <3>1, StampFacts, Entries DEF Dirty, IsLog
    <3>4. head'[o] = head[o]
      BY SMTT(30), SMTT(60), <2>2, <2>4, <3>1, <3>3, StampFacts DEF StoreSteps, Unlinks, Installs, Dirty
    <3>5. next'[v] = next[v]
      BY <2>1, <3>3, Stable
    <3>6. next[v] # NoObj => clsn'[next[v]] = clsn[next[v]]
      <4>1. next[v] # NoObj => IsLog(next[v]) /\ next[v] \in Objects
        BY <2>1, <3>3 DEF IInv, ChainOrder, Links
      <4> QED
        BY <4>1, Stable
    <3>7. cend'[Own(u)] = cend[Own(u)] /\ Own(u)' = Own(u)
      BY <1>s, <2>3 DEF ContextSteps, Own
    <3> QED
      BY SMTT(30), SMTT(60), <1>s, <3>1, <3>2, <3>4, <3>5, <3>6, <3>7 DEF Dirty
  <2> QED
    BY <1>s, <2>1, <2>5, <2>6, <2>7 DEF Written
<1>4. pc'[u] \in Undone => wset'[u] # <<>> /\ Entry(u, 1)[2]' \notin defunct'
  <2> SUFFICES ASSUME pc[u] \in Undone PROVE wset[u] # <<>> /\ Entry(u, 1)[2] \notin defunct'
    BY <1>s
  <2>1. wset[u] # <<>> /\ Entry(u, 1)[2] \notin defunct
    BY DEF IInv, WriteSets, WriteSet
  <2>2. 1 \in Writes(u)
    BY SMTT(30), SMTT(60), <1>k, <2>1 DEF Writes, Types, TxnTypes
  <2> QED
    BY <1>2, <2>1, <2>2
<1>5. pc'[u] \in {"idle", "ctor", "exit"} => wset'[u] = <<>>
  BY <1>s DEF IInv, WriteSets, WriteSet
<1> QED
  BY <1>s, <1>3, <1>4, <1>5 DEF WriteSet

(* The others can go on believing what they have seen. *)
LEMMA OthersLocal ==
    ASSUME IInv, NEW w \in Workers, Step(w), Types', NEW u \in Workers, u # w
    PROVE  Local(u)'
<1> USE DEF Step
<1>k. Names /\ Stamps /\ Types /\ Types' /\ StoreTypes /\ Local(u) /\ Holds(u)
  BY DEF IInv, Types, Locals, Owners
<1>s. /\ pc'[u] = pc[u] /\ op'[u] = op[u] /\ cur'[u] = cur[u] /\ nxt'[u] = nxt[u]
      /\ holder'[u] = holder[u] /\ saw'[u] = saw[u] /\ xid'[u] = xid[u] /\ wset'[u] = wset[u]
      /\ absent'[u] = absent[u] /\ unlinked'[u] = unlinked[u]
      /\ Writes(u)' = Writes(u) /\ \A i : Entry(u, i)' = Entry(u, i)
  BY DEF Others, Writes, Entry
<1>1. Refs(u)'
  <2>1. /\ cur[u] \in Objects' \cup {NoObj} /\ nxt[u] \in Objects' \cup {NoObj}
        /\ unlinked[u] \in Objects' \cup {NoObj}
    BY <1>k, Stable DEF Local, Refs
  <2>2. absent[u] <= nver' /\ saw[u] <= nver'
    BY SMTT(30), SMTT(60), <1>k DEF Local, Refs, LeafSteps, Types, LeafTypes, TxnTypes, LocalTypes
  <2>3. pc[u] \in UsesHolder => holder[u].xid = cur[u][1] /\ Known(holder[u].xid)'
    BY <1>k, <1>s, Stable DEF Local, Refs, Known
  <2> QED
    BY <1>k, <1>s, <2>1, <2>2, <2>3 DEF Local, Refs
<1>2. Reader(u)'
  <2>0. pc[u] \in {"owner", "p_owner", "end", "tuple"} => cur[u] \in Objects
    BY <1>k DEF Local, Refs, UsesCur, UsesOid
  <2>1. ASSUME pc[u] \in {"owner", "p_owner"}, holder[u].state = "CMMTD",
               owner'[Ctx(holder[u].xid)] = holder[u].xid
        PROVE  cstate'[Ctx(holder[u].xid)] = "CMMTD"
    <3>1. Known(holder[u].xid)
      BY <1>k, <2>1 DEF Local, Refs, UsesHolder
    <3>2. Ctx(holder[u].xid) \in Contexts /\ holder[u].xid # NoXid
      BY <1>k, <3>1, Kinds DEF Known, Issued, Ctx
    <3>3. owner[Ctx(holder[u].xid)] = holder[u].xid
      BY <2>1, <3>1, Stable
    <3>4. cstate[Ctx(holder[u].xid)] = "CMMTD"
      BY <1>k, <2>1, <3>3 DEF Local, Reader
    <3> QED
      BY <2>1, <3>2, <3>3, <3>4 DEF ContextSteps
  <2>2. ASSUME ReadsCommitted(u), cur[u] \in Objects PROVE ReadsCommitted(u)'
    <3>1. CASE IsLog(cur[u])
      <4>1. IsLog(cur[u])'
        BY <2>2, <3>1, <1>s, Stable DEF IsLog
      <4> QED
        BY <1>s, <2>2, <4>1 DEF ReadsCommitted
    <3>2. CASE clsn[cur[u]] = Xid(holder[u].xid) /\ Known(holder[u].xid) /\ Done(holder[u].xid)
      <4>0. PICK x : x = holder[u].xid
        OBVIOUS
      <4>1. Known(x)' /\ Done(x)'
        BY <3>2, <4>0, Stable
      <4>2. clsn'[cur[u]] = Xid(x) \/ clsn'[cur[u]] = Log(clsn'[cur[u]].lsn)
        <5>1. CASE x # xid[w]
          BY SMTT(30), SMTT(60), <2>2, <3>2, <4>0, <5>1, Stable
        <5>2. CASE x = xid[w]
          <6>1. pc[w] = "exit"
            BY <3>2, <4>0, <5>2 DEF Done
          <6> QED
            BY <2>2, <3>2, <4>0, <6>1 DEF StoreSteps, Commits, Nulls
        <5> QED
          BY <5>1, <5>2
      <4>3. CASE clsn'[cur[u]] = Xid(x)
        BY <1>s, <2>2, <4>0, <4>1, <4>3 DEF ReadsCommitted, Known, Done
      <4>4. CASE clsn'[cur[u]] = Log(clsn'[cur[u]].lsn)
        BY SMTT(30), SMTT(60), <1>s, <1>k, <2>2, <4>4, StampFacts, Kinds DEF ReadsCommitted, IsLog
      <4> QED
        BY <4>2, <4>3, <4>4
    <3> QED
      BY <2>2, <3>1, <3>2 DEF ReadsCommitted
  <2>3. pc[u] = "end" => ReadsCommitted(u)'
    BY <1>k, <2>0, <2>2 DEF Local, Reader
  <2>4. pc[u] = "tuple" => clsn'[cur[u]] = Xid(xid[u]) \/ IsLog(cur[u])' \/ ReadsCommitted(u)'
    <3> SUFFICES ASSUME pc[u] = "tuple"
                 PROVE  clsn'[cur[u]] = Xid(xid[u]) \/ IsLog(cur[u])' \/ ReadsCommitted(u)'
      OBVIOUS
    <3>1. xid[u] # xid[w] /\ cur[u] \in Objects
      BY <2>0, Stable
    <3>2. clsn[cur[u]] = Xid(xid[u]) => clsn'[cur[u]] = clsn[cur[u]]
      BY SMTT(30), SMTT(60), <3>1, Stable
    <3>3. IsLog(cur[u]) => IsLog(cur[u])'
      BY <3>1, <1>s, Stable DEF IsLog
    <3> QED
      BY <1>k, <2>2, <3>1, <3>2, <3>3 DEF Local, Reader
  <2> QED
    BY <1>s, <2>1, <2>3, <2>4 DEF Reader
<1>3. Updater(u)'
  <2>1. ASSUME pc[u] # "idle", NEW o \in Oids, head[o] = cur[u], cur[u] \in Objects, clsn[cur[u]] = Xid(xid[u])
        PROVE  head'[o] = cur[u] /\ clsn'[cur[u]] = clsn[cur[u]] /\ next'[cur[u]] = next[cur[u]]
    <3>1. xid[u] # xid[w] /\ cur[u] # NoObj
      BY <1>k, <2>1, Stable, Kinds
    <3>2. clsn'[cur[u]] = clsn[cur[u]]
      <4>1. \A v \in Objects : \A x : clsn[v] = Xid(x) /\ x # xid[w] => clsn'[v] = clsn[v]
        BY Stable
      <4> QED
        BY ZenonT(60), ZenonT(90), <2>1, <3>1, <4>1
    <3>3. ~IsLog(cur[u])
      BY <2>1, StampFacts DEF IsLog
    <3>4. head'[o] = head[o]
      <4>1. clsn[head[o]] # Xid(xid[w])
        BY SMTT(30), SMTT(60), <2>1, <3>1, StampFacts
      <4>2. ~Unlinks(w, o)
        BY <4>1 DEF Unlinks
      <4>3. ~Installs(w, o)
        BY <2>1, <3>1, <3>3, <4>1 DEF Installs
      <4> QED
        BY <4>2, <4>3 DEF StoreSteps
    <3>5. next'[cur[u]] = next[cur[u]]
      BY <1>k, <2>1, Stable, Entries
    <3> QED
      BY <2>1, <3>2, <3>4, <3>5
  <2>2. pc[u] \in UsesOid => op[u].oid \in Oids
    BY <1>k DEF Local, Refs
  <2>3. pc[u] \in {"install", "overwrite", "dealloc", "insert", "retract"} => cur[u] \in Objects
    BY <1>k DEF Local, Refs, UsesCur, UsesOid
  <2>4. ASSUME pc[u] = "p_clsn", cur[u] # NoObj, clsn'[cur[u]] = Xid(xid[u])
        PROVE  head'[op[u].oid] = cur[u]
    <3>1. cur[u] \in Objects /\ op[u].oid \in Oids
      BY <1>k, <2>2, <2>4 DEF Local, Refs, UsesOid
    <3>2. clsn[cur[u]] = Xid(xid[u])
      <4>1. ~Commits(w, cur[u]) /\ ~Nulls(w, cur[u])
        BY <2>4, StampFacts DEF Commits, Nulls
      <4> QED
        BY <2>4, <3>1, <4>1 DEF StoreSteps
    <3>3. head[op[u].oid] = cur[u]
      BY <1>k, <2>4, <3>2 DEF Local, Updater
    <3> QED
      BY <2>1, <2>4, <3>1, <3>2, <3>3
  <2>5. ASSUME pc[u] = "install", head'[op[u].oid] = cur[u] PROVE IsLog(cur[u])'
    <3>1. cur[u] \in Objects /\ op[u].oid \in Oids /\ cur[u] # NoObj
      BY <1>k, <2>2, <2>3, <2>5, Kinds DEF UsesOid
    <3>2. CASE head[op[u].oid] = cur[u]
      <4>1. IsLog(cur[u])
        BY <1>k, <2>5, <3>2 DEF Local, Updater
      <4> QED
        BY <1>s, <3>1, <4>1, Stable DEF IsLog
    <3>3. CASE Unlinks(w, op[u].oid)
      <4>1. head[op[u].oid] \in Range(head)
        BY <1>k, <3>1, Entries
      <4>2. IsLog(cur[u])
        BY <2>5, <3>1, <3>3, <4>1 DEF IInv, ChainOrder, Unlinks
      <4> QED
        BY <1>s, <3>1, <4>2, Stable DEF IsLog
    <3>4. CASE Installs(w, op[u].oid)
      BY <1>k, <2>5, <3>1, <3>4, Fresh DEF Installs, IInv
    <3> QED
      BY <2>5, <3>1, <3>2, <3>3, <3>4 DEF StoreSteps
  <2>6. pc[u] = "overwrite" => head'[op[u].oid] = cur[u] /\ clsn'[cur[u]] = Xid(xid[u])
    BY <1>k, <2>1, <2>2, <2>3 DEF Local, Updater, UsesOid
  <2>7. pc[u] = "dealloc" => cur[u] \in defunct'
    BY <1>k DEF Local, Updater, StoreSteps
  <2>8. pc[u] \in Inserting =>
          head'[op[u].oid] = cur[u] /\ clsn'[cur[u]] = Xid(xid[u]) /\ next'[cur[u]] = NoObj
    BY <1>k, <2>1, <2>2, <2>3 DEF Local, Updater, UsesOid, Inserting
  <2>9. pc[u] \in Inserting => \A i \in Writes(u) : Entry(u, i)[2] # cur[u]
    BY <1>k DEF Local, Updater
  <2> QED
    BY <1>s, <2>4, <2>5, <2>6, <2>7, <2>8, <2>9 DEF Updater
<1> QED
  BY <1>1, <1>2, <1>3 DEF Local

LEMMA StampsKeep ==
    ASSUME IInv, NEW w \in Workers, Step(w), Types' PROVE Stamps'
<1> USE DEF Step
<1>k. Names /\ Stamps /\ Types /\ Types' /\ Owners /\ Outcomes
  BY DEF IInv
<1>1. ASSUME NEW v \in Objects PROVE Stamped(v)'
  <2>0. lsn \in Nat /\ lsn' \in Nat /\ lsn <= lsn'
    BY <1>k DEF Types, ContextTypes, ContextSteps
  <2>1. CASE clsn'[v] = clsn[v] /\ clsn[v] = Xid(v[1]) /\ Known(v[1])
    BY <2>1, Stable DEF Stamped
  <2>2. CASE clsn'[v] = clsn[v] /\ clsn[v] = Log(clsn[v].lsn) /\ clsn[v].lsn \in 0..lsn
    BY SMTT(30), SMTT(60), <2>0, <2>2 DEF Stamped
  <2>3. CASE /\ clsn'[v] = clsn[v] /\ clsn[v] = NullPtr /\ Known(v[1])
             /\ owner[Ctx(v[1])] = v[1] => cstate[Ctx(v[1])] = "ABRTD"
    <3>1. Ctx(v[1]) \in Contexts /\ v[1] # NoXid
      BY <1>k, <2>3, Kinds DEF Known, Issued, Ctx
    <3>2. Known(v[1])'
      BY <2>3, Stable
    <3>3. ASSUME owner'[Ctx(v[1])] = v[1] PROVE cstate'[Ctx(v[1])] = "ABRTD"
      <4>1. owner[Ctx(v[1])] = v[1]
        BY <2>3, <3>3, Stable
      <4> QED
        BY <2>3, <3>1, <3>3, <4>1 DEF ContextSteps
    <3> QED
      BY <2>3, <3>2, <3>3 DEF Stamped
  <2>4. CASE Commits(w, v)
    <3>1. pc[w] # "idle" /\ Own(w) \in Contexts
      BY <1>k, <2>4 DEF Commits, Owners, Holds, Issued, Own, Ctx
    <3>2. cend[Own(w)] \in Nat /\ cend[Own(w)] <= lsn
      BY <1>k, <3>1 DEF Owners, Slot, Types, ContextTypes
    <3> QED
      BY SMTT(30), SMTT(60), <2>0, <2>4, <3>2, StampFacts DEF Stamped, Commits
  <2>5. CASE Nulls(w, v)
    <3>1. v[1] = xid[w] /\ Known(v[1])
      BY <1>k, <2>5, Kinds DEF Nulls
    <3>2. xid[w] \in Issued /\ owner[Own(w)] = xid[w] /\ cstate[Own(w)] = "ABRTD"
      BY <1>k, <2>5 DEF Nulls, Owners, Holds, Outcomes, Outcome, Undoing
    <3>3. Own(w) \in Contexts /\ xid[w] # NoXid /\ Own(w) = Ctx(v[1])
      BY <1>k, <3>1, <3>2, Kinds DEF Issued, Own, Ctx
    <3>4. Known(v[1])'
      BY <3>1, Stable
    <3>5. owner'[Ctx(v[1])] = v[1] => cstate'[Ctx(v[1])] = "ABRTD"
      BY <3>1, <3>2, <3>3 DEF ContextSteps
    <3> QED
      BY <2>5, <3>4, <3>5 DEF Stamped, Nulls
  <2> QED
    BY <1>k, <2>1, <2>2, <2>3, <2>4, <2>5 DEF Stamps, Stamped, StoreSteps
<1>2. ASSUME NEW v \in Objects', v \notin Objects PROVE Stamped(v)'
  <2>1. PICK o \in Oids : Installs(w, o)
    BY <1>2 DEF StoreSteps
  <2>2. v = NewObj(w) /\ clsn'[v] = Xid(xid[w]) /\ pc[w] # "idle"
    BY <1>2, <2>1 DEF Installs
  <2>3. v[1] = xid[w] /\ Known(v[1])
    BY <1>k, <2>2, Fresh
  <2> QED
    BY <2>2, <2>3, Stable DEF Stamped
<1> QED
  BY <1>1, <1>2 DEF Stamps

LEMMA OwnersKeep ==
    ASSUME IInv, NEW w \in Workers, Step(w), Types', Holds(w)', Outcome(w)'
    PROVE  Owners' /\ Outcomes'
<1> USE DEF Step
<1>k. Names /\ Stamps /\ Types /\ Types' /\ Owners /\ Outcomes
  BY DEF IInv
<1>1. \A c \in Contexts : Slot(c)'
  BY DEF ContextSteps
<1>2. ASSUME NEW u \in Workers PROVE Holds(u)'
  BY SMTT(30), SMTT(60), <1>k DEF Owners, Holds, Others, ContextSteps, Own
<1>3. ASSUME NEW u \in Workers PROVE Outcome(u)'
  BY SMTT(30), SMTT(60), <1>k DEF Outcomes, Outcome, Others, ContextSteps, Own
<1>4. ASSUME NEW u \in Workers, u # w, pc[u] # "idle" PROVE xid[u] # xid'[w]
  <2>1. xid[u] \in Issued /\ xid[u] # NoXid /\ owner[Own(u)] = xid[u] /\ Own(u) \in Contexts
    BY SMTT(30), SMTT(60), <1>k, <1>4, Kinds DEF Owners, Holds, Issued, Own, Ctx
  <2>2. xid[u] = <<Own(u), gen[Own(u)]>> /\ gen[Own(u)] \in Nat
    BY <1>k, <2>1 DEF Owners, Slot, Types, ContextTypes
  <2>3. CASE xid'[w] = xid[w]
    BY <1>4, <2>3, Stable
  <2>4. CASE xid'[w] = NoXid
    BY <2>1, <2>4
  <2>5. CASE xid'[w] \in Issued /\ gen[Ctx(xid'[w])] < Epoch(xid'[w])
    BY SMTT(30), SMTT(60), <2>2, <2>5 DEF Ctx, Epoch
  <2> QED
    BY <2>3, <2>4, <2>5 DEF ContextSteps
<1>5. ASSUME NEW u \in Workers, NEW z \in Workers, xid'[u] = xid'[z], pc'[u] # "idle"
      PROVE  u = z
  <2>1. CASE u # w /\ z # w
    BY <1>k, <1>5, <2>1 DEF Owners, Others
  <2>2. CASE u # w /\ z = w
    BY <1>4, <1>5, <2>2 DEF Others
  <2>3. CASE u = w /\ z # w
    <3>1. xid'[w] # NoXid
      BY <1>k, <1>5, <2>3, Kinds DEF Holds
    <3>2. pc[z] # "idle"
      BY <1>k, <1>5, <2>3, <3>1 DEF Others, Owners, Holds
    <3> QED
      BY <1>4, <1>5, <2>3, <3>2 DEF Others
  <2> QED
    BY <2>1, <2>2, <2>3
<1> QED
  BY <1>1, <1>2, <1>3, <1>5 DEF Owners, Outcomes

LEMMA LinksKeep ==
    ASSUME IInv, NEW w \in Workers, Step(w), Types' PROVE Links'
<1> USE DEF Step
<1>k. Names /\ Stamps /\ Types /\ Links
  BY DEF IInv
<1>1. ASSUME NEW v \in Objects PROVE next'[v] \in Objects' \cup {NoObj}
  BY <1>k, Stable DEF Links, StoreSteps
<1>2. ASSUME NEW v \in Objects', v \notin Objects PROVE next'[v] \in Objects' \cup {NoObj}
  <2>1. PICK o \in Oids : Installs(w, o)
    BY <1>2 DEF StoreSteps
  <2>2. v = NewObj(w)
    BY <1>2, <2>1 DEF Installs
  <2> QED
    BY <1>k, <2>1, <2>2, Stable DEF Installs, Links
<1>3. ASSUME NEW v \in defunct' PROVE v \in Objects' /\ clsn'[v] = Xid(v[1])
  <2>1. CASE v \in defunct
    BY <1>k, <2>1, Stable DEF Links
  <2>2. CASE v \notin defunct
    <3>1. v \in Objects /\ clsn[v] = Xid(xid[w]) /\ clsn'[v] = clsn[v]
      BY <1>3, <2>2 DEF StoreSteps
    <3> QED
      BY <1>k, <3>1, Stable, Kinds
  <2> QED
    BY <2>1, <2>2
<1> QED
  BY <1>1, <1>2, <1>3 DEF Links

LEMMA ChainKeep ==
    ASSUME IInv, NEW w \in Workers, Step(w), Types' PROVE ChainOrder'
<1> USE DEF Step
<1>k. Names /\ Stamps /\ Types /\ Types' /\ Owners /\ StoreTypes /\ StoreTypes' /\ Links /\ ChainOrder
  BY DEF IInv, Types
<1>0. \A v : v \in Range(head)' <=> \E o \in Oids : head'[o] = v
  BY <1>k DEF StoreTypes, Range
<1>1. ASSUME NEW v \in Objects', v \notin Objects
      PROVE  /\ clsn'[v] # NullPtr /\ ~IsLog(v)'
             /\ next'[v] # NoObj => IsLog(next[v])'
  <2>1. PICK o \in Oids : Installs(w, o)
    BY <1>1 DEF StoreSteps
  <2>2. v = NewObj(w) /\ clsn'[v] = Xid(xid[w])
    BY <1>1, <2>1 DEF Installs
  <2>3. next'[v] = NoObj \/ (next'[v] \in Objects /\ IsLog(next'[v]))
    <3>1. head[o] \in Range(head)
      BY <1>k, Entries
    <3> QED
      BY <1>k, <2>1, <2>2, <3>1 DEF Installs, ChainOrder, Links, IsLog
  <2> QED
    BY <2>2, <2>3, StampFacts, Stable DEF IsLog
<1>2. ASSUME NEW v \in Objects, v \in Range(head)' \/ IsLog(v)'
      PROVE  /\ clsn'[v] # NullPtr
             /\ next'[v] # NoObj =>
                  /\ IsLog(next[v])'
                  /\ IsLog(v)' => clsn'[next'[v]].lsn < clsn'[v].lsn
  <2>0. v # NoObj
    BY <1>k, Kinds
  <2>1. v \in Range(head) \/ IsLog(v)
    <3>1. CASE v \in Range(head)'
      <4>1. PICK o \in Oids : head'[o] = v
        BY <1>0, <3>1
      <4>2. head[o] \in Range(head)
        BY <1>k, Entries
      <4>3. CASE head'[o] = head[o]
        BY <4>1, <4>2, <4>3
      <4>4. CASE Unlinks(w, o)
        BY <1>k, <2>0, <4>1, <4>2, <4>4 DEF Unlinks, ChainOrder
      <4>5. CASE Installs(w, o)
        BY <1>k, <4>1, <4>5, Fresh DEF Installs
      <4> QED
        BY <4>3, <4>4, <4>5 DEF StoreSteps
    <3>2. CASE IsLog(v)'
      BY <3>2, StampFacts DEF StoreSteps, Commits, Nulls, IsLog
    <3> QED
      BY <1>2, <3>1, <3>2
  <2>2. next'[v] = next[v] /\ clsn[v] # NullPtr
    BY <1>k, <2>1, Stable DEF ChainOrder
  <2>3. clsn'[v] = clsn[v] \/ Commits(w, v)
    BY <2>1, StampFacts DEF StoreSteps, Nulls, IsLog
  <2>4. clsn'[v] # NullPtr
    BY <2>2, <2>3, StampFacts DEF Commits
  <2>5. ASSUME next[v] # NoObj
        PROVE  /\ IsLog(next[v]) /\ next[v] \in Objects /\ clsn'[next[v]] = clsn[next[v]]
               /\ clsn'[next[v]].asi = "LOG"
    <3>1. IsLog(next[v]) /\ next[v] \in Objects
      BY <1>k, <2>1, <2>5 DEF ChainOrder, Links
    <3> QED
      BY <3>1, Stable DEF IsLog
  <2>6. ASSUME next[v] # NoObj, IsLog(v)' PROVE clsn[next[v]].lsn < clsn'[v].lsn
    <3>1. CASE clsn'[v] = clsn[v]
      <4>1. IsLog(v)
        BY <2>6, <3>1 DEF IsLog
      <4> QED
        BY <1>k, <2>6, <3>1, <4>1 DEF ChainOrder
    <3>2. CASE Commits(w, v)
      BY <2>6, <3>2, StampFacts DEF Commits
    <3> QED
      BY <2>3, <3>1, <3>2
  <2> QED
    BY <2>2, <2>4, <2>5, <2>6 DEF IsLog
<1> QED
  BY <1>1, <1>2 DEF ChainOrder

LEMMA HeadsKeep ==
    ASSUME IInv, NEW w \in Workers, Step(w), Types' PROVE Heads'
<1> USE DEF Step
<1>k. /\ Names /\ Stamps /\ Types /\ Types' /\ Owners /\ StoreTypes /\ StoreTypes' /\ Links
      /\ ChainOrder /\ Heads
  BY DEF IInv, Types
<1>0. \A v : v \in Range(head)' <=> \E o \in Oids : head'[o] = v
  BY <1>k DEF StoreTypes, Range
<1>1. ASSUME NEW o \in Oids, head'[o] # NoObj
      PROVE  /\ o \in oids' /\ head'[o] \in Objects' /\ head'[o] \notin defunct'
             /\ clsn'[head'[o]].asi = "XID" => \E u \in Workers : xid'[u] = head'[o][1] /\ Writer(u, o)'
  <2>0. head[o] \in Range(head) /\ head'[o] \in Range(head)'
    BY <1>k, <1>0, Entries
  <2>1. CASE head'[o] = head[o]
    <3>1. o \in oids' /\ head[o] \in Objects /\ head'[o] \in Objects' /\ head[o] \notin defunct
      BY <1>k, <1>1, <2>1, Stable DEF Heads, Headed, StoreSteps
    <3>2. head'[o] \notin defunct'
      BY <2>0, <2>1, <3>1 DEF StoreSteps
    <3>3. ASSUME clsn'[head[o]].asi = "XID"
          PROVE  \E u \in Workers : xid'[u] = head[o][1] /\ Writer(u, o)'
      <4>1. clsn'[head[o]] = clsn[head[o]] /\ clsn[head[o]] = Xid(head[o][1])
        BY SMTT(30), SMTT(60), <1>k, <2>0, <3>1, <3>3, StampFacts, Kinds DEF StoreSteps, Commits, Nulls
      <4>2. PICK u \in Workers : xid[u] = head[o][1] /\ Writer(u, o)
        BY <1>k, <1>1, <2>1, <3>3, <4>1 DEF Heads, Headed
      <4>3. CASE u # w
        <5>1. pc'[u] = pc[u] /\ op'[u] = op[u] /\ cur'[u] = cur[u] /\ wset'[u] = wset[u] /\ xid'[u] = xid[u]
          BY <4>3 DEF Others
        <5> QED
          BY <2>1, <4>2, <5>1 DEF Writer, Writes, Entry
      <4>4. CASE u = w
        BY <2>1, <3>1, <4>1, <4>2, <4>4 DEF OwnHeads
      <4> QED
        BY <4>3, <4>4
    <3> QED
      BY <2>1, <3>1, <3>2, <3>3
  <2>2. CASE Unlinks(w, o)
    <3>1. head'[o] = next[head[o]] /\ head[o] \in Objects /\ head[o] # NoObj
      BY <1>k, <2>2, Kinds DEF Unlinks
    <3>2. head'[o] \in Objects /\ IsLog(next[head[o]])
      BY <1>k, <1>1, <2>0, <3>1 DEF ChainOrder, Links
    <3>3. clsn'[head'[o]].asi = "LOG"
      BY <3>1, <3>2, Stable DEF IsLog
    <3>4. head'[o] \notin defunct'
      <4>1. \A x : clsn[head'[o]] # Xid(x)
        BY <3>1, <3>2, StampFacts DEF IsLog
      <4>2. head'[o] \notin defunct
        BY <1>k, <4>1 DEF Links
      <4> QED
        BY <4>1, <4>2 DEF StoreSteps
    <3>5. o \in oids'
      BY <1>k, <3>1 DEF Heads, Headed, StoreSteps
    <3> QED
      BY <3>2, <3>3, <3>4, <3>5, Stable
  <2>3. CASE Installs(w, o)
    <3>1. NewObj(w) \notin Objects /\ NewObj(w)[1] = xid[w]
      BY <1>k, <2>3, Fresh DEF Installs
    <3>2. NewObj(w) \notin defunct'
      BY <1>k, <3>1 DEF StoreSteps, Links
    <3> QED
      BY <2>3, <3>1, <3>2 DEF Installs
  <2> QED
    BY <2>1, <2>2, <2>3 DEF StoreSteps
<1>2. ASSUME NEW o \in Oids, head'[o] # NoObj PROVE Indexed(o)'
  <2>1. CASE head[o] = NoObj \/ (pc[w] \in Inserting /\ op[w].oid = o)
    BY <1>2, <2>1 DEF OwnHeads
  <2>2. CASE head[o] # NoObj /\ ~(pc[w] \in Inserting /\ op[w].oid = o)
    <3>1. o # 0 /\ o \in Nat
      BY SMTT(30), SMTT(60), BoundsAssumption DEF Oids
    <3>2. ASSUME NEW k \in Keys, index[k] = o PROVE index'[k] = o
      BY <2>2, <3>1, <3>2 DEF LeafSteps
    <3>3. ASSUME NEW u \in Workers, pc[u] \in Inserting, op[u].oid = o
          PROVE  pc'[u] \in Inserting /\ op'[u].oid = o
      BY <2>2, <3>3 DEF Others
    <3> QED
      BY <1>k, <2>2, <3>2, <3>3 DEF Heads, Indexed
  <2> QED
    BY <2>1, <2>2
<1> QED
  BY <1>1, <1>2 DEF Heads, Headed, Indexed

LEMMA CoversKeep ==
    ASSUME IInv, NEW w \in Workers, Step(w), Types' PROVE Covers'
<1> USE DEF Step
<1>k. /\ Names /\ Stamps /\ Types /\ StoreTypes /\ LeafTypes /\ Owners /\ Links /\ ChainOrder /\ Heads /\ Covers
      /\ Locals /\ NoObj \notin Objects /\ Objects \subseteq Objects'
  BY Kinds DEF IInv, Types, StoreSteps, Installs
(* An entry stays, or the entry that replaces it is above it or was below. *)
<1>1. ASSUME NEW v \in Objects, NEW x, x = next[v], Reached(v)
      PROVE  \/ Reached(v)'
             \/ IsLog(v) /\ \E u \in Objects' : next'[u] = v /\ Reached(u)'
             \/ /\ ~IsLog(v)
                /\ Reached(x)' \/ \E u \in Objects' : next'[u] = x /\ Reached(u)'
  <2>1. PICK k \in Keys : index[k] # 0 /\ head[index[k]] = v
    BY <1>1 DEF Reached
  <2>2. PICK o : o = index[k]
    OBVIOUS
  <2>3. o \in Oids /\ head[o] = v /\ index'[k] = o
    BY SMTT(30), SMTT(60), <1>k, <2>1, <2>2, BoundsAssumption DEF LeafTypes, LeafSteps, Oids
  <2>4. CASE head'[o] = head[o]
    BY <2>1, <2>2, <2>3, <2>4 DEF Reached
  <2>5. CASE Unlinks(w, o)
    <3>1. ~IsLog(v) /\ head'[o] = x
      BY <1>1, <2>3, <2>5, StampFacts DEF Unlinks, IsLog
    <3>2. Reached(x)'
      BY <2>1, <2>2, <2>3, <3>1 DEF Reached
    <3> QED
      BY <3>1, <3>2
  <2>6. CASE Installs(w, o)
    <3>0. PICK u : u = NewObj(w)
      OBVIOUS
    <3>1. u \in Objects' /\ head'[o] = u
      BY <2>6, <3>0 DEF Installs
    <3>2. Reached(u)'
      BY <2>1, <2>2, <2>3, <3>1 DEF Reached
    <3>3. \/ IsLog(v) /\ next'[u] = v
          \/ ~IsLog(v) /\ next'[u] = x
      BY <1>k, <1>1, <2>3, <2>6, <3>0, StampFacts DEF Installs, IsLog
    <3> QED
      BY <3>1, <3>2, <3>3
  <2> QED
    BY <2>3, <2>4, <2>5, <2>6 DEF StoreSteps
<1>2. ASSUME NEW v \in Objects, IsLog(v) PROVE Covered(v)'
  <2>1. Covered(v) /\ v # NoObj
    BY <1>k, <1>2 DEF Covers
  <2>2. CASE Reached(v)
    BY <1>1, <1>2, <2>2 DEF Covered
  <2>3. ASSUME NEW u \in Objects, next[u] = v, IsLog(u) PROVE Covered(v)'
    <3>1. IsLog(u)' /\ next'[u] = v /\ u \in Objects'
      BY <1>k, <2>3, Stable DEF IsLog
    <3> QED
      BY <3>1 DEF Covered
  <2>4. ASSUME NEW u \in Objects, next[u] = v, ~IsLog(u), Reached(u) PROVE Covered(v)'
    <3>1. next'[u] = v /\ u \in Objects'
      <4>1. PICK k \in Keys : index[k] # 0 /\ head[index[k]] = u
        BY <2>4 DEF Reached
      <4>2. index[k] \in Oids
        BY SMTT(30), SMTT(60), <1>k, <4>1, BoundsAssumption DEF LeafTypes, Oids
      <4>3. u \in Range(head)
        BY <1>k, <4>1, <4>2, Entries
      <4> QED
        BY <1>k, <2>4, <4>3, Stable
    <3>2. Reached(u)' => Covered(v)'
      BY <3>1 DEF Covered
    <3>3. (\E x \in Objects' : next'[x] = v /\ Reached(x)') \/ Reached(v)' => Covered(v)'
      BY DEF Covered
    <3> QED
      BY <1>1, <2>4, <3>2, <3>3
  <2> QED
    BY <2>1, <2>2, <2>3, <2>4 DEF Covered
<1>3. ASSUME NEW v \in Objects, ~IsLog(v), IsLog(v)' PROVE Covered(v)'
  <2>1. Commits(w, v)
    BY <1>3, StampFacts DEF StoreSteps, Nulls, IsLog
  <2>2. PICK o \in Oids : head[o] = v
    BY <1>k, <2>1, Entries DEF Commits
  <2>3. PICK k \in Keys : index[k] = o
    <3>1. ASSUME NEW u \in Workers, pc[u] \in Inserting, op[u].oid = o PROVE FALSE
      <4>1. head[o] = cur[u] /\ clsn[cur[u]] = Xid(xid[u])
        BY <1>k, <3>1 DEF Locals, Local, Updater
      <4>2. xid[u] = xid[w]
        BY SMTT(30), SMTT(60), <2>1, <2>2, <4>1, StampFacts DEF Commits
      <4> QED
        BY <1>k, <2>1, <3>1, <4>2 DEF Owners, Commits, Inserting
    <3> QED
      BY <1>k, <2>2, <3>1 DEF Heads, Indexed
  <2>4. head'[o] = v /\ index'[k] = o /\ o # 0
    BY SMTT(30), SMTT(60), <1>k, <2>1, <2>2, <2>3 DEF Commits, LeafSteps, Oids
  <2>5. Reached(v)'
    BY <2>4 DEF Reached
  <2> QED
    BY <2>5 DEF Covered
<1>4. ASSUME NEW v \in Objects', v \notin Objects PROVE ~IsLog(v)'
  <2>1. PICK o \in Oids : Installs(w, o)
    BY <1>4 DEF StoreSteps
  <2>2. v = NewObj(w) /\ clsn'[v] = Xid(xid[w])
    BY <1>4, <2>1 DEF Installs
  <2> QED
    BY <2>2, StampFacts DEF IsLog
<1> QED
  BY <1>2, <1>3, <1>4 DEF Covers

(* So a step keeps the invariant if it keeps the types and what concerns w. *)
LEMMA Combine ==
    ASSUME IInv, NEW w \in Workers, Step(w), Types', Mine(w)' PROVE IInv'
<1>1. Names'
  <2>1. Objects' = Objects \/ (pc[w] # "idle" /\ Objects' = Objects \cup {NewObj(w)})
    BY DEF Step, StoreSteps, Installs
  <2> QED
    BY <2>1, NamesKeep DEF IInv
<1>2. Stamps' /\ Links' /\ ChainOrder' /\ Heads' /\ Covers'
  BY StampsKeep, LinksKeep, ChainKeep, HeadsKeep, CoversKeep
<1>3. Owners' /\ Outcomes'
  BY OwnersKeep DEF Mine
<1>4. WriteSets'
  BY OthersWritten DEF Mine, WriteSets
<1>5. Locals'
  BY OthersLocal DEF Mine, Locals
<1> QED
  BY <1>1, <1>2, <1>3, <1>4, <1>5 DEF IInv

-----------------------------------------------------------------------------
(* The loaded store satisfies the invariant. *)
LEMMA InitTypes ==
    ASSUME Init
    PROVE  Types /\ Loaded \subseteq Oids /\ Objects = {<<NoXid, k>> : k \in Loaded}
<1> USE DEF Init
<1>1. Loaded \subseteq Oids
  <2>1. \A k \in Loaded : k \in Nat /\ k # 0 /\ k <= MaxOid
    BY KeysAssumption, LoadedAssumption
  <2> QED
    BY SMTT(30), SMTT(60), <2>1, BoundsAssumption DEF Oids
<1>2. Objects = {<<NoXid, k>> : k \in Loaded}
  BY DEF Objects
<1>3. NoXid \in Xids /\ NoObj \in Ids /\ \A k \in Loaded : <<NoXid, k>> \in Ids
  BY SMTT(30), SMTT(60), <1>1 DEF NoXid, NoObj, Xids, Ids, Oids
<1>4. ContextTypes
  BY <1>3 DEF ContextTypes, States
<1>5. StoreTypes
  <2>1. head \in [Oids -> Ids]
    BY <1>3
  <2>2. next \in [Objects -> Ids] /\ DOMAIN born = Objects
    BY <1>2, <1>3
  <2> QED
    BY <2>1, <2>2 DEF StoreTypes
<1>6. LeafTypes
  <2>1. \A k \in Loaded : k \in 0..MaxOid
    BY SMTT(30), SMTT(60), <1>1, BoundsAssumption DEF Oids
  <2>2. 0 \in 0..MaxOid /\ nver \in Nat
    BY SMTT(30), SMTT(60), BoundsAssumption
  <2>3. index \in [Keys -> 0..MaxOid]
    BY <2>1, <2>2
  <2> QED
    BY <1>1, <2>2, <2>3 DEF LeafTypes
<1>7. TxnTypes
  BY SMTT(30), SMTT(60), <1>3 DEF TxnTypes
<1>8. NoOp \in OpType /\ [xid |-> NoXid, state |-> "ACTIVE"] \in HolderType
  BY SMTT(30), SMTT(60), <1>3, BoundsAssumption DEF NoOp, OpType, HolderType, States
<1>9. LocalTypes
  BY <1>3, <1>8 DEF LocalTypes, Labels
<1> QED
  BY <1>1, <1>2, <1>4, <1>5, <1>6, <1>7, <1>9 DEF Types

LEMMA InitInv == Init => IInv
<1> SUFFICES ASSUME Init PROVE IInv
  OBVIOUS
<1>0. Types /\ StoreTypes /\ Loaded \subseteq Oids /\ Objects = {<<NoXid, k>> : k \in Loaded}
  BY InitTypes DEF Types
<1>1. /\ \A v \in Objects : clsn[v] = Log(0) /\ next[v] = NoObj /\ v # NoObj /\ v[1] = NoXid
      /\ \A o \in Oids : head[o] # NoObj => o \in Loaded /\ head[o] = <<NoXid, o>> /\ head[o] \in Objects
      /\ \A o \in Loaded : head[o] = <<NoXid, o>> /\ index[o] = o /\ o \in Keys /\ o # 0
  <2>1. \A o \in Loaded : o # 0 /\ o \in Oids /\ o \in Keys
    BY SMTT(30), SMTT(60), <1>0, KeysAssumption DEF Oids
  <2> QED
    BY SMTT(30), SMTT(60), <1>0, <2>1 DEF Init, NoObj
<1>2. /\ lsn = 0 /\ defunct = {} /\ oids = Loaded /\ nver = 1
      /\ \A c \in Contexts : owner[c] = NoXid /\ cend[c] = 0
      /\ \A w \in Workers : /\ pc[w] = "idle" /\ xid[w] = NoXid /\ wset[w] = <<>> /\ absent[w] = 0
                            /\ unlinked[w] = NoObj /\ cur[w] = NoObj /\ nxt[w] = NoObj /\ saw[w] = 0
  BY DEF Init
<1>3. Names
  <2>1. Objects \subseteq Xids \X (Nat \ {0})
    BY SMTT(30), SMTT(60), <1>0 DEF Xids, Oids
  <2>2. ASSUME NEW x \in Issued PROVE Made(x) = {}
    BY SMTT(30), SMTT(60), <1>1, ContextsAssumption DEF Made, Issued, NoXid
  <2>3. \A x : {<<x, i>> : i \in 1..0} = {}
    BY SMTT(30), SMTT(60)
  <2> QED
    BY SMTT(30), SMTT(60), <2>1, <2>2, <2>3 DEF Names
<1>4. Stamps
  BY SMTT(30), SMTT(60), <1>1, <1>2, StampFacts DEF Stamps, Stamped
<1>5. Owners /\ Outcomes
  BY SMTT(30), SMTT(60), <1>2 DEF Owners, Slot, Holds, Outcomes, Outcome
<1>6. WriteSets
  <2>1. ASSUME NEW w \in Workers PROVE WriteSet(w)
    <3>1. pc[w] = "idle" /\ wset[w] = <<>>
      BY <1>2
    <3>2. Writes(w) = {}
      BY SMTT(30), SMTT(60), <3>1 DEF Writes
    <3> QED
      BY <3>1, <3>2 DEF WriteSet, Undone
  <2> QED
    BY <2>1 DEF WriteSets
<1>7. Heads /\ Links /\ ChainOrder
  <2>1. Heads
    BY SMTT(30), SMTT(60), <1>1, <1>2, StampFacts DEF Heads, Headed, Indexed
  <2>2. Links /\ ChainOrder
    BY <1>1, <1>2, StampFacts DEF Links, ChainOrder
  <2> QED
    BY <2>1, <2>2
<1>8. Covers
  <2>1. ASSUME NEW v \in Objects PROVE Reached(v)
    <3>1. PICK k \in Loaded : v = <<NoXid, k>>
      BY <1>0
    <3> QED
      BY <1>1, <3>1 DEF Reached
  <2> QED
    BY <2>1 DEF Covers, Covered
<1>9. Locals
  <2>1. ASSUME NEW w \in Workers PROVE Refs(w) /\ Reader(w) /\ Updater(w)
    BY SMTT(30), SMTT(60), <1>2 DEF Refs, Reader, Updater, UsesOid, UsesCur, UsesKey, UsesHolder, Inserting
  <2> QED
    BY <2>1 DEF Locals, Local
<1> QED
  BY <1>0, <1>3, <1>4, <1>5, <1>6, <1>7, <1>8, <1>9 DEF IInv
=============================================================================
