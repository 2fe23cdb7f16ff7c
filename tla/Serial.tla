------------------------------- MODULE Serial -------------------------------
(***************************************************************************)
(* The serialisable builds: parallel commit with the serial safety net     *)
(* (SSN, over snapshot isolation or read committed) and with serialisable  *)
(* snapshot isolation (SSI), txn.cc, with the stamps and the readers       *)
(* bitmap of a version (tuple.h, dbcore/serial.cpp).                       *)
(*                                                                         *)
(* Each transaction runs on a thread of its own, so it stands for its bit  *)
(* in the bitmaps.  A version is a row and the transaction that wrote it.  *)
(* The walk down a chain and the installation of a version, which Mvcc     *)
(* takes apart, are one step here; what is taken apart is everything that  *)
(* two committing transactions read of each other.  The safe snapshot is   *)
(* older than every stamp, and the read optimisations are off, as they are *)
(* by default.                                                             *)
(***************************************************************************)
EXTENDS Integers, Sequences, FiniteSetsExt, SequencesExt

CONSTANTS
    Txns,       \* transactions
    None,       \* not a transaction: the loader, or no XID
    Rows,
    Builds,     \* the builds considered
    Workloads   \* bound: what the transactions do; each gives every one a
                \* sequence of operations, pairs of "read" or "update" and a row

ASSUME NoneAssumption == None \notin Txns
ASSUME BuildsAssumption == Builds \subseteq {"SI_SSN", "RC_SSN", "SSI"}

Versions == Rows \X (Txns \cup {None})

VARIABLES
    build,
    lsn,
    chain,      \* per row, the versions newest first, by writer
    clsn,       \* object::_clsn: the stamp, 0 while it holds the XID
    sx, ss,     \* dbtuple::sstamp: the XID it holds, the stamp it holds
    xstamp,     \* dbtuple::xstamp
    s2,         \* dbtuple::s2
    readers,    \* dbtuple::readers_bitmap
    state,      \* xid_context::state, "FREE" once the context is gone
    begin, end, pstamp, sstamp, ct3,
    rset,       \* transaction::read_set
    wset,       \* transaction::write_set: the rows
    pc,
    cst,        \* the commit LSN before it is stored in the context
    i,          \* position in the read or write set
    todo,       \* readers found in the bitmap and not yet looked at
    who,        \* the transaction, or the row, being looked at
    prog,       \* the operations to come
    seen,       \* history: versions read
    committed   \* history

version == <<chain, clsn, sx, ss, xstamp, s2, readers>>
context == <<state, begin, end, pstamp, sstamp, ct3>>
local == <<rset, wset, pc, cst, i, todo, who>>
history == <<prog, seen, committed>>
vars == <<build, lsn, version, context, local, history>>

SSN == build \in {"SI_SSN", "RC_SSN"}
RC == build = "RC_SSN"

Init ==
    /\ build \in Builds
    /\ lsn = 1
    /\ chain = [r \in Rows |-> <<None>>]
    /\ clsn = [v \in Versions |-> IF v[2] = None THEN 1 ELSE 0]
    /\ sx = [v \in Versions |-> None] /\ ss = [v \in Versions |-> 0]
    /\ xstamp = [v \in Versions |-> 0] /\ s2 = [v \in Versions |-> 0]
    /\ readers = [v \in Versions |-> {}]
    /\ state = [t \in Txns |-> "FREE"]
    /\ begin = [t \in Txns |-> 0] /\ end = [t \in Txns |-> 0]
    /\ pstamp = [t \in Txns |-> 0] /\ sstamp = [t \in Txns |-> 0] /\ ct3 = [t \in Txns |-> 0]
    /\ rset = [t \in Txns |-> <<>>] /\ wset = [t \in Txns |-> <<>>]
    /\ pc = [t \in Txns |-> "begin"]
    /\ cst = [t \in Txns |-> 0] /\ i = [t \in Txns |-> 1]
    /\ todo = [t \in Txns |-> {}] /\ who = [t \in Txns |-> None]
    /\ prog \in Workloads
    /\ seen = [t \in Txns |-> {}] /\ committed = {}

TypeOK ==
    LET Stamps == 0..lsn IN
    /\ build \in Builds
    /\ \A r \in Rows : chain[r] \in Seq(Txns \cup {None}) /\ Last(chain[r]) = None
    /\ {clsn, ss, xstamp, s2} \subseteq [Versions -> Stamps]
    /\ sx \in [Versions -> Txns \cup {None}]
    /\ readers \in [Versions -> SUBSET Txns]
    /\ state \in [Txns -> {"FREE", "ACTIVE", "COMMITTING", "CMMTD", "ABRTD"}]
    /\ begin \in [Txns -> 0..lsn + 1]
    /\ {pstamp, sstamp, ct3, cst} \subseteq [Txns -> Stamps]
    /\ \A t \in Txns : end[t] \in {0, cst[t]}
    /\ \A t \in Txns : rset[t] \in Seq(Versions) /\ wset[t] \in Seq(Rows)
    /\ todo \in [Txns -> SUBSET Txns]
    /\ committed \subseteq Txns

Goto(t, l) == pc' = [pc EXCEPT ![t] = l]
MinStamp(a, b) == IF a = 0 \/ b < a THEN b ELSE a

Excluded(t, p, s) == s # 0 /\ p >= s

-----------------------------------------------------------------------------
Begin(t) ==
    /\ pc[t] = "begin"
    /\ state' = [state EXCEPT ![t] = "ACTIVE"]
    /\ begin' = [begin EXCEPT ![t] = lsn + 1]
    /\ Goto(t, "run")
    /\ UNCHANGED <<build, lsn, version, end, pstamp, sstamp, ct3, rset, wset, cst, i, todo, who, history>>

(* oid_get_version(): the position in the chain of the version to read.     *)
(* The versions before it that have committed are too new for the reader.   *)
Readable(t, v) ==
    IF clsn[v] # 0 THEN RC \/ clsn[v] <= begin[t]
                   ELSE v[2] = t
Place(t, r) == Min({k \in DOMAIN chain[r] : Readable(t, <<r, chain[r][k]>>)})
TooNew(t, r) == {clsn[<<r, chain[r][k]>>] : k \in 1..Place(t, r) - 1} \ {0}

(* oid_check_phantom(), called for each of them. *)
PhantomCt3(t, r) == IF TooNew(t, r) = {} THEN ct3[t] ELSE MinStamp(ct3[t], Min(TooNew(t, r)))
PhantomSstamp(t, r) == Min({sstamp[t]} \cup TooNew(t, r))

(* do_tuple_read(): ssn_read() or ssi_read(), until the tuple's bitmap. *)
Read(t, r) ==
    /\ pc[t] = "run" /\ prog[t] # <<>> /\ Head(prog[t]) = <<"read", r>>
    /\ prog' = [prog EXCEPT ![t] = Tail(@)]
    /\ LET v == <<r, chain[r][Place(t, r)]>>
           p == Max({pstamp[t], clsn[v]})
           s == IF ss[v] # 0 THEN MinStamp(PhantomSstamp(t, r), ss[v]) ELSE PhantomSstamp(t, r)
           c == IF ss[v] # 0 THEN MinStamp(PhantomCt3(t, r), ss[v]) ELSE PhantomCt3(t, r)
       IN
       IF SSN
       THEN /\ pstamp' = [pstamp EXCEPT ![t] = p]
            /\ sstamp' = [sstamp EXCEPT ![t] = s]
            /\ who' = [who EXCEPT ![t] = IF ss[v] = 0 THEN v ELSE None]
            /\ seen' = [seen EXCEPT ![t] = @ \cup {v}]
            /\ Goto(t, IF ss[v] = 0 THEN "register" ELSE IF Excluded(t, p, s) THEN "abort" ELSE "run")
            /\ UNCHANGED ct3
       ELSE /\ ct3' = [ct3 EXCEPT ![t] = c]
            /\ who' = [who EXCEPT ![t] = IF s2[v] = 0 /\ ss[v] = 0 THEN v ELSE None]
            /\ seen' = [seen EXCEPT ![t] = IF s2[v] = 0 THEN @ \cup {v} ELSE @]
            /\ Goto(t, IF s2[v] # 0 THEN "abort" ELSE IF ss[v] = 0 THEN "register" ELSE "run")
            /\ UNCHANGED <<pstamp, sstamp>>
    /\ UNCHANGED <<build, lsn, version, state, begin, end, rset, wset, cst, i, todo, committed>>

(* serial_register_reader_tx(), and the read set. *)
Register(t) ==
    /\ pc[t] = "register"
    /\ readers' = [readers EXCEPT ![who[t]] = @ \cup {t}]
    /\ rset' = [rset EXCEPT ![t] = Append(@, who[t])]
    /\ Goto(t, IF SSN /\ Excluded(t, pstamp[t], sstamp[t]) THEN "abort" ELSE "run")
    /\ who' = [who EXCEPT ![t] = None]
    /\ UNCHANGED <<build, lsn, chain, clsn, sx, ss, xstamp, s2, context, wset, cst, i, todo, history>>

Prev(t, r) == <<r, chain[r][CHOOSE k \in DOMAIN chain[r] : k > 1 /\ chain[r][k - 1] = t]>>

(* do_tree_put(): oid_put_update(), then the checks on the version         *)
(* overwritten.  A version that fails them is unlinked at once.            *)
Update(t, r) ==
    /\ pc[t] = "run" /\ prog[t] # <<>> /\ Head(prog[t]) = <<"update", r>>
    /\ prog' = [prog EXCEPT ![t] = Tail(@)]
    /\ LET prev == <<r, chain[r][1]>>
           p == Max({pstamp[t], xstamp[prev]})
           conflict == IF clsn[prev] # 0 THEN ~RC /\ clsn[prev] >= begin[t]
                                         ELSE state[prev[2]] # "CMMTD"
           pivot == ct3[t] # 0 /\ (xstamp[prev] >= ct3[t] \/ readers[prev] \ {t} # {})
           fails == conflict \/ IF SSN THEN Excluded(t, p, sstamp[t]) ELSE pivot
       IN
       /\ pstamp' = IF SSN /\ ~conflict THEN [pstamp EXCEPT ![t] = p] ELSE pstamp
       /\ IF fails
            THEN Goto(t, "abort") /\ UNCHANGED <<chain, xstamp, who>>
            ELSE /\ chain' = [chain EXCEPT ![r] = <<t>> \o @]
                 /\ xstamp' = IF SSN THEN [xstamp EXCEPT ![<<r, t>>] = xstamp[prev]] ELSE xstamp
                 /\ who' = [who EXCEPT ![t] = r]
                 /\ Goto(t, "mark")
    /\ UNCHANGED <<build, lsn, clsn, sx, ss, s2, readers, state, begin, end, sstamp, ct3, rset, wset,
                   cst, i, todo, seen, committed>>

Mark(t) ==
    /\ pc[t] = "mark"
    /\ sx' = [sx EXCEPT ![Prev(t, who[t])] = t]
    /\ wset' = [wset EXCEPT ![t] = Append(@, who[t])]
    /\ who' = [who EXCEPT ![t] = None]
    /\ Goto(t, "run")
    /\ UNCHANGED <<build, lsn, chain, clsn, ss, xstamp, s2, readers, context, rset, cst, i, todo, history>>

-----------------------------------------------------------------------------
(* commit(): the state, then the stamp, then the stamp in the context. *)

Commit(t) ==
    /\ pc[t] = "run" /\ prog[t] = <<>>
    /\ state' = [state EXCEPT ![t] = "COMMITTING"]
    /\ Goto(t, "stamp")
    /\ UNCHANGED <<build, lsn, version, begin, end, pstamp, sstamp, ct3, rset, wset, cst, i, todo, who, history>>

Stamp(t) ==
    /\ pc[t] = "stamp"
    /\ lsn' = lsn + 2
    /\ cst' = [cst EXCEPT ![t] = lsn + 2]
    /\ Goto(t, "end")
    /\ UNCHANGED <<build, version, context, rset, wset, i, todo, who, history>>

SetEnd(t) ==
    /\ pc[t] = "end"
    /\ end' = [end EXCEPT ![t] = cst[t]]
    /\ sstamp' = IF SSN /\ sstamp[t] = 0 THEN [sstamp EXCEPT ![t] = cst[t]] ELSE sstamp
    /\ Goto(t, "reads")
    /\ UNCHANGED <<build, lsn, version, state, begin, pstamp, ct3, rset, wset, cst, i, todo, who, history>>

(* xid_context::set_sstamp() outside the read optimisation: a store. *)
SetSstamp(t, s) == s

(* What both builds do with the stamp s of a transaction that has          *)
(* overwritten the read at hand and commits before t.                      *)
FindS2(t) == ~SSN /\ s2[rset[t][i[t]]] # 0
Successor(t, s) ==
    /\ IF SSN THEN sstamp' = [sstamp EXCEPT ![t] = SetSstamp(t, s)] /\ ct3' = ct3
              ELSE ct3' = [ct3 EXCEPT ![t] = MinStamp(@, s)] /\ sstamp' = sstamp
    /\ IF FindS2(t) \/ (SSN /\ Excluded(t, pstamp[t], SetSstamp(t, s)))
         THEN Goto(t, "abort") /\ i' = i
         ELSE Goto(t, "reads") /\ i' = [i EXCEPT ![t] = @ + 1]

(* Nobody overwrote it, or somebody who does not count: for SSI, without a *)
(* look at s2 when the loop goes on early.                                 *)
NoSuccessor(t) ==
    Goto(t, "reads") /\ i' = [i EXCEPT ![t] = @ + 1] /\ UNCHANGED <<sstamp, ct3>>

Reads(t) ==
    /\ pc[t] = "reads"
    /\ LET v == rset[t][i[t]] IN
       IF i[t] > Len(rset[t])
       THEN /\ Goto(t, IF SSN \/ ct3[t] # 0 THEN "writes" ELSE "post")
            /\ i' = [i EXCEPT ![t] = 1]
            /\ UNCHANGED <<sstamp, ct3, who>>
       ELSE IF ss[v] # 0 THEN Successor(t, ss[v]) /\ who' = who
       ELSE IF sx[v] \in {None, t} \/ state[sx[v]] = "ACTIVE"
            THEN NoSuccessor(t) /\ who' = who
       ELSE /\ state[sx[v]] # "FREE"
            /\ who' = [who EXCEPT ![t] = sx[v]]
            /\ Goto(t, "readEnd")
            /\ UNCHANGED <<i, sstamp, ct3>>
    /\ UNCHANGED <<build, lsn, version, state, begin, end, pstamp, rset, wset, cst, todo, history>>

(* Only who has the smaller stamp is waited for. *)
MutAfter(t, u) == FALSE
After(t, u) == end[u] > cst[t]

(* Spin until the overwriter's stamp is there; an older one decides. *)
ReadEnd(t) ==
    /\ pc[t] = "readEnd"
    /\ LET u == who[t] IN
       CASE state[u] = "FREE" -> Goto(t, "reads") /\ UNCHANGED <<i, sstamp, ct3>>
         [] state[u] = "ABRTD" -> NoSuccessor(t)
         [] state[u] \in {"COMMITTING", "CMMTD"} ->
              /\ end[u] # 0
              /\ IF After(t, u) THEN NoSuccessor(t)
                               ELSE Goto(t, "readSpin") /\ UNCHANGED <<i, sstamp, ct3>>
    /\ who' = IF pc'[t] = "readSpin" THEN who ELSE [who EXCEPT ![t] = None]
    /\ UNCHANGED <<build, lsn, version, state, begin, end, pstamp, rset, wset, cst, todo, history>>

(* spin_for_cstamp() on the overwriter. *)
ReadSpin(t) ==
    /\ pc[t] = "readSpin"
    /\ LET u == who[t] IN
       CASE state[u] = "FREE" -> Goto(t, "reads") /\ UNCHANGED <<i, sstamp, ct3>>
         [] state[u] = "ABRTD" ->
              IF FindS2(t) THEN Goto(t, "abort") /\ UNCHANGED <<i, sstamp, ct3>> ELSE NoSuccessor(t)
         [] state[u] = "CMMTD" -> Successor(t, IF SSN THEN sstamp[u] ELSE end[u])
         [] state[u] = "COMMITTING" -> FALSE /\ UNCHANGED <<pc, i, sstamp, ct3>>
    /\ who' = [who EXCEPT ![t] = None]
    /\ UNCHANGED <<build, lsn, version, state, begin, end, pstamp, rset, wset, cst, todo, history>>

(* The write set: the readers of each version overwritten; in the end, for *)
(* SSN, once more the exclusion window.                                    *)
Writes(t) ==
    /\ pc[t] = "writes"
    /\ IF i[t] > Len(wset[t])
         THEN /\ Goto(t, IF SSN /\ Excluded(t, pstamp[t], sstamp[t]) THEN "abort" ELSE "post")
              /\ i' = [i EXCEPT ![t] = 1] /\ todo' = todo
         ELSE /\ i' = i
              /\ todo' = [todo EXCEPT ![t] = readers[Prev(t, wset[t][i[t]])] \ {t}]
              /\ Goto(t, "readers")
    /\ UNCHANGED <<build, lsn, version, context, rset, wset, cst, who, history>>

Drop(t, u) == todo' = [todo EXCEPT ![t] = @ \ {u}]

(* One reader: gone, to commit later, or with an older stamp. *)
Reader(t, u) ==
    /\ pc[t] = "readers" /\ u \in todo[t]
    /\ state[u] = "COMMITTING" => end[u] # 0
    /\ LET v == Prev(t, wset[t][i[t]])
           later == state[u] # "FREE" /\ (state[u] = "ACTIVE" \/ After(t, u))
           older == state[u] \in {"COMMITTING", "CMMTD"} /\ end[u] < cst[t]
           abort == ~SSN /\ (later \/ (state[u] = "FREE" /\ xstamp[v] >= ct3[t]))
           spins == older /\ (SSN \/ end[u] >= ct3[t])
       IN IF abort THEN Goto(t, "abort") /\ UNCHANGED <<todo, who>>
          ELSE IF spins THEN Goto(t, "readerSpin") /\ who' = [who EXCEPT ![t] = u] /\ todo' = todo
          ELSE Drop(t, u) /\ pc' = pc /\ who' = who
    /\ UNCHANGED <<build, lsn, version, context, rset, wset, cst, i, history>>

ReaderSpin(t) ==
    /\ pc[t] = "readerSpin" /\ state[who[t]] # "COMMITTING"
    /\ LET u == who[t]
           v == Prev(t, wset[t][i[t]])
           p == Max({pstamp[t], end[u]})
           cmmtd == state[u] = "CMMTD"
           abort == IF SSN THEN cmmtd /\ Excluded(t, p, sstamp[t])
                           ELSE cmmtd \/ (state[u] = "FREE" /\ xstamp[v] >= ct3[t])
       IN /\ pstamp' = IF SSN /\ cmmtd THEN [pstamp EXCEPT ![t] = p] ELSE pstamp
          /\ Drop(t, u)
          /\ Goto(t, IF abort THEN "abort" ELSE "readers")
    /\ who' = [who EXCEPT ![t] = None]
    /\ UNCHANGED <<build, lsn, version, state, begin, end, sstamp, ct3, rset, wset, cst, i, history>>

(* After the readers, the stamp they may have left. *)
ReadersDone(t) ==
    /\ pc[t] = "readers" /\ todo[t] = {}
    /\ LET v == Prev(t, wset[t][i[t]])
           p == Max({pstamp[t], xstamp[v]})
           abort == IF SSN THEN Excluded(t, p, sstamp[t]) ELSE xstamp[v] >= ct3[t]
       IN /\ pstamp' = IF SSN THEN [pstamp EXCEPT ![t] = p] ELSE pstamp
          /\ IF abort THEN Goto(t, "abort") /\ i' = i
                      ELSE Goto(t, "writes") /\ i' = [i EXCEPT ![t] = @ + 1]
    /\ UNCHANGED <<build, lsn, version, state, begin, end, sstamp, ct3, rset, wset, cst, todo, who, history>>

-----------------------------------------------------------------------------
(* Post-commit: stamp what was written, publish the state, then stamp what *)
(* was read and leave its bitmap.                                          *)

Post(t) ==
    /\ pc[t] = "post" /\ i[t] <= Len(wset[t])
    /\ LET r == wset[t][i[t]]
           v == Prev(t, r)
       IN /\ s2' = IF SSN THEN s2 ELSE [s2 EXCEPT ![v] = ct3[t]]
          /\ sx' = [sx EXCEPT ![v] = None]
          /\ ss' = [ss EXCEPT ![v] = IF SSN THEN sstamp[t] ELSE cst[t]]
          /\ xstamp' = [xstamp EXCEPT ![<<r, t>>] = cst[t]]
          /\ clsn' = [clsn EXCEPT ![<<r, t>>] = cst[t]]
    /\ i' = [i EXCEPT ![t] = @ + 1]
    /\ UNCHANGED <<build, lsn, chain, readers, context, rset, wset, pc, cst, todo, who, history>>

Committed(t) ==
    /\ pc[t] = "post" /\ i[t] > Len(wset[t])
    /\ state' = [state EXCEPT ![t] = "CMMTD"]
    /\ committed' = committed \cup {t}
    /\ i' = [i EXCEPT ![t] = 1]
    /\ Goto(t, IF SSN THEN "wait" ELSE "xstamp")
    /\ UNCHANGED <<build, lsn, version, begin, end, pstamp, sstamp, ct3, rset, wset, cst, todo, who, prog, seen>>

(* An overwriter with an older stamp has not come to a decision. *)
OlderOverwriter(t) ==
    LET u == sx[rset[t][i[t]]] IN u \notin {None, t} /\ state[u] = "COMMITTING" /\ end[u] # 0 /\ end[u] < cst[t]

(* set_tuple_xstamp(): the stamp only grows. *)
MutAccess(t, v) == cst[t]
Access(t, v) == Max({xstamp[v], cst[t]})

(* SSN waits before it stamps the version, SSI before it leaves the bitmap. *)
Release(t) ==
    /\ pc[t] \in {"wait", "xstamp", "leave"} /\ i[t] <= Len(rset[t])
    /\ LET v == rset[t][i[t]] IN
       CASE pc[t] = "wait" ->
              ~OlderOverwriter(t) /\ Goto(t, IF SSN THEN "xstamp" ELSE "leave") /\ UNCHANGED <<xstamp, readers, i>>
         [] pc[t] = "xstamp" ->
              /\ xstamp' = [xstamp EXCEPT ![v] = Access(t, v)]
              /\ Goto(t, IF SSN THEN "leave" ELSE "wait")
              /\ UNCHANGED <<readers, i>>
         [] pc[t] = "leave" ->
              /\ readers' = [readers EXCEPT ![v] = @ \ {t}]
              /\ Goto(t, IF SSN THEN "wait" ELSE "xstamp")
              /\ i' = [i EXCEPT ![t] = @ + 1]
              /\ xstamp' = xstamp
    /\ UNCHANGED <<build, lsn, chain, clsn, sx, ss, s2, context, rset, wset, cst, todo, who, history>>

(* abort_impl(): the state, the bitmaps, the versions. *)
Abort(t) ==
    /\ pc[t] = "abort"
    /\ state' = [state EXCEPT ![t] = "ABRTD"]
    /\ Goto(t, "undo")
    /\ UNCHANGED <<build, lsn, version, begin, end, pstamp, sstamp, ct3, rset, wset, cst, i, todo, who, history>>

Undo(t) ==
    /\ pc[t] = "undo"
    /\ readers' = [v \in Versions |-> IF v \in Range(rset[t]) THEN readers[v] \ {t} ELSE readers[v]]
    /\ sx' = [v \in Versions |-> IF sx[v] = t THEN None ELSE sx[v]]
    /\ chain' = [r \in Rows |-> SelectSeq(chain[r], LAMBDA u : u # t)]
    /\ Goto(t, "done")
    /\ UNCHANGED <<build, lsn, clsn, ss, xstamp, s2, context, rset, wset, cst, i, todo, who, history>>

(* The destructor gives the context back, and nobody looks at its stamps   *)
(* any more.                                                               *)
End(t) ==
    /\ \/ pc[t] = "done"
       \/ pc[t] \in {"wait", "xstamp"} /\ i[t] > Len(rset[t])
    /\ Goto(t, "end of txn")
    /\ state' = [state EXCEPT ![t] = "FREE"]
    /\ end' = [end EXCEPT ![t] = 0] /\ pstamp' = [pstamp EXCEPT ![t] = 0]
    /\ sstamp' = [sstamp EXCEPT ![t] = 0] /\ ct3' = [ct3 EXCEPT ![t] = 0]
    /\ wset' = [wset EXCEPT ![t] = <<>>]
    /\ i' = [i EXCEPT ![t] = 1] /\ todo' = [todo EXCEPT ![t] = {}]
    /\ who' = [who EXCEPT ![t] = None] /\ prog' = [prog EXCEPT ![t] = <<>>]
    /\ IF t \in committed THEN UNCHANGED <<begin, rset, cst, seen>>
       ELSE /\ begin' = [begin EXCEPT ![t] = 0] /\ cst' = [cst EXCEPT ![t] = 0]
            /\ rset' = [rset EXCEPT ![t] = <<>>] /\ seen' = [seen EXCEPT ![t] = {}]
    /\ UNCHANGED <<build, lsn, version, committed>>

-----------------------------------------------------------------------------
Work(t) ==
    \/ \E r \in Rows : Read(t, r) \/ Update(t, r)
    \/ Begin(t) \/ Register(t) \/ Mark(t) \/ Commit(t) \/ Stamp(t) \/ SetEnd(t)
    \/ Reads(t) \/ ReadEnd(t) \/ ReadSpin(t) \/ Writes(t)
    \/ (\E u \in Txns : Reader(t, u)) \/ ReaderSpin(t) \/ ReadersDone(t)
    \/ Post(t) \/ Committed(t) \/ Release(t) \/ Abort(t) \/ Undo(t) \/ End(t)

Finished == \A t \in Txns : pc[t] = "end of txn"
Next == (\E t \in Txns : Work(t)) \/ (Finished /\ UNCHANGED vars)

Spec == Init /\ [][Next]_vars

-----------------------------------------------------------------------------
(* Who precedes whom among the committed: the writer of a version its      *)
(* readers and the writer of the next version, a reader that writer too.   *)
Writer(v) == v[2]
Overwrites(u, v) == \E k \in DOMAIN chain[v[1]] : k > 1 /\ chain[v[1]][k] = v[2] /\ chain[v[1]][k - 1] = u
Precedes(a, b) ==
    /\ a # b
    /\ \/ \E v \in seen[b] : Writer(v) = a
       \/ \E v \in seen[a] : Overwrites(b, v)
       \/ \E r \in Rows : Overwrites(b, <<r, a>>)

(* The transactions that commit have a serial order: what SSN and SSI      *)
(* promise of parallel_ssn_commit() and parallel_ssi_commit().             *)
Serialisable ==
    LET before == {p \in committed \X committed : Precedes(p[1], p[2])}
    IN \E order \in [committed -> 1..Cardinality(committed)] :
           \A p \in before : order[p[1]] < order[p[2]]

(* They have one unless, under SSI, one of them read a version that had    *)
(* been overwritten with a stamp before its begin, which oid_get_version() *)
(* returns while the overwriter is still in its commit.                    *)
StaleRead(t) ==
    \E v \in seen[t], u \in Txns : Overwrites(u, v) /\ cst[u] # 0 /\ cst[u] < begin[t]

(* In spin_for_cstamp() a committing transaction waits only for one with   *)
(* an older stamp, so that no two ever wait for each other.                *)
SpinsOnOlder ==
    \A t \in Txns :
        pc[t] \in {"readSpin", "readerSpin"} /\ state[who[t]] = "COMMITTING" => cst[who[t]] < cst[t]

(* The tracked read of a transaction can be found by whoever overwrites    *)
(* the version, at any time: the reader is in the bitmap or, committed,    *)
(* has left a stamp not smaller than its own.                              *)
ReadFound ==
    \A t \in Txns : \A v \in Range(rset[t]) :
        \/ t \in readers[v]
        \/ t \in committed /\ xstamp[v] >= cst[t]
        \/ t \notin committed /\ state[t] \in {"ABRTD", "FREE"}

(* The lists and stamps stay in their ranges and no read escapes.          *)
SerialSound == TypeOK /\ ReadFound
=============================================================================
