------------------------------ MODULE Recovery ------------------------------
(***************************************************************************)
(* What survives a crash: the log blocks of transactions and their         *)
(* overflow blocks (dbcore/sm-tx-log.cpp), the durable and checkpoint      *)
(* marks (sm-log-file.cpp), checkpoints (sm-chkpt.cpp, sm-oid.cpp), the    *)
(* search for the end of the log and its truncation (sm-log-recover.cpp)   *)
(* and the two ways of replaying it (sm-log-recover-impl.cpp).             *)
(*                                                                         *)
(* There is one table with one index.  An LSN is the number of a block;    *)
(* block 1 is the load of the database.  The write daemon writes released  *)
(* blocks only.  At a crash any of the blocks it has not written yet may   *)
(* have reached the disk all the same.                                     *)
(***************************************************************************)
EXTENDS Integers, Sequences, FiniteSets, FiniteSetsExt, SequencesExt, Functions

CONSTANTS
    Workers,     \* threads that run transactions
    Keys,        \* keys of the index
    Loaded,      \* the key that is loaded first
    Functors,    \* ways to replay the log: "file", "oid"
    Capacities,  \* values of MAX_BLOCK_RECORDS considered
    Redoers,     \* number of partitions of parallel_oid_replay
    Budgets,     \* bounds: transactions, operations of each, crashes, checkpoints
    MaxOid       \* bound: OIDs handed out

ASSUME LoadedAssumption == Loaded \in Keys
ASSUME FunctorsAssumption == Functors \subseteq {"file", "oid"}
ASSUME CapacitiesAssumption == Capacities \subseteq Nat \ {0, 1}
ASSUME BoundsAssumption ==
    /\ Redoers \in Nat \ {0}
    /\ MaxOid \in Nat
    /\ Budgets \subseteq [txns : Nat, ops : Nat, crashes : Nat, chkpts : Nat]

VARIABLES
    functor,    \* sysconf::recover_functor; never changes
    capacity,   \* MAX_BLOCK_RECORDS; never changes
    disk,       \* the log files: the block found at each LSN
    dmark,      \* the durable mark: the last block it covers
    cmark,      \* the checkpoint mark: 0, or the last block before the checkpoint
    files,      \* checkpoint data files: what each of them holds
    mode,       \* "run", a phase of recovery, or why recovery died
    log,        \* the blocks allocated so far, and whether they are released
    written,    \* _durable_flushed_lsn_offset
    chain,      \* the versions each OID leads to, newest first
    index,      \* the OID each key leads to, 0 if none
    hiwater,    \* sm_allocator::hiwater_mark
    txn,        \* the transaction of each worker
    cpt,        \* sm_chkpt_mgr: the checkpoint in progress
    redo,       \* what each redoer has still to scan, and its high mark
    left,       \* bounds: what is left of the budget
    hist,       \* history: committed writes, in commit order
    promised    \* history: last block that was reported durable

store == <<chain, index, hiwater>>
media == <<disk, dmark, cmark, files>>
vars == <<functor, capacity, media, mode, log, written, store, txn, cpt, redo, left, hist, promised>>

Oids == 1..MaxOid
NoTxn == [id |-> 0, ops |-> 0, recs |-> <<>>, prev |-> 0, block |-> 0, puts |-> <<>>]
NoChkpt == [pc |-> "idle", start |-> 0, himark |-> 0, oid |-> 0, rows |-> <<>>, last |-> 0]

(* A log record; val identifies the version it logs. *)
Rec(type, o, k, v) == [type |-> type, oid |-> o, key |-> k, val |-> v]
HasDest(r) == r.type \in {"INSERT", "UPDATE"}

(* A log block.  An overflow block is hidden in a skip record. *)
Block(kind, recs, prev) == [kind |-> kind, recs |-> recs, prev |-> prev]
Reserved == Block("reserved", <<>>, 0)
Skip == Block("skip", <<>>, 0)

(* A version: its value, whether it is a tombstone, _pdest, its writer. *)
Version(v, del, at, t) == [val |-> v, del |-> del, at |-> at, txn |-> t]

LoadRecs == <<Rec("INSERT", 1, Loaded, <<0, 1>>), Rec("INDEX", 1, Loaded, <<0, 1>>)>>

Init ==
    /\ functor \in Functors
    /\ capacity \in Capacities
    /\ log = <<Block("commit", LoadRecs, 0)>>
    /\ disk = log
    /\ dmark = 1
    /\ written = 1
    /\ cmark = 0
    /\ files = <<>>
    /\ mode = "run"
    /\ chain = [o \in Oids |-> IF o = 1 THEN <<Version(<<0, 1>>, FALSE, 1, 0)>> ELSE <<>>]
    /\ index = [k \in Keys |-> IF k = Loaded THEN 1 ELSE 0]
    /\ hiwater = 2
    /\ txn = [w \in Workers |-> NoTxn]
    /\ cpt = NoChkpt
    /\ redo = <<>>
    /\ left \in Budgets
    /\ hist = <<[lsn |-> 1, txn |-> 0, key |-> Loaded, oid |-> 1, val |-> <<0, 1>>, del |-> FALSE]>>
    /\ promised = 1

----------------------------------------------------------------------------
(* Forward processing. *)

Active(t) == t # 0 /\ \E w \in Workers : txn[w].id = t
Running(w) == mode = "run" /\ txn[w].id # 0 /\ txn[w].block = 0
Stored == UNCHANGED <<functor, capacity, cmark, files, mode, redo>>

Begin(w) ==
    /\ mode = "run" /\ txn[w].id = 0 /\ left.txns > 0
    /\ txn' = [txn EXCEPT ![w] = [NoTxn EXCEPT !.id = left.txns]]
    /\ left' = [left EXCEPT !.txns = @ - 1]
    /\ Stored
    /\ UNCHANGED <<disk, dmark, log, written, store, cpt, hist, promised>>

(* _populate_block(): the versions learn where they are stored. *)
Populate(ch, recs, at) ==
    [o \in Oids |-> [i \in DOMAIN ch[o] |->
        IF \E r \in Range(recs) : HasDest(r) /\ r.oid = o /\ r.val = ch[o][i].val
        THEN [ch[o][i] EXCEPT !.at = at] ELSE ch[o][i]]]

(* How full the transaction's block is; the link to an overflow block      *)
(* takes a record.                                                         *)
Requests(s) == Len(s.txn.recs) + (IF s.txn.prev # 0 THEN 1 ELSE 0)

(* add_request() and spill_overflow() on s, which holds a transaction, the *)
(* log and the versions.                                                   *)
AddRequest(s, r) ==
    IF Requests(s) < capacity
    THEN [s EXCEPT !.txn.recs = Append(@, r)]
    ELSE [txn |-> [s.txn EXCEPT !.recs = <<r>>, !.prev = Len(s.log) + 1],
          log |-> Append(s.log, Block("overflow", s.txn.recs, s.txn.prev)),
          chain |-> Populate(s.chain, s.txn.recs, Len(s.log) + 1)]

(* The operation has changed the versions to ch: log it. *)
LogOp(w, ch, recs, put) ==
    LET t == [txn[w] EXCEPT !.ops = @ + 1, !.puts = Append(@, put)]
        s == FoldLeft(AddRequest, [txn |-> t, log |-> log, chain |-> ch], recs)
    IN  /\ txn' = [txn EXCEPT ![w] = s.txn]
        /\ log' = s.log
        /\ chain' = s.chain

NewVal(w) == <<txn[w].id, txn[w].ops + 1>>
Put(k, o, v, del) == [key |-> k, oid |-> o, val |-> v, del |-> del]

(* try_insert_new_tuple(): a key whose chain is empty is taken over. *)
Insert(w, k) ==
    /\ Running(w) /\ txn[w].ops < left.ops
    /\ hiwater <= MaxOid
    /\ index[k] # 0 => chain[index[k]] = <<>>
    /\ index' = [index EXCEPT ![k] = hiwater]
    /\ hiwater' = hiwater + 1
    /\ LET v == NewVal(w)
       IN  LogOp(w, [chain EXCEPT ![hiwater] = <<Version(v, FALSE, 0, txn[w].id)>>],
                 <<Rec("INSERT", hiwater, k, v), Rec("INDEX", hiwater, k, v)>>, Put(k, hiwater, v, FALSE))
    /\ Stored
    /\ UNCHANGED <<disk, dmark, written, cpt, left, hist, promised>>

(* do_tree_put() on a key that is there: the newest version is committed,  *)
(* or the transaction's own, which is replaced.                            *)
Update(w, k, del) ==
    /\ Running(w) /\ txn[w].ops < left.ops
    /\ index[k] # 0 /\ chain[index[k]] # <<>>
    /\ LET o == index[k]
           old == chain[o]
           v == NewVal(w)
           new == Version(v, del, 0, txn[w].id)
           own == Active(Head(old).txn)
       IN  /\ own => Head(old).txn = txn[w].id
           /\ LogOp(w, [chain EXCEPT ![o] = <<new>> \o (IF own THEN Tail(old) ELSE old)],
                    <<Rec(IF del THEN "DELETE" ELSE "UPDATE", o, k, v)>>, Put(k, o, v, del))
    /\ Stored
    /\ UNCHANGED <<disk, dmark, written, index, hiwater, cpt, left, hist, promised>>

(* sm_tx_log::pre_commit(): the commit block is allocated. *)
PreCommit(w) ==
    /\ Running(w) /\ txn[w].ops > 0
    /\ log' = Append(log, Reserved)
    /\ txn' = [txn EXCEPT ![w].block = Len(log) + 1]
    /\ Stored
    /\ UNCHANGED <<disk, dmark, written, store, cpt, left, hist, promised>>

Stamped(w, at) ==
    [i \in DOMAIN txn[w].puts |->
        [lsn |-> at, txn |-> txn[w].id, key |-> txn[w].puts[i].key, oid |-> txn[w].puts[i].oid,
         val |-> txn[w].puts[i].val, del |-> txn[w].puts[i].del]]

(* sm_tx_log::commit() and post-commit. *)
Commit(w) ==
    /\ mode = "run" /\ txn[w].block # 0
    /\ LET t == txn[w]
       IN  /\ log' = [log EXCEPT ![t.block] = Block("commit", t.recs, t.prev)]
           /\ chain' = Populate(chain, t.recs, t.block)
           /\ hist' = hist \o Stamped(w, t.block)
    /\ txn' = [txn EXCEPT ![w] = NoTxn]
    /\ Stored
    /\ UNCHANGED <<disk, dmark, written, index, hiwater, cpt, left, promised>>

(* abort_impl() unlinks the versions and leaves the index; discard() turns *)
(* a block that is already there into a skip.                              *)
Abort(w) ==
    /\ mode = "run" /\ txn[w].id # 0
    /\ chain' = [o \in Oids |-> SelectSeq(chain[o], LAMBDA v : v.txn # txn[w].id)]
    /\ log' = IF txn[w].block = 0 THEN log ELSE [log EXCEPT ![txn[w].block] = Skip]
    /\ txn' = [txn EXCEPT ![w] = NoTxn]
    /\ Stored
    /\ UNCHANGED <<disk, dmark, written, index, hiwater, cpt, left, hist, promised>>

----------------------------------------------------------------------------
(* The write daemon. *)

(* The last block such that it and all before it are released. *)
Released == Max({n \in 0..Len(log) : \A i \in 1..n : log[i] # Reserved})

(* flush_log_buffer(): what has been written is durable to those who ask. *)
WriteLog ==
    /\ mode = "run" /\ written < Released
    /\ disk' = SubSeq(log, 1, Released)
    /\ written' = Released
    /\ promised' = Released
    /\ UNCHANGED <<functor, capacity, dmark, cmark, files, mode, log, store, txn, cpt, redo, left, hist>>

(* update_durable_mark(): the mark is a file name, and renamed. *)
UpdateMark ==
    /\ mode = "run" /\ dmark < written
    /\ dmark' = written
    /\ UNCHANGED <<functor, capacity, disk, cmark, files, mode, log, written, store, txn, cpt, redo, left, hist,
                   promised>>

----------------------------------------------------------------------------
(* Checkpoints: do_chkpt(). *)

Chkpt == mode = "run" /\ UNCHANGED <<functor, capacity, mode, log, store, txn, redo, hist>>

(* flush(), and prepare_file(): the data file is named after the LSN. *)
ChkptFlush ==
    /\ Chkpt
    /\ cpt.pc = "idle" /\ left.chkpts > 0
    /\ left' = [left EXCEPT !.chkpts = @ - 1]
    /\ disk' = SubSeq(log, 1, Released)
    /\ written' = Released /\ promised' = Released /\ dmark' = Released
    /\ cpt' = [cpt EXCEPT !.pc = "write", !.start = Released, !.himark = hiwater, !.oid = 1, !.rows = <<>>]
    /\ UNCHANGED <<cmark, files>>

InImage(v) == v.at # 0 /\ v.at <= cpt.start

(* take_chkpt(): one OID.  The newest version that has an address in the   *)
(* log before the checkpoint is its image.                                 *)
ChkptOid ==
    /\ Chkpt
    /\ cpt.pc = "write" /\ cpt.oid < cpt.himark
    /\ LET found == SelectSeq(chain[cpt.oid], InImage)
       IN  cpt' = [cpt EXCEPT !.oid = @ + 1,
                              !.rows = IF found = <<>> THEN @ ELSE Append(@, <<cpt.oid, Head(found)>>)]
    /\ UNCHANGED <<media, written, left, promised>>

(* The file is on disk: update_chkpt_mark(). *)
ChkptMark ==
    /\ Chkpt
    /\ cpt.pc = "write" /\ cpt.oid >= cpt.himark
    /\ files' = [f \in DOMAIN files \cup {cpt.start} |->
                    IF f = cpt.start THEN [himark |-> cpt.himark, rows |-> cpt.rows] ELSE files[f]]
    /\ cmark' = cpt.start
    /\ cpt' = [cpt EXCEPT !.pc = "scavenge", !.rows = <<>>]
    /\ UNCHANGED <<disk, dmark, written, left, promised>>

(* scavenge(): the file of the checkpoint before goes. *)
Scavenge ==
    /\ Chkpt
    /\ cpt.pc = "scavenge"
    /\ files' = Restrict(files, DOMAIN files \ {cpt.last})
    /\ cpt' = [NoChkpt EXCEPT !.last = cpt.start]
    /\ UNCHANGED <<disk, dmark, cmark, written, left, promised>>

----------------------------------------------------------------------------
(* Crash and recovery. *)

(* Memory is lost.  Blocks beyond the ones written may have arrived. *)
Crash(arrived) ==
    /\ left.crashes > 0 /\ mode \in {"run", "mark", "truncate", "load", "redo"}
    /\ left' = [left EXCEPT !.crashes = @ - 1]
    /\ disk' = IF mode # "run" THEN disk
               ELSE [i \in 1..Len(log) |-> IF i <= written \/ i \in arrived THEN log[i] ELSE Reserved]
    /\ mode' = "mark"
    /\ log' = <<>>
    /\ written' = 0
    /\ chain' = [o \in Oids |-> <<>>]
    /\ index' = [k \in Keys |-> 0]
    /\ hiwater' = 1
    /\ txn' = [w \in Workers |-> NoTxn]
    /\ cpt' = NoChkpt
    /\ redo' = <<>>
    /\ UNCHANGED <<functor, capacity, dmark, cmark, files, hist, promised>>

(* The checksum of an overflow block is merged from that of the block      *)
(* inside, which does not cover its own first field: it does not match.    *)
Intact(b) == b.kind \notin {"reserved", "overflow"}

LogEnd == Max({n \in dmark..Len(disk) : \A i \in (dmark + 1)..n : Intact(disk[i])})

FindEnd ==
    /\ mode = "mark"
    /\ dmark' = LogEnd
    /\ mode' = "truncate"
    /\ UNCHANGED <<functor, capacity, disk, cmark, files, log, written, store, txn, cpt, redo, left, hist, promised>>

Truncated == SubSeq(disk, 1, dmark)

(* truncate_after(); forward processing will continue where the log ends.  *)
(* What the log has lost, history forgets.                                 *)
Truncate ==
    /\ mode = "truncate"
    /\ disk' = Truncated
    /\ log' = SubSeq(disk, 1, dmark)
    /\ written' = dmark
    /\ hist' = SelectSeq(hist, LAMBDA h : h.lsn <= dmark)
    /\ promised' = Min({promised, dmark})
    /\ mode' = "load"
    /\ UNCHANGED <<functor, capacity, dmark, cmark, files, store, txn, cpt, redo, left>>

(* The scan of a block: its overflow blocks first, oldest first. *)
BlockRecs[n \in Nat] ==
    IF n = 0 THEN <<>> ELSE BlockRecs[log[n].prev] \o log[n].recs

MutScanned(n) == IF log[n].kind = "commit" THEN log[n].recs ELSE <<>>
Scanned(n) == IF log[n].kind = "commit" THEN BlockRecs[n] ELSE <<>>

(* All the records of a log scan that begins after block n. *)
LogScan(n) == FlattenSeq([i \in 1..(Len(log) - n) |-> Scanned(n + i)])

(* The records for each redoer: of its file, or of its share of the OIDs. *)
Shares ==
    IF functor = "file" THEN <<LogScan(cmark)>>
    ELSE [p \in 1..Redoers |-> SelectSeq(LogScan(cmark), LAMBDA r : r.oid % Redoers = p - 1)]

(* recreate_allocator(); the next OID follows the mark. *)
Recreated(mark, m) == IF m = 0 \/ m < mark THEN mark ELSE m + 1

(* sm_oid_mgr::create() loads the checkpoint, then the redoers start. *)
LoadChkpt ==
    /\ mode = "load"
    /\ cmark # 0 => cmark \in DOMAIN files
    /\ mode' = "redo"
    /\ LET rows == IF cmark = 0 THEN <<>> ELSE files[cmark].rows
       IN  chain' = [o \in Oids |->
                        FoldLeft(LAMBDA c, r : IF r[1] = o THEN <<[r[2] EXCEPT !.txn = 0]>> ELSE c, <<>>, rows)]
    /\ hiwater' = IF cmark = 0 THEN 1 ELSE Recreated(1, files[cmark].himark)
    /\ redo' = [p \in DOMAIN Shares |-> [todo |-> Shares[p], himark |-> 0, done |-> FALSE]]
    /\ cpt' = [cpt EXCEPT !.last = cmark]
    /\ UNCHANGED <<functor, capacity, media, log, written, index, txn, left, hist, promised>>

(* The data file the mark names is gone. *)
NoChkptFile ==
    /\ mode = "load"
    /\ cmark # 0 /\ cmark \notin DOMAIN files
    /\ mode' = "nofile"
    /\ UNCHANGED <<functor, capacity, media, log, written, store, txn, cpt, redo, left, hist, promised>>

(* What a record leads to: recover_insert(), recover_update(). *)
Replayed(r) ==
    CASE r.type = "INSERT" -> [chain EXCEPT ![r.oid] = <<Version(r.val, FALSE, 1, 0)>>]
      [] r.type = "UPDATE" -> [chain EXCEPT ![r.oid] = <<Version(r.val, FALSE, 1, 0)>> \o @]
      [] r.type = "DELETE" -> [chain EXCEPT ![r.oid] = <<>>]
      [] OTHER -> chain

(* insert_if_absent() finds the key, with a version. *)
Taken(r) == r.type = "INDEX" /\ index[r.key] # 0 /\ chain[index[r.key]] # <<>>

(* redo_file(), redo_partition(): one record. *)
Redo(p) ==
    /\ mode = "redo" /\ redo[p].todo # <<>>
    /\ LET r == Head(redo[p].todo)
       IN  /\ chain' = Replayed(r)
           /\ index' = IF r.type = "INDEX" /\ ~Taken(r) THEN [index EXCEPT ![r.key] = r.oid] ELSE index
           /\ mode' = IF Taken(r) THEN "assert" ELSE mode
           /\ redo' = [redo EXCEPT ![p].todo = Tail(@), ![p].himark = Max({@, r.oid})]
    /\ UNCHANGED <<functor, capacity, media, log, written, hiwater, txn, cpt, left, hist, promised>>

MutMark(p) == hiwater
Mark(p) == Recreated(hiwater, redo[p].himark)

(* A redoer has reached the end of the log. *)
RedoEnd(p) ==
    /\ mode = "redo" /\ redo[p].todo = <<>> /\ ~redo[p].done
    /\ hiwater' = Mark(p)
    /\ redo' = [redo EXCEPT ![p].done = TRUE]
    /\ UNCHANGED <<functor, capacity, media, mode, log, written, chain, index, txn, cpt, left, hist, promised>>

(* All redoers have been joined: the system is open again. *)
RecoveryEnd ==
    /\ mode = "redo" /\ \A p \in DOMAIN redo : redo[p].done
    /\ mode' = "run"
    /\ redo' = <<>>
    /\ UNCHANGED <<functor, capacity, media, log, written, store, txn, cpt, left, hist, promised>>

Recover == FindEnd \/ Truncate \/ LoadChkpt \/ NoChkptFile \/ RecoveryEnd
           \/ \E p \in DOMAIN redo : Redo(p) \/ RedoEnd(p)

Forward(w) ==
    \/ Begin(w) \/ PreCommit(w) \/ Commit(w) \/ Abort(w)
    \/ \E k \in Keys : Insert(w, k) \/ \E del \in BOOLEAN : Update(w, k, del)

Next ==
    \/ \E w \in Workers : Forward(w)
    \/ WriteLog \/ UpdateMark
    \/ ChkptFlush \/ ChkptOid \/ ChkptMark \/ Scavenge
    \/ \E arrived \in SUBSET {i \in DOMAIN log : i > written /\ log[i] # Reserved} : Crash(arrived)
    \/ Recover

Spec == Init /\ [][Next]_vars

----------------------------------------------------------------------------
(* Properties. *)

Values == Nat \X Nat
Blocks == [kind : {"reserved", "skip", "overflow", "commit"}, recs : Seq([
              type : {"INSERT", "INDEX", "UPDATE", "DELETE"}, oid : Oids, key : Keys, val : Values]), prev : Nat]

(* Every variable has its type; forward processing and recovery exclude    *)
(* each other, and the marks stay within the log files.                    *)
TypeOK ==
    /\ functor \in Functors /\ capacity \in Capacities
    /\ mode \in {"run", "mark", "truncate", "load", "redo", "nofile", "assert"}
    /\ disk \in Seq(Blocks) /\ log \in Seq(Blocks)
    /\ cmark <= dmark /\ dmark <= Len(disk)
    /\ chain \in [Oids -> Seq([val : Values, del : BOOLEAN, at : Nat, txn : Nat])]
    /\ index \in [Keys -> 0..MaxOid]
    /\ hiwater \in 1..(MaxOid + 1)
    /\ mode = "run" => redo = <<>> /\ dmark <= written /\ written <= Len(log)
    /\ mode # "run" => \A w \in Workers : txn[w] = NoTxn

(* What a reader finds under a key, ignoring transactions in flight. *)
Found(k) ==
    LET vs == IF index[k] = 0 THEN <<>> ELSE SelectSeq(chain[index[k]], LAMBDA v : ~Active(v.txn))
    IN  {v.val : v \in {u \in Range(vs) : u = Head(vs) /\ ~u.del}}

(* What the last committed write of a key left there. *)
Outcome(hs) == {h.val : h \in {g \in Range(hs) : g = Last(hs) /\ ~g.del}}
Expected(k) == Outcome(SelectSeq(hist, LAMBDA h : h.key = k))

(* When the system is open, before a crash or after any number of them,    *)
(* every key leads to what its last committed transaction in the log left  *)
(* there, and to nothing if that was a delete: replay applies every        *)
(* record, overflow blocks included, once and in order, and nothing of a   *)
(* transaction that had not committed.  Checkpoints do not rebuild the     *)
(* index, so this is about a log that is replayed from its beginning.      *)
RecoveredState == mode = "run" /\ cmark = 0 => \A k \in Keys : Found(k) = Expected(k)


(* A committed transaction that was reported durable is in the log that    *)
(* recovery keeps.                                                         *)
CommitKept == mode = "truncate" => \A h \in Range(hist) : h.lsn <= promised => h.lsn <= dmark

(* With a checkpoint: an OID whose last committed write is an insert or an *)
(* update has that version when recovery ends, whether it comes from the   *)
(* image or from the log after it.  (A block that spilled carries          *)
(* uncommitted versions into the image, and a delete leaves nothing for    *)
(* the image to find, so both are excluded.)                               *)
HeadsKept ==
    mode = "run" /\ (\A b \in Range(log) : b.kind # "overflow") =>
        \A o \in Oids :
            LET hs == SelectSeq(hist, LAMBDA h : h.oid = o)
                vs == SelectSeq(chain[o], LAMBDA v : ~Active(v.txn))
            IN  hs # <<>> /\ (\A i \in DOMAIN hs : ~hs[i].del) => vs # <<>> /\ {Head(vs).val} = Outcome(hs)

(* No OID that leads to versions, or to which a key leads, is handed out   *)
(* again: the allocator that replay recreates starts above all of them,    *)
(* whichever redoer finishes last.                                         *)
FreshOid ==
    mode = "run" => /\ \A o \in Oids : chain[o] # <<>> => o < hiwater
                    /\ \A k \in Keys : index[k] < hiwater

(* Replay by file never meets a key that is already there with a version   *)
(* (the ALWAYS_ASSERT of recover_index_insert()), however often the key    *)
(* was deleted and inserted under another OID.                             *)
ReplayLives == functor = "file" => mode # "assert"

(* The data file that the checkpoint mark names exists. *)
MarkHasData == cmark # 0 => cmark \in DOMAIN files

=============================================================================
