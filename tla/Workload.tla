------------------------------ MODULE Workload ------------------------------
(***************************************************************************)
(* The frame every benchmark of src/benchmarks runs in: the loop of a      *)
(* worker (bench_worker::my_work), the calls of abstract_db and            *)
(* abstract_ordered_index as ndb_wrapper hands them to the engine, and the *)
(* try_* macros of bench.h that turn a return code into an abort, a return *)
(* or a failed ALWAYS_ASSERT.                                              *)
(*                                                                         *)
(* The engine appears only as what it promises its callers: a transaction  *)
(* reads the rows committed before it began together with its own writes,  *)
(* and the first updater of a row wins.  How the engine keeps that promise,*)
(* and where it does not, is the subject of Mvcc and Serial.  Because all  *)
(* reads are of one snapshot, a transaction's writes follow from its       *)
(* inputs and the snapshot; a benchmark defines them as a sequence of      *)
(* calls, and each call is a step here.                                    *)
(*                                                                         *)
(* A row is named <<table, key fields...>>; db maps the names of the rows  *)
(* that exist to their values.                                             *)
(***************************************************************************)
EXTENDS Integers, Sequences, FiniteSets, TLC, SequencesExt, FiniteSetsExt

CONSTANT Workers          \* the benchmark threads

VARIABLES
    db,                   \* the committed rows
    ses,                  \* per worker: its transaction object and what is left to call
    lock,                 \* g_partition_locks: the worker inside, or 0
    dead,                 \* the ALWAYS_ASSERT that ended the process, or "none"
    left,                 \* how many more attempts the workers make (bound)
    opts                  \* the command-line options of this run

Put(k, v) == [call |-> "put", key |-> k, val |-> <<v>>]
Insert(k, v) == [call |-> "insert", key |-> k, val |-> <<v>>]
Delete(k) == [call |-> "put", key |-> k, val |-> <<>>]
\* A user abort (RC_ABORT_USER) and a failing ALWAYS_ASSERT.
GiveUp == [call |-> "abort", key |-> <<>>, val |-> <<>>]
Die(why) == [call |-> "assert", key |-> <<why>>, val |-> <<>>]
\* An assignment to the worker's own memory between two calls.
Note(k, v) == [call |-> "note", key |-> k, val |-> <<v>>]

Idle == [at |-> "idle", txn |-> "none", in |-> <<>>, want |-> <<>>, snap |-> <<>>,
         todo |-> <<>>, wrote |-> <<>>, stale |-> {}]

\* The rows of table t whose key fields satisfy a scan's bounds are written
\* {k \in DOMAIN s : k[1] = t /\ ...}; the first one in key order of field n:
FirstBy(n, rows) == CHOOSE k \in rows : \A j \in rows : k[n] <= j[n]
LastBy(n, rows) == CHOOSE k \in rows : \A j \in rows : k[n] >= j[n]

Inside(w) == ses[w].at = "in"
Call(w) == Head(ses[w].todo)
Next1(w) == [ses[w] EXCEPT !.todo = Tail(@)]

\* new_txn: the snapshot is taken by the constructor, before any partition
\* lock is asked for.
BeginTxn(w, txn, in, locks) ==
    /\ dead = "none" /\ left > 0
    /\ ses' = [ses EXCEPT ![w] = [Idle EXCEPT !.at = "locking", !.txn = txn, !.in = in,
                                              !.want = locks, !.snap = db]]
    /\ left' = left - 1
    /\ UNCHANGED <<db, lock, dead, opts>>

\* scoped_multilock::multilock: one spinlock after the other.
TakeLock(w) ==
    /\ dead = "none"
    /\ ses[w].at = "locking" /\ ses[w].want # <<>>
    /\ lock[Head(ses[w].want)] = 0
    /\ lock' = [lock EXCEPT ![Head(ses[w].want)] = w]
    /\ ses' = [ses EXCEPT ![w].want = Tail(@)]
    /\ UNCHANGED <<db, dead, left, opts>>

\* The body starts: the calls it will make, given what it reads.
StartBody(w, calls) ==
    /\ dead = "none"
    /\ ses[w].at = "locking" /\ ses[w].want = <<>>
    /\ ses' = [ses EXCEPT ![w].at = "in", ![w].todo = calls]
    /\ UNCHANGED <<db, lock, dead, left, opts>>

Exists(w, k) == IF k \in DOMAIN ses[w].wrote THEN ses[w].wrote[k] # <<>>
                                             ELSE k \in DOMAIN ses[w].snap

\* First updater wins: the newest version is another's, uncommitted or
\* committed since this transaction began.
Conflict(w, k) == \/ k \in ses[w].stale
                  \/ \E v \in Workers \ {w} : k \in DOMAIN ses[v].wrote

\* do_tree_put: put and remove need a version the transaction can see; insert
\* creates the row, and behaves as put when the row is there already.
Refused(w, c) == Conflict(w, c.key) \/ (c.call = "put" /\ ~Exists(w, c.key))

\* The destructors of the scoped locks run when the function returns.
Unlocked(w) == [p \in DOMAIN lock |-> IF lock[p] = w THEN 0 ELSE lock[p]]

Write(w) ==
    /\ dead = "none" /\ Inside(w) /\ ses[w].todo # <<>>
    /\ Call(w).call \in {"put", "insert"}
    /\ ~Refused(w, Call(w))
    /\ ses' = [ses EXCEPT ![w] = [Next1(w) EXCEPT !.wrote = (Call(w).key :> Call(w).val) @@ @]]
    /\ UNCHANGED <<db, lock, dead, left, opts>>

\* __abort_txn, then the loop of my_work: with retry_aborted_transaction the
\* same inputs are used again, unless the abort was the user's.
AbortTxn(w) ==
    /\ dead = "none" /\ Inside(w)
    /\ \/ ses[w].todo # <<>> /\ Call(w).call = "abort"
       \/ ses[w].todo # <<>> /\ Call(w).call \in {"put", "insert"} /\ Refused(w, Call(w))
       \/ opts.serial            \* SSN, SSI and phantom protection may refuse any call
    /\ ses' = [ses EXCEPT ![w] =
                  IF opts.retry /\ (ses[w].todo # <<>> => Call(w).call # "abort")
                  THEN [Idle EXCEPT !.at = "retry", !.txn = ses[w].txn, !.in = ses[w].in]
                  ELSE Idle]
    /\ lock' = Unlocked(w)
    /\ UNCHANGED <<db, dead, left, opts>>

\* commit_txn succeeded: all writes at once; they are news to everyone inside.
Installed(w) == {k \in DOMAIN ses[w].wrote : ses[w].wrote[k] # <<>>}
CommitTxn(w) ==
    /\ dead = "none" /\ Inside(w) /\ ses[w].todo = <<>>
    /\ db' = [k \in (DOMAIN db \ DOMAIN ses[w].wrote) \cup Installed(w) |->
                 IF k \in Installed(w) THEN ses[w].wrote[k][1] ELSE db[k]]
    /\ ses' = [v \in Workers |->
                 IF v = w THEN Idle
                 ELSE IF ses[v].at \in {"locking", "in"}
                      THEN [ses[v] EXCEPT !.stale = @ \cup DOMAIN ses[w].wrote]
                      ELSE ses[v]]
    /\ lock' = Unlocked(w)
    /\ UNCHANGED <<dead, left, opts>>

\* A failed ALWAYS_ASSERT stops the process where it stands.
FailAssert(w) ==
    /\ dead = "none" /\ Inside(w) /\ ses[w].todo # <<>>
    /\ Call(w).call = "assert"
    /\ dead' = Call(w).key[1]
    /\ UNCHANGED <<db, ses, lock, left, opts>>
=============================================================================
