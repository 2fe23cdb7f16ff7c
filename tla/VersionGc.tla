------------------------------ MODULE VersionGc ------------------------------
(***************************************************************************)
(* Version memory and its garbage collection (dbcore/sm-alloc.cpp): when   *)
(* an epoch is reclaimed its begin LSN becomes a trim point two epochs     *)
(* later, the daemon cuts the version chains named on the recycle list     *)
(* behind the first version older than the trim point, and the memory goes *)
(* back to the workers.  A version that an aborting transaction unlinks    *)
(* goes to a list of its thread, and is reused four epochs later.          *)
(*                                                                         *)
(* The workers run transactions on one row, reduced to what the collector  *)
(* can see: an epoch, a snapshot, a walk down the chain, one new version.  *)
(* The epoch manager is EpochService, which EpochMgr implements.           *)
(***************************************************************************)
EXTENDS EpochService, Sequences, FiniteSetsExt, Functions

CONSTANTS
    FirstEpoch, \* the epoch in which the run starts; the earlier ones are over
    MaxLsn,     \* bound: no transaction commits beyond this LSN
    MaxTxns,    \* bound: transactions started
    Objects,    \* version memory, a set of numbers
    CAPACITY,   \* of an object_list
    Loaded      \* the epochs, before the first, in which the row was written

ASSUME FirstEpochAssumption ==
    MaxEpoch \in Nat /\ FirstEpoch \in Nat /\ FirstEpoch >= 6 /\ FirstEpoch <= MaxEpoch
ASSUME LoadedAssumption == Loaded # {} /\ Loaded \subseteq 1..FirstEpoch - 1
ASSUME ObjectsAssumption == Objects \subseteq Nat \ {0} /\ CAPACITY \in Nat \ {0}

VARIABLES
    lsn,        \* the tail of the log
    trim_lsn, safesnap_lsn,
    excl,       \* epoch_excl_begin_lsn
    rlsn,       \* epoch_reclaim_lsn
    head,       \* the row's entry in the OID array, 0 is NULL
    next,       \* object::_next
    clsn,       \* object::_clsn
    aepoch,     \* object::_alloc_epoch
    fresh,      \* memory the bump allocators have not handed out
    unlinked,   \* tls_unlinked_objects of each worker, newest first
    scavenged,  \* scavenged_object_lists of the daemon
    pool,       \* the object pool of each worker
    rlist,      \* recycle_oid_list: the node at its head, 0 is NULL
    link,       \* the _next of each node; a node is the LSN that put it there
    pc, begin, end,
    at,         \* the version a worker stands on
    mine,       \* the version it has installed
    succ,       \* succ_head in recycle()
    gc,         \* the daemon: its next step and its locals
    written,    \* history: LSNs of the versions committed
    started     \* history: how many transactions have begun

lsns == <<lsn, trim_lsn, safesnap_lsn, excl, rlsn>>
chain == <<head, next, clsn, aepoch>>
memory == <<fresh, unlinked, scavenged, pool>>
nodes == <<rlist, link>>
worker == <<pc, begin, end, at, mine, succ>>
vars == <<svars, lsns, chain, memory, nodes, worker, gc, written, started>>

Null == 0       \* NULL_PTR in _clsn
Xid == -1       \* an XID in _clsn; any positive value is a log address
LogBlock == 2   \* the log a commit takes; snapshots fall between two blocks

EpochLsn(e) == LogBlock * (e - 1)

(* Each earlier epoch was closed by one commit; nothing is in flight.  Our *)
(* row was written by some of these, which left its chain and the recycle  *)
(* list; the others wrote rows outside the model.  Nothing is trimmed yet. *)
Old == {EpochLsn(e + 1) : e \in Loaded}
Before(c) == {d \in Old : d < c}
Object(c) == CHOOSE v \in Objects : Cardinality({u \in Objects : u < v}) = Cardinality(Before(c))
LsnOf(v) == CHOOSE c \in Old : Object(c) = v

Init ==
    /\ epoch = FirstEpoch
    /\ active = [t \in Threads |-> 0]
    /\ hold = [e \in Epochs |-> {}]
    /\ reclaimed = 1..FirstEpoch - 2
    /\ lsn = EpochLsn(FirstEpoch)
    /\ trim_lsn = EpochLsn(FirstEpoch - 4)
    /\ safesnap_lsn = EpochLsn(FirstEpoch - 1)
    /\ excl = [i \in 0..2 |-> EpochLsn(CHOOSE e \in FirstEpoch - 2..FirstEpoch : e % 3 = i)]
    /\ rlsn = [i \in 0..2 |-> LET e == CHOOSE e \in FirstEpoch - 4..FirstEpoch - 2 : e % 3 = i
                              IN IF e = FirstEpoch - 4 THEN 0 ELSE EpochLsn(e)]
    /\ LET used == {Object(c) : c \in Old} IN
          /\ head = Object(Max(Old))
          /\ clsn = [v \in Objects |-> IF v \in used THEN LsnOf(v) ELSE Null]
          /\ next = [v \in Objects |-> IF v \in used /\ Before(LsnOf(v)) # {}
                                       THEN Object(Max(Before(LsnOf(v)))) ELSE 0]
          /\ fresh = Objects \ used
    /\ aepoch = [v \in Objects |-> 0]
    /\ unlinked = [t \in Threads |-> <<>>]
    /\ scavenged = {} /\ pool = [t \in Threads |-> {}]
    /\ rlist = IF Cardinality(Old) = 1 THEN 0 ELSE Max(Old)
    /\ link = [c \in Old \ {Min(Old)} |-> IF Cardinality(Before(c)) = 1 THEN 0 ELSE Max(Before(c))]
    /\ pc = [t \in Threads |-> "idle"]
    /\ begin = [t \in Threads |-> 0] /\ end = [t \in Threads |-> 0]
    /\ at = [t \in Threads |-> 0] /\ mine = [t \in Threads |-> 0]
    /\ succ = [t \in Threads |-> 0]
    /\ gc = [pc |-> "wait", r |-> 0, prev |-> 0, nxt |-> 0, tlsn |-> 0, obj |-> 0, cur |-> 0]
    /\ written = Old
    /\ started = 0

Goto(t, l) == pc' = [pc EXCEPT ![t] = l]

-----------------------------------------------------------------------------
(* The transaction's constructor: an epoch first, then a snapshot. *)

Enter(t) ==
    /\ pc[t] = "idle" /\ started < MaxTxns
    /\ started' = started + 1
    /\ SEnter(t)
    /\ Goto(t, "begin")
    /\ UNCHANGED <<lsns, chain, memory, nodes, begin, end, at, mine, succ, gc, written>>

BeginLsn == lsn + 1

Begin(t) ==
    /\ pc[t] = "begin"
    /\ begin' = [begin EXCEPT ![t] = BeginLsn]
    /\ Goto(t, "run")
    /\ UNCHANGED <<svars, lsns, chain, memory, nodes, end, at, mine, succ, gc, written, started>>

(* oid_get_version(): from the head to the first version that is visible. *)
ReadHead(t) ==
    /\ pc[t] = "run" /\ at[t] = 0 /\ mine[t] = 0
    /\ at' = [at EXCEPT ![t] = head]
    /\ Goto(t, "walk")
    /\ UNCHANGED <<svars, lsns, chain, memory, nodes, begin, end, mine, succ, gc, written, started>>

Visible(t, v) == clsn[v] > 0 /\ clsn[v] <= begin[t]

Walk(t) ==
    /\ pc[t] = "walk"
    /\ \/ /\ at[t] = 0 \/ Visible(t, at[t])
          /\ Goto(t, "run") /\ at' = at
       \/ /\ at[t] # 0 /\ ~Visible(t, at[t])
          /\ at' = [at EXCEPT ![t] = IF clsn[@] = Null THEN head ELSE next[@]]
          /\ pc' = pc
    /\ UNCHANGED <<svars, lsns, chain, memory, nodes, begin, end, mine, succ, gc, written, started>>

(* allocate(): one of the worker's own unlinked versions, of the first     *)
(* five, that is old enough; a pooled version; or new memory.              *)
ROUNDS == 5
OldEnough(t, v) == active[t] >= 4 /\ aepoch[v] <= active[t] - 4

Reusable(t) == {i \in DOMAIN unlinked[t] : i <= ROUNDS /\ OldEnough(t, unlinked[t][i])}

Allocate(t, v) ==
    IF Reusable(t) # {}
    THEN LET i == Min(Reusable(t)) IN
         /\ v = unlinked[t][i]
         /\ unlinked' = [unlinked EXCEPT ![t] = SubSeq(@, i + 1, Len(@))]
         /\ UNCHANGED <<fresh, scavenged, pool>>
    ELSE /\ v = Min(IF pool[t] # {} THEN pool[t] ELSE fresh)
         /\ pool' = [pool EXCEPT ![t] = @ \ {v}]
         /\ fresh' = fresh \ {v}
         /\ UNCHANGED <<unlinked, scavenged>>

(* oid_put_update(), with create_tuple_object(): the first updater wins. *)
Update(t) ==
    /\ pc[t] = "run" /\ mine[t] = 0 /\ at[t] = 0
    /\ lsn < MaxLsn
    /\ clsn[head] > 0 /\ clsn[head] < begin[t]
    /\ Reusable(t) = {} /\ pool[t] = {} => fresh # {}
    /\ \E v \in Objects :
          /\ Allocate(t, v)
          /\ next' = [next EXCEPT ![v] = head]
          /\ clsn' = [clsn EXCEPT ![v] = Xid]
          /\ aepoch' = [aepoch EXCEPT ![v] = active[t]]
          /\ head' = v
          /\ mine' = [mine EXCEPT ![t] = v]
    /\ UNCHANGED <<svars, lsns, nodes, pc, begin, end, at, succ, gc, written, started>>

-----------------------------------------------------------------------------
(* Commit: the LSN, the stamp, then one exchange on the recycle list. *)

PreCommit(t) ==
    /\ pc[t] = "run"
    /\ lsn < MaxLsn
    /\ lsn' = lsn + LogBlock
    /\ end' = [end EXCEPT ![t] = lsn + LogBlock]
    /\ Goto(t, "post")
    /\ UNCHANGED <<svars, trim_lsn, safesnap_lsn, excl, rlsn, chain, memory, nodes, begin, at, mine, succ, gc, written, started>>

PostCommit(t) ==
    /\ pc[t] = "post"
    /\ IF mine[t] = 0
         THEN Goto(t, "exit") /\ UNCHANGED <<clsn, link, written, started>>
         ELSE /\ clsn' = [clsn EXCEPT ![mine[t]] = end[t]]
              /\ written' = written \cup {end[t]}
              /\ link' = [n \in DOMAIN link \cup {end[t]} |-> IF n = end[t] THEN 0 ELSE link[n]]
              /\ Goto(t, "recycle")
    /\ UNCHANGED <<svars, lsns, head, next, aepoch, memory, rlist, begin, end, at, mine,
                   succ, gc, started>>

RecycleSwap(t) ==
    /\ pc[t] = "recycle"
    /\ succ' = [succ EXCEPT ![t] = rlist]
    /\ rlist' = end[t]
    /\ Goto(t, "link")
    /\ UNCHANGED <<svars, lsns, chain, memory, link, begin, end, at, mine, gc, written, started>>

RecycleLink(t) ==
    /\ pc[t] = "link"
    /\ link' = [link EXCEPT ![end[t]] = succ[t]]
    /\ Goto(t, "exit")
    /\ succ' = [succ EXCEPT ![t] = 0]
    /\ UNCHANGED <<svars, lsns, chain, memory, rlist, begin, end, at, mine, gc, written, started>>

(* abort_impl(), before or after pre_commit(): unlink, clear, deallocate. *)
Abort(t) ==
    /\ pc[t] \in {"run", "post"}
    /\ IF mine[t] = 0 THEN Goto(t, "exit") /\ head' = head
                      ELSE Goto(t, "clear") /\ head' = next[mine[t]]
    /\ UNCHANGED <<svars, lsns, next, clsn, aepoch, memory, nodes, begin, end, at, mine,
                   succ, gc, written, started>>

AbortClear(t) ==
    /\ pc[t] = "clear"
    /\ clsn' = [clsn EXCEPT ![mine[t]] = Null]
    /\ Goto(t, "dealloc")
    /\ UNCHANGED <<svars, lsns, head, next, aepoch, memory, nodes, begin, end, at, mine,
                   succ, gc, written, started>>

Deallocate(t) ==
    /\ pc[t] = "dealloc"
    /\ next' = [next EXCEPT ![mine[t]] = IF unlinked[t] = <<>> THEN 0 ELSE Head(unlinked[t])]
    /\ unlinked' = [unlinked EXCEPT ![t] = <<mine[t]>> \o @]
    /\ Goto(t, "exit")
    /\ UNCHANGED <<svars, lsns, head, clsn, aepoch, fresh, scavenged, pool, nodes, begin, end,
                   at, mine, succ, gc, written, started>>

-----------------------------------------------------------------------------
(* epoch_exit() and the callbacks of the epoch manager. *)

(* Enough has been allocated: note the LSN and try to open an epoch. *)
ExitMark(t) ==
    /\ pc[t] = "exit" /\ end[t] # 0
    /\ excl' = [excl EXCEPT ![(active[t] + 1) % 3] = end[t]]
    /\ Goto(t, "open")
    /\ UNCHANGED <<svars, lsn, trim_lsn, safesnap_lsn, rlsn, chain, memory, nodes, begin, end,
                   at, mine, succ, gc, written, started>>

ExitOpen(t) ==
    /\ pc[t] = "open"
    /\ SOpen
    /\ Goto(t, "leave")
    /\ UNCHANGED <<lsns, chain, memory, nodes, begin, end, at, mine, succ, gc, written, started>>

Exit(t) ==
    /\ pc[t] \in {"exit", "open", "leave"}
    /\ SExit(t)
    /\ Goto(t, "idle")
    /\ begin' = [begin EXCEPT ![t] = 0] /\ end' = [end EXCEPT ![t] = 0]
    /\ at' = [at EXCEPT ![t] = 0] /\ mine' = [mine EXCEPT ![t] = 0]
    /\ UNCHANGED <<lsns, chain, memory, nodes, succ, gc, written, started>>

MutTrimSlot(e) == (e - 1) % 3
TrimSlot(e) == (e - 2) % 3

Reclaim(e) ==
    /\ SReclaim(e)
    /\ IF excl[e % 3] = 0
         THEN UNCHANGED <<trim_lsn, safesnap_lsn, rlsn, gc>>
         ELSE LET r == [rlsn EXCEPT ![e % 3] = excl[e % 3]] IN
              /\ safesnap_lsn' = Max({safesnap_lsn, excl[(e + 1) % 3]})
              /\ trim_lsn' = r[TrimSlot(e)]
              /\ rlsn' = [r EXCEPT ![TrimSlot(e)] = 0]
              /\ gc' = [gc EXCEPT !.pc = IF @ = "wait" THEN "woken" ELSE @]
    /\ UNCHANGED <<lsn, excl, chain, memory, nodes, worker, written, started>>

-----------------------------------------------------------------------------
(* gc_daemon() *)

gcIdle == <<svars, lsns, memory, worker, written, started>>

(* Woken, it starts behind the head of the list. *)
GcWake ==
    /\ gc.pc = "woken"
    /\ gc' = IF rlist = 0 \/ link[rlist] = 0
               THEN [gc EXCEPT !.pc = "wait"]
               ELSE [gc EXCEPT !.pc = "node", !.prev = rlist, !.r = link[rlist]]
    /\ UNCHANGED <<gcIdle, chain, nodes>>

GcNode ==
    /\ gc.pc = "node"
    /\ gc' = IF trim_lsn = 0 \/ gc.r = 0
               THEN [gc EXCEPT !.pc = "wait", !.r = 0, !.prev = 0, !.nxt = 0, !.tlsn = 0]
               ELSE [gc EXCEPT !.pc = "first", !.tlsn = trim_lsn, !.nxt = link[gc.r], !.obj = head]
    /\ UNCHANGED <<gcIdle, chain, nodes>>

(* The head of the chain may be in flight; then start from the next one. *)
GcFirst ==
    /\ gc.pc = "first"
    /\ gc' = [gc EXCEPT !.pc = IF clsn[gc.obj] = Xid THEN "second" ELSE "walk"]
    /\ UNCHANGED <<gcIdle, chain, nodes>>

GcSecond ==
    /\ gc.pc = "second"
    /\ gc' = [gc EXCEPT !.pc = "walk", !.obj = next[@]]
    /\ UNCHANGED <<gcIdle, chain, nodes>>

(* The versions that next leads to from v, v included. *)
ReachFrom(v) ==
    LET r[n \in 0..Cardinality(Objects)] ==
            IF n = 0 THEN {v} \ {0} ELSE r[n - 1] \cup ({next[u] : u \in r[n - 1]} \ {0})
    IN r[Cardinality(Objects)]

(* Behind the first committed version only the daemon writes the chain, so *)
(* its walk to the version to keep, the first one no newer than the trim   *)
(* point, is one step.  A version that is not committed sends it back.     *)
MutKept == {v \in {gc.obj} \cup ReachFrom(next[gc.obj]) : clsn[v] > gc.tlsn}
Kept == {v \in ReachFrom(next[gc.obj]) : clsn[v] <= gc.tlsn}

GcWalk ==
    /\ gc.pc = "walk" /\ gc.obj # 0
    /\ LET kept == CHOOSE v \in Kept : \A u \in Kept : clsn[u] <= clsn[v] IN
       gc' = IF next[gc.obj] = 0 THEN [gc EXCEPT !.pc = "drop"]
             ELSE IF \E v \in ReachFrom(next[gc.obj]) : clsn[v] <= 0
             THEN [gc EXCEPT !.pc = "first", !.obj = head, !.nxt = link[gc.r]]
             ELSE IF Kept = {} \/ next[kept] = 0 THEN [gc EXCEPT !.pc = "pass"]
             ELSE [gc EXCEPT !.pc = "cut", !.obj = kept, !.cur = next[kept]]
    /\ UNCHANGED <<gcIdle, chain, nodes>>

(* What lies behind it is cut off. *)
GcCut ==
    /\ gc.pc = "cut"
    /\ next' = [next EXCEPT ![gc.obj] = 0]
    /\ gc' = [gc EXCEPT !.pc = "put"]
    /\ UNCHANGED <<gcIdle, head, clsn, aepoch, nodes>>

(* put() clears _next before the loop reads it: one version is scavenged,  *)
(* whatever hung behind it is lost.  A full list goes to a worker's pool.  *)
GcPut ==
    /\ gc.pc = "put"
    /\ next' = [next EXCEPT ![gc.cur] = 0]
    /\ IF Cardinality(scavenged) < CAPACITY
         THEN scavenged' = scavenged \cup {gc.cur} /\ pool' = pool
         ELSE /\ scavenged' = {gc.cur}
              /\ \E t \in Threads : pool' = [pool EXCEPT ![t] = @ \cup scavenged]
    /\ gc' = [gc EXCEPT !.pc = "drop"]
    /\ UNCHANGED <<svars, lsns, head, clsn, aepoch, fresh, unlinked, nodes, worker, written, started>>

(* The node is detached, or passed over. *)
GcDrop ==
    /\ gc.pc = "drop"
    /\ link' = [link EXCEPT ![gc.prev] = gc.nxt]
    /\ gc' = [gc EXCEPT !.pc = "node", !.r = gc.nxt, !.obj = 0, !.cur = 0]
    /\ UNCHANGED <<gcIdle, chain, rlist>>

GcPass ==
    /\ gc.pc = "pass"
    /\ gc' = [gc EXCEPT !.pc = "node", !.prev = gc.r, !.r = gc.nxt, !.obj = 0, !.cur = 0]
    /\ UNCHANGED <<gcIdle, chain, nodes>>

-----------------------------------------------------------------------------

Work(t) ==
    \/ Enter(t) \/ Begin(t) \/ ReadHead(t) \/ Walk(t) \/ Update(t)
    \/ PreCommit(t) \/ PostCommit(t) \/ RecycleSwap(t) \/ RecycleLink(t)
    \/ Abort(t) \/ AbortClear(t) \/ Deallocate(t)
    \/ ExitMark(t) \/ ExitOpen(t) \/ Exit(t)
Collect == GcWake \/ GcNode \/ GcFirst \/ GcSecond \/ GcWalk \/ GcCut \/ GcPut
           \/ GcDrop \/ GcPass

Next == (\E t \in Threads : Work(t)) \/ (\E e \in Epochs : Reclaim(e)) \/ Collect

Spec == Init /\ [][Next]_vars

-----------------------------------------------------------------------------
(* Properties *)

TypeOK ==
    /\ epoch \in Epochs /\ reclaimed \subseteq Epochs
    /\ active \in [Threads -> 0..MaxEpoch]
    /\ {lsn, trim_lsn, safesnap_lsn} \cup Range(excl) \cup Range(rlsn) \subseteq 0..MaxLsn
    /\ head \in Objects /\ next \in [Objects -> Objects \cup {0}]
    /\ clsn \in [Objects -> {Xid, Null} \cup 1..MaxLsn] /\ aepoch \in [Objects -> 0..MaxEpoch]
    /\ fresh \cup scavenged \cup UNION Range(pool) \subseteq Objects
    /\ {rlist} \cup Range(link) \cup Range(succ) \subseteq {0} \cup written
    /\ begin \in [Threads -> 0..MaxLsn + 1] /\ end \in [Threads -> 0..MaxLsn]
    /\ at \in [Threads -> Objects \cup {0}] /\ mine \in [Threads -> Objects \cup {0}]

Running(t) == pc[t] \in {"run", "walk", "post"}

(* The version of the snapshot: the last one committed at or before it. *)
Snapshot(t) == Max({c \in written : c <= begin[t]})

(* gc_daemon() keeps one version behind the trim point: the version that a  *)
(* running transaction's snapshot needs stays in the chain as long as the   *)
(* transaction runs, whatever the daemon cuts meanwhile.                    *)
VisibleKept ==
    \A t \in Threads :
        Running(t) => \E v \in ReachFrom(head) : clsn[v] = Snapshot(t)

(* No version that a worker stands on is in the hands of an allocator.      *)
NoReaderOnTrimmed ==
    \A t \in Threads :
        at[t] \notin scavenged \cup UNION Range(pool)

(* trim_lsn, set from an epoch that ended two reclaimed epochs earlier, is  *)
(* older than the snapshot of every transaction in flight.                  *)
TrimBehind ==
    \A t \in Threads : begin[t] # 0 => trim_lsn < begin[t]

(* The chain, the lists and the stamps stay in their ranges, and no worker *)
(* stands on a version that an allocator owns.                             *)
GcSound == TypeOK /\ NoReaderOnTrimmed
=============================================================================
