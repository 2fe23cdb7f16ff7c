------------------------------ MODULE LogAlloc ------------------------------
(***************************************************************************)
(* The log buffer of dbcore/sm-log-alloc.cpp and the threads that use it.  *)
(*                                                                         *)
(* A worker reserves a range of LSN offsets with one fetch-and-add, waits  *)
(* until the range lies in the buffer window, fills it, and announces it   *)
(* in its own slot of _tls_lsn_offset.  The write daemon flushes up to the *)
(* smallest announced offset.  Between tasks a worker makes its log        *)
(* durable and clears its slot (sm_thread::idle_task()).                   *)
(*                                                                         *)
(* Offsets count bytes; the mapping to segments is not modelled here, so   *)
(* buffer offsets and LSN offsets coincide.  _write_daemon_mutex is held   *)
(* by the daemon between its steps at the labels DaemonLocks; the critical *)
(* sections of the workers are single steps.                               *)
(***************************************************************************)
EXTENDS Integers, FiniteSets

CONSTANTS
    Threads,    \* worker threads
    Sizes,      \* sizes of log blocks
    Window,     \* size of the log buffer
    Waits,      \* workers also call wait_for_durable()
    MaxTasks,   \* bound: tasks given to each worker
    MaxBlocks   \* bound: log blocks of each worker

ASSUME ThreadsAssumption == IsFiniteSet(Threads)
ASSUME SizesAssumption == Sizes \subseteq Nat \ {0}
ASSUME WindowAssumption == Window \in Nat \ {0} /\ \A n \in Sizes : n <= Window
ASSUME WaitsAssumption == Waits \in BOOLEAN
ASSUME BoundsAssumption == MaxTasks \in Nat /\ MaxBlocks \in Nat

VARIABLES
    lsn,        \* _lsn_offset: the end of the log
    durable,    \* _durable_flushed_lsn_offset, where the buffer's read window begins
    dmark,      \* the durable mark on disk
    tls,        \* _tls_lsn_offset of each thread, 0 if it has nothing in the log
    dstate,     \* _write_daemon_state: the flags that are set
    wdurable,   \* _waiting_for_durable
    wdmark,     \* _waiting_for_dmark
    wake,       \* _write_daemon_should_wake
    pc,         \* next step of each thread
    off,        \* start of the block the thread has reserved, 0 if there is none
    len,        \* its size, 0 if there is none
    tasks,      \* bound: tasks left
    blocks,     \* bound: blocks left
    dpc,        \* next step of the daemon
    target,     \* new_dlsn_offset, as far as it is known, 0 once it is flushed
    scan        \* threads whose slot smallest_tls_lsn_offset() has yet to read

log == <<lsn, durable, dmark>>
flags == <<dstate, wdurable, wdmark, wake>>
block == <<off, len>>
bounds == <<tasks, blocks>>
daemon == <<dpc, target, scan>>
vars == <<log, tls, flags, pc, block, bounds, daemon>>

HasWork == "HAS_WORK"
Sleeping == "SLEEPING"

Init ==
    /\ lsn = 0 /\ durable = 0 /\ dmark = 0
    /\ tls = [t \in Threads |-> 0]
    /\ dstate = {} /\ wdurable = FALSE /\ wdmark = FALSE /\ wake = FALSE
    /\ pc = [t \in Threads |-> "idle"]
    /\ off = [t \in Threads |-> 0]
    /\ len = [t \in Threads |-> 0]
    /\ tasks = [t \in Threads |-> MaxTasks]
    /\ blocks = [t \in Threads |-> MaxBlocks]
    /\ dpc = "start" /\ target = 0 /\ scan = {}

Goto(t, label) == pc' = [pc EXCEPT ![t] = label]

(* The daemon keeps _write_daemon_mutex from the end of a round until it   *)
(* sleeps or starts the next one.                                          *)
DaemonLocks == {"test", "or", "nevermind", "clear"}
MutexFree == dpc \notin DaemonLocks

(* _kick_log_write_daemon(): the signal reaches a daemon at "wait". *)
Kick == wake' = TRUE

-----------------------------------------------------------------------------
(* allocate() *)

(* Step 1, the fetch-and-add. *)
Allocate(t, n) ==
    /\ pc[t] = "task" /\ blocks[t] > 0
    /\ off' = [off EXCEPT ![t] = lsn]
    /\ len' = [len EXCEPT ![t] = n]
    /\ lsn' = lsn + n
    /\ blocks' = [blocks EXCEPT ![t] = @ - 1]
    /\ Goto(t, "grab")
    /\ UNCHANGED <<durable, dmark, tls, flags, tasks, daemon>>

(* write_buf(): the block ends inside the window. *)
MutFits(t) == off[t] <= durable + Window
Fits(t) == off[t] + len[t] <= durable + Window

(* write_buf() throws if the daemon has passed the block already. *)
GrabBuffer(t) ==
    /\ pc[t] = "grab"
    /\ Goto(t, IF off[t] < durable THEN "thrown" ELSE IF Fits(t) THEN "fill" ELSE "full")
    /\ UNCHANGED <<log, tls, flags, block, bounds, daemon>>

AwaitSpace(t) ==
    /\ pc[t] = "full" /\ MutexFree
    /\ wdurable' = TRUE /\ Kick
    /\ Goto(t, "space")
    /\ UNCHANGED <<log, tls, dstate, wdmark, block, bounds, daemon>>

-----------------------------------------------------------------------------
(* release(), and discard() which releases an empty block *)

(* The slot takes the end of the block. *)
Release(t) ==
    /\ pc[t] = "fill"
    /\ tls' = [tls EXCEPT ![t] = off[t] + len[t]]
    /\ off' = [off EXCEPT ![t] = 0]
    /\ len' = [len EXCEPT ![t] = 0]
    /\ Goto(t, "released")
    /\ UNCHANGED <<log, flags, bounds, daemon>>

HalfFull == lsn - durable >= Window \div 2

ShouldKick(t) ==
    /\ pc[t] = "released"
    /\ Goto(t, IF HalfFull /\ HasWork \notin dstate THEN "announce" ELSE "task")
    /\ UNCHANGED <<log, tls, flags, block, bounds, daemon>>

Announce(t) ==
    /\ pc[t] = "announce"
    /\ dstate' = dstate \cup {HasWork}
    /\ Goto(t, IF dstate = {Sleeping} THEN "kick" ELSE "task")
    /\ UNCHANGED <<log, tls, wdurable, wdmark, wake, block, bounds, daemon>>

KickDaemon(t) ==
    /\ pc[t] = "kick" /\ MutexFree
    /\ Kick
    /\ Goto(t, "task")
    /\ UNCHANGED <<log, tls, dstate, wdurable, wdmark, block, bounds, daemon>>

-----------------------------------------------------------------------------
(* wait_for_durable() of what the thread has logged *)

WaitForDurable(t) ==
    /\ Waits /\ pc[t] = "task" /\ durable < tls[t]
    /\ Goto(t, "recheck")
    /\ UNCHANGED <<log, tls, flags, block, bounds, daemon>>

Recheck(t) ==
    /\ pc[t] = "recheck" /\ MutexFree
    /\ wdurable' = (wdurable \/ durable < tls[t])
    /\ Goto(t, IF durable < tls[t] THEN "durable" ELSE "task")
    /\ UNCHANGED <<log, tls, dstate, wdmark, wake, block, bounds, daemon>>

-----------------------------------------------------------------------------
(* sm_thread::idle_task(): the task, and what follows it *)

TaskBegins(t) ==
    /\ pc[t] = "idle" /\ tasks[t] > 0
    /\ tasks' = [tasks EXCEPT ![t] = @ - 1]
    /\ Goto(t, "task")
    /\ UNCHANGED <<log, tls, flags, block, blocks, daemon>>

TaskEnds(t) ==
    /\ pc[t] = "task"
    /\ Goto(t, "persist")
    /\ UNCHANGED <<log, tls, flags, block, bounds, daemon>>

MutCleared(t) == tls[t]
Cleared(t) == 0

(* The loop is over: "clear thread as if did nothing!" *)
ClearSlot(t) ==
    /\ pc[t] = "persist" /\ durable >= tls[t]
    /\ tls' = [tls EXCEPT ![t] = Cleared(t)]
    /\ Goto(t, "idle")
    /\ UNCHANGED <<log, flags, block, bounds, daemon>>

(* flush() *)
Flush(t) ==
    /\ pc[t] = "persist" /\ durable < tls[t] /\ MutexFree
    /\ wdmark' = TRUE
    /\ dstate' = dstate \cup {HasWork}
    /\ Kick
    /\ Goto(t, "dmark")
    /\ UNCHANGED <<log, tls, wdurable, block, bounds, daemon>>

-----------------------------------------------------------------------------
(* _log_write_daemon() *)

DGoto(label) == dpc' = label

(* smallest_tls_lsn_offset(): the end of the log, then slot after slot. *)
ReadCur ==
    /\ dpc = "start"
    /\ target' = lsn /\ scan' = Threads
    /\ DGoto("scan")
    /\ UNCHANGED <<log, tls, flags, pc, block, bounds>>

MutSmaller(t) == FALSE
Smaller(t) == tls[t] # 0 /\ tls[t] < target

ReadSlot(t) ==
    /\ dpc = "scan" /\ t \in scan
    /\ target' = IF Smaller(t) THEN tls[t] ELSE target
    /\ scan' = scan \ {t}
    /\ UNCHANGED <<log, tls, flags, pc, block, bounds, dpc>>

(* flush_log_buffer(): write out, and give the space back to the writers. *)
FlushBuffer ==
    /\ dpc = "scan" /\ scan = {}
    /\ durable' = IF durable < target THEN target ELSE durable
    /\ target' = 0
    /\ DGoto("round")
    /\ UNCHANGED <<lsn, dmark, tls, flags, pc, block, bounds, scan>>

(* DURABLE_MARK_TIMEOUT_NS <= (last_dmark - now) in unsigned arithmetic:   *)
(* now is later than last_dmark, so the difference wraps around to a huge  *)
(* number and every round counts as timed out.                             *)
Timeout == TRUE

(* The waiters that a broadcast releases. *)
Woken(t) ==
    CASE wdurable /\ pc[t] = "space" -> "grab"
      [] wdurable /\ pc[t] = "durable" -> "recheck"
      [] wdmark /\ pc[t] = "dmark" -> "persist"
      [] OTHER -> pc[t]

EndRound ==
    /\ dpc = "round"
    /\ pc' = [t \in Threads |-> Woken(t)]
    /\ wdurable' = FALSE /\ wdmark' = FALSE
    /\ dmark' = IF dmark < durable /\ Timeout THEN durable ELSE dmark
    /\ DGoto("test")
    /\ UNCHANGED <<lsn, durable, tls, dstate, wake, block, bounds, target, scan>>

TestWork ==
    /\ dpc = "test"
    /\ DGoto(IF HasWork \in dstate THEN "clear" ELSE "or")
    /\ UNCHANGED <<log, tls, flags, pc, block, bounds, target, scan>>

FallAsleep ==
    /\ dpc = "or"
    /\ dstate' = dstate \cup {Sleeping}
    /\ DGoto(IF HasWork \in dstate \/ wake THEN "nevermind" ELSE "wait")
    /\ UNCHANGED <<log, tls, wdurable, wdmark, wake, pc, block, bounds, target, scan>>

NeverMind ==
    /\ dpc = "nevermind"
    /\ dstate' = {HasWork} /\ wake' = FALSE
    /\ DGoto("test")
    /\ UNCHANGED <<log, tls, wdurable, wdmark, pc, block, bounds, target, scan>>

(* timedwait() returns, by a signal or after five seconds. *)
WakeUp ==
    /\ dpc = "wait"
    /\ wake' = FALSE
    /\ DGoto("test")
    /\ UNCHANGED <<log, tls, dstate, wdurable, wdmark, pc, block, bounds, target, scan>>

ClearState ==
    /\ dpc = "clear"
    /\ dstate' = {}
    /\ DGoto("start")
    /\ UNCHANGED <<log, tls, wdurable, wdmark, wake, pc, block, bounds, target, scan>>

-----------------------------------------------------------------------------
Continue(t) ==
    \/ GrabBuffer(t) \/ AwaitSpace(t) \/ Release(t) \/ ShouldKick(t) \/ Announce(t)
    \/ KickDaemon(t) \/ Recheck(t) \/ ClearSlot(t) \/ Flush(t)
Worker(t) ==
    \/ Continue(t) \/ TaskBegins(t) \/ TaskEnds(t) \/ WaitForDurable(t)
    \/ \E n \in Sizes : Allocate(t, n)
Daemon ==
    \/ ReadCur \/ (\E t \in Threads : ReadSlot(t)) \/ FlushBuffer \/ EndRound
    \/ TestWork \/ FallAsleep \/ NeverMind \/ WakeUp \/ ClearState

Next == Daemon \/ \E t \in Threads : Worker(t)

Spec == Init /\ [][Next]_vars

(* Every thread is scheduled again and again, and tasks end.  Strong       *)
(* fairness for the steps that take the mutex: the daemon leaves it free   *)
(* for five seconds at a time while it sleeps.                             *)
FairSpec ==
    /\ Spec
    /\ WF_vars(Daemon)
    /\ \A t \in Threads : SF_vars(Continue(t)) /\ WF_vars(TaskEnds(t))

-----------------------------------------------------------------------------
Labels == {"idle", "task", "grab", "full", "space", "fill", "released", "announce",
           "kick", "recheck", "durable", "persist", "dmark", "thrown"}
Reserved(t) == len[t] # 0

(* Every variable has its type, and a thread has a block of the log from   *)
(* the fetch-and-add of allocate() to its release().                       *)
TypeOK ==
    /\ lsn \in Nat /\ durable \in Nat /\ dmark \in Nat
    /\ tls \in [Threads -> Nat]
    /\ dstate \subseteq {HasWork, Sleeping}
    /\ wdurable \in BOOLEAN /\ wdmark \in BOOLEAN /\ wake \in BOOLEAN
    /\ pc \in [Threads -> Labels]
    /\ off \in [Threads -> Nat] /\ len \in [Threads -> Nat]
    /\ tasks \in [Threads -> Nat] /\ blocks \in [Threads -> Nat]
    /\ dpc \in DaemonLocks \cup {"start", "scan", "round", "wait"}
    /\ target \in Nat /\ scan \subseteq Threads
    /\ \A t \in Threads : Reserved(t) <=> pc[t] \in {"grab", "full", "space", "fill", "thrown"}

(* The daemon never flushes past a block in the hands of a thread that has *)
(* an offset in its slot of _tls_lsn_offset: whatever the order of its     *)
(* reads of the slots and the threads' fetch-and-adds and releases, the    *)
(* smallest offset it finds lies before every such block.                  *)
FlushStopsAtBlock == \A t \in Threads : Reserved(t) /\ tls[t] # 0 => durable <= off[t]

(* Blocks in the buffer never overlap: what is being filled lies within    *)
(* one window of the durable end, and is not the space of a block that the *)
(* daemon has still to write (write_buf(), advance_reader()).              *)
FillInWindow ==
    \A t \in Threads : pc[t] = "fill" => off[t] + len[t] <= durable + Window

(* flush_log_buffer() starts from the durable mark on disk, and asserts    *)
(* that it is where the last round ended.                                  *)
MarkInStep == dpc \in {"start", "scan"} => dmark = durable

(* Every task ends, unless a thread waits for ever inside one, for space   *)
(* in the buffer or for a block to be durable: the flush loop of           *)
(* idle_task() terminates although flush() only reaches the smallest       *)
(* offset of all threads.  (A thread that write_buf() throws out is the    *)
(* subject of OnlyReleasedFlushed.)                                        *)
TasksEnd ==
    (\A t \in Threads : []<>(pc[t] \notin {"grab", "full", "space", "recheck", "durable"})) =>
        \A t \in Threads : pc[t] # "idle" ~> pc[t] \in {"idle", "thrown"}

-----------------------------------------------------------------------------
(* What a comment promises and the code does not keep. *)

(* "This guy's only job is to write released log blocks to disk": nothing  *)
(* below the durable offset is still in a thread's hands.                  *)
OnlyReleasedFlushed == \A t \in Threads : Reserved(t) => durable <= off[t]
=============================================================================
