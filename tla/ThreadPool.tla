----------------------------- MODULE ThreadPool -----------------------------
(***************************************************************************)
(* The pool of worker threads (dbcore/sm-thread.h, sm-thread.cpp): runners *)
(* claim a worker from the bitmap of their node, hand it a task through    *)
(* the worker's state word, join it and put it back.  Workers sleep on a   *)
(* condition variable between tasks; a wakeup may be lost or spurious.     *)
(*                                                                         *)
(* What a task does before it ends, and the flush that follows it, is in   *)
(* LogAlloc (TaskEnds, ClearSlot).  destroy() has no caller.               *)
(***************************************************************************)
EXTENDS Integers, FiniteSets

CONSTANTS
    Runners,    \* threads that own sm_runner objects
    NThreads,   \* sysconf::max_threads_per_node
    MaxJobs     \* bound: tasks of all runners

ASSUME PoolAssumption == NThreads \in Nat \ {0}
ASSUME BoundAssumption == MaxJobs \in Nat

VARIABLES
    busy,       \* node_thread_pool::bitmap, the workers whose bit is set
    state,      \* sm_thread::state
    task,       \* sm_thread::task and task_input: a job, 0 before the first
    wpc,        \* next step of each worker
    rpc,        \* next step of each runner
    seen,       \* the bitmap a runner has read, {} outside get_thread()
    me,         \* sm_runner::me, NThreads for nullptr
    job,        \* sm_runner::my_work: the job of each runner
    jobs,       \* bound: jobs begun
    done        \* history: jobs that have run to their end

pool == <<busy, seen, me, job, jobs>>
pvars == <<pool, state, task, wpc, rpc, done>>

Workers == 0..NThreads - 1
NoWorker == NThreads

PoolInit ==
    /\ busy = {}
    /\ state = [w \in Workers |-> "NoWork"]
    /\ task = [w \in Workers |-> 0]
    /\ wpc = [w \in Workers |-> "loop"]
    /\ rpc = [r \in Runners |-> "free"]
    /\ seen = [r \in Runners |-> {}]
    /\ me = [r \in Runners |-> NoWorker]
    /\ job = [r \in Runners |-> 0] /\ jobs = 0
    /\ done = {}

RGoto(r, label) == rpc' = [rpc EXCEPT ![r] = label]
WGoto(w, label) == wpc' = [wpc EXCEPT ![w] = label]
(* The next task of runner r, while the bound allows one. *)
NewJob(r) == jobs < MaxJobs /\ jobs' = jobs + 1 /\ job' = [job EXCEPT ![r] = jobs + 1]
SetState(w, s) == state' = [state EXCEPT ![w] = s]

-----------------------------------------------------------------------------
(* Runners *)

(* try_impersonate(), get_thread(): nullptr when every worker is busy *)
ReadBitmap(r) ==
    /\ rpc[r] = "free" /\ jobs < MaxJobs
    /\ IF Workers \subseteq busy
         THEN UNCHANGED <<seen, rpc>>
         ELSE seen' = [seen EXCEPT ![r] = busy] /\ RGoto(r, "claim")
    /\ UNCHANGED <<busy, me, job, jobs, state, task, wpc, done>>

SameBitmap(r) == busy = seen[r]

ClaimThread(r) ==
    /\ rpc[r] = "claim"
    /\ IF SameBitmap(r)
         THEN \E pos \in Workers \ seen[r] :
                /\ \A w \in Workers \ seen[r] : pos <= w
                /\ busy' = busy \cup {pos}
                /\ me' = [me EXCEPT ![r] = pos]
                /\ NewJob(r)
                /\ RGoto(r, "task")
         ELSE RGoto(r, "free") /\ UNCHANGED <<busy, me, job, jobs>>
    /\ seen' = [seen EXCEPT ![r] = {}]
    /\ UNCHANGED <<state, task, wpc, done>>

(* start_task(): the task first ... *)
SetTask(r) ==
    /\ rpc[r] = "task"
    /\ task' = [task EXCEPT ![me[r]] = job[r]]
    /\ RGoto(r, "start")
    /\ UNCHANGED <<pool, state, wpc, done>>

(* ... then a compare and swap of the state; HasWork fails ALWAYS_ASSERT *)
StartTask(r) ==
    /\ rpc[r] = "start"
    /\ IF state[me[r]] = "NoWork" THEN SetState(me[r], "HasWork") ELSE UNCHANGED state
    /\ RGoto(r, CASE state[me[r]] = "NoWork" -> "join"
                 [] state[me[r]] = "Sleep" -> "notify"
                 [] state[me[r]] = "HasWork" -> "assert")
    /\ UNCHANGED <<pool, task, wpc, done>>

(* Notify until the worker is up; a worker not yet waiting misses it. *)
NotifyAll(r) ==
    /\ rpc[r] = "notify"
    /\ IF state[me[r]] # "NoWork"
         THEN /\ wpc' = [w \in Workers |-> IF w = me[r] /\ wpc[w] = "wait" THEN "woken" ELSE wpc[w]]
              /\ UNCHANGED rpc
         ELSE RGoto(r, "give") /\ UNCHANGED wpc
    /\ UNCHANGED <<pool, state, task, done>>

GiveWork(r) ==
    /\ rpc[r] = "give"
    /\ SetState(me[r], "HasWork")
    /\ RGoto(r, "join")
    /\ UNCHANGED <<pool, task, wpc, done>>

Joinable(r) == state[me[r]] # "HasWork"

(* join(), or a try_join() that succeeds *)
Join(r) ==
    /\ rpc[r] = "join" /\ Joinable(r)
    /\ RGoto(r, "put")
    /\ UNCHANGED <<pool, state, task, wpc, done>>

Forget(r) == me' = [me EXCEPT ![r] = NoWorker]

(* put_thread() *)
PutThread(r) ==
    /\ rpc[r] = "put"
    /\ busy' = busy \ {me[r]}
    /\ Forget(r)
    /\ job' = [job EXCEPT ![r] = 0]
    /\ RGoto(r, "free")
    /\ UNCHANGED <<seen, jobs, state, task, wpc, done>>

(* bench_runner::run() starts its next task on the worker it has joined. *)
StartAnother(r) ==
    /\ rpc[r] = "put" /\ NewJob(r)
    /\ RGoto(r, "task")
    /\ UNCHANGED <<busy, seen, me, state, task, wpc, done>>

-----------------------------------------------------------------------------
(* Workers: sm_thread::idle_task() *)

TestState(w) ==
    /\ wpc[w] = "loop"
    /\ WGoto(w, IF state[w] = "HasWork" THEN "run" ELSE "doze")
    /\ UNCHANGED <<pool, state, task, rpc, done>>

RunTask(w) ==
    /\ wpc[w] = "run"
    /\ done' = done \cup {task[w]}
    /\ WGoto(w, "finish")
    /\ UNCHANGED <<pool, state, task, rpc>>

MutFinish(w) ==
    wpc[w] = "finish" /\ WGoto(w, "loop") /\ UNCHANGED <<pool, state, task, rpc, done>>
Finish(w) ==
    /\ wpc[w] = "finish"
    /\ SetState(w, "NoWork") /\ WGoto(w, "doze")
    /\ UNCHANGED <<pool, task, rpc, done>>

MutMaySleep(w) == TRUE
MaySleep(w) == state[w] = "NoWork"

GoToSleep(w) ==
    /\ wpc[w] = "doze"
    /\ IF MaySleep(w) THEN SetState(w, "Sleep") /\ WGoto(w, "asleep")
                      ELSE WGoto(w, "loop") /\ UNCHANGED state
    /\ UNCHANGED <<pool, task, rpc, done>>

(* trigger.wait() gives up the lock and blocks, some time after the swap. *)
Wait(w) ==
    /\ wpc[w] = "asleep"
    /\ WGoto(w, "wait")
    /\ UNCHANGED <<pool, state, task, rpc, done>>

SpuriousWakeup(w) ==
    /\ wpc[w] = "wait"
    /\ WGoto(w, "woken")
    /\ UNCHANGED <<pool, state, task, rpc, done>>

MutAwake(w) ==
    wpc[w] = "woken" /\ WGoto(w, "wait") /\ UNCHANGED <<pool, state, task, rpc, done>>
Awake(w) ==
    /\ wpc[w] = "woken"
    /\ SetState(w, "NoWork") /\ WGoto(w, "spin")
    /\ UNCHANGED <<pool, task, rpc, done>>

SpinForWork(w) ==
    /\ wpc[w] = "spin" /\ state[w] = "HasWork"
    /\ WGoto(w, "loop")
    /\ UNCHANGED <<pool, state, task, rpc, done>>

Runner(r) ==
    \/ ReadBitmap(r) \/ ClaimThread(r) \/ SetTask(r) \/ StartTask(r)
    \/ NotifyAll(r) \/ GiveWork(r) \/ Join(r) \/ PutThread(r) \/ StartAnother(r)

PoolWorker(w) ==
    \/ TestState(w) \/ RunTask(w) \/ Finish(w) \/ GoToSleep(w) \/ Wait(w)
    \/ Awake(w) \/ SpinForWork(w)

PoolNext ==
    \/ \E r \in Runners : Runner(r)
    \/ \E w \in Workers : PoolWorker(w) \/ SpuriousWakeup(w)

PoolSpec == PoolInit /\ [][PoolNext]_pvars

(* Every thread is scheduled; nothing obliges a condition variable to wake  *)
(* up by itself.                                                            *)
PoolFairSpec ==
    /\ PoolSpec
    /\ \A r \in Runners : WF_pvars(Runner(r))
    /\ \A w \in Workers : WF_pvars(PoolWorker(w))

-----------------------------------------------------------------------------
(* Every variable has its type; a runner has a worker from claim to put. *)
PoolTypeOK ==
    /\ busy \subseteq Workers
    /\ state \in [Workers -> {"NoWork", "HasWork", "Sleep"}]
    /\ task \in [Workers -> 0..MaxJobs]
    /\ wpc \in [Workers -> {"loop", "run", "finish", "doze", "asleep", "wait", "woken", "spin"}]
    /\ rpc \in [Runners -> {"free", "claim", "task", "start", "notify", "give", "join", "put", "assert"}]
    /\ seen \in [Runners -> SUBSET Workers]
    /\ me \in [Runners -> Workers \cup {NoWorker}]
    /\ \A r \in Runners : rpc[r] \in {"free", "claim"} <=> me[r] = NoWorker
    /\ job \in [Runners -> 0..MaxJobs] /\ jobs \in 0..MaxJobs
    /\ done \subseteq 1..MaxJobs

(* get_thread() and put_thread() keep a worker to one runner, and a worker  *)
(* that has picked up work runs the task of that runner: start_task(), with *)
(* "no CC whatsoever", never replaces a task under a running worker.        *)
TaskOfOwner ==
    /\ \A r, q \in Runners : me[r] = me[q] /\ me[r] # NoWorker => r = q
    /\ \A w \in Workers : wpc[w] = "run" => \E r \in Runners : me[r] = w /\ task[w] = job[r]

(* join() returns only when the task that was started has run to its end,   *)
(* through every way the worker may fall asleep and be woken.               *)
JoinedIsDone == \A r \in Runners : rpc[r] = "put" => job[r] \in done

(* ALWAYS_ASSERT(s == kStateNoWork) in start_task(): a worker just claimed  *)
(* is asleep or idle, however lately its last task was joined.              *)
StartFindsIdle == \A r \in Runners : rpc[r] # "assert"

(* idle_task() runs a task once. *)
RunsOnce ==
    [][\A w \in Workers : wpc[w] = "run" /\ wpc'[w] = "finish" => task[w] \notin done]_pvars

(* A task that is being started is run and joined: the wakeup a worker      *)
(* misses between its swap to Sleep and its wait is sent again.             *)
TaskRuns == \A r \in Runners : rpc[r] = "task" ~> rpc[r] = "free"
=============================================================================
