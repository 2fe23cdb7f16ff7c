----------------------------- MODULE MCLogPool ------------------------------
(***************************************************************************)
(* The log buffer and the pool of worker threads, for TLC, one at a time.  *)
(* While one runs, the other stays in its first state.                     *)
(***************************************************************************)
EXTENDS LogAlloc, ThreadPool

VARIABLE part

mvars == <<part, vars, pvars>>

MCInit == part \in {"log", "pool"} /\ Init /\ PoolInit

LogStep(A) == part = "log" /\ A /\ UNCHANGED <<part, pvars>>
PoolStep(A) == part = "pool" /\ A /\ UNCHANGED <<part, vars>>

(* The only states where the pool may stop: the bound is used up and no     *)
(* runner has a worker.  Anywhere else TLC reports a deadlock.              *)
JobsUsedUp ==
    /\ jobs = MaxJobs /\ \A r \in Runners : rpc[r] \in {"free", "claim"}
    /\ UNCHANGED pvars

MCNext == LogStep(Next) \/ PoolStep(PoolNext \/ JobsUsedUp)

(* The fairness of FairSpec and of PoolFairSpec. *)
MCSpec ==
    /\ MCInit /\ [][MCNext]_mvars
    /\ WF_mvars(LogStep(Daemon))
    /\ \A t \in Threads : SF_mvars(LogStep(Continue(t))) /\ WF_mvars(LogStep(TaskEnds(t)))
    /\ \A r \in Runners : WF_mvars(PoolStep(Runner(r)))
    /\ \A w \in Workers : WF_mvars(PoolStep(PoolWorker(w)))

(* Every task ends, unless a thread waits for ever inside one (TasksEnd of *)
(* LogAlloc), where the log runs.                                          *)
LogTasksEnd == part = "log" => TasksEnd

(* A task that is being started is run and joined (TaskRuns of ThreadPool), *)
(* where the pool runs.                                                     *)
PoolTaskRuns == part = "pool" => TaskRuns
=============================================================================
