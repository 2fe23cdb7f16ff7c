-------------------------- MODULE ThreadPoolProofs --------------------------
(***************************************************************************)
(* The worker pool is safe for any number of runners, workers and tasks.   *)
(*                                                                         *)
(* The state word of a worker carries both directions of a handshake, so   *)
(* the invariant says for each stage of its runner what the word and the   *)
(* worker may be doing, and numbers of tasks tell one task from another.   *)
(***************************************************************************)
EXTENDS ThreadPool, TLAPS

(* The provers of a leaf that names none, and their seconds. *)
USE SMTT(10), ZenonT(30), SMTT(60)

Has(r) == me[r] # NoWorker

(* A bit of the bitmap stands for one runner at most. *)
Claims ==
    \A r \in Runners : Has(r) => /\ me[r] \in busy
                                 /\ \A q \in Runners : me[q] = me[r] => q = r

(* Tasks are told apart by their numbers. *)
Numbers ==
    /\ done \subseteq 1..jobs
    /\ \A r \in Runners : Has(r) => /\ job[r] \in 1..jobs
                                    /\ \A q \in Runners : Has(q) /\ job[q] = job[r] => q = r

(* What the state word says of the worker itself. *)
Words ==
    \A w \in Workers :
        /\ state[w] = "Sleep" <=> wpc[w] \in {"asleep", "wait", "woken"}
        /\ wpc[w] \in {"run", "finish"} => state[w] = "HasWork"
        /\ state[w] = "HasWork" => \E r \in Runners : me[r] = w /\ rpc[r] = "join"

(* What it says at each stage of the runner that has the worker. *)
Stage(r) ==
    /\ rpc[r] \in {"task", "start", "notify", "give"} => job[r] \notin done
    /\ rpc[r] \in {"start", "notify", "give", "join"} => task[me[r]] = job[r]
    /\ rpc[r] = "notify" => wpc[me[r]] \in {"asleep", "wait", "woken", "spin"}
    /\ rpc[r] = "give" => wpc[me[r]] = "spin"
    /\ rpc[r] = "join" => (job[r] \in done <=> (state[me[r]] = "HasWork" => wpc[me[r]] = "finish"))
    /\ rpc[r] = "put" => job[r] \in done
    /\ rpc[r] # "assert"

Stages == \A r \in Runners : Stage(r)

Inv == PoolTypeOK /\ Claims /\ Numbers /\ Words /\ Stages

-----------------------------------------------------------------------------
LEMMA ReadBitmapKeeps ==
    ASSUME Inv, NEW r \in Runners, ReadBitmap(r)
    PROVE  Inv'
<1> USE PoolAssumption, BoundAssumption DEF Inv, pool, ReadBitmap, RGoto, Workers, NoWorker, Has
<1>1. PoolTypeOK'
  <2>1. CASE UNCHANGED <<seen, rpc>>
    BY <2>1 DEF PoolTypeOK
  <2>2. CASE seen' = [seen EXCEPT ![r] = busy] /\ rpc' = [rpc EXCEPT ![r] = "claim"]
    BY <2>2 DEF PoolTypeOK
  <2> QED
    BY <2>1, <2>2
<1>2. Claims'
  BY DEF PoolTypeOK, Claims
<1>3. Numbers'
  BY DEF PoolTypeOK, Numbers, Words, Stages, Stage
<1>4. Words'
  BY DEF PoolTypeOK, Claims, Words, Stages, Stage
<1>5. Stages'
  BY DEF PoolTypeOK, Claims, Numbers, Words, Stages, Stage
<1> QED
  BY <1>1, <1>2, <1>3, <1>4, <1>5

LEMMA ClaimThreadKeeps ==
    ASSUME Inv, NEW r \in Runners, ClaimThread(r)
    PROVE  Inv'
<1> USE PoolAssumption, BoundAssumption DEF Inv, Workers, NoWorker, Has
<1>1. CASE ~SameBitmap(r)
  <2>1. /\ rpc' = [rpc EXCEPT ![r] = "free"] /\ seen' = [seen EXCEPT ![r] = {}]
        /\ UNCHANGED <<busy, me, job, jobs, state, task, wpc, done>>
    BY <1>1 DEF ClaimThread, RGoto
  <2>2. rpc[r] = "claim"
    BY DEF ClaimThread
  <2> QED
    BY <2>1, <2>2 DEF PoolTypeOK, Claims, Numbers, Words, Stages, Stage
<1>2. CASE SameBitmap(r)
  <2>1. PICK pos \in Workers \ seen[r] :
            /\ busy' = busy \cup {pos}
            /\ me' = [me EXCEPT ![r] = pos]
            /\ jobs < MaxJobs /\ jobs' = jobs + 1
            /\ job' = [job EXCEPT ![r] = jobs + 1]
            /\ rpc' = [rpc EXCEPT ![r] = "task"]
    BY <1>2 DEF ClaimThread, NewJob, RGoto
  <2>2. pos \in Workers /\ pos \notin busy /\ pos # NoWorker
    BY <1>2 DEF SameBitmap, PoolTypeOK
  <2>3. /\ UNCHANGED <<state, task, wpc, done>> /\ rpc[r] = "claim"
        /\ seen' = [seen EXCEPT ![r] = {}]
    BY DEF ClaimThread
  <2>4. jobs + 1 \in 1..MaxJobs /\ jobs \in Nat
    BY <2>1 DEF PoolTypeOK
  <2>5. PoolTypeOK'
    <3>1. me' \in [Runners -> Workers \cup {NoWorker}] /\ job' \in [Runners -> 0..MaxJobs]
      BY <2>1, <2>2, <2>4 DEF PoolTypeOK
    <3>2. rpc' \in [Runners -> {"free", "claim", "task", "start", "notify", "give", "join", "put", "assert"}]
      BY <2>1 DEF PoolTypeOK
    <3> QED
      BY <2>1, <2>2, <2>3, <2>4, <3>1, <3>2 DEF PoolTypeOK
  <2>6. Claims'
    BY <2>1, <2>2, <2>3 DEF PoolTypeOK, Claims
  <2>7. Numbers'
    BY <2>1, <2>3, <2>4 DEF PoolTypeOK, Numbers
  <2>8. Words'
    BY <2>1, <2>2, <2>3 DEF PoolTypeOK, Claims, Words
  <2>9. Stages'
    BY <2>1, <2>2, <2>3, <2>4 DEF PoolTypeOK, Claims, Numbers, Stages, Stage
  <2> QED
    BY <2>5, <2>6, <2>7, <2>8, <2>9
<1> QED
  BY <1>1, <1>2

LEMMA SetTaskKeeps ==
    ASSUME Inv, NEW r \in Runners, SetTask(r)
    PROVE  Inv'
<1> USE PoolAssumption, BoundAssumption DEF Inv, pool, SetTask, RGoto, Workers, NoWorker, Has
<1>1. PoolTypeOK'
  BY DEF PoolTypeOK, Stages, Stage
<1>2. Claims'
  BY DEF PoolTypeOK, Claims
<1>3. Numbers'
  BY DEF PoolTypeOK, Numbers, Words, Stages, Stage
<1>4. Words'
  BY DEF PoolTypeOK, Claims, Words, Stages, Stage
<1>5. Stages'
  BY DEF PoolTypeOK, Claims, Numbers, Words, Stages, Stage
<1> QED
  BY <1>1, <1>2, <1>3, <1>4, <1>5

LEMMA StartTaskKeeps ==
    ASSUME Inv, NEW r \in Runners, StartTask(r)
    PROVE  Inv'
<1> USE PoolAssumption, BoundAssumption DEF Inv, Workers, NoWorker, Has
<1>1. rpc[r] = "start" /\ me[r] \in Workers /\ UNCHANGED <<busy, seen, me, job, jobs, task, wpc, done>>
  BY ZenonT(60), ZenonT(90) DEF StartTask, pool, PoolTypeOK
<1>2. state[me[r]] # "HasWork"
  BY <1>1 DEF PoolTypeOK, Claims, Words
<1>3. CASE state[me[r]] = "NoWork"
  <2>1. state' = [state EXCEPT ![me[r]] = "HasWork"] /\ rpc' = [rpc EXCEPT ![r] = "join"]
    BY <1>3 DEF StartTask, SetState, RGoto
  <2>2. PoolTypeOK'
    BY <1>1, <2>1 DEF PoolTypeOK
  <2>3. Claims' /\ Numbers'
    BY <1>1 DEF Claims, Numbers
  <2>4. Words'
    BY <1>1, <1>3, <2>1 DEF PoolTypeOK, Claims, Words
  <2>5. Stages'
    BY <1>1, <1>3, <2>1 DEF PoolTypeOK, Claims, Words, Stages, Stage
  <2> QED
    BY <2>2, <2>3, <2>4, <2>5
<1>4. CASE state[me[r]] = "Sleep"
  <2>1. state' = state /\ rpc' = [rpc EXCEPT ![r] = "notify"]
    BY <1>4 DEF StartTask, SetState, RGoto
  <2> QED
    BY <1>1, <1>4, <2>1 DEF PoolTypeOK, Claims, Numbers, Words, Stages, Stage
<1> QED
  BY <1>1, <1>2, <1>3, <1>4 DEF PoolTypeOK

LEMMA NotifyAllKeeps ==
    ASSUME Inv, NEW r \in Runners, NotifyAll(r)
    PROVE  Inv'
<1> USE PoolAssumption, BoundAssumption DEF Inv, Workers, NoWorker, Has
<1>1. rpc[r] = "notify" /\ me[r] \in Workers /\ UNCHANGED <<busy, seen, me, job, jobs, state, task, done>>
  BY ZenonT(60), ZenonT(90) DEF NotifyAll, pool, PoolTypeOK
<1>2. CASE state[me[r]] # "NoWork"
  <2>1. rpc' = rpc /\ wpc' = [w \in Workers |-> IF w = me[r] /\ wpc[w] = "wait" THEN "woken" ELSE wpc[w]]
    BY <1>2 DEF NotifyAll
  <2>2. \A w \in Workers : wpc'[w] = wpc[w] \/ (wpc[w] = "wait" /\ wpc'[w] = "woken")
    BY <2>1
  <2>3. wpc' \in [Workers -> {"loop", "run", "finish", "doze", "asleep", "wait", "woken", "spin"}]
    BY <2>1 DEF PoolTypeOK
  <2>4. PoolTypeOK'
    BY <1>1, <2>1, <2>3 DEF PoolTypeOK
  <2>5. Claims' /\ Numbers'
    BY <1>1 DEF Claims, Numbers
  <2>6. Words' /\ Stages'
    BY <1>1, <2>1, <2>2 DEF PoolTypeOK, Words, Stages, Stage
  <2> QED
    BY <2>4, <2>5, <2>6
<1>3. CASE state[me[r]] = "NoWork"
  <2>1. wpc' = wpc /\ rpc' = [rpc EXCEPT ![r] = "give"]
    BY <1>3 DEF NotifyAll, RGoto
  <2>2. PoolTypeOK'
    BY <1>1, <2>1 DEF PoolTypeOK
  <2>3. Claims' /\ Numbers'
    BY <1>1, <1>3, <2>1 DEF PoolTypeOK, Claims, Numbers
  <2>4. Words'
    BY <1>1, <1>3, <2>1 DEF PoolTypeOK, Words
  <2>5. Stages'
    BY <1>1, <1>3, <2>1 DEF PoolTypeOK, Words, Stages, Stage
  <2> QED
    BY <2>2, <2>3, <2>4, <2>5
<1> QED
  BY <1>2, <1>3

LEMMA GiveWorkKeeps ==
    ASSUME Inv, NEW r \in Runners, GiveWork(r)
    PROVE  Inv'
<1> USE PoolAssumption, BoundAssumption DEF Inv, pool, GiveWork, SetState, RGoto, Workers, NoWorker, Has
<1>1. PoolTypeOK'
  BY DEF PoolTypeOK, Stages, Stage
<1>2. Claims'
  BY DEF PoolTypeOK, Claims
<1>3. Numbers'
  BY DEF PoolTypeOK, Numbers, Words, Stages, Stage
<1>4. Words'
  BY DEF PoolTypeOK, Claims, Words, Stages, Stage
<1>5. Stages'
  BY DEF PoolTypeOK, Claims, Numbers, Words, Stages, Stage
<1> QED
  BY <1>1, <1>2, <1>3, <1>4, <1>5

LEMMA JoinKeeps ==
    ASSUME Inv, NEW r \in Runners, Join(r)
    PROVE  Inv'
<1> USE PoolAssumption, BoundAssumption DEF Inv, pool, Join, Joinable, RGoto, Workers, NoWorker, Has
<1>1. PoolTypeOK'
  BY DEF PoolTypeOK, Stages, Stage
<1>2. Claims'
  BY DEF PoolTypeOK, Claims
<1>3. Numbers'
  BY DEF PoolTypeOK, Numbers, Words, Stages, Stage
<1>4. Words'
  BY DEF PoolTypeOK, Claims, Words, Stages, Stage
<1>5. Stages'
  BY DEF PoolTypeOK, Claims, Numbers, Words, Stages, Stage
<1> QED
  BY <1>1, <1>2, <1>3, <1>4, <1>5

LEMMA PutThreadKeeps ==
    ASSUME Inv, NEW r \in Runners, PutThread(r)
    PROVE  Inv'
<1> USE PoolAssumption, BoundAssumption DEF Inv, PutThread, Forget, RGoto, Workers, NoWorker, Has
<1>1. PoolTypeOK'
  <2>0. 0 \in 0..MaxJobs
    OBVIOUS
  <2>1. busy' \subseteq Workers /\ job' \in [Runners -> 0..MaxJobs]
    BY ZenonT(60), ZenonT(90), <2>0 DEF PoolTypeOK
  <2>2. me' \in [Runners -> Workers \cup {NoWorker}]
    BY DEF PoolTypeOK
  <2>3. \A q \in Runners : rpc'[q] \in {"free", "claim"} <=> me'[q] = NoWorker
    BY DEF PoolTypeOK
  <2> QED
    BY <2>1, <2>2, <2>3 DEF PoolTypeOK
<1>2. Claims'
  BY DEF PoolTypeOK, Claims
<1>3. Numbers'
  BY DEF PoolTypeOK, Numbers, Words, Stages, Stage
<1>4. Words'
  BY DEF PoolTypeOK, Claims, Words, Stages, Stage
<1>5. Stages'
  BY DEF PoolTypeOK, Claims, Numbers, Words, Stages, Stage
<1> QED
  BY <1>1, <1>2, <1>3, <1>4, <1>5

LEMMA StartAnotherKeeps ==
    ASSUME Inv, NEW r \in Runners, StartAnother(r)
    PROVE  Inv'
<1> USE PoolAssumption, BoundAssumption DEF Inv, pool, StartAnother, NewJob, RGoto, Workers, NoWorker, Has
<1>1. PoolTypeOK'
  BY DEF PoolTypeOK, Stages, Stage
<1>2. Claims'
  BY DEF PoolTypeOK, Claims
<1>3. Numbers'
  BY DEF PoolTypeOK, Numbers, Words, Stages, Stage
<1>4. Words'
  BY DEF PoolTypeOK, Claims, Words, Stages, Stage
<1>5. Stages'
  BY DEF PoolTypeOK, Claims, Numbers, Words, Stages, Stage
<1> QED
  BY <1>1, <1>2, <1>3, <1>4, <1>5

LEMMA TestStateKeeps ==
    ASSUME Inv, NEW w \in Workers, TestState(w)
    PROVE  Inv'
<1> USE PoolAssumption, BoundAssumption DEF Inv, pool, TestState, WGoto, Workers, NoWorker, Has
<1>1. PoolTypeOK'
  BY DEF PoolTypeOK, Stages, Stage
<1>2. Claims'
  BY DEF PoolTypeOK, Claims
<1>3. Numbers'
  BY DEF PoolTypeOK, Numbers, Words, Stages, Stage
<1>4. Words'
  BY DEF PoolTypeOK, Claims, Words, Stages, Stage
<1>5. Stages'
  BY DEF PoolTypeOK, Claims, Numbers, Words, Stages, Stage
<1> QED
  BY <1>1, <1>2, <1>3, <1>4, <1>5

LEMMA RunTaskKeeps ==
    ASSUME Inv, NEW w \in Workers, RunTask(w)
    PROVE  Inv'
<1> USE PoolAssumption, BoundAssumption DEF Inv, pool, RunTask, WGoto, Workers, NoWorker, Has
<1>0. PICK r \in Runners : me[r] = w /\ rpc[r] = "join" /\ task[w] = job[r] /\ job[r] \in 1..jobs /\ job[r] \in 1..MaxJobs
  BY DEF PoolTypeOK, Numbers, Words, Stages, Stage
<1>1. PoolTypeOK'
  <2>0. done \subseteq 1..MaxJobs
    BY DEF PoolTypeOK
  <2>1. done' \subseteq 1..MaxJobs
    BY ZenonT(60), ZenonT(90), <1>0, <2>0
  <2>2. wpc' \in [Workers -> {"loop", "run", "finish", "doze", "asleep", "wait", "woken", "spin"}]
    BY DEF PoolTypeOK
  <2> QED
    BY <2>1, <2>2 DEF PoolTypeOK
<1>2. Claims'
  BY DEF PoolTypeOK, Claims
<1>3. Numbers'
  <2>1. done' \subseteq 1..jobs'
    BY ZenonT(60), ZenonT(90), <1>0 DEF Numbers
  <2> QED
    BY <2>1 DEF Numbers
<1>4. Words'
  BY DEF PoolTypeOK, Claims, Words, Stages, Stage
<1>5. Stages'
  <2> SUFFICES ASSUME NEW q \in Runners PROVE Stage(q)'
    BY DEF Stages
  <2>1. CASE q = r
    BY <1>0, <2>1 DEF PoolTypeOK, Stages, Stage
  <2>2. CASE q # r
    <3>1. Has(q) => job[q] # job[r] /\ me[q] # w
      BY <1>0, <2>2 DEF Claims, Numbers, PoolTypeOK
    <3> QED
      BY <1>0, <2>2, <3>1 DEF PoolTypeOK, Stages, Stage
  <2> QED
    BY <2>1, <2>2
<1> QED
  BY <1>1, <1>2, <1>3, <1>4, <1>5

LEMMA FinishKeeps ==
    ASSUME Inv, NEW w \in Workers, Finish(w)
    PROVE  Inv'
<1> USE PoolAssumption, BoundAssumption DEF Inv, pool, Finish, SetState, WGoto, Workers, NoWorker, Has
<1>1. PoolTypeOK'
  BY DEF PoolTypeOK, Stages, Stage
<1>2. Claims'
  BY DEF PoolTypeOK, Claims
<1>3. Numbers'
  BY DEF PoolTypeOK, Numbers, Words, Stages, Stage
<1>4. Words'
  BY DEF PoolTypeOK, Claims, Words, Stages, Stage
<1>5. Stages'
  BY DEF PoolTypeOK, Claims, Numbers, Words, Stages, Stage
<1> QED
  BY <1>1, <1>2, <1>3, <1>4, <1>5

LEMMA GoToSleepKeeps ==
    ASSUME Inv, NEW w \in Workers, GoToSleep(w)
    PROVE  Inv'
<1> USE PoolAssumption, BoundAssumption DEF Inv, pool, GoToSleep, MaySleep, SetState, WGoto, Workers, NoWorker, Has
<1>1. CASE state[w] = "NoWork"
  <2>1. PoolTypeOK'
    BY ZenonT(60), ZenonT(90), <1>1 DEF PoolTypeOK
  <2>2. Claims' /\ Numbers'
    BY DEF Claims, Numbers
  <2>3. Words'
    BY <1>1 DEF PoolTypeOK, Words
  <2>4. ASSUME NEW q \in Runners PROVE Stage(q)'
    <3>1. state'[w] = "Sleep" /\ wpc'[w] = "asleep"
      BY <1>1 DEF PoolTypeOK
    <3>2. \A v \in Workers : v # w => state'[v] = state[v] /\ wpc'[v] = wpc[v]
      BY <1>1 DEF PoolTypeOK
    <3>3. Stage(q) /\ UNCHANGED <<rpc, me, job, task, done>>
      BY DEF Stages
    <3>4. CASE me[q] = w
      BY <1>1, <3>1, <3>3, <3>4 DEF Stage
    <3>5. CASE me[q] # w
      <4>1. rpc[q] \in {"notify", "give", "join"} => me[q] \in Workers
        BY DEF PoolTypeOK
      <4> QED
        BY <3>2, <3>3, <3>5, <4>1 DEF Stage
    <3> QED
      BY <3>4, <3>5
  <2> QED
    BY <2>1, <2>2, <2>3, <2>4 DEF Stages
<1>2. CASE state[w] # "NoWork"
  <2>1. state' = state /\ wpc' = [wpc EXCEPT ![w] = "loop"]
    BY <1>2
  <2>2. PoolTypeOK'
    BY <2>1 DEF PoolTypeOK
  <2>3. Claims' /\ Numbers'
    BY DEF Claims, Numbers
  <2>4. Words'
    BY <2>1 DEF PoolTypeOK, Words
  <2>5. ASSUME NEW q \in Runners PROVE Stage(q)'
    BY <2>1 DEF PoolTypeOK, Stages, Stage
  <2> QED
    BY <2>2, <2>3, <2>4, <2>5 DEF Stages
<1> QED
  BY <1>1, <1>2

LEMMA WaitKeeps ==
    ASSUME Inv, NEW w \in Workers, Wait(w)
    PROVE  Inv'
<1> USE PoolAssumption, BoundAssumption DEF Inv, pool, Wait, WGoto, Workers, NoWorker, Has
<1>1. PoolTypeOK'
  BY DEF PoolTypeOK, Stages, Stage
<1>2. Claims'
  BY DEF PoolTypeOK, Claims
<1>3. Numbers'
  BY DEF PoolTypeOK, Numbers, Words, Stages, Stage
<1>4. Words'
  BY DEF PoolTypeOK, Claims, Words, Stages, Stage
<1>5. Stages'
  BY DEF PoolTypeOK, Claims, Numbers, Words, Stages, Stage
<1> QED
  BY <1>1, <1>2, <1>3, <1>4, <1>5

LEMMA AwakeKeeps ==
    ASSUME Inv, NEW w \in Workers, Awake(w)
    PROVE  Inv'
<1> USE PoolAssumption, BoundAssumption DEF Inv, pool, Awake, SetState, WGoto, Workers, NoWorker, Has
<1>1. PoolTypeOK'
  BY DEF PoolTypeOK, Stages, Stage
<1>2. Claims'
  BY DEF PoolTypeOK, Claims
<1>3. Numbers'
  BY DEF PoolTypeOK, Numbers, Words, Stages, Stage
<1>4. Words'
  BY DEF PoolTypeOK, Claims, Words, Stages, Stage
<1>5. Stages'
  BY DEF PoolTypeOK, Claims, Numbers, Words, Stages, Stage
<1> QED
  BY <1>1, <1>2, <1>3, <1>4, <1>5

LEMMA SpinForWorkKeeps ==
    ASSUME Inv, NEW w \in Workers, SpinForWork(w)
    PROVE  Inv'
<1> USE PoolAssumption, BoundAssumption DEF Inv, pool, SpinForWork, WGoto, Workers, NoWorker, Has
<1>1. PoolTypeOK'
  BY DEF PoolTypeOK, Stages, Stage
<1>2. Claims'
  BY DEF PoolTypeOK, Claims
<1>3. Numbers'
  BY DEF PoolTypeOK, Numbers, Words, Stages, Stage
<1>4. Words'
  BY DEF PoolTypeOK, Claims, Words, Stages, Stage
<1>5. Stages'
  BY DEF PoolTypeOK, Claims, Numbers, Words, Stages, Stage
<1> QED
  BY <1>1, <1>2, <1>3, <1>4, <1>5

LEMMA SpuriousWakeupKeeps ==
    ASSUME Inv, NEW w \in Workers, SpuriousWakeup(w)
    PROVE  Inv'
<1> USE PoolAssumption, BoundAssumption DEF Inv, pool, SpuriousWakeup, WGoto, Workers, NoWorker, Has
<1>1. PoolTypeOK'
  BY DEF PoolTypeOK, Stages, Stage
<1>2. Claims'
  BY DEF PoolTypeOK, Claims
<1>3. Numbers'
  BY DEF PoolTypeOK, Numbers, Words, Stages, Stage
<1>4. Words'
  BY DEF PoolTypeOK, Claims, Words, Stages, Stage
<1>5. Stages'
  BY DEF PoolTypeOK, Claims, Numbers, Words, Stages, Stage
<1> QED
  BY <1>1, <1>2, <1>3, <1>4, <1>5

-----------------------------------------------------------------------------
LEMMA InitInv == PoolInit => Inv
  BY PoolAssumption, BoundAssumption DEF PoolInit, Inv, PoolTypeOK, Claims, Numbers, Words, Stages, Stage, Has, Workers, NoWorker

LEMMA StepInv == Inv /\ [PoolNext]_pvars => Inv'
<1> SUFFICES ASSUME Inv, [PoolNext]_pvars PROVE Inv'
  OBVIOUS
<1>1. ASSUME NEW r \in Runners, Runner(r) PROVE Inv'
  BY <1>1, ReadBitmapKeeps, ClaimThreadKeeps, SetTaskKeeps, StartTaskKeeps, NotifyAllKeeps,
     GiveWorkKeeps, JoinKeeps, PutThreadKeeps, StartAnotherKeeps DEF Runner
<1>2. ASSUME NEW w \in Workers, PoolWorker(w) \/ SpuriousWakeup(w) PROVE Inv'
  BY <1>2, TestStateKeeps, RunTaskKeeps, FinishKeeps, GoToSleepKeeps, WaitKeeps, AwakeKeeps,
     SpinForWorkKeeps, SpuriousWakeupKeeps DEF PoolWorker
<1>3. ASSUME UNCHANGED pvars PROVE Inv'
  BY <1>3 DEF pvars, pool, Inv, PoolTypeOK, Claims, Numbers, Words, Stages, Stage, Has
<1> QED
  BY <1>1, <1>2, <1>3 DEF PoolNext

LEMMA Invariance == PoolSpec => []Inv
  BY InitInv, StepInv, PTL DEF PoolSpec

(* Every variable of the pool keeps its type, and a runner has a worker    *)
(* exactly from get_thread() to put_thread().                              *)
THEOREM TypeCorrect == PoolSpec => []PoolTypeOK
<1>1. Inv => PoolTypeOK
  BY DEF Inv
<1> QED
  BY Invariance, <1>1, PTL

(* A worker belongs to one runner and runs the task of that runner, though *)
(* start_task() stores the task before it looks at the state.              *)
THEOREM OwnTask == PoolSpec => []TaskOfOwner
<1>1. Inv => TaskOfOwner
  <2> SUFFICES ASSUME Inv PROVE TaskOfOwner
    OBVIOUS
  <2>1. \A r, q \in Runners : me[r] = me[q] /\ me[r] # NoWorker => r = q
    BY DEF Inv, Claims, Has
  <2>2. ASSUME NEW w \in Workers, wpc[w] = "run" PROVE \E r \in Runners : me[r] = w /\ task[w] = job[r]
    BY <2>2 DEF Inv, Words, Stages, Stage
  <2> QED
    BY <2>1, <2>2 DEF TaskOfOwner
<1> QED
  BY Invariance, <1>1, PTL

(* join() returns only after the task has run to its end. *)
THEOREM JoinAfterEnd == PoolSpec => []JoinedIsDone
<1>1. Inv => JoinedIsDone
  BY DEF Inv, Stages, Stage, JoinedIsDone
<1> QED
  BY Invariance, <1>1, PTL

(* The ALWAYS_ASSERT of start_task() never fails. *)
THEOREM AssertHolds == PoolSpec => []StartFindsIdle
<1>1. Inv => StartFindsIdle
  BY DEF Inv, Stages, Stage, StartFindsIdle
<1> QED
  BY Invariance, <1>1, PTL

(* idle_task() runs no task a second time. *)
THEOREM OnceOnly == PoolSpec => RunsOnce
<1>1. Inv /\ [PoolNext]_pvars =>
        [\A w \in Workers : wpc[w] = "run" /\ wpc'[w] = "finish" => task[w] \notin done]_pvars
  <2> SUFFICES ASSUME Inv, NEW w \in Workers, wpc[w] = "run" PROVE task[w] \notin done
    OBVIOUS
  <2>1. PICK r \in Runners : me[r] = w /\ rpc[r] = "join" /\ state[w] = "HasWork"
    BY DEF Inv, Words
  <2> QED
    BY <2>1 DEF Inv, Stages, Stage
<1> QED
  BY Invariance, <1>1, PTL DEF PoolSpec, RunsOnce
=============================================================================
