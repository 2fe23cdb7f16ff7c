------------------------------ MODULE EpochMgr ------------------------------
(***************************************************************************)
(* The epoch manager of dbcore/epoch.cpp: threads enter and leave          *)
(* "transactions", any of them may open a new epoch, and the resources of  *)
(* a closed epoch are reclaimed once the stragglers that could still see   *)
(* them have left.  The memory manager, the XID allocator and RCU are the  *)
(* three clients of this class.                                            *)
(*                                                                         *)
(* Every read or write of a shared word that another thread can observe in *)
(* between is a step of its own, named by the program counter pc[t].  The  *)
(* accesses are taken in program order (sequential consistency).           *)
(***************************************************************************)
EXTENDS EpochConstants

VARIABLES
    begin,       \* state->begin: the epoch threads join
    end,         \* state->end: lags begin while new_epoch() runs
    ready,       \* state->ready_for_safe_point
    nstragglers, \* state->nstragglers
    cooling,     \* state->cooling_cookie: the epoch it stands for, 0 is NULL
    cold,        \* state->cold_cookie
    mutex,       \* epoch_mgr::mutex, held across the body of new_epoch()
    tbegin,      \* thread_state::begin of each thread
    tend,        \* thread_state::end
    flagged,     \* threads whose thread_state::straggler is set
    pc,          \* next step of each thread
    ret,         \* where the call in progress returns to
    tmp,         \* the local of that name in thread_enter/thread_exit
    scan,        \* new_epoch(): threads the loop has yet to visit
    found,       \* new_epoch(): stragglers[] not flagged yet
    who,         \* new_epoch(): the thread being examined
    saw,         \* new_epoch(): its begin, as read
    hold,        \* history: transactions in flight when an epoch closed
    reclaimed    \* history: epochs passed to epoch_reclaimed()

state == <<begin, end, ready, nstragglers, cooling, cold>>
opening == <<mutex, scan, found, who, saw>>
history == <<hold, reclaimed>>
ts == <<tbegin, tend, flagged>>
vars == <<state, opening, history, ts, pc, ret, tmp>>

Epochs == 1..MaxEpoch

(* Steps of new_epoch() that hold the mutex. *)
OpenSteps == {"n_scan", "n_end", "n_flag", "n_direct"}
(* Steps of straggler_ended() and global_quiesce(). *)
QuiesceSteps == {"s_end", "q_swap", "q_ready"}
EnterSteps == {"e_end0", "e_begin", "e_race", "e_cold", "e_slow", "e_retry"}
ExitSteps == {"x_end", "x_recheck"}
CheckSteps == {"c_begin", "c_wait", "c_flag"}
Labels == {"none", "out", "in", "z_end", "z_begin"}
    \cup OpenSteps \cup QuiesceSteps \cup EnterSteps \cup ExitSteps \cup CheckSteps

Init ==
    /\ begin = 1 /\ end = 1
    /\ ready = TRUE
    /\ nstragglers = 0
    /\ cooling = 0 /\ cold = 0
    /\ mutex = NoThread
    /\ tbegin = [t \in Threads |-> 0] /\ tend = [t \in Threads |-> 0]
    /\ flagged = {}
    /\ pc = [t \in Threads |-> "none"]
    /\ ret = [t \in Threads |-> "out"]
    /\ tmp = [t \in Threads |-> 0]
    /\ scan = {} /\ found = {}
    /\ who = NoThread /\ saw = 0
    /\ hold = [e \in Epochs |-> {}]
    /\ reclaimed = {}

(* A transaction is under way: thread_enter() has returned and             *)
(* thread_exit() has not been called.                                      *)
InTxn(t) == pc[t] = "in" \/ (ret[t] = "in" /\ pc[t] \in OpenSteps \cup QuiesceSteps)

Registered == {t \in Threads : pc[t] # "none"}

Goto(t, label) == pc' = [pc EXCEPT ![t] = label]
Forget(t) == hold' = [e \in Epochs |-> hold[e] \ {t}]

-----------------------------------------------------------------------------
(* Registration. *)

(* thread_init(): the critical section inserts the thread in the map. *)
ThreadInit(t) ==
    /\ pc[t] = "none" /\ mutex = NoThread
    /\ Goto(t, "out")
    /\ UNCHANGED <<state, opening, history, ts, ret, tmp>>

(* thread_fini() of a thread outside a transaction (it leaves one first).  *)
(* The last thread to go closes and reclaims the epochs that remain.  The  *)
(* next thread of this name is a new OS thread, with zeroed storage.       *)
ThreadFini(t) ==
    /\ pc[t] = "out" /\ mutex = NoThread
    /\ Goto(t, "none")
    /\ tbegin' = [tbegin EXCEPT ![t] = 0] /\ tend' = [tend EXCEPT ![t] = 0]
    /\ flagged' = flagged \ {t}
    /\ IF Registered = {t}
         THEN /\ begin < MaxEpoch
              /\ begin' = begin + 1 /\ end' = begin + 1
              /\ cooling' = 0
              /\ reclaimed' = reclaimed \cup ({cooling, begin} \ {0})
              /\ UNCHANGED <<ready, nstragglers, cold, hold>>
         ELSE UNCHANGED <<state, history>>
    /\ UNCHANGED <<opening, ret, tmp>>

-----------------------------------------------------------------------------
(* thread_enter() *)

EnterRead(t) ==
    /\ pc[t] \in {"out", "e_retry"}
    /\ tmp' = [tmp EXCEPT ![t] = begin]
    /\ Goto(t, "e_end0")
    /\ UNCHANGED <<state, opening, history, ts, ret>>

EnterClearEnd(t) ==
    /\ pc[t] = "e_end0"
    /\ tend' = [tend EXCEPT ![t] = 0]
    /\ Goto(t, "e_begin")
    /\ UNCHANGED <<tbegin, flagged, state, opening, history, ret, tmp>>

EnterSetBegin(t) ==
    /\ pc[t] = "e_begin"
    /\ tbegin' = [tbegin EXCEPT ![t] = tmp[t]]
    /\ Goto(t, "e_race")
    /\ UNCHANGED <<tend, flagged, state, opening, history, ret, tmp>>

(* The switch on tmp2 - tmp. *)
MutLateEntry(t) == IF begin - tmp[t] <= 2 THEN "in" ELSE "e_slow"
AfterRace(t) ==
    CASE begin - tmp[t] \in {0, 1} -> "in"
      [] begin - tmp[t] = 2 -> "e_cold"
      [] OTHER -> "e_slow"

EnterRaced(t) ==
    /\ pc[t] = "e_race"
    /\ tmp' = [tmp EXCEPT ![t] = begin]
    /\ Goto(t, AfterRace(t))
    /\ UNCHANGED <<state, opening, history, ts, ret>>

EnterBailOut(t) ==
    /\ pc[t] \in {"e_cold", "e_slow"}
    /\ tend' = [tend EXCEPT ![t] = tmp[t]]
    /\ Goto(t, IF pc[t] = "e_cold" THEN "c_begin" ELSE "e_retry")
    /\ ret' = [ret EXCEPT ![t] = "e_retry"]
    /\ UNCHANGED <<tbegin, flagged, state, opening, history, tmp>>

-----------------------------------------------------------------------------
(* thread_exit() *)

ExitRead(t) ==
    /\ pc[t] = "in"
    /\ tmp' = [tmp EXCEPT ![t] = begin]
    /\ ret' = [ret EXCEPT ![t] = "out"]
    /\ Goto(t, "x_end")
    /\ Forget(t)
    /\ UNCHANGED <<state, opening, reclaimed, ts>>

ExitSetEnd(t) ==
    /\ pc[t] = "x_end"
    /\ tend' = [tend EXCEPT ![t] = tmp[t]]
    /\ Goto(t, IF tmp[t] < tbegin[t] + 2 THEN "x_recheck" ELSE "c_begin")
    /\ UNCHANGED <<tbegin, flagged, state, opening, history, ret, tmp>>

ExitRecheck(t) ==
    /\ pc[t] = "x_recheck"
    /\ tmp' = [tmp EXCEPT ![t] = end]
    /\ Goto(t, IF end < tbegin[t] + 2 THEN "out" ELSE "c_begin")
    /\ UNCHANGED <<state, opening, history, ts, ret>>

-----------------------------------------------------------------------------
(* straggler_check(), straggler_ended() and global_quiesce() *)

CheckProgress(t) ==
    /\ pc[t] = "c_begin"
    /\ Goto(t, IF end < tmp[t] THEN "c_wait" ELSE "c_flag")
    /\ UNCHANGED <<state, opening, history, ts, ret, tmp>>

(* mutex.lock(); mutex.unlock() *)
CheckWait(t) ==
    /\ pc[t] = "c_wait" /\ mutex = NoThread
    /\ Goto(t, "c_flag")
    /\ UNCHANGED <<state, opening, history, ts, ret, tmp>>

ClearFlag(t) == flagged' = flagged \ {t}

CheckFlag(t) ==
    /\ pc[t] = "c_flag"
    /\ ClearFlag(t)
    /\ Goto(t, IF t \in flagged THEN "s_end" ELSE ret[t])
    /\ UNCHANGED <<tbegin, tend, state, opening, history, ret, tmp>>

StragglerEnded(t) ==
    /\ pc[t] = "s_end"
    /\ nstragglers' = nstragglers - 1
    /\ Goto(t, IF nstragglers = 1 THEN "q_swap" ELSE ret[t])
    /\ UNCHANGED <<begin, end, ready, cooling, cold, opening, history, ts, ret, tmp>>

(* global_quiesce(): take the cold cookie and reclaim it. *)
TakeColdCookie == cold' = 0

Reclaim(t) ==
    /\ pc[t] = "q_swap"
    /\ TakeColdCookie
    /\ reclaimed' = reclaimed \cup ({cold} \ {0})
    /\ Goto(t, "q_ready")
    /\ UNCHANGED <<begin, end, ready, nstragglers, cooling, opening, hold, ts, ret, tmp>>

SetReady(t) ==
    /\ pc[t] = "q_ready"
    /\ ready' = TRUE
    /\ Goto(t, ret[t])
    /\ UNCHANGED <<begin, end, nstragglers, cooling, cold, opening, history, ts, ret, tmp>>

-----------------------------------------------------------------------------
(* thread_quiesce(): a straggler ends its transaction and starts the next. *)

QuiesceFlag(t) ==
    /\ pc[t] = "in" /\ t \in flagged
    /\ ClearFlag(t)
    /\ ret' = [ret EXCEPT ![t] = "in"]
    /\ Goto(t, "z_end")
    /\ Forget(t)
    /\ UNCHANGED <<tbegin, tend, state, opening, reclaimed, tmp>>

QuiesceClearEnd(t) ==
    /\ pc[t] = "z_end"
    /\ tend' = [tend EXCEPT ![t] = 0]
    /\ Goto(t, "z_begin")
    /\ UNCHANGED <<tbegin, flagged, state, opening, history, ret, tmp>>

QuiesceSetBegin(t) ==
    /\ pc[t] = "z_begin"
    /\ tbegin' = [tbegin EXCEPT ![t] = begin]
    /\ Goto(t, "s_end")
    /\ UNCHANGED <<tend, flagged, state, opening, history, ret, tmp>>

-----------------------------------------------------------------------------
(* new_epoch(), called inside or outside a transaction.  A call that finds *)
(* ready_for_safe_point clear changes nothing and is not a step.           *)

MutNotReady == mutex = NoThread
MayOpen == mutex = NoThread /\ ready

NotReady == ready' = FALSE

NewEpoch(t) ==
    /\ pc[t] \in {"in", "out"}
    /\ MayOpen /\ begin < MaxEpoch
    /\ mutex' = t
    /\ begin' = begin + 1
    /\ NotReady
    /\ scan' = Registered /\ found' = {}
    /\ hold' = [hold EXCEPT ![begin] = {u \in Threads : InTxn(u)}]
    /\ ret' = [ret EXCEPT ![t] = pc[t]]
    /\ Goto(t, "n_scan")
    /\ UNCHANGED <<end, nstragglers, cooling, cold, who, saw, reclaimed, ts, tmp>>

(* The loop body reads the begin mark of thread u, then its end mark. *)
ScanBegin(t) ==
    /\ pc[t] = "n_scan"
    /\ \E u \in scan : who' = u /\ saw' = tbegin[u]
    /\ Goto(t, "n_end")
    /\ UNCHANGED <<state, mutex, scan, found, history, ts, ret, tmp>>

IsStraggler(b, e) == b = begin - 2 /\ b > e

ScanEnd(t) ==
    /\ pc[t] = "n_end"
    /\ scan' = scan \ {who}
    /\ found' = IF IsStraggler(saw, tend[who])
                  THEN found \cup {who} ELSE found
    /\ Goto(t, "n_scan")
    /\ UNCHANGED <<state, mutex, who, saw, history, ts, ret, tmp>>

(* The cookies move down one place; nstragglers is set before any flag. *)
MutNextCold == begin - 1
NextCold == cooling

AgeCookies(t) ==
    /\ pc[t] = "n_scan" /\ scan = {}
    /\ cold' = NextCold
    /\ cooling' = begin - 1
    /\ nstragglers' = IF found = {} THEN nstragglers ELSE Cardinality(found)
    /\ Goto(t, IF found = {} THEN "n_direct" ELSE "n_flag")
    /\ UNCHANGED <<begin, end, ready, opening, history, ts, ret, tmp>>

FlagStraggler(t) ==
    /\ pc[t] = "n_flag"
    /\ \E u \in found : /\ flagged' = flagged \cup {u}
                        /\ found' = found \ {u}
    /\ UNCHANGED <<tbegin, tend, state, mutex, scan, who, saw, history, pc, ret, tmp>>

(* The mutex is released; with no straggler, the opener itself reclaims.   *)
CloseEpoch(t) ==
    /\ pc[t] \in {"n_flag", "n_direct"} /\ found = {}
    /\ end' = begin
    /\ mutex' = NoThread
    /\ Goto(t, IF pc[t] = "n_direct" THEN "q_swap" ELSE ret[t])
    /\ UNCHANGED <<begin, ready, nstragglers, cooling, cold, scan, found, who, saw,
                   history, ts, ret, tmp>>

-----------------------------------------------------------------------------

Enter(t) == EnterRead(t) \/ EnterClearEnd(t) \/ EnterSetBegin(t)
            \/ EnterRaced(t) \/ EnterBailOut(t)
Exit(t) == ExitRead(t) \/ ExitSetEnd(t) \/ ExitRecheck(t)
Check(t) == CheckProgress(t) \/ CheckWait(t) \/ CheckFlag(t)
            \/ StragglerEnded(t) \/ Reclaim(t) \/ SetReady(t)
Quiesce(t) == QuiesceFlag(t) \/ QuiesceClearEnd(t) \/ QuiesceSetBegin(t)
Open(t) == NewEpoch(t) \/ ScanBegin(t) \/ ScanEnd(t) \/ AgeCookies(t)
           \/ FlagStraggler(t) \/ CloseEpoch(t)

Next == \E t \in Threads :
    ThreadInit(t) \/ ThreadFini(t) \/ Enter(t) \/ Exit(t) \/ Check(t)
        \/ Quiesce(t) \/ Open(t)

Spec == Init /\ [][Next]_vars
(* Threads take their steps: a call in progress goes on, and a transaction *)
(* does not last for ever.  Nobody is obliged to enter, quiesce or open.   *)
Step(t) == EnterClearEnd(t) \/ EnterSetBegin(t) \/ EnterRaced(t) \/ EnterBailOut(t)
           \/ (pc[t] = "e_retry" /\ EnterRead(t)) \/ Exit(t) \/ Check(t)
           \/ QuiesceClearEnd(t) \/ QuiesceSetBegin(t)
           \/ ScanBegin(t) \/ ScanEnd(t) \/ AgeCookies(t)
           \/ FlagStraggler(t) \/ CloseEpoch(t)
FairSpec == Spec /\ \A t \in Threads : WF_vars(Step(t))

-----------------------------------------------------------------------------
(* Properties. *)

TypeOK ==
    /\ begin \in Epochs /\ end \in Epochs
    /\ ready \in BOOLEAN
    /\ nstragglers \in 0..Cardinality(Threads)
    /\ cooling \in 0..MaxEpoch /\ cold \in 0..MaxEpoch
    /\ mutex \in Threads \cup {NoThread}
    /\ tbegin \in [Threads -> 0..MaxEpoch] /\ tend \in [Threads -> 0..MaxEpoch]
    /\ flagged \subseteq Threads
    /\ pc \in [Threads -> Labels]
    /\ ret \in [Threads -> {"in", "out", "e_retry"}]
    /\ tmp \in [Threads -> 0..MaxEpoch]
    /\ scan \subseteq Threads /\ found \subseteq Threads
    /\ who \in Threads \cup {NoThread} /\ saw \in 0..MaxEpoch
    /\ hold \in [Epochs -> SUBSET Threads]
    /\ reclaimed \subseteq Epochs

(* epoch.cpp:44 "epoch N-1 cannot be reclaimed until all transactions, in  *)
(* flight at the time epoch N opened, have ended": whatever has been       *)
(* handed to epoch_reclaimed() is held by no transaction of that time.     *)
ReclaimIsSafe == \A e \in reclaimed : hold[e] = {}

(* epoch.cpp:33 "epoch N+2 cannot begin until the last straggler           *)
(* finishes": a running transaction is at most two epochs old, which is    *)
(* what the four bitmaps of xid.cpp rely on.                               *)
AtMostTwoBehind == \A t \in Threads : InTxn(t) => begin <= tbegin[t] + 2

(* ASSERT(not state->cold_cookie) in new_epoch() and thread_fini(): the    *)
(* cold place is empty whenever the next epoch may open.                   *)
ColdPlaceFree == (ready /\ mutex = NoThread) => cold = 0

(* epoch.h: calls to epoch_reclaimed() are serialised; two threads never   *)
(* run global_quiesce() together, nor does one run beside a new opening.   *)
OneQuiescer == \A t, u \in Threads :
    (pc[t] \in {"q_swap", "q_ready"} /\ pc[u] \in {"q_swap", "q_ready", "n_scan", "n_end"})
        => t = u

(* The manager keeps the contract its clients are modelled against: with   *)
(* every shared access a step of its own, its behaviours are those of      *)
(* EpochService, whose steps are atomic.                                   *)
Service == INSTANCE EpochService WITH
    epoch <- begin,
    active <- [t \in Threads |-> IF InTxn(t) THEN tbegin[t] ELSE 0]
ImplementsService == Service!SSpec

(* epoch.cpp:222 "the only impact of the false positive is to slow things  *)
(* down a bit", epoch.cpp:36 "until the last straggler finishes": once     *)
(* every transaction ends, the manager becomes ready for another epoch.    *)
ReadyAgain == ~ready ~> ready
=============================================================================
