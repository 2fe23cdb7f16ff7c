--------------------------- MODULE EpochMgrProofs ---------------------------
(***************************************************************************)
(* Safety of the epoch manager for every number of threads and epochs.     *)
(*                                                                         *)
(* The argument: a transaction is never older than the epoch before last.  *)
(* One that is exactly that old is tracked by the opening that made it so  *)
(* (still to be scanned, collected, or flagged), and nstragglers counts at *)
(* least the threads that owe a call of straggler_ended().  So when        *)
(* somebody runs global_quiesce() nobody is tracked, nobody is that old,   *)
(* and the cold epoch, closed before every running transaction began, is   *)
(* held by none of them.                                                   *)
(***************************************************************************)
EXTENDS EpochMgr, FiniteSetTheorems, TLAPS

(* The provers of a leaf that names none, and their seconds. *)
USE SMTT(10), ZenonT(30), SMTT(60)

Quiescing == {"q_swap", "q_ready"}
Scanning == {"n_scan", "n_end"}
Ending == {"z_end", "z_begin", "s_end"}

(* Threads that owe the manager a call of straggler_ended(). *)
Owing == flagged \cup {t \in Threads : pc[t] \in Ending}
         \cup {t \in found : \E u \in Threads : pc[u] = "n_flag"}

Marks == \A t \in Threads :
    /\ tmp[t] <= begin /\ tbegin[t] <= begin
    /\ pc[t] \in {"e_end0", "e_begin", "e_race"} => tmp[t] >= 1
    /\ pc[t] \in {"e_begin", "e_race", "z_begin"} => tend[t] = 0
    /\ pc[t] = "e_race" => tbegin[t] = tmp[t]
    /\ InTxn(t) => tend[t] = 0 /\ tbegin[t] >= 1
    /\ pc[t] \in CheckSteps \cup ExitSteps => ret[t] # "in"

Opener ==
    /\ \A t \in Threads : pc[t] \in OpenSteps <=> mutex = t
    /\ scan # {} => \E t \in Threads : pc[t] \in Scanning
    /\ found # {} => mutex # NoThread
    /\ \A t \in Threads : pc[t] = "n_end" => who \in scan
    /\ \A t \in Threads : pc[t] = "n_direct" => found = {}
    /\ \A t \in Threads : pc[t] \in Scanning \cup {"n_direct"} => ~ready

Quiet ==
    /\ \A t, u \in Threads : pc[t] \in Quiescing /\ pc[u] \in Quiescing => t = u
    /\ \A t \in Threads : pc[t] \in Quiescing =>
          /\ ~ready
          /\ \A u \in Threads : pc[u] \notin Scanning \cup {"n_direct"}
    /\ (ready \/ \E t \in Threads : pc[t] \in Quiescing \cup Scanning \cup {"n_direct"})
          => Owing = {}

Count ==
    /\ nstragglers >= Cardinality(Owing)
    /\ \A t \in Threads : pc[t] \in Ending => t \notin flagged
    /\ \A t \in found : t \notin flagged /\ pc[t] \notin Ending

Tracked(t) ==
    \/ /\ t \in scan
       /\ (who = t /\ \E u \in Threads : pc[u] = "n_end") => saw = begin - 2
    \/ t \in found
    \/ t \in flagged

StaleTracked == \A t \in Threads :
    InTxn(t) /\ tbegin[t] < begin - 1 => tbegin[t] = begin - 2 /\ Tracked(t)

Cookies ==
    /\ end <= begin
    /\ cold = 0 \/ cold < begin - 1
    /\ cooling < begin
    /\ (\E t \in Threads : pc[t] \in Scanning) => cooling = 0 \/ cooling < begin - 1
    /\ (ready \/ \E t \in Threads : pc[t] \in Scanning \cup {"q_ready"}) => cold = 0

Held == \A e \in Epochs : \A t \in hold[e] : InTxn(t) /\ tbegin[t] <= e

Past == \A e \in reclaimed : e < begin /\ hold[e] = {}

IInv == TypeOK /\ Marks /\ Opener /\ Quiet /\ Count /\ StaleTracked /\ Cookies
        /\ Held /\ Past

-----------------------------------------------------------------------------

(* Cardinalities of sets of threads, as the straggler count needs them. *)
LEMMA ThreadCounts ==
    /\ Cardinality(Threads) \in Nat
    /\ \A S \in SUBSET Threads :
          /\ IsFiniteSet(S) /\ Cardinality(S) \in 0..Cardinality(Threads)
          /\ (Cardinality(S) = 0) <=> (S = {})
          /\ \A t \in S : Cardinality(S \ {t}) = Cardinality(S) - 1
          /\ \A R \in SUBSET S : Cardinality(R) <= Cardinality(S)
<1>1. Cardinality(Threads) \in Nat
  BY ThreadsAssumption, FS_CardinalityType
<1>2. ASSUME NEW S \in SUBSET Threads
      PROVE  /\ IsFiniteSet(S) /\ Cardinality(S) \in 0..Cardinality(Threads)
             /\ (Cardinality(S) = 0) <=> (S = {})
             /\ \A t \in S : Cardinality(S \ {t}) = Cardinality(S) - 1
             /\ \A R \in SUBSET S : Cardinality(R) <= Cardinality(S)
  <2>1. IsFiniteSet(S) /\ Cardinality(S) <= Cardinality(Threads)
    BY ThreadsAssumption, FS_Subset
  <2>2. Cardinality(S) \in Nat
    BY <2>1, FS_CardinalityType
  <2>3. (Cardinality(S) = 0) <=> (S = {})
    BY <2>1, FS_EmptySet
  <2>4. \A t \in S : Cardinality(S \ {t}) = Cardinality(S) - 1
    BY <2>1, FS_RemoveElement
  <2>5. \A R \in SUBSET S : Cardinality(R) <= Cardinality(S)
    BY <2>1, FS_Subset
  <2>6. QED BY <1>1, <2>1, <2>2, <2>3, <2>4, <2>5
<1>3. QED BY <1>1, <1>2

(* A step that concerns only its own thread: the manager is left alone,    *)
(* and the thread neither opens, nor quiesces, nor becomes or ceases to be *)
(* one that owes straggler_ended().                                        *)
Local(t) ==
    /\ UNCHANGED <<state, opening, flagged, reclaimed>>
    /\ pc[t] \notin OpenSteps \cup Quiescing /\ pc'[t] \notin OpenSteps \cup Quiescing
    /\ pc[t] \in Ending <=> pc'[t] \in Ending
    /\ \A u \in Threads \ {t} : pc'[u] = pc[u] /\ ret'[u] = ret[u] /\ tbegin'[u] = tbegin[u]
    /\ InTxn(t)' => tbegin'[t] >= begin - 1
    /\ Forget(t) \/ (hold' = hold /\ ~InTxn(t))

(* Such a step disturbs no part of the invariant but the thread's own marks. *)
LEMMA LocalStep ==
    ASSUME IInv, NEW t \in Threads, Local(t), TypeOK'
    PROVE  Opener' /\ Quiet' /\ Count' /\ StaleTracked' /\ Cookies' /\ Held' /\ Past'
<1> USE DEF Epochs, state, opening, OpenSteps, Scanning, Quiescing, Ending
<1>0. TypeOK /\ Opener /\ Quiet /\ Count /\ StaleTracked /\ Cookies /\ Held /\ Past
  BY DEF IInv
<1>1. \A u \in Threads : \A l \in OpenSteps \cup Quiescing : pc'[u] = l <=> pc[u] = l
  BY DEF Local
<1>2. Owing' = Owing
  BY ZenonT(60), ZenonT(90), <1>0, <1>1 DEF TypeOK, Local, Owing
<1>3. Opener'
  BY ZenonT(60), ZenonT(90), <1>0, <1>1 DEF TypeOK, Local, Opener
<1>4. Quiet'
  BY ZenonT(60), ZenonT(90), <1>0, <1>1, <1>2 DEF TypeOK, Local, Quiet
<1>5. Count'
  BY ZenonT(60), ZenonT(90), <1>0, <1>2 DEF TypeOK, Local, Count
<1>6. StaleTracked'
  <2>1. ASSUME NEW u \in Threads, InTxn(u)', tbegin'[u] < begin - 1
        PROVE  u # t /\ InTxn(u)
    <3>1. tbegin'[t] \in Int /\ begin \in Int
      BY <1>0 DEF TypeOK
    <3>2. u # t
      BY <2>1, <3>1 DEF Local
    <3>3. QED BY <2>1, <3>2 DEF Local, InTxn
  <2>2. \A u \in Threads : u # t /\ Tracked(u) => Tracked(u)'
    BY <1>0, <1>1 DEF TypeOK, Local, Tracked
  <2>3. QED BY <1>0, <2>1, <2>2 DEF TypeOK, Local, StaleTracked
<1>7. Cookies'
  BY <1>0, <1>1 DEF TypeOK, Local, Cookies
<1>8. \A e \in Epochs : hold'[e] \subseteq hold[e] /\ t \notin hold'[e]
  <2>1. CASE Forget(t)
    BY <2>1 DEF Forget
  <2>2. CASE hold' = hold /\ ~InTxn(t)
    BY <1>0, <2>2 DEF Held
  <2>3. QED BY <2>1, <2>2 DEF Local
<1>9. Held'
  <2>1. \A u \in Threads \ {t} : InTxn(u)' = InTxn(u)
    BY DEF Local, InTxn
  <2>2. QED BY ZenonT(60), ZenonT(90), <1>0, <1>8, <2>1 DEF TypeOK, Local, Held
<1>10. Past'
  BY <1>0, <1>8 DEF TypeOK, Local, Past
<1>11. QED BY <1>3, <1>4, <1>5, <1>6, <1>7, <1>9, <1>10

(* thread_init() and thread_fini() keep the invariant. *)
LEMMA RegisterStep ==
    ASSUME IInv, NEW t \in Threads, ThreadInit(t) \/ ThreadFini(t)
    PROVE  IInv'
<1> USE ThreadsAssumption, MaxEpochAssumption
    DEF Epochs, Goto, state, opening, history, ts, OpenSteps, QuiesceSteps, EnterSteps,
        ExitSteps, CheckSteps, Scanning, Quiescing, Ending
<1>0. TypeOK /\ Marks /\ Opener /\ Quiet /\ Count /\ StaleTracked /\ Cookies /\ Held /\ Past
  BY DEF IInv
<1>1. CASE ThreadInit(t)
  <2>1. TypeOK' BY <1>0, <1>1, SMTT(30), SMTT(60) DEF TypeOK, ThreadInit, Labels
  <2>2. Marks' BY <1>0, <1>1, SMTT(30), SMTT(60) DEF TypeOK, ThreadInit, Marks, InTxn
  <2>3. Local(t) BY <1>0, <1>1, SMTT(30), SMTT(60) DEF TypeOK, ThreadInit, Local, InTxn
  <2>4. QED BY <1>0, <2>1, <2>2, <2>3, LocalStep DEF IInv
<1>2. CASE ThreadFini(t)
  <2>1. TypeOK'
    <3>1. /\ pc' \in [Threads -> Labels]
          /\ tbegin' \in [Threads -> 0..MaxEpoch] /\ tend' \in [Threads -> 0..MaxEpoch]
          /\ flagged' \subseteq Threads
      BY <1>0, <1>2 DEF TypeOK, ThreadFini, Labels
    <3>2. /\ begin' \in Epochs /\ end' \in Epochs /\ cooling' \in 0..MaxEpoch
          /\ reclaimed' \subseteq Epochs
          /\ <<ready', nstragglers', cold', hold'>> = <<ready, nstragglers, cold, hold>>
      <4>1. CASE Registered = {t}
        <5>1. /\ begin' = begin + 1 /\ end' = begin + 1 /\ begin < MaxEpoch /\ cooling' = 0
              /\ reclaimed' = reclaimed \cup ({cooling, begin} \ {0})
              /\ <<ready', nstragglers', cold', hold'>> = <<ready, nstragglers, cold, hold>>
          BY <1>2, <4>1 DEF ThreadFini
        <5>2. begin \in 1..MaxEpoch /\ cooling \in 0..MaxEpoch /\ reclaimed \subseteq 1..MaxEpoch
          BY <1>0 DEF TypeOK
        <5>3. QED BY <5>1, <5>2
      <4>2. CASE Registered # {t}
        BY ZenonT(60), ZenonT(90), <1>0, <1>2, <4>2 DEF TypeOK, ThreadFini
      <4>3. QED BY <4>1, <4>2
    <3>3. <<mutex', scan', found', who', saw', ret', tmp'>> = <<mutex, scan, found, who, saw, ret, tmp>>
      BY <1>2 DEF ThreadFini
    <3>4. QED BY ZenonT(60), ZenonT(90), <1>0, <3>1, <3>2, <3>3 DEF TypeOK
  <2>2. Marks' BY <1>0, <1>2, SMTT(30), SMTT(60) DEF TypeOK, ThreadFini, Registered, InTxn,
       Marks, Cookies
  <2>3. Opener' BY <1>0, <1>2, SMTT(30), SMTT(60) DEF TypeOK, ThreadFini, Registered, Opener,
       Quiet
  <2>4. Owing' \subseteq Owing BY <1>0, <1>2, SMTT(30), SMTT(60) DEF TypeOK, ThreadFini,
       Registered, Owing, Opener, Count, Quiet
  <2>5. Quiet' BY <1>0, <1>2, <2>4, SMTT(30), SMTT(60) DEF TypeOK, ThreadFini, Registered, Quiet,
       Opener
  <2>6. Count'
    <3>1. Cardinality(Owing') <= Cardinality(Owing)
      BY ZenonT(60), ZenonT(90), <1>0, <2>4, ThreadCounts DEF Owing, TypeOK
    <3>2. Cardinality(Owing) \in Nat /\ Cardinality(Owing') \in Nat
      BY <1>0, <2>4, ThreadCounts DEF Owing, TypeOK
    <3>3. nstragglers' = nstragglers
      BY <1>0, <1>2 DEF TypeOK, ThreadFini
    <3>4. nstragglers' >= Cardinality(Owing')
      BY <1>0, <3>1, <3>2, <3>3 DEF Count, TypeOK
    <3>5. QED BY <1>0, <1>2, <3>4 DEF TypeOK, ThreadFini, Count
  <2>7. StaleTracked'
    <3>1. CASE Registered = {t}
      BY <1>0, <1>2, <3>1 DEF TypeOK, ThreadFini, Registered, StaleTracked, InTxn
    <3>2. CASE Registered # {t}
      BY <1>0, <1>2, <3>2 DEF TypeOK, ThreadFini, StaleTracked, Tracked, InTxn
    <3>3. QED BY <3>1, <3>2
  <2>8. Cookies' BY <1>0, <1>2, SMTT(30), SMTT(60) DEF TypeOK, ThreadFini, Registered, Cookies,
       Opener, Quiet
  <2>9. Held' BY ZenonT(60), ZenonT(90), <1>0, <1>2, SMTT(30), SMTT(60) DEF TypeOK, ThreadFini, Registered, Held, InTxn,
       Marks
  <2>10. Past'
    <3>1. CASE Registered = {t}
      <4>1. \A u \in Threads : ~InTxn(u)
        BY <1>0, <1>2, <3>1 DEF TypeOK, ThreadFini, Registered, InTxn
      <4>2. \A e \in Epochs : hold[e] = {}
        BY <1>0, <4>1 DEF Held, TypeOK
      <4>3. begin' = begin + 1 /\ reclaimed' \subseteq reclaimed \cup {cooling, begin} /\ hold' = hold
        BY <1>0, <1>2, <3>1 DEF TypeOK, ThreadFini
      <4>4. reclaimed' \subseteq Epochs
        BY <2>1 DEF TypeOK
      <4>5. \A e \in reclaimed' : e < begin'
        BY <1>0, <4>3 DEF TypeOK, Past, Cookies
      <4>6. QED BY <4>2, <4>3, <4>4, <4>5 DEF Past
    <3>2. CASE Registered # {t}
      <4>1. begin' = begin /\ hold' = hold /\ reclaimed' = reclaimed
        BY <1>2, <3>2 DEF ThreadFini
      <4>2. QED BY <1>0, <4>1 DEF Past
    <3>3. QED BY <3>1, <3>2
  <2>11. QED BY <2>1, <2>2, <2>3, <2>5, <2>6, <2>7, <2>8, <2>9, <2>10 DEF IInv
<1>3. QED BY <1>1, <1>2

(* The steps of thread_enter() keep the invariant: a thread that joins has
     read state->begin at most one epoch ago. *)
LEMMA EnterStep ==
    ASSUME IInv, NEW t \in Threads, Enter(t)
    PROVE  IInv'
<1> USE ThreadsAssumption, MaxEpochAssumption
    DEF Epochs, Goto, state, opening, history, ts, OpenSteps, QuiesceSteps, EnterSteps,
        ExitSteps, CheckSteps, Scanning, Quiescing, Ending
<1>0. TypeOK /\ Marks /\ Opener /\ Quiet /\ Count /\ StaleTracked /\ Cookies /\ Held /\ Past
  BY DEF IInv
<1>1. CASE EnterRead(t)
  <2>1. TypeOK' BY <1>0, <1>1, SMTT(30), SMTT(60) DEF TypeOK, EnterRead, Labels
  <2>2. Marks' BY <1>0, <1>1, SMTT(30), SMTT(60) DEF TypeOK, EnterRead, Marks, InTxn
  <2>3. Local(t) BY <1>0, <1>1, SMTT(30), SMTT(60) DEF TypeOK, EnterRead, Local, InTxn
  <2>4. QED BY <1>0, <2>1, <2>2, <2>3, LocalStep DEF IInv
<1>2. CASE EnterClearEnd(t)
  <2>1. TypeOK' BY <1>0, <1>2, SMTT(30), SMTT(60) DEF TypeOK, EnterClearEnd, Labels
  <2>2. Marks' BY <1>0, <1>2, SMTT(30), SMTT(60) DEF TypeOK, EnterClearEnd, Marks, InTxn
  <2>3. Local(t) BY <1>0, <1>2, SMTT(30), SMTT(60) DEF TypeOK, EnterClearEnd, Local, InTxn
  <2>4. QED BY <1>0, <2>1, <2>2, <2>3, LocalStep DEF IInv
<1>3. CASE EnterSetBegin(t)
  <2>1. TypeOK' BY <1>0, <1>3, SMTT(30), SMTT(60) DEF TypeOK, EnterSetBegin, Labels
  <2>2. Marks' BY <1>0, <1>3, SMTT(30), SMTT(60) DEF TypeOK, EnterSetBegin, Marks, InTxn
  <2>3. Local(t) BY <1>0, <1>3, SMTT(30), SMTT(60) DEF TypeOK, EnterSetBegin, Local, InTxn
  <2>4. QED BY <1>0, <2>1, <2>2, <2>3, LocalStep DEF IInv
<1>4. CASE EnterRaced(t)
  <2>1. TypeOK' BY <1>0, <1>4, SMTT(30), SMTT(60) DEF TypeOK, EnterRaced, AfterRace, Labels
  <2>2. Marks' BY <1>0, <1>4, SMTT(30), SMTT(60) DEF TypeOK, EnterRaced, AfterRace, Marks, InTxn
  <2>3. Local(t) BY <1>0, <1>4, SMTT(30), SMTT(60) DEF TypeOK, EnterRaced, AfterRace, Local,
       InTxn, Marks
  <2>4. QED BY <1>0, <2>1, <2>2, <2>3, LocalStep DEF IInv
<1>5. CASE EnterBailOut(t)
  <2>1. TypeOK' BY ZenonT(60), ZenonT(90), <1>0, <1>5, SMTT(30), SMTT(60) DEF TypeOK, EnterBailOut, Labels
  <2>2. Marks' BY <1>0, <1>5, SMTT(30), SMTT(60) DEF TypeOK, EnterBailOut, Marks, InTxn
  <2>3. Local(t) BY <1>0, <1>5, SMTT(30), SMTT(60) DEF TypeOK, EnterBailOut, Local, InTxn
  <2>4. QED BY <1>0, <2>1, <2>2, <2>3, LocalStep DEF IInv
<1>6. QED BY <1>1, <1>2, <1>3, <1>4, <1>5 DEF Enter

(* The steps of thread_exit() keep the invariant. *)
LEMMA ExitStep ==
    ASSUME IInv, NEW t \in Threads, Exit(t)
    PROVE  IInv'
<1> USE ThreadsAssumption, MaxEpochAssumption
    DEF Epochs, Goto, state, opening, history, ts, OpenSteps, QuiesceSteps, EnterSteps,
        ExitSteps, CheckSteps, Scanning, Quiescing, Ending
<1>0. TypeOK /\ Marks /\ Opener /\ Quiet /\ Count /\ StaleTracked /\ Cookies /\ Held /\ Past
  BY DEF IInv
<1>1. CASE ExitRead(t)
  <2>1. TypeOK' BY <1>0, <1>1, SMTT(30), SMTT(60) DEF TypeOK, ExitRead, Forget, Labels
  <2>2. Marks' BY <1>0, <1>1, SMTT(30), SMTT(60) DEF TypeOK, ExitRead, Forget, Marks, InTxn
  <2>3. Local(t) BY <1>0, <1>1, SMTT(30), SMTT(60) DEF TypeOK, ExitRead, Forget, Local, InTxn
  <2>4. QED BY <1>0, <2>1, <2>2, <2>3, LocalStep DEF IInv
<1>2. CASE ExitSetEnd(t)
  <2>1. TypeOK' BY ZenonT(60), ZenonT(90), <1>0, <1>2, SMTT(30), SMTT(60) DEF TypeOK, ExitSetEnd, Labels
  <2>2. Marks' BY ZenonT(60), ZenonT(90), <1>0, <1>2, SMTT(30), SMTT(60) DEF TypeOK, ExitSetEnd, Marks, InTxn
  <2>3. Local(t) BY <1>0, <1>2, SMTT(30), SMTT(60) DEF TypeOK, ExitSetEnd, Local, InTxn
  <2>4. QED BY <1>0, <2>1, <2>2, <2>3, LocalStep DEF IInv
<1>3. CASE ExitRecheck(t)
  <2>1. TypeOK' BY <1>0, <1>3, SMTT(30), SMTT(60) DEF TypeOK, ExitRecheck, Labels
  <2>2. Marks' BY ZenonT(60), ZenonT(90), <1>0, <1>3, SMTT(30), SMTT(60) DEF TypeOK, ExitRecheck, Marks, InTxn, Cookies
  <2>3. Local(t) BY <1>0, <1>3, SMTT(30), SMTT(60) DEF TypeOK, ExitRecheck, Local, InTxn
  <2>4. QED BY <1>0, <2>1, <2>2, <2>3, LocalStep DEF IInv
<1>4. QED BY <1>1, <1>2, <1>3 DEF Exit

(* straggler_check(), straggler_ended() and global_quiesce() keep the
     invariant: the last straggler quiesces alone. *)
LEMMA CheckStep ==
    ASSUME IInv, NEW t \in Threads, Check(t)
    PROVE  IInv'
<1> USE ThreadsAssumption, MaxEpochAssumption
    DEF Epochs, Goto, state, opening, history, ts, OpenSteps, QuiesceSteps, EnterSteps,
        ExitSteps, CheckSteps, Scanning, Quiescing, Ending
<1>0. TypeOK /\ Marks /\ Opener /\ Quiet /\ Count /\ StaleTracked /\ Cookies /\ Held /\ Past
  BY DEF IInv
<1>1. CASE CheckProgress(t)
  <2>1. TypeOK' BY <1>0, <1>1, SMTT(30), SMTT(60) DEF TypeOK, CheckProgress, Labels
  <2>2. Marks' BY ZenonT(60), ZenonT(90), <1>0, <1>1, SMTT(30), SMTT(60) DEF TypeOK, CheckProgress, Marks, InTxn
  <2>3. Local(t) BY <1>0, <1>1, SMTT(30), SMTT(60) DEF TypeOK, CheckProgress, Local, InTxn
  <2>4. QED BY <1>0, <2>1, <2>2, <2>3, LocalStep DEF IInv
<1>2. CASE CheckWait(t)
  <2>1. TypeOK' BY <1>0, <1>2, SMTT(30), SMTT(60) DEF TypeOK, CheckWait, Labels
  <2>2. Marks' BY <1>0, <1>2, SMTT(30), SMTT(60) DEF TypeOK, CheckWait, Marks, InTxn
  <2>3. Local(t) BY <1>0, <1>2, SMTT(30), SMTT(60) DEF TypeOK, CheckWait, Local, InTxn
  <2>4. QED BY <1>0, <2>1, <2>2, <2>3, LocalStep DEF IInv
<1>3. CASE CheckFlag(t)
  <2>p. pc'[t] = (IF t \in flagged THEN "s_end" ELSE ret[t]) /\ ret[t] \in {"out",
       "e_retry"} /\ ret[t] \in {"in", "out", "e_retry"} /\ \A u \in Threads : u # t =>
       pc'[u] = pc[u] BY <1>0, <1>3 DEF TypeOK, CheckFlag, ClearFlag, Marks
  <2>1. TypeOK' BY <1>0, <1>3, <2>p, SMTT(30), SMTT(60) DEF TypeOK, CheckFlag, ClearFlag, Labels
  <2>2. Marks' BY <1>0, <1>3, <2>p, SMTT(30), SMTT(60) DEF TypeOK, CheckFlag, ClearFlag, InTxn,
       Marks, Cookies
  <2>3. Opener' BY <1>0, <1>3, <2>p, SMTT(30), SMTT(60) DEF TypeOK, CheckFlag, ClearFlag, Opener,
       Quiet
  <2>4. Owing' = Owing BY <1>0, <1>3, <2>p, SMTT(30), SMTT(60) DEF TypeOK, CheckFlag, ClearFlag,
       Owing, Opener, Count, Quiet
  <2>5. Quiet' BY <1>0, <1>3, <2>p, <2>4, SMTT(30), SMTT(60) DEF TypeOK, CheckFlag, ClearFlag,
       Quiet, Opener
  <2>6. Count' BY <1>0, <1>3, <2>p, <2>4, SMTT(30), SMTT(60) DEF TypeOK, CheckFlag, ClearFlag,
       Count
  <2>7. StaleTracked' BY <1>0, <1>3, <2>p, SMTT(30), SMTT(60) DEF TypeOK, CheckFlag, ClearFlag,
       StaleTracked, Tracked, InTxn, Marks, Opener, Quiet, Owing
  <2>8. Cookies' BY <1>0, <1>3, <2>p, SMTT(30), SMTT(60) DEF TypeOK, CheckFlag, ClearFlag,
       Cookies, Opener, Quiet
  <2>9. Held' BY <1>0, <1>3, <2>p, SMTT(30), SMTT(60) DEF TypeOK, CheckFlag, ClearFlag, Held,
       InTxn, Marks
  <2>10. Past' BY <1>0, <1>3, <2>p, SMTT(30), SMTT(60) DEF TypeOK, CheckFlag, ClearFlag, Past,
       Held, InTxn, Marks, Cookies
  <2>11. QED BY <2>1, <2>2, <2>3, <2>5, <2>6, <2>7, <2>8, <2>9, <2>10 DEF IInv
<1>4. CASE StragglerEnded(t)
  <2>p. pc'[t] = (IF nstragglers = 1 THEN "q_swap" ELSE ret[t]) /\ ret[t] \in {"in",
       "out", "e_retry"} /\ \A u \in Threads : u # t => pc'[u] = pc[u] BY <1>0, <1>4
       DEF TypeOK, StragglerEnded, Marks
  <2>0. /\ pc[t] = "s_end" /\ t \in Owing /\ Owing \in SUBSET Threads
    BY <1>0, <1>4 DEF TypeOK, StragglerEnded, Owing
  <2>n. /\ nstragglers >= 1
        /\ nstragglers = 1 => Owing = {t}
    <3>1. Cardinality(Owing) \in Nat /\ Cardinality(Owing) # 0
      BY <2>0, ThreadCounts
    <3>2. Owing \ {t} \in SUBSET Threads /\ Cardinality(Owing \ {t}) = Cardinality(Owing) - 1
      BY <2>0, ThreadCounts
    <3>3. nstragglers = 1 => Cardinality(Owing \ {t}) = 0
      BY <1>0, <3>1, <3>2 DEF Count, TypeOK
    <3>4. nstragglers = 1 => Owing \ {t} = {}
      BY ZenonT(60), ZenonT(90), <3>2, <3>3, ThreadCounts
    <3>5. nstragglers >= 1
      BY <1>0, <3>1 DEF Count, TypeOK
    <3>6. QED BY <2>0, <3>4, <3>5
  <2>1. TypeOK'
    <3>1. nstragglers' \in 0..Cardinality(Threads)
      BY <1>0, <1>4, <2>n, ThreadCounts DEF TypeOK, StragglerEnded
    <3>2. pc' \in [Threads -> Labels]
      BY <1>0, <1>4, <2>p DEF TypeOK, StragglerEnded, Labels
    <3>3. QED BY ZenonT(60), ZenonT(90), <1>0, <1>4, <3>1, <3>2 DEF TypeOK, StragglerEnded
  <2>2. Marks' BY <1>0, <1>4, <2>p, SMTT(30), SMTT(60) DEF TypeOK, StragglerEnded, InTxn, Marks,
       Cookies
  <2>3. Opener' BY <1>0, <1>4, <2>p, SMTT(30), SMTT(60) DEF TypeOK, StragglerEnded, Opener, Quiet
  <2>4. t \in Owing /\ Owing' = Owing \ {t} BY <1>0, <1>4, <2>p, SMTT(30), SMTT(60) DEF TypeOK,
       StragglerEnded, Owing, Opener, Count, Quiet
  <2>5. Quiet'
    <3>1. ~ready /\ \A u \in Threads : pc[u] \notin Quiescing \cup Scanning \cup {"n_direct"}
      BY <1>0, <2>0 DEF Quiet
    <3>2. CASE nstragglers = 1
      <4>1. Owing' = {}
        BY <2>4, <2>n, <3>2
      <4>2. QED BY <1>0, <1>4, <2>p, <3>1, <3>2, <4>1 DEF TypeOK, StragglerEnded, Quiet
    <3>3. CASE nstragglers # 1
      BY <1>0, <1>4, <2>p, <3>1, <3>3 DEF TypeOK, StragglerEnded, Quiet
    <3>4. QED BY <3>2, <3>3
  <2>6. Count'
    <3>1. nstragglers' >= Cardinality(Owing')
      <4>1. Cardinality(Owing \ {t}) = Cardinality(Owing) - 1 /\ Cardinality(Owing) \in Nat
        BY <2>0, ThreadCounts
      <4>2. QED BY <1>0, <1>4, <2>4, <4>1 DEF TypeOK, StragglerEnded, Count
    <3>2. QED BY <1>0, <1>4, <2>p, <3>1 DEF TypeOK, StragglerEnded, Count
  <2>7. StaleTracked' BY <1>0, <1>4, <2>p, SMTT(30), SMTT(60) DEF TypeOK, StragglerEnded,
       StaleTracked, Tracked, InTxn, Marks, Opener, Quiet, Owing
  <2>8. Cookies' BY <1>0, <1>4, <2>p, SMTT(30), SMTT(60) DEF TypeOK, StragglerEnded, Cookies,
       Opener, Quiet
  <2>9. Held' BY <1>0, <1>4, <2>p, SMTT(30), SMTT(60) DEF TypeOK, StragglerEnded, Held, InTxn,
       Marks
  <2>10. Past' BY <1>0, <1>4, <2>p, SMTT(30), SMTT(60) DEF TypeOK, StragglerEnded, Past, Held,
       InTxn, Marks, Cookies
  <2>11. QED BY <2>1, <2>2, <2>3, <2>5, <2>6, <2>7, <2>8, <2>9, <2>10 DEF IInv
<1>5. CASE Reclaim(t)
  <2>1. TypeOK' BY <1>0, <1>5, SMTT(30), SMTT(60) DEF TypeOK, Reclaim, TakeColdCookie, Labels
  <2>2. Marks' BY <1>0, <1>5, SMTT(30), SMTT(60) DEF TypeOK, Reclaim, TakeColdCookie, InTxn,
       Marks, Cookies
  <2>3. Opener' BY <1>0, <1>5, SMTT(30), SMTT(60) DEF TypeOK, Reclaim, TakeColdCookie, Opener,
       Quiet
  <2>4. Owing' = Owing BY <1>0, <1>5, SMTT(30), SMTT(60) DEF TypeOK, Reclaim, TakeColdCookie,
       Owing, Opener, Count, Quiet
  <2>5. Quiet' BY ZenonT(60), ZenonT(90), <1>0, <1>5, <2>4, SMTT(30), SMTT(60) DEF TypeOK, Reclaim, TakeColdCookie,
       Quiet, Opener
  <2>6. Count' BY <1>0, <1>5, <2>4, SMTT(30), SMTT(60) DEF TypeOK, Reclaim, TakeColdCookie, Count
  <2>7. StaleTracked' BY <1>0, <1>5, SMTT(30), SMTT(60) DEF TypeOK, Reclaim, TakeColdCookie,
       StaleTracked, Tracked, InTxn, Marks, Opener, Quiet, Owing
  <2>8. Cookies' BY <1>0, <1>5, SMTT(30), SMTT(60) DEF TypeOK, Reclaim, TakeColdCookie, Cookies,
       Opener, Quiet
  <2>9. Held' BY ZenonT(60), ZenonT(90), <1>0, <1>5, SMTT(30), SMTT(60) DEF TypeOK, Reclaim, TakeColdCookie, Held, InTxn,
       Marks
  <2>10. Past'
    <3>1. \A u \in Threads : ~Tracked(u)
      BY <1>0, <1>5 DEF TypeOK, Reclaim, Tracked, Quiet, Opener, Owing
    <3>2. \A u \in Threads : InTxn(u) => tbegin[u] >= begin - 1
      BY <1>0, <3>1 DEF TypeOK, StaleTracked
    <3>3. ASSUME cold # 0 PROVE hold[cold] = {} /\ cold < begin - 1
      BY <1>0, <3>2, <3>3 DEF TypeOK, Held, Cookies
    <3>4. QED BY <1>0, <1>5, <3>3 DEF TypeOK, Reclaim, Past
  <2>11. QED BY <2>1, <2>2, <2>3, <2>5, <2>6, <2>7, <2>8, <2>9, <2>10 DEF IInv
<1>6. CASE SetReady(t)
  <2>p. pc'[t] = ret[t] /\ ret[t] \in {"in", "out", "e_retry"} /\ \A u \in Threads : u
       # t => pc'[u] = pc[u] BY <1>0, <1>6 DEF TypeOK, SetReady, Marks
  <2>1. TypeOK' BY <1>0, <1>6, <2>p, SMTT(30), SMTT(60) DEF TypeOK, SetReady, Labels
  <2>2. Marks' BY ZenonT(60), ZenonT(90), <1>0, <1>6, <2>p, SMTT(30), SMTT(60) DEF TypeOK, SetReady, InTxn, Marks,
       Cookies
  <2>3. Opener' BY <1>0, <1>6, <2>p, SMTT(30), SMTT(60) DEF TypeOK, SetReady, Opener, Quiet
  <2>4. Owing' = Owing BY ZenonT(60), ZenonT(90), <1>0, <1>6, <2>p, SMTT(30), SMTT(60) DEF TypeOK, SetReady, Owing,
       Opener, Count, Quiet
  <2>5. Quiet' BY ZenonT(60), ZenonT(90), <1>0, <1>6, <2>p, <2>4, SMTT(30), SMTT(60) DEF TypeOK, SetReady, Quiet, Opener
  <2>6. Count' BY ZenonT(60), ZenonT(90), <1>0, <1>6, <2>p, <2>4, SMTT(30), SMTT(60) DEF TypeOK, SetReady, Count
  <2>7. StaleTracked' BY <1>0, <1>6, <2>p, SMTT(30), SMTT(60) DEF TypeOK, SetReady, StaleTracked,
       Tracked, InTxn, Marks, Opener, Quiet, Owing
  <2>8. Cookies' BY <1>0, <1>6, <2>p, SMTT(30), SMTT(60) DEF TypeOK, SetReady, Cookies, Opener,
       Quiet
  <2>9. Held' BY <1>0, <1>6, <2>p, SMTT(30), SMTT(60) DEF TypeOK, SetReady, Held, InTxn, Marks
  <2>10. Past' BY <1>0, <1>6, <2>p, SMTT(30), SMTT(60) DEF TypeOK, SetReady, Past, Held, InTxn,
       Marks, Cookies
  <2>11. QED BY <2>1, <2>2, <2>3, <2>5, <2>6, <2>7, <2>8, <2>9, <2>10 DEF IInv
<1>7. QED BY <1>1, <1>2, <1>3, <1>4, <1>5, <1>6 DEF Check

(* The steps of thread_quiesce() keep the invariant. *)
LEMMA QuiesceStep ==
    ASSUME IInv, NEW t \in Threads, Quiesce(t)
    PROVE  IInv'
<1> USE ThreadsAssumption, MaxEpochAssumption
    DEF Epochs, Goto, state, opening, history, ts, OpenSteps, QuiesceSteps, EnterSteps,
        ExitSteps, CheckSteps, Scanning, Quiescing, Ending
<1>0. TypeOK /\ Marks /\ Opener /\ Quiet /\ Count /\ StaleTracked /\ Cookies /\ Held /\ Past
  BY DEF IInv
<1>1. CASE QuiesceFlag(t)
  <2>1. TypeOK' BY ZenonT(60), ZenonT(90), <1>0, <1>1, SMTT(30), SMTT(60) DEF TypeOK, QuiesceFlag, ClearFlag, Forget,
       Labels
  <2>2. Marks' BY <1>0, <1>1, SMTT(30), SMTT(60) DEF TypeOK, QuiesceFlag, ClearFlag, Forget,
       InTxn, Marks, Cookies
  <2>3. Opener' BY ZenonT(60), ZenonT(90), <1>0, <1>1, SMTT(30), SMTT(60) DEF TypeOK, QuiesceFlag, ClearFlag, Forget,
       Opener, Quiet
  <2>4. Owing' = Owing BY <1>0, <1>1, SMTT(30), SMTT(60) DEF TypeOK, QuiesceFlag, ClearFlag,
       Forget, Owing, Opener, Count, Quiet
  <2>5. Quiet' BY <1>0, <1>1, <2>4, SMTT(30), SMTT(60) DEF TypeOK, QuiesceFlag, ClearFlag,
       Forget, Quiet, Opener
  <2>6. Count' BY ZenonT(60), ZenonT(90), <1>0, <1>1, <2>4, SMTT(30), SMTT(60) DEF TypeOK, QuiesceFlag, ClearFlag,
       Forget, Count
  <2>7. StaleTracked' BY <1>0, <1>1, SMTT(30), SMTT(60) DEF TypeOK, QuiesceFlag, ClearFlag,
       Forget, StaleTracked, Tracked, InTxn, Marks, Opener, Quiet, Owing
  <2>8. Cookies' BY <1>0, <1>1, SMTT(30), SMTT(60) DEF TypeOK, QuiesceFlag, ClearFlag, Forget,
       Cookies, Opener, Quiet
  <2>9. Held' BY <1>0, <1>1, SMTT(30), SMTT(60) DEF TypeOK, QuiesceFlag, ClearFlag, Forget, Held,
       InTxn, Marks
  <2>10. Past' BY <1>0, <1>1, SMTT(30), SMTT(60) DEF TypeOK, QuiesceFlag, ClearFlag, Forget,
       Past, Held, InTxn, Marks, Cookies
  <2>11. QED BY <2>1, <2>2, <2>3, <2>5, <2>6, <2>7, <2>8, <2>9, <2>10 DEF IInv
<1>2. CASE QuiesceClearEnd(t)
  <2>1. TypeOK' BY <1>0, <1>2, SMTT(30), SMTT(60) DEF TypeOK, QuiesceClearEnd, Labels
  <2>2. Marks' BY <1>0, <1>2, SMTT(30), SMTT(60) DEF TypeOK, QuiesceClearEnd, Marks, InTxn
  <2>3. Local(t) BY <1>0, <1>2, SMTT(30), SMTT(60) DEF TypeOK, QuiesceClearEnd, Local, InTxn
  <2>4. QED BY <1>0, <2>1, <2>2, <2>3, LocalStep DEF IInv
<1>3. CASE QuiesceSetBegin(t)
  <2>1. TypeOK' BY <1>0, <1>3, SMTT(30), SMTT(60) DEF TypeOK, QuiesceSetBegin, Labels
  <2>2. Marks' BY <1>0, <1>3, SMTT(30), SMTT(60) DEF TypeOK, QuiesceSetBegin, Marks, InTxn
  <2>3. Local(t) BY <1>0, <1>3, SMTT(30), SMTT(60) DEF TypeOK, QuiesceSetBegin, Local, InTxn
  <2>4. QED BY <1>0, <2>1, <2>2, <2>3, LocalStep DEF IInv
<1>4. QED BY <1>1, <1>2, <1>3 DEF Quiesce

(* The steps of new_epoch() keep the invariant: it tracks every transaction
     that becomes stale. *)
LEMMA OpenStep ==
    ASSUME IInv, NEW t \in Threads, Open(t)
    PROVE  IInv'
<1> USE ThreadsAssumption, MaxEpochAssumption
    DEF Epochs, Goto, state, opening, history, ts, OpenSteps, QuiesceSteps, EnterSteps,
        ExitSteps, CheckSteps, Scanning, Quiescing, Ending
<1>0. TypeOK /\ Marks /\ Opener /\ Quiet /\ Count /\ StaleTracked /\ Cookies /\ Held /\ Past
  BY DEF IInv
<1>1. CASE NewEpoch(t)
  <2>1. TypeOK'
    <3>1. hold' \in [Epochs -> SUBSET Threads]
      BY <1>0, <1>1 DEF TypeOK, NewEpoch
    <3>2. ret' \in [Threads -> {"in", "out", "e_retry"}] /\ pc' \in [Threads -> Labels]
      BY <1>0, <1>1 DEF TypeOK, NewEpoch, Labels
    <3>3. scan' \subseteq Threads /\ found' \subseteq Threads /\ mutex' \in Threads
      BY <1>1 DEF NewEpoch, Registered
    <3>4. begin' \in Epochs
      <4>1. begin' = begin + 1 /\ begin < MaxEpoch
        BY <1>1 DEF NewEpoch
      <4>2. begin \in 1..MaxEpoch
        BY <1>0 DEF TypeOK
      <4>3. QED BY <4>1, <4>2
    <3>5. ready' \in BOOLEAN
      BY ZenonT(60), ZenonT(90), <1>1 DEF NewEpoch, NotReady
    <3>6. QED BY ZenonT(60), ZenonT(90), <1>0, <1>1, <3>1, <3>2, <3>3, <3>4, <3>5 DEF TypeOK, NewEpoch
  <2>2. Marks' BY <1>0, <1>1, SMTT(30), SMTT(60) DEF TypeOK, NewEpoch, MayOpen, NotReady,
       Registered, InTxn, Marks, Cookies
  <2>3. Opener' BY <1>0, <1>1, SMTT(30), SMTT(60) DEF TypeOK, NewEpoch, MayOpen, NotReady,
       Registered, Opener, Quiet
  <2>4. Owing' = Owing BY <1>0, <1>1, SMTT(30), SMTT(60) DEF TypeOK, NewEpoch, MayOpen, NotReady,
       Registered, Owing, Opener, Count, Quiet
  <2>5. Quiet' BY <1>0, <1>1, <2>4, SMTT(30), SMTT(60) DEF TypeOK, NewEpoch, MayOpen, NotReady,
       Registered, Quiet, Opener
  <2>6. Count' BY <1>0, <1>1, <2>4, SMTT(30), SMTT(60) DEF TypeOK, NewEpoch, MayOpen, NotReady,
       Registered, Count
  <2>7. StaleTracked'
    <3>1. \A u \in Threads : ~Tracked(u)
      BY <1>0, <1>1 DEF TypeOK, NewEpoch, MayOpen, Tracked, Quiet, Opener, Owing
    <3>2. \A u \in Threads : InTxn(u) => tbegin[u] >= begin - 1
      BY <1>0, <3>1 DEF TypeOK, StaleTracked
    <3>3. \A u \in Threads : InTxn(u)' => InTxn(u) /\ u \in scan'
      BY ZenonT(60), ZenonT(90), <1>0, <1>1 DEF TypeOK, NewEpoch, InTxn, Registered
    <3>4. \A u \in Threads : pc'[u] # "n_end"
      BY <1>0, <1>1 DEF TypeOK, NewEpoch, MayOpen, Opener
    <3>5. QED BY <1>0, <1>1, <3>2, <3>3, <3>4 DEF TypeOK, NewEpoch, StaleTracked, Tracked
  <2>8. Cookies' BY <1>0, <1>1, SMTT(30), SMTT(60) DEF TypeOK, NewEpoch, MayOpen, NotReady,
       Registered, Cookies, Opener, Quiet
  <2>9. Held' BY <1>0, <1>1, SMTT(30), SMTT(60) DEF TypeOK, NewEpoch, MayOpen, NotReady,
       Registered, Held, InTxn, Marks
  <2>10. Past' BY <1>0, <1>1, SMTT(30), SMTT(60) DEF TypeOK, NewEpoch, MayOpen, NotReady,
       Registered, Past, Held, InTxn, Marks, Cookies
  <2>11. QED BY ZenonT(60), ZenonT(90), <2>1, <2>2, <2>3, <2>5, <2>6, <2>7, <2>8, <2>9, <2>10 DEF IInv
<1>2. CASE ScanBegin(t)
  <2>1. TypeOK' BY <1>0, <1>2, SMTT(30), SMTT(60) DEF TypeOK, ScanBegin, Labels
  <2>2. Marks' BY <1>0, <1>2, SMTT(30), SMTT(60) DEF TypeOK, ScanBegin, InTxn, Marks, Cookies
  <2>3. Opener' BY <1>0, <1>2, SMTT(30), SMTT(60) DEF TypeOK, ScanBegin, Opener, Quiet
  <2>4. Owing' = Owing BY <1>0, <1>2, SMTT(30), SMTT(60) DEF TypeOK, ScanBegin, Owing, Opener,
       Count, Quiet
  <2>5. Quiet' BY <1>0, <1>2, <2>4, SMTT(30), SMTT(60) DEF TypeOK, ScanBegin, Quiet, Opener
  <2>6. Count' BY <1>0, <1>2, <2>4, SMTT(30), SMTT(60) DEF TypeOK, ScanBegin, Count
  <2>7. StaleTracked' BY <1>0, <1>2, SMTT(30), SMTT(60) DEF TypeOK, ScanBegin, StaleTracked,
       Tracked, InTxn, Marks, Opener, Quiet, Owing
  <2>8. Cookies' BY <1>0, <1>2, SMTT(30), SMTT(60) DEF TypeOK, ScanBegin, Cookies, Opener, Quiet
  <2>9. Held' BY ZenonT(60), ZenonT(90), <1>0, <1>2, SMTT(30), SMTT(60) DEF TypeOK, ScanBegin, Held, InTxn, Marks
  <2>10. Past' BY <1>0, <1>2, SMTT(30), SMTT(60) DEF TypeOK, ScanBegin, Past, Held, InTxn, Marks,
       Cookies
  <2>11. QED BY ZenonT(60), ZenonT(90), <2>1, <2>2, <2>3, <2>5, <2>6, <2>7, <2>8, <2>9, <2>10 DEF IInv
<1>3. CASE ScanEnd(t)
  <2>1. TypeOK' BY ZenonT(60), ZenonT(90), <1>0, <1>3 DEF TypeOK, ScanEnd, Opener, Labels
  <2>2. Marks' BY ZenonT(60), ZenonT(90), <1>0, <1>3, SMTT(30), SMTT(60) DEF TypeOK, ScanEnd, IsStraggler, InTxn, Marks,
       Cookies
  <2>3. Opener' BY ZenonT(60), ZenonT(90), <1>0, <1>3, SMTT(30), SMTT(60) DEF TypeOK, ScanEnd, IsStraggler, Opener, Quiet
  <2>4. Owing' = Owing BY <1>0, <1>3, SMTT(30), SMTT(60) DEF TypeOK, ScanEnd, IsStraggler, Owing,
       Opener, Count, Quiet
  <2>5. Quiet' BY <1>0, <1>3, <2>4, SMTT(30), SMTT(60) DEF TypeOK, ScanEnd, IsStraggler, Quiet,
       Opener
  <2>6. Count'
    <3>1. flagged = {} /\ \A u \in Threads : pc[u] \notin Ending
      BY <1>0, <1>3 DEF TypeOK, ScanEnd, Quiet, Owing
    <3>2. found' \subseteq Threads
      BY ZenonT(60), ZenonT(90), <2>1 DEF TypeOK
    <3>3. QED BY <1>0, <1>3, <2>4, <3>1, <3>2 DEF TypeOK, ScanEnd, Count
  <2>7. StaleTracked' BY <1>0, <1>3, SMTT(30), SMTT(60) DEF TypeOK, ScanEnd, IsStraggler,
       StaleTracked, Tracked, InTxn, Marks, Opener, Quiet, Owing
  <2>8. Cookies' BY ZenonT(60), ZenonT(90), <1>0, <1>3, SMTT(30), SMTT(60) DEF TypeOK, ScanEnd, IsStraggler, Cookies,
       Opener, Quiet
  <2>9. Held' BY ZenonT(60), ZenonT(90), <1>0, <1>3, SMTT(30), SMTT(60) DEF TypeOK, ScanEnd, IsStraggler, Held, InTxn,
       Marks
  <2>10. Past' BY <1>0, <1>3, SMTT(30), SMTT(60) DEF TypeOK, ScanEnd, IsStraggler, Past, Held,
       InTxn, Marks, Cookies
  <2>11. QED BY <2>1, <2>2, <2>3, <2>5, <2>6, <2>7, <2>8, <2>9, <2>10 DEF IInv
<1>4. CASE AgeCookies(t)
  <2>1. TypeOK'
    <3>1. nstragglers' \in 0..Cardinality(Threads)
      BY <1>0, <1>4, ThreadCounts DEF TypeOK, AgeCookies
    <3>2. cold' \in 0..MaxEpoch /\ cooling' \in 0..MaxEpoch
      BY <1>0, <1>4 DEF TypeOK, AgeCookies, NextCold
    <3>3. QED BY ZenonT(60), ZenonT(90), <1>0, <1>4, <3>1, <3>2 DEF TypeOK, AgeCookies, Labels
  <2>2. Marks' BY <1>0, <1>4, SMTT(30), SMTT(60) DEF TypeOK, AgeCookies, NextCold, InTxn, Marks,
       Cookies
  <2>3. Opener' BY ZenonT(60), ZenonT(90), <1>0, <1>4, SMTT(30), SMTT(60) DEF TypeOK, AgeCookies, NextCold, Opener, Quiet
  <2>4. Owing' = found BY <1>0, <1>4, SMTT(30), SMTT(60) DEF TypeOK, AgeCookies, NextCold, Owing,
       Opener, Count, Quiet
  <2>5. Quiet' BY ZenonT(60), ZenonT(90), <1>0, <1>4, <2>4, SMTT(30), SMTT(60) DEF TypeOK, AgeCookies, NextCold, Quiet,
       Opener
  <2>6. Count'
    <3>1. nstragglers' >= Cardinality(Owing')
      <4>1. CASE found = {}
        BY <1>0, <1>4, <2>4, <4>1, FS_EmptySet, ThreadCounts DEF TypeOK, AgeCookies
      <4>2. CASE found # {}
        BY ZenonT(60), ZenonT(90), <1>0, <1>4, <2>4, <4>2, ThreadCounts DEF TypeOK, AgeCookies
      <4>3. QED BY <4>1, <4>2
    <3>2. QED BY ZenonT(60), ZenonT(90), <1>0, <1>4, <3>1 DEF TypeOK, AgeCookies, Count
  <2>7. StaleTracked' BY <1>0, <1>4, SMTT(30), SMTT(60) DEF TypeOK, AgeCookies, NextCold,
       StaleTracked, Tracked, InTxn, Marks, Opener, Quiet, Owing
  <2>8. Cookies' BY <1>0, <1>4, SMTT(30), SMTT(60) DEF TypeOK, AgeCookies, NextCold, Cookies,
       Opener, Quiet
  <2>9. Held' BY ZenonT(60), ZenonT(90), <1>0, <1>4, SMTT(30), SMTT(60) DEF TypeOK, AgeCookies, NextCold, Held, InTxn,
       Marks
  <2>10. Past' BY <1>0, <1>4, SMTT(30), SMTT(60) DEF TypeOK, AgeCookies, NextCold, Past, Held,
       InTxn, Marks, Cookies
  <2>11. QED BY ZenonT(60), ZenonT(90), <2>1, <2>2, <2>3, <2>5, <2>6, <2>7, <2>8, <2>9, <2>10 DEF IInv
<1>5. CASE FlagStraggler(t)
  <2>1. TypeOK' BY ZenonT(60), ZenonT(90), <1>0, <1>5, SMTT(30), SMTT(60) DEF TypeOK, FlagStraggler, Labels
  <2>2. Marks' BY <1>0, <1>5, SMTT(30), SMTT(60) DEF TypeOK, FlagStraggler, InTxn, Marks, Cookies
  <2>3. Opener' BY ZenonT(60), ZenonT(90), <1>0, <1>5, SMTT(30), SMTT(60) DEF TypeOK, FlagStraggler, Opener, Quiet
  <2>4. Owing' = Owing BY <1>0, <1>5, SMTT(30), SMTT(60) DEF TypeOK, FlagStraggler, Owing,
       Opener, Count, Quiet
  <2>5. Quiet' BY <1>0, <1>5, <2>4, SMTT(30), SMTT(60) DEF TypeOK, FlagStraggler, Quiet, Opener
  <2>6. Count' BY ZenonT(60), ZenonT(90), <1>0, <1>5, <2>4, SMTT(30), SMTT(60) DEF TypeOK, FlagStraggler, Count
  <2>7. StaleTracked' BY ZenonT(60), ZenonT(90), <1>0, <1>5, SMTT(30), SMTT(60) DEF TypeOK, FlagStraggler, StaleTracked,
       Tracked, InTxn, Marks, Opener, Quiet, Owing
  <2>8. Cookies' BY <1>0, <1>5, SMTT(30), SMTT(60) DEF TypeOK, FlagStraggler, Cookies, Opener,
       Quiet
  <2>9. Held' BY ZenonT(60), ZenonT(90), <1>0, <1>5, SMTT(30), SMTT(60) DEF TypeOK, FlagStraggler, Held, InTxn, Marks
  <2>10. Past' BY <1>0, <1>5, SMTT(30), SMTT(60) DEF TypeOK, FlagStraggler, Past, Held, InTxn,
       Marks, Cookies
  <2>11. QED BY ZenonT(60), ZenonT(90), <2>1, <2>2, <2>3, <2>5, <2>6, <2>7, <2>8, <2>9, <2>10 DEF IInv
<1>6. CASE CloseEpoch(t)
  <2>p. pc'[t] = (IF pc[t] = "n_direct" THEN "q_swap" ELSE ret[t]) /\ ret[t] \in {"in",
       "out", "e_retry"} /\ \A u \in Threads : u # t => pc'[u] = pc[u] BY <1>0, <1>6
       DEF TypeOK, CloseEpoch, Marks
  <2>1. TypeOK' BY ZenonT(60), ZenonT(90), <1>0, <1>6, <2>p, SMTT(30), SMTT(60) DEF TypeOK, CloseEpoch, Labels
  <2>2. Marks' BY <1>0, <1>6, <2>p, SMTT(30), SMTT(60) DEF TypeOK, CloseEpoch, InTxn, Marks,
       Cookies
  <2>3. Opener' BY <1>0, <1>6, <2>p, SMTT(30), SMTT(60) DEF TypeOK, CloseEpoch, Opener, Quiet
  <2>4. Owing' = Owing BY ZenonT(60), ZenonT(90), <1>0, <1>6, <2>p, SMTT(30), SMTT(60) DEF TypeOK, CloseEpoch, Owing,
       Opener, Count, Quiet
  <2>5. Quiet' BY <1>0, <1>6, <2>p, <2>4, SMTT(30), SMTT(60) DEF TypeOK, CloseEpoch, Quiet,
       Opener
  <2>6. Count' BY ZenonT(60), ZenonT(90), <1>0, <1>6, <2>p, <2>4, SMTT(30), SMTT(60) DEF TypeOK, CloseEpoch, Count
  <2>7. StaleTracked' BY <1>0, <1>6, <2>p, SMTT(30), SMTT(60) DEF TypeOK, CloseEpoch,
       StaleTracked, Tracked, InTxn, Marks, Opener, Quiet, Owing
  <2>8. Cookies' BY <1>0, <1>6, <2>p, SMTT(30), SMTT(60) DEF TypeOK, CloseEpoch, Cookies, Opener,
       Quiet
  <2>9. Held' BY <1>0, <1>6, <2>p, SMTT(30), SMTT(60) DEF TypeOK, CloseEpoch, Held, InTxn, Marks
  <2>10. Past' BY <1>0, <1>6, <2>p, SMTT(30), SMTT(60) DEF TypeOK, CloseEpoch, Past, Held, InTxn,
       Marks, Cookies
  <2>11. QED BY ZenonT(60), ZenonT(90), <2>1, <2>2, <2>3, <2>5, <2>6, <2>7, <2>8, <2>9, <2>10 DEF IInv
<1>7. QED BY <1>1, <1>2, <1>3, <1>4, <1>5, <1>6 DEF Open

(* Initially nobody is registered, and the invariant holds. *)
LEMMA InitIInv == Init => IInv
<1> SUFFICES ASSUME Init PROVE IInv
  OBVIOUS
<1> USE ThreadsAssumption, MaxEpochAssumption DEF Init, Epochs
<1>1. TypeOK
  BY ThreadCounts DEF TypeOK, Labels
<1>2. Owing = {}
  BY DEF Owing, Ending
<1>3. Count
  BY <1>2, FS_EmptySet DEF Count, Ending
<1>4. Marks /\ Opener /\ Cookies
  BY DEF Marks, Opener, Cookies, InTxn, OpenSteps, QuiesceSteps, CheckSteps, ExitSteps, Scanning
<1>5. Quiet /\ StaleTracked /\ Held /\ Past
  BY <1>2 DEF Quiet, StaleTracked, Held, Past, InTxn, OpenSteps, QuiesceSteps, Quiescing, Scanning
<1>6. QED BY <1>1, <1>3, <1>4, <1>5 DEF IInv

(* Every step of every thread keeps the invariant. *)
LEMMA NextIInv == IInv /\ [Next]_vars => IInv'
<1>1. ASSUME IInv, NEW t \in Threads, ThreadInit(t) \/ ThreadFini(t) PROVE IInv'
  BY <1>1, RegisterStep
<1>2. ASSUME IInv, NEW t \in Threads, Enter(t) PROVE IInv'
  BY <1>2, EnterStep
<1>3. ASSUME IInv, NEW t \in Threads, Exit(t) PROVE IInv'
  BY <1>3, ExitStep
<1>4. ASSUME IInv, NEW t \in Threads, Check(t) PROVE IInv'
  BY <1>4, CheckStep
<1>5. ASSUME IInv, NEW t \in Threads, Quiesce(t) PROVE IInv'
  BY <1>5, QuiesceStep
<1>6. ASSUME IInv, NEW t \in Threads, Open(t) PROVE IInv'
  BY <1>6, OpenStep
<1>7. ASSUME IInv, UNCHANGED vars PROVE IInv'
  <2>1. TypeOK' /\ Marks' /\ Opener' /\ Held' /\ Past' /\ Cookies'
    BY ZenonT(60), ZenonT(90), <1>7 DEF vars, state, opening, history, ts, IInv, TypeOK, Marks, Opener, Held, Past, Cookies,
       InTxn
  <2>2. Quiet' /\ Count' /\ StaleTracked'
    BY <1>7 DEF vars, state, opening, history, ts, IInv, Quiet, Count, StaleTracked, Tracked, Owing,
       InTxn
  <2>3. QED BY ZenonT(60), ZenonT(90), <2>1, <2>2 DEF IInv
<1>8. QED BY <1>1, <1>2, <1>3, <1>4, <1>5, <1>6, <1>7 DEF Next

(* The inductive invariant holds in every reachable state. *)
THEOREM Invariance == Spec => []IInv
  BY InitIInv, NextIInv, PTL DEF Spec

(* Every variable keeps its type; in particular nstragglers never goes     *)
(* below zero, whatever the races between new_epoch() and the stragglers.  *)
THEOREM TypeCorrect == Spec => []TypeOK
<1>1. IInv => TypeOK
  BY DEF IInv
<1>2. QED BY <1>1, Invariance, PTL

(* epoch.cpp:44: what epoch_reclaimed() receives is out of reach of every  *)
(* transaction that was in flight when that epoch closed.                  *)
THEOREM SafeReclamation == Spec => []ReclaimIsSafe
<1>1. IInv => ReclaimIsSafe
  BY DEF IInv, Past, ReclaimIsSafe
<1>2. QED BY <1>1, Invariance, PTL

(* epoch.cpp:33: no transaction falls more than two epochs behind. *)
THEOREM BoundedLag == Spec => []AtMostTwoBehind
<1>1. IInv => AtMostTwoBehind
  BY MaxEpochAssumption DEF IInv, TypeOK, Epochs, StaleTracked, AtMostTwoBehind
<1>2. QED BY <1>1, Invariance, PTL

(* The ASSERT of new_epoch(): the cold place is empty when it is needed. *)
THEOREM ColdFree == Spec => []ColdPlaceFree
<1>1. IInv => ColdPlaceFree
  BY DEF IInv, Cookies, ColdPlaceFree
<1>2. QED BY <1>1, Invariance, PTL

(* global_quiesce() needs no lock: one thread at a time runs it, and never *)
(* while new_epoch() is still looking for stragglers.                      *)
THEOREM SerialQuiesce == Spec => []OneQuiescer
<1>1. IInv => OneQuiescer
  BY DEF IInv, Quiet, Quiescing, Scanning, OneQuiescer
<1>2. QED BY <1>1, Invariance, PTL

-----------------------------------------------------------------------------
(* The epoch manager implements EpochService.  Beyond the invariant above  *)
(* the argument needs the line the closed epochs stand in: each has been   *)
(* reclaimed, or is the cold one, or the cooling one behind it, or was     *)
(* closed by the opening under way; none of these has been reclaimed       *)
(* before.                                                                 *)
InScan == \E t \in Threads : pc[t] \in Scanning

Line ==
    /\ \A e \in Epochs : e < begin =>
          e \in reclaimed \/ e = cooling \/ e = cold \/ (e = begin - 1 /\ InScan)
    /\ cooling # 0 => /\ cooling \notin reclaimed /\ cold < cooling
                      /\ cooling = IF InScan THEN begin - 2 ELSE begin - 1
    /\ InScan => begin - 1 \notin reclaimed
    /\ cold # 0 => cold \notin reclaimed

(* A step that moves no epoch along the line. *)
Still ==
    /\ UNCHANGED <<begin, cooling, cold, reclaimed>>
    /\ InScan' <=> InScan

(* A step that moves none of its variables keeps the line.                 *)
LEMMA StillLine == Line /\ Still => Line'
  BY DEF Line, Still

(* The steps that are not new_epoch(), global_quiesce() or the last        *)
(* thread_fini() leave the line as it is.                                  *)
LEMMA StillStep ==
    ASSUME IInv, NEW t \in Threads,
           \/ ThreadInit(t) \/ Enter(t) \/ Exit(t) \/ CheckProgress(t) \/ CheckWait(t)
           \/ CheckFlag(t) \/ StragglerEnded(t) \/ SetReady(t) \/ Quiesce(t)
           \/ ScanBegin(t) \/ ScanEnd(t) \/ FlagStraggler(t) \/ CloseEpoch(t)
    PROVE  Still
<1> USE DEF Goto, state, opening, history, ts, Scanning
<1>0. /\ pc \in [Threads -> Labels]
      /\ ret[t] \in {"in", "out", "e_retry"}
  BY DEF IInv, TypeOK
<1>1. UNCHANGED <<begin, cooling, cold, reclaimed>>
  BY DEF ThreadInit, Enter, EnterRead, EnterClearEnd, EnterSetBegin, EnterRaced, EnterBailOut,
     Exit, ExitRead, ExitSetEnd, ExitRecheck, CheckProgress, CheckWait, CheckFlag,
     StragglerEnded, SetReady, Quiesce, QuiesceFlag, QuiesceClearEnd, QuiesceSetBegin,
     ScanBegin, ScanEnd, FlagStraggler, CloseEpoch
<1>2. CASE ThreadInit(t) \/ Enter(t)
  BY <1>0, <1>1, <1>2 DEF Still, InScan, ThreadInit, Enter, EnterRead, EnterClearEnd,
     EnterSetBegin, EnterRaced, AfterRace, EnterBailOut
<1>3. CASE Exit(t) \/ CheckProgress(t) \/ CheckWait(t) \/ CheckFlag(t)
  BY <1>0, <1>1, <1>3 DEF Still, InScan, Exit, ExitRead, ExitSetEnd, ExitRecheck,
     CheckProgress, CheckWait, CheckFlag
<1>4. CASE StragglerEnded(t) \/ SetReady(t) \/ Quiesce(t)
  BY <1>0, <1>1, <1>4 DEF Still, InScan, StragglerEnded, SetReady, Quiesce, QuiesceFlag,
     QuiesceClearEnd, QuiesceSetBegin
<1>5. CASE ScanBegin(t) \/ ScanEnd(t)
  BY <1>0, <1>1, <1>5 DEF Still, InScan, ScanBegin, ScanEnd
<1>6. CASE FlagStraggler(t)
  BY <1>0, <1>1, <1>6 DEF Still, InScan, FlagStraggler
<1>7. CASE CloseEpoch(t)
  BY <1>0, <1>1, <1>7 DEF Still, InScan, CloseEpoch
<1>8. QED BY <1>2, <1>3, <1>4, <1>5, <1>6, <1>7

(* What the moving steps find: the types of the line, and who opens. *)
LEMMA LineTypes ==
    ASSUME IInv
    PROVE  /\ begin \in Nat /\ begin >= 1 /\ cooling \in Nat /\ cold \in Nat
           /\ cooling < begin /\ (cold = 0 \/ cold < begin - 1)
           /\ reclaimed \subseteq Epochs /\ \A e \in reclaimed : e < begin
           /\ mutex = NoThread => ~InScan
  BY MaxEpochAssumption, ThreadsAssumption
  DEF IInv, TypeOK, Cookies, Past, Opener, Epochs, InScan, Scanning, OpenSteps

(* thread_fini(): the last thread clears the line, the others leave it.    *)
LEMMA FiniLine ==
    ASSUME IInv, Line, NEW t \in Threads, ThreadFini(t)
    PROVE  Line'
<1> USE LineTypes DEF Epochs
<1>1. ~InScan /\ ~InScan'
  BY ZenonT(60), ZenonT(90) DEF ThreadFini, Goto, InScan, Scanning, IInv, TypeOK
<1>2. CASE Registered = {t}
  <2>1. begin' = begin + 1 /\ cooling' = 0 /\ cold' = cold
        /\ reclaimed' = reclaimed \cup ({cooling, begin} \ {0})
    BY <1>2 DEF ThreadFini
  <2>2. ASSUME NEW e \in Epochs, e < begin' PROVE e \in reclaimed' \/ e = cold'
    BY <1>1, <2>1, <2>2 DEF Line
  <2>3. cold # 0 => cold \notin reclaimed'
    BY <1>1, <2>1 DEF Line
  <2>4. QED BY <1>1, <2>1, <2>2, <2>3 DEF Line
<1>3. CASE Registered # {t}
  BY <1>1, <1>3, StillLine DEF ThreadFini, state, history, Still
<1>4. QED BY <1>2, <1>3

(* global_quiesce() takes the coldest epoch off the line.                  *)
LEMMA ReclaimLine ==
    ASSUME IInv, Line, NEW t \in Threads, Reclaim(t)
    PROVE  Line'
<1> USE LineTypes DEF Epochs
<1>1. ~InScan /\ ~InScan'
  BY DEF Reclaim, Goto, InScan, Scanning, IInv, TypeOK, Quiet, Quiescing
<1>2. UNCHANGED <<begin, cooling>> /\ cold' = 0 /\ reclaimed' = reclaimed \cup ({cold} \ {0})
  BY DEF Reclaim, TakeColdCookie
<1>3. QED BY <1>1, <1>2 DEF Line

(* new_epoch() adds an epoch to the line.                                  *)
LEMMA NewEpochLine ==
    ASSUME IInv, Line, NEW t \in Threads, NewEpoch(t)
    PROVE  Line'
<1> USE LineTypes DEF Epochs
<1>1. ~InScan /\ InScan'
  BY ZenonT(60), ZenonT(90) DEF NewEpoch, MayOpen, Goto, InScan, Scanning, IInv, TypeOK
<1>2. begin' = begin + 1 /\ UNCHANGED <<cooling, cold, reclaimed>>
  BY DEF NewEpoch
<1>3. QED BY <1>1, <1>2 DEF Line

(* The cookies age: the cooling epoch becomes the cold one.                *)
LEMMA AgeLine ==
    ASSUME IInv, Line, NEW t \in Threads, AgeCookies(t)
    PROVE  Line'
<1> USE LineTypes DEF Epochs
<1>1. InScan /\ ~InScan'
  BY DEF AgeCookies, Goto, InScan, Scanning, IInv, TypeOK, Opener, OpenSteps
<1>2. cold = 0
  BY <1>1 DEF IInv, Cookies, InScan
<1>3. UNCHANGED <<begin, reclaimed>> /\ cold' = cooling /\ cooling' = begin - 1
  BY DEF AgeCookies, NextCold, history
<1>4. QED BY <1>1, <1>2, <1>3 DEF Line

(* The line is part of an inductive invariant. *)
LEMMA NextLine == IInv /\ Line /\ [Next]_vars => Line'
<1>1. ASSUME IInv, Line, NEW t \in Threads, NewEpoch(t) \/ AgeCookies(t) PROVE Line'
  BY <1>1, NewEpochLine, AgeLine
<1>2. ASSUME IInv, Line, NEW t \in Threads, ThreadFini(t) \/ Reclaim(t) PROVE Line'
  BY <1>2, FiniLine, ReclaimLine
<1>3. ASSUME IInv, Line, UNCHANGED vars PROVE Line'
  BY <1>3, StillLine DEF vars, state, history, Still, InScan
<1>4. QED
  BY <1>1, <1>2, <1>3, StillStep, StillLine DEF Next, Check, Open

(* The line is empty at first.                                             *)
LEMMA InitLine == Init => Line
  BY DEF Init, Line, InScan, Scanning, Epochs

-----------------------------------------------------------------------------
(* The abstract variable that is computed. *)
Active == [t \in Threads |-> IF InTxn(t) THEN tbegin[t] ELSE 0]

(* Who is in a transaction, after a step of thread t that leaves the       *)
(* transactions of the others alone.                                       *)
LEMMA ActiveStep ==
    ASSUME NEW t \in Threads, NEW n,
           \A u \in Threads \ {t} : /\ pc'[u] = pc[u] /\ ret'[u] = ret[u]
                                   /\ tbegin'[u] = tbegin[u],
           (IF InTxn(t) THEN tbegin[t] ELSE 0)' = n
    PROVE  Active' = [Active EXCEPT ![t] = n]
<1>1. \A u \in Threads \ {t} : Active'[u] = Active[u]
  BY DEF Active, InTxn
<1>2. Active'[t] = n
  BY DEF Active
<1>3. QED BY ZenonT(60), ZenonT(90), <1>1, <1>2 DEF Active

(* Steps the service does not see. *)
Hidden == UNCHANGED <<begin, Active, hold, reclaimed>>

(* Scans, flags and the steps of a straggler are hidden from the service.  *)
LEMMA HiddenStep ==
    ASSUME IInv, NEW t \in Threads,
           \/ ThreadInit(t) \/ EnterRead(t) \/ EnterClearEnd(t) \/ EnterSetBegin(t)
           \/ EnterBailOut(t) \/ ExitSetEnd(t) \/ ExitRecheck(t)
           \/ CheckProgress(t) \/ CheckWait(t) \/ CheckFlag(t) \/ StragglerEnded(t) \/ SetReady(t)
           \/ QuiesceClearEnd(t) \/ ScanBegin(t) \/ ScanEnd(t) \/ AgeCookies(t)
           \/ FlagStraggler(t) \/ CloseEpoch(t)
    PROVE  Hidden
<1> USE DEF Goto, state, opening, history, ts, OpenSteps, QuiesceSteps, CheckSteps, ExitSteps
<1>0. TypeOK /\ Marks
  BY DEF IInv
<1>1. UNCHANGED <<begin, hold, reclaimed>>
  BY ZenonT(60), ZenonT(90) DEF ThreadInit, EnterRead, EnterClearEnd, EnterSetBegin, EnterBailOut, ExitSetEnd,
     ExitRecheck, CheckProgress, CheckWait, CheckFlag, StragglerEnded, SetReady,
     QuiesceClearEnd, ScanBegin, ScanEnd, AgeCookies, FlagStraggler, CloseEpoch
<1>2. \A u \in Threads : (InTxn(u)' <=> InTxn(u)) /\ (InTxn(u) => tbegin'[u] = tbegin[u])
  <2>1. CASE ThreadInit(t) \/ EnterRead(t) \/ EnterClearEnd(t) \/ EnterSetBegin(t) \/ EnterBailOut(t)
    BY <1>0, <2>1 DEF TypeOK, InTxn, ThreadInit, EnterRead, EnterClearEnd, EnterSetBegin,
       EnterBailOut
  <2>2. CASE ExitSetEnd(t) \/ ExitRecheck(t) \/ QuiesceClearEnd(t)
    BY <1>0, <2>2 DEF TypeOK, InTxn, ExitSetEnd, ExitRecheck, QuiesceClearEnd
  <2>3. CASE CheckProgress(t) \/ CheckWait(t) \/ CheckFlag(t)
    BY <1>0, <2>3 DEF TypeOK, Marks, InTxn, CheckProgress, CheckWait, CheckFlag
  <2>4. CASE StragglerEnded(t) \/ SetReady(t)
    BY <1>0, <2>4 DEF TypeOK, InTxn, StragglerEnded, SetReady
  <2>5. CASE ScanBegin(t) \/ ScanEnd(t) \/ AgeCookies(t) \/ FlagStraggler(t)
    BY <1>0, <2>5 DEF TypeOK, InTxn, ScanBegin, ScanEnd, AgeCookies, FlagStraggler
  <2>6. CASE CloseEpoch(t)
    BY <1>0, <2>6 DEF TypeOK, InTxn, CloseEpoch
  <2>7. QED BY <2>1, <2>2, <2>3, <2>4, <2>5, <2>6
<1>3. QED BY <1>1, <1>2 DEF Hidden, Active

(* thread_enter() enters the service when the marks are found in order.    *)
LEMMA EnterIsEnter ==
    ASSUME IInv, NEW t \in Threads, EnterRaced(t) \/ QuiesceSetBegin(t)
    PROVE  Hidden \/ Service!SEnter(t)
<1> USE DEF Goto, state, opening, history, ts, OpenSteps, QuiesceSteps, Epochs
<1>0. TypeOK /\ Marks
  BY DEF IInv
<1>1. UNCHANGED <<begin, hold, reclaimed>> /\ ~InTxn(t)
  BY <1>0 DEF EnterRaced, QuiesceSetBegin, InTxn
<1>2. /\ \A u \in Threads \ {t} : pc'[u] = pc[u] /\ ret'[u] = ret[u] /\ tbegin'[u] = tbegin[u]
      /\ InTxn(t)' => tbegin'[t] \in Epochs /\ tbegin'[t] \in {begin - 1, begin}
  <2>1. CASE EnterRaced(t)
    <3>1. /\ pc'[t] = AfterRace(t) /\ tbegin' = tbegin /\ tbegin[t] = tmp[t]
          /\ tmp[t] >= 1 /\ tmp[t] <= begin
          /\ tmp[t] \in 0..MaxEpoch /\ begin \in 1..MaxEpoch
      BY <1>0, <2>1 DEF EnterRaced, TypeOK, Marks
    <3>2. AfterRace(t) = "in" => begin - tmp[t] \in {0, 1}
      BY <3>1 DEF AfterRace
    <3>3. InTxn(t)' => AfterRace(t) = "in"
      BY <3>1 DEF InTxn, AfterRace
    <3>4. QED BY <1>0, <2>1, <3>1, <3>2, <3>3, MaxEpochAssumption DEF EnterRaced, TypeOK
  <2>2. CASE QuiesceSetBegin(t)
    BY <1>0, <2>2 DEF QuiesceSetBegin, TypeOK
  <2>3. QED BY <2>1, <2>2
<1>3. CASE InTxn(t)'
  <2>1. PICK n \in Epochs : n = tbegin'[t] /\ n \in {begin - 1, begin}
    BY <1>2, <1>3
  <2>2. Active' = [Active EXCEPT ![t] = n]
    BY <1>2, <1>3, <2>1, ActiveStep
  <2>3. Active[t] = 0
    BY <1>1 DEF Active
  <2>4. QED BY ZenonT(60), ZenonT(90), <1>1, <2>1, <2>2, <2>3 DEF Service!SEnter, Service!Epochs, Active
<1>4. CASE ~InTxn(t)'
  <2>1. Active' = Active
    BY <1>1, <1>2, <1>4 DEF Active, InTxn
  <2>2. QED BY <1>1, <2>1 DEF Hidden
<1>5. QED BY <1>3, <1>4

(* thread_exit() leaves it when the end mark is set.                       *)
LEMMA ExitIsExit ==
    ASSUME IInv, NEW t \in Threads, ExitRead(t) \/ QuiesceFlag(t)
    PROVE  Service!SExit(t)
<1> USE DEF Goto, state, opening, history, ts, OpenSteps, QuiesceSteps, Epochs
<1>0. TypeOK /\ Marks
  BY DEF IInv
<1>1. UNCHANGED <<begin, tbegin, reclaimed>> /\ InTxn(t) /\ ~InTxn(t)' /\ Forget(t)
  BY <1>0 DEF ExitRead, QuiesceFlag, InTxn, TypeOK
<1>2. \A u \in Threads \ {t} : pc'[u] = pc[u] /\ ret'[u] = ret[u]
  BY ZenonT(60), ZenonT(90), <1>0 DEF ExitRead, QuiesceFlag, TypeOK
<1>3. Active' = [Active EXCEPT ![t] = 0]
  BY <1>1, <1>2, ActiveStep
<1>4. Active[t] # 0
  BY <1>0, <1>1 DEF Active, Marks, TypeOK
<1>5. QED BY <1>1, <1>3, <1>4 DEF Service!SExit, Service!Epochs, Active, Forget

(* new_epoch() opens an epoch at the moment it publishes its number.       *)
LEMMA NewEpochIsOpen ==
    ASSUME IInv, Line, NEW t \in Threads, NewEpoch(t)
    PROVE  Service!SOpen
<1> USE DEF Goto, state, opening, history, ts, OpenSteps, QuiesceSteps, Epochs
<1>0. TypeOK /\ Marks /\ begin \in Nat
  BY LineTypes DEF IInv
<1>1. \A u \in Threads : (InTxn(u)' <=> InTxn(u)) /\ tbegin'[u] = tbegin[u]
  BY ZenonT(60), ZenonT(90), <1>0 DEF NewEpoch, InTxn, TypeOK
<1>2. Active' = Active
  BY <1>1 DEF Active
<1>3. \A u \in Threads : Active[u] # 0 => Active[u] >= begin - 1
  <2>1. \A u \in Threads : ~Tracked(u)
    BY DEF IInv, NewEpoch, MayOpen, Tracked, Quiet, Opener, Owing, TypeOK, Scanning, OpenSteps
  <2>2. \A u \in Threads : InTxn(u) => tbegin[u] >= begin - 1
    BY <1>0, <2>1 DEF IInv, TypeOK, StaleTracked
  <2>3. QED BY <2>2 DEF Active
<1>4. 1..begin - 2 \subseteq reclaimed
  <2>1. ~InScan /\ cold = 0 /\ begin < MaxEpoch
    BY LineTypes DEF NewEpoch, MayOpen, IInv, Cookies
  <2>2. QED BY <1>0, <2>1, LineTypes, MaxEpochAssumption DEF Line
<1>5. {u \in Threads : InTxn(u)} = {u \in Threads : Active[u] # 0}
  BY <1>0 DEF Active, Marks, TypeOK
<1>6. begin < MaxEpoch /\ begin' = begin + 1 /\ reclaimed' = reclaimed
      /\ hold' = [hold EXCEPT ![begin] = {u \in Threads : InTxn(u)}]
  BY DEF NewEpoch
<1>7. QED BY ZenonT(60), ZenonT(90), <1>2, <1>3, <1>4, <1>5, <1>6 DEF Service!SOpen, Service!SCanOpen, Active

(* global_quiesce() reclaims, in the service too, or finds nothing to do.  *)
LEMMA ReclaimIsReclaim ==
    ASSUME IInv, Line, NEW t \in Threads, Reclaim(t)
    PROVE  Hidden \/ \E e \in Epochs : Service!SReclaim(e)
<1> USE DEF Goto, state, opening, history, ts, OpenSteps, QuiesceSteps, Epochs
<1>0. TypeOK /\ ~InScan
  BY DEF IInv, Reclaim, InScan, Quiet, Quiescing, Scanning
<1>1. Active' = Active
  <2>1. \A u \in Threads : (InTxn(u)' <=> InTxn(u)) /\ tbegin'[u] = tbegin[u]
    BY ZenonT(60), ZenonT(90), <1>0 DEF Reclaim, InTxn, TypeOK
  <2>2. QED BY <2>1 DEF Active
<1>2. UNCHANGED <<begin, hold>> /\ reclaimed' = reclaimed \cup ({cold} \ {0})
  BY DEF Reclaim
<1>3. CASE cold = 0
  BY <1>1, <1>2, <1>3 DEF Hidden
<1>4. CASE cold # 0
  <2>1. cold \in Epochs /\ cold < begin - 1 /\ cold \notin reclaimed
    BY <1>0, <1>4, LineTypes DEF TypeOK, Line
  <2>2. \A f \in Epochs : f < cold => f \in reclaimed
    BY <1>0, <2>1, LineTypes, MaxEpochAssumption DEF Line
  <2>3. hold[cold] = {}
    BY <1>2, <1>4, CheckStep DEF Check, IInv, Past
  <2>4. reclaimed' = reclaimed \cup {cold}
    BY <1>2, <1>4
  <2>5. Service!SReclaim(cold)
    BY <1>1, <1>2, <2>1, <2>2, <2>3, <2>4 DEF Service!SReclaim, Service!Epochs, Active
  <2>6. QED BY <2>1, <2>5
<1>5. QED BY <1>3, <1>4

(* The last thread_fini() shuts the service down.                          *)
LEMMA FiniIsShut ==
    ASSUME IInv, Line, NEW t \in Threads, ThreadFini(t)
    PROVE  Hidden \/ Service!SShut
<1> USE DEF Goto, state, opening, history, ts, OpenSteps, QuiesceSteps, Epochs
<1>0. TypeOK /\ ~InScan
  BY LineTypes DEF IInv, ThreadFini
<1>1. Active' = Active
  BY ZenonT(60), ZenonT(90), <1>0 DEF ThreadFini, Active, InTxn, TypeOK
<1>2. CASE Registered # {t}
  BY <1>1, <1>2 DEF ThreadFini, Hidden
<1>3. CASE Registered = {t}
  <2>1. \A u \in Threads : Active[u] = 0
    BY <1>0, <1>3 DEF Active, InTxn, Registered, ThreadFini
  <2>2. begin < MaxEpoch /\ begin' = begin + 1 /\ hold' = hold
        /\ reclaimed' = reclaimed \cup ({cooling, begin} \ {0})
    BY <1>3 DEF ThreadFini
  <2>3. reclaimed \cup ({cooling, begin} \ {0}) = reclaimed \cup ({begin - 1, begin} \ {0})
    <3>1. CASE cooling = 0
      <4>1. begin - 1 = 0 \/ begin - 1 \in reclaimed
        BY <1>0, <2>2, <3>1, LineTypes, MaxEpochAssumption DEF Line
      <4>2. QED BY <3>1, <4>1, LineTypes
    <3>2. CASE cooling # 0
      BY <1>0, <3>2 DEF Line
    <3>3. QED BY <3>1, <3>2
  <2>4. QED BY <1>1, <2>1, <2>2, <2>3 DEF Service!SShut, Active
<1>4. QED BY <1>2, <1>3

(* Every step of the manager is a step of the service, or none. *)
LEMMA StepSimulation ==
    IInv /\ Line /\ [Next]_vars => [Service!SNext]_(Service!svars)
<1> SUFFICES ASSUME IInv, Line, [Next]_vars PROVE [Service!SNext]_(Service!svars)
  OBVIOUS
<1>1. Hidden => UNCHANGED Service!svars
  BY DEF Hidden, Service!svars, Active
<1>2. CASE UNCHANGED vars
  BY <1>1, <1>2 DEF vars, state, history, ts, Hidden, Active, InTxn
<1>3. ASSUME NEW t \in Threads, ThreadFini(t) \/ Reclaim(t)
      PROVE  [Service!SNext]_(Service!svars)
  BY <1>1, <1>3, FiniIsShut, ReclaimIsReclaim DEF Service!SNext, Service!Epochs, Epochs
<1>4. ASSUME NEW t \in Threads,
             \/ EnterRaced(t) \/ QuiesceSetBegin(t) \/ ExitRead(t) \/ QuiesceFlag(t) \/ NewEpoch(t)
      PROVE  [Service!SNext]_(Service!svars)
  BY <1>1, <1>4, EnterIsEnter, ExitIsExit, NewEpochIsOpen DEF Service!SNext
<1>5. QED
  BY <1>1, <1>2, <1>3, <1>4, HiddenStep DEF Next, Enter, Exit, Check, Quiesce, Open

(* The epoch manager implements the contract its clients are modelled      *)
(* against: every behaviour of epoch.cpp is one of EpochService.           *)
THEOREM Refinement == Spec => ImplementsService
<1>1. Init => Service!SInit
  BY DEF Init, Service!SInit, Service!Epochs, Epochs, InTxn, OpenSteps, QuiesceSteps
<1>2. QED
  BY <1>1, InitLine, NextLine, InitIInv, NextIInv, StepSimulation, PTL
  DEF Spec, ImplementsService, Service!SSpec
=============================================================================
