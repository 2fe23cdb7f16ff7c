--------------------------- MODULE VersionGcProofs ---------------------------
(***************************************************************************)
(* The trim point stays behind every snapshot, for any number of threads,  *)
(* epochs and transactions.                                                *)
(*                                                                         *)
(* epoch_reclaimed() records an LSN for the epoch e that it reclaims and   *)
(* takes as trim point the one it recorded for epoch e - 2.  That one was  *)
(* recorded before epoch e could close, since no epoch opens before all    *)
(* but the last two are reclaimed; and who was in flight as e closed has   *)
(* ended.  The invariant follows a recorded LSN through the two epochs     *)
(* between: it is older than the snapshot of every transaction that came   *)
(* after the epoch that was current then.                                  *)
(***************************************************************************)
EXTENDS VersionGc, TLAPS

(* The provers of a leaf that names none, and their seconds. *)
USE SMTT(10), ZenonT(30), SMTT(60)

Labels == {"idle", "begin", "run", "walk", "post", "recycle", "link", "clear", "dealloc",
           "exit", "open", "leave"}

(* The part of the state that the trim point depends on. *)
LsnTypeOK ==
    /\ epoch \in FirstEpoch..MaxEpoch
    /\ active \in [Threads -> Int] /\ hold \in [Epochs -> SUBSET Threads]
    /\ lsn \in Nat /\ trim_lsn \in 0..lsn
    /\ excl \in [0..2 -> 0..lsn] /\ rlsn \in [0..2 -> 0..lsn]
    /\ begin \in [Threads -> Nat] /\ end \in [Threads -> 0..lsn]
    /\ pc \in [Threads -> Labels]

(* Epochs are reclaimed in order, and two lag behind at most. *)
InOrder == reclaimed = 1..epoch - 3 \/ reclaimed = 1..epoch - 2

InFlight == \A t \in Threads : active[t] = 0 => pc[t] = "idle" /\ begin[t] = 0

(* Who came after the last epoch closed has seen the reclamation of the    *)
(* third before the current one, and who came after the epoch before it,   *)
(* that of the fourth.                                                     *)
Recorded ==
    \A t \in Threads : begin[t] # 0 =>
        /\ t \notin hold[epoch - 1] => rlsn[(epoch - 3) % 3] < begin[t]
        /\ t \notin hold[epoch - 2] => rlsn[(epoch - 4) % 3] < begin[t]

Inv == LsnTypeOK /\ InOrder /\ InFlight /\ Recorded /\ TrimBehind

-----------------------------------------------------------------------------
LEMMA Slots ==
    ASSUME NEW n \in Nat, n >= 4
    PROVE  /\ (n - 4) % 3 \in 0..2 /\ (n - 3) % 3 \in 0..2 /\ (n - 2) % 3 \in 0..2
           /\ (n - 4) % 3 # (n - 3) % 3 /\ (n - 3) % 3 # (n - 2) % 3 /\ (n - 4) % 3 # (n - 2) % 3
<1> DEFINE m == n - 4
<1>1. m \in Int /\ n - 3 = m + 1 /\ n - 2 = m + 2
  OBVIOUS
<1> HIDE DEF m
<1>2. m % 3 \in 0..2 /\ (m + 1) % 3 \in 0..2 /\ (m + 2) % 3 \in 0..2
  BY <1>1
<1>3. m % 3 # (m + 1) % 3
  BY <1>1
<1>4. (m + 1) % 3 # (m + 2) % 3
  BY <1>1
<1>5. m % 3 # (m + 2) % 3
  BY <1>1
<1> QED
  BY <1>1, <1>2, <1>3, <1>4, <1>5 DEF m

LEMMA InitInv == Init => Inv
<1> SUFFICES ASSUME Init PROVE Inv
  OBVIOUS
<1> USE FirstEpochAssumption DEF Init, EpochLsn, LogBlock, Epochs
<1>1. \A i \in 0..2 : /\ \E e \in FirstEpoch - 2..FirstEpoch : e % 3 = i
                      /\ \E e \in FirstEpoch - 4..FirstEpoch - 2 : e % 3 = i
  <2>0. TAKE i \in 0..2
  <2>1. i \in {FirstEpoch % 3, (FirstEpoch - 1) % 3, (FirstEpoch - 2) % 3}
    <3> DEFINE n == FirstEpoch + 2
    <3>1. n \in Nat /\ n >= 4 /\ n - 2 = FirstEpoch /\ n - 3 = FirstEpoch - 1 /\ n - 4 = FirstEpoch - 2
      OBVIOUS
    <3> HIDE DEF n
    <3> QED
      BY <3>1, Slots
  <2>2. i \in {(FirstEpoch - 2) % 3, (FirstEpoch - 3) % 3, (FirstEpoch - 4) % 3}
    BY Slots
  <2>3. {FirstEpoch, FirstEpoch - 1, FirstEpoch - 2} \subseteq FirstEpoch - 2..FirstEpoch
    OBVIOUS
  <2>4. {FirstEpoch - 2, FirstEpoch - 3, FirstEpoch - 4} \subseteq FirstEpoch - 4..FirstEpoch - 2
    OBVIOUS
  <2> QED
    BY <2>1, <2>2, <2>3, <2>4, Zenon
<1>0. \A x \in FirstEpoch - 3..FirstEpoch : EpochLsn(x) \in 0..lsn
  OBVIOUS
<1>2. excl \in [0..2 -> 0..lsn]
  <2> SUFFICES ASSUME NEW i \in 0..2
               PROVE  EpochLsn(CHOOSE e \in FirstEpoch - 2..FirstEpoch : e % 3 = i) \in 0..lsn
    BY Zenon
  <2> DEFINE e == CHOOSE e \in FirstEpoch - 2..FirstEpoch : e % 3 = i
  <2>1. e \in FirstEpoch - 2..FirstEpoch
    BY ZenonT(60), ZenonT(90), <1>1
  <2> HIDE DEF e
  <2>2. EpochLsn(e) \in 0..lsn
    BY <1>0, <2>1
  <2> QED
    BY <2>2 DEF e
<1>3. rlsn \in [0..2 -> 0..lsn]
  <2> DEFINE e(i) == CHOOSE e \in FirstEpoch - 4..FirstEpoch - 2 : e % 3 = i
  <2>1. \A i \in 0..2 : e(i) \in FirstEpoch - 4..FirstEpoch - 2
    BY ZenonT(60), ZenonT(90), <1>1
  <2>2. rlsn = [i \in 0..2 |-> IF e(i) = FirstEpoch - 4 THEN 0 ELSE EpochLsn(e(i))]
    BY Zenon
  <2> HIDE DEF e
  <2>3. ASSUME NEW i \in 0..2 PROVE (IF e(i) = FirstEpoch - 4 THEN 0 ELSE EpochLsn(e(i))) \in 0..lsn
    <3>1. e(i) # FirstEpoch - 4 => e(i) \in FirstEpoch - 3..FirstEpoch
      <4>1. \A x \in FirstEpoch - 4..FirstEpoch - 2 : x # FirstEpoch - 4 => x \in FirstEpoch - 3..FirstEpoch
        OBVIOUS
      <4> QED
        BY ZenonT(60), ZenonT(90), <2>1, <4>1
    <3>2. 0 \in 0..lsn
      OBVIOUS
    <3> QED
      BY ZenonT(60), ZenonT(90), <1>0, <3>1, <3>2
  <2> QED
    BY ZenonT(60), ZenonT(90), <2>2, <2>3
<1>4. LsnTypeOK
  BY <1>2, <1>3 DEF LsnTypeOK, Labels
<1>5. InOrder /\ InFlight /\ Recorded /\ TrimBehind
  BY DEF InOrder, InFlight, Recorded, TrimBehind
<1> QED
  BY <1>4, <1>5 DEF Inv

-----------------------------------------------------------------------------
(* Most steps of a transaction, and all of the daemon, only move on.  *)
LEMMA Moves ==
    ASSUME Inv, UNCHANGED <<svars, lsns, begin, end>>,
           pc' = pc \/ \E t \in Threads, l \in Labels \ {"idle"} :
                          pc[t] # "idle" /\ pc' = [pc EXCEPT ![t] = l]
    PROVE  Inv'
  BY ZenonT(60), ZenonT(90) DEF Inv, LsnTypeOK, InOrder, InFlight, Recorded, TrimBehind, svars, lsns, Epochs, Labels

LEMMA EnterKeeps ==
    ASSUME Inv, NEW t \in Threads, Enter(t)
    PROVE  Inv'
<1> USE FirstEpochAssumption DEF Inv, Enter, SEnter, Goto, lsns, Epochs
<1>1. LsnTypeOK'
  BY DEF LsnTypeOK, Labels
<1>2. InOrder' /\ InFlight'
  BY DEF LsnTypeOK, InOrder, InFlight
<1>3. Recorded' /\ TrimBehind'
  BY DEF LsnTypeOK, Recorded, TrimBehind
<1> QED
  BY <1>1, <1>2, <1>3

LEMMA BeginKeeps ==
    ASSUME Inv, NEW t \in Threads, Begin(t)
    PROVE  Inv'
<1> USE FirstEpochAssumption DEF Inv, Begin, BeginLsn, Goto, lsns, svars
<1>1. LsnTypeOK' /\ InOrder' /\ InFlight'
  BY DEF LsnTypeOK, InOrder, InFlight, Labels, Epochs
<1>2. \A i \in 0..2 : rlsn[i] < lsn + 1
  BY DEF LsnTypeOK
<1>3. Recorded'
  BY <1>2, Slots DEF LsnTypeOK, Recorded
<1>4. TrimBehind'
  BY DEF LsnTypeOK, TrimBehind
<1> QED
  BY <1>1, <1>3, <1>4

LEMMA PreCommitKeeps ==
    ASSUME Inv, NEW t \in Threads, PreCommit(t)
    PROVE  Inv'
<1> USE DEF Inv, PreCommit, Goto, svars, LogBlock
<1>1. LsnTypeOK' /\ InOrder' /\ InFlight'
  BY DEF LsnTypeOK, InOrder, InFlight, Labels, Epochs
<1>2. Recorded' /\ TrimBehind'
  BY DEF LsnTypeOK, Recorded, TrimBehind
<1> QED
  BY <1>1, <1>2

LEMMA ExitMarkKeeps ==
    ASSUME Inv, NEW t \in Threads, ExitMark(t)
    PROVE  Inv'
<1> USE DEF Inv, ExitMark, Goto, svars
<1>1. LsnTypeOK' /\ InOrder' /\ InFlight'
  BY ZenonT(60), ZenonT(90) DEF LsnTypeOK, InOrder, InFlight, Labels, Epochs
<1>2. Recorded' /\ TrimBehind'
  BY DEF LsnTypeOK, Recorded, TrimBehind
<1> QED
  BY <1>1, <1>2

(* A new epoch: nobody has come after the one that closes, and who came    *)
(* after the one before it has seen the LSN that is now four epochs old.   *)
LEMMA ExitOpenKeeps ==
    ASSUME Inv, NEW t \in Threads, ExitOpen(t)
    PROVE  Inv'
<1> USE FirstEpochAssumption DEF Inv, ExitOpen, SOpen, SCanOpen, Goto, lsns
<1>1. LsnTypeOK'
  BY DEF LsnTypeOK, Labels, Epochs
<1>2. InOrder'
  <2>1. epoch \in Nat /\ epoch >= 6 /\ 1..epoch - 2 \subseteq reclaimed /\ epoch' = epoch + 1
    BY DEF LsnTypeOK
  <2>2. reclaimed = 1..epoch - 2
    BY <2>1 DEF InOrder
  <2> QED
    BY <2>1, <2>2 DEF InOrder
<1>3. InFlight' /\ TrimBehind'
  BY DEF LsnTypeOK, InFlight, TrimBehind
<1>4. Recorded'
  <2> SUFFICES ASSUME NEW u \in Threads, begin[u] # 0
               PROVE  /\ u \in hold'[epoch]
                      /\ u \notin hold'[epoch - 1] => rlsn[(epoch - 3) % 3] < begin[u]
    BY DEF Recorded, LsnTypeOK
  <2>1. active[u] # 0
    BY DEF InFlight
  <2> QED
    BY <2>1 DEF LsnTypeOK, Recorded, Epochs
<1> QED
  BY <1>1, <1>2, <1>3, <1>4

LEMMA ExitKeeps ==
    ASSUME Inv, NEW t \in Threads, Exit(t)
    PROVE  Inv'
<1> USE FirstEpochAssumption DEF Inv, Exit, SExit, Goto, lsns
<1>1. LsnTypeOK'
  BY DEF LsnTypeOK, Labels
<1>0. InOrder'
  BY DEF InOrder
<1>2. InFlight'
  BY DEF LsnTypeOK, InFlight
<1>3. Recorded' /\ TrimBehind'
  BY DEF LsnTypeOK, Recorded, TrimBehind, Epochs
<1> QED
  BY <1>0, <1>1, <1>2, <1>3

(* epoch_reclaimed(): the epoch is the second before the current one. *)
LEMMA ReclaimKeeps ==
    ASSUME Inv, NEW e \in Epochs, Reclaim(e)
    PROVE  Inv'
<1> USE FirstEpochAssumption DEF Inv, Reclaim, SReclaim, TrimSlot, worker
<1>1. epoch \in Nat /\ epoch >= 6 /\ e \in Nat /\ epoch \in Epochs
  BY DEF LsnTypeOK, Epochs
<1>2. e = epoch - 2
  <2>1. e \notin 1..epoch - 3 /\ e >= 1 /\ e < epoch - 1
    BY <1>1 DEF InOrder, Epochs
  <2> QED
    BY <1>1, <2>1
<1>3. InOrder'
  BY <1>1, <1>2 DEF InOrder
<1>4. CASE excl[e % 3] = 0
  BY <1>3, <1>4 DEF LsnTypeOK, InFlight, Recorded, TrimBehind
<1>5. CASE excl[e % 3] # 0
  <2> DEFINE i == (epoch - 4) % 3
             j == (epoch - 3) % 3
             k == (epoch - 2) % 3
  <2>1. e % 3 = k /\ TrimSlot(e) = i
    BY <1>1, <1>2
  <2>2. i \in 0..2 /\ j \in 0..2 /\ k \in 0..2 /\ i # j /\ j # k /\ i # k
    BY <1>1, Slots
  <2> HIDE DEF i, j, k
  <2>3. rlsn' = [[rlsn EXCEPT ![k] = excl[k]] EXCEPT ![i] = 0] /\ trim_lsn' = [rlsn EXCEPT ![k] = excl[k]][i]
    BY <1>5, <2>1 DEF TrimSlot
  <2>4. trim_lsn' = rlsn[i] /\ rlsn'[i] = 0 /\ rlsn'[j] = rlsn[j] /\ rlsn' \in [0..2 -> 0..lsn]
    BY <2>2, <2>3 DEF LsnTypeOK
  <2>5. LsnTypeOK' /\ InFlight'
    BY <2>2, <2>4 DEF LsnTypeOK, InFlight
  <2>6. Recorded'
    BY <2>4 DEF Recorded, LsnTypeOK, i, j
  <2>7. \A t \in Threads : begin[t] # 0 => rlsn[i] < begin[t]
    BY <1>2 DEF Recorded, i
  <2>8. TrimBehind'
    BY <2>4, <2>7 DEF TrimBehind
  <2> QED
    BY <1>3, <2>5, <2>6, <2>8
<1> QED
  BY <1>4, <1>5

LEMMA StepKeeps == Inv /\ [Next]_vars => Inv'
<1> SUFFICES ASSUME Inv, [Next]_vars PROVE Inv'
  OBVIOUS
<1>1. CASE UNCHANGED vars
  BY <1>1, Moves DEF vars, worker
<1>2. ASSUME NEW t \in Threads, Work(t) PROVE Inv'
  <2>1. CASE Enter(t)
    BY <2>1, EnterKeeps
  <2>2. CASE Begin(t)
    BY <2>2, BeginKeeps
  <2>3. CASE PreCommit(t)
    BY <2>3, PreCommitKeeps
  <2>4. CASE ExitMark(t)
    BY <2>4, ExitMarkKeeps
  <2>5. CASE ExitOpen(t)
    BY <2>5, ExitOpenKeeps
  <2>6. CASE Exit(t)
    BY <2>6, ExitKeeps
  <2>7. CASE ReadHead(t)
    BY ZenonT(60), ZenonT(90), <2>7, Moves DEF ReadHead, Goto, Labels
  <2>8. CASE Walk(t)
    BY <2>8, Moves DEF Walk, Goto, Labels
  <2>9. CASE Update(t)
    BY <2>9, Moves DEF Update
  <2>10. CASE PostCommit(t)
    BY <2>10, Moves DEF PostCommit, Goto, Labels
  <2>11. CASE RecycleSwap(t)
    BY ZenonT(60), ZenonT(90), <2>11, Moves DEF RecycleSwap, Goto, Labels
  <2>12. CASE RecycleLink(t)
    BY ZenonT(60), ZenonT(90), <2>12, Moves DEF RecycleLink, Goto, Labels
  <2>13. CASE Abort(t)
    BY <2>13, Moves DEF Abort, Goto, Labels
  <2>14. CASE AbortClear(t)
    BY ZenonT(60), ZenonT(90), <2>14, Moves DEF AbortClear, Goto, Labels
  <2>15. CASE Deallocate(t)
    BY ZenonT(60), ZenonT(90), <2>15, Moves DEF Deallocate, Goto, Labels
  <2> QED
    BY <1>2, <2>1, <2>2, <2>3, <2>4, <2>5, <2>6, <2>7, <2>8, <2>9, <2>10, <2>11, <2>12,
       <2>13, <2>14, <2>15 DEF Work
<1>3. ASSUME NEW e \in Epochs, Reclaim(e) PROVE Inv'
  BY <1>3, ReclaimKeeps
<1>4. CASE Collect
  <2>1. UNCHANGED <<svars, lsns, begin, end, pc>>
    BY <1>4 DEF Collect, GcWake, GcNode, GcFirst, GcSecond, GcWalk, GcCut, GcPut, GcDrop,
                GcPass, gcIdle, worker
  <2> QED
    BY <2>1, Moves
<1> QED
  BY <1>1, <1>2, <1>3, <1>4 DEF Next

(* epoch_reclaimed() and gc_daemon(): the point behind which versions are  *)
(* trimmed is older than the snapshot of every transaction in flight, for  *)
(* any number of threads, epochs and transactions.                         *)
THEOREM TrimmedBehind == Spec => []TrimBehind
<1>1. Inv => TrimBehind
  BY DEF Inv
<1> QED
  BY <1>1, InitInv, StepKeeps, PTL DEF Spec
=============================================================================
