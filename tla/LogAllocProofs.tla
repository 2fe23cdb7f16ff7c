--------------------------- MODULE LogAllocProofs ---------------------------
(***************************************************************************)
(* For any number of threads, block sizes and window: the flush of the     *)
(* write daemon stops at every block of a thread that has announced an     *)
(* offset, blocks being filled lie in the buffer window, and the durable   *)
(* mark on disk keeps up with the flush.                                   *)
(***************************************************************************)
EXTENDS LogAlloc, TLAPS

(* The provers of a leaf that names none, and their seconds. *)
USE SMTT(10), ZenonT(30), SMTT(60)

(* Everything that is known of the log lies below its end, and what a      *)
(* thread announced lies below the block it has in hand.                   *)
Order ==
    /\ durable <= lsn /\ target <= lsn
    /\ \A t \in Threads : off[t] + len[t] <= lsn /\ tls[t] <= lsn
    /\ \A t \in Threads : Reserved(t) => tls[t] <= off[t]

(* The threads whose slot was read cannot be overrun by the flush that     *)
(* will follow: those that had announced something bound the target, and   *)
(* those that had not take their next block above the end of the log that  *)
(* the target started from.                                                *)
ScanSafe ==
    dpc = "scan" =>
        \A t \in Threads \ scan : Reserved(t) /\ tls[t] # 0 => target <= off[t]

(* Only during the round that flushed is the mark behind. *)
Mark == dmark <= durable /\ (dpc # "round" => dmark = durable)

IInv == TypeOK /\ Order /\ ScanSafe /\ FlushStopsAtBlock /\ FillInWindow /\ Mark

(* The constructor of sm_log_alloc_mgr establishes the invariant. *)
LEMMA InitInv == Init => IInv
<1> SUFFICES ASSUME Init PROVE IInv
    OBVIOUS
<1> USE DEF Init
<1>1. TypeOK
    BY ZenonT(60), ZenonT(90), BoundsAssumption DEF TypeOK, Labels, DaemonLocks, Reserved
<1>2. Order /\ ScanSafe /\ FlushStopsAtBlock /\ FillInWindow /\ Mark
    BY DEF Order, ScanSafe, FlushStopsAtBlock, FillInWindow, Mark, Reserved
<1> QED
    BY <1>1, <1>2 DEF IInv

(* A step that leaves the log, the slots and the blocks alone, and the     *)
(* daemon out of its scan and its flush, keeps all but the types.          *)
Quiet ==
    /\ UNCHANGED <<lsn, durable, dmark, tls, off, len>>
    /\ \A t \in Threads : pc'[t] = "fill" => pc[t] = "fill"
    /\ UNCHANGED <<dpc, target, scan>>
         \/ (dpc # "round" /\ dpc' \notin {"scan", "round"} /\ UNCHANGED target)

LEMMA QuietStep == IInv /\ Quiet => (Order /\ ScanSafe /\ FlushStopsAtBlock /\ FillInWindow /\ Mark)'
BY DEF IInv, TypeOK, Quiet, Order, ScanSafe, FlushStopsAtBlock, FillInWindow, Mark, Reserved

(* The types: one case per action. *)
LEMMA TypeStep == TypeOK /\ [Next]_vars => TypeOK'
<1> SUFFICES ASSUME TypeOK, [Next]_vars PROVE TypeOK'
    OBVIOUS
<1> USE DEF TypeOK, Labels, DaemonLocks, Reserved, Goto, DGoto, Kick, HasWork, Sleeping
<1>1. ASSUME NEW t \in Threads, GrabBuffer(t) PROVE TypeOK'
    BY <1>1 DEF GrabBuffer, log, flags, block, bounds, daemon
<1>2. ASSUME NEW t \in Threads, AwaitSpace(t) PROVE TypeOK'
    BY <1>2 DEF AwaitSpace, log, flags, block, bounds, daemon
<1>3. ASSUME NEW t \in Threads, Release(t) PROVE TypeOK'
    BY <1>3 DEF Release, log, flags, block, bounds, daemon
<1>4. ASSUME NEW t \in Threads, ShouldKick(t) PROVE TypeOK'
    BY <1>4 DEF ShouldKick, log, flags, block, bounds, daemon
<1>5. ASSUME NEW t \in Threads, Announce(t) PROVE TypeOK'
    BY <1>5 DEF Announce, log, flags, block, bounds, daemon
<1>6. ASSUME NEW t \in Threads, KickDaemon(t) PROVE TypeOK'
    BY <1>6 DEF KickDaemon, log, flags, block, bounds, daemon
<1>7. ASSUME NEW t \in Threads, WaitForDurable(t) PROVE TypeOK'
    BY <1>7 DEF WaitForDurable, log, flags, block, bounds, daemon
<1>8. ASSUME NEW t \in Threads, Recheck(t) PROVE TypeOK'
    BY <1>8 DEF Recheck, log, flags, block, bounds, daemon
<1>9. ASSUME NEW t \in Threads, TaskBegins(t) PROVE TypeOK'
    BY <1>9 DEF TaskBegins, log, flags, block, bounds, daemon
<1>10. ASSUME NEW t \in Threads, TaskEnds(t) PROVE TypeOK'
    BY <1>10 DEF TaskEnds, log, flags, block, bounds, daemon
<1>11. ASSUME NEW t \in Threads, Flush(t) PROVE TypeOK'
    BY <1>11 DEF Flush, log, flags, block, bounds, daemon
<1>12. ASSUME NEW t \in Threads, ClearSlot(t) PROVE TypeOK'
    BY <1>12 DEF ClearSlot, Cleared, log, flags, block, bounds, daemon
<1>13. ASSUME NEW t \in Threads, NEW n \in Sizes, Allocate(t, n) PROVE TypeOK'
    BY <1>13, SizesAssumption DEF Allocate, log, flags, block, bounds, daemon
<1>14. ASSUME NEW t \in Threads, ReadSlot(t) PROVE TypeOK'
    BY <1>14 DEF ReadSlot, log, flags, block, bounds, daemon
<1>15. CASE ReadCur
    BY <1>15 DEF ReadCur, log, flags, block, bounds, daemon
<1>16. CASE FlushBuffer
    BY <1>16 DEF FlushBuffer, log, flags, block, bounds, daemon
<1>17. CASE EndRound
    BY ZenonT(60), ZenonT(90), <1>17 DEF EndRound, Woken, log, flags, block, bounds, daemon
<1>18. CASE TestWork
    BY <1>18 DEF TestWork, log, flags, block, bounds, daemon
<1>19. CASE FallAsleep
    BY <1>19 DEF FallAsleep, log, flags, block, bounds, daemon
<1>20. CASE NeverMind
    BY ZenonT(60), ZenonT(90), <1>20 DEF NeverMind, log, flags, block, bounds, daemon
<1>21. CASE WakeUp
    BY ZenonT(60), ZenonT(90), <1>21 DEF WakeUp, log, flags, block, bounds, daemon
<1>22. CASE ClearState
    BY <1>22 DEF ClearState, log, flags, block, bounds, daemon
<1>23. CASE UNCHANGED vars
    BY <1>23 DEF vars, log, flags, block, bounds, daemon
<1> QED
    BY <1>1, <1>2, <1>3, <1>4, <1>5, <1>6, <1>7, <1>8, <1>9, <1>10, <1>11, <1>12, <1>13, <1>14, <1>15, <1>16, <1>17, <1>18, <1>19, <1>20, <1>21, <1>22, <1>23 DEF Next, Worker, Continue, Daemon

(* What the types leave open. *)
Rest == Order /\ ScanSafe /\ FlushStopsAtBlock /\ FillInWindow /\ Mark

(* ... and one case per action that can disturb it; the others are Quiet.  *)
LEMMA RestStep == IInv /\ [Next]_vars => Rest'
<1> SUFFICES ASSUME IInv, [Next]_vars PROVE Rest'
    OBVIOUS
<1>0. TypeOK /\ Rest
    BY DEF IInv, Rest
<1>a. Quiet => Rest'
    BY QuietStep DEF Rest
<1> USE DEF log, flags, block, bounds, daemon, Goto, DGoto
<1>1. ASSUME NEW t \in Threads, AwaitSpace(t) PROVE Rest'
    BY <1>1, <1>0, <1>a DEF AwaitSpace, Quiet, TypeOK
<1>2. ASSUME NEW t \in Threads, ShouldKick(t) PROVE Rest'
    BY <1>2, <1>0, <1>a DEF ShouldKick, Quiet, TypeOK
<1>3. ASSUME NEW t \in Threads, Announce(t) PROVE Rest'
    BY <1>3, <1>0, <1>a DEF Announce, Quiet, TypeOK
<1>4. ASSUME NEW t \in Threads, KickDaemon(t) PROVE Rest'
    BY <1>4, <1>0, <1>a DEF KickDaemon, Quiet, TypeOK
<1>5. ASSUME NEW t \in Threads, WaitForDurable(t) PROVE Rest'
    BY <1>5, <1>0, <1>a DEF WaitForDurable, Quiet, TypeOK
<1>6. ASSUME NEW t \in Threads, Recheck(t) PROVE Rest'
    BY <1>6, <1>0, <1>a DEF Recheck, Quiet, TypeOK
<1>7. ASSUME NEW t \in Threads, TaskBegins(t) PROVE Rest'
    BY <1>7, <1>0, <1>a DEF TaskBegins, Quiet, TypeOK
<1>8. ASSUME NEW t \in Threads, TaskEnds(t) PROVE Rest'
    BY <1>8, <1>0, <1>a DEF TaskEnds, Quiet, TypeOK
<1>9. ASSUME NEW t \in Threads, Flush(t) PROVE Rest'
    BY <1>9, <1>0, <1>a DEF Flush, Quiet, TypeOK
<1>10. CASE TestWork
    BY <1>10, <1>a DEF TestWork, Quiet
<1>11. CASE FallAsleep
    BY <1>11, <1>a DEF FallAsleep, Quiet
<1>12. CASE NeverMind
    BY <1>12, <1>a DEF NeverMind, Quiet
<1>13. CASE WakeUp
    BY <1>13, <1>a DEF WakeUp, Quiet
<1>14. CASE ClearState
    BY <1>14, <1>a DEF ClearState, Quiet
<1>15. CASE UNCHANGED vars
    BY <1>15, <1>a DEF vars, Quiet
<1>16. ASSUME NEW t \in Threads, GrabBuffer(t) PROVE Rest'
    BY <1>16, <1>0 DEF GrabBuffer, Fits, Rest, TypeOK, Order, ScanSafe, FlushStopsAtBlock, FillInWindow, Mark, Reserved
<1>17. ASSUME NEW t \in Threads, Release(t) PROVE Rest'
    BY <1>17, <1>0 DEF Release, Rest, TypeOK, Order, ScanSafe, FlushStopsAtBlock, FillInWindow, Mark, Reserved
<1>18. ASSUME NEW t \in Threads, ClearSlot(t) PROVE Rest'
    BY <1>18, <1>0 DEF ClearSlot, Cleared, Rest, TypeOK, Order, ScanSafe, FlushStopsAtBlock, FillInWindow, Mark, Reserved
<1>19. ASSUME NEW t \in Threads, NEW n \in Sizes, Allocate(t, n) PROVE Rest'
    BY <1>19, <1>0, SizesAssumption DEF Allocate, Rest, TypeOK, Order, ScanSafe, FlushStopsAtBlock, FillInWindow, Mark, Reserved
<1>20. ASSUME NEW t \in Threads, ReadSlot(t) PROVE Rest'
    BY <1>20, <1>0 DEF ReadSlot, Smaller, Rest, TypeOK, Order, ScanSafe, FlushStopsAtBlock, FillInWindow, Mark, Reserved
<1>21. CASE ReadCur
    BY <1>21, <1>0 DEF ReadCur, Rest, TypeOK, Order, ScanSafe, FlushStopsAtBlock, FillInWindow, Mark, Reserved
<1>22. CASE FlushBuffer
  <2>1. durable' \in Nat /\ durable <= durable' /\ durable' <= lsn
    BY <1>22, <1>0 DEF FlushBuffer, Rest, TypeOK, Order
  <2>2. ASSUME NEW t \in Threads, Reserved(t), tls[t] # 0 PROVE durable' <= off[t]
    BY <1>22, <1>0, <2>2 DEF FlushBuffer, Rest, TypeOK, ScanSafe, FlushStopsAtBlock
  <2>3. FillInWindow'
    BY <1>22, <1>0, <2>1, WindowAssumption DEF FlushBuffer, Rest, TypeOK, FillInWindow
  <2>4. Order' /\ FlushStopsAtBlock'
    BY <1>22, <1>0, <2>1, <2>2 DEF FlushBuffer, Rest, TypeOK, Order, FlushStopsAtBlock, Reserved
  <2>5. ScanSafe' /\ Mark'
    BY <1>22, <1>0, <2>1 DEF FlushBuffer, Rest, TypeOK, ScanSafe, Mark
  <2> QED
    BY <2>3, <2>4, <2>5 DEF Rest
<1>23. CASE EndRound
  <2>1. \A t \in Threads : pc'[t] = "fill" => pc[t] = "fill"
    BY <1>23, <1>0 DEF EndRound, Woken, TypeOK
  <2>2. FillInWindow'
    BY <1>23, <1>0, <2>1 DEF EndRound, Rest, FillInWindow
  <2>3. Order' /\ ScanSafe' /\ FlushStopsAtBlock'
    BY <1>23, <1>0 DEF EndRound, Rest, Order, ScanSafe, FlushStopsAtBlock, Reserved
  <2>4. Mark'
    BY <1>23, <1>0 DEF EndRound, Timeout, Rest, TypeOK, Mark
  <2> QED
    BY <2>2, <2>3, <2>4 DEF Rest
<1> QED
    BY <1>1, <1>2, <1>3, <1>4, <1>5, <1>6, <1>7, <1>8, <1>9, <1>10, <1>11, <1>12, <1>13, <1>14, <1>15, <1>16, <1>17, <1>18, <1>19, <1>20, <1>21, <1>22, <1>23 DEF Next, Worker, Continue, Daemon

(* Every step of a worker or of the write daemon keeps the invariant. *)
THEOREM Invariance == Spec => []IInv
<1>1. IInv /\ [Next]_vars => IInv'
    BY TypeStep, RestStep DEF IInv, Rest
<1> QED
    BY InitInv, <1>1, PTL DEF Spec

(* allocate() and release() keep the bookkeeping of blocks: a thread has a *)
(* block exactly while it is between the two.                              *)
THEOREM TypeCorrect == Spec => []TypeOK
<1>1. IInv => TypeOK
    BY DEF IInv
<1> QED
    BY Invariance, <1>1, PTL

(* The scan of smallest_tls_lsn_offset(), not atomic with the threads'     *)
(* fetch-and-adds and releases, never lets the flush pass a block of a     *)
(* thread that has an offset in its slot.                                  *)
THEOREM FlushSafe == Spec => []FlushStopsAtBlock
<1>1. IInv => FlushStopsAtBlock
    BY DEF IInv
<1> QED
    BY Invariance, <1>1, PTL

(* write_buf() hands out no space that holds a block not yet written.      *)
THEOREM WindowSafe == Spec => []FillInWindow
<1>1. IInv => FillInWindow
    BY DEF IInv
<1> QED
    BY Invariance, <1>1, PTL

(* The assertion at the top of flush_log_buffer(): every round starts from *)
(* the durable mark.                                                       *)
THEOREM MarkKept == Spec => []MarkInStep
<1>1. IInv => MarkInStep
    BY DEF IInv, Mark, MarkInStep
<1> QED
    BY Invariance, <1>1, PTL
=============================================================================
