------------------------------ MODULE Segments ------------------------------
(***************************************************************************)
(* The segments of the log: dbcore/sm-log-offset.cpp and sm-log-file.cpp.  *)
(*                                                                         *)
(* A worker that has reserved a range of LSN offsets maps it to a segment  *)
(* in assign_segment().  The range may run past the end of the active      *)
(* segment; then the workers race to install the next one, for which a     *)
(* file "nxt" is kept ready.  Whoever takes file_mutex next renames that   *)
(* file and creates the one after it.  The daemon flushes across segment   *)
(* boundaries and moves the durable mark.  After a crash the log is        *)
(* scanned from the mark and truncated where the chain of blocks ends.     *)
(*                                                                         *)
(* Offsets count bytes.  Segments are numbered from 1 and none is          *)
(* reclaimed: nothing but a test calls reclaim_before().  The buffer and   *)
(* the announcements in _tls_lsn_offset are in LogAlloc: here the daemon's *)
(* target lies behind every range that is not settled yet.                 *)
(***************************************************************************)
EXTENDS Integers, Sequences, FiniteSets, FiniteSetsExt, SequencesExt

CONSTANTS
    Threads,        \* worker threads
    Sizes,          \* sizes of log blocks
    Minimum,        \* MIN_LOG_BLOCK_SIZE
    SegmentSize,    \* segment_size
    Budgets         \* bounds: the last LSN offset, crashes, and NUM_LOG_SEGMENTS

ASSUME MinimumAssumption == Minimum \in Nat \ {0}
ASSUME SizesAssumption == \A n \in Sizes : n \in Nat /\ n >= Minimum
ASSUME SegmentAssumption == SegmentSize \in Nat /\ \A n \in Sizes : n <= SegmentSize

VARIABLES
    lsn,        \* _lsn_offset
    segs,       \* the segments, the last one active: [start, end]
    files,      \* those with a log file, which are those in the array segments
    nxt,        \* nxt_segment_fd: the segment the open file is for
    nxtFile,    \* the segment in the name of the file nxt, 0 if there is none
    mutex,      \* who holds file_mutex while it replaces the file nxt
    pc,         \* next step of each thread
    from,       \* start of the range the thread has reserved
    len,        \* the size of the block it wants
    left,       \* the segment the range was compared with
    prep,       \* the segment it has prepared, 0 if none
    placed,     \* the blocks in the log buffer or written since it was made
    written,    \* the blocks that have reached a file
    dpc,        \* next step of the daemon
    target,     \* new_dlsn_offset
    durable,    \* _durable_flushed_lsn_offset and its segment
    dmark,      \* the durable mark
    sys,        \* what the system does: "up", or a step of its start
    last,       \* bound: no range ends later
    slots,      \* NUM_LOG_SEGMENTS
    crashes,    \* bound: crashes left
    acked,      \* no block before this one may be lost
    torn        \* a crash found the file nxt missing or of another number

range == <<pc, from, len, left, prep>>
dir == <<files, nxt, nxtFile, mutex>>
daemon == <<dpc, target, durable>>
bounds == <<last, slots, crashes, acked, torn>>
vars == <<lsn, segs, dir, range, placed, written, daemon, dmark, sys, bounds>>

NoOne == "no one"
Daemon == "daemon"

LSN(s, o) == [seg |-> s, off |-> o]
Segment(at) == [start |-> at, end |-> at + SegmentSize]
Newest == Len(segs)
End(t) == from[t] + len[t]
Goto(t, label) == pc' = [pc EXCEPT ![t] = label]

(* _make_new_log(): the first segment holds an empty checkpoint in a block *)
(* of its own, and the durable mark points behind it.                      *)
Primed == 2 * Minimum

Init ==
    /\ segs = <<Segment(0)>> /\ files = segs /\ nxt = 2 /\ nxtFile = 2 /\ mutex = NoOne
    /\ lsn = Primed
    /\ pc = [t \in Threads |-> "idle"]
    /\ from = [t \in Threads |-> 0] /\ len = from /\ left = from /\ prep = from
    /\ placed = {} /\ written = {}
    /\ dpc = "idle" /\ target = 0 /\ durable = LSN(1, Primed) /\ dmark = LSN(1, Primed)
    /\ sys = "up"
    /\ \E b \in Budgets : last = b[1] /\ crashes = b[2] /\ slots = b[3]
    /\ acked = Primed /\ torn = FALSE

-----------------------------------------------------------------------------
(* _create_nxt_seg_file(FALSE), under file_mutex: a newest segment that    *)
(* still has the file nxt enters the array and its file gets its name,     *)
(* then the next file is created.                                          *)

StaleNxt == nxt = Newest

Rename(who) ==
    /\ mutex = NoOne /\ StaleNxt
    /\ IF nxtFile = nxt
       THEN /\ files' = segs /\ nxtFile' = 0 /\ mutex' = who
            /\ UNCHANGED sys
       ELSE sys' = "failed" /\ UNCHANGED <<files, nxtFile, mutex>>
    /\ UNCHANGED <<lsn, segs, nxt, range, placed, written, daemon, dmark, bounds>>


CreateNxt(who) ==
    /\ mutex = who /\ nxtFile = 0
    /\ nxt' = nxt + 1 /\ nxtFile' = nxt + 1
    /\ UNCHANGED <<lsn, segs, files, mutex, range, placed, written, daemon, dmark, sys, bounds>>

(* The caller goes on with its own work and then drops the mutex. *)
FileReady(who) == IF mutex = who THEN nxtFile # 0 ELSE mutex = NoOne /\ ~StaleNxt
Unlock == mutex' = NoOne /\ UNCHANGED <<files, nxt, nxtFile>>

-----------------------------------------------------------------------------
(* allocate(): the fetch-and-add, then assign_segment() *)

Reserve(t, n) ==
    /\ \/ pc[t] = "idle"
       \/ pc[t] = "retry" /\ n = len[t]
    /\ lsn + n <= last
    /\ from' = [from EXCEPT ![t] = lsn]
    /\ len' = [len EXCEPT ![t] = n]
    /\ lsn' = lsn + n
    /\ Goto(t, "assign")
    /\ UNCHANGED <<segs, dir, left, prep, placed, written, daemon, dmark, sys, bounds>>

(* The newest segment that starts before the range ends. *)
LeftOf(t) == Max({s \in 1..Newest : segs[s].start < End(t)})

StartsIn(t, s) == from[t] + Minimum <= s.end
EndsIn(t, s) == End(t) + Minimum <= s.end

(* The block of segment s, cut off where the segment ends; a block that    *)
(* was cut off is left without a checksum.                                 *)
Block(t, s, next) ==
    [seg |-> s, off |-> from[t], full |-> End(t) <= segs[s].end, next |-> next]

(* The outcomes.  A block that does not fit is filled with a skip record   *)
(* and the request starts over, as it does in the dead zone.               *)
Place(t, b) ==
    /\ placed' = placed \cup {b}
    /\ Goto(t, IF b.full THEN "idle" ELSE "retry")
    /\ UNCHANGED <<from, len, left, prep>>

Drop(t) == Goto(t, "retry") /\ UNCHANGED <<from, len, left, prep, placed>>

Again(t) == Goto(t, "assign") /\ UNCHANGED <<from, len, left, prep, placed>>

Assign(t) ==
    /\ pc[t] = "assign"
    /\ LET s == LeftOf(t) IN
       CASE s < Newest /\ s > Len(files)           -> Drop(t)
         [] StartsIn(t, segs[s]) /\ EndsIn(t, segs[s]) ->
                Place(t, Block(t, s, LSN(s, End(t))))
         [] StartsIn(t, segs[s]) /\ s < Newest ->
                Place(t, Block(t, s, LSN(s + 1, segs[s + 1].start)))
         [] ~StartsIn(t, segs[s]) /\ s < Newest    -> Drop(t)
         [] OTHER ->
                /\ left' = [left EXCEPT ![t] = s]
                /\ Goto(t, "prepare")
                /\ UNCHANGED <<from, len, prep, placed>>
    /\ UNCHANGED <<lsn, segs, dir, written, daemon, dmark, sys, bounds>>

(* What assign_segment() does with the segment _install_segment() returns. *)
Conclude(t, r, right) ==
    LET s == left[t] IN
    CASE StartsIn(t, segs[s]) /\ right.end < End(t) + Minimum -> Again(t)
      [] StartsIn(t, segs[s]) /\ right.end >= End(t) + Minimum ->
             Place(t, Block(t, s, LSN(r, right.start)))
      [] ~StartsIn(t, segs[s]) /\ right.start > from[t] -> Drop(t)
      [] ~StartsIn(t, segs[s]) /\ right.start <= from[t] ->
             IF right.end < End(t) + Minimum THEN Again(t)
             ELSE /\ placed' = placed \cup {[seg |-> r, off |-> from[t], full |-> TRUE,
                                             next |-> LSN(r, End(t))]}
                  /\ Goto(t, "idle")
                  /\ UNCHANGED <<from, len, left, prep>>

(* Where the thread wants the new segment to start. *)
Wanted(t) == IF StartsIn(t, segs[left[t]]) THEN End(t) ELSE from[t]

MutTooEarly(t) == FALSE
TooEarly(t) == Wanted(t) + Minimum < segs[Newest].end

(* prepare_new_segment(): the successor of what is the newest segment now. *)
(* It throws log_is_full if the slot belongs to another segment.           *)
Prepare(t) ==
    /\ pc[t] = "prepare"
    /\ prep' = [prep EXCEPT ![t] = Newest + 1]
    /\ Goto(t, IF TooEarly(t) THEN "get"
               ELSE IF Newest + 1 > slots THEN "full" ELSE "file")
    /\ UNCHANGED <<lsn, segs, dir, from, len, left, placed, written, daemon, dmark, sys, bounds>>

(* Its file is there, or has to be made first. *)
NeedsFile(t) == pc[t] = "file" /\ nxt < prep[t]

TakeFile(t) ==
    /\ pc[t] = "file"
    /\ \/ nxt >= prep[t] /\ mutex # t /\ UNCHANGED dir
       \/ FileReady(t) /\ nxt >= prep[t] /\ mutex = t /\ Unlock
    /\ Goto(t, IF nxt > prep[t] THEN "get" ELSE "install")
    /\ UNCHANGED <<lsn, segs, from, len, left, prep, placed, written, daemon, dmark, sys, bounds>>

(* create_segment(): the compare-and-swap of active_segment. *)
Installs(t) == prep[t] = Newest + 1

CreateSegment(t) ==
    /\ pc[t] = "install"
    /\ IF Installs(t)
       THEN /\ segs' = Append(segs, Segment(Wanted(t)))
            /\ Conclude(t, prep[t], Segment(Wanted(t)))
       ELSE Goto(t, "get") /\ UNCHANGED <<segs, from, len, left, prep, placed>>
    /\ UNCHANGED <<lsn, dir, written, daemon, dmark, sys, bounds>>

(* get_segment() of the successor of left: its slot, the active segment if *)
(* the slot is empty, the slot once more if the active segment is another. *)
ReadSlot(t) ==
    /\ pc[t] = "get"
    /\ IF left[t] + 1 <= Len(files) THEN Conclude(t, left[t] + 1, segs[left[t] + 1])
       ELSE Goto(t, "get active") /\ UNCHANGED <<from, len, left, prep, placed>>
    /\ UNCHANGED <<lsn, segs, dir, written, daemon, dmark, sys, bounds>>

ReadActive(t) ==
    /\ pc[t] = "get active"
    /\ IF left[t] + 1 = Newest \/ left[t] + 1 <= Len(files)
       THEN Conclude(t, left[t] + 1, segs[left[t] + 1]) /\ UNCHANGED sys
       ELSE sys' = "null" /\ UNCHANGED <<range, placed>>
    /\ UNCHANGED <<lsn, segs, dir, written, daemon, dmark, bounds>>

-----------------------------------------------------------------------------
(* The daemon: flush_log_buffer() and the durable mark *)

Settled(o) == \A t \in Threads : pc[t] \notin {"idle", "retry"} => from[t] >= o

(* smallest_tls_lsn_offset(): where a released block ends. *)
Flush(o) ==
    /\ dpc = "idle" /\ durable.off < o /\ Settled(o)
    /\ dpc' = "open" /\ target' = o
    /\ UNCHANGED <<lsn, segs, dir, range, placed, written, durable, dmark, sys, bounds>>

(* open_for_write() of the segment that is durable so far. *)
OpenForWrite ==
    /\ dpc = "open" /\ FileReady(Daemon)
    /\ Unlock
    /\ dpc' = IF durable.off < target THEN "write" ELSE "mark"
    /\ UNCHANGED <<lsn, segs, range, placed, written, target, durable, dmark, sys, bounds>>

(* Everything up to the target, or to the end of the segment if the target *)
(* lies behind it.                                                         *)
CrossesEnd == segs[durable.seg].end < target + Minimum
FlushedTo ==
    IF CrossesEnd THEN LSN(durable.seg + 1, segs[durable.seg + 1].start)
    ELSE LSN(durable.seg, target)
Flushing == {b \in placed : durable.off <= b.off /\ b.off < FlushedTo.off}

Write ==
    /\ dpc = "write"
    /\ IF CrossesEnd /\ durable.seg = Newest
       THEN sys' = "null" /\ UNCHANGED <<written, daemon>>
       ELSE /\ written' = written \cup Flushing
            /\ durable' = FlushedTo
            /\ dpc' = IF CrossesEnd THEN "open" ELSE "mark"
            /\ UNCHANGED <<target, sys>>
    /\ UNCHANGED <<lsn, segs, dir, range, placed, dmark, bounds>>

UpdateDurableMark ==
    /\ dpc = "mark" /\ FileReady(Daemon)
    /\ Unlock
    /\ dmark' = durable
    /\ dpc' = "idle"
    /\ UNCHANGED <<lsn, segs, range, placed, written, target, durable, sys, bounds>>

-----------------------------------------------------------------------------
(* A crash, and the start of sm_log_file_mgr and sm_log_recover_mgr *)

(* A write that was under way may have reached the file in part. *)
Crash ==
    /\ crashes > 0 /\ sys \notin {"mount", "failed", "null"}
    /\ \E part \in IF dpc = "write" /\ ~(CrossesEnd /\ durable.seg = Newest)
                   THEN SUBSET Flushing ELSE {{}} :
           written' = written \cup part /\ placed' = written \cup part
    /\ acked' = IF sys = "up" THEN Max({acked, durable.off}) ELSE acked
    /\ torn' = (torn \/ nxtFile # Len(files) + 1)
    /\ crashes' = crashes - 1
    /\ sys' = "mount"
    /\ lsn' = 0 /\ segs' = files /\ nxt' = 0 /\ mutex' = NoOne
    /\ pc' = [t \in Threads |-> "idle"]
    /\ from' = [t \in Threads |-> 0] /\ len' = from' /\ left' = from' /\ prep' = from'
    /\ dpc' = "idle" /\ target' = 0 /\ durable' = dmark
    /\ UNCHANGED <<files, nxtFile, dmark, last, slots>>

(* The constructor reads the directory. *)
Mount ==
    /\ sys = "mount"
    /\ IF nxtFile \in {0, Newest + 1}
       THEN nxt' = (IF nxtFile = 0 THEN Newest ELSE nxtFile) /\ sys' = "scan"
       ELSE sys' = "failed" /\ UNCHANGED nxt
    /\ UNCHANGED <<lsn, segs, files, nxtFile, mutex, range, placed, written, daemon, dmark, bounds>>

(* Where the chain of blocks with a valid checksum ends that starts at the *)
(* durable mark.                                                           *)
MutAfter(l) ==
    IF \E b \in written : LSN(b.seg, b.off) = l /\ b.full /\ b.next.seg = l.seg
    THEN (CHOOSE b \in written : LSN(b.seg, b.off) = l).next ELSE l
After(l) ==
    IF \E b \in written : LSN(b.seg, b.off) = l /\ b.full
    THEN (CHOOSE b \in written : LSN(b.seg, b.off) = l).next ELSE l
ChainEnd ==
    LET follow[n \in 0..Cardinality(written)] ==
            IF n = 0 THEN dmark ELSE After(follow[n - 1])
    IN  follow[Cardinality(written)]

Scan ==
    /\ sys = "scan"
    /\ durable' = ChainEnd
    /\ sys' = IF ChainEnd # dmark THEN "mark" ELSE "truncate"
    /\ UNCHANGED <<lsn, segs, dir, range, placed, written, dpc, target, dmark, bounds>>

MarkEnd ==
    /\ sys = "mark" /\ FileReady(Daemon)
    /\ Unlock
    /\ dmark' = durable
    /\ sys' = "truncate"
    /\ UNCHANGED <<lsn, segs, range, placed, written, daemon, bounds>>

(* truncate_after(): the later segments go one by one, then a file nxt     *)
(* that is too high is replaced, then the last segment is cut.             *)
TruncateNewest ==
    /\ sys = "truncate" /\ durable.seg < Newest
    /\ files' = Front(files) /\ segs' = files'
    /\ written' = {b \in written : b.seg < Newest} /\ placed' = written'
    /\ UNCHANGED <<lsn, nxt, nxtFile, mutex, range, daemon, dmark, sys, bounds>>

ReplaceNxt ==
    /\ sys = "truncate" /\ durable.seg = Newest
    /\ \/ nxt > Newest + 1 /\ nxt' = Newest /\ nxtFile' = 0 /\ mutex' = Daemon
       \/ mutex = Daemon /\ nxt' = nxt + 1 /\ nxtFile' = nxt + 1 /\ mutex' = NoOne
    /\ UNCHANGED <<lsn, segs, files, range, placed, written, daemon, dmark, sys, bounds>>

Cut ==
    /\ sys = "truncate" /\ durable.seg >= Newest /\ nxt <= Newest + 1 /\ mutex = NoOne
    /\ IF durable.seg > Newest
       THEN sys' = "null" /\ UNCHANGED <<written, placed, lsn, acked>>
       ELSE /\ written' = {b \in written : b.off < durable.off} /\ placed' = written'
            /\ lsn' = durable.off /\ acked' = durable.off
            /\ sys' = "up"
    /\ UNCHANGED <<segs, dir, range, daemon, dmark, last, slots, crashes, torn>>

-----------------------------------------------------------------------------
Worker(t) ==
    \/ \E n \in Sizes : Reserve(t, n)
    \/ Assign(t)
    \/ Prepare(t)
    \/ NeedsFile(t) /\ Rename(t)
    \/ CreateNxt(t)
    \/ TakeFile(t)
    \/ CreateSegment(t)
    \/ ReadSlot(t)
    \/ ReadActive(t)

Daemons ==
    \/ \E o \in {b.next.off : b \in placed} \cup {lsn} : Flush(o)
    \/ dpc \in {"open", "mark"} /\ Rename(Daemon)
    \/ OpenForWrite
    \/ Write
    \/ UpdateDurableMark

Start ==
    \/ Mount
    \/ Scan
    \/ sys = "mark" /\ Rename(Daemon)
    \/ MarkEnd
    \/ TruncateNewest
    \/ ReplaceNxt
    \/ Cut

SegNext ==
    \/ sys = "up" /\ \E t \in Threads : Worker(t)
    \/ sys = "up" /\ Daemons
    \/ sys \in {"up", "mark"} /\ CreateNxt(Daemon)
    \/ Crash
    \/ Start

SegSpec == Init /\ [][SegNext]_vars

-----------------------------------------------------------------------------
(* Properties *)

LSNs == [seg : Nat, off : Nat]

(* Each variable stays in the range of the code's type for it. *)
SegTypeOK ==
    /\ lsn \in 0..last
    /\ Len(files) \in {Len(segs), Len(segs) - 1} /\ Len(files) >= 1
    /\ nxt \in 0..(slots + 1) /\ nxtFile \in 0..(slots + 1)
    /\ mutex \in Threads \cup {NoOne, Daemon}
    /\ pc \in [Threads -> {"idle", "retry", "assign", "prepare", "file", "install", "get",
                           "get active", "full"}]
    /\ \A b \in placed \cup written : b.next \in LSNs /\ b.full \in BOOLEAN
    /\ durable \in LSNs /\ dmark \in LSNs
    /\ dpc \in {"idle", "open", "write", "mark"}
    /\ sys \in {"up", "mount", "scan", "mark", "truncate", "failed", "null"}

(* The blocks form one chain.  Recovery reads the log by following the     *)
(* next_lsn of each block, so between a block and the one it names there   *)
(* is no other, and the one it names is in the segment it names.  Until it *)
(* is placed a thread is about to place it, and the last block names the   *)
(* end of the log.  A range that assign_segment() drops is named by none.  *)
Awaited(l) == \E t \in Threads : pc[t] \notin {"idle", "retry"} /\ from[t] = l.off
ChainUnbroken ==
    sys = "up" =>
        \A b \in placed :
            /\ segs[b.seg].start <= b.off /\ b.off + Minimum <= segs[b.seg].end
            /\ \A c \in placed : c.off > b.off =>
                   b.next.off < c.off \/ b.next = LSN(c.seg, c.off)
            /\ \/ b.next.off = lsn
               \/ Awaited(b.next)
               \/ \E c \in placed : b.next = LSN(c.seg, c.off)


(* The same without the exception: the owner of a block that overflows its *)
(* segment closes the segment "so that recovery proceeds to the new        *)
(* segment rather than truncating the log" (sm-log-alloc.cpp), so every    *)
(* released block that was flushed is on the chain.                        *)
FlushedKept ==
    sys = "scan" => \A b \in written : b.full /\ b.off < acked => b.off < ChainEnd.off

(* get_segment() returns a segment for the successor of a segment that is  *)
(* left behind, for the segment a flush goes on to and for the segment the *)
(* end of the log lies in.                                                 *)
SegmentFound == sys # "null"


(* The table of segments and the blocks agree while threads race to        *)
(* install the next segment.                                               *)
SegmentsSound == SegTypeOK /\ ChainUnbroken /\ SegmentFound
=============================================================================
