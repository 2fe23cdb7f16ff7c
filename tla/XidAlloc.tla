------------------------------ MODULE XidAlloc ------------------------------
(***************************************************************************)
(* Allocation of XIDs and transaction contexts (dbcore/xid.cpp, xid.h).    *)
(*                                                                         *)
(* Four bitmaps take turns, one per epoch.  A thread claims a whole word   *)
(* of the current bitmap and then issues the contexts in it one by one;    *)
(* a freed context returns to the bitmap it came from.  A context is named *)
(* by its half (the epoch's parity), its word and its bit; an XID by its   *)
(* epoch, word and bit.                                                    *)
(*                                                                         *)
(* The epoch manager appears by its contract: nobody inside it is more     *)
(* than two epochs behind (EpochMgr, AtMostTwoBehind).                     *)
(***************************************************************************)
EXTENDS EpochConstants

CONSTANTS
    NWORDS,     \* words of a bitmap
    Bits        \* bits of a word, a set of numbers

ASSUME WordsAssumption == NWORDS \in Nat \ {0} /\ Bits \subseteq Nat /\ Bits # {}

VARIABLES
    cur,        \* the current epoch of xid_epochs
    active,     \* the epoch each thread entered, -1 if it is outside
    data,       \* xid_bitmap::data of the four bitmaps: the bits set in each word
    widx,       \* xid_bitmap::widx
    xid_mutex,  \* its holder
    epoch_of,   \* thread_data::epoch
    word_of,    \* thread_data::base_id, the word it stands for
    bits_of,    \* thread_data::bitmap, the bits that remain
    xpc,        \* next step of each thread
    seen_epoch, \* xid_alloc()'s local e, the epoch it has entered
    seen_word,  \* and its local i, the word index
    live,       \* XIDs in use
    used        \* history: XIDs ever issued

bitmaps == <<cur, active, data, widx, xid_mutex, live, used>>
tls == <<epoch_of, word_of, bits_of>>
seen == <<seen_epoch, seen_word>>
xvars == <<bitmaps, tls, xpc, seen>>

NBITMAPS == 4
Words == 0..NWORDS - 1
Bitmap(e) == e % NBITMAPS
Context(x) == <<x[1] % 2, x[2], x[3]>>

(* global_init() fills the first row of two bitmaps. *)
XidInit ==
    /\ cur = 0 /\ active = [t \in Threads |-> -1]
    /\ data = [b \in 0..NBITMAPS - 1 |-> [i \in Words |-> IF b < 2 THEN Bits ELSE {}]]
    /\ widx = [b \in 0..NBITMAPS - 1 |-> 0]
    /\ xid_mutex = NoThread
    /\ epoch_of = [t \in Threads |-> 0] /\ word_of = [t \in Threads |-> 0]
    /\ bits_of = [t \in Threads |-> {}]
    /\ xpc = [t \in Threads |-> "idle"]
    /\ seen_epoch = [t \in Threads |-> 0] /\ seen_word = [t \in Threads |-> 0]
    /\ live = {} /\ used = {}

XGoto(t, label) == xpc' = [xpc EXCEPT ![t] = label]

-----------------------------------------------------------------------------
(* xid_alloc() *)

(* thread_enter(), when the thread's word is used up *)
XEnter(t) ==
    /\ xpc[t] = "idle" /\ bits_of[t] = {}
    /\ active' = [active EXCEPT ![t] = cur]
    /\ seen_epoch' = [seen_epoch EXCEPT ![t] = cur]
    /\ seen_word' = [seen_word EXCEPT ![t] = 0]
    /\ XGoto(t, "widx")
    /\ UNCHANGED <<cur, data, widx, xid_mutex, live, used, tls>>

NextIndex(t, i) ==
    /\ seen_word' = [seen_word EXCEPT ![t] = i]
    /\ XGoto(t, IF i = NWORDS THEN "overflow" ELSE "cas")

ReadWidx(t) ==
    /\ xpc[t] = "widx"
    /\ NextIndex(t, widx[Bitmap(seen_epoch[t])])
    /\ UNCHANGED <<bitmaps, tls, seen_epoch>>

MutClaimed(t) == TRUE
Claimed(t) == widx[Bitmap(seen_epoch[t])] = seen_word[t]

(* Compare and swap: claim the word, or go on from the value found. *)
ClaimWord(t) ==
    /\ xpc[t] = "cas"
    /\ IF Claimed(t)
         THEN /\ widx' = [widx EXCEPT ![Bitmap(seen_epoch[t])] = seen_word[t] + 1]
              /\ XGoto(t, "take") /\ UNCHANGED seen_word
         ELSE NextIndex(t, widx[Bitmap(seen_epoch[t])]) /\ UNCHANGED widx
    /\ UNCHANGED <<cur, active, data, xid_mutex, live, used, tls, seen_epoch>>

(* std::swap(tls.bitmap, b.data[i]) is a read of the word ... *)
TakeWord(t) ==
    /\ xpc[t] = "take"
    /\ epoch_of' = [epoch_of EXCEPT ![t] = seen_epoch[t]]
    /\ word_of' = [word_of EXCEPT ![t] = seen_word[t]]
    /\ bits_of' = [bits_of EXCEPT ![t] = data[Bitmap(seen_epoch[t])][seen_word[t]]]
    /\ XGoto(t, "clear")
    /\ UNCHANGED <<bitmaps, seen>>

(* ... and a store of the old, empty one; the scope ends with thread_exit(). *)
ClearWord(t) ==
    /\ xpc[t] = "clear"
    /\ data' = [data EXCEPT ![Bitmap(seen_epoch[t])][seen_word[t]] = {}]
    /\ active' = [active EXCEPT ![t] = -1]
    /\ XGoto(t, "idle")
    /\ UNCHANGED <<cur, widx, xid_mutex, live, used, tls, seen>>

(* The bitmap is exhausted. *)
Overflow(t) ==
    /\ xpc[t] = "overflow"
    /\ active' = [active EXCEPT ![t] = -1]
    /\ XGoto(t, "lock")
    /\ UNCHANGED <<cur, data, widx, xid_mutex, live, used, tls, seen>>

MutStillAtEnd(t) == TRUE
StillAtEnd(t) == seen_epoch[t] = cur

LockMutex(t) ==
    /\ xpc[t] = "lock" /\ xid_mutex = NoThread
    /\ IF StillAtEnd(t)
         THEN /\ cur < MaxEpoch
              /\ xid_mutex' = t
              /\ widx' = [widx EXCEPT ![Bitmap(seen_epoch[t] + 1)] = 0]
              /\ XGoto(t, "open")
         ELSE XGoto(t, "idle") /\ UNCHANGED <<xid_mutex, widx>>
    /\ UNCHANGED <<cur, active, data, live, used, tls, seen>>

(* new_epoch(), retried every millisecond until the stragglers have left *)
Ready == \A u \in Threads : active[u] # -1 => cur - 1 <= active[u]

OpenEpoch(t) ==
    /\ xpc[t] = "open" /\ Ready
    /\ cur' = cur + 1
    /\ xid_mutex' = NoThread
    /\ XGoto(t, "idle")
    /\ UNCHANGED <<active, data, widx, live, used, tls, seen>>

-----------------------------------------------------------------------------
(* take_one(): the lowest bit of the thread's word *)
TakeOne(t) ==
    /\ xpc[t] = "idle"
    /\ \E k \in bits_of[t] :
         /\ \A j \in bits_of[t] : k <= j
         /\ LET x == <<epoch_of[t], word_of[t], k>> IN
            live' = live \cup {x} /\ used' = used \cup {x}
         /\ bits_of' = [bits_of EXCEPT ![t] = @ \ {k}]
    /\ UNCHANGED <<cur, active, data, widx, xid_mutex, xpc, seen, epoch_of, word_of>>

(* xid_free(); thread_deregistered() is a run of TakeOne and XidFree *)
XidFree(x) ==
    /\ x \in live
    /\ live' = live \ {x}
    /\ data' = [data EXCEPT ![Bitmap(x[1])][x[2]] = @ \cup {x[3]}]
    /\ UNCHANGED <<cur, active, widx, xid_mutex, used, tls, xpc, seen>>

Alloc(t) ==
    \/ XEnter(t) \/ ReadWidx(t) \/ ClaimWord(t) \/ TakeWord(t) \/ ClearWord(t)
    \/ Overflow(t) \/ LockMutex(t) \/ OpenEpoch(t) \/ TakeOne(t)

(* The bound on epochs is reached. *)
Finished ==
    /\ cur = MaxEpoch /\ \A t \in Threads : xpc[t] = "lock" /\ StillAtEnd(t)
    /\ UNCHANGED xvars

XidNext ==
    \/ \E t \in Threads : Alloc(t)
    \/ \E x \in live : XidFree(x)
    \/ Finished

XidSpec == XidInit /\ [][XidNext]_xvars

-----------------------------------------------------------------------------
(* XIDs whose context is with a thread that may still issue it.  A word    *)
(* that was read but not yet cleared is in the thread's hands.             *)
Held(t) == {<<epoch_of[t], word_of[t], k>> : k \in bits_of[t]}

(* Contexts that some bitmap offers, but for a word about to be cleared. *)
InBitmap ==
    {c \in {0, 1} \X Words \X Bits :
        \E b \in 0..NBITMAPS - 1 :
            /\ b % 2 = c[1] /\ c[3] \in data[b][c[2]]
            /\ ~ \E t \in Threads : xpc[t] = "clear" /\ Bitmap(seen_epoch[t]) = b
                                      /\ seen_word[t] = c[2]}

(* Every variable has its type. *)
XidTypeOK ==
    /\ cur \in 0..MaxEpoch
    /\ active \in [Threads -> -1..MaxEpoch]
    /\ data \in [0..NBITMAPS - 1 -> [Words -> SUBSET Bits]]
    /\ widx \in [0..NBITMAPS - 1 -> 0..NWORDS]
    /\ xid_mutex \in Threads \cup {NoThread}
    /\ epoch_of \in [Threads -> 0..cur] /\ word_of \in [Threads -> Words]
    /\ bits_of \in [Threads -> SUBSET Bits]
    /\ xpc \in [Threads -> {"idle", "widx", "cas", "take", "clear", "overflow", "lock", "open"}]
    /\ seen_epoch \in [Threads -> 0..cur] /\ seen_word \in [Threads -> 0..NWORDS]
    /\ \A t \in Threads : xpc[t] = "open" <=> xid_mutex = t
    /\ live \subseteq used /\ used \subseteq (0..cur) \X Words \X Bits

(* xid_alloc()'s promise that a context "is distinct from any other        *)
(* transaction whose lifetime overlaps with this one": no context is at    *)
(* the same time in use twice, in use and about to be issued, or in use    *)
(* and offered by a bitmap.                                                *)
ContextExclusive ==
    /\ \A x, y \in live : x # y => Context(x) # Context(y)
    /\ \A t \in Threads : \A x \in Held(t) :
         /\ \A y \in live : Context(x) # Context(y)
         /\ \A u \in Threads \ {t} : \A y \in Held(u) : Context(x) # Context(y)
         /\ Context(x) \notin InBitmap
    /\ \A x \in live : Context(x) \notin InBitmap

(* ... and that an XID is globally unique: take_one() never issues one     *)
(* again, although stragglers, slow threads and late frees cross epochs.   *)
NeverReissued ==
    [][\A x \in live' \ live : x \notin used]_xvars
=============================================================================
