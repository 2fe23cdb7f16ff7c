--------------------------- MODULE XidAllocProofs ---------------------------
(***************************************************************************)
(* Proofs for the XID allocator: for any number of threads, words and bits *)
(* a context is in one hand at a time and an XID is issued once.           *)
(***************************************************************************)
EXTENDS XidAlloc, TLAPS

(* The provers of a leaf that names none, and their seconds. *)
USE SMTT(10), ZenonT(30), SMTT(60)

(* Between thread_enter() and thread_exit() *)
Inside(t) == xpc[t] \in {"widx", "cas", "take", "clear", "overflow"}

(* The epoch manager lets nobody fall more than two epochs behind, so the  *)
(* epochs that threads work in have bitmaps of their own.                  *)
InEpoch ==
    \A t \in Threads :
        /\ IF Inside(t) THEN active[t] = seen_epoch[t] /\ cur - 2 <= seen_epoch[t] ELSE active[t] = -1
        /\ xpc[t] = "open" => seen_epoch[t] = cur /\ cur < MaxEpoch
        /\ xpc[t] \in {"cas", "take", "clear"} => seen_word[t] < NWORDS
        /\ xpc[t] = "clear" => epoch_of[t] = seen_epoch[t] /\ word_of[t] = seen_word[t]
        /\ bits_of[t] # {} => xpc[t] \in {"idle", "clear"}

(* A thread owns word w of epoch f from the claim to its last bit. *)
Owns(t, f, w) ==
    \/ xpc[t] \in {"take", "clear"} /\ seen_epoch[t] = f /\ seen_word[t] = w
    \/ bits_of[t] # {} /\ epoch_of[t] = f /\ word_of[t] = w

(* In the last three epochs, the words claimed and the XIDs issued lie     *)
(* behind the word index.  A word has one owner in its epoch, and the bits *)
(* that the owner has left are those it has not issued.                    *)
Claims ==
    \A f \in 0..cur, w \in Words :
        /\ \A t \in Threads : Owns(t, f, w) =>
             /\ cur - 2 <= f => w < widx[Bitmap(f)]
             /\ \A u \in Threads : Owns(u, f, w) => u = t
             /\ \A k \in Bits : <<f, w, k>> \in used => xpc[t] # "take" /\ k \notin bits_of[t]
        /\ \A k \in Bits : <<f, w, k>> \in used /\ cur - 2 <= f => w < widx[Bitmap(f)]

(* xid_free() returns a context to the bitmap it was taken from: the       *)
(* contexts never leave the first two.                                     *)
FirstRow ==
    /\ \A w \in Words : data[2][w] = {} /\ data[3][w] = {}
    /\ \A f \in 0..cur, w \in Words, k \in Bits : <<f, w, k>> \in used => Bitmap(f) \in {0, 1}
    /\ \A t \in Threads : bits_of[t] # {} => Bitmap(epoch_of[t]) \in {0, 1}

(* The three places of bit k in word w of bitmap b *)
InUse(b, w, k) == \E f \in 0..cur : Bitmap(f) = b /\ <<f, w, k>> \in live
HeldBy(t, b, w, k) == Bitmap(epoch_of[t]) = b /\ word_of[t] = w /\ k \in bits_of[t]
Clearing(t, b, w) == xpc[t] = "clear" /\ Bitmap(seen_epoch[t]) = b /\ seen_word[t] = w
Offered(b, w, k) == k \in data[b][w] /\ \A t \in Threads : ~Clearing(t, b, w)

OnePlace ==
    \A b \in 0..3, w \in Words, k \in Bits :
        /\ \A f, g \in 0..cur :
             Bitmap(f) = b /\ Bitmap(g) = b /\ <<f, w, k>> \in live /\ <<g, w, k>> \in live => f = g
        /\ \A t \in Threads : HeldBy(t, b, w, k) =>
             ~InUse(b, w, k) /\ ~Offered(b, w, k) /\ \A u \in Threads : HeldBy(u, b, w, k) => u = t
        /\ InUse(b, w, k) => ~Offered(b, w, k)

Inv == XidTypeOK /\ InEpoch /\ Claims /\ FirstRow /\ OnePlace

-----------------------------------------------------------------------------
LEMMA BitmapType == \A f \in Nat : Bitmap(f) \in 0..3
  BY DEF Bitmap, NBITMAPS

(* Four consecutive epochs have four bitmaps. *)
LEMMA Apart == \A f, g \in Int : g < f /\ f <= g + 3 => Bitmap(f) # Bitmap(g)
  BY DEF Bitmap, NBITMAPS

LEMMA TypeFacts ==
    ASSUME XidTypeOK
    PROVE  /\ cur \in Nat
           /\ widx \in [0..3 -> 0..NWORDS] /\ \A f \in Nat : widx[Bitmap(f)] \in 0..NWORDS
           /\ data \in [0..3 -> [Words -> SUBSET Bits]]
           /\ \A f \in Nat, w \in Words : data[Bitmap(f)][w] \subseteq Bits
           /\ \A t \in Threads : /\ seen_epoch[t] \in 0..cur /\ seen_word[t] \in 0..NWORDS
                                 /\ epoch_of[t] \in 0..cur /\ word_of[t] \in Words /\ bits_of[t] \subseteq Bits
<1>1. cur \in Nat
  BY DEF XidTypeOK
<1>2. widx \in [0..3 -> 0..NWORDS]
  BY DEF XidTypeOK, NBITMAPS
<1>3. data \in [0..3 -> [Words -> SUBSET Bits]]
  BY DEF XidTypeOK, NBITMAPS
<1>4. \A t \in Threads : /\ seen_epoch[t] \in 0..cur /\ seen_word[t] \in 0..NWORDS
                         /\ epoch_of[t] \in 0..cur /\ word_of[t] \in Words /\ bits_of[t] \subseteq Bits
  BY DEF XidTypeOK
<1> QED
  BY <1>1, <1>2, <1>3, <1>4, BitmapType

LEMMA UsedTriple ==
    ASSUME XidTypeOK, NEW x \in used
    PROVE  \E f \in 0..cur, w \in Words, k \in Bits : x = <<f, w, k>>
<1>1. x \in (0..cur) \X Words \X Bits
  BY DEF XidTypeOK
<1> QED
  BY <1>1

LEMMA InitInv == XidInit => Inv
<1> SUFFICES ASSUME XidInit PROVE Inv
  OBVIOUS
<1> USE WordsAssumption, MaxEpochAssumption, ThreadsAssumption DEF XidInit, NBITMAPS
<1>1. XidTypeOK
  BY DEF XidTypeOK, Words
<1>2. InEpoch
  BY DEF InEpoch, Inside
<1>3. Claims
  BY DEF Claims, Owns
<1>4. FirstRow
  BY DEF FirstRow
<1>5. OnePlace
  BY DEF OnePlace, InUse, HeldBy
<1> QED
  BY <1>1, <1>2, <1>3, <1>4, <1>5 DEF Inv

-----------------------------------------------------------------------------
(* What the frames of the actions preserve *)

LEMMA ClaimsFrame ==
    ASSUME Claims, UNCHANGED <<cur, widx, used, bits_of>>,
           \A u \in Threads : xpc'[u] = "take" => xpc[u] = "take",
           \A u \in Threads, f \in 0..cur, w \in Words : Owns(u, f, w)' => Owns(u, f, w)
    PROVE  Claims'
  BY DEF Claims

LEMMA FirstRowFrame ==
    ASSUME FirstRow, UNCHANGED <<cur, data, used, epoch_of, bits_of>>
    PROVE  FirstRow'
  BY DEF FirstRow

LEMMA OnePlaceFrame ==
    ASSUME OnePlace, UNCHANGED <<cur, data, live, epoch_of, word_of, bits_of>>,
           \A u \in Threads, b \in 0..3, w \in Words : Clearing(u, b, w) => Clearing(u, b, w)'
    PROVE  OnePlace'
<1>1. \A b \in 0..3, w \in Words, k \in Bits :
        /\ InUse(b, w, k)' = InUse(b, w, k)
        /\ Offered(b, w, k)' => Offered(b, w, k)
        /\ \A u \in Threads : HeldBy(u, b, w, k)' = HeldBy(u, b, w, k)
  BY DEF InUse, Offered, HeldBy
<1> QED
  BY <1>1 DEF OnePlace

-----------------------------------------------------------------------------
LEMMA XEnterKeeps ==
    ASSUME Inv, NEW t \in Threads, XEnter(t)
    PROVE  Inv'
<1> USE WordsAssumption, MaxEpochAssumption, ThreadsAssumption DEF Inv, bitmaps, tls, seen, Words, XEnter, XGoto
<1>1. XidTypeOK'
  <2>1. active' \in [Threads -> -1..MaxEpoch]
    BY DEF XidTypeOK, InEpoch, NBITMAPS
  <2>2. seen_epoch' \in [Threads -> 0..cur'] /\ seen_word' \in [Threads -> 0..NWORDS]
    BY DEF XidTypeOK, InEpoch, NBITMAPS
  <2>3. xpc' \in [Threads -> {"idle", "widx", "cas", "take", "clear", "overflow", "lock", "open"}]
    BY DEF XidTypeOK, InEpoch, NBITMAPS
  <2>4. \A u \in Threads : xpc'[u] = "open" <=> xid_mutex' = u
    BY DEF XidTypeOK, InEpoch, NBITMAPS
  <2> QED
    BY ZenonT(60), ZenonT(90), <2>1, <2>2, <2>3, <2>4 DEF XidTypeOK
<1>2. InEpoch'
  BY DEF XidTypeOK, InEpoch, Inside
<1>3. Claims'
  BY ZenonT(60), ZenonT(90), ClaimsFrame DEF XidTypeOK, InEpoch, Owns
<1>4. FirstRow'
  BY FirstRowFrame
<1>5. OnePlace'
  BY ZenonT(60), ZenonT(90), OnePlaceFrame DEF XidTypeOK, Clearing
<1> QED
  BY <1>1, <1>2, <1>3, <1>4, <1>5

LEMMA ReadWidxKeeps ==
    ASSUME Inv, NEW t \in Threads, ReadWidx(t)
    PROVE  Inv'
<1> USE WordsAssumption, MaxEpochAssumption, ThreadsAssumption DEF Inv, bitmaps, tls, seen, Words, ReadWidx, NextIndex, XGoto
<1>0. widx[Bitmap(seen_epoch[t])] \in 0..NWORDS
  BY BitmapType DEF XidTypeOK, NBITMAPS
<1>1. XidTypeOK'
  <2>1. seen_word' \in [Threads -> 0..NWORDS]
    BY <1>0 DEF XidTypeOK, InEpoch, NBITMAPS
  <2>2. xpc' \in [Threads -> {"idle", "widx", "cas", "take", "clear", "overflow", "lock", "open"}]
    BY <1>0 DEF XidTypeOK, InEpoch, NBITMAPS
  <2>3. \A u \in Threads : xpc'[u] = "open" <=> xid_mutex' = u
    BY <1>0 DEF XidTypeOK, InEpoch, NBITMAPS
  <2> QED
    BY ZenonT(60), ZenonT(90), <2>1, <2>2, <2>3 DEF XidTypeOK
<1>2. InEpoch'
  BY <1>0 DEF XidTypeOK, InEpoch, Inside
<1>3. Claims'
  BY ZenonT(60), ZenonT(90), ClaimsFrame DEF XidTypeOK, InEpoch, Owns
<1>4. FirstRow'
  BY FirstRowFrame
<1>5. OnePlace'
  BY OnePlaceFrame DEF XidTypeOK, Clearing
<1> QED
  BY <1>1, <1>2, <1>3, <1>4, <1>5

LEMMA OverflowKeeps ==
    ASSUME Inv, NEW t \in Threads, Overflow(t)
    PROVE  Inv'
<1> USE WordsAssumption, MaxEpochAssumption, ThreadsAssumption DEF Inv, bitmaps, tls, seen, Words, Overflow, XGoto
<1>1. XidTypeOK'
  <2>1. active' \in [Threads -> -1..MaxEpoch]
    BY DEF XidTypeOK, InEpoch, NBITMAPS
  <2>2. xpc' \in [Threads -> {"idle", "widx", "cas", "take", "clear", "overflow", "lock", "open"}]
    BY DEF XidTypeOK, InEpoch, NBITMAPS
  <2>3. \A u \in Threads : xpc'[u] = "open" <=> xid_mutex' = u
    BY DEF XidTypeOK, InEpoch, NBITMAPS
  <2> QED
    BY ZenonT(60), ZenonT(90), <2>1, <2>2, <2>3 DEF XidTypeOK
<1>2. InEpoch'
  BY DEF XidTypeOK, InEpoch, Inside
<1>3. Claims'
  BY ZenonT(60), ZenonT(90), ClaimsFrame DEF XidTypeOK, InEpoch, Owns
<1>4. FirstRow'
  BY FirstRowFrame
<1>5. OnePlace'
  BY OnePlaceFrame DEF XidTypeOK, Clearing
<1> QED
  BY <1>1, <1>2, <1>3, <1>4, <1>5

LEMMA ClaimWordKeeps ==
    ASSUME Inv, NEW t \in Threads, ClaimWord(t)
    PROVE  Inv'
<1> USE WordsAssumption, MaxEpochAssumption, ThreadsAssumption DEF Inv, bitmaps, tls, seen, Words
<1> DEFINE b == Bitmap(seen_epoch[t])
<1>0. /\ xpc[t] = "cas" /\ seen_epoch[t] \in 0..cur /\ cur \in Nat /\ cur - 2 <= seen_epoch[t]
      /\ b \in 0..3 /\ widx[b] \in 0..NWORDS /\ seen_word[t] \in 0..NWORDS - 1 /\ bits_of[t] = {}
      /\ UNCHANGED <<cur, active, data, xid_mutex, live, used, tls, seen_epoch>>
  <2>1. xpc[t] = "cas" /\ UNCHANGED <<cur, active, data, xid_mutex, live, used, tls, seen_epoch>>
    BY DEF ClaimWord
  <2>2. cur \in Nat /\ seen_epoch[t] \in 0..cur /\ cur - 2 <= seen_epoch[t]
    BY <2>1 DEF XidTypeOK, InEpoch, Inside
  <2>3. b \in 0..3
    BY <2>2, BitmapType
  <2>4. widx[b] \in 0..NWORDS
    BY <2>2, TypeFacts
  <2>5. seen_word[t] < NWORDS /\ bits_of[t] = {}
    BY <2>1 DEF InEpoch
  <2>6. seen_word[t] \in 0..NWORDS - 1
    BY <2>5, TypeFacts
  <2> QED
    BY <2>1, <2>2, <2>3, <2>4, <2>5, <2>6
<1>1. CASE ~Claimed(t)
  <2>1. widx' = widx /\ seen_word' = [seen_word EXCEPT ![t] = widx[b]]
        /\ xpc' = [xpc EXCEPT ![t] = IF widx[b] = NWORDS THEN "overflow" ELSE "cas"]
    BY <1>1 DEF ClaimWord, NextIndex, XGoto
  <2>2. XidTypeOK'
    <3>1. seen_word' \in [Threads -> 0..NWORDS]
      BY <1>0, <2>1 DEF XidTypeOK
    <3>2. xpc' \in [Threads -> {"idle", "widx", "cas", "take", "clear", "overflow", "lock", "open"}]
      BY <2>1 DEF XidTypeOK
    <3>3. \A u \in Threads : xpc'[u] = "open" <=> xid_mutex' = u
      BY <1>0, <2>1 DEF XidTypeOK
    <3> QED
      BY ZenonT(60), ZenonT(90), <1>0, <2>1, <3>1, <3>2, <3>3 DEF XidTypeOK
  <2>3. InEpoch'
    BY <1>0, <2>1 DEF XidTypeOK, InEpoch, Inside
  <2>4. Claims'
    BY ZenonT(60), ZenonT(90), <1>0, <2>1, ClaimsFrame DEF XidTypeOK, Owns
  <2>5. FirstRow' /\ OnePlace'
    BY ZenonT(60), ZenonT(90), <1>0, <2>1, FirstRowFrame, OnePlaceFrame DEF XidTypeOK, Clearing
  <2> QED
    BY <2>2, <2>3, <2>4, <2>5
<1>2. CASE Claimed(t)
  <2> DEFINE e == seen_epoch[t]
             i == seen_word[t]
  <2>1. widx[b] = i /\ widx' = [widx EXCEPT ![b] = i + 1] /\ xpc' = [xpc EXCEPT ![t] = "take"] /\ seen_word' = seen_word
    BY <1>2 DEF ClaimWord, Claimed, XGoto
  <2>2. XidTypeOK'
    <3>0. i + 1 \in 0..NWORDS
      BY <1>0
    <3>1. widx' \in [0..NBITMAPS - 1 -> 0..NWORDS]
      BY ZenonT(60), ZenonT(90), <3>0, <2>1 DEF XidTypeOK
    <3>2. xpc' \in [Threads -> {"idle", "widx", "cas", "take", "clear", "overflow", "lock", "open"}]
      BY <2>1 DEF XidTypeOK
    <3>3. \A u \in Threads : xpc'[u] = "open" <=> xid_mutex' = u
      BY <1>0, <2>1 DEF XidTypeOK
    <3> QED
      BY ZenonT(60), ZenonT(90), <1>0, <2>1, <3>1, <3>2, <3>3 DEF XidTypeOK
  <2>3. InEpoch'
    BY ZenonT(60), ZenonT(90), <1>0, <2>1 DEF XidTypeOK, InEpoch, Inside
  <2>4. Claims'
    <3>1. \A f \in 0..cur : /\ widx[Bitmap(f)] \in Int /\ widx'[Bitmap(f)] \in Int
                          /\ widx[Bitmap(f)] <= widx'[Bitmap(f)]
      <4>1. widx \in [0..3 -> 0..NWORDS] /\ \A f \in 0..cur : Bitmap(f) \in 0..3
        BY <1>0, TypeFacts, BitmapType
      <4> QED
        BY <1>0, <2>1, <4>1
    <3>2. \A u \in Threads, f \in 0..cur, w \in Words : Owns(u, f, w)' <=> Owns(u, f, w) \/ (u = t /\ f = e /\ w = i)
      BY ZenonT(60), ZenonT(90), <1>0, <2>1 DEF XidTypeOK, Owns
    <3>3. \A u \in Threads : ~Owns(u, e, i)
      BY <1>0, <2>1 DEF Claims
    <3>4. \A k \in Bits : <<e, i, k>> \notin used
      BY <1>0, <2>1 DEF Claims
    <3>5. i < widx'[Bitmap(e)] /\ e \in 0..cur /\ i \in Words
      BY <1>0, <2>1 DEF XidTypeOK, NBITMAPS
    <3>6. \A u \in Threads : xpc'[u] = "take" /\ xpc[u] # "take" => u = t
      BY <2>1 DEF XidTypeOK
    <3>7. \A f \in 0..cur, w \in Words : cur - 2 <= f /\ w < widx[Bitmap(f)] => w < widx'[Bitmap(f)]
      BY <3>1
    <3>8. \A f \in 0..cur, w \in Words : ~Owns(t, f, w)
      BY <1>0 DEF Owns
    <3> SUFFICES ASSUME NEW f \in 0..cur, NEW w \in Words
                 PROVE  /\ \A u \in Threads : Owns(u, f, w)' =>
                             /\ cur - 2 <= f => w < widx'[Bitmap(f)]
                             /\ \A v \in Threads : Owns(v, f, w)' => v = u
                             /\ \A k \in Bits : <<f, w, k>> \in used => xpc'[u] # "take" /\ k \notin bits_of[u]
                        /\ \A k \in Bits : <<f, w, k>> \in used /\ cur - 2 <= f => w < widx'[Bitmap(f)]
      BY <1>0 DEF Claims
    <3>9. CASE f = e /\ w = i
      BY <3>2, <3>3, <3>4, <3>5, <3>9
    <3>10. CASE ~(f = e /\ w = i)
      <4>1. \A u \in Threads : Owns(u, f, w)' <=> Owns(u, f, w)
        BY <3>2, <3>10
      <4>2. \A u \in Threads : Owns(u, f, w) => u # t
        BY <3>8
      <4> QED
        BY <4>1, <4>2, <3>6, <3>7 DEF Claims
    <3> QED
      BY <3>9, <3>10
  <2>5. FirstRow' /\ OnePlace'
    BY ZenonT(60), ZenonT(90), <1>0, <2>1, FirstRowFrame, OnePlaceFrame DEF XidTypeOK, Clearing
  <2> QED
    BY <2>2, <2>3, <2>4, <2>5
<1> QED
  BY <1>1, <1>2

LEMMA LockMutexKeeps ==
    ASSUME Inv, NEW t \in Threads, LockMutex(t)
    PROVE  Inv'
<1> USE WordsAssumption, MaxEpochAssumption, ThreadsAssumption DEF Inv, bitmaps, tls, seen, Words
<1>0. xpc[t] = "lock" /\ xid_mutex = NoThread /\ UNCHANGED <<cur, active, data, live, used, tls, seen>>
  BY DEF LockMutex
<1>1. CASE ~StillAtEnd(t)
  <2>1. xpc' = [xpc EXCEPT ![t] = "idle"] /\ UNCHANGED <<xid_mutex, widx>>
    BY <1>1 DEF LockMutex, XGoto
  <2>2. XidTypeOK'
    <3>1. xpc' \in [Threads -> {"idle", "widx", "cas", "take", "clear", "overflow", "lock", "open"}]
      BY <2>1 DEF XidTypeOK
    <3>2. \A u \in Threads : xpc'[u] = "open" <=> xid_mutex' = u
      BY <1>0, <2>1 DEF XidTypeOK
    <3> QED
      BY ZenonT(60), ZenonT(90), <1>0, <2>1, <3>1, <3>2 DEF XidTypeOK
  <2>3. InEpoch'
    BY ZenonT(60), ZenonT(90), <1>0, <2>1 DEF XidTypeOK, InEpoch, Inside
  <2>4. Claims'
    BY ZenonT(60), ZenonT(90), <1>0, <2>1, ClaimsFrame DEF XidTypeOK, InEpoch, Owns
  <2>5. FirstRow' /\ OnePlace'
    BY ZenonT(60), ZenonT(90), <1>0, <2>1, FirstRowFrame, OnePlaceFrame DEF XidTypeOK, Clearing
  <2> QED
    BY <2>2, <2>3, <2>4, <2>5
<1>2. CASE StillAtEnd(t)
  <2>1. /\ seen_epoch[t] = cur /\ cur \in Nat /\ cur < MaxEpoch
        /\ xid_mutex' = t /\ xpc' = [xpc EXCEPT ![t] = "open"]
        /\ widx' = [widx EXCEPT ![Bitmap(cur + 1)] = 0]
    BY <1>2 DEF LockMutex, StillAtEnd, XGoto, XidTypeOK
  <2>2. XidTypeOK'
    <3>1. xpc' \in [Threads -> {"idle", "widx", "cas", "take", "clear", "overflow", "lock", "open"}]
      BY <2>1 DEF XidTypeOK
    <3>2. \A u \in Threads : xpc'[u] = "open" <=> xid_mutex' = u
      BY ZenonT(60), ZenonT(90), <1>0, <2>1 DEF XidTypeOK
    <3>3. widx' \in [0..NBITMAPS - 1 -> 0..NWORDS]
      <4>1. 0 \in 0..NWORDS
        OBVIOUS
      <4> QED
        BY ZenonT(60), ZenonT(90), <2>1, <4>1 DEF XidTypeOK
    <3>4. xid_mutex' \in Threads \cup {NoThread}
      BY <2>1
    <3> QED
      BY ZenonT(60), ZenonT(90), <1>0, <3>1, <3>2, <3>3, <3>4 DEF XidTypeOK
  <2>3. InEpoch'
    BY ZenonT(60), ZenonT(90), <1>0, <2>1 DEF XidTypeOK, InEpoch, Inside
  <2>4. Claims'
    <3>1. \A f \in 0..cur : cur - 2 <= f => widx'[Bitmap(f)] = widx[Bitmap(f)]
      <4> SUFFICES ASSUME NEW f \in 0..cur, cur - 2 <= f PROVE widx'[Bitmap(f)] = widx[Bitmap(f)]
        OBVIOUS
      <4>1. f < cur + 1 /\ cur + 1 <= f + 3 /\ f \in Int /\ cur + 1 \in Int
        BY <2>1
      <4>2. Bitmap(cur + 1) # Bitmap(f) /\ Bitmap(f) \in 0..3
        BY <4>1, Apart, BitmapType
      <4> QED
        BY <4>2, <2>1 DEF XidTypeOK, NBITMAPS
    <3>2. \A u \in Threads, f \in 0..cur, w \in Words : Owns(u, f, w)' <=> Owns(u, f, w)
      BY ZenonT(60), ZenonT(90), <1>0, <2>1 DEF XidTypeOK, Owns
    <3>3. \A u \in Threads : xpc'[u] = "take" <=> xpc[u] = "take"
      BY <1>0, <2>1 DEF XidTypeOK
    <3> QED
      BY <1>0, <3>1, <3>2, <3>3 DEF Claims
  <2>5. FirstRow' /\ OnePlace'
    BY ZenonT(60), ZenonT(90), <1>0, <2>1, FirstRowFrame, OnePlaceFrame DEF XidTypeOK, Clearing
  <2> QED
    BY <2>2, <2>3, <2>4, <2>5
<1> QED
  BY <1>1, <1>2

LEMMA OpenEpochKeeps ==
    ASSUME Inv, NEW t \in Threads, OpenEpoch(t)
    PROVE  Inv'
<1> USE WordsAssumption, MaxEpochAssumption, ThreadsAssumption DEF Inv, bitmaps, tls, seen, Words
<1>0. /\ xpc[t] = "open" /\ Ready /\ cur' = cur + 1 /\ xid_mutex' = NoThread
      /\ xpc' = [xpc EXCEPT ![t] = "idle"]
      /\ UNCHANGED <<active, data, widx, live, used, tls, seen>>
  BY DEF OpenEpoch, XGoto
<1>1. cur \in Nat /\ cur < MaxEpoch /\ cur + 1 \in 0..MaxEpoch /\ xid_mutex = t /\ 0..cur \subseteq 0..cur'
  BY <1>0 DEF XidTypeOK, InEpoch
<1>2. XidTypeOK'
  <2>1. xpc' \in [Threads -> {"idle", "widx", "cas", "take", "clear", "overflow", "lock", "open"}]
    BY <1>0 DEF XidTypeOK
  <2>2. \A u \in Threads : xpc'[u] = "open" <=> xid_mutex' = u
    BY ZenonT(60), ZenonT(90), <1>0, <1>1 DEF XidTypeOK
  <2>3. epoch_of' \in [Threads -> 0..cur'] /\ seen_epoch' \in [Threads -> 0..cur']
    BY ZenonT(60), ZenonT(90), <1>0, <1>1 DEF XidTypeOK
  <2>4. used' \subseteq (0..cur') \X Words \X Bits
    BY <1>0, <1>1 DEF XidTypeOK
  <2> QED
    BY ZenonT(60), ZenonT(90), <1>0, <1>1, <2>1, <2>2, <2>3, <2>4 DEF XidTypeOK
<1>3. InEpoch'
  <2>1. \A u \in Threads : Inside(u) => cur - 1 <= seen_epoch[u]
    BY <1>0 DEF Ready, InEpoch, XidTypeOK
  <2>2. \A u \in Threads : xpc'[u] # "open"
    BY <1>0, <1>1 DEF XidTypeOK
  <2>3. \A u \in Threads : Inside(u)' <=> Inside(u)
    BY <1>0 DEF Inside, XidTypeOK
  <2>4. \A u \in Threads : Inside(u) => cur' - 2 <= seen_epoch'[u]
    BY <1>0, <1>1, <2>1 DEF XidTypeOK
  <2> QED
    BY ZenonT(60), ZenonT(90), <1>0, <2>2, <2>3, <2>4 DEF InEpoch, XidTypeOK
<1>4. \A f \in 0..cur', w \in Words, k \in Bits : <<f, w, k>> \in used => f \in 0..cur
  BY ZenonT(60), ZenonT(90) DEF XidTypeOK
<1>5. Claims'
  <2>1. \A u \in Threads, f \in 0..cur', w \in Words : Owns(u, f, w)' => Owns(u, f, w) /\ f \in 0..cur
    <3>1. \A u \in Threads : xpc'[u] \in {"take", "clear"} <=> xpc[u] \in {"take", "clear"}
      BY <1>0 DEF XidTypeOK
    <3> QED
      BY ZenonT(60), ZenonT(90), <1>0, <3>1, TypeFacts DEF Owns
  <2>2. \A u \in Threads : xpc'[u] = "take" <=> xpc[u] = "take"
    BY <1>0 DEF XidTypeOK
  <2>3. \A f \in 0..cur : cur' - 2 <= f => cur - 2 <= f
    BY <1>0, <1>1
  <2> QED
    BY <1>0, <1>4, <2>1, <2>2, <2>3 DEF Claims
<1>6. FirstRow'
  BY <1>0, <1>4 DEF FirstRow
<1>7. OnePlace'
  <2>1. \A b \in 0..3, w \in Words, k \in Bits : InUse(b, w, k)' => InUse(b, w, k)
    BY ZenonT(60), ZenonT(90), <1>0, <1>4 DEF InUse, XidTypeOK
  <2>2. \A u \in Threads, b \in 0..3, w \in Words : Clearing(u, b, w)' <=> Clearing(u, b, w)
    BY ZenonT(60), ZenonT(90), <1>0 DEF Clearing, XidTypeOK
  <2>3. \A b \in 0..3, w \in Words, k \in Bits : Offered(b, w, k)' <=> Offered(b, w, k)
    BY <1>0, <2>2 DEF Offered
  <2>4. \A u \in Threads, b \in 0..3, w \in Words, k \in Bits : HeldBy(u, b, w, k)' <=> HeldBy(u, b, w, k)
    BY <1>0 DEF HeldBy
  <2>5. \A f \in 0..cur', w \in Words, k \in Bits : <<f, w, k>> \in live' => f \in 0..cur /\ <<f, w, k>> \in live
    BY <1>0, <1>4 DEF XidTypeOK
  <2> QED
    BY <2>1, <2>3, <2>4, <2>5 DEF OnePlace
<1> QED
  BY <1>2, <1>3, <1>5, <1>6, <1>7

(* The word goes to the thread as the bitmap stops offering it. *)
LEMMA TakeWordKeeps ==
    ASSUME Inv, NEW t \in Threads, TakeWord(t)
    PROVE  Inv'
<1> USE WordsAssumption, MaxEpochAssumption, ThreadsAssumption DEF Inv, bitmaps, tls, seen, Words
<1> DEFINE e == seen_epoch[t]
           i == seen_word[t]
           b == Bitmap(e)
<1>0. /\ xpc[t] = "take" /\ xpc' = [xpc EXCEPT ![t] = "clear"]
      /\ epoch_of' = [epoch_of EXCEPT ![t] = e]
      /\ word_of' = [word_of EXCEPT ![t] = i]
      /\ bits_of' = [bits_of EXCEPT ![t] = data[b][i]]
      /\ UNCHANGED <<cur, active, data, widx, xid_mutex, live, used, seen>>
  BY DEF TakeWord, XGoto
<1>1. /\ e \in 0..cur /\ cur \in Nat /\ i \in Words /\ cur - 2 <= e
      /\ bits_of[t] = {}
  <2>1. i < NWORDS /\ cur - 2 <= e /\ bits_of[t] = {}
    BY <1>0 DEF InEpoch, Inside
  <2> QED
    BY <2>1, TypeFacts
<1>2. b \in 0..3
  BY <1>1, BitmapType
<1>3. data[b][i] \subseteq Bits
  BY <1>1, <1>2, TypeFacts
<1>4. XidTypeOK'
  <2>1. xpc' \in [Threads -> {"idle", "widx", "cas", "take", "clear", "overflow", "lock", "open"}]
    BY <1>0 DEF XidTypeOK
  <2>2. \A u \in Threads : xpc'[u] = "open" <=> xid_mutex' = u
    BY <1>0 DEF XidTypeOK
  <2>3. epoch_of' \in [Threads -> 0..cur'] /\ word_of' \in [Threads -> Words]
    BY <1>0, <1>1 DEF XidTypeOK
  <2>4. bits_of' \in [Threads -> SUBSET Bits]
    BY <1>0, <1>3 DEF XidTypeOK
  <2> QED
    BY ZenonT(60), ZenonT(90), <1>0, <2>1, <2>2, <2>3, <2>4 DEF XidTypeOK
<1>5. InEpoch'
  BY <1>0 DEF XidTypeOK, InEpoch, Inside
<1>6. \A u \in Threads, f \in 0..cur, w \in Words : Owns(u, f, w)' <=> Owns(u, f, w)
  BY ZenonT(60), ZenonT(90), <1>0, <1>1 DEF Owns, XidTypeOK
<1>7. Claims'
  <2>1. \A u \in Threads : u # t => xpc'[u] = xpc[u] /\ bits_of'[u] = bits_of[u]
    BY <1>0 DEF XidTypeOK
  <2>2. \A f \in 0..cur, w \in Words, k \in Bits : Owns(t, f, w) => <<f, w, k>> \notin used
    BY <1>0 DEF Claims
  <2> QED
    BY <1>0, <1>6, <2>1, <2>2 DEF Claims
<1>8. FirstRow'
  <2>1. data[b][i] # {} => b \in {0, 1}
    BY <1>1, <1>2 DEF FirstRow
  <2> QED
    BY ZenonT(60), ZenonT(90), <1>0, <2>1 DEF FirstRow, XidTypeOK
<1>9. \A u \in Threads : u # t => ~Clearing(u, b, i)
  <2> SUFFICES ASSUME NEW u \in Threads, u # t, Clearing(u, b, i) PROVE FALSE
    OBVIOUS
  <2>1. Owns(u, seen_epoch[u], i) /\ seen_epoch[u] \in 0..cur /\ cur - 2 <= seen_epoch[u] /\ Bitmap(seen_epoch[u]) = b
    BY ZenonT(60), ZenonT(90) DEF Clearing, Owns, XidTypeOK, InEpoch, Inside
  <2>2. seen_epoch[u] = e
    BY <1>1, <2>1, Apart
  <2>3. Owns(t, e, i)
    BY <1>0 DEF Owns
  <2> QED
    BY <1>1, <2>1, <2>2, <2>3 DEF Claims
<1>10. OnePlace'
  <2>1. \A c \in 0..3, w \in Words, k \in Bits : InUse(c, w, k)' <=> InUse(c, w, k)
    BY <1>0 DEF InUse
  <2>2. \A u \in Threads, c \in 0..3, w \in Words :
          Clearing(u, c, w)' <=> Clearing(u, c, w) \/ (u = t /\ c = b /\ w = i)
    BY ZenonT(60), ZenonT(90), <1>0 DEF Clearing, XidTypeOK
  <2>3. \A c \in 0..3, w \in Words, k \in Bits :
          Offered(c, w, k)' <=> Offered(c, w, k) /\ ~(c = b /\ w = i)
    BY <1>0, <2>2 DEF Offered
  <2>4. \A u \in Threads, c \in 0..3, w \in Words, k \in Bits :
          u # t => (HeldBy(u, c, w, k)' <=> HeldBy(u, c, w, k))
    BY <1>0 DEF HeldBy, XidTypeOK
  <2>5. \A c \in 0..3, w \in Words, k \in Bits :
          HeldBy(t, c, w, k)' <=> c = b /\ w = i /\ k \in data[b][i]
    BY <1>0 DEF HeldBy, XidTypeOK
  <2>6. \A k \in Bits : k \in data[b][i] => Offered(b, i, k)
    BY <1>0, <1>9 DEF Offered, Clearing
  <2> SUFFICES ASSUME NEW c \in 0..3, NEW w \in Words, NEW k \in Bits
               PROVE  /\ \A u \in Threads : HeldBy(u, c, w, k)' =>
                           ~InUse(c, w, k)' /\ ~Offered(c, w, k)'
                           /\ \A v \in Threads : HeldBy(v, c, w, k)' => v = u
                      /\ InUse(c, w, k)' => ~Offered(c, w, k)'
    <3>1. cur' = cur /\ live' = live
      BY <1>0
    <3> QED
      BY <3>1 DEF OnePlace
  <2>7. ASSUME NEW u \in Threads, HeldBy(u, c, w, k)'
        PROVE  ~InUse(c, w, k)' /\ ~Offered(c, w, k)' /\ \A v \in Threads : HeldBy(v, c, w, k)' => v = u
    <3>1. CASE u = t
      <4>1. c = b /\ w = i /\ Offered(b, i, k)
        BY <2>5, <2>6, <2>7, <3>1
      <4>2. \A v \in Threads : ~HeldBy(v, c, w, k)
        BY <4>1, <1>1, <1>2 DEF OnePlace
      <4> QED
        BY <2>1, <2>3, <2>4, <3>1, <4>1, <4>2, <1>1, <1>2 DEF OnePlace
    <3>2. CASE u # t
      <4>1. HeldBy(u, c, w, k) /\ ~Offered(c, w, k) /\ ~InUse(c, w, k)
        BY <2>4, <2>7, <3>2 DEF OnePlace
      <4>2. ~HeldBy(t, c, w, k)'
        BY ZenonT(60), ZenonT(90), <2>5, <2>6, <4>1
      <4> QED
        BY <2>1, <2>3, <2>4, <4>1, <4>2, <3>2 DEF OnePlace
    <3> QED
      BY <3>1, <3>2
  <2>8. InUse(c, w, k)' => ~Offered(c, w, k)'
    BY <2>1, <2>3 DEF OnePlace
  <2> QED
    BY <2>7, <2>8
<1> QED
  BY <1>4, <1>5, <1>7, <1>8, <1>10

(* A bit set since the word was read is lost; nothing is offered twice. *)
LEMMA ClearWordKeeps ==
    ASSUME Inv, NEW t \in Threads, ClearWord(t)
    PROVE  Inv'
<1> USE WordsAssumption, MaxEpochAssumption, ThreadsAssumption DEF Inv, bitmaps, tls, seen, Words
<1> DEFINE e == seen_epoch[t]
           i == seen_word[t]
           b == Bitmap(e)
<1>0. /\ xpc[t] = "clear" /\ xpc' = [xpc EXCEPT ![t] = "idle"]
      /\ data' = [data EXCEPT ![b][i] = {}] /\ active' = [active EXCEPT ![t] = -1]
      /\ UNCHANGED <<cur, widx, xid_mutex, live, used, tls, seen>>
  BY DEF ClearWord, XGoto
<1>1. b \in 0..3 /\ i \in Words
  <2>1. i < NWORDS
    BY <1>0 DEF InEpoch
  <2> QED
    BY <2>1, TypeFacts, BitmapType
<1>2. /\ data' \in [0..3 -> [Words -> SUBSET Bits]]
      /\ \A c \in 0..3, w \in Words : data'[c][w] = IF c = b /\ w = i THEN {} ELSE data[c][w]
  BY ZenonT(60), ZenonT(90), <1>0, <1>1, TypeFacts
<1>3. XidTypeOK'
  <2>1. xpc' \in [Threads -> {"idle", "widx", "cas", "take", "clear", "overflow", "lock", "open"}]
    BY <1>0 DEF XidTypeOK
  <2>2. \A u \in Threads : xpc'[u] = "open" <=> xid_mutex' = u
    BY <1>0 DEF XidTypeOK
  <2>3. active' \in [Threads -> -1..MaxEpoch]
    BY <1>0 DEF XidTypeOK
  <2>4. data' \in [0..NBITMAPS - 1 -> [Words -> SUBSET Bits]]
    BY <1>2 DEF NBITMAPS
  <2> QED
    BY ZenonT(60), ZenonT(90), <1>0, <2>1, <2>2, <2>3, <2>4 DEF XidTypeOK
<1>4. InEpoch'
  BY ZenonT(60), ZenonT(90), <1>0 DEF XidTypeOK, InEpoch, Inside
<1>5. Claims'
  BY ZenonT(60), ZenonT(90), <1>0, ClaimsFrame DEF XidTypeOK, Owns
<1>6. FirstRow'
  BY <1>0, <1>2 DEF FirstRow
<1>7. OnePlace'
  <2>1. \A c \in 0..3, w \in Words, k \in Bits : InUse(c, w, k)' <=> InUse(c, w, k)
    BY <1>0 DEF InUse
  <2>2. \A u \in Threads, c \in 0..3, w \in Words :
          Clearing(u, c, w) => Clearing(u, c, w)' \/ (c = b /\ w = i)
    BY ZenonT(60), ZenonT(90), <1>0 DEF Clearing, XidTypeOK
  <2>3. \A c \in 0..3, w \in Words, k \in Bits : Offered(c, w, k)' => Offered(c, w, k)
    BY <1>2, <2>2 DEF Offered
  <2>4. \A u \in Threads, c \in 0..3, w \in Words, k \in Bits : HeldBy(u, c, w, k)' <=> HeldBy(u, c, w, k)
    BY <1>0 DEF HeldBy
  <2> QED
    BY <1>0, <2>1, <2>3, <2>4 DEF OnePlace
<1> QED
  BY <1>3, <1>4, <1>5, <1>6, <1>7

(* A bit of the thread's word becomes an XID that was never in use. *)
LEMMA TakeOneKeeps ==
    ASSUME Inv, NEW t \in Threads, TakeOne(t)
    PROVE  Inv' /\ \A x \in live' \ live : x \notin used
<1> USE WordsAssumption, MaxEpochAssumption, ThreadsAssumption DEF Inv, bitmaps, tls, seen, Words
<1> DEFINE e == epoch_of[t]
           i == word_of[t]
           b == Bitmap(e)
<1>1. PICK n \in bits_of[t] :
        /\ live' = live \cup {<<e, i, n>>} /\ used' = used \cup {<<e, i, n>>}
        /\ bits_of' = [bits_of EXCEPT ![t] = @ \ {n}]
  BY ZenonT(60), ZenonT(90) DEF TakeOne
<1>2. xpc[t] = "idle" /\ UNCHANGED <<cur, active, data, widx, xid_mutex, xpc, seen, epoch_of, word_of>>
  BY DEF TakeOne
<1>3. /\ e \in 0..cur /\ i \in Words /\ n \in Bits /\ b \in 0..3 /\ b \in {0, 1}
      /\ Owns(t, e, i) /\ <<e, i, n>> \notin used
  <2>1. e \in 0..cur /\ i \in Words /\ n \in Bits
    BY TypeFacts
  <2>2. b \in {0, 1} /\ Owns(t, e, i)
    BY <1>1 DEF FirstRow, Owns
  <2>3. <<e, i, n>> \notin used
    BY ZenonT(60), ZenonT(90), <2>1, <2>2 DEF Claims
  <2>4. b \in 0..3
    BY <2>2
  <2> QED
    BY ZenonT(60), ZenonT(90), <2>1, <2>2, <2>3, <2>4
<1>4. XidTypeOK'
  <2>1. bits_of' \in [Threads -> SUBSET Bits]
    BY ZenonT(60), ZenonT(90), <1>1 DEF XidTypeOK
  <2>2. live' \subseteq used' /\ used' \subseteq (0..cur') \X Words \X Bits
    BY <1>1, <1>2, <1>3 DEF XidTypeOK
  <2> QED
    BY ZenonT(60), ZenonT(90), <1>2, <2>1, <2>2 DEF XidTypeOK
<1>5. \A u \in Threads : bits_of'[u] \subseteq bits_of[u] /\ (u # t => bits_of'[u] = bits_of[u]) /\ n \notin bits_of'[t]
  BY <1>1 DEF XidTypeOK
<1>6. InEpoch'
  BY <1>2, <1>5 DEF InEpoch, Inside
<1>7. Claims'
  <2>1. \A u \in Threads, f \in 0..cur, w \in Words : Owns(u, f, w)' => Owns(u, f, w)
    BY <1>2, <1>5 DEF Owns
  <2>2. \A f \in 0..cur, w \in Words, k \in Bits :
          <<f, w, k>> \in used' <=> <<f, w, k>> \in used \/ (f = e /\ w = i /\ k = n)
    BY ZenonT(60), ZenonT(90), <1>1
  <2>3. \A u \in Threads : Owns(u, e, i) => u = t
    BY <1>3 DEF Claims
  <2>4. \A u \in Threads, f \in 0..cur, w \in Words, k \in Bits :
          Owns(u, f, w)' /\ <<f, w, k>> \in used' => xpc'[u] # "take" /\ k \notin bits_of'[u]
    BY <1>2, <1>5, <2>1, <2>2, <2>3 DEF Claims
  <2>5. \A f \in 0..cur, w \in Words, k \in Bits :
          <<f, w, k>> \in used' /\ cur - 2 <= f => w < widx[Bitmap(f)]
    <3>1. cur - 2 <= e => i < widx[Bitmap(e)]
      BY <1>3 DEF Claims
    <3>2. \A f \in 0..cur, w \in Words, k \in Bits :
            <<f, w, k>> \in used /\ cur - 2 <= f => w < widx[Bitmap(f)]
      BY ZenonT(60), ZenonT(90) DEF Claims
    <3> QED
      BY <2>2, <3>1, <3>2
  <2> QED
    BY <1>2, <2>1, <2>4, <2>5 DEF Claims
<1>8. FirstRow'
  BY ZenonT(60), ZenonT(90), <1>1, <1>2, <1>3, <1>5 DEF FirstRow
<1>9. OnePlace'
  <2>1. HeldBy(t, b, i, n)
    BY DEF HeldBy
  <2>2. \A c \in 0..3, w \in Words, k \in Bits : InUse(c, w, k)' <=> InUse(c, w, k) \/ (c = b /\ w = i /\ k = n)
    BY <1>1, <1>2, <1>3 DEF InUse
  <2>3. \A c \in 0..3, w \in Words, k \in Bits : Offered(c, w, k)' <=> Offered(c, w, k)
    BY ZenonT(60), ZenonT(90), <1>2 DEF Offered, Clearing
  <2>4. \A u \in Threads, c \in 0..3, w \in Words, k \in Bits : HeldBy(u, c, w, k)' => HeldBy(u, c, w, k)
    BY <1>2, <1>5 DEF HeldBy
  <2>5. \A u \in Threads, c \in 0..3, w \in Words, k \in Bits :
          HeldBy(u, c, w, k)' => ~(c = b /\ w = i /\ k = n)
    <3>1. \A u \in Threads : HeldBy(u, b, i, n) => u = t
      BY ZenonT(60), ZenonT(90), <1>3, <2>1 DEF OnePlace
    <3>2. \A c \in 0..3, w \in Words, k \in Bits : HeldBy(t, c, w, k)' => k # n
      BY ZenonT(60), ZenonT(90), <1>5 DEF HeldBy
    <3> QED
      BY ZenonT(60), ZenonT(90), <2>4, <3>1, <3>2
  <2>6. \A f \in 0..cur : Bitmap(f) = b => <<f, i, n>> \notin live
    BY ZenonT(60), ZenonT(90), <1>3, <2>1 DEF OnePlace, InUse
  <2>7. \A f \in 0..cur, w \in Words, k \in Bits :
          <<f, w, k>> \in live' <=> <<f, w, k>> \in live \/ (f = e /\ w = i /\ k = n)
    BY <1>1
  <2>8. \A c \in 0..3, w \in Words, k \in Bits, f, g \in 0..cur :
          Bitmap(f) = c /\ Bitmap(g) = c /\ <<f, w, k>> \in live' /\ <<g, w, k>> \in live' => f = g
    BY <2>6, <2>7 DEF OnePlace
  <2>9. \A u \in Threads, c \in 0..3, w \in Words, k \in Bits : HeldBy(u, c, w, k)' =>
          ~InUse(c, w, k)' /\ ~Offered(c, w, k)' /\ \A v \in Threads : HeldBy(v, c, w, k)' => v = u
    <3> SUFFICES ASSUME NEW u \in Threads, NEW c \in 0..3, NEW w \in Words, NEW k \in Bits, HeldBy(u, c, w, k)'
                 PROVE  ~InUse(c, w, k)' /\ ~Offered(c, w, k)' /\ \A v \in Threads : HeldBy(v, c, w, k)' => v = u
      BY ZenonT(60), ZenonT(90)
    <3>1. HeldBy(u, c, w, k) /\ ~(c = b /\ w = i /\ k = n)
      BY ZenonT(60), ZenonT(90), <2>4, <2>5
    <3>2. ~InUse(c, w, k) /\ ~Offered(c, w, k) /\ \A v \in Threads : HeldBy(v, c, w, k) => v = u
      BY <3>1 DEF OnePlace
    <3> QED
      BY ZenonT(60), ZenonT(90), <2>2, <2>3, <2>4, <3>1, <3>2
  <2>10. \A c \in 0..3, w \in Words, k \in Bits : InUse(c, w, k)' => ~Offered(c, w, k)'
    BY <1>3, <2>1, <2>2, <2>3 DEF OnePlace
  <2>11. (0..cur') = 0..cur
    BY <1>2
  <2>12. \A c \in 0..3, w \in Words, k \in Bits, f, g \in 0..cur' :
           Bitmap(f) = c /\ Bitmap(g) = c /\ <<f, w, k>> \in live' /\ <<g, w, k>> \in live' => f = g
    BY ZenonT(60), ZenonT(90), <2>8, <2>11
  <2> HIDE DEF Words, Inv
  <2> QED
    BY ZenonT(60), ZenonT(90), <2>9, <2>10, <2>12 DEF OnePlace
<1>10. \A x \in live' \ live : x \notin used
  BY <1>1, <1>3
<1> QED
  BY <1>4, <1>6, <1>7, <1>8, <1>9, <1>10

LEMMA XidFreeKeeps ==
    ASSUME Inv, NEW x \in live, XidFree(x)
    PROVE  Inv'
<1> USE WordsAssumption, MaxEpochAssumption, ThreadsAssumption DEF Inv, bitmaps, tls, seen, Words
<1>1. PICK e \in 0..cur, i \in Words, n \in Bits : x = <<e, i, n>>
  <2>1. x \in used
    BY DEF XidTypeOK
  <2> QED
    BY <2>1, UsedTriple
<1> DEFINE b == Bitmap(e)
<1>2. /\ live' = live \ {<<e, i, n>>} /\ data' = [data EXCEPT ![b][i] = @ \cup {n}]
      /\ UNCHANGED <<cur, active, widx, xid_mutex, used, tls, xpc, seen>>
  BY <1>1 DEF XidFree
<1>3. b \in 0..3 /\ b \in {0, 1}
  <2>1. <<e, i, n>> \in used
    BY <1>1 DEF XidTypeOK
  <2> QED
    BY <2>1 DEF FirstRow
<1>4. /\ data' \in [0..3 -> [Words -> SUBSET Bits]]
      /\ \A c \in 0..3, w \in Words : data'[c][w] = IF c = b /\ w = i THEN data[c][w] \cup {n} ELSE data[c][w]
  BY ZenonT(60), ZenonT(90), <1>2, <1>3, TypeFacts
<1>5. XidTypeOK'
  <2>1. data' \in [0..NBITMAPS - 1 -> [Words -> SUBSET Bits]]
    BY <1>4 DEF NBITMAPS
  <2>2. live' \subseteq used'
    BY <1>2 DEF XidTypeOK
  <2> QED
    BY ZenonT(60), ZenonT(90), <1>2, <2>1, <2>2 DEF XidTypeOK
<1>6. InEpoch'
  BY <1>2 DEF InEpoch, Inside
<1>7. Claims'
  BY <1>2, ClaimsFrame DEF Owns
<1>8. FirstRow'
  BY <1>2, <1>3, <1>4 DEF FirstRow
<1>9. OnePlace'
  <2>1. \A f \in 0..cur, w \in Words, k \in Bits :
          <<f, w, k>> \in live' <=> <<f, w, k>> \in live /\ ~(f = e /\ w = i /\ k = n)
    BY <1>2
  <2>2. \A c \in 0..3, w \in Words, k \in Bits : InUse(c, w, k)' => InUse(c, w, k) /\ ~(c = b /\ w = i /\ k = n)
    BY <1>1, <1>2, <1>3, <2>1 DEF InUse, OnePlace
  <2>3. \A c \in 0..3, w \in Words, k \in Bits : Offered(c, w, k)' => Offered(c, w, k) \/ (c = b /\ w = i /\ k = n)
    BY <1>2, <1>4 DEF Offered, Clearing
  <2>4. \A u \in Threads, c \in 0..3, w \in Words, k \in Bits : HeldBy(u, c, w, k)' <=> HeldBy(u, c, w, k)
    BY <1>2 DEF HeldBy
  <2>5. \A u \in Threads : ~HeldBy(u, b, i, n)
    BY <1>1, <1>3 DEF OnePlace, InUse
  <2>6. \A c \in 0..3, w \in Words, k \in Bits, f, g \in 0..cur :
          Bitmap(f) = c /\ Bitmap(g) = c /\ <<f, w, k>> \in live' /\ <<g, w, k>> \in live' => f = g
    BY <2>1 DEF OnePlace
  <2>7. \A u \in Threads, c \in 0..3, w \in Words, k \in Bits : HeldBy(u, c, w, k)' =>
          ~InUse(c, w, k)' /\ ~Offered(c, w, k)' /\ \A v \in Threads : HeldBy(v, c, w, k)' => v = u
    BY <2>2, <2>3, <2>4, <2>5 DEF OnePlace
  <2>8. \A c \in 0..3, w \in Words, k \in Bits : InUse(c, w, k)' => ~Offered(c, w, k)'
    BY <2>2, <2>3 DEF OnePlace
  <2> QED
    BY <1>2, <2>6, <2>7, <2>8 DEF OnePlace
<1> QED
  BY <1>5, <1>6, <1>7, <1>8, <1>9

-----------------------------------------------------------------------------
LEMMA StepInv == Inv /\ [XidNext]_xvars => Inv'
<1> SUFFICES ASSUME Inv, [XidNext]_xvars PROVE Inv'
  OBVIOUS
<1>1. ASSUME NEW t \in Threads, Alloc(t) PROVE Inv'
  BY <1>1, XEnterKeeps, ReadWidxKeeps, ClaimWordKeeps, TakeWordKeeps, ClearWordKeeps, OverflowKeeps,
     LockMutexKeeps, OpenEpochKeeps, TakeOneKeeps DEF Alloc
<1>2. ASSUME NEW x \in live, XidFree(x) PROVE Inv'
  BY <1>2, XidFreeKeeps
<1>3. ASSUME UNCHANGED xvars PROVE Inv'
  <2> USE <1>3 DEF xvars, bitmaps, tls, seen, Inv
  <2>1. XidTypeOK'
    BY DEF XidTypeOK
  <2>2. InEpoch'
    BY ZenonT(60), ZenonT(90) DEF InEpoch, Inside
  <2>3. Claims'
    BY ZenonT(60), ZenonT(90), ClaimsFrame DEF Owns
  <2>4. FirstRow' /\ OnePlace'
    BY FirstRowFrame, OnePlaceFrame DEF Clearing
  <2> QED
    BY <2>1, <2>2, <2>3, <2>4
<1> QED
  BY <1>1, <1>2, <1>3 DEF XidNext, Finished

LEMMA Invariance == XidSpec => []Inv
  BY InitInv, StepInv, PTL DEF XidSpec

(* Every variable keeps its type: no word index runs past the bitmap, and  *)
(* the mutex is held exactly by the thread that opens an epoch.            *)
THEOREM TypeCorrect == XidSpec => []XidTypeOK
<1>1. Inv => XidTypeOK
  BY DEF Inv
<1> QED
  BY Invariance, <1>1, PTL

(* A context is in one bitmap, word and bit; because contexts stay in the  *)
(* first row, its parity says which bitmap.                                *)
LEMMA SameContext ==
    ASSUME NEW f \in Nat, NEW g \in Nat, Bitmap(f) \in {0, 1}, Bitmap(g) \in {0, 1}, f % 2 = g % 2
    PROVE  Bitmap(f) = Bitmap(g)
  BY DEF Bitmap, NBITMAPS

(* The context of an XID is distinct from that of every other XID in use,  *)
(* and from every context that a thread or a bitmap is about to issue,     *)
(* although xid_alloc() swaps a word in two steps while xid_free() writes. *)
THEOREM ContextOnce == XidSpec => []ContextExclusive
<1>1. Inv => ContextExclusive
  <2> SUFFICES ASSUME Inv PROVE ContextExclusive
    OBVIOUS
  <2> USE WordsAssumption DEF Inv
  <2>1. \A x \in live : \E f \in 0..cur, w \in Words, k \in Bits :
          x = <<f, w, k>> /\ x \in live /\ Bitmap(f) \in {0, 1} /\ Context(x) = <<f % 2, w, k>>
    <3> SUFFICES ASSUME NEW x \in live
                 PROVE  \E f \in 0..cur, w \in Words, k \in Bits :
                          x = <<f, w, k>> /\ x \in live /\ Bitmap(f) \in {0, 1} /\ Context(x) = <<f % 2, w, k>>
      OBVIOUS
    <3>1. x \in used
      BY DEF XidTypeOK
    <3>2. PICK f \in 0..cur, w \in Words, k \in Bits : x = <<f, w, k>>
      BY <3>1, UsedTriple
    <3>3. Bitmap(f) \in {0, 1}
      BY <3>1, <3>2 DEF FirstRow
    <3>4. Context(x) = <<f % 2, w, k>>
      BY <3>2 DEF Context
    <3> QED
      BY <3>2, <3>3, <3>4
  <2>2. \A t \in Threads : \A x \in Held(t) : \E k \in Bits :
          /\ x = <<epoch_of[t], word_of[t], k>> /\ k \in bits_of[t]
          /\ Bitmap(epoch_of[t]) \in {0, 1} /\ Context(x) = <<epoch_of[t] % 2, word_of[t], k>>
    <3> SUFFICES ASSUME NEW t \in Threads, NEW x \in Held(t)
                 PROVE  \E k \in Bits :
                          /\ x = <<epoch_of[t], word_of[t], k>> /\ k \in bits_of[t]
                          /\ Bitmap(epoch_of[t]) \in {0, 1} /\ Context(x) = <<epoch_of[t] % 2, word_of[t], k>>
      OBVIOUS
    <3>1. PICK k \in bits_of[t] : x = <<epoch_of[t], word_of[t], k>>
      BY DEF Held
    <3>2. k \in Bits /\ Bitmap(epoch_of[t]) \in {0, 1}
      BY TypeFacts DEF FirstRow
    <3>3. Context(x) = <<epoch_of[t] % 2, word_of[t], k>>
      BY <3>1 DEF Context
    <3> QED
      BY <3>1, <3>2, <3>3
  <2>3. \A c \in InBitmap : \E b \in {0, 1}, w \in Words, k \in Bits :
          c = <<b, w, k>> /\ Offered(b, w, k)
    <3> SUFFICES ASSUME NEW c \in InBitmap
                 PROVE  \E b \in {0, 1}, w \in Words, k \in Bits : c = <<b, w, k>> /\ Offered(b, w, k)
      OBVIOUS
    <3>1. c \in {0, 1} \X Words \X Bits
      BY DEF InBitmap
    <3>2. c = <<c[1], c[2], c[3]>> /\ c[1] \in {0, 1} /\ c[2] \in Words /\ c[3] \in Bits
      BY <3>1
    <3> DEFINE p == c[1]
               w == c[2]
               k == c[3]
    <3>3. PICK b \in 0..3 : b % 2 = p /\ k \in data[b][w] /\ \A t \in Threads : ~Clearing(t, b, w)
      BY DEF InBitmap, NBITMAPS, Clearing
    <3>4. b \notin {2, 3}
      BY <3>2, <3>3 DEF FirstRow
    <3>5. b = p
      BY <3>3, <3>4
    <3> QED
      BY <3>2, <3>3, <3>5 DEF Offered
  <2>4. cur \in Nat /\ \A t \in Threads : epoch_of[t] \in 0..cur /\ word_of[t] \in Words
    BY TypeFacts
  <2>5. ASSUME NEW x \in live, NEW y \in live, Context(x) = Context(y) PROVE x = y
    BY <2>1, <2>4, <2>5, SameContext, BitmapType DEF OnePlace
  <2>6. ASSUME NEW t \in Threads, NEW x \in Held(t), NEW y \in live, Context(x) = Context(y) PROVE FALSE
    <3>1. PICK k \in Bits : k \in bits_of[t] /\ Bitmap(epoch_of[t]) \in {0, 1} /\ Context(x) = <<epoch_of[t] % 2, word_of[t], k>>
      BY <2>2
    <3>2. PICK f \in 0..cur, w \in Words, j \in Bits :
            <<f, w, j>> \in live /\ Bitmap(f) \in {0, 1} /\ Context(y) = <<f % 2, w, j>>
      BY <2>1
    <3>0. <<f % 2, w, j>> = <<epoch_of[t] % 2, word_of[t], k>>
      BY ZenonT(60), ZenonT(90), <2>6, <3>1, <3>2
    <3>3. f % 2 = epoch_of[t] % 2 /\ w = word_of[t] /\ j = k
      BY <3>0
    <3>4. Bitmap(f) = Bitmap(epoch_of[t])
      BY <2>4, <3>1, <3>2, <3>3, SameContext
    <3>5. HeldBy(t, Bitmap(f), w, k) /\ InUse(Bitmap(f), w, k)
      BY <3>1, <3>2, <3>3, <3>4 DEF HeldBy, InUse
    <3>6. Bitmap(f) \in 0..3
      BY <2>4, BitmapType
    <3> QED
      BY <3>5, <3>6 DEF OnePlace
  <2>7. ASSUME NEW t \in Threads, NEW u \in Threads \ {t}, NEW x \in Held(t), NEW y \in Held(u), Context(x) = Context(y)
        PROVE  FALSE
    BY <2>2, <2>4, <2>7, SameContext, BitmapType DEF OnePlace, HeldBy
  <2>8. ASSUME NEW t \in Threads, NEW x \in Held(t), Context(x) \in InBitmap PROVE FALSE
    <3>1. PICK k \in Bits : k \in bits_of[t] /\ Bitmap(epoch_of[t]) \in {0, 1} /\ Context(x) = <<epoch_of[t] % 2, word_of[t], k>>
      BY <2>2
    <3>2. Bitmap(epoch_of[t]) = epoch_of[t] % 2
      BY <2>4, <3>1 DEF Bitmap, NBITMAPS
    <3> QED
      BY <2>3, <2>4, <2>8, <3>1, <3>2 DEF OnePlace, HeldBy
  <2>9. ASSUME NEW x \in live, Context(x) \in InBitmap PROVE FALSE
    <3>1. PICK f \in 0..cur, w \in Words, k \in Bits :
            <<f, w, k>> \in live /\ Bitmap(f) \in {0, 1} /\ Context(x) = <<f % 2, w, k>>
      BY <2>1
    <3>2. Bitmap(f) = f % 2
      BY <2>4, <3>1 DEF Bitmap, NBITMAPS
    <3> QED
      BY <2>3, <2>9, <3>1, <3>2 DEF OnePlace, InUse
  <2> QED
    BY <2>5, <2>6, <2>7, <2>8, <2>9 DEF ContextExclusive
<1> QED
  BY Invariance, <1>1, PTL

(* take_one() issues no XID a second time, whichever epoch the thread that *)
(* claimed the word was in.                                                *)
THEOREM IssuedOnce == XidSpec => NeverReissued
<1>1. Inv /\ [XidNext]_xvars => [\A x \in live' \ live : x \notin used]_xvars
  <2> SUFFICES ASSUME Inv, XidNext PROVE \A x \in live' \ live : x \notin used
    OBVIOUS
  <2>1. ASSUME NEW t \in Threads, TakeOne(t) PROVE \A x \in live' \ live : x \notin used
    BY ZenonT(60), ZenonT(90), <2>1, TakeOneKeeps
  <2>2. ASSUME NEW t \in Threads, Alloc(t), ~TakeOne(t) PROVE live' = live
    BY <2>2 DEF Alloc, XEnter, ReadWidx, ClaimWord, TakeWord, ClearWord, Overflow, LockMutex, OpenEpoch, bitmaps
  <2>3. ASSUME NEW y \in live, XidFree(y) PROVE live' \subseteq live
    BY <2>3 DEF XidFree
  <2>4. ASSUME Finished PROVE live' = live
    BY <2>4 DEF Finished, xvars, bitmaps
  <2> QED
    BY <2>1, <2>2, <2>3, <2>4 DEF XidNext
<1> QED
  BY Invariance, <1>1, PTL DEF XidSpec, NeverReissued

(* The comment over the bitmaps has contexts freed from bitmap 0 recycled  *)
(* through bitmap 2.  xid_free() puts them back where they were taken      *)
(* from: the second row stays empty for ever.                              *)
THEOREM SecondRowEmpty == XidSpec => [](\A w \in Words : data[2][w] = {} /\ data[3][w] = {})
<1>1. Inv => \A w \in Words : data[2][w] = {} /\ data[3][w] = {}
  BY DEF Inv, FirstRow
<1> QED
  BY Invariance, <1>1, PTL
=============================================================================
