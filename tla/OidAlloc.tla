------------------------------ MODULE OidAlloc ------------------------------
(***************************************************************************)
(* The OID allocator of a file, sm_allocator                               *)
(* (dbcore/sm-oid-alloc-impl.h and .cpp), and the caches of free OIDs that *)
(* threads keep (thread_allocate(), thread_free() and                      *)
(* thread_revoke_caches() of dbcore/sm-oid.cpp).                           *)
(*                                                                         *)
(* A free OID is in the cache of a thread, in the stack L1, or in one of   *)
(* the sparse bitsets of L2: one that collects OIDs of a swath, or a full  *)
(* one on the ready list.  Never used OIDs are those from the high water   *)
(* mark on.  L3 is never created (nothing calls _drain_l2()).  All changes *)
(* of the allocator are made under the lock of the file, and the caches    *)
(* belong to their threads, so an operation is one step.                   *)
(***************************************************************************)
EXTENDS Integers, Sequences, FiniteSets, FiniteSetsExt, SequencesExt, Functions

CONSTANTS
    Threads,     \* threads with a cache for the file
    Half,        \* entries in each half of a sparse bitset
    Gamut,       \* OIDs of a swath
    Maps,        \* L2_CAPACITY: bitsets, and swaths
    L1Capacity,  \* L1_CAPACITY
    FillTarget,  \* thread_cache::FILL_TARGET
    CacheSize,   \* thread_cache::N
    Capacity0,   \* the capacity mark at the beginning
    Word,        \* OIDs are numbers below this
    MaxOid,      \* bound: OIDs handed out for the first time
    MaxFrees,    \* bound: OIDs freed
    MaxRevokes   \* bound: caches revoked

(* What the constants of the code satisfy. *)
SizesFit ==
    /\ Half \in Nat /\ Half >= 2 /\ Gamut \in Nat \ {0} /\ Maps \in Nat \ {0}
    /\ CacheSize >= FillTarget + 2 * Half
    /\ FillTarget <= L1Capacity \div 2
    /\ CacheSize <= L1Capacity \div 2
    /\ Capacity0 >= 4
    /\ {MaxOid, MaxFrees, MaxRevokes, Word} \subseteq Nat

VARIABLES
    alloc,    \* the allocator
    cache,    \* the free OIDs each thread holds
    used,     \* the OIDs handed out and not freed
    oldest,   \* whether the smallest or the largest of them is freed next
    left      \* bound: frees and revocations left

vars == <<alloc, cache, used, oldest, left>>

BitsetSize == 2 * Half
NoBitset == [i \in 1..BitsetSize |-> 0]

(* l2 holds the ready list on its left and the unused bitsets on its       *)
(* right; unused = 0 means that L2 does not exist.                         *)
Init ==
    /\ alloc = [capacity |-> Capacity0, hiwater |-> 0, l1 |-> <<>>, l2 |-> [i \in 0..(Maps - 1) |-> <<0, i>>],
                size |-> 0, unused |-> 0, hand |-> 0, loose |-> 0,
                assigned |-> [s \in 0..(Maps - 1) |-> 0], maps |-> [m \in 0..(Maps - 1) |-> NoBitset]]
    /\ cache = [t \in Threads |-> <<>>]
    /\ used = {}
    /\ oldest \in BOOLEAN
    /\ left = [frees |-> MaxFrees, revokes |-> MaxRevokes]

----------------------------------------------------------------------------
(* struct sparse_bitset.  An entry of 0 ends the set, so offset 0 is kept  *)
(* in the first place.                                                     *)

Init1(x) == <<x>> \o Tail(NoBitset)

(* insert(): entries shift to the right within their half. *)
FirstHalf(b) == SubSeq(b, 1, Half)
SecondHalf(b) == SubSeq(b, Half + 1, BitsetSize)
InsertFirst(b, x) == (IF b[1] = 0 THEN <<0, x>> \o SubSeq(b, 2, Half - 1) ELSE <<x>> \o SubSeq(b, 1, Half - 1))
                     \o SecondHalf(b)
InsertSecond(b, x) == FirstHalf(b) \o <<x>> \o SubSeq(b, Half + 1, BitsetSize - 1)

Inserted(b, x) ==
    IF b[Half] = 0 THEN InsertFirst(b, x)
    ELSE IF x = 0 THEN InsertSecond(<<0>> \o Tail(b), b[1])
    ELSE InsertSecond(b, x)

Full(b) == b[BitsetSize] # 0

(* What sparse_bitset::iterator visits. *)
Elements(b) == SubSeq(b, 1, Min({i \in 1..BitsetSize : i = BitsetSize \/ b[i + 1] = 0}))

----------------------------------------------------------------------------
(* struct sm_allocator. *)

L2Valid(a) == a.unused # 0

InitL2(a) ==
    [a EXCEPT !.assigned = [s \in 0..(Maps - 1) |-> 0], !.l2 = [i \in 0..(Maps - 1) |-> <<0, i>>],
              !.size = 0, !.unused = 1, !.hand = 0, !.loose = 0]

(* _drain_l1(): one OID moves to the bitset of its swath. *)
DrainOne(a, x) ==
    LET s == x \div Gamut
        m == a.assigned[s]
        new == a.l2[a.unused][2]
        b == Inserted(a.maps[m], x % Gamut)
    IN  IF m = 0
        THEN [a EXCEPT !.assigned[s] = new, !.maps[new] = Init1(x % Gamut),
                       !.unused = (@ + 1) % Maps, !.loose = @ + 1]
        ELSE IF Full(b)
        THEN [a EXCEPT !.maps[m] = b, !.l2[a.size] = <<s, m>>, !.size = @ + 1, !.assigned[s] = 0,
                       !.loose = @ + 1 - BitsetSize]
        ELSE [a EXCEPT !.maps[m] = b, !.loose = @ + 1]

DrainL1(a, n) ==
    LET base == Len(a.l1) - n
        a1 == IF L2Valid(a) THEN a ELSE InitL2(a)
    IN  FoldLeft(DrainOne, [a1 EXCEPT !.l1 = SubSeq(@, 1, base)], SubSeq(a.l1, base + 1, Len(a.l1)))

(* drain_cache(): returns the allocator and what is left of the cache. *)
DrainCache(a, c) ==
    LET a1 == IF Len(a.l1) + Len(c) > L1Capacity THEN DrainL1(a, L1Capacity \div 2) ELSE a
        n == Min({Len(c), L1Capacity - Len(a1.l1)})
    IN  [a |-> [a1 EXCEPT !.l1 = @ \o SubSeq(c, Len(c) - n + 1, Len(c))], c |-> SubSeq(c, 1, Len(c) - n)]

(* In the operators that fill a cache, s holds the allocator a, the cache  *)
(* c, how many OIDs are wanted, n, and the one that is handed out, oid.    *)
FillFromL1(s) ==
    LET k == Min({Max({s.n, 0}), Len(s.a.l1)})
        base == Len(s.a.l1) - k
    IN  [s EXCEPT !.a.l1 = SubSeq(@, 1, base), !.c = @ \o SubSeq(s.a.l1, base + 1, base + k), !.n = @ - k]

Base(s, offsets) == [i \in DOMAIN offsets |-> s * Gamut + offsets[i]]

(* _scan_l2(): the last full bitset is taken whole and becomes unused. *)
TakeReady(s, i) ==
    LET r == s.a.l2[s.a.size - 1]
        at == (s.a.unused - 1) % Maps
    IN  IF s.n <= 0 \/ s.a.size = 0 THEN s
        ELSE [s EXCEPT !.a.size = @ - 1, !.a.unused = at, !.a.l2[at] = <<0, r[2]>>,
                       !.c = @ \o Base(r[1], s.a.maps[r[2]]), !.n = @ - BitsetSize]

FillFromL2(s) == IF L2Valid(s.a) THEN FoldLeft(TakeReady, s, [i \in 1..s.a.size |-> i]) ELSE s

(* The bump allocator. *)
Bump(s) ==
    LET k == Max({0, Min({s.n, s.a.capacity - s.a.hiwater})})
    IN  [s EXCEPT !.a.hiwater = @ + k, !.c = @ \o [i \in 1..k |-> s.a.hiwater + i - 1], !.n = @ - k]

MutTakeLoose(s, i) ==
    LET w == (s.a.hand + i) % Maps
        m == s.a.assigned[w]
        x == Elements(s.a.maps[m])
    IN  IF s.n <= 0 THEN s
        ELSE IF m = 0 THEN [s EXCEPT !.i = i + 1]
        ELSE [s EXCEPT !.a.l1 = @ \o Base(w, x), !.a.loose = @ - Len(x), !.n = @ - Len(x), !.i = i + 1]

(* _scavenge_l2(): the bitset of the next swath goes back to L1. *)
TakeLoose(s, i) ==
    LET w == (s.a.hand + i) % Maps
        m == s.a.assigned[w]
        x == Elements(s.a.maps[m])
        at == (s.a.unused - 1) % Maps
    IN  IF s.n <= 0 THEN s
        ELSE IF m = 0 THEN [s EXCEPT !.i = i + 1]
        ELSE [s EXCEPT !.a.l1 = @ \o Base(w, x), !.a.loose = @ - Len(x), !.a.unused = at,
                       !.a.l2[at] = <<0, m>>, !.a.assigned[w] = 0, !.n = @ - Len(x), !.i = i + 1]

(* The test against the number of OIDs in L3 is always true: that number   *)
(* is a canary while L3 does not exist.                                    *)
ScavengeL2(a) ==
    IF ~L2Valid(a) \/ a.loose < L1Capacity \div 2 THEN a
    ELSE LET s == FoldLeft(TakeLoose, [a |-> a, n |-> L1Capacity \div 2, i |-> 0], [i \in 1..Maps |-> i - 1])
         IN  [s.a EXCEPT !.hand = (@ + s.i) % Maps]

(* fill_cache(): the levels in their order, until enough is found; L2 is   *)
(* scavenged after the bump allocator was used.                            *)
FillStep(s, level) ==
    CASE s.n <= 0 -> s
      [] s.n > 0 /\ level = "L1" -> FillFromL1(s)
      [] s.n > 0 /\ level = "L2" -> FillFromL2(s)
      [] s.n > 0 /\ level = "L0" -> Bump([s EXCEPT !.a = ScavengeL2(@)])

FillCache(s) ==
    FoldLeft(FillStep, [s EXCEPT !.n = Min({FillTarget, CacheSize - Len(s.c) - BitsetSize})],
             <<"L1", "L2", "L0", "L1">>)

(* propose_capacity(); the product is computed in 32 bits. *)
Proposed(a) == Min({((5 * a.capacity) % Word) \div 4, Word - 2})

(* thread_allocate(): an empty cache is filled, and filled again with a    *)
(* larger capacity if that failed.                                         *)
Refill(s, again) ==
    IF ~again THEN FillCache(s)
    ELSE IF s.n > 0 THEN FillCache([s EXCEPT !.a.capacity = Proposed(s.a)]) ELSE s

ThreadAllocate(s) ==
    LET r == IF s.c = <<>> THEN FoldLeft(Refill, s, <<FALSE, TRUE>>) ELSE s
    IN  [r EXCEPT !.c = Front(@), !.oid = Last(r.c)]

(* alloc_oid(): OID 0 is never used. *)
AllocOid(s, again) == IF again /\ s.oid # 0 THEN s ELSE ThreadAllocate(s)

Allocate(t) ==
    /\ \E r \in {FoldLeft(AllocOid, [a |-> alloc, c |-> cache[t], n |-> 0, oid |-> 0], <<FALSE, TRUE>>)} :
          /\ r.a.hiwater <= MaxOid
          /\ alloc' = r.a
          /\ cache' = [cache EXCEPT ![t] = r.c]
          /\ used' = used \cup {r.oid}
    /\ UNCHANGED <<oldest, left>>

(* free_oid(), thread_free(). *)
Free(t, o) ==
    /\ left.frees > 0
    /\ left' = [left EXCEPT !.frees = @ - 1]
    /\ LET s == IF Len(cache[t]) = CacheSize THEN DrainCache(alloc, cache[t]) ELSE [a |-> alloc, c |-> cache[t]]
       IN  /\ alloc' = s.a
           /\ cache' = [cache EXCEPT ![t] = Append(s.c, o)]
    /\ used' = used \ {o}
    /\ UNCHANGED oldest

(* thread_revoke_caches(): the thread's table of caches is full. *)
Revoke(t) ==
    /\ cache[t] # <<>> /\ left.revokes > 0
    /\ left' = [left EXCEPT !.revokes = @ - 1]
    /\ alloc' = DrainCache(alloc, cache[t]).a
    /\ cache' = [cache EXCEPT ![t] = <<>>]
    /\ UNCHANGED <<used, oldest>>

Freed == {o \in used : o = IF oldest THEN Min(used) ELSE Max(used)}

Next == \E t \in Threads : Allocate(t) \/ Revoke(t) \/ \E o \in Freed : Free(t, o)

Spec == Init /\ [][Next]_vars

----------------------------------------------------------------------------
(* Properties. *)

(* The parts of the allocator have their types, L1 and the caches do not   *)
(* overflow, and nothing beyond the capacity has been handed out.          *)
OidTypeOK ==
    /\ alloc.capacity \in 0..(Word - 2) /\ alloc.hiwater \in 0..alloc.capacity
    /\ Len(alloc.l1) <= L1Capacity
    /\ alloc.size \in 0..(Maps - 1) /\ alloc.unused \in 0..(Maps - 1) /\ alloc.hand \in 0..(Maps - 1)
    /\ \A t \in Threads : Len(cache[t]) <= CacheSize
    /\ oldest \in BOOLEAN /\ left \in [frees : 0..MaxFrees, revokes : 0..MaxRevokes]

Ready(a) == [i \in 1..a.size |-> a.l2[i - 1]]
Unused(a) == {a.l2[i][2] : i \in a.unused..(Maps - 1)}
Assigned(a) == {s \in DOMAIN a.assigned : a.assigned[s] # 0}

(* All that is free, a free OID as often as it is recorded. *)
Pool(a) ==
    a.l1 \o FlattenSeq(SetToSeq({Base(s, Elements(a.maps[a.assigned[s]])) : s \in Assigned(a)}))
         \o FlattenSeq([i \in DOMAIN Ready(a) |-> Base(Ready(a)[i][1], a.maps[Ready(a)[i][2]])])
FreeOids == FoldSet(LAMBDA t, s : s \o cache[t], Pool(alloc), Threads)

(* No OID is free twice or free and in use: whatever the levels it has     *)
(* passed through, an OID is handed to one row at a time.                  *)
Exclusive == IsInjective(FreeOids) /\ Range(FreeOids) \cap used = {}

(* No OID gets lost: each one below the high water mark, except 0, is in   *)
(* use or free (the bitsets keep offset 0 apart from the end of the set).  *)
Conserved == 1..(alloc.hiwater - 1) \subseteq Range(FreeOids) \cup used

(* What sanity_check() dies on: a bitset that is assigned twice, on the    *)
(* ready list twice, or in two of the three roles, or bitset 0 in any; the *)
(* number of loose OIDs is right.                                          *)
Sane ==
    L2Valid(alloc) =>
        /\ Cardinality({alloc.assigned[s] : s \in Assigned(alloc)}) = Cardinality(Assigned(alloc))
        /\ Cardinality({r[2] : r \in Range(Ready(alloc))}) = alloc.size
        /\ Cardinality(Unused(alloc)) = Maps - alloc.unused
        /\ 0 \notin Unused(alloc) \cup {r[2] : r \in Range(Ready(alloc))}
        /\ Cardinality(Assigned(alloc)) + alloc.size + Cardinality(Unused(alloc)) = Maps - 1
        /\ alloc.loose = MapThenSumSet(LAMBDA s : Len(Elements(alloc.maps[alloc.assigned[s]])), Assigned(alloc))

(* The allocator over all its levels: every OID below the high water mark  *)
(* is in use or recorded free in one place, and the bitsets are in order.  *)
OidSound == OidTypeOK /\ Exclusive /\ Conserved /\ Sane
=============================================================================
