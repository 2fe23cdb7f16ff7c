-------------------------------- MODULE Rcu ---------------------------------
(***************************************************************************)
(* RCU (dbcore/rcu.cpp) over the contract of an epoch manager.  A thread   *)
(* puts memory it frees on its free list, or on its stash if it caches     *)
(* that size.  When an epoch closes, the thread that closes it visits all  *)
(* registered threads and hands their free lists to the closing epoch; the *)
(* stashes move one place on, and come back to their owner two epochs      *)
(* later.                                                                  *)
(*                                                                         *)
(* A place stands for a pointer_list: <<"free", t>> is what t->free_list   *)
(* points to, <<"epoch", e>> the lists of epoch e, and so on.  rcu_free()  *)
(* reads the pointer to a list first and links the memory later, so the    *)
(* list it has in hand may have moved meanwhile.  When rcu_free() asks for *)
(* a new epoch depends on numbers of objects and bytes that are left open. *)
(***************************************************************************)
EXTENDS EpochService, FiniteSets

CONSTANTS
    Pointers,    \* pieces of memory, published or free
    Cacheable,  \* those of a size that a thread may ask to cache
    StashMax,   \* pointer_stash::max_count
    Bounds,     \* bounds: threads that cache, nesting of rcu_enter(), last epoch
    None

VARIABLES
    registered, \* threads registered with RCU
    depth,      \* enter_count of each thread
    caching,    \* threads whose size_stash has an entry
    place,      \* where each object is
    freeing,    \* the object a thread is in rcu_free() with, and the list it read
    visit,      \* threads the closing of an epoch has yet to visit
    opener,     \* the thread that closes it
    held,       \* the objects each thread has references to
    bound,      \* the bounds of this behaviour
    late        \* history: unlinked after the epoch that collects it closed

lists == <<place, freeing>>
threads == <<registered, depth, caching>>
opening == <<visit, opener>>
vars == <<svars, lists, threads, opening, held, bound, late>>

Live == <<"live", None>>
Unlinked == <<"unlinked", None>>
Gone == <<"gone", None>>
Zombie == <<"zombie", None>>

NoCall == [o |-> None, list |-> Gone]

Init ==
    /\ SInit
    /\ registered = {}
    /\ depth = [t \in Threads |-> 0]
    /\ bound \in Bounds
    /\ caching = bound.caching    \* rcu_start_tls_cache(), called by a thread as it registers
    /\ place = [o \in Pointers |-> Live]
    /\ freeing = [t \in Threads |-> NoCall]
    /\ visit = {}
    /\ opener = None
    /\ held = [t \in Threads |-> {}]
    /\ late = {}

Move(from, to) == [o \in Pointers |-> IF place[o] \in from THEN to ELSE place[o]]
NotOpening == visit = {}

(* t is in a transaction, and neither in rcu_free() nor in new_epoch(). *)
Ready(t) == depth[t] > 0 /\ freeing[t] = NoCall /\ (visit # {} => t # opener)

----------------------------------------------------------------------------
(* Registration.  It takes the mutex of the epoch manager, as opening an   *)
(* epoch does.                                                             *)

Register(t) ==
    /\ t \notin registered /\ NotOpening
    /\ registered' = registered \cup {t}
    /\ UNCHANGED <<svars, lists, depth, caching, opening, held, late, bound>>

Lists(t) == {<<k, t>> : k \in {"free", "cur", "cooling", "cold", "reclaimed"}}

(* rcu_thread_deregistered(): all lists of the thread become zombies. *)
Zombies(t) == Move(Lists(t), Zombie)

Deregister(t) ==
    /\ t \in registered /\ NotOpening /\ depth[t] = 0
    /\ registered # {t}
    /\ registered' = registered \ {t}
    /\ place' = Zombies(t)
    /\ UNCHANGED <<svars, freeing, depth, caching, opening, held, late, bound>>

(* The last thread closes the epoch: rcu_epoch_ended() hands the zombies   *)
(* to it, and it is reclaimed at once with the epoch before it.            *)
DeregisterLast(t) ==
    /\ registered = {t} /\ NotOpening /\ depth[t] = 0
    /\ epoch < bound.epochs
    /\ SShut
    /\ registered' = {}
    /\ place' = [o \in Pointers |->
            IF Zombies(t)[o] = Zombie \/ (epoch > 1 /\ place[o] = <<"epoch", epoch - 1>>)
            THEN Gone ELSE place[o]]
    /\ UNCHANGED <<freeing, depth, caching, opening, held, late, bound>>

(* rcu_enter() and rcu_exit() nest. *)
RcuEnter(t) ==
    /\ t \in registered /\ depth[t] < bound.depth /\ (depth[t] = 0 \/ Ready(t))
    /\ depth' = [depth EXCEPT ![t] = @ + 1]
    /\ IF depth[t] = 0 THEN SEnter(t) ELSE UNCHANGED svars
    /\ UNCHANGED <<lists, registered, caching, opening, held, late, bound>>

ExitsAt(t) == depth[t] = 1

RcuExit(t) ==
    /\ Ready(t)
    /\ depth' = [depth EXCEPT ![t] = @ - 1]
    /\ IF ExitsAt(t) THEN SExit(t) ELSE UNCHANGED svars
    /\ held' = IF depth[t] = 1 THEN [held EXCEPT ![t] = {}] ELSE held
    /\ UNCHANGED <<lists, registered, caching, opening, late, bound>>

(* A reader follows a pointer to an object that is still published. *)
Read(t, o) ==
    /\ Ready(t) /\ place[o] = Live
    /\ held' = [held EXCEPT ![t] = @ \cup {o}]
    /\ UNCHANGED <<svars, lists, threads, opening, late, bound>>

(* A writer makes the object unreachable before it frees it. *)
Unlink(t, o) ==
    /\ Ready(t) /\ place[o] = Live
    /\ place' = [place EXCEPT ![o] = Unlinked]
    /\ freeing' = [freeing EXCEPT ![t] = [o |-> o, list |-> Gone]]
    /\ late' = IF t \in visit THEN late \cup {o} ELSE late
    /\ UNCHANGED <<svars, threads, opening, held, bound>>

----------------------------------------------------------------------------
(* rcu_free(). *)

ReadList(t) ==
    LET o == freeing[t].o
    IN  /\ o # None /\ freeing[t].list = Gone
        /\ freeing' = [freeing EXCEPT ![t].list = IF o \in Cacheable /\ t \in caching THEN <<"cur", t>>
                                                  ELSE <<"free", t>>]
        /\ UNCHANGED <<svars, threads, place, opening, held, late, bound>>

Link(t) ==
    /\ freeing[t].list # Gone
    /\ place' = [place EXCEPT ![freeing[t].o] = freeing[t].list]
    /\ freeing' = [freeing EXCEPT ![t] = NoCall]
    /\ UNCHANGED <<svars, threads, opening, held, late, bound>>

EpochEnded == Move({Zombie}, <<"epoch", epoch>>)

(* new_epoch(): the new epoch is published and rcu_epoch_ended() gives the *)
(* zombies to the one that closes; the threads are visited afterwards.     *)
Open(t) ==
    /\ Ready(t) /\ NotOpening
    /\ epoch < bound.epochs
    /\ SOpen
    /\ place' = EpochEnded
    /\ visit' = registered /\ opener' = t
    /\ UNCHANGED <<freeing, threads, held, late, bound>>

(* rcu_epoch_ended_thread(): an empty list stays where it is. *)
NextPlace(u, e) ==
    [p \in Lists(u) |->
        CASE p[1] \in {"free", "reclaimed"} -> <<"epoch", e>>
          [] p[1] = "cur" -> <<"cooling", u>>
          [] p[1] = "cooling" -> <<"cold", u>>
          [] p[1] = "cold" -> <<"reclaimed", u>>]
Bubbled(u, e) == NextPlace(u, e)

Collect(u) ==
    LET full == {p \in Lists(u) : \E o \in Pointers : place[o] = p}
        to == Bubbled(u, epoch - 1)
        Next(p) == IF p \in full THEN to[p] ELSE p
    IN  /\ u \in visit
        /\ visit' = visit \ {u}
        /\ opener' = IF visit = {u} THEN None ELSE opener
        /\ place' = [o \in Pointers |-> Next(place[o])]
        /\ freeing' = [freeing EXCEPT ![u].list = Next(@)]
        /\ UNCHANGED <<svars, threads, held, late, bound>>

(* rcu_epoch_reclaimed(). *)
Reclaim(e) ==
    /\ NotOpening
    /\ SReclaim(e)
    /\ place' = Move({<<"epoch", e>>}, Gone)
    /\ UNCHANGED <<freeing, threads, opening, held, late, bound>>

----------------------------------------------------------------------------
(* The caches of sizes. *)

Mine(t) == {o \in Pointers : place[o] = <<"mine", t>>}

StopTlsCache(t) ==
    /\ t \in caching /\ (depth[t] = 0 \/ Ready(t))
    /\ caching' = caching \ {t}
    /\ place' = Move({<<"mine", t>>}, Gone)
    /\ UNCHANGED <<svars, freeing, registered, depth, opening, held, late, bound>>

(* rcu_alloc(): memory from the stash is used again, and published. *)
Alloc(t, o) ==
    /\ t \in caching /\ Ready(t)
    /\ o \in Mine(t)
    /\ place' = [place EXCEPT ![o] = Live]
    /\ late' = late \ {o}
    /\ UNCHANGED <<svars, freeing, threads, opening, held, bound>>

(* The stash is empty: the reclaimed list is taken, as much of it as fits  *)
(* is kept and the rest deleted.                                           *)
TakeReclaimed(t) ==
    LET got == {o \in Pointers : place[o] = <<"reclaimed", t>>}
    IN  /\ t \in caching /\ Ready(t)
        /\ Mine(t) = {} /\ got # {}
        /\ \E keep \in SUBSET got :
              /\ Cardinality(keep) = IF Cardinality(got) < StashMax THEN Cardinality(got) ELSE StashMax
              /\ place' = [o \in Pointers |-> IF o \in keep THEN <<"mine", t>>
                                             ELSE IF o \in got THEN Gone ELSE place[o]]
        /\ UNCHANGED <<svars, freeing, threads, opening, held, late, bound>>

RcuNext ==
    \/ \E t \in Threads :
          \/ Register(t) \/ Deregister(t) \/ DeregisterLast(t) \/ RcuEnter(t) \/ RcuExit(t)
          \/ ReadList(t) \/ Link(t) \/ Open(t) \/ Collect(t)
          \/ StopTlsCache(t) \/ TakeReclaimed(t)
          \/ \E o \in Pointers : Read(t, o) \/ Unlink(t, o) \/ Alloc(t, o)
    \/ \E e \in Epochs : Reclaim(e)

RcuSpec == Init /\ [][RcuNext]_vars

----------------------------------------------------------------------------
(* Properties. *)

RcuTypeOK ==
    /\ registered \subseteq Threads /\ caching \subseteq Threads /\ visit \subseteq registered
    /\ depth \in [Threads -> 0..bound.depth]
    /\ \A t \in Threads : (depth[t] > 0) = (active[t] # 0)
    /\ held \in [Threads -> SUBSET Pointers] /\ late \subseteq Pointers

Reusable == {Gone} \cup {<<"mine", t>> : t \in Threads}

(* "No RCU-protected resources freed while the transaction is in flight    *)
(* can be reclaimed until the transaction quiesces or ends" (rcu.h): no    *)
(* thread holds a reference to memory that was given back to the system or *)
(* may be handed out again.  Memory unlinked while an epoch was closing,   *)
(* before the thread's lists were collected, is the exception.             *)
HeldKept == \A t \in Threads : \A o \in held[t] \ late : place[o] \notin Reusable

(* A list that a thread has in hand in rcu_free() is still in use: it has  *)
(* not been reclaimed with its epoch, nor been taken apart by its owner,   *)
(* however far the closing of epochs has moved it; with the same           *)
(* exception.                                                              *)
LinksInTime ==
    \A t \in Threads : (freeing[t].list # Gone /\ freeing[t].o \notin late) =>
        \/ freeing[t].list \in {<<k, t>> : k \in {"free", "cur", "cooling", "cold"}}
        \/ freeing[t].list[1] = "epoch" /\ freeing[t].list[2] \notin reclaimed

(* No memory is left on a list nobody collects: what is on the lists of a  *)
(* thread has an owner that is registered, and what is on the lists of an  *)
(* epoch belongs to one not reclaimed yet; with the same exception.        *)
NothingLost ==
    \A o \in Pointers \ late :
        /\ place[o][1] \in {"free", "cur", "cooling", "cold", "reclaimed"} => place[o][2] \in registered
        /\ place[o][1] = "epoch" => place[o][2] \notin reclaimed

=============================================================================
