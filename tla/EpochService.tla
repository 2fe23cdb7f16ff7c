---------------------------- MODULE EpochService ----------------------------
(***************************************************************************)
(* What an epoch manager promises its clients (the memory manager, the XID *)
(* allocator and RCU): transactions join the current epoch or the one      *)
(* before it, no epoch opens over the head of a transaction two epochs     *)
(* old, and a closed epoch is reclaimed, oldest first, when every          *)
(* transaction that was in flight as it closed has ended.  EpochMgr is     *)
(* shown to implement this; the models of the clients are built on it.     *)
(***************************************************************************)
EXTENDS Integers

CONSTANTS
    Threads,    \* threads that run transactions
    MaxEpoch    \* bound: the last epoch that may be opened

VARIABLES
    epoch,      \* the current epoch
    active,     \* the epoch each thread's transaction joined, 0 if it has none
    hold,       \* for each closed epoch, who of that time is still in flight
    reclaimed   \* the epochs reclaimed

svars == <<epoch, active, hold, reclaimed>>

Epochs == 1..MaxEpoch

SInit ==
    /\ epoch = 1
    /\ active = [t \in Threads |-> 0]
    /\ hold = [e \in Epochs |-> {}]
    /\ reclaimed = {}

SEnter(t) ==
    /\ active[t] = 0
    /\ \E e \in Epochs : e \in {epoch - 1, epoch} /\ active' = [active EXCEPT ![t] = e]
    /\ UNCHANGED <<epoch, hold, reclaimed>>

SExit(t) ==
    /\ active[t] # 0
    /\ active' = [active EXCEPT ![t] = 0]
    /\ hold' = [e \in Epochs |-> hold[e] \ {t}]
    /\ UNCHANGED <<epoch, reclaimed>>

SCanOpen ==
    /\ epoch < MaxEpoch
    /\ \A t \in Threads : active[t] # 0 => active[t] >= epoch - 1
    /\ 1..epoch - 2 \subseteq reclaimed

SOpen ==
    /\ SCanOpen
    /\ epoch' = epoch + 1
    /\ hold' = [hold EXCEPT ![epoch] = {t \in Threads : active[t] # 0}]
    /\ UNCHANGED <<active, reclaimed>>

SReclaim(e) ==
    /\ e < epoch - 1 /\ e \notin reclaimed
    /\ \A f \in Epochs : f < e => f \in reclaimed
    /\ hold[e] = {}
    /\ reclaimed' = reclaimed \cup {e}
    /\ UNCHANGED <<epoch, active, hold>>

(* The last thread deregisters: what is open or cooling goes with it. *)
SShut ==
    /\ epoch < MaxEpoch
    /\ \A t \in Threads : active[t] = 0
    /\ epoch' = epoch + 1
    /\ reclaimed' = reclaimed \cup ({epoch - 1, epoch} \ {0})
    /\ UNCHANGED <<active, hold>>

SNext ==
    \/ \E t \in Threads : SEnter(t) \/ SExit(t)
    \/ SOpen
    \/ \E e \in Epochs : SReclaim(e)
    \/ SShut

SSpec == SInit /\ [][SNext]_svars
=============================================================================
