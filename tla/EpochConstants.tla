--------------------------- MODULE EpochConstants ---------------------------
(***************************************************************************)
(* What the epoch manager and the XID allocator above it have in common.   *)
(***************************************************************************)
EXTENDS Integers, FiniteSets

CONSTANTS
    Threads,    \* threads that may register with the manager
    NoThread,   \* not a thread: a mutex is free
    MaxEpoch    \* bound: the last epoch that may be opened

ASSUME ThreadsAssumption == IsFiniteSet(Threads) /\ NoThread \notin Threads
ASSUME MaxEpochAssumption == MaxEpoch \in Nat \ {0}
=============================================================================
