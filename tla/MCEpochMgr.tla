---------------------------- MODULE MCEpochMgr ----------------------------
(***************************************************************************)
(* The epoch manager and the allocators of XIDs and of OIDs, for TLC, one  *)
(* at a time.  The XID allocator sees the manager only through             *)
(* AtMostTwoBehind.                                                        *)
(***************************************************************************)
EXTENDS EpochMgr, XidAlloc, TLC

CONSTANTS OidThreads, Half, Gamut, Maps, L1Capacity, FillTarget, CacheSize, Capacity0, Word,
          LastOid, MaxFrees, MaxRevokes

VARIABLES part, alloc, cache, taken, oldest, chances

avars == <<alloc, cache, taken, oldest, chances>>

A == INSTANCE OidAlloc WITH Threads <- OidThreads, MaxOid <- LastOid, used <- taken,
                            left <- chances

ASSUME SizesAssumption == A!SizesFit

MCInit ==
    /\ Init /\ XidInit /\ A!Init
    /\ part \in {"manager", "xids", "oids"}
    /\ part # "oids" => oldest

(* The OID allocator may stop: what it hands out and takes back is bounded. *)
MCNext ==
    \/ part = "manager" /\ Next /\ UNCHANGED <<part, xvars, avars>>
    \/ part = "xids" /\ XidNext /\ UNCHANGED <<part, vars, avars>>
    \/ part = "oids" /\ A!Next /\ UNCHANGED <<part, vars, xvars>>
    \/ part = "oids" /\ UNCHANGED <<part, vars, xvars, avars>>
MCSpec == MCInit /\ [][MCNext]_<<part, vars, xvars, avars>>

Symmetry == Permutations(Threads)

(* The property of OidAlloc, where it is stated and explained. *)
OidsSound == part = "oids" => A!OidSound
=============================================================================
