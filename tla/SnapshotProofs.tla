--------------------------- MODULE SnapshotProofs ---------------------------
(***************************************************************************)
(* For any number of workers, contexts, keys, transactions and operations: *)
(* under snapshot isolation no transaction reads a version of another that *)
(* committed after it began, as long as the context of the version's       *)
(* creator has not been issued again.                                      *)
(***************************************************************************)
EXTENDS MvccProofs

(* The provers of a leaf that names none, and their seconds. *)
USE ZenonT(10), SMTT(30), ZenonT(60)

Unordered == Labels \ ({"idle", "phantom", "stamp", "exit", "abort"} \cup Undoing)
Began(w) == pc[w] \notin {"idle", "ctor"}
Latest(x) == x \in Issued /\ gen[Ctx(x)] = Epoch(x)

(* Begin stamps are taken between the stamps of commits: fetch_add() gives *)
(* a commit the end of its block, a begin one past the end of the last.    *)
BeginOf(w) ==
    Began(w) => /\ begin[w] \in 1 .. lsn + 1
                /\ \A c \in Contexts : cend[c] # begin[w]
                /\ \A v \in Objects : IsLog(v) => clsn[v].lsn # begin[w]

(* A transaction has an end stamp from pre_commit() on, and its versions   *)
(* get that stamp after it.                                                *)
EndOf(w) ==
    /\ pc[w] \in Unordered => cend[Own(w)] = 0
    /\ pc[w] \in {"phantom", "stamp", "exit"} => cend[Own(w)] > 0
Ends ==
    /\ \A v \in Objects : v[1] = NoXid \/ Known(v[1])
    /\ \A v \in Objects : IsLog(v) /\ Latest(v[1]) => clsn[v].lsn = cend[Ctx(v[1])]
    /\ \A c \in Contexts : cstate[c] = "CMMTD" => cend[c] > 0
    /\ \A v \in Objects : \A w \in Workers : IsLog(v) /\ v[1] = xid[w] /\ pc[w] # "idle" => pc[w] \in {"stamp", "exit"}

(* A version that its creator, still there, has neither committed nor      *)
(* nulled.  The list of freed objects and the chains lead to one only from *)
(* another version of that creator.                                        *)
Live(v) == v \in Objects /\ clsn[v] = Xid(v[1]) /\ owner[Ctx(v[1])] = v[1]
Lists ==
    /\ \A v \in Objects : Live(next[v]) => v[1] = next[v][1]
    /\ \A w \in Workers : Live(unlinked[w]) => unlinked[w][1] = xid[w]

(* What a reader has in hand: a version of a transaction that was ordered  *)
(* before the reader began is the head of its chain, or being undone.      *)
Before(w, x) == 0 < cend[Ctx(x)] /\ cend[Ctx(x)] < begin[w]
InHand(w, v) ==
    Live(v) /\ v[1] # xid[w] /\ Before(w, v[1]) => v \in Range(head) \/ cstate[Ctx(v[1])] = "ABRTD"
Old(w, v) ==
    \/ v[1] = xid[w]
    \/ IsLog(v) /\ clsn[v].lsn < begin[w]
    \/ v[1] \in Issued /\ Epoch(v[1]) < gen[Ctx(v[1])]
Visits(w) ==
    /\ pc[w] \in {"next", "clsn", "ctx", "state", "owner"} => InHand(w, cur[w])
    /\ pc[w] \in {"clsn", "ctx", "state", "owner", "end"} => InHand(w, nxt[w])
    /\ pc[w] = "end" /\ clsn[cur[w]] = Xid(holder[w].xid) => ~Latest(holder[w].xid) \/ begin[w] < cend[Ctx(holder[w].xid)]
    /\ pc[w] = "tuple" /\ ~rc => Old(w, cur[w])
    /\ ~rc => \A r \in reads[w] : r[2] # NoObj => r[2] \in Objects /\ Old(w, r[2])
    /\ pc[w] \in {"idle", "ctor"} => reads[w] = {}
    /\ pc[w] = "dealloc" => cur[w][1] = xid[w]

JInv ==
    /\ \A w \in Workers : BeginOf(w) /\ EndOf(w) /\ Visits(w)
    /\ Ends /\ Lists /\ DOMAIN reads = Workers

-----------------------------------------------------------------------------
(* What a step of worker w may do to the state that other readers rely on. *)
ContextMoves(w) ==
    /\ lsn <= lsn'
    /\ \A c \in Contexts :
         \/ cend'[c] = cend[c] /\ gen'[c] = gen[c] /\ owner'[c] \in {owner[c], NoXid}
         \/ cend'[c] = 0 /\ gen[c] < gen'[c] /\ owner[c] = NoXid
         \/ /\ cend'[c] = lsn' /\ lsn + 1 < lsn' /\ gen'[c] = gen[c] /\ owner'[c] = owner[c]
            /\ c = Own(w) /\ pc[w] = "pre"
    /\ \A c \in Contexts :
         owner'[c] = owner[c] /\ owner[c] # NoXid /\ cstate[c] = "ABRTD" => cstate'[c] = "ABRTD"
    /\ \A c \in Contexts : cstate'[c] = "CMMTD" => cend'[c] > 0 \/ (cstate[c] = "CMMTD" /\ cend'[c] = cend[c])

StoreMoves(w) ==
    /\ \A v \in Objects : v \in Objects'
    /\ \A v \in Objects :
         \/ clsn'[v] = clsn[v]
         \/ clsn'[v] = NullPtr /\ ~IsLog(v)
         \/ clsn[v] = Xid(xid[w]) /\ clsn'[v] = Log(cend[Own(w)]) /\ pc[w] = "stamp"
    /\ \A v \in Objects' : v \notin Objects =>
         /\ v[1] = xid[w] /\ pc[w] # "idle" /\ clsn'[v] = Xid(xid[w])
         /\ next'[v] = NoObj \/ (next'[v] \in Objects /\ IsLog(next'[v]))
    /\ \A v \in Objects : next'[v] = next[v] \/ (next'[v] = unlinked[w] /\ v[1] = xid[w])
    /\ \A v \in Objects : v \in Range(head) /\ v \notin Range(head)' =>
         IsLog(v) \/ (v[1] = xid[w] /\ (cend[Own(w)] = 0 \/ cstate'[Own(w)] = "ABRTD"))

OwnMoves(w) ==
    /\ unlinked'[w] = unlinked[w] \/ (unlinked'[w] \in Objects /\ unlinked'[w][1] = xid[w])
    /\ \/ xid'[w] = xid[w] /\ (pc[w] \in {"stamp", "exit"} => pc'[w] \in {"stamp", "exit"})
       \/ xid'[w] = NoXid /\ owner'[Own(w)] = NoXid /\ pc'[w] = "idle"
       \/ xid[w] = NoXid /\ xid'[w] \in Issued /\ gen[Ctx(xid'[w])] < Epoch(xid'[w])

OthersMove(w) ==
    /\ rc' = rc /\ DOMAIN reads' = DOMAIN reads
    /\ \A u \in Workers : u # w =>
        /\ pc'[u] = pc[u] /\ cur'[u] = cur[u] /\ nxt'[u] = nxt[u] /\ holder'[u] = holder[u]
        /\ xid'[u] = xid[u] /\ unlinked'[u] = unlinked[u] /\ begin'[u] = begin[u] /\ reads'[u] = reads[u]

SnapStep(w) == ContextMoves(w) /\ StoreMoves(w) /\ OwnMoves(w) /\ OthersMove(w)

(* What a step cannot undo. *)
LEMMA Facts ==
    ASSUME IInv, IInv', JInv, NEW w \in Workers, SnapStep(w)
    PROVE  /\ \A c \in Contexts : gen[c] \in Nat /\ gen'[c] \in Nat /\ cend[c] \in Nat /\ gen[c] <= gen'[c]
           /\ \A x : Known(x) => /\ Known(x)' /\ x \in Issued /\ Ctx(x) \in Contexts /\ Epoch(x) \in Nat
                                 /\ x # NoXid /\ Epoch(x) <= gen[Ctx(x)]
           /\ \A x : Known(x) /\ owner'[Ctx(x)] = x => owner[Ctx(x)] = x
           /\ \A v \in Objects : Live(v)' => Live(v)
           /\ \A v \in Objects : IsLog(v) => IsLog(v)' /\ clsn'[v] = clsn[v]
<1>k. Names /\ Stamps /\ ContextTypes /\ ContextTypes' /\ Owners'
  BY DEF IInv, Types
<1>1. \A c \in Contexts : gen[c] \in Nat /\ gen'[c] \in Nat /\ cend[c] \in Nat /\ gen[c] <= gen'[c]
  BY SMTT(30), SMTT(60), <1>k DEF SnapStep, ContextMoves, ContextTypes
<1>2. ASSUME NEW x, Known(x)
      PROVE  /\ Known(x)' /\ x \in Issued /\ Ctx(x) \in Contexts /\ Epoch(x) \in Nat
             /\ x # NoXid /\ Epoch(x) <= gen[Ctx(x)]
  <2>1. x \in Issued /\ Ctx(x) \in Contexts /\ Epoch(x) \in Nat /\ Epoch(x) <= gen[Ctx(x)] /\ x # NoXid
    BY SMTT(30), SMTT(60), <1>2, ContextsAssumption DEF Known, Issued, Ctx, Epoch, NoXid
  <2> QED
    BY SMTT(30), SMTT(60), <1>1, <2>1 DEF Known
<1>3. ASSUME NEW x, Known(x), owner'[Ctx(x)] = x PROVE owner[Ctx(x)] = x
  <2>0. PICK c : c = Ctx(x)
    OBVIOUS
  <2>1. c \in Contexts /\ x # NoXid /\ Epoch(x) <= gen[c] /\ owner'[c] = x /\ Epoch(x) \in Nat
    BY <1>2, <1>3, <2>0
  <2>2. owner'[c] = <<c, gen'[c]>>
    BY <1>k, <2>1 DEF Owners, Slot
  <2>3. ~(gen[c] < gen'[c])
    BY SMTT(30), SMTT(60), <1>1, <2>1, <2>2 DEF Epoch
  <2> QED
    BY <2>0, <2>1, <2>3 DEF SnapStep, ContextMoves
<1>4. ASSUME NEW v \in Objects, Live(v)' PROVE Live(v)
  <2>1. clsn'[v] = Xid(v[1]) /\ owner'[Ctx(v[1])] = v[1]
    BY <1>4 DEF Live
  <2>2. clsn[v] = Xid(v[1])
    BY SMTT(30), SMTT(60), <2>1, StampFacts DEF SnapStep, StoreMoves
  <2>3. Known(v[1])
    BY <1>k, <2>2, Kinds
  <2> QED
    BY <1>3, <2>1, <2>2, <2>3 DEF Live
<1>5. ASSUME NEW v \in Objects, IsLog(v) PROVE IsLog(v)' /\ clsn'[v] = clsn[v]
  BY <1>5, StampFacts DEF SnapStep, StoreMoves, IsLog
<1> QED
  BY <1>1, <1>2, <1>3, <1>4, <1>5

(* Another running transaction keeps its context. *)
LEMMA OthersContext ==
    ASSUME IInv, NEW w \in Workers, SnapStep(w), NEW u \in Workers, u # w, pc[u] # "idle"
    PROVE  /\ xid[u] # xid[w] /\ (Own(u) # Own(w) \/ pc[w] = "idle")
           /\ Own(u) \in Contexts /\ Own(u)' = Own(u) /\ cend'[Own(u)] = cend[Own(u)]
<1>k. Owners
  BY DEF IInv
<1>1. xid[u] \in Issued /\ owner[Own(u)] = xid[u] /\ xid[u] # xid[w]
  BY <1>k DEF Owners, Holds
<1>2. Own(u) \in Contexts /\ xid[u] # NoXid
  BY SMTT(30), SMTT(60), <1>1, ContextsAssumption DEF Issued, Own, Ctx, NoXid
<1>3. pc[w] # "idle" => owner[Own(w)] = xid[w]
  BY <1>k DEF Owners, Holds
<1>4. Own(u) # Own(w) \/ pc[w] = "idle"
  BY <1>1, <1>3
<1>5. Own(u)' = Own(u)
  BY DEF Own, SnapStep, OthersMove
<1>6. PICK c : c = Own(u)
  OBVIOUS
<1>7. cend'[c] = cend[c]
  BY <1>1, <1>2, <1>4, <1>6 DEF SnapStep, ContextMoves
<1> QED
  BY <1>1, <1>2, <1>4, <1>5, <1>6, <1>7

LEMMA BeginsKeep ==
    ASSUME IInv, IInv', JInv, NEW w \in Workers, SnapStep(w), NEW u \in Workers, begin'[u] = begin[u],
           Began(u)' => Began(u)
    PROVE  BeginOf(u)'
<1> SUFFICES ASSUME Began(u)' PROVE /\ begin'[u] \in 1 .. lsn' + 1
                                    /\ \A c \in Contexts : cend'[c] # begin'[u]
                                    /\ \A v \in Objects' : IsLog(v)' => clsn'[v].lsn # begin'[u]
  BY DEF BeginOf
<1>k. BeginOf(u) /\ ContextTypes /\ ContextTypes' /\ Stamps /\ Names /\ Owners
  BY DEF JInv, IInv, Types
<1>0. begin'[u] = begin[u] /\ Began(u) /\ lsn <= lsn' /\ lsn \in Nat /\ lsn' \in Nat
  BY <1>k DEF SnapStep, ContextMoves, ContextTypes
<1>1. /\ begin[u] \in 1 .. lsn + 1 /\ \A c \in Contexts : cend[c] # begin[u]
      /\ \A v \in Objects : IsLog(v) => clsn[v].lsn # begin[u]
  BY <1>k, <1>0 DEF BeginOf
<1>2. begin'[u] \in 1 .. lsn' + 1
  BY SMTT(30), SMTT(60), <1>0, <1>1
<1>3. \A c \in Contexts : cend'[c] # begin'[u]
  BY SMTT(30), SMTT(60), <1>0, <1>1 DEF SnapStep, ContextMoves
<1>4. ASSUME NEW v \in Objects', IsLog(v)' PROVE clsn'[v].lsn # begin'[u]
  <2>1. v \in Objects
    BY <1>4, StampFacts DEF SnapStep, StoreMoves, IsLog
  <2>2. CASE clsn'[v] = clsn[v]
    BY <1>0, <1>1, <1>4, <2>1, <2>2 DEF IsLog
  <2>3. CASE pc[w] = "stamp" /\ clsn'[v] = Log(cend[Own(w)])
    <3>1. Own(w) \in Contexts
      BY <1>k, <2>3 DEF Owners, Holds, Issued, Own, Ctx
    <3> QED
      BY <1>0, <1>1, <2>3, <3>1, StampFacts
  <2> QED
    BY <1>4, <2>1, <2>2, <2>3, StampFacts DEF SnapStep, StoreMoves, IsLog
<1> QED
  BY <1>2, <1>3, <1>4

LEMMA EndsKeep ==
    ASSUME IInv, IInv', JInv, NEW w \in Workers, SnapStep(w)
    PROVE  Ends' /\ \A u \in Workers : u # w => EndOf(u)'
<1>k. Names /\ Stamps /\ Owners /\ ContextTypes /\ Ends /\ \A u \in Workers : EndOf(u)
  BY DEF IInv, JInv, Types
<1>f. /\ \A c \in Contexts : gen[c] \in Nat /\ gen'[c] \in Nat /\ cend[c] \in Nat /\ gen[c] <= gen'[c]
      /\ \A x : Known(x) => /\ Known(x)' /\ x \in Issued /\ Ctx(x) \in Contexts /\ Epoch(x) \in Nat
                            /\ x # NoXid /\ Epoch(x) <= gen[Ctx(x)]
  BY Facts
<1>1. ASSUME NEW u \in Workers, u # w PROVE EndOf(u)'
  <2>1. pc'[u] = pc[u]
    BY <1>1 DEF SnapStep, OthersMove
  <2>2. CASE pc[u] = "idle"
    BY <2>1, <2>2 DEF EndOf, Unordered
  <2>3. CASE pc[u] # "idle"
    <3>1. Own(u)' = Own(u) /\ cend'[Own(u)] = cend[Own(u)]
      BY <1>1, <2>3, OthersContext
    <3> QED
      BY <1>k, <2>1, <3>1 DEF EndOf
  <2> QED
    BY <2>2, <2>3
<1>2. ASSUME NEW v \in Objects' PROVE v[1] = NoXid \/ Known(v[1])'
  <2>1. CASE v \in Objects
    BY <1>k, <1>f, <2>1 DEF Ends
  <2>2. CASE v \notin Objects
    <3>1. v[1] = xid[w] /\ pc[w] # "idle"
      BY <2>2 DEF SnapStep, StoreMoves
    <3>2. Known(xid[w])
      BY <3>1, Fresh DEF IInv
    <3>3. PICK x : x = xid[w]
      OBVIOUS
    <3> QED
      BY <1>f, <3>1, <3>2, <3>3
  <2> QED
    BY <2>1, <2>2
<1>3. ASSUME NEW v \in Objects', IsLog(v)'
      PROVE  /\ v \in Objects
             /\ \/ IsLog(v) /\ clsn'[v] = clsn[v]
                \/ /\ v[1] = xid[w] /\ pc[w] = "stamp" /\ clsn'[v] = Log(cend[Own(w)])
  <2>1. v \in Objects
    BY <1>3, StampFacts DEF SnapStep, StoreMoves, IsLog
  <2> QED
    BY SMTT(30), SMTT(60), <1>k, <1>3, <2>1, Kinds, StampFacts DEF SnapStep, StoreMoves, IsLog
<1>4. ASSUME NEW v \in Objects', IsLog(v)', Latest(v[1])' PROVE clsn'[v].lsn = cend'[Ctx(v[1])]
  <2>0. PICK x, c : x = v[1] /\ c = Ctx(x)
    OBVIOUS
  <2>1. v \in Objects /\ x \in Issued /\ gen'[c] = Epoch(x)
    BY <1>3, <1>4, <2>0 DEF Latest
  <2>2. Known(x) /\ c \in Contexts /\ x = <<c, Epoch(x)>> /\ x # NoXid
    BY SMTT(30), SMTT(60), <1>k, <2>0, <2>1, ContextsAssumption DEF Ends, Issued, NoXid, Ctx, Epoch
  <2>3. gen[c] = Epoch(x) /\ gen'[c] = gen[c]
    BY SMTT(30), SMTT(60), <1>f, <2>0, <2>1, <2>2
  <2>4. CASE IsLog(v) /\ clsn'[v] = clsn[v]
    <3>1. clsn[v].lsn = cend[c]
      BY <1>k, <2>0, <2>1, <2>3, <2>4 DEF Ends, Latest
    <3>2. cend'[c] = cend[c]
      <4> SUFFICES ASSUME c = Own(w), pc[w] = "pre" PROVE FALSE
        BY SMTT(30), SMTT(60), <1>f, <2>2, <2>3 DEF SnapStep, ContextMoves
      <4>1. owner[c] = xid[w] /\ xid[w] # NoXid /\ owner[c] \in {NoXid, <<c, gen[c]>>}
        BY SMTT(30), SMTT(60), <1>k, <2>2, ContextsAssumption DEF Owners, Holds, Slot, Issued, NoXid
      <4>2. xid[w] = x
        BY <2>2, <2>3, <4>1
      <4> QED
        BY <1>k, <2>0, <2>1, <2>4, <4>2 DEF Ends
    <3> QED
      BY <2>0, <2>4, <3>1, <3>2
  <2>5. CASE v[1] = xid[w] /\ pc[w] = "stamp" /\ clsn'[v] = Log(cend[Own(w)])
    <3>1. c = Own(w)
      BY <2>0, <2>5 DEF Own
    <3>2. cend'[c] = cend[c]
      BY SMTT(30), SMTT(60), <1>f, <2>2, <2>3, <2>5 DEF SnapStep, ContextMoves
    <3> QED
      BY SMTT(30), SMTT(60), <2>0, <2>5, <3>1, <3>2, StampFacts
  <2> QED
    BY <1>3, <1>4, <2>4, <2>5
<1>5. ASSUME NEW v \in Objects', NEW u \in Workers, IsLog(v)', v[1] = xid'[u], pc'[u] # "idle"
      PROVE  pc'[u] \in {"stamp", "exit"}
  <2>1. CASE u # w
    <3>1. pc'[u] = pc[u] /\ xid'[u] = xid[u]
      BY <2>1 DEF SnapStep, OthersMove
    <3>2. xid[u] # xid[w]
      BY <1>5, <2>1, <3>1, OthersContext
    <3> QED
      BY <1>k, <1>3, <1>5, <3>1, <3>2 DEF Ends
  <2>2. CASE u = w
    <3>1. CASE xid'[w] = xid[w] /\ (pc[w] \in {"stamp", "exit"} => pc'[w] \in {"stamp", "exit"})
      <4>1. CASE pc[w] = "idle"
        <5>1. xid[w] = NoXid
          BY <1>k, <4>1 DEF Owners, Holds
        <5>2. xid'[w] # NoXid
          BY SMTT(30), SMTT(60), <1>5, <2>2, ContextsAssumption DEF IInv, Owners, Holds, Issued, NoXid
        <5> QED
          BY <3>1, <5>1, <5>2
      <4>2. CASE pc[w] # "idle"
        BY <1>k, <1>3, <1>5, <2>2, <3>1, <4>2 DEF Ends
      <4> QED
        BY <4>1, <4>2
    <3>2. CASE xid[w] = NoXid /\ xid'[w] \in Issued /\ gen[Ctx(xid'[w])] < Epoch(xid'[w])
      <4>0. PICK x : x = v[1]
        OBVIOUS
      <4>1. v \in Objects /\ x = xid'[w] /\ x \in Issued /\ gen[Ctx(x)] < Epoch(x)
        BY <1>3, <1>5, <2>2, <3>2, <4>0
      <4>2. x # NoXid
        BY SMTT(30), SMTT(60), <4>1, ContextsAssumption DEF Issued, NoXid
      <4>3. Known(x)
        BY <1>k, <4>0, <4>1, <4>2 DEF Ends
      <4> QED
        BY SMTT(30), SMTT(60), <1>f, <4>1, <4>3
    <3> QED
      BY <1>5, <2>2, <3>1, <3>2 DEF SnapStep, OwnMoves
  <2> QED
    BY <2>1, <2>2
<1>6. \A c \in Contexts : cstate'[c] = "CMMTD" => cend'[c] > 0
  BY <1>k DEF Ends, SnapStep, ContextMoves
<1> QED
  BY <1>1, <1>2, <1>4, <1>5, <1>6 DEF Ends

LEMMA NoNull == ASSUME IInv, IInv' PROVE NoObj \notin Objects /\ NoObj \notin Objects'
<1>1. Names /\ Names'
  BY DEF IInv
<1> QED
  BY SMTT(30), SMTT(60), <1>1 DEF Names, NoObj

LEMMA ListsKeep ==
    ASSUME IInv, IInv', JInv, NEW w \in Workers, SnapStep(w)
    PROVE  Lists'
<1>k. Names /\ Stamps /\ Links /\ Lists /\ NoObj \notin Objects /\ NoObj \notin Objects'
  BY NoNull DEF IInv, JInv
<1>f. /\ \A v \in Objects : Live(v)' => Live(v)
      /\ \A v \in Objects : IsLog(v) => IsLog(v)' /\ clsn'[v] = clsn[v]
  BY Facts
<1>0. \A d : Live(d)' => d \in Objects' /\ ~IsLog(d)'
  BY StampFacts DEF Live, IsLog
<1>1. ASSUME NEW v \in Objects', Live(next[v])' PROVE v[1] = next'[v][1]
  <2>0. PICK d : d = next'[v]
    OBVIOUS
  <2>1. Live(d)'
    BY <1>1, <2>0
  <2>2. v \in Objects
    BY <1>0, <1>f, <1>k, <2>0, <2>1 DEF SnapStep, StoreMoves
  <2>3. CASE d = next[v]
    <3>1. d \in Objects
      BY <1>0, <1>k, <2>1, <2>2, <2>3 DEF Links
    <3>2. Live(d)
      BY <1>f, <2>1, <3>1
    <3> QED
      BY SMTT(30), SMTT(60), <1>k, <2>0, <2>2, <2>3, <3>2 DEF Lists
  <2>4. CASE d = unlinked[w] /\ v[1] = xid[w]
    <3>1. d \in Objects
      BY <1>0, <1>k, <2>1, <2>4, Start0 DEF Refs
    <3>2. Live(d)
      BY <1>f, <2>1, <3>1
    <3> QED
      BY <1>k, <2>0, <2>4, <3>2 DEF Lists
  <2> QED
    BY <2>0, <2>2, <2>3, <2>4 DEF SnapStep, StoreMoves
<1>2. ASSUME NEW u \in Workers, Live(unlinked[u])' PROVE unlinked'[u][1] = xid'[u]
  <2>0. PICK d : d = unlinked'[u]
    OBVIOUS
  <2>1. Live(d)'
    BY <1>2, <2>0
  <2>2. CASE u # w
    <3>1. d = unlinked[u] /\ xid'[u] = xid[u]
      BY <2>0, <2>2 DEF SnapStep, OthersMove
    <3>2. d \in Objects
      BY <1>0, <1>k, <2>1, <3>1, Start0 DEF Refs
    <3>3. Live(d)
      BY <1>f, <2>1, <3>2
    <3> QED
      BY <1>k, <2>0, <3>1, <3>3 DEF Lists
  <2>3. CASE u = w
    <3>1. d \in Objects
      <4>1. unlinked[w] \in Objects \cup {NoObj}
        BY Start0 DEF Refs
      <4> QED
        BY <1>0, <1>k, <2>0, <2>1, <2>3, <4>1 DEF SnapStep, OwnMoves
    <3>2. Live(d)
      BY <1>f, <2>1, <3>1
    <3>3. d[1] = xid[w]
      BY <1>k, <2>0, <2>3, <3>2 DEF SnapStep, OwnMoves, Lists
    <3>4. owner'[Ctx(d[1])] = d[1] /\ Known(d[1]) /\ d[1] # NoXid
      BY <1>k, <2>1, <3>2, Kinds, ContextsAssumption DEF Live, Known, Issued, NoXid
    <3>5. xid'[w] = xid[w]
      BY <3>3, <3>4 DEF SnapStep, OwnMoves, Own
    <3> QED
      BY <2>0, <2>3, <3>3, <3>5
  <2> QED
    BY <2>2, <2>3
<1> QED
  BY <1>1, <1>2 DEF Lists

(* What a reader has in hand stays as it is under the steps of others. *)
LEMMA InHandKeeps ==
    ASSUME IInv, IInv', JInv, NEW w \in Workers, SnapStep(w), NEW u \in Workers,
           Began(u), xid'[u] = xid[u], begin'[u] = begin[u], NEW v \in Objects \cup {NoObj}, InHand(u, v)
    PROVE  InHand(u, v)'
<1> SUFFICES ASSUME Live(v)', v[1] # xid'[u], Before(u, v[1])'
             PROVE  v \in Range(head)' \/ cstate'[Ctx(v[1])] = "ABRTD"
  BY DEF InHand
<1>k. Names /\ Stamps /\ BeginOf(u) /\ NoObj \notin Objects'
  BY NoNull DEF IInv, JInv
<1>0. PICK c : c = Ctx(v[1])
  OBVIOUS
<1>1. v \in Objects /\ Live(v)
  <2>1. v \in Objects
    BY <1>k DEF Live
  <2> QED
    BY <2>1, Facts
<1>2. c \in Contexts /\ v[1] # NoXid /\ owner[c] = v[1] /\ owner'[c] = v[1] /\ ~IsLog(v)
  <2>1. Known(v[1])
    BY <1>k, <1>1, Kinds DEF Live
  <2> QED
    BY <1>0, <1>1, <2>1, Facts, StampFacts DEF Live, IsLog
<1>3. begin[u] <= lsn + 1 /\ begin[u] \in Nat /\ lsn \in Nat
  BY SMTT(30), SMTT(60), <1>k DEF BeginOf, IInv, Types, ContextTypes
<1>4. 0 < cend'[c] /\ cend'[c] < begin[u]
  BY <1>0 DEF Before
<1>5. cend'[c] = cend[c]
  <2>1. cend'[c] = cend[c] \/ cend'[c] = 0 \/ (cend'[c] = lsn' /\ lsn + 1 < lsn')
    BY <1>2 DEF SnapStep, ContextMoves
  <2>2. lsn' \in Nat
    BY DEF IInv, Types, ContextTypes
  <2> QED
    BY SMTT(30), SMTT(60), <1>3, <1>4, <2>1, <2>2
<1>6. v \in Range(head) \/ cstate[c] = "ABRTD"
  BY <1>0, <1>1, <1>4, <1>5 DEF InHand, Before
<1>7. CASE cstate[c] = "ABRTD"
  BY <1>0, <1>2, <1>7 DEF SnapStep, ContextMoves
<1>8. ASSUME v \in Range(head), v \notin Range(head)' PROVE cstate'[c] = "ABRTD"
  <2>1. v[1] = xid[w] /\ (cend[Own(w)] = 0 \/ cstate'[Own(w)] = "ABRTD")
    BY <1>1, <1>2, <1>8 DEF SnapStep, StoreMoves
  <2>2. Own(w) = c
    BY <1>0, <2>1 DEF Own
  <2> QED
    BY SMTT(30), SMTT(60), <1>4, <1>5, <2>1, <2>2
<1> QED
  BY <1>0, <1>6, <1>7, <1>8

(* A version that is old to a transaction stays so. *)
LEMMA OldKeeps ==
    ASSUME IInv, IInv', JInv, NEW w \in Workers, SnapStep(w), NEW u \in Workers,
           xid'[u] = xid[u], begin'[u] = begin[u], NEW v \in Objects, Old(u, v)
    PROVE  v \in Objects' /\ Old(u, v)'
<1>1. v \in Objects'
  BY DEF SnapStep, StoreMoves
<1>2. CASE v[1] = xid[u]
  BY <1>1, <1>2 DEF Old
<1>3. CASE IsLog(v) /\ clsn[v].lsn < begin[u]
  BY <1>1, <1>3, Facts DEF Old
<1>4. CASE v[1] \in Issued /\ Epoch(v[1]) < gen[Ctx(v[1])]
  <2>1. Ctx(v[1]) \in Contexts /\ Epoch(v[1]) \in Nat
    BY <1>4 DEF Issued, Ctx, Epoch
  <2>2. gen[Ctx(v[1])] <= gen'[Ctx(v[1])] /\ gen[Ctx(v[1])] \in Nat /\ gen'[Ctx(v[1])] \in Nat
    BY <2>1, Facts
  <2>3. Epoch(v[1]) < gen'[Ctx(v[1])]
    BY SMTT(30), SMTT(60), <1>4, <2>1, <2>2
  <2> QED
    BY <1>1, <1>4, <2>3 DEF Old
<1> QED
  BY <1>2, <1>3, <1>4 DEF Old

LEMMA VisitsKeep ==
    ASSUME IInv, IInv', JInv, NEW w \in Workers, SnapStep(w), NEW u \in Workers, u # w
    PROVE  Visits(u)'
<1>k. Visits(u) /\ Refs(u) /\ Names /\ Stamps
  BY Start0 DEF JInv
<1>0. /\ pc'[u] = pc[u] /\ cur'[u] = cur[u] /\ nxt'[u] = nxt[u] /\ holder'[u] = holder[u] /\ rc' = rc
      /\ xid'[u] = xid[u] /\ begin'[u] = begin[u] /\ reads'[u] = reads[u]
  BY DEF SnapStep, OthersMove
<1>1. PICK v, n, x : v = cur[u] /\ n = nxt[u] /\ x = holder[u].xid
  OBVIOUS
<1>2. v \in Objects \cup {NoObj} /\ n \in Objects \cup {NoObj}
  BY <1>k, <1>1 DEF Refs
<1>3. pc[u] \in {"next", "clsn", "ctx", "state", "owner"} => InHand(u, cur[u])'
  <2> SUFFICES ASSUME pc[u] \in {"next", "clsn", "ctx", "state", "owner"} PROVE InHand(u, v)'
    BY <1>0, <1>1
  <2>1. Began(u) /\ InHand(u, v)
    BY <1>k, <1>1 DEF Visits, Began
  <2> QED
    BY <1>0, <1>2, <2>1, InHandKeeps
<1>4. pc[u] \in {"clsn", "ctx", "state", "owner", "end"} => InHand(u, nxt[u])'
  <2> SUFFICES ASSUME pc[u] \in {"clsn", "ctx", "state", "owner", "end"} PROVE InHand(u, n)'
    BY <1>0, <1>1
  <2>1. Began(u) /\ InHand(u, n)
    BY <1>k, <1>1 DEF Visits, Began
  <2> QED
    BY <1>0, <1>2, <2>1, InHandKeeps
<1>5. ASSUME pc[u] = "end", clsn'[v] = Xid(x) PROVE ~Latest(x)' \/ begin[u] < cend'[Ctx(x)]
  <2>1. v \in Objects /\ x = v[1] /\ Known(x)
    BY <1>k, <1>1, <1>2, <1>5 DEF Refs, UsesCur, UsesOid, UsesHolder
  <2>2. clsn[v] = Xid(x)
    BY SMTT(30), SMTT(60), <1>5, <2>1, StampFacts DEF SnapStep, StoreMoves
  <2>3. ~Latest(x) \/ begin[u] < cend[Ctx(x)]
    BY <1>k, <1>1, <1>5, <2>2 DEF Visits
  <2>4. PICK c : c = Ctx(x)
    OBVIOUS
  <2>5. c \in Contexts /\ Epoch(x) \in Nat /\ Epoch(x) <= gen[c] /\ gen[c] \in Nat /\ gen'[c] \in Nat /\ gen[c] <= gen'[c]
    BY <2>1, <2>4, Facts
  <2>6. CASE ~Latest(x)
    BY SMTT(30), SMTT(60), <2>1, <2>4, <2>5, <2>6 DEF Latest, Known
  <2>7. CASE begin[u] < cend[c]
    <3>1. begin[u] <= lsn + 1 /\ begin[u] \in Nat /\ lsn \in Nat
      BY SMTT(30), SMTT(60), <1>5 DEF JInv, BeginOf, Began, IInv, Types, ContextTypes
    <3>2. begin[u] < cend'[c] \/ gen[c] < gen'[c]
      <4>1. cend'[c] = cend[c] \/ gen[c] < gen'[c] \/ (cend'[c] = lsn' /\ lsn + 1 < lsn')
        BY <2>5 DEF SnapStep, ContextMoves
      <4>2. lsn' \in Nat
        BY DEF IInv, Types, ContextTypes
      <4> QED
        BY SMTT(30), SMTT(60), <2>7, <3>1, <4>1, <4>2
    <3> QED
      BY SMTT(30), SMTT(60), <2>4, <2>5, <3>2 DEF Latest
  <2> QED
    BY <2>3, <2>4, <2>6, <2>7
<1>6. ASSUME pc[u] = "tuple", ~rc PROVE Old(u, v)'
  <2>1. v \in Objects /\ Old(u, v)
    BY <1>k, <1>1, <1>2, <1>6 DEF Visits, Refs, UsesCur, UsesOid
  <2> QED
    BY <1>0, <2>1, OldKeeps
<1>7. ASSUME ~rc, NEW r \in reads[u], r[2] # NoObj PROVE r[2] \in Objects' /\ Old(u, r[2])'
  <2>1. r[2] \in Objects /\ Old(u, r[2])
    BY <1>k, <1>7 DEF Visits
  <2> QED
    BY <1>0, <2>1, OldKeeps
<1>8. Old(u, cur[u])' <=> Old(u, v)'
  BY <1>0, <1>1
<1> QED
  BY <1>k, <1>0, <1>1, <1>3, <1>4, <1>5, <1>6, <1>7, <1>8 DEF Visits

(* So a step keeps the invariant if it keeps what concerns w. *)
LEMMA Joined ==
    ASSUME IInv, IInv', JInv, NEW w \in Workers, SnapStep(w), BeginOf(w)', EndOf(w)', Visits(w)' PROVE JInv'
<1>1. ASSUME NEW u \in Workers, u # w PROVE BeginOf(u)'
  <2>1. begin'[u] = begin[u] /\ (Began(u)' => Began(u))
    BY <1>1 DEF SnapStep, OthersMove, Began
  <2> QED
    BY <2>1, BeginsKeep
<1>2. Ends' /\ \A u \in Workers : EndOf(u)'
  BY EndsKeep
<1>3. Lists'
  BY ListsKeep
<1>4. \A u \in Workers : Visits(u)'
  BY VisitsKeep
<1> QED
  BY <1>1, <1>2, <1>3, <1>4 DEF JInv, SnapStep, OthersMove

-----------------------------------------------------------------------------
(* Steps that leave the store and the contexts alone. *)
Visiting == {"next", "clsn", "ctx", "state", "owner", "end", "tuple"}
Quiet(w) ==
    /\ OthersMove(w) /\ UNCHANGED <<lsn, owner, gen, cstate, cend, head, next, clsn, xid, begin, unlinked>>
    /\ pc[w] \notin {"idle", "ctor", "stamp", "exit"} /\ pc'[w] \notin {"idle", "ctor", "dealloc", "phantom", "exit"}
    /\ pc'[w] \in Unordered => pc[w] \in Unordered
    /\ pc'[w] = "stamp" => pc[w] = "phantom"

(* What w then has in hand. *)
Carries(w) ==
    /\ pc'[w] \in {"next", "clsn", "ctx", "state", "owner"} => InHand(w, cur'[w])
    /\ pc'[w] \in {"clsn", "ctx", "state", "owner", "end"} => InHand(w, nxt'[w])
    /\ pc'[w] = "end" /\ clsn[cur'[w]] = Xid(holder'[w].xid) =>
         ~Latest(holder'[w].xid) \/ begin[w] < cend[Ctx(holder'[w].xid)]
    /\ pc'[w] = "tuple" /\ ~rc => Old(w, cur'[w])
    /\ \A r \in reads'[w] : r \in reads[w] \/ r[2] = NoObj \/ (r[2] \in Objects /\ (rc \/ Old(w, r[2])))

LEMMA QuietStep ==
    ASSUME IInv, NEW w \in Workers, Quiet(w) PROVE SnapStep(w) /\ Objects' = Objects /\ Range(head)' = Range(head)
<1>1. ContextMoves(w)
  BY SMTT(30), SMTT(60) DEF Quiet, ContextMoves, IInv, Types, ContextTypes
<1>2. Objects' = Objects /\ Range(head)' = Range(head)
  BY DEF Quiet, Objects
<1>3. StoreMoves(w)
  BY <1>2 DEF Quiet, StoreMoves
<1>4. OwnMoves(w)
  BY DEF Quiet, OwnMoves
<1> QED
  BY <1>1, <1>2, <1>3, <1>4 DEF Quiet, SnapStep

LEMMA Carry ==
    ASSUME IInv, IInv', JInv, NEW w \in Workers, Quiet(w), Carries(w) PROVE JInv'
<1>1. SnapStep(w) /\ Objects' = Objects /\ Range(head)' = Range(head)
  BY QuietStep
<1>2. BeginOf(w)'
  BY <1>1, BeginsKeep DEF Quiet, Began
<1>3. EndOf(w)'
  BY DEF Quiet, JInv, EndOf, Own
<1>4. UNCHANGED <<rc, lsn, owner, gen, cstate, cend, head, next, clsn, xid, begin>>
  BY DEF Quiet, OthersMove
<1>5. PICK v, n, x, l : v = cur'[w] /\ n = nxt'[w] /\ x = holder'[w].xid /\ l = pc'[w]
  OBVIOUS
<1>6. \A u : (InHand(w, u)' <=> InHand(w, u)) /\ (Old(w, u)' <=> Old(w, u))
  BY ZenonT(60), ZenonT(90), <1>1, <1>4 DEF InHand, Live, Before, Old, IsLog
<1>7. Latest(x)' <=> Latest(x)
  BY <1>4 DEF Latest
<1>8. ASSUME ~rc, NEW r \in reads'[w], r[2] # NoObj PROVE r[2] \in Objects' /\ Old(w, r[2])'
  BY <1>1, <1>6, <1>8 DEF Carries, JInv, Visits
<1>9. l \notin {"idle", "ctor", "dealloc"}
  BY <1>5 DEF Quiet
<1>10. /\ l \in {"next", "clsn", "ctx", "state", "owner"} => InHand(w, v)
       /\ l \in {"clsn", "ctx", "state", "owner", "end"} => InHand(w, n)
       /\ l = "end" /\ clsn[v] = Xid(x) => ~Latest(x) \/ begin[w] < cend[Ctx(x)]
       /\ l = "tuple" /\ ~rc => Old(w, v)
  BY <1>5 DEF Carries
<1>11. Visits(w)'
  BY <1>4, <1>5, <1>6, <1>7, <1>8, <1>9, <1>10 DEF Visits
<1> QED
  BY <1>1, <1>2, <1>3, <1>11, Joined

(* A step that visits no version. *)
LEMMA Plainly ==
    ASSUME IInv, IInv', JInv, NEW w \in Workers, Quiet(w), pc'[w] \notin Visiting,
           \A r \in reads'[w] : r \in reads[w] \/ r[2] = NoObj
    PROVE  JInv'
BY Carry DEF Carries, Visiting

(* What was read stays old, whatever the step. *)
LEMMA PlainVisits ==
    ASSUME IInv, IInv', JInv, NEW w \in Workers, SnapStep(w), xid'[w] = xid[w], begin'[w] = begin[w],
           pc'[w] \notin Visiting \cup {"idle", "ctor"}, reads'[w] = reads[w],
           pc'[w] = "dealloc" => cur'[w][1] = xid[w]
    PROVE  Visits(w)'
<1>1. ASSUME ~rc, NEW r \in reads[w], r[2] # NoObj PROVE r[2] \in Objects' /\ Old(w, r[2])'
  <2>1. r[2] \in Objects /\ Old(w, r[2])
    BY <1>1 DEF JInv, Visits
  <2> QED
    BY <2>1, OldKeeps
<1>2. rc' = rc
  BY DEF SnapStep, OthersMove
<1> QED
  BY <1>1, <1>2 DEF Visits, Visiting

LEMMA Frames ==
    ASSUME IInv, JInv
    PROVE  /\ pc \in [Workers -> Labels] /\ cur \in [Workers -> Ids] /\ nxt \in [Workers -> Ids]
           /\ holder \in [Workers -> HolderType] /\ xid \in [Workers -> Xids] /\ begin \in [Workers -> Nat]
           /\ unlinked \in [Workers -> Ids] /\ DOMAIN reads = Workers
BY DEF IInv, Types, LocalTypes, TxnTypes, JInv

LEMMA SearchJoins ==
    ASSUME IInv, IInv', JInv, NEW w \in Workers,
           (\E k \in Keys : Search(w, "read", k) \/ Search(w, "put", k)) \/ Upsert(w)
    PROVE  JInv'
<1>k. pc \in [Workers -> Labels]
  BY Frames
<1>0. /\ pc[w] \in {"active", "upsert"}
      /\ \E l \in {"missing", "get"} : pc' = [pc EXCEPT ![w] = l]
      /\ UNCHANGED <<rc, lsn, owner, gen, cstate, cend, head, next, clsn, xid, begin, unlinked, cur, nxt, holder, reads>>
  BY DEF Search, Upsert, LookUp, Goto, shared, contexts, store, txn
<1>1. pc'[w] \in {"missing", "get"} /\ \A u \in Workers : u # w => pc'[u] = pc[u]
  BY <1>k, <1>0
<1>2. Quiet(w)
  BY <1>0, <1>1 DEF Quiet, OthersMove, Unordered, Labels, Undoing
<1> QED
  BY <1>0, <1>1, <1>2, Plainly DEF Visiting

LEMMA MissingJoins ==
    ASSUME IInv, IInv', JInv, NEW w \in Workers, Missing(w) PROVE JInv'
<1>k. /\ pc \in [Workers -> Labels] /\ cur \in [Workers -> Ids] /\ nxt \in [Workers -> Ids]
      /\ holder \in [Workers -> HolderType] /\ DOMAIN reads = Workers
  BY Frames
<1>0. /\ pc[w] = "missing" /\ Return(w)
      /\ \E l \in {"active", "abort"} : pc' = [pc EXCEPT ![w] = l]
      /\ reads' = reads \/ reads' = [reads EXCEPT ![w] = reads[w] \cup {<<op[w].key, NoObj>>}]
      /\ UNCHANGED <<rc, lsn, owner, gen, cstate, cend, head, next, clsn, xid, begin, unlinked>>
  BY DEF Missing, Goto, contexts, store
<1>1. pc'[w] \in {"active", "abort"} /\ \A u \in Workers : u # w => pc'[u] = pc[u]
  BY <1>k, <1>0
<1>2. \A u \in Workers : u # w => cur'[u] = cur[u] /\ nxt'[u] = nxt[u] /\ holder'[u] = holder[u]
  BY <1>k, <1>0 DEF Return
<1>3. /\ DOMAIN reads' = DOMAIN reads /\ \A u \in Workers : u # w => reads'[u] = reads[u]
      /\ \A r \in reads'[w] : r \in reads[w] \/ r[2] = NoObj
  BY SMTT(30), SMTT(60), <1>k, <1>0
<1>4. Quiet(w)
  BY <1>0, <1>1, <1>2, <1>3 DEF Quiet, OthersMove, Unordered, Labels, Undoing
<1> QED
  BY <1>1, <1>3, <1>4, Plainly DEF Visiting

(* The reader takes what the array holds: the head of a chain. *)
LEMMA GetHeadJoins ==
    ASSUME IInv, IInv', JInv, NEW w \in Workers, GetHead(w) PROVE JInv'
<1>k. pc \in [Workers -> Labels] /\ cur \in [Workers -> Ids] /\ op[w].oid \in Oids /\ StoreTypes
  BY Frames, Start0 DEF GetHead, Refs, UsesOid
<1>0. /\ pc[w] = "get" /\ cur' = [cur EXCEPT ![w] = head[op[w].oid]]
      /\ \E l \in {"missing", "next"} : pc' = [pc EXCEPT ![w] = l]
      /\ UNCHANGED <<rc, lsn, owner, gen, cstate, cend, head, next, clsn, xid, begin, unlinked, nxt, holder, reads>>
  BY DEF GetHead, Goto, shared, contexts, store, txn
<1>1. pc'[w] \in {"missing", "next"} /\ \A u \in Workers : u # w => pc'[u] = pc[u] /\ cur'[u] = cur[u]
  BY <1>k, <1>0
<1>2. Quiet(w)
  BY <1>0, <1>1 DEF Quiet, OthersMove, Unordered, Labels, Undoing
<1>3. cur'[w] \in Range(head)
  BY <1>k, <1>0, Entries
<1>4. Carries(w)
  BY <1>0, <1>1, <1>3 DEF Carries, InHand
<1> QED
  BY <1>2, <1>4, Carry

(* Below a head or a committed version there are committed ones only, so   *)
(* a live successor means that the version in hand is being undone.        *)
LEMMA GetNextJoins ==
    ASSUME IInv, IInv', JInv, NEW w \in Workers, GetNext(w) PROVE JInv'
<1>k. pc \in [Workers -> Labels] /\ nxt \in [Workers -> Ids]
  BY Frames
<1>0. /\ pc[w] = "next" /\ nxt' = [nxt EXCEPT ![w] = next[cur[w]]] /\ pc' = [pc EXCEPT ![w] = "clsn"]
      /\ UNCHANGED <<rc, lsn, owner, gen, cstate, cend, head, next, clsn, xid, begin, unlinked, cur, holder, reads>>
  BY DEF GetNext, Goto, shared, contexts, store, txn
<1>1. pc'[w] = "clsn" /\ nxt'[w] = next[cur[w]] /\ \A u \in Workers : u # w => pc'[u] = pc[u] /\ nxt'[u] = nxt[u]
  BY <1>k, <1>0
<1>2. Quiet(w)
  BY <1>0, <1>1 DEF Quiet, OthersMove, Unordered, Labels, Undoing
<1>3. PICK v, d : v = cur[w] /\ d = next[v]
  OBVIOUS
<1>4. v \in Objects /\ InHand(w, v) /\ Names /\ Stamps /\ ChainOrder /\ NoObj \notin Objects /\ Lists
  BY <1>0, <1>3, Start0 DEF UsesCur, UsesOid, JInv, Visits
<1>5. InHand(w, d)
  <2> SUFFICES ASSUME Live(d), d[1] # xid[w], Before(w, d[1]) PROVE cstate[Ctx(d[1])] = "ABRTD"
    BY DEF InHand
  <2>1. v[1] = d[1] /\ d # NoObj /\ ~IsLog(d) /\ owner[Ctx(v[1])] = v[1]
    BY <1>3, <1>4, StampFacts DEF Live, Lists, IsLog
  <2>2. ~IsLog(v) /\ v \notin Range(head)
    BY <1>3, <1>4, <2>1 DEF ChainOrder
  <2>3. CASE clsn[v] = Xid(v[1])
    BY <1>4, <2>1, <2>2, <2>3 DEF InHand, Live
  <2>4. CASE clsn[v] = NullPtr
    BY <1>4, <2>1, <2>4, StampFacts DEF Stamps, Stamped
  <2> QED
    BY <1>4, <2>2, <2>3, <2>4, Kinds DEF Stamps, Stamped, IsLog
<1>6. cur'[w] = v /\ nxt'[w] = d
  BY <1>0, <1>1, <1>3
<1>7. Carries(w)
  BY <1>0, <1>1, <1>4, <1>5, <1>6 DEF Carries
<1> QED
  BY <1>2, <1>7, Carry

(* The ends of a visit: the search goes on, starts over, or has found an   *)
(* old version.                                                            *)
LEMMA VisitEndsJoin ==
    ASSUME IInv, IInv', JInv, NEW w \in Workers, pc[w] \in {"clsn", "owner", "end"},
           UNCHANGED <<rc, lsn, owner, gen, cstate, cend, head, next, clsn, xid, begin, unlinked, nxt, holder, reads>>,
           StartOver(w) \/ Advance(w) \/ (Found(w) /\ (rc \/ Old(w, cur[w])))
    PROVE  JInv'
<1>k. pc \in [Workers -> Labels] /\ cur \in [Workers -> Ids] /\ InHand(w, nxt[w])
  BY Frames DEF JInv, Visits
<1>0. /\ \E l \in {"get", "tuple", "put", "missing", "next"} : pc' = [pc EXCEPT ![w] = l]
      /\ cur' = cur \/ cur' = [cur EXCEPT ![w] = nxt[w]]
  BY DEF StartOver, Advance, Found, Goto, Successor
<1>1. pc'[w] \in {"get", "tuple", "put", "missing", "next"} /\ \A u \in Workers : u # w => pc'[u] = pc[u] /\ cur'[u] = cur[u]
  BY <1>k, <1>0
<1>2. Quiet(w)
  BY <1>1 DEF Quiet, OthersMove, Unordered, Labels, Undoing
<1>3. pc'[w] = "next" => cur'[w] = nxt[w]
  BY <1>k DEF StartOver, Advance, Found, Goto, Successor
<1>4. pc'[w] = "tuple" => rc \/ Old(w, cur'[w])
  BY <1>k DEF StartOver, Advance, Found, Goto, Successor
<1>5. Carries(w)
  BY <1>k, <1>1, <1>3, <1>4 DEF Carries
<1> QED
  BY <1>2, <1>5, Carry

(* A log stamp is never the begin stamp, so that "not after" is "before".  *)
LEMMA GetClsnJoins ==
    ASSUME IInv, IInv', JInv, NEW w \in Workers, GetClsn(w) PROVE JInv'
<1>k. /\ pc \in [Workers -> Labels] /\ holder \in [Workers -> HolderType] /\ BeginOf(w) /\ Visits(w)
      /\ Names /\ Stamps /\ begin[w] \in Nat
  BY Frames DEF JInv, IInv
<1>0. /\ pc[w] = "clsn" /\ UNCHANGED <<rc, lsn, owner, gen, cstate, cend, head, next, clsn, xid, begin, unlinked, nxt, reads>>
  BY DEF GetClsn, shared, contexts, store, txn
<1>1. cur[w] \in Objects /\ Began(w)
  BY <1>0, Start0 DEF UsesCur, UsesOid, Began
<1>2. CASE StartOver(w) /\ holder' = holder
  BY <1>0, <1>2, VisitEndsJoin
<1>3. CASE Advance(w) /\ holder' = holder
  BY <1>0, <1>3, VisitEndsJoin
<1>4. CASE Found(w) /\ holder' = holder /\ clsn[cur[w]].asi = "LOG" /\ VisibleLog(w, clsn[cur[w]].lsn)
  <2>1. rc \/ Old(w, cur[w])
    BY SMTT(30), SMTT(60), <1>k, <1>1, <1>4, Kinds DEF VisibleLog, Old, BeginOf
  <2> QED
    BY <1>0, <1>4, <2>1, VisitEndsJoin
<1>5. CASE Found(w) /\ holder' = holder /\ clsn[cur[w]] = Xid(xid[w])
  <2>1. Old(w, cur[w])
    BY <1>k, <1>1, <1>5, Kinds DEF Old
  <2> QED
    BY <1>0, <1>5, <2>1, VisitEndsJoin
<1>6. CASE pc' = [pc EXCEPT ![w] = "ctx"] /\ cur' = cur /\ holder' = [holder EXCEPT ![w].xid = clsn[cur[w]].xid]
  <2>1. pc'[w] = "ctx" /\ \A u \in Workers : u # w => pc'[u] = pc[u] /\ holder'[u] = holder[u]
    BY <1>k, <1>6
  <2>2. Quiet(w)
    BY <1>0, <1>6, <2>1 DEF Quiet, OthersMove, Unordered, Labels, Undoing
  <2>3. Carries(w)
    BY <1>k, <1>0, <1>6, <2>1 DEF Carries, Visits
  <2> QED
    BY <2>2, <2>3, Carry
<1> QED
  BY <1>2, <1>3, <1>4, <1>5, <1>6 DEF GetClsn, Goto

LEMMA ContextJoins ==
    ASSUME IInv, IInv', JInv, NEW w \in Workers, GetContext(w) \/ GetState(w) PROVE JInv'
<1>k. pc \in [Workers -> Labels] /\ holder \in [Workers -> HolderType] /\ Visits(w)
  BY Frames DEF JInv
<1>0. /\ pc[w] \in {"ctx", "state"} /\ \E l \in {"get", "state", "owner"} : pc' = [pc EXCEPT ![w] = l]
      /\ holder' = holder \/ holder' = [holder EXCEPT ![w].state = cstate[Ctx(holder[w].xid)]]
      /\ UNCHANGED <<rc, lsn, owner, gen, cstate, cend, head, next, clsn, xid, begin, unlinked, cur, nxt, reads>>
  BY DEF GetContext, GetState, Goto, shared, contexts, store, txn, locals
<1>1. pc'[w] \in {"get", "state", "owner"} /\ \A u \in Workers : u # w => pc'[u] = pc[u] /\ holder'[u] = holder[u]
  BY <1>k, <1>0
<1>2. Quiet(w)
  BY <1>0, <1>1 DEF Quiet, OthersMove, Unordered, Labels, Undoing
<1>3. Carries(w)
  BY <1>k, <1>0, <1>1 DEF Carries, Visits
<1> QED
  BY <1>2, <1>3, Carry

(* A version with its creator's XID whose creator has committed is in no   *)
(* chain, so that the creator was not ordered before the reader began.     *)
LEMMA GetOwnerJoins ==
    ASSUME IInv, IInv', JInv, NEW w \in Workers, GetOwner(w) PROVE JInv'
<1>k. /\ pc \in [Workers -> Labels] /\ Visits(w) /\ BeginOf(w) /\ Ends /\ Names /\ Stamps /\ Outcome(w) /\ Refs(w) /\ Reader(w)
      /\ ContextTypes /\ begin[w] \in Nat
  BY Frames, Start0 DEF JInv
<1>0. /\ pc[w] = "owner"
      /\ UNCHANGED <<rc, lsn, owner, gen, cstate, cend, head, next, clsn, xid, begin, unlinked, nxt, holder, reads>>
  BY DEF GetOwner, shared, contexts, store, txn
<1>1. CASE StartOver(w) \/ Advance(w) \/ (Found(w) /\ rc)
  BY <1>0, <1>1, VisitEndsJoin
<1>2. CASE Verified(w) /\ holder[w].state = "CMMTD" /\ pc' = [pc EXCEPT ![w] = "end"] /\ cur' = cur
  <2>0. PICK v, x, c : v = cur[w] /\ x = holder[w].xid /\ c = Ctx(x)
    OBVIOUS
  <2>1. v \in Objects /\ x = v[1] /\ Known(x) /\ owner[c] = x /\ cstate[c] = "CMMTD"
    BY <1>k, <1>0, <1>2, <2>0, Start0 DEF Refs, Reader, UsesHolder, UsesCur, UsesOid, Verified
  <2>2. IsLog(v) \/ v \notin Range(head)
    BY <1>0, <1>2, <2>0, Verdict
  <2>3. x # xid[w]
    <3>1. x = xid[w] => cstate[Own(w)] = "CMMTD"
      BY <2>0, <2>1 DEF Own
    <3> QED
      BY <1>k, <1>0, <3>1 DEF Outcome
  <2>4. c \in Contexts /\ cend[c] \in Nat /\ cend[c] > 0 /\ cend[c] # begin[w]
    BY <1>k, <1>0, <2>0, <2>1 DEF Known, Issued, Ctx, Ends, BeginOf, Began, ContextTypes
  <2>5. ASSUME clsn[v] = Xid(x) PROVE begin[w] < cend[c]
    <3>1. Live(v) /\ ~IsLog(v) /\ InHand(w, v)
      BY <1>k, <1>0, <2>0, <2>1, <2>5, StampFacts DEF Live, IsLog, Visits
    <3>2. ~Before(w, x)
      BY <2>0, <2>1, <2>2, <2>3, <3>1 DEF InHand
    <3> QED
      BY SMTT(30), SMTT(60), <1>k, <2>0, <2>4, <3>2 DEF Before
  <2>6. pc'[w] = "end" /\ \A u \in Workers : u # w => pc'[u] = pc[u]
    BY <1>k, <1>2
  <2>7. Quiet(w)
    BY <1>0, <1>2, <2>6 DEF Quiet, OthersMove, Unordered, Labels, Undoing
  <2>8. Carries(w)
    BY <1>k, <1>0, <1>2, <2>0, <2>5, <2>6 DEF Carries, Visits
  <2> QED
    BY <2>7, <2>8, Carry
<1> QED
  BY <1>1, <1>2 DEF GetOwner, Goto

(* The end stamp read is the creator's, or its context has been issued     *)
(* again.                                                                  *)
LEMMA GetEndJoins ==
    ASSUME IInv, IInv', JInv, NEW w \in Workers, GetEnd(w) PROVE JInv'
<1>k. Visits(w) /\ Ends /\ Refs(w) /\ Reader(w) /\ ContextTypes /\ begin[w] \in Nat
  BY Frames, Start0 DEF JInv
<1>0. /\ pc[w] = "end"
      /\ UNCHANGED <<rc, lsn, owner, gen, cstate, cend, head, next, clsn, xid, begin, unlinked, nxt, holder, reads>>
  BY DEF GetEnd, shared, contexts, store, txn
<1>1. CASE Advance(w)
  BY <1>0, <1>1, VisitEndsJoin
<1>2. CASE Found(w) /\ VisibleContext(w, cend[Ctx(holder[w].xid)])
  <2>0. PICK v, x, c : v = cur[w] /\ x = holder[w].xid /\ c = Ctx(x)
    OBVIOUS
  <2>1. /\ v \in Objects /\ x = v[1] /\ Known(x) /\ cend[c] < begin[w]
        /\ IsLog(v) \/ clsn[v] = Xid(x)
    BY <1>k, <1>0, <1>2, <2>0, Start0 DEF Refs, Reader, ReadsCommitted, UsesHolder, UsesCur, UsesOid, VisibleContext
  <2>2. c \in Contexts /\ cend[c] \in Nat /\ gen[c] \in Nat /\ Epoch(x) \in Nat /\ Epoch(x) <= gen[c] /\ x \in Issued
    BY <1>k, <2>0, <2>1 DEF Known, Issued, Ctx, Epoch, ContextTypes
  <2>3. ASSUME ~Latest(x) PROVE Old(w, v)
    <3>1. Epoch(x) < gen[c]
      BY SMTT(30), SMTT(60), <2>0, <2>2, <2>3 DEF Latest
    <3> QED
      BY <2>0, <2>1, <2>2, <3>1 DEF Old
  <2>4. ASSUME Latest(x) PROVE Old(w, v)
    <3>1. clsn[v] # Xid(x)
      BY SMTT(30), SMTT(60), <1>k, <1>0, <2>0, <2>1, <2>2, <2>4 DEF Visits
    <3>2. IsLog(v) /\ clsn[v].lsn = cend[c]
      BY <1>k, <2>0, <2>1, <2>4, <3>1 DEF Ends
    <3> QED
      BY <2>1, <3>2 DEF Old
  <2>5. Old(w, cur[w])
    BY <2>0, <2>3, <2>4
  <2> QED
    BY <1>0, <1>2, <2>5, VisitEndsJoin
<1> QED
  BY <1>1, <1>2 DEF GetEnd

LEMMA ReadTupleJoins ==
    ASSUME IInv, IInv', JInv, NEW w \in Workers, ReadTuple(w) PROVE JInv'
<1>k. /\ pc \in [Workers -> Labels] /\ cur \in [Workers -> Ids] /\ nxt \in [Workers -> Ids]
      /\ holder \in [Workers -> HolderType] /\ DOMAIN reads = Workers /\ Visits(w)
  BY Frames DEF JInv
<1>0. /\ pc[w] = "tuple" /\ Return(w) /\ pc' = [pc EXCEPT ![w] = "active"]
      /\ reads' = [reads EXCEPT ![w] = reads[w] \cup {<<op[w].key, cur[w]>>}]
      /\ UNCHANGED <<rc, lsn, owner, gen, cstate, cend, head, next, clsn, xid, begin, unlinked>>
  BY DEF ReadTuple, Goto, contexts, store, txn
<1>1. pc'[w] = "active" /\ \A u \in Workers : u # w => pc'[u] = pc[u]
  BY <1>k, <1>0
<1>2. \A u \in Workers : u # w => cur'[u] = cur[u] /\ nxt'[u] = nxt[u] /\ holder'[u] = holder[u]
  BY <1>k, <1>0 DEF Return
<1>3. /\ DOMAIN reads' = DOMAIN reads /\ \A u \in Workers : u # w => reads'[u] = reads[u]
      /\ \A r \in reads'[w] : r \in reads[w] \/ r[2] = cur[w]
  BY SMTT(30), SMTT(60), <1>k, <1>0
<1>4. Quiet(w)
  BY <1>0, <1>1, <1>2, <1>3 DEF Quiet, OthersMove, Unordered, Labels, Undoing
<1>5. cur[w] \in Objects /\ (rc \/ Old(w, cur[w]))
  BY <1>k, <1>0, Start0 DEF Visits, UsesCur, UsesOid
<1>6. Carries(w)
  BY <1>1, <1>3, <1>5 DEF Carries
<1> QED
  BY <1>4, <1>6, Carry

(* The steps of an update that examine the head. *)
LEMMA PutJoins ==
    ASSUME IInv, IInv', JInv, NEW w \in Workers,
           PutHead(w) \/ PutClsn(w) \/ PutContext(w) \/ PutState(w) \/ PutOwner(w) \/ CheckPhantom(w)
    PROVE  JInv'
<1>k. pc \in [Workers -> Labels] /\ cur \in [Workers -> Ids] /\ holder \in [Workers -> HolderType]
  BY Frames
<1> DEFINE From == {"put", "p_clsn", "p_ctx", "p_state", "p_owner"}
           To == From \cup {"install", "overwrite", "abort"}
<1>0. /\ \/ pc[w] \in From /\ \E l \in To : pc' = [pc EXCEPT ![w] = l]
         \/ pc[w] = "phantom" /\ \E l \in {"stamp", "abort"} : pc' = [pc EXCEPT ![w] = l]
      /\ cur' = cur \/ \E v : cur' = [cur EXCEPT ![w] = v]
      /\ UNCHANGED <<rc, lsn, owner, gen, cstate, cend, head, next, clsn, xid, begin, unlinked, nxt, reads>>
  BY DEF PutHead, PutClsn, PutContext, PutState, PutOwner, CheckPhantom, Goto, shared, contexts, store, txn, locals
<1>1. \/ holder' = holder
      \/ \E x : holder' = [holder EXCEPT ![w].xid = x]
      \/ \E s : holder' = [holder EXCEPT ![w].state = s]
  BY DEF PutHead, PutClsn, PutContext, PutState, PutOwner, CheckPhantom, locals
<1>2. \A u \in Workers : u # w => pc'[u] = pc[u] /\ cur'[u] = cur[u] /\ holder'[u] = holder[u]
  BY <1>k, <1>0, <1>1
<1>3. (pc[w] \in From /\ pc'[w] \in To) \/ (pc[w] = "phantom" /\ pc'[w] \in {"stamp", "abort"})
  BY <1>k, <1>0
<1>4. Quiet(w)
  BY <1>0, <1>2, <1>3 DEF Quiet, OthersMove, Unordered, Labels, Undoing
<1> QED
  BY <1>0, <1>3, <1>4, Plainly DEF Visiting

LEMMA InsertIfAbsentJoins ==
    ASSUME IInv, IInv', JInv, NEW w \in Workers, InsertIfAbsent(w) PROVE JInv'
<1>k. /\ pc \in [Workers -> Labels] /\ cur \in [Workers -> Ids] /\ nxt \in [Workers -> Ids]
      /\ holder \in [Workers -> HolderType]
  BY Frames
<1>0. /\ Return(w) \/ UNCHANGED <<cur, nxt, holder>>
      /\ pc[w] = "insert" /\ \E l \in {"active", "retract"} : pc' = [pc EXCEPT ![w] = l]
      /\ UNCHANGED <<rc, lsn, owner, gen, cstate, cend, head, next, clsn, xid, begin, unlinked, reads>>
  BY DEF InsertIfAbsent, Goto, contexts, store, locals
<1>1. pc'[w] \in {"active", "retract"} /\ \A u \in Workers : u # w => pc'[u] = pc[u]
  BY <1>k, <1>0
<1>2. \A u \in Workers : u # w => cur'[u] = cur[u] /\ nxt'[u] = nxt[u] /\ holder'[u] = holder[u]
  BY <1>k, <1>0 DEF Return
<1>3. Quiet(w)
  BY <1>0, <1>1, <1>2 DEF Quiet, OthersMove, Unordered, Labels, Undoing
<1> QED
  BY <1>0, <1>1, <1>3, Plainly DEF Visiting

-----------------------------------------------------------------------------
(* Steps on the contexts. *)
LEMMA XidAllocJoins ==
    ASSUME IInv, IInv', JInv, NEW w \in Workers, NEW c \in Contexts, XidAlloc(w, c) PROVE JInv'
<1>k. /\ pc \in [Workers -> Labels] /\ xid \in [Workers -> Xids] /\ ContextTypes /\ Holds(w) /\ Visits(w)
  BY Frames, Start0 DEF JInv
<1>0. /\ pc[w] = "idle" /\ owner[c] = NoXid /\ gen' = [gen EXCEPT ![c] = gen[c] + 4] /\ cend' = [cend EXCEPT ![c] = 0]
      /\ owner' = [owner EXCEPT ![c] = <<c, gen[c] + 4>>] /\ cstate' = [cstate EXCEPT ![c] = "ACTIVE"]
      /\ xid' = [xid EXCEPT ![w] = <<c, gen[c] + 4>>] /\ pc' = [pc EXCEPT ![w] = "ctor"]
      /\ UNCHANGED <<rc, lsn, head, next, clsn, begin, unlinked, cur, nxt, holder, reads>>
  BY DEF XidAlloc, Goto, store, locals
<1>1. pc'[w] = "ctor" /\ \A u \in Workers : u # w => pc'[u] = pc[u] /\ xid'[u] = xid[u]
  BY <1>k, <1>0
<1>2. xid[w] = NoXid /\ xid'[w] = <<c, gen[c] + 4>> /\ gen[c] \in Nat
  BY <1>k, <1>0 DEF Holds, ContextTypes
<1>3. cend'[c] = 0 /\ gen'[c] = gen[c] + 4 /\ cstate'[c] = "ACTIVE"
  BY <1>k, <1>0 DEF ContextTypes
<1>4. \A d \in Contexts : d # c => owner'[d] = owner[d] /\ cend'[d] = cend[d] /\ gen'[d] = gen[d] /\ cstate'[d] = cstate[d]
  BY <1>k, <1>0 DEF ContextTypes
<1>5. ContextMoves(w)
  BY SMTT(30), SMTT(60), <1>k, <1>0, <1>2, <1>3, <1>4 DEF ContextMoves, ContextTypes
<1>6. StoreMoves(w)
  BY <1>0 DEF StoreMoves, Objects
<1>7. OwnMoves(w)
  <2>1. xid'[w] \in Issued /\ gen[Ctx(xid'[w])] < Epoch(xid'[w])
    BY SMTT(30), SMTT(60), <1>2 DEF Issued, Ctx, Epoch
  <2> QED
    BY <1>0, <1>2, <2>1 DEF OwnMoves
<1>8. SnapStep(w)
  BY <1>0, <1>1, <1>5, <1>6, <1>7 DEF SnapStep, OthersMove
<1>9. BeginOf(w)' /\ EndOf(w)' /\ Visits(w)'
  <2>1. Own(w)' = c
    BY SMTT(30), SMTT(60), <1>2 DEF Own, Ctx
  <2> QED
    BY <1>k, <1>0, <1>1, <1>3, <2>1 DEF BeginOf, Began, EndOf, Visits
<1> QED
  BY <1>8, <1>9, Joined

(* The begin stamp is one past the end of the last block: no commit has it.*)
LEMMA SetBeginJoins ==
    ASSUME IInv, IInv', JInv, NEW w \in Workers, SetBegin(w) PROVE JInv'
<1>k. /\ pc \in [Workers -> Labels] /\ begin \in [Workers -> Nat] /\ ContextTypes /\ Owners /\ Names /\ Stamps
      /\ Visits(w) /\ EndOf(w)
  BY Frames, Start0 DEF JInv
<1>0. /\ pc[w] = "ctor" /\ begin' = [begin EXCEPT ![w] = lsn + 1] /\ pc' = [pc EXCEPT ![w] = "active"]
      /\ UNCHANGED <<rc, lsn, owner, gen, cstate, cend, head, next, clsn, xid, unlinked, cur, nxt, holder, reads>>
  BY DEF SetBegin, Goto, contexts, store, locals
<1>1. pc'[w] = "active" /\ begin'[w] = lsn + 1 /\ \A u \in Workers : u # w => pc'[u] = pc[u] /\ begin'[u] = begin[u]
  BY <1>k, <1>0
<1>2. ContextMoves(w) /\ StoreMoves(w) /\ OwnMoves(w)
  BY SMTT(30), SMTT(60), <1>k, <1>0 DEF ContextMoves, StoreMoves, OwnMoves, ContextTypes, Objects
<1>3. SnapStep(w)
  BY <1>0, <1>1, <1>2 DEF SnapStep, OthersMove
<1>4. BeginOf(w)'
  <2>1. lsn \in Nat /\ \A c \in Contexts : cend[c] \in Nat /\ cend[c] <= lsn
    BY <1>k DEF ContextTypes, Owners, Slot
  <2>2. \A v \in Objects : IsLog(v) => clsn[v].lsn \in 0..lsn
    BY <1>k, Kinds
  <2>3. Objects' = Objects /\ \A v : IsLog(v)' <=> IsLog(v)
    BY <1>0 DEF Objects, IsLog
  <2> QED
    BY SMTT(30), SMTT(60), <1>0, <1>1, <2>1, <2>2, <2>3 DEF BeginOf
<1>5. EndOf(w)' /\ Visits(w)'
  <2>1. cend'[Own(w)'] = 0 /\ reads'[w] = {}
    BY <1>k, <1>0 DEF EndOf, Visits, Own, Unordered, Labels, Undoing
  <2> QED
    BY <1>1, <2>1 DEF EndOf, Visits
<1> QED
  BY <1>3, <1>4, <1>5, Joined

(* commit() and abort_impl() on the transaction's own context; the only    *)
(* end stamp there is given is beyond every begin stamp.                   *)
LEMMA TurnJoins ==
    ASSUME IInv, IInv', JInv, NEW w \in Workers, CommitBegin(w) \/ PreCommit(w) \/ Committed(w) \/ AbortBegin(w)
    PROVE  JInv'
<1>k. /\ pc \in [Workers -> Labels] /\ cur \in [Workers -> Ids] /\ nxt \in [Workers -> Ids]
      /\ holder \in [Workers -> HolderType] /\ ContextTypes /\ Outcome(w) /\ EndOf(w)
  BY Frames, Start0 DEF JInv
<1>o. PICK o : o = Own(w)
  OBVIOUS
<1>0. /\ pc[w] \in {"active", "pre", "stamp", "abort"}
      /\ UNCHANGED <<rc, owner, gen, head, next, clsn, xid, begin, unlinked, reads>>
      /\ UNCHANGED <<cur, nxt, holder>> \/ Return(w)
  BY DEF CommitBegin, PreCommit, Committed, AbortBegin, contexts, store, txn, locals
<1>1. \/ /\ pc[w] = "active" /\ pc' = [pc EXCEPT ![w] = "pre"] /\ cstate' = [cstate EXCEPT ![o] = "COMMITTING"]
         /\ UNCHANGED <<lsn, cend>>
      \/ /\ pc[w] = "pre" /\ pc' = [pc EXCEPT ![w] = "phantom"] /\ cstate' = cstate
         /\ lsn' = lsn + 2 /\ cend' = [cend EXCEPT ![o] = lsn + 2]
      \/ /\ pc[w] = "stamp" /\ pc' = [pc EXCEPT ![w] = "exit"] /\ cstate' = [cstate EXCEPT ![o] = "CMMTD"]
         /\ UNCHANGED <<lsn, cend>>
      \/ /\ pc[w] \in {"active", "abort"} /\ pc' = [pc EXCEPT ![w] = "undo"] /\ cstate' = [cstate EXCEPT ![o] = "ABRTD"]
         /\ UNCHANGED <<lsn, cend>>
  BY <1>o DEF CommitBegin, PreCommit, Committed, AbortBegin, Goto, LogBlock
<1>2. o \in Contexts /\ cstate[o] # "ABRTD"
  BY <1>k, <1>o, <1>0, OwnApart DEF Outcome, Undoing
<1>3. \A u \in Workers : u # w => pc'[u] = pc[u] /\ cur'[u] = cur[u] /\ nxt'[u] = nxt[u] /\ holder'[u] = holder[u]
  BY <1>k, <1>0, <1>1 DEF Return
<1>4. \/ pc[w] = "active" /\ pc'[w] = "pre" /\ cend' = cend
      \/ pc[w] = "pre" /\ pc'[w] = "phantom" /\ cend'[o] = lsn + 2
      \/ pc[w] = "stamp" /\ pc'[w] = "exit" /\ cend' = cend
      \/ pc[w] \in {"active", "abort"} /\ pc'[w] = "undo" /\ cend' = cend
  BY <1>k, <1>1, <1>2 DEF ContextTypes
<1>5. lsn \in Nat /\ lsn <= lsn' /\ (pc[w] = "stamp" => cend[o] > 0)
  BY SMTT(30), SMTT(60), <1>k, <1>o, <1>1 DEF EndOf, ContextTypes
<1>6. \A c \in Contexts : c # o => cend'[c] = cend[c] /\ cstate'[c] = cstate[c]
  BY <1>k, <1>1 DEF ContextTypes
<1>7. ContextMoves(w)
  <2>1. \/ cend'[o] = cend[o]
        \/ cend'[o] = lsn' /\ lsn + 1 < lsn' /\ pc[w] = "pre"
    BY SMTT(30), SMTT(60), <1>k, <1>1, <1>2, <1>5 DEF ContextTypes
  <2>2. cstate'[o] = "CMMTD" => cend'[o] > 0 \/ (cstate[o] = "CMMTD" /\ cend'[o] = cend[o])
    BY SMTT(30), SMTT(60), <1>k, <1>1, <1>2, <1>5 DEF ContextTypes
  <2> QED
    BY <1>o, <1>0, <1>2, <1>5, <1>6, <2>1, <2>2 DEF ContextMoves
<1>8. StoreMoves(w) /\ OwnMoves(w)
  BY <1>0, <1>4 DEF StoreMoves, OwnMoves, Objects
<1>9. SnapStep(w)
  BY <1>0, <1>3, <1>7, <1>8 DEF SnapStep, OthersMove
<1>10. BeginOf(w)'
  BY <1>0, <1>9, BeginsKeep DEF Began
<1>11. EndOf(w)'
  <2>1. Own(w)' = o
    BY <1>o, <1>0 DEF Own
  <2> QED
    BY SMTT(30), SMTT(60), <1>k, <1>o, <1>4, <1>5, <2>1 DEF EndOf, Unordered, Labels, Undoing
<1>12. Visits(w)'
  BY <1>0, <1>4, <1>9, PlainVisits DEF Visiting
<1> QED
  BY <1>9, <1>10, <1>11, <1>12, Joined

LEMMA XidFreeJoins ==
    ASSUME IInv, IInv', JInv, NEW w \in Workers, XidFree(w) PROVE JInv'
<1>k. /\ pc \in [Workers -> Labels] /\ xid \in [Workers -> Xids] /\ begin \in [Workers -> Nat] /\ ContextTypes
      /\ DOMAIN reads = Workers
  BY Frames, Start0
<1>o. PICK o : o = Own(w)
  OBVIOUS
<1>0. /\ pc[w] # "idle" /\ owner' = [owner EXCEPT ![o] = NoXid] /\ xid' = [xid EXCEPT ![w] = NoXid]
      /\ begin' = [begin EXCEPT ![w] = 0] /\ reads' = [reads EXCEPT ![w] = {}] /\ pc' = [pc EXCEPT ![w] = "idle"]
      /\ UNCHANGED <<rc, lsn, gen, cstate, cend, head, next, clsn, unlinked, cur, nxt, holder>>
  BY <1>o DEF XidFree, Resolved, Goto, store, locals
<1>1. o \in Contexts
  BY <1>o, <1>0, OwnApart
<1>2. /\ pc'[w] = "idle" /\ xid'[w] = NoXid /\ reads'[w] = {} /\ DOMAIN reads' = DOMAIN reads
      /\ \A u \in Workers : u # w => pc'[u] = pc[u] /\ xid'[u] = xid[u] /\ begin'[u] = begin[u] /\ reads'[u] = reads[u]
  BY <1>k, <1>0
<1>3. owner'[o] = NoXid /\ \A c \in Contexts : c # o => owner'[c] = owner[c]
  BY <1>k, <1>0, <1>1 DEF ContextTypes
<1>4. ContextMoves(w)
  BY SMTT(30), SMTT(60), <1>k, <1>0, <1>3 DEF ContextMoves, ContextTypes
<1>5. StoreMoves(w) /\ OwnMoves(w)
  BY <1>o, <1>0, <1>2, <1>3 DEF StoreMoves, OwnMoves, Objects
<1>6. SnapStep(w)
  BY <1>0, <1>2, <1>4, <1>5 DEF SnapStep, OthersMove
<1>7. BeginOf(w)' /\ EndOf(w)' /\ Visits(w)'
  BY <1>2 DEF BeginOf, Began, EndOf, Unordered, Visits
<1> QED
  BY <1>6, <1>7, Joined

-----------------------------------------------------------------------------
(* Steps on the store. *)
Stores(w) ==
    /\ OthersMove(w) /\ UNCHANGED <<lsn, owner, gen, cstate, cend, xid, begin>>
    /\ StoreMoves(w) /\ reads'[w] = reads[w]
    /\ unlinked'[w] = unlinked[w] \/ (unlinked'[w] \in Objects /\ unlinked'[w][1] = xid[w])
    /\ pc[w] \notin {"idle", "ctor", "exit"} /\ pc'[w] \notin Visiting \cup {"idle", "ctor", "phantom", "exit"}
    /\ pc'[w] \in Unordered => pc[w] \in Unordered
    /\ pc'[w] = "stamp" <=> pc[w] = "stamp"
    /\ pc'[w] = "dealloc" => cur'[w][1] = xid[w]

LEMMA StoresJoin ==
    ASSUME IInv, IInv', JInv, NEW w \in Workers, Stores(w) PROVE JInv'
<1>1. ContextMoves(w)
  BY SMTT(30), SMTT(60) DEF Stores, ContextMoves, IInv, Types, ContextTypes
<1>2. SnapStep(w)
  BY <1>1 DEF Stores, SnapStep, OwnMoves
<1>3. BeginOf(w)'
  BY <1>2, BeginsKeep DEF Stores, Began
<1>4. EndOf(w)'
  BY DEF Stores, JInv, EndOf, Own
<1>5. Visits(w)'
  BY <1>2, PlainVisits DEF Stores
<1> QED
  BY <1>2, <1>3, <1>4, <1>5, Joined

(* A new version on top of a committed one, or in place of the             *)
(* transaction's own.                                                      *)
SnapCreates(w, o, s) ==
    /\ pc[w] # "idle" /\ Create(w, NewObj(w), s) /\ head' = [head EXCEPT ![o] = NewObj(w)]
    /\ s = NoObj \/ (s \in Objects /\ IsLog(s))
    /\ head[o] \in Objects => IsLog(head[o]) \/ head[o][1] = xid[w]

LEMMA CreateMoves ==
    ASSUME IInv, JInv, NEW w \in Workers, NEW o \in Oids, NEW s \in Ids, SnapCreates(w, o, s), pc[w] \in Unordered
    PROVE  StoreMoves(w)
<1>k. StoreTypes /\ cend[Own(w)] = 0
  BY Start0 DEF JInv, EndOf
<1>1. pc[w] # "idle" /\ Create(w, NewObj(w), s) /\ head' = [head EXCEPT ![o] = NewObj(w)]
  BY DEF SnapCreates
<1>2. PICK n : n = NewObj(w)
  OBVIOUS
<1>3. /\ n \notin Objects /\ n[1] = xid[w] /\ Objects' = Objects \cup {n}
      /\ \A v \in Objects : clsn'[v] = clsn[v] /\ next'[v] = next[v]
      /\ clsn'[n] = Xid(xid[w]) /\ next'[n] = s /\ StoreTypes'
      /\ head'[o] = n /\ \A p \in Oids : p # o => head'[p] = head[p]
  BY ZenonT(60), ZenonT(90), <1>1, <1>2, Created
<1>4. ASSUME NEW v \in Objects, v \in Range(head), v \notin Range(head)' PROVE IsLog(v) \/ v[1] = xid[w]
  <2>1. PICK p \in Oids : head[p] = v
    BY <1>k, <1>4, Entries
  <2>2. \A q \in Oids : head'[q] # v
    BY <1>3, <1>4, Entries DEF StoreTypes, Range
  <2>3. p = o
    BY <1>3, <2>1, <2>2
  <2> QED
    BY <2>1, <2>3 DEF SnapCreates
<1> QED
  BY <1>k, <1>1, <1>3, <1>4 DEF StoreMoves, SnapCreates

LEMMA InstallJoins ==
    ASSUME IInv, IInv', JInv, NEW w \in Workers, Install(w) PROVE JInv'
<1>k. /\ pc \in [Workers -> Labels] /\ cur \in [Workers -> Ids] /\ nxt \in [Workers -> Ids]
      /\ holder \in [Workers -> HolderType] /\ Refs(w) /\ Updater(w)
  BY Frames, Start0
<1>0. /\ pc[w] = "install" /\ Return(w) /\ \E l \in {"active", "abort"} : pc' = [pc EXCEPT ![w] = l]
      /\ UNCHANGED <<rc, lsn, owner, gen, cstate, cend, xid, begin, unlinked, reads>>
  BY DEF Install, Goto, contexts
<1>1. pc'[w] \in {"active", "abort"} /\ \A u \in Workers : u # w => pc'[u] = pc[u]
  BY <1>k, <1>0
<1>2. \A u \in Workers : u # w => cur'[u] = cur[u] /\ nxt'[u] = nxt[u] /\ holder'[u] = holder[u]
  BY <1>k, <1>0 DEF Return
<1>3. OthersMove(w) /\ pc[w] \in Unordered
  BY <1>0, <1>1, <1>2 DEF OthersMove, Unordered, Labels, Undoing
<1>4. CASE ~Swapped(w)
  <2>1. UNCHANGED <<head, clsn, next>>
    BY <1>4 DEF Install
  <2>2. Quiet(w)
    BY <1>0, <1>1, <1>3, <2>1 DEF Quiet, Unordered, Labels, Undoing
  <2> QED
    BY <1>0, <1>1, <2>2, Plainly DEF Visiting
<1>5. CASE Swapped(w)
  <2>0. PICK o, s : o = op[w].oid /\ s = cur[w]
    OBVIOUS
  <2>1. o \in Oids /\ s \in Ids /\ s \in Objects /\ IsLog(s) /\ head[o] = s
    BY <1>k, <1>0, <1>5, <2>0, Start0 DEF Refs, Updater, UsesOid, UsesCur, Swapped
  <2>2. SnapCreates(w, o, s)
    BY <1>0, <1>5, <2>0, <2>1 DEF Install, SnapCreates
  <2>3. StoreMoves(w)
    BY <1>3, <2>1, <2>2, CreateMoves
  <2>4. Stores(w)
    BY <1>0, <1>1, <1>3, <2>3 DEF Stores, Visiting
  <2> QED
    BY <2>4, StoresJoin
<1> QED
  BY <1>4, <1>5

LEMMA OverwriteJoins ==
    ASSUME IInv, IInv', JInv, NEW w \in Workers, Overwrite(w) PROVE JInv'
<1>k. pc \in [Workers -> Labels] /\ Refs(w) /\ Updater(w) /\ StoreTypes /\ ChainOrder /\ Links /\ Names /\ Stamps
  BY Frames, Start0
<1>0. /\ pc[w] = "overwrite" /\ pc' = [pc EXCEPT ![w] = "dealloc"]
      /\ UNCHANGED <<rc, lsn, owner, gen, cstate, cend, xid, begin, unlinked, reads, cur, nxt, holder>>
  BY DEF Overwrite, Goto, contexts, locals
<1>1. pc'[w] = "dealloc" /\ \A u \in Workers : u # w => pc'[u] = pc[u]
  BY <1>k, <1>0
<1>2. OthersMove(w) /\ pc[w] \in Unordered
  BY <1>0, <1>1 DEF OthersMove, Unordered, Labels, Undoing
<1>3. PICK o, s, v : o = op[w].oid /\ v = cur[w] /\ s = next[v]
  OBVIOUS
<1>4. o \in Oids /\ v \in Objects /\ head[o] = v /\ clsn[v] = Xid(xid[w]) /\ v[1] = xid[w]
  <2>1. o \in Oids /\ v \in Objects /\ head[o] = v /\ clsn[v] = Xid(xid[w])
    BY <1>k, <1>0, <1>3, Start0 DEF Refs, Updater, UsesOid, UsesCur
  <2> QED
    BY <1>k, <2>1, Kinds
<1>5. s \in Ids /\ (s = NoObj \/ (s \in Objects /\ IsLog(s)))
  <2>1. s \in Ids /\ s \in Objects \cup {NoObj} /\ v \in Range(head)
    BY <1>k, <1>3, <1>4, Entries DEF StoreTypes, Links
  <2> QED
    BY <1>k, <1>3, <1>4, <2>1 DEF ChainOrder
<1>6. SnapCreates(w, o, s)
  BY <1>0, <1>3, <1>4, <1>5 DEF Overwrite, SnapCreates
<1>7. StoreMoves(w)
  BY <1>2, <1>4, <1>5, <1>6, CreateMoves
<1>8. Stores(w)
  BY <1>0, <1>1, <1>2, <1>3, <1>4, <1>7 DEF Stores, Visiting, Unordered, Labels, Undoing
<1> QED
  BY <1>8, StoresJoin

LEMMA InsertJoins ==
    ASSUME IInv, IInv', JInv, NEW w \in Workers, NEW k \in Keys, Insert(w, k) PROVE JInv'
<1>k. pc \in [Workers -> Labels] /\ cur \in [Workers -> Ids] /\ \A o \in Oids : Headed(o)
  BY Frames, Start0
<1>0. /\ pc[w] = "active" /\ pc' = [pc EXCEPT ![w] = "insert"] /\ \E v : cur' = [cur EXCEPT ![w] = v]
      /\ UNCHANGED <<rc, lsn, owner, gen, cstate, cend, xid, begin, unlinked, reads, nxt, holder>>
  BY DEF Insert, Goto, contexts, txn
<1>1. pc'[w] = "insert" /\ \A u \in Workers : u # w => pc'[u] = pc[u] /\ cur'[u] = cur[u]
  BY <1>k, <1>0
<1>2. OthersMove(w) /\ pc[w] \in Unordered
  BY <1>0, <1>1 DEF OthersMove, Unordered, Labels, Undoing
<1>3. PICK o \in Oids \ oids : Create(w, NewObj(w), NoObj) /\ head' = [head EXCEPT ![o] = NewObj(w)]
  BY DEF Insert
<1>4. NoObj \in Ids /\ NoObj \notin Objects /\ head[o] = NoObj
  BY <1>k, <1>3, Start0 DEF Headed, NoObj, Ids, Xids
<1>5. SnapCreates(w, o, NoObj)
  BY <1>0, <1>3, <1>4 DEF SnapCreates
<1>6. StoreMoves(w)
  BY <1>2, <1>3, <1>4, <1>5, CreateMoves
<1>7. Stores(w)
  BY <1>0, <1>1, <1>2, <1>6 DEF Stores, Visiting, Unordered, Labels, Undoing
<1> QED
  BY <1>7, StoresJoin

(* MM::deallocate() of one of the transaction's versions. *)
LEMMA FreeMoves ==
    ASSUME IInv, NEW w \in Workers, NEW v \in Objects, v[1] = xid[w], Deallocate(w, v),
           clsn' = clsn, born' = born, head' = head
    PROVE  StoreMoves(w) /\ unlinked'[w] = v /\ \A u \in Workers : u # w => unlinked'[u] = unlinked[u]
<1>1. /\ Objects' = Objects /\ Range(head)' = Range(head) /\ unlinked'[w] = v
      /\ \A u \in Objects : u # v => next'[u] = next[u]
      /\ \A u \in Workers : u # w => unlinked'[u] = unlinked[u]
  BY Freed
<1>2. next'[v] = unlinked[w]
  BY DEF Deallocate, IInv, Types, StoreTypes
<1> QED
  BY <1>1, <1>2 DEF StoreMoves

LEMMA FreeOverwrittenJoins ==
    ASSUME IInv, IInv', JInv, NEW w \in Workers, FreeOverwritten(w) PROVE JInv'
<1>k. /\ pc \in [Workers -> Labels] /\ cur \in [Workers -> Ids] /\ nxt \in [Workers -> Ids]
      /\ holder \in [Workers -> HolderType] /\ Visits(w)
  BY Frames DEF JInv
<1>0. /\ pc[w] = "dealloc" /\ Return(w) /\ pc' = [pc EXCEPT ![w] = "active"] /\ Deallocate(w, cur[w])
      /\ UNCHANGED <<rc, lsn, owner, gen, cstate, cend, head, clsn, born, xid, begin, reads>>
  BY DEF FreeOverwritten, Goto, contexts
<1>1. pc'[w] = "active" /\ \A u \in Workers : u # w => pc'[u] = pc[u]
  BY <1>k, <1>0
<1>2. \A u \in Workers : u # w => cur'[u] = cur[u] /\ nxt'[u] = nxt[u] /\ holder'[u] = holder[u]
  BY <1>k, <1>0 DEF Return
<1>3. PICK v : v = cur[w]
  OBVIOUS
<1>4. v \in Objects /\ v[1] = xid[w]
  BY <1>k, <1>0, <1>3, Start0 DEF Visits, UsesCur, UsesOid
<1>5. StoreMoves(w) /\ unlinked'[w] = v /\ \A u \in Workers : u # w => unlinked'[u] = unlinked[u]
  BY <1>0, <1>3, <1>4, FreeMoves
<1>6. Stores(w)
  BY <1>0, <1>1, <1>2, <1>4, <1>5 DEF Stores, OthersMove, Visiting, Unordered, Labels, Undoing
<1> QED
  BY <1>6, StoresJoin

(* The head that is dropped is the transaction's own, and it was not       *)
(* ordered or has aborted.                                                 *)
LEMMA UnlinkMoves ==
    ASSUME IInv, NEW w \in Workers, NEW o \in Oids, head[o] \in Objects, head[o][1] = xid[w],
           cend[Own(w)] = 0 \/ cstate[Own(w)] = "ABRTD", Unlink(o), UNCHANGED <<clsn, next, cstate>>
    PROVE  StoreMoves(w)
<1>k. StoreTypes
  BY Start0
<1>1. \A p \in Oids : p # o => head'[p] = head[p]
  BY <1>k DEF Unlink, StoreTypes
<1>2. \A p \in Oids : head'[p] \in Range(head)'
  BY <1>k DEF Unlink, StoreTypes, Range
<1>3. ASSUME NEW v \in Objects, v \in Range(head), v \notin Range(head)' PROVE v[1] = xid[w]
  <2>1. PICK p \in Oids : head[p] = v
    BY <1>k, <1>3, Entries
  <2> QED
    BY <1>1, <1>2, <1>3, <2>1
<1> QED
  BY <1>3 DEF StoreMoves, Objects

LEMMA RetractJoins ==
    ASSUME IInv, IInv', JInv, NEW w \in Workers, Retract(w) PROVE JInv'
<1>k. pc \in [Workers -> Labels] /\ Refs(w) /\ Updater(w) /\ Names /\ Stamps /\ EndOf(w)
  BY Frames, Start0 DEF JInv
<1>0. /\ pc[w] = "retract" /\ pc' = [pc EXCEPT ![w] = "upsert"] /\ Unlink(op[w].oid)
      /\ UNCHANGED <<rc, lsn, owner, gen, cstate, cend, next, clsn, xid, begin, unlinked, reads, cur, nxt, holder>>
  BY DEF Retract, Goto, contexts, txn, locals
<1>1. pc'[w] = "upsert" /\ \A u \in Workers : u # w => pc'[u] = pc[u]
  BY <1>k, <1>0
<1>2. PICK o : o = op[w].oid
  OBVIOUS
<1>3. o \in Oids /\ head[o] \in Objects /\ clsn[head[o]] = Xid(xid[w])
  BY <1>k, <1>0, <1>2, Start0 DEF Refs, Updater, UsesOid, UsesCur, Inserting
<1>4. head[o][1] = xid[w] /\ cend[Own(w)] = 0
  BY <1>k, <1>0, <1>3, Kinds DEF EndOf, Unordered, Labels, Undoing
<1>5. StoreMoves(w)
  BY <1>0, <1>2, <1>3, <1>4, UnlinkMoves
<1>6. Stores(w)
  BY <1>0, <1>1, <1>5 DEF Stores, OthersMove, Visiting, Unordered, Labels, Undoing
<1> QED
  BY <1>6, StoresJoin

(* The first entry of the write set. *)
LEMMA FirstWrite ==
    ASSUME IInv, NEW w \in Workers, wset[w] # <<>>
    PROVE  /\ 1 \in Writes(w) /\ Entry(w, 1) = Head(wset[w]) /\ Written(w, 1)
           /\ Head(wset[w])[1] \in Oids /\ Head(wset[w])[2] \in Objects /\ Head(wset[w])[2][1] = xid[w]
<1>1. wset[w] \in Seq(Oids \X Ids)
  BY DEF IInv, Types, TxnTypes
<1>2. 1 \in Writes(w) /\ Entry(w, 1) = Head(wset[w]) /\ Head(wset[w])[1] \in Oids
  BY SMTT(30), SMTT(60), <1>1 DEF Writes, Entry
<1>3. Written(w, 1)
  BY <1>2, Start0 DEF WriteSet
<1> QED
  BY <1>2, <1>3 DEF Written

LEMMA UndoUnlinkJoins ==
    ASSUME IInv, IInv', JInv, NEW w \in Workers, UndoUnlink(w) PROVE JInv'
<1>k. pc \in [Workers -> Labels] /\ Outcome(w)
  BY Frames, Start0
<1>0. /\ pc[w] = "undo" /\ wset[w] # <<>>
      /\ UNCHANGED <<rc, lsn, owner, gen, cstate, cend, next, clsn, xid, begin, unlinked, reads, cur, nxt, holder>>
  BY DEF UndoUnlink, contexts, locals
<1>1. PICK e : e = Head(wset[w])
  OBVIOUS
<1>2. CASE e[2] \in defunct
  <2>1. UNCHANGED <<head, pc>>
    BY <1>1, <1>2 DEF UndoUnlink
  <2>2. Quiet(w)
    BY <1>0, <2>1 DEF Quiet, OthersMove
  <2> QED
    BY <1>0, <2>1, <2>2, Plainly DEF Visiting
<1>3. CASE e[2] \notin defunct
  <2>1. Unlink(e[1]) /\ pc' = [pc EXCEPT ![w] = "undo_clsn"]
    BY <1>1, <1>3 DEF UndoUnlink, Goto
  <2>2. e[1] \in Oids /\ head[e[1]] \in Objects /\ head[e[1]][1] = xid[w]
    BY <1>0, <1>1, <1>3, FirstWrite DEF Written, Dirty, Undone
  <2>3. cstate[Own(w)] = "ABRTD"
    BY <1>k, <1>0 DEF Outcome, Undoing
  <2>4. PICK o : o = e[1]
    OBVIOUS
  <2>5. StoreMoves(w)
    BY <1>0, <2>1, <2>2, <2>3, <2>4, UnlinkMoves
  <2>6. pc'[w] = "undo_clsn" /\ \A u \in Workers : u # w => pc'[u] = pc[u]
    BY <1>k, <2>1
  <2>7. Stores(w)
    BY <1>0, <2>5, <2>6 DEF Stores, OthersMove, Visiting, Unordered, Labels, Undoing
  <2> QED
    BY <2>7, StoresJoin
<1> QED
  BY <1>2, <1>3

LEMMA UndoFreeJoins ==
    ASSUME IInv, IInv', JInv, NEW w \in Workers, UndoFree(w) PROVE JInv'
<1>k. pc \in [Workers -> Labels] /\ WriteSet(w)
  BY Frames, Start0
<1>0. /\ pc[w] = "undo_free" /\ pc' = [pc EXCEPT ![w] = "undo"] /\ Deallocate(w, Head(wset[w])[2])
      /\ UNCHANGED <<rc, lsn, owner, gen, cstate, cend, head, clsn, born, xid, begin, reads, cur, nxt, holder>>
  BY DEF UndoFree, Goto, contexts, locals
<1>1. pc'[w] = "undo" /\ \A u \in Workers : u # w => pc'[u] = pc[u]
  BY <1>k, <1>0
<1>2. PICK v : v = Head(wset[w])[2]
  OBVIOUS
<1>3. v \in Objects /\ v[1] = xid[w]
  BY <1>k, <1>0, <1>2, FirstWrite DEF WriteSet, Undone
<1>4. StoreMoves(w) /\ unlinked'[w] = v /\ \A u \in Workers : u # w => unlinked'[u] = unlinked[u]
  BY <1>0, <1>2, <1>3, FreeMoves
<1>5. Stores(w)
  BY <1>0, <1>1, <1>3, <1>4 DEF Stores, OthersMove, Visiting, Unordered, Labels, Undoing
<1> QED
  BY <1>5, StoresJoin

(* A version changes its stamp from its creator's XID to null or to the    *)
(* creator's end stamp.                                                    *)
LEMMA StampMoves ==
    ASSUME IInv, NEW w \in Workers, NEW v \in Objects, NEW p, clsn[v] = Xid(xid[w]), clsn' = [clsn EXCEPT ![v] = p],
           p = NullPtr \/ (p = Log(cend[Own(w)]) /\ pc[w] = "stamp"), UNCHANGED <<head, next>>
    PROVE  StoreMoves(w)
<1>1. Objects' = Objects /\ clsn'[v] = p /\ \A u \in Objects : u # v => clsn'[u] = clsn[u]
  BY DEF Objects
<1>2. ~IsLog(v)
  BY StampFacts DEF IsLog
<1> QED
  BY <1>1, <1>2 DEF StoreMoves

LEMMA UndoClsnJoins ==
    ASSUME IInv, IInv', JInv, NEW w \in Workers, UndoClsn(w) PROVE JInv'
<1>k. pc \in [Workers -> Labels] /\ WriteSet(w)
  BY Frames, Start0
<1>0. /\ pc[w] = "undo_clsn" /\ pc' = [pc EXCEPT ![w] = "undo_free"]
      /\ clsn' = [clsn EXCEPT ![Head(wset[w])[2]] = NullPtr]
      /\ UNCHANGED <<rc, lsn, owner, gen, cstate, cend, head, next, xid, begin, unlinked, reads, cur, nxt, holder>>
  BY DEF UndoClsn, Goto, contexts, txn, locals
<1>1. pc'[w] = "undo_free" /\ \A u \in Workers : u # w => pc'[u] = pc[u]
  BY <1>k, <1>0
<1>2. PICK v : v = Head(wset[w])[2]
  OBVIOUS
<1>3. v \in Objects /\ clsn[v] = Xid(xid[w])
  BY <1>k, <1>0, <1>2, FirstWrite DEF WriteSet, Written, Taken, Undone
<1>4. StoreMoves(w)
  BY <1>0, <1>2, <1>3, StampMoves
<1>5. Stores(w)
  BY <1>0, <1>1, <1>4 DEF Stores, OthersMove, Visiting, Unordered, Labels, Undoing
<1> QED
  BY <1>5, StoresJoin

LEMMA StampJoins ==
    ASSUME IInv, IInv', JInv, NEW w \in Workers, Stamp(w) PROVE JInv'
<1>0. /\ pc[w] = "stamp" /\ wset[w] # <<>>
      /\ UNCHANGED <<rc, lsn, owner, gen, cstate, cend, head, next, xid, begin, unlinked, reads, pc, cur, nxt, holder>>
  BY DEF Stamp, contexts, locals
<1>1. PICK v, p : v = Head(wset[w])[2] /\ p = Log(cend[Own(w)])
  OBVIOUS
<1>2. StoreMoves(w)
  <2>1. CASE v \in defunct
    <3>1. clsn' = clsn
      BY <1>1, <2>1 DEF Stamp
    <3> QED
      BY <1>0, <3>1 DEF StoreMoves, Objects
  <2>2. CASE v \notin defunct
    <3>1. clsn' = [clsn EXCEPT ![v] = p]
      BY <1>1, <2>2 DEF Stamp
    <3>2. v \in Objects /\ clsn[v] = Xid(xid[w])
      BY <1>0, <1>1, <2>2, FirstWrite DEF Written, Dirty, Undone
    <3> QED
      BY <1>0, <1>1, <3>1, <3>2, StampMoves
  <2> QED
    BY <2>1, <2>2
<1>3. Stores(w)
  BY <1>0, <1>2 DEF Stores, OthersMove, Visiting, Unordered, Labels
<1> QED
  BY <1>3, StoresJoin

-----------------------------------------------------------------------------
LEMMA InitJoins == Init => JInv
<1> SUFFICES ASSUME Init PROVE JInv
  OBVIOUS
<1>1. pc = [w \in Workers |-> "idle"] /\ reads = [w \in Workers |-> {}] /\ unlinked = [w \in Workers |-> NoObj]
  BY DEF Init
<1>2. Objects = {<<NoXid, k>> : k \in Loaded} /\ NoXid \notin Issued
  BY InitTypes, ContextsAssumption DEF NoXid, Issued
<1>3. \A w \in Workers : BeginOf(w) /\ EndOf(w) /\ Visits(w)
  BY <1>1 DEF BeginOf, Began, EndOf, Unordered, Visits
<1>4. Ends
  <2>1. \A v \in Objects : v[1] = NoXid /\ ~Latest(v[1])
    BY SMTT(30), SMTT(60), <1>2 DEF Latest
  <2>2. \A c \in Contexts : cstate[c] = "ACTIVE"
    BY DEF Init
  <2> QED
    BY <1>1, <2>1, <2>2 DEF Ends
<1>5. Lists
  <2>1. \A v \in Objects : next[v] = NoObj
    BY <1>2 DEF Init
  <2>2. NoObj \notin Objects
    BY <1>2, KeysAssumption DEF NoObj
  <2> QED
    BY <1>1, <2>1, <2>2 DEF Lists, Live
<1> QED
  BY <1>1, <1>3, <1>4, <1>5 DEF JInv

LEMMA StutterJoins == JInv /\ UNCHANGED vars => JInv'
<1> SUFFICES ASSUME JInv, UNCHANGED vars PROVE JInv'
  OBVIOUS
<1>1. UNCHANGED <<rc, lsn, owner, gen, cstate, cend, head, next, clsn, xid, begin, unlinked, pc, cur, nxt, holder, reads>>
  BY DEF vars, shared, contexts, store, txn, locals
<1>2. Objects' = Objects /\ \A v : (IsLog(v)' <=> IsLog(v)) /\ (Live(v)' <=> Live(v))
  BY <1>1 DEF Objects, IsLog, Live
<1>3. ASSUME NEW w \in Workers PROVE BeginOf(w)' /\ EndOf(w)'
  BY <1>1, <1>2 DEF JInv, BeginOf, Began, EndOf, Own
<1>4. ASSUME NEW w \in Workers PROVE Visits(w)'
  BY ZenonT(60), ZenonT(90), <1>1, <1>2 DEF JInv, Visits, InHand, Before, Old, Latest
<1>5. Ends'
  BY ZenonT(60), ZenonT(90), <1>1, <1>2 DEF JInv, Ends, Known, Latest
<1>6. Lists'
  BY <1>1, <1>2 DEF JInv, Lists
<1> QED
  BY <1>1, <1>3, <1>4, <1>5, <1>6 DEF JInv

LEMMA NextJoins == IInv /\ IInv' /\ JInv /\ [Next]_vars => JInv'
<1> SUFFICES ASSUME IInv, IInv', JInv, [Next]_vars PROVE JInv'
  OBVIOUS
<1>1. ASSUME NEW w \in Workers, Visit(w) PROVE JInv'
  BY <1>1, GetHeadJoins, GetNextJoins, GetClsnJoins, ContextJoins, GetOwnerJoins, GetEndJoins, ReadTupleJoins,
     MissingJoins DEF Visit
<1>2. ASSUME NEW w \in Workers, Update(w) PROVE JInv'
  BY <1>2, PutJoins, InstallJoins, OverwriteJoins, FreeOverwrittenJoins, InsertIfAbsentJoins, RetractJoins,
     SearchJoins DEF Update
<1>3. ASSUME NEW w \in Workers, Resolve(w) PROVE JInv'
  BY <1>3, TurnJoins, PutJoins, StampJoins, UndoUnlinkJoins, UndoClsnJoins, UndoFreeJoins, XidFreeJoins DEF Resolve
<1>4. ASSUME NEW w \in Workers, Choose(w) PROVE JInv'
  BY <1>4, SearchJoins, InsertJoins, TurnJoins DEF Choose
<1>5. ASSUME NEW w \in Workers, Start(w) PROVE JInv'
  BY <1>5, XidAllocJoins, SetBeginJoins DEF Start
<1>6. CASE UNCHANGED vars
  BY <1>6, StutterJoins
<1> QED
  BY <1>1, <1>2, <1>3, <1>4, <1>5, <1>6 DEF Next, Finished

(* Snapshot isolation, of oid_get_version(): what a transaction has read   *)
(* of another was committed before its begin stamp was taken, unless the   *)
(* context of that other has been issued again since.                      *)
THEOREM NoFutureReads == Spec => []NoFutureRead
<1>1. Init => JInv
  BY InitJoins
<1>2. IInv /\ IInv' /\ JInv /\ [Next]_vars => JInv'
  BY NextJoins
<1>3. JInv => NoFutureRead
  BY DEF JInv, Visits, Old, NoFutureRead
<1> QED
  BY <1>1, <1>2, <1>3, Invariance, PTL DEF Spec
=============================================================================
