-------------------------------- MODULE Tpcc --------------------------------
(***************************************************************************)
(* The TPC-C benchmark (src/benchmarks/tpcc.cc): what the loaders leave in *)
(* the tables, the eight transactions, the options that change what they   *)
(* write (partition locks, the fast order-id generator, random home        *)
(* warehouses), and the state a worker carries from one transaction to the *)
(* next (last_no_o_ids, the counter behind GetCurrentTimeMillis).          *)
(*                                                                         *)
(* Scaled down: districts, customers, items and order lines are few, and   *)
(* order FirstNew plays the part of order 2101 of a district's 3000.       *)
(* Amounts are whole numbers; strings are left out where nothing but       *)
(* output depends on them.                                                 *)
(***************************************************************************)
EXTENDS Workload

CONSTANTS
    NumWarehouses, NumDistricts, NumCustomers, NumItems,
    MaxLines,             \* orders have 1..MaxLines lines (5..15 in the code)
    FirstNew,             \* the first loaded order without a carrier (2101)
    StartStock,           \* s_quantity the loader draws, from 10..100
    LastName,             \* customer |-> last name
    OrderLines,           \* the item lists a NewOrder draws: <<item, remote, quantity>>
    Amounts,              \* the payments drawn
    Threshold,            \* credit check: 5000
    NumSuppliers, Nation, Region,    \* supplier |-> nation, nation |-> region
    Dull,                 \* the items whose i_data has no 'b'
    Scenarios             \* <<options, attempts>>: the command lines checked

VARIABLES
    last_no_o_ids,        \* per worker and district (not per warehouse)
    tl_hack,              \* per thread: the next GetCurrentTimeMillis()
    district_ids          \* g_district_ids: the fast id generator

vars == <<db, ses, lock, dead, left, opts, last_no_o_ids, tl_hack, district_ids>>

Warehouses == 1..NumWarehouses
Districts == 1..NumDistricts
Customers == 1..NumCustomers
Items == 1..NumItems
NumWorkers == Cardinality(Workers)

-----------------------------------------------------------------------------
(* The loaders, one per table.                                             *)

Rows(names, value(_)) == [k \in names |-> value(k)]

WarehouseRows ==
    Rows({"warehouse"} \X Warehouses, LAMBDA k : [w_ytd |-> 10 * NumCustomers * NumDistricts])

ItemRows == Rows({"item"} \X Items, LAMBDA k : [i_price |-> 1, dull |-> k[2] \in Dull])

StockRows ==
    Rows({"stock"} \X Warehouses \X Items,
         LAMBDA k : [s_quantity |-> StartStock, s_ytd |-> 0, s_remote_cnt |-> 0])

DistrictRows ==
    Rows({"district"} \X Warehouses \X Districts,
         LAMBDA k : [d_ytd |-> 10 * NumCustomers, d_next_o_id |-> NumCustomers + 1])

CustomerRows ==
    Rows({"customer"} \X Warehouses \X Districts \X Customers,
         LAMBDA k : [c_balance |-> -10, c_ytd_payment |-> 10, c_credit |-> "GC"])
    @@ Rows({<<"customer_name_idx", w, d, LastName[c], c>> :
                 w \in Warehouses, d \in Districts, c \in Customers}, LAMBDA k : k[5])

\* One order per customer, one line each, delivered before FirstNew.
OrderRows ==
    Rows({"oorder"} \X Warehouses \X Districts \X Customers,
         LAMBDA k : [o_c_id |-> k[4], o_carrier_id |-> IF k[4] < FirstNew THEN 1 ELSE 0,
                     o_ol_cnt |-> 1])
    @@ Rows({<<"oorder_c_id_idx", w, d, c, c>> :
                 w \in Warehouses, d \in Districts, c \in Customers}, LAMBDA k : 0)
    @@ Rows({"new_order"} \X Warehouses \X Districts \X {c \in Customers : c >= FirstNew},
            LAMBDA k : 0)
    @@ Rows({<<"order_line", w, d, c, 1>> : w \in Warehouses, d \in Districts, c \in Customers},
            LAMBDA k : [ol_i_id |-> 1, delivered |-> k[4] < FirstNew,
                        ol_amount |-> IF k[4] < FirstNew THEN 0 ELSE 3])

Loaded == WarehouseRows @@ ItemRows @@ StockRows @@ DistrictRows @@ CustomerRows @@ OrderRows

-----------------------------------------------------------------------------
(* Choices every transaction makes.                                        *)

\* make_workers: worker w = 1, 2, ... lives in one warehouse; pick_wh.
Home(w) == IF NumWarehouses <= NumWorkers THEN ((w - 1) % NumWarehouses) + 1 ELSE w
PickWh(w) == IF opts.spread THEN Warehouses ELSE {Home(w)}

\* A customer of the same district, or of any district of another warehouse.
CustomerAt(wh, d) == {<<wh, d>>} \cup ((Warehouses \ {wh}) \X Districts)

\* PartitionId: several warehouses share a lock when workers are few.
PartitionId(wh) ==
    IF NumWarehouses <= NumWorkers THEN wh - 1
    ELSE LET partid == (wh - 1) \div (NumWarehouses \div NumWorkers)
         IN IF partid >= NumWorkers THEN NumWorkers - 1 ELSE partid

\* scoped_multilock: without duplicates, in the order of the addresses.
InOrder(parts) == SetToSortSeq(parts, <)
Locks(whs) == IF opts.locks THEN InOrder({PartitionId(wh) : wh \in whs}) ELSE <<>>

\* A customer by last name: the middle one, in the order of first names.
MiddleOf(n) == IF n % 2 = 0 THEN n \div 2 ELSE n \div 2 + 1
ByName(s, wh, d, last) ==
    LET found == SetToSortSeq({k[5] : k \in {x \in DOMAIN s :
                                  x[1] = "customer_name_idx" /\ SubSeq(x, 2, 4) = <<wh, d, last>>}}, <)
    IN found[MiddleOf(Len(found))]

\* The lines drawn by NewOrder: <<item, supplying warehouse, quantity>>.
Supplied(wh) ==
    {[n \in DOMAIN ls |-> <<ls[n][1], IF ls[n][2] THEN other ELSE wh, ls[n][3]>>] :
        ls \in OrderLines, other \in Warehouses \ {wh}}

Inputs(txn, w) ==
    UNION {CASE txn = "NewOrder" -> [w : {wh}, d : Districts, c : Customers, lines : Supplied(wh)]
             [] txn = "Delivery" -> [w : {wh}]
             [] txn = "CreditCheck" ->
                    UNION {[w : {wh}, d : {d}, at : CustomerAt(wh, d), c : Customers] : d \in Districts}
             [] txn = "Payment" ->
                    UNION {[w : {wh}, d : {d}, at : CustomerAt(wh, d), amount : Amounts,
                            c : Customers] : d \in Districts}
             [] txn = "PaymentByName" ->
                    UNION {[w : {wh}, d : {d}, at : CustomerAt(wh, d), amount : Amounts,
                            c : {LastName[c] : c \in Customers}] : d \in Districts}
             [] txn = "OrderStatus" -> [w : {wh}, d : Districts, c : Customers]
             [] txn = "StockLevel" -> [w : {wh}, d : Districts]
             [] txn = "Query2" -> [region : {Region[n] : n \in DOMAIN Region}]
             [] OTHER -> [w : 1..NumWarehouses + 1, s : 1..NumItems + 1, row : 1..2]
           : wh \in PickWh(w)}

LocksOf(txn, in) ==
    CASE txn = "NewOrder" -> Locks({in.w} \cup {l[2] : l \in Range(in.lines)})
      [] txn = "Delivery" -> Locks({in.w})
      [] txn \in {"CreditCheck", "Payment", "PaymentByName"} -> Locks({in.w, in.at[1]})
      [] OTHER -> <<>>

-----------------------------------------------------------------------------
(* The transactions: the calls each one makes, from its inputs in and the  *)
(* snapshot s.                                                             *)

\* s_quantity is compared in unsigned arithmetic.
Restock(q, n) == IF q < n \/ q - n >= 10 THEN q - n ELSE q - n + 91

\* Order line n of a NewOrder; acc holds the stock as this order has left it.
AddLine(in, id, acc, l) ==
    LET k_s == <<"stock", l[2], l[1]>>
        v_s == [s_quantity |-> Restock(acc.stock[k_s].s_quantity, l[3]),
                s_ytd |-> acc.stock[k_s].s_ytd + l[3],
                s_remote_cnt |-> acc.stock[k_s].s_remote_cnt + (IF l[2] = in.w THEN 0 ELSE 1)]
    IN [stock |-> [acc.stock EXCEPT ![k_s] = v_s],
        n |-> acc.n + 1,
        calls |-> acc.calls \o
            <<Put(k_s, v_s),
              Insert(<<"order_line", in.w, in.d, id, acc.n + 1>>,
                     [ol_i_id |-> l[1], delivered |-> FALSE,
                      ol_amount |-> l[3] * acc.price[<<"item", l[1]>>].i_price])>>,
        price |-> acc.price]

NewOrder(s, in, id) ==
    LET k_d == <<"district", in.w, in.d>>
        start == [stock |-> s, price |-> s, n |-> 0, calls |->
            <<Insert(<<"new_order", in.w, in.d, id>>, 0)>>
            \o (IF opts.fast THEN <<>>
                ELSE <<Put(k_d, [s[k_d] EXCEPT !.d_next_o_id = @ + 1])>>)
            \o <<Note(<<"tl_hack">>, 0),
                 Insert(<<"oorder", in.w, in.d, id>>,
                        [o_c_id |-> in.c, o_carrier_id |-> 0, o_ol_cnt |-> Len(in.lines)]),
                 Insert(<<"oorder_c_id_idx", in.w, in.d, in.c, id>>, 0)>>]
    IN FoldLeft(LAMBDA acc, l : AddLine(in, id, acc, l), start, in.lines).calls

\* The lines of an order in their order, as the scans return them.
LinesOf(s, wh, d, id) ==
    SetToSortSeq({k \in DOMAIN s : k[1] = "order_line" /\ SubSeq(k, 2, 4) = <<wh, d, id>>},
                 LAMBDA a, b : a[5] < b[5])
Total(s, ks) == FoldLeft(LAMBDA sum, k : sum + s[k].ol_amount, 0, ks)

\* Mutant: the carrier is recorded, the new_order row stays.
MutDeliverFrom(s, in, d, last) ==
    LET open == {k \in DOMAIN s : k[1] = "new_order" /\ k[2] = in.w /\ k[3] = d /\ k[4] >= last}
        k_oo == <<"oorder", in.w, d, FirstBy(4, open)[4]>>
    IN IF open = {} THEN <<>> ELSE <<Put(k_oo, [s[k_oo] EXCEPT !.o_carrier_id = 1])>>

\* One district's share of Delivery: the oldest new order the worker has not
\* seen yet.  That it was seen is noted before anything is written.
DeliverFrom(s, in, d, last) ==
    LET open == {k \in DOMAIN s : k[1] = "new_order" /\ k[2] = in.w /\ k[3] = d /\ k[4] >= last}
        id == FirstBy(4, open)[4]
        k_oo == <<"oorder", in.w, d, id>>
        k_c == <<"customer", in.w, d, s[k_oo].o_c_id>>
        lines == LinesOf(s, in.w, d, id)
    IN IF open = {} THEN <<>>
       ELSE <<Note(<<"last_no_o_ids", d>>, id + 1)>> \o
            (IF k_oo \notin DOMAIN s THEN <<GiveUp>>
             ELSE [n \in DOMAIN lines |-> Put(lines[n], [s[lines[n]] EXCEPT !.delivered = in.ts # 0])]
                  \o <<Delete(<<"new_order", in.w, d, id>>),
                       Put(k_oo, [s[k_oo] EXCEPT !.o_carrier_id = 1]),
                       IF k_c \notin DOMAIN s THEN Die("no customer")
                       ELSE Put(k_c, [s[k_c] EXCEPT !.c_balance = @ + Total(s, lines)])>>)

Delivery(s, in, last) ==
    FoldLeft(LAMBDA calls, d : calls \o DeliverFrom(s, in, d, last[d]), <<>>,
             [d \in 1..NumDistricts |-> d])

\* The balance of all the new orders of the district decides the credit.
CreditCheck(s, in) ==
    LET k_c == <<"customer", in.at[1], in.at[2], in.c>>
        open == {k[4] : k \in {x \in DOMAIN s : x[1] = "new_order" /\ x[2] = in.w /\ x[3] = in.d}}
        found == {id \in open : <<"oorder", in.w, in.d, id>> \in DOMAIN s}
        scanned(id) == SelectSeq(LinesOf(s, in.w, in.d, id), LAMBDA k : k[5] < MaxLines)
        sum == MapThenSumSet(LAMBDA id : Total(s, scanned(id)), found)
    IN IF open = {} THEN <<Die("no new order")>>
       ELSE IF \E id \in found : scanned(id) = <<>> THEN <<Die("no order line")>>
       ELSE <<Put(k_c, [s[k_c] EXCEPT !.c_credit = IF s[k_c].c_balance + sum >= Threshold
                                                   THEN "BC" ELSE "GC"])>>

Payment(s, in, c) ==
    LET k_w == <<"warehouse", in.w>>
        k_d == <<"district", in.w, in.d>>
        k_c == <<"customer", in.at[1], in.at[2], c>>
    IN <<Put(k_w, [s[k_w] EXCEPT !.w_ytd = @ + in.amount]),
         Put(k_d, [s[k_d] EXCEPT !.d_ytd = @ + in.amount]),
         Put(k_c, [s[k_c] EXCEPT !.c_balance = @ - in.amount, !.c_ytd_payment = @ + in.amount]),
         Insert(<<"history", in.at[2], in.at[1], c, in.d, in.w, in.ts>>, in.amount)>>

\* The newest order at or below the customer's last possible key.
OrderStatus(s, in) ==
    LET rank(k) == ((k[2] * 100 + k[3]) * 100 + k[4]) * 100 + k[5]
        below == {k \in DOMAIN s : /\ k[1] = "oorder_c_id_idx"
                                   /\ rank(k) < rank(<<0, in.w, in.d, in.c + 1, 0>>)}
        newest == CHOOSE k \in below : \A j \in below : rank(j) <= rank(k)
        n == Len(LinesOf(s, in.w, in.d, newest[5]))
    IN IF below = {} THEN <<Die("no order")>>
       ELSE IF n \notin 1..MaxLines THEN <<Die("order without its lines")>>
       ELSE <<>>

\* The items of the last 20 orders; only reads, of rows that must exist.
StockLevel(s, in, next) ==
    LET recent == {k \in DOMAIN s : k[1] = "order_line" /\ k[2] = in.w /\ k[3] = in.d
                                    /\ k[4] >= next - 20 /\ k[4] < next}
    IN IF \A k \in recent : <<"stock", in.w, s[k].ol_i_id>> \in DOMAIN s
       THEN <<>> ELSE <<Die("no stock")>>

\* supp_stock_map, in the order the warehouse loader fills it.
SuppStock(su) ==
    SetToSortSeq({k \in {"stock"} \X Warehouses \X Items : (k[2] * k[3]) % NumSuppliers = su},
                 LAMBDA a, b : a[2] < b[2] \/ (a[2] = b[2] /\ a[3] < b[3]))

\* min_qty keeps its first value, so every stock row passes the test and the
\* last one stays.
PickStock(s, su) == Last(SuppStock(su))

Query2(s, in) ==
    FoldLeft(LAMBDA calls, su :
                 IF Region[Nation[su]] # in.region THEN calls
                 ELSE IF SuppStock(su) = <<>> THEN Append(calls, Die("no item"))
                 ELSE LET k == PickStock(s, su)
                      IN IF s[<<"item", k[3]>>].dull /\ s[k].s_quantity < 15
                         THEN Append(calls, Put(k, [s[k] EXCEPT !.s_quantity = @ + 50]))
                         ELSE calls,
             <<>>, [n \in 1..NumSuppliers |-> n - 1])

\* microbench_wr_rows = 1; a start beyond the last warehouse indexes past the
\* vector of tables.
MicroBenchRandom(in) ==
    LET idx == ((in.w - 1) * NumItems) + ((in.s - 1 + in.row) % NumItems)
    IN IF in.w > NumWarehouses THEN <<Die("warehouse out of range")>>
       ELSE <<Put(<<"stock", (idx \div NumItems) + 1, (idx % NumItems) + 1>>,
                  [s_quantity |-> 10, s_ytd |-> 0, s_remote_cnt |-> 0])>>

-----------------------------------------------------------------------------
(* The worker: my_work picks a transaction of the mix and draws its inputs. *)

Clocked(txn) == txn \in {"Delivery", "Payment", "PaymentByName"}
FreshId(s, in) == IF opts.fast THEN district_ids[in.w, in.d]
                               ELSE s[<<"district", in.w, in.d>>].d_next_o_id

Draw(w, txn, in) ==
    /\ BeginTxn(w, txn, [ts |-> tl_hack[w]] @@ in, LocksOf(txn, in))
    /\ tl_hack' = [tl_hack EXCEPT ![w] = IF Clocked(txn) THEN @ + 1 ELSE @]
    /\ UNCHANGED <<last_no_o_ids, district_ids>>

Begin(w) ==
    /\ ses[w].at = "idle"
    /\ \E txn \in opts.mix : \E in \in Inputs(txn, w) : Draw(w, txn, in)

Retry(w) == ses[w].at = "retry" /\ Draw(w, ses[w].txn, ses[w].in)

Calls(w, s, in) ==
    LET txn == ses[w].txn
    IN CASE txn = "NewOrder" -> NewOrder(s, in, FreshId(s, in))
         [] txn = "Delivery" -> Delivery(s, in, last_no_o_ids[w])
         [] txn = "CreditCheck" -> CreditCheck(s, in)
         [] txn = "Payment" -> Payment(s, in, in.c)
         [] txn = "PaymentByName" -> Payment(s, in, ByName(s, in.at[1], in.at[2], in.c))
         [] txn = "OrderStatus" -> OrderStatus(s, in)
         [] txn = "StockLevel" -> StockLevel(s, in, FreshId(s, in))
         [] txn = "Query2" -> Query2(s, in)
         [] OTHER -> MicroBenchRandom(in)

Body(w) ==
    /\ StartBody(w, Calls(w, ses[w].snap, ses[w].in))
    /\ district_ids' = IF opts.fast /\ ses[w].txn = "NewOrder"
                       THEN [district_ids EXCEPT ![ses[w].in.w, ses[w].in.d] = @ + 1]
                       ELSE district_ids
    /\ UNCHANGED <<last_no_o_ids, tl_hack>>

\* Assignments to the worker's own memory; an abort does not undo them.
Remember(w) ==
    /\ dead = "none" /\ Inside(w) /\ ses[w].todo # <<>>
    /\ Call(w).call = "note"
    /\ IF Call(w).key[1] = "tl_hack"
       THEN /\ tl_hack' = [tl_hack EXCEPT ![w] = @ + 1]
            /\ UNCHANGED last_no_o_ids
       ELSE /\ last_no_o_ids' = [last_no_o_ids EXCEPT ![w][Call(w).key[2]] = Call(w).val[1]]
            /\ UNCHANGED tl_hack
    /\ ses' = [ses EXCEPT ![w] = Next1(w)]
    /\ UNCHANGED <<db, lock, dead, left, opts, district_ids>>

Engine(w) ==
    /\ \/ TakeLock(w) \/ Write(w) \/ AbortTxn(w) \/ CommitTxn(w) \/ FailAssert(w)
    /\ UNCHANGED <<last_no_o_ids, tl_hack, district_ids>>

Init ==
    /\ db = Loaded
    /\ ses = [w \in Workers |-> Idle]
    /\ lock = [p \in 0..NumWorkers - 1 |-> 0]
    /\ dead = "none"
    /\ \E sc \in Scenarios : opts = sc[1] /\ left = sc[2] /\ tl_hack = sc[3]
    /\ last_no_o_ids = [w \in Workers |-> [d \in Districts |-> 0]]
    /\ district_ids = [wd \in Warehouses \X Districts |-> NumCustomers + 1]

Step(w) == Begin(w) \/ Retry(w) \/ Body(w) \/ Remember(w) \/ Engine(w)
Next == \E w \in Workers : Step(w)

Spec == Init /\ [][Next]_vars

-----------------------------------------------------------------------------
(* Properties.                                                             *)

Named(t) == {k \in DOMAIN db : k[1] = t}

\* Workers and rows are always in a known state: a transaction that is inside
\* holds the locks it asked for, and everyone else holds none.
TpccTypeOK ==
    /\ \A w \in Workers : ses[w].at \in {"idle", "retry", "locking", "in"}
    /\ \A p \in DOMAIN lock : lock[p] # 0 => ses[lock[p]].at \in {"locking", "in"}
    /\ \A w \in Workers : Inside(w) => \A p \in Range(LocksOf(ses[w].txn, ses[w].in)) : lock[p] = w
    /\ tl_hack \in [Workers -> Nat]

\* Payments of all workers, committed or given up half way, leave every
\* warehouse's w_ytd the sum of its districts' d_ytd (txn_payment).
YtdAgrees ==
    \A wh \in Warehouses :
        db[<<"warehouse", wh>>].w_ytd
            = MapThenSumSet(LAMBDA d : db[<<"district", wh, d>>].d_ytd, Districts)

\* txn_new_order numbers the orders of a district without gap or repetition
\* from d_next_o_id; with the fast generator ids may be skipped, never reused.
OrdersNumbered ==
    \A wh \in Warehouses, d \in Districts :
        LET ids == {k[4] : k \in {x \in Named("oorder") : x[2] = wh /\ x[3] = d}}
        IN IF opts.fast THEN ids \subseteq 1..district_ids[wh, d] - 1
                        ELSE ids = 1..db[<<"district", wh, d>>].d_next_o_id - 1

\* An order, its lines, and its entry in the customer's index come and go
\* together: each order has exactly o_ol_cnt lines, no line lacks an order.
OrdersWhole ==
    LET orders == Named("oorder")
        lines == Named("order_line")
        index == Named("oorder_c_id_idx")
    IN /\ \A k \in lines : <<"oorder", k[2], k[3], k[4]>> \in orders
       /\ Cardinality(lines) = MapThenSumSet(LAMBDA k : db[k].o_ol_cnt, orders)
       /\ \A k \in orders : \A n \in 1..db[k].o_ol_cnt : <<"order_line", k[2], k[3], k[4], n>> \in lines
       /\ index = {<<"oorder_c_id_idx", k[2], k[3], db[k].o_c_id, k[4]>> : k \in orders}

\* An order has a carrier exactly when it has left new_order, whichever workers
\* try to deliver it.
DeliveredOnce ==
    /\ \A k \in Named("oorder") :
          (db[k].o_carrier_id = 0) <=> <<"new_order", k[2], k[3], k[4]>> \in DOMAIN db
    /\ \A k \in Named("new_order") : <<"oorder", k[2], k[3], k[4]>> \in DOMAIN db

\* A customer's c_balance is what was delivered to them less what they paid,
\* although Delivery, Payment and CreditCheck each rewrite the whole row.
BalanceAgrees ==
    LET done == {k \in Named("order_line") : db[<<"oorder", k[2], k[3], k[4]>>].o_carrier_id # 0}
        buyer(k) == <<"customer", k[2], k[3], db[<<"oorder", k[2], k[3], k[4]>>].o_c_id>>
    IN \A c \in Named("customer") :
          db[c].c_balance + db[c].c_ytd_payment
              = MapThenSumSet(LAMBDA k : IF buyer(k) = c THEN db[k].ol_amount ELSE 0, done)

\* The unsigned subtraction in txn_new_order never wraps: every s_quantity any
\* transaction commits is one the loader could have drawn.
StockInRange == \A k \in Named("stock") : db[k].s_quantity \in 10..100

\* The ALWAYS_ASSERTs about rows other transactions write hold on every
\* snapshot, except the ones that depend on the mix (a district without new
\* orders) and the start row of the micro-benchmark.
AssertsHold == dead \in {"none", "no new order", "warehouse out of range"}

\* Partition locks are taken in one order by everyone: the workers spinning in
\* multilock() never wait for each other in a circle.
WaitsFor(w) == IF ses[w].at = "locking" /\ ses[w].want # <<>> THEN lock[Head(ses[w].want)] ELSE 0
NoLockCycle == \A circle \in SUBSET Workers \ {{}} : \E w \in circle : WaitsFor(w) \notin circle

\* abstract_ordered_index::insert "is only to be used when you can guarantee no
\* such key exists": no transaction inserts a row it can see.
InsertIsNew ==
    \A w \in Workers : Inside(w) /\ ses[w].todo # <<>> =>
        (Call(w).call = "insert" => ~Exists(w, Call(w).key))

\* The consistency conditions of the TPC-C tables, whatever aborts, is retried
\* or runs at the same time.
TpccConsistent ==
    /\ TpccTypeOK /\ YtdAgrees /\ OrdersNumbered /\ OrdersWhole /\ DeliveredOnce
    /\ BalanceAgrees /\ StockInRange /\ AssertsHold /\ NoLockCycle
=============================================================================
