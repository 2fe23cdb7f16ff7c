-------------------------------- MODULE Tpce --------------------------------
(***************************************************************************)
(* The TPC-E benchmark (src/benchmarks/tpce.cc, MEESUT.h): a brokerage.    *)
(* Trade-Order enters a trade; a market emulator private to the worker     *)
(* answers later with Trade-Result and Market-Feed inputs, put in two      *)
(* queues the worker takes from; the other transactions read and touch up  *)
(* what those three wrote.                                                 *)
(*                                                                         *)
(* Prices, quantities, charges and commissions are small whole numbers,    *)
(* time is the number of attempts so far (loaded trades are of time 0),    *)
(* and the tables no transaction writes are a set of row names, Fixed.     *)
(* The emulator's clock is a choice: at each submission any of its timers  *)
(* may turn out to have expired.                                           *)
(***************************************************************************)
EXTENDS Workload

CONSTANTS
    Accounts, Symbols,    \* numbers; customer and broker 1 own and serve all
    LoadedTrades,         \* <<account, symbol, is_cash>> of the initial trades, quantity 1 bought
    Permissions,          \* <<account, person>> in the order the generator yields them
    Quotes,               \* the prices the market moves between
    FeedLen,              \* entries of a Market-Feed input (max_feed_len, 20)
    MaxUpdates,           \* rows a Trade-Update changes
    Scenarios             \* <<options, attempts, orders entered before>>

VARIABLES
    mee,                  \* per worker: the market emulator
    mf, tr,               \* per worker: the MarketFeed and TradeResult input buffers
    lastTradeId, last_list,
    resent,               \* history: trades sent by a MarketFeed that then aborted
    lost                  \* history: trades whose result was deleted by an abort

own == <<mee, mf, tr, lastTradeId, last_list, resent, lost>>
vars == <<db, ses, lock, dead, left, opts, own>>

TradeTypes == {"TMB", "TMS", "TLB", "TLS", "TSL"}
IsMarket(tt) == tt \in {"TMB", "TMS"}
IsSell(tt) == tt \in {"TMS", "TLS", "TSL"}
Charge == 1
Commission == 1

-----------------------------------------------------------------------------
(* The loaders.  First the tables nothing writes afterwards: row names.    *)

ChargeRows == {"charge"} \X TradeTypes
CommissionRateRows == {"commission_rate"} \X TradeTypes
ExchangeRows == {<<"exchange", 1>>}
IndustryRows == {<<"industry", 1>>, <<"in_name_index", 1>>, <<"in_sc_id_index", 1, 1>>}
SectorRows == {<<"sector", 1>>}
StatusTypeRows == {"status_type"} \X {"SBMT", "PNDG", "CMPT"}
TaxRateRows == {<<"tax_rate", 1>>}
TradeTypeRows == {"trade_type"} \X TradeTypes
ZipCodeRows == {<<"zip_code", 1>>}
AddressRows == {<<"address", 1>>}
CustomerRows == {<<"customers", 1>>, <<"c_tax_id_index", 1, 1>>}
CustomerTaxrateRows == {<<"customer_taxrate", 1, 1>>}
WatchRows == {<<"watch_list", 1, 1>>} \cup {<<"watch_item", 1, s>> : s \in Symbols}
CompanyRows == {"company", "co_name_index", "co_in_id_index"} \X Symbols
CompetitorRows == {"company_competitor"} \X Symbols
DailyMarketRows == {"daily_market"} \X Symbols
FinancialRows == {"financial"} \X Symbols
NewsRows == {"news_item", "news_xref"} \X Symbols
SecurityRows == {"security", "security_index"} \X Symbols

\* The permissions of a batch are counted by its accounts: the loop over
\* accountPermissionBuffer stops after customerAccountBuffer.getSize() rows.
PermissionRows ==
    {<<"account_permission">> \o Permissions[i] :
         i \in 1..Min({Cardinality(Accounts), Len(Permissions)})}

Fixed ==
    UNION {ChargeRows, CommissionRateRows, ExchangeRows, IndustryRows, SectorRows,
           StatusTypeRows, TaxRateRows, TradeTypeRows, ZipCodeRows, AddressRows, CustomerRows,
           CustomerTaxrateRows, WatchRows, CompanyRows, CompetitorRows, DailyMarketRows,
           FinancialRows, NewsRows, SecurityRows, PermissionRows}

(* Then the tables the transactions write.                                 *)

Rows(names, value(_)) == [k \in names |-> value(k)]
Loaded1 == 1..Len(LoadedTrades)
TradeVal(ca, s, tt, st, dts, qty, bid, cash, lifo) ==
    [ca |-> ca, s |-> s, tt |-> tt, st |-> st, dts |-> dts, qty |-> qty, bid |-> bid,
     cash |-> cash, lifo |-> lifo, exec |-> " "]

AccountRows ==
    Rows({"customer_account"} \X Accounts, LAMBDA k : 0)
    @@ Rows({<<"ca_id_index", 1, ca>> : ca \in Accounts}, LAMBDA k : 0)

LastTradeRows == Rows({"last_trade"} \X Symbols, LAMBDA k : 1)

\* populate_unit_trade: a trade with its two index rows, its history,
\* settlement, cash transaction and holding history.
UnitTradeRows(t) ==
    LET ca == LoadedTrades[t][1]
        s == LoadedTrades[t][2]
        cash == LoadedTrades[t][3]
    IN (<<"trade", t>> :> TradeVal(ca, s, "TMB", "CMPT", 0, 1, 1, cash, FALSE))
       @@ Rows({<<"t_ca_id_index", ca, 0, t>>, <<"t_s_symb_index", s, 0, t>>},
               LAMBDA k : [st |-> "CMPT", exec |-> " "])
       @@ Rows({<<"trade_history", t, 0, "CMPT">>, <<"holding_history", t, t>>}, LAMBDA k : 0)
       @@ (<<"settlement", t>> :> [amt |-> -3, type |-> "Account"])
       @@ (IF cash THEN <<"cash_transaction", t>> :> [amt |-> -3, name |-> "shares"] ELSE <<>>)

BrokerRows == Rows({<<"broker", 1>>}, LAMBDA k : [comm |-> 0, n |-> Len(LoadedTrades)])
HoldingSummaryRows ==
    Rows({<<"holding_summary", LoadedTrades[t][1], LoadedTrades[t][2]>> : t \in Loaded1},
         LAMBDA k : Cardinality({t \in Loaded1 : LoadedTrades[t][1] = k[2] /\ LoadedTrades[t][2] = k[3]}))
HoldingRows ==
    Rows({<<"holding", LoadedTrades[t][1], LoadedTrades[t][2], 0, t>> : t \in Loaded1}, LAMBDA k : 1)

Loaded ==
    FoldSet(LAMBDA t, rows : UnitTradeRows(t) @@ rows,
            AccountRows @@ LastTradeRows @@ BrokerRows @@ HoldingSummaryRows @@ HoldingRows, Loaded1)

-----------------------------------------------------------------------------
(* The market emulator.  An order is [trade, s, bid, tt].                  *)

NewMee == [orders |-> {}, waiting |-> {}, money |-> <<>>, batch |-> <<>>]

\* CMEETickerTape::AddToBatch: a full batch becomes a MarketFeed input.
AddToBatch(m, e) ==
    LET batch == Append(m.mee.batch, e)
    IN IF Len(batch) < FeedLen THEN [m EXCEPT !.mee.batch = batch]
       ELSE [m EXCEPT !.mee.batch = <<>>, !.mf = Append(@, batch)]

\* AddEntry: the entry, then one more: a limit order that came into the money
\* if there is one, else an artificial one.
AddEntry(m, e, noise) ==
    LET m1 == AddToBatch(m, e)
    IN IF m1.mee.money = <<>> THEN AddToBatch(m1, noise)
       ELSE AddToBatch([m1 EXCEPT !.mee.money = Tail(@)], Head(m1.mee.money))

\* CMEETradingFloor::SendTradeResult: the Trade-Result input and the ticker.
\* A limit order is never settled at worse than its own price.
SettlePrice(o, quote) ==
    IF (o.tt = "TLB" /\ o.bid < quote) \/ (o.tt = "TLS" /\ o.bid > quote) THEN o.bid ELSE quote
SendTradeResult(m, o, noise) ==
    AddEntry([m EXCEPT !.mee.orders = @ \ {o},
                       !.tr = Append(@, [trade |-> o.trade, price |-> SettlePrice(o, noise.quote)])],
             [s |-> o.s, quote |-> noise.quote], noise)

Expired(m, gone, noise) == FoldSet(LAMBDA o, n : SendTradeResult(n, o, noise), m, gone)

\* SubmitTradeRequest, eMEEProcessOrder: the expired orders first, then the
\* new one waits its turn.
ProcessOrder(m, o, gone, noise) ==
    LET m1 == Expired(m, gone, noise)
    IN [m1 EXCEPT !.mee.orders = @ \cup {o}]

\* eMEESetLimitOrderTrigger: limit orders whose price is reached move to the
\* ticker's queue, perhaps the new one; then the trading floor's timers.
SetLimitTrigger(m, o, ripe, gone, noise) ==
    LET m1 == [m EXCEPT !.mee.waiting = (@ \cup {o}) \ ripe,
                        !.mee.money = FoldSet(LAMBDA x, q : Append(q, [s |-> x.s, quote |-> x.bid]),
                                              @, ripe)]
    IN Expired(m1, gone, noise)

\* SendToMarket of worker w, for every way the timers may have run.
SendToMarket(w, o, limit) ==
    \E gone \in SUBSET mee[w].orders, noise \in [s : Symbols, quote : Quotes],
       ripe \in IF limit THEN SUBSET (mee[w].waiting \cup {o}) ELSE {{}} :
        LET m == [mee |-> mee[w], mf |-> mf[w], tr |-> tr[w]]
            n == IF limit THEN SetLimitTrigger(m, o, ripe, gone, noise)
                          ELSE ProcessOrder(m, o, gone, noise)
        IN /\ mee' = [mee EXCEPT ![w] = n.mee]
           /\ mf' = [mf EXCEPT ![w] = n.mf]
           /\ tr' = [tr EXCEPT ![w] = n.tr]

-----------------------------------------------------------------------------
(* The transactions, as the calls they make on snapshot s.                 *)

\* try_verify_relax and the ALWAYS_ASSERTs on scans: the rows must be there.
Need(s, rows) == IF \A k \in rows : k \in Fixed \/ k \in DOMAIN s THEN <<>> ELSE <<Die("row missing")>>
Table(s, t) == {k \in DOMAIN s : k[1] = t}

\* Scans of the two trade indexes between two times.
TradesOf(s, ca, from, to) ==
    SetToSortSeq({k \in Table(s, "t_ca_id_index") : k[2] = ca /\ k[3] >= from /\ k[3] <= to},
                 LAMBDA a, b : a[3] < b[3] \/ (a[3] = b[3] /\ a[4] < b[4]))
TradesIn(s, symb, from, to) ==
    SetToSortSeq({k \in Table(s, "t_s_symb_index") : k[2] = symb /\ k[3] >= from /\ k[3] <= to},
                 LAMBDA a, b : a[3] < b[3] \/ (a[3] = b[3] /\ a[4] < b[4]))
HasHistory(s, t) == \E k \in Table(s, "trade_history") : k[2] = t

\* The two index rows of trade t: their keys hold t_dts, so a new time means
\* a new key ("insert after remove").
IndexKeys(t, v) == << <<"t_ca_id_index", v.ca, v.dts, t>>, <<"t_s_symb_index", v.s, v.dts, t>> >>
IndexVal(v) == [st |-> v.st, exec |-> v.exec]

\* Mutant: the index on the symbol is not moved.
MutMoveTrade(t, old, new) ==
    <<Put(<<"trade", t>>, new),
      Delete(IndexKeys(t, old)[1]), Insert(IndexKeys(t, new)[1], IndexVal(new)),
      Insert(<<"trade_history", t, new.dts, new.st>>, 0)>>

MoveTrade(t, old, new) ==
    <<Put(<<"trade", t>>, new),
      Delete(IndexKeys(t, old)[1]), Insert(IndexKeys(t, new)[1], IndexVal(new)),
      Delete(IndexKeys(t, old)[2]), Insert(IndexKeys(t, new)[2], IndexVal(new)),
      Insert(<<"trade_history", t, new.dts, new.st>>, 0)>>

\* Trade-Order.  Frame 2 only for an executor who is not the owner (person 1);
\* without the permission's row the harness rolls back in frame 5, as it does
\* when the input says so.
Permitted(s, in) == in.who = 1 \/ <<"account_permission", in.ca, in.who>> \in Fixed

\* Frame 1, and the reads of frame 3: the security with its price, then the
\* rates behind the estimates.
OwnerRead(in) == {<<"customer_account", in.ca>>, <<"customers", 1>>, <<"broker", 1>>}
SecurityRead(in) == {<<"co_name_index", in.s>>, <<"security_index", in.s>>, <<"security", in.s>>,
                     <<"company", in.s>>, <<"last_trade", in.s>>, <<"trade_type", in.tt>>}
RatesRead(in) == {<<"customer_taxrate", 1, 1>>, <<"tax_rate", 1>>, <<"commission_rate", in.tt>>,
                  <<"charge", in.tt>>}

\* Frame 4: a market order is submitted at once, any other waits as a request.
EnterTrade(in, id, now) ==
    LET v == TradeVal(in.ca, in.s, in.tt, IF IsMarket(in.tt) THEN "SBMT" ELSE "PNDG", now,
                      in.qty, in.bid, in.cash, in.lifo)
    IN <<Insert(<<"trade", id>>, v),
         Insert(IndexKeys(id, v)[1], IndexVal(v)), Insert(IndexKeys(id, v)[2], IndexVal(v))>>
       \o (IF IsMarket(in.tt) THEN <<>>
           ELSE <<Insert(<<"trade_request", in.s, 1, id>>, [tt |-> in.tt, bid |-> in.bid])>>)
       \o <<Insert(<<"trade_history", id, now, v.st>>, 0)>>

TradeOrder(s, in, id, now) ==
    Need(s, OwnerRead(in)) \o
    (IF ~Permitted(s, in) THEN <<GiveUp>>
     ELSE Need(s, SecurityRead(in) \cup RatesRead(in)) \o EnterTrade(in, id, now)
          \o (IF in.rollback THEN <<GiveUp>> ELSE <<>>))

\* Trade-Result, frame 2.  sg * x is the holding as seen by the trade: positive
\* when the trade closes it.  The holdings are consumed oldest first, or
\* youngest first for t_lifo.
HoldingsOf(s, ca, symb, lifo) ==
    LET h == SetToSortSeq({k \in Table(s, "holding") : k[2] = ca /\ k[3] = symb},
                          LAMBDA a, b : a[4] < b[4] \/ (a[4] = b[4] /\ a[5] < b[5]))
    IN IF lifo THEN Reverse(h) ELSE h

Consume(acc, s, k, t, sg) ==
    LET hold == sg * s[k]
        hh == Insert(<<"holding_history", t, k[5]>>, 0)
    IN IF acc.needed = 0 THEN acc
       ELSE IF hold > acc.needed
       THEN [needed |-> 0, calls |-> acc.calls \o <<hh, Put(k, s[k] - (sg * acc.needed))>>]
       ELSE [needed |-> acc.needed - hold, calls |-> acc.calls \o <<hh, Delete(k)>>]

MoveHoldings(s, t, v, now) ==
    LET sg == IF IsSell(v.tt) THEN 1 ELSE -1
        k_hs == <<"holding_summary", v.ca, v.s>>
        hs_qty == IF k_hs \in DOMAIN s THEN s[k_hs] ELSE 0
        summary == IF hs_qty = 0 THEN <<Insert(k_hs, -sg * v.qty)>>
                   ELSE IF sg * hs_qty # v.qty THEN <<Put(k_hs, hs_qty - (sg * v.qty))>>
                   ELSE <<>>
        held == HoldingsOf(s, v.ca, v.s, v.lifo)
        used == FoldLeft(LAMBDA acc, k : Consume(acc, s, k, t, sg), [needed |-> v.qty, calls |-> <<>>],
                         IF sg * hs_qty > 0 THEN held ELSE <<>>)
        left_over == SelectSeq(held, LAMBDA k : \A i \in DOMAIN used.calls : used.calls[i] # Delete(k))
        rest == IF used.needed > 0
                THEN <<Insert(<<"holding_history", t, t>>, 0),
                       Insert(<<"holding", v.ca, v.s, now, t>>, -sg * used.needed)>>
                ELSE IF sg * hs_qty = v.qty
                THEN <<Delete(k_hs)>> \o [i \in DOMAIN left_over |-> Delete(left_over[i])]
                ELSE <<>>
    IN summary \o used.calls \o rest

\* Frame 5: the trade is completed and the broker paid.
CompleteTrade(s, t, v, now) ==
    MoveTrade(t, v, [v EXCEPT !.dts = now, !.st = "CMPT"])
    \o <<Put(<<"broker", 1>>, [s[<<"broker", 1>>] EXCEPT !.comm = @ + Commission, !.n = @ + 1])>>

\* Frame 6.
Settle(s, t, v, amount) ==
    LET k_ca == <<"customer_account", v.ca>>
    IN <<Insert(<<"settlement", t>>, [amt |-> amount, type |-> "Account"])>>
       \o (IF v.cash
           THEN <<Put(k_ca, s[k_ca] + amount), Put(<<"ca_id_index", 1, v.ca>>, s[k_ca] + amount),
                  Insert(<<"cash_transaction", t>>, [amt |-> amount, name |-> "shares"])>>
           ELSE <<>>)

\* Frames 1 and 4 read.  The tax of frame 3 is never asked for: frame 2 leaves
\* buy_value and sell_value of its output at 0.
TradeResult(s, in, now) ==
    LET k_t == <<"trade", in.trade>>
        v == s[k_t]
        amount == IF IsSell(v.tt) THEN (v.qty * in.price) - Charge - Commission
                                  ELSE -((v.qty * in.price) + Charge + Commission)
        reads == {<<"trade_type", v.tt>>, <<"customer_account", v.ca>>, <<"security", v.s>>,
                  <<"customers", 1>>, <<"commission_rate", v.tt>>, <<"broker", 1>>}
    IN IF k_t \notin DOMAIN s THEN <<Die("no trade")>>
       ELSE Need(s, reads) \o MoveHoldings(s, in.trade, v, now) \o CompleteTrade(s, in.trade, v, now)
            \o Settle(s, in.trade, v, amount)

\* Market-Feed: one transaction over all entries.  An order is sent to the
\* market as soon as its entry is done, before the commit.
Triggered(r, quote) ==
    \/ r.tt \in {"TSL", "TLB"} /\ r.bid >= quote
    \/ r.tt = "TLS" /\ r.bid <= quote

Applied(s, c) ==
    IF c.call \notin {"put", "insert"} THEN s
    ELSE IF c.val = <<>> THEN [k \in DOMAIN s \ {c.key} |-> s[k]]
    ELSE (c.key :> c.val[1]) @@ s

SubmitRequest(s, k, now) ==
    LET v == s[<<"trade", k[4]>>]
    IN Need(s, {<<"trade", k[4]>>})
       \o MoveTrade(k[4], v, [v EXCEPT !.dts = now, !.st = "SBMT"]) \o <<Delete(k)>>

FeedEntry(acc, e, now) ==
    LET s == acc.s
        k_lt == <<"last_trade", e.s>>
        hits == SetToSortSeq({k \in Table(s, "trade_request") : k[2] = e.s /\ Triggered(s[k], e.quote)},
                             LAMBDA a, b : a[4] < b[4])
        sends == [i \in DOMAIN hits |-> Note("send", [trade |-> hits[i][4], s |-> e.s,
                                                     bid |-> s[hits[i]].bid, tt |-> s[hits[i]].tt])]
        calls == <<Put(k_lt, s[k_lt] + e.quote)>> \o FlattenSeq([i \in DOMAIN hits |-> SubmitRequest(s, hits[i], now)])
                 \o sends
    IN [s |-> FoldLeft(Applied, s, calls), calls |-> acc.calls \o calls]

MarketFeed(s, in, now) ==
    FoldLeft(LAMBDA acc, e : FeedEntry(acc, e, now), [s |-> s, calls |-> <<>>], in.entries).calls

\* The read-only transactions: which asserted row could be missing.
BrokerVolume(s) ==
    Need(s, {<<"sector", 1>>, <<"in_sc_id_index", 1, 1>>}
            \cup ({"co_in_id_index", "security_index"} \X Symbols))

AllTradesOf(s, ca) == TradesOf(s, ca, 0, opts.horizon)

\* Frame 2, when the input asks for the history.
PositionHistory(s, ca) ==
    IF AllTradesOf(s, ca) = <<>> THEN <<Die("account without trade")>>
    ELSE IF \A k \in Range(AllTradesOf(s, ca)) : HasHistory(s, k[4]) THEN <<>>
    ELSE <<Die("trade without history")>>

\* The generator's tax id may belong to nobody.
CustomerPosition(s, in) ==
    IF in.tax # 1 THEN <<GiveUp>>
    ELSE Need(s, {<<"customers", 1>>} \cup {<<"ca_id_index", 1, ca>> : ca \in Accounts}
                 \cup {<<"last_trade", k[3]>> : k \in Table(s, "holding_summary")})
         \o (IF in.history THEN PositionHistory(s, in.ca) ELSE <<>>)

MarketWatch(s, in) ==
    CASE in.by = "customer" -> Need(s, {<<"watch_list", 1, 1>>} \cup {<<"watch_item", 1, x>> : x \in Symbols})
      [] in.by = "industry" -> Need(s, {<<"in_name_index", 1>>} \cup ({"company", "security"} \X Symbols))
      [] OTHER -> <<>>

\* The company and where it is; then its competitors, figures, prices and news.
CompanyRead(x) == {<<"security", x>>, <<"company", x>>, <<"address", 1>>, <<"zip_code", 1>>, <<"exchange", 1>>}
DetailRead(x) == ({"company_competitor", "financial", "daily_market", "last_trade", "news_xref", "news_item"}
                     \X {x}) \cup {<<"industry", 1>>}
SecurityDetail(s, in) == Need(s, CompanyRead(in.s) \cup DetailRead(in.s))

\* What Trade-Lookup and Trade-Update want of every trade they return.
Settled(s, t) ==
    /\ <<"settlement", t>> \in DOMAIN s
    /\ s[<<"trade", t>>].cash => <<"cash_transaction", t>> \in DOMAIN s
    /\ HasHistory(s, t)

AllSettled(s, trades) == IF \A t \in trades : Settled(s, t) THEN <<>> ELSE <<Die("trade not settled")>>
LookupIds(s) == AllSettled(s, Loaded1)
LookupAccount(s, ca) ==
    LET rows == TradesOf(s, ca, 0, 0)
    IN IF rows = <<>> THEN <<Die("no trade of account")>> ELSE AllSettled(s, {k[4] : k \in Range(rows)})
LookupSymbol(s, symb) ==
    LET rows == TradesIn(s, symb, 0, 0)
    IN IF rows = <<>> THEN <<Die("no trade of symbol")>> ELSE AllSettled(s, {k[4] : k \in Range(rows)})
\* The first trade at or after a time must have moved a holding.
LookupHolding(s, ca, from) ==
    LET rows == TradesOf(s, ca, from, opts.horizon)
    IN IF rows = <<>> THEN <<GiveUp>>
       ELSE IF \E k \in Table(s, "holding_history") : k[2] = Head(rows)[4] THEN <<>>
       ELSE <<Die("no holding history")>>

TradeLookup(s, in) ==
    CASE in.frame = 1 -> LookupIds(s)
      [] in.frame = 2 -> LookupAccount(s, in.ca)
      [] in.frame = 3 -> LookupSymbol(s, in.s)
      [] OTHER -> LookupHolding(s, in.ca, in.from)

TradeStatus(s, in) ==
    LET rows == Range(AllTradesOf(s, in.ca))
    IN IF rows = {} THEN <<Die("account without trade")>>
       ELSE Need(s, {<<"customer_account", in.ca>>, <<"customers", 1>>, <<"broker", 1>>, <<"exchange", 1>>}
                    \cup {<<"status_type", s[k].st>> : k \in rows}
                    \cup {<<"trade_type", s[<<"trade", k[4]>>].tt>> : k \in rows})

\* Trade-Update.  Frame 1 flips the executor's name in the trade and in both
\* indexes; frames 2 and 3 count the trades found one short and leave the last.
Flip(x, a, b) == IF x = a THEN b ELSE a
AllButLast(q) == IF q = <<>> THEN <<>> ELSE Front(q)
UpTo(n, q) == SubSeq(q, 1, Min({n, Len(q)}))

Rename(s, t) ==
    LET v == [s[<<"trade", t>>] EXCEPT !.exec = Flip(@, " ", "X")]
    IN <<Put(<<"trade", t>>, v), Put(IndexKeys(t, v)[1], IndexVal(v)), Put(IndexKeys(t, v)[2], IndexVal(v))>>

UpdateNames(s, trades) ==
    IF \E t \in Range(trades) : ~Settled(s, t) THEN <<Die("trade not settled")>>
    ELSE FlattenSeq([i \in DOMAIN UpTo(MaxUpdates, trades) |-> Rename(s, trades[i])])

Found(rows) == AllButLast([i \in DOMAIN rows |-> rows[i][4]])
UpdateSettlements(s, rows) ==
    LET todo == UpTo(MaxUpdates, Found(rows))
        k(i) == <<"settlement", todo[i]>>
    IN IF rows = <<>> THEN <<Die("no trade")>>
       ELSE IF \E t \in Range(Found(rows)) : ~Settled(s, t) THEN <<Die("trade not settled")>>
       ELSE [i \in DOMAIN todo |-> Put(k(i), [s[k(i)] EXCEPT !.type = Flip(@, "Account", "")])]
UpdateCash(s, rows) ==
    LET todo == UpTo(MaxUpdates, SelectSeq(Found(rows), LAMBDA t : s[<<"trade", t>>].cash))
        k(i) == <<"cash_transaction", todo[i]>>
    IN IF rows = <<>> THEN <<Die("no trade")>>
       ELSE IF \E t \in Range(Found(rows)) : ~Settled(s, t) THEN <<Die("trade not settled")>>
       ELSE [i \in DOMAIN todo |-> Put(k(i), [s[k(i)] EXCEPT !.name = Flip(@, "shares", "Shares")])]

TradeUpdate(s, in) ==
    CASE in.frame = 1 -> UpdateNames(s, in.trades)
      [] in.frame = 2 -> UpdateSettlements(s, TradesOf(s, in.ca, 0, 0))
      [] OTHER -> UpdateCash(s, TradesIn(s, in.s, 0, 0))

\* The accounts scanned exist and so do the prices of what they hold.
LongQuery(s, id) ==
    Need(s, ({"customer_account"} \X Accounts) \cup {<<"last_trade", k[3]>> : k \in Table(s, "holding_summary")})
    \o <<Insert(<<"assets_history", id>>, 0)>>

-----------------------------------------------------------------------------
(* The worker.                                                             *)

Now == opts.horizon - left

\* What the generator draws; lookups and updates range over the initial trades.
Inputs(txn, w) ==
    CASE txn = "TradeOrder" -> opts.orders
      [] txn = "CustomerPosition" -> [tax : {1, 2}, ca : Accounts, history : BOOLEAN]
      [] txn = "MarketWatch" -> [by : {"customer", "industry", "account"}]
      [] txn = "SecurityDetail" -> [s : Symbols]
      [] txn = "TradeLookup" -> [frame : 1..4, ca : Accounts, s : Symbols, from : 0..1]
      [] txn = "TradeStatus" -> [ca : Accounts]
      [] txn = "TradeUpdate" -> [frame : 1..3, ca : Accounts, s : Symbols, trades : {<<1>>, <<2, 1>>}]
      [] OTHER -> {<<>>}

\* The calls of transaction txn started now.
Calls(txn, s, in) ==
    CASE txn = "TradeOrder" -> TradeOrder(s, in, lastTradeId + 1, Now)
      [] txn = "TradeResult" -> TradeResult(s, in, Now)
      [] txn = "MarketFeed" -> MarketFeed(s, in, Now)
      [] txn = "BrokerVolume" -> BrokerVolume(s)
      [] txn = "CustomerPosition" -> CustomerPosition(s, in)
      [] txn = "MarketWatch" -> MarketWatch(s, in)
      [] txn = "SecurityDetail" -> SecurityDetail(s, in)
      [] txn = "TradeLookup" -> TradeLookup(s, in)
      [] txn = "TradeStatus" -> TradeStatus(s, in)
      [] txn = "TradeUpdate" -> TradeUpdate(s, in)
      [] OTHER -> LongQuery(s, last_list + 1)

\* trade_result and market_feed take their input off the queue first.
Take(w, txn) ==
    CASE txn = "TradeResult" ->
           /\ tr[w] # <<>>
           /\ BeginTxn(w, txn, Head(tr[w]), <<>>)
           /\ tr' = [tr EXCEPT ![w] = Tail(@)]
           /\ UNCHANGED mf
      [] txn = "MarketFeed" ->
           /\ mf[w] # <<>>
           /\ BeginTxn(w, txn, [entries |-> Head(mf[w])], <<>>)
           /\ mf' = [mf EXCEPT ![w] = Tail(@)]
           /\ UNCHANGED tr
      [] OTHER ->
           /\ \E in \in Inputs(txn, w) : BeginTxn(w, txn, in, <<>>)
           /\ UNCHANGED <<mf, tr>>

Begin(w) ==
    /\ ses[w].at = "idle"
    /\ \E txn \in opts.mix : Take(w, txn)
    /\ UNCHANGED <<mee, lastTradeId, last_list, resent, lost>>

\* A retry calls the same transaction again, which draws or takes new inputs.
Retry(w) ==
    /\ ses[w].at = "retry"
    /\ Take(w, ses[w].txn)
    /\ UNCHANGED <<mee, lastTradeId, last_list, resent, lost>>

\* The queue is empty: a user abort before any transaction has begun.
NothingToTake(w) ==
    /\ dead = "none" /\ left > 0
    /\ \E txn \in (IF ses[w].at = "idle" THEN opts.mix ELSE {ses[w].txn}) :
          \/ txn = "TradeResult" /\ tr[w] = <<>>
          \/ txn = "MarketFeed" /\ mf[w] = <<>>
    /\ ses[w].at \in {"idle", "retry"}
    /\ left' = left - 1
    /\ ses' = [ses EXCEPT ![w] = Idle]
    /\ UNCHANGED <<db, lock, dead, opts, own>>

\* GetLastTradeID and GetLastListID: taken for good, whatever becomes of the
\* transaction.
Body(w) ==
    LET txn == ses[w].txn
        in == ses[w].in
    IN /\ StartBody(w, Calls(txn, ses[w].snap, in))
       /\ lastTradeId' = IF txn = "TradeOrder" THEN (IF Permitted(ses[w].snap, in) THEN lastTradeId + 1
                                                      ELSE lastTradeId)
                         ELSE lastTradeId
       /\ last_list' = IF txn = "LongQuery" THEN last_list + 1 ELSE last_list
       /\ UNCHANGED <<mee, mf, tr, resent, lost>>

\* SendToMarketFromFrame, in the middle of Market-Feed.
SendFromFrame(w) ==
    /\ dead = "none" /\ Inside(w) /\ ses[w].todo # <<>>
    /\ Call(w).call = "note"
    /\ SendToMarket(w, Call(w).val[1], FALSE)
    /\ ses' = [ses EXCEPT ![w] = Next1(w)]
    /\ UNCHANGED <<db, lock, dead, left, opts, lastTradeId, last_list, resent, lost>>

WroteTrades(w) == {k[2] : k \in {x \in DOMAIN ses[w].wrote : x[1] = "trade"}}
Order(in, t) == [trade |-> t, s |-> in.s, bid |-> in.bid, tt |-> in.tt]

\* commit_txn; Trade-Order's harness then sends the order it has entered.
Commit(w) ==
    /\ CommitTxn(w)
    /\ IF ses[w].txn = "TradeOrder"
       THEN \E t \in WroteTrades(w) :
               SendToMarket(w, Order(ses[w].in, t), ~IsMarket(ses[w].in.tt))
       ELSE UNCHANGED <<mee, mf, tr>>
    /\ UNCHANGED <<lastTradeId, last_list, resent, lost>>

\* An abort undoes the rows, not what was sent, and the input is deleted.
Abort(w) ==
    LET todo == ses[w].todo
        unsent == {todo[i].val[1].trade : i \in {j \in DOMAIN todo : todo[j].call = "note"}}
    IN /\ AbortTxn(w)
       /\ resent' = IF ses[w].txn = "MarketFeed" THEN resent \cup (WroteTrades(w) \ unsent) ELSE resent
       /\ lost' = IF ses[w].txn = "TradeResult" THEN lost \cup {ses[w].in.trade} ELSE lost
       /\ UNCHANGED <<mee, mf, tr, lastTradeId, last_list>>

Engine(w) == (Write(w) \/ FailAssert(w)) /\ UNCHANGED own

\* The orders entered before the run starts to be watched, each committed and
\* sent like those of Trade-Order: [w, in, ripe, flush].
WarmUp(acc, x) ==
    LET t == acc.id + 1
        o == Order(x.in, t)
        m == acc.m[x.w]
        gone == IF x.flush THEN m.mee.orders ELSE {}
        noise == [s |-> x.in.s, quote |-> 1]
    IN [id |-> t, db |-> FoldLeft(Applied, acc.db, TradeOrder(acc.db, x.in, t, 1)),
        m |-> [acc.m EXCEPT ![x.w] = IF IsMarket(x.in.tt) THEN ProcessOrder(m, o, gone, noise)
                                     ELSE SetLimitTrigger(m, o, IF x.ripe THEN {o} ELSE {}, gone, noise)]]

Init ==
    \E sc \in Scenarios :
        LET fresh == [mee |-> NewMee, mf |-> <<>>, tr |-> <<>>]
            warm == FoldLeft(WarmUp, [id |-> Len(LoadedTrades), db |-> Loaded,
                                      m |-> [w \in Workers |-> fresh]], sc[3])
        IN /\ opts = [horizon |-> sc[2] + 1] @@ sc[1]
           /\ left = sc[2]
           /\ db = warm.db
           /\ mee = [w \in Workers |-> warm.m[w].mee]
           /\ mf = [w \in Workers |-> warm.m[w].mf]
           /\ tr = [w \in Workers |-> warm.m[w].tr]
           /\ lastTradeId = warm.id
           /\ last_list = 0 /\ resent = {} /\ lost = {}
           /\ ses = [w \in Workers |-> Idle]
           /\ lock = <<>> /\ dead = "none"

Step(w) == Begin(w) \/ Retry(w) \/ NothingToTake(w) \/ Body(w) \/ SendFromFrame(w)
           \/ Commit(w) \/ Abort(w) \/ Engine(w)
Next == \E w \in Workers : Step(w)

Spec == Init /\ [][Next]_vars

-----------------------------------------------------------------------------
(* Properties.                                                             *)

Named(t) == {k \in DOMAIN db : k[1] = t}

\* Workers, queues and the emulator are in a known state, and no trade number
\* is ahead of the counter.
TpceTypeOK ==
    /\ \A w \in Workers : ses[w].at \in {"idle", "retry", "locking", "in"}
    /\ \A w \in Workers : Len(mee[w].batch) < FeedLen
    /\ \A w \in Workers : \A i \in DOMAIN mf[w] : Len(mf[w][i]) = FeedLen
    /\ \A k \in Named("trade") : k[2] \in 1..lastTradeId

\* What DoTradeResultFrame2 splits over three tables stays together: the
\* summary of an account and symbol is the sum of its holdings, it is there
\* exactly when the sum is not 0, and no two holdings have opposite signs.
HoldingsAgree ==
    LET held == Named("holding")
        of(ca, s) == {k \in held : k[2] = ca /\ k[3] = s}
    IN \A ca \in Accounts, s \in Symbols :
          LET sum == MapThenSumSet(LAMBDA k : db[k], of(ca, s))
              k_hs == <<"holding_summary", ca, s>>
          IN /\ (k_hs \in DOMAIN db) = (sum # 0)
             /\ k_hs \in DOMAIN db => db[k_hs] = sum
             /\ \A j, k \in of(ca, s) : db[j] * db[k] > 0

\* t_ca_id_index and t_s_symb_index hold one row per trade, under its present
\* t_dts and with its present status and executor, whoever moved it last.
TradesIndexed ==
    LET trades == Named("trade")
    IN /\ Named("t_ca_id_index") = {IndexKeys(k[2], db[k])[1] : k \in trades}
       /\ Named("t_s_symb_index") = {IndexKeys(k[2], db[k])[2] : k \in trades}
       /\ \A k \in trades : \A i \in 1..2 : db[IndexKeys(k[2], db[k])[i]] = IndexVal(db[k])

\* A trade has a request exactly while it is pending and a settlement (and, for
\* cash, a cash transaction) exactly when it is completed, unless a Market-Feed
\* that had already sent it to the market was rolled back.
BookKept ==
    \A k \in Named("trade") : k[2] \notin resent =>
        /\ (db[k].st = "PNDG") = (<<"trade_request", db[k].s, 1, k[2]>> \in DOMAIN db)
        /\ (db[k].st = "CMPT") = (<<"settlement", k[2]>> \in DOMAIN db)
        /\ (db[k].st = "CMPT" /\ db[k].cash) = (<<"cash_transaction", k[2]>> \in DOMAIN db)

\* The copy of ca_bal in ca_id_index is the balance; and as long as no trade was
\* sent to the market twice, balance and broker are the sums of what was settled.
BalanceAgrees ==
    LET paid == {k \in Named("cash_transaction") : k[2] \notin Loaded1}
    IN /\ \A ca \in Accounts : db[<<"ca_id_index", 1, ca>>] = db[<<"customer_account", ca>>]
       /\ resent = {} =>
             /\ \A ca \in Accounts :
                   db[<<"customer_account", ca>>]
                       = MapThenSumSet(LAMBDA k : IF db[<<"trade", k[2]>>].ca = ca THEN db[k].amt ELSE 0, paid)
             /\ db[<<"broker", 1>>].n = Cardinality({k \in Named("trade") : db[k].st = "CMPT"})

\* A submitted trade is not forgotten: the market holds it, or its result is in
\* a queue or in the hands of a worker, unless that result was thrown away with
\* an aborted Trade-Result.
OnItsWay ==
    \A k \in Named("trade") : db[k].st = "SBMT" /\ k[2] \notin lost \cup resent =>
        \E w \in Workers :
            \/ \E o \in mee[w].orders : o.trade = k[2]
            \/ \E i \in DOMAIN tr[w] : tr[w][i].trade = k[2]
            \/ ses[w].txn = "TradeResult" /\ ses[w].at \in {"locking", "in"} /\ ses[w].in.trade = k[2]

\* The ALWAYS_ASSERTs on rows that other transactions write hold on every
\* snapshot, but for the holdings of a trade that is not settled yet
\* (DoTradeLookupFrame4).
AssertsHold == dead \in {"none", "no holding history"}

\* The brokerage's books, whatever aborts, is retried or runs at the same time.
TpceConsistent ==
    TpceTypeOK /\ HoldingsAgree /\ TradesIndexed /\ BookKept /\ BalanceAgrees /\ OnItsWay /\ AssertsHold
=============================================================================
