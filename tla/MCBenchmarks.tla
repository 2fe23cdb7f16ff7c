---------------------------- MODULE MCBenchmarks ----------------------------
(***************************************************************************)
(* The transactions of TPC-C and of TPC-E, for TLC, one at a time.  While  *)
(* TPC-C runs, the variables of TPC-E stay empty.                          *)
(***************************************************************************)
EXTENDS Tpcc

CONSTANTS Accounts, Symbols, Quotes, FeedLen, MaxUpdates

VARIABLES part, edb, eses, elock, edead, eleft, eopts,
          mee, mf, tr, lastTradeId, last_list, resent, lost

evars == <<edb, eses, elock, edead, eleft, eopts, mee, mf, tr, lastTradeId, last_list, resent, lost>>

-----------------------------------------------------------------------------
(* TPC-C. *)

MCLastName == <<"BAR", "BAR">>
MCLines == {<< <<1, FALSE, 5>> >>, << <<1, TRUE, 10>>, <<1, TRUE, 3>> >>}
MCNation == [su \in 0..1 |-> su]
MCRegion == [n \in 0..1 |-> n]

Writers == {"NewOrder", "Payment", "Delivery"}
Default == [mix |-> Writers, locks |-> FALSE, fast |-> FALSE, spread |-> FALSE,
          retry |-> FALSE, serial |-> FALSE]
\* <<options, attempts, the clocks the worker threads start with>>
TpccScenarios ==
    {<<Default, 2, <<1, 1>> >>,
     <<[Default EXCEPT !.mix = {"NewOrder", "Delivery"}, !.locks = TRUE, !.spread = TRUE], 2, <<1, 1>> >>,
     <<[Default EXCEPT !.mix = {"NewOrder", "StockLevel", "OrderStatus"}, !.fast = TRUE, !.serial = TRUE], 2, <<1, 1>> >>,
     <<[Default EXCEPT !.mix = {"Delivery", "Payment"}, !.retry = TRUE], 3, <<1, 5>> >>,
     <<[Default EXCEPT !.mix = {"CreditCheck", "PaymentByName", "Query2", "MicroBench", "Delivery"}], 2, <<1, 1>> >>}

-----------------------------------------------------------------------------
(* TPC-E. *)

MCLoaded == << <<1, 1, TRUE>>, <<1, 1, FALSE>>, <<2, 1, TRUE>> >>
MCPermissions == << <<1, 1>>, <<1, 2>>, <<2, 1>>, <<2, 2>> >>

Buy == [ca |-> 1, s |-> 1, tt |-> "TMB", qty |-> 1, bid |-> 1, cash |-> TRUE, lifo |-> FALSE,
        who |-> 1, rollback |-> FALSE]
Sell == [Buy EXCEPT !.tt = "TMS", !.qty = 2]
Oversell == [Buy EXCEPT !.tt = "TMS", !.qty = 3, !.lifo = TRUE]
LimitSell == [Buy EXCEPT !.tt = "TLS", !.lifo = TRUE]
LimitBuy == [Buy EXCEPT !.tt = "TLB", !.ca = 2, !.cash = FALSE]
StopLoss == [Buy EXCEPT !.tt = "TSL", !.bid = 2]
Plain == [mix |-> {"TradeResult", "MarketFeed"}, orders |-> {}, retry |-> FALSE, serial |-> FALSE]
At(w, in) == [w |-> w, in |-> in, ripe |-> TRUE, flush |-> TRUE]
Late(w, in) == [w |-> w, in |-> in, ripe |-> FALSE, flush |-> FALSE]
\* <<options, attempts, the orders entered before>>
TpceScenarios ==
    {<<Plain, 3, <<At(1, Buy), At(1, LimitSell), At(2, Sell), At(2, LimitBuy)>> >>,
     <<[Plain EXCEPT !.serial = TRUE], 5, <<At(1, Oversell), At(1, StopLoss), At(1, Buy), At(1, Buy)>> >>,
     <<[Plain EXCEPT !.retry = TRUE], 3, <<At(1, Oversell), At(1, Sell), At(1, StopLoss), At(2, LimitSell), At(2, Buy),
                                                At(2, Buy)>> >>,
     <<[Plain EXCEPT !.mix = {"TradeOrder", "TradeResult"},
          !.orders = {Sell, LimitSell, [Buy EXCEPT !.who = 2], [Buy EXCEPT !.ca = 2, !.who = 2],
                      [LimitBuy EXCEPT !.rollback = TRUE]}], 2, <<Late(1, LimitSell), Late(1, Buy)>> >>,
     <<[Plain EXCEPT !.mix = {"TradeUpdate", "TradeResult", "LongQuery"}], 2,
       <<At(1, Oversell), At(1, LimitBuy)>> >>,
     <<[Plain EXCEPT !.mix = {"BrokerVolume", "CustomerPosition", "MarketWatch", "SecurityDetail",
                              "TradeLookup", "TradeStatus", "TradeResult"}, !.serial = TRUE], 2,
       <<At(1, Sell), At(1, LimitBuy)>> >>}

E == INSTANCE Tpce WITH LoadedTrades <- MCLoaded, Permissions <- MCPermissions,
                        Scenarios <- TpceScenarios, db <- edb, ses <- eses, lock <- elock,
                        dead <- edead, left <- eleft, opts <- eopts

NoTpce ==
    /\ edb = <<>> /\ eses = <<>> /\ elock = <<>> /\ edead = <<>> /\ eleft = <<>> /\ eopts = <<>>
    /\ mee = <<>> /\ mf = <<>> /\ tr = <<>> /\ lastTradeId = <<>> /\ last_list = <<>> /\ resent = <<>> /\ lost = <<>>

-----------------------------------------------------------------------------
MCInit ==
    /\ Init
    /\ \/ part = "tpcc" /\ NoTpce
       \/ part = "tpce" /\ E!Init /\ opts = Default
MCNext ==
    \/ part = "tpcc" /\ Next /\ UNCHANGED <<part, evars>>
    \/ part = "tpce" /\ E!Next /\ UNCHANGED <<part, vars>>
MCSpec == MCInit /\ [][MCNext]_<<part, vars, evars>>

(* The property of Tpce, where it is stated and explained. *)
BooksConsistent == part = "tpce" => E!TpceConsistent
=============================================================================
