--------------------------- MODULE MCBacktestEngine ---------------------------
(***************************************************************************)
(* BacktestEngine for TLC: two symbols, QQQ before SPY, two bars of each a    *)
(* day, prices 75 and 150 with a slippage of 25.  10500 is a multiple of     *)
(* every price a notional order can be divided by.                           *)
(***************************************************************************)
EXTENDS BacktestEngine

Falling == [symbol |-> "SPY", open |-> 150, high |-> 150, low |-> 75, close |-> 75]
Rising  == [symbol |-> "SPY", open |-> 75, high |-> 150, low |-> 75, close |-> 150]
Flat    == [symbol |-> "SPY", open |-> 75, high |-> 75, low |-> 75, close |-> 75]

Other   == [Flat EXCEPT !.symbol = "QQQ"]

MCBars == {Falling, Rising, Flat, Other}

MCRank == [s \in Symbols |-> IF s = "QQQ" THEN 0 ELSE 1]

Market(side, quantity) ==
  [symbol |-> "SPY", side |-> side, type |-> "MARKET", quantity |-> quantity, notional |-> 0,
   limit_price |-> 0, stop_price |-> 0, time_in_force |-> "GTC"]

BuyNotional  == [Market("BUY", NoQuantity) EXCEPT !.notional = 10500]
BuyLimit     == [Market("BUY", 60) EXCEPT !.type = "LIMIT", !.limit_price = 100]
BuyStopLimit == [Market("BUY", 60) EXCEPT !.type = "STOP_LIMIT", !.limit_price = 100,
                                          !.stop_price = 90, !.time_in_force = "DAY"]
SellStop     == [Market("SELL", 60) EXCEPT !.type = "STOP", !.stop_price = 100]
SellLimit    == [Market("SELL", 40) EXCEPT !.type = "LIMIT", !.limit_price = 100]
SellDay      == [Market("SELL", 60) EXCEPT !.time_in_force = "DAY"]
BuyOther     == [Market("BUY", 60) EXCEPT !.symbol = "QQQ"]

MCOrders == {Market("BUY", 60), BuyNotional, BuyLimit, BuyStopLimit, SellStop, SellLimit, SellDay,
             BuyOther}

MCRequests == {<<>>} \cup {<<r>> : r \in MCOrders} \cup {<<r, s>> : r, s \in MCOrders}

FixedCommission == [type |-> "fixed", value |-> 5]
FixedSlippage   == [type |-> "fixed", value |-> 25]
=============================================================================
