------------------------------ MODULE MCPortfolio ------------------------------
(***************************************************************************)
(* Portfolio for TLC.  With at most three booked fills an average cost is    *)
(* the quotient of a sum of prices by at most six shares: prices are         *)
(* multiples of 60, so that every quotient is whole.                         *)
(***************************************************************************)
EXTENDS Portfolio

MCPrices == {60, 120}

MCFills ==
  {[id |-> id, symbol |-> symbol, side |-> side, quantity |-> quantity,
    price |-> price, commission |-> IF price = 120 THEN 5 ELSE 0] :
     id \in 1..4, symbol \in Symbols, side \in Side, quantity \in 1..2, price \in MCPrices}
=============================================================================
