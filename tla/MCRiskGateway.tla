--------------------------- MODULE MCRiskGateway ---------------------------
(* Model values for the checks of RiskGateway. *)
EXTENDS RiskGateway

CONSTANTS btc, sol, buyBtc, sellBtc, buySol

\* Notionals as in config/risk_policy.json: 10 per trade, 30 per day, 7 for the
\* instrument with a rule of its own.
SomeOrders == [o \in Orders |->
    CASE o = buyBtc  -> [symbol |-> btc, side |-> "buy",  notional |-> 10, allowed |-> TRUE]
      [] o = sellBtc -> [symbol |-> btc, side |-> "sell", notional |-> 6,  allowed |-> TRUE]
      [] o = buySol  -> [symbol |-> sol, side |-> "buy",  notional |-> 7,  allowed |-> TRUE]]

Caps == [s \in Symbols |-> IF s = sol THEN 7 ELSE 0]
=============================================================================
