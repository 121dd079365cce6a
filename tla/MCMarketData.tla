---------------------------- MODULE MCMarketData ----------------------------
(* Model values for the checks of MarketData: timeframes as the code nests *)
(* them, with few minutes each.                                            *)
EXTENDS MarketData

DerivedSeq == <<"5m", "15m", "1h">>
WiredSet   == {"1m", "5m", "15m"}
Lengths    == [tf \in {"5m", "15m", "1h"} |-> IF tf = "5m" THEN 2 ELSE 4]
=============================================================================
