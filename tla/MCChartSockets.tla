--------------------------- MODULE MCChartSockets ---------------------------
(* Two instruments on two public venues and a private one. *)
EXTENDS ChartSockets

CONSTANTS btc, eth, binance, okx, broker

\* Feeds that differ in the instrument, in the venue, and in both.
MCFeed == {[inst |-> btc, venue |-> binance], [inst |-> eth, venue |-> binance],
           [inst |-> eth, venue |-> okx], [inst |-> btc, venue |-> broker]}
=============================================================================
