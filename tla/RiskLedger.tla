---------------------------- MODULE RiskLedger -----------------------------
(***************************************************************************)
(* The ledger of the risk gateway (apps/risk_gateway/main.py): it keeps in *)
(* memory the notional used today and the exposure of each instrument; one *)
(* handler checks and charges an order, another restores it.  The handlers *)
(* never await, so each is one action.                                     *)
(*                                                                         *)
(* The gateway gives a reservation no name: a release is a plain amount,   *)
(* and whoever was told "accept" is trusted to release it at most once.    *)
(* The history variable held is what the callers hold since the gateway    *)
(* started; stray is the amount they released that an earlier incarnation  *)
(* had charged.                                                            *)
(***************************************************************************)
EXTENDS Integers, FiniteSets, Functions

CONSTANTS Orders,       \* kinds of order: what a caller asks to be checked
          OrderOf,      \* their contents
          Symbols,      \* instruments
          MaxTrade,     \* policy: max_trade_notional_usd
          DailyLimit,   \* policy: daily_notional_limit_usd
          SymbolCap     \* conditional_instrument_rules: cap, 0 for no rule

\* "allowed" stands for the tests of a check that read no state: system mode,
\* spread, leverage, confidence, regime, blocked venues and instruments.
OrderContents == [symbol   : Symbols,
                  side     : {"buy", "sell"},
                  notional : Nat \ {0},
                  allowed  : BOOLEAN]

ASSUME GatewayAssumption ==
    /\ IsFiniteSet(Orders)
    /\ OrderOf \in [Orders -> OrderContents]
    /\ MaxTrade \in Nat /\ DailyLimit \in Nat
    /\ SymbolCap \in [Symbols -> Nat]

VARIABLES used,      \* STATE["daily_notional_used_usd"]
          exposure,  \* STATE["exposure_by_instrument"], 0 for no entry
          held,      \* history: reservations charged and not released yet
          stray      \* history: amount released that this ledger never had

rgVars == <<used, exposure, held, stray>>

RgTypeOK ==
    /\ used     \in Nat
    /\ exposure \in [Symbols -> Int]
    /\ held     \in [Orders -> Nat]
    /\ stray    \in Nat

RgInit ==
    /\ used     = 0
    /\ exposure = [s \in Symbols |-> 0]
    /\ held     = [o \in Orders |-> 0]
    /\ stray    = 0

-----------------------------------------------------------------------------

Notional(o) == OrderOf[o].notional
Signed(o)   == IF OrderOf[o].side = "buy" THEN Notional(o) ELSE -Notional(o)

WithinCap(o) ==
    LET cap == SymbolCap[OrderOf[o].symbol] IN cap = 0 \/ Notional(o) <= cap

\* Mutant: the limit is compared with what is used before this order.
WithinPolicy_UsedOnly(o) ==
    /\ OrderOf[o].allowed
    /\ Notional(o) <= MaxTrade
    /\ used <= DailyLimit
    /\ WithinCap(o)

\* No reason to reject.
WithinPolicy(o) ==
    /\ OrderOf[o].allowed
    /\ Notional(o) <= MaxTrade
    /\ used + Notional(o) <= DailyLimit
    /\ WithinCap(o)

\* Mutant: the exposure of a sell is charged as if it were a buy.
Commit_Unsigned(o) ==
    /\ WithinPolicy(o)
    /\ used'     = used + Notional(o)
    /\ exposure' = [exposure EXCEPT ![OrderOf[o].symbol] = @ + Notional(o)]
    /\ held'     = [held EXCEPT ![o] = @ + 1]
    /\ UNCHANGED stray

\* An accepted check of an order that will be sent: pre-trade intents always,
\* MT5 orders unless dry_run.  A rejected check and a dry run change nothing.
Commit(o) ==
    /\ WithinPolicy(o)
    /\ used'     = used + Notional(o)
    /\ exposure' = [exposure EXCEPT ![OrderOf[o].symbol] = @ + Signed(o)]
    /\ held'     = [held EXCEPT ![o] = @ + 1]
    /\ UNCHANGED stray

\* Mutant: no max(0, ...).
Lowered_NoClamp(n) == used - n

Lowered(n) == IF used > n THEN used - n ELSE 0

\* A release is applied whatever the ledger holds.
Release(o) ==
    /\ used'     = Lowered(Notional(o))
    /\ exposure' = [exposure EXCEPT ![OrderOf[o].symbol] = @ - Signed(o)]
    /\ IF held[o] > 0
       THEN held' = [held EXCEPT ![o] = @ - 1] /\ UNCHANGED stray
       ELSE stray' = stray + Notional(o) /\ UNCHANGED held

\* The process restarts with an empty ledger.
Restart ==
    /\ used'     = 0
    /\ exposure' = [s \in Symbols |-> 0]
    /\ held'     = [o \in Orders |-> 0]
    /\ stray'    = 0

-----------------------------------------------------------------------------

\* What the ledger should show for the reservations it was never asked to
\* give back.
HeldNotional == SumFunctionOnSet([o \in Orders |-> held[o] * Notional(o)], Orders)

HeldExposure(s) ==
    SumFunctionOnSet([o \in Orders |-> IF OrderOf[o].symbol = s THEN held[o] * Signed(o)
                                                              ELSE 0], Orders)
=============================================================================
