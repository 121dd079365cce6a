---------------------------- MODULE RiskGateway ----------------------------
(***************************************************************************)
(* The risk gateway on its own, with callers that release each of their    *)
(* reservations at most once but do not notice when the gateway restarts.  *)
(***************************************************************************)
EXTENDS RiskLedger

CONSTANT MaxOwed     \* bound on the reservations the callers believe to hold

ASSUME OwedAssumption == MaxOwed \in Nat

VARIABLE owed        \* reservations the callers believe they hold

vars == <<used, exposure, held, stray, owed>>

TypeOK == RgTypeOK /\ owed \in [Orders -> 0..MaxOwed]

Init == RgInit /\ owed = [o \in Orders |-> 0]

CallerReserves(o) ==
    /\ owed[o] < MaxOwed
    /\ Commit(o)
    /\ owed' = [owed EXCEPT ![o] = @ + 1]

CallerReleases(o) ==
    /\ owed[o] > 0
    /\ owed' = [owed EXCEPT ![o] = @ - 1]
    /\ Release(o)

Next ==
    \/ \E o \in Orders : CallerReserves(o) \/ CallerReleases(o)
    \/ Restart /\ UNCHANGED owed

Spec == Init /\ [][Next]_vars

-----------------------------------------------------------------------------
(* Properties.                                                             *)

\* Whatever is charged, released and forgotten, the notional used stays within
\* the daily limit (risk_gateway/main.py:209 and 261).
DailyLimitHolds == used <= DailyLimit

\* The ledger shows what is held, after any history of buys and sells (main.py:
\* 258-276).  No sequence of checks, releases and restarts blocks the budget of
\* nobody, and the release of a reservation of an earlier incarnation frees no
\* more of the others' budget than its own amount.
LedgerIsExact ==
    /\ used <= HeldNotional /\ HeldNotional <= used + stray
    /\ stray = 0 => \A s \in Symbols : exposure[s] = HeldExposure(s)
=============================================================================
