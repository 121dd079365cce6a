------------------------ MODULE RiskGateway_proofs -------------------------
(***************************************************************************)
(* The daily limit and the exactness of the ledger of the risk gateway,    *)
(* for every finite set of kinds of order, every limit and every number of *)
(* reservations, releases and restarts.                                    *)
(***************************************************************************)
EXTENDS RiskGateway, FiniteSums

\* The limit is preserved as it stands; it only needs the type of used.
IInv == TypeOK /\ DailyLimitHolds

LEMMA OrderFacts ==
    ASSUME NEW o \in Orders
    PROVE  /\ Notional(o) \in Nat \ {0}
           /\ Signed(o) \in Int
           /\ OrderOf[o].symbol \in Symbols
<1>1. OrderOf[o] \in OrderContents
  BY GatewayAssumption
<1>. QED
  BY <1>1 DEF OrderContents, Notional, Signed

LEMMA InitHolds == Init => IInv
BY GatewayAssumption, OwedAssumption
   DEF Init, RgInit, IInv, TypeOK, RgTypeOK, DailyLimitHolds

\* A check charges only what the limit leaves.
LEMMA ReservesPreserves ==
    ASSUME IInv, NEW o \in Orders, CallerReserves(o)
    PROVE  IInv'
<1>. USE OrderFacts
<1>1. used' \in Nat /\ used' <= DailyLimit
  BY GatewayAssumption DEF IInv, TypeOK, RgTypeOK, CallerReserves, Commit, WithinPolicy
<1>2. exposure' \in [Symbols -> Int]
  BY DEF IInv, TypeOK, RgTypeOK, CallerReserves, Commit
<1>3. held' \in [Orders -> Nat] /\ stray' \in Nat
  BY DEF IInv, TypeOK, RgTypeOK, CallerReserves, Commit
<1>4. owed' \in [Orders -> 0..MaxOwed]
  BY OwedAssumption DEF IInv, TypeOK, CallerReserves
<1>. QED
  BY <1>1, <1>2, <1>3, <1>4 DEF IInv, TypeOK, RgTypeOK, DailyLimitHolds

\* A release never raises used, whether or not the ledger holds the amount.
LEMMA ReleasesPreserves ==
    ASSUME IInv, NEW o \in Orders, CallerReleases(o)
    PROVE  IInv'
<1>. USE OrderFacts
<1>1. used' \in Nat /\ used' <= used
  BY DEF IInv, TypeOK, RgTypeOK, CallerReleases, Release, Lowered
<1>2. exposure' \in [Symbols -> Int]
  BY DEF IInv, TypeOK, RgTypeOK, CallerReleases, Release
<1>3. held' \in [Orders -> Nat] /\ stray' \in Nat
  <2>1. CASE held[o] > 0
    BY <2>1 DEF IInv, TypeOK, RgTypeOK, CallerReleases, Release
  <2>2. CASE ~(held[o] > 0)
    BY <2>2 DEF IInv, TypeOK, RgTypeOK, CallerReleases, Release
  <2>. QED
    BY <2>1, <2>2
<1>4. owed' \in [Orders -> 0..MaxOwed]
  BY OwedAssumption DEF IInv, TypeOK, CallerReleases
<1>. QED
  BY <1>1, <1>2, <1>3, <1>4, GatewayAssumption
     DEF IInv, TypeOK, RgTypeOK, DailyLimitHolds

LEMMA RestartPreserves ==
    ASSUME IInv, Restart, UNCHANGED owed
    PROVE  IInv'
BY GatewayAssumption DEF IInv, TypeOK, RgTypeOK, DailyLimitHolds, Restart

LEMMA StepPreserves == IInv /\ [Next]_vars => IInv'
<1>. SUFFICES ASSUME IInv, [Next]_vars PROVE IInv'
  OBVIOUS
<1>1. CASE \E o \in Orders : CallerReserves(o) \/ CallerReleases(o)
  BY <1>1, ReservesPreserves, ReleasesPreserves
<1>2. CASE Restart /\ UNCHANGED owed
  BY <1>2, RestartPreserves
<1>3. CASE UNCHANGED vars
  BY <1>3 DEF vars, IInv, TypeOK, RgTypeOK, DailyLimitHolds
<1>. QED
  BY <1>1, <1>2, <1>3 DEF Next

LEMMA Invariance == Spec => []IInv
BY InitHolds, StepPreserves, PTL DEF Spec

\* The ledger is well-formed: used in particular never becomes negative
\* (risk_gateway/main.py:261).
THEOREM TypeCorrect == Spec => []TypeOK
<1>1. IInv => TypeOK
  BY DEF IInv
<1>. QED
  BY <1>1, Invariance, PTL

\* The notional used today never exceeds the daily limit of the policy
\* (risk_gateway/main.py:209).
THEOREM LimitHolds == Spec => []DailyLimitHolds
<1>1. IInv => DailyLimitHolds
  BY DEF IInv
<1>. QED
  BY <1>1, Invariance, PTL

-----------------------------------------------------------------------------
(* The exactness of the ledger.  It is inductive with the types: what        *)
(* matters is that held and used, or held and exposure, move by the same     *)
(* amount, and that a release which finds nothing held is remembered in      *)
(* stray with at least what it took from the others.                         *)

\* What is charged for one kind of order, and what of it concerns s.
Charge == [o \in Orders |-> held[o] * Notional(o)]
Part(s) == [o \in Orders |-> IF OrderOf[o].symbol = s THEN held[o] * Signed(o) ELSE 0]

\* One reservation more or less is one amount more or less.
LEMMA OneMoreAmount ==
    ASSUME NEW h \in Nat, NEW n \in Int
    PROVE  /\ h * n \in Int /\ (h + 1) * n = h * n + n /\ (h - 1) * n = h * n - n
           /\ n >= 0 => h * n >= 0
           /\ (n >= 0 /\ h > 0) => h * n >= n
<1>1. h * n \in Int /\ (h + 1) * n = h * n + n /\ (h - 1) * n = h * n - n
  OBVIOUS
<1>2. n >= 0 => h * n >= 0
  OBVIOUS
<1>3. ASSUME n >= 0, h > 0 PROVE h * n >= n
  <2>1. PICK k \in Nat : h = k + 1
    BY <1>3
  <2>2. k * n >= 0 /\ k * n \in Int /\ (k + 1) * n = k * n + n
    BY <1>3
  <2>. QED
    BY <2>1, <2>2
<1>. QED
  BY <1>1, <1>2, <1>3

LEMMA ChargeType ==
    ASSUME TypeOK
    PROVE  /\ \A o \in Orders : Charge[o] \in Nat /\ (held[o] > 0 => Charge[o] >= Notional(o))
           /\ \A s \in Symbols, o \in Orders : Part(s)[o] \in Int
           /\ HeldNotional = SumFunctionOnSet(Charge, Orders) /\ HeldNotional \in Nat
           /\ \A o \in Orders : Charge[o] <= HeldNotional
           /\ \A s \in Symbols : /\ HeldExposure(s) = SumFunctionOnSet(Part(s), Orders)
                                 /\ HeldExposure(s) \in Int
<1>1. ASSUME NEW o \in Orders
      PROVE  Charge[o] \in Nat /\ (held[o] > 0 => Charge[o] >= Notional(o))
  <2>1. held[o] \in Nat /\ Notional(o) \in Nat /\ Notional(o) \in Int
    BY OrderFacts DEF TypeOK, RgTypeOK
  <2>. QED
    BY <2>1, OneMoreAmount DEF Charge
<1>2. ASSUME NEW s \in Symbols, NEW o \in Orders PROVE Part(s)[o] \in Int
  <2>1. held[o] \in Nat /\ Signed(o) \in Int
    BY OrderFacts DEF TypeOK, RgTypeOK
  <2>. QED
    BY <2>1, OneMoreAmount DEF Part
<1>3. IsFiniteSet(Orders)
  BY GatewayAssumption
<1>4. HeldNotional = SumFunctionOnSet(Charge, Orders)
      /\ \A s \in Symbols : HeldExposure(s) = SumFunctionOnSet(Part(s), Orders)
  BY DEF HeldNotional, HeldExposure, Charge, Part
<1>5. HeldNotional \in Nat /\ \A o \in Orders : Charge[o] <= HeldNotional
  BY <1>1, <1>3, <1>4, SumOfNaturals
<1>6. \A s \in Symbols : HeldExposure(s) \in Int
  BY <1>2, <1>3, <1>4, SumType
<1>. QED
  BY <1>1, <1>2, <1>4, <1>5, <1>6

\* If the reservations of one kind of order change by d, the sums change by d
\* times its amount, each for the instrument of that kind.
LEMMA SumsFollowHeld ==
    ASSUME TypeOK, TypeOK', NEW o \in Orders, NEW d \in {-1, 1},
           held' = [held EXCEPT ![o] = @ + d]
    PROVE  /\ HeldNotional' = HeldNotional + d * Notional(o)
           /\ \A s \in Symbols :
                 HeldExposure(s)' = HeldExposure(s)
                     + IF s = OrderOf[o].symbol THEN d * Signed(o) ELSE 0
<1>1. /\ Notional(o) \in Int /\ Signed(o) \in Int /\ held[o] \in Nat
      /\ d * Notional(o) \in Int /\ d * Signed(o) \in Int /\ IsFiniteSet(Orders)
  BY OrderFacts, GatewayAssumption DEF TypeOK, RgTypeOK
<1>2. /\ (held[o] + d) * Notional(o) = held[o] * Notional(o) + d * Notional(o)
      /\ (held[o] + d) * Signed(o) = held[o] * Signed(o) + d * Signed(o)
  BY <1>1, OneMoreAmount
<1>3. ASSUME NEW p \in Orders
      PROVE  held'[p] = IF p = o THEN held[p] + d ELSE held[p]
  BY DEF TypeOK, RgTypeOK
<1>4. HeldNotional' = HeldNotional + d * Notional(o)
  <2>1. \A p \in Orders : Charge'[p] = IF p = o THEN Charge[p] + d * Notional(o)
                                                ELSE Charge[p]
    BY <1>2, <1>3 DEF Charge, Notional
  <2>2. HeldNotional' = SumFunctionOnSet(Charge', Orders)
    BY DEF HeldNotional, Charge, Notional
  <2>3. \A p \in Orders : Charge[p] \in Int
    BY ChargeType
  <2>4. SumFunctionOnSet(Charge', Orders) = SumFunctionOnSet(Charge, Orders) + d * Notional(o)
    BY <1>1, <2>1, <2>3, SumChange
  <2>. QED
    BY <2>2, <2>4, ChargeType
<1>5. ASSUME NEW s \in Symbols
      PROVE  HeldExposure(s)' = HeldExposure(s)
                     + IF s = OrderOf[o].symbol THEN d * Signed(o) ELSE 0
  <2>. DEFINE n == IF s = OrderOf[o].symbol THEN d * Signed(o) ELSE 0
              g == Part(s)
              h == Part(s)'
  <2>1. ASSUME NEW p \in Orders PROVE h[p] = IF p = o THEN g[p] + n ELSE g[p]
    <3>1. h[p] = IF OrderOf[p].symbol = s THEN held'[p] * Signed(p) ELSE 0
      BY DEF Part, Signed, Notional
    <3>2. g[p] = IF OrderOf[p].symbol = s THEN held[p] * Signed(p) ELSE 0
      BY DEF Part
    <3>. HIDE DEF g, h
    <3>3. CASE p # o
      BY <1>3, <3>1, <3>2, <3>3
    <3>4. CASE p = o /\ OrderOf[o].symbol = s
      BY <1>2, <1>3, <3>1, <3>2, <3>4
    <3>5. CASE p = o /\ OrderOf[o].symbol # s
      BY <3>1, <3>2, <3>5
    <3>. QED
      BY <3>3, <3>4, <3>5
  <2>2. HeldExposure(s)' = SumFunctionOnSet(h, Orders)
    BY DEF HeldExposure, Part, Signed, Notional
  <2>3. HeldExposure(s) = SumFunctionOnSet(g, Orders)
    BY ChargeType
  <2>4. \A p \in Orders : g[p] \in Int
    BY ChargeType
  <2>5. n \in Int
    BY <1>1
  <2>. HIDE DEF g, h, n
  <2>6. SumFunctionOnSet(h, Orders) = SumFunctionOnSet(g, Orders) + n
    BY <1>1, <2>1, <2>4, <2>5, SumChange
  <2>. QED
    BY <2>2, <2>3, <2>6 DEF n
<1>. QED
  BY <1>4, <1>5

LEMMA InitExact == Init => LedgerIsExact
<1>. SUFFICES ASSUME Init PROVE LedgerIsExact
  OBVIOUS
<1>1. IsFiniteSet(Orders)
  BY GatewayAssumption
<1>2. ASSUME NEW o \in Orders PROVE held[o] = 0 /\ Notional(o) \in Int /\ Signed(o) \in Int
  BY OrderFacts DEF Init, RgInit
<1>3. HeldNotional = 0
  <2>1. \A o \in Orders : Charge[o] = 0
    BY <1>2 DEF Charge
  <2>. QED
    BY <1>1, <2>1, SumZero DEF HeldNotional, Charge
<1>4. ASSUME NEW s \in Symbols PROVE HeldExposure(s) = 0
  <2>1. \A o \in Orders : Part(s)[o] = 0
    BY <1>2 DEF Part
  <2>. QED
    BY <1>1, <2>1, SumZero DEF HeldExposure, Part
<1>. QED
  BY <1>3, <1>4 DEF Init, RgInit, LedgerIsExact

LEMMA ReservesExact ==
    ASSUME TypeOK, TypeOK', LedgerIsExact, NEW o \in Orders, CallerReserves(o)
    PROVE  LedgerIsExact'
<1>1. /\ Notional(o) \in Nat \ {0} /\ Signed(o) \in Int /\ OrderOf[o].symbol \in Symbols
      /\ used \in Nat /\ stray \in Nat /\ HeldNotional \in Nat
      /\ exposure \in [Symbols -> Int] /\ held \in [Orders -> Nat]
      /\ \A s \in Symbols : HeldExposure(s) \in Int
  BY OrderFacts, ChargeType DEF TypeOK, RgTypeOK
<1>2. /\ used' = used + Notional(o) /\ stray' = stray
      /\ exposure' = [exposure EXCEPT ![OrderOf[o].symbol] = @ + Signed(o)]
      /\ held' = [held EXCEPT ![o] = @ + 1]
  BY DEF CallerReserves, Commit
<1>3. /\ HeldNotional' = HeldNotional + Notional(o)
      /\ \A s \in Symbols : HeldExposure(s)' = HeldExposure(s)
                              + IF s = OrderOf[o].symbol THEN Signed(o) ELSE 0
  <2>1. 1 * Notional(o) = Notional(o) /\ 1 * Signed(o) = Signed(o)
    BY <1>1
  <2>2. held' = [held EXCEPT ![o] = @ + 1] /\ 1 \in {-1, 1}
    BY <1>2
  <2>3. /\ HeldNotional' = HeldNotional + 1 * Notional(o)
        /\ \A s \in Symbols : HeldExposure(s)' = HeldExposure(s)
                                + IF s = OrderOf[o].symbol THEN 1 * Signed(o) ELSE 0
    BY <2>2, SumsFollowHeld
  <2>. QED
    BY <2>1, <2>3
<1>4. used' <= HeldNotional' /\ HeldNotional' <= used' + stray'
  BY <1>1, <1>2, <1>3 DEF LedgerIsExact
<1>5. ASSUME stray' = 0, NEW s \in Symbols PROVE exposure'[s] = HeldExposure(s)'
  BY <1>1, <1>2, <1>3, <1>5 DEF LedgerIsExact
<1>. QED
  BY <1>4, <1>5 DEF LedgerIsExact

LEMMA ReleasesExact ==
    ASSUME TypeOK, TypeOK', LedgerIsExact, NEW o \in Orders, CallerReleases(o)
    PROVE  LedgerIsExact'
<1>1. /\ Notional(o) \in Nat \ {0} /\ Signed(o) \in Int /\ OrderOf[o].symbol \in Symbols
      /\ used \in Nat /\ stray \in Nat /\ HeldNotional \in Nat
      /\ exposure \in [Symbols -> Int] /\ held \in [Orders -> Nat]
      /\ \A s \in Symbols : HeldExposure(s) \in Int
      /\ held[o] > 0 => HeldNotional >= Notional(o)
  BY OrderFacts, ChargeType DEF TypeOK, RgTypeOK
<1>2. /\ used' = IF used > Notional(o) THEN used - Notional(o) ELSE 0
      /\ exposure' = [exposure EXCEPT ![OrderOf[o].symbol] = @ - Signed(o)]
  BY DEF CallerReleases, Release, Lowered
<1>3. used <= HeldNotional /\ HeldNotional <= used + stray
      /\ (stray = 0 => \A s \in Symbols : exposure[s] = HeldExposure(s))
  BY DEF LedgerIsExact
<1>4. CASE held[o] > 0
  <2>1. stray' = stray /\ held' = [held EXCEPT ![o] = @ + (-1)]
    BY <1>1, <1>4 DEF CallerReleases, Release
  <2>2. (-1) * Notional(o) = -Notional(o) /\ (-1) * Signed(o) = -Signed(o)
    BY <1>1
  <2>3. /\ HeldNotional' = HeldNotional - Notional(o)
        /\ \A s \in Symbols : HeldExposure(s)' = HeldExposure(s)
                                + IF s = OrderOf[o].symbol THEN -Signed(o) ELSE 0
    <3>1. held' = [held EXCEPT ![o] = @ + (-1)] /\ (-1) \in {-1, 1}
      BY <2>1
    <3>2. /\ HeldNotional' = HeldNotional + (-1) * Notional(o)
          /\ \A s \in Symbols : HeldExposure(s)' = HeldExposure(s)
                                  + IF s = OrderOf[o].symbol THEN (-1) * Signed(o) ELSE 0
      BY <3>1, SumsFollowHeld
    <3>. QED
      BY <1>1, <2>2, <3>2
  <2>4. used' <= HeldNotional' /\ HeldNotional' <= used' + stray'
    BY <1>1, <1>2, <1>3, <1>4, <2>1, <2>3
  <2>5. ASSUME stray' = 0, NEW s \in Symbols PROVE exposure'[s] = HeldExposure(s)'
    BY <1>1, <1>2, <1>3, <2>1, <2>3, <2>5
  <2>. QED
    BY <2>4, <2>5 DEF LedgerIsExact
<1>5. CASE ~(held[o] > 0)
  <2>1. stray' = stray + Notional(o) /\ held' = held
    BY <1>5 DEF CallerReleases, Release
  <2>2. HeldNotional' = HeldNotional
    BY <2>1 DEF HeldNotional, Notional
  <2>. QED
    BY <1>1, <1>2, <1>3, <2>1, <2>2 DEF LedgerIsExact
<1>. QED
  BY <1>4, <1>5

LEMMA RestartExact ==
    ASSUME TypeOK', Restart
    PROVE  LedgerIsExact'
<1>1. IsFiniteSet(Orders)
  BY GatewayAssumption
<1>2. ASSUME NEW o \in Orders PROVE held'[o] = 0 /\ Notional(o) \in Int /\ Signed(o) \in Int
  BY OrderFacts DEF Restart
<1>3. HeldNotional' = 0
  <2>1. \A o \in Orders : Charge'[o] = 0
    BY <1>2 DEF Charge, Notional
  <2>2. SumFunctionOnSet(Charge', Orders) = 0
    BY <1>1, <2>1, SumZero
  <2>. QED
    BY <2>2 DEF HeldNotional, Charge
<1>4. ASSUME NEW s \in Symbols PROVE HeldExposure(s)' = 0
  <2>. DEFINE h == Part(s)'
  <2>1. \A o \in Orders : h[o] = 0
    BY <1>2 DEF Part, Signed, Notional
  <2>. HIDE DEF h
  <2>2. SumFunctionOnSet(h, Orders) = 0
    BY <1>1, <2>1, SumZero
  <2>. QED
    BY <2>2 DEF h, HeldExposure, Part
<1>. QED
  BY <1>3, <1>4 DEF Restart, LedgerIsExact

\* The ledger shows what is held, up to the amount released that it never had:
\* no history of checks, releases and restarts leaves a budget blocked that
\* nobody holds (risk_gateway/main.py:258-276).
THEOREM LedgerExact == Spec => []LedgerIsExact
<1>1. IInv /\ IInv' /\ LedgerIsExact /\ [Next]_vars => LedgerIsExact'
  <2>. SUFFICES ASSUME TypeOK, TypeOK', LedgerIsExact, [Next]_vars PROVE LedgerIsExact'
    BY DEF IInv
  <2>1. CASE \E o \in Orders : CallerReserves(o) \/ CallerReleases(o)
    BY <2>1, ReservesExact, ReleasesExact
  <2>2. CASE Restart /\ UNCHANGED owed
    BY <2>2, RestartExact
  <2>3. CASE UNCHANGED vars
    BY <2>3 DEF vars, LedgerIsExact, HeldNotional, HeldExposure, Notional, Signed
  <2>. QED
    BY <2>1, <2>2, <2>3 DEF Next
<1>. QED
  BY InitExact, Invariance, <1>1, PTL DEF Spec
=============================================================================
