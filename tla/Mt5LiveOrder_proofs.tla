------------------------ MODULE Mt5LiveOrder_proofs ------------------------
(***************************************************************************)
(* The safety of a live MT5 order, for all finite sets of attempts and     *)
(* orders, all operators, every policy and any number of restarts: nothing *)
(* reaches the bridge without two operators, nothing is recorded as        *)
(* executed that was not, open orders are charged, and a charge that       *)
(* outlives its attempt left a trace.                                      *)
(***************************************************************************)
EXTENDS Mt5LiveOrder, FiniteSums

TwoOperators(c) ==
    /\ order[c] \in Orders
    /\ approval[order[c]] # "none"
    /\ first[order[c]] \in Operators /\ second[c] \in Operators
    /\ first[order[c]] # second[c]

\* Everything an attempt leaves behind, in the process and on the wires, shows
\* that it was started by a second operator.
StartedByTwo ==
    /\ \A o \in Orders : approval[o] # "none" => first[o] \in Operators
    /\ \A c \in Commands : stage[c] # "idle" => TwoOperators(c)
    /\ \A m \in calls : stage[m.cmd] # "idle"
    /\ \A r \in replies : stage[r.cmd] # "idle"
    /\ \A c \in posted : stage[c] # "idle"
    /\ \A c \in Commands : phase[c] # "new" => c \in posted

\* A fill is behind every step that speaks of one.
FillsAreReal ==
    /\ \A c \in Commands : phase[c] = "new" => handed[c] = 0
    /\ \A c \in Commands : fills[c] <= handed[c]
    /\ \A c \in Commands : answer[c] = "filled" => fills[c] > 0
    /\ \A c \in Commands : stage[c] = "book" => fills[c] > 0

IInv == TypeOK /\ StartedByTwo /\ FillsAreReal /\ ExecutedMeansFilled

CtrlTypeOK ==
    /\ approval  \in [Orders -> {"none", "pending"} \cup Resolved]
    /\ first     \in [Orders -> Operators \cup {None}]
    /\ stage     \in [Commands -> Stages]
    /\ order     \in [Commands -> Orders \cup {None}]
    /\ second    \in [Commands -> Operators \cup {None}]

NetTypeOK == calls \subseteq Calls /\ replies \subseteq Replies /\ posted \subseteq Commands

StatTypeOK ==
    /\ kill \in BOOLEAN /\ apiErrors \in 0..MaxApiErrors
    /\ traced \subseteq Commands /\ restarts \in 0..MaxRestarts

LEMMA TypeParts == TypeOK <=> OcTypeOK /\ RgTypeOK /\ CtrlTypeOK /\ NetTypeOK /\ StatTypeOK
BY DEF TypeOK, CtrlTypeOK, NetTypeOK, StatTypeOK

-----------------------------------------------------------------------------
(* A step of an attempt.                                                   *)

\* What all steps of a running attempt have in common.
AttemptMoves(c) ==
    /\ stage[c] # "idle"
    /\ \E s \in Stages \ {"idle"} :
          stage' = [stage EXCEPT ![c] = s] /\ (s = "book" => answer[c] = "filled")
    /\ \/ approval' = approval
       \/ approval' = [approval EXCEPT ![order[c]] = "rejected"]
       \/ stage[c] = "book" /\ approval' = [approval EXCEPT ![order[c]] = "executed"]
    /\ \E k \in Kinds : calls' \in {calls, calls \cup {[cmd |-> c, kind |-> k]}}
    /\ replies' \subseteq replies /\ \A r \in replies : r.cmd # c => r \in replies'
    /\ posted' \subseteq posted \cup {c}
    /\ posted \subseteq posted'
    /\ kill' \in BOOLEAN /\ apiErrors' \in 0..MaxApiErrors
    /\ traced' \subseteq traced \cup {c} /\ traced \subseteq traced'
    /\ UNCHANGED <<ocVars, rgVars, first, order, second, restarts>>

LEMMA AttemptPreserves ==
    ASSUME IInv, NEW c \in Commands, AttemptMoves(c)
    PROVE  IInv'
<1>1. PICK s \in Stages \ {"idle"} :
          stage' = [stage EXCEPT ![c] = s] /\ (s = "book" => answer[c] = "filled")
  BY DEF AttemptMoves
<1>2. PICK k \in Kinds : calls' \in {calls, calls \cup {[cmd |-> c, kind |-> k]}}
  BY DEF AttemptMoves
<1>3. /\ UNCHANGED <<phase, handed, fills, answer, used, exposure, held, stray>>
      /\ UNCHANGED <<first, order, second, restarts>>
  BY DEF AttemptMoves, ocVars, rgVars
<1>4. TwoOperators(c) /\ order[c] \in Orders /\ stage[c] # "idle"
  BY DEF AttemptMoves, IInv, StartedByTwo, TwoOperators
<1>5. /\ approval' \in [Orders -> {"none", "pending"} \cup Resolved]
      /\ \A o \in Orders : approval[o] # "none" => approval'[o] # "none"
      /\ \A o \in Orders : approval'[o] = "executed" =>
            approval[o] = "executed" \/ (stage[c] = "book" /\ o = order[c])
  BY <1>4 DEF AttemptMoves, IInv, TypeOK, Resolved
<1>6. /\ stage' \in [Commands -> Stages]
      /\ \A d \in Commands : stage[d] # "idle" <=> stage'[d] # "idle"
      /\ \A d \in Commands : stage'[d] = "book" => stage[d] = "book" \/ answer[d] = "filled"
  BY <1>1, <1>4 DEF IInv, TypeOK
<1>7. [cmd |-> c, kind |-> k] \in Calls
  BY DEF Calls
<1>8. TypeOK'
  <2>1. OcTypeOK' /\ RgTypeOK'
    BY <1>3 DEF IInv, TypeOK, OcTypeOK, RgTypeOK
  <2>2. CtrlTypeOK'
    BY <1>3, <1>5, <1>6 DEF IInv, TypeOK, CtrlTypeOK
  <2>3. NetTypeOK'
    BY <1>2, <1>7 DEF IInv, TypeOK, NetTypeOK, AttemptMoves
  <2>4. StatTypeOK'
    BY <1>3 DEF IInv, TypeOK, StatTypeOK, AttemptMoves
  <2>. QED
    BY <2>1, <2>2, <2>3, <2>4, TypeParts DEF TypeOK, CtrlTypeOK, NetTypeOK, StatTypeOK
<1>9. StartedByTwo'
  <2>1. \A d \in Commands : stage'[d] # "idle" => TwoOperators(d)'
    BY <1>3, <1>5, <1>6 DEF IInv, StartedByTwo, TwoOperators
  <2>2. \A m \in calls' : m.cmd \in Commands /\ stage[m.cmd] # "idle"
    BY <1>2, <1>4 DEF IInv, TypeOK, Calls, StartedByTwo
  <2>3. \A r \in replies' : r.cmd \in Commands /\ stage[r.cmd] # "idle"
    BY DEF IInv, TypeOK, Replies, StartedByTwo, AttemptMoves
  <2>4. \A d \in posted' : d \in Commands /\ stage[d] # "idle"
    BY <1>4 DEF IInv, TypeOK, StartedByTwo, AttemptMoves
  <2>5. \A d \in Commands : phase'[d] # "new" => d \in posted'
    BY <1>3 DEF IInv, StartedByTwo, AttemptMoves
  <2>6. \A o \in Orders : approval'[o] # "none" => first'[o] \in Operators
    BY <1>3, <1>5, <1>4 DEF IInv, StartedByTwo, TwoOperators, AttemptMoves
  <2>. QED
    BY <1>6, <2>1, <2>2, <2>3, <2>4, <2>5, <2>6 DEF StartedByTwo
<1>10. FillsAreReal'
  BY <1>3, <1>6 DEF IInv, FillsAreReal
<1>11. ExecutedMeansFilled'
  BY <1>3, <1>5 DEF IInv, FillsAreReal, ExecutedMeansFilled
<1>. QED
  BY <1>8, <1>9, <1>10, <1>11 DEF IInv

LEMMA ErrorCount ==
    ASSUME IInv, RecordApiError
    PROVE  kill' \in BOOLEAN /\ apiErrors' \in 0..MaxApiErrors
<1>1. kill' \in BOOLEAN
  BY Zenon DEF RecordApiError
<1>2. apiErrors' \in 0..MaxApiErrors
  <2>1. apiErrors' = IF apiErrors < MaxApiErrors THEN apiErrors + 1 ELSE apiErrors
    BY DEF RecordApiError
  <2>. QED
    BY <2>1, LiveOrderAssumption DEF IInv, TypeOK
<1>. QED
  BY <1>1, <1>2

\* Each of the steps of an attempt is such a step.
LEMMA AttemptSteps ==
    ASSUME IInv, NEW c \in Commands, Proceeds(c)
    PROVE  AttemptMoves(c)
<1>1. /\ kill \in BOOLEAN /\ apiErrors \in 0..MaxApiErrors /\ replies \subseteq Replies
      /\ {"route", "commit", "bridge", "release", "book", "ok", "failed"}
            \subseteq Stages \ {"idle"}
      /\ {"dry", "commit", "release"} \subseteq Kinds
  BY DEF IInv, TypeOK, Stages, Running, Kinds
<1>2. \A r \in replies : stage[r.cmd] # "idle"
  BY DEF IInv, StartedByTwo
<1>3. ASSUME NEW ok \in BOOLEAN, DryRunAnswered(c, ok) PROVE AttemptMoves(c)
  <2>1. [cmd |-> c, kind |-> "dry", accept |-> ok] \in replies
    BY <1>3 DEF DryRunAnswered, Takes
  <2>2. stage[c] # "idle"
    BY <1>2, <2>1
  <2>3. CASE ok
    BY <1>1, <1>3, <2>2, <2>3
       DEF AttemptMoves, DryRunAnswered, Takes, Moves, approvalVars, killVars, histVars
  <2>4. CASE ~ok
    BY <1>1, <1>3, <2>2, <2>4
       DEF AttemptMoves, DryRunAnswered, Takes, Moves, Fails, Resolves, killVars, histVars
  <2>. QED
    BY <2>3, <2>4
<1>4. ASSUME NEW ok \in BOOLEAN, CommitAnswered(c, ok) PROVE AttemptMoves(c)
  <2>1. [cmd |-> c, kind |-> "commit", accept |-> ok] \in replies
    BY <1>4 DEF CommitAnswered, Takes
  <2>2. stage[c] # "idle"
    BY <1>2, <2>1
  <2>3. CASE ok
    BY <1>1, <1>4, <2>2, <2>3
       DEF AttemptMoves, CommitAnswered, Takes, Moves, approvalVars, killVars, histVars
  <2>4. CASE ~ok
    BY <1>1, <1>4, <2>2, <2>4
       DEF AttemptMoves, CommitAnswered, Takes, Moves, Fails, Resolves, killVars, histVars
  <2>. QED
    BY <2>3, <2>4
<1>5. CASE Released(c)
  <2>1. [cmd |-> c, kind |-> "release", accept |-> TRUE] \in replies
    BY <1>5 DEF Released, Takes
  <2>2. stage[c] # "idle"
    BY <1>2, <2>1
  <2>3. replies' \subseteq replies /\ \A r \in replies : r.cmd # c => r \in replies'
    BY <1>5 DEF Released, Takes
  <2>. QED
    BY <1>1, <1>5, <2>2, <2>3
       DEF AttemptMoves, Released, Moves, Fails, Resolves, killVars, histVars
<1>6. CASE Routed(c)
  <2>1. kill' \in BOOLEAN /\ apiErrors' \in 0..MaxApiErrors
    BY <1>1, <1>6, ErrorCount DEF Routed, killVars
  <2>. QED
    BY <1>1, <1>6, <2>1
       DEF AttemptMoves, Routed, Moves, Sends, Fails, Resolves, approvalVars, histVars
<1>7. CASE CheckTimesOut(c)
  BY <1>1, <1>7 DEF AttemptMoves, CheckTimesOut, Moves, Fails, Resolves, killVars
<1>8. CASE BridgeFilled(c)
  <2>1. kill' \in BOOLEAN
    BY <1>1, <1>8, Zenon DEF BridgeFilled
  <2>. QED
    BY <1>1, <1>8, <2>1 DEF AttemptMoves, BridgeFilled, Moves, approvalVars, netVars, histVars
<1>9. CASE BridgeRefused(c)
  <2>1. kill' \in BOOLEAN /\ apiErrors' \in 0..MaxApiErrors
    BY <1>9, ErrorCount DEF BridgeRefused
  <2>. QED
    BY <1>1, <1>9, <2>1 DEF AttemptMoves, BridgeRefused, Moves, Sends, approvalVars, histVars
<1>10. CASE BridgeTimesOut(c)
  BY <1>1, <1>10 DEF AttemptMoves, BridgeTimesOut, Moves, Sends, approvalVars, killVars, histVars
<1>11. CASE ReleaseTimesOut(c)
  BY <1>1, <1>11 DEF AttemptMoves, ReleaseTimesOut, Moves, Fails, Resolves, killVars
<1>12. CASE Booked(c)
  BY <1>1, <1>12 DEF AttemptMoves, Booked, Moves, Fails, Resolves, netVars, killVars, histVars
<1>. QED
  BY <1>3, <1>4, <1>5, <1>6, <1>7, <1>8, <1>9, <1>10, <1>11, <1>12 DEF Proceeds

LEMMA AttemptStepPreserves ==
    ASSUME IInv, NEW c \in Commands, Proceeds(c)
    PROVE  IInv'
BY AttemptSteps, AttemptPreserves

-----------------------------------------------------------------------------
(* Steps of the bridge and of the gateway.                                 *)

\* What a step of the bridge leaves true.
BridgeKeeps ==
    /\ OcTypeOK'
    /\ \A d \in Commands : phase'[d] # "new" => phase[d] # "new" \/ d \in posted
    /\ \A d \in Commands : phase'[d] = "new" => phase[d] = "new" /\ handed'[d] = handed[d]
    /\ \A d \in Commands : fills[d] <= fills'[d]
    /\ \A d \in Commands : fills'[d] <= handed'[d]
    /\ \A d \in Commands : answer'[d] = "filled" => fills'[d] > 0

LEMMA BridgeSteps ==
    ASSUME IInv, NEW c \in Commands, BridgeReceives(c) \/ BridgeWorks(c)
    PROVE  BridgeKeeps
<1>1. \/ c \in posted /\ (Open(c) \/ TurnDown(c))
      \/ Visit({c}, {}) \/ Visit({}, {c}) \/ Fill(c) \/ Close(c)
      \/ \E a \in Answers : Reply(c, a)
  BY DEF BridgeReceives, BridgeWorks
<1>2. OcTypeOK
  BY DEF IInv, TypeOK
<1>. DEFINE Good == /\ \A d \in Commands : phase[d] = "new" => handed[d] = 0
                    /\ \A d \in Commands : fills[d] <= handed[d]
                    /\ \A d \in Commands : answer[d] = "filled" => fills[d] > 0
<1>3. Good
  BY DEF IInv, FillsAreReal
<1>4. CASE c \in posted /\ (Open(c) \/ TurnDown(c))
  BY <1>2, <1>3, <1>4 DEF BridgeKeeps, OcTypeOK, Phases, Answers, Open, TurnDown
<1>5. CASE Visit({c}, {})
  BY <1>2, <1>3, <1>5, CopiesAssumption DEF BridgeKeeps, OcTypeOK, Phases, Visit
<1>6. CASE Visit({}, {c})
  BY <1>2, <1>3, <1>6, CopiesAssumption DEF BridgeKeeps, OcTypeOK, Phases, Visit
<1>7. CASE Fill(c)
  BY <1>2, <1>3, <1>7, CopiesAssumption DEF BridgeKeeps, OcTypeOK, Phases, Fill
<1>8. CASE Close(c)
  BY <1>2, <1>3, <1>8 DEF BridgeKeeps, OcTypeOK, Phases, Close
<1>9. ASSUME NEW a \in Answers, Reply(c, a)
      PROVE  BridgeKeeps
  BY <1>2, <1>3, <1>9 DEF BridgeKeeps, OcTypeOK, Phases, Reply
<1>. QED
  BY <1>1, <1>4, <1>5, <1>6, <1>7, <1>8, <1>9

LEMMA BridgePreserves ==
    ASSUME IInv, NEW c \in Commands, BridgeReceives(c) \/ BridgeWorks(c)
    PROVE  IInv'
<1>1. UNCHANGED <<rgVars, approvalVars, attemptVars, netVars, killVars, histVars>>
  BY DEF BridgeReceives, BridgeWorks
<1>2. /\ UNCHANGED <<used, exposure, held, stray, approval, first, stage, order, second>>
      /\ UNCHANGED <<calls, replies, posted, kill, apiErrors, traced, restarts>>
  BY <1>1 DEF rgVars, approvalVars, attemptVars, netVars, killVars, histVars
<1>3. OcTypeOK
  BY DEF IInv, TypeOK
<1>4. BridgeKeeps
  BY BridgeSteps
<1>5. TypeOK'
  <2>1. RgTypeOK' /\ CtrlTypeOK' /\ NetTypeOK'
    BY <1>2 DEF IInv, TypeOK, RgTypeOK, CtrlTypeOK, NetTypeOK
  <2>2. StatTypeOK'
    BY <1>2 DEF IInv, TypeOK, StatTypeOK
  <2>. QED
    BY <1>4, <2>1, <2>2 DEF BridgeKeeps, TypeOK, CtrlTypeOK, NetTypeOK, StatTypeOK
<1>6. StartedByTwo'
  BY <1>2, <1>4 DEF BridgeKeeps, IInv, StartedByTwo, TwoOperators
<1>7. FillsAreReal'
  BY <1>2, <1>3, <1>4 DEF BridgeKeeps, IInv, FillsAreReal, OcTypeOK
<1>8. ExecutedMeansFilled'
  BY <1>2, <1>3, <1>4 DEF BridgeKeeps, IInv, ExecutedMeansFilled, OcTypeOK
<1>. QED
  BY <1>5, <1>6, <1>7, <1>8 DEF IInv

LEMMA OrderFacts ==
    ASSUME NEW o \in Orders
    PROVE  /\ Notional(o) \in Nat \ {0}
           /\ Signed(o) \in Int
           /\ OrderOf[o].symbol \in Symbols
<1>1. OrderOf[o] \in OrderContents
  BY GatewayAssumption
<1>. QED
  BY <1>1 DEF OrderContents, Notional, Signed

LEMMA LedgerTypes ==
    ASSUME RgTypeOK, NEW o \in Orders, Commit(o) \/ Release(o) \/ UNCHANGED rgVars
    PROVE  RgTypeOK'
<1>. USE OrderFacts
<1>1. CASE Commit(o)
  BY <1>1 DEF RgTypeOK, Commit
<1>2. CASE Release(o)
  <2>1. used' \in Nat /\ exposure' \in [Symbols -> Int]
    BY <1>2 DEF RgTypeOK, Release, Lowered
  <2>2. held' \in [Orders -> Nat] /\ stray' \in Nat
    <3>1. CASE held[o] > 0
      BY <1>2, <3>1 DEF RgTypeOK, Release
    <3>2. CASE ~(held[o] > 0)
      BY <1>2, <3>2 DEF RgTypeOK, Release
    <3>. QED
      BY <3>1, <3>2
  <2>. QED
    BY <2>1, <2>2 DEF RgTypeOK
<1>3. CASE UNCHANGED rgVars
  BY <1>3 DEF RgTypeOK, rgVars
<1>. QED
  BY <1>1, <1>2, <1>3

LEMMA GatewayPreserves ==
    ASSUME IInv, NEW m \in calls, GatewayHandles(m)
    PROVE  IInv'
<1>1. m \in Calls /\ m.cmd \in Commands /\ m.kind \in Kinds /\ stage[m.cmd] # "idle"
  BY DEF IInv, TypeOK, Calls, StartedByTwo
<1>2. order[m.cmd] \in Orders
  BY <1>1 DEF IInv, StartedByTwo, TwoOperators
<1>3. /\ UNCHANGED <<phase, handed, fills, answer, approval, first, stage, order, second>>
      /\ UNCHANGED <<posted, kill, apiErrors, traced, restarts>>
  BY DEF GatewayHandles, ocVars, approvalVars, attemptVars, killVars, histVars
<1>4. calls' \subseteq calls
  BY DEF GatewayHandles
<1>5. PICK a \in BOOLEAN :
          replies' \in {replies, replies \cup {[cmd |-> m.cmd, kind |-> m.kind, accept |-> a]}}
  <2>1. (m.kind = "release" \/ WithinPolicy(order[m.cmd])) \in BOOLEAN
    OBVIOUS
  <2>. QED
    BY <2>1 DEF GatewayHandles
<1>6. Commit(order[m.cmd]) \/ Release(order[m.cmd]) \/ UNCHANGED rgVars
  BY DEF GatewayHandles
<1>7. RgTypeOK'
  BY <1>2, <1>6, LedgerTypes DEF IInv, TypeOK
<1>8. [cmd |-> m.cmd, kind |-> m.kind, accept |-> a] \in Replies
  BY <1>1 DEF Replies
<1>9. TypeOK'
  <2>1. OcTypeOK' /\ CtrlTypeOK'
    BY <1>3 DEF IInv, TypeOK, OcTypeOK, CtrlTypeOK
  <2>2. NetTypeOK'
    BY <1>3, <1>4, <1>5, <1>8 DEF IInv, TypeOK, NetTypeOK
  <2>3. StatTypeOK'
    BY <1>3 DEF IInv, TypeOK, StatTypeOK
  <2>. QED
    BY <1>7, <2>1, <2>2, <2>3 DEF TypeOK, CtrlTypeOK, NetTypeOK, StatTypeOK
<1>10. StartedByTwo'
  <2>1. \A r \in replies' : stage[r.cmd] # "idle"
    BY <1>1, <1>5 DEF IInv, StartedByTwo
  <2>. QED
    BY <1>3, <1>4, <2>1 DEF IInv, StartedByTwo, TwoOperators
<1>11. FillsAreReal' /\ ExecutedMeansFilled'
  BY <1>3 DEF IInv, FillsAreReal, ExecutedMeansFilled
<1>. QED
  BY <1>9, <1>10, <1>11 DEF IInv

-----------------------------------------------------------------------------
(* Steps of the operators and restarts.                                    *)

\* Nothing of an attempt that has not started is on the wires or at the broker.
LEMMA IdleIsClean ==
    ASSUME IInv, NEW c \in Commands, stage[c] = "idle"
    PROVE  /\ c \notin posted /\ phase[c] = "new" /\ ~(fills[c] > 0)
           /\ \A m \in calls : m.cmd # c
           /\ \A r \in replies : r.cmd # c
<1>1. c \notin posted /\ phase[c] = "new"
  BY DEF IInv, StartedByTwo
<1>2. handed[c] = 0 /\ fills[c] <= handed[c] /\ fills[c] \in 0..MaxCopies
  BY <1>1 DEF IInv, FillsAreReal, TypeOK, OcTypeOK
<1>3. ~(fills[c] > 0)
  BY <1>2, CopiesAssumption
<1>. QED
  BY <1>1, <1>3 DEF IInv, StartedByTwo

LEMMA SubmitPreserves ==
    ASSUME IInv, NEW o \in Orders, NEW op \in Operators, Submit(o, op)
    PROVE  IInv'
<1>1. /\ approval[o] = "none"
      /\ approval' = [approval EXCEPT ![o] = "pending"]
      /\ first'    = [first EXCEPT ![o] = op]
      /\ UNCHANGED <<phase, handed, fills, answer, used, exposure, held, stray>>
      /\ UNCHANGED <<stage, order, second, calls, replies, posted>>
      /\ UNCHANGED <<kill, apiErrors, traced, restarts>>
  BY DEF Submit, ocVars, rgVars, attemptVars, netVars, killVars, histVars
<1>2. CtrlTypeOK'
  BY <1>1 DEF IInv, TypeOK, CtrlTypeOK
<1>3. OcTypeOK' /\ RgTypeOK' /\ NetTypeOK'
  BY <1>1 DEF IInv, TypeOK, OcTypeOK, RgTypeOK, NetTypeOK
<1>4. StatTypeOK'
  BY <1>1 DEF IInv, TypeOK, StatTypeOK
<1>5. TypeOK'
  BY <1>2, <1>3, <1>4 DEF TypeOK, CtrlTypeOK, NetTypeOK, StatTypeOK
<1>6. StartedByTwo'
  <2>1. \A d \in Commands : stage[d] # "idle" => order[d] # o
    BY <1>1 DEF IInv, StartedByTwo, TwoOperators
  <2>. QED
    BY <1>1, <2>1 DEF IInv, StartedByTwo, TwoOperators, TypeOK
<1>7. FillsAreReal' /\ ExecutedMeansFilled'
  BY <1>1 DEF IInv, FillsAreReal, ExecutedMeansFilled, TypeOK
<1>. QED
  BY <1>5, <1>6, <1>7 DEF IInv

LEMMA CancelPreserves ==
    ASSUME IInv, NEW o \in Orders, CancelStale(o)
    PROVE  IInv'
<1>1. /\ approval' = [approval EXCEPT ![o] = "cancelled"]
      /\ UNCHANGED <<phase, handed, fills, answer, used, exposure, held, stray, first>>
      /\ UNCHANGED <<stage, order, second, calls, replies, posted>>
      /\ UNCHANGED <<kill, apiErrors, traced, restarts>>
      /\ approval[o] = "pending"
  BY DEF CancelStale, ocVars, rgVars, attemptVars, netVars, killVars, histVars
<1>2. CtrlTypeOK'
  BY <1>1 DEF IInv, TypeOK, CtrlTypeOK, Resolved
<1>3. OcTypeOK' /\ RgTypeOK' /\ NetTypeOK'
  BY <1>1 DEF IInv, TypeOK, OcTypeOK, RgTypeOK, NetTypeOK
<1>4. StatTypeOK'
  BY <1>1 DEF IInv, TypeOK, StatTypeOK
<1>5. TypeOK'
  BY <1>2, <1>3, <1>4 DEF TypeOK, CtrlTypeOK, NetTypeOK, StatTypeOK
<1>6. StartedByTwo'
  BY <1>1 DEF IInv, StartedByTwo, TwoOperators, TypeOK
<1>7. FillsAreReal' /\ ExecutedMeansFilled'
  BY <1>1 DEF IInv, FillsAreReal, ExecutedMeansFilled, TypeOK
<1>. QED
  BY <1>5, <1>6, <1>7 DEF IInv

LEMMA SecondApprovePreserves ==
    ASSUME IInv, NEW c \in Commands, NEW o \in Orders, NEW op \in Operators,
           SecondApprove(c, o, op)
    PROVE  IInv'
<1>1. /\ stage[c] = "idle" /\ approval[o] = "pending" /\ op # first[o]
      /\ order'  = [order EXCEPT ![c] = o]
      /\ second' = [second EXCEPT ![c] = op]
      /\ UNCHANGED <<phase, handed, fills, answer, used, exposure, held, stray, first>>
      /\ UNCHANGED <<replies, posted, kill, apiErrors, traced, restarts>>
  BY DEF SecondApprove, ocVars, rgVars, killVars, histVars, approvalVars, Resolves
<1>2. /\ \E s \in {"dry", "failed"} : stage' = [stage EXCEPT ![c] = s]
      /\ approval' \in {approval, [approval EXCEPT ![o] = "rejected"]}
      /\ calls' \in {calls, calls \cup {[cmd |-> c, kind |-> "dry"]}}
  BY DEF SecondApprove, Moves, Sends, Resolves, approvalVars
<1>3. PICK s \in {"dry", "failed"} : stage' = [stage EXCEPT ![c] = s]
  BY <1>2
<1>4. /\ c \notin posted /\ phase[c] = "new" /\ ~(fills[c] > 0)
  BY <1>1, IdleIsClean
<1>5. /\ approval' \in [Orders -> {"none", "pending"} \cup Resolved]
      /\ \A p \in Orders : approval[p] # "none" <=> approval'[p] # "none"
      /\ \A p \in Orders : approval'[p] = "executed" => approval[p] = "executed"
  BY <1>1, <1>2 DEF IInv, TypeOK, Resolved
<1>6. /\ stage' \in [Commands -> Stages] /\ stage'[c] \notin {"idle", "book"}
      /\ \A d \in Commands \ {c} : stage'[d] = stage[d]
  BY <1>3 DEF IInv, TypeOK, Stages, Running
<1>7. /\ order' \in [Commands -> Orders \cup {None}] /\ order'[c] = o
      /\ \A d \in Commands \ {c} : order'[d] = order[d]
      /\ second' \in [Commands -> Operators \cup {None}] /\ second'[c] = op
      /\ \A d \in Commands \ {c} : second'[d] = second[d]
  BY <1>1 DEF IInv, TypeOK
<1>8. [cmd |-> c, kind |-> "dry"] \in Calls
  BY DEF Calls, Kinds
<1>9. TypeOK'
  <2>1. CtrlTypeOK'
    BY <1>1, <1>5, <1>6, <1>7 DEF IInv, TypeOK, CtrlTypeOK
  <2>2. OcTypeOK' /\ RgTypeOK'
    BY <1>1 DEF IInv, TypeOK, OcTypeOK, RgTypeOK
  <2>3. NetTypeOK'
    BY <1>1, <1>2, <1>8 DEF IInv, TypeOK, NetTypeOK
  <2>4. StatTypeOK'
    BY <1>1 DEF IInv, TypeOK, StatTypeOK
  <2>. QED
    BY <2>1, <2>2, <2>3, <2>4 DEF TypeOK, CtrlTypeOK, NetTypeOK, StatTypeOK
<1>10. StartedByTwo'
  <2>1. TwoOperators(c)'
    BY <1>1, <1>5, <1>7 DEF IInv, StartedByTwo, TwoOperators
  <2>2. \A d \in Commands \ {c} : stage'[d] # "idle" => TwoOperators(d)'
    BY <1>1, <1>5, <1>6, <1>7 DEF IInv, StartedByTwo, TwoOperators
  <2>3. \A m \in calls' : stage'[m.cmd] # "idle"
    BY <1>2, <1>6, <1>8 DEF IInv, StartedByTwo, TypeOK, Calls
  <2>4. \A r \in replies' : stage'[r.cmd] # "idle"
    BY <1>1, <1>6 DEF IInv, StartedByTwo, TypeOK, Replies
  <2>5. \A d \in posted' : stage'[d] # "idle"
    BY <1>1, <1>6 DEF IInv, StartedByTwo, TypeOK
  <2>6. /\ \A p \in Orders : approval'[p] # "none" => first'[p] \in Operators
        /\ \A d \in Commands : phase'[d] # "new" => d \in posted'
    BY <1>1, <1>5 DEF IInv, StartedByTwo
  <2>. QED
    BY <2>1, <2>2, <2>3, <2>4, <2>5, <2>6 DEF StartedByTwo
<1>11. FillsAreReal'
  BY <1>1, <1>6 DEF IInv, FillsAreReal
<1>12. ExecutedMeansFilled'
  BY <1>1, <1>4, <1>5, <1>7 DEF IInv, ExecutedMeansFilled
<1>. QED
  BY <1>9, <1>10, <1>11, <1>12 DEF IInv

LEMMA KillSwitchPreserves ==
    ASSUME IInv, ActivateKillSwitch \/ ResetKillSwitch
    PROVE  IInv'
<1>1. /\ UNCHANGED <<phase, handed, fills, answer, used, exposure, held, stray>>
      /\ UNCHANGED <<approval, first, stage, order, second, calls, replies, posted>>
      /\ UNCHANGED <<traced, restarts>>
  BY DEF ActivateKillSwitch, ResetKillSwitch, ocVars, rgVars, approvalVars,
         attemptVars, netVars, histVars
<1>2. kill' \in BOOLEAN
  BY Zenon DEF ActivateKillSwitch, ResetKillSwitch
<1>3. apiErrors' \in 0..MaxApiErrors
  BY LiveOrderAssumption DEF ActivateKillSwitch, ResetKillSwitch, IInv, TypeOK
<1>4. TypeOK'
  BY <1>1, <1>2, <1>3 DEF IInv, TypeOK, OcTypeOK, RgTypeOK
<1>5. StartedByTwo' /\ FillsAreReal' /\ ExecutedMeansFilled'
  BY <1>1 DEF IInv, StartedByTwo, TwoOperators, FillsAreReal, ExecutedMeansFilled
<1>. QED
  BY <1>4, <1>5 DEF IInv

LEMMA GatewayRestartPreserves ==
    ASSUME IInv, GatewayRestarts
    PROVE  IInv'
<1>1. /\ UNCHANGED <<phase, handed, fills, answer, approval, first, stage, order, second>>
      /\ UNCHANGED <<calls, replies, posted, kill, apiErrors, traced>>
  BY DEF GatewayRestarts, ocVars, approvalVars, attemptVars, netVars, killVars
<1>2. RgTypeOK'
  BY DEF GatewayRestarts, Restart, RgTypeOK
<1>3. restarts' \in 0..MaxRestarts
  BY LiveOrderAssumption DEF GatewayRestarts, IInv, TypeOK
<1>4. TypeOK'
  BY <1>1, <1>2, <1>3 DEF IInv, TypeOK, OcTypeOK
<1>5. StartedByTwo' /\ FillsAreReal' /\ ExecutedMeansFilled'
  BY <1>1 DEF IInv, StartedByTwo, TwoOperators, FillsAreReal, ExecutedMeansFilled
<1>. QED
  BY <1>4, <1>5 DEF IInv

LEMMA ControlPlaneRestartPreserves ==
    ASSUME IInv, ControlPlaneRestarts
    PROVE  IInv'
<1>1. /\ UNCHANGED <<phase, handed, fills, answer, used, exposure, held, stray>>
      /\ UNCHANGED <<approval, first, order, second, calls, posted, kill, apiErrors, traced>>
      /\ replies' = {}
  BY DEF ControlPlaneRestarts, ocVars, rgVars, approvalVars, killVars
<1>2. /\ stage' \in [Commands -> Stages]
      /\ \A d \in Commands : stage'[d] = "idle" <=> stage[d] = "idle"
      /\ \A d \in Commands : stage'[d] # "book"
  BY DEF ControlPlaneRestarts, IInv, TypeOK, Stages, Running
<1>3. restarts' \in 0..MaxRestarts
  BY LiveOrderAssumption DEF ControlPlaneRestarts, IInv, TypeOK
<1>4. TypeOK'
  BY <1>1, <1>2, <1>3 DEF IInv, TypeOK, OcTypeOK, RgTypeOK
<1>5. StartedByTwo'
  BY <1>1, <1>2 DEF IInv, StartedByTwo, TwoOperators, TypeOK, Calls
<1>6. FillsAreReal' /\ ExecutedMeansFilled'
  BY <1>1, <1>2 DEF IInv, FillsAreReal, ExecutedMeansFilled
<1>. QED
  BY <1>4, <1>5, <1>6 DEF IInv

-----------------------------------------------------------------------------
(* The theorems.                                                           *)

LEMMA InitHolds == Init => IInv
<1>. SUFFICES ASSUME Init PROVE IInv
  OBVIOUS
<1>1. OcTypeOK /\ RgTypeOK
  BY CopiesAssumption, GatewayAssumption
     DEF Init, OcInit, OcTypeOK, Phases, Answers, RgInit, RgTypeOK
<1>2. CtrlTypeOK
  BY DEF Init, CtrlTypeOK, Stages
<1>3. NetTypeOK /\ StatTypeOK
  <2>1. kill \in BOOLEAN
    BY Zenon DEF Init
  <2>2. calls = {} /\ replies = {} /\ posted = {} /\ traced = {} /\ apiErrors = 0 /\ restarts = 0
    BY DEF Init
  <2>. QED
    BY <2>1, <2>2, LiveOrderAssumption DEF NetTypeOK, StatTypeOK
<1>4. StartedByTwo
  BY DEF Init, OcInit, StartedByTwo
<1>5. FillsAreReal /\ ExecutedMeansFilled
  BY DEF Init, OcInit, FillsAreReal, ExecutedMeansFilled
<1>. QED
  BY <1>1, <1>2, <1>3, <1>4, <1>5, TypeParts DEF IInv

LEMMA StepPreserves == IInv /\ [Next]_vars => IInv'
<1>. SUFFICES ASSUME IInv, [Next]_vars PROVE IInv'
  OBVIOUS
<1>1. CASE Operator
  <2>1. ASSUME NEW o \in Orders, NEW op \in Operators, Submit(o, op) PROVE IInv'
    BY <2>1, SubmitPreserves
  <2>2. ASSUME NEW o \in Orders, CancelStale(o) PROVE IInv'
    BY <2>2, CancelPreserves
  <2>3. ASSUME NEW c \in Commands, NEW o \in Orders, NEW op \in Operators,
               SecondApprove(c, o, op)
        PROVE  IInv'
    BY <2>3, SecondApprovePreserves
  <2>4. CASE ActivateKillSwitch \/ ResetKillSwitch
    BY <2>4, KillSwitchPreserves
  <2>. QED
    BY <1>1, <2>1, <2>2, <2>3, <2>4 DEF Operator
<1>2. ASSUME NEW c \in Commands, Proceeds(c) PROVE IInv'
  BY <1>2, AttemptStepPreserves
<1>3. ASSUME NEW m \in calls, GatewayHandles(m) PROVE IInv'
  BY <1>3, GatewayPreserves
<1>4. ASSUME NEW c \in Commands, BridgeReceives(c) \/ BridgeWorks(c) PROVE IInv'
  BY <1>4, BridgePreserves
<1>5. CASE GatewayRestarts
  BY <1>5, GatewayRestartPreserves
<1>6. CASE ControlPlaneRestarts
  BY <1>6, ControlPlaneRestartPreserves
<1>7. CASE UNCHANGED vars
  <2>1. /\ UNCHANGED <<phase, handed, fills, answer, used, exposure, held, stray>>
        /\ UNCHANGED <<approval, first, stage, order, second, calls, replies, posted>>
        /\ UNCHANGED <<kill, apiErrors, traced, restarts>>
    BY <1>7 DEF vars, ocVars, rgVars, approvalVars, attemptVars, netVars, killVars, histVars
  <2>2. TypeOK'
    BY <2>1 DEF IInv, TypeOK, OcTypeOK, RgTypeOK
  <2>3. StartedByTwo' /\ FillsAreReal' /\ ExecutedMeansFilled'
    BY <2>1 DEF IInv, StartedByTwo, TwoOperators, FillsAreReal, ExecutedMeansFilled
  <2>. QED
    BY <2>2, <2>3 DEF IInv
<1>. QED
  BY <1>1, <1>2, <1>3, <1>4, <1>5, <1>6, <1>7 DEF Next

LEMMA Invariance == Spec => []IInv
BY InitHolds, StepPreserves, PTL DEF Spec

\* Types of approvals, attempts, messages, kill switch, bridge commands and
\* ledger, through every timeout and restart.
THEOREM TypeCorrect == Spec => []TypeOK
<1>1. IInv => TypeOK
  BY DEF IInv
<1>. QED
  BY <1>1, Invariance, PTL

\* Whatever is lost, late or approved twice, an order that reaches the bridge
\* was approved by two different operators (main.py:21719).
THEOREM TwoOperatorsApprove == Spec => []FourEyes
<1>1. IInv => FourEyes
  BY DEF IInv, StartedByTwo, TwoOperators, FourEyes
<1>. QED
  BY <1>1, Invariance, PTL

\* No interleaving of attempts, also for one approval, records an approval as
\* executed that no fill at the broker backs (main.py:21788-21798).
THEOREM ExecutedIsFilled == Spec => []ExecutedMeansFilled
<1>1. IInv => ExecutedMeansFilled
  BY DEF IInv
<1>. QED
  BY <1>1, Invariance, PTL

-----------------------------------------------------------------------------
(* The charges.  What an attempt may still ask of the gateway, and what it   *)
(* was answered, follows from where it is; so each request is handled once,  *)
(* a charge is given back only by the attempt that made it, and a charge     *)
(* that is not accounted for by an attempt left a trace.                     *)

Asked(c, k)       == [cmd |-> c, kind |-> k] \in calls
Answered(c, k, a) == [cmd |-> c, kind |-> k, accept |-> a] \in replies

\* An attempt waits for at most one answer, and only for that of its request.
\* Requests outlive only an attempt that was lost or has given up waiting.
InOrder(c) ==
    /\ Asked(c, "commit") => stage[c] \in {"commit", "lost"} \/ c \in traced
    /\ Asked(c, "release") => /\ stage[c] \in {"release", "lost"} \/ c \in traced
                              /\ ~Asked(c, "commit")
    /\ \A k \in Kinds, a \in BOOLEAN : Answered(c, k, a) =>
          stage[c] = k /\ ~Asked(c, k) /\ ~Answered(c, k, ~a)
    /\ c \in traced => stage[c] = "failed"
    /\ c \in posted => stage[c] \notin {"idle", "dry", "route", "commit"}

\* The gateway certainly charged the attempt and did not give it back.
Charged(c) ==
    \/ stage[c] \in {"bridge", "book", "ok"}
    \/ Answered(c, "commit", TRUE)
    \/ Asked(c, "release")

\* The gateway may have charged the attempt and not given it back.
Holds(c) ==
    /\ ~Asked(c, "commit")
    /\ Charged(c) \/ stage[c] = "lost" \/ c \in traced \/ fills[c] > 0

AllInOrder == \A c \in Commands : InOrder(c)

ChargesCovered == restarts = 0 => used >= NotionalOf({c \in Commands : Charged(c)})

HeldIsCounted ==
    \A o \in Orders : held[o] <= Cardinality({c \in Commands : order[c] = o /\ Holds(c)})

LInv == AllInOrder /\ ChargesCovered /\ HeldIsCounted

LEMMA FilledIsPosted ==
    ASSUME IInv, NEW c \in Commands, fills[c] > 0
    PROVE  c \in posted
<1>1. fills[c] \in 0..MaxCopies /\ handed[c] \in 0..MaxCopies /\ fills[c] <= handed[c]
  BY DEF IInv, TypeOK, OcTypeOK, FillsAreReal
<1>2. phase[c] # "new"
  BY <1>1, CopiesAssumption DEF IInv, FillsAreReal
<1>. QED
  BY <1>2 DEF IInv, StartedByTwo

\* Nothing that concerns the attempt changes, except that it may be filled.
Untouched(d) ==
    /\ stage'[d] = stage[d]
    /\ fills[d] > 0 => fills'[d] > 0
    /\ d \in traced' <=> d \in traced
    /\ d \in posted' <=> d \in posted
    /\ \A k \in Kinds : Asked(d, k)' <=> Asked(d, k)
    /\ \A k \in Kinds, a \in BOOLEAN : Answered(d, k, a)' <=> Answered(d, k, a)

LEMMA UntouchedStays ==
    ASSUME NEW d \in Commands, InOrder(d), Untouched(d)
    PROVE  InOrder(d)' /\ (Charged(d)' <=> Charged(d)) /\ (Holds(d) => Holds(d)')
<1>1. {"commit", "release"} \subseteq Kinds /\ TRUE \in BOOLEAN
  BY DEF Kinds
<1>2. InOrder(d)'
  BY <1>1 DEF InOrder, Untouched
<1>3. Charged(d)' <=> Charged(d)
  BY <1>1 DEF Charged, Untouched
<1>4. Holds(d) => Holds(d)'
  BY <1>1, <1>3 DEF Holds, Untouched
<1>. QED
  BY <1>2, <1>3, <1>4

\* A step of an attempt does not touch the others.
LEMMA OthersUntouched ==
    ASSUME IInv, NEW c \in Commands, AttemptMoves(c), NEW d \in Commands \ {c}
    PROVE  Untouched(d) /\ order'[d] = order[d]
<1>1. stage'[d] = stage[d] /\ order' = order /\ fills' = fills
  BY DEF AttemptMoves, ocVars, IInv, TypeOK
<1>2. (d \in traced' <=> d \in traced) /\ (d \in posted' <=> d \in posted)
  BY DEF AttemptMoves
<1>3. \A k \in Kinds : Asked(d, k)' <=> Asked(d, k)
  BY DEF AttemptMoves, Asked
<1>4. ASSUME NEW k \in Kinds, NEW a \in BOOLEAN
      PROVE  Answered(d, k, a)' <=> Answered(d, k, a)
  <2>. DEFINE r == [cmd |-> d, kind |-> k, accept |-> a]
  <2>1. r.cmd # c
    OBVIOUS
  <2>. QED
    BY <2>1 DEF AttemptMoves, Answered
<1>. QED
  BY <1>1, <1>2, <1>3, <1>4 DEF Untouched

\* A step of an attempt leaves its own messages in order, charges nothing and
\* lets no charge slip: while it may hold one, the attempt accounts for it.
LEMMA AttemptOwn ==
    ASSUME IInv, AllInOrder, NEW c \in Commands, Proceeds(c)
    PROVE  InOrder(c)' /\ (Charged(c)' => Charged(c)) /\ (Holds(c) => Holds(c)')
<1>. DEFINE Goal == InOrder(c)' /\ (Charged(c)' => Charged(c)) /\ (Holds(c) => Holds(c)')
<1>1. InOrder(c)
  BY DEF AllInOrder
<1>2. /\ {"dry", "commit", "release"} \subseteq Kinds
      /\ stage \in [Commands -> Stages] /\ replies \subseteq Replies
      /\ fills' = fills /\ (fills[c] > 0 => c \in posted)
  BY AttemptSteps, FilledIsPosted DEF Kinds, IInv, TypeOK, AttemptMoves, ocVars
<1>3. ASSUME NEW ok \in BOOLEAN, DryRunAnswered(c, ok) PROVE Goal
  <2>1. Answered(c, "dry", ok) /\ stage[c] = "dry"
    BY <1>1, <1>2, <1>3 DEF DryRunAnswered, Takes, Answered, InOrder
  <2>2. /\ stage'[c] \in {"route", "failed"}
        /\ calls' = calls /\ traced' = traced /\ posted' = posted /\ replies' \subseteq replies
    BY <1>2, <1>3 DEF DryRunAnswered, Takes, Moves, Fails, histVars
  <2>3. \A k \in Kinds, a \in BOOLEAN : ~Answered(c, k, a)'
    BY <1>1, <1>2, <1>3, <2>1, <2>2 DEF DryRunAnswered, Takes, Answered, InOrder
  <2>. QED
    BY <1>1, <1>2, <2>1, <2>2, <2>3 DEF InOrder, Charged, Holds, Asked
<1>4. ASSUME NEW ok \in BOOLEAN, CommitAnswered(c, ok) PROVE Goal
  <2>1. Answered(c, "commit", ok) /\ stage[c] = "commit"
    BY <1>1, <1>2, <1>4 DEF CommitAnswered, Takes, Answered, InOrder
  <2>2. /\ stage'[c] = IF ok THEN "bridge" ELSE "failed"
        /\ posted' = IF ok THEN posted \cup {c} ELSE posted
        /\ calls' = calls /\ traced' = traced /\ replies' \subseteq replies
    BY <1>2, <1>4 DEF CommitAnswered, Takes, Moves, Fails, histVars
  <2>3. \A k \in Kinds, a \in BOOLEAN : ~Answered(c, k, a)'
    BY <1>1, <1>2, <1>4, <2>1, <2>2 DEF CommitAnswered, Takes, Answered, InOrder
  <2>4. CASE ok
    BY <1>1, <1>2, <2>1, <2>2, <2>3, <2>4 DEF InOrder, Charged, Holds, Asked
  <2>5. CASE ~ok
    <3>1. ~Answered(c, "commit", TRUE)
      BY <1>1, <1>2, <2>1, <2>5 DEF InOrder
    <3>. QED
      BY <1>1, <1>2, <2>1, <2>2, <2>3, <2>5, <3>1 DEF InOrder, Charged, Holds, Asked
  <2>. QED
    BY <2>4, <2>5
<1>5. CASE Released(c)
  <2>1. Answered(c, "release", TRUE) /\ stage[c] = "release"
    BY <1>1, <1>2, <1>5 DEF Released, Takes, Answered, InOrder
  <2>2. /\ stage'[c] = "failed"
        /\ calls' = calls /\ traced' = traced /\ posted' = posted /\ replies' \subseteq replies
    BY <1>2, <1>5 DEF Released, Takes, Moves, Fails, histVars
  <2>3. \A k \in Kinds, a \in BOOLEAN : ~Answered(c, k, a)'
    BY <1>1, <1>2, <1>5, <2>1, <2>2 DEF Released, Takes, Answered, InOrder
  <2>. QED
    BY <1>1, <1>2, <2>1, <2>2, <2>3 DEF InOrder, Charged, Holds, Asked
<1>6. CASE Routed(c)
  <2>1. /\ stage[c] = "route" /\ UNCHANGED <<replies, posted, traced>>
        /\ \/ stage'[c] = "commit" /\ calls' = calls \cup {[cmd |-> c, kind |-> "commit"]}
           \/ stage'[c] = "failed" /\ calls' = calls
    BY <1>2, <1>6 DEF Routed, Moves, Sends, Fails, histVars
  <2>2. Asked(c, "release")' <=> Asked(c, "release")
    BY <2>1 DEF Asked
  <2>3. \A k \in Kinds, a \in BOOLEAN : ~Answered(c, k, a) /\ ~Answered(c, k, a)'
    BY <1>1, <2>1 DEF Answered, InOrder, Kinds
  <2>. QED
    BY <1>1, <1>2, <2>1, <2>2, <2>3 DEF InOrder, Charged, Holds, Asked
<1>7. ASSUME CheckTimesOut(c) \/ ReleaseTimesOut(c) PROVE Goal
  <2>1. /\ stage[c] \in {"dry", "commit", "release"} /\ stage'[c] = "failed"
        /\ calls' = calls /\ posted' = posted /\ traced' = traced \cup {c}
    BY <1>2, <1>7 DEF CheckTimesOut, ReleaseTimesOut, Moves, Fails
  <2>2. c \notin posted \/ stage[c] = "release"
    BY <1>1, <2>1 DEF InOrder
  <2>3. \A k \in Kinds, a \in BOOLEAN : ~Answered(c, k, a)'
    BY <1>7 DEF CheckTimesOut, ReleaseTimesOut, Answered
  <2>. QED
    BY <1>1, <1>2, <2>1, <2>2, <2>3 DEF InOrder, Charged, Holds, Asked
<1>8. CASE BridgeFilled(c)
  <2>1. stage[c] = "bridge" /\ stage'[c] = "book"
    BY <1>2, <1>8 DEF BridgeFilled, Moves
  <2>2. UNCHANGED <<calls, replies, posted, traced>>
    BY <1>8 DEF BridgeFilled, netVars, histVars
  <2>3. \A k \in Kinds, a \in BOOLEAN : ~Answered(c, k, a) /\ ~Answered(c, k, a)'
    BY <1>1, <2>1, <2>2 DEF Answered, InOrder, Kinds
  <2>. QED
    BY <1>1, <1>2, <2>1, <2>2, <2>3 DEF InOrder, Charged, Holds, Asked
<1>9. ASSUME BridgeRefused(c) \/ BridgeTimesOut(c) PROVE Goal
  <2>1. /\ stage[c] = "bridge" /\ stage'[c] = "release" /\ UNCHANGED <<replies, posted, traced>>
        /\ calls' = calls \cup {[cmd |-> c, kind |-> "release"]}
    BY <1>2, <1>9 DEF BridgeRefused, BridgeTimesOut, Moves, Sends, histVars
  <2>2. Asked(c, "release")' /\ (Asked(c, "commit")' <=> Asked(c, "commit"))
    BY <2>1 DEF Asked
  <2>3. \A k \in Kinds, a \in BOOLEAN : ~Answered(c, k, a) /\ ~Answered(c, k, a)'
    BY <1>1, <2>1 DEF Answered, InOrder, Kinds
  <2>. QED
    BY <1>1, <1>2, <2>1, <2>2, <2>3 DEF InOrder, Charged, Holds, Asked
<1>10. CASE Booked(c)
  <2>1. /\ stage[c] = "book" /\ stage'[c] \in {"ok", "failed"} /\ fills[c] > 0
    BY <1>2, <1>10 DEF Booked, Moves, Fails, IInv, FillsAreReal
  <2>2. UNCHANGED <<calls, replies, posted, traced>>
    BY <1>10 DEF Booked, netVars, histVars
  <2>3. \A k \in Kinds, a \in BOOLEAN : ~Answered(c, k, a) /\ ~Answered(c, k, a)'
    BY <1>1, <2>1, <2>2 DEF Answered, InOrder, Kinds
  <2>. QED
    BY <1>1, <1>2, <2>1, <2>2, <2>3 DEF InOrder, Charged, Holds, Asked
<1>. QED
  BY <1>3, <1>4, <1>5, <1>6, <1>7, <1>8, <1>9, <1>10 DEF Proceeds

\* What the attempts of C are charged with.
Amount(C) == [c \in Commands |-> IF c \in C THEN Notional(order[c]) ELSE 0]

LEMMA AmountFacts ==
    ASSUME IInv, AllInOrder
    PROVE  /\ IsFiniteSet(Commands)
           /\ \A c \in Commands : Charged(c) => order[c] \in Orders
           /\ \A c \in Commands : Amount({d \in Commands : Charged(d)})[c] \in Nat
           /\ NotionalOf({c \in Commands : Charged(c)}) \in Nat
<1>1. ASSUME NEW c \in Commands, Charged(c) PROVE order[c] \in Orders
  <2>1. InOrder(c) /\ {"commit", "release"} \subseteq Kinds
    BY DEF AllInOrder, Kinds
  <2>2. stage[c] # "idle"
    BY <1>1, <2>1 DEF Charged, InOrder
  <2>. QED
    BY <2>2 DEF IInv, StartedByTwo, TwoOperators
<1>2. IsFiniteSet(Commands)
  BY LiveOrderAssumption
<1>. DEFINE C == {d \in Commands : Charged(d)}
<1>3. \A c \in C : c \in Commands /\ Notional(order[c]) \in Nat
  BY <1>1, OrderFacts
<1>. HIDE DEF C
<1>4. \A c \in Commands : Amount(C)[c] \in Nat
  BY <1>3 DEF Amount
<1>5. NotionalOf(C) \in Nat
  <2>1. SumFunctionOnSet(Amount(C), Commands) \in Nat
    <3>. DEFINE g == Amount(C)
    <3>1. \A c \in Commands : g[c] \in Nat
      BY <1>4
    <3>. HIDE DEF g
    <3>2. SumFunctionOnSet(g, Commands) \in Nat
      BY <1>2, <3>1, SumOfNaturals
    <3>. QED
      BY <3>2 DEF g
  <2>. QED
    BY <2>1 DEF NotionalOf, Amount
<1>. QED
  BY <1>1, <1>2, <1>4, <1>5 DEF C

\* If no attempt is newly charged, the charges do not grow.
LEMMA ChargesFall ==
    ASSUME IInv, AllInOrder,
           \A c \in Commands : Charged(c)' => Charged(c) /\ order'[c] = order[c]
    PROVE  /\ NotionalOf({c \in Commands : Charged(c)})' \in Int
           /\ NotionalOf({c \in Commands : Charged(c)})'
                 <= NotionalOf({c \in Commands : Charged(c)})
<1>. DEFINE f == Amount({d \in Commands : Charged(d)})'
            g == Amount({d \in Commands : Charged(d)})
<1>1. ASSUME NEW c \in Commands
      PROVE  f[c] \in Int /\ g[c] \in Int /\ f[c] <= g[c]
  <2>1. f[c] = IF Charged(c)' THEN Notional(order'[c]) ELSE 0
    BY DEF Amount, Notional
  <2>2. g[c] = IF Charged(c) THEN Notional(order[c]) ELSE 0
    BY DEF Amount
  <2>3. g[c] \in Nat /\ (Charged(c) => order[c] \in Orders)
    BY AmountFacts
  <2>. HIDE DEF f, g
  <2>. QED
    BY <2>1, <2>2, <2>3
<1>2. /\ NotionalOf({c \in Commands : Charged(c)})' = SumFunctionOnSet(f, Commands)
      /\ NotionalOf({c \in Commands : Charged(c)}) = SumFunctionOnSet(g, Commands)
  BY DEF NotionalOf, Amount, Notional
<1>. HIDE DEF f, g
<1>3. SumFunctionOnSet(f, Commands) <= SumFunctionOnSet(g, Commands)
  BY <1>1, LiveOrderAssumption, SumMonotone
<1>4. SumFunctionOnSet(f, Commands) \in Int
  BY <1>1, LiveOrderAssumption, SumType
<1>. QED
  BY <1>2, <1>3, <1>4

\* One attempt more or less is its amount more or less.
LEMMA ChargesMove ==
    ASSUME IInv, AllInOrder, UNCHANGED order,
           NEW c \in Commands, order[c] \in Orders, NEW n \in Int,
           \A d \in Commands \ {c} : Charged(d)' <=> Charged(d),
           n = (IF Charged(c)' THEN Notional(order[c]) ELSE 0)
                  - (IF Charged(c) THEN Notional(order[c]) ELSE 0)
    PROVE  NotionalOf({d \in Commands : Charged(d)})'
              = NotionalOf({d \in Commands : Charged(d)}) + n
<1>. DEFINE h == Amount({d \in Commands : Charged(d)})'
            g == Amount({d \in Commands : Charged(d)})
<1>1. ASSUME NEW d \in Commands
      PROVE  g[d] \in Int /\ h[d] = IF d = c THEN g[d] + n ELSE g[d]
  <2>1. h[d] = IF Charged(d)' THEN Notional(order[d]) ELSE 0
    BY DEF Amount, Notional
  <2>2. g[d] = IF Charged(d) THEN Notional(order[d]) ELSE 0
    BY DEF Amount
  <2>3. g[d] \in Int /\ Notional(order[c]) \in Int
    BY AmountFacts, OrderFacts
  <2>. HIDE DEF h, g
  <2>. QED
    BY <2>1, <2>2, <2>3
<1>2. /\ NotionalOf({d \in Commands : Charged(d)})' = SumFunctionOnSet(h, Commands)
      /\ NotionalOf({d \in Commands : Charged(d)}) = SumFunctionOnSet(g, Commands)
  BY DEF NotionalOf, Amount, Notional
<1>. HIDE DEF h, g
<1>3. SumFunctionOnSet(h, Commands) = SumFunctionOnSet(g, Commands) + n
  <2>1. \A d \in Commands : g[d] \in Int
    BY <1>1
  <2>2. \A d \in Commands : h[d] = IF d = c THEN g[d] + n ELSE g[d]
    BY <1>1
  <2>. QED
    BY <2>1, <2>2, LiveOrderAssumption, SumChange
<1>. QED
  BY <1>2, <1>3

\* A step that neither charges nor lets a charge slip keeps both counts.
LEMMA LedgerUnmoved ==
    ASSUME IInv, LInv, AllInOrder', UNCHANGED <<used, held, restarts>>,
           \A c \in Commands : Charged(c)' => Charged(c) /\ order'[c] = order[c],
           \A c \in Commands : Holds(c) => Holds(c)' /\ order'[c] = order[c]
    PROVE  LInv'
<1>1. ChargesCovered'
  <2>1. /\ NotionalOf({c \in Commands : Charged(c)})' \in Int
        /\ NotionalOf({c \in Commands : Charged(c)})'
              <= NotionalOf({c \in Commands : Charged(c)})
    BY ChargesFall DEF LInv
  <2>2. NotionalOf({c \in Commands : Charged(c)}) \in Nat
    BY AmountFacts DEF LInv
  <2>3. used \in Nat
    BY DEF IInv, TypeOK, RgTypeOK
  <2>4. restarts' = 0 => used' >= NotionalOf({c \in Commands : Charged(c)})
    BY DEF LInv, ChargesCovered
  <2>5. restarts' = 0 => used' >= NotionalOf({c \in Commands : Charged(c)})'
    BY <2>1, <2>2, <2>3, <2>4
  <2>. QED
    BY <2>5 DEF ChargesCovered
<1>2. ASSUME NEW o \in Orders
      PROVE  held'[o] <= Cardinality({c \in Commands : order'[c] = o /\ Holds(c)'})
  <2>. DEFINE S == {c \in Commands : order[c] = o /\ Holds(c)}
              T == {c \in Commands : order'[c] = o /\ Holds(c)'}
  <2>1. S \subseteq T /\ T \in SUBSET Commands
    OBVIOUS
  <2>2. held'[o] = held[o] /\ held[o] \in Nat /\ held[o] <= Cardinality(S)
    BY DEF LInv, HeldIsCounted, IInv, TypeOK, RgTypeOK
  <2>. HIDE DEF S, T
  <2>3. IsFiniteSet(T)
    BY <2>1, LiveOrderAssumption, FS_Subset
  <2>4. Cardinality(S) <= Cardinality(T) /\ IsFiniteSet(S)
    BY <2>1, <2>3, FS_Subset
  <2>5. Cardinality(S) \in Nat /\ Cardinality(T) \in Nat
    BY <2>3, <2>4, FS_CardinalityType
  <2>6. held'[o] <= Cardinality(T)
    BY <2>2, <2>4, <2>5
  <2>. QED
    BY <2>6 DEF T
<1>3. HeldIsCounted'
  BY <1>2 DEF HeldIsCounted
<1>. QED
  BY <1>1, <1>3 DEF LInv

LEMMA AttemptKeepsLedger ==
    ASSUME IInv, LInv, NEW c \in Commands, Proceeds(c)
    PROVE  LInv'
<1>1. AttemptMoves(c)
  BY AttemptSteps
<1>2. /\ UNCHANGED <<used, held, restarts>> /\ order' = order
  BY <1>1 DEF AttemptMoves, rgVars
<1>3. AllInOrder
  BY DEF LInv
<1>4. ASSUME NEW d \in Commands
      PROVE  /\ InOrder(d)' /\ order'[d] = order[d]
             /\ (Charged(d)' => Charged(d)) /\ (Holds(d) => Holds(d)')
  <2>1. CASE d = c
    BY <1>2, <1>3, <2>1, AttemptOwn
  <2>2. CASE d # c
    <3>1. Untouched(d) /\ InOrder(d)
      BY <1>1, <1>3, <2>2, OthersUntouched DEF AllInOrder
    <3>. QED
      BY <1>2, <3>1, UntouchedStays
  <2>. QED
    BY <2>1, <2>2
<1>5. AllInOrder'
  BY <1>4 DEF AllInOrder
<1>. QED
  BY <1>2, <1>4, <1>5, LedgerUnmoved

\* A step that touches no attempt.
LEMMA QuietKeepsLedger ==
    ASSUME IInv, LInv, UNCHANGED <<used, held, restarts, order>>,
           \A c \in Commands : Untouched(c)
    PROVE  LInv'
<1>1. ASSUME NEW c \in Commands
      PROVE  InOrder(c)' /\ (Charged(c)' => Charged(c)) /\ (Holds(c) => Holds(c)')
  BY UntouchedStays DEF LInv, AllInOrder
<1>2. AllInOrder'
  BY <1>1 DEF AllInOrder
<1>. QED
  BY <1>1, <1>2, LedgerUnmoved

LEMMA SecondApproveKeepsLedger ==
    ASSUME IInv, LInv, NEW c \in Commands, NEW o \in Orders, NEW op \in Operators,
           SecondApprove(c, o, op)
    PROVE  LInv'
<1>1. /\ stage[c] = "idle" /\ order'  = [order EXCEPT ![c] = o]
      /\ UNCHANGED <<fills, used, held, replies, posted, traced, restarts>>
      /\ \E s \in {"dry", "failed"} : stage' = [stage EXCEPT ![c] = s]
      /\ calls' \in {calls, calls \cup {[cmd |-> c, kind |-> "dry"]}}
  BY DEF SecondApprove, Moves, Sends, Resolves, approvalVars, ocVars, rgVars, histVars
<1>2. /\ stage \in [Commands -> Stages] /\ order \in [Commands -> Orders \cup {None}]
      /\ {"commit", "release"} \subseteq Kinds
  BY DEF IInv, TypeOK, Kinds
<1>3. AllInOrder
  BY DEF LInv
<1>4. ASSUME NEW d \in Commands
      PROVE  /\ InOrder(d)' /\ (Charged(d)' => Charged(d) /\ order'[d] = order[d])
             /\ (Holds(d) => Holds(d)' /\ order'[d] = order[d])
  <2>1. CASE d = c
    <3>1. /\ c \notin posted /\ c \notin traced /\ ~(fills[c] > 0)
          /\ ~Asked(c, "commit") /\ ~Asked(c, "release")
      BY <1>1, <1>2, <1>3, FilledIsPosted DEF AllInOrder, InOrder
    <3>2. \A k \in Kinds, a \in BOOLEAN : ~Answered(c, k, a)
      BY <1>1, <1>3 DEF AllInOrder, InOrder, Kinds
    <3>3. ~Asked(c, "commit")' /\ ~Asked(c, "release")'
      BY <1>1, <3>1 DEF Asked
    <3>4. \A k \in Kinds, a \in BOOLEAN : ~Answered(c, k, a)'
      BY <1>1, <3>2 DEF Answered
    <3>5. stage'[c] \in {"dry", "failed"} /\ UNCHANGED <<fills, posted, traced>>
      BY <1>1, <1>2
    <3>. QED
      BY <1>1, <1>2, <2>1, <3>1, <3>2, <3>3, <3>4, <3>5 DEF InOrder, Charged, Holds
  <2>2. CASE d # c
    <3>1. stage'[d] = stage[d] /\ order'[d] = order[d]
      BY <1>1, <1>2, <2>2
    <3>2. \A k \in Kinds : Asked(d, k)' <=> Asked(d, k)
      BY <1>1, <2>2 DEF Asked
    <3>3. Untouched(d)
      BY <1>1, <3>1, <3>2 DEF Untouched, Answered
    <3>. QED
      BY <1>3, <3>1, <3>3, UntouchedStays DEF AllInOrder
  <2>. QED
    BY <2>1, <2>2
<1>5. AllInOrder'
  BY <1>4 DEF AllInOrder
<1>. QED
  BY <1>1, <1>4, <1>5, LedgerUnmoved

\* After a restart of the gateway nothing is held; before one the charges are
\* only compared while there was none.
LEMMA RestartKeepsLedger ==
    ASSUME IInv, LInv, GatewayRestarts \/ ControlPlaneRestarts
    PROVE  LInv'
<1>1. restarts' # 0 /\ order' = order /\ fills' = fills /\ calls' = calls
      /\ traced' = traced /\ posted' = posted
  BY DEF GatewayRestarts, ControlPlaneRestarts, attemptVars, netVars, ocVars, IInv, TypeOK
<1>2. ChargesCovered'
  BY <1>1 DEF ChargesCovered
<1>3. \A o \in Orders : /\ held[o] \in Nat
                        /\ held[o] <= Cardinality({c \in Commands : order[c] = o /\ Holds(c)})
  BY DEF LInv, HeldIsCounted, IInv, TypeOK, RgTypeOK
<1>4. \A S \in SUBSET Commands : IsFiniteSet(S) /\ Cardinality(S) \in Nat
  BY LiveOrderAssumption, FS_Subset, FS_CardinalityType
<1>5. CASE GatewayRestarts
  <2>1. stage' = stage /\ replies' = replies /\ \A o \in Orders : held'[o] = 0
    BY <1>5 DEF GatewayRestarts, Restart, attemptVars, netVars
  <2>2. AllInOrder'
    BY <1>1, <2>1 DEF LInv, AllInOrder, InOrder, Asked, Answered
  <2>3. HeldIsCounted'
    <3>1. ASSUME NEW o \in Orders
          PROVE  held'[o] <= Cardinality({c \in Commands : order'[c] = o /\ Holds(c)'})
      <4>. DEFINE T == {c \in Commands : order'[c] = o /\ Holds(c)'}
      <4>1. T \in SUBSET Commands
        OBVIOUS
      <4>. HIDE DEF T
      <4>2. held'[o] <= Cardinality(T)
        BY <1>4, <2>1, <4>1
      <4>. QED
        BY <4>2 DEF T
    <3>. QED
      BY <3>1 DEF HeldIsCounted
  <2>. QED
    BY <1>2, <2>2, <2>3 DEF LInv
<1>6. CASE ControlPlaneRestarts
  <2>1. /\ held' = held /\ replies' = {}
        /\ \A c \in Commands : stage'[c] = IF stage[c] \in Running THEN "lost" ELSE stage[c]
    BY <1>6 DEF ControlPlaneRestarts, rgVars
  <2>2. ASSUME NEW c \in Commands
        PROVE  InOrder(c)' /\ (Holds(c) => Holds(c)')
    <3>1. InOrder(c) /\ {"commit", "release"} \subseteq Kinds /\ TRUE \in BOOLEAN
      BY DEF LInv, AllInOrder, Kinds
    <3>2. Answered(c, "commit", TRUE) => stage[c] = "commit"
      BY <3>1 DEF InOrder
    <3>3. (\A k \in Kinds : Asked(c, k)' <=> Asked(c, k)) /\ \A k, a : ~Answered(c, k, a)'
      BY <1>1, <2>1 DEF Asked, Answered
    <3>4. InOrder(c)'
      BY <1>1, <2>1, <3>1, <3>3 DEF InOrder, Running
    <3>5. Holds(c) => Holds(c)'
      BY <1>1, <2>1, <3>1, <3>2, <3>3 DEF Holds, Charged, Running
    <3>. QED
      BY <3>4, <3>5
  <2>3. HeldIsCounted'
    <3>1. ASSUME NEW o \in Orders
          PROVE  held'[o] <= Cardinality({c \in Commands : order'[c] = o /\ Holds(c)'})
      <4>. DEFINE S == {c \in Commands : order[c] = o /\ Holds(c)}
                  T == {c \in Commands : order'[c] = o /\ Holds(c)'}
      <4>1. S \subseteq T /\ T \in SUBSET Commands /\ S \in SUBSET Commands
        BY <1>1, <2>2
      <4>2. held'[o] \in Nat /\ held'[o] <= Cardinality(S)
        BY <1>3, <2>1
      <4>. HIDE DEF S, T
      <4>3. Cardinality(S) <= Cardinality(T)
        BY <1>4, <4>1, FS_Subset
      <4>4. held'[o] <= Cardinality(T)
        BY <1>4, <4>1, <4>2, <4>3
      <4>. QED
        BY <4>4 DEF T
    <3>. QED
      BY <3>1 DEF HeldIsCounted
  <2>. QED
    BY <1>2, <2>2, <2>3 DEF LInv, AllInOrder
<1>. QED
  BY <1>5, <1>6

\* The gateway takes one request off the wire and charges, gives back or neither.
LEMMA GatewaySteps ==
    ASSUME NEW m \in calls, GatewayHandles(m)
    PROVE  \/ m.kind = "commit" /\ WithinPolicy(order[m.cmd]) /\ Commit(order[m.cmd])
           \/ m.kind = "release" /\ Release(order[m.cmd])
           \/ /\ m.kind # "release" /\ ~(m.kind = "commit" /\ WithinPolicy(order[m.cmd]))
              /\ UNCHANGED rgVars
<1>1. CASE m.kind = "release"
  <2>1. m.kind # "commit"
    BY <1>1
  <2>. QED
    BY <1>1, <2>1, Zenon DEF GatewayHandles
<1>2. CASE m.kind = "commit" /\ WithinPolicy(order[m.cmd])
  BY <1>2, Zenon DEF GatewayHandles
<1>3. CASE m.kind # "release" /\ ~(m.kind = "commit" /\ WithinPolicy(order[m.cmd]))
  BY <1>3, Zenon DEF GatewayHandles
<1>. QED
  BY <1>1, <1>2, <1>3

\* The messages after the gateway's step.
LEMMA GatewayWires ==
    ASSUME IInv, AllInOrder, NEW m \in calls, GatewayHandles(m)
    PROVE  /\ m.cmd \in Commands /\ m.kind \in Kinds /\ order[m.cmd] \in Orders
           /\ Asked(m.cmd, m.kind)
           /\ UNCHANGED <<fills, stage, order, posted, traced, restarts>>
           /\ \A d \in Commands, k \in Kinds :
                 Asked(d, k)' <=> Asked(d, k) /\ ~(d = m.cmd /\ k = m.kind)
           /\ \A d \in Commands, k \in Kinds, a \in BOOLEAN :
                 Answered(d, k, a)' <=>
                    \/ Answered(d, k, a)
                    \/ /\ d = m.cmd /\ k = m.kind /\ stage[d] = k
                       /\ a <=> (k = "release" \/ WithinPolicy(order[d]))
<1>1. m \in Calls /\ m.cmd \in Commands /\ m.kind \in Kinds /\ stage[m.cmd] # "idle"
  BY DEF IInv, TypeOK, Calls, StartedByTwo
<1>2. order[m.cmd] \in Orders
  BY <1>1 DEF IInv, StartedByTwo, TwoOperators
<1>3. UNCHANGED <<fills, stage, order, posted, traced, restarts>>
  BY DEF GatewayHandles, ocVars, attemptVars, histVars
<1>4. m = [cmd |-> m.cmd, kind |-> m.kind]
  BY <1>1 DEF Calls
<1>5. Asked(m.cmd, m.kind)
  BY <1>4 DEF Asked
<1>6. ASSUME NEW d \in Commands, NEW k \in Kinds
      PROVE  Asked(d, k)' <=> Asked(d, k) /\ ~(d = m.cmd /\ k = m.kind)
  <2>1. calls' = calls \ {m}
    BY DEF GatewayHandles
  <2>2. [cmd |-> d, kind |-> k] = m <=> d = m.cmd /\ k = m.kind
    BY <1>4
  <2>. QED
    BY <2>1, <2>2 DEF Asked
<1>7. ASSUME NEW d \in Commands, NEW k \in Kinds, NEW a \in BOOLEAN
      PROVE  Answered(d, k, a)' <=>
                    \/ Answered(d, k, a)
                    \/ /\ d = m.cmd /\ k = m.kind /\ stage[d] = k
                       /\ a <=> (k = "release" \/ WithinPolicy(order[d]))
  <2>. DEFINE accept == m.kind = "release" \/ WithinPolicy(order[m.cmd])
  <2>1. replies' = IF stage[m.cmd] = m.kind
                   THEN replies \cup {[cmd |-> m.cmd, kind |-> m.kind, accept |-> accept]}
                   ELSE replies
    BY Zenon DEF GatewayHandles
  <2>2. accept \in BOOLEAN
    OBVIOUS
  <2>3. accept <=> (m.kind = "release" \/ WithinPolicy(order[m.cmd]))
    OBVIOUS
  <2>. HIDE DEF accept
  <2>4. [cmd |-> d, kind |-> k, accept |-> a] = [cmd |-> m.cmd, kind |-> m.kind, accept |-> accept]
           <=> d = m.cmd /\ k = m.kind /\ a = accept
    OBVIOUS
  <2>. QED
    BY <2>1, <2>2, <2>3, <2>4 DEF Answered
<1>. QED
  BY <1>1, <1>2, <1>3, <1>5, <1>6, <1>7

\* The handling of a request leaves the messages in order; a charge is new to
\* the attempt, a release ends what the attempt was charged with.
LEMMA GatewayOwn ==
    ASSUME IInv, AllInOrder, NEW m \in calls, GatewayHandles(m),
           NEW c \in Commands, c = m.cmd
    PROVE  /\ InOrder(c)'
           /\ m.kind = "commit" => ~Holds(c) /\ ~Charged(c)
           /\ m.kind = "commit" /\ WithinPolicy(order[c]) =>
                 (stage[c] \in {"commit", "lost"} \/ c \in traced) /\ Holds(c)'
           /\ m.kind = "commit" /\ ~WithinPolicy(order[c]) => ~Charged(c)'
           /\ m.kind = "dry" => (Charged(c)' <=> Charged(c)) /\ (Holds(c)' <=> Holds(c))
           /\ m.kind = "release" => Charged(c) /\ ~Charged(c)' /\ Holds(c)
<1>1. /\ m.kind \in {"dry", "commit", "release"} /\ Kinds = {"dry", "commit", "release"}
      /\ Asked(c, m.kind) /\ InOrder(c) /\ (fills[c] > 0 => c \in posted)
      /\ UNCHANGED <<fills, stage, posted, traced>>
  BY GatewayWires, FilledIsPosted DEF AllInOrder, Kinds
<1>2. \A k \in Kinds : Asked(c, k)' <=> Asked(c, k) /\ k # m.kind
  BY GatewayWires
<1>3. \A k \in Kinds, a \in BOOLEAN :
         Answered(c, k, a)' <=>
            \/ Answered(c, k, a)
            \/ k = m.kind /\ stage[c] = k /\ (a <=> (k = "release" \/ WithinPolicy(order[c])))
  BY GatewayWires
<1>4. \A k \in Kinds, a \in BOOLEAN : Answered(c, k, a) => stage[c] = k /\ k # m.kind
  BY <1>1 DEF InOrder
<1>5. InOrder(c)'
  BY <1>1, <1>2, <1>3, <1>4 DEF InOrder
<1>6. Charged(c)' <=> \/ stage[c] \in {"bridge", "book", "ok"}
                      \/ Answered(c, "commit", TRUE)'
                      \/ Asked(c, "release") /\ m.kind # "release"
  BY <1>1, <1>2 DEF Charged
<1>7. CASE m.kind = "commit"
  BY <1>1, <1>2, <1>3, <1>4, <1>6, <1>5, <1>7 DEF InOrder, Charged, Holds
<1>8. CASE m.kind = "dry"
  BY <1>1, <1>2, <1>3, <1>6, <1>5, <1>8 DEF Charged, Holds
<1>9. CASE m.kind = "release"
  BY <1>1, <1>2, <1>3, <1>4, <1>6, <1>5, <1>9 DEF InOrder, Charged, Holds
<1>. QED
  BY <1>1, <1>7, <1>8, <1>9

\* A charge that an attempt newly holds is counted, and one it no longer holds
\* is given back.
LEMMA CountsFollow ==
    ASSUME IInv, HeldIsCounted, UNCHANGED order,
           NEW c \in Commands, order[c] \in Orders,
           \A d \in Commands \ {c} : Holds(d) => Holds(d)',
           \A p \in Orders \ {order[c]} : held'[p] = held[p],
           \/ ~Holds(c) /\ Holds(c)' /\ held'[order[c]] = held[order[c]] + 1
           \/ /\ Holds(c)
              /\ held'[order[c]] = IF held[order[c]] > 0 THEN held[order[c]] - 1 ELSE 0
    PROVE  HeldIsCounted'
<1>1. \A S \in SUBSET Commands : IsFiniteSet(S) /\ Cardinality(S) \in Nat
  BY LiveOrderAssumption, FS_Subset, FS_CardinalityType
<1>2. ASSUME NEW p \in Orders
      PROVE  held'[p] <= Cardinality({d \in Commands : order'[d] = p /\ Holds(d)'})
  <2>. DEFINE S == {d \in Commands : order[d] = p /\ Holds(d)}
              T == {d \in Commands : order'[d] = p /\ Holds(d)'}
  <2>1. S \in SUBSET Commands /\ T \in SUBSET Commands /\ S \ {c} \subseteq T
    OBVIOUS
  <2>2. held[p] \in Nat /\ held[p] <= Cardinality(S)
    BY DEF HeldIsCounted, IInv, TypeOK, RgTypeOK
  <2>3. /\ c \in S <=> order[c] = p /\ Holds(c)
        /\ c \in T <=> order[c] = p /\ Holds(c)'
    OBVIOUS
  <2>. HIDE DEF S, T
  <2>4. IsFiniteSet(S) /\ IsFiniteSet(T) /\ IsFiniteSet(S \ {c})
        /\ Cardinality(S) \in Nat /\ Cardinality(T) \in Nat /\ Cardinality(S \ {c}) \in Nat
    BY <1>1, <2>1
  <2>5. Cardinality(S \ {c}) = IF c \in S THEN Cardinality(S) - 1 ELSE Cardinality(S)
    BY <2>4, FS_RemoveElement
  <2>6. Cardinality(S \ {c}) <= Cardinality(T)
    BY <2>1, <2>4, FS_Subset
  <2>7. ASSUME p # order[c] PROVE held'[p] <= Cardinality(T)
    BY <2>2, <2>3, <2>4, <2>5, <2>6, <2>7
  <2>8. ASSUME p = order[c] /\ ~Holds(c) PROVE held'[p] <= Cardinality(T)
    <3>1. S \ {c} = S /\ c \in T /\ c \notin S
      BY <2>3, <2>8
    <3>2. S \subseteq T \ {c} /\ IsFiniteSet(T \ {c})
      BY <2>1, <2>4, <3>1, FS_RemoveElement
    <3>3. Cardinality(S) <= Cardinality(T \ {c})
      BY <3>2, FS_Subset
    <3>4. Cardinality(T \ {c}) = Cardinality(T) - 1
      BY <2>4, <3>1, FS_RemoveElement
    <3>5. held'[p] = held[p] + 1
      BY <2>8
    <3>. QED
      BY <2>2, <2>4, <3>3, <3>4, <3>5
  <2>9. ASSUME p = order[c] /\ Holds(c) PROVE held'[p] <= Cardinality(T)
    <3>1. Cardinality(S) - 1 <= Cardinality(T)
      BY <2>3, <2>5, <2>6, <2>9
    <3>2. held'[p] = (IF held[p] > 0 THEN held[p] - 1 ELSE 0)
      BY <2>9
    <3>. QED
      BY <2>2, <2>4, <3>1, <3>2
  <2>10. held'[p] <= Cardinality(T)
    BY <2>7, <2>8, <2>9
  <2>. QED
    BY <2>10 DEF T
<1>. QED
  BY <1>2 DEF HeldIsCounted

LEMMA GatewayKeepsLedger ==
    ASSUME IInv, LInv, NEW m \in calls, GatewayHandles(m)
    PROVE  LInv'
<1>. DEFINE c == m.cmd
            n == Notional(order[m.cmd])
            Sum == NotionalOf({d \in Commands : Charged(d)})
<1>1. /\ c \in Commands /\ order[c] \in Orders /\ m.kind \in Kinds
      /\ UNCHANGED <<stage, order, restarts>> /\ AllInOrder
  BY GatewayWires DEF LInv
<1>2. n \in Nat /\ used \in Nat /\ Sum \in Nat /\ held \in [Orders -> Nat]
  BY <1>1, OrderFacts, AmountFacts DEF IInv, TypeOK, RgTypeOK
<1>3. \A d \in Commands \ {c} : Untouched(d)
  BY GatewayWires, <1>1 DEF Untouched
<1>4. \A d \in Commands \ {c} :
         InOrder(d)' /\ (Charged(d)' <=> Charged(d)) /\ (Holds(d) => Holds(d)')
  BY <1>1, <1>3, UntouchedStays DEF AllInOrder
<1>5. AllInOrder'
  <2>1. InOrder(c)'
    BY <1>1, GatewayOwn
  <2>. QED
    BY <1>4, <2>1 DEF AllInOrder
<1>6. restarts = 0 => used >= Sum
  BY DEF LInv, ChargesCovered
<1>7. CASE m.kind = "commit" /\ WithinPolicy(order[c]) /\ Commit(order[c])
  <2>1. ~Holds(c) /\ Holds(c)' /\ ~Charged(c)
    BY <1>1, <1>7, GatewayOwn
  <2>2. used' = used + n /\ held' = [held EXCEPT ![order[c]] = @ + 1]
    BY <1>7 DEF Commit
  <2>3. HeldIsCounted'
    <3>1. /\ held'[order[c]] = held[order[c]] + 1
          /\ \A p \in Orders \ {order[c]} : held'[p] = held[p]
      BY <1>1, <1>2, <2>2
    <3>. QED
      BY <1>1, <1>4, <2>1, <3>1, CountsFollow DEF LInv
  <2>4. PICK k \in Int : k = (IF Charged(c)' THEN n ELSE 0) - (IF Charged(c) THEN n ELSE 0)
    BY <1>2
  <2>5. Sum' = Sum + k
    BY <1>1, <1>4, <2>4, ChargesMove
  <2>6. k <= n
    BY <1>2, <2>1, <2>4
  <2>7. restarts' = 0 => used' >= Sum'
    BY <1>1, <1>2, <1>6, <2>2, <2>5, <2>6
  <2>. QED
    BY <1>5, <2>3, <2>7 DEF LInv, ChargesCovered
<1>8. CASE m.kind = "release" /\ Release(order[c])
  <2>1. Holds(c) /\ Charged(c) /\ ~Charged(c)'
    BY <1>1, <1>8, GatewayOwn
  <2>2. used' = IF used > n THEN used - n ELSE 0
    BY <1>8 DEF Release, Lowered
  <2>3. HeldIsCounted'
    <3>1. /\ held'[order[c]] = IF held[order[c]] > 0 THEN held[order[c]] - 1 ELSE 0
          /\ \A p \in Orders \ {order[c]} : held'[p] = held[p]
      <4>1. CASE held[order[c]] > 0
        BY <1>1, <1>2, <1>8, <4>1 DEF Release
      <4>2. CASE ~(held[order[c]] > 0)
        BY <1>1, <1>2, <1>8, <4>2 DEF Release
      <4>. QED
        BY <4>1, <4>2
    <3>. QED
      BY <1>1, <1>4, <2>1, <3>1, CountsFollow DEF LInv
  <2>4. PICK k \in Int : k = (IF Charged(c)' THEN n ELSE 0) - (IF Charged(c) THEN n ELSE 0)
    BY <1>2
  <2>5. Sum' = Sum + k
    BY <1>1, <1>4, <2>4, ChargesMove
  <2>6. k = -n
    BY <1>2, <2>1, <2>4
  <2>7. Sum' \in Int /\ Sum' >= 0
    <3>1. n <= Sum
      <4>. DEFINE g == Amount({d \in Commands : Charged(d)})
      <4>1. /\ IsFiniteSet(Commands) /\ \A d \in Commands : g[d] \in Nat
        BY <1>1, AmountFacts
      <4>2. g[c] = n /\ Sum = SumFunctionOnSet(g, Commands)
        BY <1>1, <2>1 DEF Amount, NotionalOf
      <4>. HIDE DEF g
      <4>3. g[c] <= SumFunctionOnSet(g, Commands)
        BY <1>1, <4>1, SumOfNaturals
      <4>. QED
        BY <4>2, <4>3
    <3>. QED
      BY <1>2, <2>5, <2>6, <3>1
  <2>8. restarts' = 0 => used' >= Sum'
    BY <1>1, <1>2, <1>6, <2>2, <2>5, <2>6, <2>7
  <2>. QED
    BY <1>5, <2>3, <2>8 DEF LInv, ChargesCovered
<1>9. CASE /\ m.kind # "release" /\ ~(m.kind = "commit" /\ WithinPolicy(order[c]))
           /\ UNCHANGED rgVars
  <2>1. UNCHANGED <<used, held, restarts>>
    BY <1>1, <1>9 DEF rgVars
  <2>2. (Charged(c)' => Charged(c)) /\ (Holds(c) => Holds(c)')
    BY <1>1, <1>9, GatewayOwn DEF Kinds
  <2>. QED
    BY <1>1, <1>4, <1>5, <2>1, <2>2, LedgerUnmoved
<1>. QED
  BY <1>7, <1>8, <1>9, GatewaySteps

LEMMA LedgerInit == Init => LInv
<1>. SUFFICES ASSUME Init PROVE LInv
  OBVIOUS
<1>1. \A c \in Commands : InOrder(c) /\ ~Charged(c)
  BY DEF Init, InOrder, Charged, Asked, Answered
<1>2. AllInOrder
  BY <1>1 DEF AllInOrder
<1>3. ChargesCovered
  <2>. DEFINE C == {c \in Commands : Charged(c)}
  <2>1. \A c \in Commands : Amount(C)[c] = 0
    BY <1>1 DEF Amount
  <2>. HIDE DEF C
  <2>2. SumFunctionOnSet(Amount(C), Commands) = 0
    <3>. DEFINE g == Amount(C)
    <3>1. \A c \in Commands : g[c] = 0
      BY <2>1
    <3>. HIDE DEF g
    <3>2. SumFunctionOnSet(g, Commands) = 0
      BY <3>1, LiveOrderAssumption, SumZero
    <3>. QED
      BY <3>2 DEF g
  <2>3. used >= NotionalOf(C)
    BY <2>2 DEF NotionalOf, Amount, Init, RgInit
  <2>. QED
    BY <2>3 DEF ChargesCovered, C
<1>4. HeldIsCounted
  <2>1. \A S \in SUBSET Commands : Cardinality(S) \in Nat
    BY LiveOrderAssumption, FS_Subset, FS_CardinalityType
  <2>2. ASSUME NEW o \in Orders
        PROVE  held[o] <= Cardinality({c \in Commands : order[c] = o /\ Holds(c)})
    <3>. DEFINE T == {c \in Commands : order[c] = o /\ Holds(c)}
    <3>1. T \in SUBSET Commands
      OBVIOUS
    <3>. HIDE DEF T
    <3>2. held[o] <= Cardinality(T)
      BY <2>1, <3>1 DEF Init, RgInit
    <3>. QED
      BY <3>2 DEF T
  <2>. QED
    BY <2>2 DEF HeldIsCounted
<1>. QED
  BY <1>2, <1>3, <1>4 DEF LInv

LEMMA StepKeepsLedger == IInv /\ LInv /\ [Next]_vars => LInv'
<1>. SUFFICES ASSUME IInv, LInv, [Next]_vars PROVE LInv'
  OBVIOUS
<1>1. CASE Operator
  <2>1. ASSUME NEW c \in Commands, NEW o \in Orders, NEW op \in Operators,
               SecondApprove(c, o, op)
        PROVE  LInv'
    BY <2>1, SecondApproveKeepsLedger
  <2>2. ASSUME \/ \E o \in Orders, op \in Operators : Submit(o, op)
               \/ \E o \in Orders : CancelStale(o)
               \/ ActivateKillSwitch
               \/ ResetKillSwitch
        PROVE  LInv'
    <3>1. /\ UNCHANGED <<used, held, restarts, order, stage, fills, calls, replies>>
          /\ UNCHANGED <<posted, traced>>
      BY <2>2 DEF Submit, CancelStale, ActivateKillSwitch, ResetKillSwitch,
                  ocVars, rgVars, attemptVars, netVars, histVars
    <3>2. \A c \in Commands : Untouched(c)
      BY <3>1 DEF Untouched, Asked, Answered
    <3>. QED
      BY <3>1, <3>2, QuietKeepsLedger
  <2>. QED
    BY <1>1, <2>1, <2>2 DEF Operator
<1>2. ASSUME NEW c \in Commands, Proceeds(c) PROVE LInv'
  BY <1>2, AttemptKeepsLedger
<1>3. ASSUME NEW m \in calls, GatewayHandles(m) PROVE LInv'
  BY <1>3, GatewayKeepsLedger
<1>4. ASSUME NEW c \in Commands, BridgeReceives(c) \/ BridgeWorks(c) PROVE LInv'
  <2>1. UNCHANGED <<used, held, restarts, order, stage, calls, replies, posted, traced>>
    BY <1>4 DEF BridgeReceives, BridgeWorks, rgVars, attemptVars, netVars, histVars
  <2>2. ASSUME NEW d \in Commands PROVE fills[d] > 0 => fills'[d] > 0
    <3>1. /\ fills \in [Commands -> 0..MaxCopies] /\ fills' \in [Commands -> 0..MaxCopies]
          /\ fills[d] <= fills'[d]
      BY <1>4, BridgeSteps DEF BridgeKeeps, IInv, TypeOK, OcTypeOK
    <3>. QED
      BY <3>1, CopiesAssumption
  <2>3. \A d \in Commands : Untouched(d)
    BY <2>1, <2>2 DEF Untouched, Asked, Answered
  <2>. QED
    BY <2>1, <2>3, QuietKeepsLedger
<1>5. CASE GatewayRestarts \/ ControlPlaneRestarts
  BY <1>5, RestartKeepsLedger
<1>6. CASE UNCHANGED vars
  <2>1. /\ UNCHANGED <<used, held, restarts, order, stage, fills, calls, replies>>
        /\ UNCHANGED <<posted, traced>>
    BY <1>6 DEF vars, ocVars, rgVars, attemptVars, netVars, histVars
  <2>2. \A c \in Commands : Untouched(c)
    BY <2>1 DEF Untouched, Asked, Answered
  <2>. QED
    BY <2>1, <2>2, QuietKeepsLedger
<1>. QED
  BY <1>1, <1>2, <1>3, <1>4, <1>5, <1>6 DEF Next

LEMMA LedgerInvariance == Spec => [](IInv /\ LInv)
BY InitHolds, StepPreserves, LedgerInit, StepKeepsLedger, PTL DEF Spec

\* While the gateway keeps its ledger, every order that is at the bridge, is
\* being booked or was booked is charged, however calls are lost, late or
\* repeated (main.py:22180-22252).
THEOREM OpenCharged == Spec => []OpenOrdersAreCharged
<1>1. IInv /\ LInv => OpenOrdersAreCharged
  <2>. SUFFICES ASSUME IInv, LInv, restarts = 0
                PROVE  used >= NotionalOf({c \in Commands : stage[c] \in {"bridge", "book", "ok"}})
    BY DEF OpenOrdersAreCharged
  <2>. DEFINE B == {c \in Commands : stage[c] \in {"bridge", "book", "ok"}}
              C == {c \in Commands : Charged(c)}
              f == Amount(B)
              g == Amount(C)
  <2>1. B \subseteq C
    BY DEF Charged
  <2>2. \A c \in Commands : g[c] \in Nat /\ (c \in C => Notional(order[c]) \in Nat)
    BY AmountFacts, OrderFacts DEF LInv
  <2>3. used \in Nat /\ used >= NotionalOf(C) /\ NotionalOf(C) \in Nat
    BY AmountFacts DEF LInv, ChargesCovered, IInv, TypeOK, RgTypeOK
  <2>4. NotionalOf(B) = SumFunctionOnSet(f, Commands)
        /\ NotionalOf(C) = SumFunctionOnSet(g, Commands)
    BY DEF NotionalOf, Amount
  <2>. HIDE DEF B, C
  <2>5. ASSUME NEW c \in Commands PROVE f[c] \in Int /\ g[c] \in Int /\ f[c] <= g[c]
    <3>1. /\ f[c] = IF c \in B THEN Notional(order[c]) ELSE 0
          /\ g[c] = IF c \in C THEN Notional(order[c]) ELSE 0
      BY DEF Amount
    <3>. HIDE DEF f, g
    <3>. QED
      BY <2>1, <2>2, <3>1
  <2>. HIDE DEF f, g
  <2>6. /\ SumFunctionOnSet(f, Commands) <= SumFunctionOnSet(g, Commands)
        /\ SumFunctionOnSet(f, Commands) \in Int
    BY <2>5, LiveOrderAssumption, SumMonotone, SumType
  <2>7. used >= NotionalOf(B)
    BY <2>3, <2>4, <2>6
  <2>. QED
    BY <2>7 DEF B
<1>. QED
  BY <1>1, LedgerInvariance, PTL

\* However often attempts are lost or give up, no charge stays behind that
\* neither a running or lost attempt, nor an audit trail, nor a fill explains
\* (main.py:21826-21863 and 22217-22243).
THEOREM LeaksHaveTraces == Spec => []LeaksAreTraced
<1>1. IInv /\ LInv => LeaksAreTraced
  <2>. SUFFICES ASSUME IInv, LInv, NEW o \in Orders
                PROVE  held[o] <= Cardinality(
                          AttemptsFor(o, {"commit", "bridge", "release", "book", "ok", "lost"})
                             \cup {c \in Commands : order[c] = o /\ (c \in traced \/ fills[c] > 0)})
    BY DEF LeaksAreTraced
  <2>. DEFINE S == {c \in Commands : order[c] = o /\ Holds(c)}
              T == AttemptsFor(o, {"commit", "bridge", "release", "book", "ok", "lost"})
                     \cup {c \in Commands : order[c] = o /\ (c \in traced \/ fills[c] > 0)}
  <2>1. \A c \in Commands : Charged(c) =>
           stage[c] \in {"commit", "bridge", "release", "book", "ok", "lost"} \/ c \in traced
    BY DEF LInv, AllInOrder, InOrder, Charged, Kinds
  <2>2. S \subseteq T /\ T \in SUBSET Commands
    BY <2>1 DEF Holds, AttemptsFor
  <2>3. held[o] \in Nat /\ held[o] <= Cardinality(S)
    BY DEF LInv, HeldIsCounted, IInv, TypeOK, RgTypeOK
  <2>. HIDE DEF S, T
  <2>4. IsFiniteSet(T)
    BY <2>2, LiveOrderAssumption, FS_Subset
  <2>5. IsFiniteSet(S) /\ Cardinality(S) <= Cardinality(T)
    BY <2>2, <2>4, FS_Subset
  <2>6. held[o] <= Cardinality(T)
    BY <2>3, <2>4, <2>5, FS_CardinalityType
  <2>. QED
    BY <2>6 DEF T
<1>. QED
  BY <1>1, LedgerInvariance, PTL
=============================================================================
