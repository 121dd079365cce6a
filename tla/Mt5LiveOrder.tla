---------------------------- MODULE Mt5LiveOrder ----------------------------
(***************************************************************************)
(* A live MT5 order through the control plane                              *)
(* (apps/control_plane/main.py): one operator submits it, another approves *)
(* it, and the approval handler then checks, routes and charges it, sends  *)
(* it to the MT5 bridge and resolves the approval.                         *)
(*                                                                         *)
(* An attempt is one run of the approval handler, from its "pending" check *)
(* to its final UPDATE; it awaits the other services in between, so        *)
(* attempts interleave, also two attempts for one approval.  The control   *)
(* plane is one asyncio process with synchronous SQL: the code between two *)
(* awaits is one action.  An attempt writes at most one bridge command,    *)
(* and Commands is the set of attempts.  The bridge and the EA behind it   *)
(* are the contract of OrderCommand, the risk gateway is RiskLedger.       *)
(***************************************************************************)
EXTENDS OrderCommand, RiskLedger

CONSTANTS Operators,     \* usernames with operator_auth
          None,          \* no operator, no order yet
          MaxPending,    \* policy: max_pending_live_approvals, 0 for no limit
          MaxApiErrors,  \* kill-switch threshold
          MaxRestarts    \* bound on restarts of the gateway or control plane

ASSUME LiveOrderAssumption ==
    /\ IsFiniteSet(Commands)
    /\ None \notin Operators /\ None \notin Orders
    /\ MaxPending \in Nat /\ MaxApiErrors \in Nat \ {0} /\ MaxRestarts \in Nat

VARIABLES approval,   \* mt5_live_approvals.status, "none" before the INSERT
          first,      \* first_approved_by
          stage,      \* where the attempt is in its handler
          order,      \* the approval the attempt is for
          second,     \* the operator who started the attempt
          calls,      \* requests on their way to the gateway
          replies,    \* its answers on their way back
          posted,     \* attempts whose order was sent to the bridge
          kill,       \* kill_switch_state.active
          apiErrors,  \* kill_switch_state.stats.api_errors
          traced,     \* history: attempts whose audit trail names a gateway failure
          restarts    \* history: restarts so far

approvalVars == <<approval, first>>
attemptVars  == <<stage, order, second>>
netVars      == <<calls, replies, posted>>
killVars     == <<kill, apiErrors>>
histVars     == <<traced, restarts>>
vars == <<ocVars, rgVars, approvalVars, attemptVars, netVars, killVars, histVars>>

Resolved == {"executed", "rejected", "cancelled"}

\* Waiting for the answers to the dry run, the route and predictor gates, the
\* charge, the bridge, the release, and the bookkeeping after a fill.
Running == {"dry", "route", "commit", "bridge", "release", "book"}
Stages  == {"idle", "ok", "failed", "lost"} \cup Running

Kinds   == {"dry", "commit", "release"}
Calls   == [cmd : Commands, kind : Kinds]
Replies == [cmd : Commands, kind : Kinds, accept : BOOLEAN]

TypeOK ==
    /\ OcTypeOK /\ RgTypeOK
    /\ approval  \in [Orders -> {"none", "pending"} \cup Resolved]
    /\ first     \in [Orders -> Operators \cup {None}]
    /\ stage     \in [Commands -> Stages]
    /\ order     \in [Commands -> Orders \cup {None}]
    /\ second    \in [Commands -> Operators \cup {None}]
    /\ calls     \subseteq Calls
    /\ replies   \subseteq Replies
    /\ posted    \subseteq Commands
    /\ kill      \in BOOLEAN
    /\ apiErrors \in 0..MaxApiErrors
    /\ traced    \subseteq Commands
    /\ restarts  \in 0..MaxRestarts

Init ==
    /\ OcInit /\ RgInit
    /\ approval  = [o \in Orders |-> "none"]
    /\ first     = [o \in Orders |-> None]
    /\ stage     = [c \in Commands |-> "idle"]
    /\ order     = [c \in Commands |-> None]
    /\ second    = [c \in Commands |-> None]
    /\ calls     = {}
    /\ replies   = {}
    /\ posted    = {}
    /\ kill      = FALSE
    /\ apiErrors = 0
    /\ traced    = {}
    /\ restarts  = 0

-----------------------------------------------------------------------------
(* Submission, cancellation and the kill switch.                           *)

Pending == {o \in Orders : approval[o] = "pending"}

Backlogged(pending) == MaxPending > 0 /\ pending >= MaxPending

\* At the second approval the request itself is not counted.
PendingAtApproval == Cardinality(Pending) - 1

\* An operator submits an order for a live account.  A refused submission
\* (kill switch, hardening, chart risk rules) changes nothing.
Submit(o, op) ==
    /\ approval[o] = "none" /\ ~kill
    /\ ~Backlogged(Cardinality(Pending))
    /\ approval' = [approval EXCEPT ![o] = "pending"]
    /\ first'    = [first EXCEPT ![o] = op]
    /\ UNCHANGED <<ocVars, rgVars, attemptVars, netVars, killVars, histVars>>

\* A pending approval that grew too old is cancelled, by the list of pending
\* approvals or by an operator who tries to approve it; an attempt that is
\* already running is not told.
CancelStale(o) ==
    /\ approval[o] = "pending"
    /\ approval' = [approval EXCEPT ![o] = "cancelled"]
    /\ UNCHANGED <<ocVars, rgVars, first, attemptVars, netVars, killVars, histVars>>

ActivateKillSwitch ==
    /\ ~kill
    /\ kill' = TRUE
    /\ UNCHANGED <<ocVars, rgVars, approvalVars, attemptVars, netVars, apiErrors, histVars>>

ResetKillSwitch ==
    /\ kill' = FALSE /\ apiErrors' = 0
    /\ UNCHANGED <<ocVars, rgVars, approvalVars, attemptVars, netVars, histVars>>

\* The count saturates at the threshold: above it only "reached" matters.
RecordApiError ==
    /\ apiErrors' = IF apiErrors < MaxApiErrors THEN apiErrors + 1 ELSE apiErrors
    /\ kill' = (kill \/ apiErrors + 1 >= MaxApiErrors)

-----------------------------------------------------------------------------
(* The approval handler.                                                   *)

Moves(c, s) == stage' = [stage EXCEPT ![c] = s]
Sends(c, k) == calls' = calls \cup {[cmd |-> c, kind |-> k]}

\* The UPDATE at the end of an attempt does not look at the status it replaces.
Resolves(o, s) == approval' = [approval EXCEPT ![o] = s] /\ UNCHANGED first

Fails(c) == Moves(c, "failed") /\ Resolves(order[c], "rejected")

\* Mutant: the first operator may approve again.
SecondApprove_SameOperator(c, o, op) ==
    /\ stage[c] = "idle"
    /\ approval[o] = "pending"
    /\ order'  = [order EXCEPT ![c] = o]
    /\ second' = [second EXCEPT ![c] = op]
    /\ ~kill /\ ~Backlogged(PendingAtApproval)
    /\ Moves(c, "dry") /\ Sends(c, "dry")
    /\ UNCHANGED <<ocVars, rgVars, approvalVars, replies, posted, killVars, histVars>>

\* The second approver is someone else and the approval is pending; the kill
\* switch and the hardening rules are tested in the same step.
SecondApprove(c, o, op) ==
    /\ stage[c] = "idle"
    /\ approval[o] = "pending" /\ op # first[o]
    /\ order'  = [order EXCEPT ![c] = o]
    /\ second' = [second EXCEPT ![c] = op]
    /\ \/ /\ ~kill /\ ~Backlogged(PendingAtApproval)
          /\ Moves(c, "dry") /\ Sends(c, "dry")
          /\ UNCHANGED approvalVars
       \/ /\ Moves(c, "failed") /\ Resolves(o, "rejected")
          /\ UNCHANGED calls
    /\ UNCHANGED <<ocVars, rgVars, replies, posted, killVars, histVars>>

Takes(r) == r \in replies /\ replies' = replies \ {r}

DryRunAnswered(c, ok) ==
    /\ Takes([cmd |-> c, kind |-> "dry", accept |-> ok])
    /\ IF ok THEN Moves(c, "route") /\ UNCHANGED approvalVars ELSE Fails(c)
    /\ UNCHANGED <<ocVars, rgVars, order, second, calls, posted, killVars, histVars>>

\* Predictor gate and router: both pass, one blocks or raises, or the router
\* answers with an error.
Routed(c) ==
    /\ stage[c] = "route"
    /\ \/ Moves(c, "commit") /\ Sends(c, "commit") /\ UNCHANGED <<approvalVars, killVars>>
       \/ Fails(c) /\ UNCHANGED <<calls, killVars>>
       \/ Fails(c) /\ RecordApiError /\ UNCHANGED calls
    /\ UNCHANGED <<ocVars, rgVars, order, second, replies, posted, histVars>>

CommitAnswered(c, ok) ==
    /\ Takes([cmd |-> c, kind |-> "commit", accept |-> ok])
    /\ IF ok
       THEN Moves(c, "bridge") /\ posted' = posted \cup {c} /\ UNCHANGED approvalVars
       ELSE Fails(c) /\ UNCHANGED posted
    /\ UNCHANGED <<ocVars, rgVars, order, second, calls, killVars, histVars>>

\* A check that was not answered within 12 s counts as rejected, although the
\* gateway may have charged the order or may yet do so.
CheckTimesOut(c) ==
    /\ stage[c] \in {"dry", "commit"}
    /\ Fails(c)
    /\ replies' = {r \in replies : r.cmd # c}
    /\ traced'  = traced \cup {c}
    /\ UNCHANGED <<ocVars, rgVars, order, second, calls, posted, killVars, restarts>>

\* Mutant: an answer the bridge could not vouch for is taken for a fill.
BridgeFilled_NotRefused(c) ==
    /\ stage[c] = "bridge" /\ answer[c] \in {"filled", "unknown"}
    /\ Moves(c, "book")
    /\ kill' \in {kill, TRUE}
    /\ UNCHANGED <<ocVars, rgVars, approvalVars, order, second, netVars, apiErrors, histVars>>

\* The bridge reports a fill; its slippage may trip the kill switch.
BridgeFilled(c) ==
    /\ stage[c] = "bridge" /\ answer[c] = "filled"
    /\ Moves(c, "book")
    /\ kill' \in {kill, TRUE}
    /\ UNCHANGED <<ocVars, rgVars, approvalVars, order, second, netVars, apiErrors, histVars>>

\* Mutant: an order the bridge refused keeps its charge.
BridgeRefused_NoRelease(c) ==
    /\ stage[c] = "bridge" /\ answer[c] \in {"refused", "unknown"}
    /\ RecordApiError
    /\ Fails(c)
    /\ UNCHANGED <<ocVars, rgVars, order, second, netVars, histVars>>

\* The bridge answers with an error, also with its own 504 while the command
\* is still in its table.
BridgeRefused(c) ==
    /\ stage[c] = "bridge" /\ answer[c] \in {"refused", "unknown"}
    /\ RecordApiError
    /\ Moves(c, "release") /\ Sends(c, "release")
    /\ UNCHANGED <<ocVars, rgVars, approvalVars, order, second, replies, posted, histVars>>

\* No answer within 12 s, or no connection.
BridgeTimesOut(c) ==
    /\ stage[c] = "bridge"
    /\ Moves(c, "release") /\ Sends(c, "release")
    /\ UNCHANGED <<ocVars, rgVars, approvalVars, order, second, replies, posted, killVars, histVars>>

Released(c) ==
    /\ Takes([cmd |-> c, kind |-> "release", accept |-> TRUE])
    /\ Fails(c)
    /\ UNCHANGED <<ocVars, rgVars, order, second, calls, posted, killVars, histVars>>

\* Mutant: a release that was not answered is sent again.
ReleaseTimesOut_Retries(c) ==
    /\ stage[c] = "release"
    /\ Sends(c, "release")
    /\ UNCHANGED <<ocVars, rgVars, approvalVars, attemptVars, replies, posted, killVars, histVars>>

\* A release that fails is written to the audit trail and not repeated.
ReleaseTimesOut(c) ==
    /\ stage[c] = "release"
    /\ Fails(c)
    /\ replies' = {r \in replies : r.cmd # c}
    /\ traced'  = traced \cup {c}
    /\ UNCHANGED <<ocVars, rgVars, order, second, calls, posted, killVars, restarts>>

\* Telemetry, outcome, reality gap and account state are recorded; an
\* exception on the way makes the attempt a failed one.
Booked(c) ==
    /\ stage[c] = "book"
    /\ \/ Moves(c, "ok") /\ Resolves(order[c], "executed")
       \/ Fails(c)
    /\ UNCHANGED <<ocVars, rgVars, order, second, netVars, killVars, histVars>>

-----------------------------------------------------------------------------
(* The other services.                                                     *)

\* The gateway handles a request, whether or not its caller still waits.
GatewayHandles(m) ==
    /\ m \in calls
    /\ calls' = calls \ {m}
    /\ LET o      == order[m.cmd]
           accept == m.kind = "release" \/ WithinPolicy(o)
       IN  /\ CASE m.kind = "commit" /\ accept -> Commit(o)
                [] m.kind = "release"          -> Release(o)
                [] OTHER                       -> UNCHANGED rgVars
           /\ replies' = IF stage[m.cmd] = m.kind
                         THEN replies \cup {[cmd |-> m.cmd, kind |-> m.kind, accept |-> accept]}
                         ELSE replies
    /\ UNCHANGED <<ocVars, approvalVars, attemptVars, posted, killVars, histVars>>

BridgeReceives(c) ==
    /\ c \in posted
    /\ Open(c) \/ TurnDown(c)
    /\ UNCHANGED <<rgVars, approvalVars, attemptVars, netVars, killVars, histVars>>

\* The command is handed to the EA, executed, closed and answered.
BridgeWorks(c) ==
    /\ \/ Visit({c}, {}) \/ Visit({}, {c})
       \/ Fill(c)
       \/ Close(c)
       \/ \E a \in Answers : Reply(c, a)
    /\ UNCHANGED <<rgVars, approvalVars, attemptVars, netVars, killVars, histVars>>

GatewayRestarts ==
    /\ restarts < MaxRestarts /\ restarts' = restarts + 1
    /\ Restart
    /\ UNCHANGED <<ocVars, approvalVars, attemptVars, netVars, killVars, traced>>

\* The running attempts are gone; what they wrote and sent remains.
ControlPlaneRestarts ==
    /\ restarts < MaxRestarts /\ restarts' = restarts + 1
    /\ stage'   = [c \in Commands |-> IF stage[c] \in Running THEN "lost" ELSE stage[c]]
    /\ replies' = {}
    /\ UNCHANGED <<ocVars, rgVars, approvalVars, order, second, calls, posted, killVars, traced>>

-----------------------------------------------------------------------------

Proceeds(c) ==
    \/ \E ok \in BOOLEAN : DryRunAnswered(c, ok) \/ CommitAnswered(c, ok)
    \/ Routed(c)
    \/ CheckTimesOut(c)
    \/ BridgeFilled(c)
    \/ BridgeRefused(c)
    \/ BridgeTimesOut(c)
    \/ Released(c)
    \/ ReleaseTimesOut(c)
    \/ Booked(c)

Operator ==
    \/ \E o \in Orders, op \in Operators : Submit(o, op)
    \/ \E o \in Orders : CancelStale(o)
    \/ \E c \in Commands, o \in Orders, op \in Operators : SecondApprove(c, o, op)
    \/ ActivateKillSwitch
    \/ ResetKillSwitch

Next ==
    \/ Operator
    \/ \E c \in Commands : Proceeds(c)
    \/ \E m \in calls : GatewayHandles(m)
    \/ \E c \in Commands : BridgeReceives(c) \/ BridgeWorks(c)
    \/ GatewayRestarts
    \/ ControlPlaneRestarts

Spec == Init /\ [][Next]_vars

\* The coroutine of an attempt is scheduled again, at the latest when the
\* timeout of the call it awaits has passed.
FairSpec == Spec /\ \A c \in Commands : WF_vars(Proceeds(c))

-----------------------------------------------------------------------------
(* Properties.                                                             *)

AttemptsFor(o, S) == {c \in Commands : order[c] = o /\ stage[c] \in S}

\* The notional of the orders that the attempts of C are for.
NotionalOf(C) ==
    SumFunctionOnSet([c \in Commands |-> IF c \in C THEN Notional(order[c]) ELSE 0], Commands)

\* An approval that says "executed" has an order that was really executed at
\* the broker, whatever is lost, late or approved twice (main.py:21788-21798).
ExecutedMeansFilled ==
    \A o \in Orders : approval[o] = "executed" =>
        \E c \in Commands : order[c] = o /\ fills[c] > 0

\* No order reaches the bridge that two different operators did not approve
\* (main.py:21719).
FourEyes ==
    \A c \in Commands : phase[c] # "new" =>
        /\ first[order[c]] \in Operators /\ second[c] \in Operators
        /\ first[order[c]] # second[c]

\* While an order is at the bridge, is being booked, or was booked, its notional
\* is charged: no late, lost or repeated call of another attempt, for the same
\* order or another, takes it away (main.py:22180-22252).
OpenOrdersAreCharged ==
    restarts = 0 =>
        used >= NotionalOf({c \in Commands : stage[c] \in {"bridge", "book", "ok"}})

\* A charge that outlives its attempt without a fill left a trace: the attempt
\* was lost with the process, or its audit trail names the failed gateway call
\* (main.py:21826-21863 and 22217-22243).
LeaksAreTraced ==
    \A o \in Orders :
        held[o] <= Cardinality(
            AttemptsFor(o, {"commit", "bridge", "release", "book", "ok", "lost"})
                \cup {c \in Commands : order[c] = o /\ (c \in traced \/ fills[c] > 0)})

\* Every attempt ends, or is lost with the process.
AttemptsEnd == \A c \in Commands : stage[c] \in Running ~> stage[c] \notin Running

\* Refuted.  "Approval already resolved" (main.py:21691): what one attempt has
\* executed or rejected is not resolved again by another.
ResolvedOnce ==
    [][\A o \in Orders : approval[o] \in {"executed", "rejected"} =>
          approval'[o] = approval[o]]_vars

\* Refuted.  daily_notional_limit_usd (config/risk_policy.json:9): the orders
\* executed since the gateway started stay within the limit.
FillsWithinDailyLimit ==
    NotionalOf({c \in Commands : fills[c] > 0}) <= DailyLimit
=============================================================================
