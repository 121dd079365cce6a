--------------------------- MODULE LiveOrderLoop ---------------------------
(***************************************************************************)
(* One live order of the execution router (apps/execution_router/main.py): *)
(* place_routed_order sends it, and while it works at the exchange a       *)
(* background task asks for its status, and keeps, amends, cancels or      *)
(* replaces it, for a bounded number of cycles.  Every call goes through   *)
(* the broker adapter (apps/broker_adapter/main.py), which performs one    *)
(* operation at the exchange and then asks for the order again.            *)
(*                                                                         *)
(* Order 0 is the one placed first, order k its replacement of cycle k, as *)
(* in the client order ids.  Amounts are notionals in units of the size    *)
(* step; prices do not move the properties and are left out.  The exchange *)
(* is external: it may fill an order until the cancellation it accepted    *)
(* takes effect, and may close it by itself.                               *)
(***************************************************************************)
EXTENDS Integers, Functions

CONSTANTS Requested,  \* notional_usd of the routed order
          Quantities, \* quantity a client may send with it, 0 for none
          MaxCycles,  \* desk profile: max_lifecycle_cycles
          Lot,        \* the venue's minimum order
          Dust        \* a remainder that is not worked any more

ASSUME LoopAssumption ==
    /\ Requested \in Nat \ {0} /\ MaxCycles \in Nat \ {0}
    /\ Quantities \subseteq Nat
    /\ Lot \in Nat \ {0} /\ Dust \in Nat

Ids       == 0..MaxCycles
Providers == {"bingx", "bybit"}
Statuses  == {"open", "partially_filled", "filled", "cancelled", "rejected", "unknown"}

\* A cancellation of the loop either ends it or makes room for a replacement.
Ops == {"place", "status", "amend", "cancel", "clear"}

VARIABLES provider,  \* live_context.provider
          quantity,  \* live_context.quantity, copied to every replacement
          size,      \* notional of each order as the exchange has it, 0 if none
          fill,      \* how much of it was executed
          open,      \* orders the exchange may still fill
          dying,     \* ... and whose cancellation it has accepted
          stage,     \* what the router is doing about the order
          call,      \* its call to the adapter
          cycle,     \* cycle of the optimizer loop
          current,   \* current_order
          wanted,    \* notional_usd the router asked for, per order
          reported,  \* filled_notional_usd last recorded for each order
          status,    \* state.status
          active     \* execution_optimizer_active_orders.active

contextVars  == <<provider, quantity>>
exchangeVars == <<size, fill, open, dying>>
stateVars    == <<cycle, current, wanted, reported, status, active>>
vars == <<contextVars, exchangeVars, stage, call, stateVars>>

\* "sent": not at the exchange yet; "accepted", "refused": what the exchange
\* said; "answered": the adapter's answer is on its way; "done": no call.
Calls == [op : Ops, id : Ids, at : {"sent", "accepted", "refused", "answered", "done"},
          status : Statuses, filled : Nat]

Request(op, id) ==
    [op |-> op, id |-> id, at |-> "sent", status |-> "unknown", filled |-> 0]

NoCall == [Request("status", 0) EXCEPT !.at = "done"]

Working == open \ dying

TypeOK ==
    /\ provider \in Providers /\ quantity \in Quantities
    /\ size \in [Ids -> Nat] /\ fill \in [Ids -> Nat]
    /\ \A o \in Ids : fill[o] <= size[o]
    /\ open \subseteq {o \in Ids : fill[o] < size[o]} /\ dying \subseteq open
    /\ stage \in {"sleep", "wait", "decide", "over", "gone"}
    /\ call \in Calls
    /\ cycle \in Ids /\ current \in Ids
    /\ wanted \in [Ids -> 0..Requested] /\ reported \in [Ids -> Nat]
    /\ status \in Statuses \cup {"lifecycle_error"}
    /\ active \in BOOLEAN

Init ==
    /\ provider \in Providers /\ quantity \in Quantities
    /\ size = [o \in Ids |-> 0] /\ fill = [o \in Ids |-> 0]
    /\ open = {} /\ dying = {}
    /\ stage = "wait" /\ call = Request("place", 0)
    /\ cycle = 0 /\ current = 0
    /\ wanted = [o \in Ids |-> IF o = 0 THEN Requested ELSE 0]
    /\ reported = [o \in Ids |-> 0]
    /\ status = "unknown" /\ active = FALSE

-----------------------------------------------------------------------------
(* The exchange.                                                           *)

\* External: part of an open order is executed; a filled order is closed.
ExchangeFills(o) ==
    /\ o \in open
    /\ fill' = [fill EXCEPT ![o] = @ + 1]
    /\ IF fill'[o] = size[o]
         THEN open' = open \ {o} /\ dying' = dying \ {o}
         ELSE UNCHANGED <<open, dying>>
    /\ UNCHANGED <<contextVars, size, stage, call, stateVars>>

\* External: a cancellation takes effect, or the order ends by itself.
ExchangeCloses(o) ==
    /\ o \in open
    /\ open' = open \ {o} /\ dying' = dying \ {o}
    /\ UNCHANGED <<contextVars, size, fill, stage, call, stateVars>>

-----------------------------------------------------------------------------
(* The broker adapter.                                                     *)

LargerOf(a, b) == IF a >= b THEN a ELSE b

\* BingX raises an order to the minimum of the contract and reports the
\* raised notional as requested; Bybit raises only the quantity.
Asked(n) == IF provider = "bingx" THEN LargerOf(n, Lot) ELSE n

\* What reaches the exchange for n.  A quantity goes before the notional; one
\* below the minimum is raised, by Bybit to the notional if that is larger.
BybitSizes(n) == {IF quantity >= Lot THEN quantity ELSE LargerOf(n, Lot)}

\* BingX steps down on insufficient margin, but only an order it sized itself.
BingxSizes(n) ==
    IF quantity > 0 THEN {LargerOf(quantity, Lot)} ELSE Lot .. LargerOf(n, Lot)

Sizes(n) == IF provider = "bingx" THEN BingxSizes(n) ELSE BybitSizes(n)

\* The exchange handles the call, also one the router no longer waits for.
AdapterSubmits ==
    /\ call.at = "sent"
    /\ \/ /\ call' = [call EXCEPT !.at = "refused"]
          /\ UNCHANGED exchangeVars
       \/ /\ call' = [call EXCEPT !.at = "accepted"]
          /\ CASE call.op = "place" ->
                    /\ \E n \in Sizes(wanted[call.id]) : size' = [size EXCEPT ![call.id] = n]
                    /\ open' = open \cup {call.id}
                    /\ UNCHANGED <<fill, dying>>
               [] call.op \in {"cancel", "clear"} ->
                    /\ call.id \in open
                    /\ dying' = dying \cup {call.id}
                    /\ UNCHANGED <<size, fill, open>>
               [] call.op = "amend" ->
                    /\ call.id \in open
                    /\ UNCHANGED exchangeVars
               [] OTHER -> UNCHANGED exchangeVars
    /\ UNCHANGED <<contextVars, stage, stateVars>>

\* The statuses an order may be reported with.  Bybit's
\* PartiallyFilledCanceled is mapped to open, BingX's PENDING_CANCEL to
\* cancelled.
Reports(o) ==
    CASE o \in open ->
           (IF fill[o] > 0 THEN {"partially_filled"} ELSE {"open"})
           \cup (IF o \in dying /\ provider = "bingx" THEN {"cancelled"} ELSE {})
      [] fill[o] > 0 /\ fill[o] = size[o] -> {"filled"}
      [] OTHER -> {"cancelled", "rejected"}
                  \cup (IF fill[o] > 0 /\ provider = "bybit" THEN {"open"} ELSE {})

\* Mutant: an acknowledgement without a status always means cancelled.
AckOnly_AnyOp(op) == IF op \in {"status", "amend"} THEN {} ELSE {"cancelled"}

\* The order cannot be queried after the operation: the answer is built from
\* the acknowledgement.  A status query fails then, and so does an amendment.
AckOnly(op) ==
    CASE op = "place"               -> {"unknown"}
      [] op \in {"cancel", "clear"} -> {"cancelled"}
      [] OTHER                      -> {}

\* The adapter asks for the order after the operation and answers.
AdapterAnswers ==
    /\ call.at = "accepted"
    /\ \/ \E s \in Reports(call.id) :
             call' = [call EXCEPT !.at = "answered", !.status = s, !.filled = fill[call.id]]
       \/ \E s \in AckOnly(call.op) :
             call' = [call EXCEPT !.at = "answered", !.status = s]
    /\ UNCHANGED <<contextVars, exchangeVars, stage, stateVars>>

-----------------------------------------------------------------------------
(* The router.                                                             *)

LiveOrderOpen(s) == s \in {"open", "partially_filled"}

\* Mutant: the remainder forgets what was filled.
Remaining_Requested(o, filled) == Asked(wanted[o])

Remaining(o, filled) == LargerOf(0, Asked(wanted[o]) - filled)

Answered(op) == stage = "wait" /\ call.op = op /\ call.at = "answered"

\* The answer becomes the recorded state of the order it is about.
Record(o) ==
    /\ reported' = [reported EXCEPT ![o] = call.filled]
    /\ status'   = call.status
    /\ call'     = NoCall

\* _finalize_active_execution_order
Finalize == stage' = "over" /\ active' = FALSE /\ UNCHANGED cycle

\* Mutant: one cycle too many.
NextCycle_OneMore ==
    IF cycle <= MaxCycles
      THEN stage' = "sleep" /\ cycle' = cycle + 1 /\ active' = TRUE
      ELSE Finalize

\* The next cycle begins, or the loop ends with the order as it is.
NextCycle ==
    IF cycle < MaxCycles
      THEN stage' = "sleep" /\ cycle' = cycle + 1 /\ active' = TRUE
      ELSE Finalize

\* An order that is no longer open ends the loop.
Continue(s) == IF LiveOrderOpen(s) THEN NextCycle ELSE Finalize

\* The first order is acknowledged; the loop is started only if it is open.
OrderPlaced ==
    /\ Answered("place") /\ call.id = 0
    /\ Record(0) /\ Continue(call.status)
    /\ UNCHANGED <<contextVars, exchangeVars, current, wanted>>

\* After the pause of a cycle the status is queried.
QueryStatus ==
    /\ stage = "sleep"
    /\ stage' = "wait" /\ call' = Request("status", current)
    /\ UNCHANGED <<contextVars, exchangeVars, stateVars>>

\* The state is updated; an order that is closed, or worked down to dust,
\* ends the loop.  Otherwise the quotes are fetched.
StatusKnown ==
    /\ Answered("status")
    /\ Record(current)
    /\ IF LiveOrderOpen(call.status) /\ Remaining(current, call.filled) > Dust
         THEN stage' = "decide" /\ UNCHANGED <<cycle, active>>
         ELSE Finalize
    /\ UNCHANGED <<contextVars, exchangeVars, current, wanted>>

\* decide_order_lifecycle says keep.
Keep ==
    /\ stage = "decide"
    /\ NextCycle
    /\ UNCHANGED <<contextVars, exchangeVars, call, current, wanted, reported, status>>

\* It says replace or cancel: the order is amended in place, which only Bybit
\* supports, or cancelled, for good or to be replaced.
Act(op) ==
    /\ stage = "decide"
    /\ op = "amend" => provider = "bybit"
    /\ stage' = "wait" /\ call' = Request(op, current)
    /\ UNCHANGED <<contextVars, exchangeVars, stateVars>>

Amended ==
    /\ Answered("amend")
    /\ Record(current) /\ Continue(call.status)
    /\ UNCHANGED <<contextVars, exchangeVars, current, wanted>>

Cancelled ==
    /\ Answered("cancel")
    /\ status' = call.status /\ call' = NoCall
    /\ Finalize
    /\ UNCHANGED <<contextVars, exchangeVars, current, wanted, reported>>

\* Mutant: an answer is an answer, also one that the cancellation failed.
Cleared_Refused == stage = "wait" /\ call.op = "clear" /\ call.at \in {"answered", "refused"}

Cleared == Answered("clear")

\* A replacement for a fifth to all of the remainder that was last recorded;
\* the answer to the cancellation is not looked at.  Only the notional is
\* replaced in the context: a quantity goes out again in full (Sizes).
Replace(n) ==
    /\ Cleared
    /\ n <= Remaining(current, reported[current])
    /\ 5 * n >= Remaining(current, reported[current])
    /\ wanted' = [wanted EXCEPT ![cycle] = n]
    /\ call' = Request("place", cycle)
    /\ UNCHANGED <<contextVars, exchangeVars, stage, cycle, current, reported, status, active>>

Replaced ==
    /\ Answered("place") /\ call.id # 0
    /\ current' = call.id
    /\ Record(call.id) /\ Continue(call.status)
    /\ UNCHANGED <<contextVars, exchangeVars, wanted>>

\* Nobody waits for the answer any more, but the exchange may still get the call.
Abandon == call' = IF call.at = "sent" THEN call ELSE NoCall

\* Mutant: the calls have no timeout.
LoopFails_NoTimeout ==
    /\ stage = "decide" \/ call.at = "refused"
    /\ stage \in {"wait", "decide"}
    /\ status' = "lifecycle_error"
    /\ Finalize /\ Abandon
    /\ UNCHANGED <<contextVars, exchangeVars, current, wanted, reported>>

\* A timeout, an error answer, or no quotes: the loop records the error and
\* ends.  If it is the first order that fails there is no loop to end.
LoopFails ==
    /\ stage \in {"wait", "decide"}
    /\ status' = "lifecycle_error"
    /\ Finalize /\ Abandon
    /\ UNCHANGED <<contextVars, exchangeVars, current, wanted, reported>>

\* The process ends.  Startup does not take up the orders it was watching.
RouterRestarts ==
    /\ stage \in {"sleep", "wait", "decide"}
    /\ stage' = "gone" /\ Abandon
    /\ UNCHANGED <<contextVars, exchangeVars, stateVars>>

Loop ==
    \/ OrderPlaced \/ QueryStatus \/ StatusKnown \/ Keep
    \/ \E op \in {"amend", "cancel", "clear"} : Act(op)
    \/ Amended \/ Cancelled \/ Replaced
    \/ \E n \in 1..Requested : Replace(n)
    \/ LoopFails

Next ==
    \/ \E o \in Ids : ExchangeFills(o) \/ ExchangeCloses(o)
    \/ AdapterSubmits \/ AdapterAnswers
    \/ Loop \/ RouterRestarts

Spec == Init /\ [][Next]_vars

\* The task of the loop is resumed by its timers and by the timeouts of its
\* calls; nothing is assumed of the adapter or the exchange.
FairSpec == Spec /\ WF_vars(Loop)

-----------------------------------------------------------------------------
(* Properties.                                                             *)

Placed == {o \in Ids : size[o] > 0}

Executed == SumFunctionOnSet(fill, Ids)

\* Executed on orders that were replaced, after their last recorded status.
Unseen ==
    SumFunctionOnSet([o \in Ids |-> LargerOf(0, fill[o] - reported[o])], Ids \ {current})

\* What the venue's minimum adds to the orders placed for less.
Lifted ==
    SumFunctionOnSet([o \in Ids |-> IF o \in Placed THEN LargerOf(0, Lot - wanted[o]) ELSE 0], Ids)

\* What the client's quantity adds: it is sent with every order of the chain,
\* also where the router wants only what remains of the notional.
Repeated ==
    SumFunctionOnSet([o \in Ids |->
        IF o \in Placed THEN LargerOf(0, quantity - LargerOf(Lot, wanted[o])) ELSE 0], Ids)

\* Cancel before replace, and never replace on a failed cancellation: only the
\* newest order works at the exchange without an accepted cancellation.
OnlyNewestWorks == \A o \in Working : \A p \in Placed : p <= o

\* An order chain executes more than was requested only by what the exchange
\* executed after the last status of a replaced order, by the minimum order
\* size, and by the client's quantity, which _execute_live_order sends in full
\* with every replacement; the stale remainder adds nothing else.
OverfillExplained == Executed <= Requested + Unseen + Lifted + Repeated

\* When the last recorded status says that the order is finished, nothing is
\* left working at the exchange, although nobody looks any more.
FinalWordIsTrue ==
    stage = "over" /\ status \in {"filled", "cancelled", "rejected"} => Working = {}

\* The loop of an order ends, whatever adapter and exchange do.
LoopEnds == <>(stage \in {"over", "gone"})
=============================================================================
