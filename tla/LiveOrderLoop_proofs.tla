------------------------ MODULE LiveOrderLoop_proofs ------------------------
(***************************************************************************)
(* What the router's loop leaves at the exchange, and how much of it is    *)
(* executed, for every size, every number of cycles, both venues, and any  *)
(* timing of fills, cancellations, timeouts and restarts.                  *)
(***************************************************************************)
EXTENDS LiveOrderLoop, FiniteSums

Final == {"filled", "cancelled", "rejected"}

\* Order k exists at the exchange, and none that is newer.
Newest(k) == k \in Placed /\ \A p \in Placed : p <= k

\* What a call and its answer say about the orders at the exchange.
CallsAreTrue ==
    /\ call.op = "place" /\ call.at = "sent" =>
          Working = {} /\ \A p \in Placed : p < call.id
    /\ call.op = "place" /\ call.at \in {"accepted", "answered"} => Newest(call.id)
    /\ call.op \in {"cancel", "clear"} /\ call.at \in {"accepted", "answered"} =>
          call.id \notin Working
    /\ call.at = "answered" /\ call.status \in Final => call.id \notin Working

\* While the loop lives it works on the newest order; when it is over with a
\* final status it has no call left that could place another.
LoopKnowsNewest ==
    /\ current <= cycle
    /\ stage = "decide" => LiveOrderOpen(status)
    /\ stage \in {"sleep", "decide"} => call.at = "done"
    /\ stage \in {"sleep", "decide"} \/ (stage = "wait" /\ call.op # "place") =>
          Newest(current) /\ current < cycle
    /\ stage = "wait" /\ call.op # "place" => call.id = current
    /\ stage = "wait" /\ call.op = "place" => call.id = cycle
    /\ stage = "over" /\ status \in Final => Working = {} /\ call.at = "done"

IInv == TypeOK /\ OnlyNewestWorks /\ CallsAreTrue /\ LoopKnowsNewest

CallTypeOK == call \in Calls
BookTypeOK ==
    /\ provider \in Providers /\ quantity \in Quantities
    /\ size \in [Ids -> Nat] /\ fill \in [Ids -> Nat]
    /\ \A o \in Ids : fill[o] <= size[o]
    /\ open \subseteq {o \in Ids : fill[o] < size[o]} /\ dying \subseteq open
StateTypeOK ==
    /\ stage \in {"sleep", "wait", "decide", "over", "gone"}
    /\ cycle \in Ids /\ current \in Ids
    /\ wanted \in [Ids -> 0..Requested] /\ reported \in [Ids -> Nat]
    /\ status \in Statuses \cup {"lifecycle_error"}
ActiveTypeOK == active \in BOOLEAN

LEMMA TypeParts == TypeOK <=> BookTypeOK /\ CallTypeOK /\ StateTypeOK /\ ActiveTypeOK
BY DEF TypeOK, BookTypeOK, CallTypeOK, StateTypeOK, ActiveTypeOK

-----------------------------------------------------------------------------
(* The exchange.                                                           *)

LEMMA FillsPreserves ==
    ASSUME IInv, NEW o \in Ids, ExchangeFills(o)
    PROVE  IInv'
<1>1. /\ o \in open
      /\ fill' = [fill EXCEPT ![o] = @ + 1]
      /\ IF fill'[o] = size[o]
           THEN open' = open \ {o} /\ dying' = dying \ {o}
           ELSE open' = open /\ dying' = dying
      /\ UNCHANGED <<contextVars, size, stage, call>>
      /\ UNCHANGED <<cycle, current, wanted, reported, status>>
  BY DEF ExchangeFills, stateVars
<1>2. active' = active
  BY DEF ExchangeFills, stateVars
<1>3. Working' \subseteq Working /\ Placed' = Placed
  BY <1>1 DEF Working, Placed
<1>4. BookTypeOK'
  BY <1>1 DEF contextVars, IInv, TypeOK, BookTypeOK
<1>5. CallTypeOK' /\ StateTypeOK'
  BY <1>1 DEF IInv, TypeOK, CallTypeOK, StateTypeOK
<1>6. TypeOK'
  BY <1>2, <1>4, <1>5 DEF IInv, TypeOK, BookTypeOK, CallTypeOK, StateTypeOK
<1>7. OnlyNewestWorks' /\ CallsAreTrue' /\ LoopKnowsNewest'
  BY <1>1, <1>3 DEF IInv, OnlyNewestWorks, CallsAreTrue, LoopKnowsNewest, Newest
<1>. QED
  BY <1>6, <1>7 DEF IInv

LEMMA ClosesPreserves ==
    ASSUME IInv, NEW o \in Ids, ExchangeCloses(o)
    PROVE  IInv'
<1>1. /\ open' = open \ {o} /\ dying' = dying \ {o}
      /\ UNCHANGED <<contextVars, size, fill, stage, call>>
      /\ UNCHANGED <<cycle, current, wanted, reported, status>>
  BY DEF ExchangeCloses, stateVars
<1>2. active' = active
  BY DEF ExchangeCloses, stateVars
<1>3. Working' \subseteq Working /\ Placed' = Placed
  BY <1>1 DEF Working, Placed
<1>4. BookTypeOK'
  BY <1>1 DEF contextVars, IInv, TypeOK, BookTypeOK
<1>5. CallTypeOK' /\ StateTypeOK'
  BY <1>1 DEF IInv, TypeOK, CallTypeOK, StateTypeOK
<1>6. TypeOK'
  BY <1>2, <1>4, <1>5 DEF IInv, TypeOK, BookTypeOK, CallTypeOK, StateTypeOK
<1>7. OnlyNewestWorks' /\ CallsAreTrue' /\ LoopKnowsNewest'
  BY <1>1, <1>3 DEF IInv, OnlyNewestWorks, CallsAreTrue, LoopKnowsNewest, Newest
<1>. QED
  BY <1>6, <1>7 DEF IInv

-----------------------------------------------------------------------------
(* The broker adapter.                                                     *)

\* An order that is placed has at least the minimum size, and more than what
\* is wanted only by the minimum or by the quantity.
LEMMA SizesAreBounded ==
    ASSUME NEW n \in Nat, quantity \in Quantities, NEW k \in Sizes(n)
    PROVE  /\ k \in Nat /\ k > 0 /\ k >= Lot
           /\ k <= LargerOf(LargerOf(n, Lot), quantity)
BY LoopAssumption DEF Sizes, BybitSizes, BingxSizes, LargerOf

\* What the exchange does with an accepted call.
PlacesOrder ==
    /\ call.op = "place"
    /\ \E n \in Sizes(wanted[call.id]) : size' = [size EXCEPT ![call.id] = n]
    /\ open' = open \cup {call.id}
    /\ UNCHANGED <<fill, dying>>

CancelsOrder ==
    /\ call.op \in {"cancel", "clear"} /\ call.id \in open
    /\ dying' = dying \cup {call.id}
    /\ UNCHANGED <<size, fill, open>>

LEMMA SubmitsPreserves ==
    ASSUME IInv, AdapterSubmits
    PROVE  IInv'
<1>1. /\ call.at = "sent" /\ call \in Calls
      /\ UNCHANGED <<contextVars, stage, cycle, current, wanted, reported, status>>
  BY DEF AdapterSubmits, stateVars, IInv, TypeOK
<1>2. active' = active
  BY DEF AdapterSubmits, stateVars
<1>3. /\ call.op \in Ops /\ call.id \in Ids /\ call.status \in Statuses /\ call.filled \in Nat
  BY <1>1 DEF Calls
<1>4. PICK a \in {"refused", "accepted"} : call' = [call EXCEPT !.at = a]
  BY DEF AdapterSubmits
<1>5. /\ call' \in Calls /\ call'.op = call.op /\ call'.id = call.id /\ call'.at = a
      /\ call'.status = call.status
  BY <1>1, <1>4 DEF Calls
<1>6. StateTypeOK' /\ CallTypeOK'
  BY <1>1, <1>5 DEF IInv, TypeOK, CallTypeOK, StateTypeOK
<1>7. CASE UNCHANGED exchangeVars /\ (a = "accepted" => call.op \in {"status", "amend"})
  <2>1. UNCHANGED <<size, fill, open, dying>> /\ Working' = Working /\ Placed' = Placed
    BY <1>7 DEF exchangeVars, Working, Placed
  <2>2. BookTypeOK'
    BY <1>1, <2>1 DEF contextVars, IInv, TypeOK, BookTypeOK
  <2>3. TypeOK'
    BY <1>2, <1>6, <2>2 DEF IInv, TypeOK, BookTypeOK, CallTypeOK, StateTypeOK
  <2>4. OnlyNewestWorks' /\ CallsAreTrue' /\ LoopKnowsNewest'
    BY <1>1, <1>3, <1>5, <1>7, <2>1
       DEF IInv, OnlyNewestWorks, CallsAreTrue, LoopKnowsNewest, Newest
  <2>. QED
    BY <2>3, <2>4 DEF IInv
<1>8. CASE a = "accepted" /\ PlacesOrder
  <2>1. PICK n \in Sizes(wanted[call.id]) : size' = [size EXCEPT ![call.id] = n]
    BY <1>8 DEF PlacesOrder
  <2>2. wanted[call.id] \in Nat
    BY <1>3, LoopAssumption DEF IInv, TypeOK
  <2>3. n \in Nat /\ n > 0
    BY <2>1, <2>2, SizesAreBounded DEF IInv, TypeOK
  <2>4. Working = {} /\ \A p \in Placed : p < call.id
    BY <1>1, <1>8 DEF PlacesOrder, IInv, CallsAreTrue
  <2>5. size[call.id] = 0
    BY <1>3, <2>4 DEF IInv, TypeOK, Placed, Ids
  <2>6. fill[call.id] = 0
    BY <1>3, <2>5 DEF IInv, TypeOK
  <2>7. BookTypeOK'
    BY <1>1, <1>3, <1>8, <2>1, <2>3, <2>6 DEF contextVars, PlacesOrder, IInv, TypeOK, BookTypeOK
  <2>8. TypeOK'
    BY <1>2, <1>6, <2>7 DEF IInv, TypeOK, BookTypeOK, CallTypeOK, StateTypeOK
  <2>9. Working' \subseteq {call.id} /\ Placed' = Placed \cup {call.id}
    BY <1>3, <1>8, <2>1, <2>3, <2>4 DEF PlacesOrder, IInv, TypeOK, Working, Placed
  <2>10. \A p \in Placed' : p <= call.id
    BY <1>3, <2>4, <2>9 DEF Ids, Placed
  <2>11. LoopKnowsNewest'
    BY <1>1, <1>5, <1>8 DEF PlacesOrder, IInv, LoopKnowsNewest
  <2>12. OnlyNewestWorks'
    BY <2>9, <2>10 DEF OnlyNewestWorks
  <2>13. Newest(call.id)'
    BY <1>5, <2>9, <2>10 DEF Newest
  <2>14. CallsAreTrue'
    BY <1>5, <1>8, <2>13 DEF PlacesOrder, CallsAreTrue
  <2>. QED
    BY <2>8, <2>11, <2>12, <2>14 DEF IInv
<1>9. CASE a = "accepted" /\ CancelsOrder
  <2>1. Working' = Working \ {call.id} /\ Placed' = Placed
    BY <1>9 DEF CancelsOrder, Working, Placed
  <2>2. BookTypeOK'
    BY <1>1, <1>9 DEF contextVars, CancelsOrder, IInv, TypeOK, BookTypeOK
  <2>3. TypeOK'
    BY <1>2, <1>6, <2>2 DEF IInv, TypeOK, BookTypeOK, CallTypeOK, StateTypeOK
  <2>4. OnlyNewestWorks' /\ CallsAreTrue' /\ LoopKnowsNewest'
    BY <1>1, <1>5, <1>9, <2>1
       DEF CancelsOrder, IInv, OnlyNewestWorks, CallsAreTrue, LoopKnowsNewest, Newest
  <2>. QED
    BY <2>3, <2>4 DEF IInv
<1>10. \/ UNCHANGED exchangeVars /\ a = "refused"
       \/ a = "accepted" /\ PlacesOrder
       \/ a = "accepted" /\ CancelsOrder
       \/ UNCHANGED exchangeVars /\ call.op \in {"status", "amend"}
  <2>1. \/ call' = [call EXCEPT !.at = "refused"] /\ UNCHANGED exchangeVars
        \/ /\ call' = [call EXCEPT !.at = "accepted"]
           /\ \/ PlacesOrder \/ CancelsOrder
              \/ UNCHANGED exchangeVars /\ call.op \in {"status", "amend"}
    BY <1>3 DEF AdapterSubmits, Ops, PlacesOrder, CancelsOrder
  <2>2. /\ call' = [call EXCEPT !.at = "refused"] => a = "refused"
        /\ call' = [call EXCEPT !.at = "accepted"] => a = "accepted"
    BY <1>1, <1>5 DEF Calls
  <2>. QED
    BY <2>1, <2>2
<1>. QED
  BY <1>7, <1>8, <1>9, <1>10

\* An order that works is never reported with a final status.
LEMMA ReportsOfWorking ==
    ASSUME TypeOK, NEW o \in Working, NEW s \in Reports(o)
    PROVE  s \in {"open", "partially_filled"}
<1>1. o \in open /\ o \notin dying /\ ~(fill[o] = size[o])
  BY DEF Working, TypeOK
<1>2. CASE fill[o] > 0
  BY <1>1, <1>2 DEF Reports
<1>3. CASE ~(fill[o] > 0)
  BY <1>1, <1>3 DEF Reports
<1>. QED
  BY <1>2, <1>3

LEMMA AnswersPreserves ==
    ASSUME IInv, AdapterAnswers
    PROVE  IInv'
<1>1. /\ call.at = "accepted" /\ call \in Calls
      /\ UNCHANGED <<contextVars, stage, cycle, current, wanted, reported, status>>
      /\ UNCHANGED <<size, fill, open, dying>>
  BY DEF AdapterAnswers, stateVars, exchangeVars, IInv, TypeOK
<1>2. active' = active
  BY DEF AdapterAnswers, stateVars
<1>3. call.op \in Ops /\ call.id \in Ids /\ fill[call.id] \in Nat /\ call.filled \in Nat
  BY <1>1 DEF Calls, IInv, TypeOK
<1>4. PICK s \in Statuses, f \in Nat :
          /\ call' = [call EXCEPT !.at = "answered", !.status = s, !.filled = f]
          /\ s \in Reports(call.id) \/ s \in AckOnly(call.op)
  <2>1. Reports(call.id) \subseteq Statuses /\ AckOnly(call.op) \subseteq Statuses
    BY DEF Reports, AckOnly, Statuses
  <2>2. CASE \E s \in Reports(call.id) :
                call' = [call EXCEPT !.at = "answered", !.status = s, !.filled = fill[call.id]]
    BY <1>3, <2>1, <2>2
  <2>3. ASSUME NEW s \in AckOnly(call.op),
               call' = [call EXCEPT !.at = "answered", !.status = s]
        PROVE  call' = [call EXCEPT !.at = "answered", !.status = s, !.filled = call.filled]
    BY <1>1, <2>3 DEF Calls
  <2>. QED
    BY <1>3, <2>1, <2>2, <2>3 DEF AdapterAnswers
<1>5. /\ call' \in Calls /\ call'.op = call.op /\ call'.id = call.id
      /\ call'.at = "answered" /\ call'.status = s
  BY <1>1, <1>4 DEF Calls
<1>6. s \in Final => call.id \notin Working
  <2>1. CASE s \in Reports(call.id)
    <3>1. CASE call.id \notin Working
      BY <3>1
    <3>2. CASE call.id \in open /\ call.id \notin dying
      BY <2>1, <3>2, ReportsOfWorking DEF Final, Working, IInv
    <3>. QED
      BY <3>1, <3>2 DEF Working
  <2>2. CASE s \in AckOnly(call.op)
    BY <1>1, <2>2 DEF AckOnly, Final, IInv, CallsAreTrue
  <2>. QED
    BY <1>4, <2>1, <2>2
<1>7. Working' = Working /\ Placed' = Placed
  BY <1>1 DEF Working, Placed
<1>8. BookTypeOK' /\ StateTypeOK' /\ CallTypeOK'
  BY <1>1, <1>5 DEF contextVars, IInv, TypeOK, BookTypeOK, CallTypeOK, StateTypeOK
<1>9. TypeOK'
  BY <1>2, <1>8 DEF IInv, TypeOK, BookTypeOK, CallTypeOK, StateTypeOK
<1>10. OnlyNewestWorks' /\ CallsAreTrue' /\ LoopKnowsNewest'
  BY <1>1, <1>5, <1>6, <1>7 DEF IInv, OnlyNewestWorks, CallsAreTrue, LoopKnowsNewest, Newest
<1>. QED
  BY <1>9, <1>10 DEF IInv

-----------------------------------------------------------------------------
(* The router.                                                             *)

\* A step of the router moves nothing at the exchange.
LEMMA RouterLeavesOrders ==
    ASSUME TypeOK, UNCHANGED <<contextVars, exchangeVars>>
    PROVE  BookTypeOK' /\ Working' = Working /\ Placed' = Placed
BY DEF contextVars, exchangeVars, Working, Placed, TypeOK, BookTypeOK

LEMMA CallFacts ==
    /\ NoCall \in Calls /\ NoCall.op = "status" /\ NoCall.at = "done"
    /\ \A op \in Ops, id \in Ids :
          /\ Request(op, id) \in Calls
          /\ Request(op, id).op = op /\ Request(op, id).id = id
          /\ Request(op, id).at = "sent"
BY LoopAssumption DEF NoCall, Request, Calls, Ops, Ids, Statuses

\* How a cycle ends: with the next one, or with the loop.
NextOrOver ==
    \/ stage' = "sleep" /\ cycle' = cycle + 1 /\ cycle < MaxCycles
    \/ stage' = "over" /\ cycle' = cycle

LEMMA CycleEnds ==
    ASSUME TypeOK
    PROVE  /\ NextCycle => NextOrOver /\ active' \in BOOLEAN
           /\ Finalize => stage' = "over" /\ cycle' = cycle /\ active' \in BOOLEAN
           /\ \A s : Continue(s) => NextOrOver /\ active' \in BOOLEAN
                                    /\ (stage' = "sleep" => LiveOrderOpen(s))
<1>1. /\ NextCycle => active' \in BOOLEAN
      /\ Finalize => active' \in BOOLEAN
  BY Zenon DEF NextCycle, Finalize
<1>2. Finalize => stage' = "over" /\ cycle' = cycle
  BY DEF Finalize
<1>3. NextCycle => NextOrOver
  BY <1>2 DEF NextCycle, NextOrOver
<1>. QED
  BY <1>1, <1>2, <1>3 DEF Continue, NextOrOver

\* The answer about order o is recorded, o is the current order from now on,
\* and the loop goes on or ends.
LEMMA RecordPreserves ==
    ASSUME IInv, NEW o \in Ids, Newest(o), o <= cycle, Record(o), current' = o,
           call.at = "answered", call.id = o,
           \/ NextOrOver /\ (stage' = "sleep" => LiveOrderOpen(call.status))
           \/ stage' = "decide" /\ cycle' = cycle /\ o < cycle /\ LiveOrderOpen(call.status),
           active' \in BOOLEAN, UNCHANGED <<contextVars, exchangeVars, wanted>>
    PROVE  IInv'
<1>1. BookTypeOK' /\ Working' = Working /\ Placed' = Placed
  BY RouterLeavesOrders DEF IInv
<1>2. call \in Calls /\ call.status \in Statuses /\ call.filled \in Nat
  BY DEF IInv, TypeOK, Calls
<1>3. call' = NoCall /\ status' = call.status /\ reported' = [reported EXCEPT ![o] = call.filled]
  BY DEF Record
<1>4. CallTypeOK'
  BY <1>3, CallFacts DEF CallTypeOK
<1>5. StateTypeOK'
  <2>1. StateTypeOK
    BY TypeParts DEF IInv
  <2>2. cycle' \in Ids /\ stage' \in {"sleep", "wait", "decide", "over", "gone"}
    BY <2>1, LoopAssumption DEF StateTypeOK, NextOrOver, Ids
  <2>3. reported' \in [Ids -> Nat] /\ wanted' = wanted
    BY <1>2, <1>3, <2>1 DEF StateTypeOK
  <2>. QED
    BY <1>2, <1>3, <2>1, <2>2, <2>3 DEF StateTypeOK
<1>6. TypeOK'
  BY <1>1, <1>4, <1>5 DEF TypeOK, BookTypeOK, CallTypeOK, StateTypeOK
<1>7. OnlyNewestWorks'
  BY <1>1 DEF IInv, OnlyNewestWorks
<1>8. CallsAreTrue'
  BY <1>3, CallFacts DEF CallsAreTrue
<1>9. call.status \in Final => Working = {}
  <2>1. \A w \in Working : w \in Placed
    BY DEF IInv, TypeOK, Working, Placed
  <2>2. \A w \in Working : w = o
    BY <2>1 DEF IInv, OnlyNewestWorks, Newest, Ids, Placed
  <2>. QED
    BY <2>2 DEF IInv, CallsAreTrue
<1>10. LoopKnowsNewest'
  <2>1. Newest(o)'
    BY <1>1 DEF Newest
  <2>2. current' <= cycle' /\ (stage' \in {"sleep", "decide"} => current' < cycle')
    BY DEF NextOrOver, Ids, IInv, TypeOK
  <2>. QED
    BY <1>1, <1>3, <1>9, <2>1, <2>2, CallFacts DEF LoopKnowsNewest, NextOrOver
<1>. QED
  BY <1>6, <1>7, <1>8, <1>10 DEF IInv

\* The first order, and every replacement, becomes the current order.
LEMMA PlacedPreserves ==
    ASSUME IInv, OrderPlaced \/ Replaced
    PROVE  IInv'
<1>1. /\ stage = "wait" /\ call.op = "place" /\ call.at = "answered"
      /\ Record(call.id) /\ Continue(call.status)
      /\ UNCHANGED <<contextVars, exchangeVars, wanted>>
  BY DEF OrderPlaced, Replaced, Answered
<1>2. call.id \in Ids /\ Newest(call.id) /\ call.id = cycle
  BY <1>1 DEF IInv, TypeOK, Calls, CallsAreTrue, LoopKnowsNewest
<1>3. current' = call.id
  <2>1. CASE OrderPlaced
    BY <1>2, <2>1 DEF OrderPlaced, IInv, LoopKnowsNewest, TypeOK, Ids
  <2>2. CASE Replaced
    BY <2>2 DEF Replaced
  <2>. QED
    BY <2>1, <2>2
<1>4. NextOrOver /\ active' \in BOOLEAN /\ (stage' = "sleep" => LiveOrderOpen(call.status))
  BY <1>1, CycleEnds DEF IInv
<1>5. call.id <= cycle
  BY <1>2 DEF Ids
<1>. QED
  BY <1>1, <1>2, <1>3, <1>4, <1>5, RecordPreserves

\* The answers to a status query and to an amendment are about the current order.
LEMMA KnownPreserves ==
    ASSUME IInv, StatusKnown \/ Amended
    PROVE  IInv'
<1>1. /\ stage = "wait" /\ call.op # "place" /\ call.at = "answered"
      /\ Record(current) /\ current' = current
      /\ UNCHANGED <<contextVars, exchangeVars, wanted>>
  BY DEF StatusKnown, Amended, Answered
<1>2. current \in Ids /\ Newest(current) /\ call.id = current /\ current < cycle
      /\ current <= cycle
  BY <1>1 DEF IInv, TypeOK, LoopKnowsNewest
<1>3. CASE Amended
  <2>1. NextOrOver /\ active' \in BOOLEAN /\ (stage' = "sleep" => LiveOrderOpen(call.status))
    BY <1>3, CycleEnds DEF Amended, IInv
  <2>. QED
    BY <1>1, <1>2, <2>1, RecordPreserves
<1>4. CASE StatusKnown /\ Finalize
  <2>1. NextOrOver /\ active' \in BOOLEAN /\ stage' = "over"
    BY <1>4, CycleEnds DEF NextOrOver, IInv
  <2>. QED
    BY <1>1, <1>2, <2>1, RecordPreserves
<1>5. CASE /\ LiveOrderOpen(call.status)
           /\ stage' = "decide" /\ UNCHANGED <<cycle, active>>
  <2>1. active' \in BOOLEAN
    BY <1>5 DEF IInv, TypeOK
  <2>2. stage' = "decide" /\ cycle' = cycle /\ LiveOrderOpen(call.status)
    BY <1>5
  <2>. QED
    BY <1>1, <1>2, <2>1, <2>2, RecordPreserves
<1>. QED
  BY <1>3, <1>4, <1>5 DEF StatusKnown

LEMMA KeepPreserves ==
    ASSUME IInv, Keep
    PROVE  IInv'
<1>1. /\ stage = "decide" /\ NextOrOver
      /\ UNCHANGED <<contextVars, exchangeVars, call, current, wanted, reported, status>>
  BY CycleEnds DEF Keep, IInv
<1>2. active' \in BOOLEAN
  BY CycleEnds DEF Keep, IInv
<1>3. BookTypeOK' /\ Working' = Working /\ Placed' = Placed
  BY <1>1, RouterLeavesOrders DEF IInv
<1>4. call.at = "done" /\ Newest(current) /\ current < cycle /\ status \notin Final
      /\ LiveOrderOpen(status)
  BY <1>1 DEF IInv, LoopKnowsNewest, LiveOrderOpen, Final
<1>5. CallTypeOK' /\ StateTypeOK'
  <2>1. CallTypeOK /\ StateTypeOK
    BY TypeParts DEF IInv
  <2>2. cycle' \in Ids /\ stage' \in {"sleep", "over"}
    BY <1>1, <2>1, LoopAssumption DEF StateTypeOK, NextOrOver, Ids
  <2>. QED
    BY <1>1, <2>1, <2>2 DEF StateTypeOK, CallTypeOK
<1>6. TypeOK'
  BY <1>2, <1>3, <1>5 DEF TypeOK, BookTypeOK, CallTypeOK, StateTypeOK
<1>7. OnlyNewestWorks' /\ CallsAreTrue'
  BY <1>1, <1>3 DEF IInv, OnlyNewestWorks, CallsAreTrue, Newest
<1>8. LoopKnowsNewest'
  <2>1. current' <= cycle' /\ (stage' = "sleep" => current' < cycle')
    BY <1>1, <1>4 DEF NextOrOver, IInv, TypeOK, Ids
  <2>2. Newest(current)'
    BY <1>1, <1>3, <1>4 DEF Newest
  <2>. QED
    BY <1>1, <1>3, <1>4, <2>1, <2>2 DEF LoopKnowsNewest, NextOrOver
<1>. QED
  BY <1>6, <1>7, <1>8 DEF IInv

\* A call about the current order: a query, or what the optimizer decided.
LEMMA AsksPreserves ==
    ASSUME IInv, QueryStatus \/ \E op \in {"amend", "cancel", "clear"} : Act(op)
    PROVE  IInv'
<1>1. PICK op \in {"status", "amend", "cancel", "clear"} : call' = Request(op, current)
  BY DEF QueryStatus, Act
<1>2. /\ stage \in {"sleep", "decide"} /\ stage' = "wait"
      /\ UNCHANGED <<contextVars, exchangeVars>>
      /\ UNCHANGED <<cycle, current, wanted, reported, status>>
  BY DEF QueryStatus, Act, stateVars
<1>3. active' \in BOOLEAN
  BY DEF QueryStatus, Act, stateVars, IInv, TypeOK
<1>4. current \in Ids /\ Newest(current) /\ current < cycle /\ current <= cycle
  BY <1>2 DEF IInv, TypeOK, LoopKnowsNewest
<1>5. /\ call' \in Calls /\ call'.op = op /\ call'.id = current /\ call'.at = "sent"
  BY <1>1, <1>4, CallFacts DEF Ops
<1>6. BookTypeOK' /\ Working' = Working /\ Placed' = Placed
  BY <1>2, RouterLeavesOrders DEF IInv
<1>7. CallTypeOK' /\ StateTypeOK'
  <2>1. StateTypeOK
    BY TypeParts DEF IInv
  <2>. QED
    BY <1>2, <1>5, <2>1 DEF StateTypeOK, CallTypeOK
<1>8. TypeOK'
  BY <1>3, <1>6, <1>7 DEF TypeOK, BookTypeOK, CallTypeOK, StateTypeOK
<1>9. OnlyNewestWorks' /\ CallsAreTrue'
  BY <1>5, <1>6 DEF IInv, OnlyNewestWorks, CallsAreTrue
<1>10. LoopKnowsNewest'
  BY <1>2, <1>4, <1>5, <1>6 DEF LoopKnowsNewest, Newest
<1>. QED
  BY <1>8, <1>9, <1>10 DEF IInv

LEMMA CancelledPreserves ==
    ASSUME IInv, Cancelled
    PROVE  IInv'
<1>1. /\ stage = "wait" /\ call.op = "cancel" /\ call.at = "answered"
      /\ status' = call.status /\ call' = NoCall
      /\ UNCHANGED <<contextVars, exchangeVars, current, wanted, reported>>
  BY DEF Cancelled, Answered
<1>2. stage' = "over" /\ cycle' = cycle /\ active' \in BOOLEAN
  BY CycleEnds DEF Cancelled, IInv
<1>3. BookTypeOK' /\ Working' = Working /\ Placed' = Placed
  BY <1>1, RouterLeavesOrders DEF IInv
<1>4. call.status \in Statuses
  BY DEF IInv, TypeOK, Calls
<1>5. CallTypeOK' /\ StateTypeOK'
  <2>1. StateTypeOK
    BY TypeParts DEF IInv
  <2>. QED
    BY <1>1, <1>2, <1>4, <2>1, CallFacts DEF StateTypeOK, CallTypeOK
<1>6. TypeOK'
  BY <1>2, <1>3, <1>5 DEF TypeOK, BookTypeOK, CallTypeOK, StateTypeOK
<1>7. Working = {}
  <2>1. Newest(current) /\ current \notin Working
    BY <1>1 DEF IInv, LoopKnowsNewest, CallsAreTrue
  <2>2. \A w \in Working : w \in Placed
    BY DEF IInv, TypeOK, Working, Placed
  <2>3. \A w \in Working : w = current
    BY <2>1, <2>2 DEF IInv, OnlyNewestWorks, Newest, Ids, Placed
  <2>. QED
    BY <2>1, <2>3
<1>8. OnlyNewestWorks' /\ CallsAreTrue' /\ LoopKnowsNewest'
  BY <1>1, <1>2, <1>3, <1>7, CallFacts
     DEF IInv, OnlyNewestWorks, CallsAreTrue, LoopKnowsNewest
<1>. QED
  BY <1>6, <1>8 DEF IInv

\* The old order is really out of the way when its replacement is sent.
LEMMA ReplacePreserves ==
    ASSUME IInv, NEW n \in 1..Requested, Replace(n)
    PROVE  IInv'
<1>1. /\ stage = "wait" /\ call.op = "clear" /\ call.at = "answered"
      /\ wanted' = [wanted EXCEPT ![cycle] = n]
      /\ call' = Request("place", cycle)
      /\ UNCHANGED <<contextVars, exchangeVars, stage, cycle, current, reported, status>>
  BY DEF Replace, Cleared, Answered
<1>2. active' \in BOOLEAN
  BY DEF Replace, IInv, TypeOK
<1>3. BookTypeOK' /\ Working' = Working /\ Placed' = Placed
  BY <1>1, RouterLeavesOrders DEF IInv
<1>4. cycle \in Ids /\ current \in Ids /\ current < cycle /\ Newest(current)
      /\ current \notin Working
  BY <1>1 DEF IInv, TypeOK, LoopKnowsNewest, CallsAreTrue
<1>5. /\ call' \in Calls /\ call'.op = "place" /\ call'.id = cycle /\ call'.at = "sent"
  BY <1>1, <1>4, CallFacts DEF Ops
<1>6. CallTypeOK' /\ StateTypeOK'
  <2>1. StateTypeOK
    BY TypeParts DEF IInv
  <2>2. wanted' \in [Ids -> 0..Requested]
    BY <1>1, <2>1, LoopAssumption DEF StateTypeOK
  <2>. QED
    BY <1>1, <1>5, <2>1, <2>2 DEF StateTypeOK, CallTypeOK
<1>7. TypeOK'
  BY <1>2, <1>3, <1>6 DEF TypeOK, BookTypeOK, CallTypeOK, StateTypeOK
<1>8. Working = {} /\ \A p \in Placed : p < cycle
  <2>1. \A w \in Working : w \in Placed
    BY DEF IInv, TypeOK, Working, Placed
  <2>2. \A w \in Working : w = current
    BY <1>4, <2>1 DEF IInv, OnlyNewestWorks, Newest, Ids, Placed
  <2>3. \A p \in Placed : p < cycle
    BY <1>4 DEF Newest, Placed, Ids
  <2>. QED
    BY <1>4, <2>2, <2>3
<1>9. OnlyNewestWorks' /\ CallsAreTrue'
  BY <1>3, <1>5, <1>8 DEF OnlyNewestWorks, CallsAreTrue
<1>10. LoopKnowsNewest'
  BY <1>1, <1>4, <1>5 DEF LoopKnowsNewest, IInv
<1>. QED
  BY <1>7, <1>9, <1>10 DEF IInv

\* The loop fails, or its process ends: a call that was not taken up yet may
\* still reach the exchange.
LEMMA EndsPreserves ==
    ASSUME IInv, LoopFails \/ RouterRestarts
    PROVE  IInv'
<1>1. /\ call' = IF call.at = "sent" THEN call ELSE NoCall
      /\ UNCHANGED <<contextVars, exchangeVars>>
      /\ UNCHANGED <<current, wanted, reported>>
      /\ \/ stage' = "over" /\ status' = "lifecycle_error"
         \/ stage' = "gone" /\ status' = status
  BY DEF LoopFails, RouterRestarts, Abandon, Finalize, stateVars
<1>2. cycle' = cycle
  BY CycleEnds DEF LoopFails, RouterRestarts, stateVars, IInv
<1>3. active' \in BOOLEAN
  <2>1. CASE LoopFails
    BY <2>1, CycleEnds DEF LoopFails, IInv
  <2>2. CASE RouterRestarts
    BY <2>2 DEF RouterRestarts, stateVars, IInv, TypeOK
  <2>. QED
    BY <2>1, <2>2
<1>4. BookTypeOK' /\ Working' = Working /\ Placed' = Placed
  BY <1>1, RouterLeavesOrders DEF IInv
<1>5. CallTypeOK' /\ StateTypeOK'
  <2>1. StateTypeOK /\ CallTypeOK
    BY TypeParts DEF IInv
  <2>. QED
    BY <1>1, <1>2, <2>1, CallFacts DEF StateTypeOK, CallTypeOK
<1>6. TypeOK'
  BY <1>3, <1>4, <1>5 DEF TypeOK, BookTypeOK, CallTypeOK, StateTypeOK
<1>7. CallsAreTrue'
  <2>1. CASE call.at = "sent"
    BY <1>1, <1>4, <2>1 DEF CallsAreTrue, IInv
  <2>2. CASE call.at # "sent"
    BY <1>1, <2>2, CallFacts DEF CallsAreTrue
  <2>. QED
    BY <2>1, <2>2
<1>8. OnlyNewestWorks' /\ LoopKnowsNewest'
  BY <1>1, <1>2, <1>4 DEF OnlyNewestWorks, LoopKnowsNewest, IInv, Final
<1>. QED
  BY <1>6, <1>7, <1>8 DEF IInv

-----------------------------------------------------------------------------
(* The theorems.                                                           *)

LEMMA InitHolds == Init => IInv
<1>. SUFFICES ASSUME Init PROVE IInv
  OBVIOUS
<1>1. /\ call = Request("place", 0) /\ stage = "wait" /\ status = "unknown"
      /\ cycle = 0 /\ current = 0 /\ open = {} /\ dying = {}
      /\ size = [o \in Ids |-> 0] /\ fill = [o \in Ids |-> 0]
      /\ provider \in Providers /\ quantity \in Quantities
      /\ wanted = [o \in Ids |-> IF o = 0 THEN Requested ELSE 0]
      /\ reported = [o \in Ids |-> 0]
  BY DEF Init
<1>2. active \in BOOLEAN
  BY Zenon DEF Init
<1>3. 0 \in Ids
  BY LoopAssumption DEF Ids
<1>4. call \in Calls /\ call.op = "place" /\ call.id = 0 /\ call.at = "sent"
  BY <1>1, <1>3, CallFacts DEF Ops
<1>5. BookTypeOK /\ CallTypeOK
  BY <1>1, <1>4 DEF BookTypeOK, CallTypeOK
<1>6. StateTypeOK
  BY <1>1, <1>3, LoopAssumption DEF StateTypeOK, Statuses
<1>7. TypeOK
  BY <1>2, <1>5, <1>6, TypeParts DEF ActiveTypeOK
<1>8. Working = {} /\ Placed = {}
  BY <1>1 DEF Working, Placed
<1>9. OnlyNewestWorks /\ CallsAreTrue /\ LoopKnowsNewest
  BY <1>1, <1>4, <1>8 DEF OnlyNewestWorks, CallsAreTrue, LoopKnowsNewest
<1>. QED
  BY <1>7, <1>9 DEF IInv

LEMMA StutterPreserves ==
    ASSUME IInv, UNCHANGED vars
    PROVE  IInv'
<1>1. /\ UNCHANGED <<contextVars, exchangeVars>>
      /\ UNCHANGED <<stage, call, cycle, current, wanted, reported, status>>
  BY DEF vars, stateVars
<1>2. active' \in BOOLEAN
  BY DEF vars, stateVars, IInv, TypeOK
<1>3. BookTypeOK' /\ Working' = Working /\ Placed' = Placed
  BY <1>1, RouterLeavesOrders DEF IInv
<1>4. TypeOK'
  BY <1>1, <1>2, <1>3 DEF IInv, TypeOK, BookTypeOK
<1>5. OnlyNewestWorks' /\ CallsAreTrue' /\ LoopKnowsNewest'
  BY <1>1, <1>3 DEF IInv, OnlyNewestWorks, CallsAreTrue, LoopKnowsNewest, Newest
<1>. QED
  BY <1>4, <1>5 DEF IInv

LEMMA StepPreserves == IInv /\ [Next]_vars => IInv'
<1>. SUFFICES ASSUME IInv, [Next]_vars PROVE IInv'
  OBVIOUS
<1>1. ASSUME NEW o \in Ids, ExchangeFills(o) \/ ExchangeCloses(o) PROVE IInv'
  BY <1>1, FillsPreserves, ClosesPreserves
<1>2. CASE AdapterSubmits \/ AdapterAnswers
  BY <1>2, SubmitsPreserves, AnswersPreserves
<1>3. CASE OrderPlaced \/ Replaced
  BY <1>3, PlacedPreserves
<1>4. CASE StatusKnown \/ Amended
  BY <1>4, KnownPreserves
<1>5. CASE Keep
  BY <1>5, KeepPreserves
<1>6. CASE QueryStatus \/ \E op \in {"amend", "cancel", "clear"} : Act(op)
  BY <1>6, AsksPreserves
<1>7. CASE Cancelled
  BY <1>7, CancelledPreserves
<1>8. ASSUME NEW n \in 1..Requested, Replace(n) PROVE IInv'
  BY <1>8, ReplacePreserves
<1>9. CASE LoopFails \/ RouterRestarts
  BY <1>9, EndsPreserves
<1>10. CASE UNCHANGED vars
  BY <1>10, StutterPreserves
<1>. QED
  BY <1>1, <1>2, <1>3, <1>4, <1>5, <1>6, <1>7, <1>8, <1>9, <1>10 DEF Next, Loop

LEMMA Invariance == Spec => []IInv
BY InitHolds, StepPreserves, PTL DEF Spec

\* Types of the orders at the exchange, of the call under way and of the
\* router's state; in particular no order is executed beyond its size.
THEOREM TypeCorrect == Spec => []TypeOK
<1>1. IInv => TypeOK
  BY DEF IInv
<1>. QED
  BY <1>1, Invariance, PTL

\* Cancel before replace, and never replace on a failed cancellation: only the
\* newest order of a chain works at the exchange without an accepted
\* cancellation, whatever times out or restarts
\* (execution_router/main.py:1172-1196, 1535-1546).
THEOREM NewestWorks == Spec => []OnlyNewestWorks
<1>1. IInv => OnlyNewestWorks
  BY DEF IInv
<1>. QED
  BY <1>1, Invariance, PTL

\* A loop that ended with a final status left nothing working at the exchange,
\* although the status was built from an earlier answer.
THEOREM FinalWordHolds == Spec => []FinalWordIsTrue
<1>1. IInv => FinalWordIsTrue
  BY DEF IInv, LoopKnowsNewest, Final, FinalWordIsTrue
<1>. QED
  BY <1>1, Invariance, PTL

-----------------------------------------------------------------------------
(* The amounts.  An order was asked for no more than what the recorded       *)
(* executions of the others, corrected by what they were enlarged by, leave  *)
(* of the request; this is what a replacement inherits from the order before.*)

Lift   == [o \in Ids |-> LargerOf(0, size[o] - wanted[o])]
Unread == [o \in Ids |-> LargerOf(0, fill[o] - reported[o])]

\* What was recorded of the other orders, and what they were enlarged by.
SeenBut(o)   == SumFunctionOnSet(reported, Ids \ {o})
LiftedBut(o) == SumFunctionOnSet(Lift, Ids \ {o})

Budget(o) == SeenBut(o) + wanted[o] <= Requested + LiftedBut(o)

\* Orders have the minimum size, and only orders at the exchange are recorded.
OrdersAreReal ==
    \A o \in Ids : IF o \in Placed THEN size[o] >= Lot ELSE reported[o] = 0

BInv ==
    /\ Budget(current)
    /\ call.op = "place" => Budget(call.id)
    /\ OrdersAreReal

LEMMA AmountTypes ==
    ASSUME TypeOK
    PROVE  /\ IsFiniteSet(Ids) /\ \A o \in Ids : IsFiniteSet(Ids \ {o})
           /\ Requested \in Nat /\ Lot \in Nat
           /\ \A o \in Ids : /\ size[o] \in Int /\ fill[o] \in Int /\ fill[o] <= size[o]
                             /\ wanted[o] \in Int /\ wanted[o] >= 0
                             /\ reported[o] \in Int /\ reported[o] >= 0
                             /\ Lift[o] = LargerOf(0, size[o] - wanted[o])
                             /\ Lift[o] \in Int /\ Lift[o] >= 0
                             /\ size[o] <= wanted[o] + Lift[o]
                             /\ Unread[o] \in Int /\ fill[o] <= reported[o] + Unread[o]
           /\ \A o \in Ids : SeenBut(o) \in Int /\ LiftedBut(o) \in Int
<1>1. IsFiniteSet(Ids)
  BY LoopAssumption, FS_Interval DEF Ids
<1>2. ASSUME NEW o \in Ids PROVE IsFiniteSet(Ids \ {o})
  BY <1>1, FS_RemoveElement
<1>3. Requested \in Nat /\ Lot \in Nat
  BY LoopAssumption
<1>4. ASSUME NEW o \in Ids
      PROVE  /\ size[o] \in Int /\ fill[o] \in Int /\ fill[o] <= size[o]
             /\ wanted[o] \in Int /\ wanted[o] >= 0
             /\ reported[o] \in Int /\ reported[o] >= 0
             /\ Lift[o] = LargerOf(0, size[o] - wanted[o])
             /\ Lift[o] \in Int /\ Lift[o] >= 0
             /\ size[o] <= wanted[o] + Lift[o]
             /\ Unread[o] \in Int /\ fill[o] <= reported[o] + Unread[o]
  <2>1. /\ size[o] \in Nat /\ fill[o] \in Nat /\ fill[o] <= size[o]
        /\ wanted[o] \in Nat /\ reported[o] \in Nat
    BY <1>3 DEF TypeOK
  <2>2. Lift[o] = LargerOf(0, size[o] - wanted[o])
        /\ Unread[o] = LargerOf(0, fill[o] - reported[o])
    BY DEF Lift, Unread
  <2>. QED
    BY <2>1, <2>2 DEF LargerOf
<1>5. ASSUME NEW o \in Ids PROVE SeenBut(o) \in Int /\ LiftedBut(o) \in Int
  <2>1. /\ \A p \in Ids \ {o} : reported[p] \in Int
        /\ \A p \in Ids \ {o} : Lift[p] \in Int
    BY <1>4
  <2>. QED
    BY <1>2, <2>1, SumType DEF SeenBut, LiftedBut
<1>. QED
  BY <1>1, <1>2, <1>3, <1>4, <1>5

\* The executions of the others are not in the way of a change to order o.
LEMMA BudgetOf ==
    ASSUME TypeOK, NEW o \in Ids,
           wanted'[o] = wanted[o],
           \A p \in Ids \ {o} : reported'[p] = reported[p],
           \A p \in Ids \ {o} : Lift'[p] \in Int /\ Lift[p] <= Lift'[p],
           Budget(o)
    PROVE  SeenBut(o)' + wanted'[o] <= Requested + LiftedBut(o)'
<1>1. SeenBut(o)' = SeenBut(o)
  <2>1. \A p \in Ids \ {o} : reported[p] \in Int
    BY AmountTypes
  <2>2. SumFunctionOnSet(reported', Ids \ {o}) = SumFunctionOnSet(reported, Ids \ {o})
    BY <2>1, AmountTypes, SumSame
  <2>. QED
    BY <2>2 DEF SeenBut, Ids
<1>2. LiftedBut(o) <= LiftedBut(o)' /\ LiftedBut(o)' \in Int
  <2>. DEFINE S == Ids \ {o}
              f == Lift
              g == Lift'
  <2>1. \A p \in S : f[p] \in Int /\ g[p] \in Int /\ f[p] <= g[p]
    BY AmountTypes
  <2>2. LiftedBut(o)' = SumFunctionOnSet(g, S) /\ LiftedBut(o) = SumFunctionOnSet(f, S)
    BY DEF LiftedBut, Ids
  <2>3. IsFiniteSet(S)
    BY AmountTypes
  <2>. HIDE DEF S, f, g
  <2>4. SumFunctionOnSet(f, S) <= SumFunctionOnSet(g, S)
    BY <2>1, <2>3, SumMonotone
  <2>5. SumFunctionOnSet(g, S) \in Int
    BY <2>1, <2>3, SumType
  <2>. QED
    BY <2>2, <2>4, <2>5
<1>3. SeenBut(o) \in Int /\ LiftedBut(o) \in Int /\ wanted[o] \in Int /\ Requested \in Nat
  BY AmountTypes
<1>. QED
  BY <1>1, <1>2, <1>3 DEF Budget

\* An order that does not exist neither executed nor was raised: what was seen
\* and added may leave it out as well as the current order.
LEMMA SkipOrder ==
    ASSUME TypeOK, OrdersAreReal, NEW o \in Ids, NEW k \in Ids, k # o, k \notin Placed
    PROVE  /\ SeenBut(k) = SeenBut(o) + reported[o]
           /\ LiftedBut(k) = LiftedBut(o) + Lift[o]
<1>. DEFINE R == (Ids \ {o}) \ {k}
<1>1. /\ IsFiniteSet(Ids \ {o}) /\ IsFiniteSet(Ids \ {k})
      /\ \A p \in Ids : reported[p] \in Int /\ Lift[p] \in Int
  BY AmountTypes
<1>2. reported[k] = 0
  BY DEF OrdersAreReal
<1>3. Lift[k] = 0
  BY DEF Lift, Placed, LargerOf, TypeOK
<1>4. (Ids \ {k}) \ {o} = R /\ o \in Ids \ {k} /\ k \in Ids \ {o}
  OBVIOUS
<1>5. SumFunctionOnSet(reported, R) \in Int /\ SumFunctionOnSet(Lift, R) \in Int
  <2>1. IsFiniteSet(R)
    BY <1>1, FS_RemoveElement
  <2>2. (\A p \in R : reported[p] \in Int) /\ (\A p \in R : Lift[p] \in Int)
    BY <1>1
  <2>. HIDE DEF R
  <2>. QED
    BY <2>1, <2>2, SumType
<1>6. /\ SeenBut(k) = reported[o] + SumFunctionOnSet(reported, R)
      /\ SeenBut(o) = reported[k] + SumFunctionOnSet(reported, R)
  <2>1. /\ \A p \in Ids \ {k} : reported[p] \in Int
        /\ \A p \in Ids \ {o} : reported[p] \in Int
    BY <1>1
  <2>. HIDE DEF R
  <2>2. SumFunctionOnSet(reported, Ids \ {k})
           = reported[o] + SumFunctionOnSet(reported, (Ids \ {k}) \ {o})
    BY <1>1, <1>4, <2>1, SumRemove
  <2>3. SumFunctionOnSet(reported, Ids \ {o})
           = reported[k] + SumFunctionOnSet(reported, (Ids \ {o}) \ {k})
    BY <1>1, <1>4, <2>1, SumRemove
  <2>. QED
    BY <1>4, <2>2, <2>3 DEF SeenBut, R
<1>7. /\ LiftedBut(k) = Lift[o] + SumFunctionOnSet(Lift, R)
      /\ LiftedBut(o) = Lift[k] + SumFunctionOnSet(Lift, R)
  <2>1. /\ \A p \in Ids \ {k} : Lift[p] \in Int
        /\ \A p \in Ids \ {o} : Lift[p] \in Int
    BY <1>1
  <2>. HIDE DEF R
  <2>2. SumFunctionOnSet(Lift, Ids \ {k}) = Lift[o] + SumFunctionOnSet(Lift, (Ids \ {k}) \ {o})
    BY <1>1, <1>4, <2>1, SumRemove
  <2>3. SumFunctionOnSet(Lift, Ids \ {o}) = Lift[k] + SumFunctionOnSet(Lift, (Ids \ {o}) \ {k})
    BY <1>1, <1>4, <2>1, SumRemove
  <2>. QED
    BY <1>4, <2>2, <2>3 DEF LiftedBut, R
<1>. HIDE DEF R
<1>8. reported[o] \in Int /\ Lift[o] \in Int
  BY <1>1
<1>. QED
  BY <1>2, <1>3, <1>5, <1>6, <1>7, <1>8

\* A step that changes no amount and sends no order.
LEMMA QuietKeepsBudget ==
    ASSUME BInv, UNCHANGED <<size, wanted, reported, current>>,
           call'.op = "place" => call.op = "place" /\ call'.id = call.id
    PROVE  BInv'
<1>1. Budget(current)'
  BY DEF BInv, Budget, SeenBut, LiftedBut, Lift, Ids, LargerOf
<1>2. call'.op = "place" => Budget(call.id)'
  BY DEF BInv, Budget, SeenBut, LiftedBut, Lift, Ids, LargerOf
<1>3. OrdersAreReal'
  BY DEF BInv, OrdersAreReal, Placed, Ids
<1>. QED
  BY <1>1, <1>2, <1>3 DEF BInv

\* What is recorded of an order does not count against itself.
LEMMA RecordKeepsBudget ==
    ASSUME IInv, BInv, NEW o \in Ids, Newest(o), Budget(o), Record(o), current' = o,
           UNCHANGED <<size, wanted>>
    PROVE  BInv'
<1>1. TypeOK /\ Placed' = Placed /\ o \in Placed
  BY DEF IInv, Placed, Newest, Ids
<1>2. \A p \in Ids \ {o} : reported'[p] = reported[p]
  BY <1>1 DEF Record, TypeOK
<1>3. \A p \in Ids \ {o} : Lift'[p] \in Int /\ Lift[p] <= Lift'[p]
  <2>1. \A p \in Ids : Lift[p] \in Int /\ Lift'[p] = Lift[p]
    BY <1>1, AmountTypes DEF Lift, LargerOf, Ids
  <2>. QED
    BY <2>1
<1>4. Budget(current)'
  <2>1. SeenBut(o)' + wanted'[o] <= Requested + LiftedBut(o)'
    BY <1>1, <1>2, <1>3, BudgetOf
  <2>. QED
    BY <2>1 DEF Budget, SeenBut, LiftedBut
<1>5. call'.op # "place"
  BY CallFacts DEF Record
<1>6. OrdersAreReal'
  BY <1>1, <1>2 DEF BInv, OrdersAreReal, Placed, Ids
<1>. QED
  BY <1>4, <1>5, <1>6 DEF BInv

\* An order is enlarged when it reaches the exchange.
LEMMA SubmitsKeepsBudget ==
    ASSUME IInv, BInv, AdapterSubmits
    PROVE  BInv'
<1>1. /\ TypeOK /\ call.at = "sent" /\ call \in Calls /\ call.id \in Ids /\ current \in Ids
      /\ UNCHANGED <<current, wanted, reported>>
  BY DEF AdapterSubmits, stateVars, IInv, TypeOK, Calls
<1>2. call'.op = call.op /\ call'.id = call.id
  BY <1>1 DEF AdapterSubmits, Calls
<1>3. \/ UNCHANGED size
      \/ /\ call.op = "place"
         /\ \E n \in Sizes(wanted[call.id]) : size' = [size EXCEPT ![call.id] = n]
  <2>1. call.op \in Ops
    BY <1>1 DEF Calls
  <2>. QED
    BY <2>1 DEF AdapterSubmits, exchangeVars, Ops
<1>4. CASE UNCHANGED size
  BY <1>1, <1>2, <1>4, QuietKeepsBudget
<1>5. CASE call.op = "place" /\ \E n \in Sizes(wanted[call.id]) : size' = [size EXCEPT ![call.id] = n]
  <2>. DEFINE k == call.id
  <2>1. PICK n \in Sizes(wanted[k]) : size' = [size EXCEPT ![k] = n]
    BY <1>5
  <2>2. size[k] = 0 /\ k \in Ids /\ \A p \in Placed : p < k
    <3>1. \A p \in Placed : p < k
      BY <1>1, <1>5 DEF IInv, CallsAreTrue
    <3>2. k \notin Placed
      BY <1>1, <3>1 DEF Ids
    <3>. QED
      BY <1>1, <3>1, <3>2 DEF Placed, TypeOK
  <2>3. n \in Int /\ n >= Lot /\ Lot \in Nat /\ n > 0
    <3>1. wanted[k] \in Nat
      BY <1>1, LoopAssumption DEF TypeOK
    <3>. QED
      BY <1>1, <2>1, <3>1, SizesAreBounded, LoopAssumption DEF TypeOK
  <2>. HIDE DEF k
  <2>4. \A p \in Ids : size'[p] = IF p = k THEN n ELSE size[p]
    BY <1>1, <2>1 DEF TypeOK
  <2>5. ASSUME NEW p \in Ids PROVE Lift'[p] \in Int /\ Lift[p] <= Lift'[p]
    <3>1. Lift'[p] = LargerOf(0, size'[p] - wanted[p])
      BY <1>1 DEF Lift, Ids, LargerOf
    <3>2. Lift[p] = LargerOf(0, size[p] - wanted[p])
          /\ size[p] \in Int /\ wanted[p] \in Int
      BY <1>1, AmountTypes
    <3>3. size'[p] \in Int /\ size[p] <= size'[p]
      BY <2>2, <2>3, <2>4, <3>2
    <3>. QED
      BY <3>1, <3>2, <3>3 DEF LargerOf
  <2>6. ASSUME NEW o \in Ids, Budget(o)
        PROVE  SeenBut(o)' + wanted'[o] <= Requested + LiftedBut(o)'
    <3>1. wanted'[o] = wanted[o] /\ \A p \in Ids \ {o} : reported'[p] = reported[p]
      BY <1>1
    <3>. QED
      BY <1>1, <2>5, <2>6, <3>1, BudgetOf
  <2>7. Budget(current)'
    <3>1. current \in Ids /\ Budget(current) /\ current' = current
      BY <1>1 DEF BInv
    <3>2. SeenBut(current)' + wanted'[current] <= Requested + LiftedBut(current)'
      BY <2>6, <3>1 DEF SeenBut, LiftedBut
    <3>. QED
      BY <3>1, <3>2 DEF Budget
  <2>8. Budget(call.id)'
    <3>1. call.id \in Ids /\ Budget(call.id) /\ call'.id = call.id
      BY <1>1, <1>2, <1>5 DEF BInv
    <3>2. SeenBut(call.id)' + wanted'[call.id] <= Requested + LiftedBut(call.id)'
      BY <2>6, <3>1 DEF SeenBut, LiftedBut
    <3>. QED
      BY <3>1, <3>2 DEF Budget
  <2>9. OrdersAreReal'
    BY <1>1, <2>2, <2>3, <2>4 DEF BInv, OrdersAreReal, Placed, Ids
  <2>. QED
    BY <2>7, <2>8, <2>9 DEF BInv
<1>. QED
  BY <1>3, <1>4, <1>5

\* A replacement takes over what the last recorded status of the current order
\* leaves of it; the current order is one of the others from then on.
LEMMA ReplaceKeepsBudget ==
    ASSUME IInv, BInv, NEW n \in 1..Requested, Replace(n)
    PROVE  BInv'
<1>. DEFINE o == current
            k == cycle
<1>1. /\ TypeOK /\ OrdersAreReal /\ Budget(o)
      /\ stage = "wait" /\ call.op = "clear"
      /\ wanted' = [wanted EXCEPT ![k] = n] /\ call' = Request("place", k)
      /\ n <= LargerOf(0, Asked(wanted[o]) - reported[o])
      /\ UNCHANGED <<size, current, reported>>
  BY DEF Replace, Cleared, Answered, Remaining, exchangeVars, IInv, BInv
<1>2. o \in Ids /\ k \in Ids /\ o < k /\ Newest(o)
  BY <1>1 DEF IInv, TypeOK, LoopKnowsNewest
<1>3. k # o /\ k \notin Placed /\ o \in Placed
  BY <1>2 DEF Newest, Ids, Placed
<1>4. call'.op = "place" /\ call'.id = k
  BY <1>1, <1>2, CallFacts DEF Ops
<1>. HIDE DEF o, k
<1>5. /\ \A p \in Ids \ {k} : wanted'[p] = wanted[p]
      /\ wanted'[k] = n
  BY <1>1, <1>2 DEF TypeOK
<1>6. /\ n \in Int /\ n >= 1 /\ Requested \in Nat
      /\ wanted[o] \in Int /\ reported[o] \in Int /\ reported[o] >= 0 /\ Lift[o] \in Int
      /\ size[o] <= wanted[o] + Lift[o] /\ size[o] \in Int /\ Lift[o] >= 0
      /\ SeenBut(o) \in Int /\ LiftedBut(o) \in Int
      /\ SeenBut(k) \in Int /\ LiftedBut(k) \in Int
      /\ Lot \in Nat /\ size[o] >= Lot
  BY <1>1, <1>2, <1>3, AmountTypes DEF OrdersAreReal
<1>7. Lift[k] = 0 /\ \A p \in Ids : Lift'[p] = Lift[p]
  <2>1. size[k] = 0
    BY <1>1, <1>2, <1>3 DEF Placed, TypeOK
  <2>2. wanted[k] \in Int /\ wanted[k] >= 0
    BY <1>1, <1>2, AmountTypes
  <2>3. \A p \in Ids : /\ Lift[p] = LargerOf(0, size[p] - wanted[p])
                       /\ Lift'[p] = LargerOf(0, size[p] - wanted'[p])
    BY <1>1 DEF Lift, Ids, LargerOf
  <2>4. Lift[k] = 0 /\ Lift'[k] = 0
    BY <1>2, <1>5, <1>6, <2>1, <2>2, <2>3 DEF LargerOf
  <2>5. \A p \in Ids \ {k} : Lift'[p] = Lift[p]
    BY <1>5, <2>3
  <2>. QED
    BY <2>4, <2>5
<1>8. /\ SeenBut(k) = SeenBut(o) + reported[o]
      /\ LiftedBut(k) = LiftedBut(o) + Lift[o]
  BY <1>1, <1>2, <1>3, SkipOrder
<1>9. n + reported[o] <= wanted[o] + Lift[o]
  <2>1. Asked(wanted[o]) \in Int /\ Asked(wanted[o]) <= wanted[o] + Lift[o]
    BY <1>6 DEF Asked, LargerOf
  <2>. QED
    BY <1>1, <1>6, <2>1 DEF LargerOf
<1>10. SeenBut(k) + n <= Requested + LiftedBut(k)
  <2>1. SeenBut(o) + wanted[o] <= Requested + LiftedBut(o)
    BY <1>1 DEF Budget
  <2>. QED
    BY <1>6, <1>8, <1>9, <2>1
<1>11. \A q \in Ids : /\ SumFunctionOnSet(reported', Ids \ {q}) = SeenBut(q)
                      /\ SumFunctionOnSet(Lift', Ids \ {q}) = LiftedBut(q)
  <2>1. ASSUME NEW q \in Ids
        PROVE  /\ SumFunctionOnSet(reported', Ids \ {q}) = SeenBut(q)
               /\ SumFunctionOnSet(Lift', Ids \ {q}) = LiftedBut(q)
    <3>1. SumFunctionOnSet(reported', Ids \ {q}) = SumFunctionOnSet(reported, Ids \ {q})
      BY <1>1
    <3>2. SumFunctionOnSet(Lift', Ids \ {q}) = SumFunctionOnSet(Lift, Ids \ {q})
      <4>. DEFINE S == Ids \ {q}
                  f == Lift
                  g == Lift'
      <4>1. IsFiniteSet(S) /\ \A p \in S : f[p] \in Int /\ g[p] = f[p]
        BY <1>1, <1>7, AmountTypes
      <4>. HIDE DEF S, f, g
      <4>2. SumFunctionOnSet(g, S) = SumFunctionOnSet(f, S)
        BY <4>1, SumSame
      <4>. QED
        BY <4>2 DEF S, f, g
    <3>. QED
      BY <3>1, <3>2 DEF SeenBut, LiftedBut
  <2>. QED
    BY <2>1
<1>12. Budget(current)'
  <2>1. SeenBut(o) + wanted'[o] <= Requested + LiftedBut(o)
    BY <1>1, <1>2, <1>3, <1>5 DEF Budget
  <2>2. /\ SumFunctionOnSet(reported', Ids \ {o}) = SeenBut(o)
        /\ SumFunctionOnSet(Lift', Ids \ {o}) = LiftedBut(o)
    BY <1>2, <1>11
  <2>3. SumFunctionOnSet(reported', Ids \ {o}) + wanted'[o]
           <= Requested + SumFunctionOnSet(Lift', Ids \ {o})
    BY <2>1, <2>2
  <2>. QED
    BY <1>1, <2>3 DEF Budget, SeenBut, LiftedBut, o, Ids
<1>13. Budget(call.id)'
  <2>1. /\ SumFunctionOnSet(reported', Ids \ {k}) = SeenBut(k)
        /\ SumFunctionOnSet(Lift', Ids \ {k}) = LiftedBut(k)
    BY <1>2, <1>11
  <2>2. SumFunctionOnSet(reported', Ids \ {k}) + wanted'[k]
           <= Requested + SumFunctionOnSet(Lift', Ids \ {k})
    BY <1>5, <1>10, <2>1
  <2>. QED
    BY <1>4, <2>2 DEF Budget, SeenBut, LiftedBut, Ids
<1>14. OrdersAreReal'
  BY <1>1 DEF OrdersAreReal, Placed, Ids
<1>. QED
  BY <1>12, <1>13, <1>14 DEF BInv

LEMMA BudgetInit == Init => BInv
<1>. SUFFICES ASSUME Init PROVE BInv
  OBVIOUS
<1>1. /\ current = 0 /\ call = Request("place", 0) /\ 0 \in Ids
      /\ size = [o \in Ids |-> 0] /\ reported = [o \in Ids |-> 0]
      /\ wanted = [o \in Ids |-> IF o = 0 THEN Requested ELSE 0]
  BY LoopAssumption DEF Init, Ids
<1>2. call.id = 0
  BY <1>1, CallFacts DEF Ops
<1>3. \A o \in Ids : reported[o] = 0 /\ Lift[o] = 0
  BY <1>1, LoopAssumption DEF Lift, LargerOf
<1>4. IsFiniteSet(Ids \ {0})
  BY InitHolds, AmountTypes, <1>1 DEF IInv
<1>5. SeenBut(0) = 0 /\ LiftedBut(0) = 0
  <2>1. (\A o \in Ids \ {0} : reported[o] = 0) /\ (\A o \in Ids \ {0} : Lift[o] = 0)
    BY <1>3
  <2>. QED
    BY <1>4, <2>1, SumZero DEF SeenBut, LiftedBut
<1>6. Budget(0)
  BY <1>1, <1>5, LoopAssumption DEF Budget
<1>7. OrdersAreReal
  BY <1>1 DEF OrdersAreReal, Placed
<1>. QED
  BY <1>1, <1>2, <1>6, <1>7 DEF BInv

LEMMA StepKeepsBudget == IInv /\ BInv /\ [Next]_vars => BInv'
<1>. SUFFICES ASSUME IInv, BInv, [Next]_vars PROVE BInv'
  OBVIOUS
<1>1. ASSUME NEW o \in Ids, ExchangeFills(o) \/ ExchangeCloses(o) PROVE BInv'
  <2>1. UNCHANGED <<size, wanted, reported, current, call>>
    BY <1>1 DEF ExchangeFills, ExchangeCloses, stateVars
  <2>. QED
    BY <2>1, QuietKeepsBudget
<1>2. CASE AdapterSubmits
  BY <1>2, SubmitsKeepsBudget
<1>3. CASE AdapterAnswers
  <2>1. UNCHANGED <<size, wanted, reported, current>> /\ call \in Calls
    BY <1>3 DEF AdapterAnswers, exchangeVars, stateVars, IInv, TypeOK
  <2>2. call'.op = call.op /\ call'.id = call.id
    BY <1>3, <2>1 DEF AdapterAnswers, Calls
  <2>. QED
    BY <2>1, <2>2, QuietKeepsBudget
<1>4. ASSUME OrderPlaced \/ Replaced PROVE BInv'
  <2>1. /\ stage = "wait" /\ call.op = "place" /\ call.at = "answered"
        /\ Record(call.id) /\ UNCHANGED <<size, wanted>>
    BY <1>4 DEF OrderPlaced, Replaced, Answered, exchangeVars
  <2>2. call.id \in Ids /\ Newest(call.id) /\ call.id = cycle /\ Budget(call.id)
    BY <2>1 DEF IInv, TypeOK, Calls, CallsAreTrue, LoopKnowsNewest, BInv
  <2>3. current' = call.id
    <3>1. CASE OrderPlaced
      BY <2>2, <3>1 DEF OrderPlaced, IInv, LoopKnowsNewest, TypeOK, Ids
    <3>2. CASE Replaced
      BY <3>2 DEF Replaced
    <3>. QED
      BY <1>4, <3>1, <3>2
  <2>. QED
    BY <2>1, <2>2, <2>3, RecordKeepsBudget
<1>5. ASSUME StatusKnown \/ Amended PROVE BInv'
  <2>1. /\ stage = "wait" /\ call.op # "place" /\ Record(current) /\ current' = current
        /\ UNCHANGED <<size, wanted>>
    BY <1>5 DEF StatusKnown, Amended, Answered, exchangeVars
  <2>2. current \in Ids /\ Newest(current) /\ Budget(current)
    BY <2>1 DEF IInv, TypeOK, LoopKnowsNewest, BInv
  <2>. QED
    BY <2>1, <2>2, RecordKeepsBudget
<1>6. CASE Keep
  <2>1. UNCHANGED <<size, wanted, reported, current, call>>
    BY <1>6 DEF Keep, exchangeVars
  <2>. QED
    BY <2>1, QuietKeepsBudget
<1>7. CASE QueryStatus \/ \E op \in {"amend", "cancel", "clear"} : Act(op)
  <2>1. UNCHANGED <<size, wanted, reported, current>>
    BY <1>7 DEF QueryStatus, Act, exchangeVars, stateVars
  <2>2. call'.op # "place"
    BY <1>7, CallFacts DEF QueryStatus, Act, Ops, IInv, TypeOK
  <2>. QED
    BY <2>1, <2>2, QuietKeepsBudget
<1>8. CASE Cancelled
  <2>1. UNCHANGED <<size, wanted, reported, current>> /\ call' = NoCall
    BY <1>8 DEF Cancelled, exchangeVars
  <2>. QED
    BY <2>1, CallFacts, QuietKeepsBudget
<1>9. ASSUME NEW n \in 1..Requested, Replace(n) PROVE BInv'
  BY <1>9, ReplaceKeepsBudget
<1>10. CASE LoopFails \/ RouterRestarts
  <2>1. /\ UNCHANGED <<size, wanted, reported, current>>
        /\ call' = IF call.at = "sent" THEN call ELSE NoCall
    BY <1>10 DEF LoopFails, RouterRestarts, Abandon, exchangeVars, stateVars
  <2>. QED
    BY <2>1, CallFacts, QuietKeepsBudget
<1>11. CASE UNCHANGED vars
  <2>1. UNCHANGED <<size, wanted, reported, current, call>>
    BY <1>11 DEF vars, exchangeVars, stateVars
  <2>. QED
    BY <2>1, QuietKeepsBudget
<1>. QED
  BY <1>1, <1>2, <1>3, <1>4, <1>5, <1>6, <1>7, <1>8, <1>9, <1>10, <1>11 DEF Next, Loop

\* An order is larger than wanted only by the minimum or by the quantity.
SizesAreExplained ==
    \A o \in Placed : size[o] <= LargerOf(LargerOf(wanted[o], Lot), quantity)

LEMMA QuietKeepsSizes ==
    ASSUME SizesAreExplained, UNCHANGED <<contextVars, size, wanted>>
    PROVE  SizesAreExplained'
BY DEF SizesAreExplained, Placed, contextVars

LEMMA StepKeepsSizes == IInv /\ SizesAreExplained /\ [Next]_vars => SizesAreExplained'
<1>. SUFFICES ASSUME IInv, SizesAreExplained, [Next]_vars PROVE SizesAreExplained'
  OBVIOUS
<1>1. CASE AdapterSubmits
  <2>1. /\ call.at = "sent" /\ call \in Calls /\ call.id \in Ids /\ call.op \in Ops
        /\ UNCHANGED <<contextVars, wanted>>
    BY <1>1 DEF AdapterSubmits, stateVars, IInv, TypeOK, Calls
  <2>2. \/ UNCHANGED size
        \/ \E n \in Sizes(wanted[call.id]) : size' = [size EXCEPT ![call.id] = n]
    BY <1>1, <2>1 DEF AdapterSubmits, exchangeVars, Ops
  <2>3. CASE UNCHANGED size
    BY <2>1, <2>3, QuietKeepsSizes
  <2>4. CASE \E n \in Sizes(wanted[call.id]) : size' = [size EXCEPT ![call.id] = n]
    <3>1. PICK n \in Sizes(wanted[call.id]) : size' = [size EXCEPT ![call.id] = n]
      BY <2>4
    <3>2. wanted[call.id] \in Nat
      BY <2>1, LoopAssumption DEF IInv, TypeOK
    <3>3. n <= LargerOf(LargerOf(wanted[call.id], Lot), quantity)
      BY <3>1, <3>2, SizesAreBounded DEF IInv, TypeOK
    <3>4. \A p \in Ids : size'[p] = IF p = call.id THEN n ELSE size[p]
      BY <2>1, <3>1 DEF IInv, TypeOK
    <3>. QED
      BY <2>1, <3>3, <3>4 DEF SizesAreExplained, Placed, contextVars
  <2>. QED
    BY <2>2, <2>3, <2>4
<1>2. ASSUME NEW n \in 1..Requested, Replace(n) PROVE SizesAreExplained'
  <2>1. /\ wanted' = [wanted EXCEPT ![cycle] = n] /\ UNCHANGED <<contextVars, size>>
        /\ stage = "wait" /\ call.op = "clear"
    BY <1>2 DEF Replace, Cleared, Answered, exchangeVars
  <2>2. Newest(current) /\ current < cycle /\ cycle \in Ids /\ current \in Ids
    BY <2>1 DEF IInv, TypeOK, LoopKnowsNewest
  <2>3. cycle \notin Placed
    BY <2>2 DEF Newest, Ids, Placed
  <2>4. \A p \in Placed : wanted'[p] = wanted[p] /\ size'[p] = size[p]
    BY <2>1, <2>3 DEF IInv, TypeOK, Placed
  <2>. QED
    BY <2>1, <2>4 DEF SizesAreExplained, Placed, contextVars
<1>3. CASE UNCHANGED <<contextVars, size, wanted>>
  BY <1>3, QuietKeepsSizes
<1>4. ASSUME NEW o \in Ids, ExchangeFills(o) \/ ExchangeCloses(o)
      PROVE  UNCHANGED <<contextVars, size, wanted>>
  BY <1>4 DEF ExchangeFills, ExchangeCloses, stateVars
<1>5. ASSUME AdapterAnswers \/ QueryStatus \/ RouterRestarts \/ LoopFails \/ UNCHANGED vars
      PROVE  UNCHANGED <<contextVars, size, wanted>>
  BY <1>5 DEF AdapterAnswers, QueryStatus, RouterRestarts, LoopFails, vars, exchangeVars, stateVars
<1>6. ASSUME OrderPlaced \/ StatusKnown \/ Keep \/ Amended \/ Cancelled \/ Replaced
      PROVE  UNCHANGED <<contextVars, size, wanted>>
  BY <1>6 DEF OrderPlaced, StatusKnown, Keep, Amended, Cancelled, Replaced, exchangeVars
<1>7. ASSUME NEW op \in {"amend", "cancel", "clear"}, Act(op)
      PROVE  UNCHANGED <<contextVars, size, wanted>>
  BY <1>7 DEF Act, exchangeVars, stateVars
<1>. QED
  BY <1>1, <1>2, <1>3, <1>4, <1>5, <1>6, <1>7 DEF Next, Loop

LEMMA BudgetInvariance == Spec => [](IInv /\ BInv /\ SizesAreExplained)
<1>1. Init => SizesAreExplained
  BY DEF Init, SizesAreExplained, Placed
<1>. QED
  BY <1>1, InitHolds, StepPreserves, BudgetInit, StepKeepsBudget, StepKeepsSizes, PTL DEF Spec

\* What the minimum and the quantity may add to an order, of those placed.
ByLot      == [o \in Ids |-> IF o \in Placed THEN LargerOf(0, Lot - wanted[o]) ELSE 0]
ByQuantity == [o \in Ids |->
    IF o \in Placed THEN LargerOf(0, quantity - LargerOf(Lot, wanted[o])) ELSE 0]

LEMMA LiftIsExplained ==
    ASSUME TypeOK, SizesAreExplained
    PROVE  /\ SumFunctionOnSet(Lift, Ids) <= Lifted + Repeated
           /\ Lifted \in Int /\ Repeated \in Int
<1>1. IsFiniteSet(Ids) /\ quantity \in Nat /\ Lot \in Nat
  BY AmountTypes, LoopAssumption DEF TypeOK
<1>2. ASSUME NEW o \in Ids
      PROVE  /\ Lift[o] \in Int /\ ByLot[o] \in Int /\ ByQuantity[o] \in Int
             /\ Lift[o] <= ByLot[o] + ByQuantity[o]
  <2>1. /\ size[o] \in Nat /\ wanted[o] \in Nat
        /\ Lift[o] = LargerOf(0, size[o] - wanted[o])
    BY AmountTypes, LoopAssumption DEF TypeOK
  <2>2. CASE o \in Placed
    <3>1. size[o] <= LargerOf(LargerOf(wanted[o], Lot), quantity)
      BY <2>2 DEF SizesAreExplained
    <3>2. /\ ByLot[o] = LargerOf(0, Lot - wanted[o])
          /\ ByQuantity[o] = LargerOf(0, quantity - LargerOf(Lot, wanted[o]))
      BY <2>2 DEF ByLot, ByQuantity
    <3>. QED
      BY <1>1, <2>1, <3>1, <3>2 DEF LargerOf
  <2>3. CASE o \notin Placed
    <3>1. size[o] = 0 /\ ByLot[o] = 0 /\ ByQuantity[o] = 0
      BY <2>1, <2>3 DEF Placed, ByLot, ByQuantity
    <3>. QED
      BY <2>1, <3>1 DEF LargerOf
  <2>. QED
    BY <2>2, <2>3
<1>3. Lifted = SumFunctionOnSet(ByLot, Ids) /\ Repeated = SumFunctionOnSet(ByQuantity, Ids)
  BY DEF Lifted, Repeated, ByLot, ByQuantity
<1>. HIDE DEF Lift, ByLot, ByQuantity
<1>4. \A o \in Ids : Lift[o] \in Int /\ ByLot[o] \in Int /\ ByQuantity[o] \in Int
  BY <1>2
<1>5. \A o \in Ids : Lift[o] <= ByLot[o] + ByQuantity[o]
  BY <1>2
<1>6. SumFunctionOnSet(Lift, Ids)
         <= SumFunctionOnSet(ByLot, Ids) + SumFunctionOnSet(ByQuantity, Ids)
  BY <1>1, <1>4, <1>5, SumBound
<1>7. SumFunctionOnSet(ByLot, Ids) \in Int /\ SumFunctionOnSet(ByQuantity, Ids) \in Int
  BY <1>1, <1>4, SumType
<1>. QED
  BY <1>3, <1>6, <1>7

\* A chain of replacements executes more than was requested only by what was
\* executed after the last recorded status of a replaced order, by the venue's
\* minimum, and by the client's quantity, sent again in full with every
\* replacement; no timing of fills, answers, timeouts and restarts adds
\* anything else (execution_router/main.py:1124-1125, 1172-1196, 1535-1546).
THEOREM OverfillBounded == Spec => []OverfillExplained
<1>1. IInv /\ BInv /\ SizesAreExplained => OverfillExplained
  <2>. SUFFICES ASSUME IInv, BInv, SizesAreExplained PROVE OverfillExplained
    OBVIOUS
  <2>. DEFINE o == current
              R == Ids \ {o}
  <2>1. TypeOK /\ o \in Ids /\ Budget(o)
    BY DEF IInv, BInv, TypeOK
  <2>2. IsFiniteSet(Ids) /\ IsFiniteSet(R)
    BY <2>1, AmountTypes
  <2>3. \A p \in Ids : /\ fill[p] \in Int /\ reported[p] \in Int /\ Unread[p] \in Int
                       /\ Lift[p] \in Int /\ fill[p] <= reported[p] + Unread[p]
    BY <2>1, AmountTypes
  <2>. HIDE DEF o
  <2>4. Executed = fill[o] + SumFunctionOnSet(fill, R)
    <3>1. \A p \in Ids : fill[p] \in Int
      BY <2>3
    <3>. QED
      BY <2>1, <2>2, <3>1, SumRemove DEF Executed
  <2>5. SumFunctionOnSet(Lift, Ids) = Lift[o] + LiftedBut(o)
    <3>1. \A p \in Ids : Lift[p] \in Int
      BY <2>3
    <3>. QED
      BY <2>1, <2>2, <3>1, SumRemove DEF LiftedBut
  <2>6. Unseen = SumFunctionOnSet(Unread, R)
    BY DEF Unseen, Unread, o
  <2>7. /\ SumFunctionOnSet(fill, R) <= SeenBut(o) + Unseen
        /\ SumFunctionOnSet(fill, R) \in Int /\ Unseen \in Int
    <3>1. /\ \A p \in R : fill[p] \in Int /\ reported[p] \in Int /\ Unread[p] \in Int
          /\ \A p \in R : fill[p] <= reported[p] + Unread[p]
      BY <2>3
    <3>. HIDE DEF R
    <3>2. SumFunctionOnSet(fill, R)
             <= SumFunctionOnSet(reported, R) + SumFunctionOnSet(Unread, R)
      BY <2>2, <3>1, SumBound
    <3>3. SumFunctionOnSet(fill, R) \in Int /\ SumFunctionOnSet(Unread, R) \in Int
      BY <2>2, <3>1, SumType
    <3>. QED
      BY <2>6, <3>2, <3>3 DEF SeenBut, R
  <2>8. fill[o] <= wanted[o] + Lift[o] /\ fill[o] \in Int /\ wanted[o] \in Int /\ Lift[o] \in Int
        /\ SeenBut(o) \in Int /\ LiftedBut(o) \in Int /\ Requested \in Int
    <3>1. /\ fill[o] <= size[o] /\ size[o] <= wanted[o] + Lift[o] /\ size[o] \in Int
          /\ fill[o] \in Int /\ wanted[o] \in Int /\ Lift[o] \in Int
          /\ SeenBut(o) \in Int /\ LiftedBut(o) \in Int /\ Requested \in Int
      BY <2>1, AmountTypes
    <3>. QED
      BY <3>1
  <2>9. SeenBut(o) + wanted[o] <= Requested + LiftedBut(o)
    BY <2>1 DEF Budget
  <2>10. Executed <= Requested + Unseen + SumFunctionOnSet(Lift, Ids)
    BY <2>4, <2>5, <2>7, <2>8, <2>9
  <2>11. /\ SumFunctionOnSet(Lift, Ids) <= Lifted + Repeated
         /\ Lifted \in Int /\ Repeated \in Int
    BY <2>1, LiftIsExplained
  <2>12. Executed \in Int /\ SumFunctionOnSet(Lift, Ids) \in Int
    BY <2>4, <2>5, <2>7, <2>8
  <2>. QED
    BY <2>7, <2>8, <2>10, <2>11, <2>12 DEF OverfillExplained
<1>. QED
  BY <1>1, BudgetInvariance, PTL
=============================================================================
