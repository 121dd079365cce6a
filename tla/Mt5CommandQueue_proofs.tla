----------------------- MODULE Mt5CommandQueue_proofs -----------------------
(***************************************************************************)
(* What holds of the command table for any number of commands and EAs and  *)
(* any lease, time to live and poll limit.                                 *)
(***************************************************************************)
EXTENDS Mt5CommandQueue, FiniteSetTheorems, TLAPS

\* While a command can still be dispatched, each dispatch so far has used a
\* lease of its time to live, except for what is left of the last one.
LeaseBudget ==
    \A c \in Commands : (status[c] \in Pending /\ ttl[c] > 0)
        => handed[c] * Lease <= (Ttl - ttl[c]) + lease[c]

\* No dispatch begins once the time to live is used up.
LastLease ==
    \A c \in Commands : handed[c] > 0 => (handed[c] - 1) * Lease < Ttl

\* Copies are dispatched, held, executed, never made up.
CopiesAccounted == \A c \in Commands : fills[c] + inbox[c] <= handed[c]

\* A ticket exists only for an executed order, wherever it is quoted.
TicketsAreReal ==
    /\ \A r \in results : r.ticket => fills[r.cmd] > 0
    /\ \A c \in Commands : status[c] = "executed" => fills[c] > 0
    /\ \A c \in Commands : waiter[c] = "filled" => fills[c] > 0

\* A row is dispatched and awaited only after it was written.
RowsFirst ==
    \A c \in Commands :
        /\ status[c] = "absent" => handed[c] = 0 /\ waiter[c] \in {"idle", "refused"}
        /\ waiter[c] = "idle" => status[c] = "absent"

IInv == /\ TypeOK
        /\ LeaseBudget
        /\ LastLease
        /\ CopiesAccounted
        /\ TicketsAreReal
        /\ RowsFirst

\* A new row ranks behind every row there is, and only a dispatch leases a row.
QueueIsFifo ==
    /\ \A c \in Rows : rank[c] < Cardinality(Rows)
    /\ \A c \in Commands : handed[c] = 0 => lease[c] = 0

OrderInv == QueueIsFifo /\ FirstDispatchInOrder

-----------------------------------------------------------------------------

\* Adding one dispatch adds one lease to the time that was leased.
LEMMA OneMoreLease ==
    ASSUME NEW n \in Nat, NEW l \in Nat
    PROVE  (n + 1) * l = n * l + l /\ (n + 1) - 1 = n /\ n * l \in Nat
  OBVIOUS

\* A poll only leases commands that are pending, not leased and not overdue.
LEMMA BatchIsDue ==
    ASSUME NEW cl, NEW c \in Batch(cl)
    PROVE  /\ c \in Commands /\ status[c] \in Pending
           /\ ttl[c] > 0 /\ lease[c] = 0
  BY DEF Batch, Due

\* The position of a new row is a number.
LEMMA RankType == Cardinality(Rows) \in Nat
  <1>1. Rows \subseteq Commands
    BY DEF Rows
  <1>2. IsFiniteSet(Commands)
    BY QueueAssumption
  <1>3. IsFiniteSet(Rows)
    BY <1>1, <1>2, FS_Subset
  <1> QED
    BY <1>3, FS_CardinalityType

\* Every result leads to a final status, and to "executed" only with a ticket.
LEMMA NextStatusIsFinal ==
    ASSUME NEW r \in Result
    PROVE  /\ NextStatus(r) \in Terminal
           /\ NextStatus(r) = "executed" => r.ticket
  BY DEF NextStatus, Result, Terminal, Words

\* The reports of the EA are results the handler can read.
LEMMA ReportTypes ==
    ASSUME NEW c \in Commands
    PROVE  /\ \A r \in ExecutionReports(c) : r \in Result /\ r.cmd = c
           /\ \A r \in RefusalReports(c) : r \in Result /\ r.cmd = c /\ ~r.ticket
  <1>1. ASSUME NEW r \in ExecutionReports(c) PROVE r \in Result /\ r.cmd = c
    <2> PICK w \in {"ok", "other"} : r = [cmd |-> c, ticket |-> TRUE, word |-> w]
      BY DEF ExecutionReports
    <2> QED
      BY DEF Result, Words
  <1>2. ASSUME NEW r \in RefusalReports(c) PROVE r \in Result /\ r.cmd = c /\ ~r.ticket
    <2> PICK w \in RefusalWords : r = [cmd |-> c, ticket |-> FALSE, word |-> w]
      BY DEF RefusalReports
    <2>1. w \in Words
      BY QueueAssumption
    <2> QED
      BY <2>1 DEF Result
  <1> QED
    BY <1>1, <1>2

-----------------------------------------------------------------------------

LEMMA InitIInv == Init => IInv
  <1> SUFFICES ASSUME Init PROVE IInv
    OBVIOUS
  <1> USE QueueAssumption DEF Init
  <1>1. TypeOK
    BY DEF TypeOK, Statuses, Waiters, Result
  <1>2. LeaseBudget /\ LastLease /\ CopiesAccounted
    BY DEF LeaseBudget, LastLease, CopiesAccounted, Pending
  <1>3. TicketsAreReal /\ RowsFirst
    BY DEF TicketsAreReal, RowsFirst
  <1> QED
    BY <1>1, <1>2, <1>3 DEF IInv

LEMMA TypeStep == TypeOK /\ [Next]_vars => TypeOK'
  <1> SUFFICES ASSUME TypeOK, [Next]_vars PROVE TypeOK'
    OBVIOUS
  <1> USE QueueAssumption DEF TypeOK, Statuses, Waiters, Pending, Terminal
  <1>1. ASSUME NEW c \in Commands, Handler(c) PROVE TypeOK'
    <2>1. CASE FilterOrderRefused(c)
      BY <2>1 DEF FilterOrderRefused
    <2>2. CASE EnqueueOrderCommand(c)
      BY <2>2, RankType DEF EnqueueOrderCommand
    <2>3. CASE WaitSeesResult(c)
      BY <2>3 DEF WaitSeesResult
    <2>4. CASE WaitTimesOut(c)
      BY <2>4 DEF WaitTimesOut
    <2> QED
      BY <1>1, <2>1, <2>2, <2>3, <2>4 DEF Handler
  <1>2. CASE Poll
    <2> PICK cl \in Clients \cup {Anonymous}, lost \in BOOLEAN : PollCommands(cl, lost)
      BY <1>2 DEF Poll
    <2> QED
      BY DEF PollCommands
  <1>3. ASSUME NEW r \in results, NEW keep \in BOOLEAN, CommandResult(r, keep)
        PROVE  TypeOK'
    <2>1. r \in Result
      OBVIOUS
    <2> QED
      BY <1>3, <2>1, NextStatusIsFinal DEF CommandResult, Result
  <1>4. ASSUME NEW c \in Commands, EaExecutes(c) PROVE TypeOK'
    <2>1. results' \subseteq Result
      BY <1>4, ReportTypes DEF EaExecutes
    <2>2. inbox' \in [Commands -> Nat] /\ fills' \in [Commands -> Nat]
      BY <1>4 DEF EaExecutes, TakeCopy
    <2> QED
      BY <1>4, <2>1, <2>2 DEF EaExecutes
  <1>5. ASSUME NEW c \in Commands, EaRefuses(c) PROVE TypeOK'
    <2>1. results' \subseteq Result
      BY <1>5, ReportTypes DEF EaRefuses
    <2>2. inbox' \in [Commands -> Nat]
      BY <1>5 DEF EaRefuses, TakeCopy
    <2> QED
      BY <1>5, <2>1, <2>2 DEF EaRefuses
  <1>6. CASE EaRestarts
    BY <1>6 DEF EaRestarts
  <1>7. CASE Tick
    BY <1>7 DEF Tick, Less
  <1>8. CASE UNCHANGED vars
    BY <1>8 DEF vars
  <1> QED
    BY <1>1, <1>2, <1>3, <1>4, <1>5, <1>6, <1>7, <1>8 DEF Next

\* The column types, for any constants: a status is one the CHECK constraint of
\* the table allows, a lease or deadline never goes below zero.
THEOREM TypeCorrect == Spec => []TypeOK
  <1>1. Init => TypeOK
    BY InitIInv DEF IInv
  <1> QED
    BY <1>1, TypeStep, PTL DEF Spec
-----------------------------------------------------------------------------
(* The inductive invariant, one part at a time.  In each lemma the steps are *)
(* the operations that touch the variables of that part.                     *)

\* The steps of the handler, the EA and the clock, for case splits.
LEMMA StepCases ==
    ASSUME [Next]_vars
    PROVE  \/ \E c \in Commands : Handler(c)
           \/ \E cl \in Clients \cup {Anonymous}, lost \in BOOLEAN : PollCommands(cl, lost)
           \/ \E r \in results, keep \in BOOLEAN : CommandResult(r, keep)
           \/ \E c \in Commands : EaExecutes(c)
           \/ \E c \in Commands : EaRefuses(c)
           \/ EaRestarts
           \/ Tick
           \/ UNCHANGED vars
  BY DEF Next, Poll

LEMMA LeaseStep == IInv /\ [Next]_vars => LeaseBudget' /\ LastLease'
  <1> SUFFICES ASSUME IInv, [Next]_vars, NEW d \in Commands
               PROVE  /\ (status'[d] \in Pending /\ ttl'[d] > 0)
                            => handed'[d] * Lease <= (Ttl - ttl'[d]) + lease'[d]
                      /\ handed'[d] > 0 => (handed'[d] - 1) * Lease < Ttl
    BY DEF LeaseBudget, LastLease
  <1> DEFINE Goal == /\ (status'[d] \in Pending /\ ttl'[d] > 0)
                            => handed'[d] * Lease <= (Ttl - ttl'[d]) + lease'[d]
                     /\ handed'[d] > 0 => (handed'[d] - 1) * Lease < Ttl
  <1>t. /\ ttl[d] \in 0..Ttl /\ lease[d] \in 0..Lease /\ handed[d] \in Nat
        /\ Ttl \in Nat /\ Lease \in Nat /\ DOMAIN status = Commands
        /\ status \in [Commands -> Statuses]
        /\ ttl \in [Commands -> 0..Ttl] /\ lease \in [Commands -> 0..Lease]
    BY QueueAssumption DEF IInv, TypeOK
  <1>i. /\ (status[d] \in Pending /\ ttl[d] > 0)
               => handed[d] * Lease <= (Ttl - ttl[d]) + lease[d]
        /\ handed[d] > 0 => (handed[d] - 1) * Lease < Ttl
        /\ status[d] = "absent" => handed[d] = 0
    BY DEF IInv, LeaseBudget, LastLease, RowsFirst
  <1>m. /\ (handed[d] + 1) * Lease = handed[d] * Lease + Lease
        /\ (handed[d] + 1) - 1 = handed[d]
        /\ handed[d] * Lease \in Nat
    BY <1>t, OneMoreLease
  <1>1. ASSUME NEW c \in Commands, Handler(c) PROVE Goal
    <2>1. CASE EnqueueOrderCommand(c)
      <3>1. CASE d = c
        <4>1. handed'[d] = 0 /\ ttl'[d] = Ttl /\ lease'[d] = lease[d]
          BY <2>1, <3>1, <1>i, <1>t DEF EnqueueOrderCommand
        <4>2. 0 * Lease = 0
          BY <1>t
        <4> QED
          BY <4>1, <4>2, <1>t
      <3>2. CASE d # c
        <4>1. handed'[d] = handed[d] /\ ttl'[d] = ttl[d] /\ lease'[d] = lease[d]
              /\ status'[d] = status[d]
          BY <2>1, <3>2 , <1>t DEF EnqueueOrderCommand
        <4> QED
          BY <4>1, <1>i
      <3> QED
        BY <3>1, <3>2
    <2>2. CASE UNCHANGED <<status, ttl, lease, handed>>
      BY <2>2, <1>i
    <2> QED
      BY <1>1, <2>1, <2>2
      DEF Handler, FilterOrderRefused, WaitSeesResult, WaitTimesOut
  <1>2. ASSUME NEW cl \in Clients \cup {Anonymous}, NEW lost \in BOOLEAN,
               PollCommands(cl, lost)
        PROVE  Goal
    <2>1. CASE d \in Batch(cl)
      <3>1. status[d] \in Pending /\ ttl[d] > 0 /\ lease[d] = 0
        BY <2>1, BatchIsDue
      <3>2. handed'[d] = handed[d] + 1 /\ lease'[d] = Lease /\ ttl'[d] = ttl[d]
        BY <1>2, <2>1 DEF PollCommands
      <3>3. handed[d] * Lease <= Ttl - ttl[d]
        BY <3>1, <1>i, <1>t, <1>m
      <3>4. (handed[d] + 1) * Lease <= (Ttl - ttl[d]) + Lease
        BY <3>3, <1>m, <1>t
      <3>5. (handed'[d] - 1) * Lease < Ttl
        BY <3>1, <3>2, <3>3, <1>m, <1>t
      <3> QED
        BY <3>2, <3>4, <3>5
    <2>2. CASE d \notin Batch(cl)
      <3>1. /\ handed'[d] = handed[d] /\ lease'[d] = lease[d] /\ ttl'[d] = ttl[d]
            /\ status'[d] = status[d] \/ status'[d] = "expired"
        BY <1>2, <2>2 DEF PollCommands
      <3> QED
        BY <3>1, <1>i DEF Pending
    <2> QED
      BY <2>1, <2>2
  <1>3. ASSUME NEW r \in results, NEW keep \in BOOLEAN, CommandResult(r, keep)
        PROVE  Goal
    <2>1. r \in Result
      BY DEF IInv, TypeOK
    <2>2. NextStatus(r) \in Terminal
      BY <2>1, NextStatusIsFinal
    <2>3. handed' = handed /\ ttl' = ttl
      BY <1>3 DEF CommandResult
    <2>4. \/ status'[d] \in Terminal
          \/ status'[d] = status[d] /\ lease'[d] = lease[d]
      BY <1>3, <2>2, <1>t DEF CommandResult
    <2> QED
      BY <2>3, <2>4, <1>i DEF Pending, Terminal
  <1>4. CASE Tick
    <2>1. /\ ttl'[d] = Less(ttl[d]) /\ lease'[d] = Less(lease[d])
          /\ handed' = handed /\ status' = status
      BY <1>4 DEF Tick
    <2>2. ttl'[d] > 0 => /\ ttl[d] > 0
                         /\ (Ttl - ttl[d]) + lease[d] <= (Ttl - ttl'[d]) + lease'[d]
      BY <2>1, <1>t DEF Less
    <2>3. ttl'[d] \in Int /\ lease'[d] \in Int
      BY <2>1, <1>t DEF Less
    <2> QED
      BY <2>1, <2>2, <2>3, <1>i, <1>t, <1>m
  <1>5. CASE UNCHANGED <<status, ttl, lease, handed>>
    BY <1>5, <1>i
  <1>6. (\E c \in Commands : EaExecutes(c) \/ EaRefuses(c)) \/ EaRestarts \/ UNCHANGED vars
            => UNCHANGED <<status, ttl, lease, handed>>
    BY DEF EaExecutes, EaRefuses, EaRestarts, vars
  <1> QED
    BY <1>1, <1>2, <1>3, <1>4, <1>5, <1>6, StepCases

LEMMA CopiesStep == IInv /\ [Next]_vars => CopiesAccounted'
  <1> SUFFICES ASSUME IInv, [Next]_vars, NEW d \in Commands
               PROVE  fills'[d] + inbox'[d] <= handed'[d]
    BY DEF CopiesAccounted
  <1> DEFINE Goal == fills'[d] + inbox'[d] <= handed'[d]
  <1>t. /\ fills \in [Commands -> Nat] /\ inbox \in [Commands -> Nat]
        /\ handed \in [Commands -> Nat] /\ fills[d] + inbox[d] <= handed[d]
    BY DEF IInv, TypeOK, CopiesAccounted
  <1>1. ASSUME NEW cl \in Clients \cup {Anonymous}, NEW lost \in BOOLEAN,
               PollCommands(cl, lost)
        PROVE  Goal
    <2>1. /\ fills' = fills
          /\ \/ handed'[d] = handed[d] + 1 /\ inbox'[d] \in {inbox[d], inbox[d] + 1}
             \/ handed'[d] = handed[d] /\ inbox'[d] = inbox[d]
      BY <1>1 DEF PollCommands
    <2> QED
      BY <2>1, <1>t
  <1>2. ASSUME NEW c \in Commands, EaExecutes(c)
        PROVE  Goal
    BY <1>2, <1>t DEF EaExecutes, TakeCopy
  <1>3. ASSUME NEW c \in Commands, EaRefuses(c)
        PROVE  Goal
    BY <1>3, <1>t DEF EaRefuses, TakeCopy
  <1>4. CASE EaRestarts
    BY <1>4, <1>t DEF EaRestarts
  <1>5. CASE UNCHANGED <<fills, inbox, handed>>
    BY <1>5, <1>t
  <1>6. (\/ \E c \in Commands : Handler(c)
         \/ \E r \in results, keep \in BOOLEAN : CommandResult(r, keep)
         \/ Tick
         \/ UNCHANGED vars) => UNCHANGED <<fills, inbox, handed>>
    BY DEF Handler, FilterOrderRefused, EnqueueOrderCommand, WaitSeesResult,
           WaitTimesOut, CommandResult, Tick, vars
  <1> QED
    BY <1>1, <1>2, <1>3, <1>4, <1>5, <1>6, StepCases

\* The broker's count of executions of an order never goes down.
LEMMA FillsGrow ==
    ASSUME TypeOK, [Next]_vars, NEW c \in Commands
    PROVE  /\ fills[c] \in Nat /\ fills'[c] \in Nat
           /\ fills[c] > 0 => fills'[c] > 0
  <1>t. fills \in [Commands -> Nat]
    BY DEF TypeOK
  <1>1. ASSUME NEW d \in Commands, EaExecutes(d)
        PROVE  fills' = [fills EXCEPT ![d] = @ + 1]
    BY <1>1 DEF EaExecutes
  <1>2. fills' = fills \/ \E d \in Commands : EaExecutes(d)
    BY StepCases
    DEF Handler, FilterOrderRefused, EnqueueOrderCommand, WaitSeesResult,
        WaitTimesOut, PollCommands, CommandResult, EaRefuses, EaRestarts, Tick, vars
  <1> QED
    BY <1>t, <1>1, <1>2

LEMMA TicketsStep == IInv /\ [Next]_vars => TicketsAreReal'
  <1> SUFFICES ASSUME IInv, [Next]_vars PROVE TicketsAreReal'
    OBVIOUS
  <1> USE DEF TypeOK
  <1>t. TypeOK /\ TicketsAreReal
    BY DEF IInv
  <1>g. \A c \in Commands : fills[c] > 0 => fills'[c] > 0
    BY <1>t, FillsGrow
  <1>1. ASSUME NEW r \in results', r.ticket PROVE fills'[r.cmd] > 0
    <2>1. CASE r \in results
      BY <2>1, <1>1, <1>t, <1>g DEF TicketsAreReal, Result
    <2>2. CASE r \notin results
      <3>1. PICK c \in Commands : EaExecutes(c) \/ EaRefuses(c)
        BY <2>2, StepCases
        DEF Handler, FilterOrderRefused, EnqueueOrderCommand, WaitSeesResult,
            WaitTimesOut, PollCommands, CommandResult, EaRestarts, Tick, vars
      <3>2. CASE EaExecutes(c)
        <4>1. r \in ExecutionReports(c)
          BY <3>2, <2>2 DEF EaExecutes
        <4>2. r.cmd = c
          BY <4>1, ReportTypes
        <4>3. fills'[c] > 0
          BY <3>2, <1>t DEF EaExecutes
        <4> QED
          BY <4>2, <4>3
      <3>3. CASE EaRefuses(c)
        <4>1. r \in RefusalReports(c)
          BY <3>3, <2>2 DEF EaRefuses
        <4> QED
          BY <4>1, <1>1, ReportTypes
      <3> QED
        BY <3>1, <3>2, <3>3
    <2> QED
      BY <2>1, <2>2
  <1>2. ASSUME NEW c \in Commands, status'[c] = "executed" PROVE fills'[c] > 0
    <2>1. CASE status[c] = "executed"
      BY <2>1, <1>t, <1>g DEF TicketsAreReal
    <2>2. ASSUME NEW r \in results, NEW keep \in BOOLEAN, CommandResult(r, keep),
                 status[c] # "executed"
          PROVE  fills'[c] > 0
      <3>1. r \in Result
        BY <1>t
      <3>2. r.cmd = c /\ NextStatus(r) = "executed"
        BY <2>2, <1>2, <1>t, <3>1 DEF CommandResult, Result
      <3>3. r.ticket
        BY <3>1, <3>2, NextStatusIsFinal
      <3> QED
        BY <3>2, <3>3, <1>t, <1>g DEF TicketsAreReal
    <2>3. status'[c] = "executed" /\ status[c] # "executed"
             => \E r \in results, keep \in BOOLEAN : CommandResult(r, keep)
      BY <1>t, StepCases
      DEF Handler, FilterOrderRefused, EnqueueOrderCommand, WaitSeesResult,
          WaitTimesOut, PollCommands, EaExecutes, EaRefuses, EaRestarts, Tick, vars
    <2> QED
      BY <1>2, <2>1, <2>2, <2>3
  <1>3. ASSUME NEW c \in Commands, waiter'[c] = "filled" PROVE fills'[c] > 0
    <2>1. waiter[c] = "filled" \/ status[c] = "executed"
      BY <1>3, <1>t, StepCases
      DEF Handler, FilterOrderRefused, EnqueueOrderCommand, WaitSeesResult, WaitTimesOut,
          PollCommands, CommandResult, EaExecutes, EaRefuses, EaRestarts, Tick, vars
    <2> QED
      BY <2>1, <1>t, <1>g DEF TicketsAreReal
  <1> QED
    BY <1>1, <1>2, <1>3 DEF TicketsAreReal

LEMMA RowsStep == IInv /\ [Next]_vars => RowsFirst'
  <1> SUFFICES ASSUME IInv, [Next]_vars, NEW d \in Commands
               PROVE  /\ status'[d] = "absent" =>
                            handed'[d] = 0 /\ waiter'[d] \in {"idle", "refused"}
                      /\ waiter'[d] = "idle" => status'[d] = "absent"
    BY DEF RowsFirst
  <1> DEFINE Goal == /\ status'[d] = "absent" =>
                            handed'[d] = 0 /\ waiter'[d] \in {"idle", "refused"}
                     /\ waiter'[d] = "idle" => status'[d] = "absent"
  <1>t. /\ TypeOK
        /\ status[d] = "absent" => handed[d] = 0 /\ waiter[d] \in {"idle", "refused"}
        /\ waiter[d] = "idle" => status[d] = "absent"
    BY DEF IInv, RowsFirst
  <1>1. ASSUME NEW c \in Commands, Handler(c) PROVE Goal
    BY <1>1, <1>t DEF TypeOK, Handler, FilterOrderRefused, EnqueueOrderCommand,
                      WaitSeesResult, WaitTimesOut, Terminal
  <1>2. ASSUME NEW cl \in Clients \cup {Anonymous}, NEW lost \in BOOLEAN,
               PollCommands(cl, lost)
        PROVE  Goal
    <2>1. CASE d \in Batch(cl) \cup Overdue
      <3>1. status[d] \in Pending
        BY <2>1, BatchIsDue DEF Overdue
      <3>2. status'[d] \in {"inflight", "expired"} /\ waiter' = waiter
        BY <1>2, <2>1 DEF PollCommands
      <3> QED
        BY <3>1, <3>2, <1>t DEF Pending
    <2>2. CASE d \notin Batch(cl) \cup Overdue
      BY <1>2, <2>2, <1>t DEF PollCommands
    <2> QED
      BY <2>1, <2>2
  <1>3. ASSUME NEW r \in results, NEW keep \in BOOLEAN, CommandResult(r, keep)
        PROVE  Goal
    <2>1. r \in Result
      BY <1>t DEF TypeOK
    <2>2. NextStatus(r) # "absent"
      BY <2>1, NextStatusIsFinal DEF Terminal
    <2> QED
      BY <1>3, <2>1, <2>2, <1>t DEF TypeOK, CommandResult, Result
  <1>4. CASE UNCHANGED <<status, handed, waiter>>
    BY <1>4, <1>t
  <1>5. (\E c \in Commands : EaExecutes(c) \/ EaRefuses(c)) \/ EaRestarts \/ Tick
           \/ UNCHANGED vars => UNCHANGED <<status, handed, waiter>>
    BY DEF EaExecutes, EaRefuses, EaRestarts, Tick, vars
  <1> QED
    BY <1>1, <1>2, <1>3, <1>4, <1>5, StepCases

LEMMA Invariance == Spec => []IInv
  <1>1. IInv /\ [Next]_vars => IInv'
    BY TypeStep, LeaseStep, CopiesStep, TicketsStep, RowsStep DEF IInv
  <1> QED
    BY InitIInv, <1>1, PTL DEF Spec

-----------------------------------------------------------------------------

\* A caller told "filled" has an executed order: for any number of orders, EAs
\* and reports (main.py:1489-1573, 598-612).
THEOREM AnswersAreTruthful == Spec => []TruthfulAnswer
  <1>1. IInv => TruthfulAnswer
    BY DEF IInv, TicketsAreReal, TruthfulAnswer
  <1> QED
    BY Invariance, <1>1, PTL

\* One command is executed at most as often as leases begin within its time to
\* live, for any lease and any time to live (main.py:1427-1445).
THEOREM DispatchesAreBounded == Spec => []DeliveryBound
  <1>1. IInv => DeliveryBound
    BY DEF IInv, TypeOK, CopiesAccounted, LastLease, DeliveryBound
  <1> QED
    BY Invariance, <1>1, PTL

\* A late or repeated result may overwrite one final status with another, but no
\* sequence of polls and results puts a closed command back into the queue
\* (main.py:1421-1445, 1528-1548).
THEOREM ClosedStaysClosed == Spec => ClosedForGood
  <1>1. IInv /\ [Next]_vars
           => [\A c \in Commands : status[c] \in Terminal =>
                  status'[c] \in Terminal /\ handed'[c] = handed[c]]_vars
    <2> SUFFICES ASSUME IInv, [Next]_vars,
                        NEW d \in Commands, status[d] \in Terminal
                 PROVE  status'[d] \in Terminal /\ handed'[d] = handed[d]
      OBVIOUS
    <2> USE DEF IInv, TypeOK, Terminal
    <2>1. ASSUME NEW c \in Commands, Handler(c)
          PROVE  status'[d] = status[d] /\ handed'[d] = handed[d]
      BY <2>1 DEF Handler, FilterOrderRefused, EnqueueOrderCommand, WaitSeesResult,
                  WaitTimesOut
    <2>2. ASSUME NEW cl \in Clients \cup {Anonymous}, NEW lost \in BOOLEAN,
                 PollCommands(cl, lost)
          PROVE  status'[d] = status[d] /\ handed'[d] = handed[d]
      <3>1. d \notin Batch(cl) /\ d \notin Overdue
        BY BatchIsDue DEF Overdue, Pending
      <3> QED
        BY <2>2, <3>1 DEF PollCommands
    <2>3. ASSUME NEW r \in results, NEW keep \in BOOLEAN, CommandResult(r, keep)
          PROVE  status'[d] \in Terminal /\ handed'[d] = handed[d]
      <3>1. r \in Result /\ NextStatus(r) \in Terminal
        BY NextStatusIsFinal
      <3> QED
        BY <2>3, <3>1 DEF CommandResult
    <2>4. (\E c \in Commands : EaExecutes(c) \/ EaRefuses(c)) \/ EaRestarts \/ Tick
             \/ UNCHANGED vars => UNCHANGED <<status, handed>>
      BY DEF EaExecutes, EaRefuses, EaRestarts, Tick, vars
    <2> QED
      BY <2>1, <2>2, <2>3, <2>4, StepCases
  <1> QED
    BY <1>1, Invariance, PTL DEF Spec, ClosedForGood

-----------------------------------------------------------------------------
(* The order of first dispatches.  A poll takes the oldest of the rows that  *)
(* are due, so a row it takes leaves no older row of the same client behind  *)
(* that was never dispatched: such a row is not leased, and so it is due as  *)
(* well, or overdue and closed by the same poll.                             *)

\* Of two due rows a poll that takes the younger takes the older too.
LEMMA OldestFirst ==
    ASSUME TypeOK, NEW cl, NEW c \in Batch(cl), NEW d \in Due(cl), rank[d] < rank[c]
    PROVE  d \in Batch(cl)
<1>. DEFINE Before(x) == {e \in Due(cl) : rank[e] < rank[x]}
<1>1. Before(d) \in SUBSET Before(c)
  <2>. SUFFICES ASSUME NEW e \in Due(cl), rank[e] < rank[d] PROVE rank[e] < rank[c]
    OBVIOUS
  <2>. QED
    BY DEF TypeOK, Batch, Due
<1>2. IsFiniteSet(Before(c))
  BY QueueAssumption, FS_Subset DEF Due
<1>3. /\ Cardinality(Before(d)) <= Cardinality(Before(c))
      /\ Cardinality(Before(d)) \in Nat /\ Cardinality(Before(c)) \in Nat
  BY <1>1, <1>2, FS_Subset, FS_CardinalityType
<1>4. Cardinality(Before(c)) < Limit
  BY DEF Batch
<1>5. Cardinality(Before(d)) < Limit
  BY <1>3, <1>4, QueueAssumption
<1>. QED
  BY <1>5 DEF Batch

\* Writing a row makes the table one row longer.
LEMMA OneMoreRow ==
    ASSUME TypeOK, NEW e \in Commands, EnqueueOrderCommand(e)
    PROVE  /\ Rows' = Rows \cup {e} /\ e \notin Rows
           /\ Cardinality(Rows') = Cardinality(Rows) + 1
<1>1. Rows' = Rows \cup {e} /\ e \notin Rows
  BY DEF Rows, EnqueueOrderCommand, TypeOK
<1>2. Rows \in SUBSET Commands
  BY DEF Rows
<1>3. IsFiniteSet(Rows)
  BY <1>2, FS_Subset, QueueAssumption
<1>. QED
  BY <1>1, <1>3, FS_AddElement

\* Nothing else adds a row, removes one or changes its rank, and a closed row
\* stays closed.
LEMMA RowsStay ==
    ASSUME IInv, [Next]_vars, \A e \in Commands : ~EnqueueOrderCommand(e)
    PROVE  /\ Rows' = Rows /\ rank' = rank
           /\ \A c \in Commands : status[c] \in Terminal => status'[c] \in Terminal
<1>. USE DEF IInv, TypeOK
<1>1. ASSUME NEW c \in Commands, Handler(c) PROVE status' = status /\ rank' = rank
  BY <1>1 DEF Handler, FilterOrderRefused, WaitSeesResult, WaitTimesOut
<1>2. ASSUME NEW cl \in Clients \cup {Anonymous}, NEW lost \in BOOLEAN, PollCommands(cl, lost)
      PROVE  /\ Rows' = Rows /\ rank' = rank
             /\ \A c \in Commands : status[c] \in Terminal => status'[c] \in Terminal
  <2>1. rank' = rank
    BY <1>2 DEF PollCommands
  <2>2. ASSUME NEW c \in Commands
        PROVE  /\ status'[c] = "absent" <=> status[c] = "absent"
               /\ status[c] \in Terminal => status'[c] \in Terminal
    BY <1>2, BatchIsDue DEF PollCommands, Overdue, Pending, Terminal
  <2>. QED
    BY <2>1, <2>2 DEF Rows
<1>3. ASSUME NEW r \in results, NEW keep \in BOOLEAN, CommandResult(r, keep)
      PROVE  /\ Rows' = Rows /\ rank' = rank
             /\ \A c \in Commands : status[c] \in Terminal => status'[c] \in Terminal
  <2>1. r \in Result /\ r.cmd \in Commands /\ NextStatus(r) \in Terminal
    BY NextStatusIsFinal DEF Result
  <2>2. rank' = rank /\ status' = [status EXCEPT ![r.cmd] = NextStatus(r)]
        /\ status[r.cmd] # "absent"
    BY <1>3 DEF CommandResult
  <2>. QED
    BY <2>1, <2>2 DEF Rows, Terminal
<1>4. (\E c \in Commands : EaExecutes(c) \/ EaRefuses(c)) \/ EaRestarts \/ Tick
         \/ UNCHANGED vars => status' = status /\ rank' = rank
  BY DEF EaExecutes, EaRefuses, EaRestarts, Tick, vars
<1>. QED
  BY <1>1, <1>2, <1>3, <1>4, StepCases DEF Rows

\* Only a poll changes how often a row was dispatched.
LEMMA OnlyPollsDispatch ==
    ASSUME [Next]_vars
    PROVE  \/ handed' = handed
           \/ \E cl \in Clients \cup {Anonymous}, lost \in BOOLEAN : PollCommands(cl, lost)
BY StepCases
   DEF Handler, FilterOrderRefused, EnqueueOrderCommand, WaitSeesResult, WaitTimesOut,
       CommandResult, EaExecutes, EaRefuses, EaRestarts, Tick, vars

LEMMA InitOrder == Init => OrderInv
BY DEF Init, OrderInv, QueueIsFifo, FirstDispatchInOrder, Rows

LEMMA FifoStep == IInv /\ OrderInv /\ [Next]_vars => QueueIsFifo'
<1>. SUFFICES ASSUME IInv, OrderInv, [Next]_vars PROVE QueueIsFifo'
  OBVIOUS
<1>1. \A c \in Rows' : rank'[c] < Cardinality(Rows')
  <2>1. ASSUME NEW e \in Commands, EnqueueOrderCommand(e)
        PROVE  \A c \in Rows' : rank'[c] < Cardinality(Rows')
    <3>1. /\ Rows' = Rows \cup {e} /\ e \notin Rows
          /\ Cardinality(Rows') = Cardinality(Rows) + 1 /\ Cardinality(Rows) \in Nat
      BY <2>1, OneMoreRow, RankType DEF IInv
    <3>2. rank' = [rank EXCEPT ![e] = Cardinality(Rows)]
      BY <2>1 DEF EnqueueOrderCommand
    <3>3. \A c \in Rows : c \in Commands /\ rank[c] \in Nat /\ rank[c] < Cardinality(Rows)
      BY DEF OrderInv, QueueIsFifo, Rows, IInv, TypeOK
    <3>. QED
      BY <3>1, <3>2, <3>3 DEF IInv, TypeOK
  <2>2. CASE \A e \in Commands : ~EnqueueOrderCommand(e)
    BY <2>2, RowsStay DEF OrderInv, QueueIsFifo
  <2>. QED
    BY <2>1, <2>2
<1>2. ASSUME NEW c \in Commands, handed'[c] = 0 PROVE lease'[c] = 0
  <2>t. handed[c] \in Nat /\ (handed[c] = 0 => lease[c] = 0)
    BY DEF IInv, TypeOK, OrderInv, QueueIsFifo
  <2>1. ASSUME NEW cl \in Clients \cup {Anonymous}, NEW lost \in BOOLEAN, PollCommands(cl, lost)
        PROVE  lease'[c] = 0
    BY <1>2, <2>1, <2>t DEF PollCommands
  <2>2. CASE handed' = handed
    <3>1. lease'[c] = lease[c] \/ lease'[c] = 0 \/ lease'[c] = Less(lease[c])
              \/ \E cl \in Clients \cup {Anonymous}, lost \in BOOLEAN : PollCommands(cl, lost)
      BY StepCases
      DEF IInv, TypeOK, Handler, FilterOrderRefused, EnqueueOrderCommand, WaitSeesResult,
          WaitTimesOut, CommandResult, EaExecutes, EaRefuses, EaRestarts, Tick, vars
    <3>. QED
      BY <1>2, <2>1, <2>2, <2>t, <3>1 DEF Less
  <2>. QED
    BY <2>1, <2>2, OnlyPollsDispatch
<1>. QED
  BY <1>1, <1>2 DEF QueueIsFifo

LEMMA OrderStep == IInv /\ OrderInv /\ [Next]_vars => FirstDispatchInOrder'
<1>. SUFFICES ASSUME IInv, OrderInv, [Next]_vars,
                     NEW c \in Rows', NEW d \in Rows',
                     Owner[c] = Owner[d], rank'[d] < rank'[c], handed'[c] > 0
              PROVE  handed'[d] > 0 \/ status'[d] \in Terminal
  BY DEF FirstDispatchInOrder
<1>t. /\ c \in Commands /\ d \in Commands
      /\ status \in [Commands -> Statuses] /\ handed \in [Commands -> Nat]
      /\ rank \in [Commands -> Nat] /\ ttl \in [Commands -> 0..Ttl]
      /\ \A e \in Commands : status[e] = "absent" => handed[e] = 0
  BY DEF Rows, IInv, TypeOK, RowsFirst
<1>i. ASSUME c \in Rows, d \in Rows, rank[d] < rank[c], handed[c] > 0
      PROVE  handed[d] > 0 \/ status[d] \in Terminal
  BY <1>i DEF OrderInv, FirstDispatchInOrder
<1>1. ASSUME NEW e \in Commands, EnqueueOrderCommand(e)
      PROVE  handed'[d] > 0 \/ status'[d] \in Terminal
  <2>1. /\ Rows' = Rows \cup {e} /\ e \notin Rows
        /\ rank' = [rank EXCEPT ![e] = Cardinality(Rows)] /\ handed' = handed
        /\ status' = [status EXCEPT ![e] = "queued"] /\ status[e] = "absent"
    BY <1>1, OneMoreRow DEF IInv, EnqueueOrderCommand
  <2>2. c # e
    BY <1>t, <2>1
  <2>3. d # e
    <3>1. rank[c] < Cardinality(Rows) /\ rank'[c] = rank[c]
      BY <1>t, <2>1, <2>2 DEF OrderInv, QueueIsFifo
    <3>. QED
      BY <1>t, <2>1, <3>1, RankType
  <2>. QED
    BY <1>i, <1>t, <2>1, <2>2, <2>3
<1>2. ASSUME \A e \in Commands : ~EnqueueOrderCommand(e), handed' = handed
      PROVE  handed'[d] > 0 \/ status'[d] \in Terminal
  BY <1>2, <1>i, <1>t, RowsStay
<1>3. ASSUME NEW cl \in Clients \cup {Anonymous}, NEW lost \in BOOLEAN, PollCommands(cl, lost)
      PROVE  handed'[d] > 0 \/ status'[d] \in Terminal
  <2>0. \A e \in Commands : ~EnqueueOrderCommand(e)
    BY <1>3, <1>t DEF PollCommands, EnqueueOrderCommand, IInv, TypeOK
  <2>1. Rows' = Rows /\ rank' = rank /\ (status[d] \in Terminal => status'[d] \in Terminal)
    BY <2>0, <1>t, RowsStay
  <2>2. handed'[d] = (IF d \in Batch(cl) THEN handed[d] + 1 ELSE handed[d])
        /\ handed'[c] = (IF c \in Batch(cl) THEN handed[c] + 1 ELSE handed[c])
    BY <1>3, <1>t DEF PollCommands
  <2>3. CASE handed[d] > 0 \/ status[d] \in Terminal
    BY <1>t, <2>1, <2>2, <2>3
  <2>4. CASE handed[d] = 0 /\ status[d] \notin Terminal
    <3>1. handed[c] = 0 /\ c \in Batch(cl)
      BY <1>i, <1>t, <2>1, <2>2, <2>4
    <3>2. status[d] \in Pending /\ lease[d] = 0
      BY <1>t, <2>1, <2>4 DEF Rows, Statuses, OrderInv, QueueIsFifo
    <3>3. CASE ttl[d] = 0
      <4>1. d \in Overdue /\ d \notin Batch(cl)
        BY <1>t, <3>2, <3>3 DEF Overdue, Batch, Due
      <4>. QED
        BY <1>3, <1>t, <4>1 DEF PollCommands, Terminal
    <3>4. CASE ttl[d] > 0
      <4>1. Visible(cl, d)
        BY <3>1 DEF Batch, Due, Visible
      <4>2. d \in Batch(cl)
        BY <1>t, <2>1, <3>1, <3>2, <3>4, <4>1, OldestFirst DEF Due, IInv
      <4>. QED
        BY <1>t, <2>2, <4>2
    <3>. QED
      BY <1>t, <3>3, <3>4
  <2>. QED
    BY <1>t, <2>3, <2>4
<1>. QED
  BY <1>1, <1>2, <1>3, OnlyPollsDispatch

\* Commands of one client are dispatched for the first time in the order they
\* were written, for any number of commands, clients and polls and any poll
\* limit (main.py:1426-1459).
THEOREM FirstInFirstOut == Spec => []FirstDispatchInOrder
<1>1. IInv /\ OrderInv /\ [Next]_vars => OrderInv'
  BY FifoStep, OrderStep DEF OrderInv
<1>2. OrderInv => FirstDispatchInOrder
  BY DEF OrderInv
<1>. QED
  BY InitOrder, Invariance, <1>1, <1>2, PTL DEF Spec

-----------------------------------------------------------------------------
(* The command table implements the contract of OrderCommand, on which the   *)
(* specification of the live order rests.                                    *)

Copies == (Ttl + Lease - 1) \div Lease

\* A command whose leases so far fit into its time to live has one more.
LEMMA RoomForOneMore ==
    ASSUME NEW h \in Nat, h * Lease < Ttl
    PROVE  h < Copies /\ Copies \in Nat
<1>1. Ttl \in Nat \ {0} /\ Lease \in Nat \ {0} /\ h * Lease \in Nat
  BY QueueAssumption
<1>2. PICK d \in Int : d = h * Lease
  BY <1>1
<1>3. (h + 1) * Lease = d + Lease
  BY <1>1, <1>2
<1>. QED
  BY <1>1, <1>2, <1>3 DEF Copies

-----------------------------------------------------------------------------
(* Every step of the table is one of the contract, or changes nothing that *)
(* the contract speaks of.                                                 *)

Keeps == UNCHANGED <<Phase, handed, fills, Answer>>

LEMMA RefusedRefines ==
    ASSUME NEW c \in Commands, TypeOK, FilterOrderRefused(c)
    PROVE  Contract!TurnDown(c)
BY DEF FilterOrderRefused, TypeOK, Phase, Answer, Pending, Contract!TurnDown

LEMMA EnqueueRefines ==
    ASSUME NEW c \in Commands, TypeOK, EnqueueOrderCommand(c)
    PROVE  Contract!Open(c)
BY DEF EnqueueOrderCommand, TypeOK, Phase, Answer, Pending, Contract!Open

LEMMA SeesResultRefines ==
    ASSUME NEW c \in Commands, IInv, WaitSeesResult(c)
    PROVE  \E a \in Contract!Answers : Contract!Reply(c, a)
<1>1. Phase[c] = "closed" /\ Answer[c] = "none" /\ (status[c] = "executed" => fills[c] > 0)
  BY DEF WaitSeesResult, IInv, TypeOK, TicketsAreReal, Phase, Answer, Pending, Terminal
<1>2. UNCHANGED <<Phase, handed, fills>>
  BY DEF WaitSeesResult, IInv, TypeOK, Phase, Pending, Terminal
<1>3. Answer' = [Answer EXCEPT ![c] = IF status[c] = "executed" THEN "filled" ELSE "refused"]
  BY DEF WaitSeesResult, IInv, TypeOK, Answer
<1>. QED
  BY <1>1, <1>2, <1>3 DEF Contract!Answers, Contract!Reply

LEMMA TimesOutRefines ==
    ASSUME NEW c \in Commands, IInv, WaitTimesOut(c)
    PROVE  \E a \in Contract!Answers : Contract!Reply(c, a)
<1>1. Phase[c] # "new" /\ Answer[c] = "none"
  BY DEF WaitTimesOut, IInv, TypeOK, RowsFirst, Phase, Answer, Pending
<1>2. UNCHANGED <<Phase, handed, fills>>
  BY <1>1 DEF WaitTimesOut, IInv, TypeOK, RowsFirst, Phase, Pending
<1>3. Answer' = [Answer EXCEPT ![c] = "unknown"]
  BY DEF WaitTimesOut, IInv, TypeOK, Answer
<1>. QED
  BY <1>1, <1>2, <1>3 DEF Contract!Answers, Contract!Reply

\* A poll hands out its batch and closes what is overdue.
LEMMA PollRefines ==
    ASSUME NEW cl \in Clients \cup {Anonymous}, NEW lost \in BOOLEAN,
           IInv, PollCommands(cl, lost)
    PROVE  Contract!Visit(Batch(cl), Overdue)
<1>1. /\ Batch(cl) \subseteq Commands /\ Overdue \subseteq Commands
      /\ Batch(cl) \cap Overdue = {}
  BY DEF IInv, TypeOK, Batch, Due, Overdue
<1>2. \A c \in Batch(cl) \cup Overdue : Phase[c] = "open"
  BY <1>1 DEF Batch, Due, Overdue, Phase
<1>3. ASSUME NEW c \in Batch(cl) PROVE handed[c] < Copies
  <2>1. c \in Commands /\ status[c] \in Pending /\ ttl[c] > 0 /\ lease[c] = 0
    BY BatchIsDue
  <2>2. handed[c] \in Nat /\ ttl[c] \in Nat /\ Ttl \in Nat
        /\ handed[c] * Lease <= (Ttl - ttl[c]) + lease[c]
    BY <2>1, QueueAssumption DEF IInv, TypeOK, LeaseBudget
  <2>3. PICK d \in Int : d = handed[c] * Lease
    BY <2>2, QueueAssumption
  <2>4. handed[c] * Lease < Ttl
    BY <2>1, <2>2, <2>3
  <2>. QED
    BY <2>2, <2>4, RoomForOneMore
<1>4. Phase' = [c \in Commands |-> IF c \in Overdue THEN "closed" ELSE Phase[c]]
  <2>1. ASSUME NEW c \in Commands
        PROVE  Phase'[c] = IF c \in Overdue THEN "closed" ELSE Phase[c]
    BY <1>1 DEF PollCommands, Phase, Pending, Batch, Due, Overdue
  <2>. QED
    BY <2>1 DEF Phase
<1>5. UNCHANGED <<fills, Answer>>
  BY DEF PollCommands, Answer
<1>6. handed' = [c \in Commands |-> IF c \in Batch(cl) THEN handed[c] + 1 ELSE handed[c]]
  BY DEF PollCommands
<1>. QED
  BY <1>1, <1>2, <1>3, <1>4, <1>5, <1>6 DEF Contract!Visit, Copies

LEMMA ResultRefines ==
    ASSUME NEW r \in results, NEW keep \in BOOLEAN, IInv, CommandResult(r, keep)
    PROVE  r.cmd \in Commands /\ Contract!Close(r.cmd)
<1>1. r \in Result /\ r.cmd \in Commands /\ NextStatus(r) \in Terminal
  BY NextStatusIsFinal DEF IInv, TypeOK, Result
<1>2. Phase[r.cmd] \in {"open", "closed"}
  BY <1>1 DEF CommandResult, Phase
<1>3. Phase' = [Phase EXCEPT ![r.cmd] = "closed"]
  BY <1>1 DEF CommandResult, IInv, TypeOK, Phase, Pending, Terminal
<1>4. UNCHANGED <<handed, fills, Answer>>
  BY DEF CommandResult, Answer
<1>. QED
  BY <1>1, <1>2, <1>3, <1>4 DEF Contract!Close

LEMMA ExecutesRefines ==
    ASSUME NEW c \in Commands, IInv, EaExecutes(c)
    PROVE  Contract!Fill(c)
<1>1. fills[c] < handed[c]
  BY DEF EaExecutes, TakeCopy, IInv, TypeOK, CopiesAccounted
<1>2. UNCHANGED <<Phase, handed, Answer>>
  BY DEF EaExecutes, Phase, Answer
<1>3. fills' = [fills EXCEPT ![c] = @ + 1]
  BY DEF EaExecutes
<1>. QED
  BY <1>1, <1>2, <1>3 DEF Contract!Fill

LEMMA OthersKeep ==
    ASSUME \/ \E c \in Commands : EaRefuses(c)
           \/ EaRestarts
           \/ Tick
           \/ UNCHANGED vars
    PROVE  Keeps
BY DEF EaRefuses, EaRestarts, Tick, vars, Keeps, Phase, Answer

LEMMA StepRefines ==
    ASSUME IInv, [Next]_vars
    PROVE  Contract!OcNext \/ Keeps
<1>1. ASSUME NEW c \in Commands, Handler(c) PROVE Contract!OcNext
  BY <1>1, RefusedRefines, EnqueueRefines, SeesResultRefines, TimesOutRefines
     DEF IInv, Handler, Contract!OcNext
<1>2. ASSUME NEW cl \in Clients \cup {Anonymous}, NEW lost \in BOOLEAN, PollCommands(cl, lost)
      PROVE  Contract!OcNext
  <2>1. Batch(cl) \in SUBSET Commands /\ Overdue \in SUBSET Commands
    BY DEF Batch, Due, Overdue
  <2>. QED
    BY <1>2, <2>1, PollRefines DEF Contract!OcNext
<1>3. ASSUME NEW r \in results, NEW keep \in BOOLEAN, CommandResult(r, keep)
      PROVE  Contract!OcNext
  BY <1>3, ResultRefines DEF Contract!OcNext
<1>4. ASSUME NEW c \in Commands, EaExecutes(c) PROVE Contract!OcNext
  BY <1>4, ExecutesRefines DEF Contract!OcNext
<1>. QED
  BY <1>1, <1>2, <1>3, <1>4, StepCases, OthersKeep

\* The table, its handlers and the EA implement the contract: what the control
\* plane is told of an order and how often the broker executes it never goes
\* beyond what OrderCommand allows (main.py:570-692, 1421-1573).
THEOREM Implements == Spec => ImplementsContract
<1>1. Init => Contract!OcInit
  BY DEF Init, Phase, Answer, Pending, Contract!OcInit
<1>2. IInv /\ [Next]_vars => [Contract!OcNext]_(Contract!ocVars)
  BY StepRefines DEF Keeps, Contract!ocVars
<1>. QED
  BY <1>1, <1>2, Invariance, PTL DEF Spec, ImplementsContract, Contract!OcSpec
=============================================================================
