-------------------------- MODULE Mt5CommandQueue --------------------------
(***************************************************************************)
(* The command table of the MT5 bridge (apps/mt5_bridge/main.py, table     *)
(* mt5_order_commands): a live order is written as a row, the expert       *)
(* advisor (EA) in the terminal polls for due rows, executes them at the   *)
(* broker and posts a result, and the HTTP handler that wrote the row      *)
(* waits for the result up to a deadline.                                  *)
(*                                                                         *)
(* The bridge is one asyncio process and its SQL calls are synchronous, so *)
(* the code between two awaits is one action.  Timestamps are kept as the  *)
(* time that is left until them; Tick lets time pass.  The EA is not part  *)
(* of the repository: its actions are the weakest the bridge has to live   *)
(* with (it may lose a reply, crash, execute every copy it receives, post  *)
(* a result late, twice or never).                                         *)
(***************************************************************************)
EXTENDS Integers, FiniteSets

CONSTANTS Commands,    \* command ids
          Clients,     \* client_id of the EAs attached to the account
          Anonymous,   \* the empty client_id: a poll that sees every command
          Owner,       \* client_id each command is written for
          Ttl,         \* expires_at - created_at
          Lease,       \* lease granted by one dispatch (30 s)
          Wait,        \* how long the HTTP handler waits
          Limit,       \* LIMIT of one poll
          RefusalWords \* words the EA uses for a copy it did not execute

Words == {"ok", "expired", "cancelled", "rejected", "other"}

ASSUME QueueAssumption ==
    /\ IsFiniteSet(Commands)
    /\ Owner \in [Commands -> Clients]
    /\ Anonymous \notin Clients
    /\ Ttl \in Nat \ {0} /\ Lease \in Nat \ {0} /\ Wait \in Nat \ {0}
    /\ Limit \in Nat \ {0}
    /\ RefusalWords \subseteq Words
    /\ Wait < Ttl                      \* ttl = timeout + 60 s

VARIABLES status,      \* column status; "absent" before the INSERT
          rank,        \* column created_at: position among the rows
          ttl,         \* time left until expires_at
          lease,       \* time left until lease_expires_at, 0 for NULL
          waiter,      \* the HTTP handler waiting for the row
          wait,        \* time left until its deadline
          inbox,       \* copies the EA holds and has not acted on
          results,     \* results posted by the EA and not yet handled
          handed,      \* history: dispatches of the command
          fills        \* history: executions at the broker

vars == <<status, rank, ttl, lease, waiter, wait, inbox, results, handed, fills>>

Pending  == {"queued", "inflight"}
Terminal == {"executed", "rejected", "failed", "expired", "cancelled"}
Statuses == {"absent"} \cup Pending \cup Terminal
Waiters  == {"idle", "waiting", "filled", "refused", "unknown"}

\* A result as the bridge reads it: does the payload carry a ticket, and
\* which group of status words does it use.
Result == [cmd : Commands, ticket : BOOLEAN, word : Words]

TypeOK ==
    /\ status  \in [Commands -> Statuses]
    /\ rank    \in [Commands -> Nat]
    /\ ttl     \in [Commands -> 0..Ttl]
    /\ lease   \in [Commands -> 0..Lease]
    /\ waiter  \in [Commands -> Waiters]
    /\ wait    \in [Commands -> 0..Wait]
    /\ inbox   \in [Commands -> Nat]
    /\ results \subseteq Result
    /\ handed  \in [Commands -> Nat]
    /\ fills   \in [Commands -> Nat]

Init ==
    /\ status  = [c \in Commands |-> "absent"]
    /\ rank    = [c \in Commands |-> 0]
    /\ ttl     = [c \in Commands |-> 0]
    /\ lease   = [c \in Commands |-> 0]
    /\ waiter  = [c \in Commands |-> "idle"]
    /\ wait    = [c \in Commands |-> 0]
    /\ inbox   = [c \in Commands |-> 0]
    /\ results = {}
    /\ handed  = [c \in Commands |-> 0]
    /\ fills   = [c \in Commands |-> 0]

-----------------------------------------------------------------------------
(* The HTTP handler of /v1/orders/filter, live account, MQL command queue. *)

Rows == {c \in Commands : status[c] # "absent"}

\* Account disconnected, market closed or no EA client: nothing is written.
FilterOrderRefused(c) ==
    /\ status[c] = "absent" /\ waiter[c] = "idle"
    /\ waiter' = [waiter EXCEPT ![c] = "refused"]
    /\ UNCHANGED <<status, rank, ttl, lease, wait, inbox, results, handed, fills>>

\* The row is inserted and the handler starts to wait.
EnqueueOrderCommand(c) ==
    /\ status[c] = "absent" /\ waiter[c] = "idle"
    /\ status' = [status EXCEPT ![c] = "queued"]
    /\ rank'   = [rank EXCEPT ![c] = Cardinality(Rows)]
    /\ ttl'    = [ttl EXCEPT ![c] = Ttl]
    /\ waiter' = [waiter EXCEPT ![c] = "waiting"]
    /\ wait'   = [wait EXCEPT ![c] = Wait]
    /\ UNCHANGED <<lease, inbox, results, handed, fills>>

\* One turn of the waiting loop, before the deadline, that finds the row in a
\* final status: 200 for an executed row (it has a ticket), 409 otherwise.
WaitSeesResult(c) ==
    /\ waiter[c] = "waiting" /\ wait[c] > 0
    /\ status[c] \in Terminal
    /\ waiter' = [waiter EXCEPT ![c] =
                    IF status[c] = "executed" THEN "filled" ELSE "refused"]
    /\ UNCHANGED <<status, rank, ttl, lease, wait, inbox, results, handed, fills>>

\* Mutant: the deadline is computed again instead of ending the wait.
WaitTimesOut_Restarts(c) ==
    /\ waiter[c] = "waiting" /\ wait[c] = 0
    /\ wait' = [wait EXCEPT ![c] = Wait]
    /\ UNCHANGED <<status, rank, ttl, lease, waiter, inbox, results, handed, fills>>

\* The deadline passes: 504.  The row stays as it is.
WaitTimesOut(c) ==
    /\ waiter[c] = "waiting" /\ wait[c] = 0
    /\ waiter' = [waiter EXCEPT ![c] = "unknown"]
    /\ UNCHANGED <<status, rank, ttl, lease, wait, inbox, results, handed, fills>>

-----------------------------------------------------------------------------
(* The EA polls: GET commands.mql.                                         *)

Visible(cl, c) == cl = Anonymous \/ Owner[c] = cl

\* Mutant: rows under a running lease are due as well.
Due_NoLease(cl) == {c \in Commands : /\ status[c] \in Pending
                                     /\ ttl[c] > 0
                                     /\ Visible(cl, c)}

\* Mutant: rows are due beyond expires_at.
Due_NoExpiry(cl) == {c \in Commands : /\ status[c] \in Pending
                                      /\ lease[c] = 0
                                      /\ Visible(cl, c)}

Due(cl) == {c \in Commands : /\ status[c] \in Pending
                             /\ ttl[c] > 0
                             /\ lease[c] = 0
                             /\ Visible(cl, c)}

\* Mutant: the newest rows first.
Batch_NewestFirst(cl) == {c \in Due(cl) :
                Cardinality({d \in Due(cl) : rank[d] > rank[c]}) < Limit}

\* The oldest rows first, up to the limit.
Batch(cl) == {c \in Due(cl) :
                Cardinality({d \in Due(cl) : rank[d] < rank[c]}) < Limit}

\* Mutant: only rows that were dispatched once expire.
Overdue_InflightOnly == {c \in Commands : status[c] = "inflight" /\ ttl[c] = 0}

Overdue == {c \in Commands : status[c] \in Pending /\ ttl[c] = 0}

\* Both statements of the handler: lease the batch, then expire what is
\* overdue.  The reply with the batch may not reach the EA.
PollCommands(cl, lost) ==
    /\ status' = [c \in Commands |-> IF c \in Batch(cl) THEN "inflight"
                                     ELSE IF c \in Overdue THEN "expired"
                                     ELSE status[c]]
    /\ lease'  = [c \in Commands |-> IF c \in Batch(cl) THEN Lease ELSE lease[c]]
    /\ handed' = [c \in Commands |->
                    IF c \in Batch(cl) THEN handed[c] + 1 ELSE handed[c]]
    /\ inbox'  = [c \in Commands |->
                    IF c \in Batch(cl) /\ ~lost THEN inbox[c] + 1 ELSE inbox[c]]
    /\ UNCHANGED <<rank, ttl, waiter, wait, results, fills>>

-----------------------------------------------------------------------------
(* The EA posts a result: POST commands/{id}/result.mql.                   *)

\* Mutant: the word of the EA is stored as it comes.
NextStatus_Raw(r) == r.word

\* Mutant: a result that claims success needs no ticket.
NextStatus_NoTicket(r) ==
    IF r.word = "ok" THEN "executed"
    ELSE IF r.word \in {"expired", "cancelled", "rejected"} THEN r.word
    ELSE "failed"

\* Mutant: a failed command is put back into the queue.
NextStatus_Retry(r) ==
    IF r.ticket /\ r.word = "ok" THEN "executed"
    ELSE IF r.word \in {"expired", "cancelled", "rejected"} THEN r.word
    ELSE "queued"

\* The status the handler derives from a payload.
NextStatus(r) ==
    IF r.ticket /\ r.word = "ok" THEN "executed"
    ELSE IF r.word \in {"expired", "cancelled", "rejected"} THEN r.word
    ELSE "failed"

\* The row is overwritten whatever its status is.  The EA may post the same
\* result again (keep) or be done with it.
CommandResult(r, keep) ==
    /\ r \in results
    /\ status[r.cmd] # "absent"
    /\ status'  = [status EXCEPT ![r.cmd] = NextStatus(r)]
    /\ lease'   = [lease EXCEPT ![r.cmd] = 0]
    /\ results' = IF keep THEN results ELSE results \ {r}
    /\ UNCHANGED <<rank, ttl, waiter, wait, inbox, handed, fills>>

-----------------------------------------------------------------------------
(* The EA and the broker (external).                                       *)

TakeCopy(c) ==
    /\ inbox[c] > 0
    /\ inbox' = [inbox EXCEPT ![c] = @ - 1]

ExecutionReports(c) == {[cmd |-> c, ticket |-> TRUE, word |-> w] : w \in {"ok", "other"}}
RefusalReports(c) == {[cmd |-> c, ticket |-> FALSE, word |-> w] : w \in RefusalWords}

\* The broker executes a copy.  The EA reports it as done, reports it with a
\* status word the bridge does not count as done (a partial fill), or crashes
\* before it reports.
EaExecutes(c) ==
    /\ TakeCopy(c)
    /\ fills' = [fills EXCEPT ![c] = @ + 1]
    /\ \/ UNCHANGED results
       \/ \E r \in ExecutionReports(c) : results' = results \cup {r}
    /\ UNCHANGED <<status, rank, ttl, lease, waiter, wait, handed>>

\* The EA or the broker does not execute the copy; whatever the EA says of
\* it, it has no ticket to show.
EaRefuses(c) ==
    /\ TakeCopy(c)
    /\ \E r \in RefusalReports(c) : results' = results \cup {r}
    /\ UNCHANGED <<status, rank, ttl, lease, waiter, wait, handed, fills>>

\* The terminal restarts: the copies it held and the posts it had not made
\* are gone.
EaRestarts ==
    /\ inbox'   = [c \in Commands |-> 0]
    /\ results' = {}
    /\ UNCHANGED <<status, rank, ttl, lease, waiter, wait, handed, fills>>

-----------------------------------------------------------------------------

Less(n) == IF n > 0 THEN n - 1 ELSE 0

Tick ==
    /\ \E c \in Commands : ttl[c] > 0 \/ lease[c] > 0 \/ wait[c] > 0
    /\ ttl'   = [c \in Commands |-> Less(ttl[c])]
    /\ lease' = [c \in Commands |-> Less(lease[c])]
    /\ wait'  = [c \in Commands |-> Less(wait[c])]
    /\ UNCHANGED <<status, rank, waiter, inbox, results, handed, fills>>

Handler(c) ==
    \/ FilterOrderRefused(c)
    \/ EnqueueOrderCommand(c)
    \/ WaitSeesResult(c)
    \/ WaitTimesOut(c)

Poll == \E cl \in Clients \cup {Anonymous}, lost \in BOOLEAN : PollCommands(cl, lost)

Next ==
    \/ \E c \in Commands : Handler(c)
    \/ Poll
    \/ \E r \in results, keep \in BOOLEAN : CommandResult(r, keep)
    \/ \E c \in Commands : EaExecutes(c) \/ EaRefuses(c)
    \/ EaRestarts
    \/ Tick

Spec == Init /\ [][Next]_vars

\* Time passes, the waiting coroutine is scheduled again after each sleep,
\* and some EA keeps polling the account.  Nothing is assumed of results.
Fairness ==
    /\ WF_vars(Tick)
    /\ \A c \in Commands : WF_vars(WaitSeesResult(c) \/ WaitTimesOut(c))
    /\ WF_vars(Poll)

FairSpec == Spec /\ Fairness

-----------------------------------------------------------------------------
(* Properties.                                                             *)

\* A caller that is told "filled" has an order that really was executed at the
\* broker, however late, often or wrongly the EA reports (main.py:1489-1573).
TruthfulAnswer == \A c \in Commands : waiter[c] = "filled" => fills[c] > 0

\* The lease bounds how often one command can be dispatched, and so how often
\* one order can be executed: every dispatch but the last used up a whole
\* lease of the command's time to live (main.py:1427-1445).
DeliveryBound ==
    \A c \in Commands : /\ fills[c] <= handed[c]
                        /\ handed[c] > 0 => (handed[c] - 1) * Lease < Ttl

\* Commands of one client are dispatched for the first time in the order they
\* were written, although polls are limited and leases expire out of order.
FirstDispatchInOrder ==
    \A c, d \in Rows :
        (Owner[c] = Owner[d] /\ rank[d] < rank[c] /\ handed[c] > 0)
            => (handed[d] > 0 \/ status[d] \in Terminal)

\* A closed command may still change from one final status to another (a late
\* result overwrites it), but it is never dispatched again.
ClosedForGood ==
    [][\A c \in Commands : status[c] \in Terminal =>
          status'[c] \in Terminal /\ handed'[c] = handed[c]]_vars

\* Every caller of /v1/orders/filter is answered.
EventuallyAnswered ==
    \A c \in Commands : waiter[c] = "waiting" ~> waiter[c] \in {"filled", "refused", "unknown"}

\* No command stays in the table unresolved, even if the EA never reports.
EventuallyClosed ==
    \A c \in Commands : status[c] \in Pending ~> status[c] \in Terminal

\* The table implements the contract of OrderCommand, with as many copies as
\* leases are begun within the time to live.
Phase == [c \in Commands |->
            IF status[c] \in Pending THEN "open"
            ELSE IF status[c] = "absent" /\ waiter[c] = "idle" THEN "new"
            ELSE "closed"]

Answer == [c \in Commands |->
            IF waiter[c] \in {"idle", "waiting"} THEN "none" ELSE waiter[c]]

Contract == INSTANCE OrderCommand WITH
                MaxCopies <- (Ttl + Lease - 1) \div Lease,
                phase <- Phase, answer <- Answer

ImplementsContract == Contract!OcSpec
=============================================================================
