---------------------------- MODULE OrderCommand ----------------------------
(***************************************************************************)
(* What the MT5 bridge promises about a live order that travels through    *)
(* its command table to the expert advisor (EA).  Each order is a command: *)
(* it is opened once, handed to the EA a bounded number of times while it  *)
(* is open, closed, and answered once to the caller of /v1/orders/filter.  *)
(* A copy in the EA's hands may reach the broker at any later time, also   *)
(* after the command was closed and after the caller was answered.         *)
(*                                                                         *)
(* Mt5CommandQueue implements this contract; Mt5LiveOrder builds on it.    *)
(***************************************************************************)
EXTENDS Naturals

CONSTANTS Commands,   \* command ids, one per submitted order
          MaxCopies   \* how often one command may be handed out

ASSUME CopiesAssumption == MaxCopies \in Nat

VARIABLES phase,      \* where the command is in its life
          handed,     \* copies handed to the EA
          fills,      \* copies executed at the broker
          answer      \* what the caller of the bridge was told

ocVars == <<phase, handed, fills, answer>>

Phases  == {"new", "open", "closed"}
Answers == {"none", "filled", "refused", "unknown"}

OcTypeOK ==
    /\ phase  \in [Commands -> Phases]
    /\ handed \in [Commands -> 0..MaxCopies]
    /\ fills  \in [Commands -> 0..MaxCopies]
    /\ answer \in [Commands -> Answers]

OcInit ==
    /\ phase  = [c \in Commands |-> "new"]
    /\ handed = [c \in Commands |-> 0]
    /\ fills  = [c \in Commands |-> 0]
    /\ answer = [c \in Commands |-> "none"]

-----------------------------------------------------------------------------

\* The bridge writes the command to its table.
Open(c) ==
    /\ phase[c] = "new"
    /\ phase' = [phase EXCEPT ![c] = "open"]
    /\ UNCHANGED <<handed, fills, answer>>

\* The bridge turns the order down before it writes any command.
TurnDown(c) ==
    /\ phase[c] = "new"
    /\ phase'  = [phase EXCEPT ![c] = "closed"]
    /\ answer' = [answer EXCEPT ![c] = "refused"]
    /\ UNCHANGED <<handed, fills>>

\* One visit of the EA: it receives a copy of each command of H, and the
\* commands of E are closed because their time is over.
Visit(H, E) ==
    /\ H \cap E = {}
    /\ \A c \in H \cup E : phase[c] = "open"
    /\ \A c \in H : handed[c] < MaxCopies
    /\ handed' = [c \in Commands |-> IF c \in H THEN handed[c] + 1 ELSE handed[c]]
    /\ phase'  = [c \in Commands |-> IF c \in E THEN "closed" ELSE phase[c]]
    /\ UNCHANGED <<fills, answer>>

\* A copy is executed at the broker.
Fill(c) ==
    /\ fills[c] < handed[c]
    /\ fills' = [fills EXCEPT ![c] = @ + 1]
    /\ UNCHANGED <<phase, handed, answer>>

\* A result of the EA is recorded.
Close(c) ==
    /\ phase[c] \in {"open", "closed"}
    /\ phase' = [phase EXCEPT ![c] = "closed"]
    /\ UNCHANGED <<handed, fills, answer>>

\* The caller is answered.  "filled" is said only of a command that was
\* executed; "unknown" says nothing.
Reply(c, a) ==
    /\ answer[c] = "none"
    /\ \/ a = "filled"  /\ phase[c] = "closed" /\ fills[c] > 0
       \/ a = "refused" /\ phase[c] = "closed"
       \/ a = "unknown" /\ phase[c] # "new"
    /\ answer' = [answer EXCEPT ![c] = a]
    /\ UNCHANGED <<phase, handed, fills>>

OcNext ==
    \/ \E c \in Commands : Open(c) \/ TurnDown(c) \/ Fill(c) \/ Close(c)
    \/ \E H, E \in SUBSET Commands : Visit(H, E)
    \/ \E c \in Commands, a \in Answers : Reply(c, a)

OcSpec == OcInit /\ [][OcNext]_ocVars
=============================================================================
