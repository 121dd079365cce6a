--------------------------- MODULE MCMt5LiveOrder ---------------------------
(* Model values for the checks of Mt5LiveOrder. *)
EXTENDS Mt5LiveOrder, TLC

CONSTANTS c1, c2, btc

\* Every order has the size of the largest trade the policy allows.
FullSize == [o \in Orders |->
                [symbol |-> btc, side |-> "buy", notional |-> 10, allowed |-> TRUE]]

NoCaps == [s \in Symbols |-> 0]

\* Attempts, operators and orders of the same contents are interchangeable.
Symmetry == Permutations(Commands) \cup Permutations(Operators) \cup Permutations(Orders)
=============================================================================
