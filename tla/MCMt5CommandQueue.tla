------------------------- MODULE MCMt5CommandQueue -------------------------
(* Model values for the checks of Mt5CommandQueue. *)
EXTENDS Mt5CommandQueue

CONSTANTS c1, c2, e1, e2

\* All commands are for one EA; the other one polls in vain.
OneOwner == [c \in Commands |-> e1]
=============================================================================
