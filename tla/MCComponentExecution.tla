------------------------ MODULE MCComponentExecution ------------------------
(***************************************************************************)
(* Transactions of three quanta: the first, a middle and the last quantum  *)
(* differ.  Two requests, so that one evicts the other, and two bindings,  *)
(* so that a session has two entries.  Requests are interchangeable, and   *)
(* so are bindings.                                                        *)
(***************************************************************************)
EXTENDS ComponentExecution, TLC

CONSTANTS r1, r2, b1, b2

MCRequest == {r1, r2}
MCBinding == {b1, b2}

Swaps == Permutations(MCRequest) \cup Permutations(MCBinding)
=============================================================================
