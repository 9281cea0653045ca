------------------------ MODULE MCProgressScheduler ------------------------
(***************************************************************************)
(* Four clients, two of them on one sequence: the table fills up, the      *)
(* width is reached with two more waiting, and sequences conflict.         *)
(***************************************************************************)
EXTENDS ProgressScheduler, TLC

CONSTANTS c1, c2, c3, c4, h1, h2, h3

MCHandleOf == [c \in Client |-> CASE c \in {c1, c2} -> h1
                                  [] c = c3 -> h2
                                  [] OTHER -> h3]

Symmetry == Permutations({c1, c2})
=============================================================================
