------------------------ MODULE MCCompatibleBatching ------------------------
(***************************************************************************)
(* Three contexts, two keys and tickets of one or two rows.                *)
(***************************************************************************)
EXTENDS CompatibleBatching, TLC

CONSTANTS c1, c2, c3, k1, k2

MCContext == {c1, c2, c3}
MCContext2 == {c1, c2}
MCKey == {k1, k2}

Symmetry == Permutations(Context) \cup Permutations(Key)
=============================================================================
