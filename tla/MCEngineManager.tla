--------------------------- MODULE MCEngineManager ---------------------------
(***************************************************************************)
(* Two names, one of a finite-decision deployment, share the slots.        *)
(***************************************************************************)
EXTENDS EngineManager, TLC

CONSTANTS c1, c2, c3, text, finite, l1

MCClient3 == {c1, c2, c3}
MCClient2 == {c1, c2}
MCAlias == {text, finite}
MCFinite == {finite}
MCLease1 == {l1}

=============================================================================
