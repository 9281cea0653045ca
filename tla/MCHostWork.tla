----------------------------- MODULE MCHostWork -----------------------------
(***************************************************************************)
(* Two operations of one session, of two clients, with two workers and a   *)
(* queue of one place: one client waits behind the turn of the other.      *)
(***************************************************************************)
EXTENDS HostWork, TLC

CONSTANTS x1, x2, k1

MCKeyOf == x1 :> k1 @@ x2 :> k1
=============================================================================
