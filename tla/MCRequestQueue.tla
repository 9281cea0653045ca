--------------------------- MODULE MCRequestQueue ---------------------------
(***************************************************************************)
(* Three operations of one session and one of another, three workers and a *)
(* queue of two places: a full queue, a key that is held while others are  *)
(* free, and a stop with work still queued all happen.                     *)
(***************************************************************************)
EXTENDS RequestQueue, TLC

CONSTANTS x1, x2, x3, x4, k1, k2

MCKeyOf == x1 :> k1 @@ x2 :> k1 @@ x3 :> k1 @@ x4 :> k2

=============================================================================
