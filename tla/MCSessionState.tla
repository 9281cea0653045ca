--------------------------- MODULE MCSessionState ---------------------------
(***************************************************************************)
(* Three sessions: attention alone, attention with a draft and sampling,   *)
(* attention with recurrent state; room for two tokens, so that a session  *)
(* commits, is saved, commits again and runs out of room.  The checkpoints *)
(* explored are those of one token, with and without a draft.              *)
(***************************************************************************)
EXTENDS SessionState

MCKinds == {<<"target">>, <<"target", "draft", "rng">>, <<"target", "sequence">>}

MCImage == {[scopes |-> 1, target |-> 1, draft |-> 0],
            [scopes |-> 2, target |-> 1, draft |-> 1]}
=============================================================================
