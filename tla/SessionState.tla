---------------------------- MODULE SessionState ----------------------------
(***************************************************************************)
(* A session and its checkpoints together: executions commit, the state is *)
(* saved to and restored from one file, and the process may stop at any    *)
(* point and start again with an empty session and the same file.  A save  *)
(* and a restore hold lifecycle_mutex from beginning to end.               *)
(* No action uses RestoreFailsQuiet, a wrong variant of RestoreFails.      *)
(***************************************************************************)
EXTENDS SessionTransaction, CheckpointStore

\* A checkpoint holds the extent of the target and, with two scopes, of the
\* draft; a restore compares the identity of the capacity plan it was made for.
ASSUME ScopesAssumption ==
    Image \subseteq [scopes : {1, 2}, target : 0 .. Capacity, draft : 0 .. Capacity]

vars == <<sessionVars, storeVars>>

TypeOK == SessionTypeOK /\ StoreTypeOK

Init == SessionInit /\ StoreInit

\* "idle valid session": what save, inspect and restore ask for.  A session
\* with recurrent state has no checkpoint format.
MayStore ==
    /\ ~Locked /\ writer = "idle"
    /\ session.open /\ ~session.busy /\ ~session.closing
    /\ ~session.invalidated /\ ~session.dead
    /\ "sequence" \notin Owners

\* state_save_scope_prepare of the target and, once the draft is in use, of the
\* draft, which must have the same extent.
Extents == /\ tx["target"] = "idle" /\ tx["draft"] = "idle"
           /\ session.draft => position["draft"] = position["target"]

\* What yvex_runtime_session_state_save writes.
Now == [scopes |-> IF session.draft THEN 2 ELSE 1,
        target |-> position["target"],
        draft |-> IF session.draft THEN position["draft"] ELSE 0]

\* Image bounds the checkpoints that are explored.
Save == /\ MayStore /\ Extents /\ Now \in Image
        /\ WriterOpen(Now)
        /\ UNCHANGED sessionVars

Saving == WriterStep /\ UNCHANGED sessionVars

\* state_restore_file_parse: the digest and the scopes of the file fit; a file
\* of the target alone needs a draft that was never used.
Fits == /\ dest \in Image
        /\ IF dest.scopes = 2 THEN "draft" \in Owners ELSE ~session.draft

\* The restore has taken k of its steps: it closes the residency of the target
\* and of the draft, replaces the state of the target and of the draft, and
\* makes the residency of the target and of the draft anew.  A file of the
\* target alone leaves the draft without one.
Loaded(k) ==
    LET new == [position EXCEPT
                   !["target"] = IF k > 2 THEN dest.target ELSE @,
                   !["draft"] = IF k > 3 /\ dest.scopes = 2 THEN dest.draft ELSE @]
        made == {p \in Attention : IF p = "target" THEN k > 4
                                   ELSE k > 5 /\ dest.scopes = 2}
        closed == {p \in Attention : k > IF p = "target" THEN 0 ELSE 1}
    IN /\ position' = new
       /\ device' = [p \in Attention |->
                        IF p \in made THEN [bank |-> new[p], prepared |-> FALSE]
                        ELSE IF p \in closed THEN None[p] ELSE device[p]]

\* yvex_runtime_session_state_restore.
Restore ==
    /\ MayStore /\ Fits
    /\ Loaded(6)
    /\ session' = [session EXCEPT !.draft = @ \/ dest.scopes = 2]
    /\ UNCHANGED <<parts, tx, engine, run, closer, storeVars>>

\* What a failed restore leaves; the last step of a file is the residency of
\* its last scope.
Midway == \E k \in 0 .. dest.scopes + 3 : Loaded(k)

RestoreFailsQuiet ==
    /\ MayStore /\ Fits /\ Midway
    /\ UNCHANGED <<parts, tx, session, engine, run, closer, storeVars>>

\* state_restore_publish returns an error: whatever it had done by then, the
\* session is invalidated.
RestoreFails ==
    /\ MayStore /\ Fits /\ Midway
    /\ session' \in Invalidated([session EXCEPT !.invalidated = TRUE])
    /\ UNCHANGED <<parts, tx, engine, run, closer, storeVars>>

\* The process stops; the next one opens a session over the same directory.
Crash == Reopen /\ Stop

Session == writer = "idle" /\ SessionNext /\ UNCHANGED storeVars

Next == Session \/ Save \/ Saving \/ Restore \/ RestoreFails \/ Crash

Spec == Init /\ [][Next]_vars

\* The executing thread, the closing thread and the saving thread go on as long
\* as they can take a step; a caller need not call, and nothing must stop.
FairSpec == /\ Spec
            /\ WF_vars(writer = "idle" /\ RunStep /\ UNCHANGED storeVars)
            /\ WF_vars(writer = "idle" /\ CloseStep /\ UNCHANGED storeVars)
            /\ WF_vars(Saving)
-----------------------------------------------------------------------------
\* Nothing leaves a usable session with two histories.  A reset, a restore or a
\* prepare may fail between the residency and the provider of an attention, or
\* between target and draft; even so, whenever the session may be used and no
\* finish is under way, a residency serves the position its provider has
\* committed, and an attention without one, which a reset passes over, has
\* committed nothing.
BanksAgree ==
    ~Locked /\ ~session.invalidated =>
        \A p \in Attention :
            position[p] = IF device[p].bank = NoBank THEN 0 ELSE device[p].bank

\* The position a step will have once the publish loop, which cannot fail, ends.
Visible ==
    [p \in Participant |->
        IF session.invalidated THEN 0
        ELSE position[p] + IF /\ run.pc = "publish"
                              /\ \E i \in run.at .. Len(run.group) : run.group[i] = p
                           THEN 1 ELSE 0]

Promise == INSTANCE GroupCommit WITH
              present <- Range(parts), at <- Visible,
              lost <- session.invalidated, Most <- Capacity

\* Target, draft, recurrent state and sampling commit a step together or not at
\* all, whichever participant fails to prepare or to abort, and however drift,
\* reset, restore, close and a stop interleave.
ImplementsGroupCommit == Promise!GSpec

\* Once the session is invalidated, by drift found on another thread while the
\* execution runs or by a failed boundary, no finish publishes anything.
NothingAfterInvalidation ==
    [][\A p \in Participant :
          position'[p] > position[p] => ~session.invalidated]_vars

\* A close that waits for the execution returns, whichever way the execution
\* ends: each path that clears busy wakes it.
CloseReturns ==
    closer \in {"asleep", "awake", "drained"} ~> closer \in {"none", "closed"}
=============================================================================
