------------------------- MODULE SessionTransaction -------------------------
(***************************************************************************)
(* The mutable state of one runtime session (src/runtime/session.c and the *)
(* session part of core.c): participants that each hold a committed        *)
(* position and a candidate, one execution at a time that stages a step of *)
(* all of them, and the finish that commits the step in all or in none.    *)
(* Around it: a model whose artifact may be found changed at any time, a   *)
(* reset, and a close that waits for the execution.                        *)
(* The finish holds lifecycle_mutex from its first to its last step, so    *)
(* every other operation on the session waits for it (Locked).             *)
(* PrepareLenient, FinishCoordinatedBlind and BeginQuiet are wrong         *)
(* variants of the definitions they precede; no action uses them.          *)
(***************************************************************************)
EXTENDS Naturals, Sequences, Functions

CONSTANTS Kinds,          \* the sessions there are: their participants, in order
          Capacity,       \* tokens a session has room for
          NoBank          \* the bank of a residency that does not exist

ASSUME KindsAssumption ==
    /\ Kinds \subseteq Seq({"target", "draft", "sequence", "rng"})
    /\ \A k \in Kinds : k # <<>> /\ k[1] = "target" /\ IsInjective(k)
ASSUME CapacityAssumption == Capacity \in Nat /\ NoBank \notin Nat

Participant == {"target", "draft", "sequence", "rng"}
Attention == {"target", "draft"}      \* a host provider and a device residency
Owner == Participant \ {"rng"}        \* the state the session itself owns

VARIABLES
    parts,       \* the participants this session has
    position,    \* committed position of each participant
    device,      \* the residency of an attention: its bank, commit_prepared
    tx,          \* "idle", "open" (incomplete or failed), "staged", "prepared"
    session,     \* the session's flags
    engine,      \* the model: "valid", "pending" (dependents left), "invalid"
    run,         \* the executing thread
    closer       \* the thread in yvex_runtime_session_close

sessionVars == <<parts, position, device, tx, session, engine, run, closer>>

Status == {"OK", "ERR", "CANCELLED"}

SessionTypeOK ==
    /\ parts \in Kinds
    /\ position \in [Participant -> 0 .. Capacity]
    /\ device \in [Attention -> [bank : (0 .. Capacity) \cup {NoBank},
                                 prepared : BOOLEAN]]
    /\ tx \in [Participant -> {"idle", "open", "staged", "prepared"}]
    /\ session \in [open : BOOLEAN, closing : BOOLEAN, busy : BOOLEAN,
                    invalidated : BOOLEAN, pending : BOOLEAN, dead : BOOLEAN,
                    draft : BOOLEAN]
    /\ engine \in {"valid", "pending", "invalid"}
    /\ run \in [pc : {"idle", "validate", "stage", "prepare", "publish", "abort"},
                scope : {"global", "coordinated"},
                group : Seq(Participant), at : Nat,
                status : Status, rc : Status,
                cleanup : BOOLEAN, abort_failed : BOOLEAN]
    /\ closer \in {"none", "asleep", "awake", "drained", "closed"}

Resting == [pc |-> "idle", scope |-> "global", group |-> <<>>, at |-> 0,
            status |-> "OK", rc |-> "OK", cleanup |-> FALSE,
            abort_failed |-> FALSE]

Zero == [p \in Participant |-> 0]
Idle == [p \in Participant |-> "idle"]
None == [p \in Attention |-> [bank |-> NoBank, prepared |-> FALSE]]
Opened == [open |-> TRUE, closing |-> FALSE, busy |-> FALSE,
           invalidated |-> FALSE, pending |-> FALSE, dead |-> FALSE,
           draft |-> FALSE]

\* A session as runtime_session_publish hands it out.
SessionInit ==
    /\ parts \in Kinds
    /\ position = Zero /\ device = None /\ tx = Idle
    /\ session = Opened /\ engine = "valid"
    /\ run = Resting /\ closer = "none"

\* The process starts again and opens the session anew.
Reopen ==
    /\ position' = Zero /\ device' = None /\ tx' = Idle
    /\ session' = Opened /\ engine' = "valid"
    /\ run' = Resting /\ closer' = "none"
    /\ UNCHANGED parts

\* lifecycle_mutex is held by a finish.
Locked == run.pc \in {"prepare", "publish", "abort"}

Owners == Owner \cap Range(parts)

Upto(n) == {parts[i] : i \in 1 .. n}

\* pthread_cond_broadcast of idle_condition.
Broadcast == closer' = IF closer = "asleep" THEN "awake" ELSE closer

\* execution_owner_ready = busy = 0, and the broadcast.
Release(s) == /\ session' = [s EXCEPT !.busy = FALSE]
              /\ run' = Resting
              /\ Broadcast

\* yvex_runtime_private_session_invalidate with the state: it may fail, and
\* then the pending mark stays.
Invalidated(s) == {s, [s EXCEPT !.dead = TRUE, !.pending = FALSE]}
-----------------------------------------------------------------------------
\* yvex_runtime_session_begin up to the unlock.  A decoder and a speculation
\* finish coordinated; the attention path finishes the target alone and knows
\* no recurrent state.
Begin(scope) ==
    /\ ~Locked
    /\ session.open /\ ~session.closing /\ ~session.busy /\ ~session.invalidated
    /\ IF scope = "global" THEN "sequence" \notin Owners ELSE Owners # {"target"}
    /\ session' = [session EXCEPT !.busy = TRUE]
    /\ run' = [Resting EXCEPT !.pc = "validate", !.scope = scope]
    /\ UNCHANGED <<parts, position, device, tx, engine, closer>>

\* The model is validated without the session's lock.
BeginValid ==
    /\ run.pc = "validate" /\ engine = "valid"
    /\ run' = [run EXCEPT !.pc = "stage"]
    /\ UNCHANGED <<parts, position, device, tx, session, engine, closer>>

\* Validation finds the artifact changed; the session is still busy, so its
\* state is left to be invalidated later.
Drifted(s) == [s EXCEPT !.invalidated = TRUE, !.pending = TRUE]

BeginQuiet ==
    /\ run.pc = "validate"
    /\ \/ session' = [session EXCEPT !.busy = FALSE] /\ UNCHANGED engine
       \/ /\ engine # "invalid" /\ engine' = "invalid"
          /\ session' = [Drifted(session) EXCEPT !.busy = FALSE]
    /\ run' = Resting
    /\ UNCHANGED <<parts, position, device, tx, closer>>

\* The model is draining or was invalid before, or it is found changed now.
BeginInvalid ==
    /\ run.pc = "validate"
    /\ \/ Release(session) /\ UNCHANGED engine
       \/ /\ engine # "invalid" /\ engine' = "invalid"
          /\ Release(Drifted(session))
    /\ UNCHANGED <<parts, position, device, tx>>

\* yvex_model_engine_validate called by another session, or by this execution
\* after its last layer: the dependents of a changed model are invalidated, an
\* idle one at once.
Drift ==
    /\ ~Locked /\ closer # "closed" /\ engine # "invalid"
    /\ \E s \in (IF session.busy THEN {Drifted(session)}
                 ELSE Invalidated(Drifted(session))) :
          /\ session' = s
          /\ engine' = IF s.pending /\ ~s.busy THEN "pending" ELSE "invalid"
    /\ UNCHANGED <<parts, position, device, tx, run, closer>>
-----------------------------------------------------------------------------
\* yvex_runtime_session_prepare_persistent_scope_state: before its first layer,
\* by the executing thread or while the session rests, an attention gets a
\* residency that is filled from what its provider has committed.
PrepareState(p) ==
    /\ ~Locked /\ session.open /\ ~session.closing /\ ~session.dead
    /\ session.busy => run.pc = "stage"
    /\ p \in Owners /\ tx[p] = "idle" /\ device[p].bank = NoBank
    /\ device' = [device EXCEPT ![p] = [bank |-> position[p], prepared |-> FALSE]]
    /\ UNCHANGED <<parts, position, tx, session, engine, run, closer>>

\* The layers of one participant run into its candidate bank.  The step must
\* start at the position the participant has committed, and fit.
MayStage(p) ==
    /\ run.pc = "stage" /\ run.status = "OK" /\ tx[p] = "idle"
    /\ p \in Range(parts) /\ (run.scope = "global" => p = "target")
    /\ IF p = "rng" THEN tx["target"] = "staged"
       ELSE \A i, j \in DOMAIN parts :
               i < j /\ parts[j] = p => tx[parts[i]] = "staged"

Stage(p) ==
    /\ MayStage(p)
    /\ position[p] < Capacity
    /\ p \in Attention => device[p].bank # NoBank
    /\ p \in Owner => position[p] = position["target"]
    /\ tx' = [tx EXCEPT ![p] = "staged"]
    /\ session' = [session EXCEPT !.draft = @ \/ p = "draft"]
    /\ UNCHANGED <<parts, position, device, engine, run, closer>>

\* The transaction is refused, or it fails with a layer begun.
StageFails(p) ==
    /\ MayStage(p)
    /\ \E t \in {"idle", "open"}, st \in {"ERR", "CANCELLED"} :
          /\ tx' = [tx EXCEPT ![p] = t]
          /\ run' = [run EXCEPT !.status = st]
          /\ session' = [session EXCEPT !.draft = @ \/ (p = "draft" /\ t = "open")]
    /\ UNCHANGED <<parts, position, device, engine, closer>>
-----------------------------------------------------------------------------
\* The participants with a transaction, in the order they are resolved, as
\* they are added to the array one after the other.
Active ==
    LET added[n \in 0 .. Len(parts)] ==
            IF n = 0 THEN <<>>
            ELSE IF tx[parts[n]] # "idle" THEN Append(added[n - 1], parts[n])
            ELSE added[n - 1]
    IN  added[Len(parts)]

Staged == \A p \in Owners : tx[p] = "staged"

\* The group g is prepared, or aborted from its end.
Resolve(g, commit, rc, cleanup) ==
    /\ run' = [run EXCEPT !.group = g, !.rc = rc, !.cleanup = cleanup,
                  !.pc = IF commit THEN "prepare" ELSE "abort",
                  !.at = IF commit THEN 1 ELSE Len(g)]
    /\ UNCHANGED <<parts, position, device, tx, session, engine, closer>>

FinishCoordinatedBlind ==
    /\ run.pc = "stage" /\ run.scope = "coordinated"
    /\ run.status = "OK" => Staged
    /\ Resolve(Active, run.status = "OK", run.status, FALSE)

\* yvex_runtime_session_finish_coordinated up to the resolve: a session that is
\* closing or marked for invalidation is not commit-ready, nor is a step that
\* left an owner behind or that the execution counter has no room for.
FinishCoordinated ==
    /\ run.pc = "stage" /\ run.scope = "coordinated"
    /\ \E overflow \in BOOLEAN :
          LET cleanup == \/ session.closing \/ session.pending
                         \/ run.status = "OK" /\ (~Staged \/ overflow)
              rc == IF run.status = "OK" /\ cleanup THEN "ERR" ELSE run.status
          IN Resolve(Active, rc = "OK", rc, cleanup)

\* yvex_runtime_session_finish_scope on the target up to the resolve; a closing
\* session still commits.  A step that staged nothing has nothing to resolve.
FinishScope(disposition) ==
    /\ run.pc = "stage" /\ run.scope = "global"
    /\ \E overflow \in BOOLEAN :
          LET failed == run.status = "OK" /\ (overflow \/ tx["target"] = "open")
              rc == IF failed THEN "ERR" ELSE run.status
              none == rc = "OK" /\ ~session.pending /\ tx["target"] = "idle"
              commit == /\ rc = "OK" /\ ~session.pending /\ ~none
                        /\ disposition = "COMMIT"
          IN Resolve(IF none THEN <<>> ELSE <<"target">>, commit, rc, FALSE)

\* The participant whose turn it is in runtime_transaction_resolve.
Turn == run.group[run.at]

\* commit_prepared of the residency whose turn it is, if there is one.
Armed(b) == [p \in Attention |->
                IF p = Turn /\ device[p].bank # NoBank
                THEN [device[p] EXCEPT !.prepared = b] ELSE device[p]]

\* A prepare that succeeds: the residency, then the provider, which keeps its
\* lock; the recurrent state; the sampling transaction.
Prepare ==
    /\ run.pc = "prepare" /\ run.at <= Len(run.group)
    /\ Turn \in Attention => ~device[Turn].prepared
    /\ device' = Armed(TRUE)
    /\ tx' = [tx EXCEPT ![Turn] = "prepared"]
    /\ run' = [run EXCEPT !.at = @ + 1]
    /\ UNCHANGED <<parts, position, session, engine, closer>>

PrepareLenient ==
    /\ run.pc = "prepare" /\ run.at <= Len(run.group)
    /\ Turn # "sequence"
    /\ tx' = [tx EXCEPT ![Turn] = "open"]
    /\ run' = [run EXCEPT !.at = @ + 1]
    /\ UNCHANGED <<parts, position, device, session, engine, closer>>

\* A prepare that fails: pages, identities, a cancellation; in the residency,
\* or in the provider when the residency is prepared already.  A complete
\* recurrent state always prepares.
PrepareFails ==
    /\ run.pc = "prepare" /\ run.at <= Len(run.group)
    /\ Turn # "sequence"
    /\ device' \in {device, Armed(TRUE)}
    /\ \E rc \in {"ERR", "CANCELLED"} :
          run' = [run EXCEPT !.pc = "abort", !.rc = rc, !.at = Len(run.group)]
    /\ tx' = [tx EXCEPT ![Turn] = "open"]
    /\ UNCHANGED <<parts, position, session, engine, closer>>

Prepared ==
    /\ run.pc = "prepare" /\ run.at > Len(run.group)
    /\ run' = [run EXCEPT !.pc = "publish", !.at = 1]
    /\ UNCHANGED <<parts, position, device, tx, session, engine, closer>>

\* One publish: a prepared residency serves the new bank, then the provider
\* does, and unlocks; neither can fail.  The recurrent state and the sampling
\* transaction have one bank.  A participant that is not prepared is passed
\* over.
Publish ==
    /\ run.pc = "publish" /\ run.at <= Len(run.group)
    /\ IF tx[Turn] = "prepared"
       THEN /\ position' = [position EXCEPT ![Turn] = @ + 1]
            /\ device' = [p \in Attention |->
                             IF p = Turn /\ device[p].prepared
                             THEN [bank |-> device[p].bank + 1, prepared |-> FALSE]
                             ELSE device[p]]
            /\ tx' = [tx EXCEPT ![Turn] = "idle"]
       ELSE UNCHANGED <<position, device, tx>>
    /\ run' = [run EXCEPT !.at = @ + 1]
    /\ UNCHANGED <<parts, session, engine, closer>>

\* Every participant is published and the finish returns YVEX_OK.
Committed ==
    /\ run.pc = "publish" /\ run.at > Len(run.group)
    /\ Release(session)
    /\ UNCHANGED <<parts, position, device, tx, engine>>

\* One abort, in the opposite order.  A prepared provider first gives up its
\* lock, and the residency drops its candidate.  An attention provider is tried
\* twice and reports the first failure even when the second call succeeds; the
\* recurrent state never fails.
Abort ==
    /\ run.pc = "abort" /\ run.at > 0
    /\ \E failed \in (IF Turn = "sequence" THEN {FALSE} ELSE BOOLEAN) :
       \E left \in (IF failed /\ tx[Turn] # "idle" THEN {"open", "idle"}
                    ELSE {"idle"}) :
          /\ tx' = [tx EXCEPT ![Turn] = left]
          /\ run' = [run EXCEPT !.at = @ - 1, !.abort_failed = @ \/ failed]
    /\ device' = Armed(FALSE)
    /\ UNCHANGED <<parts, position, session, engine, closer>>

\* Whether the end of an aborted execution takes the session with it.
Boundary ==
    IF run.scope = "global"
    THEN run.abort_failed \/ (run.status = "OK" /\ run.rc = "ERR")
    ELSE \/ run.abort_failed
         \/ run.rc # "CANCELLED" /\ (run.cleanup \/ run.status = "OK")

\* Everything is aborted and the finish returns an error.  Only the scope
\* finish applies a pending invalidation.
Aborted ==
    /\ run.pc = "abort" /\ run.at = 0
    /\ LET s == [session EXCEPT !.invalidated = @ \/ Boundary]
       IN \E t \in (IF s.pending /\ run.scope = "global" THEN Invalidated(s)
                    ELSE {s}) : Release(t)
    /\ UNCHANGED <<parts, position, device, tx, engine>>
-----------------------------------------------------------------------------
MayReset ==
    /\ ~Locked /\ session.open /\ ~session.busy /\ ~session.closing
    /\ device["target"].bank # NoBank

\* What a reset starts over: a draft only when it has a residency.
Resettable == {p \in Owners : p \in Attention => device[p].bank # NoBank}

\* The residencies of some participants start over, and the state of some.
Cleared(banks, hosts) ==
    /\ position' = [p \in Participant |->
                       IF p \in Resettable \cap hosts THEN 0 ELSE position[p]]
    /\ device' = [p \in Attention |->
                     IF p \in Resettable \cap banks
                     THEN [bank |-> 0, prepared |-> FALSE] ELSE device[p]]

\* yvex_runtime_session_reset_persistent_state: for one participant after the
\* other the residency, then the provider.
Reset ==
    /\ MayReset /\ ~session.dead /\ \A p \in Owners : tx[p] = "idle"
    /\ Cleared(Participant, Participant)
    /\ UNCHANGED <<parts, tx, session, engine, run, closer>>

\* The residency or the state of the nth participant fails to reset, or the
\* summary of the recurrent state is refused after all of them.
ResetFails ==
    /\ MayReset
    /\ \/ \E n \in DOMAIN parts, m \in {0, 1} :
             parts[n] \in Resettable /\ Cleared(Upto(n - m), Upto(n - 1))
       \/ "sequence" \in Owners /\ Cleared(Participant, Participant)
    /\ session' \in Invalidated([session EXCEPT !.invalidated = TRUE])
    /\ UNCHANGED <<parts, tx, engine, run, closer>>

\* yvex_runtime_session_close up to its first wait.
CloseBegin ==
    /\ closer = "none" /\ ~Locked
    /\ session' = [session EXCEPT !.closing = TRUE, !.open = @ /\ session.busy]
    /\ closer' = IF session.busy THEN "asleep" ELSE "drained"
    /\ UNCHANGED <<parts, position, device, tx, engine, run>>

\* The wait returns and looks at busy again.
CloseWake ==
    /\ closer = "awake" /\ ~Locked
    /\ session' = [session EXCEPT !.open = @ /\ session.busy]
    /\ closer' = IF session.busy THEN "asleep" ELSE "drained"
    /\ UNCHANGED <<parts, position, device, tx, engine, run>>

\* The session leaves the model and its resources go; a pending invalidation is
\* applied first.
CloseRelease ==
    /\ closer = "drained"
    /\ closer' = "closed"
    /\ session' = [session EXCEPT !.dead = @ \/ session.pending, !.pending = FALSE]
    /\ UNCHANGED <<parts, position, device, tx, engine, run>>

\* A resource is not released and the close returns an error; it may be called
\* again.
CloseFails ==
    /\ closer = "drained"
    /\ closer' = "none"
    /\ session' \in {session, [session EXCEPT !.dead = @ \/ session.pending,
                                              !.pending = FALSE]}
    /\ UNCHANGED <<parts, position, device, tx, engine, run>>

RunStep == \/ BeginValid \/ BeginInvalid
           \/ \E p \in Participant : Stage(p) \/ StageFails(p)
           \/ FinishCoordinated
           \/ \E d \in {"COMMIT", "ABORT"} : FinishScope(d)
           \/ Prepare \/ PrepareFails \/ Prepared \/ Publish \/ Committed
           \/ Abort \/ Aborted

CloseStep == CloseWake \/ CloseRelease \/ CloseFails

SessionNext == \/ \E scope \in {"global", "coordinated"} : Begin(scope)
               \/ \E p \in Attention : PrepareState(p)
               \/ RunStep \/ Drift \/ Reset \/ ResetFails
               \/ CloseBegin \/ CloseStep
=============================================================================
