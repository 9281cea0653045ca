------------------------- MODULE SessionStateProofs -------------------------
(***************************************************************************)
(* Proofs about the session and its checkpoints, for every set of          *)
(* participants, every capacity and every set of images.                   *)
(***************************************************************************)
EXTENDS SessionState, WellFoundedInduction, TLAPS

(***************************************************************************)
(* The file.  The strengthening says what the writer has done at each of   *)
(* its steps: the file is durable before it is linked, a link is this      *)
(* writer's own, and while a writer holds a link nothing was saved before. *)
(***************************************************************************)
StoreInv ==
    /\ StoreTypeOK
    /\ writer \in {"write", "fsync", "link", "unlink", "fsyncdir"} => image \in Image
    /\ writer = "link" => synced
    /\ writer \in {"unlink", "fsyncdir"} => linked /\ dest = image
    /\ linked => saved = NoFile
    /\ DestinationComplete
    /\ SavedSurvives

LEMMA StoreInitEstablishes == StoreInit => StoreInv
BY ImageAssumption, Zenon DEF StoreInit, StoreInv, StoreTypeOK, DestinationComplete,
   SavedSurvives

LEMMA StoreStepPreserves ==
    ASSUME StoreInv, [StoreNext]_storeVars PROVE StoreInv'
<1> USE ImageAssumption DEF StoreInv, StoreTypeOK, DestinationComplete,
        SavedSurvives, Fail, WriterEnd
<1>1. ASSUME NEW i \in Image, WriterOpen(i) PROVE StoreInv'
      BY <1>1, Zenon DEF WriterOpen
<1>2. CASE WriterWrite
  <2>1. CASE Fail
        BY <1>2, <2>1
  <2>2. CASE writer' = "fsync" /\ UNCHANGED <<image, synced, linked, dest, disk, saved>>
        BY <1>2, <2>2 DEF WriterWrite
  <2> QED
      BY <1>2, <2>1, <2>2 DEF WriterWrite
<1>3. CASE WriterSync
  <2>1. CASE Fail
        BY <1>3, <2>1
  <2>2. CASE /\ writer' = "link" /\ synced' = TRUE
             /\ UNCHANGED <<image, linked, dest, disk, saved>>
    <3>1. (writer = "link" => synced)'
          BY <2>2, Zenon
    <3> QED
        BY <1>3, <2>2, <3>1 DEF WriterSync
  <2> QED
      BY <1>3, <2>1, <2>2, Zenon DEF WriterSync
<1>4. CASE Link
      BY <1>4 DEF Link, Durable
<1>5. CASE LinkFails
      BY <1>5 DEF LinkFails
<1>6. CASE WriterUnlink
      BY <1>6, Zenon DEF WriterUnlink
<1>7. CASE WriterPublish
      BY <1>7, Zenon DEF WriterPublish
<1>8. CASE WriterPublishFails
      BY <1>8 DEF WriterPublishFails
<1>9. CASE WriterClose
      BY <1>9, Zenon DEF WriterClose
<1>10. CASE Stop
      BY <1>10, Zenon DEF Stop
<1>11. CASE UNCHANGED storeVars
      BY <1>11 DEF storeVars
<1> QED
    BY <1>1, <1>2, <1>3, <1>4, <1>5, <1>6, <1>7, <1>8, <1>9, <1>10, <1>11
       DEF StoreNext, WriterStep

\* Every step of the composition is a step of the file or leaves it alone.
LEMMA StepsAreStoreSteps == [Next]_vars => [StoreNext]_storeVars
BY DEF Next, vars, Session, Save, Saving, Restore, RestoreFails, Crash, StoreNext

\* Inductive along every behaviour of the composition.
THEOREM StoreInvariance == Spec => []StoreInv
<1>1. Init => StoreInv
      BY StoreInitEstablishes DEF Init
<1>2. StoreInv /\ [Next]_vars => StoreInv'
      BY StepsAreStoreSteps, StoreStepPreserves
<1> QED
    BY <1>1, <1>2, PTL DEF Spec

\* Wherever the machine stops, what the destination name leads to is a whole
\* checkpoint or nothing.
THEOREM DestinationIsComplete == Spec => []DestinationComplete
<1>1. StoreInv => DestinationComplete
      BY DEF StoreInv
<1> QED
    BY <1>1, StoreInvariance, PTL

\* A checkpoint whose save returned YVEX_OK outlives later saves to the same
\* name, their cleanup and every stop.
THEOREM SavedCheckpointSurvives == Spec => []SavedSurvives
<1>1. StoreInv => SavedSurvives
      BY DEF StoreInv
<1> QED
    BY <1>1, StoreInvariance, PTL
-----------------------------------------------------------------------------
(***************************************************************************)
(* The session.  The strengthening: an execution keeps the session busy, a *)
(* close that has drained keeps executions out, drift found during an      *)
(* execution stays pending until its finish looks, and a finish that goes  *)
(* on to prepare or publish has a session that is not invalidated.         *)
(***************************************************************************)
Flags == [open : BOOLEAN, closing : BOOLEAN, busy : BOOLEAN,
          invalidated : BOOLEAN, pending : BOOLEAN, dead : BOOLEAN,
          draft : BOOLEAN]

Field == {"pc", "scope", "group", "at", "status", "rc", "cleanup", "abort_failed"}

FlowInv ==
    /\ session \in Flags
    /\ Field \subseteq DOMAIN run
    /\ run.pc # "idle" => session.busy
    /\ closer # "none" => session.closing
    /\ closer \in {"drained", "closed"} => ~session.busy
    /\ run.pc \in {"validate", "stage"} /\ session.invalidated => session.pending
    /\ run.pc \in {"prepare", "publish"} => ~session.invalidated

Positions == position \in [Participant -> Nat]

LEMMA FlowInit == Init => FlowInv
BY DEF Init, SessionInit, FlowInv, Flags, Field, Opened, Resting

\* What an aborted execution leaves of the session's flags.
LEMMA AbortedFlags ==
    ASSUME FlowInv, Aborted
    PROVE  \E t \in Flags : /\ t.closing = session.closing
                            /\ session.invalidated => t.invalidated
                            /\ session' = [t EXCEPT !.busy = FALSE]
<1> DEFINE s == [session EXCEPT !.invalidated = session.invalidated \/ Boundary]
<1>1. s \in Flags /\ s.closing = session.closing
               /\ (session.invalidated => s.invalidated)
      BY Zenon DEF FlowInv, Flags
<1>2. \E t \in Invalidated(s) \cup {s} : Release(t)
      BY DEF Aborted, Invalidated
<1> HIDE DEF s
<1>3. PICK t \in Invalidated(s) \cup {s} : Release(t)
      BY <1>2
<1>4. t \in Flags /\ t.closing = session.closing
               /\ (session.invalidated => t.invalidated)
      BY <1>1, Zenon DEF Invalidated, Flags
<1> QED
    BY <1>3, <1>4, Zenon DEF Release

\* The first step of a finish, with the group it resolves.
LEMMA FinishCoordinatedIs ==
    ASSUME FlowInv, FinishCoordinated
    PROVE  /\ run.pc = "stage"
           /\ UNCHANGED <<parts, position, device, tx, session, engine, closer>>
           /\ Field \subseteq DOMAIN run' /\ run'.group = Active
           /\ \/ /\ run'.pc = "prepare" /\ run'.at = 1
                 /\ run.status = "OK" /\ Staged /\ ~session.pending
              \/ run'.pc = "abort" /\ run'.at = Len(Active)
<1>1. PICK o \in BOOLEAN :
         LET cleanup == \/ session.closing \/ session.pending
                        \/ run.status = "OK" /\ (~Staged \/ o)
             rc == IF run.status = "OK" /\ cleanup THEN "ERR" ELSE run.status
         IN Resolve(Active, rc = "OK", rc, cleanup)
      BY Zenon DEF FinishCoordinated
<1>2. run.pc = "stage" /\ UNCHANGED <<parts, position, device, tx, session, engine, closer>>
      BY <1>1 DEF FinishCoordinated, Resolve
<1>3. PICK g : g = Active
      OBVIOUS
<1>4. \E rc, k :
         \/ /\ run' = [run EXCEPT !.group = g, !.rc = rc, !.cleanup = k,
                                  !.pc = "prepare", !.at = 1]
            /\ run.status = "OK" /\ Staged /\ ~session.pending
         \/ run' = [run EXCEPT !.group = g, !.rc = rc, !.cleanup = k,
                               !.pc = "abort", !.at = Len(g)]
      BY <1>1, <1>3 DEF Resolve
<1> QED
    BY <1>2, <1>3, <1>4 DEF FlowInv, Field

LEMMA FinishScopeIs ==
    ASSUME FlowInv, NEW d, FinishScope(d)
    PROVE  /\ run.pc = "stage" /\ run.scope = "global"
           /\ UNCHANGED <<parts, position, device, tx, session, engine, closer>>
           /\ Field \subseteq DOMAIN run'
           /\ \/ run'.group = <<"target">>
              \/ run'.group = <<>> /\ tx["target"] = "idle" /\ run'.pc = "abort"
           /\ \/ /\ run'.pc = "prepare" /\ run'.at = 1
                 /\ run.status = "OK" /\ ~session.pending /\ tx["target"] # "idle"
              \/ run'.pc = "abort" /\ run'.at = Len(run'.group)
<1>1. PICK o \in BOOLEAN :
         LET failed == run.status = "OK" /\ (o \/ tx["target"] = "open")
             rc == IF failed THEN "ERR" ELSE run.status
             none == rc = "OK" /\ ~session.pending /\ tx["target"] = "idle"
             commit == /\ rc = "OK" /\ ~session.pending /\ ~none
                       /\ d = "COMMIT"
         IN Resolve(IF none THEN <<>> ELSE <<"target">>, commit, rc, FALSE)
      BY Zenon DEF FinishScope
<1>2. /\ run.pc = "stage" /\ run.scope = "global"
      /\ UNCHANGED <<parts, position, device, tx, session, engine, closer>>
      BY <1>1 DEF FinishScope, Resolve
<1>3. PICK e, t : e = <<>> /\ t = <<"target">>
      OBVIOUS
<1>4. \E rc :
         \/ /\ run' = [run EXCEPT !.group = t, !.rc = rc, !.cleanup = FALSE,
                                  !.pc = "prepare", !.at = 1]
            /\ run.status = "OK" /\ ~session.pending /\ tx["target"] # "idle"
         \/ run' = [run EXCEPT !.group = t, !.rc = rc, !.cleanup = FALSE,
                               !.pc = "abort", !.at = Len(t)]
         \/ /\ run' = [run EXCEPT !.group = e, !.rc = rc, !.cleanup = FALSE,
                                  !.pc = "abort", !.at = Len(e)]
            /\ tx["target"] = "idle"
      BY <1>1, <1>3 DEF Resolve
<1>5. \/ run'.group = t
      \/ run'.group = e /\ tx["target"] = "idle" /\ run'.pc = "abort"
      BY <1>4 DEF FlowInv, Field
<1>6. \/ /\ run'.pc = "prepare" /\ run'.at = 1
         /\ run.status = "OK" /\ ~session.pending /\ tx["target"] # "idle"
      \/ run'.pc = "abort" /\ run'.at = Len(run'.group)
      BY <1>4 DEF FlowInv, Field
<1>7. Field \subseteq DOMAIN run'
      BY <1>4 DEF FlowInv, Field
<1> QED
    BY <1>2, <1>3, <1>5, <1>6, <1>7, Zenon

LEMMA FlowStep ==
    ASSUME FlowInv, [Next]_vars PROVE FlowInv'
<1> USE DEF FlowInv, Flags, Field
<1>1. ASSUME NEW scope, Begin(scope) PROVE FlowInv'
      BY <1>1, Zenon DEF Begin, Resting, Locked
<1>2. CASE BeginValid
      BY <1>2 DEF BeginValid
<1>3. CASE BeginInvalid
  <2>1. run' = Resting /\ closer' \in {closer, "awake"} /\ (closer' # closer => closer = "asleep")
        BY <1>3 DEF BeginInvalid, Release, Broadcast
  <2>2. \/ session' = [session EXCEPT !.busy = FALSE]
        \/ session' = [[session EXCEPT !.invalidated = TRUE, !.pending = TRUE]
                          EXCEPT !.busy = FALSE]
        BY <1>3, Zenon DEF BeginInvalid, Release, Drifted
  <2>3. session' \in Flags /\ session'.closing = session.closing /\ ~session'.busy
        BY <2>2, Zenon
  <2> QED
      BY <2>1, <2>3 DEF Resting
<1>4. CASE Drift
  <2>1. UNCHANGED <<run, closer>> /\ ~Locked
        BY <1>4 DEF Drift
  <2>2. CASE session.busy
    <3>1. session' = [session EXCEPT !.invalidated = TRUE, !.pending = TRUE]
          BY <1>4, <2>2 DEF Drift, Drifted
    <3> QED
        BY <2>1, <2>2, <3>1, Zenon DEF Locked
  <2>3. CASE ~session.busy
    <3>1. \/ session' = [session EXCEPT !.invalidated = TRUE, !.pending = TRUE]
          \/ session' = [[session EXCEPT !.invalidated = TRUE, !.pending = TRUE]
                            EXCEPT !.dead = TRUE, !.pending = FALSE]
          BY <1>4, <2>3 DEF Drift, Drifted, Invalidated
    <3> QED
        BY <2>1, <2>3, <3>1, Zenon
  <2> QED
      BY <2>2, <2>3
<1>5. ASSUME NEW p, Stage(p) PROVE FlowInv'
      BY <1>5 DEF Stage, MayStage
<1>6. ASSUME NEW p, StageFails(p) PROVE FlowInv'
      BY <1>6 DEF StageFails, MayStage
<1>7. CASE FinishCoordinated
      BY <1>7, FinishCoordinatedIs
<1>8. ASSUME NEW d, FinishScope(d) PROVE FlowInv'
      BY <1>8, FinishScopeIs
<1>9. CASE Prepare
      BY <1>9 DEF Prepare
<1>10. CASE PrepareFails
      BY <1>10 DEF PrepareFails
<1>11. CASE Prepared
      BY <1>11 DEF Prepared
<1>12. CASE Publish
      BY <1>12 DEF Publish
<1>13. CASE Committed
      BY <1>13, Zenon DEF Committed, Release, Resting, Broadcast
<1>14. CASE Abort
      BY <1>14 DEF Abort
<1>15. CASE Aborted
  <2>1. PICK t \in Flags : /\ t.closing = session.closing
                          /\ session' = [t EXCEPT !.busy = FALSE]
        BY <1>15, AbortedFlags
  <2>2. run' = Resting /\ closer' = IF closer = "asleep" THEN "awake" ELSE closer
        BY <1>15 DEF Aborted, Release, Broadcast
  <2> QED
      BY <2>1, <2>2, Zenon DEF Resting
<1>16. CASE Reset
      BY <1>16 DEF Reset, MayReset
<1>17. CASE ResetFails
      BY <1>17, Zenon DEF ResetFails, MayReset, Invalidated
<1>18. CASE CloseBegin
      BY <1>18, Zenon DEF CloseBegin
<1>19. CASE CloseWake
      BY <1>19 DEF CloseWake
<1>20. CASE CloseRelease
      BY <1>20, Zenon DEF CloseRelease
<1>21. CASE CloseFails
      BY <1>21, Zenon DEF CloseFails
<1>22. CASE Save \/ Saving
      BY <1>22 DEF Save, Saving, sessionVars
<1>23. CASE Restore
      BY <1>23 DEF Restore, MayStore
<1>24. CASE RestoreFails
      BY <1>24, Zenon DEF RestoreFails, MayStore, Invalidated
<1>25. CASE Crash
      BY <1>25 DEF Crash, Reopen, Opened, Resting
<1>26. CASE UNCHANGED vars
      BY <1>26 DEF vars, sessionVars
<1>27. ASSUME NEW p, PrepareState(p) PROVE FlowInv'
      BY <1>27 DEF PrepareState
<1> QED
    BY <1>1, <1>2, <1>3, <1>4, <1>5, <1>6, <1>7, <1>8, <1>9, <1>10, <1>11,
       <1>12, <1>13, <1>14, <1>15, <1>16, <1>17, <1>18, <1>19, <1>20,
       <1>21, <1>22, <1>23, <1>24, <1>25, <1>26, <1>27 DEF Next, Session,
       SessionNext, RunStep, CloseStep

\* What a restore leaves after k of its steps.
LEMMA LoadedIs ==
    ASSUME Positions, NEW k, Loaded(k)
    PROVE  /\ position' = [p \in Participant |-> position'[p]]
           /\ \A p \in Participant :
                 position'[p] = IF p = "target" /\ k > 2 THEN dest.target
                                ELSE IF p = "draft" /\ k > 3 /\ dest.scopes = 2
                                     THEN dest.draft
                                ELSE position[p]
<1> DEFINE a == IF k > 2 THEN dest.target ELSE position["target"]
           b == IF k > 3 /\ dest.scopes = 2 THEN dest.draft ELSE position["draft"]
<1>1. position' = [[position EXCEPT !["target"] = a] EXCEPT !["draft"] = b]
      BY Zenon DEF Loaded
<1> HIDE DEF a, b
<1>2. /\ position' = [p \in Participant |-> position'[p]]
      /\ \A p \in Participant : position'[p] = IF p = "draft" THEN b
                                            ELSE IF p = "target" THEN a ELSE position[p]
      BY <1>1 DEF Positions, Participant
<1> QED
    BY <1>2, Zenon DEF a, b

LEMMA PositionsStep ==
    ASSUME Positions, [Next]_vars PROVE Positions'
<1>1. CASE UNCHANGED position
      BY <1>1 DEF Positions
<1>2. CASE Publish
  <2>1. CASE position' = [position EXCEPT ![Turn] = position[Turn] + 1]
    <3>1. CASE Turn \in Participant
          BY <2>1, <3>1 DEF Positions
    <3>2. CASE Turn \notin Participant
          BY <2>1, <3>2 DEF Positions
    <3> QED
        BY <3>1, <3>2
  <2> QED
      BY <1>1, <1>2, <2>1 DEF Publish
<1>3. CASE Reset \/ ResetFails
  <2>1. PICK banks, hosts : Cleared(banks, hosts)
        BY <1>3, Zenon DEF Reset, ResetFails
  <2> QED
      BY <2>1 DEF Cleared, Positions
<1>4. CASE Restore \/ RestoreFails
  <2>1. dest \in Image /\ \E k : Loaded(k)
        BY <1>4, Zenon DEF Restore, RestoreFails, Midway, Fits
  <2>2. dest.target \in Nat /\ dest.draft \in Nat
        BY <2>1, ScopesAssumption, CapacityAssumption
  <2>3. PICK k : Loaded(k)
        BY <2>1
  <2>4. \A p \in Participant : position'[p] \in Nat
        BY <2>2, <2>3, LoadedIs DEF Positions
  <2> QED
      BY <2>3, <2>4, LoadedIs DEF Positions
<1>5. CASE Crash
      BY <1>5 DEF Crash, Reopen, Zero, Positions
<1> QED
    BY <1>1, <1>2, <1>3, <1>4, <1>5, Zenon DEF Next, Session, SessionNext, RunStep,
       CloseStep, Begin, BeginValid, BeginInvalid, Drift, PrepareState, Stage, StageFails,
       FinishCoordinated, FinishScope, Resolve, Prepare, PrepareFails, Prepared,
       Committed, Abort, Aborted, CloseBegin, CloseWake, CloseRelease,
       CloseFails, Save, Saving, vars, sessionVars

\* Both parts, along every behaviour.
THEOREM SessionInvariance == Spec => [](FlowInv /\ Positions)
<1>1. Init => Positions
      BY DEF Init, SessionInit, Zero, Positions
<1>2. FlowInv /\ [Next]_vars => FlowInv'
      BY FlowStep
<1>3. Positions /\ [Next]_vars => Positions'
      BY PositionsStep
<1> QED
    BY <1>1, <1>2, <1>3, FlowInit, PTL DEF Spec

LEMMA OnlyPublishedMoves ==
    ASSUME FlowInv, Positions, [Next]_vars,
           NEW p \in Participant, position'[p] > position[p]
    PROVE  ~session.invalidated
<1>1. position[p] \in Nat
      BY DEF Positions
<1>2. position' # position
      BY <1>1
<1>3. CASE Publish
      BY <1>3 DEF Publish, FlowInv
<1>4. CASE Restore \/ RestoreFails
      BY <1>4 DEF Restore, RestoreFails, MayStore
<1>5. CASE Reset \/ ResetFails
  <2>1. PICK banks, hosts : Cleared(banks, hosts)
        BY <1>5, Zenon DEF Reset, ResetFails
  <2>2. position'[p] \in {0, position[p]}
        BY <2>1 DEF Cleared
  <2> QED
      BY <1>1, <2>2
<1>6. CASE Crash
      BY <1>1, <1>6 DEF Crash, Reopen, Zero
<1> QED
    BY <1>2, <1>3, <1>4, <1>5, <1>6, Zenon DEF Next, Session, SessionNext, RunStep,
       CloseStep, Begin, BeginValid, BeginInvalid, Drift, PrepareState, Stage, StageFails,
       FinishCoordinated, FinishScope, Resolve, Prepare, PrepareFails, Prepared,
       Committed, Abort, Aborted, CloseBegin, CloseWake, CloseRelease,
       CloseFails, Save, Saving, vars, sessionVars

\* No participant of an invalidated session moves forward: neither a finish
\* that began before the drift was found nor a restore.
THEOREM InvalidatedNeverPublishes == Spec => NothingAfterInvalidation
<1>1. FlowInv /\ Positions /\ [Next]_vars =>
         [\A p \in Participant :
             position'[p] > position[p] => ~session.invalidated]_vars
      BY OnlyPublishedMoves
<1> QED
    BY <1>1, SessionInvariance, PTL DEF Spec, NothingAfterInvalidation
-----------------------------------------------------------------------------
(***************************************************************************)
(* The group.  What the transactions of the participants are at each step  *)
(* of an execution, so that the participants the finish resolves are the   *)
(* target, every owner or everyone, start from one position, are all       *)
(* prepared when the publish loop begins and are published once each.      *)
(***************************************************************************)
Committable == {{"target"}, Owners, Range(parts)}

\* The places n to m of the group of the finish.
Places(n, m) == {run.group[i] : i \in n .. m}

Typed ==
    /\ parts \in Kinds
    /\ tx \in [Participant -> {"idle", "open", "staged", "prepared"}]
    /\ run.group \in Seq(Participant) /\ run.at \in Nat
    /\ IsInjective(run.group)

\* What is not part of the session, or was never used, holds nothing.
Unused ==
    /\ \A p \in Participant \ Range(parts) : tx[p] = "idle" /\ position[p] = 0
    /\ ~session.draft => tx["draft"] = "idle"
    /\ ~session.draft /\ ~session.invalidated => position["draft"] = 0

\* Before the finish.
Staging ==
    /\ run.pc = "idle" /\ ~session.invalidated => \A p \in Participant : tx[p] = "idle"
    /\ run.pc = "validate" => \A p \in Participant : tx[p] = "idle"
    /\ run.pc = "stage" /\ run.status = "OK" =>
          \A p \in Participant : tx[p] \in {"idle", "staged"}
    /\ run.pc = "stage" /\ run.scope = "global" =>
          \A p \in Participant \ {"target"} : tx[p] = "idle"
    /\ run.pc \in {"stage", "prepare"} =>
          \A p \in Owner : tx[p] \in {"staged", "prepared"}
                           => position[p] = position["target"]

\* In the finish.
Resolving ==
    /\ run.pc \in {"prepare", "publish"} => run.at > 0
    /\ run.pc = "prepare" =>
          /\ Range(run.group) \in Committable
          /\ \A i \in 1 .. Len(run.group) :
                tx[run.group[i]] = IF i < run.at THEN "prepared" ELSE "staged"
          /\ \A p \in Participant \ Range(run.group) : tx[p] = "idle"
    /\ run.pc = "publish" =>
          /\ \A p \in Places(run.at, Len(run.group)) : tx[p] = "prepared"
          /\ \A p \in Participant \ Places(run.at, Len(run.group)) : tx[p] = "idle"
    /\ run.pc = "abort" =>
          /\ run.at <= Len(run.group)
          /\ ~run.abort_failed =>
                \A p \in Participant \ Places(1, run.at) : tx[p] = "idle"

\* A checkpoint of two scopes has one extent.
Even(i) == i \in Image /\ i.scopes = 2 => i.draft = i.target

Files == Even(image) /\ Even(dest) /\ \A i \in disk : Even(i)

GroupInv == Typed /\ Unused /\ Staging /\ Resolving /\ Files

\* The turn of a participant: what is at one place of an injective sequence is
\* at no other.
LEMMA RangeOfSeq ==
    ASSUME NEW S, NEW s \in Seq(S)
    PROVE  /\ Range(s) = {s[i] : i \in 1 .. Len(s)} /\ Range(s) \subseteq S
           /\ Len(s) \in Nat /\ DOMAIN s = 1 .. Len(s)
           /\ \A i \in 1 .. Len(s) : s[i] \in S
BY DEF Range

LEMMA PartsAre ==
    ASSUME Typed
    PROVE  /\ parts \in Seq(Participant) /\ parts # <<>> /\ parts[1] = "target"
           /\ IsInjective(parts) /\ "target" \in Range(parts)
           /\ Range(parts) \subseteq Participant
<1>1. /\ parts \in Seq(Participant) /\ parts # <<>> /\ parts[1] = "target"
      /\ IsInjective(parts)
      BY KindsAssumption DEF Typed, Participant
<1>2. 1 \in DOMAIN parts
      BY <1>1
<1> QED
    BY <1>1, <1>2, RangeOfSeq DEF Range

\* The participants added so far are those with a transaction, once each.
Adds(n, s) ==
    /\ s \in Seq(Participant) /\ IsInjective(s)
    /\ Range(s) = {p \in {parts[i] : i \in 1 .. n} : tx[p] # "idle"}

LEMMA AddedOne ==
    ASSUME Typed, NEW n \in Nat, n + 1 \in 1 .. Len(parts), NEW s, Adds(n, s)
    PROVE  Adds(n + 1, IF tx[parts[n + 1]] # "idle" THEN Append(s, parts[n + 1]) ELSE s)
<1>1. parts \in Seq(Participant) /\ IsInjective(parts)
      BY PartsAre
<1>2. PICK e : e = parts[n + 1]
      OBVIOUS
<1>3. e \in Participant /\ n \in 0 .. Len(parts)
      BY <1>1, <1>2
<1>4. {parts[i] : i \in 1 .. n + 1} = {parts[i] : i \in 1 .. n} \cup {e}
      BY <1>2
<1>5. e \notin {parts[i] : i \in 1 .. n}
      BY <1>1, <1>2 DEF IsInjective
<1>6. s \in Seq(Participant) /\ IsInjective(s) /\ e \notin Range(s)
      BY <1>5 DEF Adds
<1>7. CASE tx[e] # "idle"
  <2>1. PICK a : a = Append(s, e)
        OBVIOUS
  <2>2. /\ a \in Seq(Participant) /\ Len(a) = Len(s) + 1 /\ a[Len(a)] = e
        /\ \A i \in 1 .. Len(s) : a[i] = s[i]
        BY <1>3, <1>6, <2>1
  <2>3. Len(s) \in Nat /\ DOMAIN a = 1 .. Len(s) + 1 /\ DOMAIN s = 1 .. Len(s)
        BY <1>6, <2>2
  <2>4. Range(a) = Range(s) \cup {e}
        BY <2>2, <2>3 DEF Range
  <2>5. IsInjective(a)
    <3> SUFFICES ASSUME NEW i \in DOMAIN a, NEW j \in DOMAIN a, a[i] = a[j] PROVE i = j
        BY DEF IsInjective
    <3>1. CASE i \in DOMAIN s /\ j \in DOMAIN s
          BY <1>6, <2>2, <2>3, <3>1 DEF IsInjective
    <3>2. CASE i = Len(s) + 1 /\ j \in DOMAIN s
          BY <1>6, <2>2, <2>3, <3>2 DEF Range
    <3>3. CASE j = Len(s) + 1 /\ i \in DOMAIN s
          BY <1>6, <2>2, <2>3, <3>3 DEF Range
    <3> QED
        BY <2>3, <3>1, <3>2, <3>3
  <2>6. Range(a) = {p \in {parts[i] : i \in 1 .. n + 1} : tx[p] # "idle"}
    <3>1. Range(s) = {p \in {parts[i] : i \in 1 .. n} : tx[p] # "idle"}
          BY DEF Adds
    <3> HIDE DEF Adds
    <3> QED
        BY <1>4, <1>7, <2>4, <3>1
  <2> QED
      BY <1>2, <1>7, <2>1, <2>2, <2>5, <2>6 DEF Adds
<1>8. CASE tx[e] = "idle"
  <2>1. Range(s) = {p \in {parts[i] : i \in 1 .. n + 1} : tx[p] # "idle"}
    <3>1. Range(s) = {p \in {parts[i] : i \in 1 .. n} : tx[p] # "idle"}
          BY DEF Adds
    <3> QED
        BY <1>4, <1>8, <3>1
  <2> QED
      BY <1>2, <1>6, <1>8, <2>1 DEF Adds
<1> QED
    BY <1>7, <1>8

AddAt(h, i) == IF i = 0 THEN <<>>
               ELSE IF tx[parts[i]] # "idle" THEN Append(h[i - 1], parts[i])
               ELSE h[i - 1]

\* Induction over the naturals, for a set instead of a predicate.
LEMMA NatSets ==
    ASSUME NEW S, 0 \in S, \A n \in Nat : n \in S => n + 1 \in S
    PROVE  Nat \subseteq S
<1> DEFINE T == Nat \ S
           R == OpToRel(<, Nat)
<1> SUFFICES ASSUME T # {} PROVE FALSE
    OBVIOUS
<1>1. PICK x \in T : \A y \in T : ~ (<<y, x>> \in R)
  <2>1. IsWellFoundedOn(R, Nat)
        BY NatLessThanWellFounded
  <2>2. T \subseteq Nat
        OBVIOUS
  <2> HIDE DEF R, T
  <2> QED
      BY <2>1, <2>2, WFMin
<1>2. x # 0
      OBVIOUS
<1>3. x - 1 \in T
      BY <1>2
<1>4. <<x - 1, x>> \in R
      BY <1>2, <1>3 DEF OpToRel
<1> QED
    BY <1>1, <1>3, <1>4

\* The array exists as a function: the one for 0 .. k + 1 is built from the
\* one for 0 .. k.
LEMMA AddedExists ==
    ASSUME NEW n \in Nat
    PROVE  \E h : h = [i \in 0 .. n |-> AddAt(h, i)]
<1> DEFINE Good == {k \in Nat : \E h : h = [i \in 0 .. k |-> AddAt(h, i)]}
<1>1. 0 \in Good
  <2> DEFINE h0 == [i \in 0 .. 0 |-> <<>>]
  <2>1. \A i \in 0 .. 0 : i = 0
        OBVIOUS
  <2>2. h0 = [i \in 0 .. 0 |-> AddAt(h0, i)]
        BY <2>1 DEF AddAt
  <2> QED
      BY <2>2
<1>2. ASSUME NEW k \in Nat, k \in Good PROVE k + 1 \in Good
  <2>1. PICK h : h = [i \in 0 .. k |-> AddAt(h, i)]
        BY <1>2
  <2> DEFINE e == IF tx[parts[k + 1]] # "idle" THEN Append(h[k], parts[k + 1]) ELSE h[k]
             H == [i \in 0 .. k + 1 |-> IF i = k + 1 THEN e ELSE h[i]]
  <2>2. ASSUME NEW i \in 0 .. k PROVE i \in 0 .. k + 1 /\ i # k + 1
        OBVIOUS
  <2>3. \A i \in 0 .. k : H[i] = h[i]
        BY <2>2, Zenon
  <2>4. H[k + 1] = AddAt(H, k + 1)
    <3>1. k + 1 # 0 /\ (k + 1) - 1 = k /\ k \in 0 .. k /\ k + 1 \in 0 .. k + 1
          OBVIOUS
    <3>2. H[k + 1] = e /\ H[k] = h[k]
          BY <2>3, <3>1, Zenon
    <3> HIDE DEF H
    <3> QED
        BY <3>1, <3>2, Zenon DEF AddAt
  <2>5. ASSUME NEW i \in 0 .. k PROVE H[i] = AddAt(H, i)
    <3>1. H[i] = h[i] /\ h[i] = AddAt(h, i)
          BY <2>1, <2>3, Zenon
    <3>2. i # 0 => i - 1 \in 0 .. k
          OBVIOUS
    <3>3. i # 0 => H[i - 1] = h[i - 1]
          BY <2>3, <3>2, Zenon
    <3> HIDE DEF H
    <3> QED
        BY <3>1, <3>3, Zenon DEF AddAt
  <2>6. H = [i \in 0 .. k + 1 |-> AddAt(H, i)]
    <3>1. \A i \in 0 .. k + 1 : i \in 0 .. k \/ i = k + 1
          OBVIOUS
    <3>2. \A i \in 0 .. k + 1 : H[i] = AddAt(H, i)
          BY <2>4, <2>5, <3>1, Zenon
    <3>3. H = [i \in 0 .. k + 1 |-> H[i]]
          BY Zenon
    <3> HIDE DEF H
    <3> QED
        BY <3>2, <3>3, Zenon
  <2>7. k + 1 \in Nat
        OBVIOUS
  <2> HIDE DEF H
  <2> QED
      BY <2>6, <2>7, Zenon
<1> HIDE DEF Good
<1>3. n \in Good
      BY <1>1, <1>2, NatSets
<1> QED
    BY <1>3, Zenon DEF Good

LEMMA ActiveIs == ASSUME Typed PROVE Adds(Len(parts), Active)
<1> DEFINE Of(h, i) == IF i = 0 THEN <<>>
                       ELSE IF tx[parts[i]] # "idle" THEN Append(h[i - 1], parts[i])
                       ELSE h[i - 1]
           added == CHOOSE h : h = [i \in 0 .. Len(parts) |-> Of(h, i)]
<1>1. Active = added[Len(parts)]
      BY Zenon DEF Active
<1>2. Len(parts) \in Nat
      BY PartsAre
<1>3. \A h, i : Of(h, i) = AddAt(h, i)
      BY Zenon DEF AddAt
<1>4. \E h : h = [i \in 0 .. Len(parts) |-> AddAt(h, i)]
      BY <1>2, AddedExists
<1> HIDE DEF Of
<1>5. \E h : h = [i \in 0 .. Len(parts) |-> Of(h, i)]
      BY <1>3, <1>4, Zenon
<1>6. added = [i \in 0 .. Len(parts) |-> Of(added, i)]
      BY <1>5, Zenon
<1> HIDE DEF added
<1>7. \A i \in 0 .. Len(parts) : added[i] = AddAt(added, i)
      BY <1>3, <1>6, Zenon
<1> DEFINE Good == {n \in Nat : n \in 0 .. Len(parts) => Adds(n, added[n])}
<1>8. 0 \in Good
  <2>1. added[0] = <<>>
        BY <1>2, <1>7 DEF AddAt
  <2>2. {parts[i] : i \in 1 .. 0} = {}
        OBVIOUS
  <2>3. <<>> \in Seq(Participant) /\ DOMAIN <<>> = {}
        OBVIOUS
  <2>4. Range(<<>>) = {} /\ IsInjective(<<>>)
        BY <2>3 DEF Range, IsInjective
  <2> QED
      BY <2>1, <2>2, <2>3, <2>4 DEF Adds
<1>9. ASSUME NEW n \in Nat, n \in Good PROVE n + 1 \in Good
  <2> SUFFICES ASSUME n + 1 \in 0 .. Len(parts) PROVE Adds(n + 1, added[n + 1])
      OBVIOUS
  <2>1. n + 1 \in 1 .. Len(parts) /\ n \in 0 .. Len(parts) /\ n + 1 # 0 /\ (n + 1) - 1 = n
        BY <1>2
  <2>2. added[n + 1] = IF tx[parts[n + 1]] # "idle" THEN Append(added[n], parts[n + 1])
                       ELSE added[n]
        BY <1>7, <2>1, Zenon DEF AddAt
  <2>3. Adds(n, added[n])
        BY <1>9, <2>1
  <2> QED
      BY <2>1, <2>2, <2>3, AddedOne
<1> HIDE DEF Good
<1>10. Len(parts) \in Good
      BY <1>2, <1>8, <1>9, NatSets
<1> QED
    BY <1>1, <1>2, <1>10 DEF Good

\* The part of the invariant about the session, without the file.
Core == Typed /\ Unused /\ Staging /\ Resolving

LEMMA EmptyGroup == <<>> \in Seq(Participant) /\ IsInjective(<<>>) /\ Len(<<>>) = 0
<1>1. DOMAIN <<>> = {}
      OBVIOUS
<1> QED
    BY <1>1 DEF IsInjective

LEMMA CoreInit == Init => Core
<1> SUFFICES ASSUME Init PROVE Core
    OBVIOUS
<1>1. run.group = <<>> /\ run.at = 0 /\ run.pc = "idle"
      BY DEF Init, SessionInit, Resting
<1>2. /\ tx = [p \in Participant |-> "idle"] /\ position = [p \in Participant |-> 0]
      /\ parts \in Kinds
      BY DEF Init, SessionInit, Idle, Zero
<1>3. Typed
      BY <1>1, <1>2, EmptyGroup DEF Typed
<1>4. Unused /\ Staging /\ Resolving
      BY <1>1, <1>2 DEF Unused, Staging, Resolving, Participant, Owner
<1> QED
    BY <1>3, <1>4 DEF Core

\* Only the flags of the session change.
LEMMA CoreFlags ==
    ASSUME Core, UNCHANGED <<parts, position, tx, run>>,
           session'.draft = session.draft, session.invalidated => session'.invalidated
    PROVE  Core'
<1>1. Typed'
      BY DEF Core, Typed
<1>2. Unused'
      BY DEF Core, Unused, Range
<1>3. Staging'
      BY DEF Core, Staging
<1>4. Resolving'
  <2>1. Committable' = Committable
        BY DEF Committable, Owners
  <2>2. /\ Places(run.at, Len(run.group))' = Places(run.at, Len(run.group))
        /\ Places(1, run.at)' = Places(1, run.at)
        BY DEF Places
  <2> QED
      BY <2>1, <2>2 DEF Core, Resolving
<1> QED
    BY <1>1, <1>2, <1>3, <1>4 DEF Core

\* The execution begins, or is refused: no participant has a transaction.
LEMMA CoreBegin ==
    ASSUME Core, FlowInv, UNCHANGED <<parts, position, tx>>,
           run'.pc \in {"idle", "validate", "stage"},
           run'.group \in Seq(Participant), IsInjective(run'.group), run'.at \in Nat,
           \A p \in Participant : tx[p] = "idle",
           session'.draft = session.draft, session.invalidated => session'.invalidated
    PROVE  Core'
<1>1. Typed'
      BY DEF Core, Typed
<1>2. Unused'
      BY DEF Core, Unused, Range
<1>3. Staging'
      BY DEF Staging, Owner
<1>4. Resolving'
      BY DEF Resolving
<1> QED
    BY <1>1, <1>2, <1>3, <1>4 DEF Core

LEMMA GroupBegin ==
    ASSUME Core, FlowInv, NEW scope, Begin(scope) PROVE Core'
<1>1. run.pc = "idle" /\ ~session.invalidated
      BY DEF FlowInv, Begin
<1>2. \A p \in Participant : tx[p] = "idle"
      BY <1>1 DEF Core, Staging
<1>3. run' = [Resting EXCEPT !.pc = "validate", !.scope = scope]
      BY DEF Begin
<1>4. run'.pc = "validate" /\ run'.group = <<>> /\ run'.at = 0
      BY <1>3 DEF Resting
<1>5. session'.draft = session.draft /\ (session.invalidated => session'.invalidated)
      BY Zenon DEF Begin, FlowInv, Flags
<1>6. UNCHANGED <<parts, position, tx>>
      BY DEF Begin
<1> QED
    BY <1>2, <1>4, <1>5, <1>6, EmptyGroup, CoreBegin

LEMMA GroupBeginValid ==
    ASSUME Core, FlowInv, BeginValid PROVE Core'
<1>1. run.pc = "validate" /\ run' = [run EXCEPT !.pc = "stage"]
      BY DEF BeginValid
<1>2. run'.pc = "stage" /\ run'.group = run.group /\ run'.at = run.at
      BY <1>1 DEF FlowInv, Field
<1>3. \A p \in Participant : tx[p] = "idle"
      BY <1>1 DEF Core, Staging
<1>4. UNCHANGED <<parts, position, tx, session>>
      BY DEF BeginValid
<1>5. run.group \in Seq(Participant) /\ IsInjective(run.group) /\ run.at \in Nat
      BY DEF Core, Typed
<1> QED
    BY <1>2, <1>3, <1>4, <1>5, CoreBegin

LEMMA GroupBeginInvalid ==
    ASSUME Core, FlowInv, BeginInvalid PROVE Core'
<1>1. run.pc = "validate" /\ run' = Resting
      BY DEF BeginInvalid, Release
<1>2. run'.pc = "idle" /\ run'.group = <<>> /\ run'.at = 0
      BY <1>1 DEF Resting
<1>3. \A p \in Participant : tx[p] = "idle"
      BY <1>1 DEF Core, Staging
<1>4. UNCHANGED <<parts, position, tx>>
      BY DEF BeginInvalid
<1>5. session'.draft = session.draft /\ (session.invalidated => session'.invalidated)
      BY Zenon DEF BeginInvalid, Release, Drifted, FlowInv, Flags
<1> QED
    BY <1>2, <1>3, <1>4, <1>5, EmptyGroup, CoreBegin

\* One participant is staged, or fails to.
LEMMA GroupStage ==
    ASSUME Core, FlowInv, NEW p \in Participant, Stage(p) PROVE Core'
<1>1. /\ run.pc = "stage" /\ run.status = "OK" /\ tx[p] = "idle" /\ p \in Range(parts)
      /\ (run.scope = "global" => p = "target")
      /\ (p \in Owner => position[p] = position["target"])
      /\ tx' = [tx EXCEPT ![p] = "staged"]
      /\ UNCHANGED <<parts, position, run>>
      BY DEF Stage, MayStage
<1>2. /\ session'.draft <=> (session.draft \/ p = "draft")
      /\ session'.invalidated = session.invalidated
      BY Zenon DEF Stage, FlowInv, Flags
<1>3. \A q \in Participant : tx'[q] = IF q = p THEN "staged" ELSE tx[q]
      BY <1>1 DEF Core, Typed
<1>4. Typed'
      BY <1>1 DEF Core, Typed
<1>5. Unused'
  <2>1. Range(parts') = Range(parts)
        BY <1>1
  <2>2. \A q \in Participant \ Range(parts) : tx'[q] = "idle" /\ position'[q] = 0
        BY <1>1, <1>3 DEF Core, Unused
  <2>3. ~session'.draft => tx'["draft"] = "idle"
        BY <1>2, <1>3 DEF Core, Unused, Participant
  <2>4. ~session'.draft /\ ~session'.invalidated => position'["draft"] = 0
        BY <1>1, <1>2 DEF Core, Unused
  <2> QED
      BY <2>1, <2>2, <2>3, <2>4 DEF Unused
<1>6. Staging'
      BY <1>1, <1>3 DEF Core, Staging, Owner
<1>7. Resolving'
      BY <1>1 DEF Resolving
<1> QED
    BY <1>4, <1>5, <1>6, <1>7 DEF Core

LEMMA GroupStageFails ==
    ASSUME Core, FlowInv, NEW p \in Participant, StageFails(p) PROVE Core'
<1>1. PICK t \in {"idle", "open"}, st \in {"ERR", "CANCELLED"} :
         /\ tx' = [tx EXCEPT ![p] = t]
         /\ run' = [run EXCEPT !.status = st]
         /\ session' = [session EXCEPT !.draft = session.draft \/ (p = "draft" /\ t = "open")]
      BY DEF StageFails
<1>2. /\ run.pc = "stage" /\ run.status = "OK" /\ tx[p] = "idle" /\ p \in Range(parts)
      /\ (run.scope = "global" => p = "target")
      /\ UNCHANGED <<parts, position>>
      BY DEF StageFails, MayStage
<1>3. /\ session'.draft <=> (session.draft \/ (p = "draft" /\ t = "open"))
      /\ session'.invalidated = session.invalidated
      BY <1>1, Zenon DEF FlowInv, Flags
<1>4. /\ run'.pc = "stage" /\ run'.status = st /\ st # "OK" /\ run'.scope = run.scope
      /\ run'.group = run.group /\ run'.at = run.at
      BY <1>1, <1>2 DEF FlowInv, Field
<1>5. \A q \in Participant : tx'[q] = IF q = p THEN t ELSE tx[q]
      BY <1>1 DEF Core, Typed
<1>6. Typed'
      BY <1>1, <1>2, <1>4 DEF Core, Typed
<1>7. Unused'
  <2>1. Range(parts') = Range(parts)
        BY <1>2
  <2>2. \A q \in Participant \ Range(parts) : tx'[q] = "idle" /\ position'[q] = 0
        BY <1>2, <1>5 DEF Core, Unused
  <2>3. ~session'.draft => tx'["draft"] = "idle"
        BY <1>3, <1>5 DEF Core, Unused, Participant
  <2>4. ~session'.draft /\ ~session'.invalidated => position'["draft"] = 0
        BY <1>2, <1>3 DEF Core, Unused
  <2> QED
      BY <2>1, <2>2, <2>3, <2>4 DEF Unused
<1>8. Staging'
      BY <1>2, <1>4, <1>5 DEF Core, Staging, Owner
<1>9. Resolving'
      BY <1>4 DEF Resolving
<1> QED
    BY <1>6, <1>7, <1>8, <1>9 DEF Core

\* The finish begins: g is the group, and everyone outside of it is idle.
LEMMA CoreFinish ==
    ASSUME Core, NEW g \in Seq(Participant), IsInjective(g),
           UNCHANGED <<parts, position, tx, session>>,
           run.pc = "stage", run'.group = g,
           \A p \in Participant \ Range(g) : tx[p] = "idle",
           \/ /\ run'.pc = "prepare" /\ run'.at = 1 /\ Range(g) \in Committable
              /\ \A p \in Range(g) : tx[p] = "staged"
           \/ run'.pc = "abort" /\ run'.at = Len(g)
    PROVE  Core'
<1>1. /\ Range(g) = {g[i] : i \in 1 .. Len(g)} /\ Len(g) \in Nat
      /\ \A i \in 1 .. Len(g) : g[i] \in Range(g)
      BY RangeOfSeq
<1>2. Typed'
      BY <1>1 DEF Core, Typed
<1>3. Unused'
      BY DEF Core, Unused
<1>4. Staging'
      BY DEF Core, Staging
<1>5. Resolving'
  <2>1. CASE run'.pc = "prepare"
    <3>1. Committable' = Committable
          BY DEF Committable, Owners
    <3>2. \A i \in 1 .. Len(g) : ~(i < 1)
          BY <1>1
    <3> QED
        BY <1>1, <2>1, <3>1, <3>2 DEF Resolving
  <2>2. CASE run'.pc = "abort"
    <3>1. Places(1, run.at)' = Range(g)
          BY <1>1, <2>2 DEF Places
    <3> QED
        BY <1>1, <2>2, <3>1 DEF Resolving
  <2> QED
      BY <2>1, <2>2
<1> QED
    BY <1>2, <1>3, <1>4, <1>5 DEF Core

LEMMA GroupFinishCoordinated ==
    ASSUME Core, FlowInv, FinishCoordinated PROVE Core'
<1>1. PICK g : g = Active
      OBVIOUS
<1>2. run.pc = "stage" /\ UNCHANGED <<parts, position, tx, session>> /\ run'.group = g
      BY <1>1, FinishCoordinatedIs
<1>3. \/ /\ run'.pc = "prepare" /\ run'.at = 1
         /\ run.status = "OK" /\ Staged
      \/ run'.pc = "abort" /\ run'.at = Len(g)
      BY <1>1, FinishCoordinatedIs
<1>4. /\ g \in Seq(Participant) /\ IsInjective(g)
      /\ Range(g) = {p \in Range(parts) : tx[p] # "idle"}
  <2>1. Adds(Len(parts), g)
        BY <1>1, ActiveIs DEF Core
  <2>2. Range(parts) = {parts[i] : i \in 1 .. Len(parts)}
        BY PartsAre, RangeOfSeq DEF Core
  <2> QED
      BY <2>1, <2>2 DEF Adds
<1>5. \A p \in Participant \ Range(g) : tx[p] = "idle"
      BY <1>4 DEF Core, Unused
<1>6. CASE run'.pc = "prepare"
  <2>1. run.status = "OK" /\ Staged /\ run'.at = 1
        BY <1>3, <1>6
  <2>2. \A p \in Range(g) : tx[p] = "staged"
    <3>1. Range(g) \subseteq Participant
          BY <1>4, RangeOfSeq
    <3> QED
        BY <1>2, <1>4, <2>1, <3>1 DEF Core, Staging
  <2>3. Range(g) \in Committable
    <3>1. Range(parts) \subseteq Participant
          BY PartsAre DEF Core
    <3>2. Owners \subseteq Range(g) /\ Owners = Range(parts) \ {"rng"}
          BY <1>4, <2>1, <3>1 DEF Staged, Owners, Owner
    <3>3. Range(g) = Owners \/ Range(g) = Range(parts)
          BY <1>4, <3>2
    <3> QED
        BY <3>3 DEF Committable
  <2> QED
      BY <1>2, <1>4, <1>5, <1>6, <2>1, <2>2, <2>3, CoreFinish, Zenon
<1>7. CASE run'.pc = "abort" /\ run'.at = Len(g)
      BY <1>2, <1>4, <1>5, <1>7, CoreFinish
<1> QED
    BY <1>3, <1>6, <1>7

LEMMA GroupFinishScope ==
    ASSUME Core, FlowInv, NEW d, FinishScope(d) PROVE Core'
<1>1. PICK g : g = run'.group
      OBVIOUS
<1>2. /\ run.pc = "stage" /\ run.scope = "global"
      /\ UNCHANGED <<parts, position, tx, session>>
      /\ \/ g = <<"target">>
         \/ g = <<>> /\ tx["target"] = "idle" /\ run'.pc = "abort"
      /\ \/ /\ run'.pc = "prepare" /\ run'.at = 1
            /\ run.status = "OK" /\ tx["target"] # "idle"
         \/ run'.pc = "abort" /\ run'.at = Len(g)
      BY <1>1, FinishScopeIs, Zenon
<1>3. CASE g = <<>> /\ tx["target"] = "idle" /\ run'.pc = "abort"
  <2>1. g \in Seq(Participant) /\ IsInjective(g)
        BY <1>3, EmptyGroup
  <2>2. \A p \in Participant : tx[p] = "idle"
        BY <1>2, <1>3 DEF Core, Staging
  <2>3. run'.at = Len(g)
        BY <1>2, <1>3
  <2> QED
      BY <1>1, <1>2, <1>3, <2>1, <2>2, <2>3, CoreFinish, Zenon
<1>4. CASE g = <<"target">>
  <2>1. /\ g \in Seq(Participant) /\ Len(g) = 1 /\ DOMAIN g = {1} /\ g[1] = "target"
        BY <1>4 DEF Participant
  <2>2. IsInjective(g) /\ Range(g) = {"target"}
        BY <2>1 DEF IsInjective, Range
  <2>3. \A p \in Participant \ Range(g) : tx[p] = "idle"
        BY <1>2, <2>2 DEF Core, Staging
  <2>4. run.status = "OK" /\ tx["target"] # "idle" => tx["target"] = "staged"
        BY <1>2 DEF Core, Staging, Participant
  <2>5. Range(g) \in Committable
        BY <2>2 DEF Committable
  <2>6. \/ run'.pc = "prepare" /\ run'.at = 1 /\ tx["target"] = "staged"
        \/ run'.pc = "abort" /\ run'.at = Len(g)
        BY <1>2, <2>4, Zenon
  <2> QED
      BY <1>1, <1>2, <2>1, <2>2, <2>3, <2>5, <2>6, CoreFinish, Zenon
<1> QED
    BY <1>2, <1>3, <1>4

\* One turn of the finish: only a participant with a transaction moves.
LEMMA UnusedTurn ==
    ASSUME Core, UNCHANGED <<parts, session>>, NEW q \in Participant, NEW v,
           tx' = [tx EXCEPT ![q] = v], tx[q] # "idle" \/ v = "idle",
           \A p \in Participant : position'[p] # position[p] => p = q /\ tx[q] # "idle"
    PROVE  Unused' /\ \A p \in Participant : tx'[p] = IF p = q THEN v ELSE tx[p]
<1>1. \A p \in Participant : tx'[p] = IF p = q THEN v ELSE tx[p]
      BY DEF Core, Typed
<1>2. "draft" \in Participant /\ Range(parts') = Range(parts)
      BY DEF Participant
<1>3. \A p \in Participant \ Range(parts) : tx'[p] = "idle" /\ position'[p] = 0
      BY <1>1 DEF Core, Unused
<1>4. ~session'.draft => tx'["draft"] = "idle" /\ position'["draft"] = position["draft"]
      BY <1>1, <1>2 DEF Core, Unused
<1> QED
    BY <1>1, <1>2, <1>3, <1>4 DEF Core, Unused

\* The participant whose turn it is.
LEMMA TurnIs ==
    ASSUME Core, run.at \in 1 .. Len(run.group)
    PROVE  /\ Turn \in Participant /\ Turn \in Range(run.group)
           /\ \A i \in 1 .. Len(run.group) : run.group[i] = Turn <=> i = run.at
           /\ Len(run.group) \in Nat
<1>1. run.group \in Seq(Participant) /\ IsInjective(run.group)
      BY DEF Core, Typed
<1>2. Range(run.group) = {run.group[i] : i \in 1 .. Len(run.group)}
      BY <1>1, RangeOfSeq
<1> QED
    BY <1>1, <1>2 DEF Turn, IsInjective

LEMMA GroupPrepare ==
    ASSUME Core, FlowInv, Prepare PROVE Core'
<1>1. /\ run.pc = "prepare" /\ run.at \in 1 .. Len(run.group)
      /\ tx' = [tx EXCEPT ![Turn] = "prepared"]
      /\ run' = [run EXCEPT !.at = run.at + 1]
      /\ UNCHANGED <<parts, position, session>>
      BY DEF Prepare, Core, Typed, Resolving
<1>2. /\ run'.pc = "prepare" /\ run'.at = run.at + 1 /\ run'.group = run.group
      /\ run'.scope = run.scope /\ run'.at \in Nat /\ run'.at > 0
      BY <1>1 DEF FlowInv, Field, Core, Typed
<1>3. PICK q : q = Turn
      OBVIOUS
<1>4. /\ q \in Participant /\ q \in Range(run.group) /\ Len(run.group) \in Nat
      /\ \A i \in 1 .. Len(run.group) : run.group[i] = q <=> i = run.at
      BY <1>1, <1>3, TurnIs
<1>5. tx[q] = "staged"
      BY <1>1, <1>4 DEF Core, Resolving
<1>6. Unused' /\ \A p \in Participant : tx'[p] = IF p = q THEN "prepared" ELSE tx[p]
  <2>1. /\ q \in Participant /\ tx' = [tx EXCEPT ![q] = "prepared"]
        /\ UNCHANGED <<parts, session>>
        /\ (tx[q] # "idle" \/ "prepared" = "idle")
        /\ \A p \in Participant : position'[p] # position[p] => p = q /\ tx[q] # "idle"
        BY <1>1, <1>3, <1>4, <1>5
  <2> QED
      BY <2>1, UnusedTurn, Zenon
<1>7. Typed'
      BY <1>1, <1>2, <1>4, <1>3 DEF Core, Typed
<1>8. Staging'
      BY <1>1, <1>2, <1>5, <1>6 DEF Core, Staging, Owner
<1>9. Resolving'
  <2>1. Committable' = Committable
        BY <1>1 DEF Committable, Owners
  <2>2. \A i \in 1 .. Len(run.group) :
           tx'[run.group[i]] = IF i < run.at + 1 THEN "prepared" ELSE "staged"
    <3> TAKE i \in 1 .. Len(run.group)
    <3>1. run.group[i] \in Participant
          BY DEF Core, Typed
    <3>2. CASE i = run.at
          BY <1>1, <1>4, <1>6, <3>1, <3>2
    <3>3. CASE i # run.at
      <4>1. tx'[run.group[i]] = tx[run.group[i]]
            BY <1>4, <1>6, <3>1, <3>3
      <4>2. i < run.at + 1 <=> i < run.at
            BY <1>1, <1>4, <3>3
      <4> QED
          BY <1>1, <4>1, <4>2 DEF Core, Resolving
    <3> QED
        BY <3>2, <3>3
  <2>3. \A p \in Participant \ Range(run.group) : tx'[p] = "idle"
        BY <1>1, <1>4, <1>6 DEF Core, Resolving
  <2> QED
      BY <1>1, <1>2, <2>1, <2>2, <2>3 DEF Core, Resolving
<1> QED
    BY <1>6, <1>7, <1>8, <1>9 DEF Core

LEMMA GroupPrepareFails ==
    ASSUME Core, FlowInv, PrepareFails PROVE Core'
<1>1. PICK rc : run' = [run EXCEPT !.pc = "abort", !.rc = rc, !.at = Len(run.group)]
      BY DEF PrepareFails
<1>2. /\ run.pc = "prepare" /\ run.at \in 1 .. Len(run.group)
      /\ tx' = [tx EXCEPT ![Turn] = "open"]
      /\ UNCHANGED <<parts, position, session>>
      BY DEF PrepareFails, Core, Typed, Resolving
<1>3. /\ run'.pc = "abort" /\ run'.at = Len(run.group) /\ run'.group = run.group
      /\ Len(run.group) \in Nat
      BY <1>1 DEF FlowInv, Field, Core, Typed
<1>4. PICK q : q = Turn
      OBVIOUS
<1>5. /\ q \in Participant /\ q \in Range(run.group)
      /\ \A i \in 1 .. Len(run.group) : run.group[i] = q <=> i = run.at
      BY <1>2, <1>4, TurnIs
<1>6. tx[q] = "staged"
      BY <1>2, <1>5 DEF Core, Resolving
<1>7. Unused' /\ \A p \in Participant : tx'[p] = IF p = q THEN "open" ELSE tx[p]
  <2>1. /\ q \in Participant /\ tx' = [tx EXCEPT ![q] = "open"]
        /\ UNCHANGED <<parts, session>>
        /\ (tx[q] # "idle" \/ "open" = "idle")
        /\ \A p \in Participant : position'[p] # position[p] => p = q /\ tx[q] # "idle"
        BY <1>2, <1>4, <1>5, <1>6
  <2> QED
      BY <2>1, UnusedTurn, Zenon
<1>8. Typed'
      BY <1>2, <1>3, <1>4, <1>5 DEF Core, Typed
<1>9. Staging'
      BY <1>3 DEF Staging
<1>10. Resolving'
  <2>1. Places(1, run.at)' = Range(run.group)
        BY <1>3, RangeOfSeq DEF Places, Core, Typed
  <2>2. \A p \in Participant \ Range(run.group) : tx'[p] = "idle"
        BY <1>2, <1>5, <1>7 DEF Core, Resolving
  <2> QED
      BY <1>3, <2>1, <2>2 DEF Resolving
<1> QED
    BY <1>7, <1>8, <1>9, <1>10 DEF Core

LEMMA GroupPrepared ==
    ASSUME Core, FlowInv, Prepared PROVE Core'
<1>1. /\ run.pc = "prepare" /\ run.at > Len(run.group)
      /\ run' = [run EXCEPT !.pc = "publish", !.at = 1]
      /\ UNCHANGED <<parts, position, tx, session>>
      BY DEF Prepared
<1>2. run'.pc = "publish" /\ run'.at = 1 /\ run'.group = run.group
      BY <1>1 DEF FlowInv, Field
<1>3. Range(run.group) = {run.group[i] : i \in 1 .. Len(run.group)}
      /\ Len(run.group) \in Nat /\ run.at \in Nat
      BY RangeOfSeq DEF Core, Typed
<1>4. Places(run.at, Len(run.group))' = Range(run.group)
      BY <1>2, <1>3 DEF Places
<1>5. \A p \in Range(run.group) : tx[p] = "prepared"
  <2> SUFFICES ASSUME NEW i \in 1 .. Len(run.group) PROVE tx[run.group[i]] = "prepared"
      BY <1>3
  <2>1. i < run.at
        BY <1>1, <1>3
  <2> QED
      BY <1>1, <2>1 DEF Core, Resolving
<1>6. Resolving'
      BY <1>1, <1>2, <1>4, <1>5 DEF Core, Resolving
<1>7. Typed' /\ Unused' /\ Staging'
      BY <1>1, <1>2 DEF Core, Typed, Unused, Staging
<1> QED
    BY <1>6, <1>7 DEF Core

LEMMA GroupPublish ==
    ASSUME Core, FlowInv, Positions, Publish PROVE Core'
<1>1. /\ run.pc = "publish" /\ run.at \in 1 .. Len(run.group)
      /\ run' = [run EXCEPT !.at = run.at + 1]
      /\ UNCHANGED <<parts, session>>
      BY DEF Publish, Core, Typed, Resolving
<1>2. /\ run'.pc = "publish" /\ run'.at = run.at + 1 /\ run'.group = run.group
      /\ run'.at \in Nat /\ run'.at > 0
      BY <1>1 DEF FlowInv, Field, Core, Typed
<1>3. PICK q : q = Turn
      OBVIOUS
<1>4. /\ q \in Participant /\ q \in Range(run.group) /\ Len(run.group) \in Nat
      /\ \A i \in 1 .. Len(run.group) : run.group[i] = q <=> i = run.at
      BY <1>1, <1>3, TurnIs
<1>5. /\ Places(run.at, Len(run.group)) = Places(run.at + 1, Len(run.group)) \cup {q}
      /\ q \notin Places(run.at + 1, Len(run.group))
      BY <1>1, <1>3, <1>4 DEF Places, Turn
<1>6. tx[q] = "prepared"
      BY <1>1, <1>5 DEF Core, Resolving
<1>7. /\ position' = [position EXCEPT ![q] = position[q] + 1]
      /\ tx' = [tx EXCEPT ![q] = "idle"]
      BY <1>3, <1>6 DEF Publish
<1>8. \A p \in Participant : position'[p] # position[p] => p = q
      BY <1>7 DEF Positions
<1>9. Unused' /\ \A p \in Participant : tx'[p] = IF p = q THEN "idle" ELSE tx[p]
  <2>1. /\ q \in Participant /\ tx' = [tx EXCEPT ![q] = "idle"]
        /\ UNCHANGED <<parts, session>>
        /\ \A p \in Participant : position'[p] # position[p] => p = q /\ tx[q] # "idle"
        BY <1>1, <1>4, <1>6, <1>7, <1>8
  <2> QED
      BY <2>1, UnusedTurn, Zenon
<1>10. Typed'
      BY <1>1, <1>2, <1>4, <1>7 DEF Core, Typed
<1>11. Staging'
      BY <1>2 DEF Staging
<1>12. Resolving'
  <2>1. Places(run.at, Len(run.group))' = Places(run.at + 1, Len(run.group))
        BY <1>2 DEF Places
  <2>2. /\ \A p \in Places(run.at, Len(run.group)) : tx[p] = "prepared"
        /\ \A p \in Participant \ Places(run.at, Len(run.group)) : tx[p] = "idle"
        BY <1>1 DEF Core, Resolving
  <2>3. Places(run.at + 1, Len(run.group)) \subseteq Participant
        BY <1>1, <1>4 DEF Places, Core, Typed
  <2>4. /\ \A p \in Places(run.at + 1, Len(run.group)) : tx'[p] = "prepared"
        /\ \A p \in Participant \ Places(run.at + 1, Len(run.group)) : tx'[p] = "idle"
        BY <1>5, <1>9, <2>2, <2>3
  <2> QED
      BY <1>2, <2>1, <2>4 DEF Resolving
<1> QED
    BY <1>9, <1>10, <1>11, <1>12 DEF Core

LEMMA GroupCommitted ==
    ASSUME Core, FlowInv, Committed PROVE Core'
<1>1. /\ run.pc = "publish" /\ run.at > Len(run.group) /\ run' = Resting
      /\ UNCHANGED <<parts, position, tx>>
      BY DEF Committed, Release
<1>2. run'.pc = "idle" /\ run'.group = <<>> /\ run'.at = 0
      BY <1>1 DEF Resting
<1>3. Places(run.at, Len(run.group)) = {}
      BY <1>1 DEF Places, Core, Typed
<1>4. \A p \in Participant : tx[p] = "idle"
      BY <1>1, <1>3 DEF Core, Resolving
<1>5. session'.draft = session.draft /\ session'.invalidated = session.invalidated
      BY Zenon DEF Committed, Release, FlowInv, Flags
<1> QED
    BY <1>1, <1>2, <1>4, <1>5, EmptyGroup, CoreBegin

LEMMA GroupAbort ==
    ASSUME Core, FlowInv, Abort PROVE Core'
<1>1. PICK failed \in BOOLEAN, left \in {"open", "idle"} :
         /\ (left = "open" => failed /\ tx[Turn] # "idle")
         /\ tx' = [tx EXCEPT ![Turn] = left]
         /\ run' = [run EXCEPT !.at = run.at - 1,
                               !.abort_failed = run.abort_failed \/ failed]
      BY Zenon DEF Abort
<1>2. /\ run.pc = "abort" /\ run.at \in 1 .. Len(run.group)
      /\ UNCHANGED <<parts, position, session>>
      BY DEF Abort, Core, Typed, Resolving
<1>3. /\ run'.pc = "abort" /\ run'.at = run.at - 1 /\ run'.group = run.group
      BY <1>1, <1>2 DEF FlowInv, Field
<1>4. run'.abort_failed = (run.abort_failed \/ failed)
      BY <1>1, Zenon DEF FlowInv, Field
<1>5. PICK q : q = Turn
      OBVIOUS
<1>6. /\ q \in Participant /\ Len(run.group) \in Nat
      /\ run.at - 1 \in Nat /\ run.at - 1 <= Len(run.group)
      BY <1>2, <1>5, TurnIs
<1>7. Unused' /\ \A p \in Participant : tx'[p] = IF p = q THEN left ELSE tx[p]
  <2>1. /\ tx' = [tx EXCEPT ![q] = left] /\ UNCHANGED <<parts, session>>
        /\ (tx[q] # "idle" \/ left = "idle")
        /\ \A p \in Participant : position'[p] # position[p] => p = q /\ tx[q] # "idle"
        BY <1>1, <1>2, <1>5
  <2> QED
      BY <1>6, <2>1, UnusedTurn, Zenon
<1>8. Typed'
      BY <1>1, <1>2, <1>3, <1>5, <1>6 DEF Core, Typed
<1>9. Staging'
      BY <1>3 DEF Staging
<1>10. Resolving'
  <2>1. Places(1, run.at)' = Places(1, run.at - 1)
        BY <1>3 DEF Places
  <2>2. Places(1, run.at) = Places(1, run.at - 1) \cup {q}
        BY <1>2, <1>5, <1>6 DEF Places, Turn
  <2>3. ASSUME ~run'.abort_failed
        PROVE  \A p \in Participant \ Places(1, run.at - 1) : tx'[p] = "idle"
    <3>1. ~run.abort_failed /\ ~failed
          BY <1>4, <2>3, Zenon
    <3>2. left = "idle"
          BY <1>1, <3>1
    <3>3. \A p \in Participant \ Places(1, run.at) : tx[p] = "idle"
          BY <1>2, <3>1 DEF Core, Resolving
    <3> QED
        BY <1>7, <2>2, <3>2, <3>3
  <2> QED
      BY <1>3, <1>6, <2>1, <2>3 DEF Resolving
<1> QED
    BY <1>7, <1>8, <1>9, <1>10 DEF Core

LEMMA GroupAborted ==
    ASSUME Core, FlowInv, Aborted PROVE Core' /\ (session.invalidated => session'.invalidated)
<1>1. run.pc = "abort" /\ run.at = 0 /\ run' = Resting /\ UNCHANGED <<parts, position, tx>>
      BY DEF Aborted, Release
<1>2. run'.pc = "idle" /\ run'.group = <<>> /\ run'.at = 0
      BY <1>1 DEF Resting
<1>3. PICK b \in BOOLEAN : b <=> Boundary
      BY Zenon
<1>4. run.abort_failed => b
      BY <1>3, Zenon DEF Boundary
<1>5. /\ session'.draft = session.draft
      /\ session'.invalidated <=> (session.invalidated \/ b)
  <2> DEFINE s == [session EXCEPT !.invalidated = session.invalidated \/ Boundary]
  <2>1. /\ s \in Flags /\ s.draft = session.draft
        /\ s.invalidated <=> (session.invalidated \/ b)
        BY <1>3, Zenon DEF FlowInv, Flags
  <2>2. \E t \in Invalidated(s) \cup {s} : Release(t)
        BY DEF Aborted, Invalidated
  <2> HIDE DEF s
  <2>3. PICK t \in Invalidated(s) \cup {s} : Release(t)
        BY <2>2
  <2>4. t \in Flags /\ t.draft = s.draft /\ t.invalidated = s.invalidated
        BY <2>1, Zenon DEF Invalidated, Flags
  <2>5. session' = [t EXCEPT !.busy = FALSE]
        BY <2>3 DEF Release
  <2>6. session'.draft = t.draft /\ session'.invalidated = t.invalidated
        BY <2>4, <2>5, Zenon DEF Flags
  <2> QED
      BY <2>1, <2>4, <2>6, Zenon
<1>6. CASE ~run.abort_failed
  <2>1. Places(1, run.at) = {}
        BY <1>1 DEF Places
  <2>2. \A p \in Participant : tx[p] = "idle"
        BY <1>1, <1>6, <2>1 DEF Core, Resolving
  <2> QED
      BY <1>1, <1>2, <1>5, <2>2, EmptyGroup, CoreBegin
<1>7. CASE run.abort_failed
  <2>1. session'.invalidated
        BY <1>4, <1>5, <1>7
  <2>2. Typed'
        BY <1>1, <1>2, EmptyGroup DEF Core, Typed
  <2>3. Unused'
        BY <1>1, <1>5, <2>1 DEF Core, Unused
  <2>4. Staging' /\ Resolving'
        BY <1>2, <2>1 DEF Staging, Resolving
  <2> QED
      BY <1>5, <2>2, <2>3, <2>4 DEF Core
<1> QED
    BY <1>6, <1>7

\* The session is at rest and its positions are replaced.
LEMMA CoreRest ==
    ASSUME Core, UNCHANGED <<parts, tx, run>>, run.pc = "idle",
           session.invalidated => session'.invalidated,
           session.draft => session'.draft,
           \A p \in Participant \ Range(parts) : position'[p] = 0,
           ~session'.draft /\ ~session'.invalidated => position'["draft"] = 0
    PROVE  Core'
<1>1. Typed'
      BY DEF Core, Typed
<1>2. Unused'
      BY DEF Core, Unused
<1>3. Staging'
      BY DEF Core, Staging
<1>4. Resolving'
      BY DEF Resolving
<1> QED
    BY <1>1, <1>2, <1>3, <1>4 DEF Core

LEMMA GroupReset ==
    ASSUME Core, FlowInv, Reset PROVE Core'
<1>1. run.pc = "idle" /\ UNCHANGED <<parts, tx, session, run>>
      BY DEF Reset, MayReset, FlowInv
<1>2. \A p \in Participant : position'[p] \in {0, position[p]}
      BY DEF Reset, Cleared
<1>3. "draft" \in Participant
      BY DEF Participant
<1> QED
    BY <1>1, <1>2, <1>3, CoreRest DEF Core, Unused

LEMMA GroupResetFails ==
    ASSUME Core, FlowInv, ResetFails
    PROVE  Core' /\ session'.invalidated /\ session'.draft = session.draft
<1>1. run.pc = "idle" /\ UNCHANGED <<parts, tx, run>>
      BY DEF ResetFails, MayReset, FlowInv
<1>2. \A p \in Participant : position'[p] \in {0, position[p]}
  <2>1. PICK banks, hosts : Cleared(banks, hosts)
        BY Zenon DEF ResetFails
  <2> QED
      BY <2>1 DEF Cleared
<1>3. session'.invalidated /\ session'.draft = session.draft
      BY Zenon DEF ResetFails, Invalidated, FlowInv, Flags
<1> QED
    BY <1>1, <1>2, <1>3, CoreRest DEF Core, Unused

LEMMA GroupRestore ==
    ASSUME Core, FlowInv, Positions, Restore PROVE Core'
<1>1. run.pc = "idle" /\ UNCHANGED <<parts, tx, run>> /\ ~session.invalidated
      BY DEF Restore, MayStore, FlowInv
<1>2. /\ dest \in Image /\ dest.scopes \in {1, 2} /\ Loaded(6)
      /\ (dest.scopes = 2 => "draft" \in Range(parts))
      /\ (dest.scopes = 1 => ~session.draft)
      BY ScopesAssumption DEF Restore, Fits, Owners
<1>3. /\ session'.draft <=> (session.draft \/ dest.scopes = 2)
      /\ session'.invalidated = session.invalidated
      BY Zenon DEF Restore, FlowInv, Flags
<1>4. \A p \in Participant :
         position'[p] # position[p] => p = "target" \/ (p = "draft" /\ dest.scopes = 2)
      BY <1>2, LoadedIs
<1>5. "target" \in Range(parts) /\ "draft" \in Participant
      BY PartsAre DEF Core, Participant
<1>6. \A p \in Participant \ Range(parts) : position'[p] = 0
      BY <1>2, <1>4, <1>5 DEF Core, Unused
<1>7. ~session'.draft => position'["draft"] = 0
      BY <1>1, <1>3, <1>4, <1>5 DEF Core, Unused
<1> QED
    BY <1>1, <1>3, <1>6, <1>7, CoreRest

LEMMA GroupRestoreFails ==
    ASSUME Core, FlowInv, Positions, RestoreFails PROVE Core' /\ session'.invalidated
<1>1. run.pc = "idle" /\ UNCHANGED <<parts, tx, run>>
      BY DEF RestoreFails, MayStore, FlowInv
<1>2. /\ dest \in Image /\ dest.scopes \in {1, 2}
      /\ (dest.scopes = 2 => "draft" \in Range(parts))
      BY ScopesAssumption DEF RestoreFails, Fits, Owners
<1>3. PICK k : Loaded(k)
      BY DEF RestoreFails, Midway
<1>4. session'.invalidated /\ session'.draft = session.draft
      BY Zenon DEF RestoreFails, Invalidated, FlowInv, Flags
<1>5. \A p \in Participant :
         position'[p] # position[p] => p = "target" \/ (p = "draft" /\ dest.scopes = 2)
      BY <1>2, <1>3, LoadedIs
<1>6. "target" \in Range(parts)
      BY PartsAre DEF Core
<1>7. \A p \in Participant \ Range(parts) : position'[p] = 0
      BY <1>2, <1>5, <1>6 DEF Core, Unused
<1> QED
    BY <1>1, <1>4, <1>7, CoreRest

LEMMA GroupCrash ==
    ASSUME Core, Crash PROVE Core'
<1>1. run'.group = <<>> /\ run'.at = 0 /\ run'.pc = "idle"
      BY DEF Crash, Reopen, Resting
<1>2. /\ tx' = [p \in Participant |-> "idle"] /\ position' = [p \in Participant |-> 0]
      /\ parts' = parts
      BY DEF Crash, Reopen, Idle, Zero
<1>3. Typed'
      BY <1>1, <1>2, EmptyGroup DEF Core, Typed
<1>4. Unused' /\ Staging' /\ Resolving'
      BY <1>1, <1>2 DEF Unused, Staging, Resolving, Participant, Owner
<1> QED
    BY <1>3, <1>4 DEF Core

LEMMA CoreStep ==
    ASSUME Core, FlowInv, Positions, [Next]_vars PROVE Core'
<1>1. ASSUME NEW scope, Begin(scope) PROVE Core'
      BY <1>1, GroupBegin
<1>2. ASSUME NEW p \in Participant, Stage(p) \/ StageFails(p) PROVE Core'
      BY <1>2, GroupStage, GroupStageFails
<1>3. ASSUME NEW d, FinishScope(d) PROVE Core'
      BY <1>3, GroupFinishScope
<1>4. CASE BeginValid \/ BeginInvalid \/ FinishCoordinated
      BY <1>4, GroupBeginValid, GroupBeginInvalid, GroupFinishCoordinated
<1>5. CASE Prepare \/ PrepareFails \/ Prepared
      BY <1>5, GroupPrepare, GroupPrepareFails, GroupPrepared
<1>6. CASE Publish \/ Committed \/ Abort \/ Aborted
      BY <1>6, GroupPublish, GroupCommitted, GroupAbort, GroupAborted
<1>7. CASE Drift
  <2>1. UNCHANGED <<parts, position, tx, run>>
        BY <1>7 DEF Drift
  <2>2. session'.draft = session.draft /\ session'.invalidated
        BY <1>7, Zenon DEF Drift, Drifted, Invalidated, FlowInv, Flags
  <2> QED
      BY <2>1, <2>2, CoreFlags
<1>8. CASE Reset \/ ResetFails
      BY <1>8, GroupReset, GroupResetFails
<1>9. CASE CloseBegin \/ CloseWake \/ CloseRelease \/ CloseFails
  <2>1. UNCHANGED <<parts, position, tx, run>>
        BY <1>9 DEF CloseBegin, CloseWake, CloseRelease, CloseFails
  <2>2. session'.draft = session.draft /\ session'.invalidated = session.invalidated
        BY <1>9, Zenon DEF CloseBegin, CloseWake, CloseRelease, CloseFails, FlowInv, Flags
  <2> QED
      BY <2>1, <2>2, CoreFlags
<1>10. CASE Save \/ Saving \/ UNCHANGED vars
      BY <1>10, CoreFlags DEF Save, Saving, vars, sessionVars
<1>11. CASE Restore \/ RestoreFails
      BY <1>11, GroupRestore, GroupRestoreFails
<1>12. CASE Crash
      BY <1>12, GroupCrash
<1>13. ASSUME NEW p \in Attention, PrepareState(p) PROVE Core'
      BY <1>13, CoreFlags DEF PrepareState
<1> QED
    BY <1>1, <1>2, <1>3, <1>4, <1>5, <1>6, <1>7, <1>8, <1>9, <1>10, <1>11, <1>12, <1>13
    DEF Next, Session, SessionNext, RunStep, CloseStep

\* What a save writes has one extent, whatever became of the earlier ones.
LEMMA FilesStep ==
    ASSUME Files, [Next]_vars PROVE Files'
<1>1. Even(NoFile) /\ Even(Torn) /\ Even(image) /\ Even(dest) /\ \A i \in disk : Even(i)
      BY ImageAssumption DEF Files, Even
<1>2. CASE Save
  <2>1. PICK now : now = Now
        OBVIOUS
  <2>2. now.scopes = 2 => now.draft = now.target
        BY <1>2, <2>1 DEF Save, Extents, Now
  <2>3. image' = now /\ UNCHANGED <<dest, disk>>
        BY <1>2, <2>1 DEF Save, WriterOpen
  <2>4. Even(now)
        BY <2>2 DEF Even
  <2>5. Even(image)' /\ Even(dest)' /\ \A i \in disk' : Even(i)
        BY <1>1, <2>3, <2>4 DEF Even
  <2> QED
      BY <2>5 DEF Files
<1>3. CASE Saving \/ Crash
  <2>1. /\ image' \in {image, NoFile}
        /\ dest' \in disk \cup {dest, NoFile, image}
        /\ disk' \subseteq disk \cup {dest, NoFile, image, Torn}
        BY <1>3 DEF Saving, Crash, WriterStep, WriterWrite, WriterSync, Link, LinkFails,
           WriterUnlink, WriterPublish, WriterPublishFails, WriterClose, WriterEnd, Fail,
           Stop, Durable
  <2>2. Even(image)' /\ Even(dest)' /\ \A i \in disk' : Even(i)
        BY <1>1, <2>1 DEF Even
  <2> QED
      BY <2>2 DEF Files
<1>4. CASE UNCHANGED storeVars
      BY <1>4 DEF Files, Even, storeVars
<1> QED
    BY <1>2, <1>3, <1>4 DEF Next, Session, Restore, RestoreFails, vars

\* The group invariant holds along every behaviour: a finish that prepares has
\* the target, every owner or everyone, all of them staged from one position.
THEOREM GroupInvariance == Spec => []GroupInv
<1>1. Init => GroupInv
  <2>1. Init => Files
        BY ImageAssumption DEF Init, StoreInit, Files, Even
  <2> QED
      BY <2>1, CoreInit DEF GroupInv, Core
<1>2. FlowInv /\ Positions /\ GroupInv /\ [Next]_vars => GroupInv'
      BY CoreStep, FilesStep DEF GroupInv, Core
<1> QED
    BY <1>1, <1>2, SessionInvariance, PTL DEF Spec
-----------------------------------------------------------------------------
(***************************************************************************)
(* The residencies.  A candidate that the finish may publish has one, a    *)
(* prepared provider has a prepared one, and in a session that may be used *)
(* it serves what the provider has committed.                              *)
(***************************************************************************)
Residency == [bank : Nat \cup {NoBank}, prepared : BOOLEAN]

\* The position that a residency, or none, stands for.
Serves(d) == IF d.bank = NoBank THEN 0 ELSE d.bank

BankInv ==
    /\ device \in [Attention -> Residency]
    /\ run.pc \in {"stage", "prepare", "publish"} =>
          \A p \in Attention : tx[p] \in {"staged", "prepared"} => device[p].bank # NoBank
    /\ run.pc \in {"prepare", "publish"} =>
          \A p \in Attention : tx[p] = "prepared" => device[p].prepared
    /\ ~session.invalidated => \A p \in Attention : position[p] = Serves(device[p])

LEMMA BankInit == Init => BankInv
BY CapacityAssumption DEF Init, SessionInit, BankInv, Serves, Residency, None, Zero, Idle,
   Resting, Participant, Attention

\* The transactions and the finish go on, the banks stay.
LEMMA BankKeeps ==
    ASSUME BankInv, UNCHANGED <<position, device>>,
           session.invalidated => session'.invalidated,
           \/ run'.pc \in {"idle", "validate", "abort"}
           \/ /\ run'.pc = "stage"
              /\ \A p \in Attention :
                    tx'[p] \in {"staged", "prepared"} => device[p].bank # NoBank
           \/ UNCHANGED <<tx, run>>
           \/ /\ run.pc = "stage" /\ run'.pc = "prepare" /\ UNCHANGED tx
              /\ \A p \in Attention : tx[p] # "prepared"
           \/ run.pc = "prepare" /\ run'.pc = "publish" /\ UNCHANGED tx
    PROVE  BankInv'
BY DEF BankInv, Serves

\* A finish that prepares has an execution that staged everything or nothing.
LEMMA FinishKeeps ==
    ASSUME Core, FlowInv, BankInv, FinishCoordinated \/ \E d : FinishScope(d)
    PROVE  BankInv'
<1>1. /\ run.pc = "stage" /\ UNCHANGED <<position, device, tx, session>>
      /\ run'.pc = "abort" \/ (run'.pc = "prepare" /\ run.status = "OK")
      BY FinishCoordinatedIs, FinishScopeIs, Zenon
<1>2. run.status = "OK" => \A p \in Attention : tx[p] # "prepared"
      BY <1>1 DEF Core, Staging, Attention, Participant
<1> QED
    BY <1>1, <1>2, BankKeeps

LEMMA ArmedIs ==
    ASSUME BankInv, NEW b \in BOOLEAN
    PROVE  /\ Armed(b) \in [Attention -> Residency]
           /\ \A p \in Attention :
                 /\ Armed(b)[p].bank = device[p].bank
                 /\ p # Turn => Armed(b)[p] = device[p]
                 /\ p = Turn /\ device[p].bank # NoBank => Armed(b)[p].prepared = b
BY DEF BankInv, Residency, Armed

LEMMA BankPrepare ==
    ASSUME Core, FlowInv, BankInv, Prepare PROVE BankInv'
<1>1. /\ run.pc = "prepare" /\ run.at \in 1 .. Len(run.group)
      /\ tx' = [tx EXCEPT ![Turn] = "prepared"]
      /\ run' = [run EXCEPT !.at = run.at + 1]
      /\ UNCHANGED <<position, session>> /\ device' = Armed(TRUE)
      BY DEF Prepare, Core, Typed, Resolving
<1>2. run'.pc = "prepare"
      BY <1>1 DEF FlowInv, Field
<1>3. /\ Turn \in Participant
      /\ \A i \in 1 .. Len(run.group) : run.group[i] = Turn <=> i = run.at
      BY <1>1, TurnIs
<1>4. tx[Turn] = "staged"
      BY <1>1, <1>3 DEF Core, Resolving
<1>5. \A p \in Attention : tx'[p] = IF p = Turn THEN "prepared" ELSE tx[p]
      BY <1>1, <1>3 DEF Core, Typed, Attention, Participant
<1>6. /\ device' \in [Attention -> Residency]
      /\ \A p \in Attention :
            /\ device'[p].bank = device[p].bank
            /\ p # Turn => device'[p] = device[p]
            /\ p = Turn /\ device[p].bank # NoBank => device'[p].prepared = TRUE
      BY <1>1, ArmedIs
<1>7. \A p \in Attention : tx'[p] \in {"staged", "prepared"} => device'[p].bank # NoBank
      BY <1>1, <1>4, <1>5, <1>6 DEF BankInv
<1>8. ASSUME NEW p \in Attention, tx'[p] = "prepared" PROVE device'[p].prepared
  <2>1. CASE p = Turn
    <3>1. device[p].bank # NoBank
          BY <1>1, <1>4, <2>1 DEF BankInv
    <3> QED
        BY <1>6, <2>1, <3>1, Zenon
  <2>2. CASE p # Turn
    <3>1. tx[p] = "prepared" /\ device'[p] = device[p]
          BY <1>5, <1>6, <1>8, <2>2, Zenon
    <3> QED
        BY <1>1, <3>1 DEF BankInv
  <2> QED
      BY <2>1, <2>2
<1>9. ~session'.invalidated => \A p \in Attention : position'[p] = Serves(device'[p])
      BY <1>1, <1>6 DEF BankInv, Serves
<1> QED
    BY <1>6, <1>7, <1>8, <1>9 DEF BankInv, Serves

\* A finish that gives up leaves every bank where it was.
LEMMA BankGivesUp ==
    ASSUME FlowInv, BankInv, PrepareFails \/ Abort PROVE BankInv'
<1>1. UNCHANGED <<position, session>> /\ device' \in {device, Armed(TRUE), Armed(FALSE)}
      BY DEF PrepareFails, Abort
<1>2. run'.pc = "abort"
  <2>1. CASE PrepareFails
        BY <2>1 DEF PrepareFails, FlowInv, Field
  <2>2. CASE Abort
    <3>1. run.pc = "abort"
          BY <2>2 DEF Abort
    <3>2. run'.pc = run.pc
          BY <2>2, Zenon DEF Abort, FlowInv, Field
    <3> QED
        BY <3>1, <3>2
  <2> QED
      BY <2>1, <2>2
<1>3. /\ device' \in [Attention -> Residency]
      /\ \A p \in Attention : device'[p].bank = device[p].bank
      BY <1>1, ArmedIs DEF BankInv
<1> QED
    BY <1>1, <1>2, <1>3 DEF BankInv, Serves

LEMMA BankPublish ==
    ASSUME Core, FlowInv, Positions, BankInv, Publish PROVE BankInv'
<1>1. /\ run.pc = "publish" /\ run.at \in 1 .. Len(run.group)
      /\ run' = [run EXCEPT !.at = run.at + 1] /\ UNCHANGED session
      BY DEF Publish, Core, Typed, Resolving
<1>2. run'.pc = "publish"
      BY <1>1 DEF FlowInv, Field
<1>3. PICK q : q = Turn
      OBVIOUS
<1>4. q \in Participant /\ Len(run.group) \in Nat
      BY <1>1, <1>3, TurnIs
<1>5. q \in Places(run.at, Len(run.group))
      BY <1>1, <1>3, <1>4 DEF Places, Turn
<1>6. tx[q] = "prepared"
      BY <1>1, <1>5 DEF Core, Resolving
<1>7. /\ position' = [position EXCEPT ![q] = position[q] + 1]
      /\ tx' = [tx EXCEPT ![q] = "idle"]
      /\ device' = [p \in Attention |->
                       IF p = q /\ device[p].prepared
                       THEN [bank |-> device[p].bank + 1, prepared |-> FALSE]
                       ELSE device[p]]
      BY <1>3, <1>6 DEF Publish
<1>8. \A p \in Participant : /\ tx'[p] = IF p = q THEN "idle" ELSE tx[p]
                             /\ position'[p] = IF p = q THEN position[p] + 1 ELSE position[p]
      BY <1>4, <1>7 DEF Core, Typed, Positions
<1>9. q \in Attention => device[q].prepared /\ device[q].bank \in Nat
      BY <1>1, <1>6 DEF BankInv, Residency
<1>10. \A p \in Attention : p \in Participant
      BY DEF Attention, Participant
<1>11. /\ \A p \in Attention \ {q} : device'[p] = device[p]
       /\ q \in Attention =>
             /\ device'[q] = [bank |-> device[q].bank + 1, prepared |-> FALSE]
             /\ device'[q].bank = device[q].bank + 1
             /\ device'[q] \in Residency
      BY <1>7, <1>9 DEF Residency
<1>12. device' \in [Attention -> Residency]
  <2>1. \A p \in Attention : device'[p] \in Residency
        BY <1>11, Zenon DEF BankInv
  <2>2. device' = [p \in Attention |-> device'[p]]
        BY <1>7
  <2> QED
      BY <2>1, <2>2
<1>13. \A p \in Attention : /\ tx'[p] \in {"staged", "prepared"} => device'[p].bank # NoBank
                            /\ tx'[p] = "prepared" => device'[p].prepared
      BY <1>1, <1>8, <1>10, <1>11 DEF BankInv
<1>14. ASSUME ~session'.invalidated, NEW p \in Attention
       PROVE  position'[p] = Serves(device'[p])
  <2>1. position[p] = Serves(device[p])
        BY <1>1, <1>14 DEF BankInv
  <2>2. CASE p = q
    <3>1. device'[p].bank = device[p].bank + 1 /\ device[p].bank \in Nat
          BY <1>9, <1>11, <2>2
    <3>2. device[p].bank # NoBank /\ device'[p].bank # NoBank
          BY <3>1, CapacityAssumption
    <3> QED
        BY <1>8, <1>10, <2>1, <2>2, <3>1, <3>2 DEF Serves
  <2>3. CASE p # q
        BY <1>8, <1>10, <1>11, <2>1, <2>3
  <2> QED
      BY <2>2, <2>3
<1> QED
    BY <1>2, <1>12, <1>13, <1>14 DEF BankInv, Serves

\* The session is at rest and its banks are replaced.
LEMMA BankRest ==
    ASSUME device' \in [Attention -> Residency], run'.pc = "idle",
           ~session'.invalidated => \A p \in Attention : position'[p] = Serves(device'[p])
    PROVE  BankInv'
BY DEF BankInv, Serves

LEMMA BankReset ==
    ASSUME FlowInv, FlowInv', BankInv, Reset \/ ResetFails PROVE BankInv'
<1>1. run'.pc = "idle"
      BY DEF Reset, ResetFails, MayReset, FlowInv
<1>2. PICK banks, hosts :
         /\ Cleared(banks, hosts)
         /\ Reset => banks = Participant /\ hosts = Participant
      BY Zenon DEF Reset, ResetFails
<1>3. /\ device' \in [Attention -> Residency]
      /\ \A p \in Attention : device'[p] = IF p \in Resettable \cap banks
                                           THEN [bank |-> 0, prepared |-> FALSE]
                                           ELSE device[p]
      BY <1>2 DEF Cleared, BankInv, Residency
<1>4. CASE Reset
  <2>1. session' = session
        BY <1>4 DEF Reset
  <2>2. ASSUME ~session.invalidated, NEW p \in Attention
        PROVE  position'[p] = Serves(device'[p])
    <3>1. p \in Participant
          BY DEF Attention, Participant
    <3>2. position'[p] = IF p \in Resettable THEN 0 ELSE position[p]
          BY <1>2, <1>4, <3>1 DEF Cleared
    <3>3. CASE p \in Resettable
      <4>1. device'[p].bank = 0 /\ 0 # NoBank
            BY <1>2, <1>3, <1>4, <3>1, <3>3, CapacityAssumption
      <4> QED
          BY <3>2, <3>3, <4>1 DEF Serves
    <3>4. CASE p \notin Resettable
          BY <1>3, <2>2, <3>2, <3>4 DEF BankInv
    <3> QED
        BY <3>3, <3>4
  <2> QED
      BY <1>1, <1>3, <2>1, <2>2, BankRest
<1>5. CASE ResetFails
  <2>1. session'.invalidated
        BY <1>5, Zenon DEF ResetFails, Invalidated, FlowInv, Flags
  <2> QED
      BY <1>1, <1>3, <2>1, BankRest
<1> QED
    BY <1>4, <1>5

\* The residencies a restore leaves after k of its steps.
LEMMA LoadedBanks ==
    ASSUME Positions, BankInv, dest \in Image, NEW k, Loaded(k)
    PROVE  /\ device' \in [Attention -> Residency]
           /\ k = 6 => /\ device'["target"].bank = dest.target
                       /\ device'["draft"].bank = IF dest.scopes = 2 THEN dest.draft
                                                  ELSE NoBank
<1>1. dest.target \in Nat /\ dest.draft \in Nat
      BY ScopesAssumption, CapacityAssumption
<1>2. \A p \in Attention : position'[p] \in Nat
      BY <1>1, LoadedIs DEF Positions, Attention, Participant
<1>3. PICK made, closed :
         /\ device' = [p \in Attention |->
                          IF p \in made THEN [bank |-> position'[p], prepared |-> FALSE]
                          ELSE IF p \in closed THEN None[p] ELSE device[p]]
         /\ k = 6 => /\ "target" \in made /\ "draft" \in closed
                     /\ "draft" \in made <=> dest.scopes = 2
  <2> DEFINE m == {p \in Attention : IF p = "target" THEN k > 4
                                     ELSE k > 5 /\ dest.scopes = 2}
             c == {p \in Attention : k > IF p = "target" THEN 0 ELSE 1}
  <2>1. device' = [p \in Attention |->
                      IF p \in m THEN [bank |-> position'[p], prepared |-> FALSE]
                      ELSE IF p \in c THEN None[p] ELSE device[p]]
        BY Zenon DEF Loaded
  <2>2. k = 6 => "target" \in m /\ "draft" \in c /\ ("draft" \in m <=> dest.scopes = 2)
        BY DEF Attention
  <2> HIDE DEF m, c
  <2> QED
      BY <2>1, <2>2
<1>4. \A p \in Attention : None[p] = [bank |-> NoBank, prepared |-> FALSE]
      BY DEF None
<1>5. device' \in [Attention -> Residency]
  <2>1. ASSUME NEW p \in Attention PROVE device'[p] \in Residency
    <3>1. /\ [bank |-> position'[p], prepared |-> FALSE] \in Residency
          /\ [bank |-> NoBank, prepared |-> FALSE] \in Residency
          /\ device[p] \in Residency
          BY <1>2 DEF BankInv, Residency
    <3> QED
        BY <1>3, <1>4, <3>1, Zenon
  <2>2. device' = [p \in Attention |-> device'[p]]
        BY <1>3
  <2> QED
      BY <2>1, <2>2
<1>6. ASSUME k = 6
      PROVE  /\ device'["target"].bank = dest.target
             /\ device'["draft"].bank = IF dest.scopes = 2 THEN dest.draft ELSE NoBank
  <2>1. /\ position'["target"] = dest.target
        /\ dest.scopes = 2 => position'["draft"] = dest.draft
        BY <1>6, LoadedIs DEF Participant
  <2> QED
      BY <1>3, <1>4, <1>6, <2>1 DEF Attention
<1> QED
    BY <1>5, <1>6

LEMMA BankRestore ==
    ASSUME Core, FlowInv, FlowInv', Positions, BankInv, Restore \/ RestoreFails
    PROVE  BankInv'
<1>1. run'.pc = "idle" /\ ~session.invalidated /\ dest \in Image
      BY DEF Restore, RestoreFails, MayStore, Fits, FlowInv
<1>2. CASE Restore
  <2>1. Loaded(6) /\ dest.scopes \in {1, 2} /\ (dest.scopes = 1 => ~session.draft)
        BY <1>1, <1>2, ScopesAssumption DEF Restore, Fits
  <2>2. dest.target \in Nat /\ dest.draft \in Nat
        BY <1>1, ScopesAssumption, CapacityAssumption
  <2>3. /\ position'["target"] = dest.target
        /\ position'["draft"] = IF dest.scopes = 2 THEN dest.draft ELSE position["draft"]
        BY <2>1, LoadedIs DEF Participant
  <2>4. dest.scopes = 1 => position["draft"] = 0
        BY <1>1, <2>1 DEF Core, Unused
  <2>5. /\ device' \in [Attention -> Residency]
        /\ device'["target"].bank = dest.target
        /\ device'["draft"].bank = IF dest.scopes = 2 THEN dest.draft ELSE NoBank
        BY <1>1, <2>1, LoadedBanks
  <2>6. \A p \in Attention : position'[p] = Serves(device'[p])
        BY <2>1, <2>2, <2>3, <2>4, <2>5, CapacityAssumption DEF Attention, Serves
  <2> QED
      BY <1>1, <2>5, <2>6, BankRest
<1>3. CASE RestoreFails
  <2>1. session'.invalidated
        BY <1>3, Zenon DEF RestoreFails, Invalidated, FlowInv, Flags
  <2>2. \E k : Loaded(k)
        BY <1>3, Zenon DEF RestoreFails, Midway
  <2> QED
      BY <1>1, <2>1, <2>2, LoadedBanks, BankRest
<1> QED
    BY <1>2, <1>3

LEMMA BankMade ==
    ASSUME Core, Positions, BankInv, NEW p \in Attention, PrepareState(p) PROVE BankInv'
<1>1. /\ tx[p] = "idle" /\ device[p].bank = NoBank /\ UNCHANGED <<position, tx, session, run>>
      /\ device' = [device EXCEPT ![p] = [bank |-> position[p], prepared |-> FALSE]]
      BY DEF PrepareState
<1>2. position[p] \in Nat /\ position[p] # NoBank
      BY CapacityAssumption DEF Positions, Attention, Participant
<1>3. /\ device' \in [Attention -> Residency]
      /\ \A q \in Attention : device'[q] = IF q = p
                                           THEN [bank |-> position[p], prepared |-> FALSE]
                                           ELSE device[q]
      BY <1>1, <1>2 DEF BankInv, Residency
<1>4. \A q \in Attention : position[q] = Serves(device[q]) => position[q] = Serves(device'[q])
      BY <1>2, <1>3 DEF Serves
<1>5. \A q \in Attention : tx[q] \in {"staged", "prepared"} => device'[q] = device[q]
      BY <1>1, <1>3
<1> QED
    BY <1>1, <1>3, <1>4, <1>5 DEF BankInv, Serves

LEMMA BankStep ==
    ASSUME Core, FlowInv, FlowInv', Positions, BankInv, [Next]_vars PROVE BankInv'
<1>1. ASSUME NEW scope, Begin(scope) PROVE BankInv'
  <2>1. run'.pc = "validate" /\ UNCHANGED <<position, device>> /\ ~session.invalidated
        BY <1>1 DEF Begin, Resting
  <2> QED
      BY <2>1, BankKeeps
<1>2. CASE BeginValid
  <2>1. run.pc = "validate" /\ UNCHANGED <<position, device, tx, session>>
        BY <1>2 DEF BeginValid
  <2>2. run'.pc = "stage"
        BY <1>2 DEF BeginValid, FlowInv, Field
  <2>3. \A p \in Attention : tx[p] = "idle"
        BY <2>1 DEF Core, Staging, Attention, Participant
  <2> QED
      BY <2>1, <2>2, <2>3, BankKeeps
<1>3. CASE BeginInvalid
  <2>1. UNCHANGED <<position, device>> /\ run'.pc = "idle"
        BY <1>3 DEF BeginInvalid, Release, Resting
  <2>2. session.invalidated => session'.invalidated
        BY <1>3, Zenon DEF BeginInvalid, Release, Drifted, FlowInv, Flags
  <2> QED
      BY <2>1, <2>2, BankKeeps
<1>4. CASE Drift
  <2>1. UNCHANGED <<position, device, tx, run>>
        BY <1>4 DEF Drift
  <2>2. session'.invalidated
        BY <1>4, Zenon DEF Drift, Drifted, Invalidated, FlowInv, Flags
  <2> QED
      BY <2>1, <2>2, BankKeeps
<1>5. ASSUME NEW p \in Participant, Stage(p) \/ StageFails(p) PROVE BankInv'
  <2>1. /\ run.pc = "stage" /\ UNCHANGED <<position, device>>
        /\ \E t : /\ tx' = [tx EXCEPT ![p] = t]
                  /\ t \in {"idle", "open", "staged"}
                  /\ t = "staged" /\ p \in Attention => device[p].bank # NoBank
        BY <1>5 DEF Stage, StageFails, MayStage
  <2>2. run'.pc = "stage"
        BY <1>5, <2>1 DEF Stage, StageFails, FlowInv, Field
  <2>3. session'.invalidated = session.invalidated
        BY <1>5, Zenon DEF Stage, StageFails, FlowInv, Flags
  <2>4. \A q \in Attention :
           tx'[q] \in {"staged", "prepared"} => device[q].bank # NoBank
        BY <2>1 DEF BankInv, Core, Typed, Attention, Participant
  <2> QED
      BY <2>1, <2>2, <2>3, <2>4, BankKeeps
<1>6. CASE FinishCoordinated \/ \E d : FinishScope(d)
      BY <1>6, FinishKeeps
<1>7. CASE Prepare \/ PrepareFails \/ Abort
      BY <1>7, BankPrepare, BankGivesUp
<1>8. CASE Prepared
  <2>1. run.pc = "prepare" /\ UNCHANGED <<position, device, tx, session>>
        BY <1>8 DEF Prepared
  <2>2. run'.pc = "publish"
        BY <1>8 DEF Prepared, FlowInv, Field
  <2> QED
      BY <2>1, <2>2, BankKeeps
<1>9. CASE Publish
      BY <1>9, BankPublish
<1>10. CASE Committed
  <2>1. UNCHANGED <<position, device>> /\ run'.pc = "idle"
        BY <1>10 DEF Committed, Release, Resting
  <2>2. session'.invalidated = session.invalidated
        BY <1>10, Zenon DEF Committed, Release, FlowInv, Flags
  <2> QED
      BY <2>1, <2>2, BankKeeps
<1>11. CASE Aborted
  <2>1. UNCHANGED <<position, device>> /\ run'.pc = "idle"
        BY <1>11 DEF Aborted, Release, Resting
  <2>2. session.invalidated => session'.invalidated
        BY <1>11, GroupAborted
  <2> QED
      BY <2>1, <2>2, BankKeeps
<1>12. CASE Reset \/ ResetFails
      BY <1>12, BankReset
<1>13. CASE CloseBegin \/ CloseWake \/ CloseRelease \/ CloseFails
  <2>1. UNCHANGED <<position, device, tx, run>>
        BY <1>13 DEF CloseBegin, CloseWake, CloseRelease, CloseFails
  <2>2. session'.invalidated = session.invalidated
        BY <1>13, Zenon DEF CloseBegin, CloseWake, CloseRelease, CloseFails, FlowInv, Flags
  <2> QED
      BY <2>1, <2>2, BankKeeps
<1>14. CASE Save \/ Saving \/ UNCHANGED vars
      BY <1>14, BankKeeps DEF Save, Saving, vars, sessionVars
<1>15. CASE Restore \/ RestoreFails
      BY <1>15, BankRestore
<1>16. CASE Crash
  <2>1. /\ run'.pc = "idle" /\ position' = [p \in Participant |-> 0]
        /\ device' = [p \in Attention |-> [bank |-> NoBank, prepared |-> FALSE]]
        BY <1>16 DEF Crash, Reopen, Resting, Zero, None
  <2>2. \A p \in Attention : p \in Participant
        BY DEF Attention, Participant
  <2>3. /\ device' \in [Attention -> Residency]
        /\ \A p \in Attention : position'[p] = Serves(device'[p])
        BY <2>1, <2>2 DEF Residency, Serves
  <2> QED
      BY <2>1, <2>3, BankRest
<1>17. ASSUME NEW p \in Attention, PrepareState(p) PROVE BankInv'
      BY <1>17, BankMade
<1> QED
    BY <1>1, <1>2, <1>3, <1>4, <1>5, <1>6, <1>7, <1>8, <1>9, <1>10, <1>11, <1>12,
       <1>13, <1>14, <1>15, <1>16, <1>17
    DEF Next, Session, SessionNext, RunStep, CloseStep

\* The residencies follow their providers along every behaviour.
THEOREM BankInvariance == Spec => []BankInv
<1>1. FlowInv /\ Positions /\ GroupInv /\ FlowInv' /\ BankInv /\ [Next]_vars => BankInv'
      BY BankStep DEF GroupInv, Core
<1> QED
    BY <1>1, BankInit, SessionInvariance, GroupInvariance, PTL DEF Spec

\* Whichever step of a reset, a restore or a prepare fails between a residency
\* and its provider or between target and draft, a session that may still be
\* used serves from the device what its host has committed.
THEOREM BanksStayTogether == Spec => []BanksAgree
<1>1. BankInv => BanksAgree
      BY DEF BankInv, BanksAgree, Serves
<1> QED
    BY <1>1, BankInvariance, PTL

-----------------------------------------------------------------------------
(***************************************************************************)
(* The refinement.  The step of all participants is committed when the     *)
(* last of them is prepared; each publish then only pays what was already  *)
(* promised.                                                               *)
(***************************************************************************)
Due(p) == /\ run.pc = "publish"
          /\ \E i \in run.at .. Len(run.group) : run.group[i] = p

LEMMA VisibleIs ==
    /\ Visible = [p \in Participant |->
                     IF session.invalidated THEN 0
                     ELSE position[p] + IF Due(p) THEN 1 ELSE 0]
    /\ DOMAIN Visible = Participant
BY DEF Visible, Due

\* A step that moves no position and neither enters nor leaves the publish loop.
Quiet == /\ UNCHANGED <<parts, position>>
         /\ \/ UNCHANGED run
            \/ run.pc # "publish" /\ run'.pc # "publish"
         /\ session.invalidated => session'.invalidated

LEMMA QuietSteps ==
    ASSUME Core, FlowInv, [Next]_vars
    PROVE  \/ Quiet \/ Prepared \/ Publish \/ Committed \/ Reset \/ ResetFails
           \/ Restore \/ RestoreFails \/ Crash
<1> USE DEF Quiet
<1>1. ASSUME NEW scope, Begin(scope) PROVE Quiet
      BY <1>1 DEF Begin, FlowInv, Resting
<1>2. ASSUME NEW p \in Participant, Stage(p) PROVE Quiet
  <2>1. UNCHANGED <<parts, position, run>>
        BY <1>2 DEF Stage
  <2>2. session'.invalidated = session.invalidated
        BY <1>2, Zenon DEF Stage, FlowInv, Flags
  <2> QED
      BY <2>1, <2>2
<1>3. ASSUME NEW p \in Participant, StageFails(p) PROVE Quiet
  <2>1. UNCHANGED <<parts, position>> /\ run.pc = "stage"
        BY <1>3 DEF StageFails, MayStage
  <2>2. run'.pc = run.pc
        BY <1>3 DEF StageFails, FlowInv, Field
  <2>3. session'.invalidated = session.invalidated
        BY <1>3, Zenon DEF StageFails, FlowInv, Flags
  <2> QED
      BY <2>1, <2>2, <2>3
<1>4. ASSUME NEW d, FinishScope(d) PROVE Quiet
      BY <1>4, Zenon DEF FinishScope, Resolve, FlowInv, Field
<1>5. CASE FinishCoordinated
      BY <1>5, Zenon DEF FinishCoordinated, Resolve, FlowInv, Field
<1>6. CASE BeginValid
      BY <1>6 DEF BeginValid, FlowInv, Field
<1>7. CASE BeginInvalid
  <2>1. UNCHANGED <<parts, position>> /\ run.pc = "validate" /\ run'.pc = "idle"
        BY <1>7 DEF BeginInvalid, Release, Resting
  <2>2. session.invalidated => session'.invalidated
        BY <1>7, Zenon DEF BeginInvalid, Release, Drifted, FlowInv, Flags
  <2> QED
      BY <2>1, <2>2
<1>8. CASE Prepare
      BY <1>8 DEF Prepare, FlowInv, Field
<1>9. CASE PrepareFails
      BY <1>9 DEF PrepareFails, FlowInv, Field
<1>10. CASE Abort
  <2>1. UNCHANGED <<parts, position, session>> /\ run.pc = "abort"
        BY <1>10 DEF Abort
  <2>2. run'.pc = run.pc
        BY <1>10, Zenon DEF Abort, FlowInv, Field
  <2> QED
      BY <2>1, <2>2
<1>11. CASE Aborted
  <2>1. UNCHANGED <<parts, position>> /\ run.pc = "abort" /\ run'.pc = "idle"
        BY <1>11 DEF Aborted, Release, Resting
  <2>2. session.invalidated => session'.invalidated
        BY <1>11, GroupAborted
  <2> QED
      BY <2>1, <2>2
<1>12. CASE Drift
  <2>1. UNCHANGED <<parts, position, run>>
        BY <1>12 DEF Drift
  <2>2. session'.invalidated
        BY <1>12, Zenon DEF Drift, Drifted, Invalidated, FlowInv, Flags
  <2> QED
      BY <2>1, <2>2
<1>13. CASE CloseBegin \/ CloseWake \/ CloseRelease \/ CloseFails
  <2>1. UNCHANGED <<parts, position, run>>
        BY <1>13 DEF CloseBegin, CloseWake, CloseRelease, CloseFails
  <2>2. session'.invalidated = session.invalidated
        BY <1>13, Zenon DEF CloseBegin, CloseWake, CloseRelease, CloseFails, FlowInv, Flags
  <2> QED
      BY <2>1, <2>2
<1>14. CASE Save \/ Saving \/ UNCHANGED vars
      BY <1>14 DEF Save, Saving, vars, sessionVars
<1>15. ASSUME NEW p \in Attention, PrepareState(p) PROVE Quiet
      BY <1>15 DEF PrepareState
<1> QED
    BY <1>1, <1>2, <1>3, <1>4, <1>5, <1>6, <1>7, <1>8, <1>9, <1>10, <1>11, <1>12,
       <1>13, <1>14, <1>15
    DEF Next, Session, SessionNext, RunStep, CloseStep

\* The session is not invalidated: what is visible is the position and what is due.
LEMMA SeenPlain ==
    ASSUME ~session.invalidated, NEW p \in Participant
    PROVE  Visible[p] = position[p] + IF Due(p) THEN 1 ELSE 0
BY VisibleIs

LEMMA SeenAtRest ==
    ASSUME Positions, ~session.invalidated, run.pc # "publish", NEW p \in Participant
    PROVE  Visible[p] = position[p] /\ position[p] \in Nat
BY SeenPlain DEF Due, Positions

\* Two functions on the participants with the same values are the same.
LEMMA SameSeen ==
    ASSUME NEW f, NEW g, f = [p \in Participant |-> f[p]], g = [p \in Participant |-> g[p]],
           \A p \in Participant : f[p] = g[p]
    PROVE  f = g
<1>1. [p \in Participant |-> f[p]] = [p \in Participant |-> g[p]]
      BY Zenon
<1> QED
    BY <1>1

LEMMA SeenIsFunction ==
    /\ Visible = [p \in Participant |-> Visible[p]]
    /\ Visible' = [p \in Participant |-> Visible'[p]]
BY Zenon DEF Visible

\* Whatever invalidates the session loses it; a stop starts it again.
LEMMA LoseStep ==
    ASSUME FlowInv', session'.invalidated, parts' = parts PROVE Promise!Lose
<1>1. session'.invalidated = TRUE
      BY Zenon DEF FlowInv, Flags
<1>2. Visible' = [p \in Participant |-> 0]
      BY <1>1 DEF Visible
<1> QED
    BY <1>1, <1>2 DEF Promise!Lose, Promise!Start

LEMMA RestartStep ==
    ASSUME Crash PROVE Promise!Restart
<1>1. /\ session'.invalidated = FALSE /\ run'.pc = "idle" /\ parts' = parts
      /\ position' = [p \in Participant |-> 0]
      BY DEF Crash, Reopen, Opened, Resting, Zero
<1>2. \A p \in Participant : Visible'[p] = 0
      BY <1>1 DEF Visible
<1>3. Visible' = [p \in Participant |-> 0]
      BY <1>2, SeenIsFunction
<1> QED
    BY <1>1, <1>3 DEF Promise!Restart, Promise!Start

LEMMA QuietStutters ==
    ASSUME FlowInv, FlowInv', Quiet, ~session'.invalidated
    PROVE  UNCHANGED <<Range(parts), Visible, session.invalidated>>
<1>1. session'.invalidated = FALSE /\ session.invalidated = FALSE
      BY Zenon DEF FlowInv, Flags, Quiet
<1>2. \A p \in Participant : Due(p)' <=> Due(p)
      BY DEF Due, Quiet
<1>3. \A p \in Participant : Visible'[p] = Visible[p]
      BY <1>1, <1>2, VisibleIs DEF Visible, Due, Quiet
<1>4. Visible' = Visible
      BY <1>3, SeenIsFunction, SameSeen
<1> QED
    BY <1>1, <1>4 DEF Quiet

\* The last participant is prepared: the whole group moves at once.
LEMMA PreparedCommits ==
    ASSUME Core, FlowInv, Positions, Prepared PROVE Promise!Commit
<1>1. /\ run.pc = "prepare" /\ run.at > Len(run.group)
      /\ run' = [run EXCEPT !.pc = "publish", !.at = 1]
      /\ UNCHANGED <<parts, position, session>>
      BY DEF Prepared
<1>2. run'.pc = "publish" /\ run'.at = 1 /\ run'.group = run.group
      BY <1>1 DEF FlowInv, Field
<1>3. /\ Range(run.group) = {run.group[i] : i \in 1 .. Len(run.group)}
      /\ Len(run.group) \in Nat /\ run.at \in Nat /\ Range(run.group) \subseteq Participant
      BY RangeOfSeq DEF Core, Typed
<1>4. PICK g : g = Range(run.group)
      OBVIOUS
<1>5. ~session.invalidated /\ ~session'.invalidated
      BY <1>1 DEF FlowInv
<1>6. \A p \in Participant : Visible[p] = position[p] /\ position[p] \in Nat
      BY <1>1, <1>5, SeenAtRest
<1>7. \A p \in Participant : Visible'[p] = Visible[p] + IF p \in g THEN 1 ELSE 0
  <2> TAKE p \in Participant
  <2>1. Visible'[p] = position[p] + IF p \in g THEN 1 ELSE 0
    <3>1. (\E i \in 1 .. Len(run.group) : run.group[i] = p) <=> p \in g
          BY <1>3, <1>4
    <3> QED
        BY <1>1, <1>2, <1>5, <3>1 DEF Visible
  <2> QED
      BY <1>6, <2>1
<1>8. Visible' = [p \in Participant |-> Visible[p] + IF p \in g THEN 1 ELSE 0]
      BY <1>7, SeenIsFunction
<1>9. \A p \in g : tx[p] = "prepared"
  <2> SUFFICES ASSUME NEW i \in 1 .. Len(run.group) PROVE tx[run.group[i]] = "prepared"
      BY <1>3, <1>4
  <2>1. i < run.at
        BY <1>1, <1>3
  <2> QED
      BY <1>1, <2>1 DEF Core, Resolving
<1>10. \A p, q \in g \cap Owner : Visible[p] = Visible[q]
      BY <1>1, <1>3, <1>4, <1>6, <1>9 DEF Core, Staging
<1>11. g \in {{"target"}, Owner \cap Range(parts), Range(parts)}
      BY <1>1, <1>4 DEF Core, Resolving, Committable, Owners
<1> QED
    BY <1>1, <1>5, <1>8, <1>10, <1>11 DEF Promise!Commit, Promise!Group

\* A publish turns what is due to one participant into its position.
LEMMA PublishStutters ==
    ASSUME Core, FlowInv, Positions, Publish
    PROVE  UNCHANGED <<Range(parts), Visible, session.invalidated>>
<1>1. /\ run.pc = "publish" /\ run.at \in 1 .. Len(run.group)
      /\ run' = [run EXCEPT !.at = run.at + 1]
      /\ UNCHANGED <<parts, session>>
      BY DEF Publish, Core, Typed, Resolving
<1>2. run'.pc = "publish" /\ run'.at = run.at + 1 /\ run'.group = run.group
      BY <1>1 DEF FlowInv, Field
<1>3. PICK q : q = Turn
      OBVIOUS
<1>4. /\ q \in Participant /\ Len(run.group) \in Nat
      /\ \A i \in 1 .. Len(run.group) : run.group[i] = q <=> i = run.at
      BY <1>1, <1>3, TurnIs
<1>5. q \in Places(run.at, Len(run.group))
      BY <1>1, <1>3, <1>4 DEF Places, Turn
<1>6. tx[q] = "prepared"
      BY <1>1, <1>5 DEF Core, Resolving
<1>7. position' = [position EXCEPT ![q] = position[q] + 1]
      BY <1>3, <1>6 DEF Publish
<1>8. ~session.invalidated /\ ~session'.invalidated
      BY <1>1 DEF FlowInv
<1>9. \A p \in Participant : Visible'[p] = Visible[p]
  <2> TAKE p \in Participant
  <2>1. Visible[p] = position[p] + IF Due(p) THEN 1 ELSE 0
        BY <1>8, SeenPlain
  <2>2. Visible'[p] = position'[p] + IF \E i \in run.at + 1 .. Len(run.group) : run.group[i] = p
                                     THEN 1 ELSE 0
        BY <1>2, <1>8 DEF Visible
  <2>3. CASE p = q
    <3>1. Due(p)
          BY <1>1, <1>4, <2>3 DEF Due
    <3>2. ~\E i \in run.at + 1 .. Len(run.group) : run.group[i] = p
          BY <1>1, <1>4, <2>3
    <3>3. position'[p] = position[p] + 1 /\ position[p] \in Nat
          BY <1>4, <1>7, <2>3 DEF Positions
    <3> QED
        BY <2>1, <2>2, <3>1, <3>2, <3>3
  <2>4. CASE p # q
    <3>1. Due(p) <=> \E i \in run.at + 1 .. Len(run.group) : run.group[i] = p
          BY <1>1, <1>4, <2>4 DEF Due
    <3>2. position'[p] = position[p]
          BY <1>7, <2>4 DEF Positions
    <3> QED
        BY <2>1, <2>2, <3>1, <3>2
  <2> QED
      BY <2>3, <2>4
<1>10. Visible' = Visible
      BY <1>9, SeenIsFunction, SameSeen
<1> QED
    BY <1>1, <1>10

LEMMA CommittedStutters ==
    ASSUME Core, FlowInv, FlowInv', Positions, Committed
    PROVE  UNCHANGED <<Range(parts), Visible, session.invalidated>>
<1>1. /\ run.pc = "publish" /\ run.at > Len(run.group) /\ run'.pc = "idle"
      /\ UNCHANGED <<parts, position>>
      BY DEF Committed, Release, Resting
<1>2. session'.invalidated = session.invalidated /\ ~session.invalidated
  <2>1. session'.invalidated = session.invalidated
        BY Zenon DEF Committed, Release, FlowInv, Flags
  <2> QED
      BY <1>1, <2>1 DEF FlowInv
<1>3. \A p \in Participant : Visible'[p] = Visible[p]
  <2> TAKE p \in Participant
  <2>1. ~Due(p)
        BY <1>1 DEF Due, Core, Typed
  <2>2. Visible[p] = position[p] + 0
        BY <1>2, <2>1, SeenPlain
  <2>3. Visible'[p] = position[p] + 0
        BY <1>1, <1>2 DEF Visible
  <2> QED
      BY <2>2, <2>3
<1>4. Visible' = Visible
      BY <1>3, SeenIsFunction, SameSeen
<1> QED
    BY <1>1, <1>2, <1>4

\* A reset or a restore replaces the target or every owner by one extent.
LEMMA ReplaceIs ==
    ASSUME Positions, ~session.invalidated, ~session'.invalidated,
           FlowInv, FlowInv', run.pc = "idle", UNCHANGED <<parts, run>>,
           NEW g \in {{"target"}, Owner \cap Range(parts)}, NEW n \in 0 .. Capacity,
           \A p \in Participant :
              position'[p] = IF p \in g THEN n ELSE IF p \in Owner THEN 0 ELSE position[p]
    PROVE  Promise!Replace
<1>1. session'.invalidated = session.invalidated
      BY Zenon DEF FlowInv, Flags
<1>2. \A p \in Participant : Visible[p] = position[p] /\ position[p] \in Nat
      BY SeenAtRest
<1>3. n \in Nat
      BY CapacityAssumption
<1>4. \A p \in Participant : Visible'[p] = position'[p] + 0
      BY DEF Visible
<1>5. \A p \in Participant :
         Visible'[p] = IF p \in g THEN n ELSE IF p \in Owner THEN 0 ELSE Visible[p]
      BY <1>2, <1>3, <1>4
<1>6. Visible' = [p \in Participant |-> IF p \in g THEN n ELSE IF p \in Owner THEN 0
                                        ELSE Visible[p]]
      BY <1>5, SeenIsFunction
<1> QED
    BY <1>1, <1>6 DEF Promise!Replace

LEMMA ResetReplaces ==
    ASSUME Core, FlowInv, FlowInv', Positions, BankInv, Reset, ~session'.invalidated
    PROVE  Promise!Replace
<1>1. run.pc = "idle" /\ UNCHANGED <<parts, run, session>>
      BY DEF Reset, MayReset, FlowInv
<1>2. \A p \in Participant : position'[p] = IF p \in Resettable THEN 0 ELSE position[p]
      BY DEF Reset, Cleared
<1>3. \A p \in Owner \cap Range(parts) : position'[p] = 0
  <2> TAKE p \in Owner \cap Range(parts)
  <2>1. p \in Participant
        BY DEF Owner
  <2>2. CASE p \in Resettable
        BY <1>2, <2>1, <2>2
  <2>3. CASE p \notin Resettable
    <3>1. p \in Attention /\ device[p].bank = NoBank
          BY <2>3 DEF Resettable, Owners
    <3> QED
        BY <1>1, <1>2, <2>1, <2>3, <3>1 DEF BankInv, Serves
  <2> QED
      BY <2>2, <2>3
<1>4. PICK g : g = {"target"}
      OBVIOUS
<1>5. \A p \in Participant :
         position'[p] = IF p \in g THEN 0 ELSE IF p \in Owner THEN 0 ELSE position[p]
  <2> TAKE p \in Participant
  <2>1. CASE p \in Owner \cap Range(parts)
        BY <1>3, <1>4, <2>1
  <2>2. CASE p \notin Owner \cap Range(parts)
    <3>1. position'[p] = position[p]
          BY <1>2, <2>2 DEF Resettable, Owners
    <3>2. p \in Owner => position[p] = 0
          BY <2>2 DEF Core, Unused
    <3>3. p = "target" => p \in Owner
          BY DEF Owner, Participant
    <3> QED
        BY <1>4, <3>1, <3>2, <3>3
  <2> QED
      BY <2>1, <2>2
<1>6. 0 \in 0 .. Capacity
      BY CapacityAssumption
<1> QED
    BY <1>1, <1>4, <1>5, <1>6, ReplaceIs

LEMMA RestoreReplaces ==
    ASSUME Core, Files, FlowInv, FlowInv', Positions, Restore, ~session'.invalidated
    PROVE  Promise!Replace
<1>1. run.pc = "idle" /\ UNCHANGED <<parts, run>> /\ ~session.invalidated
      /\ "sequence" \notin Range(parts)
      BY DEF Restore, MayStore, FlowInv, Owners, Owner, Participant
<1>2. /\ dest \in Image /\ dest.scopes \in {1, 2} /\ Loaded(6)
      /\ (dest.scopes = 2 => "draft" \in Range(parts))
      /\ (dest.scopes = 1 => ~session.draft)
      /\ dest.target \in 0 .. Capacity
      BY ScopesAssumption DEF Restore, Fits, Owners
<1>3. PICK n : n = dest.target
      OBVIOUS
<1>4. \A p \in Participant :
         position'[p] = IF p = "target" THEN n
                        ELSE IF p = "draft" /\ dest.scopes = 2 THEN dest.draft
                        ELSE position[p]
      BY <1>2, <1>3, LoadedIs
<1>5. position["sequence"] = 0
      BY <1>1 DEF Core, Unused, Participant
<1>6. CASE dest.scopes = 1
  <2>1. position["draft"] = 0
        BY <1>1, <1>2, <1>6 DEF Core, Unused
  <2>2. PICK g : g = {"target"}
        OBVIOUS
  <2>3. \A p \in Participant :
           position'[p] = IF p \in g THEN n ELSE IF p \in Owner THEN 0 ELSE position[p]
        BY <1>4, <1>5, <1>6, <2>1, <2>2 DEF Owner, Participant
  <2> QED
      BY <1>1, <1>2, <1>3, <2>2, <2>3, ReplaceIs
<1>7. CASE dest.scopes = 2
  <2>1. dest.draft = n
        BY <1>2, <1>3, <1>7 DEF Files, Even
  <2>2. PICK g : g = Owner \cap Range(parts)
        OBVIOUS
  <2>3. "target" \in g /\ "draft" \in g /\ "sequence" \notin g /\ g \subseteq Owner
        BY <1>1, <1>2, <1>7, <2>2, PartsAre DEF Core, Owner, Participant
  <2>4. \A p \in Participant :
           position'[p] = IF p \in g THEN n ELSE IF p \in Owner THEN 0 ELSE position[p]
        BY <1>4, <1>5, <1>7, <2>1, <2>3 DEF Owner, Participant
  <2> QED
      BY <1>1, <1>2, <1>3, <2>2, <2>4, ReplaceIs
<1> QED
    BY <1>2, <1>6, <1>7

\* Target, draft, recurrent state and sampling commit a step together or not at
\* all: every step of the session, its checkpoints and its restarts is a step
\* of GroupCommit or changes nothing of what GroupCommit sees.
THEOREM SessionImplementsGroupCommit == Spec => ImplementsGroupCommit
<1>1. Init => Promise!GInit
  <2> SUFFICES ASSUME Init PROVE Promise!GInit
      OBVIOUS
  <2>1. /\ session.invalidated = FALSE /\ run.pc = "idle"
        /\ position = [p \in Participant |-> 0]
        BY DEF Init, SessionInit, Opened, Resting, Zero
  <2>2. Visible = [p \in Participant |-> 0]
        BY <2>1 DEF Visible
  <2> QED
      BY <2>1, <2>2 DEF Promise!GInit, Promise!Start
<1>2. FlowInv /\ Positions /\ BankInv /\ GroupInv /\ FlowInv' /\ [Next]_vars
         => [Promise!GNext]_(Promise!gvars)
  <2> SUFFICES ASSUME FlowInv, Positions, BankInv, Core, Files, FlowInv', [Next]_vars
               PROVE  Promise!GNext \/ UNCHANGED Promise!gvars
      BY DEF GroupInv, Core
  <2>1. CASE Crash
        BY <2>1, RestartStep DEF Promise!GNext
  <2>2. CASE session'.invalidated /\ ~Crash
    <3>1. parts' = parts
          BY <2>2, QuietSteps DEF Quiet, Prepared, Publish, Committed, Reset, ResetFails,
             Restore, RestoreFails
    <3> QED
        BY <2>2, <3>1, LoseStep DEF Promise!GNext
  <2>3. CASE ~session'.invalidated /\ ~Crash
    <3>1. ~ResetFails /\ ~RestoreFails
          BY <2>3, GroupResetFails, GroupRestoreFails
    <3>2. CASE Quiet \/ Publish \/ Committed
          BY <2>3, <3>2, QuietStutters, PublishStutters, CommittedStutters
          DEF Promise!gvars
    <3>3. CASE Prepared
          BY <3>3, PreparedCommits DEF Promise!GNext
    <3>4. CASE Reset \/ Restore
          BY <2>3, <3>4, ResetReplaces, RestoreReplaces DEF Promise!GNext
    <3> QED
        BY <2>3, <3>1, <3>2, <3>3, <3>4, QuietSteps
  <2> QED
      BY <2>1, <2>2, <2>3
<1> QED
    BY <1>1, <1>2, SessionInvariance, GroupInvariance, BankInvariance, PTL
    DEF Spec, ImplementsGroupCommit, Promise!GSpec
=============================================================================
