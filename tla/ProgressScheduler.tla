------------------------- MODULE ProgressScheduler -------------------------
(***************************************************************************)
(* Cooperative admission of sequence work by one engine generation         *)
(* (src/runtime/scheduler.c, the "progress" half).  A caller enters with a *)
(* sequence handle, waits in a slot of the progress table until it is      *)
(* granted, runs one quantum while its lease is active, gives the slot up  *)
(* and queues again at every yield and phase transition, and leaves.       *)
(*                                                                         *)
(* An action is one critical section of scheduler->mutex.  Submission      *)
(* ordinals are only ever compared, so the model keeps the comparison:     *)
(* ahead[s] is the set of slots queued with a lower ordinal than slot s.   *)
(* A slot's generation tells its lease from every earlier one; a client    *)
(* has one lease at a time, so the slot's holder says the same.            *)
(*                                                                         *)
(* ConflictNever, GrantableAnyOrder, EnqueueFirst, ReleaseUncounted,       *)
(* WakeLost and SettleUnreleased are wrong variants of the definitions     *)
(* they precede; no action uses them.                                      *)
(***************************************************************************)
EXTENDS Naturals, FiniteSets

CONSTANTS Client,         \* threads that execute sequence work
          Handle,         \* (engine_generation, sequence_handle) pairs
          HandleOf,       \* Client -> Handle
          Capacity,       \* progress_capacity, the places of the table
          Limit,          \* progress_active_limit
          NoClient

ASSUME ConstantsAssumption ==
    /\ HandleOf \in [Client -> Handle]
    /\ Capacity \in Nat \ {0}
    /\ Limit \in 1 .. Capacity
    /\ NoClient \notin Client

Slot == 1 .. Capacity

NoSlot == 0

VARIABLES
    tab,         \* the progress table and its counters
    stopping,
    closer,      \* where the thread in coordinator_close is
    pc,          \* where each client is
    lease,       \* lease[c]: the slot of c's lease, NoSlot when zeroed
    cancel       \* clients whose cancel_requested callback answers yes

vars == <<tab, stopping, closer, pc, lease, cancel>>

\* holder[s] is NoClient when the slot is not in_use; queued, active and
\* cancelled (status CANCELLED) are the slots with that flag.
Table == [holder : [Slot -> Client \cup {NoClient}],
          queued : SUBSET Slot, active : SUBSET Slot, cancelled : SUBSET Slot,
          ahead : [Slot -> SUBSET Slot],
          inUseCount : Nat, readyCount : Nat, activeCount : Nat]

\* The states of the table, its counters and the threads around it.  The
\* counters are unsigned: none is ever taken below zero.
TypeOK ==
    /\ tab \in Table
    /\ stopping \in BOOLEAN
    /\ closer \in {"none", "check", "asleep", "closed"}
    /\ pc \in [Client -> {"out", "wait", "hold", "yield"}]
    /\ lease \in [Client -> Slot \cup {NoSlot}]
    /\ cancel \subseteq Client

Init ==
    /\ tab = [holder |-> [s \in Slot |-> NoClient],
              queued |-> {}, active |-> {}, cancelled |-> {},
              ahead |-> [s \in Slot |-> {}],
              inUseCount |-> 0, readyCount |-> 0, activeCount |-> 0]
    /\ stopping = FALSE /\ closer = "none"
    /\ pc = [c \in Client |-> "out"]
    /\ lease = [c \in Client |-> NoSlot]
    /\ cancel = {}
-----------------------------------------------------------------------------
(***************************************************************************)
(* Operations on a table t.                                                *)
(***************************************************************************)
ConflictNever(t, s, A) == FALSE

\* progress_active_conflict_locked, against a set A of slots.
Conflict(t, s, A) ==
    \E r \in A \ {s} : HandleOf[t.holder[r]] = HandleOf[t.holder[s]]

\* The slots of K, all queued, leave the ready work.
Dequeue(t, K) ==
    [t EXCEPT !.queued = @ \ K,
              !.ahead = [s \in Slot |-> IF s \in K THEN {} ELSE @[s] \ K],
              !.readyCount = @ - Cardinality(K)]

\* progress_cancel_ready_locked, for every slot of K.
CancelReady(t, K) == [Dequeue(t, K) EXCEPT !.cancelled = @ \cup K]

\* What repeated calls of progress_next_ready_locked can select: the oldest
\* queued work of every sequence that is not active.
Candidates(t) ==
    {s \in t.queued : /\ ~Conflict(t, s, t.active)
                      /\ ~Conflict(t, s, t.ahead[s])}

GrantableAnyOrder(t, G) ==
    /\ t.activeCount + Cardinality(G) <= Limit
    /\ G = Candidates(t) \/ t.activeCount + Cardinality(G) = Limit

\* The loop takes candidates by ordinal until none is left or Limit is reached.
Grantable(t, G) ==
    /\ t.activeCount + Cardinality(G) <= Limit
    /\ G = Candidates(t) \/ t.activeCount + Cardinality(G) = Limit
    /\ \A s \in G : t.ahead[s] \cap Candidates(t) \subseteq G

Activate(t, G) == [Dequeue(t, G) EXCEPT !.active = @ \cup G,
                                        !.activeCount = @ + Cardinality(G)]

\* progress_grant_locked: the table it leaves, the one element of this set.
\* Queued work whose owner asks for cancellation is found only when the loop
\* has room to look for a candidate.
Grants(t) ==
    IF stopping \/ t.activeCount >= Limit THEN {t}
    ELSE LET u == CancelReady(t, {s \in t.queued : t.holder[s] \in cancel})
         IN  {Activate(u, G) : G \in {G \in SUBSET Candidates(u) :
                                         Grantable(u, G)}}

\* The queued work that progress_next_ready_locked compares by ordinal, and
\* what it selects: the set is empty when it returns no candidate.
Ready(t) == {s \in t.queued : ~Conflict(t, s, t.active)}

NextReady(t) == {s \in Ready(t) : t.ahead[s] \cap Ready(t) = {}}

\* One turn of the loop of progress_grant_locked.
GrantTurn(t) ==
    IF stopping \/ t.activeCount >= Limit THEN t
    ELSE LET u == CancelReady(t, {s \in t.queued : t.holder[s] \in cancel})
         IN  Activate(u, NextReady(u))

\* The table after Limit turns of the loop.
GrantLoop(t) ==
    LET turn[n \in 0 .. Limit] == IF n = 0 THEN t ELSE GrantTurn(turn[n - 1])
    IN  turn[Limit]

\* A free slot gets its client.
Claim(t, s, c) == [t EXCEPT !.holder[s] = c, !.inUseCount = @ + 1]

EnqueueFirst(t, s) ==
    [t EXCEPT !.queued = @ \cup {s},
              !.active = @ \ {s},
              !.cancelled = @ \ {s},
              !.ahead = [r \in Slot |-> IF r \in t.queued THEN @[r] \cup {s}
                                        ELSE {}],
              !.readyCount = @ + 1]

\* progress_enqueue_locked up to its trailing grant.
Enqueue(t, s) ==
    [t EXCEPT !.queued = @ \cup {s},
              !.active = @ \ {s},
              !.cancelled = @ \ {s},
              !.ahead[s] = t.queued,
              !.readyCount = @ + 1]

\* progress_active_remove_locked
Deactivate(t, s) ==
    IF s \in t.active
    THEN [t EXCEPT !.active = @ \ {s}, !.activeCount = @ - 1]
    ELSE t

ReleaseUncounted(t, s) ==
    [Deactivate(t, s) EXCEPT !.holder[s] = NoClient,
                             !.queued = @ \ {s},
                             !.cancelled = @ \ {s},
                             !.ahead = [r \in Slot |-> IF r = s THEN {}
                                                       ELSE @[r] \ {s}],
                             !.inUseCount = @ - 1]

\* progress_release_locked: a slot still queued leaves the ready count too.
Release(t, s) ==
    [Deactivate(Dequeue(t, {s} \cap t.queued), s)
        EXCEPT !.holder[s] = NoClient,
               !.cancelled = @ \ {s},
               !.inUseCount = @ - 1]

WakeLost == closer' = closer

\* pthread_cond_broadcast(completed).  Clients wait with a 10 ms timeout and
\* need no wakeup; the closing thread has no timeout.
Wake == closer' = IF closer = "asleep" THEN "check" ELSE closer
-----------------------------------------------------------------------------
(***************************************************************************)
(* Callers.                                                                *)
(***************************************************************************)

SettleUnreleased(c, s, t) ==
    /\ tab' = t
    /\ pc' = [pc EXCEPT ![c] = IF s \in t.active THEN "hold"
                              ELSE IF s \in t.queued /\ ~stopping THEN "wait"
                              ELSE "out"]
    /\ lease' = [lease EXCEPT ![c] = IF pc'[c] = "out" THEN NoSlot ELSE s]

\* The loop of progress_wait_locked and what its callers do when it ends
\* without admission, from the table t that the last grant left.
Settle(c, s, t) ==
    \/ /\ s \in t.queued /\ ~stopping
       /\ tab' = t
       /\ pc' = [pc EXCEPT ![c] = "wait"]
       /\ lease' = [lease EXCEPT ![c] = s]
    \/ /\ s \in t.active
       /\ tab' = t
       /\ pc' = [pc EXCEPT ![c] = "hold"]
       /\ lease' = [lease EXCEPT ![c] = s]
    \/ /\ s \notin t.active /\ (s \notin t.queued \/ stopping)
       /\ tab' = Release(t, s)
       /\ pc' = [pc EXCEPT ![c] = "out"]
       /\ lease' = [lease EXCEPT ![c] = NoSlot]

\* execution_enter.  A full table or a stopping scheduler refuses and changes
\* nothing.
Enter(c) ==
    /\ pc[c] = "out" /\ closer # "closed" /\ ~stopping
    /\ \E s \in Slot :
          /\ tab.holder[s] = NoClient
          /\ \A r \in 1 .. s - 1 : tab.holder[r] # NoClient
          /\ \E t \in Grants(Enqueue(Claim(tab, s, c), s)) : Settle(c, s, t)
    /\ Wake
    /\ UNCHANGED <<stopping, cancel>>

\* One turn of the wait loop: the timed wait returns and grants.
WaitTurn(c) ==
    /\ pc[c] = "wait"
    /\ \E t \in Grants(tab) : Settle(c, lease[c], t)
    /\ Wake
    /\ UNCHANGED <<stopping, cancel>>

\* progress_slot_locked finds the client's lease valid.
Leased(c) == lease[c] \in Slot /\ tab.holder[lease[c]] = c

\* execution_yield_requested, asked at a safe point of a quantum.
YieldRequested(c) ==
    /\ pc[c] = "hold" /\ Leased(c) /\ lease[c] \in tab.active
    /\ stopping \/ tab.readyCount > 0
    /\ pc' = [pc EXCEPT ![c] = "yield"]
    /\ UNCHANGED <<tab, stopping, closer, lease, cancel>>

\* Give the active place up and queue again behind everyone who waits; a
\* stopping scheduler takes the slot away instead.
Requeue(c) ==
    LET s == lease[c]
        t == Deactivate(tab, s)
    IN  /\ Leased(c) /\ s \in tab.active
        /\ IF stopping
           THEN /\ tab' = Release(t, s)
                /\ pc' = [pc EXCEPT ![c] = "out"]
                /\ lease' = [lease EXCEPT ![c] = NoSlot]
           ELSE \E u \in Grants(Enqueue(t, s)) : Settle(c, s, u)
        /\ Wake
        /\ UNCHANGED <<stopping, cancel>>

\* execution_yield_resume
YieldResume(c) == pc[c] = "yield" /\ Requeue(c)

\* engine_progress_transition
Transition(c) == pc[c] = "hold" /\ Requeue(c)

\* execution_leave
Leave(c) ==
    /\ pc[c] = "hold" /\ Leased(c)
    /\ tab' \in Grants(Release(Deactivate(tab, lease[c]), lease[c]))
    /\ pc' = [pc EXCEPT ![c] = "out"]
    /\ lease' = [lease EXCEPT ![c] = NoSlot]
    /\ Wake
    /\ UNCHANGED <<stopping, cancel>>

\* The owner of the work asks for cancellation, at any time; the next request
\* begins with a fresh answer.
Cancel(c) ==
    /\ cancel' = cancel \cup {c}
    /\ UNCHANGED <<tab, stopping, closer, pc, lease>>

CancelOver(c) ==
    /\ pc[c] = "out"
    /\ cancel' = cancel \ {c}
    /\ UNCHANGED <<tab, stopping, closer, pc, lease>>
-----------------------------------------------------------------------------
(***************************************************************************)
(* The end of the scheduler.                                               *)
(***************************************************************************)

\* scheduler_worker without memory stops the scheduler and leaves the
\* progress table to its waiters.
WorkerFails ==
    /\ closer = "none" /\ ~stopping
    /\ stopping' = TRUE
    /\ UNCHANGED <<tab, closer, pc, lease, cancel>>

Drained == closer' = IF tab.inUseCount = 0 THEN "closed" ELSE "asleep"

\* coordinator_close: stop, cancel what is queued, wait for the slots in use.
Close ==
    /\ closer = "none"
    /\ stopping' = TRUE
    /\ tab' = CancelReady(tab, tab.queued)
    /\ Drained
    /\ UNCHANGED <<pc, lease, cancel>>

CloseChecks ==
    /\ closer = "check"
    /\ Drained
    /\ UNCHANGED <<tab, stopping, pc, lease, cancel>>

\* The memory is gone; threads that never come back may idle forever.
Closed == closer = "closed" /\ UNCHANGED vars

HolderStep(c) == YieldResume(c) \/ Transition(c) \/ Leave(c)

Next ==
    \/ \E c \in Client :
          \/ Enter(c) \/ WaitTurn(c) \/ YieldRequested(c) \/ HolderStep(c)
          \/ Cancel(c) \/ CancelOver(c)
    \/ WorkerFails \/ Close \/ CloseChecks \/ Closed

Spec == Init /\ [][Next]_vars

\* Timed waits return, quanta end, and the closing thread runs when awake.
\* No client has to enter, to ask for cancellation or to leave: a turn may go
\* from phase to phase for ever.
FairSpec ==
    /\ Spec
    /\ \A c \in Client : WF_vars(WaitTurn(c)) /\ WF_vars(HolderStep(c))
    /\ WF_vars(CloseChecks)
-----------------------------------------------------------------------------
(***************************************************************************)
(* What the scheduler guarantees.                                          *)
(***************************************************************************)
InUse == {s \in Slot : tab.holder[s] # NoClient}

\* Two active slots never carry the same sequence: one sequence state is
\* never advanced by two callers.
SequenceExclusion ==
    \A r, s \in tab.active :
        r # s => HandleOf[tab.holder[r]] # HandleOf[tab.holder[s]]

\* The counters the code tests (close waits on one, yields read another, the
\* grant loop compares the third with Limit) are those of the flags, and the
\* cooperative width is kept.
CountersExact ==
    /\ tab.inUseCount = Cardinality(InUse)
    /\ tab.readyCount = Cardinality(tab.queued)
    /\ tab.activeCount = Cardinality(tab.active)
    /\ tab.activeCount <= Limit

\* A client that runs a quantum holds an active slot of its own, a client that
\* waits has a slot of its own, and no slot in use is left without a client:
\* the "stale lease" refusals of yield, transition and leave cannot happen to
\* a caller that has not released its lease.
LeaseExact ==
    /\ \A c \in Client :
          /\ pc[c] \in {"hold", "yield"} => Leased(c) /\ lease[c] \in tab.active
          /\ pc[c] = "wait" => Leased(c)
          /\ pc[c] = "out" => lease[c] = NoSlot
    /\ \A s \in InUse : lease[tab.holder[s]] = s
    /\ tab.active \cup tab.queued \cup tab.cancelled \subseteq InUse
    /\ tab.active \cap tab.queued = {}

\* "admits opaque work handles in FIFO order": work never becomes active past
\* older work that stays queued, unless the older work's sequence is active.
NoOvertaking ==
    [][\A s \in tab'.active \ tab.active, r \in tab.queued \cap tab'.queued :
          (s \in tab.queued => r \in tab.ahead[s])
          => Conflict(tab', r, tab'.active)]_vars

\* The tables that the calls of a caller with a lease hand to the grant loop.
Granting ==
    LET held == {lease[c] : c \in {c \in Client : Leased(c)}} IN
    {tab} \cup {Release(tab, s) : s \in held}
          \cup {Enqueue(Deactivate(tab, s), s) : s \in held \cap tab.active}

\* The set the model computes at once is what the loop of the code reaches,
\* whichever wait, leave or yield runs it next, and the loop is over then:
\* one more turn would change nothing.
GrantIsTheLoop ==
    \A t \in Granting :
        /\ Grants(t) = {GrantLoop(t)}
        /\ GrantTurn(GrantLoop(t)) = GrantLoop(t)

\* Whoever waits is admitted or refused, although every holder may go from
\* quantum to quantum without ever leaving.
WaitEnds == \A c \in Client : pc[c] = "wait" ~> pc[c] # "wait"

\* coordinator_close returns: it never sleeps through the last release.
CloseReturns == closer # "none" ~> closer = "closed"
=============================================================================
