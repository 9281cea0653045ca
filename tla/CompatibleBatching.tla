-------------------------- MODULE CompatibleBatching --------------------------
(***************************************************************************)
(* Compatible work of one engine's coordinator (the ticket queue of        *)
(* src/runtime/scheduler.c) and the generation contexts that share it.     *)
(* A ticket lives on the stack of the thread that submits it; the worker   *)
(* thread gathers tickets of one compatibility key into one execution.     *)
(* One coordinator is followed: the next one, opened after the last        *)
(* context has released this one, shares nothing with it.                  *)
(*                                                                         *)
(* CompletedLost, DrainedLost, InactiveAlways, CompatibleAlways,           *)
(* SelectNewest and SelectKept are wrong variants of the definitions they  *)
(* precede; no action uses them.                                           *)
(***************************************************************************)
EXTENDS Naturals, Sequences, FiniteSets, Functions

CONSTANTS Context,           \* generation contexts, one thread each
          Key,               \* compatibility keys
          NoKey,
          Width,             \* key.admitted_width
          SequenceCapacity,  \* model->scheduler_sequence_capacity
          QueueCapacity      \* scheduler->queue_capacity, runnable_capacity

ASSUME ConstantsAssumption ==
    /\ IsFiniteSet(Context) /\ NoKey \notin Key
    /\ Width \in Nat \ {0} /\ SequenceCapacity \in Nat \ {0}
    /\ QueueCapacity \in Nat /\ QueueCapacity >= SequenceCapacity

VARIABLES
    scheduler,   \* model->engine_scheduler: "none", "open" or "closing"
    references,  \* model->engine_scheduler_references
    producers,   \* model->engine_scheduler_producers
    floor,       \* producer_arrival_floor
    stopping,
    queue,       \* the contexts whose tickets are queued, in order
    selected,    \* those whose tickets the worker executes
    worker,      \* where the worker thread is
    pc,          \* where the thread of each context is
    ticket,      \* its ticket
    cancel,      \* what its cancel_requested callback answers
    closer       \* where the thread that closes the context is

vars == <<scheduler, references, producers, floor, stopping, queue, selected,
          worker, pc, ticket, cancel, closer>>
shared == <<scheduler, references, producers, floor, stopping>>

NoTicket == [key |-> NoKey, rows |-> 0, state |-> "none"]
Ticket == [key: Key, rows: 1 .. Width, state: {"none", "ok", "failed", "cancelled"}]

\* The states of the coordinator: the queue holds at most queue_capacity
\* tickets and the worker's selection no more than that.
TypeOK ==
    /\ scheduler \in {"none", "open", "closing"}
    /\ references \in 0 .. Cardinality(Context)
    /\ producers \in 0 .. SequenceCapacity
    /\ floor \in {0, 2}
    /\ stopping \in BOOLEAN
    /\ queue \in Seq(Context) /\ Len(queue) <= QueueCapacity
    /\ selected \in Seq(Context) /\ Len(selected) <= QueueCapacity
    /\ worker \in {"start", "idle", "asleep", "coalesce", "execute", "exited"}
    /\ pc \in [Context -> {"closed", "open", "active", "producing", "asleep",
                           "awake"}]
    /\ ticket \in [Context -> Ticket \cup {NoTicket}]
    /\ cancel \in [Context -> BOOLEAN]
    /\ closer \in [Context -> {"none", "drain", "asleep", "drained", "join"}]

Init ==
    /\ scheduler = "none" /\ references = 0 /\ producers = 0 /\ floor = 0
    /\ stopping = FALSE
    /\ queue = << >> /\ selected = << >>
    /\ worker = "exited"
    /\ pc = [c \in Context |-> "closed"]
    /\ ticket = [c \in Context |-> NoTicket]
    /\ cancel = [c \in Context |-> FALSE]
    /\ closer = [c \in Context |-> "none"]

\* A broadcast of scheduler->ready, on which only the worker waits, and one
\* of scheduler->completed, on which submitters wait.
Ready(w) == IF w = "asleep" THEN "idle" ELSE w

CompletedLost(f) == f
Completed(f) == [c \in Context |-> IF f[c] = "asleep" THEN "awake" ELSE f[c]]
-----------------------------------------------------------------------------
(***************************************************************************)
(* A context: open, turns, close.                                          *)
(***************************************************************************)

\* model_scheduler_acquire opens and starts the coordinator for the first.
Acquire(c) ==
    /\ pc[c] = "closed" /\ scheduler \in {"none", "open"}
    /\ pc' = [pc EXCEPT ![c] = "open"]
    /\ references' = references + 1
    /\ scheduler' = "open"
    /\ IF scheduler = "none"
       THEN worker' = "start" /\ stopping' = FALSE /\ floor' = 0
       ELSE UNCHANGED <<worker, stopping, floor>>
    /\ UNCHANGED <<producers, queue, selected, ticket, cancel, closer>>

\* generation_enter: a closing context refuses.
Enter(c) ==
    /\ pc[c] = "open" /\ closer[c] = "none"
    /\ pc' = [pc EXCEPT ![c] = "active"]
    /\ UNCHANGED <<shared, queue, selected, worker, ticket, cancel, closer>>

\* set_producers.
SetProducers(n) ==
    /\ producers' = n
    /\ floor' = IF producers = 0 /\ n = 1 /\ QueueCapacity >= 2 THEN 2
                ELSE IF n = 0 THEN 0 ELSE floor
    /\ worker' = Ready(worker)

Admits == producers < SequenceCapacity

ProducerEnter(c) ==
    /\ pc[c] = "active" /\ scheduler = "open" /\ Admits
    /\ SetProducers(producers + 1)
    /\ pc' = [pc EXCEPT ![c] = "producing"]
    /\ UNCHANGED <<scheduler, references, stopping, queue, selected, ticket,
                   cancel, closer>>

ProducerLeave(c) ==
    /\ pc[c] = "producing"
    /\ SetProducers(producers - 1)
    /\ pc' = [pc EXCEPT ![c] = "active"]
    /\ UNCHANGED <<scheduler, references, stopping, queue, selected, ticket,
                   cancel, closer>>

\* A broadcast of drain_condition, on which only the closing thread waits.
DrainedLost(w) == w
Drained(w) == IF w = "asleep" THEN "drain" ELSE w

\* generation_leave clears ACTIVE and broadcasts under drain_mutex.
Leave(c) ==
    /\ pc[c] = "active"
    /\ pc' = [pc EXCEPT ![c] = "open"]
    /\ cancel' = [cancel EXCEPT ![c] = FALSE]
    /\ closer' = [closer EXCEPT ![c] = Drained(@)]
    /\ UNCHANGED <<shared, queue, selected, worker, ticket>>

Cancel(c) ==
    /\ pc[c] \notin {"closed", "open"} /\ ~cancel[c]
    /\ cancel' = [cancel EXCEPT ![c] = TRUE]
    /\ UNCHANGED <<shared, queue, selected, worker, pc, ticket, closer>>

Full == Len(queue) = QueueCapacity

\* A full queue or a stopping coordinator refuses and changes nothing.
Submit(c) ==
    /\ pc[c] = "producing" /\ ~stopping /\ ~Full
    /\ \E k \in Key, r \in 1 .. Width :
          ticket' = [ticket EXCEPT ![c] = [key |-> k, rows |-> r, state |-> "none"]]
    /\ queue' = Append(queue, c)
    /\ worker' = Ready(worker)
    /\ pc' = [pc EXCEPT ![c] = "asleep"]
    /\ UNCHANGED <<shared, selected, cancel, closer>>

\* The wait of submit ends, or goes on.
SubmitAwakes(c) ==
    /\ pc[c] = "awake"
    /\ IF ticket[c].state # "none" \/ stopping
       THEN /\ pc' = [pc EXCEPT ![c] = "producing"]
            /\ ticket' = [ticket EXCEPT ![c] = NoTicket]
       ELSE /\ pc' = [pc EXCEPT ![c] = "asleep"]
            /\ UNCHANGED ticket
    /\ UNCHANGED <<shared, queue, selected, worker, cancel, closer>>

\* generation_context_close sets CLOSING with a compare-and-swap, outside
\* drain_mutex.
CloseBegin(c) ==
    /\ pc[c] # "closed" /\ closer[c] = "none"
    /\ closer' = [closer EXCEPT ![c] = "drain"]
    /\ UNCHANGED <<shared, queue, selected, worker, pc, ticket, cancel>>

InactiveAlways(c) == pc[c] # "closed"
Inactive(c) == pc[c] = "open"

\* Its check-and-wait under drain_mutex.
CloseDrains(c) ==
    /\ closer[c] = "drain"
    /\ closer' = [closer EXCEPT ![c] = IF Inactive(c) THEN "drained" ELSE "asleep"]
    /\ UNCHANGED <<shared, queue, selected, worker, pc, ticket, cancel>>

\* The drained context gives its reference back; the last one closes the
\* coordinator.
Release(c) ==
    /\ closer[c] = "drained"
    /\ ~(references = 1 /\ producers > 0)
    /\ references' = references - 1
    /\ pc' = Completed([pc EXCEPT ![c] = "closed"])
    /\ IF references = 1
       THEN /\ scheduler' = "closing" /\ stopping' = TRUE
            /\ worker' = Ready(worker)
            /\ closer' = [closer EXCEPT ![c] = "join"]
       ELSE /\ closer' = [closer EXCEPT ![c] = "none"]
            /\ UNCHANGED <<scheduler, stopping, worker>>
    /\ UNCHANGED <<producers, floor, queue, selected, ticket, cancel>>

\* pthread_join of the worker, then the coordinator is freed.
Join(c) ==
    /\ closer[c] = "join" /\ worker = "exited"
    /\ closer' = [closer EXCEPT ![c] = "none"]
    /\ scheduler' = "none"
    /\ UNCHANGED <<references, producers, floor, stopping, queue, selected,
                   worker, pc, ticket, cancel>>
-----------------------------------------------------------------------------
(***************************************************************************)
(* The worker thread.                                                      *)
(***************************************************************************)
CompatibleAlways(c, d, rows) == rows + ticket[d].rows <= Width

\* scheduler_keys_match, and the candidate's rows still fit.
Compatible(c, d, rows) ==
    /\ ticket[c].key = ticket[d].key
    /\ rows + ticket[d].rows <= Width

Gathered == [batch |-> << >>, rows |-> 0, rest |-> << >>, dropped |-> {}]

\* One ticket of the scan of scheduler_select_locked.
Gather(g, c) ==
    IF cancel[c] THEN [g EXCEPT !.dropped = @ \cup {c}]
    ELSE IF g.batch = << >> \/ Compatible(Head(g.batch), c, g.rows)
    THEN [g EXCEPT !.batch = Append(@, c), !.rows = @ + ticket[c].rows]
    ELSE [g EXCEPT !.rest = Append(@, c)]

\* The scan goes through the queue from its head.
Scan(q) ==
    LET scan[n \in 0 .. Len(q)] ==
            IF n = 0 THEN Gathered ELSE Gather(scan[n - 1], q[n])
    IN  scan[Len(q)]

\* scheduler_compatible_count_locked: it does not ask for cancellation.
Count(n, c) ==
    IF Compatible(Head(queue), c, n.rows)
    THEN [count |-> n.count + 1, rows |-> n.rows + ticket[c].rows] ELSE n
CompatibleCount ==
    LET seen[n \in 0 .. Len(queue)] ==
            IF n = 0 THEN [count |-> 0, rows |-> 0] ELSE Count(seen[n - 1], queue[n])
    IN  seen[Len(queue)].count

\* Whether scheduler_coalesce_locked waits for more tickets.
Coalesces ==
    LET expected == IF producers > floor THEN producers ELSE floor
        missing  == IF expected > Len(queue) THEN expected - Len(queue) ELSE 0
    IN  /\ ~stopping /\ expected >= 2
        /\ CompatibleCount < expected
        /\ CompatibleCount + missing >= expected

Reversed(s) == [i \in 1 .. Len(s) |-> s[Len(s) + 1 - i]]
SelectNewest ==
    LET g == Scan(Reversed(queue)) IN
    /\ queue' = Reversed(g.rest)
    /\ selected' = g.batch
    /\ ticket' = [c \in Context |->
                    IF c \in g.dropped THEN [ticket[c] EXCEPT !.state = "cancelled"]
                    ELSE ticket[c]]
    /\ pc' = Completed(pc)
    /\ worker' = IF g.batch = << >> THEN "idle" ELSE "execute"

SelectKept ==
    LET g == Scan(queue) IN
    /\ queue' = g.rest \o SubSeq(g.batch, 2, Len(g.batch))
    /\ selected' = g.batch
    /\ ticket' = [c \in Context |->
                    IF c \in g.dropped THEN [ticket[c] EXCEPT !.state = "cancelled"]
                    ELSE ticket[c]]
    /\ pc' = Completed(pc)
    /\ worker' = IF g.batch = << >> THEN "idle" ELSE "execute"

\* scheduler_select_locked.
Select ==
    LET g == Scan(queue) IN
    /\ queue' = g.rest
    /\ selected' = g.batch
    /\ ticket' = [c \in Context |->
                    IF c \in g.dropped THEN [ticket[c] EXCEPT !.state = "cancelled"]
                    ELSE ticket[c]]
    /\ pc' = Completed(pc)
    /\ worker' = IF g.batch = << >> THEN "idle" ELSE "execute"

WorkerStarts ==
    /\ worker = "start" /\ worker' = "idle"
    /\ UNCHANGED <<shared, queue, selected, pc, ticket, cancel, closer>>

\* The worker cannot allocate its selection: what is queued is cancelled.
WorkerFails ==
    /\ worker = "start" /\ worker' = "exited"
    /\ stopping' = TRUE
    /\ queue' = << >>
    /\ ticket' = [c \in Context |->
                    IF c \in Range(queue) THEN [ticket[c] EXCEPT !.state = "cancelled"]
                    ELSE ticket[c]]
    /\ pc' = Completed(pc)
    /\ UNCHANGED <<scheduler, references, producers, floor, selected, cancel,
                   closer>>

WorkerWaits ==
    /\ worker = "idle" /\ queue = << >>
    /\ worker' = IF stopping THEN "exited" ELSE "asleep"
    /\ UNCHANGED <<shared, queue, selected, pc, ticket, cancel, closer>>

WorkerCoalesces ==
    /\ worker = "idle" /\ queue # << >> /\ Coalesces
    /\ worker' = "coalesce"
    /\ UNCHANGED <<shared, queue, selected, pc, ticket, cancel, closer>>

\* At once, or when the wait is over: timed out, enough tickets have come or
\* too few can still come.
WorkerSelects ==
    /\ \/ worker = "idle" /\ queue # << >> /\ ~Coalesces
       \/ worker = "coalesce"
    /\ Select
    /\ floor' = IF worker = "idle" /\ stopping THEN floor ELSE 0
    /\ UNCHANGED <<scheduler, references, producers, stopping, cancel, closer>>

\* The batch is executed unlocked; one status goes to all its tickets.
WorkerFinishes ==
    /\ worker = "execute"
    /\ \E status \in {"ok", "failed"} :
          ticket' = [c \in Context |->
                       IF c \in Range(selected)
                       THEN [ticket[c] EXCEPT !.state = status] ELSE ticket[c]]
    /\ selected' = << >>
    /\ pc' = Completed(pc)
    /\ worker' = "idle"
    /\ UNCHANGED <<shared, queue, cancel, closer>>
-----------------------------------------------------------------------------
CloseStep(c) == CloseDrains(c) \/ Release(c) \/ Join(c)

ContextStep(c) ==
    \/ Acquire(c) \/ Enter(c) \/ ProducerEnter(c) \/ ProducerLeave(c)
    \/ Leave(c) \/ Cancel(c) \/ Submit(c)
    \/ CloseBegin(c) \/ CloseStep(c)

WorkerStep ==
    \/ WorkerStarts \/ WorkerWaits \/ WorkerCoalesces \/ WorkerSelects
    \/ WorkerFinishes

Next ==
    \/ \E c \in Context : ContextStep(c) \/ SubmitAwakes(c)
    \/ WorkerStep \/ WorkerFails

Spec == Init /\ [][Next]_vars

\* The kernel schedules the worker and every thread whose wait is over; the
\* coalescing wait has a deadline and an execution ends.
FairSpec ==
    /\ Spec
    /\ WF_vars(WorkerStep \/ WorkerFails)
    /\ \A c \in Context : WF_vars(SubmitAwakes(c)) /\ WF_vars(CloseStep(c))
-----------------------------------------------------------------------------
Submitting(c) == pc[c] \in {"asleep", "awake"}

\* A ticket is memory of the submitting thread's stack frame: while the
\* queue or the worker refers to it, the thread has not left submit, although
\* submit also returns when the coordinator stops.  It depends on
\* generation_context_close draining a context before its release.
TicketLifetime ==
    \A c \in Range(queue) \cup Range(selected) : Submitting(c)

\* No ticket is lost or served twice: one that has no result yet is in the
\* queue or with the worker, exactly once.
TicketOnce ==
    LET places == queue \o selected IN
    /\ Len(places) = Cardinality(Range(places))
    /\ \A c \in Context :
          Submitting(c) /\ ticket[c].state = "none" <=> c \in Range(places)

Rows(s) ==
    LET rows[n \in 0 .. Len(s)] ==
            IF n = 0 THEN 0 ELSE rows[n - 1] + ticket[s[n]].rows
    IN  rows[Len(s)]

\* An execution mixes no two keys and is no wider than the key admits.
BatchAdmitted ==
    /\ \A c, d \in Range(selected) : ticket[c].key = ticket[d].key
    /\ Rows(selected) <= Width

\* The counters of the model lifecycle are those of the contexts, and the
\* coordinator exists as long as a context holds a reference.
OwnersExact ==
    /\ references = Cardinality({c \in Context : pc[c] # "closed"})
    /\ producers = Cardinality({c \in Context :
                       pc[c] \in {"producing", "asleep", "awake"}})
    /\ references > 0 <=> scheduler = "open"

\* The oldest ticket that is not cancelled is in the batch: incompatible
\* work is passed over only behind it.
OldestFirst ==
    [][\A i \in DOMAIN queue :
          /\ \A j \in 1 .. i - 1 : cancel[queue[j]]
          /\ ~cancel[queue[i]]
          /\ selected' # << >> /\ selected = << >>
          => Head(selected') = queue[i]]_vars

\* No wakeup of the closing thread is lost: once the turn it waits for has
\* left, close goes on and returns, however the check of ACTIVE, the sleep
\* and generation_leave interleave.
DrainEnds ==
    \A c \in Context : (closer[c] # "none" /\ Inactive(c)) ~> closer[c] = "none"

\* Every submit returns.
SubmitReturns == \A c \in Context : Submitting(c) ~> pc[c] = "producing"
=============================================================================
