---------------------------- MODULE EngineManager ----------------------------
(***************************************************************************)
(* Loaded engine generations and their leases (src/server/engine.c), as    *)
(* the client threads of src/server/core.c use them.  One mutex and one    *)
(* condition guard the slots; an action is one critical section, or one    *)
(* stretch of code that runs with the mutex released.                      *)
(*                                                                         *)
(* WokenNever, BroadcastLost, LoadReserveStale, ReleaseTwice, UnowedAlways *)
(* and CloseAwakesAtOnce are wrong variants of the definitions they        *)
(* precede; no action uses them.                                           *)
(***************************************************************************)
EXTENDS Naturals, FiniteSets

CONSTANTS Client,         \* calls in progress: client threads and their work
          Alias,          \* deployment names
          Finite,         \* the names of finite-decision deployments
          Capacity,       \* manager->capacity
          Lease,          \* entries of manager->model_leases
          NoAlias,        \* an empty name
          MaxGeneration,  \* bound: loads that are explored
          MaxSessions     \* options.maximum_sessions

ASSUME ConstantsAssumption ==
    /\ IsFiniteSet(Client) /\ IsFiniteSet(Lease)
    /\ NoAlias \notin Alias /\ Finite \subseteq Alias
    /\ Capacity \in Nat \ {0}
    /\ MaxGeneration \in Nat \ {0} /\ MaxSessions \in Nat \ {0}

Slot == 1 .. Capacity
NoSlot == 0
Nowhere == [slot |-> NoSlot, generation |-> 0]

VARIABLES
    engine,          \* manager->engines
    lease,           \* manager->model_leases
    nextGeneration,  \* manager->next_generation
    closing,         \* manager->closing
    pc,              \* where each call is
    at,              \* the engine and the generation it works on
    manager,         \* where the host is in engine_manager_close
    retiring         \* slots engine_manager_close has still to close

vars == <<engine, lease, nextGeneration, closing, pc, at, manager, retiring>>

State == {"UNLOADED", "LOADING", "LOADED", "DRAINING", "UNLOADING", "FAILED"}

\* "open" stands for the model, its resources and the request queue,
\* "registry" for engine->sessions, engine->media or engine->finite_decision,
\* "stopped" for the queue's stopping flag.
Engine ==
    [alias: Alias \cup {NoAlias}, state: State, generation: 0 .. MaxGeneration,
     active_work: 0 .. Cardinality(Client),
     model_lease_count: 0 .. Cardinality(Client) + Cardinality(Lease),
     open: BOOLEAN, stopped: BOOLEAN, registry: BOOLEAN,
     sessions: 0 .. MaxSessions]

Held == [slot: Slot \cup {NoSlot}, generation: 0 .. MaxGeneration]

\* The states of the manager: no counter leaves its range, and every
\* generation in use has been issued.
TypeOK ==
    /\ engine \in [Slot -> Engine]
    /\ lease \in [Lease -> Held]
    /\ nextGeneration \in 1 .. MaxGeneration + 1
    /\ closing \in BOOLEAN
    /\ pc \in [Client -> {"idle", "load", "leased", "queued", "executed",
                          "finite", "asleep", "awake", "close", "publish",
                          "tail"}]
    /\ at \in [Client -> Held]
    /\ manager \in {"open", "asleep", "awake", "retire", "freed"}
    /\ retiring \subseteq Slot
    /\ \A s \in Slot : engine[s].generation < nextGeneration

Empty ==
    [alias |-> NoAlias, state |-> "UNLOADED", generation |-> 0,
     active_work |-> 0, model_lease_count |-> 0, open |-> FALSE,
     stopped |-> FALSE, registry |-> FALSE, sessions |-> 0]

Init ==
    /\ engine = [s \in Slot |-> Empty]
    /\ lease = [l \in Lease |-> Nowhere]
    /\ nextGeneration = 1
    /\ closing = FALSE
    /\ pc = [c \in Client |-> "idle"]
    /\ at = [c \in Client |-> Nowhere]
    /\ manager = "open" /\ retiring = {}
-----------------------------------------------------------------------------
\* What a call does to a freed manager is undefined: the behaviour is not
\* followed further (see CloseDrainsClients).
Alive == manager # "freed"

Begins(c, where, s) ==
    /\ pc' = [pc EXCEPT ![c] = where]
    /\ at' = [at EXCEPT ![c] = [slot |-> s, generation |-> engine[s].generation]]

\* The engines with other counters in slot s.
Counted(s, work, leases) ==
    [engine EXCEPT ![s] = [@ EXCEPT !.active_work = work,
                                    !.model_lease_count = leases]]

WokenNever(f) == f

\* What pthread_cond_broadcast does to the threads that wait for work to end.
Woken(f) == [c \in Client |-> IF f[c] = "asleep" THEN "awake" ELSE f[c]]

BroadcastLost == manager' = manager

Broadcast == manager' = IF manager = "asleep" THEN "awake" ELSE manager

Lowest(S) == {s \in S : \A r \in S : s <= r}

\* engine_find.
Find(a) == Lowest({s \in Slot : engine[s].alias = a})

\* engine_reserve: the slot of that name if it is out of use, else the first
\* unused slot.
Reserve(a) ==
    IF Find(a) # {}
    THEN {s \in Find(a) : engine[s].state \in {"UNLOADED", "FAILED"}}
    ELSE Lowest({s \in Slot : \/ engine[s].alias = NoAlias
                              \/ engine[s].state = "UNLOADED"})

\* engine_close: the registry is kept when closing one of its sessions, or
\* the finite-decision engine, fails; everything else is released all the same.
Closed(e) ==
    LET released == [e EXCEPT !.open = FALSE, !.registry = FALSE,
                              !.sessions = 0, !.stopped = FALSE]
    IN  {released} \cup
        {[released EXCEPT !.registry = TRUE, !.sessions = n] :
            n \in {m \in 0 .. e.sessions :
                     e.registry /\ (m > 0 \/ e.alias \in Finite)}}
-----------------------------------------------------------------------------
(***************************************************************************)
(* engine_manager_load.                                                    *)
(***************************************************************************)
LoadReserveStale(c, a) ==
    /\ Alive /\ pc[c] = "idle"
    /\ ~closing
    /\ \E s \in Reserve(a) :
          /\ engine' = [engine EXCEPT ![s] =
                [Empty EXCEPT !.alias = a, !.state = "LOADING",
                              !.generation = nextGeneration,
                              !.active_work = 1]]
          /\ pc' = [pc EXCEPT ![c] = "load"]
          /\ at' = [at EXCEPT ![c] = [slot |-> s, generation |-> nextGeneration]]
    /\ nextGeneration' = 2
    /\ UNCHANGED <<lease, closing, manager, retiring>>

LoadReserve(c, a) ==
    /\ Alive /\ pc[c] = "idle"
    /\ ~closing /\ nextGeneration <= MaxGeneration
    /\ \E s \in Reserve(a) :
          /\ engine' = [engine EXCEPT ![s] =
                [Empty EXCEPT !.alias = a, !.state = "LOADING",
                              !.generation = nextGeneration,
                              !.active_work = 1]]
          /\ pc' = [pc EXCEPT ![c] = "load"]
          /\ at' = [at EXCEPT ![c] = [slot |-> s, generation |-> nextGeneration]]
    /\ nextGeneration' = nextGeneration + 1
    /\ UNCHANGED <<lease, closing, manager, retiring>>

\* The candidate as text_engine_open, media_engine_open or
\* finite_decision_engine_open leaves it, under the slot's name.
Opened(held) ==
    [Empty EXCEPT !.alias = engine[held.slot].alias,
                  !.generation = held.generation,
                  !.open = TRUE, !.registry = TRUE]

\* The candidate was opened, or opened in part and closed again, with the
\* mutex released; it is copied over the slot.
LoadPublish(c) ==
    /\ Alive /\ pc[c] = "load"
    /\ \/ engine' = [engine EXCEPT ![at[c].slot] =
                        [Opened(at[c]) EXCEPT !.state = "LOADED"]]
       \/ \E e \in Closed(Opened(at[c])) :
             engine' = [engine EXCEPT ![at[c].slot] =
                          [e EXCEPT !.state = "FAILED"]]
    /\ pc' = Woken([pc EXCEPT ![c] = "tail"])
    /\ Broadcast
    /\ UNCHANGED <<lease, nextGeneration, closing, at, retiring>>

\* The lifecycle event that load and unload emit through manager->telemetry
\* after their last unlock.
Tail(c) ==
    /\ Alive /\ pc[c] = "tail"
    /\ pc' = [pc EXCEPT ![c] = "idle"]
    /\ at' = [at EXCEPT ![c] = Nowhere]
    /\ UNCHANGED <<engine, lease, nextGeneration, closing, manager, retiring>>
-----------------------------------------------------------------------------
(***************************************************************************)
(* A lease for one request: engine_manager_acquire, lease_submit,          *)
(* lease_execute on a queue worker, engine_manager_release.  Console       *)
(* status, preflight and cancel acquire, look at the engine and release.   *)
(***************************************************************************)
Loaded(s) == engine[s].state = "LOADED"

\* An unnamed engine is the only one loaded that is not finite.
Routed(a) ==
    IF a # NoAlias THEN Find(a)
    ELSE LET S == {s \in Slot : Loaded(s) /\ engine[s].alias \notin Finite}
         IN  IF Cardinality(S) = 1 THEN S ELSE {}

\* A request names a generation, or 0 for whatever is loaded.
Acquire(c, a, g) ==
    /\ Alive /\ pc[c] = "idle"
    /\ ~closing
    /\ \E s \in Routed(a) :
          /\ Loaded(s) /\ engine[s].alias \notin Finite
          /\ g \in {0, engine[s].generation}
          /\ engine' = Counted(s, engine[s].active_work + 1,
                               engine[s].model_lease_count)
          /\ Begins(c, "leased", s)
    /\ UNCHANGED <<lease, nextGeneration, closing, manager, retiring>>

Submit(c) ==
    /\ Alive /\ pc[c] = "leased"
    /\ engine[at[c].slot].generation = at[c].generation
    /\ engine[at[c].slot].open /\ ~engine[at[c].slot].stopped
    /\ pc' = [pc EXCEPT ![c] = "queued"]
    /\ UNCHANGED <<engine, lease, nextGeneration, closing, at, manager, retiring>>

\* The request may create a session, close one, or leave their number alone.
Execute(c) ==
    /\ Alive /\ pc[c] = "queued"
    /\ LET e == engine[at[c].slot] IN
       /\ e.generation = at[c].generation /\ e.registry
       /\ \E n \in {e.sessions, e.sessions + 1, e.sessions - 1} :
             /\ n \in 0 .. MaxSessions
             /\ engine' = [engine EXCEPT ![at[c].slot].sessions = n]
    /\ pc' = [pc EXCEPT ![c] = "executed"]
    /\ UNCHANGED <<lease, nextGeneration, closing, at, manager, retiring>>

ReleaseTwice(c) ==
    /\ Alive /\ pc[c] \in {"leased", "queued", "executed"}
    /\ engine' = [engine EXCEPT ![at[c].slot].active_work =
                     IF engine[at[c].slot].generation = at[c].generation /\ @ > 0
                     THEN @ - 1 ELSE @]
    /\ pc' = Woken([pc EXCEPT ![c] = IF pc[c] = "queued" THEN "executed" ELSE "idle"])
    /\ at' = IF pc[c] = "queued" THEN at ELSE [at EXCEPT ![c] = Nowhere]
    /\ Broadcast
    /\ UNCHANGED <<lease, nextGeneration, closing, retiring>>

Release(c) ==
    /\ Alive /\ pc[c] \in {"leased", "executed"}
    /\ LET e == engine[at[c].slot] IN
       engine' = IF e.generation = at[c].generation /\ e.active_work > 0
                 THEN Counted(at[c].slot, e.active_work - 1, e.model_lease_count)
                 ELSE engine
    /\ pc' = Woken([pc EXCEPT ![c] = "idle"])
    /\ at' = [at EXCEPT ![c] = Nowhere]
    /\ Broadcast
    /\ UNCHANGED <<lease, nextGeneration, closing, retiring>>
-----------------------------------------------------------------------------
(***************************************************************************)
(* finite_decision_execute and finite_produce: the work counts both as     *)
(* active work and as a model lease while it runs unlocked.                *)
(***************************************************************************)
FiniteBegin(c, a) ==
    /\ Alive /\ pc[c] = "idle"
    /\ ~closing
    /\ \E s \in Find(a) :
          /\ Loaded(s) /\ engine[s].alias \in Finite
          /\ engine' = Counted(s, engine[s].active_work + 1,
                               engine[s].model_lease_count + 1)
          /\ Begins(c, "finite", s)
    /\ UNCHANGED <<lease, nextGeneration, closing, manager, retiring>>

FiniteEnd(c) ==
    /\ Alive /\ pc[c] = "finite"
    /\ LET e == engine[at[c].slot] IN
       engine' = Counted(at[c].slot, e.active_work - 1, e.model_lease_count - 1)
    /\ pc' = Woken([pc EXCEPT ![c] = "idle"])
    /\ at' = [at EXCEPT ![c] = Nowhere]
    /\ Broadcast
    /\ UNCHANGED <<lease, nextGeneration, closing, retiring>>
-----------------------------------------------------------------------------
(***************************************************************************)
(* Model leases, held by a client between two requests.                    *)
(***************************************************************************)
ModelLeaseAcquire(l, a) ==
    /\ Alive /\ lease[l] = Nowhere
    /\ \E s \in Find(a) :
          /\ Loaded(s)
          /\ engine' = Counted(s, engine[s].active_work,
                               engine[s].model_lease_count + 1)
          /\ lease' = [lease EXCEPT ![l] =
                          [slot |-> s, generation |-> engine[s].generation]]
    /\ UNCHANGED <<nextGeneration, closing, pc, at, manager, retiring>>

ModelLeaseRelease(l) ==
    /\ Alive /\ lease[l] # Nowhere
    /\ LET e == engine[lease[l].slot] IN
       /\ e.generation = lease[l].generation /\ e.model_lease_count > 0
       /\ engine' = Counted(lease[l].slot, e.active_work, e.model_lease_count - 1)
    /\ lease' = [lease EXCEPT ![l] = Nowhere]
    /\ pc' = Woken(pc)
    /\ Broadcast
    /\ UNCHANGED <<nextGeneration, closing, at, retiring>>
-----------------------------------------------------------------------------
(***************************************************************************)
(* engine_manager_unload.                                                  *)
(***************************************************************************)

\* The drain loop, with the mutex held: wait, or begin to close the engine.
Drain(c, s, e) ==
    IF e.active_work = 0
    THEN /\ engine' = [engine EXCEPT ![s] = [e EXCEPT !.state = "UNLOADING"]]
         /\ pc' = [pc EXCEPT ![c] = "close"]
    ELSE /\ engine' = [engine EXCEPT ![s] = e]
         /\ pc' = [pc EXCEPT ![c] = "asleep"]

UnowedAlways(e) == TRUE

Unowed(e) == e.model_lease_count = 0 /\ e.sessions = 0

UnloadBegin(c, a, g) ==
    /\ Alive /\ pc[c] = "idle"
    /\ \E s \in Find(a) :
          /\ Loaded(s) /\ g \in {0, engine[s].generation}
          /\ Unowed(engine[s])
          /\ Drain(c, s, [engine[s] EXCEPT !.state = "DRAINING"])
          /\ at' = [at EXCEPT ![c] =
                       [slot |-> s, generation |-> engine[s].generation]]
    /\ UNCHANGED <<lease, nextGeneration, closing, manager, retiring>>

UnloadAwakes(c) ==
    /\ Alive /\ pc[c] = "awake"
    /\ Drain(c, at[c].slot, engine[at[c].slot])
    /\ UNCHANGED <<lease, nextGeneration, closing, at, manager, retiring>>

SpuriousWakeup(c) ==
    /\ Alive /\ pc[c] = "asleep"
    /\ pc' = [pc EXCEPT ![c] = "awake"]
    /\ UNCHANGED <<engine, lease, nextGeneration, closing, at, manager, retiring>>

\* engine_close runs with the mutex released.
UnloadClose(c) ==
    /\ Alive /\ pc[c] = "close"
    /\ \E e \in Closed(engine[at[c].slot]) :
          engine' = [engine EXCEPT ![at[c].slot] = e]
    /\ pc' = [pc EXCEPT ![c] = "publish"]
    /\ UNCHANGED <<lease, nextGeneration, closing, at, manager, retiring>>

UnloadPublish(c) ==
    /\ Alive /\ pc[c] = "publish"
    /\ engine' = [engine EXCEPT ![at[c].slot].state =
                     IF engine[at[c].slot].registry THEN "FAILED" ELSE "UNLOADED"]
    /\ pc' = Woken([pc EXCEPT ![c] = "tail"])
    /\ Broadcast
    /\ UNCHANGED <<lease, nextGeneration, closing, at, retiring>>
-----------------------------------------------------------------------------
(***************************************************************************)
(* The host: cancel_all when it stops, engine_manager_close when it        *)
(* finishes (yvex_server_stop and yvex_server_finish in core.c).           *)
(***************************************************************************)
CancelAll ==
    /\ manager = "open"
    /\ engine' = [s \in Slot |->
          IF engine[s].state \in {"LOADED", "DRAINING"}
          THEN [engine[s] EXCEPT !.stopped = engine[s].alias \notin Finite]
          ELSE engine[s]]
    /\ UNCHANGED <<lease, nextGeneration, closing, pc, at, manager, retiring>>

\* The drain loop of engine_manager_close over all slots.
DrainAll(es) ==
    /\ manager' = IF \A s \in Slot : es[s].active_work = 0
                  THEN "retire" ELSE "asleep"
    /\ retiring' = Slot

CloseBegin ==
    /\ manager = "open"
    /\ closing' = TRUE
    /\ engine' = [s \in Slot |->
          IF Loaded(s)
          THEN [engine[s] EXCEPT !.state = "DRAINING",
                                 !.stopped = engine[s].alias \notin Finite]
          ELSE engine[s]]
    /\ DrainAll(engine')
    /\ UNCHANGED <<lease, nextGeneration, pc, at>>

CloseAwakesAtOnce ==
    /\ manager = "awake"
    /\ manager' = "retire"
    /\ UNCHANGED <<engine, lease, nextGeneration, closing, pc, at, retiring>>

CloseAwakes ==
    /\ manager = "awake"
    /\ DrainAll(engine)
    /\ UNCHANGED <<engine, lease, nextGeneration, closing, pc, at>>

CloseEngine ==
    /\ manager = "retire"
    /\ \E s \in Lowest(retiring) :
          /\ \E e \in Closed(engine[s]) : engine' = [engine EXCEPT ![s] = e]
          /\ retiring' = retiring \ {s}
    /\ UNCHANGED <<lease, nextGeneration, closing, pc, at, manager>>

Free ==
    /\ manager = "retire" /\ retiring = {}
    /\ manager' = "freed"
    /\ UNCHANGED <<engine, lease, nextGeneration, closing, pc, at, retiring>>

Freed == manager = "freed" /\ UNCHANGED vars
-----------------------------------------------------------------------------
ClientStep(c) ==
    \/ \E a \in Alias : LoadReserve(c, a) \/ FiniteBegin(c, a)
    \/ \E a \in Alias \cup {NoAlias}, g \in 0 .. MaxGeneration : Acquire(c, a, g)
    \/ \E a \in Alias, g \in 0 .. MaxGeneration : UnloadBegin(c, a, g)

\* What a call in progress does without waiting for anybody.
CallStep(c) ==
    \/ LoadPublish(c) \/ Tail(c)
    \/ Submit(c) \/ Execute(c) \/ Release(c) \/ FiniteEnd(c)
    \/ UnloadAwakes(c) \/ UnloadClose(c) \/ UnloadPublish(c)

HostStep == CloseAwakes \/ CloseEngine \/ Free

Next ==
    \/ \E c \in Client : ClientStep(c) \/ CallStep(c) \/ SpuriousWakeup(c)
    \/ \E l \in Lease : ModelLeaseRelease(l)
    \/ \E l \in Lease, a \in Alias : ModelLeaseAcquire(l, a)
    \/ CancelAll \/ CloseBegin \/ HostStep \/ Freed

Spec == Init /\ [][Next]_vars

\* A call that is not blocked goes on: no thread is starved by the kernel and
\* admitted work ends (it is bounded, and cancelled when the engine drains).
FairSpec ==
    /\ Spec
    /\ \A c \in Client : WF_vars(CallStep(c))
    /\ WF_vars(HostStep)
-----------------------------------------------------------------------------
Holding(c) == pc[c] \in {"leased", "queued", "executed", "finite"}

\* Work under a lease always finds the generation it acquired, with its
\* resources open: neither unload, a later load into the same slot nor
\* engine_manager_close takes them away before the lease is released
\* (docs/contracts/runtime.md:403, "waits for bounded completion before
\* resource release").
LeaseProtects ==
    Alive => \A c \in Client : Holding(c) =>
        LET e == engine[at[c].slot] IN
        /\ e.generation = at[c].generation
        /\ e.state \in {"LOADED", "DRAINING"}
        /\ e.open

Users(s) == {c \in Client : at[c].slot = s /\ (Holding(c) \/ pc[c] = "load")}
Leases(s) == {l \in Lease : lease[l].slot = s}
Finites(s) == {c \in Client : at[c].slot = s /\ pc[c] = "finite"}

\* active_work is the number of calls in progress on the engine, and
\* model_lease_count that of the leases of its generation and of the finite
\* executions, which share the counter.
CountsExact ==
    \A s \in Slot :
        /\ engine[s].active_work = Cardinality(Users(s))
        /\ engine[s].model_lease_count =
              Cardinality(Leases(s)) + Cardinality(Finites(s))

\* A model lease keeps its exact generation loaded until it is released or
\* the host finishes (docs/contracts/local-protocol.md:313).
ModelLeasePins ==
    \A l \in Lease : lease[l] # Nowhere =>
        LET e == engine[lease[l].slot] IN
        /\ e.generation = lease[l].generation
        /\ closing \/ e.state = "LOADED"

\* A generation that has left the loaded state never becomes loaded again:
\* only the publication of a load makes a slot routable, and a load begins
\* under a generation that no slot has had before.
NoRevival ==
    [][\A s \in Slot : engine'[s].state # engine[s].state =>
          /\ engine'[s].state = "LOADED" => engine[s].state = "LOADING"
          /\ engine'[s].state = "LOADING" =>
                \A r \in Slot : engine'[s].generation > engine[r].generation]_vars

\* Unload returns: draining refuses new leases and the leases there are end.
UnloadReturns ==
    \A c \in Client : pc[c] = "asleep" ~> pc[c] = "idle" \/ ~Alive

\* engine_manager_close returns.
CloseReturns == closing ~> manager = "freed"

\* docs/contracts/runtime.md:86, of unload: "It marks the engine draining
\* before waiting: new work and new sessions refuse", and
\* docs/contracts/local-protocol.md:314: "Unload refuses while any session or
\* model lease still owns the generation".
UnloadOwnsNothing ==
    \A s \in Slot : engine[s].state = "UNLOADING" =>
        engine[s].sessions = 0 /\ engine[s].model_lease_count = 0

\* docs/contracts/runtime.md:44: "Host stop refuses new connections, drains
\* bounded client work, closes every engine": no client thread is still
\* closing an engine once engine_manager_close closes engines.
CloseDrainsClients ==
    manager \in {"retire", "freed"} =>
        \A c \in Client : pc[c] \notin {"close", "publish"}
=============================================================================
