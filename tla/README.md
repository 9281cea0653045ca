# A TLA+ development for yvex

yvex compiles model packages and runs them in one long-lived host process. The
numeric work is sequential and tested; what is hard to test is the control
around it: worker threads, leases, unload and stop at any moment, cancellation,
partial failure. This directory models that control, model-checks it on small
instances and proves every safety property of the passing runs for every
instance. Paths below are relative to the repository's `src/`.

## The system and its inventory

A client thread of the **host** (`server/core.c`) decodes a request, takes a
lease on an engine generation from the **engine manager** (`server/engine.c`)
and submits the work to that engine's **request queue**
(`server/request_queue.c`). A queue worker executes it against the **session
registry** (`server/session*.c`). A text turn runs in a **generation context**
(`runtime/generation*.c`), which asks the **execution coordinator**
(`runtime/scheduler.c`) for permission to run each quantum (the *progress* half)
and hands compatible rows to its worker for joint execution (the *ticket* half).
Media work runs as an **execution transaction** (`runtime/transaction.c`) driven
by `runtime/latent.c`; it leases a **component session** (`runtime/component.c`),
whose prepared programs live in a **resource catalog** (`runtime/resource.c`).
A text step is one transaction of a **runtime session** (`runtime/session.c`,
`runtime/core.c`) over several participants: target and draft attention state,
recurrent state and the random stream (`graph/state*.c`,
`runtime/sequence_state.c`, `runtime/sampling.c`). An idle session can be saved
to and restored from the **checkpoint store** (`runtime/state_store.c`). Every
part reports to **telemetry** (`server/telemetry.c`), a ring of events that
clients follow and that the host drains when it stops. Beside them: the **OpenAI listener**, the **GGUF writer**
(`gguf/file_sink.c`), **source acquisition**, and the compiler (model, ir,
deployment), tokenizer, graph kernels and backends. `PROJECT.json` lists every
part with its status, and every hazard found in the survey with its line.

| Part | Module | Status |
|---|---|---|
| request queue | `RequestQueue`, abstract `KeyedFifo` | modelled, safety proved |
| coordinator, progress half | `ProgressScheduler` | modelled, safety proved |
| coordinator, ticket half; context lifecycle | `CompatibleBatching` | partly, safety proved |
| execution transaction | `ExecutionTransaction`, abstract `Publication` | modelled, proved |
| component session over its catalog, with the transaction | `ComponentExecution`, `ResourceCatalog` | partly, safety proved |
| engine manager | `EngineManager` | partly, safety proved |
| runtime session, its participants | `SessionTransaction`, abstract `GroupCommit` | partly, safety proved |
| checkpoint store | `CheckpointStore`; with the session: `SessionState` | modelled, safety proved |
| client threads, work items, turns of a text engine | `HostWork`, on `RequestQueue` | partly, safety proved |
| telemetry, subscriptions, host shutdown | `Telemetry` | partly, safety proved |
| everything else | | not modelled, see below |

## Modules and code

An action is one critical section of the mutex that guards the state, or one
stretch of code that runs with it released. A refused call changes nothing and
is no action. Summaries, timing, logging and wording are left out. Each module of
a passing run also holds a few deliberately wrong variants of its definitions, named in its
header and used by no action; each property is shown to fail when one of them
takes the place of the definition it precedes.

**RequestQueue.** `queue`, `active`, `started`, `stopping`, `finished` are the
fields of the struct; `pc` and `entry` are the workers, `owner` the thread that
starts and finishes the queue. `Start`/`CreateWorker`/`CreateFails` are `start`
with a `pthread_create` that may fail; `Submit` is `submit`;
`Wait`/`Select`/`Execute`/`Release`/`Exit` are the worker loop;
`RequestStop`, `Finish`, `Join`, `Closed` the end. `SpuriousWakeup` is what
`pthread_cond_wait` allows. Each operation is submitted at most once.

**HostWork.** The queue as the host uses it, for one text engine. `client` is the
thread of each item: `Acquire`, `PrepareFails` and `SubmitItem` are
`request_enqueue`, `Peek`, `ReadLease`, `SessionsCancel` and `Collect` the loop of
`client_wait_work`, which lets the item go before it cancels and reads the lease
without a lock. `Callback` is `model_work_execute`; `TurnBegin` and `TurnEnd` set
and clear the active turn of a session, `NoTurn` is every other operation.
`StopBegin`, `StopFlag`, `CancelAll` are `yvex_server_stop`, `ManagerClose`,
`EngineClose`, `HostClosed` the close of the manager. A registry that is read
after its close gives any answer. Media engines and unload are not in it.

**ProgressScheduler.** `tab` is the progress table with its three counters.
Submission ordinals are only compared, so `ahead[s]` keeps the comparison.
`Grants` computes at once what `progress_grant_locked` reaches by its loop;
`GrantTurn` and `GrantLoop` transcribe the loop turn by turn, and the invariant
`GrantIsTheLoop` says that both give the same table and that the loop is over
there. `Enter`, `WaitTurn`,
`YieldRequested`, `YieldResume`, `Transition`, `Leave`, `Close`, `CloseChecks`
are the calls; `WorkerFails` is the allocation failure that stops the scheduler.

**CompatibleBatching.** Tickets live on the stack of their submitter, so the
context names the ticket. `Acquire`/`Release`/`Join` are the shared coordinator's
reference count, `Enter`/`Leave`/`CloseBegin` the lifecycle bits of a generation
context, `CloseDrains` and `Drained` the wait of a closing context for its
active turn and the wakeup of `leave`, `ProducerEnter`/`ProducerLeave` the producer count, `Submit` and
`SubmitAwakes` the submit call, the `Worker*` actions the worker loop with its
coalescing wait. A coordinator that is closing and the next one are not followed
at the same time.

**ExecutionTransaction.** The counters and the state of the summary; the caller
may make any call in any order and another thread may ask for cancellation at
any time. Execute, publish and release callbacks may fail.

**ResourceCatalog** and **ComponentExecution.** The catalog has no behaviour of
its own: its operators (`Register`, `Acquire`, `Drop`, `Release`, `ReleaseFails`,
`Releasable`) are the critical sections of `resource.c`, and `ComponentExecution`
takes them one after the other, as the calls of a component session do.
`entries` is the list of prepared programs with their handles and what each has
borrowed. `JointExecute` enters the call, then `EvictHandle`/`EvictEntry`/
`Evicted`, `Find`, `Prepare`, `RegisterOne`, `Borrow`, `Lent` and `Run` are its
steps; `OpenLease` and `CloseLease` join the open and the close of the
transaction with the retain and release callbacks; `SessionClose`,
`CatalogRelease` and `SessionRelease` close the session. A close that fails
leaves the catalog closing and may be called again. The order in which the
catalog's close takes the releasable slots is left open. Byte budgets appear as
a refusal that may come at any time. A transaction with a lease from elsewhere
(`lease = "other"`) keeps the callbacks that may fail.

**SessionTransaction.** `parts` is the list of participants in the order finish
resolves them; `position` what each has committed, `device` the residency of an
attention (none yet, or the bank it serves, and whether it is prepared to move
on), `tx` its candidate. `PrepareState` makes a residency before the first layer
needs it. `Begin` and `BeginValid`/`BeginInvalid`
are `session_begin`, which validates the model with the lock released;
`Stage`/`StageFails` the layers; `FinishCoordinated` and `FinishScope` decide,
`Prepare`, `Publish` and `Abort` are the passes of `runtime_transaction_resolve`,
one participant at a time; `Committed` and `Aborted` end it. `Drift` is
`yvex_model_engine_validate` on another thread, `Reset`, `CloseBegin`,
`CloseWake`, `CloseRelease` the other calls. A residency and its provider are
changed one after the other, and a failure may come between them: `ResetFails`
stops at each of its places, `PrepareFails` with the residency prepared or not.
A publish does both, and neither call can fail. A scope finish stages the target
only; the random stream belongs to coordinated groups only.
`summary.cancelled` is folded into `invalidated`. A failing `pthread_cond_wait`
in close is not modelled.

**CheckpointStore** and **SessionState.** The file system is what the destination
name leads to (`dest`), what it may lead to after a stop (`disk`), and whether the
temporary file is durable (`synced`). `WriterOpen`
to `WriterClose` are the calls of the writer in order; `Stop` is the machine
stopping, after which a write that was not synced may be torn and a directory
entry that was not synced may be there or not. `SessionState` adds `Save` of an
idle session, `Restore` of what a file holds, `RestoreFails` after any number of
its steps (close the residencies, replace target and draft, make the residencies
anew), and `Crash`. Files of the older schema without a capacity, which `Save`
does not write, are not modelled. Temporary files that a stop leaves behind are never
collected, by the code or the model.

**Telemetry.** `ring` is the set of retained records; a slot is only found by its
sequence number, so places are not modelled. `Emit` is the whole of
`emit_provider`: sequence number, victim or coalescing, drop notice, broadcast.
Connections follow (`RUNTIME_WATCH`) or read a finite trace; `NextEvent`, `Send`
and `TraceEnds` are `event_subscription`, one lock or one send at a time. `Stop`,
`Finish`, `CloseBegin`, `CloseShuts` and `CloseEnds` are the host. The wait of
close on `clients_condition` is a guard; spurious wakeups are not modelled. A
request names any `event_after_sequence` (`after`). A follower that asks for what
comes after `shutdown.complete` waits for an event that never comes, and the host
waits for it as long as it stays connected (`core.c:1592`); `HostCloseReturns`
says that this is the only way for the close not to return. No document speaks of
the case, and the repository's own clients follow without a cursor.

**EngineManager.** `engine` is the slot table, `lease` the model leases, `pc`/`at`
the calls in progress. A slot's `open` stands for the model, its resources and
the queue; `registry` for whichever of sessions, media or the finite-decision
engine it has. `Closed(e)` is the set of results of `engine_close`, which may
keep the registry. Sessions come and go as the effect of executed requests.
When the host has freed the manager the behaviour is not followed further.

## Runs

| Run | Instance | Shows |
|---|---|---|
| `request_queue` | 3 workers, 3+1 operations of 2 keys, capacity 2 | one operation per key at a time, FIFO per key (refinement of `KeyedFifo`), nothing accepted is lost, finish returns |
| `progress_scheduler` | 4 callers (2 on one sequence), 4 slots, width 2 | sequence exclusion, exact counters and leases, no overtaking |
| `progress_scheduler_live` | 3 callers, width 1 | every wait ends, close returns |
| `component_execution` | 3 quanta, 2 requests, 2 bindings | all or nothing, cancellation, refinement of `Publication`; what is borrowed is live, leases are returned, every prepared program has one owner |
| `engine_manager` | 3 calls, 1 model lease, 2 slots, 2 names, 2 generations | no close under a lease, exact counts, pinned generations, no revival, unload and close return |
| `compatible_batching` | 3 contexts, 2 keys, width 2, capacity 2 | no dangling, lost or doubled ticket, admitted batches, exact owners, oldest first |
| `compatible_batching_live` | 2 contexts | every submit returns, a closing context is woken |
| `session_state` | 3 kinds of session, 2 tokens, 2 checkpoints | commit in all participants or none (refinement of `GroupCommit`), no failure leaves a usable session with two histories, nothing after invalidation, complete and lasting checkpoints, close returns |
| `telemetry` | 1 follower, 1 trace, cursors 0 to 3, ring of 3, 5 events, 2 drops | exact drop notice, lifecycle records kept, host close returns unless a follower asked for what comes after the last event |
| `unload_owns_nothing`, `close_drains_clients` | 2 calls, 1 slot | two statements of `docs/contracts/` that the code does not keep |
| `disconnect_own_turn` | 2 items of one session, 2 workers, queue of 1 | a third one |

### Where the code and its documents disagree

* `UnloadOwnsNothing`. local-protocol.md: "Unload refuses while any session or
  model lease still owns the generation". Sessions are counted once, before the
  drain; a request leased earlier can create one while the engine drains, and
  `engine_close` then destroys it.
* `CloseDrainsClients`. runtime.md: host stop "drains bounded client work".
  `engine_manager_close` waits for active work; a call that is closing an engine
  in unload, or emitting its last event, has none.
* `OwnTurnOnly`. local-protocol.md: "Cancellation targets the exact active
  request/turn and does not infer identity from connection lifetime." When a peer
  has left, its thread cancels by the name of the session, and whatever turn is
  active there is cancelled: for an item still queued that is the turn of another
  client, and its own turn later runs on, since the cancel counts as sent.

Three more have no run. runtime.md says that a failed slot "owns no executable
resources", but a failed `engine_close` leaves the registry in the slot published
as failed (`engine.c:1456`; `Closed(e)` in the model). runtime-abi.md:147-149 says
that drift "invalidates the model, sessions, residency, workspace, graph
executables and candidate state"; the state of a busy session is only marked, a
coordinated finish aborts it, and the mark is applied by close. And
events-telemetry.md says that "`host logs --follow` keeps the typed subscription
open", but a progress event with a direct observer takes a sequence number and is
not retained when the ring holds only records that may not be replaced; a
subscriber that has read the ring then neither waits nor finds an event, and its
subscription ends with an error (`telemetry.c:502`; `NextEvent` in the model).

`LeaseProtects` and the liveness properties of the passing run hold in spite of
these.

### Bounds

Every bound is a constant. The capacity of the queues is below the number of
submitters, so full and empty both occur. The progress table has a slot for every
caller (a full one only refuses) and half as many active places, so that two
callers wait when a place becomes free and their order matters. Two operations of one key
plus one more make an overtaking possible; three workers let one hold a key while
two compete. Three calls on two slots are enough for a load, an unload and a
lease to overlap on one slot while the other is reused; `MaxGeneration` 2 gives
each slot a stale and a current generation. Three quanta separate first, middle
and last; two requests let one evict the other, two bindings give a session two
entries, so that the eviction of the first can fail before the second. A session
has room for two tokens: it commits, is saved, commits again and is full. The
kinds of session cover each participant and each finish; the checkpoints are
those of one token, with and without a draft. A ring of three, with five events
and two drops (the assumption that it has more records than there are
connections is the code's), is full of lifecycle records, of progress and of a mixture, loses
and regains its drop notice, and overtakes a slow subscriber. `shutdown.complete` has the number 2 when nothing
else was reported, so cursors up to 3 lie before, at and past it. Two items of one
session in the host are enough for one client to wait behind the turn of another. Symmetry is used only in runs without liveness.

### Fairness

Weak fairness, for threads that are able to run: queue workers and the joining
owner; callers in a timed wait (10 ms) and holders between quanta; the closing
thread once awake; the batch worker, whose coalescing wait has a deadline;
calls inside the manager; the executing, closing and saving thread of a session;
connection threads and the closing host. It rests on the kernel scheduling runnable threads and
on callbacks that return. No fairness is given to clients that begin a call,
to cancellation, to spurious wakeups or to holders leaving for good: a turn may
go from quantum to quantum for ever and `WaitEnds` still holds.

## Proofs

Each proof module, `...Proofs`, extends the component's module; the constants are arbitrary
within the named assumptions (`QuantaAssumption`, `KindsAssumption`, `ScopesAssumption`,
the `ConstantsAssumption` of each module): sets of threads are finite, capacities
positive, an absent value is no value, a session's first participant is the
target and none occurs twice, a checkpoint has one or two scopes within the
capacity (which the parser enforces, `state_store.c:1561-1585`). Strengthenings
were model-checked before they were proved.

What a recursive definition computes (the scan of a queue, the turns of a loop,
the participants added to an array) is proved by induction in the form of a least
counterexample: `NatSets` says that a set with 0 and with every successor of its
members has every natural number, from `WFMin` of the library. Such definitions
are recursive functions; first a lemma shows that a function with that recursion
exists (`Turns`, `Iterates`, `AddedExists`), then what it returns.

**`ComponentExecutionProofs`**, first of the transaction alone: `IInv == TypeOK
/\ QuantaInOrder /\ ResourceKept /\ Ledger`. `AllOrNothing` is not inductive: it
does not say that a live transaction has neither published nor discarded, which
`Ledger` adds. From the invariant follow `AllOrNothing`, `CancelHeeded` and the
safety refinement of `Publication`. Then of the composition: every step of it is
a step or a stutter of `ExecutionTransaction` (`ComponentImplementsTransaction`),
which carries the three results over to `ComponentSpec`. `LeaseReturned` is not
inductive: a call without a lease borrows and drops again. `LeaseInv` adds that a
program has one entry, that a call past its search has the entry of its program,
and that without a lease only that entry is borrowed.

**`ComponentOwnershipProofs`** continues it with `BorrowedLive` and
`ProgramOwned`. The entries of a session and the slots of its catalog are two
records of the same resources, brought into step one operation after the other,
so the invariant `OwnInv` (stated in `ComponentExecutionProofs`, with
the lemmas on lists of entries and on one operation of the catalog) says how they
agree between the operations too: an entry has its first resources in the order
of registration (`Whole`), a slot has the consumer its entry is (`Owned`), an
arena counts its views and fails to be released only without them (`Viewed`), and
a ready entry that is not whole is the one being evicted or one whose eviction
failed (`Doing`). Each step of a call is then one operation on one entry. What a
release, or one that fails, leaves of an entry and its slots is the same for an
eviction and for the close of the catalog, and stated once (`ReleaseGood`,
`FailGood`).

**`HostWorkProofs`**, first of the queue alone: `IInv == TypeOK /\ KeyExclusion
/\ ActiveIsHeld /\ Accounted /\ Staffed`. Exclusion needs that the active keys are
exactly those of busy workers (`ActiveIsHeld`); draining needs that every accepted
operation is queued, held or done (`Accounted`) and that workers leave only an
empty, stopping queue (`Staffed`). `ShiftProperties` is what the removal of one
entry does to the queue. From it follow `KeyExclusion` and `ClosedDrained`. For
the refinement of `KeyedFifo` the queue of a key is what is left of the one array
when only that key is kept; a submit appends to it, and a selection past active
keys removes its head, by induction over the array. Then of the host: every step
is a step or a stutter of the queue (`HostImplementsQueue`), so all of this holds
in the host. `HInv` adds that an item has been accepted when its callback runs
(`Accepted`), that it keeps its lease until the callback releases it, and then the
queue still serves (`Leases`), and that the active turn of a session is an item
some worker executes (`Turns`). With key exclusion follow `TurnLeased`, no engine
is closed under a turn, and `OneTurn`, no turn begins while another of its session
is active. No run repeats these two: they were checked on the instance of
`disconnect_own_turn` (1.1 million states) before they were proved.

**`ProgressSchedulerProofs`**: `SchedInv` says that the table is in order (`TabOK`:
`Ordered`, being ahead is a strict total order of the queued slots; `Exclusive`;
`Counted`, counters are cardinalities) and that callers and slots in use match one
to one (`Mine`). Each operator on the table (claim, enqueue, dequeue, grant,
deactivate, release) has its lemma that it keeps `TabOK`, and the actions are
compositions of these; `Others` is what a caller at work on one slot relies on for
the rest. That a grant cannot activate two slots of one sequence needs `Ordered`.
`SequenceExclusion`, `CountersExact` and `LeaseExact` follow. `NoOvertaking`: what
a grant passes over and could have taken would be a candidate ahead of one that
was taken. `GrantIsTheLoop`: there is one grantable set; after n turns the loop
has activated the oldest n of it, or all of it, and one more turn activates the
next.

**`CompatibleBatchingProofs`**: `BInv` says which contexts are inside the
coordinator and what its counters are, that a stopping coordinator has neither
queue nor batch, that every placed ticket is of a context inside submit, has no
result and has one place, and that a batch is of one key and within the width.
The scan of the selection (`Scan`) splits the queue into batch, rest and
cancelled without losing or doubling a ticket, by induction over the queue. From
it `OwnersExact`, `TicketLifetime`, `TicketOnce`, `BatchAdmitted` and the action
property `OldestFirst`.

**`EngineManagerProofs`**: `EInv == Shape /\ Slots /\ Stands /\ Alone /\ Pinned /\
CountsExact`. A call that holds a slot knows its state (`Stands`), at most one
call loads or unloads a slot (`Alone`), and a model lease is on the generation
of its slot, loaded unless the host closes (`Pinned`); counts are cardinalities
of sets of calls, and each step changes one member. `LeaseProtects`,
`CountsExact` and `ModelLeasePins` follow; for the action property `NoRevival`
each action loads nothing (`Quiet`), publishes a load, or reserves a generation
above all others (`Revives`).

**`SessionStateProofs`**: `StoreInv` says what the writer has done at each of its
steps: the file is durable before it is linked, a link is this writer's own, and
while a writer holds one nothing was saved before. From it `DestinationComplete`
and `SavedSurvives`. `FlowInv` ties the place of the execution to `busy` and to
the closing thread, and says that an execution that is still to finish and is
invalidated has the pending mark, which finish looks at. From it
`NothingAfterInvalidation`. `BanksAgree` is not inductive: a publish moves host
and device together only if the residency exists and is prepared. `BankInv` adds
that what is staged has a residency and that a prepared provider has a prepared
one, and needs of `GroupInv` that the finish prepares only what is staged and that
a draft never used has committed nothing. A restore or a reset that fails midway
keeps it only because the session is invalidated.

The refinement of `GroupCommit` needs `GroupInv`: a participant that is absent or
was never used holds nothing (`Unused`); what is staged was staged from the
position of the target (`Staging`); in the finish the group is the target, every
owner or everyone, the first places are prepared and the others staged, publish
empties it from the front and an abort without a failure from the back
(`Resolving`); and a checkpoint of two scopes has one extent (`Files`). The commit
happens when the last participant is prepared: from then on the position the
others see includes what the publish loop still owes, so each publish is a
stutter. A reset is a replacement of everything by nothing, a restore one of the
target alone or of every owner; every step that invalidates the session loses it,
and a stop restarts it.

**`TelemetryProofs`**: `NoticeExact` and `LifecycleKept` need that records are
found by their numbers, that there is at most one drop notice and that it is the
one `drop_notice_sequence` names. Two results that no run repeats: the ring is
never over its size, and `shutdown.complete` stays in it until the host has
closed, because the connections that report their end meanwhile are fewer than
the records of the ring (`CapacityAssumption`).

Only model-checked: the liveness properties (`AcceptedWorkEnds`, `FinishReturns`,
`WaitEnds`, `SubmitReturns`, `DrainEnds`, `UnloadReturns`, `HostCloseReturns` and
the `CloseReturns` of three modules), which rest on fairness and `ENABLED`, outside
the prover's reach. The three violated statements are shown by their
counterexamples.

## Not modelled, and the plan

Codecs, tokenizer, IR, kernels, backends and quantisation are data work without
interleaving or persistence and stay out; they are most of the source. Of the
control, these parts are left:

* Snapshots as readers of a slot, and the work items of media engines.
* The session registry (`server/session*.c`) beyond the active turn: it relies on
  one operation per key at a time, which is checked and proved of the queue.
* The turn machine of a generation and speculation with its prefix selection
  (`session.c:961-1043`) and the abort of the random stream in a cycle.
* The page pool and shared prefixes below the attention state.
* Invocations of a component that keep nothing (text, vision, diagnostic), and
  cleanup leases.
* The GGUF file sink, through which variant emission publishes an artifact
  (`cli/rust/ffi/variant.rs:373`): concurrent producers, the finalize, and a rename
  that is rolled back when the directory cannot be synced. `CheckpointStore` has
  the publication of a file with stops of the machine, but no rollback.

Proofs that would come next are of parts that are not modelled yet; of the
modelled ones, the invariants behind the two violated statements of the engine
manager, with the client calls that break them excluded.
