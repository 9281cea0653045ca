---------------------------- MODULE RequestQueue ----------------------------
(***************************************************************************)
(* The bounded request queue of one engine generation                      *)
(* (src/server/request_queue.c).  Worker threads share one mutex and one   *)
(* condition; an action below is one critical section of the code, from    *)
(* the point where the mutex is taken to the point where it is given up    *)
(* (by unlock or by pthread_cond_wait).                                    *)
(* BroadcastLost, SelectableAny, FirstReversed and ExitAtStop are wrong    *)
(* variants of the definitions they precede; no action uses them.          *)
(***************************************************************************)
EXTENDS Naturals, Sequences, FiniteSets

CONSTANTS Work,           \* operations; each is submitted at most once
          Key,            \* serialization keys
          KeyOf,          \* Work -> Key
          Worker,         \* worker threads, worker_count of them
          QueueCapacity,  \* queue_capacity
          NoWork          \* a worker that holds no entry

ASSUME ConstantsAssumption ==
    /\ KeyOf \in [Work -> Key]
    /\ IsFiniteSet(Worker) /\ Worker # {}
    /\ QueueCapacity \in Nat \ {0}
    /\ NoWork \notin Work

VARIABLES
    queue,     \* request_queue->queue[0 .. queue_count-1]
    active,    \* keys in request_queue->active: select adds only absent keys
    started, stopping, finished,
    owner,     \* where the thread that starts and finishes the queue is
    pc,        \* where each worker thread is
    entry,     \* the entry a worker has selected
    result,    \* what submit returned for each operation
    done       \* operations whose callback has returned

vars == <<queue, active, started, stopping, finished, owner, pc, entry,
          result, done>>

\* The states of the queue; the queue array never holds more than
\* queue_capacity entries.
TypeOK ==
    /\ queue \in Seq(Work) /\ Len(queue) <= QueueCapacity
    /\ active \subseteq Key
    /\ started \in BOOLEAN /\ stopping \in BOOLEAN /\ finished \in BOOLEAN
    /\ owner \in {"open", "starting", "serving", "joining", "closed"}
    /\ pc \in [Worker -> {"absent", "lock", "wait", "execute", "release",
                          "exited"}]
    /\ entry \in [Worker -> Work \cup {NoWork}]
    /\ result \in [Work -> {"none", "ok", "bounds", "state"}]
    /\ done \subseteq Work

Init ==
    /\ queue = << >> /\ active = {} /\ done = {}
    /\ started = FALSE /\ stopping = FALSE /\ finished = FALSE
    /\ owner = "open"
    /\ pc = [w \in Worker |-> "absent"]
    /\ entry = [w \in Worker |-> NoWork]
    /\ result = [x \in Work |-> "none"]
-----------------------------------------------------------------------------
BroadcastLost(f) == f

\* pthread_cond_broadcast: every waiting thread competes for the mutex again.
Broadcast(f) == [w \in Worker |-> IF f[w] = "wait" THEN "lock" ELSE f[w]]

SelectableAny == DOMAIN queue

\* The entries whose key no worker holds.
Selectable == {i \in DOMAIN queue : KeyOf[queue[i]] \notin active}

FirstReversed(i) == i \in Selectable /\ \A j \in Selectable : i >= j

\* request_queue_select_locked takes the first of them.
First(i) == i \in Selectable /\ \A j \in Selectable : i <= j
-----------------------------------------------------------------------------
(***************************************************************************)
(* The owner: open, start, finish and close.                               *)
(***************************************************************************)

\* Threads are created one at a time after the mutex is released.
Start ==
    /\ owner = "open" /\ ~started /\ ~stopping
    /\ started' = TRUE
    /\ owner' = "starting"
    /\ UNCHANGED <<queue, active, stopping, finished, pc, entry, result, done>>

CreateWorker(w) ==
    /\ owner = "starting" /\ pc[w] = "absent"
    /\ pc' = [pc EXCEPT ![w] = "lock"]
    /\ owner' = IF \E v \in Worker \ {w} : pc[v] = "absent"
                THEN "starting" ELSE "serving"
    /\ UNCHANGED <<queue, active, started, stopping, finished, entry, result,
                   done>>

\* pthread_create fails: request_stop, then finish joins the threads there are.
CreateFails ==
    /\ owner = "starting"
    /\ stopping' = TRUE
    /\ pc' = Broadcast(pc)
    /\ owner' = "joining"
    /\ UNCHANGED <<queue, active, started, finished, entry, result, done>>

\* finish begins with request_stop.
Finish ==
    /\ owner \in {"open", "serving"}
    /\ stopping' = TRUE
    /\ pc' = Broadcast(pc)
    /\ owner' = "joining"
    /\ UNCHANGED <<queue, active, started, finished, entry, result, done>>

\* Every created thread has returned; close then frees the queue.
Join ==
    /\ owner = "joining"
    /\ \A w \in Worker : pc[w] \in {"absent", "exited"}
    /\ finished' = TRUE
    /\ owner' = "closed"
    /\ UNCHANGED <<queue, active, started, stopping, pc, entry, result, done>>

\* Called without joining by cancel_all and manager_close.
RequestStop ==
    /\ owner = "serving" /\ ~stopping
    /\ stopping' = TRUE
    /\ pc' = Broadcast(pc)
    /\ UNCHANGED <<queue, active, started, finished, owner, entry, result,
                   done>>
-----------------------------------------------------------------------------
(***************************************************************************)
(* Submitters.  A queue is handed to submitters only after start returned  *)
(* success (engine_manager_load publishes the slot last) and is closed     *)
(* only after the last lease is gone, so a call finds the owner "serving"  *)
(* or blocked in finish.                                                   *)
(***************************************************************************)
Full == Len(queue) = QueueCapacity

Submit(x) ==
    /\ owner \in {"serving", "joining"} /\ started
    /\ result[x] = "none"
    /\ \/ /\ ~stopping /\ ~Full
          /\ queue' = Append(queue, x)
          /\ result' = [result EXCEPT ![x] = "ok"]
          /\ pc' = Broadcast(pc)
       \/ /\ stopping \/ Full
          /\ result' = [result EXCEPT ![x] = IF Full THEN "bounds" ELSE "state"]
          /\ UNCHANGED <<queue, pc>>
    /\ UNCHANGED <<active, started, stopping, finished, owner, entry, done>>
-----------------------------------------------------------------------------
(***************************************************************************)
(* A worker thread.                                                        *)
(***************************************************************************)
ExitAtStop(w) ==
    /\ pc[w] = "lock" /\ stopping
    /\ pc' = [pc EXCEPT ![w] = "exited"]
    /\ UNCHANGED <<queue, active, started, stopping, finished, owner, entry,
                   result, done>>

Exit(w) ==
    /\ pc[w] = "lock" /\ stopping /\ queue = << >>
    /\ pc' = [pc EXCEPT ![w] = "exited"]
    /\ UNCHANGED <<queue, active, started, stopping, finished, owner, entry,
                   result, done>>

\* Both waits: nothing queued, or nothing queued whose key is free.
Wait(w) ==
    /\ pc[w] = "lock"
    /\ Selectable = {}
    /\ ~(stopping /\ queue = << >>)
    /\ pc' = [pc EXCEPT ![w] = "wait"]
    /\ UNCHANGED <<queue, active, started, stopping, finished, owner, entry,
                   result, done>>

SpuriousWakeup(w) ==
    /\ pc[w] = "wait"
    /\ pc' = [pc EXCEPT ![w] = "lock"]
    /\ UNCHANGED <<queue, active, started, stopping, finished, owner, entry,
                   result, done>>

\* The entries behind the selected one move down by one.
Shift(q, i) == [j \in 1 .. Len(q) - 1 |-> IF j < i THEN q[j] ELSE q[j + 1]]

Select(w) ==
    /\ pc[w] = "lock"
    /\ \E i \in DOMAIN queue :
          /\ First(i)
          /\ entry' = [entry EXCEPT ![w] = queue[i]]
          /\ active' = active \cup {KeyOf[queue[i]]}
          /\ queue' = Shift(queue, i)
    /\ pc' = [pc EXCEPT ![w] = "execute"]
    /\ UNCHANGED <<started, stopping, finished, owner, result, done>>

\* The callback runs without the mutex and returns.
Execute(w) ==
    /\ pc[w] = "execute"
    /\ done' = done \cup {entry[w]}
    /\ pc' = [pc EXCEPT ![w] = "release"]
    /\ UNCHANGED <<queue, active, started, stopping, finished, owner, entry,
                   result>>

Release(w) ==
    /\ pc[w] = "release"
    /\ active' = active \ {KeyOf[entry[w]]}
    /\ entry' = [entry EXCEPT ![w] = NoWork]
    /\ pc' = Broadcast([pc EXCEPT ![w] = "lock"])
    /\ UNCHANGED <<queue, started, stopping, finished, owner, result, done>>

WorkerStep(w) == Exit(w) \/ Wait(w) \/ Select(w) \/ Execute(w) \/ Release(w)

\* A closed queue is never used again.
Closed == owner = "closed" /\ UNCHANGED vars

Next ==
    \/ Start \/ CreateFails \/ Finish \/ Join \/ RequestStop \/ Closed
    \/ \E x \in Work : Submit(x)
    \/ \E w \in Worker : CreateWorker(w) \/ WorkerStep(w) \/ SpuriousWakeup(w)

\* Threads run, callbacks return, and an owner inside start or finish goes on.
\* Nothing obliges a client to submit, the host to stop, or a wait to wake
\* spuriously.
Fairness ==
    /\ \A w \in Worker : WF_vars(WorkerStep(w)) /\ WF_vars(CreateWorker(w))
    /\ WF_vars(Join)

Spec == Init /\ [][Next]_vars

FairSpec == Spec /\ Fairness
-----------------------------------------------------------------------------
(***************************************************************************)
(* What the queue guarantees.                                              *)
(***************************************************************************)
Busy(w) == pc[w] \in {"execute", "release"}

\* "two operations can never mutate the same session simultaneously": two
\* workers that both hold an entry hold entries of different keys.
KeyExclusion ==
    \A v, w \in Worker : v # w /\ Busy(v) /\ Busy(w)
                         => KeyOf[entry[v]] # KeyOf[entry[w]]

\* close frees the queue only when no worker is left and nothing that was
\* accepted is still waiting, although stop was requested long before.
ClosedDrained ==
    owner = "closed" => /\ \A w \in Worker : pc[w] \in {"absent", "exited"}
                        /\ \A x \in Work : result[x] = "ok" => x \in done

\* Every accepted operation runs to its end, whether or not stop comes first.
AcceptedWorkEnds == \A x \in Work : result[x] = "ok" ~> x \in done

\* finish returns: no worker sleeps through the stop.
FinishReturns == owner = "joining" ~> owner = "closed"

(***************************************************************************)
(* The queue implements one FIFO per key (KeyedFifo).                      *)
(***************************************************************************)
Holders(k) == {w \in Worker : Busy(w) /\ KeyOf[entry[w]] = k}

\* The entries of q with the key k, in their order, and the entry of key k
\* in the hands of a worker.
Line(q, k) ==
    LET line[i \in 0 .. Len(q)] ==
            IF i = 0 THEN << >>
            ELSE IF KeyOf[q[i]] = k THEN Append(line[i - 1], q[i])
            ELSE line[i - 1]
    IN  line[Len(q)]
Held(k) == IF Holders(k) = {} THEN NoWork
           ELSE entry[CHOOSE w \in Holders(k) : TRUE]

Fifo == INSTANCE KeyedFifo WITH
    pending <- [k \in Key |-> Line(queue, k)],
    current <- [k \in Key |-> Held(k)],
    ended <- done

\* Operations of one key begin in the order submit accepted them, one at a
\* time, whatever the workers and the operations of other keys do.
ImplementsKeyedFifo == Fifo!Spec
=============================================================================
