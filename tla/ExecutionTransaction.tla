------------------------ MODULE ExecutionTransaction ------------------------
(***************************************************************************)
(* One retained execution transaction (src/runtime/transaction.c): a       *)
(* bounded number of quanta run by one caller thread, safe points between  *)
(* them, and outputs that are published at the end or discarded.  The      *)
(* caller may make any call in any order; a call the code refuses changes  *)
(* nothing.  cancel_requested is raised by another thread at any time and  *)
(* stays raised.                                                           *)
(* SafePointUnchecked, CommitUnchecked and CommitEarly are wrong variants  *)
(* of the definitions they precede; no action uses them.                   *)
(***************************************************************************)
EXTENDS Naturals

CONSTANT Quanta           \* quantum_count of the request

ASSUME QuantaAssumption == Quanta \in Nat \ {0}

VARIABLES
    state,         \* summary.state; "absent" before open, "freed" after close
    started, completed,           \* started_quanta, completed_quanta
    publications, discards,       \* calls of the publish and discard callbacks
    resource,      \* "none", "retained", "released"
    cancel         \* what the cancel_requested callback answers

vars == <<state, started, completed, publications, discards, resource, cancel>>

\* The states of a transaction; no more quanta run than were admitted.
TypeOK ==
    /\ state \in {"absent", "PREPARED", "EXECUTING", "SAFE", "YIELDED",
                  "READY_TO_COMMIT", "COMMITTED", "ABORTED", "freed"}
    /\ started \in 0 .. Quanta /\ completed \in 0 .. Quanta
    /\ publications \in Nat /\ discards \in Nat
    /\ resource \in {"none", "retained", "released"}
    /\ cancel \in BOOLEAN

Init ==
    /\ state = "absent"
    /\ started = 0 /\ completed = 0 /\ publications = 0 /\ discards = 0
    /\ resource = "none"
    /\ cancel = FALSE

Terminal == {"COMMITTED", "ABORTED"}

Live == {"PREPARED", "EXECUTING", "SAFE", "YIELDED", "READY_TO_COMMIT"}
-----------------------------------------------------------------------------
\* transaction_discard: not after a publication, and once.
Discard == discards' = IF discards > 0 \/ publications > 0 THEN discards
                       ELSE discards + 1

\* transaction_cancel, transaction_abort: the end without a publication.
Abort ==
    /\ Discard
    /\ state' = "ABORTED"

\* execution_transaction_open; the request may or may not name a resource.  A
\* retain callback that fails leaves no transaction.
Open ==
    /\ state = "absent"
    /\ state' = "PREPARED"
    /\ resource' \in {"none", "retained"}
    /\ UNCHANGED <<started, completed, publications, discards, cancel>>

\* transaction_quantum_begin, asked by execute_quantum for the next ordinal.
QuantumBegin ==
    /\ state \in {"PREPARED", "SAFE"} /\ completed < Quanta
    /\ \/ cancel /\ Abort /\ UNCHANGED started
       \/ ~cancel /\ started' = started + 1 /\ state' = "EXECUTING"
                  /\ UNCHANGED discards
    /\ UNCHANGED <<completed, publications, resource, cancel>>

\* The execute callback fails: execute_quantum aborts.
QuantumFails ==
    /\ state = "EXECUTING"
    /\ Abort
    /\ UNCHANGED <<started, completed, publications, resource, cancel>>

SafePointUnchecked ==
    /\ state = "EXECUTING"
    /\ completed' = completed + 1
    /\ state' \in {"READY_TO_COMMIT", "SAFE"}
    /\ UNCHANGED <<started, discards, publications, resource, cancel>>

\* transaction_safe_point, after the execute callback returned success.
SafePoint ==
    /\ state = "EXECUTING"
    /\ completed' = completed + 1
    /\ \/ cancel /\ Abort
       \/ /\ ~cancel /\ completed' = Quanta
          /\ state' = "READY_TO_COMMIT" /\ UNCHANGED discards
       \/ /\ ~cancel /\ completed' < Quanta
          /\ state' \in {"YIELDED", "SAFE"} /\ UNCHANGED discards
    /\ UNCHANGED <<started, publications, resource, cancel>>

\* execution_transaction_resume
Resume ==
    /\ state = "YIELDED"
    /\ \/ cancel /\ Abort
       \/ ~cancel /\ state' = "SAFE" /\ UNCHANGED discards
    /\ UNCHANGED <<started, completed, publications, resource, cancel>>

CommitUnchecked ==
    /\ state = "READY_TO_COMMIT"
    /\ publications' = publications + 1 /\ state' = "COMMITTED"
    /\ UNCHANGED <<started, completed, discards, resource, cancel>>

CommitEarly ==
    /\ state = "READY_TO_COMMIT"
    /\ publications' = publications + 1
    /\ Abort \/ (~cancel /\ state' = "COMMITTED" /\ UNCHANGED discards)
    /\ UNCHANGED <<started, completed, resource, cancel>>

\* execution_transaction_commit; the publish callback may fail.
Commit ==
    /\ state = "READY_TO_COMMIT"
    /\ \/ Abort /\ UNCHANGED publications
       \/ /\ ~cancel
          /\ publications' = publications + 1 /\ state' = "COMMITTED"
          /\ UNCHANGED discards
    /\ UNCHANGED <<started, completed, resource, cancel>>

\* execution_transaction_abort, which a committed transaction refuses and an
\* aborted one ignores.
CallerAborts ==
    /\ state \in Live \ {"EXECUTING"}
    /\ Abort
    /\ UNCHANGED <<started, completed, publications, resource, cancel>>

\* execution_transaction_close.  When the release callback fails the
\* transaction stays, ended, for another try.
Close ==
    /\ state \in Terminal \cup (Live \ {"EXECUTING"})
    /\ IF state \in Terminal THEN UNCHANGED discards ELSE Discard
    /\ \/ /\ resource = "retained"
          /\ state' = (IF state \in Terminal THEN state ELSE "ABORTED")
          /\ UNCHANGED resource
       \/ /\ state' = "freed"
          /\ resource' = IF resource = "retained" THEN "released" ELSE resource
    /\ UNCHANGED <<started, completed, publications, cancel>>

\* Another thread asks for cancellation.
Cancel ==
    /\ ~cancel
    /\ cancel' = TRUE
    /\ UNCHANGED <<state, started, completed, publications, discards, resource>>

\* The caller forgets the pointer once close has set it to NULL.
Freed == state = "freed" /\ UNCHANGED vars

CallerStep == QuantumBegin \/ QuantumFails \/ SafePoint \/ Resume \/ Commit

Next == Open \/ CallerStep \/ CallerAborts \/ Close \/ Cancel \/ Freed

Spec == Init /\ [][Next]_vars
-----------------------------------------------------------------------------
(***************************************************************************)
(* What the transaction guarantees.                                        *)
(***************************************************************************)

\* Candidate state never leaks: outputs are published only by a transaction
\* all of whose admitted quanta completed, at most once, and the discard
\* callback, which wipes the caller's result, never runs after the publish
\* callback nor twice.
AllOrNothing ==
    /\ publications + discards <= 1
    /\ publications = 1 => completed = Quanta /\ state \in {"COMMITTED", "freed"}
    /\ state \in {"ABORTED", "freed"} => publications + discards = 1

\* The quanta run one at a time and in order, and never past a yield, an end
\* or the last admitted quantum.
QuantaInOrder ==
    /\ state = "EXECUTING" => started = completed + 1
    /\ state \in {"PREPARED", "SAFE", "YIELDED"} =>
          started = completed /\ completed < Quanta
    /\ state \in {"READY_TO_COMMIT", "COMMITTED"} =>
          started = Quanta /\ completed = Quanta

\* The borrowed resource is kept across every quantum, whatever yields and
\* failed closes happen, and no transaction is freed with it.
ResourceKept ==
    /\ state \in Live \cup Terminal => resource # "released"
    /\ state = "freed" => resource # "retained"

\* A cancellation that was requested before a call is made prevents that call
\* from publishing or from starting or completing a quantum normally.
CancelHeeded ==
    [][cancel => /\ publications' = publications /\ started' = started
                 /\ state' # state => state' \in {"ABORTED", "freed", "PREPARED"}
      ]_vars

Outcome == INSTANCE Publication WITH
    Steps <- Quanta,
    outcome <- IF publications > 0 THEN "published"
               ELSE IF discards > 0 THEN "discarded" ELSE "pending",
    steps <- completed,
    held <- resource = "retained"

\* To the owner of the outputs and of the resource the transaction is one
\* step-counted publication.
ImplementsPublication == Outcome!PSpec
=============================================================================
