------------------------- MODULE ComponentExecution -------------------------
(***************************************************************************)
(* The execution transaction with the lease a component session gives it   *)
(* (src/runtime/component.c), over the session's resource catalog.  A      *)
(* joint program runs on prepared entries: a program, and three resources  *)
(* in the catalog that stand for it, its arena, which owns the program,    *)
(* and two views of the arena.  A call borrows the three while it runs; a  *)
(* lease keeps what is borrowed until the transaction closes.  Entries are *)
(* kept for later calls of the same request and evicted for another one.   *)
(* One thread runs the transaction and the session's calls, one operation  *)
(* on the catalog after the other (call); cancellation comes from another  *)
(* thread at any time.                                                     *)
(* A transaction may also hold a lease of another provider, of which only  *)
(* the callbacks are known (lease = "other").                              *)
(* UnlentCounted and CloseKeeping are wrong variants of the                *)
(* definitions they precede; no action uses them.                          *)
(***************************************************************************)
EXTENDS ExecutionTransaction, Sequences, FiniteSets, Functions

CONSTANTS Request,        \* request identities
          Binding,        \* compiled bindings, one prepared entry for each
          None            \* no identity, no key

Kind == <<"arena", "request", "condition">>

Program == Request \X Binding

ASSUME NoneAssumption ==
    None \notin Request \cup Program \cup (Program \X Range(Kind))

VARIABLES lease,          \* "component" or "other"
          slots, closing, \* the catalog
          entries,        \* prepared_entries, the newest first
          leases,         \* execution_transaction_leases
          active, retained,     \* the request identities of the session
          session,        \* "open", "closed"
          call            \* the call under way on the session

Catalog == INSTANCE ResourceCatalog WITH
              Key <- Program \X Range(Kind), NoKey <- None

sessionVars == <<slots, closing, entries, leases, active, retained, session, call>>
allVars == <<vars, lease, sessionVars>>

Entry == [program : Program, live : BOOLEAN, ready : BOOLEAN,
          handles : SUBSET Range(Kind), borrowed : 0 .. 3]

ComponentTypeOK ==
    /\ TypeOK /\ Catalog!CatalogTypeOK
    /\ lease \in {"component", "other"}
    /\ entries \in Seq(Entry)
    /\ leases \in Nat
    /\ active \in Request \cup {None} /\ retained \in Request \cup {None}
    /\ session \in {"open", "closed"}
    /\ call \in [pc : {"idle", "evict", "find", "register", "undo", "borrow",
                       "run", "close"},
                 program : Program \cup {None}]

NoCall == [pc |-> "idle", program |-> None]

ComponentInit ==
    /\ Init /\ lease \in {"component", "other"}
    /\ Catalog!CatalogInit
    /\ entries = <<>> /\ leases = 0 /\ active = None /\ retained = None
    /\ session = "open" /\ call = NoCall
-----------------------------------------------------------------------------
\* component_prepared_handles, and the ones among them that are borrowed.
Handles(e) ==
    LET present(k) == IF k \in e.handles THEN <<k>> ELSE <<>>
    IN  present("arena") \o present("request") \o present("condition")

Borrowed(e) == {<<e.program, Handles(e)[i]>> : i \in 1 .. e.borrowed}

AllBorrowed == UNION {Borrowed(entries[i]) : i \in DOMAIN entries}

\* The entry a program has, once the call has found or made it.
Place(p) == CHOOSE i \in DOMAIN entries : entries[i].program = p
Known(p) == \E i \in DOMAIN entries : entries[i].program = p

\* What changes of the newest entry, and of what an entry has borrowed.
Renew(h, live, ready) ==
    [entries EXCEPT ![1] = [@ EXCEPT !.handles = h, !.live = live, !.ready = ready]]
Lend(p, n) == [entries EXCEPT ![Place(p)] = [@ EXCEPT !.borrowed = n]]

At(pc) == call' = [pc |-> pc, program |-> call.program]
Return == call' = NoCall

Caller == lease = "component" /\ session = "open" /\ call.pc = "idle"

\* yvex_component_joint_program_execute: a call may come from the execute
\* callback of a quantum or without a transaction.  A transaction keeps to one
\* request; another one evicts, unless something is borrowed.
JointExecute(p) ==
    /\ Caller /\ state \in {"absent", "EXECUTING", "freed"}
    /\ active \in {None, p[1]}
    /\ IF retained \in {None, p[1]} THEN call' = [pc |-> "find", program |-> p]
       ELSE AllBorrowed = {} /\ call' = [pc |-> "evict", program |-> p]
    /\ UNCHANGED <<vars, lease, slots, closing, entries, leases, active,
                   retained, session>>

\* component_joint_entry_evict of the newest entry, one release at a time: the
\* views first, then the arena, whose release closes the program and may fail.
EvictNext == LET h == Handles(Head(entries)) IN h[Len(h)]

EvictHandle ==
    /\ call.pc \in {"evict", "undo"} /\ entries # <<>>
    /\ Head(entries).handles # {}
    /\ LET k == EvictNext
           e == Head(entries)
           key == <<e.program, k>>
       IN \/ /\ Catalog!Release(key)
             /\ entries' = Renew(e.handles \ {k}, e.live /\ k # "arena",
                                  e.ready /\ k # "arena")
             /\ UNCHANGED call
          \/ /\ k = "arena" /\ Catalog!ReleaseFails(key)
             /\ Return /\ UNCHANGED entries
          \/ /\ ~Catalog!MayRelease(key)
             /\ Return /\ UNCHANGED <<slots, closing, entries>>
    /\ UNCHANGED <<vars, lease, leases, active, retained, session>>

\* The entry has no resource left; a program that has none is closed here.
EvictEntry ==
    /\ call.pc \in {"evict", "undo"} /\ entries # <<>>
    /\ Head(entries).handles = {}
    /\ \/ /\ entries' = Tail(entries)
          /\ IF call.pc = "undo" THEN Return ELSE UNCHANGED call
       \/ Head(entries).live /\ Return /\ UNCHANGED entries
    /\ UNCHANGED <<vars, lease, slots, closing, leases, active, retained, session>>

Evicted ==
    /\ call.pc = "evict" /\ entries = <<>>
    /\ retained' = None /\ At("find")
    /\ UNCHANGED <<vars, lease, slots, closing, entries, leases, active, session>>

\* The entries are searched from the newest; one that is not ready, before the
\* one that is looked for, still owns a cleanup and ends the call.
Blocked == \E i \in DOMAIN entries :
              /\ ~entries[i].ready
              /\ \A j \in 1 .. i - 1 : entries[j].program # call.program

Find ==
    /\ call.pc = "find"
    /\ \/ Blocked /\ Return
       \/ ~Blocked /\ Known(call.program)
          /\ At(IF entries[Place(call.program)].borrowed = 0 THEN "borrow" ELSE "run")
    /\ UNCHANGED <<vars, lease, slots, closing, entries, leases, active,
                   retained, session>>

\* No entry: a new one is made, within the budget, and its program is opened.
Prepare ==
    /\ call.pc = "find" /\ ~Blocked /\ ~Known(call.program)
    /\ \/ Return /\ UNCHANGED entries
       \/ \E live \in BOOLEAN :
             /\ ~closing
             /\ entries' = <<[program |-> call.program, live |-> live,
                              ready |-> FALSE, handles |-> {},
                              borrowed |-> 0]>> \o entries
             /\ At(IF live THEN "register" ELSE "undo")
    /\ UNCHANGED <<vars, lease, slots, closing, leases, active, retained, session>>

\* component_joint_resources_register, one resource at a time; a failure, also
\* one of the accounting after the last, undoes the entry.
RegisterOne ==
    /\ call.pc = "register"
    /\ LET e == Head(entries)
           n == Cardinality(e.handles)
           key(k) == <<call.program, k>>
       IN \/ /\ n < 3
             /\ Catalog!Register(key(Kind[n + 1]),
                                 IF n = 0 THEN None ELSE key("arena"))
             /\ entries' = Renew(e.handles \cup {Kind[n + 1]}, e.live, n = 2)
             /\ UNCHANGED call
          \/ n = 3 /\ At("borrow") /\ UNCHANGED <<slots, closing, entries>>
          \/ At("undo") /\ UNCHANGED <<slots, closing, entries>>
    /\ UNCHANGED <<vars, lease, leases, active, retained, session>>

\* component_prepared_resources_borrow, one acquire at a time.
Borrow ==
    /\ call.pc = "borrow"
    /\ LET i == Place(call.program)
           h == Handles(entries[i])
           n == entries[i].borrowed
       IN /\ n < Len(h)
          /\ Catalog!Acquire(<<call.program, h[n + 1]>>)
          /\ entries' = Lend(call.program, n + 1)
    /\ UNCHANGED <<vars, lease, leases, active, retained, session, call>>

\* A resource is not ready: what was borrowed is dropped again.
BorrowFails ==
    /\ call.pc = "borrow"
    /\ LET i == Place(call.program)
           h == Handles(entries[i])
           n == entries[i].borrowed
       IN /\ n < Len(h) /\ ~Catalog!MayAcquire(<<call.program, h[n + 1]>>)
          /\ Catalog!Drop(Borrowed(entries[i]))
          /\ entries' = Lend(call.program, 0)
    /\ Return
    /\ UNCHANGED <<vars, lease, leases, active, retained, session>>

\* All are borrowed: the session retains the request.
Lent ==
    /\ call.pc = "borrow"
    /\ LET e == entries[Place(call.program)]
       IN e.borrowed > 0 /\ e.borrowed = Len(Handles(e))
    /\ retained' = call.program[1]
    /\ active' = IF leases > 0 THEN call.program[1] ELSE active
    /\ At("run")
    /\ UNCHANGED <<vars, lease, slots, closing, entries, leases, session>>

\* The program runs, or fails; without a lease the call drops what it borrowed.
Run ==
    /\ call.pc = "run"
    /\ LET i == Place(call.program)
       IN IF leases = 0
          THEN /\ Catalog!Drop(Borrowed(entries[i]))
               /\ entries' = Lend(call.program, 0)
          ELSE UNCHANGED <<slots, closing, entries>>
    /\ Return
    /\ UNCHANGED <<vars, lease, leases, active, retained, session>>
-----------------------------------------------------------------------------
\* component_session_transaction_retain.
OpenLease ==
    /\ Caller /\ Open
    /\ leases' = leases + IF resource' = "retained" THEN 1 ELSE 0
    /\ UNCHANGED <<lease, slots, closing, entries, active, retained, session, call>>

UnlentCounted == Catalog!Drop(AllBorrowed) /\ UNCHANGED entries

\* component_prepared_resources_drop of every entry.
Unlent == /\ Catalog!Drop(AllBorrowed)
          /\ entries' = [i \in DOMAIN entries |-> [entries[i] EXCEPT !.borrowed = 0]]

CloseKeeping ==
    /\ Caller /\ Close /\ resource = "retained" /\ state' = "freed"
    /\ leases' = leases - 1 /\ active' = None
    /\ UNCHANGED <<lease, slots, closing, entries, retained, session, call>>

\* execution_transaction_close with component_session_transaction_release: the
\* last lease drops everything that is borrowed, and the close fails if one of
\* the resources cannot be dropped.
CloseLease ==
    /\ Caller /\ Close /\ resource = "retained"
    /\ IF \A k \in AllBorrowed : Catalog!MayDrop(k)
       THEN /\ state' = "freed"
            /\ leases' = leases - 1 /\ active' = None
            /\ Unlent
       ELSE state' # "freed" /\ UNCHANGED <<slots, closing, entries, leases, active>>
    /\ UNCHANGED <<lease, retained, session, call>>

CloseUnleased ==
    /\ Caller /\ Close /\ resource # "retained"
    /\ UNCHANGED <<lease, sessionVars>>

\* The other calls on the transaction.
Transact ==
    /\ call.pc = "idle" /\ lease = "component"
    /\ CallerStep \/ CallerAborts
    /\ UNCHANGED <<lease, sessionVars>>

OtherLease == lease = "other" /\ Next /\ UNCHANGED <<lease, sessionVars>>
-----------------------------------------------------------------------------
\* yvex_runtime_component_session_close up to the catalog.
SessionClose ==
    /\ Caller /\ leases = 0 /\ AllBorrowed = {} /\ state \in {"absent", "freed"}
    /\ closing' = TRUE /\ At("close")
    /\ UNCHANGED <<vars, lease, slots, entries, leases, active, retained, session>>

\* One round of yvex_runtime_resource_catalog_close.
CatalogRelease ==
    /\ call.pc = "close" /\ DOMAIN slots # {}
    /\ \/ \E k \in Catalog!Releasable :
             \/ /\ Catalog!Release(k)
                /\ entries' = [i \in DOMAIN entries |->
                      IF entries[i].program = k[1] /\ k[2] = "arena"
                      THEN [entries[i] EXCEPT !.live = FALSE, !.ready = FALSE]
                      ELSE entries[i]]
                /\ UNCHANGED call
             \/ /\ k[2] = "arena" /\ Catalog!ReleaseFails(k)
                /\ Return /\ UNCHANGED entries
       \/ Catalog!Releasable = {} /\ Return /\ UNCHANGED <<slots, closing, entries>>
    /\ UNCHANGED <<vars, lease, leases, active, retained, session>>

\* What a failed preparation left is closed after the catalog, then the rest.
SessionRelease ==
    /\ call.pc = "close" /\ DOMAIN slots = {}
    /\ \/ /\ entries # <<>> /\ entries' = Tail(entries)
          /\ UNCHANGED <<session, call>>
       \/ /\ entries # <<>> /\ Head(entries).live
          /\ Return /\ UNCHANGED <<session, entries>>
       \/ /\ entries = <<>> /\ session' = "closed" /\ Return
          /\ UNCHANGED entries
    /\ UNCHANGED <<vars, lease, slots, closing, leases, active, retained>>

\* The caller forgets the session once close has set it to NULL.
Closed == session = "closed" /\ UNCHANGED allVars

CancelAny == lease = "component" /\ Cancel /\ UNCHANGED <<lease, sessionVars>>

SessionStep == \/ EvictHandle \/ EvictEntry \/ Evicted \/ Find \/ Prepare
               \/ RegisterOne \/ Borrow \/ BorrowFails \/ Lent \/ Run
               \/ CatalogRelease \/ SessionRelease

ComponentNext ==
    \/ \E p \in Program : JointExecute(p)
    \/ SessionStep \/ SessionClose \/ Closed \/ Transact \/ CancelAny
    \/ OpenLease \/ CloseLease \/ CloseUnleased \/ OtherLease

ComponentSpec == ComponentInit /\ [][ComponentNext]_allVars
-----------------------------------------------------------------------------
\* What an entry has borrowed is in the catalog, ready, with that one consumer,
\* so that the release of a lease never fails; nothing else has a consumer; and
\* a program runs with all three of its resources.
BorrowedLive ==
    /\ \A k \in AllBorrowed : /\ Catalog!Present(k)
                              /\ slots[k].state = "READY" /\ slots[k].consumers = 1
    /\ \A k \in DOMAIN slots \ AllBorrowed : slots[k].consumers = 0
    /\ call.pc = "run" => LET e == entries[Place(call.program)]
                          IN e.live /\ e.borrowed = 3

\* A transaction that is over has given back what its lease kept, and a lease
\* lasts exactly as long as the transaction that retains it.
LeaseReturned ==
    lease = "component" =>
       /\ leases = IF resource = "retained" THEN 1 ELSE 0
       /\ leases = 0 => active = None
       /\ leases = 0 /\ call.pc = "idle" => AllBorrowed = {}

\* A prepared program is closed once, after the views that were made of it: its
\* arena owns it from the registration on, and a session that is closed has
\* closed every program.
ProgramOwned ==
    /\ Catalog!DependencyHeld
    /\ \A k \in DOMAIN slots :
          \E i \in DOMAIN entries : entries[i].program = k[1] /\ entries[i].live
    /\ session = "closed" => entries = <<>> /\ slots = <<>>
=============================================================================
