---------------------- MODULE ComponentExecutionProofs ----------------------
(***************************************************************************)
(* Proofs about ExecutionTransaction for every number of quanta, and about *)
(* ComponentExecution.  Whatever a component session does between the      *)
(* calls on a transaction, the transaction is the one of                   *)
(* ExecutionTransaction, so what is proved of that module holds in the     *)
(* composition, for every number of quanta, requests and bindings.  Then   *)
(* what holds of the leases, and the invariant on what owns a resource,    *)
(* with its steps up to an eviction; ComponentOwnershipProofs has the rest.*)
(***************************************************************************)
EXTENDS ComponentExecution, FiniteSetTheorems, TLAPS

\* The strengthening that makes the guarantees inductive: a transaction that
\* has not ended has neither published nor discarded, one that was aborted has
\* discarded, one that was committed has published, and a transaction that
\* does not exist yet owns nothing.
Ledger ==
    /\ state \in Live \cup {"absent"} => publications = 0 /\ discards = 0
    /\ state = "absent" => started = 0 /\ completed = 0 /\ resource = "none"
    /\ state = "COMMITTED" => publications = 1 /\ discards = 0
    /\ state = "ABORTED" => publications = 0 /\ discards = 1
    /\ state = "freed" =>
          \/ publications = 1 /\ discards = 0 /\ completed = Quanta
          \/ publications = 0 /\ discards = 1

IInv == TypeOK /\ QuantaInOrder /\ ResourceKept /\ Ledger

LEMMA InitEstablishes == Init => IInv
<1> SUFFICES ASSUME Init PROVE IInv
    OBVIOUS
<1>1. TypeOK
  <2>1. cancel \in BOOLEAN
        BY Zenon DEF Init
  <2> QED
      BY <2>1, QuantaAssumption DEF Init, TypeOK
<1>2. QuantaInOrder /\ ResourceKept /\ Ledger
      BY DEF Init, QuantaInOrder, ResourceKept, Ledger, Live, Terminal
<1> QED
    BY <1>1, <1>2 DEF IInv

LEMMA StepPreserves == IInv /\ [Next]_vars => IInv'
<1> SUFFICES ASSUME IInv, [Next]_vars PROVE IInv'
    OBVIOUS
<1> USE QuantaAssumption
    DEF IInv, TypeOK, QuantaInOrder, ResourceKept, Ledger, Live, Terminal
<1>1. CASE Open
      BY <1>1 DEF Open
<1>2. CASE QuantumBegin
      BY <1>2 DEF QuantumBegin, Abort, Discard
<1>3. CASE QuantumFails
      BY <1>3 DEF QuantumFails, Abort, Discard
<1>4. CASE SafePoint
      BY <1>4 DEF SafePoint, Abort, Discard
<1>5. CASE Resume
      BY <1>5 DEF Resume, Abort, Discard
<1>6. CASE Commit
      BY <1>6 DEF Commit, Abort, Discard
<1>7. CASE CallerAborts
      BY <1>7 DEF CallerAborts, Abort, Discard
<1>8. CASE Close
      BY <1>8 DEF Close, Discard
<1>9. CASE Cancel
      BY <1>9 DEF Cancel
<1>10. CASE Freed \/ UNCHANGED vars
       BY <1>10 DEF Freed, vars
<1> QED
    BY <1>1, <1>2, <1>3, <1>4, <1>5, <1>6, <1>7, <1>8, <1>9, <1>10
       DEF Next, CallerStep

\* The inductive invariant of every behaviour of transaction.c's calls.
THEOREM Invariance == Spec => []IInv
BY InitEstablishes, StepPreserves, PTL DEF Spec

\* Type correctness: no more quanta start or complete than were admitted.
THEOREM TypeCorrect == Spec => []TypeOK
<1>1. IInv => TypeOK
      BY DEF IInv
<1> QED
    BY <1>1, Invariance, PTL

\* A transaction publishes once, after all its quanta, or discards once, and
\* never both, whatever calls are made, fail or are cancelled.
THEOREM PublicationIsAllOrNothing == Spec => []AllOrNothing
<1>1. IInv => AllOrNothing
      BY QuantaAssumption
         DEF IInv, TypeOK, QuantaInOrder, Ledger, AllOrNothing, Live
<1> QED
    BY <1>1, Invariance, PTL

\* Quanta run one at a time, in order, and never past the last one.
THEOREM QuantaRunInOrder == Spec => []QuantaInOrder
<1>1. IInv => QuantaInOrder
      BY DEF IInv
<1> QED
    BY <1>1, Invariance, PTL

\* The resource is kept from open until the transaction is freed.
THEOREM ResourceIsKept == Spec => []ResourceKept
<1>1. IInv => ResourceKept
      BY DEF IInv
<1> QED
    BY <1>1, Invariance, PTL

\* Once cancellation is requested nothing is published and no quantum begins
\* or completes normally.
THEOREM CancellationIsHeeded == Spec => CancelHeeded
<1>1. IInv /\ [Next]_vars =>
        [cancel => /\ publications' = publications /\ started' = started
                   /\ state' # state => state' \in {"ABORTED", "freed", "PREPARED"}
        ]_vars
      BY QuantaAssumption
         DEF IInv, TypeOK, Next, CallerStep, Open, QuantumBegin, QuantumFails,
             SafePoint, Resume, Commit, CallerAborts, Close, Cancel, Freed,
             Abort, Discard, Live, Terminal, vars
<1> QED
    BY <1>1, Invariance, PTL DEF Spec, CancelHeeded
-----------------------------------------------------------------------------
(***************************************************************************)
(* The transaction implements the publication it promises.                 *)
(***************************************************************************)
LEMMA InitImplements == Init => Outcome!PInit
BY DEF Init, Outcome!PInit

LEMMA StepImplements == IInv /\ [Next]_vars => [Outcome!PNext]_(Outcome!pvars)
<1> SUFFICES ASSUME IInv, [Next]_vars
             PROVE  [Outcome!PNext]_(Outcome!pvars)
    OBVIOUS
<1> USE QuantaAssumption
    DEF IInv, TypeOK, QuantaInOrder, ResourceKept, Ledger, Live, Terminal,
        Outcome!PNext, Outcome!pvars
<1>1. CASE Open
      BY <1>1 DEF Open, Outcome!Hold
<1>2. CASE QuantumBegin
      BY <1>2 DEF QuantumBegin, Abort, Discard, Outcome!Discard
<1>3. CASE QuantumFails
      BY <1>3 DEF QuantumFails, Abort, Discard, Outcome!Discard
<1>4. CASE SafePoint
      BY <1>4 DEF SafePoint, Abort, Discard, Outcome!Discard, Outcome!Step
<1>5. CASE Resume
      BY <1>5 DEF Resume, Abort, Discard, Outcome!Discard
<1>6. CASE Commit
      BY <1>6 DEF Commit, Abort, Discard, Outcome!Discard, Outcome!Publish
<1>7. CASE CallerAborts
      BY <1>7 DEF CallerAborts, Abort, Discard, Outcome!Discard
<1>8. CASE Close
      BY <1>8 DEF Close, Discard, Outcome!Discard, Outcome!Drop,
                  Outcome!DiscardAndDrop
<1>9. CASE Cancel \/ Freed \/ UNCHANGED vars
      BY <1>9 DEF Cancel, Freed, vars
<1> QED
    BY <1>1, <1>2, <1>3, <1>4, <1>5, <1>6, <1>7, <1>8, <1>9
       DEF Next, CallerStep

\* Every behaviour of the transaction is one of the abstract publication.
THEOREM TransactionImplementsPublication == Spec => ImplementsPublication
BY InitImplements, StepImplements, Invariance, PTL
   DEF Spec, ImplementsPublication, Outcome!PSpec
-----------------------------------------------------------------------------
\* Every step of the composition is a step of the transaction or leaves it
\* alone.
LEMMA ComponentStepsAreSteps == [ComponentNext]_allVars => [Next]_vars
<1> SUFFICES ASSUME [ComponentNext]_allVars PROVE [Next]_vars
    BY Zenon
<1> USE DEF vars
<1>1. CASE SessionStep
      BY <1>1, Zenon DEF SessionStep, EvictHandle, EvictEntry, Evicted, Find, Prepare,
         RegisterOne, Borrow, BorrowFails, Lent, Run, CatalogRelease,
         SessionRelease
<1>2. CASE (\E p \in Program : JointExecute(p)) \/ SessionClose
      BY <1>2 DEF JointExecute, SessionClose
<1>3. CASE Closed \/ UNCHANGED allVars
      BY <1>3 DEF Closed, allVars
<1>4. CASE Transact \/ CancelAny \/ OtherLease
      BY <1>4 DEF Transact, CancelAny, OtherLease, Next
<1>5. CASE OpenLease \/ CloseLease \/ CloseUnleased
      BY <1>5 DEF OpenLease, CloseLease, CloseUnleased, Next
<1> QED
    BY <1>1, <1>2, <1>3, <1>4, <1>5 DEF ComponentNext

\* The composition implements the transaction.
THEOREM ComponentImplementsTransaction == ComponentSpec => Spec
<1>1. ComponentInit => Init
      BY DEF ComponentInit
<1> QED
    BY <1>1, ComponentStepsAreSteps, PTL DEF ComponentSpec, Spec

\* Leasing, evicting and rebuilding prepared programs between the quanta does
\* not let a transaction publish in part, twice or after a discard.
THEOREM ComponentIsAllOrNothing == ComponentSpec => []AllOrNothing
BY ComponentImplementsTransaction, PublicationIsAllOrNothing, PTL

\* Nor does it let one publish or start a quantum after a cancellation.
THEOREM ComponentHeedsCancellation == ComponentSpec => CancelHeeded
BY ComponentImplementsTransaction, CancellationIsHeeded, PTL

\* And to the owner of the outputs it is the same publication.
THEOREM ComponentImplementsPublication == ComponentSpec => ImplementsPublication
BY ComponentImplementsTransaction, TransactionImplementsPublication, PTL
-----------------------------------------------------------------------------
(***************************************************************************)
(* Leases.                                                                 *)
(***************************************************************************)

\* What the steps keep of an entry, apart from how its handles and the catalog
\* agree, which is OwnInv below.
Kept == [program : Program \cup {None}, live : BOOLEAN, ready : BOOLEAN,
         handles : SUBSET Range(Kind), borrowed : Nat]

\* The strengthening: a program has one entry, a call past its search has the
\* entry of its program, and without a lease only that entry is borrowed.
LeaseInv ==
    /\ entries \in Seq(Kept)
    /\ call.program \in Program \cup {None}
    /\ leases \in Nat
    /\ lease = "component" => leases = IF resource = "retained" THEN 1 ELSE 0
    /\ leases = 0 => active = None
    /\ \A i, j \in DOMAIN entries :
          entries[i].program = entries[j].program => i = j
    /\ call.pc \in {"register", "borrow", "run"} => Known(call.program)
    /\ leases = 0 => \A i \in DOMAIN entries : entries[i].borrowed > 0 =>
          call.pc \in {"borrow", "run"} /\ entries[i].program = call.program

\* Sequences of entries: one entry changed, the newest removed, a new one put
\* before the others.
LEMMA Changed ==
    ASSUME NEW s \in Seq(Kept), NEW k \in DOMAIN s, NEW e \in Kept
    PROVE  /\ [s EXCEPT ![k] = e] \in Seq(Kept)
           /\ DOMAIN [s EXCEPT ![k] = e] = DOMAIN s
           /\ \A i \in DOMAIN s :
                 [s EXCEPT ![k] = e][i] = IF i = k THEN e ELSE s[i]
OBVIOUS

LEMMA Popped ==
    ASSUME NEW s \in Seq(Kept), s # <<>>
    PROVE  /\ Head(s) = s[1] /\ 1 \in DOMAIN s
           /\ Tail(s) \in Seq(Kept)
           /\ \A i \in DOMAIN Tail(s) : i + 1 \in DOMAIN s /\ Tail(s)[i] = s[i + 1]
OBVIOUS

LEMMA Pushed ==
    ASSUME NEW s \in Seq(Kept), NEW e \in Kept
    PROVE  /\ <<e>> \o s \in Seq(Kept)
           /\ 1 \in DOMAIN (<<e>> \o s) /\ (<<e>> \o s)[1] = e
           /\ \A i \in DOMAIN (<<e>> \o s) : i # 1 =>
                 i - 1 \in DOMAIN s /\ (<<e>> \o s)[i] = s[i - 1]
OBVIOUS

LEMMA PlaceFound ==
    ASSUME NEW p, Known(p)
    PROVE  Place(p) \in DOMAIN entries /\ entries[Place(p)].program = p
BY Zenon DEF Known, Place

LEMMA RenewKept ==
    ASSUME entries \in Seq(Kept), entries # <<>>,
           NEW h \in SUBSET Range(Kind), NEW l \in BOOLEAN, NEW r \in BOOLEAN
    PROVE  /\ Renew(h, l, r) \in Seq(Kept)
           /\ DOMAIN Renew(h, l, r) = DOMAIN entries
           /\ \A i \in DOMAIN entries :
                 /\ Renew(h, l, r)[i].program = entries[i].program
                 /\ Renew(h, l, r)[i].borrowed = entries[i].borrowed
<1> DEFINE e == [entries[1] EXCEPT !.handles = h, !.live = l, !.ready = r]
<1>1. 1 \in DOMAIN entries /\ entries[1] \in Kept
      BY Popped
<1>2. e \in Kept /\ e.program = entries[1].program
               /\ e.borrowed = entries[1].borrowed
      BY <1>1, Zenon DEF Kept
<1>3. Renew(h, l, r) = [entries EXCEPT ![1] = e]
      BY Zenon DEF Renew
<1> HIDE DEF e
<1> QED
    BY <1>1, <1>2, <1>3, Changed

LEMMA LendKept ==
    ASSUME entries \in Seq(Kept), NEW p, Known(p), NEW n \in Nat
    PROVE  /\ Lend(p, n) \in Seq(Kept)
           /\ DOMAIN Lend(p, n) = DOMAIN entries
           /\ \A i \in DOMAIN entries :
                 /\ Lend(p, n)[i].program = entries[i].program
                 /\ Lend(p, n)[i].borrowed =
                       IF i = Place(p) THEN n ELSE entries[i].borrowed
<1> DEFINE e == [entries[Place(p)] EXCEPT !.borrowed = n]
<1>1. Place(p) \in DOMAIN entries /\ entries[Place(p)] \in Kept
      BY PlaceFound
<1>2. e \in Kept /\ e.program = entries[Place(p)].program /\ e.borrowed = n
      BY <1>1, Zenon DEF Kept
<1>3. Lend(p, n) = [entries EXCEPT ![Place(p)] = e]
      BY Zenon DEF Lend
<1> HIDE DEF e
<1> QED
    BY <1>1, <1>2, <1>3, Changed

LEMMA KindsFinite == IsFiniteSet(Range(Kind))
<1>1. Range(Kind) = {"arena", "request", "condition"}
      BY DEF Range, Kind
<1>2. IsFiniteSet({"arena"})
      BY FS_Singleton
<1>3. IsFiniteSet({"arena"} \cup {"request"})
      BY <1>2, FS_AddElement
<1>4. IsFiniteSet({"arena"} \cup {"request"} \cup {"condition"})
      BY <1>3, FS_AddElement
<1>5. Range(Kind) = {"arena"} \cup {"request"} \cup {"condition"}
      BY <1>1
<1> QED
    BY <1>4, <1>5

LEMMA LeaseInit == ComponentInit => LeaseInv
BY DEF ComponentInit, LeaseInv, Init, NoCall, Known, Kept

\* A step of a call that closes or evicts keeps the lease facts, when it leaves
\* the programs apart and lends nothing.
LEMMA KeepsLease ==
    ASSUME LeaseInv, UNCHANGED <<resource, lease, leases, active>>,
           call.pc \in {"close", "evict", "undo"}, call' = call \/ call' = NoCall,
           entries' \in Seq(Kept),
           \A i, j \in DOMAIN entries' :
              entries'[i].program = entries'[j].program => i = j,
           leases = 0 => \A i \in DOMAIN entries' : ~(entries'[i].borrowed > 0)
    PROVE  LeaseInv'
BY DEF LeaseInv, NoCall

\* Borrowing for the program of the call keeps the lease facts.
LEMMA LendsLease ==
    ASSUME LeaseInv, UNCHANGED <<resource, lease, leases, active, call>>,
           call.pc = "borrow", Known(call.program), NEW n \in Nat,
           entries' = Lend(call.program, n)
    PROVE  LeaseInv'
<1>1. entries \in Seq(Kept)
      BY DEF LeaseInv
<1>2. /\ entries' \in Seq(Kept) /\ DOMAIN entries' = DOMAIN entries
      /\ \A i \in DOMAIN entries :
            /\ entries'[i].program = entries[i].program
            /\ entries'[i].borrowed =
                  IF i = Place(call.program) THEN n ELSE entries[i].borrowed
      BY <1>1, LendKept
<1>3. Place(call.program) \in DOMAIN entries
      /\ entries[Place(call.program)].program = call.program
      BY PlaceFound
<1> QED
    BY <1>2, <1>3 DEF LeaseInv, Known

\* The end of a call that gives back what it borrowed keeps them too.
LEMMA ReturnsLease ==
    ASSUME LeaseInv, UNCHANGED <<resource, lease, leases, active>>,
           call.pc \in {"borrow", "run"}, Known(call.program), call' = NoCall,
           entries' = Lend(call.program, 0)
    PROVE  LeaseInv'
<1>1. entries \in Seq(Kept)
      BY DEF LeaseInv
<1>2. /\ entries' \in Seq(Kept) /\ DOMAIN entries' = DOMAIN entries
      /\ \A i \in DOMAIN entries :
            /\ entries'[i].program = entries[i].program
            /\ entries'[i].borrowed =
                  IF i = Place(call.program) THEN 0 ELSE entries[i].borrowed
      BY <1>1, LendKept
<1>3. \A i \in DOMAIN entries :
         i # Place(call.program) => entries[i].program # call.program
      BY PlaceFound, Zenon DEF LeaseInv
<1> QED
    BY <1>2, <1>3 DEF LeaseInv, NoCall

\* A new entry for the program of the call keeps them.
LEMMA PushesLease ==
    ASSUME LeaseInv, UNCHANGED <<resource, lease, leases, active>>,
           call.pc = "find", ~Known(call.program),
           call'.pc \in {"register", "undo"}, call'.program = call.program,
           NEW d \in Kept, d.program = call.program, d.borrowed = 0,
           entries' = <<d>> \o entries
    PROVE  LeaseInv'
<1>1. entries \in Seq(Kept)
      BY DEF LeaseInv
<1>2. /\ entries' \in Seq(Kept) /\ 1 \in DOMAIN entries' /\ entries'[1] = d
      /\ \A i \in DOMAIN entries' : i # 1 =>
            i - 1 \in DOMAIN entries /\ entries'[i] = entries[i - 1]
      BY <1>1, Pushed
<1>3. \A i \in DOMAIN entries : entries[i].program # call.program
      BY DEF Known
<1>4. \A i, j \in DOMAIN entries' :
         entries'[i].program = entries'[j].program => i = j
      BY <1>1, <1>2, <1>3 DEF LeaseInv
<1>5. leases = 0 => \A i \in DOMAIN entries' : ~(entries'[i].borrowed > 0)
      BY <1>2 DEF LeaseInv
<1>6. Known(call.program)'
      BY <1>2 DEF Known
<1> QED
    BY <1>2, <1>4, <1>5, <1>6 DEF LeaseInv

LEMMA LeaseStep ==
    ASSUME IInv, LeaseInv, [ComponentNext]_allVars PROVE LeaseInv'
<1> USE DEF At, Return, NoCall
<1>1. ASSUME NEW p \in Program, JointExecute(p) PROVE LeaseInv'
      BY <1>1 DEF LeaseInv, JointExecute, Caller, Known, vars
<1>2. CASE EvictHandle
  <2> DEFINE e == Head(entries)
             l == e.live /\ EvictNext # "arena"
             r == e.ready /\ EvictNext # "arena"
  <2>1. entries \in Seq(Kept) /\ entries # <<>> /\ e \in Kept
        BY <1>2, Popped DEF EvictHandle, LeaseInv
  <2>2. e.handles \ {EvictNext} \in SUBSET Range(Kind)
        BY <2>1 DEF Kept
  <2>3. l \in BOOLEAN /\ r \in BOOLEAN
        OBVIOUS
  <2>4. entries' = entries \/ entries' = Renew(e.handles \ {EvictNext}, l, r)
        BY <1>2, Zenon DEF EvictHandle
  <2> HIDE DEF e, l, r
  <2>5. /\ entries' \in Seq(Kept) /\ DOMAIN entries' = DOMAIN entries
        /\ \A i \in DOMAIN entries : /\ entries'[i].program = entries[i].program
                                     /\ entries'[i].borrowed = entries[i].borrowed
        BY <2>1, <2>2, <2>3, <2>4, RenewKept
  <2>6. call' = call \/ call' = NoCall
        BY <1>2 DEF EvictHandle
  <2>7. call.pc \in {"evict", "undo"} /\ UNCHANGED <<vars, lease, leases, active>>
        BY <1>2 DEF EvictHandle
  <2> QED
      BY <2>5, <2>6, <2>7 DEF LeaseInv, Known, vars
<1>3. CASE EvictEntry
  <2>0. entries \in Seq(Kept) /\ entries # <<>>
        BY <1>3 DEF EvictEntry, LeaseInv
  <2>1. \/ entries' = entries
        \/ /\ entries' \in Seq(Kept)
           /\ \A i \in DOMAIN entries' :
                 i + 1 \in DOMAIN entries /\ entries'[i] = entries[i + 1]
    <3>1. entries' = entries \/ entries' = Tail(entries)
          BY <1>3 DEF EvictEntry
    <3> QED
        BY <2>0, <3>1, Popped
  <2>2. entries \in Seq(Kept) /\ entries' \in Seq(Kept)
        BY <2>1 DEF LeaseInv
  <2>3. \A i, j \in DOMAIN entries' :
           entries'[i].program = entries'[j].program => i = j
        BY <2>1, <2>2 DEF LeaseInv
  <2>4. call' = call \/ call' = NoCall
        BY <1>3 DEF EvictEntry
  <2>5. call.pc \in {"evict", "undo"} /\ UNCHANGED <<vars, lease, leases, active>>
        BY <1>3 DEF EvictEntry
  <2>6. leases = 0 => \A i \in DOMAIN entries' : ~(entries'[i].borrowed > 0)
        BY <2>1, <2>5 DEF LeaseInv
  <2> QED
      BY <2>2, <2>3, <2>4, <2>5, <2>6, KeepsLease, Zenon DEF vars
<1>4. CASE Evicted
      BY <1>4 DEF LeaseInv, Evicted, Known, vars
<1>5. CASE Find
  <2>1. UNCHANGED <<vars, lease, leases, active, entries>> /\ call.pc = "find"
        BY <1>5 DEF Find
  <2>2. CASE Return
        BY <2>1, <2>2 DEF LeaseInv, Known, vars
  <2>3. CASE Known(call.program) /\ call'.program = call.program
        BY <2>1, <2>3 DEF LeaseInv, Known, vars
  <2> QED
      BY <1>5, <2>2, <2>3 DEF Find
<1>6. CASE Prepare
  <2>0. UNCHANGED <<vars, lease, leases, active>> /\ call.pc = "find"
        BY <1>6 DEF Prepare
  <2>1. CASE Return /\ UNCHANGED entries
        BY <2>0, <2>1 DEF LeaseInv, Known, vars
  <2> DEFINE new(live) == [program |-> call.program, live |-> live,
                           ready |-> FALSE, handles |-> {}, borrowed |-> 0]
  <2>2. ASSUME NEW live \in BOOLEAN, entries' = <<new(live)>> \o entries,
               call'.pc \in {"register", "undo"}, call'.program = call.program
        PROVE  LeaseInv'
    <3>1. /\ new(live) \in Kept /\ new(live).program = call.program
          /\ new(live).borrowed = 0
          BY DEF Kept, LeaseInv
    <3> HIDE DEF new
    <3>2. ~Known(call.program)
          BY <1>6, Zenon DEF Prepare
    <3> QED
        BY <2>0, <2>2, <3>1, <3>2, PushesLease, Zenon DEF vars
  <2>3. CASE \E live \in BOOLEAN : /\ entries' = <<new(live)>> \o entries
                                   /\ At(IF live THEN "register" ELSE "undo")
    <3>1. PICK live \in BOOLEAN : /\ entries' = <<new(live)>> \o entries
                                 /\ At(IF live THEN "register" ELSE "undo")
          BY <2>3, Zenon
    <3> HIDE DEF new
    <3>2. call'.pc \in {"register", "undo"} /\ call'.program = call.program
          BY <3>1
    <3> QED
        BY <2>2, <3>1, <3>2
  <2> QED
      BY <1>6, <2>1, <2>3, Zenon DEF Prepare
<1>7. CASE RegisterOne
  <2> DEFINE e == Head(entries)
             n == Cardinality(e.handles)
             h == e.handles \cup {Kind[n + 1]}
  <2>0. UNCHANGED <<vars, lease, leases, active>> /\ call.pc = "register"
        BY <1>7 DEF RegisterOne
  <2>1. entries \in Seq(Kept) /\ entries # <<>> /\ e \in Kept
    <3>1. entries \in Seq(Kept) /\ entries # <<>>
          BY <2>0 DEF LeaseInv, Known
    <3> QED
        BY <3>1, Popped
  <2>2. CASE UNCHANGED entries /\ call'.program = call.program
        BY <2>0, <2>2, <1>7 DEF LeaseInv, Known, vars
  <2>3. CASE entries' = Renew(h, e.live, n = 2) /\ n < 3 /\ UNCHANGED call
    <3>1. n \in Nat
          BY <2>1, KindsFinite, FS_Subset, FS_CardinalityType DEF Kept
    <3>2. n \in {0, 1, 2}
          BY <2>3, <3>1
    <3>3. Kind[n + 1] \in Range(Kind)
      <4> HIDE DEF n
      <4> QED
          BY <3>2 DEF Kind, Range
    <3>4. h \in SUBSET Range(Kind) /\ e.live \in BOOLEAN /\ (n = 2) \in BOOLEAN
          BY <2>1, <3>3 DEF Kept
    <3> HIDE DEF e, n, h
    <3>5. /\ entries' \in Seq(Kept) /\ DOMAIN entries' = DOMAIN entries
          /\ \A i \in DOMAIN entries : /\ entries'[i].program = entries[i].program
                                       /\ entries'[i].borrowed = entries[i].borrowed
          BY <2>1, <2>3, <3>4, RenewKept, ZenonT(30)
    <3> QED
        BY <2>0, <2>3, <3>5 DEF LeaseInv, Known, vars
  <2> QED
      BY <1>7, <2>2, <2>3 DEF RegisterOne
<1>8. CASE Borrow
  <2>1. call.pc = "borrow" /\ Known(call.program)
        BY <1>8, Zenon DEF Borrow, LeaseInv
  <2>2. entries \in Seq(Kept) /\ Place(call.program) \in DOMAIN entries
        BY <2>1, PlaceFound, Zenon DEF LeaseInv
  <2>3. PICK n : n = entries[Place(call.program)].borrowed + 1
        OBVIOUS
  <2>4. n \in Nat
    <3>1. entries[Place(call.program)] \in Kept
          BY <2>2
    <3>2. entries[Place(call.program)].borrowed \in Nat
          BY <3>1, Zenon DEF Kept
    <3> QED
        BY <2>3, <3>2
  <2>5. /\ UNCHANGED <<vars, lease, leases, active, call>>
        /\ entries' = Lend(call.program, n)
        BY <1>8, <2>3, Zenon DEF Borrow
  <2> QED
      BY <2>1, <2>4, <2>5, LendsLease, Zenon DEF vars
<1>9. CASE BorrowFails
  <2>1. call.pc = "borrow" /\ Known(call.program)
        BY <1>9, Zenon DEF BorrowFails, LeaseInv
  <2>2. UNCHANGED <<vars, lease, leases, active>> /\ call' = NoCall
        /\ entries' = Lend(call.program, 0)
        BY <1>9, ZenonT(30) DEF BorrowFails
  <2> QED
      BY <2>1, <2>2, ReturnsLease, Zenon DEF vars
<1>10. CASE Lent
      BY <1>10 DEF LeaseInv, Lent, Known, Place, vars
<1>11. CASE Run
  <2>1. call.pc = "run" /\ Known(call.program)
        BY <1>11, Zenon DEF Run, LeaseInv
  <2>2. UNCHANGED <<vars, lease, leases, active>> /\ call' = NoCall
        BY <1>11, Zenon DEF Run
  <2>3. CASE leases # 0
    <3>1. UNCHANGED entries
          BY <1>11, <2>3, Zenon DEF Run
    <3> QED
        BY <2>2, <2>3, <3>1 DEF LeaseInv, Known, vars
  <2>4. CASE leases = 0
    <3>1. entries' = Lend(call.program, 0)
          BY <1>11, <2>4, Zenon DEF Run
    <3> QED
        BY <2>1, <2>2, <3>1, ReturnsLease, Zenon DEF vars
  <2> QED
      BY <2>3, <2>4
<1>12. CASE CatalogRelease
  <2>0. UNCHANGED <<vars, lease, leases, active>> /\ call.pc = "close"
        /\ (call' = call \/ call' = NoCall)
        BY <1>12, Zenon DEF CatalogRelease
  <2>1. \A e \in Kept :
           LET f == [e EXCEPT !.live = FALSE, !.ready = FALSE]
           IN  f \in Kept /\ f.program = e.program /\ f.borrowed = e.borrowed
        BY Zenon DEF Kept
  <2> DEFINE freed(e) == [e EXCEPT !.live = FALSE, !.ready = FALSE]
             given(k) == [i \in DOMAIN entries |->
                            IF entries[i].program = k[1] /\ k[2] = "arena"
                            THEN freed(entries[i]) ELSE entries[i]]
  <2>2. entries' = entries \/ \E k : entries' = given(k)
        BY <1>12, Zenon DEF CatalogRelease
  <2>3. \A e \in Kept : freed(e) \in Kept /\ freed(e).program = e.program
                        /\ freed(e).borrowed = e.borrowed
        BY <2>1, Zenon
  <2> HIDE DEF freed
  <2>4. /\ entries' \in Seq(Kept) /\ DOMAIN entries' = DOMAIN entries
        /\ \A i \in DOMAIN entries : /\ entries'[i].program = entries[i].program
                                     /\ entries'[i].borrowed = entries[i].borrowed
        BY <2>2, <2>3 DEF LeaseInv
  <2>5. \A i, j \in DOMAIN entries' :
           entries'[i].program = entries'[j].program => i = j
        BY <2>4 DEF LeaseInv
  <2>6. leases = 0 => \A i \in DOMAIN entries' : ~(entries'[i].borrowed > 0)
        BY <2>0, <2>4 DEF LeaseInv
  <2> QED
      BY <2>0, <2>4, <2>5, <2>6, KeepsLease, Zenon DEF vars
<1>13. CASE SessionRelease
  <2>0. entries \in Seq(Kept)
        BY DEF LeaseInv
  <2>1. \/ entries' = entries
        \/ /\ entries' \in Seq(Kept)
           /\ \A i \in DOMAIN entries' :
                 i + 1 \in DOMAIN entries /\ entries'[i] = entries[i + 1]
    <3>1. entries' = entries \/ (entries # <<>> /\ entries' = Tail(entries))
          BY <1>13, Zenon DEF SessionRelease
    <3> QED
        BY <2>0, <3>1, Popped
  <2>2. entries' \in Seq(Kept)
        BY <2>0, <2>1
  <2>3. \A i, j \in DOMAIN entries' :
           entries'[i].program = entries'[j].program => i = j
        BY <2>0, <2>1, <2>2 DEF LeaseInv
  <2>4. call' = call \/ call' = NoCall
        BY <1>13, Zenon DEF SessionRelease
  <2>5. call.pc = "close" /\ UNCHANGED <<vars, lease, leases, active>>
        BY <1>13, Zenon DEF SessionRelease
  <2>6. leases = 0 => \A i \in DOMAIN entries' : ~(entries'[i].borrowed > 0)
        BY <2>1, <2>5 DEF LeaseInv
  <2> QED
      BY <2>2, <2>3, <2>4, <2>5, <2>6, KeepsLease, Zenon DEF vars
<1>14. CASE SessionClose
      BY <1>14 DEF LeaseInv, SessionClose, Caller, Known, vars
<1>15. CASE OpenLease
      BY <1>15 DEF LeaseInv, OpenLease, Known, Open, IInv, Ledger
<1>16. CASE CloseLease
  <2>0. UNCHANGED <<lease, call>> /\ Caller /\ Close /\ resource = "retained"
        BY <1>16 DEF CloseLease
  <2>1. CASE Unlent /\ leases' = leases - 1 /\ active' = None /\ state' = "freed"
    <3> DEFINE back(e) == [e EXCEPT !.borrowed = 0]
    <3>1. \A e \in Kept : back(e) \in Kept /\ back(e).program = e.program
                         /\ back(e).borrowed = 0
          BY DEF Kept
    <3>2. entries' = [i \in DOMAIN entries |-> back(entries[i])]
          BY <2>1, Zenon DEF Unlent
    <3> HIDE DEF back
    <3>3. /\ entries' \in Seq(Kept) /\ DOMAIN entries' = DOMAIN entries
          /\ \A i \in DOMAIN entries : /\ entries'[i].program = entries[i].program
                                       /\ entries'[i].borrowed = 0
          BY <3>1, <3>2 DEF LeaseInv
    <3>4. resource' # "retained" /\ leases = 1 /\ call.pc = "idle"
      <4>1. resource' # "retained"
            BY <2>0, <2>1 DEF Close, Terminal, Live
      <4> QED
          BY <2>0, <4>1 DEF Caller, LeaseInv
    <3> QED
        BY <2>0, <2>1, <3>3, <3>4 DEF LeaseInv, Known
  <2>2. CASE state' # "freed" /\ UNCHANGED <<entries, leases, active>>
        BY <2>0, <2>2 DEF LeaseInv, Close, Known
  <2> QED
      BY <1>16, <2>1, <2>2 DEF CloseLease
<1>17. CASE CloseUnleased
      BY <1>17 DEF LeaseInv, CloseUnleased, Close, sessionVars, Known
<1>18. CASE Transact \/ CancelAny
      BY <1>18 DEF LeaseInv, Transact, CancelAny, CallerStep, CallerAborts,
         QuantumBegin, QuantumFails, SafePoint, Resume, Commit, Cancel,
         sessionVars, Known
<1>19. CASE OtherLease
      BY <1>19 DEF LeaseInv, OtherLease, sessionVars, Known
<1>20. CASE Closed \/ UNCHANGED allVars
      BY <1>20 DEF LeaseInv, Closed, allVars, vars, sessionVars, Known
<1> QED
    BY <1>1, <1>2, <1>3, <1>4, <1>5, <1>6, <1>7, <1>8, <1>9, <1>10, <1>11,
       <1>12, <1>13, <1>14, <1>15, <1>16, <1>17, <1>18, <1>19, <1>20
       DEF ComponentNext, SessionStep

\* LeaseInv says what the lease has to give back.
LEMMA LeaseInvReturns == LeaseInv => LeaseReturned
<1> SUFFICES ASSUME LeaseInv, leases = 0, call.pc = "idle"
             PROVE  AllBorrowed = {}
    BY DEF LeaseInv, LeaseReturned
<1>1. ASSUME NEW i \in DOMAIN entries PROVE entries[i].borrowed = 0
  <2>1. entries[i] \in Kept
        BY DEF LeaseInv
  <2>2. entries[i].borrowed \in Nat
        BY <2>1 DEF Kept
  <2>3. ~(entries[i].borrowed > 0)
        BY DEF LeaseInv
  <2> QED
      BY <2>2, <2>3
<1>2. ASSUME NEW i \in DOMAIN entries PROVE Borrowed(entries[i]) = {}
  <2>1. 1 .. entries[i].borrowed = {}
        BY <1>1
  <2> QED
      BY <2>1, Zenon DEF Borrowed
<1> QED
    BY <1>2, Zenon DEF AllBorrowed

\* A lease lasts exactly as long as the transaction that retains it, and once
\* it is over nothing it kept is still borrowed (transaction_retain and
\* transaction_release of component.c), however the joint calls in between
\* found, made, evicted or failed to prepare their entries.
THEOREM LeasesAreReturned == ComponentSpec => []LeaseReturned
<1>1. IInv /\ LeaseInv /\ [ComponentNext]_allVars => LeaseInv'
      BY LeaseStep
<1>2. ComponentSpec => []IInv
      BY ComponentImplementsTransaction, Invariance, PTL
<1> QED
    BY <1>1, <1>2, LeaseInit, LeaseInvReturns, PTL DEF ComponentSpec
-----------------------------------------------------------------------------
(***************************************************************************)
(* What is borrowed, and what owns a program.  The entries and the catalog *)
(* are two records of the same resources, kept in step by one operation on *)
(* the catalog after the other, so the invariant says how they agree, also *)
(* between the operations of a call, and what the call under way has done. *)
(***************************************************************************)
\* The kinds of an entry's first n resources, in the order of registration.
Kinds == {"arena", "request", "condition"}

First(n) == IF n = 0 THEN {} ELSE IF n = 1 THEN {"arena"}
            ELSE IF n = 2 THEN {"arena", "request"} ELSE Kinds

Entries == {entries[i] : i \in DOMAIN entries}

\* How many views an arena has, and whether its release has failed.
Views(p) == (IF <<p, "request">> \in DOMAIN slots THEN 1 ELSE 0)
            + (IF <<p, "condition">> \in DOMAIN slots THEN 1 ELSE 0)

Failed(p) == <<p, "arena">> \in DOMAIN slots /\ slots[<<p, "arena">>].state = "FAILED"

\* An entry and the slots of its program agree.  The entry has its first
\* resources, in the catalog until that is closing, and a slot has the consumer
\* the entry is.
Owned(e) ==
    /\ \A k \in Kinds : <<e.program, k>> \in DOMAIN slots =>
          /\ k \in e.handles /\ e.live
          /\ slots[<<e.program, k>>].consumers =
                IF k \in First(e.borrowed) THEN 1 ELSE 0
    /\ ~closing => \A k \in e.handles : <<e.program, k>> \in DOMAIN slots

\* An arena counts its views, and only an arena without views fails to be
\* released.
Viewed(p) ==
    /\ <<p, "arena">> \in DOMAIN slots =>
          /\ slots[<<p, "arena">>].dependency = None
          /\ slots[<<p, "arena">>].dependents = Views(p)
    /\ \A k \in {"request", "condition"} : <<p, k>> \in DOMAIN slots =>
          /\ <<p, "arena">> \in DOMAIN slots
          /\ slots[<<p, k>>].dependency = <<p, "arena">>
          /\ slots[<<p, k>>].dependents = 0
          /\ slots[<<p, k>>].state = "READY"
    /\ Failed(p) => Views(p) = 0

\* An entry is borrowed only when it is whole.
Whole(e) ==
    /\ e \in Kept /\ e.program \in Program
    /\ e.handles \in {First(n) : n \in 0 .. 3} /\ e.borrowed \in 0 .. 3
    /\ e.ready => e.live /\ "arena" \in e.handles
    /\ e.borrowed > 0 => /\ ~closing /\ e.ready /\ e.handles = First(3)
                         /\ ~Failed(e.program)

Good(e) == Whole(e) /\ Owned(e) /\ Viewed(e.program)

\* What the call under way has done with an entry: a ready entry that is not
\* whole is being evicted, or could not be.
Doing(e) ==
    /\ e.program = call.program => /\ call.pc = "borrow" => e.ready
                                   /\ call.pc = "run" => e.borrowed = 3
    /\ e.borrowed \in {0, 3} \/ (call.pc = "borrow" /\ e.program = call.program)
    /\ call.pc = "evict" => e.borrowed = 0
    /\ e.ready /\ ~closing /\ e.handles # First(3) =>
          (call.pc \in {"evict", "undo"} /\ e = Head(entries)) \/ Failed(e.program)

CallInv ==
    /\ call.pc \notin {"idle", "close"} => call.program \in Program
    /\ call.pc \in {"register", "undo"} =>
          /\ entries # <<>> /\ Head(entries).program = call.program
          /\ Head(entries).borrowed = 0 /\ ~closing
    /\ call.pc = "register" =>
          /\ Head(entries).live
          /\ Head(entries).ready <=> Head(entries).handles = First(3)
    /\ call.pc = "close" => closing
    /\ session = "closed" => call.pc = "idle" /\ entries = <<>> /\ DOMAIN slots = {}

SlotsInv ==
    /\ slots \in [DOMAIN slots -> Catalog!Slot] /\ closing \in BOOLEAN
    /\ \A s \in DOMAIN slots : /\ s \in Program \X Kinds
                               /\ \E e \in Entries : e.program = s[1]

OwnInv == /\ SlotsInv /\ CallInv
          /\ \A e \in Entries : Good(e) /\ Doing(e)

LEMMA KindsAre == Range(Kind) = Kinds /\ Kind[1] = "arena" /\ Kind[2] = "request"
                  /\ Kind[3] = "condition" /\ DOMAIN Kind = 1 .. 3
BY DEF Range, Kind, Kinds

LEMMA Extended ==
    ASSUME NEW s \in Seq(Kinds), NEW x \in Kinds
    PROVE  /\ s \o <<x>> \in Seq(Kinds) /\ Len(s \o <<x>>) = Len(s) + 1
           /\ \A j \in 1 .. Len(s) : (s \o <<x>>)[j] = s[j]
           /\ (s \o <<x>>)[Len(s) + 1] = x
OBVIOUS

\* The handles of an entry that has its first n resources.
LEMMA HandlesAre ==
    ASSUME NEW e, NEW n \in 0 .. 3, e.handles = First(n)
    PROVE  /\ Len(Handles(e)) = n
           /\ \A j \in 1 .. n : Handles(e)[j] = Kind[j]
<1> DEFINE a == <<"arena">>
           ar == a \o <<"request">>
           arc == ar \o <<"condition">>
<1>0. "arena" \in Kinds /\ "request" \in Kinds /\ "condition" \in Kinds
      BY DEF Kinds
<1>1. /\ ar \in Seq(Kinds) /\ Len(ar) = 2 /\ ar[1] = "arena" /\ ar[2] = "request"
  <2>1. a \in Seq(Kinds) /\ Len(a) = 1 /\ a[1] = "arena"
        BY <1>0
  <2> HIDE DEF a
  <2>2. /\ ar \in Seq(Kinds) /\ Len(ar) = Len(a) + 1 /\ ar[Len(a) + 1] = "request"
        /\ \A j \in 1 .. Len(a) : ar[j] = a[j]
        BY <2>1, <1>0, Extended, Zenon
  <2> QED
      BY <2>1, <2>2
<1> HIDE DEF ar
<1>2. /\ arc \in Seq(Kinds) /\ Len(arc) = 3
      /\ arc[1] = "arena" /\ arc[2] = "request" /\ arc[3] = "condition"
  <2>1. /\ arc \in Seq(Kinds) /\ Len(arc) = Len(ar) + 1 /\ arc[Len(ar) + 1] = "condition"
        /\ \A j \in 1 .. Len(ar) : arc[j] = ar[j]
        BY <1>0, <1>1, Extended, Zenon
  <2> HIDE DEF arc
  <2> QED
      BY <1>1, <2>1
<1>4. ar \o <<>> = ar
      BY <1>1
<1>5. CASE n = 0
  <2>1. Handles(e) = <<>>
        BY <1>5 DEF Handles, First
  <2> QED
      BY <2>1, <1>5
<1>6. CASE n = 1
  <2>1. Handles(e) = <<"arena">>
        BY <1>6 DEF Handles, First
  <2> QED
      BY <2>1, <1>6, KindsAre
<1>7. CASE n = 2
  <2>1. e.handles = {"arena", "request"}
        BY <1>7 DEF First
  <2>2. Handles(e) = ar \o <<>>
        BY <2>1 DEF Handles, ar
  <2> QED
      BY <2>2, <1>7, <1>1, <1>4, KindsAre
<1>8. CASE n = 3
  <2>0. "arena" \in e.handles /\ "request" \in e.handles /\ "condition" \in e.handles
        BY <1>8 DEF First, Kinds
  <2>1. Handles(e) = arc
        BY <2>0, Zenon DEF Handles, ar
  <2> HIDE DEF arc
  <2> QED
      BY <2>1, <1>8, <1>2, KindsAre
<1> QED
    BY <1>5, <1>6, <1>7, <1>8

LEMMA SomeHandles ==
    ASSUME NEW h \in {First(n) : n \in 0 .. 3}, h # {}
    PROVE  \E n \in 1 .. 3 : h = First(n)
<1>1. PICK m \in 0 .. 3 : h = First(m)
      BY Zenon
<1>2. m # 0
      BY <1>1 DEF First
<1>3. m \in 1 .. 3
      BY <1>2
<1> QED
    BY <1>1, <1>3, Zenon

LEMMA FirstSize ==
    ASSUME NEW n \in 0 .. 3
    PROVE  Cardinality(First(n)) = n /\ IsFiniteSet(First(n)) /\ First(n) \subseteq Kinds
<1>0. First(0) = {} /\ First(1) = First(0) \cup {"arena"}
      /\ First(2) = First(1) \cup {"request"} /\ First(3) = First(2) \cup {"condition"}
      /\ "arena" \notin First(0) /\ "request" \notin First(1) /\ "condition" \notin First(2)
      BY DEF First, Kinds
<1>1. Cardinality(First(0)) = 0 /\ IsFiniteSet(First(0))
      BY <1>0, FS_EmptySet
<1>a. ASSUME NEW S, NEW x, IsFiniteSet(S), x \notin S
      PROVE  IsFiniteSet(S \cup {x}) /\ Cardinality(S \cup {x}) = Cardinality(S) + 1
      BY <1>a, FS_AddElement
<1>2. Cardinality(First(1)) = 1 /\ IsFiniteSet(First(1))
      BY <1>0, <1>1, <1>a
<1>3. Cardinality(First(2)) = 2 /\ IsFiniteSet(First(2))
      BY <1>0, <1>2, <1>a
<1>4. Cardinality(First(3)) = 3 /\ IsFiniteSet(First(3))
      BY <1>0, <1>3, <1>a
<1>5. First(n) \subseteq Kinds
      BY DEF First, Kinds
<1> QED
    BY <1>1, <1>2, <1>3, <1>4, <1>5

\* The first n kinds with the next one, and without the last one.
LEMMA FirstNext ==
    ASSUME NEW n \in 0 .. 2
    PROVE  /\ First(n) \cup {Kind[n + 1]} = First(n + 1)
           /\ Kind[n + 1] \notin First(n) /\ Kind[n + 1] \in Kinds
           /\ First(n + 1) \ {Kind[n + 1]} = First(n)
           /\ Kind[n + 1] = "arena" <=> n = 0
BY KindsAre DEF First, Kinds

LEMMA FirstTold ==
    ASSUME NEW n \in 0 .. 3, NEW m \in 0 .. 3, First(n) = First(m)
    PROVE  n = m
BY FirstSize

\* What an entry has borrowed.
LEMMA BorrowedIs ==
    ASSUME NEW e, Good(e)
    PROVE  \A s : s \in Borrowed(e) <=>
              \E k \in First(e.borrowed) : s = <<e.program, k>>
<1>1. CASE e.borrowed = 0
      BY <1>1 DEF Borrowed, First
<1>2. CASE e.borrowed > 0
  <2>1. e.borrowed \in 1 .. 3 /\ e.handles = First(3)
        BY <1>2 DEF Good, Whole
  <2>2. \A j \in 1 .. 3 : Handles(e)[j] = Kind[j]
        BY <2>1, HandlesAre
  <2>3. \A k : k \in First(e.borrowed) <=> \E j \in 1 .. e.borrowed : k = Kind[j]
        BY <2>1, KindsAre DEF First, Kinds
  <2>4. Borrowed(e) = {<<e.program, Kind[j]>> : j \in 1 .. e.borrowed}
        BY <2>1, <2>2 DEF Borrowed
  <2> QED
      BY <2>3, <2>4
<1> QED
    BY <1>1, <1>2 DEF Good, Whole

-----------------------------------------------------------------------------
\* The entries of a program, as a set: one for each program.
OneEach == \A e, f \in Entries : e.program = f.program => e = f

LEMMA EntriesOne == LeaseInv => OneEach
BY DEF LeaseInv, OneEach, Entries

LEMMA HeadIsEntry ==
    ASSUME entries \in Seq(Kept), entries # <<>>
    PROVE  Head(entries) = entries[1] /\ Head(entries) \in Entries
BY Popped DEF Entries

LEMMA PlaceIsEntry ==
    ASSUME NEW p, Known(p)
    PROVE  entries[Place(p)] \in Entries /\ entries[Place(p)].program = p
BY PlaceFound, Zenon DEF Entries

\* One entry replaced.
LEMMA Replaced ==
    ASSUME LeaseInv, NEW k \in DOMAIN entries, NEW e \in Kept,
           entries' = [entries EXCEPT ![k] = e]
    PROVE  /\ \A f : f \in Entries' <=> f = e \/ (f \in Entries /\ f # entries[k])
           /\ entries' # <<>>
           /\ k = 1 => Head(entries') = e
           /\ k # 1 => Head(entries') = Head(entries)
<1>1. entries \in Seq(Kept) /\ \A i, j \in DOMAIN entries : entries[i] = entries[j] => i = j
      BY DEF LeaseInv
<1>2. /\ entries' \in Seq(Kept) /\ DOMAIN entries' = DOMAIN entries
      /\ \A i \in DOMAIN entries : entries'[i] = IF i = k THEN e ELSE entries[i]
      BY <1>1, Changed
<1>3. entries' # <<>> /\ entries # <<>>
      BY <1>1, <1>2
<1>4. Head(entries') = entries'[1] /\ Head(entries) = entries[1] /\ 1 \in DOMAIN entries
      BY <1>1, <1>2, <1>3, Popped
<1>5. \A f : f \in Entries' <=> f = e \/ (f \in Entries /\ f # entries[k])
      BY <1>1, <1>2 DEF Entries
<1> QED
    BY <1>2, <1>3, <1>4, <1>5, ZenonT(30)

LEMMA Dropped ==
    ASSUME LeaseInv, entries # <<>>, entries' = Tail(entries)
    PROVE  \A f : f \in Entries' <=> f \in Entries /\ f # Head(entries)
<1>1. entries \in Seq(Kept) /\ \A i, j \in DOMAIN entries : entries[i] = entries[j] => i = j
      BY DEF LeaseInv
<1>2. /\ Head(entries) = entries[1] /\ 1 \in DOMAIN entries
      /\ entries' \in Seq(Kept)
      /\ \A i \in DOMAIN entries' : i + 1 \in DOMAIN entries /\ entries'[i] = entries[i + 1]
      BY <1>1, Popped
<1>3. \A i \in DOMAIN entries : i # 1 => i - 1 \in DOMAIN entries'
      BY <1>1
<1>4. \A i \in DOMAIN entries : i # 1 => entries'[i - 1] = entries[i]
      BY <1>1, <1>2, <1>3
<1>5. \A i \in DOMAIN entries' : i + 1 # 1
      BY <1>2
<1>6. ASSUME NEW f \in Entries' PROVE f \in Entries /\ f # Head(entries)
  <2>1. PICK i \in DOMAIN entries' : f = entries'[i]
        BY <1>6 DEF Entries
  <2> QED
      BY <2>1, <1>1, <1>2, <1>5 DEF Entries
<1>7. ASSUME NEW f \in Entries, f # Head(entries) PROVE f \in Entries'
  <2>1. PICK i \in DOMAIN entries : f = entries[i]
        BY <1>7 DEF Entries
  <2>2. i - 1 \in DOMAIN entries' /\ entries'[i - 1] = f
        BY <2>1, <1>2, <1>3, <1>4, <1>7
  <2> QED
      BY <2>2 DEF Entries
<1> QED
    BY <1>6, <1>7

LEMMA Added ==
    ASSUME LeaseInv, NEW e \in Kept, entries' = <<e>> \o entries
    PROVE  /\ \A f : f \in Entries' <=> f = e \/ f \in Entries
           /\ entries' # <<>> /\ Head(entries') = e
<1>1. entries \in Seq(Kept)
      BY DEF LeaseInv
<1>2. /\ entries' \in Seq(Kept) /\ 1 \in DOMAIN entries' /\ entries'[1] = e
      /\ \A i \in DOMAIN entries' : i # 1 =>
            i - 1 \in DOMAIN entries /\ entries'[i] = entries[i - 1]
      BY <1>1, Pushed
<1>3. \A i \in DOMAIN entries : i + 1 \in DOMAIN entries' /\ i + 1 # 1
      BY <1>1
<1>4. \A i \in DOMAIN entries : entries'[i + 1] = entries[i]
      BY <1>1, <1>2, <1>3
<1>5. entries' # <<>> /\ Head(entries') = entries'[1]
      BY <1>2
<1> QED
    BY <1>2, <1>3, <1>4, <1>5 DEF Entries

-----------------------------------------------------------------------------
\* The operations of the catalog, slot by slot.
SlotT == [state : {"READY", "FAILED"}, consumers : Nat, dependents : Nat,
          dependency : (Program \X Kinds) \cup {None}]

LEMMA SlotIs == Catalog!Slot = SlotT
BY KindsAre DEF Catalog!Slot, SlotT

LEMMA Acquires ==
    ASSUME slots \in [DOMAIN slots -> SlotT], NEW s, Catalog!Acquire(s)
    PROVE  /\ closing' = closing /\ ~closing
           /\ s \in DOMAIN slots /\ slots[s].state = "READY"
           /\ DOMAIN slots' = DOMAIN slots /\ slots' \in [DOMAIN slots -> SlotT]
           /\ \A t \in DOMAIN slots : t # s => slots'[t] = slots[t]
           /\ slots'[s].consumers = slots[s].consumers + 1
           /\ slots'[s].state = slots[s].state
           /\ slots'[s].dependents = slots[s].dependents
           /\ slots'[s].dependency = slots[s].dependency
<1> DEFINE w == [slots[s] EXCEPT !.consumers = @ + 1]
<1>1. /\ closing' = closing /\ ~closing /\ s \in DOMAIN slots
      /\ slots[s].state = "READY"
      BY DEF Catalog!Acquire, Catalog!MayAcquire, Catalog!Present
<1>2. slots' = [slots EXCEPT ![s] = w]
      BY <1>1 DEF Catalog!Acquire
<1>3. /\ w \in SlotT /\ w.consumers = slots[s].consumers + 1
      /\ w.state = slots[s].state /\ w.dependents = slots[s].dependents
      /\ w.dependency = slots[s].dependency
      BY <1>1 DEF SlotT
<1> HIDE DEF w
<1> QED
    BY <1>1, <1>2, <1>3

LEMMA Drops ==
    ASSUME slots \in [DOMAIN slots -> SlotT], NEW K, Catalog!Drop(K)
    PROVE  /\ closing' = closing
           /\ \A s \in K : s \in DOMAIN slots
           /\ DOMAIN slots' = DOMAIN slots /\ slots' \in [DOMAIN slots -> SlotT]
           /\ \A t \in DOMAIN slots : t \notin K => slots'[t] = slots[t]
           /\ \A t \in K : /\ slots'[t].consumers = slots[t].consumers - 1
                           /\ slots'[t].state = slots[t].state
                           /\ slots'[t].dependents = slots[t].dependents
                           /\ slots'[t].dependency = slots[t].dependency
<1> DEFINE w(t) == [slots[t] EXCEPT !.consumers = @ - 1]
<1>1. /\ closing' = closing /\ \A s \in K : s \in DOMAIN slots /\ slots[s].consumers > 0
      BY DEF Catalog!Drop, Catalog!MayDrop, Catalog!Present
<1>2. slots' = [t \in DOMAIN slots |-> IF t \in K THEN w(t) ELSE slots[t]]
      BY Zenon DEF Catalog!Drop
<1>3. ASSUME NEW t \in K
      PROVE  /\ w(t) \in SlotT /\ w(t).consumers = slots[t].consumers - 1
             /\ w(t).state = slots[t].state /\ w(t).dependents = slots[t].dependents
             /\ w(t).dependency = slots[t].dependency
  <2>1. slots[t] \in SlotT /\ slots[t].consumers \in Nat /\ slots[t].consumers > 0
        BY <1>1 DEF SlotT
  <2> QED
      BY <2>1 DEF SlotT
<1> HIDE DEF w
<1> QED
    BY <1>1, <1>2, <1>3

LEMMA Fails ==
    ASSUME slots \in [DOMAIN slots -> SlotT], NEW s, Catalog!ReleaseFails(s)
    PROVE  /\ closing' = closing
           /\ s \in DOMAIN slots /\ slots[s].consumers = 0 /\ slots[s].dependents = 0
           /\ DOMAIN slots' = DOMAIN slots /\ slots' \in [DOMAIN slots -> SlotT]
           /\ \A t \in DOMAIN slots : t # s => slots'[t] = slots[t]
           /\ slots'[s].state = "FAILED"
           /\ slots'[s].consumers = 0 /\ slots'[s].dependents = 0
           /\ slots'[s].dependency = slots[s].dependency
<1> DEFINE w == [slots[s] EXCEPT !.state = "FAILED"]
<1>1. /\ closing' = closing /\ s \in DOMAIN slots
      /\ slots[s].consumers = 0 /\ slots[s].dependents = 0
      BY DEF Catalog!ReleaseFails, Catalog!MayRelease, Catalog!Present
<1>2. slots' = [slots EXCEPT ![s] = w]
      BY <1>1 DEF Catalog!ReleaseFails
<1>3. /\ w \in SlotT /\ w.consumers = slots[s].consumers
      /\ w.state = "FAILED" /\ w.dependents = slots[s].dependents
      /\ w.dependency = slots[s].dependency
      BY <1>1, ZenonT(30) DEF SlotT
<1> HIDE DEF w
<1> QED
    BY <1>1, <1>2, <1>3

\* A removal takes a dependent from the dependency, when that is still there.
LEMMA Releases ==
    ASSUME slots \in [DOMAIN slots -> SlotT], NEW s, Catalog!Release(s)
    PROVE  /\ closing' = closing
           /\ s \in DOMAIN slots /\ slots[s].consumers = 0 /\ slots[s].dependents = 0
           /\ DOMAIN slots' = DOMAIN slots \ {s}
           /\ slots' \in [DOMAIN slots \ {s} -> SlotT]
           /\ \A t \in DOMAIN slots : t # s /\ t # slots[s].dependency =>
                 slots'[t] = slots[t]
           /\ \A t \in DOMAIN slots : t # s /\ t = slots[s].dependency =>
                 /\ slots'[t].state = slots[t].state
                 /\ slots'[t].consumers = slots[t].consumers
                 /\ slots'[t].dependency = slots[t].dependency
                 /\ slots'[t].dependents = IF slots[t].dependents > 0
                                           THEN slots[t].dependents - 1 ELSE 0
<1> DEFINE rest == [t \in DOMAIN slots \ {s} |-> slots[t]]
           d == slots[s].dependency
           w == [rest[d] EXCEPT !.dependents = @ - 1]
<1>1. /\ closing' = closing /\ s \in DOMAIN slots
      /\ slots[s].consumers = 0 /\ slots[s].dependents = 0
      BY DEF Catalog!Release, Catalog!MayRelease, Catalog!Present
<1>2. slots' = IF d \in DOMAIN rest /\ rest[d].dependents > 0
               THEN [rest EXCEPT ![d] = w] ELSE rest
      BY DEF Catalog!Release, Catalog!Removed, Catalog!Restrict
<1>3. /\ rest \in [DOMAIN slots \ {s} -> SlotT] /\ DOMAIN rest = DOMAIN slots \ {s}
      /\ \A t \in DOMAIN slots \ {s} : rest[t] = slots[t]
      OBVIOUS
<1> HIDE DEF rest, d
<1>4. ASSUME d \in DOMAIN rest, rest[d].dependents > 0
      PROVE  /\ w \in SlotT /\ w.dependents = rest[d].dependents - 1
             /\ w.state = rest[d].state /\ w.consumers = rest[d].consumers
             /\ w.dependency = rest[d].dependency
  <2>1. rest[d] \in SlotT /\ rest[d].dependents \in Nat
        BY <1>3, <1>4 DEF SlotT
  <2> QED
      BY <2>1, <1>4 DEF SlotT
<1> HIDE DEF w
<1>5. \A t \in DOMAIN rest : rest[t].dependents \in Nat
      BY <1>3, ZenonT(30) DEF SlotT
<1>6. CASE d \in DOMAIN rest /\ rest[d].dependents > 0
      BY <1>1, <1>2, <1>3, <1>4, <1>6, ZenonT(30) DEF d
<1>7. CASE ~(d \in DOMAIN rest /\ rest[d].dependents > 0)
      BY <1>1, <1>2, <1>3, <1>5, <1>7 DEF d
<1> QED
    BY <1>6, <1>7

LEMMA Registers ==
    ASSUME slots \in [DOMAIN slots -> SlotT], NEW s, NEW d,
           d \in (Program \X Kinds) \cup {None}, Catalog!Register(s, d)
    PROVE  /\ closing' = closing /\ ~closing /\ s \notin DOMAIN slots
           /\ d # None => d \in DOMAIN slots /\ slots[d].state = "READY"
           /\ DOMAIN slots' = DOMAIN slots \cup {s}
           /\ slots' \in [DOMAIN slots \cup {s} -> SlotT]
           /\ \A t \in DOMAIN slots : t # d => slots'[t] = slots[t]
           /\ slots'[s].state = "READY" /\ slots'[s].consumers = 0
           /\ slots'[s].dependents = 0 /\ slots'[s].dependency = d
           /\ d \in DOMAIN slots =>
                 /\ slots'[d].state = slots[d].state
                 /\ slots'[d].consumers = slots[d].consumers
                 /\ slots'[d].dependency = slots[d].dependency
                 /\ slots'[d].dependents = slots[d].dependents + 1
<1> DEFINE new == [state |-> "READY", consumers |-> 0, dependents |-> 0, dependency |-> d]
           w == [slots[d] EXCEPT !.dependents = @ + 1]
<1>1. /\ closing' = closing /\ ~closing /\ s \notin DOMAIN slots
      /\ d # None => d \in DOMAIN slots /\ slots[d].state = "READY"
      BY DEF Catalog!Register, Catalog!Present
<1>2. slots' = [t \in DOMAIN slots \cup {s} |-> IF t = s THEN new
                                               ELSE IF t = d THEN w ELSE slots[t]]
  <2>1. slots' = [t \in DOMAIN slots \cup {s} |-> IF t = s THEN new
                     ELSE IF t = d THEN [slots[t] EXCEPT !.dependents = @ + 1] ELSE slots[t]]
        BY Zenon DEF Catalog!Register
  <2> QED
      BY <2>1, Zenon
<1>3. /\ new \in SlotT /\ new.state = "READY" /\ new.consumers = 0
      /\ new.dependents = 0 /\ new.dependency = d
      BY DEF SlotT
<1>4. ASSUME d \in DOMAIN slots
      PROVE  /\ w \in SlotT /\ w.dependents = slots[d].dependents + 1
             /\ w.state = slots[d].state /\ w.consumers = slots[d].consumers
             /\ w.dependency = slots[d].dependency
      BY <1>4 DEF SlotT
<1> HIDE DEF new, w
<1> QED
    BY <1>1, <1>2, <1>3, <1>4, ZenonT(30)

-----------------------------------------------------------------------------
\* What a step leaves of a slot, and of the slots of the other programs.
Same(s) == /\ s \in DOMAIN slots' <=> s \in DOMAIN slots
           /\ s \in DOMAIN slots => slots'[s] = slots[s]

Apart(p) == \A q \in Program, k \in Kinds : q # p => Same(<<q, k>>)

LEMMA GoodElsewhere ==
    ASSUME NEW e, Good(e), closing' = closing,
           \A k \in Kinds : Same(<<e.program, k>>)
    PROVE  Good(e)' /\ (Failed(e.program)' <=> Failed(e.program))
<1>1. "arena" \in Kinds /\ "request" \in Kinds /\ "condition" \in Kinds
      BY DEF Kinds
<1>2. Views(e.program)' = Views(e.program) /\ (Failed(e.program)' <=> Failed(e.program))
      BY <1>1, ZenonT(30) DEF Same, Views, Failed
<1>3. Whole(e)'
      BY <1>2, ZenonT(30) DEF Good, Whole
<1>4. Viewed(e.program)'
      BY <1>1, <1>2, ZenonT(30) DEF Good, Same, Viewed
<1>5. Owned(e)'
  <2>1. e.handles \subseteq Kinds
        BY FirstSize DEF Good, Whole
  <2> QED
      BY <2>1 DEF Good, Same, Owned
<1> QED
    BY <1>2, <1>3, <1>4, <1>5, ZenonT(30) DEF Good

LEMMA Quiet ==
    ASSUME OwnInv, UNCHANGED <<slots, closing, entries>>, CallInv',
           \A e \in Entries : Doing(e)'
    PROVE  OwnInv'
<1>1. Entries' = Entries
      BY DEF Entries
<1>2. \A e \in Entries : Good(e)'
      BY GoodElsewhere DEF OwnInv, Same
<1>3. SlotsInv'
      BY <1>1 DEF OwnInv, SlotsInv, Catalog!Slot
<1> QED
    BY <1>1, <1>2, <1>3 DEF OwnInv

\* A step that changes one entry and slots of its program only.
LEMMA OneChanged ==
    ASSUME LeaseInv, OwnInv, NEW e \in Entries, NEW d \in Kept,
           d.program = e.program,
           \A f : f \in Entries' <=> f = d \/ (f \in Entries /\ f # e),
           closing' = closing, slots' \in [DOMAIN slots' -> SlotT],
           DOMAIN slots' \subseteq Program \X Kinds, Apart(e.program),
           Good(d)', Doing(d)', CallInv',
           \A f \in Entries : f # e /\ Good(f)' /\ f.program # e.program
                                /\ (Failed(f.program)' <=> Failed(f.program)) => Doing(f)'
    PROVE  OwnInv'
<1>1. ASSUME NEW f \in Entries, f # e
      PROVE  /\ f.program # e.program /\ Good(f)'
             /\ (Failed(f.program)' <=> Failed(f.program))
  <2>1. f.program # e.program
        BY <1>1, EntriesOne, ZenonT(30) DEF OneEach
  <2>2. Good(f) /\ f.program \in Program
        BY DEF OwnInv, Good, Whole
  <2>3. \A k \in Kinds : Same(<<f.program, k>>)
        BY <2>1, <2>2 DEF Apart
  <2> QED
      BY <2>1, <2>2, <2>3, GoodElsewhere
<1>2. \A f \in Entries' : Good(f)' /\ Doing(f)'
      BY <1>1
<1>3. ASSUME NEW s \in DOMAIN slots'
      PROVE  s \in Program \X Kinds /\ \E f \in Entries' : f.program = s[1]
  <2>1. PICK q \in Program, k \in Kinds : s = <<q, k>>
        OBVIOUS
  <2>2. CASE q = e.program
        BY <2>1, <2>2
  <2>3. CASE q # e.program
    <3>1. s \in DOMAIN slots
          BY <2>1, <2>3 DEF Apart, Same
    <3>2. PICK f \in Entries : f.program = s[1]
          BY <3>1 DEF OwnInv, SlotsInv
    <3> QED
        BY <2>1, <2>3, <3>2
  <2> QED
      BY <2>2, <2>3
<1>4. closing' \in BOOLEAN /\ slots' \in [DOMAIN slots' -> Catalog!Slot]
      BY SlotIs DEF OwnInv, SlotsInv
<1>5. SlotsInv'
  <2>1. (Catalog!Slot)' = Catalog!Slot
        BY DEF Catalog!Slot
  <2> QED
      BY <1>3, <1>4, <2>1 DEF SlotsInv
<1> QED
    BY <1>2, <1>5 DEF OwnInv

\* The newest entry becomes d, and the entry of a program does.
NewestIs(d) ==
    /\ d.program = Head(entries).program /\ d.borrowed = Head(entries).borrowed
    /\ \A f : f \in Entries' <=> f = d \/ (f \in Entries /\ f # Head(entries))
    /\ entries' # <<>> /\ Head(entries') = d

LendingIs(d, p) ==
    /\ d.program = p /\ d.handles = entries[Place(p)].handles
    /\ d.live = entries[Place(p)].live /\ d.ready = entries[Place(p)].ready
    /\ \A f : f \in Entries' <=> f = d \/ (f \in Entries /\ f # entries[Place(p)])

Renewing(h, l, r) ==
    /\ entries # <<>> /\ h \in SUBSET Kinds /\ l \in BOOLEAN /\ r \in BOOLEAN
    /\ entries' = Renew(h, l, r)

Renewed(h, l, r) ==
    \E d \in Kept : d.handles = h /\ d.live = l /\ d.ready = r /\ NewestIs(d)

LEMMA RenewIs ==
    ASSUME LeaseInv, NEW h, NEW l, NEW r, Renewing(h, l, r) PROVE Renewed(h, l, r)
<1> USE DEF Renewing, Renewed
<1> DEFINE e == [entries[1] EXCEPT !.handles = h, !.live = l, !.ready = r]
<1>1. 1 \in DOMAIN entries /\ entries[1] \in Kept /\ Head(entries) = entries[1]
      BY Popped DEF LeaseInv
<1>2. /\ e \in Kept /\ e.program = entries[1].program
      /\ e.borrowed = entries[1].borrowed
      /\ e.handles = h /\ e.live = l /\ e.ready = r
      BY <1>1, KindsAre, Zenon DEF Kept
<1>3. entries' = [entries EXCEPT ![1] = e]
      BY Zenon DEF Renew
<1> HIDE DEF e
<1>4. /\ \A f : f \in Entries' <=> f = e \/ (f \in Entries /\ f # entries[1])
      /\ entries' # <<>> /\ Head(entries') = e
      BY <1>1, <1>2, <1>3, Replaced, Zenon
<1> QED
    BY <1>1, <1>2, <1>4, Zenon DEF NewestIs

LEMMA LendIs ==
    ASSUME LeaseInv, NEW p, Known(p), NEW n \in Nat, entries' = Lend(p, n)
    PROVE  \E d \in Kept : d.borrowed = n /\ LendingIs(d, p)
<1> DEFINE i == Place(p)
           e == [entries[i] EXCEPT !.borrowed = n]
<1>1. i \in DOMAIN entries /\ entries[i] \in Kept /\ entries[i].program = p
      BY PlaceFound DEF LeaseInv
<1>2. /\ e \in Kept /\ e.program = entries[i].program
      /\ e.borrowed = n /\ e.handles = entries[i].handles
      /\ e.live = entries[i].live /\ e.ready = entries[i].ready
      BY <1>1, Zenon DEF Kept
<1>3. entries' = [entries EXCEPT ![i] = e]
      BY Zenon DEF Lend
<1> HIDE DEF e, i
<1>4. \A f : f \in Entries' <=> f = e \/ (f \in Entries /\ f # entries[i])
      BY <1>1, <1>2, <1>3, Replaced, ZenonT(30)
<1> QED
    BY <1>1, <1>2, <1>4, ZenonT(30) DEF i, LendingIs

-----------------------------------------------------------------------------
(***************************************************************************)
(* The steps, first those that leave entries and catalog alone.            *)
(***************************************************************************)
LEMMA NothingLent ==
    ASSUME OwnInv, AllBorrowed = {}, NEW e \in Entries
    PROVE  e.borrowed = 0
<1>1. Good(e) /\ e.borrowed \in 0 .. 3
      BY DEF OwnInv, Good, Whole
<1>2. Borrowed(e) = {}
      BY DEF AllBorrowed, Entries
<1>3. e.borrowed > 0 => "arena" \in First(e.borrowed)
      BY <1>1 DEF First, Kinds
<1>4. \A s : s \in Borrowed(e) <=> \E k \in First(e.borrowed) : s = <<e.program, k>>
      BY <1>1, BorrowedIs
<1>5. e.borrowed > 0 => <<e.program, "arena">> \in Borrowed(e)
      BY <1>3, <1>4, Zenon
<1> QED
    BY <1>1, <1>2, <1>5

LEMMA JointStep ==
    ASSUME LeaseInv, OwnInv, NEW p \in Program, JointExecute(p)
    PROVE  OwnInv'
<1>1. /\ session = "open" /\ call.pc = "idle" /\ call'.program = p
      /\ call'.pc = "find" \/ (call'.pc = "evict" /\ AllBorrowed = {})
      /\ UNCHANGED <<slots, closing, entries, session>>
      BY DEF JointExecute, Caller
<1>2. CallInv'
      BY <1>1 DEF CallInv
<1>3. \A e \in Entries : Doing(e)'
      BY <1>1, NothingLent, ZenonT(30) DEF OwnInv, Doing, Failed
<1> QED
    BY <1>1, <1>2, <1>3, Quiet, ZenonT(30)

LEMMA EvictedStep ==
    ASSUME LeaseInv, OwnInv, Evicted
    PROVE  OwnInv'
<1>1. /\ call.pc = "evict" /\ entries = <<>> /\ call'.program = call.program
      /\ call'.pc = "find" /\ UNCHANGED <<slots, closing, entries, session>>
      BY DEF Evicted, At
<1>2. CallInv'
      BY <1>1 DEF CallInv, OwnInv
<1>3. \A e \in Entries : Doing(e)'
      BY <1>1 DEF Entries
<1> QED
    BY <1>1, <1>2, <1>3, Quiet, ZenonT(30)

\* The entry that is found is ready: of two entries of its program, none.
LEMMA FindStep ==
    ASSUME LeaseInv, OwnInv, Find
    PROVE  OwnInv'
<1>1. /\ call.pc = "find" /\ UNCHANGED <<slots, closing, entries, session>>
      BY Zenon DEF Find
<1>2. CASE Return
  <2>1. call'.pc = "idle"
        BY <1>2 DEF Return, NoCall
  <2>2. CallInv'
        BY <1>1, <2>1 DEF CallInv, OwnInv
  <2>3. \A e \in Entries : Doing(e)'
        BY <1>1, <2>1, ZenonT(30) DEF OwnInv, Doing, Failed
  <2> QED
      BY <1>1, <2>2, <2>3, Quiet, ZenonT(30)
<1>3. CASE /\ ~Blocked /\ Known(call.program)
           /\ At(IF entries[Place(call.program)].borrowed = 0 THEN "borrow" ELSE "run")
  <2> DEFINE i == Place(call.program)
  <2>1. i \in DOMAIN entries /\ entries[i].program = call.program /\ entries[i] \in Entries
        BY <1>3, PlaceFound DEF Entries
  <2>2. entries[i].ready
    <3>1. SUFFICES ASSUME ~entries[i].ready PROVE FALSE
          OBVIOUS
    <3>2. PICK j \in 1 .. i - 1 : entries[j].program = call.program
          BY <1>3, <2>1, <3>1, ZenonT(30) DEF Blocked
    <3>3. j \in DOMAIN entries /\ j # i
          BY <2>1, <3>2 DEF LeaseInv
    <3> QED
        BY <2>1, <3>2, <3>3, ZenonT(30) DEF LeaseInv
  <2>3. /\ call'.program = call.program
        /\ call'.pc = IF entries[i].borrowed = 0 THEN "borrow" ELSE "run"
        BY <1>3, ZenonT(30) DEF At
  <2>4. \A e \in Entries : e.program = call.program => e = entries[i]
        BY <2>1, EntriesOne DEF OneEach
  <2> HIDE DEF i
  <2>5. CallInv'
        BY <1>1, <2>3 DEF CallInv, OwnInv
  <2>6. \A e \in Entries : Doing(e)'
        BY <1>1, <2>1, <2>2, <2>3, <2>4, ZenonT(30) DEF OwnInv, Doing, Failed
  <2> QED
      BY <1>1, <2>5, <2>6, Quiet
<1> QED
    BY <1>2, <1>3 DEF Find

LEMMA LentStep ==
    ASSUME LeaseInv, OwnInv, Lent
    PROVE  OwnInv'
<1> DEFINE e == entries[Place(call.program)]
<1>1. /\ call.pc = "borrow" /\ UNCHANGED <<slots, closing, entries, session>>
      /\ e.borrowed > 0 /\ e.borrowed = Len(Handles(e))
      /\ call'.pc = "run" /\ call'.program = call.program
      BY ZenonT(30) DEF Lent, At
<1>2. Known(call.program)
      BY <1>1 DEF LeaseInv
<1>3. e \in Entries /\ e.program = call.program
      BY <1>2, PlaceIsEntry, ZenonT(30)
<1> HIDE DEF e
<1>4. e.borrowed = 3
  <2>1. e.handles = First(3)
        BY <1>1, <1>3 DEF OwnInv, Good, Whole
  <2>2. 3 \in 0 .. 3
        OBVIOUS
  <2>3. Len(Handles(e)) = 3
        BY <2>1, <2>2, HandlesAre, Zenon
  <2> QED
      BY <1>1, <2>3, Zenon
<1>5. \A f \in Entries : f.program = call.program => f = e
      BY <1>3, EntriesOne, ZenonT(30) DEF OneEach
<1>6. CallInv'
      BY <1>1 DEF CallInv, OwnInv
<1>7. \A f \in Entries : Doing(f)'
      BY <1>1, <1>4, <1>5, ZenonT(30) DEF OwnInv, Doing, Failed
<1> QED
    BY <1>1, <1>6, <1>7, Quiet, ZenonT(30)

\* The calls on the transaction, and a session that is closed.
LEMMA StillStep ==
    ASSUME OwnInv, UNCHANGED sessionVars
    PROVE  OwnInv'
<1>1. UNCHANGED <<slots, closing, entries, session, call>>
      BY ZenonT(30) DEF sessionVars
<1>2. CallInv'
      BY <1>1 DEF CallInv, OwnInv
<1>3. \A f \in Entries : Doing(f)'
      BY <1>1, Zenon DEF OwnInv, Doing, Failed
<1> QED
    BY <1>1, <1>2, <1>3, Quiet, ZenonT(30)

-----------------------------------------------------------------------------
\* The resource an eviction takes next is the last one the entry has.
LEMMA EvictNextIs ==
    ASSUME NEW n \in 1 .. 3, Head(entries).handles = First(n)
    PROVE  EvictNext = Kind[n]
<1>1. n \in 0 .. 3 /\ n \in 1 .. n
      OBVIOUS
<1>2. /\ Len(Handles(Head(entries))) = n
      /\ \A j \in 1 .. n : Handles(Head(entries))[j] = Kind[j]
      BY <1>1, HandlesAre, ZenonT(30)
<1> QED
    BY <1>1, <1>2, Zenon DEF EvictNext

\* One resource of a program is released: the other programs keep theirs, an
\* arena goes after its views, and a view that goes is counted.
LEMMA ReleaseViews ==
    ASSUME NEW p \in Program, Viewed(p), NEW j \in Kinds, Catalog!Release(<<p, j>>),
           slots \in [DOMAIN slots -> SlotT], DOMAIN slots \subseteq Program \X Kinds
    PROVE  /\ closing' = closing /\ slots' \in [DOMAIN slots' -> SlotT]
           /\ DOMAIN slots' \subseteq Program \X Kinds /\ Apart(p) /\ Viewed(p)'
           /\ \A k \in Kinds :
                 /\ <<p, k>> \in DOMAIN slots' <=> <<p, k>> \in DOMAIN slots /\ k # j
                 /\ <<p, k>> \in DOMAIN slots' =>
                       /\ j # "arena"
                       /\ slots'[<<p, k>>].consumers = slots[<<p, k>>].consumers
<1> DEFINE key == <<p, j>>
           arena == <<p, "arena">>
<1>1. /\ closing' = closing /\ key \in DOMAIN slots /\ slots[key].dependents = 0
      /\ DOMAIN slots' = DOMAIN slots \ {key}
      /\ slots' \in [DOMAIN slots \ {key} -> SlotT]
      /\ \A t \in DOMAIN slots : t # key /\ t # slots[key].dependency =>
            slots'[t] = slots[t]
      /\ \A t \in DOMAIN slots : t # key /\ t = slots[key].dependency =>
            /\ slots'[t].state = slots[t].state
            /\ slots'[t].consumers = slots[t].consumers
            /\ slots'[t].dependency = slots[t].dependency
            /\ slots'[t].dependents = IF slots[t].dependents > 0
                                      THEN slots[t].dependents - 1 ELSE 0
      BY Releases, ZenonT(30)
<1>2. CASE j = "arena"
  <2>1. slots[key].dependency = None /\ Views(p) = 0
        BY <1>1, <1>2, Zenon DEF Viewed
  <2>2. <<p, "request">> \notin DOMAIN slots /\ <<p, "condition">> \notin DOMAIN slots
        BY <2>1 DEF Views
  <2>3. \A t \in DOMAIN slots' : slots'[t] = slots[t]
    <3>1. None \notin DOMAIN slots
          BY NoneAssumption, KindsAre, Zenon
    <3> QED
        BY <1>1, <2>1, <3>1, ZenonT(30)
  <2>4. Apart(p)
        BY <1>1, <2>3 DEF Apart, Same
  <2>5. Viewed(p)'
    <3>1. arena \notin DOMAIN slots' /\ Failed(p)' = FALSE
          BY <1>1, <1>2 DEF Failed
    <3> QED
        BY <1>1, <2>2, <3>1, ZenonT(30) DEF Viewed
  <2> QED
      BY <1>1, <1>2, <2>2, <2>4, <2>5, ZenonT(30) DEF Kinds
<1>3. CASE j = "request" \/ j = "condition"
  <2>1. /\ slots[key].dependency = arena /\ arena \in DOMAIN slots /\ arena # key
        /\ slots[arena].dependency = None /\ slots[arena].dependents = Views(p)
        BY <1>1, <1>3, ZenonT(30) DEF Viewed
  <2>2. Views(p)' = Views(p) - 1 /\ Views(p) > 0
        BY <1>1, <1>3 DEF Views
  <2>3. /\ slots'[arena].state = slots[arena].state
        /\ slots'[arena].consumers = slots[arena].consumers
        /\ slots'[arena].dependency = None /\ slots'[arena].dependents = Views(p)'
    <3>1. slots'[arena].dependents = IF slots[arena].dependents > 0
                                     THEN slots[arena].dependents - 1 ELSE 0
          BY <1>1, <2>1, ZenonT(30)
    <3>2. slots'[arena].dependents = Views(p)'
          BY <2>1, <2>2, <3>1, ZenonT(30)
    <3> QED
        BY <1>1, <2>1, <3>2, Zenon
  <2>4. \A t \in DOMAIN slots' : t # arena => slots'[t] = slots[t]
        BY <1>1, <2>1, ZenonT(30)
  <2>5. Apart(p)
        BY <1>1, <2>4 DEF Apart, Same
  <2>6. Viewed(p)'
    <3>1. ~Failed(p)
          BY <2>2 DEF Viewed
    <3>2. ~Failed(p)'
          BY <2>1, <2>3, <3>1, ZenonT(30) DEF Failed
    <3>3. ASSUME NEW k \in {"request", "condition"}, <<p, k>> \in DOMAIN slots'
          PROVE  <<p, k>> \in DOMAIN slots /\ slots'[<<p, k>>] = slots[<<p, k>>]
          BY <3>3, <1>1, <2>4, ZenonT(30)
    <3>4. arena \in DOMAIN slots'
          BY <1>1, <2>1, Zenon
    <3> QED
        BY <2>3, <3>2, <3>3, <3>4, ZenonT(30) DEF Viewed
  <2> QED
      BY <1>1, <1>3, <2>3, <2>4, <2>5, <2>6, ZenonT(30)
<1> QED
    BY <1>2, <1>3 DEF Kinds

\* What the release leaves of the entry, which loses the resource with the
\* eviction and keeps it, and only its program goes, when the catalog closes.
LEMMA ReleaseGood ==
    ASSUME NEW e, Good(e), e.borrowed = 0, NEW p, p = e.program, NEW j \in Kinds,
           Catalog!Release(<<p, j>>),
           slots \in [DOMAIN slots -> SlotT], DOMAIN slots \subseteq Program \X Kinds,
           NEW d \in Kept, d.program = p, d.borrowed = 0,
           d.handles \in {First(n) : n \in 0 .. 3},
           d.handles = e.handles \ {j} \/ (closing /\ d.handles = e.handles),
           d.live <=> e.live /\ j # "arena", d.ready <=> e.ready /\ j # "arena"
    PROVE  Good(d)'
<1>1. /\ Whole(e) /\ Owned(e) /\ Viewed(p) /\ p \in Program
      BY Zenon DEF Good, Whole
<1>2. /\ closing' = closing /\ Viewed(p)'
      /\ \A k \in Kinds :
            /\ <<p, k>> \in DOMAIN slots' <=> <<p, k>> \in DOMAIN slots /\ k # j
            /\ <<p, k>> \in DOMAIN slots' =>
                  /\ j # "arena"
                  /\ slots'[<<p, k>>].consumers = slots[<<p, k>>].consumers
      BY <1>1, ReleaseViews, ZenonT(30)
<1>3. First(0) = {}
      BY DEF First
<1>4. /\ \A k \in Kinds : <<p, k>> \in DOMAIN slots =>
            k \in e.handles /\ e.live /\ slots[<<p, k>>].consumers = 0
      /\ ~closing => \A k \in e.handles : <<p, k>> \in DOMAIN slots
      BY <1>1, <1>3, ZenonT(30) DEF Owned
<1>5. /\ \A k \in Kinds : <<p, k>> \in DOMAIN slots' =>
            k \in d.handles /\ d.live /\ slots'[<<p, k>>].consumers = 0
      /\ ~closing' => \A k \in d.handles : <<p, k>> \in DOMAIN slots'
  <2>1. e.handles \subseteq Kinds
        BY <1>1, FirstSize DEF Whole
  <2> QED
      BY <1>2, <1>4, <2>1, ZenonT(30)
<1>6. Owned(d)'
      BY <1>3, <1>5, ZenonT(30) DEF Owned
<1>7. Whole(d)'
  <2>1. d.ready => d.live /\ "arena" \in d.handles
        BY <1>1, Zenon DEF Whole
  <2> QED
      BY <1>1, <2>1 DEF Whole
<1> QED
    BY <1>2, <1>6, <1>7, ZenonT(30) DEF Good

\* An arena whose release fails stays, without views.
LEMMA FailGood ==
    ASSUME NEW e, Good(e), e.borrowed = 0, NEW p, p = e.program,
           Catalog!ReleaseFails(<<p, "arena">>),
           slots \in [DOMAIN slots -> SlotT], DOMAIN slots \subseteq Program \X Kinds
    PROVE  /\ closing' = closing /\ slots' \in [DOMAIN slots' -> SlotT]
           /\ DOMAIN slots' \subseteq Program \X Kinds /\ Apart(p)
           /\ Good(e)' /\ Failed(p)'
<1> DEFINE key == <<p, "arena">>
<1>1. /\ Whole(e) /\ Owned(e) /\ Viewed(p) /\ p \in Program
      BY Zenon DEF Good, Whole
<1>2. /\ closing' = closing /\ key \in DOMAIN slots
      /\ slots[key].consumers = 0 /\ slots[key].dependents = 0
      /\ DOMAIN slots' = DOMAIN slots /\ slots' \in [DOMAIN slots -> SlotT]
      /\ \A t \in DOMAIN slots : t # key => slots'[t] = slots[t]
      /\ slots'[key].state = "FAILED"
      /\ slots'[key].consumers = 0 /\ slots'[key].dependents = 0
      /\ slots'[key].dependency = slots[key].dependency
      BY Fails, Zenon
<1>3. Apart(p)
      BY <1>2 DEF Apart, Same
<1>4. Failed(p)' /\ slots[key].dependency = None /\ Views(p) = 0
      BY <1>1, <1>2, Zenon DEF Viewed, Failed
<1>5. <<p, "request">> \notin DOMAIN slots /\ <<p, "condition">> \notin DOMAIN slots
      BY <1>4 DEF Views
<1>6. Views(p)' = 0
      BY <1>2, <1>5 DEF Views
<1>7. Viewed(p)'
      BY <1>2, <1>4, <1>5, <1>6, ZenonT(30) DEF Viewed
<1>8. Whole(e)'
      BY <1>1 DEF Whole
<1>9. Owned(e)'
  <2>1. \A k \in Kinds : <<p, k>> \in DOMAIN slots =>
           slots'[<<p, k>>].consumers = slots[<<p, k>>].consumers
        BY <1>2
  <2> QED
      BY <1>1, <1>2, <2>1, ZenonT(30) DEF Owned
<1> QED
    BY <1>2, <1>3, <1>4, <1>7, <1>8, <1>9, ZenonT(30) DEF Good

LEMMA SlotsTyped ==
    ASSUME OwnInv
    PROVE  slots \in [DOMAIN slots -> SlotT] /\ DOMAIN slots \subseteq Program \X Kinds
BY SlotIs, ZenonT(30) DEF OwnInv, SlotsInv

LEMMA FirstBefore ==
    ASSUME NEW n \in 1 .. 3
    PROVE  /\ First(n) \ {Kind[n]} = First(n - 1) /\ Kind[n] \in First(n)
           /\ Kind[n] \in Kinds /\ (Kind[n] = "arena" <=> n = 1)
           /\ First(n - 1) \in {First(m) : m \in 0 .. 3} /\ First(n - 1) \in SUBSET Kinds
BY KindsAre DEF First, Kinds

\* The entry the eviction works on has nothing borrowed.
LEMMA EvictedIsFree ==
    ASSUME OwnInv, call.pc \in {"evict", "undo"}, NEW e \in Entries, e = Head(entries)
    PROVE  Good(e) /\ Doing(e) /\ e.borrowed = 0 /\ e \in Kept /\ e.program \in Program
<1>1. Good(e) /\ Doing(e) /\ e \in Kept /\ e.program \in Program
      BY Zenon DEF OwnInv, Good, Whole
<1>2. CASE call.pc = "evict"
      BY <1>1, <1>2, Zenon DEF Doing
<1>3. CASE call.pc = "undo"
  <2>1. call.pc \in {"register", "undo"}
        BY <1>3
  <2> QED
      BY <1>1, <2>1, Zenon DEF OwnInv, CallInv
<1> QED
    BY <1>1, <1>2, <1>3

\* One resource of the newest entry is released.
LEMMA EvictReleaseStep ==
    ASSUME LeaseInv, OwnInv, call.pc \in {"evict", "undo"}, entries # <<>>,
           NEW n \in 1 .. 3, NEW p, NEW e \in Entries, e = Head(entries),
           e.handles = First(n), e.program = p, Catalog!Release(<<p, Kind[n]>>),
           NEW d \in Kept, NewestIs(d), d.handles = First(n - 1),
           d.live <=> e.live /\ n # 1, d.ready <=> e.ready /\ n # 1,
           UNCHANGED <<call, session>>
    PROVE  OwnInv'
<1>1. /\ Good(e) /\ Doing(e) /\ e.borrowed = 0 /\ p \in Program /\ Viewed(p)
      /\ slots \in [DOMAIN slots -> SlotT] /\ DOMAIN slots \subseteq Program \X Kinds
      BY EvictedIsFree, SlotsTyped, Zenon DEF Good
<1>2. /\ First(n) \ {Kind[n]} = First(n - 1) /\ Kind[n] \in Kinds
      /\ (Kind[n] = "arena" <=> n = 1) /\ First(n - 1) \in {First(m) : m \in 0 .. 3}
      BY FirstBefore, Zenon
<1>3. /\ d.program = p /\ d.borrowed = 0
      /\ \A f : f \in Entries' <=> f = d \/ (f \in Entries /\ f # e)
      /\ entries' # <<>> /\ Head(entries') = d
      BY <1>1, Zenon DEF NewestIs
<1>4. Good(d)'
      BY <1>1, <1>2, <1>3, ReleaseGood, ZenonT(30)
<1>5. /\ closing' = closing /\ slots' \in [DOMAIN slots' -> SlotT]
      /\ DOMAIN slots' \subseteq Program \X Kinds /\ Apart(p)
      BY <1>1, <1>2, ReleaseViews, Zenon
<1>6. CallInv'
      BY <1>3, <1>5, ZenonT(30) DEF OwnInv, CallInv
<1>7. Doing(d)'
      BY <1>3, Zenon DEF Doing
<1>8. ASSUME NEW f \in Entries, f # e, Failed(f.program)' <=> Failed(f.program)
      PROVE  Doing(f)'
      BY <1>5, <1>8, ZenonT(30) DEF OwnInv, Doing
<1> QED
    BY <1>3, <1>4, <1>5, <1>6, <1>7, <1>8, OneChanged, ZenonT(30)

\* The release of an arena fails: the entry stays, without views.
LEMMA EvictFailsStep ==
    ASSUME LeaseInv, OwnInv, call.pc \in {"evict", "undo"}, entries # <<>>,
           NEW p, NEW e \in Entries, e = Head(entries),
           e.handles = First(1), e.program = p, Catalog!ReleaseFails(<<p, "arena">>),
           call'.pc = "idle", UNCHANGED <<entries, session>>
    PROVE  OwnInv'
<1>1. /\ Good(e) /\ e.borrowed = 0 /\ e \in Kept
      /\ slots \in [DOMAIN slots -> SlotT] /\ DOMAIN slots \subseteq Program \X Kinds
      BY EvictedIsFree, SlotsTyped, Zenon
<1>2. /\ closing' = closing /\ slots' \in [DOMAIN slots' -> SlotT]
      /\ DOMAIN slots' \subseteq Program \X Kinds /\ Apart(p)
      /\ Good(e)' /\ Failed(p)'
      BY <1>1, FailGood, Zenon
<1>3. CallInv'
      BY <1>2, Zenon DEF OwnInv, CallInv
<1>4. Doing(e)'
      BY <1>1, <1>2, Zenon DEF Doing
<1>5. ASSUME NEW f \in Entries, f # e, Failed(f.program)' <=> Failed(f.program)
      PROVE  Doing(f)'
      BY <1>2, <1>5, ZenonT(30) DEF OwnInv, Doing
<1>6. \A f : f \in Entries' <=> f = e \/ (f \in Entries /\ f # e)
      BY Zenon DEF Entries
<1> QED
    BY <1>1, <1>2, <1>3, <1>4, <1>5, <1>6, OneChanged, ZenonT(30)

\* A catalog that is not closing refuses no release of an eviction.
LEMMA EvictRefusedStep ==
    ASSUME LeaseInv, OwnInv, call.pc \in {"evict", "undo"}, entries # <<>>,
           NEW n \in 1 .. 3, NEW p, NEW e \in Entries, e = Head(entries),
           e.handles = First(n), e.program = p, ~Catalog!MayRelease(<<p, Kind[n]>>),
           call'.pc = "idle", UNCHANGED <<slots, closing, entries, session>>
    PROVE  OwnInv'
<1>1. Doing(e) /\ e.borrowed = 0 /\ Owned(e) /\ Viewed(p)
      BY EvictedIsFree, Zenon DEF Good
<1>2. closing
  <2>1. Kind[n] \in First(n) /\ Kind[n] \in Kinds /\ (Kind[n] = "arena" <=> n = 1)
        BY FirstBefore, Zenon
  <2>2. SUFFICES ASSUME ~closing PROVE FALSE
        OBVIOUS
  <2>3. <<p, Kind[n]>> \in DOMAIN slots /\ slots[<<p, Kind[n]>>].consumers = 0
    <3>1. First(0) = {}
          BY ZenonT(30) DEF First
    <3> QED
        BY <1>1, <2>1, <2>2, <3>1, Zenon DEF Owned
  <2>4. slots[<<p, Kind[n]>>].dependents = 0
    <3>1. CASE n # 1
      <4>1. Kind[n] \in {"request", "condition"}
            BY <2>1, <3>1, Zenon DEF Kinds
      <4> QED
          BY <1>1, <2>3, <4>1, ZenonT(30) DEF Viewed
    <3>2. CASE n = 1
      <4>1. "request" \notin First(n) /\ "condition" \notin First(n)
            BY <3>2 DEF First
      <4>2. <<p, "request">> \notin DOMAIN slots /\ <<p, "condition">> \notin DOMAIN slots
            BY <1>1, <4>1, ZenonT(30) DEF Owned, Kinds
      <4>3. Views(p) = 0
            BY <4>2 DEF Views
      <4> QED
          BY <1>1, <2>1, <2>3, <3>2, <4>3, ZenonT(30) DEF Viewed
    <3> QED
        BY <3>1, <3>2, ZenonT(30)
  <2> QED
      BY <2>3, <2>4, Zenon DEF Catalog!MayRelease, Catalog!Present
<1>3. CallInv'
      BY Zenon DEF OwnInv, CallInv
<1>4. \A f \in Entries : Doing(f)'
  <2>1. \A f \in Entries : Doing(f) /\ (Failed(f.program)' <=> Failed(f.program))
        BY ZenonT(30) DEF OwnInv, Failed
  <2> QED
      BY <1>2, <2>1, ZenonT(30) DEF Doing
<1> QED
    BY <1>3, <1>4, Quiet, ZenonT(30)

LEMMA EvictHandleStep ==
    ASSUME LeaseInv, OwnInv, EvictHandle
    PROVE  OwnInv'
<1>1. /\ call.pc \in {"evict", "undo"} /\ entries # <<>> /\ Head(entries).handles # {}
      /\ UNCHANGED session
      BY Zenon DEF EvictHandle
<1>2. PICK e \in Entries : e = Head(entries)
      BY <1>1, HeadIsEntry, ZenonT(30) DEF LeaseInv
<1>3. PICK p : p = e.program
      OBVIOUS
<1>4. PICK n \in 1 .. 3 : e.handles = First(n)
      BY <1>1, <1>2, SomeHandles, ZenonT(30) DEF OwnInv, Good, Whole
<1>5. EvictNext = Kind[n]
      BY <1>2, <1>4, EvictNextIs, ZenonT(30)
<1>6. /\ Kind[n] = "arena" <=> n = 1
      /\ First(n) \ {Kind[n]} = First(n - 1) /\ First(n - 1) \in SUBSET Kinds
      BY FirstBefore, Zenon
<1>7. \/ /\ Catalog!Release(<<p, Kind[n]>>) /\ UNCHANGED call
         /\ entries' = Renew(e.handles \ {Kind[n]}, e.live /\ Kind[n] # "arena",
                             e.ready /\ Kind[n] # "arena")
      \/ /\ Kind[n] = "arena" /\ Catalog!ReleaseFails(<<p, Kind[n]>>)
         /\ Return /\ UNCHANGED entries
      \/ /\ ~Catalog!MayRelease(<<p, Kind[n]>>)
         /\ Return /\ UNCHANGED <<slots, closing, entries>>
      BY <1>2, <1>3, <1>5, ZenonT(30) DEF EvictHandle
<1>8. CASE /\ Catalog!Release(<<p, Kind[n]>>) /\ UNCHANGED call
           /\ entries' = Renew(e.handles \ {Kind[n]}, e.live /\ Kind[n] # "arena",
                               e.ready /\ Kind[n] # "arena")
  <2>1. PICK l, r : /\ l = (e.live /\ Kind[n] # "arena")
                    /\ r = (e.ready /\ Kind[n] # "arena")
        BY Zenon
  <2>2. l \in BOOLEAN /\ r \in BOOLEAN
        BY <2>1, Zenon
  <2>3. entries' = Renew(First(n - 1), l, r)
        BY <1>4, <1>6, <1>8, <2>1, ZenonT(30)
  <2>4. PICK d \in Kept : d.handles = First(n - 1) /\ d.live = l /\ d.ready = r
                          /\ NewestIs(d)
    <3>1. Renewing(First(n - 1), l, r)
          BY <1>1, <1>6, <2>2, <2>3, Zenon DEF Renewing
    <3>2. Renewed(First(n - 1), l, r)
          BY <3>1, RenewIs, Zenon
    <3> QED
        BY <3>2, Zenon DEF Renewed
  <2>5. (d.live <=> e.live /\ n # 1) /\ (d.ready <=> e.ready /\ n # 1)
        BY <1>6, <2>1, <2>4, ZenonT(30)
  <2> QED
      BY <1>1, <1>2, <1>3, <1>4, <1>8, <2>4, <2>5, EvictReleaseStep, ZenonT(30)
<1>9. CASE /\ Kind[n] = "arena" /\ Catalog!ReleaseFails(<<p, Kind[n]>>)
           /\ Return /\ UNCHANGED entries
  <2>1. n = 1 /\ e.handles = First(1)
        BY <1>4, <1>6, <1>9, ZenonT(30)
  <2>2. call'.pc = "idle"
        BY <1>9 DEF Return, NoCall
  <2>3. Catalog!ReleaseFails(<<p, "arena">>)
        BY <1>9, Zenon
  <2> QED
      BY <1>1, <1>2, <1>3, <1>9, <2>1, <2>2, <2>3, EvictFailsStep, ZenonT(30)
<1>10. CASE /\ ~Catalog!MayRelease(<<p, Kind[n]>>)
            /\ Return /\ UNCHANGED <<slots, closing, entries>>
  <2>1. call'.pc = "idle"
        BY <1>10 DEF Return, NoCall
  <2> QED
      BY <1>1, <1>2, <1>3, <1>4, <1>10, <2>1, EvictRefusedStep, ZenonT(30)
<1> QED
    BY <1>7, <1>8, <1>9, <1>10, ZenonT(30)
=============================================================================
