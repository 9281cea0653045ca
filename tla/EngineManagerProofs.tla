------------------------ MODULE EngineManagerProofs ------------------------
(***************************************************************************)
(* Proofs about engine generations and their leases, for every number of   *)
(* calls, names, slots, leases, loads and sessions: the inductive          *)
(* invariant, the facts about slots, calls and counts its proof uses, the  *)
(* steps of a load, of the calls under a lease, of an unload, of model     *)
(* leases and of the host, and the theorems.                               *)
(***************************************************************************)
EXTENDS EngineManager, FiniteSetTheorems, TLAPS

EngineT == [alias : Alias \cup {NoAlias}, state : State, generation : Nat,
            active_work : Nat, model_lease_count : Nat, open : BOOLEAN,
            stopped : BOOLEAN, registry : BOOLEAN, sessions : Nat]

HeldT == [slot : Slot \cup {NoSlot}, generation : Nat]

Where == {"idle", "load", "leased", "queued", "executed", "finite", "asleep",
          "awake", "close", "publish", "tail"}

\* engine_manager_close has drained.
Ending == manager \in {"retire", "freed"}

Shape ==
    /\ engine \in [Slot -> EngineT] /\ lease \in [Lease -> HeldT]
    /\ pc \in [Client -> Where] /\ at \in [Client -> HeldT]
    /\ nextGeneration \in Nat \ {0}
    /\ Ending => closing

Slots ==
    \A s \in Slot :
        /\ engine[s].generation < nextGeneration
        /\ engine[s].alias = NoAlias => engine[s].state = "UNLOADED"
        /\ engine[s].state \in {"LOADED", "DRAINING"} => engine[s].open \/ Ending
        /\ Ending => engine[s].active_work = 0

\* Call c works on the generation it found, in one of the states S.
On(c, S) == /\ at[c].slot \in Slot
            /\ engine[at[c].slot].generation = at[c].generation
            /\ engine[at[c].slot].state \in S

Stands(c) ==
    /\ pc[c] = "load" => On(c, {"LOADING"})
    /\ Holding(c) => On(c, {"LOADED", "DRAINING"})
    /\ pc[c] \in {"asleep", "awake"} => On(c, {"DRAINING"})
    /\ pc[c] \in {"close", "publish"} => On(c, {"UNLOADING"})

\* A load or an unload is the only one at work on its slot.
Moving == {"load", "asleep", "awake", "close", "publish"}
Alone == \A c, d \in Client :
            /\ pc[c] \in Moving /\ pc[d] \in Moving
            /\ at[c].slot = at[d].slot
            => c = d

Pinned ==
    \A l \in Lease : lease[l] # Nowhere =>
        /\ lease[l].slot \in Slot
        /\ engine[lease[l].slot].generation = lease[l].generation
        /\ closing \/ engine[lease[l].slot].state = "LOADED"
        /\ engine[lease[l].slot].state # "LOADING"

EInv == /\ Shape /\ Slots /\ (\A c \in Client : Stands(c)) /\ Alone /\ Pinned
        /\ CountsExact
\* The host waits for work, or closes slots, only once it refuses new work.
Waits == (manager # "open" => closing) /\ retiring \subseteq Slot
-----------------------------------------------------------------------------
(***************************************************************************)
(* Records and functions.                                                  *)
(***************************************************************************)
\* f has the name, the state and the generation of e.
Same(e, f) == f.alias = e.alias /\ f.state = e.state /\ f.generation = e.generation

LEMMA CountedIs ==
    ASSUME engine \in [Slot -> EngineT], NEW s \in Slot, NEW w \in Nat, NEW m \in Nat
    PROVE  LET f == Counted(s, w, m) IN
           /\ f \in [Slot -> EngineT]
           /\ \A r \in Slot : r # s => f[r] = engine[r]
           /\ Same(engine[s], f[s]) /\ f[s].open = engine[s].open
           /\ f[s].active_work = w /\ f[s].model_lease_count = m
<1> DEFINE e == [engine[s] EXCEPT !.active_work = w, !.model_lease_count = m]
<1>1. /\ e \in EngineT /\ Same(engine[s], e) /\ e.open = engine[s].open
      /\ e.active_work = w /\ e.model_lease_count = m
      BY Zenon DEF EngineT, Same
<1>2. Counted(s, w, m) = [engine EXCEPT ![s] = e]
      BY DEF Counted
<1> HIDE DEF e
<1> QED
    BY <1>1, <1>2

LEMMA ClosedIs ==
    ASSUME NEW e \in EngineT, NEW f \in Closed(e)
    PROVE  /\ f \in EngineT /\ Same(e, f)
           /\ f.active_work = e.active_work
           /\ f.model_lease_count = e.model_lease_count
<1> DEFINE g == [e EXCEPT !.open = FALSE, !.registry = FALSE,
                          !.sessions = 0, !.stopped = FALSE]
<1>1. /\ g \in EngineT /\ Same(e, g) /\ g.active_work = e.active_work
      /\ g.model_lease_count = e.model_lease_count
      BY Zenon DEF EngineT, Same
<1>2. CASE f = g
      BY <1>1, <1>2
<1>3. ASSUME NEW n \in Nat, f = [g EXCEPT !.registry = TRUE, !.sessions = n]
      PROVE  /\ f \in EngineT /\ Same(e, f)
             /\ f.active_work = e.active_work
             /\ f.model_lease_count = e.model_lease_count
  <2> HIDE DEF g
  <2> QED
      BY <1>1, <1>3, Zenon DEF EngineT, Same
<1>4. e.sessions \in Nat
      BY DEF EngineT
<1>5. f = g \/ \E n \in 0 .. e.sessions :
                  f = [g EXCEPT !.registry = TRUE, !.sessions = n]
      BY Zenon DEF Closed
<1>6. 0 .. e.sessions \subseteq Nat
      BY <1>4
<1> HIDE DEF g
<1> QED
    BY <1>2, <1>3, <1>5, <1>6, Zenon

LEMMA WokenIs ==
    ASSUME NEW f \in [Client -> Where]
    PROVE  /\ Woken(f) \in [Client -> Where]
           /\ \A d \in Client : /\ f[d] # "asleep" => Woken(f)[d] = f[d]
                                /\ f[d] = "asleep" => Woken(f)[d] = "awake"
BY DEF Woken, Where

\* Sets of calls and of leases are finite.
LEMMA CallsFinite ==
    /\ \A S \in SUBSET Client : IsFiniteSet(S) /\ Cardinality(S) \in Nat
    /\ \A S \in SUBSET Lease : IsFiniteSet(S) /\ Cardinality(S) \in Nat
BY FS_Subset, FS_CardinalityType, ConstantsAssumption

LEMMA OneMore ==
    ASSUME NEW S, IsFiniteSet(S), NEW x, x \notin S
    PROVE  Cardinality(S \cup {x}) = Cardinality(S) + 1
BY FS_AddElement

LEMMA OneLess ==
    ASSUME NEW S, IsFiniteSet(S), NEW x \in S
    PROVE  Cardinality(S \ {x}) = Cardinality(S) - 1 /\ Cardinality(S) > 0
<1>1. Cardinality(S \ {x}) = Cardinality(S) - 1
      BY FS_RemoveElement
<1>2. Cardinality(S) \in Nat /\ Cardinality(S) # 0
      BY FS_EmptySet, FS_CardinalityType
<1> QED
    BY <1>1, <1>2

LEMMA SameButOne ==
    ASSUME NEW A, NEW B, NEW x, A \ {x} = B \ {x}, x \notin A, x \notin B
    PROVE  A = B
<1>1. \A y : y \in A <=> y \in A \ {x}
      OBVIOUS
<1>2. \A y : y \in B <=> y \in B \ {x}
      OBVIOUS
<1> QED
    BY <1>1, <1>2

LEMMA OneJoins ==
    ASSUME NEW A, NEW B, NEW x, B \ {x} = A \ {x}, x \notin A, x \in B,
           IsFiniteSet(A)
    PROVE  Cardinality(B) = Cardinality(A) + 1
<1>1. \A y : y \in B <=> y \in B \ {x} \/ y = x
      OBVIOUS
<1>2. \A y : y \in A <=> y \in A \ {x}
      OBVIOUS
<1>3. B = A \cup {x}
      BY <1>1, <1>2
<1> QED
    BY <1>3, OneMore

LEMMA OneLeaves ==
    ASSUME NEW A, NEW B, NEW x, B \ {x} = A \ {x}, x \in A, x \notin B,
           IsFiniteSet(A)
    PROVE  Cardinality(B) = Cardinality(A) - 1 /\ Cardinality(A) > 0
<1>1. \A y : y \in B <=> y \in B \ {x}
      OBVIOUS
<1>2. B = A \ {x}
      BY <1>1
<1> QED
    BY <1>2, OneLess

LEMMA NowhereIs == Nowhere \in HeldT /\ Nowhere.slot \notin Slot
BY DEF Nowhere, HeldT, NoSlot, Slot

LEMMA EInit == Init => EInv
<1> SUFFICES ASSUME Init PROVE EInv
    OBVIOUS
<1>1. Empty \in EngineT
      BY DEF Empty, EngineT, State
<1>2. Shape /\ Slots
      BY <1>1, NowhereIs DEF Init, Shape, Slots, Where, Ending, Empty
<1>3. (\A c \in Client : Stands(c)) /\ Alone /\ Pinned
      BY DEF Init, Stands, Holding, Alone, Moving, Pinned
<1>4. CountsExact
  <2>1. \A s \in Slot : Users(s) = {} /\ Leases(s) = {} /\ Finites(s) = {}
        BY NowhereIs DEF Init, Users, Leases, Finites, Holding
  <2>2. \A s \in Slot : engine[s].active_work = 0 /\ engine[s].model_lease_count = 0
        BY DEF Init, Empty
  <2>3. Cardinality({}) = 0
        BY FS_EmptySet
  <2> QED
      BY <2>1, <2>2, <2>3 DEF CountsExact
<1> QED
    BY <1>2, <1>3, <1>4 DEF EInv
-----------------------------------------------------------------------------
(***************************************************************************)
(* What the calls that do not take the step keep.                          *)
(***************************************************************************)
\* Call d sleeps or wakes, or does nothing.
Rests(d) == /\ at'[d] = at[d]
            /\ pc'[d] = pc[d] \/ (pc[d] = "asleep" /\ pc'[d] = "awake")

\* Slot r keeps its generation, and its state except that it may begin to drain.
Steady(r) == /\ engine'[r].generation = engine[r].generation
             /\ \/ engine'[r].state = engine[r].state
                \/ engine[r].state = "LOADED" /\ engine'[r].state = "DRAINING"

LEMMA PinnedSteady ==
    ASSUME Pinned, UNCHANGED lease, closing => closing',
           \A r \in Slot : Steady(r) /\ (engine'[r].state = engine[r].state \/ closing')
    PROVE  Pinned'
<1> SUFFICES ASSUME NEW l \in Lease, lease[l] # Nowhere
             PROVE  /\ lease[l].slot \in Slot
                    /\ engine'[lease[l].slot].generation = lease[l].generation
                    /\ closing' \/ engine'[lease[l].slot].state = "LOADED"
                    /\ engine'[lease[l].slot].state # "LOADING"
    BY Zenon DEF Pinned
<1>1. PICK r \in Slot : /\ r = lease[l].slot /\ engine[r].generation = lease[l].generation
                        /\ closing \/ engine[r].state = "LOADED"
                        /\ engine[r].state # "LOADING"
      BY Zenon DEF Pinned
<1> QED
    BY <1>1 DEF Steady

LEMMA StandKept ==
    ASSUME NEW d \in Client, Stands(d), Rests(d),
           at[d].slot \in Slot /\ pc[d] \notin {"idle", "tail"} => Steady(at[d].slot)
    PROVE  Stands(d)'
<1>1. CASE pc'[d] = pc[d]
  <2>1. pc[d] \in {"idle", "tail"} \/ at[d].slot \notin Slot \/ Steady(at[d].slot)
        OBVIOUS
  <2> QED
      BY <1>1, <2>1 DEF Stands, Rests, Steady, On, Holding
<1>2. CASE pc[d] = "asleep" /\ pc'[d] = "awake"
      BY <1>2 DEF Stands, Rests, Steady, On, Holding
<1> QED
    BY <1>1, <1>2 DEF Rests

LEMMA AloneKept ==
    ASSUME Alone, NEW c \in Client, \A d \in Client \ {c} : Rests(d),
           pc'[c] \in Moving => \A d \in Client \ {c} :
              pc[d] \in Moving => at[d].slot # at'[c].slot
    PROVE  Alone'
<1> SUFFICES ASSUME NEW a \in Client, NEW b \in Client,
                    pc'[a] \in Moving, pc'[b] \in Moving,
                    at'[a].slot = at'[b].slot, a # b
             PROVE  FALSE
    BY DEF Alone
<1>1. \A d \in Client \ {c} : at'[d] = at[d] /\ (pc'[d] \in Moving => pc[d] \in Moving)
      BY DEF Rests, Moving
<1> QED
    BY <1>1 DEF Alone

\* A call that rests is counted, or not, as before.
LEMMA UserKept ==
    ASSUME NEW d \in Client, Rests(d), NEW r
    PROVE  /\ d \in Users(r)' <=> d \in Users(r)
           /\ d \in Finites(r)' <=> d \in Finites(r)
BY DEF Rests, Users, Finites, Holding

\* The counters of every slot but s, and of s, after a step.
LEMMA CountsKept ==
    ASSUME CountsExact, NEW s \in Slot,
           \A r \in Slot : r # s =>
              /\ engine'[r].active_work = engine[r].active_work
              /\ engine'[r].model_lease_count = engine[r].model_lease_count
              /\ Users(r)' = Users(r) /\ Leases(r)' = Leases(r)
              /\ Finites(r)' = Finites(r),
           engine'[s].active_work = Cardinality(Users(s)'),
           engine'[s].model_lease_count =
              Cardinality(Leases(s)') + Cardinality(Finites(s)')
    PROVE  CountsExact'
BY DEF CountsExact

LEMMA CountsSame ==
    ASSUME CountsExact,
           \A r \in Slot :
              /\ engine'[r].active_work = engine[r].active_work
              /\ engine'[r].model_lease_count = engine[r].model_lease_count
              /\ Users(r)' = Users(r) /\ Leases(r)' = Leases(r)
              /\ Finites(r)' = Finites(r)
    PROVE  CountsExact'
BY DEF CountsExact

\* The sets counted, when only call c moves.
LEMMA UsersKept ==
    ASSUME NEW c \in Client, \A d \in Client \ {c} : Rests(d), NEW r
    PROVE  /\ Users(r)' \ {c} = Users(r) \ {c}
           /\ Finites(r)' \ {c} = Finites(r) \ {c}
<1>1. /\ Users(r) \subseteq Client /\ Users(r)' \subseteq Client
      /\ Finites(r) \subseteq Client /\ Finites(r)' \subseteq Client
      BY DEF Users, Finites
<1>2. \A d \in Client \ {c} : /\ d \in Users(r)' <=> d \in Users(r)
                              /\ d \in Finites(r)' <=> d \in Finites(r)
      BY UserKept
<1> QED
    BY <1>1, <1>2

LEMMA UsersFinite ==
    ASSUME NEW r
    PROVE  /\ IsFiniteSet(Users(r)) /\ Cardinality(Users(r)) \in Nat
           /\ IsFiniteSet(Finites(r)) /\ Cardinality(Finites(r)) \in Nat
           /\ IsFiniteSet(Leases(r)) /\ Cardinality(Leases(r)) \in Nat
<1>1. Users(r) \in SUBSET Client /\ Finites(r) \in SUBSET Client
      /\ Leases(r) \in SUBSET Lease
      BY DEF Users, Finites, Leases
<1> QED
    BY <1>1, CallsFinite

\* Nobody is counted where a counter is zero, and the other way round.
LEMMA NoUsers ==
    ASSUME NEW r
    PROVE  /\ Cardinality(Users(r)) = 0 <=> Users(r) = {}
           /\ Cardinality(Finites(r)) = 0 <=> Finites(r) = {}
           /\ Cardinality(Leases(r)) = 0 <=> Leases(r) = {}
BY UsersFinite, FS_EmptySet

LEMMA UpdateIs ==
    ASSUME engine \in [Slot -> EngineT], NEW s \in Slot, NEW e \in EngineT,
           engine' = [engine EXCEPT ![s] = e]
    PROVE  /\ engine' \in [Slot -> EngineT] /\ engine'[s] = e
           /\ \A r \in Slot : r # s => engine'[r] = engine[r]
OBVIOUS

\* Call c goes to w, and the others rest.
LEMMA Moved ==
    ASSUME Shape, NEW c \in Client, NEW w \in Where, NEW h \in HeldT,
           \/ pc' = [pc EXCEPT ![c] = w]
           \/ w # "asleep" /\ pc' = Woken([pc EXCEPT ![c] = w]),
           at' = [at EXCEPT ![c] = h]
    PROVE  /\ pc' \in [Client -> Where] /\ pc'[c] = w
           /\ at' \in [Client -> HeldT] /\ at'[c] = h
           /\ \A d \in Client \ {c} : Rests(d)
<1> DEFINE f == [pc EXCEPT ![c] = w]
<1>1. f \in [Client -> Where] /\ f[c] = w /\ \A d \in Client \ {c} : f[d] = pc[d]
      BY DEF Shape
<1>2. /\ at' \in [Client -> HeldT] /\ at'[c] = h
      /\ \A d \in Client \ {c} : at'[d] = at[d]
      BY DEF Shape
<1>3. CASE pc' = f
      BY <1>1, <1>2, <1>3 DEF Rests
<1>4. CASE w # "asleep" /\ pc' = Woken(f)
  <2> HIDE DEF f
  <2>1. /\ pc' \in [Client -> Where]
        /\ \A d \in Client : /\ f[d] # "asleep" => pc'[d] = f[d]
                             /\ f[d] = "asleep" => pc'[d] = "awake"
        BY <1>1, <1>4, WokenIs
  <2> QED
      BY <1>1, <1>2, <1>4, <2>1 DEF Rests
<1> QED
    BY <1>3, <1>4

\* engine_find returns slots.
LEMMA FindIs == \A a : /\ Find(a) \subseteq Slot
                      /\ \A s \in Find(a) : engine[s].alias = a
BY DEF Find, Lowest

LEMMA BroadcastIs == (Broadcast \/ UNCHANGED manager) => Ending' = Ending
BY DEF Broadcast, Ending

\* One call c works on one slot s.
LEMMA CallWorks ==
    ASSUME EInv, NEW c \in Client, NEW s \in Slot,
           engine' \in [Slot -> EngineT], pc' \in [Client -> Where],
           at' \in [Client -> HeldT], UNCHANGED <<lease, closing>>,
           Ending' = Ending,
           nextGeneration' \in Nat, nextGeneration' >= nextGeneration,
           \A r \in Slot : r # s => engine'[r] = engine[r],
           \A d \in Client \ {c} : Rests(d),
           engine'[s].generation < nextGeneration',
           engine'[s].alias = NoAlias => engine'[s].state = "UNLOADED",
           engine'[s].state \in {"LOADED", "DRAINING"} => engine'[s].open \/ Ending,
           Ending => engine'[s].active_work = 0,
           \/ Steady(s)
           \/ \A d \in Client \ {c} : at[d].slot = s => pc[d] \in {"idle", "tail"},
           Stands(c)',
           pc'[c] \in Moving => \A d \in Client \ {c} :
              pc[d] \in Moving => at[d].slot # at'[c].slot,
           \A l \in Lease : lease[l].slot = s =>
              /\ engine'[s].generation = engine[s].generation
              /\ engine'[s].state = engine[s].state \/ closing
              /\ engine'[s].state # "LOADING",
           \A r \in Slot : r # s => c \notin Users(r) /\ c \notin Users(r)',
           engine'[s].active_work = Cardinality(Users(s)'),
           engine'[s].model_lease_count =
              Cardinality(Leases(s)) + Cardinality(Finites(s)')
    PROVE  EInv'
<1>0. Shape /\ Slots /\ (\A d \in Client : Stands(d)) /\ Alone /\ Pinned /\ CountsExact
      BY DEF EInv
<1>1. Shape'
      BY <1>0 DEF Shape
<1>2. Slots'
  <2> SUFFICES ASSUME NEW r \in Slot
               PROVE  /\ engine'[r].generation < nextGeneration'
                      /\ engine'[r].alias = NoAlias => engine'[r].state = "UNLOADED"
                      /\ engine'[r].state \in {"LOADED", "DRAINING"} =>
                            engine'[r].open \/ Ending
                      /\ Ending => engine'[r].active_work = 0
      BY DEF Slots
  <2>1. CASE r = s
        BY <2>1
  <2>2. CASE r # s
    <3>1. engine[r].generation \in Nat /\ nextGeneration \in Nat
          BY <1>0 DEF Shape, EngineT
    <3>2. engine[r].generation < nextGeneration /\ engine'[r] = engine[r]
          BY <1>0, <2>2 DEF Slots
    <3>3. engine'[r].generation < nextGeneration'
          BY <3>1, <3>2
    <3> QED
        BY <1>0, <3>2, <3>3 DEF Slots
  <2> QED
      BY <2>1, <2>2
<1>3. ASSUME NEW d \in Client PROVE Stands(d)'
  <2>1. CASE d = c
        BY <2>1
  <2>2. CASE d # c
    <3>1. \A r \in Slot : r # s => Steady(r)
          BY DEF Steady
    <3> QED
        BY <1>0, <2>2, <3>1, StandKept, ZenonT(30)
  <2> QED
      BY <2>1, <2>2
<1>4. Alone'
      BY <1>0, AloneKept
<1>5. Pinned'
  <2> SUFFICES ASSUME NEW l \in Lease, lease[l] # Nowhere
               PROVE  /\ lease[l].slot \in Slot
                      /\ engine'[lease[l].slot].generation = lease[l].generation
                      /\ closing \/ engine'[lease[l].slot].state = "LOADED"
                      /\ engine'[lease[l].slot].state # "LOADING"
      BY DEF Pinned
  <2> QED
      BY <1>0 DEF Pinned
<1>6. CountsExact'
  <2>1. \A r \in Slot : Leases(r)' = Leases(r)
        BY DEF Leases
  <2>4. \A r \in Slot : r # s => Users(r)' = Users(r) /\ Finites(r)' = Finites(r)
    <3> SUFFICES ASSUME NEW r \in Slot, r # s
                 PROVE  Users(r)' = Users(r) /\ Finites(r)' = Finites(r)
        OBVIOUS
    <3>1. c \notin Users(r) /\ c \notin Users(r)'
          OBVIOUS
    <3>2. /\ Users(r)' \ {c} = Users(r) \ {c}
          /\ Finites(r)' \ {c} = Finites(r) \ {c}
          BY UsersKept
    <3>3. c \notin Finites(r) /\ c \notin Finites(r)'
          BY <3>1, ZenonT(30) DEF Finites, Users, Holding
    <3> QED
        BY <3>1, <3>2, <3>3, SameButOne
  <2> QED
      BY <1>0, <2>1, <2>4, CountsKept
<1> QED
    BY <1>1, <1>2, <1>3, <1>4, <1>5, <1>6 DEF EInv
-----------------------------------------------------------------------------
(***************************************************************************)
(* The steps.                                                              *)
(***************************************************************************)
LEMMA LoadReserveStep ==
    ASSUME EInv, NEW c \in Client, NEW a \in Alias, LoadReserve(c, a)
    PROVE  EInv'
<1>0. /\ Shape /\ Slots /\ (\A d \in Client : Stands(d)) /\ Pinned /\ CountsExact
      /\ engine \in [Slot -> EngineT] /\ ~closing /\ ~Ending
      BY DEF EInv, Shape, LoadReserve
<1> DEFINE e == [Empty EXCEPT !.alias = a, !.state = "LOADING",
                              !.generation = nextGeneration, !.active_work = 1]
           h(s) == [slot |-> s, generation |-> nextGeneration]
<1>1. PICK s \in Reserve(a) : /\ engine' = [engine EXCEPT ![s] = e]
                             /\ pc' = [pc EXCEPT ![c] = "load"]
                             /\ at' = [at EXCEPT ![c] = h(s)]
      BY Zenon DEF LoadReserve
<1>2. s \in Slot /\ engine[s].state \in {"UNLOADED", "FAILED"}
  <2>1. s \in Slot /\ (engine[s].state \in {"UNLOADED", "FAILED"}
                       \/ engine[s].alias = NoAlias)
        BY FindIs DEF Reserve, Lowest
  <2> QED
      BY <1>0, <2>1 DEF Slots
<1>3. /\ e \in EngineT /\ e.alias = a /\ e.state = "LOADING"
      /\ e.generation = nextGeneration /\ e.active_work = 1
      /\ e.model_lease_count = 0
      BY <1>0, Zenon DEF EngineT, Empty, State, Shape
<1>4. h(s) \in HeldT /\ h(s).slot = s /\ h(s).generation = nextGeneration
      BY <1>0, <1>2 DEF HeldT, Shape
<1> HIDE DEF e, h
<1>5. /\ engine' \in [Slot -> EngineT] /\ engine'[s] = e
      /\ \A r \in Slot : r # s => engine'[r] = engine[r]
      BY <1>0, <1>1, <1>2, <1>3, UpdateIs
<1>6. /\ pc' \in [Client -> Where] /\ pc'[c] = "load"
      /\ at' \in [Client -> HeldT] /\ at'[c] = h(s)
      /\ \A d \in Client \ {c} : Rests(d)
      BY <1>0, <1>1, <1>4, Moved, Zenon DEF Where
<1>7. \A d \in Client : at[d].slot = s => pc[d] \in {"idle", "tail"}
      BY <1>0, <1>2 DEF Stands, On, Holding, Shape, Where
<1>8. \A l \in Lease : lease[l].slot # s
      BY <1>0, <1>2, NowhereIs DEF Pinned
<1>9. UNCHANGED <<lease, closing, manager>> /\ nextGeneration' = nextGeneration + 1
      /\ pc[c] = "idle"
      BY DEF LoadReserve
<1>10. Stands(c)'
      BY <1>2, <1>3, <1>4, <1>5, <1>6 DEF Stands, On, Holding
<1>11. Users(s) = {} /\ Leases(s) = {}
      BY <1>7, <1>8 DEF Users, Leases, Holding
<1>12. Users(s)' = {c} /\ Finites(s)' = {}
  <2>1. Users(s)' \ {c} = Users(s) \ {c} /\ Finites(s)' \ {c} = Finites(s) \ {c}
        BY <1>6, UsersKept
  <2>2. c \in Users(s)' /\ c \notin Finites(s)'
        BY <1>4, <1>6 DEF Users, Finites, Holding
  <2>3. Finites(s) = {}
        BY <1>11 DEF Finites, Users, Holding
  <2>4. \A y : y \in Users(s)' => y = c
        BY <1>11, <2>1
  <2>5. \A y : y \notin Finites(s)'
        BY <2>1, <2>2, <2>3
  <2> QED
      BY <2>2, <2>4, <2>5
<1>13. /\ engine'[s].active_work = Cardinality(Users(s)')
       /\ engine'[s].model_lease_count = Cardinality(Leases(s)) + Cardinality(Finites(s)')
  <2>1. Cardinality({c}) = 1 /\ Cardinality({}) = 0
        BY FS_Singleton, FS_EmptySet, Zenon
  <2> QED
      BY <1>3, <1>5, <1>11, <1>12, <2>1
<1>14. \A r \in Slot : r # s => c \notin Users(r) /\ c \notin Users(r)'
      BY <1>4, <1>6, <1>9 DEF Users, Holding
<1>15. nextGeneration' \in Nat /\ nextGeneration' >= nextGeneration
       /\ engine'[s].generation < nextGeneration'
      BY <1>0, <1>3, <1>5, <1>9 DEF Shape
<1>16. Ending' = Ending
      BY <1>9 DEF Ending
<1>17. pc'[c] \in Moving => \A d \in Client \ {c} :
          pc[d] \in Moving => at[d].slot # at'[c].slot
      BY <1>4, <1>6, <1>7 DEF Moving
<1>18. a # NoAlias
      BY ConstantsAssumption, ZenonT(30)
<1> QED
    BY <1>0, <1>2, <1>3, <1>5, <1>6, <1>7, <1>8, <1>9, <1>10, <1>13, <1>14,
       <1>15, <1>16, <1>17, <1>18, CallWorks

\* A call works on slot s and leaves its name, state and generation alone.
LEMMA SteadyWork ==
    ASSUME EInv, NEW c \in Client, NEW s \in Slot,
           engine' \in [Slot -> EngineT], pc' \in [Client -> Where],
           at' \in [Client -> HeldT], UNCHANGED <<lease, closing, nextGeneration>>,
           Ending' = Ending,
           \A r \in Slot : r # s => engine'[r] = engine[r],
           \A d \in Client \ {c} : Rests(d),
           Same(engine[s], engine'[s]),
           engine[s].state \in {"LOADED", "DRAINING"} =>
              engine'[s].open = engine[s].open,
           Ending => engine'[s].active_work = 0,
           Stands(c)',
           pc'[c] \in Moving => pc[c] \in Moving /\ at'[c].slot = at[c].slot,
           pc[c] = "idle" \/ at[c].slot = s,
           pc'[c] = "idle" \/ at'[c].slot = s,
           engine'[s].active_work = Cardinality(Users(s)'),
           engine'[s].model_lease_count =
              Cardinality(Leases(s)) + Cardinality(Finites(s)')
    PROVE  EInv'
<1>0. /\ Shape /\ Slots /\ Alone /\ Pinned
      BY DEF EInv
<1>1. nextGeneration' \in Nat /\ nextGeneration' >= nextGeneration
      BY <1>0 DEF Shape
<1>2. /\ engine'[s].generation < nextGeneration'
      /\ engine'[s].alias = NoAlias => engine'[s].state = "UNLOADED"
      /\ engine'[s].state \in {"LOADED", "DRAINING"} => engine'[s].open \/ Ending
      BY <1>0 DEF Slots, Same
<1>3. Steady(s)
      BY DEF Steady, Same
<1>4. pc'[c] \in Moving => \A d \in Client \ {c} :
         pc[d] \in Moving => at[d].slot # at'[c].slot
      BY <1>0 DEF Alone
<1>5. \A l \in Lease : lease[l].slot = s =>
         /\ engine'[s].generation = engine[s].generation
         /\ engine'[s].state = engine[s].state \/ closing
         /\ engine'[s].state # "LOADING"
      BY <1>0, NowhereIs DEF Pinned, Same
<1>6. \A r \in Slot : r # s => c \notin Users(r) /\ c \notin Users(r)'
      BY DEF Users, Holding
<1> QED
    BY <1>1, <1>2, <1>3, <1>4, <1>5, <1>6, CallWorks, ZenonT(30)

\* The counted sets of slot s when call c is in them neither before nor after,
\* or both before and after.
LEMMA UsersSame ==
    ASSUME NEW c \in Client, \A d \in Client \ {c} : Rests(d), NEW s,
           c \in Users(s)' <=> c \in Users(s),
           c \in Finites(s)' <=> c \in Finites(s)
    PROVE  Users(s)' = Users(s) /\ Finites(s)' = Finites(s)
<1>1. Users(s)' \ {c} = Users(s) \ {c} /\ Finites(s)' \ {c} = Finites(s) \ {c}
      BY UsersKept
<1>2. ASSUME NEW A, NEW B, B \ {c} = A \ {c}, c \in B <=> c \in A
      PROVE  B = A
  <2>1. \A y : y \in B <=> y \in B \ {c} \/ (y = c /\ c \in B)
        OBVIOUS
  <2>2. \A y : y \in A <=> y \in A \ {c} \/ (y = c /\ c \in A)
        OBVIOUS
  <2> QED
      BY <1>2, <2>1, <2>2
<1>3. Users(s)' = Users(s)
      BY <1>1, <1>2
<1>4. Finites(s)' = Finites(s)
      BY <1>1, <1>2, ZenonT(30)
<1> QED
    BY <1>3, <1>4

LEMMA LoadPublishStep ==
    ASSUME EInv, NEW c \in Client, LoadPublish(c)
    PROVE  EInv'
<1>0. /\ Shape /\ Slots /\ (\A d \in Client : Stands(d)) /\ Alone /\ Pinned
      /\ CountsExact /\ engine \in [Slot -> EngineT] /\ at[c] \in HeldT
      BY DEF EInv, Shape
<1>1. /\ pc[c] = "load" /\ pc' = Woken([pc EXCEPT ![c] = "tail"])
      /\ UNCHANGED <<lease, nextGeneration, closing, at>> /\ Ending' = Ending
      BY BroadcastIs, ZenonT(30) DEF LoadPublish
<1>2. PICK s \in Slot : /\ s = at[c].slot /\ engine[s].state = "LOADING"
                       /\ engine[s].generation = at[c].generation
      BY <1>0, <1>1 DEF Stands, On
<1>3. PICK e \in EngineT : /\ engine' = [engine EXCEPT ![s] = e]
                           /\ e.alias = engine[s].alias
                           /\ e.generation = engine[s].generation
                           /\ e.active_work = 0 /\ e.model_lease_count = 0
                           /\ \/ e.state = "LOADED" /\ e.open
                              \/ e.state = "FAILED"
  <2> DEFINE o == Opened(at[c])
  <2>1. /\ o \in EngineT /\ o.alias = engine[s].alias
        /\ o.generation = engine[s].generation /\ o.active_work = 0
        /\ o.model_lease_count = 0 /\ o.open
        BY <1>0, <1>2, Zenon DEF Opened, Empty, EngineT, State, HeldT
  <2> HIDE DEF o
  <2>2. CASE engine' = [engine EXCEPT ![s] = [o EXCEPT !.state = "LOADED"]]
    <3> DEFINE p == [o EXCEPT !.state = "LOADED"]
    <3>1. /\ p \in EngineT /\ p.alias = engine[s].alias
          /\ p.generation = engine[s].generation /\ p.active_work = 0
          /\ p.model_lease_count = 0 /\ p.state = "LOADED" /\ p.open
          BY <2>1 DEF EngineT, State
    <3> HIDE DEF p
    <3> QED
        BY <2>2, <3>1, Zenon DEF p
  <2>3. ASSUME NEW f \in Closed(o),
               engine' = [engine EXCEPT ![s] = [f EXCEPT !.state = "FAILED"]]
        PROVE  \E e \in EngineT : /\ engine' = [engine EXCEPT ![s] = e]
                                  /\ e.alias = engine[s].alias
                                  /\ e.generation = engine[s].generation
                                  /\ e.active_work = 0 /\ e.model_lease_count = 0
                                  /\ e.state = "FAILED"
    <3> DEFINE p == [f EXCEPT !.state = "FAILED"]
    <3>1. /\ f \in EngineT /\ Same(o, f) /\ f.active_work = o.active_work
          /\ f.model_lease_count = o.model_lease_count
          BY <2>1, ClosedIs
    <3>2. /\ p \in EngineT /\ p.alias = engine[s].alias
          /\ p.generation = engine[s].generation /\ p.active_work = 0
          /\ p.model_lease_count = 0 /\ p.state = "FAILED"
          BY <2>1, <3>1 DEF EngineT, State, Same
    <3> HIDE DEF p
    <3> QED
        BY <2>3, <3>2, Zenon DEF p
  <2> QED
      BY <1>2, <2>2, <2>3, Zenon DEF LoadPublish, o
<1>4. /\ engine' \in [Slot -> EngineT] /\ engine'[s] = e
      /\ \A r \in Slot : r # s => engine'[r] = engine[r]
      BY <1>0, <1>2, <1>3, UpdateIs
<1>5. /\ pc' \in [Client -> Where] /\ pc'[c] = "tail"
      /\ at' \in [Client -> HeldT] /\ at'[c] = at[c]
      /\ \A d \in Client \ {c} : Rests(d)
  <2>1. at' = [at EXCEPT ![c] = at[c]]
        BY <1>0, <1>1 DEF Shape
  <2> QED
      BY <1>0, <1>1, <2>1, Moved, Zenon DEF Where
<1>6. \A d \in Client \ {c} : at[d].slot = s => pc[d] \in {"idle", "tail"}
      BY <1>0, <1>1, <1>2 DEF Stands, On, Holding, Shape, Where, Alone, Moving
<1>7. \A l \in Lease : lease[l].slot # s
      BY <1>0, <1>2, NowhereIs DEF Pinned
<1>8. Stands(c)' /\ pc'[c] \notin Moving
      BY <1>5 DEF Stands, Holding, Moving
<1>9. Users(s)' = {} /\ Finites(s)' = {} /\ Leases(s) = {}
  <2>1. Users(s)' \ {c} = Users(s) \ {c}
        BY <1>5, UsersKept
  <2>2. c \notin Users(s)'
        BY <1>5 DEF Users, Holding
  <2>3. Users(s) \ {c} = {}
        BY <1>6 DEF Users, Holding
  <2>4. Users(s)' = {}
        BY <2>1, <2>2, <2>3
  <2> QED
      BY <1>7, <2>4 DEF Users, Finites, Holding, Leases
<1>10. /\ engine'[s].active_work = Cardinality(Users(s)')
       /\ engine'[s].model_lease_count = Cardinality(Leases(s)) + Cardinality(Finites(s)')
  <2>1. Cardinality({}) = 0
        BY FS_EmptySet
  <2> QED
      BY <1>3, <1>4, <1>9, <2>1
<1>11. \A r \in Slot : r # s => c \notin Users(r) /\ c \notin Users(r)'
      BY <1>2, <1>5 DEF Users
<1>12. nextGeneration' \in Nat /\ nextGeneration' >= nextGeneration
      BY <1>0, <1>1 DEF Shape
<1>13. engine'[s].generation < nextGeneration' /\ engine'[s].alias # NoAlias
      BY <1>0, <1>1, <1>2, <1>3, <1>4 DEF Slots
<1>14. /\ engine'[s].state \in {"LOADED", "DRAINING"} => engine'[s].open \/ Ending
       /\ Ending => engine'[s].active_work = 0
      BY <1>3, <1>4
<1>15. UNCHANGED <<lease, closing>> /\ Ending' = Ending
      BY <1>1
<1> QED
    BY <1>2, <1>4, <1>5, <1>6, <1>7, <1>8, <1>10, <1>11, <1>12, <1>13, <1>14,
       <1>15, CallWorks

\* What a slot's engine is, and what is counted on it.
LEMMA SlotIs ==
    ASSUME EInv, NEW s \in Slot
    PROVE  /\ engine[s] \in EngineT /\ engine[s].active_work \in Nat
           /\ engine[s].model_lease_count \in Nat /\ engine[s].generation \in Nat
           /\ engine[s].active_work = Cardinality(Users(s))
           /\ engine[s].model_lease_count =
                 Cardinality(Leases(s)) + Cardinality(Finites(s))
BY DEF EInv, Shape, EngineT, CountsExact
-----------------------------------------------------------------------------
(***************************************************************************)
(* The calls under a lease and the steps of an unload.                     *)
(***************************************************************************)
\* A call that comes in under a lease, and one that leaves.
LEMMA CallEnters ==
    ASSUME EInv, NEW c \in Client, NEW s \in Slot, NEW w \in {"leased", "finite"},
           NEW m \in Nat,
           ~closing, Loaded(s), pc[c] = "idle", Begins(c, w, s),
           engine' = Counted(s, engine[s].active_work + 1, m),
           m = engine[s].model_lease_count + (IF w = "finite" THEN 1 ELSE 0),
           UNCHANGED <<lease, nextGeneration, closing, manager>>
    PROVE  EInv'
<1>0. /\ Shape /\ engine \in [Slot -> EngineT] /\ ~Ending
      BY DEF EInv, Shape
<1>1. /\ engine[s].active_work \in Nat /\ engine[s].model_lease_count \in Nat
      /\ engine[s].generation \in Nat
      /\ engine[s].active_work = Cardinality(Users(s))
      /\ engine[s].model_lease_count = Cardinality(Leases(s)) + Cardinality(Finites(s))
      BY SlotIs
<1>2. /\ engine' \in [Slot -> EngineT]
      /\ \A r \in Slot : r # s => engine'[r] = engine[r]
      /\ Same(engine[s], engine'[s]) /\ engine'[s].open = engine[s].open
      /\ engine'[s].active_work = engine[s].active_work + 1
      /\ engine'[s].model_lease_count = m
  <2>1. engine[s].active_work + 1 \in Nat
        BY <1>1
  <2> QED
      BY <1>0, <2>1, CountedIs
<1> DEFINE h == [slot |-> s, generation |-> engine[s].generation]
<1>3. h \in HeldT /\ h.slot = s /\ h.generation = engine[s].generation
      BY <1>1 DEF HeldT
<1>4. pc' = [pc EXCEPT ![c] = w] /\ at' = [at EXCEPT ![c] = h]
      BY DEF Begins
<1> HIDE DEF h
<1>5. /\ pc' \in [Client -> Where] /\ pc'[c] = w
      /\ at' \in [Client -> HeldT] /\ at'[c] = h
      /\ \A d \in Client \ {c} : Rests(d)
      BY <1>0, <1>3, <1>4, Moved, ZenonT(30) DEF Where
<1>6. Stands(c)' /\ pc'[c] \notin Moving
      BY <1>2, <1>3, <1>5, ZenonT(30) DEF Stands, Holding, Moving, On, Same, Loaded
<1>7. Users(s)' \ {c} = Users(s) \ {c} /\ Finites(s)' \ {c} = Finites(s) \ {c}
      BY <1>5, UsersKept, ZenonT(30)
<1>8. c \notin Users(s) /\ c \in Users(s)'
      BY <1>3, <1>5 DEF Users, Holding
<1>9. c \notin Finites(s) /\ (c \in Finites(s)' <=> w = "finite")
      BY <1>3, <1>5 DEF Finites
<1>10. Cardinality(Users(s)') = Cardinality(Users(s)) + 1
      BY <1>7, <1>8, OneJoins, UsersFinite
<1>11. Cardinality(Finites(s)') =
          Cardinality(Finites(s)) + (IF w = "finite" THEN 1 ELSE 0)
  <2>1. CASE w = "finite"
    <3>1. Cardinality(Finites(s)') = Cardinality(Finites(s)) + 1
          BY <1>7, <1>9, <2>1, OneJoins, UsersFinite
    <3> QED
        BY <2>1, <3>1
  <2>2. CASE w # "finite"
    <3>1. Finites(s)' = Finites(s)
          BY <1>7, <1>9, <2>2, SameButOne
    <3>2. Cardinality(Finites(s)) \in Nat
          BY UsersFinite, ZenonT(30)
    <3> QED
        BY <2>2, <3>1, <3>2
  <2> QED
      BY <2>1, <2>2
<1>12. /\ engine'[s].active_work = Cardinality(Users(s)')
       /\ engine'[s].model_lease_count = Cardinality(Leases(s)) + Cardinality(Finites(s)')
  <2>1. Cardinality(Finites(s)) \in Nat /\ Cardinality(Leases(s)) \in Nat
        BY UsersFinite, ZenonT(30)
  <2> QED
      BY <1>1, <1>2, <1>10, <1>11, <2>1
<1>13. UNCHANGED <<lease, closing, nextGeneration>> /\ Ending' = Ending
      BY DEF Ending
<1> QED
    BY <1>0, <1>2, <1>3, <1>5, <1>6, <1>12, <1>13, SteadyWork, Zenon

LEMMA CallLeaves ==
    ASSUME EInv, NEW c \in Client, NEW s \in Slot, NEW m \in Nat,
           Holding(c), at[c].slot = s,
           engine' = Counted(s, engine[s].active_work - 1, m),
           m = engine[s].model_lease_count - (IF pc[c] = "finite" THEN 1 ELSE 0),
           pc' = Woken([pc EXCEPT ![c] = "idle"]), at' = [at EXCEPT ![c] = Nowhere],
           Broadcast, UNCHANGED <<lease, nextGeneration, closing>>
    PROVE  EInv'
<1>0. /\ Shape /\ Slots /\ engine \in [Slot -> EngineT]
      BY ZenonT(30) DEF EInv, Shape
<1>1. /\ engine[s].active_work \in Nat /\ engine[s].model_lease_count \in Nat
      /\ engine[s].active_work = Cardinality(Users(s))
      /\ engine[s].model_lease_count = Cardinality(Leases(s)) + Cardinality(Finites(s))
      BY SlotIs
<1>2. /\ pc' \in [Client -> Where] /\ pc'[c] = "idle"
      /\ at' \in [Client -> HeldT] /\ at'[c] = Nowhere
      /\ \A d \in Client \ {c} : Rests(d)
      BY <1>0, Moved, NowhereIs, ZenonT(30) DEF Where
<1>3. Users(s)' \ {c} = Users(s) \ {c} /\ Finites(s)' \ {c} = Finites(s) \ {c}
      BY <1>2, UsersKept, ZenonT(30)
<1>4. c \in Users(s) /\ c \notin Users(s)' /\ c \notin Finites(s)'
      /\ (c \in Finites(s) <=> pc[c] = "finite")
      BY <1>2, ZenonT(30) DEF Users, Finites, Holding
<1>5. Cardinality(Users(s)') = Cardinality(Users(s)) - 1 /\ Cardinality(Users(s)) > 0
      BY <1>3, <1>4, OneLeaves, UsersFinite
<1>6. Cardinality(Finites(s)') =
         Cardinality(Finites(s)) - (IF pc[c] = "finite" THEN 1 ELSE 0)
  <2>1. CASE pc[c] = "finite"
    <3>1. Cardinality(Finites(s)') = Cardinality(Finites(s)) - 1
          BY <1>3, <1>4, <2>1, OneLeaves, UsersFinite
    <3> QED
        BY <2>1, <3>1, ZenonT(30)
  <2>2. CASE pc[c] # "finite"
    <3>1. Finites(s)' = Finites(s)
          BY <1>3, <1>4, <2>2, SameButOne
    <3>2. Cardinality(Finites(s)) \in Nat
          BY UsersFinite
    <3> QED
        BY <2>2, <3>1, <3>2
  <2> QED
      BY <2>1, <2>2, ZenonT(30)
<1>7. engine[s].active_work - 1 \in Nat /\ ~Ending
      BY <1>0, <1>1, <1>5 DEF Slots
<1>8. /\ engine' \in [Slot -> EngineT]
      /\ \A r \in Slot : r # s => engine'[r] = engine[r]
      /\ Same(engine[s], engine'[s]) /\ engine'[s].open = engine[s].open
      /\ engine'[s].active_work = engine[s].active_work - 1
      /\ engine'[s].model_lease_count = m
      BY <1>0, <1>7, CountedIs, SMTT(30)
<1>9. /\ engine'[s].active_work = Cardinality(Users(s)')
      /\ engine'[s].model_lease_count = Cardinality(Leases(s)) + Cardinality(Finites(s)')
  <2>1. Cardinality(Finites(s)) \in Nat /\ Cardinality(Leases(s)) \in Nat
        BY UsersFinite
  <2> QED
      BY <1>1, <1>5, <1>6, <1>8, <2>1
<1>10. Stands(c)' /\ pc'[c] \notin Moving
      BY <1>2, ZenonT(30) DEF Stands, Holding, Moving
<1>11. UNCHANGED <<lease, closing, nextGeneration>> /\ Ending' = Ending
      BY BroadcastIs
<1> QED
    BY <1>2, <1>7, <1>8, <1>9, <1>10, <1>11, SteadyWork, Zenon

LEMMA AcquireStep ==
    ASSUME EInv, NEW c \in Client, NEW a, NEW g, Acquire(c, a, g)
    PROVE  EInv'
<1>1. PICK s \in Routed(a) :
         /\ Loaded(s) /\ Begins(c, "leased", s)
         /\ engine' = Counted(s, engine[s].active_work + 1,
                              engine[s].model_lease_count)
      BY DEF Acquire
<1>2. s \in Slot
      BY FindIs DEF Routed
<1>3. /\ engine[s].model_lease_count \in Nat
      /\ engine[s].model_lease_count =
            engine[s].model_lease_count + (IF "leased" = "finite" THEN 1 ELSE 0)
      BY <1>2, SlotIs
<1>4. /\ ~closing /\ pc[c] = "idle"
      /\ UNCHANGED <<lease, nextGeneration, closing, manager>>
      BY DEF Acquire
<1> QED
    BY <1>1, <1>2, <1>3, <1>4, CallEnters

LEMMA FiniteBeginStep ==
    ASSUME EInv, NEW c \in Client, NEW a, FiniteBegin(c, a)
    PROVE  EInv'
<1>1. PICK s \in Find(a) :
         /\ Loaded(s) /\ Begins(c, "finite", s)
         /\ engine' = Counted(s, engine[s].active_work + 1,
                              engine[s].model_lease_count + 1)
      BY DEF FiniteBegin
<1>2. s \in Slot
      BY FindIs
<1>3. /\ engine[s].model_lease_count + 1 \in Nat
      /\ engine[s].model_lease_count + 1 =
            engine[s].model_lease_count + (IF "finite" = "finite" THEN 1 ELSE 0)
      BY <1>2, SlotIs
<1>4. /\ ~closing /\ pc[c] = "idle"
      /\ UNCHANGED <<lease, nextGeneration, closing, manager>>
      BY DEF FiniteBegin
<1> QED
    BY <1>1, <1>2, <1>3, <1>4, CallEnters

\* A call under a lease is counted on its slot.
LEMMA HolderIs ==
    ASSUME EInv, NEW c \in Client, Holding(c)
    PROVE  /\ at[c].slot \in Slot
           /\ engine[at[c].slot].generation = at[c].generation
           /\ engine[at[c].slot].active_work > 0
           /\ pc[c] = "finite" => engine[at[c].slot].model_lease_count > 0
<1>1. PICK s \in Slot : s = at[c].slot /\ engine[s].generation = at[c].generation
      BY DEF EInv, Stands, On
<1>2. Users(s) # {} /\ (pc[c] = "finite" => Finites(s) # {})
      BY <1>1 DEF Users, Finites
<1>3. /\ Cardinality(Users(s)) \in Nat /\ Cardinality(Users(s)) # 0
      /\ Cardinality(Finites(s)) \in Nat /\ Cardinality(Leases(s)) \in Nat
      /\ pc[c] = "finite" => Cardinality(Finites(s)) # 0
      BY <1>2, UsersFinite, NoUsers
<1>4. /\ engine[s].active_work = Cardinality(Users(s))
      /\ engine[s].model_lease_count = Cardinality(Leases(s)) + Cardinality(Finites(s))
      BY SlotIs
<1>5. engine[s].active_work > 0 /\ (pc[c] = "finite" => engine[s].model_lease_count > 0)
      BY <1>3, <1>4
<1> QED
    BY <1>1, <1>5

LEMMA ReleaseStep ==
    ASSUME EInv, NEW c \in Client, Release(c)
    PROVE  EInv'
<1>1. Holding(c) /\ pc[c] # "finite"
      BY DEF Release, Holding
<1>2. PICK s \in Slot : /\ s = at[c].slot
                        /\ engine[s].generation = at[c].generation
                        /\ engine[s].active_work > 0
      BY <1>1, HolderIs, ZenonT(30)
<1>3. engine' = Counted(s, engine[s].active_work - 1, engine[s].model_lease_count)
      BY <1>2 DEF Release
<1>4. /\ engine[s].model_lease_count \in Nat
      /\ engine[s].model_lease_count =
            engine[s].model_lease_count - (IF pc[c] = "finite" THEN 1 ELSE 0)
      BY <1>1, SlotIs
<1>5. /\ pc' = Woken([pc EXCEPT ![c] = "idle"]) /\ at' = [at EXCEPT ![c] = Nowhere]
      /\ Broadcast /\ UNCHANGED <<lease, nextGeneration, closing>>
      BY DEF Release
<1> QED
    BY <1>1, <1>2, <1>3, <1>4, <1>5, CallLeaves, ZenonT(30)

LEMMA FiniteEndStep ==
    ASSUME EInv, NEW c \in Client, FiniteEnd(c)
    PROVE  EInv'
<1>1. Holding(c) /\ pc[c] = "finite"
      BY DEF FiniteEnd, Holding
<1>2. PICK s \in Slot : s = at[c].slot /\ engine[s].model_lease_count > 0
      BY <1>1, HolderIs
<1>3. engine' = Counted(s, engine[s].active_work - 1, engine[s].model_lease_count - 1)
      BY <1>2 DEF FiniteEnd
<1>4. /\ engine[s].model_lease_count - 1 \in Nat
      /\ engine[s].model_lease_count - 1 =
            engine[s].model_lease_count - (IF pc[c] = "finite" THEN 1 ELSE 0)
      BY <1>1, <1>2, SlotIs
<1>5. /\ pc' = Woken([pc EXCEPT ![c] = "idle"]) /\ at' = [at EXCEPT ![c] = Nowhere]
      /\ Broadcast /\ UNCHANGED <<lease, nextGeneration, closing>>
      BY ZenonT(30) DEF FiniteEnd
<1> QED
    BY <1>1, <1>2, <1>3, <1>4, <1>5, CallLeaves, Zenon

\* A call goes from one place to another on its slot, and keeps its count.
LEMMA CallGoesOn ==
    ASSUME EInv, NEW c \in Client, NEW s \in Slot, at[c].slot = s,
           NEW w \in Where, pc' = [pc EXCEPT ![c] = w], UNCHANGED at,
           engine' \in [Slot -> EngineT],
           \A r \in Slot : r # s => engine'[r] = engine[r],
           Same(engine[s], engine'[s]),
           engine[s].state \in {"LOADED", "DRAINING"} =>
              engine'[s].open = engine[s].open,
           engine'[s].active_work = engine[s].active_work,
           engine'[s].model_lease_count = engine[s].model_lease_count,
           \/ Holding(c) /\ pc[c] # "finite" /\ w \in {"leased", "queued", "executed"}
           \/ pc[c] = "asleep" /\ w = "awake"
           \/ pc[c] = "awake" /\ w = "asleep"
           \/ pc[c] = "close" /\ w = "publish",
           UNCHANGED <<lease, nextGeneration, closing, manager>>
    PROVE  EInv'
<1>0. Shape /\ Slots /\ Stands(c)
      BY DEF EInv
<1>1. at' = [at EXCEPT ![c] = at[c]] /\ at[c] \in HeldT
      BY <1>0 DEF Shape
<1>2. /\ pc' \in [Client -> Where] /\ pc'[c] = w
      /\ at' \in [Client -> HeldT] /\ at'[c] = at[c]
      /\ \A d \in Client \ {c} : Rests(d)
      BY <1>0, <1>1, Moved, Zenon
<1>3. Stands(c)'
      BY <1>0, <1>2, Zenon DEF Stands, Holding, On, Same
<1>4. pc'[c] \in Moving => pc[c] \in Moving
      BY <1>2, ZenonT(30) DEF Moving
<1>5. Users(s)' = Users(s) /\ Finites(s)' = Finites(s)
  <2>1. /\ c \in Users(s)' <=> c \in Users(s)
        /\ c \in Finites(s)' <=> c \in Finites(s)
        BY <1>2, ZenonT(30) DEF Users, Finites, Holding
  <2> QED
      BY <1>2, <2>1, UsersSame, ZenonT(30)
<1>6. /\ engine'[s].active_work = Cardinality(Users(s)')
      /\ engine'[s].model_lease_count = Cardinality(Leases(s)) + Cardinality(Finites(s)')
      BY <1>5, SlotIs, ZenonT(30)
<1>7. UNCHANGED <<lease, closing, nextGeneration>> /\ Ending' = Ending
      BY Zenon DEF Ending
<1>8. Ending => engine'[s].active_work = 0
      BY <1>0 DEF Slots
<1> QED
    BY <1>2, <1>3, <1>4, <1>6, <1>7, <1>8, SteadyWork, ZenonT(30)

LEMMA SubmitStep ==
    ASSUME EInv, NEW c \in Client, Submit(c)
    PROVE  EInv'
<1>1. Holding(c) /\ pc[c] # "finite" /\ engine' = engine
      BY DEF Submit, Holding
<1>2. PICK s \in Slot : s = at[c].slot
      BY <1>1, HolderIs
<1>3. engine' \in [Slot -> EngineT] /\ Same(engine[s], engine'[s])
      BY <1>1, ZenonT(30) DEF EInv, Shape, Same
<1>4. /\ pc' = [pc EXCEPT ![c] = "queued"] /\ "queued" \in Where
      /\ UNCHANGED <<lease, nextGeneration, closing, manager>> /\ UNCHANGED at
      BY DEF Submit, Where
<1> QED
    BY <1>1, <1>2, <1>3, <1>4, CallGoesOn, Zenon

LEMMA ExecuteStep ==
    ASSUME EInv, NEW c \in Client, Execute(c)
    PROVE  EInv'
<1>1. Holding(c) /\ pc[c] # "finite"
      BY DEF Execute, Holding
<1>2. PICK s \in Slot : s = at[c].slot
      BY <1>1, HolderIs
<1>3. PICK n \in Nat : engine' = [engine EXCEPT ![s].sessions = n]
  <2>1. PICK n \in 0 .. MaxSessions : engine' = [engine EXCEPT ![s].sessions = n]
        BY <1>2, Zenon DEF Execute
  <2>2. 0 .. MaxSessions \subseteq Nat
        BY ConstantsAssumption
  <2> QED
      BY <2>1, <2>2, Zenon
<1> DEFINE e == [engine[s] EXCEPT !.sessions = n]
<1>4. /\ e \in EngineT /\ Same(engine[s], e) /\ e.open = engine[s].open
      /\ e.active_work = engine[s].active_work
      /\ e.model_lease_count = engine[s].model_lease_count
      BY SlotIs DEF EngineT, Same
<1>5. engine' = [engine EXCEPT ![s] = e]
      BY <1>3
<1> HIDE DEF e
<1>6. engine \in [Slot -> EngineT]
      BY DEF EInv, Shape
<1>7. /\ engine' \in [Slot -> EngineT] /\ engine'[s] = e
      /\ \A r \in Slot : r # s => engine'[r] = engine[r]
      BY <1>4, <1>5, <1>6, UpdateIs
<1>8. /\ pc' = [pc EXCEPT ![c] = "executed"] /\ "executed" \in Where
      /\ UNCHANGED <<lease, nextGeneration, closing, manager>> /\ UNCHANGED at
      BY DEF Execute, Where
<1> QED
    BY <1>1, <1>2, <1>4, <1>7, <1>8, CallGoesOn, Zenon

LEMMA SpuriousWakeupStep ==
    ASSUME EInv, NEW c \in Client, SpuriousWakeup(c)
    PROVE  EInv'
<1>1. pc[c] = "asleep" /\ engine' = engine
      BY DEF SpuriousWakeup
<1>2. PICK s \in Slot : s = at[c].slot
      BY <1>1 DEF EInv, Stands, On
<1>3. engine' \in [Slot -> EngineT] /\ Same(engine[s], engine'[s])
      BY <1>1 DEF EInv, Shape, Same
<1>4. /\ pc' = [pc EXCEPT ![c] = "awake"] /\ "awake" \in Where
      /\ UNCHANGED <<lease, nextGeneration, closing, manager>> /\ UNCHANGED at
      BY DEF SpuriousWakeup, Where
<1> QED
    BY <1>1, <1>2, <1>3, <1>4, CallGoesOn, Zenon

LEMMA UnloadCloseStep ==
    ASSUME EInv, NEW c \in Client, UnloadClose(c)
    PROVE  EInv'
<1>1. pc[c] = "close"
      BY DEF UnloadClose
<1>2. PICK s \in Slot : s = at[c].slot /\ engine[s].state = "UNLOADING"
      BY <1>1 DEF EInv, Stands, On
<1>3. PICK e \in Closed(engine[s]) : engine' = [engine EXCEPT ![s] = e]
      BY <1>2, Zenon DEF UnloadClose
<1>4. /\ e \in EngineT /\ Same(engine[s], e)
      /\ e.active_work = engine[s].active_work
      /\ e.model_lease_count = engine[s].model_lease_count
      BY SlotIs, ClosedIs
<1>5. engine \in [Slot -> EngineT]
      BY DEF EInv, Shape
<1>6. /\ engine' \in [Slot -> EngineT] /\ engine'[s] = e
      /\ \A r \in Slot : r # s => engine'[r] = engine[r]
      BY <1>3, <1>4, <1>5, UpdateIs
<1>7. /\ pc' = [pc EXCEPT ![c] = "publish"] /\ "publish" \in Where
      /\ UNCHANGED <<lease, nextGeneration, closing, manager>> /\ UNCHANGED at
      BY DEF UnloadClose, Where
<1>8. engine[s].state \notin {"LOADED", "DRAINING"}
      BY <1>2
<1> QED
    BY <1>1, <1>2, <1>4, <1>6, <1>7, <1>8, CallGoesOn, Zenon

LEMMA TailStep ==
    ASSUME EInv, NEW c \in Client, Tail(c)
    PROVE  EInv'
<1>0. /\ Shape /\ Slots /\ Alone /\ Pinned /\ CountsExact
      /\ \A d \in Client : Stands(d)
      BY DEF EInv
<1>1. /\ pc[c] = "tail" /\ pc' = [pc EXCEPT ![c] = "idle"]
      /\ at' = [at EXCEPT ![c] = Nowhere]
      /\ UNCHANGED <<engine, lease, nextGeneration, closing, manager>>
      BY DEF Tail
<1>2. /\ pc' \in [Client -> Where] /\ pc'[c] = "idle"
      /\ at' \in [Client -> HeldT] /\ at'[c] = Nowhere
      /\ \A d \in Client \ {c} : Rests(d)
      BY <1>0, <1>1, Moved, NowhereIs, ZenonT(30) DEF Where
<1>3. Shape' /\ Slots' /\ Pinned'
      BY <1>0, <1>1, <1>2 DEF Shape, Slots, Pinned, Ending
<1>4. ASSUME NEW d \in Client PROVE Stands(d)'
  <2>1. CASE d = c
        BY <1>2, <2>1 DEF Stands, Holding
  <2>2. CASE d # c
    <3>1. \A r \in Slot : Steady(r)
          BY <1>1 DEF Steady
    <3> QED
        BY <1>0, <1>2, <2>2, <3>1, StandKept
  <2> QED
      BY <2>1, <2>2
<1>5. Alone'
      BY <1>0, <1>2, AloneKept DEF Moving
<1>6. CountsExact'
  <2>1. ASSUME NEW r \in Slot
        PROVE  Users(r)' = Users(r) /\ Finites(r)' = Finites(r)
    <3>1. /\ c \notin Users(r)' /\ c \notin Users(r)
          /\ c \notin Finites(r)' /\ c \notin Finites(r)
          BY <1>1, <1>2 DEF Users, Finites, Holding
    <3> QED
        BY <1>2, <3>1, UsersSame
  <2>2. \A r \in Slot : Leases(r)' = Leases(r)
        BY <1>1 DEF Leases
  <2> QED
      BY <1>0, <1>1, <2>1, <2>2, CountsSame
<1> QED
    BY <1>3, <1>4, <1>5, <1>6 DEF EInv

\* An unload takes slot s to another state.
LEMMA UnloadWorks ==
    ASSUME EInv, NEW c \in Client, NEW s \in Slot, NEW e \in EngineT,
           engine' = [engine EXCEPT ![s] = e],
           e.alias = engine[s].alias, e.generation = engine[s].generation,
           e.active_work = engine[s].active_work, e.open = engine[s].open,
           e.model_lease_count = engine[s].model_lease_count,
           engine[s].state \in {"LOADED", "DRAINING", "UNLOADING"},
           e.state # "LOADING",
           e.state \in {"LOADED", "DRAINING"} => engine[s].state \in {"LOADED", "DRAINING"},
           pc' \in [Client -> Where], at' \in [Client -> HeldT],
           \A d \in Client \ {c} : Rests(d),
           pc[c] \in {"idle", "awake", "publish"},
           pc'[c] \in {"asleep", "close", "tail"}, at'[c].slot = s,
           Stands(c)',
           \/ Steady(s)
           \/ \A d \in Client \ {c} : at[d].slot = s => pc[d] \in {"idle", "tail"},
           pc'[c] \in Moving =>
              \A d \in Client \ {c} : pc[d] \in Moving => at[d].slot # s,
           \A l \in Lease : lease[l].slot = s => closing,
           UNCHANGED <<lease, nextGeneration, closing>>, Ending' = Ending
    PROVE  EInv'
<1>0. Shape /\ Slots /\ Alone /\ Pinned /\ engine \in [Slot -> EngineT]
      BY ZenonT(30) DEF EInv, Shape
<1>1. /\ engine' \in [Slot -> EngineT] /\ engine'[s] = e
      /\ \A r \in Slot : r # s => engine'[r] = engine[r]
      BY <1>0, UpdateIs
<1>2. nextGeneration' \in Nat /\ nextGeneration' >= nextGeneration
      BY <1>0 DEF Shape
<1>3. /\ engine'[s].generation < nextGeneration' /\ engine'[s].alias # NoAlias
      /\ engine'[s].state \in {"LOADED", "DRAINING"} => engine'[s].open \/ Ending
      /\ Ending => engine'[s].active_work = 0
      BY <1>0, <1>1, ZenonT(30) DEF Slots
<1>4. \A r \in Slot : c \notin Users(r) /\ c \notin Users(r)'
      /\ c \notin Finites(r) /\ c \notin Finites(r)'
      BY ZenonT(30) DEF Users, Finites, Holding
<1>5. Users(s)' = Users(s) /\ Finites(s)' = Finites(s)
      BY <1>4, UsersSame, ZenonT(30)
<1>6. /\ engine'[s].active_work = Cardinality(Users(s)')
      /\ engine'[s].model_lease_count = Cardinality(Leases(s)) + Cardinality(Finites(s)')
      BY <1>1, <1>5, SlotIs, ZenonT(30)
<1>7. pc'[c] \in Moving => \A d \in Client \ {c} :
         pc[d] \in Moving => at[d].slot # at'[c].slot
      BY ZenonT(30)
<1>8. \A l \in Lease : lease[l].slot = s =>
         /\ engine'[s].generation = engine[s].generation
         /\ engine'[s].state = engine[s].state \/ closing
         /\ engine'[s].state # "LOADING"
      BY <1>1, ZenonT(30)
<1>9. /\ engine'[s].alias = NoAlias => engine'[s].state = "UNLOADED"
      /\ \A r \in Slot : r # s => c \notin Users(r) /\ c \notin Users(r)'
      BY <1>3, <1>4
<1> QED
    BY <1>1, <1>2, <1>3, <1>6, <1>7, <1>8, <1>9, CallWorks, Zenon

\* Where no work is counted nobody holds the engine.
LEMMA NobodyHolds ==
    ASSUME EInv, NEW s \in Slot, engine[s].active_work = 0
    PROVE  \A d \in Client : at[d].slot = s => ~Holding(d) /\ pc[d] # "load"
<1>1. Users(s) = {}
      BY SlotIs, NoUsers
<1> QED
    BY <1>1 DEF Users

LEMMA UnloadBeginStep ==
    ASSUME EInv, NEW c \in Client, NEW a, NEW g, UnloadBegin(c, a, g)
    PROVE  EInv'
<1>0. /\ Shape /\ Slots /\ Pinned /\ \A d \in Client : Stands(d)
      BY DEF EInv
<1> DEFINE f(s) == [engine[s] EXCEPT !.state = "DRAINING"]
           h(s) == [slot |-> s, generation |-> engine[s].generation]
<1>1. PICK s \in Slot : /\ Loaded(s) /\ Unowed(engine[s]) /\ Drain(c, s, f(s))
                        /\ at' = [at EXCEPT ![c] = h(s)]
      BY FindIs, Zenon DEF UnloadBegin
<1>2. /\ f(s) \in EngineT
      /\ f(s).alias = engine[s].alias /\ f(s).generation = engine[s].generation
      /\ f(s).active_work = engine[s].active_work /\ f(s).open = engine[s].open
      /\ f(s).model_lease_count = engine[s].model_lease_count
      /\ f(s).state = "DRAINING"
      BY <1>1, SlotIs DEF EngineT, State, Same, Loaded
<1>3. h(s) \in HeldT /\ h(s).slot = s /\ h(s).generation = engine[s].generation
      BY SlotIs DEF HeldT
<1> HIDE DEF f, h
<1>4. /\ pc[c] = "idle" /\ UNCHANGED <<lease, nextGeneration, closing>>
      /\ Ending' = Ending
      BY DEF UnloadBegin, Ending
<1>5. \A l \in Lease : lease[l].slot # s
  <2>1. Leases(s) = {}
    <3>1. Cardinality(Leases(s)) + Cardinality(Finites(s)) = 0
          BY <1>1, SlotIs, ZenonT(30) DEF Unowed
    <3> QED
        BY <3>1, UsersFinite, NoUsers
  <2> QED
      BY <2>1 DEF Leases
<1>6. \A d \in Client : at[d].slot = s => pc[d] \in {"idle", "tail"} \/ Holding(d)
      BY <1>0, <1>1, ZenonT(30) DEF Stands, On, Holding, Shape, Where, Loaded
<1>7. \A d \in Client : pc[d] \in Moving => at[d].slot # s
      BY <1>6 DEF Moving, Holding
<1>8. CASE f(s).active_work = 0
  <2> DEFINE e == [f(s) EXCEPT !.state = "UNLOADING"]
  <2>1. /\ e \in EngineT /\ e.state = "UNLOADING"
        /\ e.alias = engine[s].alias /\ e.generation = engine[s].generation
        /\ e.active_work = engine[s].active_work /\ e.open = engine[s].open
        /\ e.model_lease_count = engine[s].model_lease_count
        BY <1>2 DEF EngineT, State
  <2>2. engine' = [engine EXCEPT ![s] = e] /\ pc' = [pc EXCEPT ![c] = "close"]
        BY <1>1, <1>8 DEF Drain
  <2> HIDE DEF e
  <2>3. /\ pc' \in [Client -> Where] /\ pc'[c] = "close"
        /\ at' \in [Client -> HeldT] /\ at'[c] = h(s)
        /\ \A d \in Client \ {c} : Rests(d)
        BY <1>0, <1>1, <1>3, <2>2, Moved, Zenon DEF Where
  <2>4. engine'[s] = e
        BY <1>0, <2>2 DEF Shape
  <2>5. Stands(c)'
        BY <1>3, <2>1, <2>3, <2>4 DEF Stands, On, Holding
  <2>6. \A d \in Client : at[d].slot = s => pc[d] \in {"idle", "tail"}
        BY <1>2, <1>6, <1>8, NobodyHolds, ZenonT(30)
  <2>7. engine[s].state = "LOADED"
        BY <1>1 DEF Loaded
  <2> QED
      BY <1>3, <1>4, <1>5, <1>7, <2>1, <2>2, <2>3, <2>5, <2>6, <2>7, UnloadWorks, ZenonT(30)
<1>9. CASE f(s).active_work # 0
  <2>1. engine' = [engine EXCEPT ![s] = f(s)] /\ pc' = [pc EXCEPT ![c] = "asleep"]
        BY <1>1, <1>9 DEF Drain
  <2>2. /\ pc' \in [Client -> Where] /\ pc'[c] = "asleep"
        /\ at' \in [Client -> HeldT] /\ at'[c] = h(s)
        /\ \A d \in Client \ {c} : Rests(d)
        BY <1>0, <1>1, <1>3, <2>1, Moved, Zenon DEF Where
  <2>3. engine'[s] = f(s)
        BY <1>0, <2>1 DEF Shape
  <2>4. Stands(c)' /\ Steady(s)
        BY <1>1, <1>2, <1>3, <2>2, <2>3, Zenon DEF Stands, On, Holding, Steady, Loaded
  <2>5. engine[s].state = "LOADED"
        BY <1>1, Zenon DEF Loaded
  <2> QED
      BY <1>2, <1>3, <1>4, <1>5, <1>7, <2>1, <2>2, <2>4, <2>5, UnloadWorks, ZenonT(30)
<1> QED
    BY <1>8, <1>9

LEMMA UnloadAwakesStep ==
    ASSUME EInv, NEW c \in Client, UnloadAwakes(c)
    PROVE  EInv'
<1>0. /\ Shape /\ Slots /\ Alone /\ Pinned /\ \A d \in Client : Stands(d)
      BY DEF EInv
<1>1. /\ pc[c] = "awake" /\ UNCHANGED <<lease, nextGeneration, closing, manager>>
      /\ UNCHANGED at /\ Ending' = Ending
      BY DEF UnloadAwakes, Ending
<1>2. PICK s \in Slot : /\ s = at[c].slot /\ engine[s].state = "DRAINING"
                        /\ engine[s].generation = at[c].generation
      BY <1>0, <1>1 DEF Stands, On
<1>3. Drain(c, s, engine[s])
      BY <1>2 DEF UnloadAwakes
<1>4. \A l \in Lease : lease[l].slot = s => closing
      BY <1>0, <1>2, NowhereIs, ZenonT(30) DEF Pinned
<1>5. \A d \in Client \ {c} : pc[d] \in Moving => at[d].slot # s
      BY <1>0, <1>1, <1>2 DEF Alone, Moving
<1>6. CASE engine[s].active_work = 0
  <2> DEFINE e == [engine[s] EXCEPT !.state = "UNLOADING"]
  <2>1. /\ e \in EngineT /\ e.state = "UNLOADING"
        /\ e.alias = engine[s].alias /\ e.generation = engine[s].generation
        /\ e.active_work = engine[s].active_work /\ e.open = engine[s].open
        /\ e.model_lease_count = engine[s].model_lease_count
        BY SlotIs DEF EngineT, State
  <2>2. engine' = [engine EXCEPT ![s] = e] /\ pc' = [pc EXCEPT ![c] = "close"]
        BY <1>3, <1>6 DEF Drain
  <2> HIDE DEF e
  <2>3. /\ pc' \in [Client -> Where] /\ pc'[c] = "close"
        /\ at' \in [Client -> HeldT] /\ at'[c] = at[c]
        /\ \A d \in Client \ {c} : Rests(d)
    <3>1. at' = [at EXCEPT ![c] = at[c]] /\ at[c] \in HeldT
          BY <1>0, <1>1 DEF Shape
    <3> QED
        BY <1>0, <2>2, <3>1, Moved, Zenon DEF Where
  <2>4. engine'[s] = e
        BY <1>0, <2>2 DEF Shape
  <2>5. Stands(c)'
        BY <1>2, <2>1, <2>3, <2>4, Zenon DEF Stands, On, Holding
  <2>6. \A d \in Client \ {c} : at[d].slot = s => pc[d] \in {"idle", "tail"}
        BY <1>0, <1>5, <1>6, NobodyHolds DEF Shape, Where, Moving, Holding
  <2> QED
      BY <1>1, <1>2, <1>4, <1>5, <2>1, <2>2, <2>3, <2>5, <2>6, UnloadWorks, Zenon
<1>7. CASE engine[s].active_work # 0
  <2>1. engine' = [engine EXCEPT ![s] = engine[s]] /\ pc' = [pc EXCEPT ![c] = "asleep"]
        BY <1>3, <1>7 DEF Drain
  <2>2. engine' = engine /\ engine' \in [Slot -> EngineT]
        BY <1>0, <2>1 DEF Shape
  <2>3. Same(engine[s], engine'[s]) /\ "asleep" \in Where
        BY <2>2 DEF Same, Where
  <2> QED
      BY <1>1, <1>2, <2>1, <2>2, <2>3, CallGoesOn, Zenon
<1> QED
    BY <1>6, <1>7

LEMMA UnloadPublishStep ==
    ASSUME EInv, NEW c \in Client, UnloadPublish(c)
    PROVE  EInv'
<1>0. /\ Shape /\ Slots /\ Alone /\ Pinned /\ \A d \in Client : Stands(d)
      BY DEF EInv
<1>1. /\ pc[c] = "publish" /\ UNCHANGED <<lease, nextGeneration, closing>>
      /\ UNCHANGED at /\ Ending' = Ending
      /\ pc' = Woken([pc EXCEPT ![c] = "tail"])
      BY BroadcastIs DEF UnloadPublish
<1>2. PICK s \in Slot : s = at[c].slot /\ engine[s].state = "UNLOADING"
      BY <1>0, <1>1, Zenon DEF Stands, On
<1>3. PICK w \in {"FAILED", "UNLOADED"} : engine' = [engine EXCEPT ![s].state = w]
      BY <1>2, Zenon DEF UnloadPublish
<1> DEFINE e == [engine[s] EXCEPT !.state = w]
<1>4. /\ e \in EngineT /\ e.state = w
      /\ e.alias = engine[s].alias /\ e.generation = engine[s].generation
      /\ e.active_work = engine[s].active_work /\ e.open = engine[s].open
      /\ e.model_lease_count = engine[s].model_lease_count
      BY SlotIs DEF EngineT, State
<1>5. engine' = [engine EXCEPT ![s] = e]
      BY <1>3
<1> HIDE DEF e
<1>6. /\ pc' \in [Client -> Where] /\ pc'[c] = "tail"
      /\ at' \in [Client -> HeldT] /\ at'[c] = at[c]
      /\ \A d \in Client \ {c} : Rests(d)
  <2>1. at' = [at EXCEPT ![c] = at[c]] /\ at[c] \in HeldT
        BY <1>0, <1>1 DEF Shape
  <2> QED
      BY <1>0, <1>1, <2>1, Moved, Zenon DEF Where
<1>7. Stands(c)' /\ pc'[c] \notin Moving
      BY <1>6 DEF Stands, Holding, Moving
<1>8. \A d \in Client \ {c} : at[d].slot = s => pc[d] \in {"idle", "tail"}
      BY <1>0, <1>1, <1>2, Zenon DEF Stands, On, Holding, Shape, Where, Alone, Moving
<1>9. \A l \in Lease : lease[l].slot = s => closing
      BY <1>0, <1>2, NowhereIs DEF Pinned
<1> QED
    BY <1>1, <1>2, <1>4, <1>5, <1>6, <1>7, <1>8, <1>9, UnloadWorks, Zenon
-----------------------------------------------------------------------------
\* No call takes the step: it is one of a model lease or of the host.
LEMMA CallsRest ==
    ASSUME EInv, \A d \in Client : Rests(d), \A r \in Slot : Steady(r)
    PROVE  /\ Alone' /\ \A d \in Client : Stands(d)'
           /\ \A r \in Slot : Users(r)' = Users(r) /\ Finites(r)' = Finites(r)
<1>0. Alone /\ \A d \in Client : Stands(d)
      BY DEF EInv
<1>1. ASSUME NEW d \in Client PROVE Stands(d)'
      BY <1>0, StandKept
<1>2. \A d \in Client : at'[d] = at[d] /\ (pc'[d] \in Moving => pc[d] \in Moving)
      BY DEF Rests, Moving
<1>3. Alone'
      BY <1>0, <1>2 DEF Alone
<1>4. ASSUME NEW r \in Slot
      PROVE  Users(r)' = Users(r) /\ Finites(r)' = Finites(r)
  <2>1. /\ Users(r) \subseteq Client /\ Users(r)' \subseteq Client
        /\ Finites(r) \subseteq Client /\ Finites(r)' \subseteq Client
        BY DEF Users, Finites
  <2>2. \A d \in Client : /\ d \in Users(r)' <=> d \in Users(r)
                          /\ d \in Finites(r)' <=> d \in Finites(r)
        BY UserKept
  <2> QED
      BY <2>1, <2>2
<1> QED
    BY <1>1, <1>3, <1>4

LEMMA ModelLeaseAcquireStep ==
    ASSUME EInv, NEW l \in Lease, NEW a, ModelLeaseAcquire(l, a)
    PROVE  EInv'
<1>0. /\ Shape /\ Slots /\ Pinned /\ CountsExact /\ engine \in [Slot -> EngineT]
      BY DEF EInv, Shape
<1> DEFINE h(s) == [slot |-> s, generation |-> engine[s].generation]
<1>1. PICK s \in Slot : /\ Loaded(s)
                        /\ engine' = Counted(s, engine[s].active_work,
                                             engine[s].model_lease_count + 1)
                        /\ lease' = [lease EXCEPT ![l] = h(s)]
      BY FindIs, Zenon DEF ModelLeaseAcquire
<1>2. /\ lease[l] = Nowhere
      /\ UNCHANGED <<nextGeneration, closing, pc, at, manager>>
      BY DEF ModelLeaseAcquire
<1>3. h(s) \in HeldT /\ h(s).slot = s /\ h(s).generation = engine[s].generation
      BY SlotIs DEF HeldT
<1> HIDE DEF h
<1>4. /\ engine' \in [Slot -> EngineT]
      /\ \A r \in Slot : r # s => engine'[r] = engine[r]
      /\ Same(engine[s], engine'[s]) /\ engine'[s].open = engine[s].open
      /\ engine'[s].active_work = engine[s].active_work
      /\ engine'[s].model_lease_count = engine[s].model_lease_count + 1
  <2>1. engine[s].active_work \in Nat /\ engine[s].model_lease_count + 1 \in Nat
        BY SlotIs
  <2> QED
      BY <1>0, <1>1, <2>1, CountedIs
<1>5. /\ lease' \in [Lease -> HeldT] /\ lease'[l] = h(s)
      /\ \A m \in Lease \ {l} : lease'[m] = lease[m]
      BY <1>0, <1>1, <1>3 DEF Shape
<1>6. /\ Alone' /\ \A d \in Client : Stands(d)'
      /\ \A r \in Slot : Users(r)' = Users(r) /\ Finites(r)' = Finites(r)
  <2>1. (\A d \in Client : Rests(d)) /\ \A r \in Slot : Steady(r)
        BY <1>2, <1>4 DEF Rests, Steady, Same
  <2> QED
      BY <2>1, CallsRest, ZenonT(30)
<1>7. Shape' /\ Slots'
      BY <1>0, <1>2, <1>4, <1>5, ZenonT(30) DEF Shape, Slots, Same, Ending
<1>8. Pinned'
  <2> SUFFICES ASSUME NEW m \in Lease, lease'[m] # Nowhere
               PROVE  /\ lease'[m].slot \in Slot
                      /\ engine'[lease'[m].slot].generation = lease'[m].generation
                      /\ closing \/ engine'[lease'[m].slot].state = "LOADED"
                      /\ engine'[lease'[m].slot].state # "LOADING"
      BY <1>2 DEF Pinned
  <2>1. \A r \in Slot : engine'[r].generation = engine[r].generation
                        /\ engine'[r].state = engine[r].state
        BY <1>4, ZenonT(30) DEF Same
  <2>2. CASE m = l
        BY <1>1, <1>3, <1>5, <2>1, <2>2, ZenonT(30) DEF Loaded
  <2>3. CASE m # l
        BY <1>0, <1>5, <2>1, <2>3 DEF Pinned
  <2> QED
      BY <2>2, <2>3
<1>9. CountsExact'
  <2>1. \A r \in Slot : r # s => Leases(r)' = Leases(r)
    <3> SUFFICES ASSUME NEW r \in Slot, r # s PROVE Leases(r)' = Leases(r)
        OBVIOUS
    <3>1. \A m \in Lease : lease'[m].slot = r <=> lease[m].slot = r
          BY <1>2, <1>3, <1>5, NowhereIs
    <3> QED
        BY <3>1 DEF Leases
  <2>2. Leases(s)' \ {l} = Leases(s) \ {l} /\ l \notin Leases(s) /\ l \in Leases(s)'
        BY <1>2, <1>3, <1>5, NowhereIs DEF Leases
  <2>3. Cardinality(Leases(s)') = Cardinality(Leases(s)) + 1
        BY <2>2, OneJoins, UsersFinite, ZenonT(30)
  <2>4. /\ engine'[s].active_work = Cardinality(Users(s)')
        /\ engine'[s].model_lease_count =
              Cardinality(Leases(s)') + Cardinality(Finites(s)')
    <3>1. Cardinality(Leases(s)) \in Nat /\ Cardinality(Finites(s)) \in Nat
          BY UsersFinite
    <3> QED
        BY <1>4, <1>6, <2>3, <3>1, SlotIs
  <2> QED
      BY <1>0, <1>4, <1>6, <2>1, <2>4, CountsKept
<1> QED
    BY <1>6, <1>7, <1>8, <1>9 DEF EInv

LEMMA ModelLeaseReleaseStep ==
    ASSUME EInv, NEW l \in Lease, ModelLeaseRelease(l)
    PROVE  EInv'
<1>0. /\ Shape /\ Slots /\ Pinned /\ CountsExact /\ engine \in [Slot -> EngineT]
      /\ pc \in [Client -> Where]
      BY DEF EInv, Shape
<1>1. /\ lease[l] # Nowhere /\ lease' = [lease EXCEPT ![l] = Nowhere]
      /\ pc' = Woken(pc) /\ UNCHANGED <<nextGeneration, closing, at>>
      /\ Ending' = Ending
      BY BroadcastIs, ZenonT(30) DEF ModelLeaseRelease
<1>2. PICK s \in Slot : /\ s = lease[l].slot /\ engine[s].model_lease_count > 0
                        /\ engine' = Counted(s, engine[s].active_work,
                                             engine[s].model_lease_count - 1)
      BY <1>0, <1>1, ZenonT(30) DEF ModelLeaseRelease, Pinned
<1>3. /\ engine' \in [Slot -> EngineT]
      /\ \A r \in Slot : r # s => engine'[r] = engine[r]
      /\ Same(engine[s], engine'[s]) /\ engine'[s].open = engine[s].open
      /\ engine'[s].active_work = engine[s].active_work
      /\ engine'[s].model_lease_count = engine[s].model_lease_count - 1
  <2>1. engine[s].active_work \in Nat /\ engine[s].model_lease_count - 1 \in Nat
        BY <1>2, SlotIs
  <2> DEFINE w == engine[s].active_work
             m == engine[s].model_lease_count - 1
  <2>2. engine' = Counted(s, w, m) /\ w \in Nat /\ m \in Nat
        BY <1>2, <2>1
  <2> HIDE DEF w, m
  <2>3. /\ engine' \in [Slot -> EngineT]
        /\ \A r \in Slot : r # s => engine'[r] = engine[r]
        /\ Same(engine[s], engine'[s]) /\ engine'[s].open = engine[s].open
        /\ engine'[s].active_work = w /\ engine'[s].model_lease_count = m
        BY <1>0, <2>2, CountedIs
  <2> QED
      BY <2>3 DEF w, m
<1>4. /\ lease' \in [Lease -> HeldT] /\ lease'[l] = Nowhere
      /\ \A m \in Lease \ {l} : lease'[m] = lease[m]
      BY <1>0, <1>1, NowhereIs DEF Shape
<1>5. pc' \in [Client -> Where] /\ \A d \in Client : Rests(d)
      BY <1>0, <1>1, WokenIs DEF Rests
<1>6. /\ Alone' /\ \A d \in Client : Stands(d)'
      /\ \A r \in Slot : Users(r)' = Users(r) /\ Finites(r)' = Finites(r)
  <2>1. \A r \in Slot : Steady(r)
        BY <1>3 DEF Steady, Same
  <2> QED
      BY <1>5, <2>1, CallsRest
<1>7. Shape' /\ Slots'
      BY <1>0, <1>1, <1>3, <1>4, <1>5 DEF Shape, Slots, Same
<1>8. Pinned'
      BY <1>0, <1>1, <1>3, <1>4, ZenonT(30) DEF Pinned, Same
<1>9. CountsExact'
  <2>1. \A r \in Slot : r # s => Leases(r)' = Leases(r)
    <3> SUFFICES ASSUME NEW r \in Slot, r # s PROVE Leases(r)' = Leases(r)
        OBVIOUS
    <3>1. \A m \in Lease : lease'[m].slot = r <=> lease[m].slot = r
          BY <1>2, <1>4, NowhereIs
    <3> QED
        BY <3>1 DEF Leases
  <2>2. Leases(s)' \ {l} = Leases(s) \ {l} /\ l \in Leases(s) /\ l \notin Leases(s)'
        BY <1>2, <1>4, NowhereIs DEF Leases
  <2>3. Cardinality(Leases(s)') = Cardinality(Leases(s)) - 1
        BY <2>2, OneLeaves, UsersFinite, ZenonT(30)
  <2>4. /\ engine'[s].active_work = Cardinality(Users(s)')
        /\ engine'[s].model_lease_count =
              Cardinality(Leases(s)') + Cardinality(Finites(s)')
    <3>1. Cardinality(Leases(s)) \in Nat /\ Cardinality(Finites(s)) \in Nat
          BY UsersFinite
    <3> QED
        BY <1>3, <1>6, <2>3, <3>1, SlotIs
  <2> QED
      BY <1>0, <1>3, <1>6, <2>1, <2>4, CountsKept
<1> QED
    BY <1>6, <1>7, <1>8, <1>9 DEF EInv

\* The host drains, closes or cancels: names, generations and counts stay.
LEMMA HostWorks ==
    ASSUME EInv, engine' \in [Slot -> EngineT],
           UNCHANGED <<lease, nextGeneration, pc, at>>,
           closing => closing', Ending' => closing',
           \A r \in Slot :
              /\ engine'[r].alias = engine[r].alias /\ Steady(r)
              /\ engine'[r].active_work = engine[r].active_work
              /\ engine'[r].model_lease_count = engine[r].model_lease_count
              /\ engine'[r].open = engine[r].open \/ Ending'
              /\ engine'[r].state = engine[r].state \/ closing'
              /\ Ending' => engine[r].active_work = 0,
           Ending => Ending'
    PROVE  EInv'
<1>0. Shape /\ Slots /\ Pinned /\ CountsExact
      BY ZenonT(30) DEF EInv
<1>1. /\ Alone' /\ \A d \in Client : Stands(d)'
      /\ \A r \in Slot : Users(r)' = Users(r) /\ Finites(r)' = Finites(r)
  <2>1. \A d \in Client : Rests(d)
        BY DEF Rests
  <2> QED
      BY <2>1, CallsRest, Zenon
<1>2. Shape'
      BY <1>0 DEF Shape
<1>3. Slots'
  <2> SUFFICES ASSUME NEW r \in Slot
               PROVE  /\ engine'[r].generation < nextGeneration
                      /\ engine'[r].alias = NoAlias => engine'[r].state = "UNLOADED"
                      /\ engine'[r].state \in {"LOADED", "DRAINING"} =>
                            engine'[r].open \/ Ending'
                      /\ Ending' => engine'[r].active_work = 0
      BY ZenonT(30) DEF Slots
  <2> QED
      BY <1>0, ZenonT(30) DEF Slots, Steady
<1>4. Pinned'
      BY <1>0, PinnedSteady, ZenonT(30)
<1>5. CountsExact'
  <2>1. \A r \in Slot : Leases(r)' = Leases(r)
        BY DEF Leases
  <2> QED
      BY <1>0, <1>1, <2>1, CountsSame, ZenonT(30)
<1> QED
    BY <1>1, <1>2, <1>3, <1>4, <1>5, ZenonT(30) DEF EInv

LEMMA CancelAllStep == ASSUME EInv, CancelAll PROVE EInv'
<1>0. engine \in [Slot -> EngineT] /\ Shape /\ Slots
      BY DEF EInv, Shape
<1>1. /\ UNCHANGED <<lease, nextGeneration, pc, at>> /\ closing' = closing
      /\ Ending' = Ending
      BY DEF CancelAll, Ending
<1>2. ASSUME NEW r \in Slot
      PROVE  /\ engine'[r] \in EngineT /\ Same(engine[r], engine'[r])
             /\ engine'[r].active_work = engine[r].active_work
             /\ engine'[r].model_lease_count = engine[r].model_lease_count
             /\ engine'[r].open = engine[r].open
  <2> DEFINE b == engine[r].alias \notin Finite
             e == [engine[r] EXCEPT !.stopped = b]
  <2>1. b \in BOOLEAN
        BY Zenon
  <2> HIDE DEF b
  <2>2. /\ e \in EngineT /\ Same(engine[r], e)
        /\ e.active_work = engine[r].active_work
        /\ e.model_lease_count = engine[r].model_lease_count
        /\ e.open = engine[r].open
        BY <1>0, <2>1 DEF EngineT, Same
  <2>3. engine'[r] = e \/ engine'[r] = engine[r]
        BY DEF CancelAll, b
  <2>4. Same(engine[r], engine[r]) /\ engine[r] \in EngineT
        BY <1>0 DEF Same
  <2> HIDE DEF e
  <2> QED
      BY <2>2, <2>3, <2>4
<1>3. engine' = [r \in Slot |-> engine'[r]]
      BY DEF CancelAll
<1>4. engine' \in [Slot -> EngineT]
      BY <1>2, <1>3
<1>5. (Ending => closing) /\ \A r \in Slot : Ending => engine[r].active_work = 0
      BY <1>0 DEF Shape, Slots
<1>6. \A r \in Slot : Steady(r) /\ engine'[r].alias = engine[r].alias
                      /\ engine'[r].state = engine[r].state
      BY <1>2 DEF Same, Steady
<1> QED
    BY <1>1, <1>2, <1>4, <1>5, <1>6, HostWorks, Zenon

LEMMA CloseBeginStep == ASSUME EInv, CloseBegin PROVE EInv'
<1>0. engine \in [Slot -> EngineT] /\ Shape /\ Slots
      BY DEF EInv, Shape
<1>1. UNCHANGED <<lease, nextGeneration, pc, at>> /\ closing'
      BY Zenon DEF CloseBegin
<1>2. ASSUME NEW r \in Slot
      PROVE  /\ engine'[r] \in EngineT /\ engine'[r].alias = engine[r].alias
             /\ Steady(r)
             /\ engine'[r].active_work = engine[r].active_work
             /\ engine'[r].model_lease_count = engine[r].model_lease_count
             /\ engine'[r].open = engine[r].open
  <2> DEFINE b == engine[r].alias \notin Finite
             e == [engine[r] EXCEPT !.state = "DRAINING", !.stopped = b]
  <2>1. b \in BOOLEAN
        BY Zenon
  <2> HIDE DEF b
  <2>2. /\ e \in EngineT /\ e.alias = engine[r].alias /\ e.state = "DRAINING"
        /\ e.generation = engine[r].generation
        /\ e.active_work = engine[r].active_work
        /\ e.model_lease_count = engine[r].model_lease_count
        /\ e.open = engine[r].open
        BY <1>0, <2>1, Zenon DEF EngineT, State
  <2>3. \/ engine[r].state = "LOADED" /\ engine'[r] = e
        \/ engine'[r] = engine[r]
        BY Zenon DEF CloseBegin, Loaded, b
  <2>4. engine[r] \in EngineT
        BY <1>0
  <2> HIDE DEF e
  <2> QED
      BY <2>2, <2>3, <2>4 DEF Steady
<1>3. engine' = [r \in Slot |-> engine'[r]]
      BY Zenon DEF CloseBegin
<1>4. engine' \in [Slot -> EngineT]
      BY <1>2, <1>3
<1>5. /\ Ending' => \A r \in Slot : engine'[r].active_work = 0
      /\ ~Ending
      BY Zenon DEF CloseBegin, DrainAll, Ending
<1> QED
    BY <1>1, <1>2, <1>4, <1>5, HostWorks

LEMMA CloseAwakesStep == ASSUME EInv, Waits, CloseAwakes PROVE EInv'
<1>0. engine \in [Slot -> EngineT] /\ Shape /\ Slots
      BY DEF EInv, Shape
<1>1. UNCHANGED <<engine, lease, nextGeneration, closing, pc, at>> /\ ~Ending
      BY DEF CloseAwakes, Ending
<1>2. Ending' => \A r \in Slot : engine[r].active_work = 0
      BY DEF CloseAwakes, DrainAll, Ending
<1>3. \A r \in Slot : Steady(r)
      BY <1>1 DEF Steady
<1>4. closing
      BY ZenonT(30) DEF CloseAwakes, Waits
<1> QED
    BY <1>0, <1>1, <1>2, <1>3, <1>4, HostWorks

LEMMA CloseEngineStep == ASSUME EInv, Waits, CloseEngine PROVE EInv'
<1>0. engine \in [Slot -> EngineT] /\ Shape /\ Slots
      BY DEF EInv, Shape
<1>1. UNCHANGED <<lease, nextGeneration, closing, pc, at>> /\ Ending /\ Ending'
      BY DEF CloseEngine, Ending
<1>2. closing /\ \A r \in Slot : engine[r].active_work = 0
      BY <1>0, <1>1 DEF Shape, Slots
<1>3. PICK s \in Slot : \E e \in Closed(engine[s]) : engine' = [engine EXCEPT ![s] = e]
      BY Zenon DEF Waits, CloseEngine, Lowest
<1>4. PICK e \in Closed(engine[s]) : engine' = [engine EXCEPT ![s] = e]
      BY <1>3, Zenon
<1>5. /\ e \in EngineT /\ Same(engine[s], e)
      /\ e.active_work = engine[s].active_work
      /\ e.model_lease_count = engine[s].model_lease_count
      BY SlotIs, ClosedIs
<1>6. /\ engine' \in [Slot -> EngineT] /\ engine'[s] = e
      /\ \A r \in Slot : r # s => engine'[r] = engine[r]
      BY <1>0, <1>4, <1>5, UpdateIs, ZenonT(30)
<1>7. \A r \in Slot : /\ engine'[r].alias = engine[r].alias /\ Steady(r)
                      /\ engine'[r].active_work = engine[r].active_work
                      /\ engine'[r].model_lease_count = engine[r].model_lease_count
      BY <1>5, <1>6 DEF Same, Steady
<1> QED
    BY <1>1, <1>2, <1>6, <1>7, HostWorks

LEMMA FreeStep == ASSUME EInv, Free PROVE EInv'
<1>0. engine \in [Slot -> EngineT] /\ Shape /\ Slots
      BY DEF EInv, Shape
<1>1. UNCHANGED <<engine, lease, nextGeneration, closing, pc, at>> /\ Ending /\ Ending'
      BY DEF Free, Ending
<1>2. closing /\ \A r \in Slot : engine[r].active_work = 0
      BY <1>0, <1>1 DEF Shape, Slots
<1>3. \A r \in Slot : Steady(r)
      BY <1>1 DEF Steady
<1> QED
    BY <1>0, <1>1, <1>2, <1>3, HostWorks

\* The host closes slots, and only once it refuses new work.
LEMMA WaitsKept == Waits /\ [Next]_vars => Waits'
<1> SUFFICES ASSUME Waits, [Next]_vars PROVE Waits'
    OBVIOUS
<1>1. ASSUME NEW c \in Client, ClientStep(c) PROVE Waits'
  <2>1. ASSUME NEW a, NEW g,
               \/ LoadReserve(c, a) \/ FiniteBegin(c, a)
               \/ Acquire(c, a, g) \/ UnloadBegin(c, a, g)
        PROVE  UNCHANGED <<closing, manager, retiring>>
    <3>1. CASE LoadReserve(c, a)
          BY <3>1, ZenonT(30) DEF LoadReserve
    <3>2. CASE FiniteBegin(c, a)
          BY <3>2, ZenonT(30) DEF FiniteBegin
    <3>3. CASE Acquire(c, a, g)
          BY <3>3 DEF Acquire
    <3>4. CASE UnloadBegin(c, a, g)
          BY <3>4 DEF UnloadBegin
    <3> QED
        BY <2>1, <3>1, <3>2, <3>3, <3>4
  <2>2. UNCHANGED <<closing, manager, retiring>>
        BY <1>1, <2>1 DEF ClientStep
  <2> QED
      BY <2>2 DEF Waits
<1>2. ASSUME NEW c \in Client, CallStep(c) \/ SpuriousWakeup(c) PROVE Waits'
  <2>1. CASE LoadPublish(c)
        BY <2>1 DEF LoadPublish, Broadcast, Waits
  <2>2. CASE Release(c)
        BY <2>2 DEF Release, Broadcast, Waits
  <2>3. CASE FiniteEnd(c)
        BY <2>3 DEF FiniteEnd, Broadcast, Waits
  <2>4. CASE UnloadPublish(c)
        BY <2>4 DEF UnloadPublish, Broadcast, Waits
  <2>5. CASE UnloadClose(c)
        BY <2>5 DEF UnloadClose, Waits
  <2>6. CASE Tail(c) \/ Submit(c) \/ SpuriousWakeup(c)
        BY <2>6 DEF Tail, Submit, SpuriousWakeup, Waits
  <2>7. CASE Execute(c)
        BY <2>7 DEF Execute, Waits
  <2>8. CASE UnloadAwakes(c)
        BY <2>8, ZenonT(30) DEF UnloadAwakes, Waits
  <2> QED
      BY <1>2, <2>1, <2>2, <2>3, <2>4, <2>5, <2>6, <2>7, <2>8 DEF CallStep
<1>3. CASE \/ \E l \in Lease : ModelLeaseRelease(l)
           \/ \E l \in Lease, a \in Alias : ModelLeaseAcquire(l, a)
      BY <1>3 DEF ModelLeaseRelease, ModelLeaseAcquire, Broadcast, Waits
<1>4. CASE CancelAll \/ CloseBegin \/ Freed \/ UNCHANGED vars
      BY <1>4, Zenon DEF CancelAll, CloseBegin, DrainAll, Freed, vars, Waits
<1>5. CASE HostStep
      BY <1>5 DEF HostStep, CloseAwakes, DrainAll, CloseEngine, Free, Waits
<1> QED
    BY <1>1, <1>2, <1>3, <1>4, <1>5 DEF Next

LEMMA StepKept == EInv /\ Waits /\ [Next]_vars => EInv'
<1> SUFFICES ASSUME EInv, Waits, [Next]_vars PROVE EInv'
    OBVIOUS
<1>1. ASSUME NEW c \in Client, ClientStep(c) PROVE EInv'
      BY <1>1, LoadReserveStep, FiniteBeginStep, AcquireStep, UnloadBeginStep
      DEF ClientStep
<1>2. ASSUME NEW c \in Client, CallStep(c) PROVE EInv'
      BY <1>2, LoadPublishStep, TailStep, SubmitStep, ExecuteStep, ReleaseStep,
         FiniteEndStep, UnloadAwakesStep, UnloadCloseStep, UnloadPublishStep
      DEF CallStep
<1>3. ASSUME NEW c \in Client, SpuriousWakeup(c) PROVE EInv'
      BY <1>3, SpuriousWakeupStep
<1>4. ASSUME NEW l \in Lease, ModelLeaseRelease(l) PROVE EInv'
      BY <1>4, ModelLeaseReleaseStep
<1>5. ASSUME NEW l \in Lease, NEW a \in Alias, ModelLeaseAcquire(l, a) PROVE EInv'
      BY <1>5, ModelLeaseAcquireStep
<1>6. CASE CancelAll
      BY <1>6, CancelAllStep
<1>7. CASE CloseBegin
      BY <1>7, CloseBeginStep
<1>8. CASE HostStep
      BY <1>8, CloseAwakesStep, CloseEngineStep, FreeStep DEF HostStep
<1>9. CASE UNCHANGED vars
  <2>1. UNCHANGED <<engine, lease, nextGeneration, closing, pc, at, manager>>
        BY <1>9 DEF vars
  <2>2. Shape /\ Slots /\ engine \in [Slot -> EngineT]
        BY DEF EInv, Shape
  <2>3. Ending' = Ending /\ (Ending => closing)
        /\ \A r \in Slot : Steady(r) /\ (Ending => engine[r].active_work = 0)
        BY <2>1, <2>2 DEF Ending, Steady, Shape, Slots
  <2> QED
      BY <2>1, <2>2, <2>3, HostWorks
<1>10. CASE Freed
      BY <1>9, <1>10 DEF Freed
<1> QED
    BY <1>1, <1>2, <1>3, <1>4, <1>5, <1>6, <1>7, <1>8, <1>9, <1>10 DEF Next
-----------------------------------------------------------------------------
(***************************************************************************)
(* The theorems.                                                           *)
(***************************************************************************)
\* The inductive invariant holds in every reachable state.
THEOREM EngineInvariance == Spec => [](EInv /\ Waits)
<1>1. Init => EInv /\ Waits
      BY EInit DEF Init, Waits
<1>2. EInv /\ Waits /\ [Next]_vars => (EInv /\ Waits)'
      BY StepKept, WaitsKept
<1> QED
    BY <1>1, <1>2, PTL DEF Spec

\* Work under a lease finds the generation it acquired, with its resources
\* open, until it releases the lease: neither unload, a later load nor
\* engine_manager_close takes them away.
THEOREM LeasesProtect == Spec => []LeaseProtects
<1>1. EInv => LeaseProtects
  <2> SUFFICES ASSUME EInv, NEW c \in Client, Holding(c)
               PROVE  /\ engine[at[c].slot].generation = at[c].generation
                      /\ engine[at[c].slot].state \in {"LOADED", "DRAINING"}
                      /\ engine[at[c].slot].open
      BY DEF LeaseProtects
  <2>1. On(c, {"LOADED", "DRAINING"})
        BY DEF EInv, Stands
  <2>2. engine[at[c].slot].active_work > 0
        BY HolderIs
  <2>3. ~Ending
        BY <2>1, <2>2 DEF EInv, Slots, On
  <2> QED
      BY <2>1, <2>3 DEF EInv, Slots, On
<1> QED
    BY <1>1, EngineInvariance, PTL

\* active_work and model_lease_count count exactly the calls and the leases
\* that acquire, finite execution and the model leases have left unreleased.
THEOREM CountsAreExact == Spec => []CountsExact
<1>1. EInv => CountsExact
      BY DEF EInv
<1> QED
    BY <1>1, EngineInvariance, PTL

\* A model lease keeps its exact generation loaded until it is released or
\* the host finishes.
THEOREM ModelLeasesPin == Spec => []ModelLeasePins
<1>1. EInv => ModelLeasePins
      BY DEF EInv, Pinned, ModelLeasePins
<1> QED
    BY <1>1, EngineInvariance, PTL

\* A step makes no slot loaded and begins no load.
Quiet(r) == \/ engine'[r].state = engine[r].state
            \/ engine'[r].state \notin {"LOADED", "LOADING"}

LEMMA CountedState ==
    ASSUME engine \in [Slot -> EngineT], NEW s, NEW w, NEW m,
           engine' = Counted(s, w, m)
    PROVE  \A r \in Slot : Quiet(r)
<1> DEFINE e == [engine[s] EXCEPT !.active_work = w, !.model_lease_count = m]
<1>1. engine' = [engine EXCEPT ![s] = e]
      BY DEF Counted
<1>2. s \in Slot => e.state = engine[s].state
      BY DEF EngineT
<1> HIDE DEF e
<1> QED
    BY <1>1, <1>2 DEF Quiet

\* A new engine e in slot s, when it is not one that begins a load or ends it.
LEMMA UpdateState ==
    ASSUME engine \in [Slot -> EngineT], NEW s, NEW e,
           engine' = [engine EXCEPT ![s] = e],
           s \in Slot => \/ e.state = engine[s].state
                         \/ e.state \notin {"LOADED", "LOADING"}
    PROVE  \A r \in Slot : Quiet(r)
BY DEF Quiet

LEMMA ClientQuiet ==
    ASSUME EInv, NEW c, NEW a, NEW g,
           FiniteBegin(c, a) \/ Acquire(c, a, g) \/ UnloadBegin(c, a, g)
    PROVE  \A r \in Slot : Quiet(r)
<1>0. engine \in [Slot -> EngineT]
      BY DEF EInv, Shape
<1>1. CASE FiniteBegin(c, a)
  <2>1. PICK s : engine' = Counted(s, engine[s].active_work + 1,
                                   engine[s].model_lease_count + 1)
        BY <1>1, Zenon DEF FiniteBegin
  <2> QED
      BY <1>0, <2>1, CountedState
<1>2. CASE Acquire(c, a, g)
  <2>1. PICK s : engine' = Counted(s, engine[s].active_work + 1,
                                   engine[s].model_lease_count)
        BY <1>2, ZenonT(30) DEF Acquire
  <2> QED
      BY <1>0, <2>1, CountedState, ZenonT(30)
<1>3. CASE UnloadBegin(c, a, g)
  <2> DEFINE f(s) == [engine[s] EXCEPT !.state = "DRAINING"]
  <2>1. PICK s \in Slot : Drain(c, s, f(s))
        BY <1>3, FindIs DEF UnloadBegin
  <2>2. f(s).state = "DRAINING" /\ [f(s) EXCEPT !.state = "UNLOADING"].state = "UNLOADING"
        BY <1>0 DEF EngineT
  <2> HIDE DEF f
  <2>3. \/ engine' = [engine EXCEPT ![s] = [f(s) EXCEPT !.state = "UNLOADING"]]
        \/ engine' = [engine EXCEPT ![s] = f(s)]
        BY <2>1 DEF Drain
  <2> QED
      BY <1>0, <2>2, <2>3, UpdateState, Zenon
<1> QED
    BY <1>1, <1>2, <1>3

LEMMA CallQuiet ==
    ASSUME EInv, NEW c \in Client, CallStep(c) \/ SpuriousWakeup(c), ~LoadPublish(c)
    PROVE  \A r \in Slot : Quiet(r)
<1>0. engine \in [Slot -> EngineT]
      BY ZenonT(30) DEF EInv, Shape
<1>1. CASE Tail(c) \/ Submit(c) \/ SpuriousWakeup(c)
      BY <1>1 DEF Tail, Submit, SpuriousWakeup, Quiet
<1>2. CASE Execute(c)
  <2>1. PICK n : engine' = [engine EXCEPT ![at[c].slot].sessions = n]
        BY <1>2, Zenon DEF Execute
  <2> DEFINE e == [engine[at[c].slot] EXCEPT !.sessions = n]
  <2>2. at[c].slot \in Slot => e.state = engine[at[c].slot].state
        BY <1>0 DEF EngineT
  <2>3. engine' = [engine EXCEPT ![at[c].slot] = e]
        BY <2>1
  <2> HIDE DEF e
  <2> QED
      BY <1>0, <2>2, <2>3, UpdateState, Zenon
<1>3. CASE Release(c)
  <2> DEFINE s == at[c].slot
             n == engine[s].active_work - 1
             m == engine[s].model_lease_count
  <2>1. engine' = Counted(s, n, m) \/ engine' = engine
        BY <1>3, Zenon DEF Release
  <2> HIDE DEF s, n, m
  <2> QED
      BY <1>0, <2>1, CountedState DEF Quiet
<1>4. CASE FiniteEnd(c)
  <2> DEFINE s == at[c].slot
             n == engine[s].active_work - 1
             m == engine[s].model_lease_count - 1
  <2>1. engine' = Counted(s, n, m)
        BY <1>4 DEF FiniteEnd
  <2> HIDE DEF s, n, m
  <2> QED
      BY <1>0, <2>1, CountedState, ZenonT(30)
<1>5. CASE UnloadAwakes(c)
  <2> DEFINE s == at[c].slot
             f == [engine[s] EXCEPT !.state = "UNLOADING"]
  <2>1. s \in Slot => f.state = "UNLOADING"
        BY <1>0 DEF EngineT
  <2>2. \/ engine' = [engine EXCEPT ![s] = f]
        \/ engine' = [engine EXCEPT ![s] = engine[s]]
        BY <1>5 DEF UnloadAwakes, Drain
  <2> HIDE DEF s, f
  <2> QED
      BY <1>0, <2>1, <2>2, UpdateState
<1>6. CASE UnloadClose(c)
  <2>1. PICK s \in Slot : s = at[c].slot
        BY <1>6 DEF EInv, UnloadClose, Stands, On
  <2>2. PICK e \in Closed(engine[s]) : engine' = [engine EXCEPT ![s] = e]
        BY <1>6, <2>1, Zenon DEF UnloadClose
  <2>3. e.state = engine[s].state
        BY <1>0, ClosedIs DEF Same
  <2> QED
      BY <1>0, <2>2, <2>3, UpdateState, ZenonT(30)
<1>7. CASE UnloadPublish(c)
  <2> DEFINE s == at[c].slot
             v == IF engine[s].registry THEN "FAILED" ELSE "UNLOADED"
             f == [engine[s] EXCEPT !.state = v]
  <2>1. v \notin {"LOADED", "LOADING"}
        OBVIOUS
  <2>2. engine' = [engine EXCEPT ![s] = f]
        BY <1>7 DEF UnloadPublish
  <2> HIDE DEF v
  <2>3. s \in Slot => f.state = v
        BY <1>0 DEF EngineT
  <2> HIDE DEF s, f
  <2> QED
      BY <1>0, <2>1, <2>2, <2>3, UpdateState, ZenonT(30)
<1> QED
    BY <1>1, <1>2, <1>3, <1>4, <1>5, <1>6, <1>7 DEF CallStep

LEMMA HostQuiet ==
    ASSUME EInv, Waits,
           \/ CancelAll \/ CloseBegin \/ HostStep \/ Freed \/ UNCHANGED vars
           \/ \E l \in Lease : ModelLeaseRelease(l)
           \/ \E l \in Lease, a \in Alias : ModelLeaseAcquire(l, a)
    PROVE  \A r \in Slot : Quiet(r)
<1>0. engine \in [Slot -> EngineT]
      BY DEF EInv, Shape
<1>1. CASE CancelAll
  <2> SUFFICES ASSUME NEW r \in Slot PROVE Quiet(r)
      OBVIOUS
  <2>1. \/ engine'[r] = engine[r]
        \/ engine'[r] = [engine[r] EXCEPT !.stopped = engine[r].alias \notin Finite]
        BY <1>1 DEF CancelAll
  <2> QED
      BY <1>0, <2>1 DEF EngineT, Quiet
<1>2. CASE CloseBegin
  <2> SUFFICES ASSUME NEW r \in Slot PROVE Quiet(r)
      OBVIOUS
  <2>1. \/ engine'[r] = engine[r]
        \/ engine'[r] = [engine[r] EXCEPT !.state = "DRAINING",
                                          !.stopped = engine[r].alias \notin Finite]
        BY <1>2, Zenon DEF CloseBegin
  <2> QED
      BY <1>0, <2>1, Zenon DEF EngineT, Quiet
<1>3. CASE CloseAwakes \/ Free \/ Freed \/ UNCHANGED vars
      BY <1>3, Zenon DEF CloseAwakes, Free, Freed, vars, Quiet
<1>4. CASE CloseEngine
  <2>1. PICK s \in Slot : \E e \in Closed(engine[s]) : engine' = [engine EXCEPT ![s] = e]
        BY <1>4, Zenon DEF Waits, CloseEngine, Lowest
  <2>2. PICK e \in Closed(engine[s]) : engine' = [engine EXCEPT ![s] = e]
        BY <2>1, Zenon
  <2>3. e.state = engine[s].state
        BY <1>0, ClosedIs DEF Same
  <2> QED
      BY <1>0, <2>2, <2>3, UpdateState, Zenon
<1>5. ASSUME NEW l \in Lease, ModelLeaseRelease(l) PROVE \A r \in Slot : Quiet(r)
  <2> DEFINE s == lease[l].slot
             n == engine[s].active_work
             m == engine[s].model_lease_count - 1
  <2>1. engine' = Counted(s, n, m)
        BY <1>5, Zenon DEF ModelLeaseRelease
  <2> HIDE DEF s, n, m
  <2> QED
      BY <1>0, <2>1, CountedState
<1>6. ASSUME NEW l \in Lease, NEW a, ModelLeaseAcquire(l, a)
      PROVE  \A r \in Slot : Quiet(r)
  <2>1. PICK s : engine' = Counted(s, engine[s].active_work,
                                   engine[s].model_lease_count + 1)
        BY <1>6, Zenon DEF ModelLeaseAcquire
  <2> QED
      BY <1>0, <2>1, CountedState
<1> QED
    BY <1>1, <1>2, <1>3, <1>4, <1>5, <1>6 DEF HostStep

\* Slot s becomes loaded only by the publication of its load, and a load
\* begins only under a generation above all there have been.
Revives(s) ==
    engine'[s].state # engine[s].state =>
        /\ engine'[s].state = "LOADED" => engine[s].state = "LOADING"
        /\ engine'[s].state = "LOADING" =>
              \A r \in Slot : engine'[s].generation > engine[r].generation

LEMMA ReserveIsNew ==
    ASSUME EInv, NEW c, NEW a, LoadReserve(c, a), NEW r \in Slot
    PROVE  Revives(r)
<1>0. engine \in [Slot -> EngineT] /\ Slots /\ nextGeneration \in Nat
      BY DEF EInv, Shape
<1> DEFINE e == [Empty EXCEPT !.alias = a, !.state = "LOADING",
                              !.generation = nextGeneration, !.active_work = 1]
<1>1. PICK s : engine' = [engine EXCEPT ![s] = e]
      BY Zenon DEF LoadReserve
<1>2. e.state = "LOADING" /\ e.generation = nextGeneration
      BY DEF Empty
<1> HIDE DEF e
<1>3. engine'[r] = engine[r] \/ engine'[r] = e
      BY <1>0, <1>1
<1>4. \A q \in Slot : nextGeneration > engine[q].generation
      BY <1>0 DEF Slots, EngineT
<1> QED
    BY <1>2, <1>3, <1>4 DEF Revives

LEMMA PublishIsLoaded ==
    ASSUME EInv, NEW c \in Client, LoadPublish(c), NEW r \in Slot
    PROVE  Revives(r)
<1>0. engine \in [Slot -> EngineT] /\ at[c] \in HeldT /\ Stands(c)
      BY DEF EInv, Shape
<1>1. PICK s \in Slot : s = at[c].slot /\ engine[s].state = "LOADING"
      BY <1>0 DEF LoadPublish, Stands, On
<1> DEFINE o == Opened(at[c])
<1>2. o \in EngineT
      BY <1>0, <1>1, Zenon DEF Opened, Empty, EngineT, State, HeldT
<1>3. PICK e : engine' = [engine EXCEPT ![s] = e] /\ e.state \in {"LOADED", "FAILED"}
  <2> HIDE DEF o
  <2>1. CASE engine' = [engine EXCEPT ![s] = [o EXCEPT !.state = "LOADED"]]
    <3>1. [o EXCEPT !.state = "LOADED"].state = "LOADED"
          BY <1>2 DEF EngineT
    <3> QED
        BY <2>1, <3>1, Zenon
  <2>2. ASSUME NEW f \in Closed(o),
               engine' = [engine EXCEPT ![s] = [f EXCEPT !.state = "FAILED"]]
        PROVE  \E e : /\ engine' = [engine EXCEPT ![s] = e]
                      /\ e.state \in {"LOADED", "FAILED"}
    <3>1. f \in EngineT
          BY <1>2, ClosedIs
    <3>2. [f EXCEPT !.state = "FAILED"].state = "FAILED"
          BY <3>1 DEF EngineT
    <3> QED
        BY <2>2, <3>2, Zenon
  <2> QED
      BY <1>1, <2>1, <2>2, Zenon DEF LoadPublish, o
<1>4. engine'[r] = engine[r] \/ (r = s /\ engine'[r] = e)
      BY <1>0, <1>3
<1> QED
    BY <1>1, <1>3, <1>4 DEF Revives

\* A generation that has left the loaded state never becomes loaded again:
\* only engine_manager_load publishes a loaded slot, and it begins under a
\* generation that no slot has had before.
THEOREM GenerationsNeverRevive == Spec => NoRevival
<1>1. EInv /\ Waits /\ [Next]_vars => \A s \in Slot : Revives(s)
  <2> SUFFICES ASSUME EInv, Waits, [Next]_vars, NEW s \in Slot PROVE Revives(s)
      OBVIOUS
  <2>1. ASSUME NEW c \in Client, ClientStep(c) PROVE Revives(s)
        BY <2>1, ReserveIsNew, ClientQuiet, ZenonT(30) DEF ClientStep, Quiet, Revives
  <2>2. ASSUME NEW c \in Client, CallStep(c) \/ SpuriousWakeup(c) PROVE Revives(s)
        BY <2>2, PublishIsLoaded, CallQuiet DEF Quiet, Revives
  <2>3. CASE \/ CancelAll \/ CloseBegin \/ HostStep \/ Freed \/ UNCHANGED vars
             \/ \E l \in Lease : ModelLeaseRelease(l)
             \/ \E l \in Lease, a \in Alias : ModelLeaseAcquire(l, a)
        BY <2>3, HostQuiet DEF Quiet, Revives
  <2> QED
      BY <2>1, <2>2, <2>3 DEF Next
<1> QED
    BY <1>1, EngineInvariance, PTL DEF Spec, NoRevival, Revives
=============================================================================
