----------------------- MODULE ProgressSchedulerProofs -----------------------
(***************************************************************************)
(* Proofs about the progress table of the scheduler, for every number of   *)
(* clients, handles and places, and every cooperative width.               *)
(***************************************************************************)
EXTENDS ProgressScheduler, FiniteSetTheorems, TLAPS

(***************************************************************************)
(* What each operation on a table does to its fields.                      *)
(***************************************************************************)
LEMMA DequeueFields ==
    ASSUME NEW t \in Table, NEW K \in SUBSET Slot
    PROVE  LET u == Dequeue(t, K) IN
           /\ u.holder = t.holder /\ u.queued = t.queued \ K
           /\ u.active = t.active /\ u.cancelled = t.cancelled
           /\ u.ahead = [s \in Slot |-> IF s \in K THEN {} ELSE t.ahead[s] \ K]
           /\ u.inUseCount = t.inUseCount /\ u.activeCount = t.activeCount
           /\ u.readyCount = t.readyCount - Cardinality(K)
BY DEF Dequeue, Table

LEMMA EnqueueFields ==
    ASSUME NEW t \in Table, NEW s \in Slot
    PROVE  LET u == Enqueue(t, s) IN
           /\ u.holder = t.holder /\ u.queued = t.queued \cup {s}
           /\ u.active = t.active \ {s} /\ u.cancelled = t.cancelled \ {s}
           /\ u.ahead = [t.ahead EXCEPT ![s] = t.queued]
           /\ u.inUseCount = t.inUseCount /\ u.activeCount = t.activeCount
           /\ u.readyCount = t.readyCount + 1
BY DEF Enqueue, Table

LEMMA DeactivateFields ==
    ASSUME NEW t \in Table, NEW s \in t.active
    PROVE  LET u == Deactivate(t, s) IN
           /\ u.holder = t.holder /\ u.queued = t.queued
           /\ u.active = t.active \ {s} /\ u.cancelled = t.cancelled
           /\ u.ahead = t.ahead
           /\ u.inUseCount = t.inUseCount /\ u.activeCount = t.activeCount - 1
           /\ u.readyCount = t.readyCount
BY DEF Deactivate, Table

LEMMA DeactivateNothing ==
    ASSUME NEW t, NEW s, s \notin t.active PROVE Deactivate(t, s) = t
BY DEF Deactivate
-----------------------------------------------------------------------------
(***************************************************************************)
(* What a table satisfies between and inside the critical sections: its    *)
(* counters are those of its flags, the queued slots are ordered, and no   *)
(* two active slots carry the same sequence.                               *)
(***************************************************************************)
UsedBy(t) == {s \in Slot : t.holder[s] # NoClient}

Ordered(t) ==
    /\ \A r, s \in t.queued : r # s => r \in t.ahead[s] \/ s \in t.ahead[r]
    /\ \A s \in Slot : t.ahead[s] \subseteq t.queued /\ s \notin t.ahead[s]
    /\ \A q, r, s \in t.queued : q \in t.ahead[r] /\ r \in t.ahead[s] => q \in t.ahead[s]

Exclusive(t) == \A r, s \in t.active :
                   r # s => HandleOf[t.holder[r]] # HandleOf[t.holder[s]]

Counted(t) == /\ t.inUseCount = Cardinality(UsedBy(t))
              /\ t.readyCount = Cardinality(t.queued)
              /\ t.activeCount = Cardinality(t.active)
              /\ t.activeCount <= Limit

TabOK(t) == /\ t \in Table
            /\ Ordered(t) /\ Exclusive(t) /\ Counted(t)
            /\ t.active \cup t.queued \cup t.cancelled \subseteq UsedBy(t)
            /\ t.active \cap t.queued = {}

\* Sets of slots are finite.
LEMMA SlotsFinite ==
    ASSUME NEW S \in SUBSET Slot PROVE IsFiniteSet(S) /\ Cardinality(S) \in Nat
<1>1. IsFiniteSet(Slot)
      BY FS_Interval, ConstantsAssumption DEF Slot
<1> QED
    BY <1>1, FS_Subset, FS_CardinalityType

LEMMA SlotsApart ==
    ASSUME NEW S \in SUBSET Slot, NEW K \in SUBSET S
    PROVE  /\ Cardinality(S \ K) = Cardinality(S) - Cardinality(K)
           /\ Cardinality(K) <= Cardinality(S)
<1>1. IsFiniteSet(S) /\ IsFiniteSet(K)
      BY SlotsFinite
<1>2. S \cap K = K
      OBVIOUS
<1> QED
    BY <1>1, <1>2, FS_Difference, FS_Subset, ZenonT(30)

LEMMA SlotsTogether ==
    ASSUME NEW S \in SUBSET Slot, NEW K \in SUBSET Slot, S \cap K = {}
    PROVE  Cardinality(S \cup K) = Cardinality(S) + Cardinality(K)
<1>1. IsFiniteSet(S) /\ IsFiniteSet(K)
      BY SlotsFinite
<1>2. Cardinality(S \cap K) = 0
      BY FS_EmptySet
<1>3. Cardinality(S) \in Nat /\ Cardinality(K) \in Nat
      BY SlotsFinite
<1>4. Cardinality(S \cup K) =
         Cardinality(S) + Cardinality(K) - Cardinality(S \cap K)
      BY <1>1, FS_Union
<1> QED
    BY <1>2, <1>3, <1>4

LEMMA OneSlot == ASSUME NEW s \in Slot PROVE Cardinality({s}) = 1
BY FS_Singleton, Zenon

LEMMA DequeueOK ==
    ASSUME NEW t, TabOK(t), NEW K \in SUBSET t.queued
    PROVE  TabOK(Dequeue(t, K))
<1> DEFINE u == Dequeue(t, K)
<1>1. t \in Table /\ K \in SUBSET Slot
      BY DEF TabOK, Table
<1>2. /\ u.holder = t.holder /\ u.queued = t.queued \ K
      /\ u.active = t.active /\ u.cancelled = t.cancelled
      /\ u.ahead = [s \in Slot |-> IF s \in K THEN {} ELSE t.ahead[s] \ K]
      /\ u.inUseCount = t.inUseCount /\ u.activeCount = t.activeCount
      /\ u.readyCount = t.readyCount - Cardinality(K)
      BY <1>1, DequeueFields
<1>3. u.readyCount = Cardinality(u.queued) /\ u.readyCount \in Nat
  <2>1. t.queued \in SUBSET Slot
        BY <1>1 DEF Table
  <2>2. Cardinality(t.queued \ K) = Cardinality(t.queued) - Cardinality(K)
        BY <2>1, SlotsApart
  <2>3. Cardinality(t.queued \ K) \in Nat
        BY <2>1, SlotsFinite
  <2> QED
      BY <1>2, <2>2, <2>3 DEF TabOK, Counted
<1>4. u \in Table
  <2>1. u = [t EXCEPT !.queued = u.queued, !.ahead = u.ahead,
                      !.readyCount = u.readyCount]
        BY <1>2 DEF Dequeue
  <2>2. u.ahead \in [Slot -> SUBSET Slot] /\ u.queued \in SUBSET Slot
        BY <1>1, <1>2 DEF Table
  <2> HIDE DEF u
  <2> QED
      BY <1>1, <1>3, <2>1, <2>2, Zenon DEF Table
<1> HIDE DEF u
<1>5. Ordered(u)
      BY <1>1, <1>2 DEF TabOK, Ordered, Table
<1>6. Exclusive(u)
      BY <1>2 DEF TabOK, Exclusive
<1>7. Counted(u) /\ UsedBy(u) = UsedBy(t)
      BY <1>2, <1>3 DEF TabOK, Counted, UsedBy
<1>8. TabOK(u)
      BY <1>2, <1>4, <1>5, <1>6, <1>7 DEF TabOK
<1> QED
    BY <1>8 DEF u

LEMMA CancelReadyOK ==
    ASSUME NEW t, TabOK(t), NEW K \in SUBSET t.queued
    PROVE  LET u == CancelReady(t, K) IN
           /\ TabOK(u)
           /\ u.holder = t.holder /\ u.active = t.active
           /\ u.queued = t.queued \ K /\ u.cancelled = t.cancelled \cup K
           /\ u.ahead = [s \in Slot |-> IF s \in K THEN {} ELSE t.ahead[s] \ K]
<1> DEFINE d == Dequeue(t, K)
           u == CancelReady(t, K)
<1>1. t \in Table /\ K \in SUBSET Slot
      BY DEF TabOK, Table
<1>2. TabOK(d) /\ d \in Table
      BY DequeueOK DEF TabOK
<1>3. /\ d.holder = t.holder /\ d.active = t.active
      /\ d.queued = t.queued \ K /\ d.cancelled = t.cancelled
      /\ d.ahead = [s \in Slot |-> IF s \in K THEN {} ELSE t.ahead[s] \ K]
      BY <1>1, DequeueFields, Zenon
<1>4. u = [d EXCEPT !.cancelled = d.cancelled \cup K]
      BY DEF CancelReady
<1> HIDE DEF d, u
<1>5. /\ u \in Table /\ u.cancelled = d.cancelled \cup K
      /\ u.holder = d.holder /\ u.active = d.active /\ u.queued = d.queued
      /\ u.ahead = d.ahead /\ u.inUseCount = d.inUseCount
      /\ u.readyCount = d.readyCount /\ u.activeCount = d.activeCount
      BY <1>1, <1>2, <1>4 DEF Table
<1>6. K \subseteq UsedBy(t) /\ UsedBy(u) = UsedBy(d) /\ UsedBy(d) = UsedBy(t)
      BY <1>3, <1>5 DEF TabOK, UsedBy
<1>7. Ordered(u) /\ Exclusive(u) /\ Counted(u)
      BY <1>2, <1>5, <1>6 DEF TabOK, Ordered, Exclusive, Counted
<1>8. TabOK(u)
      BY <1>2, <1>5, <1>6, <1>7 DEF TabOK
<1> QED
    BY <1>3, <1>5, <1>8 DEF u

LEMMA ActivateOK ==
    ASSUME NEW t, TabOK(t), NEW G \in SUBSET Candidates(t),
           t.activeCount + Cardinality(G) <= Limit
    PROVE  LET u == Activate(t, G) IN
           /\ TabOK(u)
           /\ u.holder = t.holder /\ u.active = t.active \cup G
           /\ u.queued = t.queued \ G /\ u.cancelled = t.cancelled
<1> DEFINE d == Dequeue(t, G)
           u == Activate(t, G)
<1>1. t \in Table /\ G \in SUBSET Slot /\ G \in SUBSET t.queued
      BY DEF TabOK, Table, Candidates
<1>2. TabOK(d) /\ d \in Table
      BY <1>1, DequeueOK DEF TabOK
<1>3. /\ d.holder = t.holder /\ d.active = t.active
      /\ d.queued = t.queued \ G /\ d.cancelled = t.cancelled
      /\ d.ahead = [s \in Slot |-> IF s \in G THEN {} ELSE t.ahead[s] \ G]
      /\ d.inUseCount = t.inUseCount /\ d.activeCount = t.activeCount
      /\ d.readyCount = t.readyCount - Cardinality(G)
      BY <1>1, DequeueFields, Zenon
<1>4. u = [d EXCEPT !.active = d.active \cup G,
                    !.activeCount = d.activeCount + Cardinality(G)]
      BY DEF Activate
<1> HIDE DEF d, u
<1>5. d.activeCount + Cardinality(G) \in Nat /\ d.active \cup G \in SUBSET Slot
  <2>1. Cardinality(G) \in Nat
        BY <1>1, SlotsFinite
  <2> QED
      BY <1>1, <1>2, <2>1 DEF Table
<1>6. /\ u \in Table /\ u.active = d.active \cup G
      /\ u.holder = d.holder /\ u.cancelled = d.cancelled /\ u.queued = d.queued
      /\ u.ahead = d.ahead /\ u.inUseCount = d.inUseCount
      /\ u.readyCount = d.readyCount
      /\ u.activeCount = d.activeCount + Cardinality(G)
      BY <1>1, <1>2, <1>4, <1>5, Zenon DEF Table
<1>7. G \subseteq UsedBy(t) /\ UsedBy(u) = UsedBy(d) /\ UsedBy(d) = UsedBy(t)
      BY <1>1, <1>3, <1>6 DEF TabOK, UsedBy
<1>8. Exclusive(u)
  <2> SUFFICES ASSUME NEW r \in t.active \cup G, NEW s \in t.active \cup G, r # s
               PROVE  HandleOf[t.holder[r]] # HandleOf[t.holder[s]]
      BY <1>3, <1>6 DEF Exclusive
  <2>1. CASE r \in t.active /\ s \in t.active
        BY <2>1 DEF TabOK, Exclusive
  <2>2. CASE r \in t.active /\ s \in G
        BY <2>2 DEF Candidates, Conflict
  <2>3. CASE r \in G /\ s \in t.active
        BY <2>3 DEF Candidates, Conflict
  <2>4. CASE r \in G /\ s \in G
    <3>1. r \in t.ahead[s] \/ s \in t.ahead[r]
          BY <1>1, <2>4 DEF TabOK, Ordered
    <3> QED
        BY <2>4, <3>1 DEF Candidates, Conflict
  <2> QED
      BY <2>1, <2>2, <2>3, <2>4
<1>9. u.activeCount = Cardinality(u.active)
  <2>1. t.active \in SUBSET Slot /\ t.active \cap G = {}
        BY <1>1 DEF TabOK, Table
  <2>2. Cardinality(t.active \cup G) = Cardinality(t.active) + Cardinality(G)
        BY <1>1, <2>1, SlotsTogether
  <2> QED
      BY <1>3, <1>6, <2>2 DEF TabOK, Counted
<1>10. Ordered(u) /\ Counted(u)
  <2>1. Ordered(u)
        BY <1>2, <1>6 DEF TabOK, Ordered
  <2> QED
      BY <1>2, <1>3, <1>6, <1>7, <1>9, <2>1, Zenon DEF TabOK, Counted
<1>11. u.active \cap u.queued = {}
      BY <1>1, <1>3, <1>6 DEF TabOK
<1>12. TabOK(u)
      BY <1>2, <1>6, <1>7, <1>8, <1>10, <1>11 DEF TabOK
<1> QED
    BY <1>3, <1>6, <1>12 DEF u

\* A grant only moves queued slots, to the active or to the cancelled ones.
LEMMA GrantsOK ==
    ASSUME NEW t, TabOK(t), NEW u \in Grants(t)
    PROVE  /\ TabOK(u)
           /\ u.holder = t.holder /\ t.active \subseteq u.active
           /\ u.queued \subseteq t.queued
           /\ u.active \subseteq t.active \cup t.queued
<1>1. CASE u = t
      BY <1>1
<1>2. CASE ~(stopping \/ t.activeCount >= Limit)
  <2> DEFINE K == {s \in t.queued : t.holder[s] \in cancel}
             v == CancelReady(t, K)
  <2>1. /\ TabOK(v) /\ v.holder = t.holder /\ v.active = t.active
        /\ v.queued = t.queued \ K
        /\ v.ahead = [s \in Slot |-> IF s \in K THEN {} ELSE t.ahead[s] \ K]
        BY CancelReadyOK
  <2>2. PICK G \in SUBSET Candidates(v) : Grantable(v, G) /\ u = Activate(v, G)
        BY <1>2 DEF Grants
  <2> HIDE DEF v
  <2>3. /\ TabOK(u) /\ u.holder = v.holder /\ u.active = v.active \cup G
        /\ u.queued = v.queued \ G
        BY <2>1, <2>2, ActivateOK DEF Grantable
  <2>4. G \subseteq v.queued
        BY DEF Candidates
  <2> QED
      BY <2>1, <2>3, <2>4
<1> QED
    BY <1>1, <1>2 DEF Grants

\* A free slot is taken.
LEMMA ClaimOK ==
    ASSUME NEW t, TabOK(t), NEW c \in Client, NEW s \in Slot,
           t.holder[s] = NoClient
    PROVE  LET u == Claim(t, s, c) IN
           /\ TabOK(u) /\ u.holder = [t.holder EXCEPT ![s] = c]
           /\ u.active = t.active /\ u.queued = t.queued /\ u.ahead = t.ahead
           /\ s \notin u.active /\ s \notin u.queued
<1> DEFINE u == Claim(t, s, c)
<1>1. t \in Table
      BY DEF TabOK
<1>2. /\ u \in Table /\ u.holder = [t.holder EXCEPT ![s] = c]
      /\ u.active = t.active /\ u.queued = t.queued /\ u.cancelled = t.cancelled
      /\ u.ahead = t.ahead /\ u.inUseCount = t.inUseCount + 1
      /\ u.readyCount = t.readyCount /\ u.activeCount = t.activeCount
  <2> DEFINE h == [t.holder EXCEPT ![s] = c]
             n == t.inUseCount + 1
  <2>1. h \in [Slot -> Client \cup {NoClient}] /\ n \in Nat
        BY <1>1 DEF Table
  <2>2. u = [t EXCEPT !.holder = h, !.inUseCount = n]
        BY <1>1 DEF Claim, Table
  <2> HIDE DEF h, n, u
  <2>3. /\ u \in Table /\ u.holder = h /\ u.inUseCount = n
        /\ u.active = t.active /\ u.queued = t.queued /\ u.cancelled = t.cancelled
        /\ u.ahead = t.ahead
        /\ u.readyCount = t.readyCount /\ u.activeCount = t.activeCount
        BY <1>1, <2>1, <2>2, Zenon DEF Table
  <2> QED
      BY <2>3 DEF h, n
<1> HIDE DEF u
<1>3. UsedBy(u) = UsedBy(t) \cup {s} /\ s \notin UsedBy(t)
      BY <1>1, <1>2, ConstantsAssumption DEF UsedBy, Table
<1>4. s \notin t.active /\ s \notin t.queued
      BY <1>3 DEF TabOK
<1>5. u.inUseCount = Cardinality(UsedBy(u))
  <2>1. UsedBy(t) \in SUBSET Slot /\ UsedBy(t) \cap {s} = {}
        BY <1>3 DEF UsedBy
  <2>2. Cardinality(UsedBy(t) \cup {s}) = Cardinality(UsedBy(t)) + Cardinality({s})
        BY <2>1, SlotsTogether
  <2> QED
      BY <1>2, <1>3, <2>2, OneSlot DEF TabOK, Counted
<1>6. Ordered(u) /\ Counted(u)
      BY <1>2, <1>5 DEF TabOK, Ordered, Counted
<1>7. Exclusive(u)
      BY <1>1, <1>2, <1>4 DEF TabOK, Exclusive, Table
<1>8. TabOK(u)
      BY <1>2, <1>3, <1>6, <1>7 DEF TabOK
<1> QED
    BY <1>2, <1>4, <1>8 DEF u

LEMMA EnqueueOK ==
    ASSUME NEW t, TabOK(t), NEW s \in UsedBy(t),
           s \notin t.active, s \notin t.queued
    PROVE  LET u == Enqueue(t, s) IN
           /\ TabOK(u) /\ u.holder = t.holder /\ u.active = t.active
           /\ u.queued = t.queued \cup {s}
           /\ u.ahead = [t.ahead EXCEPT ![s] = t.queued]
<1> DEFINE u == Enqueue(t, s)
<1>1. t \in Table /\ s \in Slot
      BY DEF TabOK, UsedBy
<1>2. /\ u.holder = t.holder /\ u.queued = t.queued \cup {s}
      /\ u.active = t.active /\ u.cancelled = t.cancelled \ {s}
      /\ u.ahead = [t.ahead EXCEPT ![s] = t.queued]
      /\ u.inUseCount = t.inUseCount /\ u.activeCount = t.activeCount
      /\ u.readyCount = t.readyCount + 1
  <2>1. t.active \ {s} = t.active
        OBVIOUS
  <2> QED
      BY <1>1, <2>1, EnqueueFields, Zenon
<1>3. u \in Table
  <2> DEFINE q == t.queued \cup {s}
             x == t.cancelled \ {s}
             h == [t.ahead EXCEPT ![s] = t.queued]
             n == t.readyCount + 1
  <2>1. /\ q \in SUBSET Slot /\ x \in SUBSET Slot /\ n \in Nat
        /\ h \in [Slot -> SUBSET Slot] /\ t.active \ {s} \in SUBSET Slot
        BY <1>1 DEF Table
  <2>2. u = [t EXCEPT !.queued = q, !.active = t.active \ {s}, !.cancelled = x,
                      !.ahead = h, !.readyCount = n]
        BY <1>1 DEF Enqueue, Table
  <2> HIDE DEF u, q, x, h, n
  <2> QED
      BY <1>1, <2>1, <2>2, Zenon DEF Table
<1> HIDE DEF u
<1>4. Ordered(u)
      BY <1>1, <1>2 DEF TabOK, Ordered, Table
<1>5. u.readyCount = Cardinality(u.queued)
  <2>1. t.queued \in SUBSET Slot /\ t.queued \cap {s} = {}
        BY <1>1 DEF Table
  <2>2. Cardinality(t.queued \cup {s}) = Cardinality(t.queued) + Cardinality({s})
        BY <1>1, <2>1, SlotsTogether
  <2> QED
      BY <1>1, <1>2, <2>2, OneSlot DEF TabOK, Counted
<1>6. UsedBy(u) = UsedBy(t)
      BY <1>2 DEF UsedBy
<1>7. Exclusive(u) /\ Counted(u)
      BY <1>2, <1>5, <1>6 DEF TabOK, Exclusive, Counted
<1>8. TabOK(u)
      BY <1>2, <1>3, <1>4, <1>6, <1>7 DEF TabOK
<1> QED
    BY <1>2, <1>8 DEF u

LEMMA DeactivateOK ==
    ASSUME NEW t, TabOK(t), NEW s
    PROVE  LET u == Deactivate(t, s) IN
           /\ TabOK(u) /\ u.holder = t.holder /\ u.active = t.active \ {s}
           /\ u.queued = t.queued /\ u.ahead = t.ahead
<1> DEFINE u == Deactivate(t, s)
<1>1. CASE s \notin t.active
      BY <1>1, DeactivateNothing
<1>2. CASE s \in t.active
  <2>1. t \in Table /\ s \in Slot
        BY <1>2 DEF TabOK, Table
  <2>2. /\ u.holder = t.holder /\ u.queued = t.queued
        /\ u.active = t.active \ {s} /\ u.cancelled = t.cancelled
        /\ u.ahead = t.ahead
        /\ u.inUseCount = t.inUseCount /\ u.activeCount = t.activeCount - 1
        /\ u.readyCount = t.readyCount
        BY <1>2, <2>1, DeactivateFields
  <2>3. u.activeCount = Cardinality(u.active) /\ u.activeCount \in Nat
    <3>1. t.active \in SUBSET Slot /\ {s} \in SUBSET t.active
          BY <1>2, <2>1 DEF Table
    <3>2. Cardinality(t.active \ {s}) = Cardinality(t.active) - Cardinality({s})
          BY <3>1, SlotsApart
    <3>3. Cardinality(t.active \ {s}) \in Nat
          BY <3>1, SlotsFinite
    <3> QED
        BY <2>1, <2>2, <3>2, <3>3, OneSlot DEF TabOK, Counted
  <2>4. u \in Table
    <3>1. u = [t EXCEPT !.active = u.active, !.activeCount = u.activeCount]
          BY <1>2, <2>2 DEF Deactivate
    <3>2. u.active \in SUBSET Slot
          BY <2>1, <2>2 DEF Table
    <3> HIDE DEF u
    <3> QED
        BY <2>1, <2>3, <3>1, <3>2, Zenon DEF Table
  <2> HIDE DEF u
  <2>5. t.activeCount \in Nat /\ t.activeCount <= Limit /\ Limit \in Nat
        BY <2>1, ConstantsAssumption DEF TabOK, Counted, Table
  <2>6. u.activeCount <= Limit
        BY <2>2, <2>5
  <2>7. UsedBy(u) = UsedBy(t)
        BY <2>2 DEF UsedBy
  <2>8. Ordered(u) /\ Exclusive(u) /\ Counted(u)
        BY <2>2, <2>3, <2>6, <2>7 DEF TabOK, Ordered, Exclusive, Counted
  <2>9. TabOK(u)
        BY <2>2, <2>4, <2>7, <2>8 DEF TabOK
  <2> QED
      BY <2>2, <2>9 DEF u
<1> QED
    BY <1>1, <1>2

LEMMA ReleaseOK ==
    ASSUME NEW t, TabOK(t), NEW s \in UsedBy(t)
    PROVE  LET u == Release(t, s) IN
           /\ TabOK(u) /\ u.holder = [t.holder EXCEPT ![s] = NoClient]
           /\ u.active = t.active \ {s} /\ u.queued = t.queued \ {s}
           /\ s \notin t.queued => u.ahead = t.ahead
<1> DEFINE K == {s} \cap t.queued
           d == Deactivate(Dequeue(t, K), s)
           u == Release(t, s)
<1>1. t \in Table /\ s \in Slot /\ K \in SUBSET Slot /\ K \in SUBSET t.queued
      BY DEF TabOK, UsedBy
<1>2. TabOK(d) /\ d.holder = t.holder /\ d.active = t.active \ {s}
               /\ d.queued = t.queued \ {s}
               /\ (s \notin t.queued => d.ahead = t.ahead)
  <2> DEFINE v == Dequeue(t, K)
  <2>1. TabOK(v)
        BY <1>1, DequeueOK
  <2>2. /\ v.holder = t.holder /\ v.active = t.active /\ v.queued = t.queued \ K
        /\ v.ahead = [r \in Slot |-> IF r \in K THEN {} ELSE t.ahead[r] \ K]
        BY <1>1, DequeueFields, Zenon
  <2>4. t.queued \ K = t.queued \ {s} /\ (s \notin t.queued => K = {})
        OBVIOUS
  <2>5. s \notin t.queued => v.ahead = t.ahead
    <3>1. t.ahead = [r \in Slot |-> t.ahead[r]]
          BY <1>1 DEF Table
    <3> SUFFICES ASSUME K = {}
                 PROVE  v.ahead = t.ahead
        BY <2>4
    <3>2. \A r \in Slot : (IF r \in K THEN {} ELSE t.ahead[r] \ K) = t.ahead[r]
          BY Zenon
    <3>3. v.ahead = [r \in Slot |-> t.ahead[r]]
          BY <2>2, <3>2, Zenon
    <3> QED
        BY <3>1, <3>3
  <2> HIDE DEF v
  <2>3. LET x == Deactivate(v, s) IN
        /\ TabOK(x) /\ x.holder = v.holder /\ x.active = v.active \ {s}
        /\ x.queued = v.queued /\ x.ahead = v.ahead
        BY <2>1, DeactivateOK
  <2> QED
      BY <2>2, <2>3, <2>4, <2>5, Zenon DEF v
<1>3. u = [d EXCEPT !.holder = [d.holder EXCEPT ![s] = NoClient],
                    !.cancelled = d.cancelled \ {s},
                    !.inUseCount = d.inUseCount - 1]
      BY DEF Release
<1>4. d \in Table
      BY <1>2 DEF TabOK
<1> HIDE DEF d, u
<1> DEFINE h == [d.holder EXCEPT ![s] = NoClient]
           n == d.inUseCount - 1
<1>5. h \in [Slot -> Client \cup {NoClient}]
      BY <1>1, <1>4 DEF Table
<1>6. {r \in Slot : h[r] # NoClient} = UsedBy(d) \ {s} /\ s \in UsedBy(d)
      BY <1>1, <1>2, <1>4 DEF UsedBy, Table
<1>7. n = Cardinality(UsedBy(d) \ {s}) /\ n \in Nat
  <2>1. UsedBy(d) \in SUBSET Slot /\ {s} \in SUBSET UsedBy(d)
        BY <1>6 DEF UsedBy
  <2>2. Cardinality(UsedBy(d) \ {s}) = Cardinality(UsedBy(d)) - Cardinality({s})
        BY <2>1, SlotsApart
  <2>3. Cardinality(UsedBy(d) \ {s}) \in Nat
        BY <2>1, SlotsFinite
  <2> QED
      BY <1>1, <1>2, <2>2, <2>3, OneSlot DEF TabOK, Counted
<1> HIDE DEF h, n
<1>8. u = [d EXCEPT !.holder = h, !.cancelled = d.cancelled \ {s}, !.inUseCount = n]
      BY <1>3 DEF h, n
<1>9. /\ u \in Table /\ u.holder = h /\ u.inUseCount = n
      /\ u.active = d.active /\ u.queued = d.queued
      /\ u.cancelled = d.cancelled \ {s} /\ u.ahead = d.ahead
      /\ u.readyCount = d.readyCount /\ u.activeCount = d.activeCount
      BY <1>4, <1>5, <1>7, <1>8, Zenon DEF Table
<1>10. UsedBy(u) = UsedBy(d) \ {s}
      BY <1>6, <1>9 DEF UsedBy
<1>11. s \notin d.active /\ s \notin d.queued
      BY <1>2
<1>12. Exclusive(u)
      BY <1>2, <1>4, <1>9, <1>11 DEF TabOK, Exclusive, Table, h
<1>13. Ordered(u) /\ Counted(u)
      BY <1>2, <1>7, <1>9, <1>10, Zenon DEF TabOK, Ordered, Counted
<1>14. TabOK(u)
      BY <1>2, <1>9, <1>10, <1>11, <1>12, <1>13 DEF TabOK
<1> QED
    BY <1>2, <1>9, <1>14 DEF u, h
-----------------------------------------------------------------------------
(***************************************************************************)
(* The table and the clients.  Mine says what a client's lease is worth in *)
(* a table; Others, what a client that works on slot s relies on for the   *)
(* rest of the table.                                                      *)
(***************************************************************************)
Mine(t, d) ==
    /\ pc[d] \in {"hold", "yield"} =>
          lease[d] \in Slot /\ t.holder[lease[d]] = d /\ lease[d] \in t.active
    /\ pc[d] = "wait" => lease[d] \in Slot /\ t.holder[lease[d]] = d
    /\ pc[d] = "out" => lease[d] = NoSlot

Others(t, c, s) ==
    /\ \A d \in Client \ {c} : Mine(t, d)
    /\ \A r \in UsedBy(t) \ {s} : t.holder[r] # c /\ lease[t.holder[r]] = r

SchedInv ==
    /\ TabOK(tab)
    /\ pc \in [Client -> {"out", "wait", "hold", "yield"}]
    /\ lease \in [Client -> Slot \cup {NoSlot}]
    /\ \A d \in Client : Mine(tab, d)
    /\ \A r \in UsedBy(tab) : lease[tab.holder[r]] = r

LEMMA SchedInit == Init => SchedInv
<1> SUFFICES ASSUME Init PROVE SchedInv
    OBVIOUS
<1>1. tab \in Table
      BY DEF Init, Table
<1>2. /\ tab.queued = {} /\ tab.active = {} /\ tab.cancelled = {}
      /\ tab.inUseCount = 0 /\ tab.readyCount = 0 /\ tab.activeCount = 0
      /\ \A s \in Slot : tab.holder[s] = NoClient /\ tab.ahead[s] = {}
      BY DEF Init
<1>3. UsedBy(tab) = {}
      BY <1>2 DEF UsedBy
<1>4. Cardinality({}) = 0
      BY FS_EmptySet
<1>5. 0 <= Limit
      BY ConstantsAssumption
<1>6. TabOK(tab)
      BY <1>1, <1>2, <1>3, <1>4, <1>5 DEF TabOK, Ordered, Exclusive, Counted
<1> QED
    BY <1>3, <1>6, Zenon DEF Init, SchedInv, Mine

\* The others keep what they have through a change of c's slot.
LEMMA OthersKept ==
    ASSUME NEW t, NEW u, NEW c \in Client, NEW s \in Slot, Others(t, c, s),
           TabOK(t), TabOK(u), pc \in [Client -> {"out", "wait", "hold", "yield"}],
           \A r \in Slot \ {s} : u.holder[r] = t.holder[r],
           u.holder[s] \in {c, NoClient}, t.holder[s] \in {c, NoClient},
           t.active \ {s} \subseteq u.active
    PROVE  Others(u, c, s)
<1>1. ASSUME NEW d \in Client \ {c} PROVE Mine(u, d)
  <2>1. Mine(t, d) /\ d # NoClient
        BY ConstantsAssumption DEF Others
  <2> QED
      BY <2>1 DEF Mine
<1>2. ASSUME NEW r \in UsedBy(u) \ {s}
      PROVE  u.holder[r] # c /\ lease[u.holder[r]] = r
      BY DEF Others, UsedBy
<1> QED
    BY <1>1, <1>2 DEF Others

\* What c relies on, from the invariant.
LEMMA OthersHold ==
    ASSUME SchedInv, NEW c \in Client, NEW s, lease[c] \in {s, NoSlot}
    PROVE  Others(tab, c, s)
<1>1. ASSUME NEW r \in UsedBy(tab) \ {s} PROVE tab.holder[r] # c
  <2>1. lease[tab.holder[r]] = r /\ r \in Slot
        BY DEF SchedInv, UsedBy
  <2>2. NoSlot \notin Slot
        BY DEF NoSlot, Slot
  <2> QED
      BY <2>1, <2>2
<1> QED
    BY <1>1 DEF SchedInv, Others

\* c keeps slot s and goes on holding or waiting.
LEMMA SettledIn ==
    ASSUME NEW c \in Client, NEW s \in Slot, NEW t, TabOK(t), t.holder[s] = c,
           Others(t, c, s), pc \in [Client -> {"out", "wait", "hold", "yield"}],
           lease \in [Client -> Slot \cup {NoSlot}],
           NEW p \in {"wait", "hold"}, p = "hold" => s \in t.active,
           tab' = t, pc' = [pc EXCEPT ![c] = p], lease' = [lease EXCEPT ![c] = s]
    PROVE  SchedInv'
<1>1. ASSUME NEW d \in Client PROVE Mine(tab, d)'
      BY DEF Others, Mine
<1>2. ASSUME NEW r \in UsedBy(t) PROVE lease'[t.holder[r]] = r
  <2>1. CASE r = s
        BY <2>1
  <2>2. CASE r # s
    <3>1. t.holder[r] \in Client /\ t.holder[r] # c /\ lease[t.holder[r]] = r
          BY <2>2 DEF Others, UsedBy, TabOK, Table
    <3> QED
        BY <3>1
  <2> QED
      BY <2>1, <2>2
<1>3. UsedBy(tab)' = UsedBy(t)
      BY DEF UsedBy
<1> QED
    BY <1>1, <1>2, <1>3 DEF SchedInv, TabOK, Ordered, Exclusive, Counted, UsedBy

\* c gives slot s up.
LEMMA SettledOut ==
    ASSUME NEW c \in Client, NEW s \in Slot, NEW t, TabOK(t),
           t.holder[s] = NoClient,
           Others(t, c, s), pc \in [Client -> {"out", "wait", "hold", "yield"}],
           lease \in [Client -> Slot \cup {NoSlot}],
           tab' = t, pc' = [pc EXCEPT ![c] = "out"],
           lease' = [lease EXCEPT ![c] = NoSlot]
    PROVE  SchedInv'
<1>1. ASSUME NEW d \in Client PROVE Mine(tab, d)'
      BY DEF Others, Mine
<1>2. ASSUME NEW r \in UsedBy(t) PROVE lease'[t.holder[r]] = r
  <2>1. r # s
        BY DEF UsedBy
  <2>2. t.holder[r] \in Client /\ t.holder[r] # c /\ lease[t.holder[r]] = r
        BY <2>1 DEF Others, UsedBy, TabOK, Table
  <2> QED
      BY <2>2
<1>3. UsedBy(tab)' = UsedBy(t)
      BY DEF UsedBy
<1> QED
    BY <1>1, <1>2, <1>3 DEF SchedInv, TabOK, Ordered, Exclusive, Counted, UsedBy

\* c releases slot s of t.
LEMMA ReleasedOut ==
    ASSUME NEW c \in Client, NEW s \in Slot, NEW t, TabOK(t), t.holder[s] = c,
           Others(t, c, s), pc \in [Client -> {"out", "wait", "hold", "yield"}],
           lease \in [Client -> Slot \cup {NoSlot}],
           tab' = Release(t, s), pc' = [pc EXCEPT ![c] = "out"],
           lease' = [lease EXCEPT ![c] = NoSlot]
    PROVE  SchedInv'
<1> DEFINE u == Release(t, s)
<1>1. s \in UsedBy(t)
      BY ConstantsAssumption DEF UsedBy
<1>2. /\ TabOK(u) /\ u.holder = [t.holder EXCEPT ![s] = NoClient]
      /\ u.active = t.active \ {s}
      BY <1>1, ReleaseOK
<1>3. tab' = u
      OBVIOUS
<1> HIDE DEF u
<1>4. t.holder \in [Slot -> Client \cup {NoClient}]
      BY DEF TabOK, Table
<1>5. /\ \A r \in Slot \ {s} : u.holder[r] = t.holder[r]
      /\ u.holder[s] = NoClient
      BY <1>2, <1>4
<1>6. Others(u, c, s)
      BY <1>2, <1>5, OthersKept, Zenon
<1> QED
    BY <1>2, <1>3, <1>5, <1>6, SettledOut, Zenon

LEMMA SettleOK ==
    ASSUME NEW c \in Client, NEW s \in Slot, NEW t, TabOK(t), t.holder[s] = c,
           Others(t, c, s), pc \in [Client -> {"out", "wait", "hold", "yield"}],
           lease \in [Client -> Slot \cup {NoSlot}], Settle(c, s, t)
    PROVE  SchedInv'
<1>1. CASE /\ tab' = t /\ pc' = [pc EXCEPT ![c] = "wait"]
           /\ lease' = [lease EXCEPT ![c] = s]
      BY <1>1, SettledIn, Zenon
<1>2. CASE /\ s \in t.active /\ tab' = t /\ pc' = [pc EXCEPT ![c] = "hold"]
           /\ lease' = [lease EXCEPT ![c] = s]
      BY <1>2, SettledIn, Zenon
<1>3. CASE /\ tab' = Release(t, s) /\ pc' = [pc EXCEPT ![c] = "out"]
           /\ lease' = [lease EXCEPT ![c] = NoSlot]
      BY <1>3, ReleasedOut, Zenon
<1> QED
    BY <1>1, <1>2, <1>3 DEF Settle

\* Queue slot s of t again, grant and settle.
LEMMA QueuedOK ==
    ASSUME NEW c \in Client, NEW s \in Slot, NEW t, TabOK(t), t.holder[s] = c,
           s \notin t.active, s \notin t.queued, Others(t, c, s),
           pc \in [Client -> {"out", "wait", "hold", "yield"}],
           lease \in [Client -> Slot \cup {NoSlot}],
           NEW u \in Grants(Enqueue(t, s)), Settle(c, s, u)
    PROVE  SchedInv'
<1> DEFINE q == Enqueue(t, s)
<1>1. s \in UsedBy(t)
      BY ConstantsAssumption DEF UsedBy
<1>2. TabOK(q) /\ q.holder = t.holder /\ q.active = t.active
      BY <1>1, EnqueueOK, Zenon
<1>3. u \in Grants(q)
      OBVIOUS
<1> HIDE DEF q
<1>4. TabOK(u) /\ u.holder = q.holder /\ q.active \subseteq u.active
      BY <1>2, <1>3, GrantsOK
<1>5. Others(u, c, s)
      BY <1>2, <1>4, OthersKept
<1> QED
    BY <1>2, <1>4, <1>5, SettleOK

LEMMA SchedStep ==
    ASSUME SchedInv, [Next]_vars PROVE SchedInv'
<1>0. /\ TabOK(tab) /\ tab \in Table
      /\ pc \in [Client -> {"out", "wait", "hold", "yield"}]
      /\ lease \in [Client -> Slot \cup {NoSlot}]
      BY DEF SchedInv, TabOK
<1>1. ASSUME NEW c \in Client, Enter(c) PROVE SchedInv'
  <2>1. PICK s \in Slot :
           /\ tab.holder[s] = NoClient
           /\ \E t \in Grants(Enqueue(Claim(tab, s, c), s)) : Settle(c, s, t)
        BY <1>1, Zenon DEF Enter
  <2> DEFINE t == Claim(tab, s, c)
  <2>2. /\ TabOK(t) /\ t.holder = [tab.holder EXCEPT ![s] = c]
        /\ t.active = tab.active /\ s \notin t.active /\ s \notin t.queued
        BY <1>0, <2>1, ClaimOK
  <2>3. PICK u \in Grants(Enqueue(t, s)) : Settle(c, s, u)
        BY <2>1, Zenon
  <2> HIDE DEF t
  <2>4. /\ \A r \in Slot \ {s} : t.holder[r] = tab.holder[r]
        /\ t.holder[s] = c
        BY <1>0, <2>2 DEF Table
  <2>5. lease[c] = NoSlot
        BY <1>1 DEF Enter, SchedInv, Mine
  <2>6. Others(tab, c, s)
        BY <2>5, OthersHold
  <2>7. Others(t, c, s)
        BY <1>0, <2>1, <2>2, <2>4, <2>6, OthersKept, Zenon
  <2> QED
      BY <1>0, <2>2, <2>3, <2>4, <2>7, QueuedOK, Zenon
<1>2. ASSUME NEW c \in Client, WaitTurn(c) PROVE SchedInv'
  <2> DEFINE s == lease[c]
  <2>1. s \in Slot /\ tab.holder[s] = c
        BY <1>2 DEF WaitTurn, SchedInv, Mine
  <2>2. PICK t \in Grants(tab) : Settle(c, s, t)
        BY <1>2 DEF WaitTurn
  <2>3. TabOK(t) /\ t.holder = tab.holder /\ tab.active \subseteq t.active
        BY <1>0, <2>2, GrantsOK
  <2>4. Others(tab, c, s)
        BY OthersHold
  <2> HIDE DEF s
  <2>5. Others(t, c, s)
        BY <1>0, <2>1, <2>3, <2>4, OthersKept
  <2> QED
      BY <1>0, <2>1, <2>2, <2>3, <2>5, SettleOK
<1>3. ASSUME NEW c \in Client, YieldRequested(c) PROVE SchedInv'
      BY <1>3 DEF YieldRequested, Leased, SchedInv, Mine
<1>4. ASSUME NEW c \in Client, Requeue(c) PROVE SchedInv'
  <2> DEFINE s == lease[c]
             t == Deactivate(tab, s)
  <2>1. s \in Slot /\ tab.holder[s] = c /\ s \in tab.active
        BY <1>4 DEF Requeue, Leased
  <2>2. TabOK(t) /\ t.holder = tab.holder /\ t.active = tab.active \ {s}
                 /\ t.queued = tab.queued
        BY <1>0, DeactivateOK
  <2>3. s \notin t.active /\ s \notin t.queued
        BY <1>0, <2>1, <2>2 DEF TabOK
  <2>4. Others(tab, c, s)
        BY OthersHold
  <2>5. \/ /\ tab' = Release(t, s) /\ pc' = [pc EXCEPT ![c] = "out"]
           /\ lease' = [lease EXCEPT ![c] = NoSlot]
        \/ \E u \in Grants(Enqueue(t, s)) : Settle(c, s, u)
        BY <1>4 DEF Requeue
  <2> HIDE DEF s, t
  <2>6. Others(t, c, s)
        BY <1>0, <2>1, <2>2, <2>4, OthersKept
  <2> QED
      BY <1>0, <2>1, <2>2, <2>3, <2>5, <2>6, ReleasedOut, QueuedOK
<1>5. ASSUME NEW c \in Client, Leave(c) PROVE SchedInv'
  <2> DEFINE s == lease[c]
             t == Deactivate(tab, s)
             u == Release(t, s)
  <2>1. s \in Slot /\ tab.holder[s] = c
        BY <1>5 DEF Leave, Leased
  <2>2. TabOK(t) /\ t.holder = tab.holder /\ t.active = tab.active \ {s}
        BY <1>0, DeactivateOK
  <2>3. Others(tab, c, s)
        BY OthersHold
  <2>4. /\ tab' \in Grants(u) /\ pc' = [pc EXCEPT ![c] = "out"]
        /\ lease' = [lease EXCEPT ![c] = NoSlot]
        BY <1>5 DEF Leave
  <2>5. s \in UsedBy(t)
        BY <2>1, <2>2, ConstantsAssumption DEF UsedBy
  <2> HIDE DEF t
  <2>6. TabOK(u) /\ u.holder = [t.holder EXCEPT ![s] = NoClient]
                 /\ u.active = t.active \ {s}
        BY <2>2, <2>5, ReleaseOK
  <2> HIDE DEF s, u
  <2>7. PICK v \in Grants(u) : v = tab'
        BY <2>4
  <2>8. TabOK(v) /\ v.holder = u.holder /\ u.active \subseteq v.active
        BY <2>6, <2>7, GrantsOK
  <2>9. tab.holder \in [Slot -> Client \cup {NoClient}]
        BY <1>0 DEF Table
  <2>10. /\ \A r \in Slot \ {s} : v.holder[r] = tab.holder[r]
         /\ v.holder[s] = NoClient
        BY <2>1, <2>2, <2>6, <2>8, <2>9
  <2>11. Others(v, c, s)
        BY <1>0, <2>1, <2>2, <2>3, <2>6, <2>8, <2>10, OthersKept, Zenon
  <2> QED
      BY <1>0, <2>1, <2>4, <2>7, <2>8, <2>10, <2>11, SettledOut, Zenon
<1>6. CASE Close
  <2> DEFINE u == CancelReady(tab, tab.queued)
  <2>1. TabOK(u) /\ u.holder = tab.holder /\ u.active = tab.active
        BY <1>0, CancelReadyOK, Zenon
  <2>2. tab' = u /\ UNCHANGED <<pc, lease>>
        BY <1>6 DEF Close
  <2> HIDE DEF u
  <2>3. TabOK(tab')
        BY <2>1, <2>2
  <2>4. TabOK(tab)'
        BY <2>3 DEF TabOK, Ordered, Exclusive, Counted, UsedBy
  <2>5. UsedBy(tab)' = UsedBy(tab)
        BY <2>1, <2>2 DEF UsedBy
  <2> QED
      BY <2>1, <2>2, <2>4, <2>5 DEF SchedInv, Mine
<1>7. CASE UNCHANGED <<tab, pc, lease>>
      BY <1>7 DEF SchedInv, Mine, TabOK, Ordered, Exclusive, Counted, UsedBy
<1> QED
    BY <1>1, <1>2, <1>3, <1>4, <1>5, <1>6, <1>7 DEF Next, HolderStep, YieldResume,
       Transition, Cancel, CancelOver, WorkerFails, CloseChecks, Closed, vars

\* Inductive along every behaviour of the scheduler.
THEOREM SchedInvariance == Spec => []SchedInv
<1>1. SchedInv /\ [Next]_vars => SchedInv'
      BY SchedStep
<1> QED
    BY <1>1, SchedInit, PTL DEF Spec

\* One sequence is never advanced by two callers at a time: the grant compares
\* a candidate with the active slots and with the older queued ones, and that
\* is enough, because the queued slots are totally ordered.
THEOREM SequencesExclude == Spec => []SequenceExclusion
<1>1. SchedInv => SequenceExclusion
      BY DEF SchedInv, TabOK, Exclusive, SequenceExclusion
<1> QED
    BY <1>1, SchedInvariance, PTL

\* The counters the code tests never drift from the flags they count, and the
\* cooperative width is never exceeded.
THEOREM CountersAreExact == Spec => []CountersExact
<1>1. SchedInv => CountersExact
      BY DEF SchedInv, TabOK, Counted, UsedBy, InUse, CountersExact
<1> QED
    BY <1>1, SchedInvariance, PTL

\* Every slot in use belongs to exactly the client whose lease names it.
THEOREM LeasesAreExact == Spec => []LeaseExact
<1>1. SchedInv => LeaseExact
      BY DEF SchedInv, TabOK, UsedBy, InUse, Mine, Leased, LeaseExact
<1> QED
    BY <1>1, SchedInvariance, PTL
-----------------------------------------------------------------------------
(***************************************************************************)
(* Admission in FIFO order.  Of the queued work of one sequence that is    *)
(* not younger than r there is an oldest one, because every step to older  *)
(* work leaves fewer slots ahead; the grant looks at that one.             *)
(***************************************************************************)
LEMMA FewestAhead ==
    ASSUME NEW a, NEW S, NEW r \in S, S \subseteq Slot, a \in [Slot -> SUBSET Slot]
    PROVE  \E q \in S : \A p \in S : ~(Cardinality(a[p]) < Cardinality(a[q]))
<1> DEFINE N == {Cardinality(a[q]) : q \in S}
           R == OpToRel(<, Nat)
<1>1. N \subseteq Nat
      BY SlotsFinite
<1>2. N # {}
      OBVIOUS
<1>3. PICK x \in N : \A y \in N : ~ (<<y, x>> \in R)
  <2>1. IsWellFoundedOn(R, Nat)
        BY NatLessThanWellFounded, Zenon
  <2> HIDE DEF R, N
  <2> QED
      BY <1>1, <1>2, <2>1, WFMin, Zenon
<1>4. PICK q \in S : x = Cardinality(a[q])
      OBVIOUS
<1>5. ASSUME NEW p \in S, Cardinality(a[p]) < Cardinality(a[q]) PROVE FALSE
  <2>1. Cardinality(a[p]) \in N
        OBVIOUS
  <2>2. <<Cardinality(a[p]), x>> \in R
        BY <1>1, <1>4, <1>5, <2>1 DEF OpToRel
  <2> QED
      BY <1>3, <2>1, <2>2, Zenon
<1> QED
    BY <1>5

\* Work that is ahead of other work has fewer slots ahead of it.
LEMMA FewerAhead ==
    ASSUME NEW t, TabOK(t), NEW q \in t.queued, NEW p \in t.ahead[q]
    PROVE  p \in t.queued /\ Cardinality(t.ahead[p]) < Cardinality(t.ahead[q])
<1>1. t \in Table /\ p \in Slot /\ q \in Slot
      BY DEF TabOK, Table
<1>2. p \in t.queued /\ p \notin t.ahead[p] /\ t.ahead[p] \subseteq t.queued
      BY <1>1 DEF TabOK, Ordered
<1>3. t.ahead[p] \subseteq t.ahead[q] \ {p}
      BY <1>2 DEF TabOK, Ordered
<1>4. t.ahead[q] \in SUBSET Slot /\ t.ahead[q] \ {p} \in SUBSET Slot
      BY <1>1 DEF Table
<1>5. Cardinality(t.ahead[q] \ {p}) = Cardinality(t.ahead[q]) - 1
      BY <1>1, <1>4, SlotsApart, OneSlot, ZenonT(30)
<1>6. Cardinality(t.ahead[p]) <= Cardinality(t.ahead[q] \ {p})
      BY <1>3, <1>4, SlotsApart, Zenon
<1>7. Cardinality(t.ahead[p]) \in Nat /\ Cardinality(t.ahead[q]) \in Nat
      BY <1>1, <1>3, <1>4, SlotsFinite
<1> QED
    BY <1>2, <1>5, <1>6, <1>7

LEMMA OldestOfSequence ==
    ASSUME NEW t, TabOK(t), NEW r \in t.queued
    PROVE  \E q \in t.queued :
              /\ HandleOf[t.holder[q]] = HandleOf[t.holder[r]]
              /\ q = r \/ q \in t.ahead[r]
              /\ ~Conflict(t, q, t.ahead[q])
<1> DEFINE S == {q \in t.queued : /\ HandleOf[t.holder[q]] = HandleOf[t.holder[r]]
                                  /\ q = r \/ q \in t.ahead[r]}
<1>1. t \in Table /\ t.ahead \in [Slot -> SUBSET Slot] /\ S \subseteq Slot /\ r \in S
      BY DEF TabOK, Table
<1>2. PICK q \in S : \A p \in S : ~(Cardinality(t.ahead[p]) < Cardinality(t.ahead[q]))
  <2> HIDE DEF S
  <2> QED
      BY <1>1, FewestAhead
<1>3. ASSUME NEW p \in t.ahead[q], HandleOf[t.holder[p]] = HandleOf[t.holder[q]]
      PROVE  FALSE
  <2>1. p \in t.queued /\ Cardinality(t.ahead[p]) < Cardinality(t.ahead[q])
        BY FewerAhead
  <2>2. p \in t.ahead[r]
        BY <2>1 DEF TabOK, Ordered
  <2>3. p \in S
        BY <1>3, <2>1, <2>2
  <2> QED
      BY <1>2, <2>1, <2>3
<1> QED
    BY <1>3 DEF Conflict

\* What a grant activates does not pass older work that it leaves queued,
\* unless the sequence of that work is active.
LEMMA GrantFifo ==
    ASSUME NEW t, TabOK(t), NEW u \in Grants(t), NEW x \in u.active \ t.active,
           NEW r \in u.queued, r \in t.ahead[x]
    PROVE  Conflict(u, r, u.active)
<1>1. CASE u = t
      BY <1>1
<1>2. CASE ~(stopping \/ t.activeCount >= Limit)
  <2> DEFINE K == {s \in t.queued : t.holder[s] \in cancel}
             v == CancelReady(t, K)
  <2>1. /\ TabOK(v) /\ v.holder = t.holder /\ v.active = t.active
        /\ v.queued = t.queued \ K
        /\ v.ahead = [s \in Slot |-> IF s \in K THEN {} ELSE t.ahead[s] \ K]
        BY CancelReadyOK
  <2>2. PICK G \in SUBSET Candidates(v) : Grantable(v, G) /\ u = Activate(v, G)
        BY <1>2 DEF Grants
  <2> HIDE DEF v
  <2>3. /\ TabOK(u) /\ u.holder = v.holder /\ u.active = v.active \cup G
        /\ u.queued = v.queued \ G
        BY <2>1, <2>2, ActivateOK DEF Grantable
  <2>4. x \in G /\ x \in v.queued /\ r \in v.queued /\ r \notin G
        BY <2>1, <2>3, Zenon DEF Candidates
  <2>5. r \in v.ahead[x]
    <3>1. x \in Slot /\ x \notin K /\ r \notin K
          BY <2>1, <2>4 DEF TabOK, Table
    <3> HIDE DEF K
    <3> QED
        BY <2>1, <3>1
  <2>6. PICK q \in v.queued :
           /\ HandleOf[v.holder[q]] = HandleOf[v.holder[r]]
           /\ q = r \/ q \in v.ahead[r]
           /\ ~Conflict(v, q, v.ahead[q])
        BY <2>1, <2>4, OldestOfSequence, Zenon
  <2>7. CASE Conflict(v, q, v.active)
    <3>1. PICK a \in v.active : HandleOf[v.holder[a]] = HandleOf[v.holder[q]]
          BY <2>7 DEF Conflict
    <3>2. a # r
          BY <2>1, <2>4 DEF TabOK
    <3> QED
        BY <2>3, <2>6, <3>1, <3>2 DEF Conflict
  <2>8. CASE ~Conflict(v, q, v.active)
    <3>1. q \in Candidates(v)
          BY <2>6, <2>8, ZenonT(30) DEF Candidates
    <3>2. q \in v.ahead[x]
          BY <2>1, <2>4, <2>5, <2>6, ZenonT(30) DEF TabOK, Ordered
    <3>3. q \in G
          BY <2>2, <2>4, <3>1, <3>2 DEF Grantable
    <3> QED
        BY <2>3, <2>4, <2>6, <3>3 DEF Conflict
  <2> QED
      BY <2>7, <2>8
<1> QED
    BY <1>1, <1>2 DEF Grants

\* The same when the caller of the grant settles: it keeps the table, or takes
\* a slot that is not active out of it.
LEMMA SettleFifo ==
    ASSUME NEW c \in Client, NEW s \in Slot, NEW t, TabOK(t), t.holder[s] = c,
           NEW u \in Grants(t), Settle(c, s, u),
           NEW w, w = tab',
           NEW x \in w.active \ t.active, NEW r \in w.queued, r \in t.ahead[x]
    PROVE  Conflict(w, r, w.active)
<1>1. TabOK(u) /\ u.holder = t.holder
      BY GrantsOK
<1>2. CASE w = u
      BY <1>2, GrantFifo
<1>3. CASE s \notin u.active /\ w = Release(u, s)
  <2>1. s \in UsedBy(u)
        BY <1>1, ConstantsAssumption DEF UsedBy
  <2>2. /\ w.holder = [u.holder EXCEPT ![s] = NoClient]
        /\ w.active = u.active \ {s} /\ w.queued = u.queued \ {s}
        BY <1>1, <1>3, <2>1, ReleaseOK
  <2>3. Conflict(u, r, u.active)
        BY <2>2, GrantFifo
  <2>4. PICK a \in u.active \ {r} : HandleOf[u.holder[a]] = HandleOf[u.holder[r]]
        BY <2>3 DEF Conflict
  <2>5. a # s /\ r # s /\ a \in Slot /\ r \in Slot
        BY <1>1, <1>3, <2>2 DEF TabOK, Table
  <2>6. w.holder[a] = u.holder[a] /\ w.holder[r] = u.holder[r] /\ a \in w.active
        BY <1>1, <2>2, <2>5, ZenonT(30) DEF TabOK, Table
  <2> QED
      BY <2>4, <2>6 DEF Conflict
<1> QED
    BY <1>2, <1>3 DEF Settle

\* What NoOvertaking says of a step.
Fifo(t, w) ==
    \A s \in w.active \ t.active, r \in t.queued \cap w.queued :
        (s \in t.queued => r \in t.ahead[s]) => Conflict(w, r, w.active)

\* Queue slot s of t at the end, grant and settle.
LEMMA QueuedFifo ==
    ASSUME NEW c \in Client, NEW s \in Slot, NEW t, TabOK(t), t.holder[s] = c,
           s \notin t.active, s \notin t.queued,
           NEW u \in Grants(Enqueue(t, s)), Settle(c, s, u), NEW w, w = tab'
    PROVE  Fifo(t, w)
<1> DEFINE q == Enqueue(t, s)
<1>1. s \in UsedBy(t)
      BY ConstantsAssumption DEF UsedBy
<1>2. /\ TabOK(q) /\ q.holder = t.holder /\ q.active = t.active
      /\ q.queued = t.queued \cup {s}
      /\ q.ahead = [t.ahead EXCEPT ![s] = t.queued]
      BY <1>1, EnqueueOK
<1>3. u \in Grants(q)
      OBVIOUS
<1> HIDE DEF q
<1>4. ASSUME NEW x \in w.active \ t.active, NEW r \in t.queued \cap w.queued,
             x \in t.queued => r \in t.ahead[x]
      PROVE  Conflict(w, r, w.active)
  <2>1. TabOK(u) /\ u.active \subseteq q.active \cup q.queued /\ u.holder = q.holder
        BY <1>2, <1>3, GrantsOK
  <2>2. w.active \subseteq u.active
    <3>1. s \in UsedBy(u)
          BY <1>2, <2>1, ConstantsAssumption DEF UsedBy
    <3>2. Release(u, s).active = u.active \ {s}
          BY <2>1, <3>1, ReleaseOK, Zenon
    <3> QED
        BY <3>2 DEF Settle
  <2>3. x \in t.queued \cup {s}
        BY <1>2, <2>1, <2>2
  <2>4. r \in q.ahead[x]
        BY <1>2, <1>4, <2>3 DEF TabOK, Table
  <2>5. x \in w.active \ q.active /\ r \in w.queued
        BY <1>2
  <2> QED
      BY <1>2, <1>3, <2>4, <2>5, SettleFifo, Zenon
<1> QED
    BY <1>4 DEF Fifo

LEMMA FifoStep ==
    ASSUME SchedInv, [Next]_vars, NEW w, w = tab' PROVE Fifo(tab, w)
<1>0. TabOK(tab) /\ tab \in Table
      BY DEF SchedInv, TabOK
<1>1. ASSUME NEW c \in Client, Enter(c) PROVE Fifo(tab, w)
  <2>1. PICK s \in Slot :
           /\ tab.holder[s] = NoClient
           /\ \E t \in Grants(Enqueue(Claim(tab, s, c), s)) : Settle(c, s, t)
        BY <1>1, Zenon DEF Enter
  <2> DEFINE t == Claim(tab, s, c)
  <2>2. /\ TabOK(t) /\ t.holder = [tab.holder EXCEPT ![s] = c]
        /\ t.active = tab.active /\ t.queued = tab.queued /\ t.ahead = tab.ahead
        /\ s \notin t.active /\ s \notin t.queued
        BY <1>0, <2>1, ClaimOK
  <2>3. PICK u \in Grants(Enqueue(t, s)) : Settle(c, s, u)
        BY <2>1, Zenon
  <2> HIDE DEF t
  <2>4. t.holder[s] = c
        BY <1>0, <2>2 DEF Table
  <2>5. Fifo(t, w)
        BY <2>2, <2>3, <2>4, QueuedFifo, Zenon
  <2> QED
      BY <2>2, <2>5 DEF Fifo
<1>2. ASSUME NEW c \in Client, WaitTurn(c) PROVE Fifo(tab, w)
  <2> DEFINE s == lease[c]
  <2>1. s \in Slot /\ tab.holder[s] = c
        BY <1>2 DEF WaitTurn, SchedInv, Mine
  <2>2. PICK u \in Grants(tab) : Settle(c, s, u)
        BY <1>2 DEF WaitTurn
  <2> HIDE DEF s
  <2>3. TabOK(u) /\ u.active \subseteq tab.active \cup tab.queued /\ u.holder = tab.holder
        BY <1>0, <2>2, GrantsOK
  <2>4. s \in UsedBy(u)
        BY <2>1, <2>3, ConstantsAssumption DEF UsedBy
  <2>5. Release(u, s).active = u.active \ {s}
        BY <2>3, <2>4, ReleaseOK, Zenon
  <2>6. w.active \subseteq tab.active \cup tab.queued
        BY <2>2, <2>3, <2>5 DEF Settle
  <2>7. ASSUME NEW x \in w.active \ tab.active, NEW r \in tab.queued \cap w.queued,
               x \in tab.queued => r \in tab.ahead[x]
        PROVE  Conflict(w, r, w.active)
        BY <1>0, <2>1, <2>2, <2>6, <2>7, SettleFifo
  <2> QED
      BY <2>7 DEF Fifo
<1>4. ASSUME NEW c \in Client, Requeue(c) PROVE Fifo(tab, w)
  <2> DEFINE s == lease[c]
             t == Deactivate(tab, s)
  <2>1. s \in Slot /\ tab.holder[s] = c /\ s \in tab.active
        BY <1>4 DEF Requeue, Leased
  <2>2. /\ TabOK(t) /\ t.holder = tab.holder /\ t.active = tab.active \ {s}
        /\ t.queued = tab.queued /\ t.ahead = tab.ahead
        BY <1>0, DeactivateOK, ZenonT(30)
  <2>3. s \notin t.active /\ s \notin t.queued
        BY <1>0, <2>1, <2>2 DEF TabOK
  <2>4. \/ tab' = Release(t, s)
        \/ \E u \in Grants(Enqueue(t, s)) : Settle(c, s, u)
        BY <1>4 DEF Requeue
  <2> HIDE DEF s, t
  <2>5. CASE tab' = Release(t, s)
    <3>1. s \in UsedBy(t)
          BY <2>1, <2>2, ConstantsAssumption DEF UsedBy
    <3>2. w.active = t.active \ {s}
          BY <2>2, <2>5, <3>1, ReleaseOK, Zenon
    <3> QED
        BY <2>2, <3>2 DEF Fifo
  <2>6. CASE \E u \in Grants(Enqueue(t, s)) : Settle(c, s, u)
    <3>1. Fifo(t, w)
          BY <2>1, <2>2, <2>3, <2>6, QueuedFifo
    <3> QED
        BY <2>2, <3>1 DEF Fifo
  <2> QED
      BY <2>4, <2>5, <2>6
<1>5. ASSUME NEW c \in Client, Leave(c) PROVE Fifo(tab, w)
  <2> DEFINE s == lease[c]
             t == Deactivate(tab, s)
             u == Release(t, s)
  <2>1. s \in Slot /\ tab.holder[s] = c /\ s \in tab.active
        BY <1>5 DEF Leave, Leased, SchedInv, Mine
  <2>2. /\ TabOK(t) /\ t.holder = tab.holder /\ t.active = tab.active \ {s}
        /\ t.queued = tab.queued /\ t.ahead = tab.ahead
        BY <1>0, DeactivateOK
  <2>3. w \in Grants(u)
        BY <1>5, ZenonT(30) DEF Leave
  <2>4. s \in UsedBy(t) /\ s \notin t.queued
        BY <1>0, <2>1, <2>2, ConstantsAssumption DEF UsedBy, TabOK
  <2> HIDE DEF t
  <2>5. /\ TabOK(u) /\ u.active = t.active \ {s} /\ u.queued = t.queued \ {s}
        /\ u.ahead = t.ahead
        BY <2>2, <2>4, ReleaseOK, Zenon
  <2> HIDE DEF s, u
  <2>6. w.active \subseteq u.active \cup u.queued
        BY <2>3, <2>5, GrantsOK
  <2>7. ASSUME NEW x \in w.active \ tab.active, NEW r \in tab.queued \cap w.queued,
               x \in tab.queued => r \in tab.ahead[x]
        PROVE  Conflict(w, r, w.active)
    <3>1. x \in w.active \ u.active /\ r \in u.ahead[x]
          BY <2>2, <2>5, <2>6, <2>7
    <3> QED
        BY <2>3, <2>5, <3>1, GrantFifo
  <2> QED
      BY <2>7 DEF Fifo
<1>6. CASE Close
  <2>1. w.active = tab.active
        BY <1>0, <1>6, CancelReadyOK, Zenon DEF Close
  <2> QED
      BY <2>1 DEF Fifo
<1>7. CASE w = tab
      BY <1>7 DEF Fifo
<1> QED
    BY <1>1, <1>2, <1>4, <1>5, <1>6, <1>7 DEF Next, HolderStep, YieldResume,
       Transition, YieldRequested, Cancel, CancelOver, WorkerFails, CloseChecks,
       Closed, vars

\* "admits opaque work handles in FIFO order": work never becomes active past
\* older work that stays queued, unless that work's own sequence is active,
\* whatever cancellations and releases the grant meets on its way.
THEOREM FifoAdmission == Spec => NoOvertaking
<1>1. ASSUME SchedInv, [Next]_vars
      PROVE  [\A s \in tab'.active \ tab.active, r \in tab.queued \cap tab'.queued :
                 (s \in tab.queued => r \in tab.ahead[s])
                 => Conflict(tab', r, tab'.active)]_vars
  <2>1. PICK w : w = tab'
        OBVIOUS
  <2>2. Fifo(tab, w)
        BY <1>1, <2>1, FifoStep
  <2> QED
      BY <2>1, <2>2 DEF Fifo
<1> QED
    BY <1>1, SchedInvariance, PTL DEF Spec, NoOvertaking
-----------------------------------------------------------------------------
(***************************************************************************)
(* The grant loop.  The model's Grants takes the work of all turns at      *)
(* once; here the turns are taken one after the other.  After any number   *)
(* of turns the slots activated are an initial part of the candidates, by  *)
(* ordinal.                                                                *)
(***************************************************************************)
LEMMA SameTable ==
    ASSUME NEW t \in Table, NEW u \in Table,
           u.holder = t.holder, u.queued = t.queued, u.active = t.active,
           u.cancelled = t.cancelled, u.ahead = t.ahead,
           u.inUseCount = t.inUseCount, u.readyCount = t.readyCount,
           u.activeCount = t.activeCount
    PROVE  u = t
BY DEF Table

\* Nothing to cancel changes nothing, and neither does nothing to activate.
LEMMA NothingMoves ==
    ASSUME NEW t, TabOK(t)
    PROVE  CancelReady(t, {}) = t /\ Activate(t, {}) = t
<1>1. t \in Table /\ Cardinality({}) = 0 /\ {} \in SUBSET Slot
      BY FS_EmptySet DEF TabOK
<1> DEFINE d == Dequeue(t, {})
<1>2. d = t
  <2>1. t.ahead = [s \in Slot |-> t.ahead[s]] /\ t.readyCount - 0 = t.readyCount
        BY <1>1 DEF Table
  <2>2. \A s \in Slot : (IF s \in {} THEN {} ELSE t.ahead[s] \ {}) = t.ahead[s]
        OBVIOUS
  <2>3. /\ d.holder = t.holder /\ d.queued = t.queued \ {}
        /\ d.active = t.active /\ d.cancelled = t.cancelled
        /\ d.ahead = [s \in Slot |-> IF s \in {} THEN {} ELSE t.ahead[s] \ {}]
        /\ d.inUseCount = t.inUseCount /\ d.activeCount = t.activeCount
        /\ d.readyCount = t.readyCount - Cardinality({})
        BY <1>1, DequeueFields, Zenon
  <2>4. d.ahead = t.ahead
        BY <2>1, <2>2, <2>3, Zenon
  <2>5. d.readyCount = t.readyCount /\ d.queued = t.queued
        BY <1>1, <2>1, <2>3
  <2>6. d \in Table
    <3>1. TabOK(d)
          BY DequeueOK
    <3> QED
        BY <3>1 DEF TabOK
  <2> HIDE DEF d
  <2> QED
      BY <1>1, <2>3, <2>4, <2>5, <2>6, SameTable
<1> HIDE DEF d
<1>3. CancelReady(t, {}) = [t EXCEPT !.cancelled = t.cancelled \cup {}]
      BY <1>2 DEF CancelReady, d
<1>4. Activate(t, {}) = [t EXCEPT !.active = t.active \cup {},
                                  !.activeCount = t.activeCount + 0]
      BY <1>1, <1>2, Zenon DEF Activate, d
<1>5. /\ t.cancelled \cup {} = t.cancelled /\ t.active \cup {} = t.active
      /\ t.activeCount + 0 = t.activeCount
      BY <1>1 DEF Table
<1> QED
    BY <1>1, <1>3, <1>4, <1>5, ZenonT(30) DEF Table

\* progress_next_ready_locked finds the one oldest of the ready slots, if any.
LEMMA NextReadyOne ==
    ASSUME NEW t, TabOK(t)
    PROVE  /\ NextReady(t) \in SUBSET Candidates(t)
           /\ NextReady(t) = {} => Ready(t) = {}
           /\ NextReady(t) # {} => Cardinality(NextReady(t)) = 1
<1>1. t \in Table /\ t.ahead \in [Slot -> SUBSET Slot] /\ Ready(t) \subseteq Slot
      BY DEF TabOK, Table, Ready
<1>2. ASSUME NEW s \in NextReady(t), NEW p \in t.ahead[s] \ {s},
             HandleOf[t.holder[p]] = HandleOf[t.holder[s]]
      PROVE  FALSE
  <2>1. s \in t.queued /\ ~Conflict(t, s, t.active) /\ t.ahead[s] \cap Ready(t) = {}
        BY DEF NextReady, Ready
  <2>2. p \in t.queued
        BY <2>1, FewerAhead
  <2>3. ~Conflict(t, p, t.active)
    <3>1. s \notin t.active
          BY <2>1, ZenonT(30) DEF TabOK
    <3> QED
        BY <1>2, <2>1, <3>1, ZenonT(30) DEF Conflict
  <2> QED
      BY <2>1, <2>2, <2>3 DEF Ready
<1>3. NextReady(t) \in SUBSET Candidates(t)
      BY <1>2 DEF Candidates, NextReady, Ready, Conflict
<1>4. ASSUME NEW r \in Ready(t) PROVE NextReady(t) # {}
  <2>1. PICK q \in Ready(t) :
           \A p \in Ready(t) : ~(Cardinality(t.ahead[p]) < Cardinality(t.ahead[q]))
        BY <1>1, FewestAhead
  <2>2. t.ahead[q] \cap Ready(t) = {}
        BY <2>1, FewerAhead, ZenonT(30) DEF Ready
  <2> QED
      BY <2>2 DEF NextReady
<1>5. ASSUME NEW r \in NextReady(t), NEW s \in NextReady(t) PROVE r = s
      BY DEF NextReady, Ready, TabOK, Ordered
<1>6. ASSUME NextReady(t) # {} PROVE Cardinality(NextReady(t)) = 1
  <2>1. PICK s \in NextReady(t) : NextReady(t) = {s}
        BY <1>5, <1>6
  <2>2. s \in Slot
        BY <1>1 DEF NextReady
  <2> QED
      BY <2>1, <2>2, OneSlot
<1> QED
    BY <1>3, <1>4, <1>6

\* An initial part of the candidates, by ordinal.
Initial(t, G) == /\ G \in SUBSET Candidates(t)
                 /\ \A s \in G : t.ahead[s] \cap Candidates(t) \subseteq G

\* w is v with the slots of G activated.
Moved(v, G, w) ==
    /\ TabOK(w) /\ w.holder = v.holder
    /\ w.active = v.active \cup G /\ w.queued = v.queued \ G
    /\ w.ahead = [s \in Slot |-> IF s \in G THEN {} ELSE v.ahead[s] \ G]

\* The next turn takes the oldest candidate that is left.
LEMMA InitialGrows ==
    ASSUME NEW v, TabOK(v), NEW G, Initial(v, G), NEW w, Moved(v, G, w)
    PROVE  /\ Initial(v, G \cup NextReady(w)) /\ G \cap NextReady(w) = {}
           /\ NextReady(w) = {} => G = Candidates(v)
           /\ G = Candidates(v) => NextReady(w) = {}
<1>0. /\ v \in Table /\ w \in Table /\ v.queued \subseteq Slot
      /\ G \subseteq v.queued /\ v.active \cap v.queued = {}
      BY ZenonT(30) DEF TabOK, Table, Moved, Initial, Candidates
<1>1. ASSUME NEW p \in Candidates(v) \ G PROVE p \in Ready(w)
  <2>1. ASSUME NEW g \in G, HandleOf[v.holder[g]] = HandleOf[v.holder[p]] PROVE FALSE
    <3>1. g \in Candidates(v) /\ g \in v.queued /\ p \in v.queued /\ g # p
          BY DEF Initial, Candidates
    <3>2. g \in v.ahead[p] \/ p \in v.ahead[g]
          BY <3>1 DEF TabOK, Ordered
    <3> QED
        BY <2>1, <3>1, <3>2, ZenonT(30) DEF Candidates, Conflict
  <2> QED
      BY <2>1, ZenonT(30) DEF Ready, Candidates, Conflict, Moved
<1>2. ASSUME NEW s \in NextReady(w) PROVE s \in Candidates(v) \ G
  <2>1. s \in v.queued \ G /\ ~Conflict(w, s, w.active) /\ w.ahead[s] \cap Ready(w) = {}
        BY Zenon DEF NextReady, Ready, Moved
  <2>2. PICK q \in v.queued :
           /\ HandleOf[v.holder[q]] = HandleOf[v.holder[s]]
           /\ q = s \/ q \in v.ahead[s]
           /\ ~Conflict(v, q, v.ahead[q])
        BY <2>1, OldestOfSequence
  <2>3. ASSUME NEW a \in v.active \cup G,
               HandleOf[v.holder[a]] = HandleOf[v.holder[s]]
        PROVE  FALSE
    <3>1. a # s
          BY <1>0, <2>1
    <3> QED
        BY <2>1, <2>3, <3>1 DEF Conflict, Moved
  <2>4. ~Conflict(v, q, v.active) /\ q \notin G
        BY <2>2, <2>3 DEF Conflict
  <2>5. q \in Candidates(v) \ G
        BY <2>2, <2>4 DEF Candidates
  <2>6. q \in v.ahead[s] => q \in w.ahead[s]
        BY <1>0, <2>1, <2>4 DEF Moved
  <2> QED
      BY <1>1, <2>1, <2>2, <2>5, <2>6, ZenonT(30)
<1>3. ASSUME NEW s \in NextReady(w), NEW p \in v.ahead[s] \cap Candidates(v)
      PROVE  p \in G
  <2>1. s \in Slot /\ s \notin G
        BY <1>0, <1>2 DEF Candidates
  <2>2. p \notin G => p \in w.ahead[s]
        BY <2>1 DEF Moved
  <2> QED
      BY <1>1, <2>2, ZenonT(30) DEF NextReady
<1>4. NextReady(w) = {} => G = Candidates(v)
  <2>1. NextReady(w) = {} => Ready(w) = {}
        BY NextReadyOne DEF Moved
  <2> QED
      BY <1>1, <2>1 DEF Initial
<1> QED
    BY <1>2, <1>3, <1>4 DEF Initial

LEMMA ActivatedFields ==
    ASSUME NEW t \in Table, NEW G \in SUBSET Slot, NEW u, u = Activate(t, G)
    PROVE  /\ u.holder = t.holder /\ u.active = t.active \cup G
           /\ u.queued = t.queued \ G /\ u.cancelled = t.cancelled
           /\ u.ahead = [s \in Slot |-> IF s \in G THEN {} ELSE t.ahead[s] \ G]
           /\ u.inUseCount = t.inUseCount
           /\ u.readyCount = t.readyCount - Cardinality(G)
           /\ u.activeCount = t.activeCount + Cardinality(G)
BY DEF Activate, Dequeue, Table

LEMMA ActivatedMoves ==
    ASSUME NEW v, TabOK(v), NEW G, Initial(v, G),
           v.activeCount + Cardinality(G) <= Limit
    PROVE  /\ Moved(v, G, Activate(v, G))
           /\ Activate(v, G).activeCount = v.activeCount + Cardinality(G)
<1>1. v \in Table /\ G \in SUBSET Slot /\ G \in SUBSET Candidates(v)
      BY DEF TabOK, Table, Initial, Candidates
<1>2. TabOK(Activate(v, G))
      BY <1>1, ActivateOK
<1> QED
    BY <1>1, <1>2, ActivatedFields DEF Moved

\* Two turns activate what one would with both sets.
LEMMA ActivateTwice ==
    ASSUME NEW v, TabOK(v), NEW G, Initial(v, G),
           v.activeCount + Cardinality(G) <= Limit,
           NEW w, w = Activate(v, G), w.activeCount < Limit,
           NEW M, M = NextReady(w)
    PROVE  /\ Activate(w, M) = Activate(v, G \cup M)
           /\ Initial(v, G \cup M) /\ v.activeCount + Cardinality(G \cup M) <= Limit
           /\ Cardinality(G \cup M) = Cardinality(G) + Cardinality(M)
<1>1. Moved(v, G, w) /\ w.activeCount = v.activeCount + Cardinality(G)
      BY ActivatedMoves
<1>2. Initial(v, G \cup M) /\ G \cap M = {}
      BY <1>1, InitialGrows
<1>3. /\ v \in Table /\ w \in Table /\ G \in SUBSET Slot /\ M \in SUBSET Slot
      /\ G \in SUBSET Candidates(v)
      BY <1>1, <1>2 DEF TabOK, Table, Moved, Initial, Candidates
<1>4. Cardinality(G \cup M) = Cardinality(G) + Cardinality(M)
      BY <1>2, <1>3, SlotsTogether
<1>5. M \in SUBSET Candidates(w) /\ Cardinality(M) \in {0, 1}
  <2>1. M = {} => Cardinality(M) = 0
        BY FS_EmptySet
  <2> QED
      BY <1>1, <2>1, NextReadyOne DEF Moved
<1>6. w.activeCount + Cardinality(M) <= Limit
  <2>1. w.activeCount \in Nat /\ Limit \in Nat
        BY <1>3, ConstantsAssumption DEF Table
  <2> QED
      BY <1>5, <2>1
<1>7. v.activeCount + Cardinality(G \cup M) <= Limit
  <2>1. v.activeCount \in Nat /\ Cardinality(G) \in Nat /\ Cardinality(M) \in Nat
        BY <1>3, SlotsFinite DEF Table
  <2> QED
      BY <1>1, <1>4, <1>6, <2>1
<1>8. PICK x : x = Activate(w, M)
      OBVIOUS
<1>9. PICK H : H = G \cup M
      BY Zenon
<1>10. PICK y : y = Activate(v, H)
      OBVIOUS
<1>11. /\ x.holder = w.holder /\ x.active = w.active \cup M
       /\ x.queued = w.queued \ M /\ x.cancelled = w.cancelled
       /\ x.ahead = [s \in Slot |-> IF s \in M THEN {} ELSE w.ahead[s] \ M]
       /\ x.inUseCount = w.inUseCount
       /\ x.readyCount = w.readyCount - Cardinality(M)
       /\ x.activeCount = w.activeCount + Cardinality(M)
      BY <1>3, <1>8, ActivatedFields
<1>12. /\ y.holder = v.holder /\ y.active = v.active \cup H
       /\ y.queued = v.queued \ H /\ y.cancelled = v.cancelled
       /\ y.ahead = [s \in Slot |-> IF s \in H THEN {} ELSE v.ahead[s] \ H]
       /\ y.inUseCount = v.inUseCount
       /\ y.readyCount = v.readyCount - Cardinality(H)
       /\ y.activeCount = v.activeCount + Cardinality(H)
  <2>1. H \in SUBSET Slot
        BY <1>3, <1>9, ZenonT(30)
  <2> QED
      BY <1>3, <1>10, <2>1, ActivatedFields
<1>13. /\ w.holder = v.holder /\ w.active = v.active \cup G
       /\ w.queued = v.queued \ G /\ w.cancelled = v.cancelled
       /\ w.ahead = [s \in Slot |-> IF s \in G THEN {} ELSE v.ahead[s] \ G]
       /\ w.inUseCount = v.inUseCount
       /\ w.readyCount = v.readyCount - Cardinality(G)
       /\ w.activeCount = v.activeCount + Cardinality(G)
      BY <1>3, ActivatedFields
<1>14. x \in Table /\ y \in Table
  <2>1. TabOK(x)
        BY <1>1, <1>5, <1>6, <1>8, ActivateOK, ZenonT(30) DEF Moved
  <2>2. TabOK(y)
        BY <1>2, <1>7, <1>9, <1>10, ActivateOK DEF Initial
  <2> QED
      BY <2>1, <2>2, ZenonT(30) DEF TabOK
<1>15. x.ahead = y.ahead
  <2>1. ASSUME NEW s \in Slot PROVE x.ahead[s] = y.ahead[s]
    <3>1. w.ahead[s] = IF s \in G THEN {} ELSE v.ahead[s] \ G
          BY <1>13, Zenon
    <3>2. x.ahead[s] = IF s \in M THEN {} ELSE w.ahead[s] \ M
          BY <1>11, Zenon
    <3>3. y.ahead[s] = IF s \in H THEN {} ELSE v.ahead[s] \ H
          BY <1>12, Zenon
    <3> QED
        BY <1>9, <3>1, <3>2, <3>3, ZenonT(30)
  <2>2. /\ x.ahead = [s \in Slot |-> x.ahead[s]]
        /\ y.ahead = [s \in Slot |-> y.ahead[s]]
        BY <1>14, ZenonT(30) DEF Table
  <2> QED
      BY <2>1, <2>2, Zenon
<1>16. x.readyCount = y.readyCount /\ x.activeCount = y.activeCount
  <2>1. /\ v.readyCount \in Nat /\ v.activeCount \in Nat
        /\ Cardinality(G) \in Nat /\ Cardinality(M) \in Nat
        BY <1>3, SlotsFinite, ZenonT(30) DEF Table
  <2> QED
      BY <1>4, <1>9, <1>11, <1>12, <1>13, <2>1
<1>17. /\ x.active = y.active /\ x.queued = y.queued /\ x.holder = y.holder
       /\ x.cancelled = y.cancelled /\ x.inUseCount = y.inUseCount
      BY <1>9, <1>11, <1>12, <1>13
<1>18. x = y
      BY <1>14, <1>15, <1>16, <1>17, SameTable
<1> QED
    BY <1>2, <1>4, <1>7, <1>8, <1>9, <1>10, <1>18

\* Where the loop is after n turns that were allowed to run.
Turned(v, n, w) ==
    \E G : /\ Initial(v, G) /\ w = Activate(v, G)
           /\ v.activeCount + Cardinality(G) <= Limit
           /\ \/ G = Candidates(v) \/ Cardinality(G) >= n
              \/ v.activeCount + Cardinality(G) = Limit

\* No queued slot of v asks for cancellation.
Willing(v) == \A s \in v.queued : v.holder[s] \notin cancel

\* A turn from where nothing asks for cancellation.
LEMMA TurnOf ==
    ASSUME NEW w, TabOK(w), Willing(w), ~stopping, ~(w.activeCount >= Limit)
    PROVE  GrantTurn(w) = Activate(w, NextReady(w))
<1>1. {s \in w.queued : w.holder[s] \in cancel} = {}
      BY DEF Willing
<1>2. CancelReady(w, {}) = w
      BY NothingMoves
<1> QED
    BY <1>1, <1>2, Zenon DEF GrantTurn

LEMMA TurnedAgain ==
    ASSUME NEW v, TabOK(v), Willing(v), ~stopping, NEW n \in Nat, NEW w, Turned(v, n, w)
    PROVE  /\ Turned(v, n + 1, GrantTurn(w))
           /\ \A G : Initial(v, G) /\ w = Activate(v, G)
                     /\ v.activeCount + Cardinality(G) <= Limit
                     /\ G = Candidates(v) => GrantTurn(w) = w
<1>0. v.activeCount \in Nat /\ Limit \in Nat
      BY ConstantsAssumption DEF TabOK, Table
<1>1. CASE w.activeCount >= Limit
  <2>1. GrantTurn(w) = w
        BY <1>1 DEF GrantTurn
  <2>2. PICK G : /\ Initial(v, G) /\ w = Activate(v, G)
                 /\ v.activeCount + Cardinality(G) <= Limit
        BY DEF Turned
  <2>3. w.activeCount = v.activeCount + Cardinality(G)
        BY <2>2, ActivatedMoves
  <2>4. Cardinality(G) \in Nat
    <3>1. G \in SUBSET Slot
          BY <2>2 DEF Initial, Candidates, TabOK, Table
    <3> QED
        BY <3>1, SlotsFinite
  <2>5. v.activeCount + Cardinality(G) = Limit
        BY <1>0, <1>1, <2>2, <2>3, <2>4
  <2> QED
      BY <2>1, <2>2, <2>5 DEF Turned
<1>2. CASE ~(w.activeCount >= Limit)
  <2> SUFFICES ASSUME NEW G, Initial(v, G), w = Activate(v, G),
                      v.activeCount + Cardinality(G) <= Limit,
                      \/ G = Candidates(v) \/ Cardinality(G) >= n
                      \/ v.activeCount + Cardinality(G) = Limit
               PROVE  /\ Turned(v, n + 1, GrantTurn(w))
                      /\ G = Candidates(v) => GrantTurn(w) = w
      BY DEF Turned
  <2>1. Moved(v, G, w) /\ w.activeCount = v.activeCount + Cardinality(G)
        BY ActivatedMoves
  <2>2. PICK M : M = NextReady(w)
        OBVIOUS
  <2>3. G \in SUBSET Slot /\ Cardinality(G) \in Nat
    <3>1. G \in SUBSET Slot
          BY DEF Initial, Candidates, TabOK, Table
    <3> QED
        BY <3>1, SlotsFinite
  <2>4. w.activeCount < Limit
        BY <1>0, <1>2, <2>1, <2>3
  <2>5. Willing(w) /\ TabOK(w)
        BY <2>1 DEF Willing, Moved
  <2>6. GrantTurn(w) = Activate(w, M)
        BY <1>2, <2>2, <2>5, TurnOf
  <2>7. /\ Activate(w, M) = Activate(v, G \cup M)
        /\ Initial(v, G \cup M) /\ v.activeCount + Cardinality(G \cup M) <= Limit
        /\ Cardinality(G \cup M) = Cardinality(G) + Cardinality(M)
        BY <2>2, <2>4, ActivateTwice
  <2>8. /\ M = {} => G = Candidates(v)
        /\ G = Candidates(v) => M = {}
        /\ M # {} => Cardinality(M) = 1
        BY <2>1, <2>2, <2>5, InitialGrows, NextReadyOne, Zenon
  <2>9. CASE G = Candidates(v)
    <3>1. GrantTurn(w) = w
          BY <2>5, <2>6, <2>8, <2>9, NothingMoves
    <3> QED
        BY <2>9, <3>1 DEF Turned
  <2>10. CASE G # Candidates(v)
    <3>1. Cardinality(G) >= n
          BY <1>0, <2>1, <2>3, <2>4, <2>10
    <3>2. Cardinality(G \cup M) >= n + 1
          BY <2>3, <2>7, <2>8, <2>10, <3>1
    <3> QED
        BY <2>6, <2>7, <2>10, <3>2 DEF Turned
  <2> QED
      BY <2>9, <2>10, ZenonT(30)
<1> QED
    BY <1>1, <1>2

\* Induction over the naturals, for a set instead of a predicate.
LEMMA NatSets ==
    ASSUME NEW S, 0 \in S, \A n \in Nat : n \in S => n + 1 \in S
    PROVE  Nat \subseteq S
<1> DEFINE T == Nat \ S
           R == OpToRel(<, Nat)
<1> SUFFICES ASSUME T # {} PROVE FALSE
    OBVIOUS
<1>1. PICK x \in T : \A y \in T : ~ (<<y, x>> \in R)
  <2>1. IsWellFoundedOn(R, Nat)
        BY NatLessThanWellFounded, Zenon
  <2>2. T \subseteq Nat
        OBVIOUS
  <2> HIDE DEF R, T
  <2> QED
      BY <2>1, <2>2, WFMin, Zenon
<1>2. x # 0
      OBVIOUS
<1>3. x - 1 \in T
      BY <1>2
<1>4. <<x - 1, x>> \in R
      BY <1>2, <1>3 DEF OpToRel
<1> QED
    BY <1>1, <1>3, <1>4, Zenon

\* The turns of the loop exist as a function: the one for 0 .. k + 1 is built
\* from the one for 0 .. k.
TurnAt(t, h, i) == IF i = 0 THEN t ELSE GrantTurn(h[i - 1])

LEMMA Turns ==
    ASSUME NEW t, NEW n \in Nat
    PROVE  \E h : h = [i \in 0 .. n |-> TurnAt(t, h, i)]
<1> DEFINE Good == {k \in Nat : \E h : h = [i \in 0 .. k |-> TurnAt(t, h, i)]}
<1>1. 0 \in Good
  <2> DEFINE h0 == [i \in 0 .. 0 |-> t]
  <2>1. \A i \in 0 .. 0 : i = 0
        OBVIOUS
  <2>2. h0 = [i \in 0 .. 0 |-> TurnAt(t, h0, i)]
        BY <2>1 DEF TurnAt
  <2> QED
      BY <2>2
<1>2. ASSUME NEW k \in Nat, k \in Good PROVE k + 1 \in Good
  <2>1. PICK h : h = [i \in 0 .. k |-> TurnAt(t, h, i)]
        BY <1>2
  <2> DEFINE H == [i \in 0 .. k + 1 |-> IF i = k + 1 THEN GrantTurn(h[k]) ELSE h[i]]
  <2>2. ASSUME NEW i \in 0 .. k PROVE i \in 0 .. k + 1 /\ i # k + 1
        OBVIOUS
  <2>3. \A i \in 0 .. k : H[i] = h[i]
        BY <2>2, Zenon
  <2>4. H[k + 1] = TurnAt(t, H, k + 1)
    <3>1. k + 1 # 0 /\ (k + 1) - 1 = k /\ k \in 0 .. k /\ k + 1 \in 0 .. k + 1
          OBVIOUS
    <3>2. H[k + 1] = GrantTurn(h[k]) /\ H[k] = h[k]
          BY <2>3, <3>1, Zenon
    <3> HIDE DEF H
    <3> QED
        BY <3>1, <3>2, Zenon DEF TurnAt
  <2>5. ASSUME NEW i \in 0 .. k PROVE H[i] = TurnAt(t, H, i)
    <3>1. H[i] = h[i] /\ h[i] = TurnAt(t, h, i)
          BY <2>1, <2>3, Zenon
    <3>2. i # 0 => i - 1 \in 0 .. k
          OBVIOUS
    <3>3. i # 0 => H[i - 1] = h[i - 1]
          BY <2>3, <3>2, Zenon
    <3> HIDE DEF H
    <3> QED
        BY <3>1, <3>3, Zenon DEF TurnAt
  <2>6. H = [i \in 0 .. k + 1 |-> TurnAt(t, H, i)]
    <3>1. \A i \in 0 .. k + 1 : i \in 0 .. k \/ i = k + 1
          OBVIOUS
    <3>2. \A i \in 0 .. k + 1 : H[i] = TurnAt(t, H, i)
          BY <2>4, <2>5, <3>1, Zenon
    <3>3. H = [i \in 0 .. k + 1 |-> H[i]]
          BY Zenon
    <3> HIDE DEF H
    <3> QED
        BY <3>2, <3>3, Zenon
  <2>7. k + 1 \in Nat
        OBVIOUS
  <2> HIDE DEF H
  <2> QED
      BY <2>6, <2>7, Zenon
<1> HIDE DEF Good
<1>3. n \in Good
      BY <1>1, <1>2, NatSets
<1> QED
    BY <1>3, Zenon DEF Good

LEMMA LoopTurns ==
    ASSUME NEW t
    PROVE  \E h : /\ h[0] = t /\ h[Limit] = GrantLoop(t)
                  /\ \A k \in 1 .. Limit : h[k] = GrantTurn(h[k - 1])
<1> DEFINE Of(h, i) == IF i = 0 THEN t ELSE GrantTurn(h[i - 1])
           turn == CHOOSE h : h = [i \in 0 .. Limit |-> Of(h, i)]
<1>1. GrantLoop(t) = turn[Limit]
      BY Zenon DEF GrantLoop
<1>2. Limit \in Nat
      BY ConstantsAssumption
<1>3. \A h, i : Of(h, i) = TurnAt(t, h, i)
      BY Zenon DEF TurnAt
<1>4. \E h : h = [i \in 0 .. Limit |-> TurnAt(t, h, i)]
      BY <1>2, Turns, Zenon
<1> HIDE DEF Of
<1>5. \E h : h = [i \in 0 .. Limit |-> Of(h, i)]
      BY <1>3, <1>4, Zenon
<1>6. turn = [i \in 0 .. Limit |-> Of(turn, i)]
      BY <1>5, Zenon
<1> HIDE DEF turn
<1>7. \A i \in 0 .. Limit : turn[i] = TurnAt(t, turn, i)
      BY <1>3, <1>6, Zenon
<1>8. 0 \in 0 .. Limit /\ \A k \in 1 .. Limit : k \in 0 .. Limit /\ k # 0
      BY <1>2
<1>9. turn[0] = t /\ \A k \in 1 .. Limit : turn[k] = GrantTurn(turn[k - 1])
      BY <1>7, <1>8, Zenon DEF TurnAt
<1> QED
    BY <1>1, <1>9, Zenon

\* The cooperative width and the order leave the loop one set to activate.
LEMMA OneGrant ==
    ASSUME NEW v, TabOK(v), NEW G \in SUBSET Candidates(v), Grantable(v, G),
           NEW H \in SUBSET Candidates(v), Grantable(v, H)
    PROVE  G = H
<1>1. /\ Candidates(v) \in SUBSET v.queued /\ v.queued \in SUBSET Slot
      /\ v.activeCount \in Nat /\ Limit \in Nat
      BY ConstantsAssumption DEF TabOK, Table, Candidates
<1>2. ASSUME NEW A \in SUBSET Slot, NEW B, B \subseteq A,
             Cardinality(B) = Cardinality(A)
      PROVE  A = B
  <2>1. Cardinality(A \ B) = Cardinality(A) - Cardinality(B)
        BY <1>2, SlotsApart
  <2>2. Cardinality(A) \in Nat /\ IsFiniteSet(A \ B)
        BY SlotsFinite
  <2>3. A \ B = {}
        BY <1>2, <2>1, <2>2, FS_EmptySet
  <2> QED
      BY <1>2, <2>3
<1>3. /\ G \in SUBSET Slot /\ H \in SUBSET Slot
      /\ Cardinality(G) \in Nat /\ Cardinality(H) \in Nat
      BY <1>1, SlotsFinite
<1>4. G \subseteq H \/ H \subseteq G
  <2> SUFFICES ASSUME NEW x \in G \ H, NEW y \in H \ G PROVE FALSE
      BY ZenonT(30)
  <2>1. x \in v.ahead[y] \/ y \in v.ahead[x]
        BY <1>1 DEF TabOK, Ordered
  <2> QED
      BY <2>1 DEF Grantable
<1>5. CASE G \subseteq H
  <2>1. Cardinality(G) <= Cardinality(H)
        BY <1>3, <1>5, SlotsApart, Zenon
  <2>2. G = Candidates(v) \/ Cardinality(G) = Cardinality(H)
        BY <1>1, <1>3, <2>1 DEF Grantable
  <2>3. Cardinality(G) = Cardinality(H) => H = G
        BY <1>2, <1>3, <1>5, Zenon
  <2> QED
      BY <1>5, <2>2, <2>3
<1>6. CASE H \subseteq G
  <2>1. Cardinality(H) <= Cardinality(G)
        BY <1>3, <1>6, SlotsApart, Zenon
  <2>2. H = Candidates(v) \/ Cardinality(G) = Cardinality(H)
        BY <1>1, <1>3, <2>1 DEF Grantable
  <2>3. Cardinality(H) = Cardinality(G) => G = H
        BY <1>2, <1>3, <1>6, Zenon
  <2> QED
      BY <1>6, <2>2, <2>3
<1> QED
    BY <1>4, <1>5, <1>6

\* What the loop leaves is what the model computes, and it has ended.
LEMMA LoopOf ==
    ASSUME NEW t, TabOK(t)
    PROVE  Grants(t) = {GrantLoop(t)} /\ GrantTurn(GrantLoop(t)) = GrantLoop(t)
<1>0. t.activeCount \in Nat /\ Limit \in Nat /\ Limit \in 1 .. Limit /\ 0 \in 0 .. Limit
      BY ConstantsAssumption DEF TabOK, Table
<1>1. PICK h : /\ h[0] = t /\ h[Limit] = GrantLoop(t)
               /\ \A k \in 1 .. Limit : h[k] = GrantTurn(h[k - 1])
      BY LoopTurns, ZenonT(30)
<1>2. CASE stopping \/ t.activeCount >= Limit
  <2>1. GrantTurn(t) = t
        BY <1>2 DEF GrantTurn
  <2> DEFINE S == {n \in Nat : n \in 0 .. Limit => h[n] = t}
  <2>2. 0 \in S
        BY <1>1
  <2>3. ASSUME NEW n \in Nat, n \in S PROVE n + 1 \in S
    <3>1. n + 1 \in 0 .. Limit => n + 1 \in 1 .. Limit /\ n \in 0 .. Limit /\ (n + 1) - 1 = n
          BY <1>0
    <3> QED
        BY <1>1, <2>1, <2>3, <3>1
  <2> HIDE DEF S
  <2>4. Limit \in S
        BY <1>0, <2>2, <2>3, NatSets, ZenonT(30)
  <2>5. GrantLoop(t) = t
        BY <1>0, <1>1, <2>4 DEF S
  <2> QED
      BY <1>2, <2>1, <2>5, ZenonT(30) DEF Grants
<1>3. CASE ~(stopping \/ t.activeCount >= Limit)
  <2> DEFINE K == {s \in t.queued : t.holder[s] \in cancel}
  <2>1. PICK v : v = CancelReady(t, K)
        OBVIOUS
  <2>2. /\ TabOK(v) /\ v.holder = t.holder /\ v.active = t.active
        /\ v.queued = t.queued \ K
        BY <2>1, CancelReadyOK, Zenon
  <2>3. Willing(v)
        BY <2>2 DEF Willing
  <2>4. v.activeCount = t.activeCount
        BY <2>2 DEF TabOK, Counted
  <2>5. Turned(v, 0, v)
    <3>1. Initial(v, {}) /\ Cardinality({}) = 0
          BY FS_EmptySet DEF Initial
    <3>2. Activate(v, {}) = v
          BY <2>2, NothingMoves
    <3>3. v.activeCount + 0 <= Limit /\ 0 >= 0
          BY <1>0, <1>3, <2>4
    <3> QED
        BY <3>1, <3>2, <3>3 DEF Turned
  <2>6. GrantTurn(t) = GrantTurn(v)
    <3>1. GrantTurn(t) = Activate(v, NextReady(v))
          BY <1>3, <2>1 DEF GrantTurn
    <3> QED
        BY <1>3, <2>2, <2>3, <2>4, <3>1, TurnOf, ZenonT(30)
  <2> HIDE DEF K
  <2> DEFINE S == {n \in Nat : n + 1 \in 1 .. Limit => Turned(v, n + 1, h[n + 1])}
  <2>7. 0 \in S
    <3>1. Turned(v, 0 + 1, GrantTurn(v))
          BY <1>3, <2>2, <2>3, <2>5, TurnedAgain
    <3>2. 1 \in 1 .. Limit /\ 0 + 1 = 1 /\ 1 - 1 = 0
          BY <1>0
    <3>3. h[1] = GrantTurn(t)
          BY <1>1, <3>2, ZenonT(30)
    <3> QED
        BY <2>6, <3>1, <3>2, <3>3, ZenonT(30)
  <2>8. ASSUME NEW n \in Nat, n \in S PROVE n + 1 \in S
    <3> SUFFICES ASSUME (n + 1) + 1 \in 1 .. Limit
                 PROVE  Turned(v, (n + 1) + 1, h[(n + 1) + 1])
        OBVIOUS
    <3>1. n + 1 \in 1 .. Limit /\ ((n + 1) + 1) - 1 = n + 1 /\ n + 1 \in Nat
          BY <1>0
    <3>2. Turned(v, n + 1, h[n + 1])
          BY <2>8, <3>1
    <3>3. h[(n + 1) + 1] = GrantTurn(h[n + 1])
          BY <1>1, <3>1
    <3> QED
        BY <1>3, <2>2, <2>3, <3>1, <3>2, <3>3, TurnedAgain
  <2> HIDE DEF S
  <2>9. Turned(v, Limit, h[Limit])
    <3>1. Limit - 1 \in Nat /\ (Limit - 1) + 1 = Limit
          BY <1>0
    <3>2. Limit - 1 \in S
          BY <2>7, <2>8, <3>1, NatSets
    <3> QED
        BY <1>0, <3>1, <3>2 DEF S
  <2>10. PICK w : w = GrantLoop(t)
        OBVIOUS
  <2>11. PICK G : /\ Initial(v, G) /\ w = Activate(v, G)
                  /\ v.activeCount + Cardinality(G) <= Limit
                  /\ \/ G = Candidates(v) \/ Cardinality(G) >= Limit
                     \/ v.activeCount + Cardinality(G) = Limit
        BY <1>1, <2>9, <2>10, Zenon DEF Turned
  <2>12. G = Candidates(v) \/ v.activeCount + Cardinality(G) = Limit
    <3>1. G \in SUBSET Slot
          BY <2>2, <2>11 DEF Initial, Candidates, TabOK, Table
    <3>2. Cardinality(G) \in Nat
          BY <3>1, SlotsFinite, ZenonT(30)
    <3> QED
        BY <1>0, <2>4, <2>11, <3>2
  <2>13. G \in SUBSET Candidates(v) /\ Grantable(v, G)
        BY <2>11, <2>12 DEF Initial, Grantable
  <2>14. Grants(t) = {Activate(v, H) : H \in {H \in SUBSET Candidates(v) :
                                                Grantable(v, H)}}
        BY <1>3, <2>1, Zenon DEF Grants, K
  <2>15. {H \in SUBSET Candidates(v) : Grantable(v, H)} = {G}
        BY <2>2, <2>13, OneGrant
  <2>16. Grants(t) = {w}
        BY <2>11, <2>14, <2>15
  <2>17. GrantTurn(w) = w
    <3>1. CASE G = Candidates(v)
          BY <1>0, <1>1, <1>3, <2>2, <2>3, <2>9, <2>10, <2>11, <3>1, TurnedAgain, ZenonT(30)
    <3>2. CASE v.activeCount + Cardinality(G) = Limit
      <4>1. w.activeCount = Limit
            BY <2>2, <2>11, <3>2, ActivatedMoves
      <4> QED
          BY <1>0, <4>1 DEF GrantTurn
    <3> QED
        BY <2>12, <3>1, <3>2, ZenonT(30)
  <2> QED
      BY <2>10, <2>16, <2>17
<1> QED
    BY <1>2, <1>3

\* What a wait, a leave or a yield activates is exactly what the loop of
\* progress_grant_locked activates turn by turn, however wide the table is and
\* whatever is cancelled on the way: never more turns than the cooperative
\* width, and nothing left to do after them.
THEOREM GrantsAreTheLoop == Spec => []GrantIsTheLoop
<1>1. ASSUME SchedInv PROVE GrantIsTheLoop
  <2> SUFFICES ASSUME NEW t \in Granting PROVE TabOK(t)
      BY LoopOf DEF GrantIsTheLoop
  <2>1. TabOK(tab)
        BY <1>1 DEF SchedInv
  <2>2. ASSUME NEW c \in Client, Leased(c) PROVE lease[c] \in UsedBy(tab)
        BY <2>2, ConstantsAssumption DEF Leased, UsedBy
  <2>3. ASSUME NEW s \in UsedBy(tab) PROVE TabOK(Release(tab, s))
        BY <2>1, ReleaseOK, Zenon
  <2>4. ASSUME NEW s \in UsedBy(tab), s \in tab.active
        PROVE  TabOK(Enqueue(Deactivate(tab, s), s))
    <3>1. PICK d : d = Deactivate(tab, s)
          OBVIOUS
    <3>2. /\ TabOK(d) /\ d.holder = tab.holder /\ d.active = tab.active \ {s}
          /\ d.queued = tab.queued
          BY <2>1, <3>1, DeactivateOK DEF UsedBy
    <3>3. s \in UsedBy(d) /\ s \notin d.active /\ s \notin d.queued
          BY <2>1, <2>4, <3>2 DEF UsedBy, TabOK
    <3> QED
        BY <3>1, <3>2, <3>3, EnqueueOK, Zenon
  <2> QED
      BY <2>1, <2>2, <2>3, <2>4 DEF Granting
<1> QED
    BY <1>1, SchedInvariance, PTL
=============================================================================
