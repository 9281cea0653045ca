-------------------------- MODULE TelemetryProofs --------------------------
(***************************************************************************)
(* Proofs about Telemetry for every ring, every number of connections and  *)
(* every bound on what the workers emit.                                   *)
(***************************************************************************)
EXTENDS Telemetry, FiniteSetTheorems, WellFoundedInduction, TLAPS

Record == [sequence : Nat, kind : Kind, a : Nat, c : Nat]

\* A record is found by its number: the numbers are below the next one, and no
\* two records have the same.
Numbered ==
    /\ ring \subseteq Record /\ next \in Nat \ {0}
    /\ dropped \in Nat /\ coalesced \in Nat /\ notice \in Nat
    /\ \A e \in ring : 0 < e.sequence /\ e.sequence < next
    /\ \A e, f \in ring : e.sequence = f.sequence => e = f
    /\ notice < next

\* The notice that drop_notice_sequence names is a notice, and there is no
\* other.
Named ==
    /\ \A e \in ring : e.kind = "notice" <=> e.sequence = notice
    /\ \A e \in ring : e.kind = "notice" => e.a = dropped /\ e.c = coalesced
    /\ notice # 0 /\ host # "closed" => \E e \in ring : e.sequence = notice

NInv == Numbered /\ Named
-----------------------------------------------------------------------------
LEMMA NInvInit == Init => NInv
BY DEF Init, NInv, Numbered, Named, Record


\* What an update of the drop notice leaves: every record under its number and
\* kind, all but the notice as they were, and the notice with the new totals.
LEMMA UpdatedKeeps ==
    ASSUME NInv, NEW kind \in Kind
    PROVE  /\ Dropped \in Nat /\ Coalesced(kind) \in Nat
           /\ Updated(kind) \subseteq Record
           /\ \A u \in Updated(kind) : \E e \in ring :
                 /\ e.sequence = u.sequence /\ e.kind = u.kind
                 /\ e.kind # "notice" => e = u
           /\ \A e \in ring : \E u \in Updated(kind) :
                 /\ u.sequence = e.sequence /\ u.kind = e.kind
                 /\ e.kind # "notice" => u = e
           /\ \A u \in Updated(kind) : u.kind = "notice" =>
                 u.a = Dropped /\ u.c = Coalesced(kind)
           /\ \A u, v \in Updated(kind) : u.sequence = v.sequence => u = v
<1> DEFINE New(e) == IF Full /\ e.sequence = notice
                     THEN [e EXCEPT !.a = Dropped, !.c = Coalesced(kind)] ELSE e
<1>1. Dropped \in Nat /\ Coalesced(kind) \in Nat
      BY DEF NInv, Numbered, Dropped, Coalesced
<1>2. Updated(kind) = {New(e) : e \in ring}
      BY DEF Updated
<1>3. ASSUME NEW e \in ring
      PROVE  /\ New(e) \in Record
             /\ New(e).sequence = e.sequence /\ New(e).kind = e.kind
             /\ e.kind # "notice" => New(e) = e
             /\ e.kind = "notice" => New(e).a = Dropped /\ New(e).c = Coalesced(kind)
  <2>1. e \in Record
        BY <1>3 DEF NInv, Numbered
  <2>2. CASE Full /\ e.sequence = notice
        BY <1>1, <2>1, <2>2 DEF Record, NInv, Named
  <2>3. CASE ~(Full /\ e.sequence = notice)
        BY <2>1, <2>3 DEF NInv, Named, Dropped, Coalesced
  <2> QED
      BY <2>2, <2>3
<1> HIDE DEF New
<1>4. ASSUME NEW e \in ring, NEW f \in ring, New(e).sequence = New(f).sequence
      PROVE  New(e) = New(f)
      BY <1>3, <1>4 DEF NInv, Numbered
<1> QED
    BY <1>1, <1>2, <1>3, <1>4

\* One call of yvex_server_telemetry_emit_provider.
LEMMA EmitKeeps ==
    ASSUME NInv, NEW kind \in Kind \ {"notice"}, NEW observed \in BOOLEAN, NEW cl,
           Emit(kind, observed, cl), host = "closed" => host' = "closed"
    PROVE  NInv'
<1> DEFINE number == IF observed /\ ~Noticed(kind) THEN next ELSE Sealed(observed)
           record == IF Noticed(kind)
                     THEN [sequence |-> number, kind |-> "notice",
                           a |-> Dropped, c |-> Coalesced(kind)]
                     ELSE [sequence |-> number, kind |-> kind, a |-> 0, c |-> 0]
           taken == {e \in Updated(kind) : \E v \in Victim : e.sequence = v.sequence}
           U == Updated(kind)
<1>1. /\ number \in Nat /\ number >= next /\ Sealed(observed) \in Nat
      /\ Sealed(observed) >= next /\ number <= Sealed(observed)
      /\ number = next \/ number = Sealed(observed)
      BY DEF NInv, Numbered, Sealed
<1>2. /\ dropped' = Dropped /\ coalesced' = Coalesced(kind)
      /\ IF Passed(kind)
         THEN ring' = U /\ next' = Sealed(observed) /\ notice' = notice
         ELSE /\ ring' = (U \ taken) \cup {record}
              /\ next' = IF number = next THEN next + 1 ELSE Sealed(observed) + 1
              /\ notice' = IF Noticed(kind) THEN number
                           ELSE IF \E e \in taken : e.sequence = notice THEN 0
                           ELSE notice
      BY DEF Emit
<1>3. /\ Dropped \in Nat /\ Coalesced(kind) \in Nat /\ U \subseteq Record
      /\ \A u \in U : \E e \in ring :
            e.sequence = u.sequence /\ e.kind = u.kind
      /\ \A e \in ring : \E u \in U : u.sequence = e.sequence /\ u.kind = e.kind
      /\ \A u \in U : u.kind = "notice" => u.a = Dropped /\ u.c = Coalesced(kind)
      /\ \A u, v \in U : u.sequence = v.sequence => u = v
      BY UpdatedKeeps
<1>4. /\ record \in Record /\ record.sequence = number
      /\ record.kind = "notice" <=> Noticed(kind)
      /\ record.kind = "notice" => record.a = Dropped /\ record.c = Coalesced(kind)
      BY <1>1, <1>3 DEF Record, Kind
<1>5. /\ \A u \in U : 0 < u.sequence /\ u.sequence < next
      /\ \A u \in U : u.kind = "notice" <=> u.sequence = notice
      BY <1>3 DEF NInv, Numbered, Named
<1>6. taken \subseteq U
      OBVIOUS
<1> HIDE DEF number, record, taken, U
<1>7. next' \in Nat \ {0} /\ next' >= next /\ (~Passed(kind) => number < next')
      BY <1>1, <1>2 DEF NInv, Numbered
<1>8. Numbered'
  <2>1. ring' \subseteq Record /\ next' \in Nat \ {0}
        BY <1>2, <1>3, <1>4, <1>7
  <2>2. dropped' \in Nat /\ coalesced' \in Nat
        BY <1>2, <1>3
  <2>3. notice' \in Nat /\ notice' < next'
        BY <1>1, <1>2, <1>7 DEF NInv, Numbered
  <2>4. \A e \in ring' : 0 < e.sequence /\ e.sequence < next'
        BY <1>1, <1>2, <1>3, <1>4, <1>5, <1>7 DEF NInv, Numbered, Record
  <2>5. \A e, f \in ring' : e.sequence = f.sequence => e = f
        BY <1>1, <1>2, <1>3, <1>4, <1>5 DEF NInv, Numbered, Record
  <2> QED
      BY <2>1, <2>2, <2>3, <2>4, <2>5 DEF Numbered
<1>9. Named'
  <2>1. CASE Passed(kind)
        BY <2>1, <1>2, <1>3, <1>5 DEF NInv, Named
  <2>2. CASE ~Passed(kind) /\ Noticed(kind)
    <3>1. ring' = (U \ taken) \cup {record} /\ notice' = number
          BY <2>2, <1>2
    <3>2. \A u \in U : u.kind # "notice" /\ u.sequence # number
          BY <2>2, <1>1, <1>3, <1>5 DEF Noticed, NInv, Numbered, Record
    <3> QED
        BY <3>1, <3>2, <2>2, <1>2, <1>4 DEF Named
  <2>3. CASE ~Passed(kind) /\ ~Noticed(kind)
    <3>1. /\ ring' = (U \ taken) \cup {record}
          /\ notice' = IF \E e \in taken : e.sequence = notice THEN 0 ELSE notice
          BY <2>3, <1>2
    <3>2. record.kind # "notice" /\ record.sequence # 0
          /\ record.sequence # notice
          BY <2>3, <1>1, <1>4 DEF NInv, Numbered
    <3>3. \A e \in ring' : e.kind = "notice" <=> e.sequence = notice'
          BY <3>1, <3>2, <1>3, <1>5, <1>6 DEF Record
    <3>4. \A e \in ring' : e.kind = "notice" => e.a = dropped' /\ e.c = coalesced'
          BY <3>1, <3>2, <1>2, <1>3
    <3>5. notice' # 0 /\ host' # "closed" => \E e \in ring' : e.sequence = notice'
          BY <3>1, <1>3 DEF NInv, Named
    <3> QED
        BY <3>3, <3>4, <3>5 DEF Named
  <2> QED
      BY <2>1, <2>2, <2>3
<1> QED
    BY <1>8, <1>9 DEF NInv

LEMMA NInvStep == NInv /\ [Next]_vars => NInv'
<1> SUFFICES ASSUME NInv, [Next]_vars PROVE NInv'
    OBVIOUS
<1>1. ASSUME NEW k \in {"lifecycle", "progress"}, NEW o \in BOOLEAN, WorkerEmits(k, o)
      PROVE  NInv'
      BY <1>1, EmitKeeps DEF WorkerEmits, Kind
<1>2. ASSUME NEW c \in Client, Leave(c) PROVE NInv'
      BY <1>2, EmitKeeps DEF Leave, Kind
<1>3. CASE Stop
      BY <1>3, EmitKeeps DEF Stop, Kind
<1>4. CASE Finish
      BY <1>4, EmitKeeps DEF Finish, Kind
<1>5. CASE CloseEnds
      BY <1>5 DEF CloseEnds, NInv, Numbered, Named
<1>6. CASE UNCHANGED telemetry /\ (host = "closed" => host' = "closed")
      BY <1>6 DEF telemetry, NInv, Numbered, Named
<1>7. ASSUME NEW c \in Client,
             \/ Receive(c) \/ Subscribe(c) \/ Latest(c) \/ NextEvent(c) \/ Send(c)
             \/ TraceEnds(c) \/ Disconnect(c)
      PROVE  UNCHANGED telemetry /\ (host = "closed" => host' = "closed")
      BY <1>7, Zenon DEF Receive, Subscribe, Latest, NextEvent, Send, TraceEnds,
                         Disconnect
<1>8. CASE CloseBegin \/ CloseShuts \/ UNCHANGED vars
      BY <1>8, <1>6 DEF CloseBegin, CloseShuts, vars, telemetry
<1> QED
    BY <1>1, <1>2, <1>3, <1>4, <1>5, <1>6, <1>7, <1>8
       DEF Next, ClientStep, HostStep

LEMMA Invariance == Spec => []NInv
BY NInvInit, NInvStep, PTL DEF Spec

\* There is at most one retained telemetry.dropped record, it is the one that
\* drop_notice_sequence names, and its totals are current, for every ring.
THEOREM NoticeIsExact == Spec => []NoticeExact
<1>1. NInv => NoticeExact
      BY DEF NInv, Named, NoticeExact
<1> QED
    BY <1>1, Invariance, PTL
-----------------------------------------------------------------------------
(***************************************************************************)
(* Which records leave the ring.                                           *)
(***************************************************************************)
LEMMA EmitKeepsLifecycle ==
    ASSUME NInv, NEW kind \in Kind \ {"notice"}, NEW observed \in BOOLEAN, NEW cl,
           Emit(kind, observed, cl),
           NEW e \in ring \ ring', ~Replaceable(e.kind), e.kind # "notice"
    PROVE  /\ Full /\ Progress = {}
           /\ \E f \in ring' : f.sequence >= next /\ ~Replaceable(f.kind)
<1> DEFINE number == IF observed /\ ~Noticed(kind) THEN next ELSE Sealed(observed)
           record == IF Noticed(kind)
                     THEN [sequence |-> number, kind |-> "notice",
                           a |-> Dropped, c |-> Coalesced(kind)]
                     ELSE [sequence |-> number, kind |-> kind, a |-> 0, c |-> 0]
           taken == {u \in Updated(kind) : \E v \in Victim : u.sequence = v.sequence}
<1>1. PICK u \in Updated(kind) : u = e
      BY UpdatedKeeps
<1>2. ~Passed(kind) /\ e \in taken /\ record \in ring'
      BY <1>1 DEF Emit
<1>3. PICK v \in Victim : e.sequence = v.sequence
      BY <1>2
<1>4. v \in ring /\ v = e
      BY <1>3 DEF Victim, Oldest, Progress, NInv, Numbered
<1>5. Full /\ Progress = {}
      BY <1>3, <1>4 DEF Victim, Oldest, Progress
<1>6. ~Replaceable(kind) /\ ~Noticed(kind)
      BY <1>2, <1>5 DEF Passed, Noticed
<1>7. record.sequence >= next /\ ~Replaceable(record.kind)
      BY <1>6 DEF Sealed, NInv, Numbered
<1> QED
    BY <1>2, <1>5, <1>7

LEMMA LifecycleStep ==
    ASSUME NInv, [Next]_vars, host' # "closed",
           NEW e \in ring \ ring', ~Replaceable(e.kind), e.kind # "notice"
    PROVE  /\ Full /\ Progress = {}
           /\ \E f \in ring' : f.sequence >= next /\ ~Replaceable(f.kind)
<1>1. ASSUME NEW k \in {"lifecycle", "progress"}, NEW o \in BOOLEAN, WorkerEmits(k, o)
      PROVE  Emit(k, o, client)
      BY <1>1 DEF WorkerEmits
<1>2. ASSUME NEW c \in Client, Leave(c) PROVE \E cl : Emit("lifecycle", FALSE, cl)
      BY <1>2 DEF Leave
<1>3. Stop => Emit("lifecycle", FALSE, client)
      BY DEF Stop
<1>4. Finish => Emit("shutdown.complete", FALSE, client)
      BY DEF Finish
<1>5. ring' # ring
      OBVIOUS
<1>6. ~CloseEnds /\ ~CloseBegin /\ ~CloseShuts /\ ~UNCHANGED vars
      BY <1>5 DEF CloseEnds, CloseBegin, CloseShuts, vars, telemetry
<1>7. ASSUME NEW c \in Client,
             \/ Receive(c) \/ Subscribe(c) \/ Latest(c) \/ NextEvent(c) \/ Send(c)
             \/ TraceEnds(c) \/ Disconnect(c)
      PROVE  FALSE
  <2>1. UNCHANGED telemetry
        BY <1>7, Zenon DEF Receive, Subscribe, Latest, NextEvent, Send, TraceEnds,
                           Disconnect
  <2> QED
      BY <2>1, <1>5 DEF telemetry
<1>8. \E k \in Kind \ {"notice"}, o \in BOOLEAN : \E cl : Emit(k, o, cl)
  <2>1. /\ {"lifecycle", "progress"} \subseteq Kind \ {"notice"}
        /\ "shutdown.complete" \in Kind \ {"notice"}
        BY DEF Kind
  <2> QED
      BY <2>1, <1>1, <1>2, <1>3, <1>4, <1>6, <1>7, Zenon DEF Next, ClientStep, HostStep
<1> QED
    BY <1>8, EmitKeepsLifecycle

\* A lifecycle or terminal record is replaced only when no progress record is
\* left, and only by a record that is not replaceable either.
THEOREM LifecycleIsKept == Spec => LifecycleKept
<1>1. NInv /\ [Next]_vars =>
         [host' # "closed" =>
            \A e \in ring \ ring' :
               ~Replaceable(e.kind) /\ e.kind # "notice" =>
                  /\ Full /\ Progress = {}
                  /\ \E f \in ring' : f.sequence >= next /\ ~Replaceable(f.kind)]_vars
      BY LifecycleStep
<1> QED
    BY <1>1, Invariance, PTL DEF Spec, LifecycleKept
-----------------------------------------------------------------------------
(***************************************************************************)
(* The ring keeps to its size, and the last event stays in it.             *)
(***************************************************************************)
LEMMA OldestExists ==
    ASSUME NEW S, S \subseteq Record, S # {}
    PROVE  Oldest(S) # {}
<1> DEFINE R == OpToRel(<, Nat)
           T == {e.sequence : e \in S}
<1>1. IsWellFoundedOn(R, Nat)
      BY NatLessThanWellFounded
<1>2. \A m, n \in Nat : m < n => <<m, n>> \in R
      BY DEF OpToRel
<1>3. T \subseteq Nat /\ T # {}
      BY DEF Record
<1> HIDE DEF R, T
<1>4. PICK n \in T : \A m \in T : ~(<<m, n>> \in R)
      BY <1>1, <1>3, WFMin
<1>5. PICK e \in S : e.sequence = n
      BY DEF T
<1>6. \A f \in S : f.sequence \in T
      BY DEF T
<1>7. ASSUME NEW f \in S PROVE e.sequence <= f.sequence
  <2>1. f.sequence \in T /\ f.sequence \in Nat /\ n \in Nat
        BY <1>3, <1>6
  <2>2. ~(<<f.sequence, n>> \in R)
        BY <1>4, <2>1
  <2> QED
      BY <2>1, <2>2, <1>2, <1>5
<1> QED
    BY <1>7 DEF Oldest

\* The size of the ring, of which telemetry.c allocates the slots once.
Bounded == IsFiniteSet(ring) /\ Cardinality(ring) <= Capacity

LEMMA ClientsFit == Cardinality(Client) \in Nat /\ Capacity \in Nat \ {0}
BY FS_CardinalityType, ClientAssumption, CapacityAssumption

LEMMA Grown ==
    ASSUME NEW S, NEW x, IsFiniteSet(S)
    PROVE  /\ IsFiniteSet(S \cup {x})
           /\ Cardinality(S \cup {x}) <= Cardinality(S) + 1
<1>1. IsFiniteSet(S \cup {x}) /\ Cardinality(S) \in Nat
      BY FS_AddElement, FS_CardinalityType
<1>2. Cardinality(S \cup {x}) = IF x \in S THEN Cardinality(S) ELSE Cardinality(S) + 1
      BY FS_AddElement
<1> QED
    BY <1>1, <1>2

LEMMA EmitKeepsSize ==
    ASSUME NInv, Bounded, NEW kind \in Kind \ {"notice"}, NEW observed \in BOOLEAN,
           NEW cl, Emit(kind, observed, cl)
    PROVE  Bounded'
<1> DEFINE number == IF observed /\ ~Noticed(kind) THEN next ELSE Sealed(observed)
           record == IF Noticed(kind)
                     THEN [sequence |-> number, kind |-> "notice",
                           a |-> Dropped, c |-> Coalesced(kind)]
                     ELSE [sequence |-> number, kind |-> kind, a |-> 0, c |-> 0]
           taken == {u \in Updated(kind) : \E v \in Victim : u.sequence = v.sequence}
           U == Updated(kind)
           f == [u \in U |-> CHOOSE e \in ring : e.sequence = u.sequence]
<1>1. ring' = U \/ ring' = (U \ taken) \cup {record}
      BY DEF Emit
<1>2. /\ \A u \in U : \E e \in ring : e.sequence = u.sequence
      /\ \A e \in ring : \E u \in U : u.sequence = e.sequence
      /\ \A u, v \in U : u.sequence = v.sequence => u = v
      BY UpdatedKeeps
<1>3. taken \subseteq U
      OBVIOUS
<1>4. Full => taken # {}
  <2> SUFFICES ASSUME Full PROVE taken # {}
      OBVIOUS
  <2>1. ring # {} /\ ring \subseteq Record /\ Progress \subseteq Record
        BY ClientsFit, FS_EmptySet DEF Full, Progress, NInv, Numbered
  <2>2. Victim # {} /\ Victim \subseteq ring
        BY <2>1, OldestExists DEF Victim, Oldest, Progress
  <2> QED
      BY <2>2, <1>2
<1> HIDE DEF record, taken, U
<1>5. f \in Injection(U, ring)
  <2>1. \A u \in U : f[u] \in ring /\ f[u].sequence = u.sequence
        BY <1>2
  <2>2. f \in [U -> ring]
        BY <2>1
  <2>3. \A u, v \in U : f[u] = f[v] => u = v
        BY <2>1, <1>2
  <2> QED
      BY <2>2, <2>3 DEF Injection, IsInjective
<1>6. IsFiniteSet(U) /\ Cardinality(U) <= Cardinality(ring)
      /\ Cardinality(U) \in Nat /\ Cardinality(ring) \in Nat
      BY <1>5, FS_Injection, FS_CardinalityType DEF Bounded
<1>7. CASE ring' = U
      BY <1>7, <1>6, ClientsFit DEF Bounded
<1>8. CASE ring' = (U \ taken) \cup {record} /\ Full
  <2>1. PICK u \in U : u \in taken
        BY <1>3, <1>4, <1>8
  <2>2. IsFiniteSet(U \ {u}) /\ Cardinality(U \ {u}) = Cardinality(U) - 1
        BY <1>6, FS_RemoveElement
  <2>3. /\ IsFiniteSet(U \ taken) /\ Cardinality(U \ taken) \in Nat
        /\ Cardinality(U \ taken) <= Cardinality(U \ {u})
        BY <2>1, <2>2, FS_Subset, FS_CardinalityType
  <2>4. IsFiniteSet(ring') /\ Cardinality(ring') <= Cardinality(U \ taken) + 1
        BY <1>8, <2>3, Grown
  <2>5. Cardinality(ring') \in Nat
        BY <2>4, FS_CardinalityType
  <2> QED
      BY <2>2, <2>3, <2>4, <2>5, <1>6, ClientsFit DEF Bounded
<1>9. CASE ring' = (U \ taken) \cup {record} /\ ~Full
  <2>1. /\ IsFiniteSet(U \ taken) /\ Cardinality(U \ taken) \in Nat
        /\ Cardinality(U \ taken) <= Cardinality(U)
        BY <1>3, <1>6, FS_Subset, FS_CardinalityType
  <2>2. IsFiniteSet(ring') /\ Cardinality(ring') <= Cardinality(U \ taken) + 1
        BY <1>9, <2>1, Grown
  <2>3. Cardinality(ring') \in Nat /\ Cardinality(ring) < Capacity
        BY <1>6, <1>9, <2>2, FS_CardinalityType, ClientsFit DEF Full, Bounded
  <2> QED
      BY <2>1, <2>2, <2>3, <1>6, ClientsFit DEF Bounded
<1> QED
    BY <1>1, <1>7, <1>8, <1>9

Connection == [pc : {"connected", "request", "subscribed", "next", "asleep", "awake",
                     "send", "send last", "ack", "refused", "leaving",
                     "disconnected", "gone"},
               subscriber : BOOLEAN, after : Nat, cursor : Nat, limit : Nat]

Connected == client \in [Client -> Connection]

\* The connections that have reported their end.
Left == {c \in Client : client[c].pc \in {"disconnected", "gone"}}

\* After yvex_server_finish the ring has the record of shutdown.complete, and
\* each later number is that of a connection that has reported its end.
LastKept ==
    host \in {"finished", "draining", "waiting"} =>
       \E e \in ring : /\ e.kind = "shutdown.complete"
                       /\ next <= e.sequence + 1 + Cardinality(Left)

LEMMA WokenKeeps ==
    ASSUME NEW cl \in [Client -> Connection]
    PROVE  /\ Woken(cl) \in [Client -> Connection]
           /\ \A c \in Client : Woken(cl)[c].pc \in {"disconnected", "gone"}
                                <=> cl[c].pc \in {"disconnected", "gone"}
<1>1. ASSUME NEW c \in Client
      PROVE  /\ Woken(cl)[c] \in Connection
             /\ Woken(cl)[c].pc \in {"disconnected", "gone"}
                <=> cl[c].pc \in {"disconnected", "gone"}
  <2>1. cl[c] \in Connection
        OBVIOUS
  <2>2. Woken(cl)[c] = IF cl[c].pc = "asleep" THEN [cl[c] EXCEPT !.pc = "awake"]
                       ELSE cl[c]
        BY DEF Woken
  <2> QED
      BY <2>1, <2>2 DEF Connection
<1> QED
    BY <1>1 DEF Woken

LEMMA EmitWakes ==
    ASSUME NEW cl \in [Client -> Connection], NEW kind, NEW observed,
           Emit(kind, observed, cl)
    PROVE  /\ Connected'
           /\ Left' = {c \in Client : cl[c].pc \in {"disconnected", "gone"}}
<1>1. client' = cl \/ client' = Woken(cl)
      BY Zenon DEF Emit
<1> QED
    BY <1>1, WokenKeeps DEF Connected, Left

\* One connection moves on, and has reported its end before and after or
\* neither.
LEMMA Moves ==
    ASSUME Connected, NEW c \in Client, NEW v \in Connection,
           client' = [client EXCEPT ![c] = v],
           v.pc \in {"disconnected", "gone"}
              <=> client[c].pc \in {"disconnected", "gone"}
    PROVE  Connected' /\ Left' = Left
BY DEF Connected, Left

\* A step of a connection other than its report.
LEMMA ConnectionStep ==
    ASSUME NInv, Connected, NEW c \in Client,
           \/ Receive(c) \/ Subscribe(c) \/ Latest(c) \/ NextEvent(c) \/ Send(c)
           \/ TraceEnds(c) \/ Disconnect(c)
    PROVE  Connected' /\ Left' = Left
<1> DEFINE v == client[c]
<1>1. next \in Nat \ {0} /\ ring \subseteq Record /\ v \in Connection
      BY DEF NInv, Numbered, Connected
<1>2. CASE Receive(c)
  <2> DEFINE w(n) == [v EXCEPT !.pc = "request", !.after = n]
             q == [v EXCEPT !.pc = "leaving", !.after = 0, !.cursor = 0, !.limit = 0]
  <2>1. \/ \E n \in Nat : client' = [client EXCEPT ![c] = w(n)]
        \/ client' = [client EXCEPT ![c] = q]
    <3>1. \A n \in 0 .. MaxCursor : n \in Nat
          BY MaxAssumption, SMTT(30)
    <3> QED
        BY <1>2, <3>1, Zenon DEF Receive, Quit, Over
  <2>2. client[c].pc = "connected"
        BY <1>2 DEF Receive
  <2>3. /\ \A n \in Nat : w(n) \in Connection /\ w(n).pc = "request"
        /\ q \in Connection /\ q.pc = "leaving"
        BY <1>1 DEF Connection
  <2> HIDE DEF w, q
  <2> QED
      BY <2>1, <2>2, <2>3, Moves
<1>3. CASE Subscribe(c)
      BY <1>3 DEF Subscribe, Connected, Connection, Left
<1>4. CASE Latest(c)
  <2> DEFINE m == IF c \in Follower THEN 0 ELSE next - 1
             w == [v EXCEPT !.pc = "next", !.limit = m, !.cursor = Start(c)]
  <2>1. client' = [client EXCEPT ![c] = w]
        BY <1>4, Zenon DEF Latest
  <2>2. client[c].pc = "subscribed"
        BY <1>4 DEF Latest
  <2>3. m \in Nat
        BY <1>1
  <2>4. client[c].after \in Nat
        BY <1>1 DEF Connection
  <2>5. Start(c) \in Nat
        BY <1>1, <2>4, WindowAssumption DEF Start
  <2> HIDE DEF m
  <2>6. w \in Connection /\ w.pc = "next"
        BY <1>1, <2>3, <2>5 DEF Connection
  <2> HIDE DEF w
  <2> QED
      BY <2>1, <2>2, <2>6, Moves
<1>5. CASE NextEvent(c)
  <2>1. client[c].pc \in {"next", "awake"}
        BY <1>5 DEF NextEvent
  <2>2. CASE To(c, "asleep")
        BY <2>1, <2>2 DEF To, Connected, Connection, Left
  <2>3. CASE To(c, "refused")
        BY <2>1, <2>3 DEF To, Connected, Connection, Left
  <2>4. ASSUME NEW e \in Oldest(Later(c)),
               client' = [client EXCEPT ![c] =
                  [@ EXCEPT !.cursor = e.sequence,
                            !.pc = IF e.kind = "shutdown.complete" THEN "send last"
                                   ELSE "send"]]
        PROVE  Connected' /\ Left' = Left
    <3> DEFINE p == IF e.kind = "shutdown.complete" THEN "send last" ELSE "send"
               w == [v EXCEPT !.cursor = e.sequence, !.pc = p]
    <3>1. e.sequence \in Nat
          BY <1>1 DEF Oldest, Later, Record
    <3>2. w \in Connection /\ w.pc \in {"send", "send last"}
          BY <1>1, <3>1 DEF Connection
    <3>3. client' = [client EXCEPT ![c] = w]
          BY <2>4
    <3> HIDE DEF w
    <3> QED
        BY <2>1, <3>2, <3>3, Moves
  <2> QED
      BY <1>5, <2>2, <2>3, <2>4 DEF NextEvent
<1>6. CASE Send(c)
  <2>1. CASE client[c].pc = "send" /\ To(c, "next")
        BY <2>1 DEF To, Connected, Connection, Left
  <2>2. CASE client[c].pc \in {"send", "send last", "ack"} /\ Quit(c)
    <3> DEFINE q == [v EXCEPT !.pc = "leaving", !.after = 0, !.cursor = 0, !.limit = 0]
    <3>1. client' = [client EXCEPT ![c] = q]
          BY <2>2, Zenon DEF Quit, Over
    <3>2. q \in Connection /\ q.pc = "leaving"
          BY <1>1 DEF Connection
    <3> HIDE DEF q
    <3> QED
        BY <2>2, <3>1, <3>2, Moves
  <2> QED
      BY <1>6, <2>1, <2>2 DEF Send
<1>7. CASE TraceEnds(c)
      BY <1>7 DEF TraceEnds, To, Connected, Connection, Left
<1>8. CASE Disconnect(c)
      BY <1>8 DEF Disconnect, Connected, Connection, Left
<1> QED
    BY <1>2, <1>3, <1>4, <1>5, <1>6, <1>7, <1>8

LEMMA LeftCounted == Cardinality(Left) \in Nat /\ IsFiniteSet(Left)
BY ClientAssumption, FS_Subset, FS_CardinalityType DEF Left

\* The report of a connection takes the place of the last event only in a ring
\* that the reports alone would fill, and there are too few connections.
LEMMA LeaveKeepsLast ==
    ASSUME NInv, Connected, LastKept, NEW c \in Client, Leave(c)
    PROVE  Connected' /\ LastKept'
<1> DEFINE cl == [client EXCEPT ![c] = Over(@, "disconnected")]
           w == Over(client[c], "disconnected")
<1>1. Emit("lifecycle", FALSE, cl) /\ host' = host
      /\ client[c].pc \in {"refused", "leaving"}
      BY Zenon DEF Leave
<1>2. client[c] \in Connection
      BY DEF Connected
<1>3. w \in Connection /\ w.pc = "disconnected" /\ cl = [client EXCEPT ![c] = w]
      BY <1>2 DEF Connection, Over
<1> HIDE DEF w, cl
<1>4. cl \in [Client -> Connection]
      BY <1>3 DEF Connected
<1>5. Connected' /\ Left' = {d \in Client : cl[d].pc \in {"disconnected", "gone"}}
      BY <1>1, <1>4, EmitWakes
<1>6. Left' = Left \cup {c} /\ c \notin Left
      BY <1>1, <1>3, <1>5 DEF Left, Connected
<1>7. Cardinality(Left') = Cardinality(Left) + 1 /\ Cardinality(Left) \in Nat
      BY <1>6, LeftCounted, FS_AddElement
<1>8. Cardinality(Left) + 1 < Capacity
  <2>1. Left' \subseteq Client
        BY <1>6 DEF Left
  <2>2. Cardinality(Left') <= Cardinality(Client)
        BY <2>1, ClientAssumption, FS_Subset
  <2> QED
      BY <2>2, <1>7, ClientsFit, CapacityAssumption
<1> SUFFICES ASSUME host' \in {"finished", "draining", "waiting"}
             PROVE  \E e \in ring' : /\ e.kind = "shutdown.complete"
                                     /\ next' <= e.sequence + 1 + Cardinality(Left')
    BY <1>5 DEF LastKept
<1>9. PICK e \in ring : /\ e.kind = "shutdown.complete"
                        /\ next <= e.sequence + 1 + Cardinality(Left)
      BY <1>1 DEF LastKept
<1>10. e \in Victim => Cardinality(ring) <= Cardinality(Left) + 1
  <2> SUFFICES ASSUME e \in Victim PROVE Cardinality(ring) <= Cardinality(Left) + 1
      OBVIOUS
  <2> DEFINE S == e.sequence .. next - 1
             f == [d \in ring |-> d.sequence]
  <2>1. \A d \in ring : e.sequence <= d.sequence
        BY <1>9 DEF Victim, Oldest, Progress, Replaceable
  <2>2. e.sequence \in Nat /\ e.sequence < next /\ next \in Nat
        BY DEF NInv, Numbered, Record
  <2>3. f \in Injection(ring, S)
    <3>1. \A d \in ring : d.sequence \in S
          BY <2>1, <2>2 DEF NInv, Numbered, Record
    <3> QED
        BY <3>1 DEF Injection, IsInjective, NInv, Numbered
  <2>4. IsFiniteSet(S) /\ Cardinality(S) = next - e.sequence
    <3>1. e.sequence \in Int /\ next - 1 \in Int /\ ~(e.sequence > next - 1)
          BY <2>2
    <3>2. Cardinality(S) = next - 1 - e.sequence + 1
          BY <3>1, FS_Interval
    <3> QED
        BY <2>2, <3>1, <3>2, FS_Interval, SMTT(30)
  <2>5. IsFiniteSet(ring) /\ Cardinality(ring) <= Cardinality(S)
        BY <2>3, <2>4, FS_Injection
  <2>6. Cardinality(ring) \in Nat
        BY <2>5, FS_CardinalityType
  <2> QED
      BY <2>2, <2>4, <2>5, <2>6, <1>7, <1>9
<1>11. e \notin Victim
  <2>1. CASE Full
        BY <2>1, <1>7, <1>8, <1>10, ClientsFit DEF Full
  <2>2. CASE ~Full
        BY <2>2 DEF Victim
  <2> QED
      BY <2>1, <2>2
<1>12. e \in Updated("lifecycle")
       BY <1>9, UpdatedKeeps DEF Kind
<1>13. \A v \in Victim : v.sequence # e.sequence
       BY <1>11 DEF Victim, Oldest, Progress, NInv, Numbered
<1>14. e \in ring' /\ next' = next + 1
  <2>1. ~Noticed("lifecycle") /\ ~Passed("lifecycle") /\ Sealed(FALSE) = next
        BY DEF Noticed, Passed, Sealed, Replaceable
  <2> QED
      BY <2>1, <1>1, <1>12, <1>13 DEF Emit
<1> QED
    BY <1>7, <1>9, <1>14 DEF NInv, Numbered, Record

LEMMA LastKeptStep ==
    ASSUME NInv, Connected, LastKept, [Next]_vars PROVE Connected' /\ LastKept'
<1>1. ASSUME NEW k \in {"lifecycle", "progress"}, NEW o \in BOOLEAN, WorkerEmits(k, o)
      PROVE  Connected' /\ LastKept'
      BY <1>1, EmitWakes DEF WorkerEmits, LastKept, Connected
<1>2. ASSUME NEW c \in Client, Leave(c) PROVE Connected' /\ LastKept'
      BY <1>2, LeaveKeepsLast
<1>3. CASE Stop
      BY <1>3, EmitWakes DEF Stop, LastKept, Connected
<1>4. CASE Finish
  <2> DEFINE record == [sequence |-> next, kind |-> "shutdown.complete",
                        a |-> 0, c |-> 0]
  <2>1. Connected' /\ Left' = Left
        BY <1>4, EmitWakes DEF Finish, Connected, Left
  <2>2. /\ ~Noticed("shutdown.complete") /\ ~Passed("shutdown.complete")
        /\ Sealed(FALSE) = next
        BY DEF Noticed, Passed, Sealed, Replaceable
  <2>3. record \in ring' /\ next' = next + 1
        BY <1>4, <2>2 DEF Finish, Emit
  <2>4. next' <= record.sequence + 1 + Cardinality(Left')
        BY <2>1, <2>3, LeftCounted DEF NInv, Numbered
  <2> QED
      BY <2>1, <2>3, <2>4 DEF LastKept
<1>5. CASE CloseBegin
  <2>1. ASSUME NEW c \in Client
        PROVE  /\ client'[c] \in Connection
               /\ client'[c].pc \in {"disconnected", "gone"}
                  <=> client[c].pc \in {"disconnected", "gone"}
    <3>1. client[c] \in Connection
          BY DEF Connected
    <3>2. client'[c] = IF client[c].pc = "connected"
                       THEN [client[c] EXCEPT !.pc = "leaving"] ELSE client[c]
          BY <1>5 DEF CloseBegin
    <3> QED
        BY <3>1, <3>2 DEF Connection
  <2>2. Connected' /\ Left' = Left
        BY <1>5, <2>1 DEF CloseBegin, Connected, Left
  <2> QED
      BY <1>5, <2>2 DEF CloseBegin, telemetry, LastKept
<1>6. CASE CloseShuts \/ CloseEnds \/ UNCHANGED vars
      BY <1>6 DEF CloseShuts, CloseEnds, telemetry, vars, LastKept, Connected, Left
<1>7. ASSUME NEW c \in Client,
             \/ Receive(c) \/ Subscribe(c) \/ Latest(c) \/ NextEvent(c) \/ Send(c)
             \/ TraceEnds(c) \/ Disconnect(c)
      PROVE  Connected' /\ LastKept'
  <2>1. UNCHANGED <<telemetry, host>>
        BY <1>7, Zenon DEF Receive, Subscribe, Latest, NextEvent, Send, TraceEnds,
                           Disconnect
  <2>2. Connected' /\ Left' = Left
        BY <1>7, ConnectionStep
  <2> QED
      BY <2>1, <2>2 DEF telemetry, LastKept
<1> QED
    BY <1>1, <1>2, <1>3, <1>4, <1>5, <1>6, <1>7 DEF Next, ClientStep, HostStep

LEMMA BoundedStep == ASSUME NInv, Bounded, [Next]_vars PROVE Bounded'
<1>1. ASSUME NEW k \in {"lifecycle", "progress"}, NEW o \in BOOLEAN, WorkerEmits(k, o)
      PROVE  Bounded'
      BY <1>1, EmitKeepsSize DEF WorkerEmits, Kind
<1>2. ASSUME NEW c \in Client, Leave(c) PROVE Bounded'
      BY <1>2, EmitKeepsSize DEF Leave, Kind
<1>3. CASE Stop \/ Finish
      BY <1>3, EmitKeepsSize DEF Stop, Finish, Kind
<1>4. CASE CloseEnds
      BY <1>4, FS_EmptySet, ClientsFit DEF CloseEnds, Bounded
<1>5. CASE CloseBegin \/ CloseShuts \/ UNCHANGED vars
      BY <1>5 DEF CloseBegin, CloseShuts, telemetry, vars, Bounded
<1>6. ASSUME NEW c \in Client,
             \/ Receive(c) \/ Subscribe(c) \/ Latest(c) \/ NextEvent(c) \/ Send(c)
             \/ TraceEnds(c) \/ Disconnect(c)
      PROVE  Bounded'
  <2>1. UNCHANGED telemetry
        BY <1>6, Zenon DEF Receive, Subscribe, Latest, NextEvent, Send, TraceEnds,
                           Disconnect
  <2> QED
      BY <2>1 DEF telemetry, Bounded
<1> QED
    BY <1>1, <1>2, <1>3, <1>4, <1>5, <1>6 DEF Next, ClientStep, HostStep

\* Whatever is emitted, and however often the notice is made and lost, the ring
\* holds no more records than telemetry.c has slots for.
THEOREM RingIsBounded == Spec => []Bounded
<1>1. Init => Bounded
      BY FS_EmptySet, ClientsFit DEF Init, Bounded
<1> QED
    BY <1>1, BoundedStep, Invariance, PTL DEF Spec

\* The event that every follower waits for when the host closes.
ShutdownRetained ==
    host \in {"finished", "draining", "waiting"} =>
       \E e \in ring : e.kind = "shutdown.complete"

\* shutdown.complete stays in the ring until the host has closed: the reports
\* of the connections that end are too few to push it out, because the ring has
\* more records than the host has connections.
THEOREM ShutdownIsRetained == Spec => []ShutdownRetained
<1>1. Init => Connected /\ LastKept
      BY DEF Init, Connected, Connection, LastKept
<1>2. LastKept => ShutdownRetained
      BY DEF LastKept, ShutdownRetained
<1>3. Spec => [](Connected /\ LastKept)
      BY <1>1, LastKeptStep, Invariance, PTL DEF Spec
<1> QED
    BY <1>2, <1>3, PTL
=============================================================================
