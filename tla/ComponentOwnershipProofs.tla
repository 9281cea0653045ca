---------------------- MODULE ComponentOwnershipProofs ----------------------
(***************************************************************************)
(* Proofs that every step of a component session keeps OwnInv, between the *)
(* operations of a call too, and what follows: a borrowed resource stays   *)
(* in the catalog, and a program is owned until its last resource is gone. *)
(***************************************************************************)
EXTENDS ComponentExecutionProofs

-----------------------------------------------------------------------------
\* Small facts about an arena and its views.
LEMMA ViewedKept ==
    ASSUME NEW p, Viewed(p), DOMAIN slots' = DOMAIN slots,
           \A k \in Kinds : <<p, k>> \in DOMAIN slots =>
              /\ slots'[<<p, k>>].dependency = slots[<<p, k>>].dependency
              /\ slots'[<<p, k>>].dependents = slots[<<p, k>>].dependents
              /\ slots'[<<p, k>>].state = slots[<<p, k>>].state
    PROVE  Viewed(p)'
<1>1. "arena" \in Kinds /\ "request" \in Kinds /\ "condition" \in Kinds
      BY DEF Kinds
<1>2. Views(p)' = Views(p) /\ (Failed(p)' <=> Failed(p))
      BY <1>1 DEF Views, Failed
<1> QED
    BY <1>1, <1>2, ZenonT(30) DEF Viewed

LEMMA ViewAdded ==
    ASSUME NEW p, Viewed(p), NEW j \in {"request", "condition"},
           NEW v, v = <<p, j>>, v \notin DOMAIN slots,
           NEW a, a = <<p, "arena">>, a \in DOMAIN slots,
           DOMAIN slots' = DOMAIN slots \cup {v},
           \A t \in DOMAIN slots : t # a => slots'[t] = slots[t],
           slots'[a].state = "READY", slots'[a].dependency = slots[a].dependency,
           slots'[a].dependents = slots[a].dependents + 1,
           slots'[v].state = "READY", slots'[v].dependents = 0, slots'[v].dependency = a
    PROVE  Viewed(p)'
<1>1. Views(p)' = Views(p) + 1
      BY DEF Views
<1>2. ~Failed(p)'
      BY DEF Failed
<1>3. slots'[a].dependency = None /\ slots'[a].dependents = Views(p)'
      BY <1>1 DEF Viewed
<1>4. ASSUME NEW k \in {"request", "condition"}, <<p, k>> \in DOMAIN slots'
      PROVE  /\ slots'[<<p, k>>].dependency = a /\ slots'[<<p, k>>].dependents = 0
             /\ slots'[<<p, k>>].state = "READY"
  <2>1. CASE k = j
        BY <2>1
  <2>2. CASE k # j
    <3>1. <<p, k>> \in DOMAIN slots /\ slots'[<<p, k>>] = slots[<<p, k>>]
          BY <1>4, <2>2
    <3> QED
        BY <3>1, Zenon DEF Viewed
  <2> QED
      BY <2>1, <2>2
<1> QED
    BY <1>2, <1>3, <1>4, ZenonT(30) DEF Viewed

LEMMA ViewsCounted ==
    ASSUME NEW p
    PROVE  Cardinality({s \in {<<p, "request">>, <<p, "condition">>} :
                           s \in DOMAIN slots}) = Views(p)
<1>0. <<p, "request">> # <<p, "condition">>
      OBVIOUS
<1>1. PICK r, c : r = <<p, "request">> /\ c = <<p, "condition">> /\ r # c
      BY <1>0, Zenon
<1>2. PICK V : V = {s \in {r, c} : s \in DOMAIN slots}
      BY Zenon
<1>3. /\ Cardinality({r}) = 1 /\ Cardinality({c}) = 1 /\ Cardinality({}) = 0
      /\ IsFiniteSet({r})
      BY FS_Singleton, FS_EmptySet, Zenon
<1>a. ASSUME NEW S, NEW x, IsFiniteSet(S), x \notin S
      PROVE  Cardinality(S \cup {x}) = Cardinality(S) + 1
      BY <1>a, FS_AddElement
<1>4. Cardinality({r} \cup {c}) = 2
  <2>1. c \notin {r}
        BY <1>1
  <2>2. Cardinality({r} \cup {c}) = Cardinality({r}) + 1
        BY <1>3, <1>a, <2>1, Zenon
  <2> QED
      BY <1>3, <2>2
<1>5. Views(p) = (IF r \in DOMAIN slots THEN 1 ELSE 0) + (IF c \in DOMAIN slots THEN 1 ELSE 0)
      BY <1>1 DEF Views
<1>6. /\ r \in DOMAIN slots /\ c \in DOMAIN slots => V = {r} \cup {c}
      /\ r \in DOMAIN slots /\ c \notin DOMAIN slots => V = {r}
      /\ r \notin DOMAIN slots /\ c \in DOMAIN slots => V = {c}
      /\ r \notin DOMAIN slots /\ c \notin DOMAIN slots => V = {}
      BY <1>2
<1>7. Cardinality(V) = Views(p)
      BY <1>3, <1>4, <1>5, <1>6
<1> QED
    BY <1>1, <1>2, <1>7

LEMMA LentIsWhole ==
    ASSUME NEW e, Whole(e), NEW k \in First(e.borrowed)
    PROVE  /\ ~closing /\ e.handles = First(3) /\ ~Failed(e.program)
           /\ k \in First(3) /\ k \in Kinds
<1>1. e.borrowed \in 0 .. 3
      BY Zenon DEF Whole
<1>2. e.borrowed > 0 /\ k \in Kinds /\ First(3) = Kinds
      BY <1>1 DEF First, Kinds
<1> QED
    BY <1>2, Zenon DEF Whole

-----------------------------------------------------------------------------
\* Entries come and go.
LEMMA PopStep ==
    ASSUME LeaseInv, OwnInv, entries # <<>>, entries' = Tail(entries),
           NEW e \in Entries, e = Head(entries),
           \A k \in Kinds : <<e.program, k>> \notin DOMAIN slots,
           UNCHANGED <<slots, closing>>, CallInv',
           \A f \in Entries : f # e => Doing(f)'
    PROVE  OwnInv'
<1>1. \A f : f \in Entries' <=> f \in Entries /\ f # e
      BY Dropped
<1>2. \A f \in Entries : Good(f)'
      BY GoodElsewhere DEF OwnInv, Same
<1>3. ASSUME NEW s \in DOMAIN slots
      PROVE  s \in Program \X Kinds /\ \E f \in Entries' : f.program = s[1]
  <2>1. s \in Program \X Kinds
        BY DEF OwnInv, SlotsInv
  <2>2. PICK f \in Entries : f.program = s[1]
        BY DEF OwnInv, SlotsInv
  <2>3. f # e
        BY <2>1, <2>2
  <2> QED
      BY <1>1, <2>1, <2>2, <2>3, ZenonT(30)
<1>4. SlotsInv'
      BY <1>3 DEF OwnInv, SlotsInv, Catalog!Slot
<1> QED
    BY <1>1, <1>2, <1>4 DEF OwnInv

LEMMA EvictEntryStep ==
    ASSUME LeaseInv, OwnInv, EvictEntry
    PROVE  OwnInv'
<1>1. /\ call.pc \in {"evict", "undo"} /\ entries # <<>> /\ Head(entries).handles = {}
      /\ UNCHANGED <<slots, closing, session>>
      BY DEF EvictEntry
<1>2. PICK e \in Entries : e = Head(entries)
      BY <1>1, HeadIsEntry DEF LeaseInv
<1>3. Good(e) /\ Doing(e) /\ e.borrowed = 0
      BY <1>1, <1>2 DEF OwnInv, CallInv, Doing
<1>4. CASE entries' = Tail(entries) /\ IF call.pc = "undo" THEN Return ELSE UNCHANGED call
  <2>1. call'.pc = "idle" \/ (call.pc = "evict" /\ call' = call)
        BY <1>1, <1>4 DEF Return, NoCall
  <2>2. CallInv'
    <3>1. session # "closed"
          BY <1>1 DEF OwnInv, CallInv
    <3> QED
        BY <1>1, <2>1, <3>1, ZenonT(30) DEF OwnInv, CallInv
  <2>3. \A f \in Entries : f # e => Doing(f)'
        BY <1>1, <1>2, <2>1 DEF OwnInv, Doing, Failed
  <2>4. \A k \in Kinds : <<e.program, k>> \notin DOMAIN slots
        BY <1>1, <1>2, <1>3 DEF Good, Owned
  <2> QED
      BY <1>1, <1>2, <1>4, <2>2, <2>3, <2>4, PopStep, ZenonT(30)
<1>5. CASE Head(entries).live /\ Return /\ UNCHANGED entries
  <2>1. call'.pc = "idle"
        BY <1>5 DEF Return, NoCall
  <2>2. CallInv'
        BY <1>1, <1>5, <2>1, ZenonT(30) DEF OwnInv, CallInv
  <2>3. ~e.ready
        BY <1>1, <1>2, <1>3 DEF Good, Whole
  <2>4. \A f \in Entries : Doing(f)'
        BY <1>1, <1>2, <1>3, <2>1, <2>3, Zenon DEF OwnInv, Doing, Failed
  <2> QED
      BY <1>1, <1>5, <2>2, <2>4, Quiet, ZenonT(30)
<1> QED
    BY <1>4, <1>5 DEF EvictEntry

LEMMA SessionReleaseStep ==
    ASSUME LeaseInv, OwnInv, SessionRelease
    PROVE  OwnInv'
<1>1. call.pc = "close" /\ DOMAIN slots = {} /\ UNCHANGED <<slots, closing>> /\ closing
      BY DEF SessionRelease, OwnInv, CallInv
<1>2. \A e \in Entries : e.borrowed = 0
      BY <1>1 DEF OwnInv, Good, Whole
<1>3. session # "closed"
      BY <1>1 DEF OwnInv, CallInv
<1>4. CASE entries # <<>> /\ entries' = Tail(entries) /\ UNCHANGED <<session, call>>
  <2>1. PICK e \in Entries : e = Head(entries)
        BY <1>4, HeadIsEntry DEF LeaseInv
  <2>2. CallInv'
        BY <1>1, <1>3, <1>4, ZenonT(30) DEF OwnInv, CallInv
  <2>3. \A f \in Entries : Doing(f)'
        BY <1>1, <1>2, <1>4 DEF Doing
  <2> QED
      BY <1>1, <1>4, <2>1, <2>2, <2>3, PopStep, ZenonT(30)
<1>5. CASE Return /\ UNCHANGED entries /\ (session' = session \/ entries = <<>>)
  <2>1. call'.pc = "idle"
        BY <1>5 DEF Return, NoCall
  <2>2. CallInv'
        BY <1>1, <1>3, <1>5, <2>1, ZenonT(30) DEF OwnInv, CallInv
  <2>3. \A f \in Entries : Doing(f)'
        BY <1>1, <1>2, <2>1 DEF Doing
  <2> QED
      BY <1>1, <1>5, <2>2, <2>3, Quiet, ZenonT(30)
<1> QED
    BY <1>4, <1>5 DEF SessionRelease

LEMMA PrepareStep ==
    ASSUME LeaseInv, OwnInv, Prepare
    PROVE  OwnInv'
<1>1. /\ call.pc = "find" /\ ~Known(call.program)
      /\ UNCHANGED <<slots, closing, session>>
      BY DEF Prepare
<1>2. session # "closed" /\ call.program \in Program
      BY <1>1 DEF OwnInv, CallInv
<1>3. CASE Return /\ UNCHANGED entries
  <2>1. call'.pc = "idle"
        BY <1>3 DEF Return, NoCall
  <2>2. CallInv'
        BY <1>1, <1>2, <2>1, ZenonT(30) DEF OwnInv, CallInv
  <2>3. \A f \in Entries : Doing(f)'
        BY <1>1, <2>1, Zenon DEF OwnInv, Doing, Failed
  <2> QED
      BY <1>1, <1>3, <2>2, <2>3, Quiet, ZenonT(30)
<1>4. ASSUME NEW live \in BOOLEAN, ~closing,
             entries' = <<[program |-> call.program, live |-> live, ready |-> FALSE,
                           handles |-> {}, borrowed |-> 0]>> \o entries,
             At(IF live THEN "register" ELSE "undo")
      PROVE  OwnInv'
  <2> DEFINE new == [program |-> call.program, live |-> live, ready |-> FALSE,
                     handles |-> {}, borrowed |-> 0]
  <2>1. PICK e : e = new
        BY Zenon
  <2>2. /\ e \in Kept /\ e.program = call.program /\ e.live = live /\ ~e.ready
        /\ e.handles = {} /\ e.borrowed = 0
        BY <1>2, <2>1 DEF Kept
  <2>3. entries' = <<e>> \o entries
        BY <1>4, <2>1, Zenon
  <2>4. /\ \A f : f \in Entries' <=> f = e \/ f \in Entries
        /\ entries' # <<>> /\ Head(entries') = e
        BY <2>2, <2>3, Added, ZenonT(30)
  <2>5. /\ call'.program = call.program
        /\ call'.pc = (IF live THEN "register" ELSE "undo")
        BY <1>4, Zenon DEF At
  <2>6. call'.pc \in {"register", "undo"} /\ (call'.pc = "register" => e.live)
        BY <2>2, <2>5
  <2> HIDE DEF new
  <2>7. \A f \in Entries : f.program # call.program
        BY <1>1 DEF Known, Entries
  <2>8. \A k \in Kinds : <<e.program, k>> \notin DOMAIN slots
        BY <2>2, <2>7 DEF OwnInv, SlotsInv
  <2>9. Good(e)'
    <3>1. {} = First(0) /\ "arena" \in Kinds
          BY DEF First, Kinds
    <3>2. Whole(e)'
          BY <1>2, <2>2, <3>1 DEF Whole
    <3>3. Owned(e)'
          BY <1>1, <2>2, <2>8, ZenonT(30) DEF Owned
    <3>4. Viewed(e.program)'
          BY <1>1, <2>8 DEF Viewed, Failed, Kinds
    <3> QED
        BY <3>2, <3>3, <3>4 DEF Good
  <2>10. Doing(e)'
         BY <2>2, <2>6, ZenonT(30) DEF Doing
  <2>11. \A f \in Entries : Good(f)' /\ Doing(f)'
    <3>1. \A f \in Entries : Good(f)'
          BY <1>1, GoodElsewhere DEF OwnInv, Same
    <3>2. \A f \in Entries : Doing(f)'
          BY <1>1, <2>6, Zenon DEF OwnInv, Doing, Failed
    <3> QED
        BY <3>1, <3>2, ZenonT(30)
  <2>12. CallInv'
    <3>1. {} # First(3)
          BY DEF First, Kinds
    <3> QED
        BY <1>1, <1>2, <1>4, <2>2, <2>4, <2>5, <2>6, <3>1, ZenonT(30) DEF CallInv
  <2>13. SlotsInv'
         BY <1>1, <2>4, ZenonT(30) DEF OwnInv, SlotsInv, Catalog!Slot
  <2> QED
      BY <2>4, <2>9, <2>10, <2>11, <2>12, <2>13, ZenonT(30) DEF OwnInv
<1> QED
    BY <1>3, <1>4, Zenon DEF Prepare

-----------------------------------------------------------------------------
\* The next resource of the newest entry is registered.
LEMMA RegisterNextStep ==
    ASSUME LeaseInv, OwnInv, call.pc = "register",
           NEW n \in 0 .. 2, NEW p, NEW e \in Entries, e = Head(entries),
           e.handles = First(n), e.program = p, p = call.program,
           Catalog!Register(<<p, Kind[n + 1]>>, IF n = 0 THEN None ELSE <<p, "arena">>),
           NEW d \in Kept, NewestIs(d), d.handles = First(n + 1),
           d.live <=> e.live, d.ready <=> n = 2, UNCHANGED <<call, session>>
    PROVE  OwnInv'
<1> DEFINE key == <<p, Kind[n + 1]>>
           dep == IF n = 0 THEN None ELSE <<p, "arena">>
<1>1. Good(e) /\ Doing(e) /\ p \in Program /\ e.live
      /\ e.borrowed = 0 /\ session # "closed"
      BY DEF OwnInv, CallInv, Good, Whole
<1>2. /\ First(n) \cup {Kind[n + 1]} = First(n + 1) /\ Kind[n + 1] \notin First(n)
      /\ Kind[n + 1] \in Kinds /\ (Kind[n + 1] = "arena" <=> n = 0)
      BY FirstNext
<1>3. /\ d.program = p /\ d.borrowed = 0
      /\ \A f : f \in Entries' <=> f = d \/ (f \in Entries /\ f # e)
      /\ entries' # <<>> /\ Head(entries') = d
      BY <1>1, Zenon DEF NewestIs
<1>4. slots \in [DOMAIN slots -> SlotT] /\ DOMAIN slots \subseteq Program \X Kinds
      BY SlotIs DEF OwnInv, SlotsInv
<1>5. /\ <<p, "arena">> # None /\ "arena" \in Kinds /\ None \notin DOMAIN slots
      /\ dep \in (Program \X Kinds) \cup {None}
      BY <1>1, <1>4, NoneAssumption, KindsAre DEF Kinds
<1>6. /\ closing' = closing /\ ~closing /\ key \notin DOMAIN slots
      /\ dep # None => dep \in DOMAIN slots /\ slots[dep].state = "READY"
      /\ DOMAIN slots' = DOMAIN slots \cup {key}
      /\ slots' \in [DOMAIN slots \cup {key} -> SlotT]
      /\ \A t \in DOMAIN slots : t # dep => slots'[t] = slots[t]
      /\ slots'[key].state = "READY" /\ slots'[key].consumers = 0
      /\ slots'[key].dependents = 0 /\ slots'[key].dependency = dep
      /\ dep \in DOMAIN slots =>
            /\ slots'[dep].state = slots[dep].state
            /\ slots'[dep].consumers = slots[dep].consumers
            /\ slots'[dep].dependency = slots[dep].dependency
            /\ slots'[dep].dependents = slots[dep].dependents + 1
  <2> HIDE DEF key, dep
  <2>1. Catalog!Register(key, dep)
        BY Zenon DEF key, dep
  <2> QED
      BY <1>4, <1>5, <2>1, Registers, ZenonT(30)
<1>7. Apart(p)
  <2>1. ASSUME NEW q \in Program, NEW k \in Kinds, q # p
        PROVE  Same(<<q, k>>)
    <3>1. <<q, k>> # key /\ <<q, k>> # <<p, "arena">> /\ <<q, k>> # None
          BY <2>1, NoneAssumption, KindsAre
    <3> QED
        BY <1>6, <3>1 DEF Same
  <2> QED
      BY <2>1, ZenonT(30) DEF Apart
<1>8. Whole(d)'
  <2>1. d.handles \in {First(m) : m \in 0 .. 3} /\ "arena" \in d.handles
        BY <1>3 DEF First, Kinds
  <2> QED
      BY <1>1, <1>3, <2>1 DEF Whole
<1>9. Owned(d)'
  <2>1. ASSUME NEW k \in Kinds, <<p, k>> \in DOMAIN slots'
        PROVE  k \in d.handles /\ d.live /\ slots'[<<p, k>>].consumers = 0
    <3>1. CASE k = Kind[n + 1]
          BY <1>1, <1>2, <1>6, <3>1, ZenonT(30)
    <3>2. CASE k # Kind[n + 1]
      <4>1. <<p, k>> \in DOMAIN slots
            BY <1>6, <2>1, <3>2
      <4>2. k \in e.handles /\ slots[<<p, k>>].consumers = 0
            BY <1>1, <4>1, ZenonT(30) DEF Good, Owned, First
      <4>3. slots'[<<p, k>>].consumers = slots[<<p, k>>].consumers
            BY <1>6, <4>1, ZenonT(30)
      <4> QED
          BY <1>1, <1>2, <4>2, <4>3, ZenonT(30)
    <3> QED
        BY <3>1, <3>2, ZenonT(30)
  <2>2. \A k \in d.handles : <<p, k>> \in DOMAIN slots'
        BY <1>1, <1>2, <1>6 DEF Good, Owned
  <2> QED
      BY <1>3, <2>1, <2>2, ZenonT(30) DEF Owned, First
<1>10. Viewed(p)'
  <2>1. CASE n = 0
    <3>1. key = <<p, "arena">> /\ dep = None
          BY <2>1, <1>2, ZenonT(30)
    <3>2. <<p, "request">> \notin DOMAIN slots /\ <<p, "condition">> \notin DOMAIN slots
          BY <2>1, <1>1, ZenonT(30) DEF Good, Owned, First, Kinds
    <3>3. <<p, "request">> \notin DOMAIN slots' /\ <<p, "condition">> \notin DOMAIN slots'
          BY <1>6, <3>1, <3>2, ZenonT(30)
    <3> QED
        BY <1>6, <3>1, <3>3 DEF Viewed, Views, Failed
  <2>2. CASE n # 0
    <3>1. /\ dep = <<p, "arena">> /\ dep \in DOMAIN slots /\ key # dep
          /\ slots[dep].state = "READY"
          BY <2>2, <1>2, <1>5, <1>6, ZenonT(30)
    <3>2. Kind[n + 1] \in {"request", "condition"}
          BY <2>2, <1>2 DEF Kinds
    <3>3. Viewed(p)
          BY <1>1, Zenon DEF Good
    <3> HIDE DEF key, dep
    <3>4. key = <<p, Kind[n + 1]>>
          BY Zenon DEF key
    <3> QED
        BY <1>6, <3>1, <3>2, <3>3, <3>4, ViewAdded
  <2> QED
      BY <2>1, <2>2, ZenonT(30)
<1>11. CallInv'
  <2>1. n = 2 <=> First(n + 1) = First(3)
        BY FirstTold
  <2> QED
      BY <1>1, <1>3, <1>6, <2>1, ZenonT(30) DEF OwnInv, CallInv
<1>12. Doing(d)'
       BY <1>3 DEF Doing
<1>13. ASSUME NEW f \in Entries, f # e, Failed(f.program)' <=> Failed(f.program)
       PROVE  Doing(f)'
       BY <1>6, <1>13, ZenonT(30) DEF OwnInv, Doing
<1>14. slots' \in [DOMAIN slots' -> SlotT] /\ DOMAIN slots' \subseteq Program \X Kinds
       BY <1>1, <1>2, <1>4, <1>6
<1> QED
    BY <1>3, <1>6, <1>7, <1>8, <1>9, <1>10, <1>11, <1>12, <1>13, <1>14, OneChanged, ZenonT(30)
       DEF Good

LEMMA RegisterOneStep ==
    ASSUME LeaseInv, OwnInv, RegisterOne
    PROVE  OwnInv'
<1>1. call.pc = "register" /\ UNCHANGED session /\ entries # <<>> /\ ~closing
      /\ Head(entries).program = call.program
      BY DEF RegisterOne, OwnInv, CallInv
<1>2. PICK e \in Entries : e = Head(entries)
      BY <1>1, HeadIsEntry DEF LeaseInv
<1>3. PICK p : p = call.program
      OBVIOUS
<1>4. PICK n \in 0 .. 3 : e.handles = First(n)
      BY DEF OwnInv, Good, Whole
<1>5. Cardinality(Head(entries).handles) = n
      BY <1>2, <1>4, FirstSize, ZenonT(30)
<1>6. e.borrowed = 0 /\ e.live /\ (e.ready <=> n = 3) /\ e.program = p
      /\ e.live \in BOOLEAN
      BY <1>1, <1>2, <1>3, <1>4, FirstTold, SMTT(30) DEF OwnInv, CallInv, Good, Whole, Kept
<1>7. \/ /\ n < 3
         /\ Catalog!Register(<<p, Kind[n + 1]>>, IF n = 0 THEN None ELSE <<p, "arena">>)
         /\ entries' = Renew(e.handles \cup {Kind[n + 1]}, e.live, n = 2)
         /\ UNCHANGED call
      \/ n = 3 /\ At("borrow") /\ UNCHANGED <<slots, closing, entries>>
      \/ At("undo") /\ UNCHANGED <<slots, closing, entries>>
      BY <1>2, <1>3, <1>5, Zenon DEF RegisterOne
<1>8. CASE /\ n < 3
           /\ Catalog!Register(<<p, Kind[n + 1]>>, IF n = 0 THEN None ELSE <<p, "arena">>)
           /\ entries' = Renew(e.handles \cup {Kind[n + 1]}, e.live, n = 2)
           /\ UNCHANGED call
  <2>1. PICK l, r : l = e.live /\ r = (n = 2)
        BY Zenon
  <2>2. l \in BOOLEAN /\ r \in BOOLEAN
        BY <1>6, <2>1, Zenon
  <2>3. n \in 0 .. 2 /\ First(n) \cup {Kind[n + 1]} = First(n + 1) /\ First(n + 1) \in SUBSET Kinds
        BY <1>8, FirstNext, FirstSize
  <2>4. entries' = Renew(First(n + 1), l, r)
        BY <1>4, <1>8, <2>1, <2>3, Zenon
  <2>5. PICK d \in Kept : d.handles = First(n + 1) /\ d.live = l /\ d.ready = r
                          /\ NewestIs(d)
    <3>1. Renewing(First(n + 1), l, r)
          BY <1>1, <2>2, <2>3, <2>4, Zenon DEF Renewing
    <3>2. Renewed(First(n + 1), l, r)
          BY <3>1, RenewIs, Zenon
    <3> QED
        BY <3>2, Zenon DEF Renewed
  <2>6. (d.live <=> e.live) /\ (d.ready <=> n = 2)
        BY <2>1, <2>5, Zenon
  <2>7. Catalog!Register(<<p, Kind[n + 1]>>, IF n = 0 THEN None ELSE <<p, "arena">>)
        /\ UNCHANGED <<call, session>>
        BY <1>1, <1>8, Zenon
  <2> QED
      BY <1>1, <1>2, <1>3, <1>4, <1>6, <2>3, <2>5, <2>6, <2>7, RegisterNextStep, ZenonT(30)
<1>9. CASE n = 3 /\ At("borrow") /\ UNCHANGED <<slots, closing, entries>>
  <2>1. call'.pc = "borrow" /\ call'.program = call.program
        BY <1>9 DEF At
  <2>2. CallInv'
        BY <1>1, <1>9, <2>1 DEF OwnInv, CallInv
  <2>3. \A f \in Entries : f.program = call.program => f = e
        BY <1>3, <1>6, EntriesOne DEF OneEach
  <2>4. \A f \in Entries : Doing(f)'
        BY <1>1, <1>6, <1>9, <2>1, <2>3, ZenonT(30) DEF OwnInv, Doing, Failed
  <2> QED
      BY <1>9, <2>2, <2>4, Quiet, ZenonT(30)
<1>10. CASE At("undo") /\ UNCHANGED <<slots, closing, entries>>
  <2>1. call'.pc = "undo" /\ call'.program = call.program
        BY <1>10 DEF At
  <2>2. CallInv'
        BY <1>1, <1>10, <2>1 DEF OwnInv, CallInv
  <2>3. \A f \in Entries : Doing(f)'
        BY <1>1, <1>10, <2>1, ZenonT(30) DEF OwnInv, Doing, Failed
  <2> QED
      BY <1>10, <2>2, <2>3, Quiet, ZenonT(30)
<1> QED
    BY <1>7, <1>8, <1>9, <1>10, ZenonT(30)

-----------------------------------------------------------------------------
\* Acquire and drop.  An entry that lends is whole: an arena whose release has
\* failed is not acquired.
LEMMA BorrowStep ==
    ASSUME LeaseInv, OwnInv, Borrow
    PROVE  OwnInv'
<1>1. call.pc = "borrow" /\ UNCHANGED <<call, session>> /\ session # "closed"
      BY DEF Borrow, OwnInv, CallInv
<1>2. PICK p : p = call.program
      OBVIOUS
<1>3. Known(p)
      BY <1>1, <1>2 DEF LeaseInv
<1>4. PICK e \in Entries : e = entries[Place(p)] /\ e.program = p
      BY <1>3, PlaceIsEntry
<1>5. /\ e.borrowed < Len(Handles(e))
      /\ Catalog!Acquire(<<p, Handles(e)[e.borrowed + 1]>>)
      /\ entries' = Lend(p, e.borrowed + 1)
      BY <1>2, <1>4, Zenon DEF Borrow
<1>6. Good(e) /\ Doing(e) /\ e.ready /\ e.borrowed \in 0 .. 3 /\ p \in Program
      BY <1>1, <1>2, <1>4 DEF OwnInv, Good, Whole, Doing
<1>7. slots \in [DOMAIN slots -> SlotT] /\ DOMAIN slots \subseteq Program \X Kinds
      BY SlotIs DEF OwnInv, SlotsInv
<1>8. PICK m \in 0 .. 3 : e.handles = First(m)
      BY <1>6 DEF Good, Whole
<1>9. Len(Handles(e)) = m /\ \A j \in 1 .. m : Handles(e)[j] = Kind[j]
      BY <1>8, HandlesAre, Zenon
<1>10. PICK n \in 0 .. 2 : n = e.borrowed /\ Handles(e)[n + 1] = Kind[n + 1]
       BY <1>5, <1>6, <1>9
<1> DEFINE key == <<p, Kind[n + 1]>>
<1>11. /\ closing' = closing /\ ~closing
       /\ key \in DOMAIN slots /\ slots[key].state = "READY"
       /\ DOMAIN slots' = DOMAIN slots /\ slots' \in [DOMAIN slots -> SlotT]
       /\ \A t \in DOMAIN slots : t # key => slots'[t] = slots[t]
       /\ slots'[key].consumers = slots[key].consumers + 1
       /\ slots'[key].state = slots[key].state
       /\ slots'[key].dependents = slots[key].dependents
       /\ slots'[key].dependency = slots[key].dependency
  <2>1. Catalog!Acquire(key)
        BY <1>5, <1>10, Zenon
  <2> QED
      BY <1>7, <2>1, Acquires
<1>12. ~Failed(p)
  <2>1. CASE n = 0
        BY <2>1, <1>11, KindsAre DEF Failed
  <2>2. CASE n > 0
        BY <2>2, <1>4, <1>6, <1>10, ZenonT(30) DEF Good, Whole
  <2> QED
      BY <2>1, <2>2
<1>13. e.handles = First(3)
       BY <1>1, <1>4, <1>6, <1>11, <1>12, ZenonT(30) DEF Doing
<1>14. PICK d \in Kept : d.borrowed = n + 1 /\ LendingIs(d, p)
  <2>1. n + 1 \in Nat /\ entries' = Lend(p, n + 1)
        BY <1>5, <1>10
  <2> QED
      BY <1>3, <2>1, LendIs, ZenonT(30)
<1>15. /\ d.program = p /\ d.handles = First(3) /\ d.live = e.live /\ d.ready = e.ready
       /\ \A f : f \in Entries' <=> f = d \/ (f \in Entries /\ f # e)
       BY <1>4, <1>13, <1>14, Zenon DEF LendingIs
<1>16. Kind[n + 1] \notin First(n) /\ First(n) \cup {Kind[n + 1]} = First(n + 1)
       BY FirstNext, ZenonT(30)
<1>17. Apart(p)
       BY <1>11, ZenonT(30) DEF Apart, Same
<1>18. Views(p)' = Views(p) /\ ~Failed(p)'
       BY <1>11, <1>12, ZenonT(30) DEF Views, Failed
<1>19. Whole(d)'
  <2>1. d.handles \in {First(j) : j \in 0 .. 3} /\ d.borrowed \in 0 .. 3
        BY <1>14, <1>15
  <2> QED
      BY <1>6, <1>11, <1>13, <1>15, <1>18, <2>1, ZenonT(30) DEF Whole, Good
<1>20. Owned(d)'
  <2>1. ASSUME NEW k \in Kinds, <<p, k>> \in DOMAIN slots
        PROVE  /\ k \in d.handles /\ d.live
               /\ slots'[<<p, k>>].consumers = IF k \in First(n + 1) THEN 1 ELSE 0
    <3>1. k \in e.handles /\ e.live
          /\ slots[<<p, k>>].consumers = IF k \in First(n) THEN 1 ELSE 0
          BY <1>4, <1>6, <1>10, <2>1, ZenonT(30) DEF Good, Owned
    <3>2. CASE k = Kind[n + 1]
          BY <1>11, <1>13, <1>15, <1>16, <3>1, <3>2, SMTT(30)
    <3>3. CASE k # Kind[n + 1]
          BY <1>11, <1>13, <1>15, <1>16, <2>1, <3>1, <3>3, ZenonT(30)
    <3> QED
        BY <3>2, <3>3, ZenonT(30)
  <2>2. \A k \in d.handles : <<p, k>> \in DOMAIN slots
        BY <1>4, <1>6, <1>11, <1>13, <1>15, ZenonT(30) DEF Good, Owned
  <2> QED
      BY <1>11, <1>14, <1>15, <2>1, <2>2, ZenonT(30) DEF Owned
<1>21. Viewed(p)'
  <2>1. ASSUME NEW k \in Kinds, <<p, k>> \in DOMAIN slots
        PROVE  /\ slots'[<<p, k>>].dependency = slots[<<p, k>>].dependency
               /\ slots'[<<p, k>>].dependents = slots[<<p, k>>].dependents
               /\ slots'[<<p, k>>].state = slots[<<p, k>>].state
        BY <1>11, <2>1
  <2> QED
      BY <1>4, <1>6, <1>11, <2>1, ViewedKept, ZenonT(30) DEF Good
<1>22. CallInv'
       BY <1>1, <1>11, Zenon DEF OwnInv, CallInv
<1>23. Doing(d)'
       BY <1>1, <1>2, <1>6, <1>15, ZenonT(30) DEF Doing
<1>24. ASSUME NEW f \in Entries, f.program # e.program,
              Failed(f.program)' <=> Failed(f.program)
       PROVE  Doing(f)'
       BY <1>1, <1>2, <1>4, <1>11, <1>24, ZenonT(30) DEF OwnInv, Doing
<1>25. slots' \in [DOMAIN slots' -> SlotT] /\ DOMAIN slots' \subseteq Program \X Kinds
       BY <1>7, <1>11
<1> QED
    BY <1>4, <1>11, <1>15, <1>17, <1>19, <1>20, <1>21, <1>22, <1>23, <1>24, <1>25, OneChanged, ZenonT(30)
       DEF Good

\* What dropping everything an entry has borrowed leaves of its slots.
LEMMA DropGood ==
    ASSUME OwnInv, NEW e \in Entries, NEW d \in Kept, d.program = e.program,
           d.handles = e.handles, d.live = e.live, d.ready = e.ready, d.borrowed = 0,
           NEW K, Catalog!Drop(K),
           \A k \in Kinds : <<e.program, k>> \in K <=> k \in First(e.borrowed)
    PROVE  /\ Good(d)' /\ (Failed(e.program)' <=> Failed(e.program))
           /\ closing' = closing
<1>1. slots \in [DOMAIN slots -> SlotT]
      BY SlotIs DEF OwnInv, SlotsInv
<1>2. /\ closing' = closing
      /\ \A s \in K : s \in DOMAIN slots
      /\ DOMAIN slots' = DOMAIN slots
      /\ \A t \in DOMAIN slots : t \notin K => slots'[t] = slots[t]
      /\ \A t \in K : /\ slots'[t].consumers = slots[t].consumers - 1
                      /\ slots'[t].state = slots[t].state
                      /\ slots'[t].dependents = slots[t].dependents
                      /\ slots'[t].dependency = slots[t].dependency
      BY <1>1, Drops
<1>3. Good(e)
      BY DEF OwnInv
<1>4. PICK p : p = e.program
      OBVIOUS
<1>5. ASSUME NEW k \in Kinds, <<p, k>> \in DOMAIN slots
      PROVE  /\ slots'[<<p, k>>].dependency = slots[<<p, k>>].dependency
             /\ slots'[<<p, k>>].dependents = slots[<<p, k>>].dependents
             /\ slots'[<<p, k>>].state = slots[<<p, k>>].state
             /\ slots'[<<p, k>>].consumers = 0
  <2>1. slots[<<p, k>>].consumers = IF k \in First(e.borrowed) THEN 1 ELSE 0
        BY <1>3, <1>4, <1>5, ZenonT(30) DEF Good, Owned
  <2>2. <<p, k>> \in K <=> k \in First(e.borrowed)
        BY <1>4, ZenonT(30)
  <2> QED
      BY <1>2, <1>5, <2>1, <2>2
<1>6. Views(p)' = Views(p) /\ (Failed(p)' <=> Failed(p))
      BY <1>2, <1>5, ZenonT(30) DEF Views, Failed, Kinds
<1>7. Whole(d)'
      BY <1>3 DEF Good, Whole
<1>8. Owned(d)'
      BY <1>2, <1>3, <1>4, <1>5 DEF Good, Owned, First
<1>9. Viewed(p)'
      BY <1>2, <1>3, <1>4, <1>5, ViewedKept, ZenonT(30) DEF Good
<1> QED
    BY <1>2, <1>4, <1>6, <1>7, <1>8, <1>9, ZenonT(30) DEF Good

\* A call that gives back what it borrowed and returns.
LEMMA DropStep ==
    ASSUME LeaseInv, OwnInv, call.pc \in {"borrow", "run"}, Return, UNCHANGED session,
           Catalog!Drop(Borrowed(entries[Place(call.program)])),
           entries' = Lend(call.program, 0)
    PROVE  OwnInv'
<1>1. PICK p : p = call.program
      BY ZenonT(30)
<1>2. Known(p)
      BY <1>1 DEF LeaseInv
<1>3. PICK e \in Entries : e = entries[Place(p)] /\ e.program = p
      BY <1>2, PlaceIsEntry, ZenonT(30)
<1>4. Good(e) /\ Doing(e)
      BY DEF OwnInv
<1>5. PICK d \in Kept : d.borrowed = 0 /\ LendingIs(d, p)
  <2>1. entries' = Lend(p, 0)
        BY <1>1
  <2> QED
      BY <1>2, <2>1, LendIs
<1>6. /\ d.program = e.program /\ d.handles = e.handles /\ d.live = e.live
      /\ d.ready = e.ready
      /\ \A f : f \in Entries' <=> f = d \/ (f \in Entries /\ f # e)
      BY <1>3, <1>5, Zenon DEF LendingIs
<1>7. PICK K : K = Borrowed(e)
      OBVIOUS
<1>8. Catalog!Drop(K)
      BY <1>1, <1>3, <1>7, Zenon
<1>9. \A s : s \in K <=> \E k \in First(e.borrowed) : s = <<e.program, k>>
      BY <1>4, <1>7, BorrowedIs, ZenonT(30)
<1>10. \A k \in Kinds : <<e.program, k>> \in K <=> k \in First(e.borrowed)
       BY <1>9
<1>11. /\ Good(d)' /\ (Failed(e.program)' <=> Failed(e.program))
       /\ closing' = closing
       BY <1>5, <1>6, <1>8, <1>10, DropGood, ZenonT(30)
<1>12. slots \in [DOMAIN slots -> SlotT] /\ DOMAIN slots \subseteq Program \X Kinds
       BY SlotIs DEF OwnInv, SlotsInv
<1>13. /\ DOMAIN slots' = DOMAIN slots /\ slots' \in [DOMAIN slots -> SlotT]
       /\ \A t \in DOMAIN slots : t \notin K => slots'[t] = slots[t]
       BY <1>8, <1>12, Drops, ZenonT(30)
<1>14. Apart(e.program)
  <2>1. ASSUME NEW q \in Program, NEW k \in Kinds, q # e.program
        PROVE  <<q, k>> \notin K
        BY <1>9, <2>1
  <2> QED
      BY <1>13, <2>1, ZenonT(30) DEF Apart, Same
<1>15. call'.pc = "idle"
       BY DEF Return, NoCall
<1>16. CallInv'
       BY <1>15 DEF OwnInv, CallInv
<1>17. Doing(d)'
       BY <1>4, <1>5, <1>6, <1>11, <1>15, ZenonT(30) DEF Doing
<1>18. ASSUME NEW f \in Entries, f.program # e.program,
              Failed(f.program)' <=> Failed(f.program)
       PROVE  Doing(f)'
       BY <1>1, <1>3, <1>11, <1>15, <1>18, ZenonT(30) DEF OwnInv, Doing
<1>19. slots' \in [DOMAIN slots' -> SlotT] /\ DOMAIN slots' \subseteq Program \X Kinds
       BY <1>12, <1>13, ZenonT(30)
<1> QED
    BY <1>6, <1>11, <1>14, <1>16, <1>17, <1>18, <1>19, OneChanged, ZenonT(30)

LEMMA BorrowFailsStep ==
    ASSUME LeaseInv, OwnInv, BorrowFails
    PROVE  OwnInv'
BY DropStep DEF BorrowFails

LEMMA RunStep ==
    ASSUME LeaseInv, OwnInv, Run
    PROVE  OwnInv'
<1>1. call.pc = "run" /\ Return /\ UNCHANGED session
      BY DEF Run
<1>2. CASE leases = 0
  <2>1. Catalog!Drop(Borrowed(entries[Place(call.program)])) /\ entries' = Lend(call.program, 0)
        BY <1>2, Zenon DEF Run
  <2> QED
      BY <1>1, <2>1, DropStep, ZenonT(30)
<1>3. CASE leases # 0
  <2>1. UNCHANGED <<slots, closing, entries>>
        BY <1>3 DEF Run
  <2>2. call'.pc = "idle"
        BY <1>1, ZenonT(30) DEF Return, NoCall
  <2>3. CallInv'
        BY <1>1, <2>1, <2>2, ZenonT(30) DEF OwnInv, CallInv
  <2>4. \A f \in Entries : Doing(f)'
        BY <1>1, <2>1, <2>2, ZenonT(30) DEF OwnInv, Doing, Failed
  <2> QED
      BY <2>1, <2>3, <2>4, Quiet, ZenonT(30)
<1> QED
    BY <1>2, <1>3, ZenonT(30)

-----------------------------------------------------------------------------
\* The last lease drops what all the entries have borrowed.
LEMMA AllBorrowedIs ==
    ASSUME LeaseInv, OwnInv, NEW e \in Entries, NEW k \in Kinds
    PROVE  <<e.program, k>> \in AllBorrowed <=> k \in First(e.borrowed)
<1>1. \A f \in Entries : \A s : s \in Borrowed(f) <=>
         \E j \in First(f.borrowed) : s = <<f.program, j>>
      BY BorrowedIs DEF OwnInv
<1>2. \A s : s \in AllBorrowed <=> \E f \in Entries : s \in Borrowed(f)
      BY Zenon DEF AllBorrowed, Entries
<1>3. ASSUME <<e.program, k>> \in AllBorrowed PROVE k \in First(e.borrowed)
  <2>1. PICK f \in Entries : <<e.program, k>> \in Borrowed(f)
        BY <1>2, <1>3
  <2>2. PICK j \in First(f.borrowed) : <<e.program, k>> = <<f.program, j>>
        BY <1>1, <2>1, ZenonT(30)
  <2>3. f.program = e.program /\ j = k
        BY <2>2
  <2> QED
      BY <2>2, <2>3, EntriesOne, ZenonT(30) DEF OneEach
<1>4. ASSUME k \in First(e.borrowed) PROVE <<e.program, k>> \in AllBorrowed
      BY <1>1, <1>2, <1>4, ZenonT(30)
<1> QED
    BY <1>3, <1>4

LEMMA CloseLeaseStep ==
    ASSUME LeaseInv, OwnInv, CloseLease
    PROVE  OwnInv'
<1>1. call.pc = "idle" /\ UNCHANGED <<session, call>> /\ session = "open"
      BY DEF CloseLease, Caller
<1>2. CASE UNCHANGED <<slots, closing, entries>>
  <2>1. CallInv'
        BY <1>1, <1>2 DEF OwnInv, CallInv
  <2>2. \A f \in Entries : Doing(f)'
        BY <1>1, <1>2, Zenon DEF OwnInv, Doing, Failed
  <2> QED
      BY <1>2, <2>1, <2>2, Quiet, ZenonT(30)
<1>3. CASE Unlent
  <2> DEFINE back(e) == [e EXCEPT !.borrowed = 0]
  <2>1. entries' = [i \in DOMAIN entries |-> back(entries[i])]
        BY <1>3, Zenon DEF Unlent
  <2>2. \A e \in Kept : /\ back(e) \in Kept /\ back(e).program = e.program
                        /\ back(e).handles = e.handles /\ back(e).live = e.live
                        /\ back(e).ready = e.ready /\ back(e).borrowed = 0
        BY DEF Kept
  <2> HIDE DEF back
  <2>3. \A d : d \in Entries' <=> \E e \in Entries : d = back(e)
    <3>1. DOMAIN entries' = DOMAIN entries
          /\ \A i \in DOMAIN entries : entries'[i] = back(entries[i])
          BY <2>1
    <3> QED
        BY <3>1, Zenon DEF Entries
  <2>4. PICK K : K = AllBorrowed
        OBVIOUS
  <2>5. Catalog!Drop(K)
        BY <1>3, <2>4, Zenon DEF Unlent
  <2>6. slots \in [DOMAIN slots -> SlotT] /\ DOMAIN slots \subseteq Program \X Kinds
        BY SlotIs DEF OwnInv, SlotsInv
  <2>7. /\ closing' = closing /\ DOMAIN slots' = DOMAIN slots
        /\ slots' \in [DOMAIN slots -> SlotT]
        BY <2>5, <2>6, Drops, ZenonT(30)
  <2>8. ASSUME NEW e \in Entries
        PROVE  /\ Good(back(e))' /\ (Failed(e.program)' <=> Failed(e.program))
               /\ back(e) \in Kept /\ back(e).program = e.program
    <3>1. \A k \in Kinds : <<e.program, k>> \in K <=> k \in First(e.borrowed)
          BY <2>4, AllBorrowedIs, ZenonT(30)
    <3>2. e \in Kept
          BY DEF OwnInv, Good, Whole
    <3>3. PICK d \in Kept : d = back(e)
          BY <2>2, <3>2
    <3>4. Good(d)' /\ (Failed(e.program)' <=> Failed(e.program))
          BY <2>2, <2>5, <3>1, <3>2, <3>3, DropGood, ZenonT(30)
    <3> QED
        BY <2>2, <3>2, <3>3, <3>4, ZenonT(30)
  <2>9. ASSUME NEW e \in Entries PROVE Doing(back(e))'
    <3>1. e \in Kept /\ Doing(e)
          BY DEF OwnInv, Good, Whole
    <3> QED
        BY <1>1, <2>2, <2>7, <2>8, <3>1, ZenonT(30) DEF Doing
  <2>10. \A d \in Entries' : Good(d)' /\ Doing(d)'
         BY <2>3, <2>8, <2>9, ZenonT(30)
  <2>11. CallInv'
         BY <1>1 DEF OwnInv, CallInv
  <2>12. SlotsInv'
    <3>1. ASSUME NEW s \in DOMAIN slots'
          PROVE  s \in Program \X Kinds /\ \E f \in Entries' : f.program = s[1]
      <4>1. PICK e \in Entries : e.program = s[1]
            BY <2>7 DEF OwnInv, SlotsInv
      <4> QED
          BY <2>3, <2>6, <2>7, <2>8, <4>1, ZenonT(30)
    <3>2. closing' \in BOOLEAN /\ slots' \in [DOMAIN slots' -> Catalog!Slot]
          BY <2>7, SlotIs DEF OwnInv, SlotsInv
    <3>3. (Catalog!Slot)' = Catalog!Slot
          BY DEF Catalog!Slot
    <3> QED
        BY <3>1, <3>2, <3>3, ZenonT(30) DEF SlotsInv
  <2> QED
      BY <2>10, <2>11, <2>12 DEF OwnInv
<1> QED
    BY <1>2, <1>3 DEF CloseLease

LEMMA SessionCloseStep ==
    ASSUME LeaseInv, OwnInv, SessionClose
    PROVE  OwnInv'
<1>1. /\ call.pc = "idle" /\ session = "open" /\ AllBorrowed = {}
      /\ closing' = TRUE /\ UNCHANGED <<slots, entries, session>>
      /\ call'.pc = "close"
      BY DEF SessionClose, Caller, At
<1>2. \A e \in Entries : e.borrowed = 0
      BY <1>1, NothingLent
<1>3. Entries' = Entries
      BY <1>1 DEF Entries
<1>4. ASSUME NEW e \in Entries PROVE Good(e)' /\ Doing(e)'
  <2>1. Good(e) /\ e.borrowed = 0
        BY <1>2, ZenonT(30) DEF OwnInv
  <2>2. Whole(e)' /\ Owned(e)'
        BY <1>1, <2>1 DEF Good, Whole, Owned
  <2>3. Viewed(e.program)'
        BY <1>1, <2>1, ZenonT(30) DEF Good, Viewed, Views, Failed
  <2>4. Doing(e)'
        BY <1>1, <2>1, ZenonT(30) DEF Doing
  <2> QED
      BY <2>2, <2>3, <2>4 DEF Good
<1>5. SlotsInv'
      BY <1>1, <1>3, ZenonT(30) DEF OwnInv, SlotsInv, Catalog!Slot
<1>6. CallInv'
      BY <1>1 DEF OwnInv, CallInv
<1> QED
    BY <1>3, <1>4, <1>5, <1>6, ZenonT(30) DEF OwnInv

\* While the catalog closes nothing is borrowed and the session is not closed.
LEMMA ClosingIsFree ==
    ASSUME OwnInv, call.pc = "close"
    PROVE  closing /\ session # "closed" /\ \A f \in Entries : f.borrowed = 0
<1>1. closing /\ session # "closed"
      BY DEF OwnInv, CallInv
<1>2. ASSUME NEW f \in Entries PROVE f.borrowed = 0
  <2>1. f.borrowed \in 0 .. 3 /\ ~(f.borrowed > 0)
        BY <1>1, Zenon DEF OwnInv, Good, Whole
  <2> QED
      BY <2>1
<1> QED
    BY <1>1, <1>2

\* The catalog closes: a resource is released, and an arena with its program.
LEMMA CatalogReleasesStep ==
    ASSUME LeaseInv, OwnInv, call.pc = "close", NEW p \in Program, NEW j \in Kinds,
           Catalog!Release(<<p, j>>), UNCHANGED <<call, session>>,
           NEW e \in Entries, e.program = p, NEW d \in Kept, d.program = p,
           d.handles = e.handles, d.borrowed = e.borrowed,
           d.live <=> e.live /\ j # "arena", d.ready <=> e.ready /\ j # "arena",
           \A f : f \in Entries' <=> f = d \/ (f \in Entries /\ f # e)
    PROVE  OwnInv'
<1>1. /\ closing /\ session # "closed" /\ \A f \in Entries : f.borrowed = 0
      /\ slots \in [DOMAIN slots -> SlotT] /\ DOMAIN slots \subseteq Program \X Kinds
      BY ClosingIsFree, SlotsTyped, Zenon
<1>2. Good(e) /\ Viewed(p) /\ e.handles \in {First(n) : n \in 0 .. 3}
      BY Zenon DEF OwnInv, Good, Whole
<1>3. Good(d)'
      BY <1>1, <1>2, ReleaseGood, Zenon
<1>4. /\ closing' = closing /\ slots' \in [DOMAIN slots' -> SlotT]
      /\ DOMAIN slots' \subseteq Program \X Kinds /\ Apart(p)
      BY <1>1, <1>2, ReleaseViews, Zenon
<1>5. CallInv'
      BY <1>1, <1>4, ZenonT(30) DEF CallInv
<1>6. Doing(d)' /\ \A f \in Entries : Doing(f)'
      BY <1>1, <1>4 DEF Doing
<1> QED
    BY <1>3, <1>4, <1>5, <1>6, OneChanged, Zenon

LEMMA CatalogFailsStep ==
    ASSUME LeaseInv, OwnInv, call.pc = "close", NEW p \in Program,
           Catalog!ReleaseFails(<<p, "arena">>), call'.pc = "idle",
           UNCHANGED <<entries, session>>, NEW e \in Entries, e.program = p
    PROVE  OwnInv'
<1>1. /\ closing /\ session # "closed" /\ \A f \in Entries : f.borrowed = 0
      /\ slots \in [DOMAIN slots -> SlotT] /\ DOMAIN slots \subseteq Program \X Kinds
      BY ClosingIsFree, SlotsTyped, Zenon
<1>2. Good(e) /\ e \in Kept
      BY Zenon DEF OwnInv, Good, Whole
<1>3. /\ closing' = closing /\ slots' \in [DOMAIN slots' -> SlotT]
      /\ DOMAIN slots' \subseteq Program \X Kinds /\ Apart(p) /\ Good(e)'
      BY <1>1, <1>2, FailGood, Zenon
<1>4. CallInv'
      BY <1>1, <1>3, ZenonT(30) DEF CallInv
<1>5. \A f \in Entries : Doing(f)'
      BY <1>1, <1>3, ZenonT(30) DEF Doing
<1>6. \A f : f \in Entries' <=> f = e \/ (f \in Entries /\ f # e)
      BY Zenon DEF Entries
<1> QED
    BY <1>2, <1>3, <1>4, <1>5, <1>6, OneChanged, Zenon

LEMMA CatalogReleaseStep ==
    ASSUME LeaseInv, OwnInv, CatalogRelease
    PROVE  OwnInv'
<1>1. call.pc = "close" /\ UNCHANGED session /\ closing
      BY Zenon DEF CatalogRelease, OwnInv, CallInv
<1>2. CASE Return /\ UNCHANGED <<slots, closing, entries>>
  <2>1. call'.pc = "idle"
        BY <1>2, ZenonT(30) DEF Return, NoCall
  <2>2. CallInv'
        BY <1>1, <1>2, <2>1, ZenonT(30) DEF OwnInv, CallInv
  <2>3. \A f \in Entries : Doing(f)'
        BY <1>1, <1>2, <2>1, ZenonT(30) DEF OwnInv, Doing, Good, Whole
  <2> QED
      BY <1>2, <2>2, <2>3, Quiet, ZenonT(30)
<1>3. ASSUME NEW k \in Catalog!Releasable,
             \/ /\ Catalog!Release(k)
                /\ entries' = [i \in DOMAIN entries |->
                      IF entries[i].program = k[1] /\ k[2] = "arena"
                      THEN [entries[i] EXCEPT !.live = FALSE, !.ready = FALSE]
                      ELSE entries[i]]
                /\ UNCHANGED call
             \/ /\ k[2] = "arena" /\ Catalog!ReleaseFails(k)
                /\ Return /\ UNCHANGED entries
      PROVE  OwnInv'
  <2>1. k \in DOMAIN slots
        BY DEF Catalog!Releasable
  <2>2. PICK p \in Program, j \in Kinds : k = <<p, j>>
        BY <2>1 DEF OwnInv, SlotsInv
  <2>3. PICK e \in Entries : e.program = p
        BY <2>1, <2>2, ZenonT(30) DEF OwnInv, SlotsInv
  <2>4. e \in Kept /\ k[1] = p /\ k[2] = j
        BY <2>2, ZenonT(30) DEF OwnInv, Good, Whole
  <2>5. CASE /\ Catalog!Release(k)
             /\ entries' = [i \in DOMAIN entries |->
                   IF entries[i].program = k[1] /\ k[2] = "arena"
                   THEN [entries[i] EXCEPT !.live = FALSE, !.ready = FALSE]
                   ELSE entries[i]]
             /\ UNCHANGED call
    <3> DEFINE d == IF j = "arena" THEN [e EXCEPT !.live = FALSE, !.ready = FALSE] ELSE e
    <3>1. /\ d \in Kept /\ d.program = p /\ d.handles = e.handles
          /\ d.borrowed = e.borrowed
          /\ d.live <=> e.live /\ j # "arena"
          /\ d.ready <=> e.ready /\ j # "arena"
          BY <2>3, <2>4, Zenon DEF Kept
    <3>2. PICK n \in DOMAIN entries : e = entries[n]
          BY DEF Entries
    <3>3. \A i \in DOMAIN entries : entries[i].program = p <=> i = n
          BY <2>3, <3>2 DEF LeaseInv
    <3>4. /\ DOMAIN entries' = DOMAIN entries
          /\ \A i \in DOMAIN entries : entries'[i] = IF i = n THEN d ELSE entries[i]
      <4>1. /\ DOMAIN entries' = DOMAIN entries
            /\ \A i \in DOMAIN entries : entries'[i] =
                   IF entries[i].program = k[1] /\ k[2] = "arena"
                   THEN [entries[i] EXCEPT !.live = FALSE, !.ready = FALSE]
                   ELSE entries[i]
            BY <2>5, Zenon
      <4> QED
          BY <4>1, <2>4, <3>2, <3>3, Zenon
    <3> HIDE DEF d
    <3>5. \A f : f \in Entries' <=> f = d \/ (f \in Entries /\ f # e)
      <4>1. \A i \in DOMAIN entries : entries[i] = e <=> i = n
            BY <2>3, <3>2, <3>3
      <4> QED
          BY <3>2, <3>4, <4>1 DEF Entries
    <3>6. Catalog!Release(<<p, j>>) /\ UNCHANGED <<call, session>>
          BY <1>1, <2>2, <2>5, Zenon
    <3> QED
        BY <1>1, <2>3, <3>1, <3>5, <3>6, CatalogReleasesStep, ZenonT(30)
  <2>6. CASE k[2] = "arena" /\ Catalog!ReleaseFails(k) /\ Return /\ UNCHANGED entries
    <3>1. call'.pc = "idle"
          BY <2>6 DEF Return, NoCall
    <3>2. k = <<p, "arena">>
          BY <2>2, <2>4, <2>6
    <3>3. Catalog!ReleaseFails(<<p, "arena">>)
          BY <2>6, <3>2, Zenon
    <3> QED
        BY <1>1, <2>3, <2>6, <3>1, <3>3, CatalogFailsStep, ZenonT(30)
  <2> QED
      BY <1>3, <2>5, <2>6, Zenon
<1> QED
    BY <1>2, <1>3, ZenonT(30) DEF CatalogRelease

LEMMA OwnInit == ComponentInit => OwnInv
<1> SUFFICES ASSUME ComponentInit PROVE OwnInv
    OBVIOUS
<1>1. /\ entries = <<>> /\ DOMAIN slots = {} /\ slots = [k \in {} |-> None]
      /\ closing = FALSE /\ session = "open" /\ call.pc = "idle"
      BY DEF ComponentInit, Catalog!CatalogInit, NoCall
<1>2. Entries = {}
      BY <1>1 DEF Entries
<1>3. SlotsInv /\ CallInv
      BY <1>1, ZenonT(30) DEF SlotsInv, CallInv
<1> QED
    BY <1>2, <1>3 DEF OwnInv

LEMMA OwnStep == LeaseInv /\ OwnInv /\ [ComponentNext]_allVars => OwnInv'
<1> SUFFICES ASSUME LeaseInv, OwnInv, [ComponentNext]_allVars PROVE OwnInv'
    OBVIOUS
<1>1. CASE \E p \in Program : JointExecute(p)
      BY <1>1, JointStep
<1>2. CASE EvictHandle \/ EvictEntry \/ Evicted \/ Find \/ Prepare
      BY <1>2, EvictHandleStep, EvictEntryStep, EvictedStep, FindStep, PrepareStep, ZenonT(30)
<1>3. CASE RegisterOne \/ Borrow \/ BorrowFails \/ Lent \/ Run
      BY <1>3, RegisterOneStep, BorrowStep, BorrowFailsStep, LentStep, RunStep, ZenonT(30)
<1>4. CASE CatalogRelease \/ SessionRelease \/ SessionClose \/ CloseLease
      BY <1>4, CatalogReleaseStep, SessionReleaseStep, SessionCloseStep, CloseLeaseStep, ZenonT(30)
<1>5. CASE OpenLease
  <2>1. UNCHANGED <<slots, closing, entries, session, call>>
        BY <1>5, ZenonT(30) DEF OpenLease
  <2>2. CallInv' /\ \A f \in Entries : Doing(f)'
        BY <2>1 DEF OwnInv, CallInv, Doing, Failed
  <2> QED
      BY <2>1, <2>2, Quiet, ZenonT(30)
<1>6. CASE CloseUnleased \/ Transact \/ CancelAny \/ OtherLease \/ Closed
           \/ UNCHANGED allVars
  <2>1. UNCHANGED sessionVars
        BY <1>6, ZenonT(30) DEF CloseUnleased, Transact, CancelAny, OtherLease, Closed, allVars
  <2> QED
      BY <2>1, StillStep, ZenonT(30)
<1> QED
    BY <1>1, <1>2, <1>3, <1>4, <1>5, <1>6, ZenonT(30) DEF ComponentNext, SessionStep

LEMMA OwnBorrowed == LeaseInv /\ OwnInv => BorrowedLive
<1> SUFFICES ASSUME LeaseInv, OwnInv PROVE BorrowedLive
    BY ZenonT(30)
<1>1. ASSUME NEW s \in AllBorrowed
      PROVE  s \in DOMAIN slots /\ slots[s].state = "READY" /\ slots[s].consumers = 1
  <2>1. PICK e \in Entries : s \in Borrowed(e)
        BY DEF AllBorrowed, Entries
  <2>2. Good(e)
        BY ZenonT(30) DEF OwnInv
  <2>3. PICK k \in First(e.borrowed) : s = <<e.program, k>>
        BY <2>1, <2>2, BorrowedIs, ZenonT(30)
  <2>5. /\ ~closing /\ e.handles = First(3) /\ ~Failed(e.program)
        /\ k \in First(3) /\ k \in Kinds
        BY <2>2, LentIsWhole, Zenon DEF Good
  <2>6. s \in DOMAIN slots /\ slots[s].consumers = 1
        BY <2>2, <2>3, <2>5, ZenonT(30) DEF Good, Owned
  <2>7. slots[s].state \in {"READY", "FAILED"}
        BY <2>6, ZenonT(30) DEF OwnInv, SlotsInv, Catalog!Slot
  <2>8. slots[s].state = "READY"
        BY <2>2, <2>3, <2>5, <2>6, <2>7, ZenonT(30) DEF Good, Viewed, Failed, Kinds
  <2> QED
      BY <2>6, <2>8, ZenonT(30)
<1>2. ASSUME NEW s \in DOMAIN slots, s \notin AllBorrowed PROVE slots[s].consumers = 0
  <2>1. PICK p \in Program, k \in Kinds : s = <<p, k>>
        BY DEF OwnInv, SlotsInv
  <2>2. PICK e \in Entries : e.program = p
        BY <2>1, ZenonT(30) DEF OwnInv, SlotsInv
  <2>3. k \notin First(e.borrowed)
        BY <1>2, <2>1, <2>2, AllBorrowedIs, ZenonT(30)
  <2> QED
      BY <2>1, <2>2, <2>3, ZenonT(30) DEF OwnInv, Good, Owned
<1>3. ASSUME call.pc = "run"
      PROVE  entries[Place(call.program)].live /\ entries[Place(call.program)].borrowed = 3
  <2>1. Known(call.program)
        BY <1>3, ZenonT(30) DEF LeaseInv
  <2>2. PICK e \in Entries : e = entries[Place(call.program)] /\ e.program = call.program
        BY <2>1, PlaceIsEntry, ZenonT(30)
  <2>3. e.borrowed = 3
        BY <1>3, <2>2, ZenonT(30) DEF OwnInv, Doing
  <2>4. e.live
        BY <2>3 DEF OwnInv, Good, Whole
  <2> QED
      BY <2>2, <2>3, <2>4, ZenonT(30)
<1> QED
    BY <1>1, <1>2, <1>3, ZenonT(30) DEF BorrowedLive, Catalog!Present

\* What depends on an arena are its views, and nothing depends on a view.
LEMMA OwnDependents ==
    ASSUME OwnInv, NEW p \in Program, NEW k \in Kinds, <<p, k>> \in DOMAIN slots
    PROVE  slots[<<p, k>>].dependents =
              Cardinality({s \in DOMAIN slots : slots[s].dependency = <<p, k>>})
<1> DEFINE D == {s \in DOMAIN slots : slots[s].dependency = <<p, k>>}
           views == {s \in {<<p, "request">>, <<p, "condition">>} : s \in DOMAIN slots}
<1>1. ASSUME NEW q \in Program, NEW j \in Kinds, <<q, j>> \in DOMAIN slots
      PROVE  /\ slots[<<q, j>>].dependency = IF j = "arena" THEN None ELSE <<q, "arena">>
             /\ slots[<<q, j>>].dependents = IF j = "arena" THEN Views(q) ELSE 0
  <2>1. PICK e \in Entries : e.program = q
        BY <1>1 DEF OwnInv, SlotsInv
  <2>2. Viewed(q)
        BY <2>1, ZenonT(30) DEF OwnInv, Good
  <2> QED
      BY <1>1, <2>2, ZenonT(30) DEF Viewed, Kinds
<1>2. \A s \in DOMAIN slots : s \in Program \X Kinds
      BY DEF OwnInv, SlotsInv
<1>3. <<p, k>> # None
      BY NoneAssumption, KindsAre
<1>4. CASE k # "arena"
  <2>1. D = {}
    <3>1. ASSUME NEW s \in D PROVE FALSE
      <4>1. PICK q \in Program, j \in Kinds : s = <<q, j>> /\ s \in DOMAIN slots
            BY <1>2, <3>1
      <4>2. slots[s].dependency = <<p, k>>
            BY <3>1, ZenonT(30)
      <4>3. <<p, k>> = IF j = "arena" THEN None ELSE <<q, "arena">>
            BY <1>1, <4>1, <4>2, ZenonT(30)
      <4>4. <<p, k>> = <<q, "arena">>
            BY <1>3, <4>3, ZenonT(30)
      <4> QED
          BY <1>4, <4>4, ZenonT(30)
    <3> QED
        BY <3>1
  <2> HIDE DEF D
  <2>2. Cardinality(D) = 0
        BY <2>1, FS_EmptySet, ZenonT(30)
  <2> QED
      BY <1>1, <1>4, <2>2, ZenonT(30) DEF D
<1>5. CASE k = "arena"
  <2>1. D = views
    <3>1. ASSUME NEW s \in D PROVE s \in views
      <4>1. PICK q \in Program, j \in Kinds : s = <<q, j>> /\ s \in DOMAIN slots
            BY <1>2, <3>1
      <4>2. slots[s].dependency = <<p, k>>
            BY <3>1
      <4>3. <<p, k>> = IF j = "arena" THEN None ELSE <<q, "arena">>
            BY <1>1, <4>1, <4>2
      <4>4. j # "arena" /\ <<p, k>> = <<q, "arena">>
            BY <1>3, <4>3, ZenonT(30)
      <4>5. q = p
            BY <4>4
      <4> QED
          BY <4>1, <4>4, <4>5, ZenonT(30) DEF Kinds
    <3>2. ASSUME NEW s \in views PROVE s \in D
      <4>1. PICK j \in {"request", "condition"} : s = <<p, j>> /\ s \in DOMAIN slots
            BY ZenonT(30)
      <4>2. j \in Kinds /\ j # "arena"
            BY ZenonT(30) DEF Kinds
      <4> QED
          BY <1>1, <1>5, <4>1, <4>2, ZenonT(30)
    <3> QED
        BY <3>1, <3>2, ZenonT(30)
  <2>2. Cardinality(views) = Views(p)
        BY ViewsCounted, Zenon
  <2> QED
      BY <1>1, <1>5, <2>1, <2>2, ZenonT(30)
<1> QED
    BY <1>4, <1>5, ZenonT(30)

LEMMA CatalogCardinality ==
    ASSUME NEW S
    PROVE  Catalog!Cardinality(S) = Cardinality(S)
BY DEF Catalog!Cardinality, Cardinality

LEMMA OwnProgram == OwnInv => ProgramOwned
<1> SUFFICES ASSUME OwnInv PROVE ProgramOwned
    OBVIOUS
<1>1. ASSUME NEW s \in DOMAIN slots
      PROVE  /\ slots[s].dependency # None => slots[s].dependency \in DOMAIN slots
             /\ slots[s].dependents =
                   Cardinality({t \in DOMAIN slots : slots[t].dependency = s})
             /\ \E i \in DOMAIN entries : entries[i].program = s[1] /\ entries[i].live
  <2>1. PICK p \in Program, k \in Kinds : s = <<p, k>>
        BY DEF OwnInv, SlotsInv
  <2>2. PICK e \in Entries : e.program = p
        BY <2>1 DEF OwnInv, SlotsInv
  <2>3. Good(e)
        BY DEF OwnInv
  <2>4. slots[s].dependency # None => slots[s].dependency \in DOMAIN slots
        BY <2>1, <2>2, <2>3, ZenonT(30) DEF Good, Viewed, Kinds
  <2>5. slots[s].dependents =
           Cardinality({t \in DOMAIN slots : slots[t].dependency = s})
        BY <2>1, OwnDependents, ZenonT(30)
  <2>6. e.live
        BY <2>1, <2>2, <2>3, ZenonT(30) DEF Good, Owned
  <2>7. PICK i \in DOMAIN entries : e = entries[i]
        BY ZenonT(30) DEF Entries
  <2> QED
      BY <2>1, <2>2, <2>4, <2>5, <2>6, <2>7, ZenonT(30)
<1>2. session = "closed" => entries = <<>> /\ slots = <<>>
  <2>1. SUFFICES ASSUME session = "closed" PROVE slots = <<>>
        BY DEF OwnInv, CallInv
  <2>2. slots \in [{} -> Catalog!Slot]
        BY <2>1 DEF OwnInv, SlotsInv, CallInv
  <2> QED
      BY <2>2
<1>3. Catalog!DependencyHeld
      BY <1>1, CatalogCardinality, Zenon DEF Catalog!DependencyHeld, Catalog!Present
<1> QED
    BY <1>1, <1>2, <1>3, Zenon DEF ProgramOwned

\* What a joint call has borrowed stays in the catalog, ready, with that one
\* consumer, and nothing else has a consumer: no release, eviction or close of
\* the session takes a resource from a program that runs or a lease that keeps
\* it, for every number of requests and bindings.
THEOREM BorrowedIsLive == ComponentSpec => []BorrowedLive
<1>1. IInv /\ LeaseInv /\ [ComponentNext]_allVars => LeaseInv'
      BY LeaseStep
<1>2. ComponentSpec => []IInv
      BY ComponentImplementsTransaction, Invariance, PTL
<1>3. ComponentSpec => []LeaseInv
      BY <1>1, <1>2, LeaseInit, PTL DEF ComponentSpec
<1> QED
    BY <1>3, OwnInit, OwnStep, OwnBorrowed, PTL DEF ComponentSpec

\* A prepared program lives until its arena is released, which is after every
\* view of it; the catalog's counts of dependents are exact, and a session that
\* is closed has closed every program.
THEOREM ProgramsAreOwned == ComponentSpec => []ProgramOwned
<1>1. IInv /\ LeaseInv /\ [ComponentNext]_allVars => LeaseInv'
      BY LeaseStep
<1>2. ComponentSpec => []IInv
      BY ComponentImplementsTransaction, Invariance, PTL
<1>3. ComponentSpec => []LeaseInv
      BY <1>1, <1>2, LeaseInit, PTL DEF ComponentSpec
<1> QED
    BY <1>3, OwnInit, OwnStep, OwnProgram, PTL DEF ComponentSpec
=============================================================================
