---------------------- MODULE CompatibleBatchingProofs ----------------------
(***************************************************************************)
(* Proofs about the coordinator's tickets for every number of contexts,    *)
(* keys, rows and queue places.  The scan of scheduler_select_locked is a  *)
(* fold over a queue of any length; what it computes is proved by          *)
(* induction, as the absence of a least counterexample.                    *)
(***************************************************************************)
EXTENDS CompatibleBatching, FiniteSetTheorems, WellFoundedInduction, TLAPS
-----------------------------------------------------------------------------
(***************************************************************************)
(* The inductive invariant.                                                *)
(***************************************************************************)
Place == {"closed", "open", "active", "producing", "asleep", "awake"}

State == {"none", "ok", "failed", "cancelled"}
TicketT == [key : Key \cup {NoKey}, rows : 0 .. Width, state : State]

Shape ==
    /\ scheduler \in {"none", "open", "closing"}
    /\ references \in Nat /\ producers \in Nat /\ stopping \in BOOLEAN
    /\ queue \in Seq(Context) /\ selected \in Seq(Context)
    /\ pc \in [Context -> Place]
    /\ ticket \in [Context -> TicketT]
    /\ cancel \in [Context -> BOOLEAN]
    /\ closer \in [Context -> {"none", "drain", "asleep", "drained", "join"}]

\* A drained context stays inactive until its reference is given back, and
\* one thread at most joins the worker.
Closers ==
    /\ \A c \in Context :
          /\ closer[c] = "drained" => pc[c] = "open"
          /\ closer[c] \in {"drain", "asleep"} => pc[c] # "closed"
          /\ closer[c] = "join" => scheduler = "closing"
    /\ \A c, d \in Context : closer[c] = "join" /\ closer[d] = "join" => c = d

\* Only the execution has a selection, and nothing is left to serve when the
\* coordinator stops.
Quiet ==
    /\ worker # "execute" => selected = << >>
    /\ stopping => queue = << >> /\ selected = << >>

Distinct(s) == \A i, j \in DOMAIN s : s[i] = s[j] => i = j

Placed == Range(queue) \cup Range(selected)

\* The tickets without a result are those queued and those executed, each in
\* one place.
Tickets ==
    /\ Distinct(queue) /\ Distinct(selected)
    /\ Range(queue) \cap Range(selected) = {}
    /\ \A c \in Context :
          Submitting(c) /\ ticket[c].state = "none" <=> c \in Placed

\* n is the sum of the rows of s.
Sums(s, n) ==
    \E f \in [0 .. Len(s) -> Nat] :
        /\ f[0] = 0 /\ f[Len(s)] = n
        /\ \A i \in 1 .. Len(s) : f[i] = f[i - 1] + ticket[s[i]].rows

Admitted ==
    /\ \A c, d \in Range(selected) : ticket[c].key = ticket[d].key
    /\ \E n \in 0 .. Width : Sums(selected, n)

BInv == Shape /\ Closers /\ OwnersExact /\ Quiet /\ Tickets /\ Admitted
-----------------------------------------------------------------------------
(***************************************************************************)
(* Induction, and the recursive functions of the model unfolded.           *)
(***************************************************************************)

\* Induction over the naturals, for a set instead of a predicate.
LEMMA NatSets ==
    ASSUME NEW S, 0 \in S, \A n \in Nat : n \in S => n + 1 \in S
    PROVE  Nat \subseteq S
<1> DEFINE T == Nat \ S
           R == OpToRel(<, Nat)
<1> SUFFICES ASSUME T # {} PROVE FALSE
    OBVIOUS
<1>1. PICK x \in T : \A y \in T : ~ (<<y, x>> \in R)
      <2>1. IsWellFoundedOn(R, Nat)
            BY NatLessThanWellFounded
      <2>2. T \subseteq Nat
            OBVIOUS
      <2> HIDE DEF R, T
      <2> QED BY <2>1, <2>2, WFMin
<1>2. x # 0
      OBVIOUS
<1>3. x - 1 \in T
      BY <1>2
<1>4. <<x - 1, x>> \in R
      BY <1>2, <1>3 DEF OpToRel
<1> QED BY <1>1, <1>3, <1>4

\* The functions by which the model goes through a sequence exist: each is
\* built for 0 .. k + 1 from the one for 0 .. k.
Base(b) == IF b = "gather" THEN Gathered ELSE 0
Step(b, g, c) == IF b = "gather" THEN Gather(g, c) ELSE g + ticket[c].rows
At(b, q, h, i) == IF i = 0 THEN Base(b) ELSE Step(b, h[i - 1], q[i])

LEMMA Iterates ==
    ASSUME NEW b, NEW q, NEW n \in Nat
    PROVE  \E h : h = [i \in 0 .. n |-> At(b, q, h, i)]
<1> DEFINE Good == {k \in Nat : \E h : h = [i \in 0 .. k |-> At(b, q, h, i)]}
<1>1. 0 \in Good
      <2> DEFINE h0 == [i \in 0 .. 0 |-> Base(b)]
      <2>1. \A i \in 0 .. 0 : i = 0
            OBVIOUS
      <2>2. h0 = [i \in 0 .. 0 |-> At(b, q, h0, i)]
            BY <2>1 DEF At
      <2> QED BY <2>2
<1>2. ASSUME NEW k \in Nat, k \in Good PROVE k + 1 \in Good
      <2>1. PICK h : h = [i \in 0 .. k |-> At(b, q, h, i)]
            BY <1>2
      <2> DEFINE H == [i \in 0 .. k + 1 |->
                         IF i = k + 1 THEN Step(b, h[k], q[k + 1]) ELSE h[i]]
      <2>2. ASSUME NEW i \in 0 .. k
            PROVE  i \in 0 .. k + 1 /\ i # k + 1
            OBVIOUS
      <2>3. \A i \in 0 .. k : H[i] = h[i]
            BY <2>2, Zenon
      <2>4. H[k + 1] = At(b, q, H, k + 1)
            <3>1. k + 1 # 0 /\ (k + 1) - 1 = k /\ k \in 0 .. k /\ k + 1 \in 0 .. k + 1
                  OBVIOUS
            <3>2. H[k + 1] = Step(b, h[k], q[k + 1])
                  BY <3>1, Zenon
            <3>3. H[k] = h[k]
                  BY <3>1, <2>3, Zenon
            <3> HIDE DEF H
            <3> QED BY <3>1, <3>2, <3>3, Zenon DEF At
      <2>5. ASSUME NEW i \in 0 .. k PROVE H[i] = At(b, q, H, i)
            <3>1. H[i] = h[i] /\ h[i] = At(b, q, h, i)
                  BY <2>1, <2>3, Zenon
            <3>2. i # 0 => H[i - 1] = h[i - 1]
                  <4>1. i # 0 => i - 1 \in 0 .. k
                        OBVIOUS
                  <4> QED BY <4>1, <2>3, Zenon
            <3> HIDE DEF H
            <3> QED BY <3>1, <3>2, Zenon DEF At
      <2>6. H = [i \in 0 .. k + 1 |-> At(b, q, H, i)]
            <3>1. \A i \in 0 .. k + 1 : i \in 0 .. k \/ i = k + 1
                  OBVIOUS
            <3>2. \A i \in 0 .. k + 1 : H[i] = At(b, q, H, i)
                  BY <3>1, <2>4, <2>5, Zenon
            <3>3. H = [i \in 0 .. k + 1 |-> H[i]]
                  BY Zenon
            <3> HIDE DEF H
            <3> QED BY <3>2, <3>3, Zenon
      <2>7. k + 1 \in Nat
            OBVIOUS
      <2> HIDE DEF H
      <2> QED BY <2>6, <2>7, Zenon
<1> HIDE DEF Good
<1>3. n \in Good
      BY <1>1, <1>2, NatSets
<1> QED BY <1>3, Zenon DEF Good

\* What such a function goes through.
Scans(b, q, scan) ==
    /\ scan[0] = Base(b)
    /\ \A k \in 1 .. Len(q) : scan[k] = Step(b, scan[k - 1], q[k])

LEMMA Scanned ==
    ASSUME NEW b, NEW q, Len(q) \in Nat, NEW scan,
           scan = [i \in 0 .. Len(q) |-> At(b, q, scan, i)]
    PROVE  Scans(b, q, scan)
<1>1. 0 \in 0 .. Len(q) /\ \A k \in 1 .. Len(q) : k \in 0 .. Len(q) /\ k # 0
      OBVIOUS
<1>2. \A i \in 0 .. Len(q) : scan[i] = At(b, q, scan, i)
      BY Zenon
<1> QED BY <1>1, <1>2, Zenon DEF Scans, At

\* What scheduler_select_locked scans, and the rows of a batch.
LEMMA GatherScans ==
    ASSUME NEW q \in Seq(Context)
    PROVE  \E scan : Scans("gather", q, scan) /\ scan[Len(q)] = Scan(q)
<1> DEFINE Of(h, i) == IF i = 0 THEN Gathered ELSE Gather(h[i - 1], q[i])
           scan == CHOOSE h : h = [i \in 0 .. Len(q) |-> Of(h, i)]
<1>1. Scan(q) = scan[Len(q)]
      BY Zenon DEF Scan
<1>2. Len(q) \in Nat
      OBVIOUS
<1>3. \A h, i : Of(h, i) = At("gather", q, h, i)
      BY Zenon DEF At, Base, Step
<1>4. \E h : h = [i \in 0 .. Len(q) |-> At("gather", q, h, i)]
      BY <1>2, Iterates
<1> HIDE DEF Of
<1>5. \E h : h = [i \in 0 .. Len(q) |-> Of(h, i)]
      BY <1>3, <1>4, Zenon
<1>6. scan = [i \in 0 .. Len(q) |-> Of(scan, i)]
      BY <1>5, Zenon
<1> HIDE DEF scan
<1>7. scan = [i \in 0 .. Len(q) |-> At("gather", q, scan, i)]
      BY <1>6, <1>3, Zenon
<1>8. Scans("gather", q, scan)
      BY <1>7, <1>2, Scanned, Zenon
<1> QED BY <1>8, <1>1, Zenon

LEMMA RowsScans ==
    ASSUME NEW q \in Seq(Context)
    PROVE  \E scan : Scans("rows", q, scan) /\ scan[Len(q)] = Rows(q)
<1> DEFINE Of(h, i) == IF i = 0 THEN 0 ELSE h[i - 1] + ticket[q[i]].rows
           scan == CHOOSE h : h = [i \in 0 .. Len(q) |-> Of(h, i)]
<1>1. Rows(q) = scan[Len(q)]
      BY Zenon DEF Rows
<1>2. Len(q) \in Nat
      OBVIOUS
<1>3. \A h, i : Of(h, i) = At("rows", q, h, i)
      BY Zenon DEF At, Base, Step
<1>4. \E h : h = [i \in 0 .. Len(q) |-> At("rows", q, h, i)]
      BY <1>2, Iterates
<1> HIDE DEF Of
<1>5. \E h : h = [i \in 0 .. Len(q) |-> Of(h, i)]
      BY <1>3, <1>4, Zenon
<1>6. scan = [i \in 0 .. Len(q) |-> Of(scan, i)]
      BY <1>5, Zenon
<1> HIDE DEF scan
<1>7. scan = [i \in 0 .. Len(q) |-> At("rows", q, scan, i)]
      BY <1>6, <1>3, Zenon
<1>8. Scans("rows", q, scan)
      BY <1>7, <1>2, Scanned, Zenon
<1> QED BY <1>8, <1>1, Zenon

-----------------------------------------------------------------------------
(***************************************************************************)
(* What the scan selects.                                                  *)
(***************************************************************************)
LEMMA Appended ==
    ASSUME NEW s \in Seq(Context), NEW c \in Context
    PROVE  /\ Append(s, c) \in Seq(Context) /\ Append(s, c) # << >>
           /\ Range(Append(s, c)) = Range(s) \cup {c}
           /\ s # << >> => Head(Append(s, c)) = Head(s) /\ Head(s) \in Range(s)
           /\ s = << >> => Head(Append(s, c)) = c /\ Range(s) = {}
           /\ Distinct(s) /\ c \notin Range(s) => Distinct(Append(s, c))
<1>1. /\ Append(s, c) \in Seq(Context) /\ Len(Append(s, c)) = Len(s) + 1
      /\ \A i \in 1 .. Len(s) : Append(s, c)[i] = s[i]
      /\ Append(s, c)[Len(s) + 1] = c
      /\ DOMAIN s = 1 .. Len(s) /\ DOMAIN Append(s, c) = 1 .. Len(s) + 1
      /\ Len(s) \in Nat
      OBVIOUS
<1>2. Range(Append(s, c)) = Range(s) \cup {c}
      BY <1>1 DEF Range
<1>3. s # << >> => Head(Append(s, c)) = Head(s) /\ Head(s) \in Range(s)
      <2> SUFFICES ASSUME s # << >> PROVE Head(Append(s, c)) = Head(s) /\ Head(s) \in Range(s)
          OBVIOUS
      <2>1. Len(s) > 0 /\ Head(s) = s[1]
            OBVIOUS
      <2>2. Head(Append(s, c)) = Append(s, c)[1]
            BY <1>1
      <2> QED BY <2>1, <2>2, <1>1 DEF Range
<1>4. s = << >> => Head(Append(s, c)) = c /\ Range(s) = {}
      BY <1>1 DEF Range
<1>5. Distinct(s) /\ c \notin Range(s) => Distinct(Append(s, c))
      BY <1>1 DEF Distinct, Range
<1> QED BY <1>1, <1>2, <1>3, <1>4, <1>5

LEMMA SumsAppended ==
    ASSUME Shape, NEW s \in Seq(Context), NEW c \in Context, NEW n \in Nat, Sums(s, n)
    PROVE  Sums(Append(s, c), n + ticket[c].rows)
<1>1. PICK f \in [0 .. Len(s) -> Nat] :
          /\ f[0] = 0 /\ f[Len(s)] = n
          /\ \A i \in 1 .. Len(s) : f[i] = f[i - 1] + ticket[s[i]].rows
      BY DEF Sums
<1> DEFINE m == Len(s)
           a == Append(s, c)
           h == [i \in 0 .. m + 1 |-> IF i = m + 1 THEN n + ticket[c].rows ELSE f[i]]
<1>2. /\ m \in Nat /\ Len(a) = m + 1 /\ a[m + 1] = c
      /\ \A i \in 1 .. m : a[i] = s[i]
      OBVIOUS
<1>3. ticket[c].rows \in Nat
      BY ConstantsAssumption DEF Shape, TicketT
<1> HIDE DEF m, a
<1>4. h \in [0 .. Len(a) -> Nat] /\ h[0] = 0 /\ h[Len(a)] = n + ticket[c].rows
      BY <1>1, <1>2, <1>3 DEF m
<1>5. ASSUME NEW i \in 1 .. Len(a) PROVE h[i] = h[i - 1] + ticket[a[i]].rows
      <2>1. CASE i = m + 1
            <3>1. h[i - 1] = n /\ h[i] = n + ticket[c].rows
                  BY <2>1, <1>1, <1>2 DEF m
            <3> QED BY <3>1, <2>1, <1>2
      <2>2. CASE i # m + 1
            <3>1. i \in 1 .. m /\ i \in 0 .. m + 1 /\ i - 1 \in 0 .. m + 1 /\ i - 1 # m + 1
                  BY <2>2, <1>2
            <3>2. h[i] = f[i] /\ h[i - 1] = f[i - 1]
                  BY <3>1, <2>2
            <3>3. f[i] = f[i - 1] + ticket[s[i]].rows
                  BY <3>1, <1>1 DEF m
            <3> QED BY <3>1, <3>2, <3>3, <1>2
      <2> QED BY <2>1, <2>2
<1> HIDE DEF h
<1> QED BY <1>4, <1>5, Zenon DEF Sums, a

LEMMA SumsEmpty ==
    /\ Sums(<< >>, 0)
    /\ \A n : Sums(<< >>, n) => n = 0
<1>1. Sums(<< >>, 0)
      <2> DEFINE f == [i \in 0 .. 0 |-> 0]
      <2>1. f \in [0 .. Len(<< >>) -> Nat] /\ f[0] = 0 /\ f[Len(<< >>)] = 0
            OBVIOUS
      <2>2. \A i \in 1 .. Len(<< >>) : f[i] = f[i - 1] + ticket[(<< >>)[i]].rows
            OBVIOUS
      <2> HIDE DEF f
      <2> QED BY <2>1, <2>2 DEF Sums
<1> QED BY <1>1 DEF Sums

GatherT == [batch : Seq(Context), rows : Nat, rest : Seq(Context),
            dropped : SUBSET Context]

\* What the scan has selected, passed over and dropped of the contexts S.
Fits(g, S) ==
    /\ g \in GatherT
    /\ Distinct(g.batch) /\ Distinct(g.rest)
    /\ Range(g.batch) \cap Range(g.rest) = {}
    /\ g.dropped \cap (Range(g.batch) \cup Range(g.rest)) = {}
    /\ g.dropped \cup Range(g.batch) \cup Range(g.rest) = S
    /\ \A c, d \in Range(g.batch) : ticket[c].key = ticket[d].key
    /\ Sums(g.batch, g.rows) /\ g.rows <= Width

LEMMA GatherStep ==
    ASSUME Shape, NEW S, NEW g, Fits(g, S), NEW c \in Context, c \notin S
    PROVE  Fits(Gather(g, c), S \cup {c})
<1> DEFINE w == Gather(g, c)
<1>0. /\ g \in GatherT /\ g.batch \in Seq(Context) /\ g.rest \in Seq(Context)
      /\ g.rows \in Nat /\ g.dropped \in SUBSET Context
      BY DEF Fits, GatherT
<1>r. /\ ticket[c].rows \in Nat /\ ticket[c].rows <= Width /\ Width \in Nat
      BY ConstantsAssumption DEF Shape, TicketT
<1>1. CASE cancel[c]
      <2>1. /\ w \in GatherT /\ w.batch = g.batch /\ w.rows = g.rows
            /\ w.rest = g.rest /\ w.dropped = g.dropped \cup {c}
            BY <1>0, <1>1 DEF Gather, GatherT
      <2> HIDE DEF w
      <2> QED BY <2>1, <1>0 DEF Fits, w
<1>2. CASE ~cancel[c] /\ (g.batch = << >> \/ Compatible(Head(g.batch), c, g.rows))
      <2>1. /\ w \in GatherT /\ w.batch = Append(g.batch, c)
            /\ w.rows = g.rows + ticket[c].rows
            /\ w.rest = g.rest /\ w.dropped = g.dropped
            <3>1. w = [g EXCEPT !.batch = Append(@, c), !.rows = @ + ticket[c].rows]
                  BY <1>2, Zenon DEF Gather
            <3>2. Append(g.batch, c) \in Seq(Context)
                  BY <1>0, Appended
            <3>3. g.rows + ticket[c].rows \in Nat
                  BY <1>0, <1>r
            <3> HIDE DEF w
            <3>4. /\ w.batch = Append(g.batch, c) /\ w.rows = g.rows + ticket[c].rows
                  /\ w.rest = g.rest /\ w.dropped = g.dropped
                  BY <3>1, <1>0 DEF GatherT
            <3>5. w \in GatherT
                  <4> DEFINE b == Append(g.batch, c)
                             n == g.rows + ticket[c].rows
                  <4>1. w = [g EXCEPT !.batch = b, !.rows = n]
                        BY <3>1, <1>0, Zenon DEF GatherT
                  <4>2. b \in Seq(Context) /\ n \in Nat
                        BY <3>2, <3>3
                  <4> HIDE DEF b, n
                  <4> QED BY <4>1, <4>2, <1>0 DEF GatherT
            <3> QED BY <3>4, <3>5
      <2>2. /\ Range(w.batch) = Range(g.batch) \cup {c} /\ Distinct(w.batch)
            BY <2>1, <1>0, Appended DEF Fits
      <2>3. Sums(w.batch, w.rows)
            BY <2>1, <1>0, SumsAppended DEF Fits
      <2>4. w.rows <= Width
            <3>1. CASE g.batch = << >>
                  <4>1. g.rows = 0
                        BY <3>1, SumsEmpty DEF Fits
                  <4> QED BY <4>1, <2>1, <1>r
            <3>2. CASE Compatible(Head(g.batch), c, g.rows)
                  BY <3>2, <2>1, <1>r DEF Compatible
            <3> QED BY <3>1, <3>2, <1>2
      <2>5. \A d \in Range(g.batch) : ticket[d].key = ticket[c].key
            <3>1. CASE g.batch = << >>
                  BY <3>1, <1>0, Appended
            <3>2. CASE g.batch # << >> /\ Compatible(Head(g.batch), c, g.rows)
                  <4>1. Head(g.batch) \in Range(g.batch)
                        BY <3>2, <1>0, Appended
                  <4> QED BY <3>2, <4>1 DEF Compatible, Fits
            <3> QED BY <3>1, <3>2, <1>2
      <2> HIDE DEF w
      <2> QED BY <2>1, <2>2, <2>3, <2>4, <2>5, <1>0 DEF Fits, w
<1>3. CASE ~cancel[c] /\ ~(g.batch = << >> \/ Compatible(Head(g.batch), c, g.rows))
      <2>1. /\ w \in GatherT /\ w.batch = g.batch /\ w.rows = g.rows
            /\ w.rest = Append(g.rest, c) /\ w.dropped = g.dropped
            <3>1. w = [g EXCEPT !.rest = Append(@, c)]
                  BY <1>3, Zenon DEF Gather
            <3>2. Append(g.rest, c) \in Seq(Context)
                  BY <1>0, Appended
            <3> HIDE DEF w
            <3> QED BY <3>1, <3>2, <1>0 DEF GatherT
      <2>2. /\ Range(w.rest) = Range(g.rest) \cup {c} /\ Distinct(w.rest)
            BY <2>1, <1>0, Appended DEF Fits
      <2> HIDE DEF w
      <2> QED BY <2>1, <2>2, <1>0 DEF Fits, w
<1> QED BY <1>1, <1>2, <1>3

\* The first contexts of the queue.
First(k) == {queue[i] : i \in 1 .. k}

LEMMA ScanFits ==
    ASSUME Shape, Distinct(queue)
    PROVE  \E scan : /\ Scans("gather", queue, scan)
                     /\ scan[Len(queue)] = Scan(queue)
                     /\ \A k \in 0 .. Len(queue) : Fits(scan[k], First(k))
<1>0. /\ queue \in Seq(Context) /\ Len(queue) \in Nat
      /\ DOMAIN queue = 1 .. Len(queue) /\ \A i \in 1 .. Len(queue) : queue[i] \in Context
      BY DEF Shape
<1>1. PICK scan : /\ Scans("gather", queue, scan)
                  /\ scan[Len(queue)] = Scan(queue)
      BY <1>0, GatherScans
<1> DEFINE Good == {k \in Nat : k <= Len(queue) => Fits(scan[k], First(k))}
<1>2. 0 \in Good
      <2>1. scan[0] = Gathered
            BY <1>1 DEF Scans, Base
      <2>2. First(0) = {}
            BY DEF First
      <2>3. /\ Gathered \in GatherT /\ Gathered.batch = << >> /\ Gathered.rest = << >>
            /\ Gathered.rows = 0 /\ Gathered.dropped = {}
            BY DEF Gathered, GatherT
      <2>4. /\ Distinct(<< >>) /\ Range(<< >>) = {}
            BY DEF Distinct, Range
      <2>5. Fits(Gathered, {})
            BY <2>3, <2>4, SumsEmpty, ConstantsAssumption DEF Fits
      <2> QED BY <2>1, <2>2, <2>5
<1>3. ASSUME NEW k \in Nat, k \in Good PROVE k + 1 \in Good
      <2> SUFFICES ASSUME k + 1 <= Len(queue) PROVE Fits(scan[k + 1], First(k + 1))
          OBVIOUS
      <2>1. k + 1 \in 1 .. Len(queue) /\ (k + 1) - 1 = k /\ k <= Len(queue)
            BY <1>0
      <2>2. scan[k + 1] = Gather(scan[k], queue[k + 1])
            BY <2>1, <1>1 DEF Scans, Step
      <2>3. Fits(scan[k], First(k))
            BY <2>1, <1>3
      <2>4. queue[k + 1] \in Context /\ queue[k + 1] \notin First(k)
            BY <2>1, <1>0 DEF First, Distinct
      <2>5. First(k + 1) = First(k) \cup {queue[k + 1]}
            BY DEF First
      <2>6. Fits(Gather(scan[k], queue[k + 1]), First(k) \cup {queue[k + 1]})
            BY <2>3, <2>4, GatherStep
      <2> QED BY <2>2, <2>5, <2>6
<1> HIDE DEF Good
<1>4. Nat \subseteq Good
      BY <1>2, <1>3, NatSets
<1>5. \A k \in 0 .. Len(queue) : Fits(scan[k], First(k))
      BY <1>0, <1>4 DEF Good
<1> QED BY <1>1, <1>5

LEMMA SelectFits ==
    ASSUME Shape, Distinct(queue)
    PROVE  Fits(Scan(queue), Range(queue))
<1>0. Len(queue) \in Nat /\ DOMAIN queue = 1 .. Len(queue)
      BY DEF Shape
<1>1. First(Len(queue)) = Range(queue)
      BY <1>0 DEF First, Range
<1>2. Len(queue) \in 0 .. Len(queue)
      BY <1>0
<1>3. Fits(Scan(queue), First(Len(queue)))
      BY <1>2, ScanFits
<1> QED BY <1>1, <1>3

\* The oldest ticket whose turn is not cancelled opens the batch: before it
\* nothing is selected, and what is selected later comes behind it.
LEMMA OldestOpens ==
    ASSUME Shape, Distinct(queue), NEW i \in DOMAIN queue,
           \A j \in 1 .. i - 1 : cancel[queue[j]], ~cancel[queue[i]]
    PROVE  Head(Scan(queue).batch) = queue[i]
<1>0. /\ queue \in Seq(Context) /\ Len(queue) \in Nat /\ i \in 1 .. Len(queue)
      /\ DOMAIN queue = 1 .. Len(queue) /\ \A k \in 1 .. Len(queue) : queue[k] \in Context
      BY DEF Shape
<1>1. PICK scan : /\ Scans("gather", queue, scan)
                  /\ scan[Len(queue)] = Scan(queue)
                  /\ \A k \in 0 .. Len(queue) : Fits(scan[k], First(k))
      BY ScanFits
<1> DEFINE Opens(k) == /\ k < i => scan[k].batch = << >>
                       /\ k >= i => /\ scan[k].batch # << >>
                                    /\ Head(scan[k].batch) = queue[i]
           Good == {k \in Nat : k <= Len(queue) => Opens(k)}
<1>2. 0 \in Good
      BY <1>0, <1>1 DEF Scans, Base, Gathered
<1>3. ASSUME NEW k \in Nat, k \in Good PROVE k + 1 \in Good
      <2> SUFFICES ASSUME k + 1 <= Len(queue) PROVE Opens(k + 1)
          OBVIOUS
      <2> DEFINE g == scan[k]
                 c == queue[k + 1]
      <2>1. /\ k + 1 \in 1 .. Len(queue) /\ (k + 1) - 1 = k /\ k \in 0 .. Len(queue)
            BY <1>0
      <2>2. scan[k + 1] = Gather(g, c)
            BY <2>1, <1>1 DEF Scans, Step
      <2>3. g \in GatherT /\ g.batch \in Seq(Context) /\ c \in Context
            BY <2>1, <1>0, <1>1 DEF Fits, GatherT
      <2>4. Opens(k)
            BY <2>1, <1>3
      <2>5. /\ cancel[c] => scan[k + 1].batch = g.batch
            /\ ~cancel[c] /\ g.batch = << >> => scan[k + 1].batch = Append(g.batch, c)
            /\ \/ scan[k + 1].batch = g.batch
               \/ scan[k + 1].batch = Append(g.batch, c)
            <3> HIDE DEF g, c
            <3>1. /\ cancel[c] => Gather(g, c).batch = g.batch
                  /\ ~cancel[c] /\ g.batch = << >> => Gather(g, c).batch = Append(g.batch, c)
                  /\ \/ Gather(g, c).batch = g.batch
                     \/ Gather(g, c).batch = Append(g.batch, c)
                  BY <2>3 DEF Gather, GatherT
            <3> QED BY <3>1, <2>2
      <2>6. /\ Append(g.batch, c) # << >>
            /\ g.batch # << >> => Head(Append(g.batch, c)) = Head(g.batch)
            /\ g.batch = << >> => Head(Append(g.batch, c)) = c
            BY <2>3, Appended
      <2>7. CASE k + 1 < i
            <3>1. cancel[c]
                  BY <2>7
            <3> QED BY <3>1, <2>4, <2>5, <2>7, <1>0
      <2>8. CASE k + 1 = i
            BY <2>4, <2>5, <2>6, <2>8
      <2>9. CASE k + 1 > i
            <3>1. g.batch # << >> /\ Head(g.batch) = queue[i]
                  BY <2>4, <2>9, <1>0
            <3>2. scan[k + 1].batch # << >> /\ Head(scan[k + 1].batch) = queue[i]
                  <4> DEFINE b == scan[k + 1].batch
                             e == g.batch
                             a == Append(g.batch, c)
                  <4>1. (b = e \/ b = a) /\ e # << >> /\ Head(e) = queue[i]
                        BY <2>5, <3>1
                  <4>2. a # << >> /\ Head(a) = Head(e)
                        BY <2>6, <3>1
                  <4> HIDE DEF a, b, e
                  <4>3. b # << >> /\ Head(b) = queue[i]
                        BY <4>1, <4>2, Zenon
                  <4> QED BY <4>3 DEF b
            <3> QED BY <3>2, <2>9, <1>0
      <2> QED BY <2>7, <2>8, <2>9, <1>0
<1> HIDE DEF Good
<1>4. Len(queue) \in Good
      BY <1>0, <1>2, <1>3, NatSets
<1>5. Opens(Len(queue))
      BY <1>0, <1>4 DEF Good
<1> QED BY <1>0, <1>1, <1>5


\* What Select changes.
LEMMA Selects ==
    ASSUME BInv, Select
    PROVE  \E drop \in SUBSET Context :
              /\ queue' \in Seq(Context) /\ selected' \in Seq(Context)
              /\ Distinct(queue') /\ Distinct(selected')
              /\ Range(queue') \cap Range(selected') = {}
              /\ drop \cap (Range(queue') \cup Range(selected')) = {}
              /\ drop \cup Range(queue') \cup Range(selected') = Range(queue)
              /\ \A c, d \in Range(selected') : ticket[c].key = ticket[d].key
              /\ \E n \in 0 .. Width : Sums(selected', n)
              /\ ticket' = [c \in Context |->
                              IF c \in drop THEN [ticket[c] EXCEPT !.state = "cancelled"]
                              ELSE ticket[c]]
              /\ pc' = Completed(pc)
              /\ worker' = IF selected' = << >> THEN "idle" ELSE "execute"
<1> DEFINE g == Scan(queue)
<1>1. Fits(g, Range(queue))
      BY SelectFits DEF BInv, Tickets
<1>2. /\ queue' = g.rest /\ selected' = g.batch /\ pc' = Completed(pc)
      /\ ticket' = [c \in Context |->
                      IF c \in g.dropped THEN [ticket[c] EXCEPT !.state = "cancelled"]
                      ELSE ticket[c]]
      /\ worker' = IF g.batch = << >> THEN "idle" ELSE "execute"
      BY Zenon DEF Select
<1> HIDE DEF g
<1>3. /\ g.batch \in Seq(Context) /\ g.rest \in Seq(Context)
      /\ g.rows \in 0 .. Width /\ g.dropped \in SUBSET Context
      BY <1>1, ConstantsAssumption DEF Fits, GatherT
<1> g.dropped \in SUBSET Context
    BY <1>3
<1> WITNESS g.dropped \in SUBSET Context
<1>4. \E n \in 0 .. Width : Sums(selected', n)
      BY <1>1, <1>2, <1>3, Zenon DEF Fits
<1> QED BY <1>1, <1>2, <1>3, <1>4, Zenon DEF Fits

-----------------------------------------------------------------------------
(***************************************************************************)
(* Every step keeps the invariant, conjunct by conjunct.                   *)
(***************************************************************************)

\* A broadcast of completed changes no more than who sleeps.
LEMMA CompletedIs ==
    ASSUME NEW f \in [Context -> Place]
    PROVE  /\ Completed(f) \in [Context -> Place]
           /\ \A c \in Context : f[c] # "asleep" => Completed(f)[c] = f[c]
           /\ \A c \in Context : f[c] = "asleep" => Completed(f)[c] = "awake"
BY DEF Completed, Place

\* One result goes to the tickets of the contexts D.
LEMMA Results ==
    ASSUME Shape, NEW D, NEW r \in State,
           ticket' = [c \in Context |->
                        IF c \in D THEN [ticket[c] EXCEPT !.state = r] ELSE ticket[c]]
    PROVE  /\ ticket' \in [Context -> TicketT]
           /\ \A c \in Context : /\ ticket'[c].key = ticket[c].key
                                 /\ ticket'[c].rows = ticket[c].rows
           /\ \A c \in Context : c \in D => ticket'[c].state = r
           /\ \A c \in Context : c \notin D => ticket'[c].state = ticket[c].state
<1>0. \A c \in Context : ticket[c] \in TicketT
      BY DEF Shape
<1>1. ASSUME NEW c \in Context
      PROVE  /\ ticket'[c] \in TicketT /\ ticket'[c].key = ticket[c].key
             /\ ticket'[c].rows = ticket[c].rows
             /\ c \in D => ticket'[c].state = r
             /\ c \notin D => ticket'[c].state = ticket[c].state
      <2>1. CASE c \in D
            <3>1. ticket'[c] = [ticket[c] EXCEPT !.state = r]
                  BY <2>1, Zenon
            <3> QED BY <3>1, <2>1, <1>0 DEF TicketT
      <2>2. CASE c \notin D
            <3>1. ticket'[c] = ticket[c]
                  BY <2>2, Zenon
            <3> QED BY <3>1, <2>2, <1>0 DEF TicketT
      <2> QED BY <2>1, <2>2
<1>2. ticket' = [c \in Context |-> ticket'[c]]
      BY Zenon
<1> QED BY <1>1, <1>2

LEMMA ShapeStep ==
    ASSUME BInv, [Next]_vars
    PROVE  Shape'
<1> USE DEF BInv
<1>1. CASE UNCHANGED vars
      BY <1>1 DEF Shape, vars
<1>2. ASSUME NEW c \in Context,
             \/ Acquire(c) \/ Enter(c) \/ Leave(c) \/ Cancel(c)
             \/ CloseBegin(c) \/ CloseDrains(c) \/ Join(c)
      PROVE  Shape'
      <2>1. CASE Acquire(c)
            <3>1. stopping' = FALSE \/ stopping' = stopping
                  BY <2>1, Zenon DEF Acquire
            <3>2. stopping' \in BOOLEAN
                  BY <3>1, Zenon DEF Shape
            <3>3. /\ pc' \in [Context -> Place] /\ references' \in Nat
                  /\ scheduler' = "open"
                  BY <2>1 DEF Shape, Acquire, Place
            <3>4. UNCHANGED <<producers, queue, selected, ticket, cancel, closer>>
                  BY <2>1 DEF Acquire
            <3> QED BY <3>2, <3>3, <3>4 DEF Shape
      <2>2. CASE Enter(c) \/ Cancel(c) \/ Join(c)
            BY <2>2 DEF Shape, Enter, Cancel, Join, shared, Place
      <2>3. CASE Leave(c)
            BY <2>3 DEF Shape, Leave, shared, Place, Drained
      <2>4. CASE CloseBegin(c) \/ CloseDrains(c)
            BY <2>4 DEF Shape, CloseBegin, CloseDrains, shared
      <2> QED BY <1>2, <2>1, <2>2, <2>3, <2>4
<1>3. ASSUME NEW c \in Context, ProducerEnter(c) \/ ProducerLeave(c)
      PROVE  Shape'
      <2>1. ProducerLeave(c) => producers > 0
            <3>1. SUFFICES ASSUME ProducerLeave(c), producers = 0 PROVE FALSE
                  BY DEF Shape
            <3> DEFINE P == {d \in Context : pc[d] \in {"producing", "asleep", "awake"}}
            <3>2. c \in P /\ IsFiniteSet(P)
                  BY <3>1, ConstantsAssumption, FS_Subset DEF ProducerLeave
            <3>3. Cardinality(P) = 0
                  BY <3>1 DEF OwnersExact
            <3> QED BY <3>2, <3>3, FS_EmptySet
      <2>2. producers' \in Nat
            BY <2>1, <1>3 DEF Shape, ProducerEnter, ProducerLeave, SetProducers
      <2> QED BY <2>2, <1>3 DEF Shape, ProducerEnter, ProducerLeave, Place
<1>4. ASSUME NEW c \in Context, Submit(c) PROVE Shape'
      <2>1. PICK k \in Key, r \in 1 .. Width :
               ticket' = [ticket EXCEPT ![c] = [key |-> k, rows |-> r, state |-> "none"]]
            BY <1>4 DEF Submit
      <2>2. [key |-> k, rows |-> r, state |-> "none"] \in TicketT
            BY ConstantsAssumption DEF TicketT, State
      <2>3. ticket' \in [Context -> TicketT]
            BY <2>1, <2>2 DEF Shape
      <2>4. queue' \in Seq(Context)
            BY <1>4 DEF Submit, Shape
      <2> QED BY <2>3, <2>4, <1>4 DEF Shape, Submit, shared, Place
<1>5. ASSUME NEW c \in Context, SubmitAwakes(c) PROVE Shape'
      <2>1. NoTicket \in TicketT
            BY ConstantsAssumption DEF TicketT, State, NoTicket
      <2> QED BY <2>1, <1>5 DEF Shape, SubmitAwakes, shared, Place
<1>6. ASSUME NEW c \in Context, Release(c) PROVE Shape'
      <2>1. references > 0
            <3>1. SUFFICES ASSUME references = 0 PROVE FALSE
                  BY DEF Shape
            <3> DEFINE U == {d \in Context : pc[d] # "closed"}
            <3>2. c \in U /\ IsFiniteSet(U)
                  BY <1>6, ConstantsAssumption, FS_Subset DEF Release, Closers
            <3>3. Cardinality(U) = 0
                  BY <3>1 DEF OwnersExact
            <3> QED BY <3>2, <3>3, FS_EmptySet
      <2>2. references' \in Nat
            BY <2>1, <1>6 DEF Release, Shape
      <2>3. [pc EXCEPT ![c] = "closed"] \in [Context -> Place]
            BY DEF Shape, Place
      <2>4. pc' \in [Context -> Place]
            BY <2>3, <1>6, CompletedIs DEF Release
      <2> QED BY <2>2, <2>4, <1>6 DEF Release, Shape
<1>7. CASE WorkerStarts \/ WorkerWaits \/ WorkerCoalesces
      BY <1>7 DEF Shape, WorkerStarts, WorkerWaits, WorkerCoalesces, shared
<1>8. CASE WorkerSelects
      <2>1. PICK drop \in SUBSET Context :
               /\ queue' \in Seq(Context) /\ selected' \in Seq(Context)
               /\ ticket' = [c \in Context |->
                               IF c \in drop THEN [ticket[c] EXCEPT !.state = "cancelled"]
                               ELSE ticket[c]]
               /\ pc' = Completed(pc)
            BY <1>8, Selects DEF WorkerSelects
      <2>2. ticket' \in [Context -> TicketT]
            BY <2>1, Results DEF State
      <2>3. pc' \in [Context -> Place]
            BY <2>1, CompletedIs DEF Shape
      <2> QED BY <2>1, <2>2, <2>3, <1>8 DEF WorkerSelects, Shape
<1>9. CASE WorkerFails
      <2>2. ticket' \in [Context -> TicketT]
            BY <1>9, Results DEF State, WorkerFails
      <2>3. pc' \in [Context -> Place]
            BY <1>9, CompletedIs DEF Shape, WorkerFails
      <2> QED BY <2>2, <2>3, <1>9 DEF WorkerFails, Shape
<1>10. CASE WorkerFinishes
      <2>1. PICK status \in {"ok", "failed"} :
               ticket' = [c \in Context |->
                            IF c \in Range(selected)
                            THEN [ticket[c] EXCEPT !.state = status] ELSE ticket[c]]
            BY <1>10 DEF WorkerFinishes
      <2>2. ticket' \in [Context -> TicketT]
            BY <2>1, Results DEF State
      <2>3. pc' \in [Context -> Place]
            BY <1>10, CompletedIs DEF Shape, WorkerFinishes
      <2> QED BY <2>2, <2>3, <1>10 DEF WorkerFinishes, Shape, shared
<1> QED BY <1>1, <1>2, <1>3, <1>4, <1>5, <1>6, <1>7, <1>8, <1>9, <1>10
        DEF Next, ContextStep, CloseStep, WorkerStep

LEMMA ClosersStep ==
    ASSUME BInv, [Next]_vars
    PROVE  Closers'
<1> USE DEF BInv
<1>0. /\ pc \in [Context -> Place] /\ references \in Nat
      /\ closer \in [Context -> {"none", "drain", "asleep", "drained", "join"}]
      BY DEF Shape
<1>1. CASE UNCHANGED vars
      BY <1>1 DEF Closers, vars
<1>2. ASSUME NEW c \in Context,
             \/ Acquire(c) \/ Enter(c) \/ Leave(c) \/ Cancel(c)
             \/ CloseBegin(c) \/ CloseDrains(c) \/ Join(c)
      PROVE  Closers'
      BY <1>0, <1>2 DEF Closers, Acquire, Enter, Leave, Cancel, CloseBegin, CloseDrains,
                  Join, shared, Place, Drained, Inactive
<1>3. ASSUME NEW c \in Context,
             ProducerEnter(c) \/ ProducerLeave(c) \/ Submit(c) \/ SubmitAwakes(c)
      PROVE  Closers'
      BY <1>0, <1>3 DEF Closers, ProducerEnter, ProducerLeave, Submit, SubmitAwakes, Place, shared
<1>4. ASSUME NEW c \in Context, Release(c) PROVE Closers'
      <2> DEFINE f == [pc EXCEPT ![c] = "closed"]
      <2>1. f \in [Context -> Place] /\ f[c] = "closed" /\ \A d \in Context : d # c => f[d] = pc[d]
            BY <1>0 DEF Place
      <2>2. pc' = Completed(f)
            BY <1>4 DEF Release
      <2> HIDE DEF f
      <2>3. \A d \in Context : d # c => pc'[d] = pc[d] \/ (pc[d] = "asleep" /\ pc'[d] = "awake")
            BY <2>1, <2>2, CompletedIs
      <2>4. references = 1 => \A d \in Context : closer[d] # "join"
            BY DEF Closers, OwnersExact
      <2>5. /\ closer'[c] = (IF references = 1 THEN "join" ELSE "none")
            /\ \A d \in Context : d # c => closer'[d] = closer[d]
            /\ scheduler' = IF references = 1 THEN "closing" ELSE scheduler
            BY <1>0, <1>4 DEF Release
      <2>6. CASE references = 1
            BY <2>3, <2>4, <2>5, <2>6 DEF Closers
      <2>7. CASE references # 1
            BY <2>3, <2>5, <2>7 DEF Closers
      <2> QED BY <2>6, <2>7
<1>5. CASE WorkerStarts \/ WorkerWaits \/ WorkerCoalesces
      BY <1>5 DEF Closers, WorkerStarts, WorkerWaits, WorkerCoalesces, shared
<1>6. CASE WorkerSelects \/ WorkerFails \/ WorkerFinishes
      <2>1. pc' = Completed(pc) /\ UNCHANGED <<closer, scheduler>>
            BY <1>6 DEF WorkerSelects, WorkerFails, WorkerFinishes, Select, shared
      <2>2. \A d \in Context : pc'[d] = pc[d] \/ (pc[d] = "asleep" /\ pc'[d] = "awake")
            BY <2>1, <1>0, CompletedIs
      <2> QED BY <2>1, <2>2 DEF Closers
<1> QED BY <1>1, <1>2, <1>3, <1>4, <1>5, <1>6
        DEF Next, ContextStep, CloseStep, WorkerStep

\* The contexts that hold a reference, and those counted as producers.
Owners(f) == {c \in Context : f[c] # "closed"}
Makers(f) == {c \in Context : f[c] \in {"producing", "asleep", "awake"}}

LEMMA Counts ==
    ASSUME NEW A \in SUBSET Context, NEW c \in Context
    PROVE  /\ Cardinality(A) \in Nat
           /\ c \notin A => Cardinality(A \cup {c}) = Cardinality(A) + 1
           /\ c \in A => Cardinality(A \ {c}) = Cardinality(A) - 1 /\ Cardinality(A) > 0
<1>1. IsFiniteSet(A)
      BY ConstantsAssumption, FS_Subset
<1>2. Cardinality(A) \in Nat /\ (c \notin A => Cardinality(A \cup {c}) = Cardinality(A) + 1)
      BY <1>1, FS_CardinalityType, FS_AddElement
<1>3. c \in A => Cardinality(A \ {c}) = Cardinality(A) - 1
      BY <1>1, FS_RemoveElement
<1>4. c \in A => Cardinality(A) # 0
      BY <1>1, FS_EmptySet
<1> QED BY <1>2, <1>3, <1>4

LEMMA OwnersIs ==
    OwnersExact <=> /\ references = Cardinality(Owners(pc))
                    /\ producers = Cardinality(Makers(pc))
                    /\ references > 0 <=> scheduler = "open"
BY DEF OwnersExact, Owners, Makers

LEMMA CountsStep ==
    ASSUME BInv, [Next]_vars
    PROVE  OwnersExact'
<1> USE DEF BInv
<1>0. /\ pc \in [Context -> Place] /\ references \in Nat /\ producers \in Nat
      /\ references = Cardinality(Owners(pc)) /\ producers = Cardinality(Makers(pc))
      /\ references > 0 <=> scheduler = "open"
      BY OwnersIs DEF Shape
<1>a. Owners(pc) \in SUBSET Context /\ Makers(pc) \in SUBSET Context
      BY DEF Owners, Makers
<1>b. SUFFICES /\ references' = Cardinality(Owners(pc')) /\ producers' = Cardinality(Makers(pc'))
               /\ references' > 0 <=> scheduler' = "open"
      BY DEF OwnersExact, Owners, Makers
<1>k. ASSUME Owners(pc') = Owners(pc), Makers(pc') = Makers(pc),
             UNCHANGED <<references, producers, scheduler>>
      PROVE  /\ references' = Cardinality(Owners(pc')) /\ producers' = Cardinality(Makers(pc'))
             /\ references' > 0 <=> scheduler' = "open"
      BY <1>0, <1>k
<1>1. CASE UNCHANGED vars
      BY <1>1, <1>k DEF vars
<1>2. ASSUME NEW c \in Context, Acquire(c)
      PROVE  /\ references' = Cardinality(Owners(pc')) /\ producers' = Cardinality(Makers(pc'))
             /\ references' > 0 <=> scheduler' = "open"
      <2>1. /\ c \notin Owners(pc) /\ Owners(pc') = Owners(pc) \cup {c}
            /\ Makers(pc') = Makers(pc)
            BY <1>0, <1>2 DEF Acquire, Owners, Makers
      <2>2. references' = references + 1 /\ producers' = producers /\ scheduler' = "open"
            BY <1>2 DEF Acquire
      <2>3. Cardinality(Owners(pc) \cup {c}) = Cardinality(Owners(pc)) + 1
            BY <2>1, <1>a, Counts
      <2> QED BY <1>0, <2>1, <2>2, <2>3
<1>3. ASSUME NEW c \in Context, Enter(c) \/ Leave(c)
      PROVE  Owners(pc') = Owners(pc) /\ Makers(pc') = Makers(pc)
             /\ UNCHANGED <<references, producers, scheduler>>
      BY <1>0, <1>3 DEF Enter, Leave, Owners, Makers, shared
<1>4. ASSUME NEW c \in Context, Cancel(c) \/ CloseBegin(c) \/ CloseDrains(c)
      PROVE  UNCHANGED <<pc, references, producers, scheduler>>
      BY <1>4 DEF Cancel, CloseBegin, CloseDrains, shared
<1>5. ASSUME NEW c \in Context, ProducerEnter(c)
      PROVE  /\ references' = Cardinality(Owners(pc')) /\ producers' = Cardinality(Makers(pc'))
             /\ references' > 0 <=> scheduler' = "open"
      <2>1. /\ c \notin Makers(pc) /\ Makers(pc') = Makers(pc) \cup {c}
            /\ Owners(pc') = Owners(pc)
            BY <1>0, <1>5 DEF ProducerEnter, Owners, Makers
      <2>2. producers' = producers + 1 /\ UNCHANGED <<references, scheduler>>
            BY <1>5 DEF ProducerEnter, SetProducers
      <2>3. Cardinality(Makers(pc) \cup {c}) = Cardinality(Makers(pc)) + 1
            BY <2>1, <1>a, Counts
      <2> QED BY <1>0, <2>1, <2>2, <2>3
<1>6. ASSUME NEW c \in Context, ProducerLeave(c)
      PROVE  /\ references' = Cardinality(Owners(pc')) /\ producers' = Cardinality(Makers(pc'))
             /\ references' > 0 <=> scheduler' = "open"
      <2>1. /\ c \in Makers(pc) /\ Makers(pc') = Makers(pc) \ {c}
            /\ Owners(pc') = Owners(pc)
            BY <1>0, <1>6 DEF ProducerLeave, Owners, Makers
      <2>2. producers' = producers - 1 /\ UNCHANGED <<references, scheduler>>
            BY <1>6 DEF ProducerLeave, SetProducers
      <2>3. Cardinality(Makers(pc) \ {c}) = Cardinality(Makers(pc)) - 1
            BY <2>1, <1>a, Counts
      <2> QED BY <1>0, <2>1, <2>2, <2>3
<1>7. ASSUME NEW c \in Context, Submit(c) \/ SubmitAwakes(c)
      PROVE  Owners(pc') = Owners(pc) /\ Makers(pc') = Makers(pc)
             /\ UNCHANGED <<references, producers, scheduler>>
      BY <1>0, <1>7 DEF Submit, SubmitAwakes, Owners, Makers, shared
<1>8. ASSUME NEW c \in Context, Release(c)
      PROVE  /\ references' = Cardinality(Owners(pc')) /\ producers' = Cardinality(Makers(pc'))
             /\ references' > 0 <=> scheduler' = "open"
      <2> DEFINE f == [pc EXCEPT ![c] = "closed"]
      <2>1. f \in [Context -> Place] /\ f[c] = "closed" /\ \A d \in Context : d # c => f[d] = pc[d]
            BY <1>0 DEF Place
      <2>2. pc' = Completed(f) /\ pc[c] = "open"
            BY <1>8 DEF Release, Closers
      <2> HIDE DEF f
      <2>3. /\ pc'[c] = "closed"
            /\ \A d \in Context : d # c =>
                  pc'[d] = pc[d] \/ (pc[d] = "asleep" /\ pc'[d] = "awake")
            BY <2>1, <2>2, CompletedIs
      <2>4. /\ c \in Owners(pc) /\ Owners(pc') = Owners(pc) \ {c}
            /\ Makers(pc') = Makers(pc)
            BY <2>2, <2>3 DEF Owners, Makers
      <2>5. /\ Cardinality(Owners(pc) \ {c}) = Cardinality(Owners(pc)) - 1
            /\ Cardinality(Owners(pc)) > 0
            BY <2>4, <1>a, Counts
      <2>6. /\ references' = references - 1 /\ producers' = producers
            /\ scheduler' = IF references = 1 THEN "closing" ELSE scheduler
            BY <1>8 DEF Release
      <2> QED BY <1>0, <2>4, <2>5, <2>6
<1>9. ASSUME NEW c \in Context, Join(c)
      PROVE  /\ references' = Cardinality(Owners(pc')) /\ producers' = Cardinality(Makers(pc'))
             /\ references' > 0 <=> scheduler' = "open"
      <2>1. scheduler = "closing" /\ scheduler' = "none" /\ UNCHANGED <<references, producers, pc>>
            BY <1>9 DEF Join, Closers
      <2> QED BY <1>0, <2>1
<1>10. CASE WorkerStarts \/ WorkerWaits \/ WorkerCoalesces
      <2>1. UNCHANGED <<pc, references, producers, scheduler>>
            BY <1>10 DEF WorkerStarts, WorkerWaits, WorkerCoalesces, shared
      <2> QED BY <2>1, <1>k
<1>11. CASE WorkerSelects \/ WorkerFails \/ WorkerFinishes
      <2>1. pc' = Completed(pc) /\ UNCHANGED <<references, producers, scheduler>>
            BY <1>11 DEF WorkerSelects, WorkerFails, WorkerFinishes, Select, shared
      <2>2. \A d \in Context : pc'[d] = pc[d] \/ (pc[d] = "asleep" /\ pc'[d] = "awake")
            BY <2>1, <1>0, CompletedIs
      <2>3. Owners(pc') = Owners(pc) /\ Makers(pc') = Makers(pc)
            BY <2>2 DEF Owners, Makers
      <2> QED BY <2>1, <2>3, <1>k
<1> QED BY <1>1, <1>2, <1>3, <1>4, <1>5, <1>6, <1>7, <1>8, <1>9, <1>10, <1>11, <1>k
        DEF Next, ContextStep, CloseStep, WorkerStep

\* Nothing is queued or executed when nobody produces.
LEMMA NothingProduced ==
    ASSUME BInv, producers = 0
    PROVE  queue = << >> /\ selected = << >>
<1> USE DEF BInv
<1>1. Makers(pc) = {}
      BY OwnersIs, ConstantsAssumption, FS_Subset, FS_EmptySet DEF Makers
<1>2. \A c \in Context : ~Submitting(c)
      BY <1>1 DEF Makers, Submitting
<1>3. queue \in Seq(Context) /\ selected \in Seq(Context)
      BY DEF Shape
<1>4. ASSUME queue # << >> PROVE FALSE
      <2>1. queue[1] \in Range(queue) /\ queue[1] \in Context
            BY <1>3, <1>4 DEF Range
      <2> QED BY <2>1, <1>2 DEF Tickets, Placed
<1>5. ASSUME selected # << >> PROVE FALSE
      <2>1. selected[1] \in Range(selected) /\ selected[1] \in Context
            BY <1>3, <1>5 DEF Range
      <2> QED BY <2>1, <1>2 DEF Tickets, Placed
<1> QED BY <1>4, <1>5

LEMMA NobodyProduces ==
    ASSUME BInv, references = 0
    PROVE  producers = 0
<1> USE DEF BInv
<1>1. Owners(pc) = {}
      BY OwnersIs, ConstantsAssumption, FS_Subset, FS_EmptySet DEF Owners
<1>2. Makers(pc) = {}
      BY <1>1 DEF Owners, Makers
<1> QED BY <1>2, OwnersIs, FS_EmptySet

LEMMA QuietStep ==
    ASSUME BInv, [Next]_vars
    PROVE  Quiet'
<1> USE DEF BInv
<1>1. CASE UNCHANGED vars
      BY <1>1 DEF Quiet, vars
<1>2. ASSUME NEW c \in Context, Acquire(c) PROVE Quiet'
      <2>1. CASE scheduler = "none"
            <3>1. references = 0
                  BY <2>1, OwnersIs DEF Shape
            <3>2. queue = << >> /\ selected = << >>
                  BY <3>1, NobodyProduces, NothingProduced
            <3> QED BY <3>2, <1>2 DEF Acquire, Quiet
      <2>2. CASE scheduler # "none"
            BY <2>2, <1>2 DEF Acquire, Quiet
      <2> QED BY <2>1, <2>2
<1>3. ASSUME NEW c \in Context,
             \/ Enter(c) \/ Leave(c) \/ Cancel(c) \/ CloseBegin(c) \/ CloseDrains(c)
             \/ Join(c) \/ SubmitAwakes(c)
      PROVE  Quiet'
      BY <1>3 DEF Quiet, Enter, Leave, Cancel, CloseBegin, CloseDrains, Join, SubmitAwakes, shared
<1>4. ASSUME NEW c \in Context, ProducerEnter(c) \/ ProducerLeave(c) \/ Submit(c)
      PROVE  Quiet'
      BY <1>4 DEF Quiet, ProducerEnter, ProducerLeave, Submit, SetProducers, Ready, shared
<1>5. ASSUME NEW c \in Context, Release(c) PROVE Quiet'
      <2>1. CASE references = 1
            <3>1. producers = 0
                  BY <2>1, <1>5 DEF Release, Shape
            <3>2. queue = << >> /\ selected = << >>
                  BY <3>1, NothingProduced
            <3> QED BY <3>2, <1>5 DEF Release, Quiet
      <2>2. CASE references # 1
            BY <2>2, <1>5 DEF Release, Quiet
      <2> QED BY <2>1, <2>2
<1>6. CASE WorkerStarts \/ WorkerWaits \/ WorkerCoalesces \/ WorkerFails \/ WorkerFinishes
      BY <1>6 DEF Quiet, WorkerStarts, WorkerWaits, WorkerCoalesces, WorkerFails,
                  WorkerFinishes, shared
<1>7. CASE WorkerSelects
      <2>1. /\ queue' \in Seq(Context) /\ selected' \in Seq(Context)
            /\ Range(queue') \cup Range(selected') \subseteq Range(queue)
            /\ worker' = IF selected' = << >> THEN "idle" ELSE "execute"
            <3>1. Select
                  BY <1>7 DEF WorkerSelects
            <3> QED BY <3>1, Selects
      <2>2. stopping' = stopping
            BY <1>7 DEF WorkerSelects
      <2>3. ASSUME stopping PROVE queue' = << >> /\ selected' = << >>
            <3>1. Range(queue) = {}
                  BY <2>3 DEF Quiet, Range
            <3>2. Range(queue') = {} /\ Range(selected') = {}
                  BY <3>1, <2>1
            <3>3. ASSUME NEW s \in Seq(Context), Range(s) = {} PROVE s = << >>
                  <4>1. SUFFICES ASSUME s # << >> PROVE FALSE
                        OBVIOUS
                  <4>2. 1 \in DOMAIN s
                        BY <4>1
                  <4> QED BY <4>2, <3>3 DEF Range
            <3> QED BY <3>2, <3>3, <2>1
      <2> QED BY <2>1, <2>2, <2>3 DEF Quiet
<1> QED BY <1>1, <1>2, <1>3, <1>4, <1>5, <1>6, <1>7
        DEF Next, ContextStep, CloseStep, WorkerStep

LEMMA TicketsKept ==
    ASSUME Tickets, UNCHANGED <<queue, selected>>,
           \A c \in Context : pc[c] \in {"asleep", "awake"} <=> pc'[c] \in {"asleep", "awake"},
           \A c \in Context : ticket'[c].state = ticket[c].state
    PROVE  Tickets'
BY DEF Tickets, Placed, Submitting, Distinct, Range

LEMMA TicketsStep ==
    ASSUME BInv, [Next]_vars
    PROVE  Tickets'
<1> USE DEF BInv
<1>0. /\ pc \in [Context -> Place] /\ ticket \in [Context -> TicketT]
      /\ queue \in Seq(Context) /\ selected \in Seq(Context)
      BY DEF Shape
<1>1. CASE UNCHANGED vars
      BY <1>1, TicketsKept DEF vars
<1>2. ASSUME NEW c \in Context,
             \/ Acquire(c) \/ Enter(c) \/ Leave(c) \/ ProducerEnter(c) \/ ProducerLeave(c)
      PROVE  Tickets'
      <2>1. /\ UNCHANGED <<queue, selected, ticket>>
            /\ \A d \in Context : pc[d] \in {"asleep", "awake"} <=> pc'[d] \in {"asleep", "awake"}
            BY <1>0, <1>2 DEF Acquire, Enter, Leave, ProducerEnter, ProducerLeave
      <2> QED BY <2>1, TicketsKept
<1>3. ASSUME NEW c \in Context, Cancel(c) \/ CloseBegin(c) \/ CloseDrains(c) \/ Join(c)
      PROVE  Tickets'
      <2>1. UNCHANGED <<queue, selected, ticket, pc>>
            BY <1>3 DEF Cancel, CloseBegin, CloseDrains, Join
      <2> QED BY <2>1, TicketsKept
<1>4. ASSUME NEW c \in Context, Release(c) PROVE Tickets'
      <2> DEFINE f == [pc EXCEPT ![c] = "closed"]
      <2>1. f \in [Context -> Place] /\ f[c] = "closed" /\ \A d \in Context : d # c => f[d] = pc[d]
            BY <1>0 DEF Place
      <2>2. pc' = Completed(f) /\ pc[c] = "open" /\ UNCHANGED <<queue, selected, ticket>>
            BY <1>4 DEF Release, Closers
      <2> HIDE DEF f
      <2>3. /\ pc'[c] = "closed"
            /\ \A d \in Context : d # c =>
                  pc'[d] = pc[d] \/ (pc[d] = "asleep" /\ pc'[d] = "awake")
            BY <2>1, <2>2, CompletedIs
      <2> QED BY <2>2, <2>3, TicketsKept
<1>5. ASSUME NEW c \in Context, Submit(c) PROVE Tickets'
      <2>1. c \notin Range(queue) /\ c \notin Range(selected)
            BY <1>5 DEF Submit, Tickets, Placed, Submitting
      <2>2. /\ queue' = Append(queue, c) /\ selected' = selected /\ pc'[c] = "asleep"
            /\ \A d \in Context : d # c => pc'[d] = pc[d] /\ ticket'[d] = ticket[d]
            /\ ticket'[c].state = "none"
            BY <1>0, <1>5 DEF Submit
      <2>3. Distinct(queue') /\ Range(queue') = Range(queue) \cup {c}
            BY <1>0, <2>1, <2>2, Appended DEF Tickets
      <2>4. Distinct(queue)' /\ Distinct(selected)' /\ Range(selected') = Range(selected)
            BY <2>2, <2>3 DEF Tickets, Distinct
      <2> QED BY <2>1, <2>2, <2>3, <2>4 DEF Tickets, Placed, Submitting
<1>6. ASSUME NEW c \in Context, SubmitAwakes(c) PROVE Tickets'
      <2>0. UNCHANGED <<queue, selected>>
            BY <1>6 DEF SubmitAwakes
      <2>1. CASE ticket[c].state # "none" \/ stopping
            <3>1. c \notin Placed
                  BY <2>1 DEF Quiet, Tickets, Placed, Range
            <3>2. /\ pc'[c] = "producing"
                  /\ \A d \in Context : d # c => pc'[d] = pc[d] /\ ticket'[d] = ticket[d]
                  BY <2>1, <1>0, <1>6 DEF SubmitAwakes
            <3>3. Placed' = Placed /\ Distinct(queue)' /\ Distinct(selected)'
                  BY <2>0 DEF Placed, Tickets, Distinct
            <3> QED BY <3>1, <3>2, <3>3, <2>0 DEF Tickets, Submitting
      <2>2. CASE ~(ticket[c].state # "none" \/ stopping)
            <3>1. /\ UNCHANGED ticket
                  /\ \A d \in Context : pc[d] \in {"asleep", "awake"} <=> pc'[d] \in {"asleep", "awake"}
                  BY <2>2, <1>0, <1>6 DEF SubmitAwakes
            <3> QED BY <2>0, <3>1, TicketsKept
      <2> QED BY <2>1, <2>2
<1>7. CASE WorkerStarts \/ WorkerWaits \/ WorkerCoalesces
      <2>1. UNCHANGED <<queue, selected, ticket, pc>>
            BY <1>7 DEF WorkerStarts, WorkerWaits, WorkerCoalesces
      <2> QED BY <2>1, TicketsKept
<1>8. ASSUME pc' = Completed(pc)
      PROVE  \A d \in Context : pc[d] \in {"asleep", "awake"} <=> pc'[d] \in {"asleep", "awake"}
      BY <1>0, <1>8, CompletedIs
<1>9. CASE WorkerSelects
      <2>0. Select /\ selected = << >>
            BY <1>9 DEF WorkerSelects, Quiet
      <2>1. PICK drop \in SUBSET Context :
              /\ Distinct(queue') /\ Distinct(selected')
              /\ Range(queue') \cap Range(selected') = {}
              /\ drop \cap (Range(queue') \cup Range(selected')) = {}
              /\ drop \cup Range(queue') \cup Range(selected') = Range(queue)
              /\ ticket' = [c \in Context |->
                              IF c \in drop THEN [ticket[c] EXCEPT !.state = "cancelled"]
                              ELSE ticket[c]]
              /\ pc' = Completed(pc)
            BY <2>0, Selects
      <2>2. /\ \A c \in Context : c \in drop => ticket'[c].state = "cancelled"
            /\ \A c \in Context : c \notin drop => ticket'[c].state = ticket[c].state
            BY <2>1, Results DEF State
      <2>3. Range(selected) = {}
            BY <2>0 DEF Range
      <2>4. \A d \in Context : pc[d] \in {"asleep", "awake"} <=> pc'[d] \in {"asleep", "awake"}
            BY <2>1, <1>8
      <2>5. Placed' = Range(queue) \ drop /\ Placed = Range(queue)
            BY <2>1, <2>3 DEF Placed
      <2>6. Distinct(queue)' /\ Distinct(selected)' /\ (Range(queue) \cap Range(selected))' = {}
            BY <2>1 DEF Distinct
      <2>7. \A c \in Context : (Submitting(c) /\ ticket[c].state = "none")' <=> c \in Placed'
            BY <2>2, <2>4, <2>5 DEF Tickets, Submitting
      <2> QED BY <2>6, <2>7 DEF Tickets
<1>10. CASE WorkerFails
      <2>1. /\ \A c \in Context : c \in Range(queue) => ticket'[c].state = "cancelled"
            /\ \A c \in Context : c \notin Range(queue) => ticket'[c].state = ticket[c].state
            BY <1>10, Results DEF State, WorkerFails
      <2>2. selected = << >> /\ queue' = << >> /\ selected' = << >> /\ pc' = Completed(pc)
            BY <1>10 DEF WorkerFails, Quiet
      <2>3. /\ Placed = Range(queue) /\ Placed' = {}
            /\ Distinct(queue)' /\ Distinct(selected)' /\ (Range(queue) \cap Range(selected))' = {}
            BY <2>2 DEF Placed, Range, Distinct
      <2>4. \A c \in Context : (Submitting(c) /\ ticket[c].state = "none")' <=> c \in Placed'
            BY <2>1, <2>2, <2>3, <1>8 DEF Tickets, Submitting
      <2> QED BY <2>3, <2>4 DEF Tickets
<1>11. CASE WorkerFinishes
      <2>0. PICK status \in {"ok", "failed"} :
               ticket' = [c \in Context |->
                            IF c \in Range(selected)
                            THEN [ticket[c] EXCEPT !.state = status] ELSE ticket[c]]
            BY <1>11 DEF WorkerFinishes
      <2>1. /\ \A c \in Context : c \in Range(selected) => ticket'[c].state = status
            /\ \A c \in Context : c \notin Range(selected) => ticket'[c].state = ticket[c].state
            <3>1. status \in State /\ Shape
                  BY DEF State
            <3> HIDE DEF State
            <3> QED BY <2>0, <3>1, Results
      <2>2. queue' = queue /\ selected' = << >> /\ pc' = Completed(pc)
            BY <1>11 DEF WorkerFinishes
      <2>3. /\ Placed' = Range(queue) /\ Distinct(queue)' /\ Distinct(selected)'
            /\ (Range(queue) \cap Range(selected))' = {}
            BY <2>2 DEF Placed, Range, Distinct, Tickets
      <2>4. \A c \in Context : (Submitting(c) /\ ticket[c].state = "none")' <=> c \in Placed'
            BY <2>1, <2>2, <2>3, <1>8 DEF Tickets, Submitting, Placed
      <2> QED BY <2>3, <2>4 DEF Tickets
<1> QED BY <1>1, <1>2, <1>3, <1>4, <1>5, <1>6, <1>7, <1>9, <1>10, <1>11
        DEF Next, ContextStep, CloseStep, WorkerStep

\* The tickets of the execution keep their key and rows.
LEMMA AdmittedKept ==
    ASSUME BInv, selected' = selected,
           \A c \in Range(selected) : /\ ticket'[c].key = ticket[c].key
                                      /\ ticket'[c].rows = ticket[c].rows
    PROVE  Admitted'
<1>0. selected \in Seq(Context) /\ Admitted
      BY DEF BInv, Shape
<1>1. PICK n \in 0 .. Width : Sums(selected, n)
      BY <1>0 DEF Admitted
<1>2. PICK f \in [0 .. Len(selected) -> Nat] :
          /\ f[0] = 0 /\ f[Len(selected)] = n
          /\ \A i \in 1 .. Len(selected) : f[i] = f[i - 1] + ticket[selected[i]].rows
      BY <1>1 DEF Sums
<1>3. \A i \in 1 .. Len(selected) : selected[i] \in Range(selected)
      BY <1>0 DEF Range
<1>4. \A i \in 1 .. Len(selected') : f[i] = f[i - 1] + ticket'[selected'[i]].rows
      BY <1>2, <1>3
<1>5. Sums(selected, n)'
      BY <1>2, <1>4 DEF Sums
<1>6. \A c, d \in Range(selected') : ticket'[c].key = ticket'[d].key
      BY <1>0 DEF Admitted
<1> QED BY <1>5, <1>6 DEF Admitted

LEMMA AdmittedStep ==
    ASSUME BInv, [Next]_vars
    PROVE  Admitted'
<1>0. /\ Shape /\ Tickets /\ Quiet /\ ticket \in [Context -> TicketT]
      /\ pc \in [Context -> Place]
      BY DEF BInv, Shape
<1>e. ASSUME selected' = << >> PROVE Admitted'
      <2>1. Range(selected') = {}
            BY <1>e DEF Range
      <2> DEFINE f == [i \in 0 .. 0 |-> 0]
      <2>2. /\ f \in [0 .. Len(selected') -> Nat] /\ f[0] = 0 /\ f[Len(selected')] = 0
            /\ \A i \in 1 .. Len(selected') : f[i] = f[i - 1] + ticket'[selected'[i]].rows
            BY <1>e
      <2> HIDE DEF f
      <2>3. Sums(selected, 0)'
            BY <2>2 DEF Sums
      <2>4. 0 \in 0 .. Width
            BY ConstantsAssumption
      <2> QED BY <2>1, <2>3, <2>4 DEF Admitted
<1>1. CASE UNCHANGED vars
      BY <1>1, AdmittedKept DEF vars
<1>2. ASSUME NEW c \in Context,
             \/ Acquire(c) \/ Enter(c) \/ Leave(c) \/ ProducerEnter(c) \/ ProducerLeave(c)
             \/ Cancel(c) \/ CloseBegin(c) \/ CloseDrains(c) \/ Join(c) \/ Release(c)
      PROVE  Admitted'
      <2>1. UNCHANGED <<selected, ticket>>
            BY <1>2 DEF Acquire, Enter, Leave, ProducerEnter, ProducerLeave, Cancel,
                        CloseBegin, CloseDrains, Join, Release
      <2> QED BY <2>1, AdmittedKept
<1>3. ASSUME NEW c \in Context, Submit(c) PROVE Admitted'
      <2>1. c \notin Range(selected)
            BY <1>0, <1>3 DEF Submit, Tickets, Placed, Submitting
      <2>2. selected' = selected /\ \A d \in Context : d # c => ticket'[d] = ticket[d]
            BY <1>0, <1>3 DEF Submit
      <2>3. Range(selected) \subseteq Context
            BY <1>0 DEF Shape, Range
      <2> QED BY <2>1, <2>2, <2>3, AdmittedKept
<1>4. ASSUME NEW c \in Context, SubmitAwakes(c) PROVE Admitted'
      <2>1. c \notin Range(selected) \/ ticket' = ticket
            BY <1>0, <1>4 DEF SubmitAwakes, Tickets, Placed, Quiet, Range
      <2>2. selected' = selected /\ \A d \in Context : d # c => ticket'[d] = ticket[d]
            BY <1>0, <1>4 DEF SubmitAwakes
      <2>3. Range(selected) \subseteq Context
            BY <1>0 DEF Shape, Range
      <2> QED BY <2>1, <2>2, <2>3, AdmittedKept
<1>5. CASE WorkerStarts \/ WorkerWaits \/ WorkerCoalesces
      <2>1. UNCHANGED <<selected, ticket>>
            BY <1>5 DEF WorkerStarts, WorkerWaits, WorkerCoalesces
      <2> QED BY <2>1, AdmittedKept
<1>6. CASE WorkerFails
      BY <1>6, <1>0, <1>e DEF WorkerFails, Quiet
<1>7. CASE WorkerFinishes
      BY <1>7, <1>e DEF WorkerFinishes
<1>8. CASE WorkerSelects
      <2>0. Select
            BY <1>8 DEF WorkerSelects
      <2>1. PICK drop \in SUBSET Context :
              /\ selected' \in Seq(Context)
              /\ \A c, d \in Range(selected') : ticket[c].key = ticket[d].key
              /\ \E n \in 0 .. Width : Sums(selected', n)
              /\ ticket' = [c \in Context |->
                              IF c \in drop THEN [ticket[c] EXCEPT !.state = "cancelled"]
                              ELSE ticket[c]]
            BY <2>0, Selects
      <2>2. \A c \in Context : /\ ticket'[c].key = ticket[c].key
                               /\ ticket'[c].rows = ticket[c].rows
            BY <2>1, <1>0, Results DEF State
      <2>3. PICK n \in 0 .. Width : Sums(selected', n)
            BY <2>1
      <2>4. PICK f \in [0 .. Len(selected') -> Nat] :
                /\ f[0] = 0 /\ f[Len(selected')] = n
                /\ \A i \in 1 .. Len(selected') : f[i] = f[i - 1] + ticket[selected'[i]].rows
            BY <2>3 DEF Sums
      <2>5. \A i \in 1 .. Len(selected') : selected'[i] \in Context
            BY <2>1
      <2>6. \A i \in 1 .. Len(selected') : f[i] = f[i - 1] + ticket'[selected'[i]].rows
            BY <2>2, <2>4, <2>5
      <2>7. Sums(selected, n)'
            BY <2>4, <2>6 DEF Sums
      <2>8. Range(selected') \subseteq Context
            BY <2>1 DEF Range
      <2>9. \A c, d \in Range(selected') : ticket'[c].key = ticket'[d].key
            BY <2>1, <2>2, <2>8
      <2> QED BY <2>7, <2>9 DEF Admitted
<1> QED BY <1>1, <1>2, <1>3, <1>4, <1>5, <1>6, <1>7, <1>8
        DEF Next, ContextStep, CloseStep, WorkerStep

-----------------------------------------------------------------------------
(***************************************************************************)
(* The theorems.                                                           *)
(***************************************************************************)
LEMMA InitHolds == Init => BInv
<1> SUFFICES ASSUME Init PROVE BInv
    OBVIOUS
<1> USE DEF Init
<1>1. Shape
      <2>1. NoTicket \in TicketT
            BY ConstantsAssumption DEF TicketT, State, NoTicket
      <2>2. ticket \in [Context -> TicketT] /\ pc \in [Context -> Place]
            BY <2>1 DEF Place
      <2>3. queue \in Seq(Context) /\ selected \in Seq(Context)
            OBVIOUS
      <2>4. /\ cancel \in [Context -> BOOLEAN] /\ stopping \in BOOLEAN
            /\ closer \in [Context -> {"none", "drain", "asleep", "drained", "join"}]
            OBVIOUS
      <2> QED BY <2>2, <2>3, <2>4 DEF Shape
<1>2. Closers /\ Quiet
      BY DEF Closers, Quiet
<1>3. OwnersExact
      <2>1. Owners(pc) = {} /\ Makers(pc) = {}
            BY DEF Owners, Makers
      <2>2. Cardinality({}) = 0
            BY FS_EmptySet
      <2>3. references = 0 /\ producers = 0 /\ ~(references > 0) /\ scheduler # "open"
            OBVIOUS
      <2> HIDE DEF Init
      <2> QED BY <2>1, <2>2, <2>3, OwnersIs
<1>4. Tickets
      BY DEF Tickets, Placed, Range, Distinct, Submitting
<1>5. Admitted
      <2>1. Range(selected) = {} /\ 0 \in 0 .. Width
            BY ConstantsAssumption DEF Range
      <2> QED BY <2>1, SumsEmpty DEF Admitted
<1> QED BY <1>1, <1>2, <1>3, <1>4, <1>5 DEF BInv

LEMMA Invariance == Spec => []BInv
<1>1. Init => BInv
      BY InitHolds
<1>2. BInv /\ [Next]_vars => BInv'
      BY ShapeStep, ClosersStep, CountsStep, QuietStep, TicketsStep, AdmittedStep DEF BInv
<1> QED BY <1>1, <1>2, PTL DEF Spec

\* The counters of the model lifecycle (engine_scheduler_references,
\* engine_scheduler_producers) are those of the contexts, and the coordinator
\* is open exactly while a context holds a reference, for every number of
\* contexts and however their turns and closes interleave.
THEOREM OwnersAreExact == Spec => []OwnersExact
<1>1. BInv => OwnersExact
      BY DEF BInv
<1> QED BY <1>1, Invariance, PTL

\* No reference to a ticket outlives the submit call whose stack frame holds
\* it: a context in the queue or in the execution is still inside submit,
\* although submit also returns when the coordinator stops.
THEOREM TicketsLive == Spec => []TicketLifetime
<1>1. BInv => TicketLifetime
      <2> SUFFICES ASSUME BInv, NEW c \in Placed PROVE Submitting(c)
          BY DEF TicketLifetime, Placed
      <2>1. c \in Context
            BY DEF BInv, Shape, Placed, Range
      <2> QED BY <2>1 DEF BInv, Tickets
<1> QED BY <1>1, Invariance, PTL

LEMMA DistinctCount ==
    ASSUME NEW s \in Seq(Context), Distinct(s)
    PROVE  Len(s) = Cardinality(Range(s))
<1>1. Len(s) \in Nat /\ DOMAIN s = 1 .. Len(s)
      OBVIOUS
<1>2. s \in Bijection(1 .. Len(s), Range(s))
      BY <1>1 DEF Bijection, Injection, Surjection, IsInjective, Distinct, Range
<1>3. ExistsBijection(1 .. Len(s), Range(s))
      BY <1>2 DEF ExistsBijection
<1> QED BY <1>1, <1>3, FS_CountingElements

\* No ticket is lost or served twice: one without a result is in the queue or
\* with the worker, exactly once, through selection, cancellation, completion
\* and the failure of the worker's start.
THEOREM TicketsServedOnce == Spec => []TicketOnce
<1>1. BInv => TicketOnce
      <2> SUFFICES ASSUME BInv PROVE TicketOnce
          OBVIOUS
      <2> DEFINE places == queue \o selected
      <2>1. queue \in Seq(Context) /\ selected \in Seq(Context) /\ Tickets
            BY DEF BInv, Shape
      <2>2. /\ places \in Seq(Context) /\ Len(places) = Len(queue) + Len(selected)
            /\ Len(queue) \in Nat /\ Len(selected) \in Nat
            /\ DOMAIN queue = 1 .. Len(queue) /\ DOMAIN selected = 1 .. Len(selected)
            /\ DOMAIN places = 1 .. Len(queue) + Len(selected)
            /\ \A i \in 1 .. Len(queue) : places[i] = queue[i]
            /\ \A i \in Len(queue) + 1 .. Len(queue) + Len(selected) :
                  places[i] = selected[i - Len(queue)]
            BY <2>1
      <2>3. \A i \in 1 .. Len(selected) : places[Len(queue) + i] = selected[i]
            BY <2>2
      <2> HIDE DEF places
      <2>4. Range(places) = Placed
            <3>1. ASSUME NEW x \in Range(places) PROVE x \in Placed
                  <4>1. PICK i \in 1 .. Len(queue) + Len(selected) : x = places[i]
                        BY <2>2 DEF Range
                  <4>2. CASE i <= Len(queue)
                        BY <4>1, <4>2, <2>2 DEF Placed, Range
                  <4>3. CASE i > Len(queue)
                        <5>1. i - Len(queue) \in 1 .. Len(selected)
                              /\ x = selected[i - Len(queue)]
                              BY <4>1, <4>3, <2>2
                        <5> QED BY <5>1, <2>2 DEF Placed, Range
                  <4> QED BY <4>1, <4>2, <4>3, <2>2
            <3>2. ASSUME NEW i \in 1 .. Len(queue) PROVE queue[i] \in Range(places)
                  BY <2>2 DEF Range
            <3>3. ASSUME NEW i \in 1 .. Len(selected) PROVE selected[i] \in Range(places)
                  <4>1. Len(queue) + i \in DOMAIN places
                        BY <2>2
                  <4> QED BY <4>1, <2>3 DEF Range
            <3> QED BY <3>1, <3>2, <3>3, <2>2 DEF Placed, Range
      <2>5. Distinct(places)
            <3> SUFFICES ASSUME NEW i \in DOMAIN places, NEW j \in DOMAIN places,
                                places[i] = places[j], i < j
                         PROVE  FALSE
                BY <2>2 DEF Distinct
            <3>1. CASE j <= Len(queue)
                  BY <3>1, <2>1, <2>2 DEF Tickets, Distinct
            <3>2. CASE i > Len(queue)
                  <4>1. /\ i - Len(queue) \in DOMAIN selected /\ j - Len(queue) \in DOMAIN selected
                        /\ places[i] = selected[i - Len(queue)]
                        /\ places[j] = selected[j - Len(queue)]
                        /\ i - Len(queue) # j - Len(queue)
                        <5>1. /\ i \in Nat /\ j \in Nat /\ Len(queue) \in Nat
                              /\ j > Len(queue) /\ i - Len(queue) # j - Len(queue)
                              BY <3>2, <2>2
                        <5>2. /\ i - Len(queue) \in DOMAIN selected
                              /\ j - Len(queue) \in DOMAIN selected
                              BY <3>2, <5>1, <2>2
                        <5>3. places[i] = selected[i - Len(queue)]
                              BY <3>2, <2>2
                        <5>4. places[j] = selected[j - Len(queue)]
                              BY <5>1, <2>2
                        <5> QED BY <5>1, <5>2, <5>3, <5>4
                  <4> QED BY <4>1, <2>1 DEF Tickets, Distinct
            <3>3. CASE i <= Len(queue) /\ j > Len(queue)
                  <4>1. places[i] \in Range(queue)
                        BY <3>3, <2>2 DEF Range
                  <4>2. j - Len(queue) \in 1 .. Len(selected)
                        /\ places[j] = selected[j - Len(queue)]
                        BY <3>3, <2>2
                  <4>3. places[j] \in Range(selected)
                        BY <4>2, <2>2 DEF Range
                  <4> QED BY <4>1, <4>3, <2>1 DEF Tickets
            <3> QED BY <3>1, <3>2, <3>3, <2>2
      <2>6. Len(places) = Cardinality(Range(places))
            BY <2>2, <2>5, DistinctCount
      <2>7. \A c \in Context :
               Submitting(c) /\ ticket[c].state = "none" <=> c \in Range(places)
            BY <2>1, <2>4 DEF Tickets
      <2> QED BY <2>6, <2>7 DEF TicketOnce, places
<1> QED BY <1>1, Invariance, PTL

\* The fold of the rows of a batch is their sum.
LEMMA RowsAre ==
    ASSUME NEW s \in Seq(Context), NEW n, Sums(s, n)
    PROVE  Rows(s) = n
<1>0. Len(s) \in Nat
      OBVIOUS
<1>1. PICK f \in [0 .. Len(s) -> Nat] :
          /\ f[0] = 0 /\ f[Len(s)] = n
          /\ \A i \in 1 .. Len(s) : f[i] = f[i - 1] + ticket[s[i]].rows
      BY DEF Sums
<1>2. PICK scan : Scans("rows", s, scan) /\ scan[Len(s)] = Rows(s)
      BY RowsScans
<1> DEFINE Good == {k \in Nat : k <= Len(s) => scan[k] = f[k]}
<1>3. 0 \in Good
      BY <1>1, <1>2 DEF Scans, Base
<1>4. ASSUME NEW k \in Nat, k \in Good PROVE k + 1 \in Good
      <2> SUFFICES ASSUME k + 1 <= Len(s) PROVE scan[k + 1] = f[k + 1]
          OBVIOUS
      <2>1. k + 1 \in 1 .. Len(s) /\ (k + 1) - 1 = k /\ k <= Len(s)
            BY <1>0
      <2>2. scan[k + 1] = scan[k] + ticket[s[k + 1]].rows
            BY <2>1, <1>2 DEF Scans, Step
      <2>3. f[k + 1] = f[k] + ticket[s[k + 1]].rows
            BY <2>1, <1>1
      <2> QED BY <2>1, <2>2, <2>3, <1>4
<1> HIDE DEF Good
<1>5. Len(s) \in Good
      BY <1>0, <1>3, <1>4, NatSets
<1> QED BY <1>0, <1>1, <1>2, <1>5 DEF Good

\* An execution mixes no two compatibility keys and is never wider than the
\* admitted width, whatever the scan of the queue passed over.
THEOREM BatchesAreAdmitted == Spec => []BatchAdmitted
<1>1. BInv => BatchAdmitted
      <2> SUFFICES ASSUME BInv PROVE BatchAdmitted
          OBVIOUS
      <2>1. selected \in Seq(Context) /\ Admitted
            BY DEF BInv, Shape
      <2>2. PICK n \in 0 .. Width : Sums(selected, n)
            BY <2>1 DEF Admitted
      <2>3. Rows(selected) = n
            BY <2>1, <2>2, RowsAre
      <2> QED BY <2>1, <2>2, <2>3, ConstantsAssumption DEF BatchAdmitted, Admitted
<1> QED BY <1>1, Invariance, PTL

\* The oldest ticket that is not cancelled opens every batch: incompatible
\* work is passed over only behind it.
THEOREM OldestIsFirst == Spec => OldestFirst
<1> DEFINE A == \A i \in DOMAIN queue :
          /\ \A j \in 1 .. i - 1 : cancel[queue[j]]
          /\ ~cancel[queue[i]]
          /\ selected' # << >> /\ selected = << >>
          => Head(selected') = queue[i]
<1>1. BInv /\ [Next]_vars => [A]_vars
      <2> SUFFICES ASSUME BInv, Next, NEW i \in DOMAIN queue,
                          \A j \in 1 .. i - 1 : cancel[queue[j]], ~cancel[queue[i]],
                          selected' # << >>, selected = << >>
                   PROVE  Head(selected') = queue[i]
          OBVIOUS
      <2>1. CASE WorkerSelects
            <3>1. selected' = Scan(queue).batch
                  BY <2>1, Zenon DEF WorkerSelects, Select
            <3>2. Head(Scan(queue).batch) = queue[i]
                  BY OldestOpens DEF BInv, Tickets
            <3> QED BY <3>1, <3>2
      <2>2. CASE WorkerStarts \/ WorkerWaits \/ WorkerCoalesces \/ WorkerFinishes \/ WorkerFails
            BY <2>2 DEF WorkerStarts, WorkerWaits, WorkerCoalesces, WorkerFinishes, WorkerFails
      <2>3. ASSUME NEW c \in Context, ContextStep(c) \/ SubmitAwakes(c)
            PROVE  selected' = selected
            BY <2>3 DEF ContextStep, CloseStep, SubmitAwakes, Acquire, Enter, Leave,
                        ProducerEnter, ProducerLeave, Cancel, Submit, CloseBegin,
                        CloseDrains, Join, Release
      <2> QED BY <2>1, <2>2, <2>3 DEF Next, WorkerStep
<1>2. Spec => [][A]_vars
      <2> HIDE DEF A
      <2> QED BY <1>1, Invariance, PTL DEF Spec
<1> QED BY <1>2 DEF OldestFirst
=============================================================================
