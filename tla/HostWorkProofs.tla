--------------------------- MODULE HostWorkProofs ---------------------------
(***************************************************************************)
(* Proofs about the request queue, alone and inside the host, for every    *)
(* number of operations, keys, workers, sessions and queue places.  Each   *)
(* step of the host is a step of the queue or leaves the queue alone, so   *)
(* what is proved of the queue holds inside the host.                      *)
(***************************************************************************)
EXTENDS HostWork, SequenceTheorems, WellFoundedInduction, TLAPS

-----------------------------------------------------------------------------
(***************************************************************************)
(* RequestQueue.                                                           *)
(***************************************************************************)

\* A worker holds an entry exactly while it is busy with it, and
\* request_queue->active is the set of the keys the workers hold.
ActiveIsHeld ==
    /\ \A w \in Worker : Busy(w) <=> entry[w] # NoWork
    /\ active = {KeyOf[entry[w]] : w \in {v \in Worker : Busy(v)}}

\* An accepted operation is queued, in the hands of a worker, or done.
Accounted ==
    \A x \in Work : result[x] = "ok" =>
        \/ \E i \in DOMAIN queue : queue[i] = x
        \/ \E w \in Worker : pc[w] = "execute" /\ entry[w] = x
        \/ x \in done

\* Work is queued only once every worker exists, and a worker exits only when
\* nothing is queued and nothing more can be.
Staffed ==
    /\ owner \in {"open", "starting"} => queue = << >>
    /\ owner \in {"joining", "closed"} => stopping
    /\ owner = "serving" => \A w \in Worker : pc[w] # "absent"
    /\ queue # << >> => \A w \in Worker : pc[w] # "absent"
    /\ \A w \in Worker : pc[w] = "exited" => stopping /\ queue = << >>
    /\ owner = "closed" => \A w \in Worker : pc[w] \in {"absent", "exited"}

IInv == TypeOK /\ KeyExclusion /\ ActiveIsHeld /\ Accounted /\ Staffed

-----------------------------------------------------------------------------
\* What remains of the queue when the entry at one position is taken out.
LEMMA ShiftProperties ==
    ASSUME NEW S, NEW q \in Seq(S), NEW i \in DOMAIN q
    PROVE  /\ Shift(q, i) \in Seq(S) /\ Len(Shift(q, i)) = Len(q) - 1
           /\ \A j \in 1 .. Len(q) - 1 :
                 Shift(q, i)[j] = IF j < i THEN q[j] ELSE q[j + 1]
           /\ \A j \in DOMAIN q \ {i} :
                 \E k \in DOMAIN Shift(q, i) : Shift(q, i)[k] = q[j]
<1> DEFINE p == Shift(q, i)
<1>1. /\ Len(q) \in Nat /\ DOMAIN q = 1 .. Len(q) /\ i \in 1 .. Len(q)
      /\ Len(q) - 1 \in Nat /\ \A j \in 1 .. Len(q) : q[j] \in S
      BY LenProperties, ElementOfSeq
<1>2. \A j \in 1 .. Len(q) - 1 : p[j] = IF j < i THEN q[j] ELSE q[j + 1]
      BY DEF Shift
<1>3. p \in [1 .. Len(q) - 1 -> S]
      BY <1>1 DEF Shift
<1>4. p \in Seq(S) /\ Len(p) = Len(q) - 1 /\ DOMAIN p = 1 .. Len(q) - 1
  <2>1. p \in Seq(S) /\ DOMAIN p = 1 .. Len(q) - 1
        BY <1>1, <1>3, SeqDef
  <2>2. DOMAIN p = 1 .. Len(p) /\ Len(p) \in Nat
        BY <2>1, LenProperties
  <2>3. ASSUME NEW m \in Nat, NEW n \in Nat, 1 .. m = 1 .. n PROVE m = n
    <3>1. m \in 1 .. m \/ m = 0
          OBVIOUS
    <3>2. n \in 1 .. n \/ n = 0
          OBVIOUS
    <3> QED
        BY <3>1, <3>2, <2>3
  <2> QED
      BY <2>1, <2>2, <2>3, <1>1, Zenon
<1> HIDE DEF p
<1>5. ASSUME NEW j \in DOMAIN q \ {i}
      PROVE  \E k \in DOMAIN p : p[k] = q[j]
  <2>1. CASE j < i
        BY <2>1, <1>1, <1>2, <1>4
  <2>2. CASE j > i
    <3>1. j - 1 \in 1 .. Len(q) - 1 /\ ~(j - 1 < i) /\ (j - 1) + 1 = j
          BY <2>2, <1>1
    <3> QED
        BY <3>1, <1>2, <1>4
  <2> QED
      BY <2>1, <2>2, <1>1
<1> QED
    BY <1>2, <1>4, <1>5 DEF p
-----------------------------------------------------------------------------
USE DEF IInv

LEMMA InitEstablishes == Init => IInv
<1> SUFFICES ASSUME Init PROVE IInv
    OBVIOUS
<1>1. TypeOK
  <2>1. started \in BOOLEAN /\ stopping \in BOOLEAN /\ finished \in BOOLEAN
        BY Zenon DEF Init
  <2>2. queue \in Seq(Work) /\ Len(queue) <= QueueCapacity
        BY EmptySeq, ConstantsAssumption DEF Init
  <2> QED
      BY <2>1, <2>2 DEF Init, TypeOK
<1>2. KeyExclusion /\ ActiveIsHeld
      BY DEF Init, KeyExclusion, ActiveIsHeld, Busy
<1>3. Accounted /\ Staffed
      BY DEF Init, Accounted, Staffed
<1> QED
    BY <1>1, <1>2, <1>3

\* A broadcast changes nothing but where idle workers are.
LEMMA BroadcastProperties ==
    ASSUME NEW f \in [Worker -> {"absent", "lock", "wait", "execute", "release",
                                 "exited"}]
    PROVE  /\ Broadcast(f) \in [Worker -> {"absent", "lock", "wait", "execute",
                                           "release", "exited"}]
           /\ \A w \in Worker, p \in {"absent", "execute", "release", "exited"} :
                 Broadcast(f)[w] = p <=> f[w] = p
BY DEF Broadcast

\* Moving workers between states in which they hold no entry, with the rest
\* of what the invariant speaks of unchanged, preserves exclusion and the
\* accounts.
LEMMA IdleMoves ==
    ASSUME IInv,
           UNCHANGED <<queue, active, entry, result, done>>,
           \A w \in Worker, p \in {"execute", "release"} :
               pc'[w] = p <=> pc[w] = p
    PROVE  KeyExclusion' /\ ActiveIsHeld' /\ Accounted'
<1>1. \A w \in Worker : Busy(w)' <=> Busy(w)
      BY DEF Busy
<1>2. KeyExclusion'
      BY <1>1 DEF KeyExclusion
<1>3. ActiveIsHeld'
  <2>1. {v \in Worker : Busy(v)'} = {v \in Worker : Busy(v)}
        BY <1>1
  <2> QED
      BY <1>1, <2>1 DEF ActiveIsHeld
<1>4. Accounted'
      BY DEF Accounted
<1> QED
    BY <1>2, <1>3, <1>4

\* The owner's actions, and a worker that exits, waits or wakes.
LEMMA OwnerPreserves ==
    ASSUME IInv, Start \/ CreateFails \/ Finish \/ Join \/ RequestStop
    PROVE  IInv'
<1>1. \A w \in Worker, p \in {"absent", "execute", "release", "exited"} :
          pc'[w] = p <=> pc[w] = p
      BY BroadcastProperties
         DEF TypeOK, Start, CreateFails, Finish, Join, RequestStop
<1>2. pc' \in [Worker -> {"absent", "lock", "wait", "execute", "release",
                          "exited"}]
      BY BroadcastProperties
         DEF TypeOK, Start, CreateFails, Finish, Join, RequestStop
<1>3. UNCHANGED <<queue, active, entry, result, done>>
      BY DEF Start, CreateFails, Finish, Join, RequestStop
<1>4. /\ started' \in BOOLEAN /\ stopping' \in BOOLEAN /\ finished' \in BOOLEAN
      /\ stopping => stopping'
      BY Zenon DEF TypeOK, Start, CreateFails, Finish, Join, RequestStop
<1>5. owner' \in {"open", "starting", "serving", "joining", "closed"}
      BY DEF TypeOK, Start, CreateFails, Finish, Join, RequestStop
<1>6. TypeOK'
      BY <1>2, <1>3, <1>4, <1>5 DEF TypeOK
<1>7. KeyExclusion' /\ ActiveIsHeld' /\ Accounted'
      BY <1>1, <1>3, IdleMoves
<1>8. Staffed'
  <2>1. CASE Start
        BY <2>1, <1>1, <1>3, <1>4 DEF Start, Staffed
  <2>2. CASE CreateFails
        BY <2>2, <1>1, <1>3 DEF CreateFails, Staffed
  <2>3. CASE Finish
        BY <2>3, <1>1, <1>3 DEF Finish, Staffed
  <2>4. CASE Join
        BY <2>4, <1>1, <1>3 DEF Join, Staffed
  <2>5. CASE RequestStop
        BY <2>5, <1>1, <1>3 DEF RequestStop, Staffed
  <2> QED
      BY <2>1, <2>2, <2>3, <2>4, <2>5
<1> QED
    BY <1>6, <1>7, <1>8

LEMMA IdleWorkerPreserves ==
    ASSUME IInv, NEW w \in Worker,
           CreateWorker(w) \/ Exit(w) \/ Wait(w) \/ SpuriousWakeup(w)
    PROVE  IInv'
<1>1. UNCHANGED <<queue, active, entry, result, done, started, stopping, finished>>
      BY DEF CreateWorker, Exit, Wait, SpuriousWakeup
<1>2. /\ pc[w] \in {"absent", "lock", "wait"}
      /\ pc' \in [Worker -> {"absent", "lock", "wait", "execute", "release",
                             "exited"}]
      /\ pc'[w] \in {"lock", "wait", "exited"}
      /\ \A v \in Worker \ {w} : pc'[v] = pc[v]
      BY DEF TypeOK, CreateWorker, Exit, Wait, SpuriousWakeup
<1>3. owner' \in {"open", "starting", "serving", "joining", "closed"}
      BY DEF TypeOK, CreateWorker, Exit, Wait, SpuriousWakeup
<1>4. TypeOK'
      BY <1>1, <1>2, <1>3 DEF TypeOK
<1>5. KeyExclusion' /\ ActiveIsHeld' /\ Accounted'
      BY <1>1, <1>2, IdleMoves
<1>6. Staffed'
  <2>1. CASE CreateWorker(w)
        BY <2>1, <1>1, <1>2 DEF CreateWorker, Staffed
  <2>2. CASE Exit(w)
        BY <2>2, <1>1, <1>2 DEF Exit, Staffed
  <2>3. CASE Wait(w) \/ SpuriousWakeup(w)
        BY <2>3, <1>1, <1>2 DEF Wait, SpuriousWakeup, Staffed
  <2> QED
      BY <2>1, <2>2, <2>3
<1> QED
    BY <1>4, <1>5, <1>6

LEMMA SubmitPreserves ==
    ASSUME IInv, NEW x \in Work, Submit(x)
    PROVE  IInv'
<1>1. UNCHANGED <<active, entry, done, started, stopping, finished, owner>>
      BY DEF Submit
<1>2. CASE /\ ~stopping /\ ~Full
           /\ queue' = Append(queue, x)
           /\ result' = [result EXCEPT ![x] = "ok"]
           /\ pc' = Broadcast(pc)
  <2>1. /\ queue' \in Seq(Work) /\ Len(queue') = Len(queue) + 1
        /\ \A i \in 1 .. Len(queue) : queue'[i] = queue[i]
        /\ queue'[Len(queue) + 1] = x
        BY <1>2, AppendProperties DEF TypeOK
  <2>2. /\ DOMAIN queue = 1 .. Len(queue) /\ Len(queue) \in Nat
        /\ DOMAIN queue' = 1 .. Len(queue) + 1
        BY <2>1, LenProperties DEF TypeOK
  <2>3. /\ pc' \in [Worker -> {"absent", "lock", "wait", "execute", "release",
                               "exited"}]
        /\ \A w \in Worker, p \in {"absent", "execute", "release", "exited"} :
              pc'[w] = p <=> pc[w] = p
        BY <1>2, BroadcastProperties DEF TypeOK
  <2>4. TypeOK'
    <3>1. Len(queue') <= QueueCapacity
      <4>1. Len(queue) # QueueCapacity /\ Len(queue) <= QueueCapacity
            BY <1>2 DEF Full, TypeOK
      <4>2. QueueCapacity \in Nat
            BY ConstantsAssumption
      <4>3. Len(queue') = Len(queue) + 1 /\ Len(queue) \in Nat
            BY <2>1, <2>2
      <4> QED
          BY <4>1, <4>2, <4>3
    <3>2. result' \in [Work -> {"none", "ok", "bounds", "state"}]
          BY <1>2 DEF TypeOK
    <3> QED
        BY <1>1, <2>1, <2>3, <3>1, <3>2 DEF TypeOK
  <2>5. KeyExclusion' /\ ActiveIsHeld'
    <3>1. \A w \in Worker : Busy(w)' <=> Busy(w)
          BY <2>3 DEF Busy
    <3>2. {v \in Worker : Busy(v)'} = {v \in Worker : Busy(v)}
          BY <3>1
    <3> QED
        BY <1>1, <3>1, <3>2 DEF KeyExclusion, ActiveIsHeld
  <2>6. Accounted'
    <3> SUFFICES ASSUME NEW y \in Work, result'[y] = "ok"
                 PROVE  \/ \E i \in DOMAIN queue' : queue'[i] = y
                        \/ \E w \in Worker : pc'[w] = "execute" /\ entry'[w] = y
                        \/ y \in done'
        BY DEF Accounted
    <3>1. CASE y = x
          BY <3>1, <2>1, <2>2
    <3>2. CASE y # x
      <4>1. result[y] = "ok"
            BY <3>2, <1>2 DEF TypeOK
      <4>2. CASE \E i \in DOMAIN queue : queue[i] = y
            BY <4>2, <2>1, <2>2
      <4>3. CASE \E w \in Worker : pc[w] = "execute" /\ entry[w] = y
            BY <4>3, <1>1, <2>3
      <4>4. CASE y \in done
            BY <4>4, <1>1
      <4> QED
          BY <4>1, <4>2, <4>3, <4>4 DEF Accounted
    <3> QED
        BY <3>1, <3>2
  <2>7. Staffed'
        BY <1>1, <1>2, <2>3 DEF Staffed, Submit
  <2> QED
      BY <2>4, <2>5, <2>6, <2>7
<1>3. CASE /\ stopping \/ Full
           /\ result' = [result EXCEPT ![x] = IF Full THEN "bounds" ELSE "state"]
           /\ UNCHANGED <<queue, pc>>
  <2>1. TypeOK'
        BY <1>1, <1>3 DEF TypeOK
  <2>2. KeyExclusion' /\ ActiveIsHeld'
        BY <1>1, <1>3 DEF KeyExclusion, ActiveIsHeld, Busy
  <2>3. \A y \in Work : result'[y] = "ok" => result[y] = "ok"
        BY <1>3 DEF TypeOK
  <2>4. Accounted'
        BY <1>1, <1>3, <2>3 DEF Accounted
  <2>5. Staffed'
        BY <1>1, <1>3 DEF Staffed
  <2> QED
      BY <2>1, <2>2, <2>4, <2>5
<1> QED
    BY <1>2, <1>3 DEF Submit

LEMMA SelectPreserves ==
    ASSUME IInv, NEW w \in Worker, Select(w)
    PROVE  IInv'
<1>1. UNCHANGED <<started, stopping, finished, owner, result, done>>
      BY DEF Select
<1>2. PICK i \in DOMAIN queue :
          /\ First(i)
          /\ entry' = [entry EXCEPT ![w] = queue[i]]
          /\ active' = active \cup {KeyOf[queue[i]]}
          /\ queue' = Shift(queue, i)
      BY Zenon DEF Select
<1>3. /\ pc[w] = "lock" /\ pc' = [pc EXCEPT ![w] = "execute"]
      /\ pc'[w] = "execute" /\ \A v \in Worker \ {w} : pc'[v] = pc[v]
      BY DEF Select, TypeOK
<1>4. queue[i] \in Work /\ queue[i] # NoWork
      BY ElementOfSeq, LenProperties, ConstantsAssumption DEF TypeOK
<1>5. KeyOf[queue[i]] \in Key /\ KeyOf[queue[i]] \notin active
      BY <1>2, <1>4, ConstantsAssumption DEF First, Selectable
<1>6. entry'[w] = queue[i] /\ \A v \in Worker \ {w} : entry'[v] = entry[v]
      BY <1>2 DEF TypeOK
<1>7. /\ queue' \in Seq(Work) /\ Len(queue') = Len(queue) - 1
      /\ \A j \in DOMAIN queue \ {i} : \E k \in DOMAIN queue' : queue'[k] = queue[j]
      BY <1>2, ShiftProperties DEF TypeOK
<1>8. ~Busy(w) /\ Busy(w)' /\ \A v \in Worker \ {w} : Busy(v)' <=> Busy(v)
      BY <1>3 DEF Busy
<1>9. TypeOK'
  <2>1. Len(queue') <= QueueCapacity
        BY <1>7, LenProperties, ConstantsAssumption DEF TypeOK
  <2>2. active' \subseteq Key
        BY <1>2, <1>5 DEF TypeOK
  <2>3. entry' \in [Worker -> Work \cup {NoWork}]
        BY <1>2, <1>4 DEF TypeOK
  <2>4. pc' \in [Worker -> {"absent", "lock", "wait", "execute", "release",
                            "exited"}]
        BY <1>3 DEF TypeOK
  <2> QED
      BY <1>1, <1>7, <2>1, <2>2, <2>3, <2>4 DEF TypeOK
<1>10. KeyExclusion'
  <2> SUFFICES ASSUME NEW u \in Worker, NEW v \in Worker,
                      u # v, Busy(u)', Busy(v)'
               PROVE  KeyOf[entry'[u]] # KeyOf[entry'[v]]
      BY DEF KeyExclusion
  <2>1. \A z \in Worker \ {w} : Busy(z) => KeyOf[entry[z]] \in active
        BY DEF ActiveIsHeld
  <2>2. CASE u = w
        BY <2>1, <2>2, <1>5, <1>6, <1>8
  <2>3. CASE v = w
        BY <2>1, <2>3, <1>5, <1>6, <1>8
  <2>4. CASE u # w /\ v # w
        BY <2>4, <1>6, <1>8 DEF KeyExclusion
  <2> QED
      BY <2>2, <2>3, <2>4
<1>11. ActiveIsHeld'
  <2>1. \A v \in Worker : Busy(v)' <=> entry'[v] # NoWork
        BY <1>4, <1>6, <1>8 DEF ActiveIsHeld
  <2>2. {v \in Worker : Busy(v)'} = {v \in Worker : Busy(v)} \cup {w}
        BY <1>8
  <2>3. {KeyOf[entry'[v]] : v \in {u \in Worker : Busy(u)'}}
        = {KeyOf[entry[v]] : v \in {u \in Worker : Busy(u)}} \cup {KeyOf[queue[i]]}
        BY <2>2, <1>6, <1>8
  <2> QED
      BY <2>1, <2>3, <1>2 DEF ActiveIsHeld
<1>12. Accounted'
  <2> SUFFICES ASSUME NEW x \in Work, result'[x] = "ok"
               PROVE  \/ \E j \in DOMAIN queue' : queue'[j] = x
                      \/ \E v \in Worker : pc'[v] = "execute" /\ entry'[v] = x
                      \/ x \in done'
      BY DEF Accounted
  <2>1. CASE \E j \in DOMAIN queue : queue[j] = x
        BY <2>1, <1>3, <1>6, <1>7
  <2>2. CASE \E v \in Worker : pc[v] = "execute" /\ entry[v] = x
        BY <2>2, <1>3, <1>6
  <2>3. CASE x \in done
        BY <2>3, <1>1
  <2> QED
      BY <1>1, <2>1, <2>2, <2>3 DEF Accounted
<1>13. Staffed'
  <2>1. queue # << >>
        BY LenProperties, EmptySeq DEF TypeOK
  <2>2. /\ owner \notin {"open", "starting", "closed"}
        /\ \A v \in Worker : pc[v] \notin {"absent", "exited"}
        BY <2>1, <1>3 DEF Staffed
  <2> QED
      BY <1>1, <1>3, <2>2 DEF Staffed
<1> QED
    BY <1>9, <1>10, <1>11, <1>12, <1>13

LEMMA ExecutePreserves ==
    ASSUME IInv, NEW w \in Worker, Execute(w)
    PROVE  IInv'
<1>1. UNCHANGED <<queue, active, started, stopping, finished, owner, entry, result>>
      BY DEF Execute
<1>2. /\ pc[w] = "execute" /\ pc' = [pc EXCEPT ![w] = "release"]
      /\ pc'[w] = "release" /\ \A v \in Worker \ {w} : pc'[v] = pc[v]
      /\ done' = done \cup {entry[w]}
      BY DEF Execute, TypeOK
<1>3. \A v \in Worker : Busy(v)' <=> Busy(v)
      BY <1>2 DEF Busy
<1>4. TypeOK'
  <2>1. entry[w] \in Work
        BY <1>2 DEF ActiveIsHeld, Busy, TypeOK
  <2>2. pc' \in [Worker -> {"absent", "lock", "wait", "execute", "release",
                            "exited"}]
        BY <1>2 DEF TypeOK
  <2> QED
      BY <1>1, <1>2, <2>1, <2>2 DEF TypeOK
<1>5. KeyExclusion'
      BY <1>1, <1>3 DEF KeyExclusion
<1>6. ActiveIsHeld'
  <2>1. {v \in Worker : Busy(v)'} = {v \in Worker : Busy(v)}
        BY <1>3
  <2> QED
      BY <1>1, <1>3, <2>1 DEF ActiveIsHeld
<1>7. Accounted'
      BY <1>1, <1>2 DEF Accounted
<1>8. Staffed'
      BY <1>1, <1>2 DEF Staffed
<1> QED
    BY <1>4, <1>5, <1>6, <1>7, <1>8

LEMMA ReleasePreserves ==
    ASSUME IInv, NEW w \in Worker, Release(w)
    PROVE  IInv'
<1>1. UNCHANGED <<queue, started, stopping, finished, owner, result, done>>
      BY DEF Release
<1> DEFINE moved == [pc EXCEPT ![w] = "lock"]
<1>2. pc[w] = "release" /\ pc' = Broadcast(moved)
      BY DEF Release
<1>3. moved \in [Worker -> {"absent", "lock", "wait", "execute", "release",
                            "exited"}]
      BY DEF TypeOK
<1>4. /\ pc' \in [Worker -> {"absent", "lock", "wait", "execute", "release",
                             "exited"}]
      /\ \A v \in Worker, p \in {"absent", "execute", "release", "exited"} :
            pc'[v] = p <=> moved[v] = p
  <2> HIDE DEF moved
  <2> QED
      BY <1>2, <1>3, BroadcastProperties
<1>5. /\ pc'[w] \notin {"absent", "execute", "release", "exited"}
      /\ \A v \in Worker \ {w}, p \in {"absent", "execute", "release", "exited"} :
            pc'[v] = p <=> pc[v] = p
      BY <1>4 DEF TypeOK
<1>6. Busy(w) /\ ~Busy(w)' /\ \A v \in Worker \ {w} : Busy(v)' <=> Busy(v)
      BY <1>2, <1>5, Zenon DEF Busy
<1>7. /\ active' = active \ {KeyOf[entry[w]]}
      /\ entry' = [entry EXCEPT ![w] = NoWork]
      /\ entry'[w] = NoWork /\ \A v \in Worker \ {w} : entry'[v] = entry[v]
      BY DEF Release, TypeOK
<1>8. TypeOK'
  <2>1. active' \subseteq Key
        BY <1>7 DEF TypeOK
  <2>2. entry' \in [Worker -> Work \cup {NoWork}]
        BY <1>7 DEF TypeOK
  <2> QED
      BY <1>1, <1>4, <2>1, <2>2 DEF TypeOK
<1>9. KeyExclusion'
      BY <1>6, <1>7 DEF KeyExclusion
<1>10. ActiveIsHeld'
  <2>1. \A v \in Worker : Busy(v)' <=> entry'[v] # NoWork
        BY <1>6, <1>7 DEF ActiveIsHeld
  <2>2. {v \in Worker : Busy(v)'} = {v \in Worker : Busy(v)} \ {w}
        BY <1>6
  <2>3. {KeyOf[entry'[v]] : v \in {u \in Worker : Busy(u)'}}
        = {KeyOf[entry[v]] : v \in {u \in Worker : Busy(u)} \ {w}}
        BY <2>2, <1>7
  <2>4. {KeyOf[entry[v]] : v \in {u \in Worker : Busy(u)} \ {w}}
        = {KeyOf[entry[v]] : v \in {u \in Worker : Busy(u)}} \ {KeyOf[entry[w]]}
        BY <1>6 DEF KeyExclusion
  <2> QED
      BY <2>1, <2>3, <2>4, <1>7, Zenon DEF ActiveIsHeld
<1>11. Accounted'
  <2> SUFFICES ASSUME NEW x \in Work, result'[x] = "ok"
               PROVE  \/ \E j \in DOMAIN queue' : queue'[j] = x
                      \/ \E v \in Worker : pc'[v] = "execute" /\ entry'[v] = x
                      \/ x \in done'
      BY DEF Accounted
  <2>1. CASE \E v \in Worker : pc[v] = "execute" /\ entry[v] = x
        BY <2>1, <1>2, <1>5, <1>7, ZenonT(30)
  <2>2. CASE (\E j \in DOMAIN queue : queue[j] = x) \/ x \in done
        BY <2>2, <1>1
  <2> QED
      BY <1>1, <2>1, <2>2, ZenonT(30) DEF Accounted
<1>12. Staffed'
  <2>1. owner # "closed"
        BY <1>2 DEF Staffed
  <2> QED
      BY <1>1, <1>5, <2>1 DEF Staffed
<1> QED
    BY <1>8, <1>9, <1>10, <1>11, <1>12

LEMMA StepPreserves == IInv /\ [Next]_vars => IInv'
<1> SUFFICES ASSUME IInv, [Next]_vars PROVE IInv'
    OBVIOUS
<1>1. CASE UNCHANGED vars
      BY <1>1 DEF vars, TypeOK, KeyExclusion, ActiveIsHeld, Accounted, Staffed,
                  Busy
<1>2. CASE Next
  <2>1. CASE Start \/ CreateFails \/ Finish \/ Join \/ RequestStop
        BY <2>1, OwnerPreserves
  <2>2. CASE Closed
        BY <2>2, <1>1 DEF Closed
  <2>3. ASSUME NEW x \in Work, Submit(x)
        PROVE  IInv'
        BY <2>3, SubmitPreserves
  <2>4. ASSUME NEW w \in Worker,
               CreateWorker(w) \/ WorkerStep(w) \/ SpuriousWakeup(w)
        PROVE  IInv'
        BY <2>4, IdleWorkerPreserves, SelectPreserves, ExecutePreserves,
           ReleasePreserves DEF WorkerStep
  <2> QED
      BY <1>2, <2>1, <2>2, <2>3, <2>4 DEF Next
<1> QED
    BY <1>1, <1>2
-----------------------------------------------------------------------------
\* The inductive invariant of every behaviour of the queue.
THEOREM Invariance == Spec => []IInv
BY InitEstablishes, StepPreserves, PTL DEF Spec

\* Type correctness: the queue array never holds more than queue_capacity
\* entries.
THEOREM TypeCorrect == Spec => []TypeOK
<1>1. IInv => TypeOK
      OBVIOUS
<1> QED
    BY <1>1, Invariance, PTL

\* Two workers never execute operations of the same key at once, for every
\* number of workers, keys and operations.
THEOREM KeysExclude == Spec => []KeyExclusion
<1>1. IInv => KeyExclusion
      OBVIOUS
<1> QED
    BY <1>1, Invariance, PTL

\* A closed queue has no worker left and has finished everything it accepted.
THEOREM ClosedMeansDrained == Spec => []ClosedDrained
<1>1. IInv => ClosedDrained
  <2> SUFFICES ASSUME IInv, owner = "closed" PROVE
          /\ \A w \in Worker : pc[w] \in {"absent", "exited"}
          /\ \A x \in Work : result[x] = "ok" => x \in done
      BY DEF ClosedDrained
  <2>1. \A w \in Worker : pc[w] \in {"absent", "exited"}
        BY DEF Staffed
  <2>2. queue = << >>
    <3>1. PICK w \in Worker : TRUE
          BY ConstantsAssumption
    <3> QED
        BY <2>1, <3>1 DEF Staffed
  <2>3. DOMAIN queue = {}
        BY <2>2
  <2> QED
      BY <2>1, <2>3 DEF Accounted
<1> QED
    BY <1>1, Invariance, PTL

-----------------------------------------------------------------------------
(***************************************************************************)
(* HostWork.                                                               *)
(***************************************************************************)

LEMMA HostStepIsQueueStep == [HostNext]_hvars => [Next]_vars
<1> SUFFICES ASSUME [HostNext]_hvars PROVE [Next]_vars
    OBVIOUS
<1>1. CASE UNCHANGED hvars
      BY <1>1 DEF hvars
<1>2. CASE QueueStep(Start) \/ QueueStep(CreateFails) \/ QueueStep(Join) \/ HostClosed
      BY <1>2 DEF QueueStep, HostClosed, Next
<1>3. CASE StopBegin \/ StopFlag \/ CancelAll \/ ManagerClose \/ EngineClose
      BY <1>3 DEF StopBegin, StopFlag, CancelAll, ManagerClose, EngineClose,
                  StopQueue, QueueStep, Next
<1>4. ASSUME NEW w \in Worker,
             \/ QueueStep(CreateWorker(w)) \/ QueueWorker(w)
             \/ QueueStep(SpuriousWakeup(w))
      PROVE  [Next]_vars
      BY <1>4, ZenonT(30) DEF QueueStep, QueueWorker, Next, WorkerStep
<1>5. ASSUME NEW w \in Worker, Callback(w) PROVE [Next]_vars
      BY <1>5, Zenon DEF Callback, CallbackBegin, NoTurn, TurnBegin, TurnEnd,
                  ReleaseLease, ItemDone, Next, WorkerStep
<1>6. ASSUME NEW x \in Work, Acquire(x) \/ ClientStep(x) \/ PeerLeaves(x)
      PROVE  [Next]_vars
      BY <1>6 DEF Acquire, ClientStep, PeerLeaves, PrepareFails, SubmitItem, Peek,
                  ReadLease, SessionsCancel, Collect, Reply, Next
<1>7. ASSUME NEW k \in Key, GenerationCancel(k) PROVE [Next]_vars
      BY <1>7 DEF GenerationCancel
<1> QED
    BY <1>1, <1>2, <1>3, <1>4, <1>5, <1>6, <1>7 DEF HostNext

\* The host uses the queue as RequestQueue allows: every behaviour of the
\* client threads, callbacks, stop and close is a behaviour of the queue.
THEOREM HostImplementsQueue == HostSpec => Spec
<1>1. HostInit => Init
      BY DEF HostInit
<1> QED
    BY <1>1, HostStepIsQueueStep, PTL DEF HostSpec, Spec

\* The queue's inductive invariant, inside the host.
LEMMA HostQueueInvariance == HostSpec => []IInv
BY HostImplementsQueue, Invariance, PTL
-----------------------------------------------------------------------------
(***************************************************************************)
(* Leases and turns.  The lease of an accepted item is there until its     *)
(* callback releases it, the engine serves as long as a lease is there,    *)
(* and an active turn belongs to an item that some worker executes.        *)
(***************************************************************************)
Typed ==
    /\ lease \subseteq Work
    /\ client \in [Work -> {"idle", "leased", "wait", "peeked", "cancelling",
                            "reply", "left"}]
    /\ stage \in [Work -> {"none", "admitted", "turn", "ended", "released"}]
    /\ turn \in [Key -> Work \cup {NoWork}]

Accepted ==
    /\ \A x \in Work : client[x] \in {"idle", "leased"} => result[x] = "none"
    /\ \A i \in DOMAIN queue : result[queue[i]] = "ok"
    /\ \A w \in Worker : pc[w] = "execute" => result[entry[w]] = "ok"

Leases ==
    /\ \A x \in Work : client[x] = "leased" => x \in lease
    /\ \A x \in Work : result[x] = "ok" /\ stage[x] # "released" => x \in lease
    /\ lease # {} => owner = "serving"

Turns ==
    \A k \in Key : turn[k] # NoWork =>
        /\ KeyOf[turn[k]] = k /\ stage[turn[k]] = "turn"
        /\ result[turn[k]] = "ok"
        /\ \E w \in Worker : pc[w] = "execute" /\ entry[w] = turn[k]

HInv == Typed /\ Accepted /\ Leases /\ Turns

LEMMA HostInitEstablishes == HostInit => HInv
<1> SUFFICES ASSUME HostInit PROVE HInv
    OBVIOUS
<1>1. Typed
      BY DEF HostInit, Typed
<1>2. Accepted
      BY DEF HostInit, Init, Accepted
<1>3. Leases
      BY DEF HostInit, Init, Leases
<1>4. Turns
      BY DEF HostInit, Turns
<1> QED
    BY <1>1, <1>2, <1>3, <1>4 DEF HInv

\* Steps of the owner and of idle threads: who executes what, what is queued
\* and what submit returned stay as they are.
LEMMA QuietPreserves ==
    ASSUME HInv, UNCHANGED <<queue, entry, result>>,
           UNCHANGED <<lease, client, stage, turn>>,
           \A w \in Worker : pc'[w] = "execute" <=> pc[w] = "execute",
           lease # {} => owner' = "serving"
    PROVE  HInv'
<1>1. Typed'
      BY DEF HInv, Typed
<1>2. Accepted'
      BY DEF HInv, Accepted
<1>3. Leases'
      BY DEF HInv, Leases
<1>4. Turns'
      BY DEF HInv, Turns
<1> QED
    BY <1>1, <1>2, <1>3, <1>4 DEF HInv

\* The actions of the queue, without a submit and without a callback.
LEMMA QueuePreserves ==
    ASSUME IInv, HInv, UNCHANGED <<lease, client, stage, turn>>,
           \/ Start \/ CreateFails \/ Join \/ RequestStop \/ Closed
           \/ Finish /\ lease = {}
           \/ \E w \in Worker : \/ CreateWorker(w) \/ SpuriousWakeup(w)
                                \/ Exit(w) \/ Wait(w)
    PROVE  HInv'
<1>1. lease # {} => owner = "serving"
      BY DEF HInv, Leases
<1>2. pc \in [Worker -> {"absent", "lock", "wait", "execute", "release",
                         "exited"}]
      BY DEF IInv, TypeOK
<1>3. CASE Start \/ CreateFails \/ Join \/ RequestStop \/ Closed
           \/ (Finish /\ lease = {})
  <2>1. UNCHANGED <<queue, entry, result>>
        BY <1>3 DEF Start, CreateFails, Join, RequestStop, Closed, Finish, vars
  <2>2. \A w \in Worker : pc'[w] = "execute" <=> pc[w] = "execute"
        BY <1>3, <1>2, BroadcastProperties
           DEF Start, CreateFails, Join, RequestStop, Closed, Finish, vars
  <2>3. lease # {} => owner' = "serving"
        BY <1>3, <1>1, ZenonT(30) DEF Start, CreateFails, Join, RequestStop, Closed, Finish, vars
  <2> QED
      BY <2>1, <2>2, <2>3, QuietPreserves, ZenonT(30)
<1>4. ASSUME NEW w \in Worker,
             CreateWorker(w) \/ SpuriousWakeup(w) \/ Exit(w) \/ Wait(w)
      PROVE  HInv'
  <2>1. UNCHANGED <<queue, entry, result>>
        BY <1>4 DEF CreateWorker, SpuriousWakeup, Exit, Wait
  <2>2. \A v \in Worker : pc'[v] = "execute" <=> pc[v] = "execute"
        BY <1>4, <1>2 DEF CreateWorker, SpuriousWakeup, Exit, Wait
  <2>3. lease # {} => owner' = "serving"
        BY <1>4, <1>1 DEF CreateWorker, SpuriousWakeup, Exit, Wait
  <2> QED
      BY <2>1, <2>2, <2>3, QuietPreserves, ZenonT(30)
<1> QED
    BY <1>3, <1>4

\* A worker takes an accepted item out of the queue.
LEMMA SelectKeepsLeases ==
    ASSUME IInv, HInv, UNCHANGED <<lease, client, stage, turn>>,
           NEW w \in Worker, Select(w)
    PROVE  HInv'
<1>1. PICK i \in DOMAIN queue : /\ entry' = [entry EXCEPT ![w] = queue[i]]
                                /\ queue' = Shift(queue, i)
      BY Zenon DEF Select
<1>2. /\ pc[w] = "lock" /\ pc' = [pc EXCEPT ![w] = "execute"]
      /\ UNCHANGED <<owner, result>>
      BY DEF Select
<1>3. /\ queue \in Seq(Work)
      /\ entry \in [Worker -> Work \cup {NoWork}]
      /\ pc \in [Worker -> {"absent", "lock", "wait", "execute", "release",
                            "exited"}]
      BY DEF IInv, TypeOK
<1>4. \A j \in DOMAIN queue' : result[queue'[j]] = "ok"
  <2> DEFINE ok == {x \in Work : result[x] = "ok"}
  <2>1. /\ queue \in [1 .. Len(queue) -> Work] /\ Len(queue) \in Nat
        /\ DOMAIN queue = 1 .. Len(queue)
        BY <1>3, LenProperties
  <2>2. queue \in [1 .. Len(queue) -> ok]
        BY <2>1 DEF HInv, Accepted
  <2> HIDE DEF ok
  <2>3. queue \in Seq(ok)
        BY <2>1, <2>2, SeqDef
  <2>4. queue' \in Seq(ok)
        BY <2>3, <1>1, ShiftProperties
  <2>5. \A j \in DOMAIN queue' : queue'[j] \in ok
        BY <2>4, ElementOfSeq, LenProperties
  <2> QED
      BY <2>5 DEF ok
<1>5. Typed' /\ Leases'
      BY <1>2 DEF HInv, Typed, Leases
<1>6. Accepted'
  <2>1. \A j \in DOMAIN queue' : result'[queue'[j]] = "ok"
        BY <1>4, <1>2, ZenonT(30)
  <2>2. \A v \in Worker : pc'[v] = "execute" => result'[entry'[v]] = "ok"
        BY <1>1, <1>2, <1>3 DEF HInv, Accepted
  <2> QED
      BY <2>1, <2>2, <1>2 DEF HInv, Accepted
<1>7. Turns'
  <2> SUFFICES ASSUME NEW k \in Key, turn[k] # NoWork
               PROVE  /\ KeyOf[turn[k]] = k /\ stage[turn[k]] = "turn"
                      /\ result'[turn[k]] = "ok"
                      /\ \E v \in Worker : pc'[v] = "execute" /\ entry'[v] = turn[k]
      BY DEF Turns
  <2>1. PICK v \in Worker : pc[v] = "execute" /\ entry[v] = turn[k]
        BY DEF HInv, Turns
  <2>2. v # w
        BY <2>1, <1>2
  <2>3. pc'[v] = "execute" /\ entry'[v] = turn[k]
        BY <2>1, <2>2, <1>1, <1>2, <1>3
  <2> QED
      BY <2>3, <1>2 DEF HInv, Turns
<1> QED
    BY <1>5, <1>6, <1>7 DEF HInv

\* A worker gives its key back.
LEMMA ReleaseKeepsLeases ==
    ASSUME IInv, HInv, UNCHANGED <<lease, client, stage, turn>>,
           NEW w \in Worker, Release(w)
    PROVE  HInv'
<1> DEFINE moved == [pc EXCEPT ![w] = "lock"]
<1>1. /\ pc \in [Worker -> {"absent", "lock", "wait", "execute", "release",
                            "exited"}]
      /\ entry \in [Worker -> Work \cup {NoWork}]
      BY DEF IInv, TypeOK
<1>2. moved \in [Worker -> {"absent", "lock", "wait", "execute", "release",
                            "exited"}]
      BY <1>1
<1>3. pc[w] = "release" /\ pc' = Broadcast(moved)
      /\ entry' = [entry EXCEPT ![w] = NoWork] /\ UNCHANGED <<queue, owner, result>>
      BY DEF Release
<1>4. \A v \in Worker : Broadcast(moved)[v] = "execute" <=> moved[v] = "execute"
      BY <1>2, BroadcastProperties, Zenon
<1>5. \A v \in Worker : /\ pc'[v] = "execute" <=> pc[v] = "execute"
                        /\ pc[v] = "execute" => entry'[v] = entry[v]
      BY <1>1, <1>3, <1>4, Zenon
<1>6. Typed' /\ Leases'
      BY <1>3 DEF HInv, Typed, Leases
<1> HIDE DEF moved
<1>7. Accepted'
  <2>1. \A v \in Worker : pc'[v] = "execute" => result'[entry'[v]] = "ok"
    <3> SUFFICES ASSUME NEW v \in Worker, pc'[v] = "execute"
                 PROVE  result'[entry'[v]] = "ok"
        OBVIOUS
    <3>1. result' = result /\ entry'[v] = entry[v] /\ pc[v] = "execute"
          BY <1>3, <1>5
    <3>2. result[entry[v]] = "ok"
          BY <3>1 DEF HInv, Accepted
    <3> QED
        BY <3>1, <3>2
  <2>2. UNCHANGED <<client, result, queue>>
        BY <1>3
  <2> QED
      BY <2>1, <2>2 DEF HInv, Accepted
<1>8. Turns'
  <2> SUFFICES ASSUME NEW k \in Key, turn[k] # NoWork
               PROVE  /\ KeyOf[turn[k]] = k /\ stage[turn[k]] = "turn"
                      /\ result'[turn[k]] = "ok"
                      /\ \E v \in Worker : pc'[v] = "execute" /\ entry'[v] = turn[k]
      BY DEF Turns
  <2>1. PICK v \in Worker : pc[v] = "execute" /\ entry[v] = turn[k]
        BY DEF HInv, Turns
  <2>2. pc'[v] = "execute" /\ entry'[v] = turn[k]
        BY <2>1, <1>5
  <2>3. result' = result
        BY <1>3
  <2> QED
      BY <2>2, <2>3 DEF HInv, Turns
<1> QED
    BY <1>6, <1>7, <1>8 DEF HInv

\* request_enqueue: submit accepts the item, which keeps its lease, or refuses
\* it, and the lease is released.
LEMMA SubmitKeepsLeases ==
    ASSUME IInv, HInv, NEW x \in Work, SubmitItem(x)
    PROVE  HInv'
<1>1. /\ client[x] = "leased" /\ Submit(x) /\ UNCHANGED <<stage, turn>>
      /\ UNCHANGED <<entry, owner>>
      BY DEF SubmitItem, Submit, sessionVars
<1>2. /\ queue \in Seq(Work)
      /\ result \in [Work -> {"none", "ok", "bounds", "state"}]
      /\ pc \in [Worker -> {"absent", "lock", "wait", "execute", "release",
                            "exited"}]
      BY DEF IInv, TypeOK
<1>3. result[x] = "none" /\ \A y \in Work \ {x} : result'[y] = result[y]
      BY <1>1, <1>2 DEF Submit
<1>4. \A w \in Worker : pc'[w] = "execute" <=> pc[w] = "execute"
      BY <1>1, <1>2, BroadcastProperties DEF Submit
<1>5. \/ /\ result'[x] = "ok" /\ UNCHANGED lease
         /\ client' = [client EXCEPT ![x] = "wait"]
      \/ /\ result'[x] # "ok" /\ lease' = lease \ {x}
         /\ client' = [client EXCEPT ![x] = "reply"]
      BY DEF SubmitItem
<1>6. Typed'
      BY <1>1, <1>5 DEF HInv, Typed
<1>7. Leases'
  <2>1. x \in lease /\ owner = "serving"
        BY <1>1 DEF HInv, Leases
  <2>2. \A y \in Work \ {x} : /\ client'[y] = client[y]
                              /\ y \in lease' <=> y \in lease
        BY <1>5 DEF HInv, Typed
  <2>3. client'[x] # "leased" /\ (result'[x] = "ok" => x \in lease')
        BY <1>5, <2>1 DEF HInv, Typed
  <2>4. \A y \in Work : /\ client'[y] = "leased" => y \in lease'
                        /\ result'[y] = "ok" /\ stage[y] # "released"
                           => y \in lease'
    <3> TAKE y \in Work
    <3>1. CASE y = x
          BY <3>1, <2>3
    <3>2. CASE y # x
      <4>1. y \in Work \ {x}
            BY <3>2
      <4>2. client'[y] = client[y] /\ (y \in lease' <=> y \in lease)
            BY <4>1, <2>2
      <4>3. result'[y] = result[y]
            BY <4>1, <1>3
      <4> QED
          BY <4>2, <4>3 DEF HInv, Leases
    <3> QED
        BY <3>1, <3>2
  <2> QED
      BY <1>1, <2>1, <2>4 DEF Leases
<1>8. Accepted'
  <2>1. client'[x] \in {"wait", "reply"}
        /\ \A y \in Work \ {x} : client'[y] = client[y]
        BY <1>5 DEF HInv, Typed
  <2>2. \A w \in Worker : pc'[w] = "execute" => result'[entry'[w]] = "ok"
    <3> SUFFICES ASSUME NEW w \in Worker, pc'[w] = "execute"
                 PROVE  result'[entry[w]] = "ok"
        BY <1>1
    <3>1. result[entry[w]] = "ok" /\ entry[w] # x
          BY <1>3, <1>4 DEF HInv, Accepted
    <3>2. entry[w] \in Work
          BY <1>4 DEF IInv, TypeOK, ActiveIsHeld, Busy
    <3> QED
        BY <3>1, <3>2, <1>3
  <2>3. \A i \in DOMAIN queue : queue[i] \in Work /\ result'[queue[i]] = "ok"
    <3> SUFFICES ASSUME NEW i \in DOMAIN queue
                 PROVE  queue[i] \in Work /\ result'[queue[i]] = "ok"
        OBVIOUS
    <3>1. queue[i] \in Work
          BY <1>2, ElementOfSeq, LenProperties
    <3>2. result[queue[i]] = "ok"
          BY DEF HInv, Accepted
    <3> QED
        BY <3>1, <3>2, <1>3
  <2>4. \A i \in DOMAIN queue' : result'[queue'[i]] = "ok"
    <3>1. CASE queue' = Append(queue, x) /\ result'[x] = "ok"
          BY <3>1, <2>3, <1>2, AppendProperties, LenProperties
    <3>2. CASE queue' = queue
          BY <3>2, <2>3
    <3> QED
        BY <3>1, <3>2, <1>1, <1>2 DEF Submit
  <2> QED
      BY <2>1, <2>2, <2>4, <1>3 DEF HInv, Accepted
<1>9. Turns'
  <2> SUFFICES ASSUME NEW k \in Key, turn[k] # NoWork
               PROVE  /\ KeyOf[turn[k]] = k /\ stage[turn[k]] = "turn"
                      /\ result'[turn[k]] = "ok"
                      /\ \E w \in Worker : pc'[w] = "execute" /\ entry[w] = turn[k]
      BY <1>1 DEF Turns
  <2>1. turn[k] \in Work /\ turn[k] # x
        BY <1>3 DEF HInv, Typed, Turns
  <2> QED
      BY <2>1, <1>3, <1>4 DEF HInv, Turns
<1> QED
    BY <1>6, <1>7, <1>8, <1>9 DEF HInv

\* The other steps of a client thread, and a peer that leaves.
LEMMA ClientKeepsLeases ==
    ASSUME IInv, HInv, NEW x \in Work,
           \/ Acquire(x) \/ PrepareFails(x) \/ Peek(x) \/ ReadLease(x)
           \/ SessionsCancel(x) \/ Collect(x) \/ Reply(x) \/ PeerLeaves(x)
    PROVE  HInv'
<1>1. UNCHANGED <<queue, pc, entry, result, owner, stage, turn>>
      BY ZenonT(30) DEF Acquire, PrepareFails, Peek, ReadLease, SessionsCancel, Collect,
             Reply, PeerLeaves, vars, itemVars, sessionVars
<1>2. CASE Acquire(x)
  <2>1. \/ /\ owner = "serving" /\ lease' = lease \cup {x}
           /\ client' = [client EXCEPT ![x] = "leased"]
        \/ lease' = lease /\ client' = [client EXCEPT ![x] = "reply"]
        BY <1>2 DEF Acquire
  <2>2. client[x] = "idle" /\ result[x] = "none"
        BY <1>2 DEF Acquire, HInv, Accepted
  <2>3. Typed' /\ Leases'
        BY <1>1, <2>1, <2>2, ZenonT(30) DEF HInv, Typed, Leases
  <2>4. Accepted'
        BY <1>1, <2>1, <2>2, ZenonT(30) DEF HInv, Typed, Accepted
  <2> QED
      BY <1>1, <2>3, <2>4, ZenonT(30) DEF HInv, Turns
<1>3. CASE PrepareFails(x)
  <2>1. /\ client[x] = "leased" /\ lease' = lease \ {x}
        /\ client' = [client EXCEPT ![x] = "reply"]
        BY <1>3, ZenonT(30) DEF PrepareFails
  <2>2. result[x] = "none"
        BY <2>1, Zenon DEF HInv, Accepted
  <2>3. Typed' /\ Leases'
        BY <1>1, <2>1, <2>2, ZenonT(30) DEF HInv, Typed, Leases
  <2>4. Accepted'
        BY <1>1, <2>1, Zenon DEF HInv, Typed, Accepted
  <2> QED
      BY <1>1, <2>3, <2>4, ZenonT(30) DEF HInv, Turns
<1>4. CASE Peek(x) \/ ReadLease(x) \/ SessionsCancel(x) \/ Collect(x) \/ Reply(x)
           \/ PeerLeaves(x)
  <2>1. /\ lease' = lease
        /\ \/ client' = client
           \/ \E c \in {"wait", "peeked", "cancelling", "reply", "left"} :
                 client' = [client EXCEPT ![x] = c]
        BY <1>4, Zenon DEF Peek, ReadLease, SessionsCancel, Collect, Reply, PeerLeaves,
                    itemVars
  <2>2. Typed' /\ Leases'
        BY <1>1, <2>1, ZenonT(30) DEF HInv, Typed, Leases
  <2>3. Accepted'
        BY <1>1, <2>1, ZenonT(30) DEF HInv, Typed, Accepted
  <2> QED
      BY <1>1, <2>2, <2>3, ZenonT(30) DEF HInv, Turns
<1> QED
    BY <1>2, <1>3, <1>4, ZenonT(30)

\* The callback.
\* What the stages of a work item leave of the turns: the item has none, it
\* begins its turn, or it ends it.
LEMMA TurnElsewhere ==
    ASSUME Typed, Turns, UNCHANGED <<result, entry, pc, turn>>, NEW x, NEW t,
           stage[x] # "turn", stage' = [stage EXCEPT ![x] = t]
    PROVE  Turns'
<1> SUFFICES ASSUME NEW k \in Key, turn[k] # NoWork
             PROVE  /\ KeyOf[turn[k]] = k /\ stage'[turn[k]] = "turn"
                    /\ result[turn[k]] = "ok"
                    /\ \E w \in Worker : pc[w] = "execute" /\ entry[w] = turn[k]
    BY DEF Turns
<1>1. turn[k] \in Work /\ stage[turn[k]] = "turn"
      BY DEF Turns, Typed
<1>2. stage'[turn[k]] = "turn"
      BY <1>1 DEF Typed
<1> QED
    BY <1>2, Zenon DEF Turns

LEMMA TurnGiven ==
    ASSUME Typed, Turns, UNCHANGED <<result, entry, pc>>, NEW x \in Work,
           KeyOf[x] \in Key, stage' = [stage EXCEPT ![x] = "turn"],
           turn' = [turn EXCEPT ![KeyOf[x]] = x], result[x] = "ok",
           NEW w \in Worker, pc[w] = "execute", entry[w] = x
    PROVE  Turns'
<1>0. stage'[x] = "turn" /\ turn'[KeyOf[x]] = x
      BY DEF Typed
<1>1. ASSUME NEW k \in Key, k # KeyOf[x], turn[k] # NoWork
      PROVE  turn'[k] = turn[k] /\ stage'[turn[k]] = "turn"
  <2>1. turn[k] \in Work /\ stage[turn[k]] = "turn"
        BY <1>1 DEF Turns, Typed
  <2> QED
      BY <1>1, <2>1 DEF Typed
<1>2. \A k \in Key : k # KeyOf[x] => turn'[k] = turn[k]
      BY DEF Typed
<1> QED
    BY <1>0, <1>1, <1>2 DEF Turns

LEMMA TurnTaken ==
    ASSUME Typed, Turns, UNCHANGED <<result, entry, pc>>, NEW x, NEW t,
           stage' = [stage EXCEPT ![x] = t], KeyOf[x] \in Key,
           turn' = [turn EXCEPT ![KeyOf[x]] = NoWork]
    PROVE  Turns'
<1>0. turn'[KeyOf[x]] = NoWork /\ \A k \in Key : k # KeyOf[x] => turn'[k] = turn[k]
      BY DEF Typed
<1>1. ASSUME NEW k \in Key, k # KeyOf[x], turn[k] # NoWork
      PROVE  stage'[turn[k]] = "turn"
  <2>1. turn[k] \in Work /\ stage[turn[k]] = "turn" /\ turn[k] # x
        BY <1>1 DEF Turns, Typed
  <2> QED
      BY <2>1 DEF Typed
<1> QED
    BY <1>0, <1>1 DEF Turns

LEMMA CallbackKeepsLeases ==
    ASSUME IInv, HInv, NEW w \in Worker, Callback(w)
    PROVE  HInv'
<1> DEFINE x == entry[w]
<1>1. pc[w] = "execute" /\ UNCHANGED <<queue, entry, result, owner, client>>
      BY Zenon DEF Callback, CallbackBegin, NoTurn, TurnBegin, TurnEnd, ReleaseLease,
             ItemDone, Execute, Executing, vars, clientVars
<1>2. x \in Work /\ x # NoWork /\ result[x] = "ok" /\ KeyOf[x] \in Key
      BY <1>1, ConstantsAssumption
         DEF IInv, TypeOK, ActiveIsHeld, Busy, HInv, Accepted
<1>0. Typed /\ Turns /\ UNCHANGED <<result, entry>>
      BY <1>1, Zenon DEF HInv
<1>3. CASE CallbackBegin(w) \/ NoTurn(w)
  <2>1. /\ stage[x] \in {"none", "admitted"} /\ UNCHANGED <<pc, lease, turn>>
        /\ \E t \in {"admitted", "ended"} : stage' = [stage EXCEPT ![x] = t]
        BY <1>3, ZenonT(30) DEF CallbackBegin, NoTurn, Executing, vars, sessionVars
  <2>2. Typed' /\ Leases'
        BY <1>1, <1>2, <2>1, ZenonT(30) DEF HInv, Typed, Leases
  <2>a. stage[x] # "turn"
        BY <2>1
  <2>3. Turns'
        BY <1>0, <2>1, <2>a, TurnElsewhere, ZenonT(30)
  <2> QED
      BY <1>1, <2>1, <2>2, <2>3, ZenonT(30) DEF HInv, Accepted
<1>4. CASE TurnBegin(w)
  <2>1. /\ stage[x] = "admitted" /\ UNCHANGED <<pc, lease>>
        /\ stage' = [stage EXCEPT ![x] = "turn"]
        /\ turn' = [turn EXCEPT ![KeyOf[x]] = x]
        BY <1>4, ZenonT(30) DEF TurnBegin, Executing, vars
  <2>2. Typed' /\ Leases'
        BY <1>1, <1>2, <2>1, ZenonT(30) DEF HInv, Typed, Leases
  <2>3. Turns'
        BY <1>0, <1>1, <1>2, <2>1, TurnGiven, ZenonT(30)
  <2> QED
      BY <1>1, <2>1, <2>2, <2>3, ZenonT(30) DEF HInv, Accepted
<1>5. CASE TurnEnd(w)
  <2>1. /\ stage[x] = "turn" /\ UNCHANGED <<pc, lease>>
        /\ stage' = [stage EXCEPT ![x] = "ended"]
        /\ turn' = [turn EXCEPT ![KeyOf[x]] = NoWork]
        BY <1>5, ZenonT(30) DEF TurnEnd, Executing, vars
  <2>2. Typed' /\ Leases'
        BY <1>1, <1>2, <2>1, ZenonT(30) DEF HInv, Typed, Leases
  <2>3. Turns'
        BY <1>0, <1>2, <2>1, TurnTaken, ZenonT(30)
  <2> QED
      BY <1>1, <2>1, <2>2, <2>3, ZenonT(30) DEF HInv, Accepted
<1>6. CASE ReleaseLease(w)
  <2>1. /\ stage[x] = "ended" /\ UNCHANGED <<pc, turn>> /\ lease' = lease \ {x}
        /\ stage' = [stage EXCEPT ![x] = "released"]
        BY <1>6, Zenon DEF ReleaseLease, Executing, vars, sessionVars
  <2>2. client[x] # "leased"
        BY <1>2 DEF HInv, Accepted
  <2>3. Typed' /\ Leases'
        BY <1>1, <1>2, <2>1, <2>2, ZenonT(30) DEF HInv, Typed, Leases
  <2>a. stage[x] # "turn"
        BY <2>1
  <2>4. Turns'
        BY <1>0, <2>1, <2>a, TurnElsewhere, ZenonT(30)
  <2> QED
      BY <1>1, <2>1, <2>3, <2>4, ZenonT(30) DEF HInv, Accepted
<1>7. CASE ItemDone(w)
  <2>1. /\ stage[x] = "released" /\ UNCHANGED <<lease, stage, turn>>
        /\ pc' = [pc EXCEPT ![w] = "release"]
        BY <1>7 DEF ItemDone, Executing, Execute, itemVars, sessionVars
  <2>2. \A v \in Worker : pc'[v] = IF v = w THEN "release" ELSE pc[v]
        BY <2>1 DEF IInv, TypeOK
  <2>3. Turns'
    <3> SUFFICES ASSUME NEW k \in Key, turn[k] # NoWork
                 PROVE  \E v \in Worker : pc'[v] = "execute" /\ entry'[v] = turn[k]
        BY <1>1, <2>1 DEF HInv, Turns
    <3>1. PICK v \in Worker : pc[v] = "execute" /\ entry[v] = turn[k]
          BY ZenonT(30) DEF HInv, Turns
    <3>2. v # w
          BY <3>1, <2>1, SMTT(30) DEF HInv, Turns
    <3> QED
        BY <3>1, <3>2, <2>2, <1>1, ZenonT(30)
  <2>4. Accepted'
        BY <1>1, <2>2 DEF HInv, Accepted
  <2> QED
      BY <1>1, <2>1, <2>3, <2>4 DEF HInv, Typed, Leases
<1> QED
    BY <1>3, <1>4, <1>5, <1>6, <1>7 DEF Callback

LEMMA HostStepPreserves == IInv /\ HInv /\ [HostNext]_hvars => HInv'
<1> SUFFICES ASSUME IInv, HInv, [HostNext]_hvars PROVE HInv'
    OBVIOUS
<1>1. CASE UNCHANGED hvars
  <2>1. UNCHANGED <<queue, pc, entry, result, owner, lease, client, stage, turn>>
        BY <1>1 DEF hvars, vars, clientVars, itemVars, sessionVars
  <2> QED
      BY <2>1, QuietPreserves DEF HInv, Leases
<1>2. CASE QueueStep(Start) \/ QueueStep(CreateFails) \/ QueueStep(Join) \/ HostClosed
      BY <1>2, QueuePreserves
         DEF QueueStep, HostClosed, clientVars, itemVars, sessionVars
<1>3. CASE StopBegin \/ StopFlag
  <2>1. UNCHANGED <<queue, pc, entry, result, owner, lease, client, stage, turn>>
        BY <1>3 DEF StopBegin, StopFlag, vars, clientVars, itemVars, sessionVars
  <2> QED
      BY <2>1, QuietPreserves DEF HInv, Leases
<1>4. CASE CancelAll \/ ManagerClose
  <2>1. UNCHANGED <<lease, client, stage, turn>> /\ StopQueue
        BY <1>4 DEF CancelAll, ManagerClose, clientVars, itemVars
  <2>2. CASE RequestStop
        BY <2>1, <2>2, QueuePreserves, ZenonT(30)
  <2>3. CASE UNCHANGED vars
        BY <2>1, <2>3, QuietPreserves DEF HInv, Leases, vars
  <2> QED
      BY <2>1, <2>2, <2>3 DEF StopQueue
<1>5. CASE EngineClose
  <2>1. Finish /\ UNCHANGED <<lease, client, stage, turn>>
        BY <1>5 DEF EngineClose, QueueStep, clientVars, itemVars, sessionVars
  <2>2. lease = {}
        BY <1>5 DEF EngineClose, HInv, Leases
  <2> QED
      BY <2>1, <2>2, QueuePreserves
<1>6. ASSUME NEW w \in Worker,
             \/ QueueStep(CreateWorker(w)) \/ QueueStep(SpuriousWakeup(w))
             \/ QueueWorker(w)
      PROVE  HInv'
  <2>1. /\ UNCHANGED <<lease, client, stage, turn>>
        /\ \/ CreateWorker(w) \/ SpuriousWakeup(w) \/ Exit(w) \/ Wait(w)
           \/ Select(w) \/ Release(w)
        BY <1>6 DEF QueueWorker, QueueStep, clientVars, itemVars, sessionVars
  <2> QED
      BY <2>1, QueuePreserves, SelectKeepsLeases, ReleaseKeepsLeases
<1>7. ASSUME NEW w \in Worker, Callback(w) PROVE HInv'
      BY <1>7, CallbackKeepsLeases
<1>8. ASSUME NEW x \in Work, Acquire(x) \/ ClientStep(x) \/ PeerLeaves(x)
      PROVE  HInv'
      BY <1>8, ClientKeepsLeases, SubmitKeepsLeases, ZenonT(30) DEF ClientStep
<1>9. ASSUME NEW k \in Key, GenerationCancel(k) PROVE HInv'
  <2>1. UNCHANGED <<queue, pc, entry, result, owner, lease, client, stage, turn>>
        BY <1>9 DEF GenerationCancel, vars, clientVars, itemVars
  <2> QED
      BY <2>1, QuietPreserves DEF HInv, Leases
<1> QED
    BY <1>1, <1>2, <1>3, <1>4, <1>5, <1>6, <1>7, <1>8, <1>9 DEF HostNext

\* The inductive invariant of leases and turns, on top of the queue's.
THEOREM HostInvariance == HostSpec => []HInv
BY HostInitEstablishes, HostStepPreserves, HostQueueInvariance, PTL DEF HostSpec

\* An active turn has its lease and a serving engine: engine_close, which
\* waits for the leases, never closes the sessions under a turn.
THEOREM TurnsAreLeased == HostSpec => []TurnLeased
<1>1. HInv => TurnLeased
  <2> SUFFICES ASSUME HInv, NEW k \in Key, turn[k] # NoWork
               PROVE  turn[k] \in lease /\ owner = "serving"
      BY DEF TurnLeased
  <2>1. turn[k] \in Work /\ stage[turn[k]] = "turn" /\ result[turn[k]] = "ok"
        BY DEF HInv, Typed, Turns
  <2> QED
      BY <2>1 DEF HInv, Leases
<1> QED
    BY <1>1, HostInvariance, PTL

\* A session never begins a turn while another of its turns is active: the
\* keys of the queue do what session_turn does not test.
THEOREM TurnsExclude == HostSpec => OneTurn
<1> DEFINE Kept == \A k \in Key : turn[k] # NoWork => turn'[k] \in {turn[k], NoWork}
<1>1. IInv /\ HInv /\ [HostNext]_hvars => Kept
  <2> SUFFICES ASSUME IInv, HInv, [HostNext]_hvars PROVE Kept
      OBVIOUS
  <2>1. CASE turn' = turn
        BY <2>1, ZenonT(30)
  <2>2. ASSUME NEW w \in Worker, TurnEnd(w) PROVE Kept
        BY <2>2 DEF TurnEnd, HInv, Typed
  <2>3. ASSUME NEW w \in Worker, TurnBegin(w) PROVE Kept
    <3>1. /\ pc[w] = "execute" /\ stage[entry[w]] = "admitted"
          /\ turn' = [turn EXCEPT ![KeyOf[entry[w]]] = entry[w]]
          BY <2>3, ZenonT(30) DEF TurnBegin, Executing
    <3>2. \A k \in Key : k # KeyOf[entry[w]] => turn'[k] = turn[k]
          BY <3>1, ZenonT(30) DEF HInv, Typed
    <3>3. ASSUME KeyOf[entry[w]] \in Key, turn[KeyOf[entry[w]]] # NoWork
          PROVE  FALSE
      <4>1. PICK v \in Worker : /\ pc[v] = "execute"
                                /\ entry[v] = turn[KeyOf[entry[w]]]
            BY <3>3 DEF HInv, Turns
      <4>2. /\ KeyOf[entry[v]] = KeyOf[entry[w]] /\ stage[entry[v]] = "turn"
            BY <3>3, <4>1 DEF HInv, Turns
      <4>3. v # w
            BY <4>2, <3>1
      <4> QED
          BY <4>1, <4>2, <4>3, <3>1, ZenonT(30) DEF IInv, KeyExclusion, Busy
    <3> QED
        BY <3>2, <3>3, ZenonT(30)
  <2>4. \/ turn' = turn
        \/ \E w \in Worker : TurnBegin(w) \/ TurnEnd(w)
    <3>1. CASE UNCHANGED hvars
          BY <3>1 DEF hvars, sessionVars
    <3>2. CASE \/ QueueStep(Start) \/ QueueStep(CreateFails) \/ QueueStep(Join)
               \/ HostClosed \/ EngineClose
          BY <3>2 DEF QueueStep, HostClosed, EngineClose, sessionVars
    <3>3. CASE StopBegin \/ StopFlag \/ CancelAll \/ ManagerClose
          BY <3>3 DEF StopBegin, StopFlag, CancelAll, ManagerClose, sessionVars
    <3>4. ASSUME NEW w \in Worker,
                 \/ QueueStep(CreateWorker(w)) \/ QueueStep(SpuriousWakeup(w))
                 \/ QueueWorker(w)
          PROVE  turn' = turn
          BY <3>4 DEF QueueWorker, QueueStep, sessionVars
    <3>5. ASSUME NEW w \in Worker, Callback(w)
          PROVE  turn' = turn \/ TurnBegin(w) \/ TurnEnd(w)
          BY <3>5, ZenonT(30) DEF Callback, CallbackBegin, NoTurn, ReleaseLease, ItemDone,
                      sessionVars
    <3>6. ASSUME NEW x \in Work, Acquire(x) \/ ClientStep(x) \/ PeerLeaves(x)
          PROVE  turn' = turn
          BY <3>6 DEF Acquire, ClientStep, PeerLeaves, PrepareFails, SubmitItem,
                      Peek, ReadLease, SessionsCancel, Collect, Reply, sessionVars
    <3>7. ASSUME NEW k \in Key, GenerationCancel(k) PROVE turn' = turn
          BY <3>7 DEF GenerationCancel
    <3> QED
        BY <3>1, <3>2, <3>3, <3>4, <3>5, <3>6, <3>7 DEF HostNext
  <2> QED
      BY <2>1, <2>2, <2>3, <2>4, ZenonT(30)
<1>2. IInv /\ HInv /\ [HostNext]_hvars => [Kept]_hvars
      BY <1>1
<1> QED
    BY <1>2, HostQueueInvariance, HostInvariance, PTL DEF HostSpec, OneTurn

-----------------------------------------------------------------------------
(***************************************************************************)
(* The queue implements one FIFO per key.                                  *)
(***************************************************************************)

\* Induction over the naturals, for a set instead of a predicate.
LEMMA NatSets ==
    ASSUME NEW S, 0 \in S, \A n \in Nat : n \in S => n + 1 \in S
    PROVE  Nat \subseteq S
<1> DEFINE T == Nat \ S
           R == OpToRel(<, Nat)
<1> SUFFICES ASSUME T # {} PROVE FALSE
    OBVIOUS
<1>1. PICK x \in T : \A y \in T : ~ (<<y, x>> \in R)
  <2>1. IsWellFoundedOn(R, Nat)
        BY NatLessThanWellFounded, Zenon
  <2>2. T \subseteq Nat
        OBVIOUS
  <2> HIDE DEF R, T
  <2> QED
      BY <2>1, <2>2, WFMin, Zenon
<1>2. x # 0
      OBVIOUS
<1>3. x - 1 \in T
      BY <1>2
<1>4. <<x - 1, x>> \in R
      BY <1>2, <1>3 DEF OpToRel
<1> QED
    BY <1>1, <1>3, <1>4, Zenon

\* f goes along q and collects the entries with key k.
Collects(f, q, k, n) ==
    /\ f[0] = << >>
    /\ \A i \in 1 .. n :
          f[i] = IF KeyOf[q[i]] = k THEN Append(f[i - 1], q[i]) ELSE f[i - 1]

LEMMA CollectsExists ==
    ASSUME NEW q \in Seq(Work), NEW k
    PROVE  \E f \in [0 .. Len(q) -> Seq(Work)] : Collects(f, q, k, Len(q))
<1> DEFINE Good == {n \in Nat : n <= Len(q) =>
                       \E f \in [0 .. n -> Seq(Work)] : Collects(f, q, k, n)}
<1>0. Len(q) \in Nat /\ \A i \in 1 .. Len(q) : q[i] \in Work
      BY LenProperties, ElementOfSeq
<1>1. 0 \in Good
  <2> DEFINE f == [i \in 0 .. 0 |-> << >>]
  <2>1. f \in [0 .. 0 -> Seq(Work)] /\ f[0] = << >>
        BY EmptySeq
  <2> HIDE DEF f
  <2>2. Collects(f, q, k, 0)
        BY <2>1 DEF Collects
  <2> QED
      BY <2>1, <2>2
<1>2. ASSUME NEW n \in Nat, n \in Good PROVE n + 1 \in Good
  <2> SUFFICES ASSUME n + 1 <= Len(q)
               PROVE  \E f \in [0 .. n + 1 -> Seq(Work)] : Collects(f, q, k, n + 1)
      OBVIOUS
  <2>1. PICK f \in [0 .. n -> Seq(Work)] : Collects(f, q, k, n)
        BY <1>0, <1>2
  <2> DEFINE e == IF KeyOf[q[n + 1]] = k THEN Append(f[n], q[n + 1]) ELSE f[n]
             g == [i \in 0 .. n + 1 |-> IF i = n + 1 THEN e ELSE f[i]]
  <2>2. f[n] \in Seq(Work) /\ q[n + 1] \in Work
        BY <1>0
  <2>3. e \in Seq(Work)
        BY <2>2, AppendProperties
  <2>4. /\ g \in [0 .. n + 1 -> Seq(Work)] /\ g[n + 1] = e
        /\ \A i \in 0 .. n : g[i] = f[i]
    <3> HIDE DEF e
    <3> QED
        BY <2>3
  <2> HIDE DEF g
  <2>5. ASSUME NEW i \in 1 .. n + 1
        PROVE  g[i] = IF KeyOf[q[i]] = k THEN Append(g[i - 1], q[i]) ELSE g[i - 1]
    <3>1. CASE i = n + 1
      <4>1. i - 1 = n /\ n \in 0 .. n
            BY <3>1
      <4>2. g[i - 1] = f[n] /\ g[i] = e
            BY <4>1, <2>4, <3>1
      <4> QED
          BY <4>2, <3>1
    <3>2. CASE i # n + 1
      <4>1. i \in 1 .. n /\ i \in 0 .. n /\ i - 1 \in 0 .. n
            BY <3>2
      <4>2. g[i - 1] = f[i - 1] /\ g[i] = f[i]
            BY <4>1, <2>4
      <4> QED
          BY <4>1, <4>2, <2>1, Zenon DEF Collects
    <3> QED
        BY <3>1, <3>2
  <2>6. g[0] = << >>
        BY <2>1, <2>4 DEF Collects
  <2>7. Collects(g, q, k, n + 1)
        BY <2>5, <2>6 DEF Collects
  <2> QED
      BY <2>4, <2>7, Zenon
<1> HIDE DEF Good
<1>3. Len(q) \in Good
      BY <1>0, <1>1, <1>2, NatSets
<1> QED
    BY <1>0, <1>3 DEF Good

\* Two such functions agree.
LEMMA CollectsOnce ==
    ASSUME NEW n \in Nat, NEW f, NEW g, NEW p, NEW q, NEW k,
           Collects(f, q, k, n), Collects(g, p, k, n),
           \A i \in 1 .. n : p[i] = q[i]
    PROVE  \A i \in 0 .. n : f[i] = g[i]
<1> DEFINE Good == {i \in Nat : i <= n => f[i] = g[i]}
<1>1. 0 \in Good
      BY DEF Collects
<1>2. ASSUME NEW i \in Nat, i \in Good PROVE i + 1 \in Good
  <2> SUFFICES ASSUME i + 1 <= n PROVE f[i + 1] = g[i + 1]
      OBVIOUS
  <2>1. i + 1 \in 1 .. n /\ (i + 1) - 1 = i /\ f[i] = g[i]
        BY <1>2
  <2> QED
      BY <2>1 DEF Collects
<1> HIDE DEF Good
<1>3. Nat \subseteq Good
      BY <1>1, <1>2, NatSets, ZenonT(30)
<1> QED
    BY <1>3 DEF Good

LEMMA LineIs ==
    ASSUME NEW q \in Seq(Work), NEW k, NEW f, Collects(f, q, k, Len(q))
    PROVE  Line(q, k) = f[Len(q)]
<1> DEFINE n == Len(q)
           Eq(h) == h = [i \in 0 .. n |->
                           IF i = 0 THEN << >>
                           ELSE IF KeyOf[q[i]] = k THEN Append(h[i - 1], q[i])
                           ELSE h[i - 1]]
           line == CHOOSE h : Eq(h)
<1>0. n \in Nat
      BY LenProperties
<1>1. Line(q, k) = line[n]
      BY Zenon DEF Line
<1>2. PICK g \in [0 .. n -> Seq(Work)] : Collects(g, q, k, n)
      BY CollectsExists, Zenon
<1> HIDE DEF n
<1>3. Eq(g)
  <2> DEFINE h == [i \in 0 .. n |->
                     IF i = 0 THEN << >>
                     ELSE IF KeyOf[q[i]] = k THEN Append(g[i - 1], q[i])
                     ELSE g[i - 1]]
  <2>1. ASSUME NEW i \in 0 .. n PROVE g[i] = h[i]
    <3>1. CASE i = 0
          BY <3>1, <1>2, ZenonT(30) DEF Collects
    <3>2. CASE i # 0
      <4>1. i \in 1 .. n
            BY <3>2, <1>0
      <4> QED
          BY <4>1, <3>2, <1>2, Zenon DEF Collects
    <3> QED
        BY <3>1, <3>2
  <2>2. DOMAIN h = 0 .. n /\ h = [i \in 0 .. n |-> h[i]]
        OBVIOUS
  <2>3. g = [i \in 0 .. n |-> g[i]]
        OBVIOUS
  <2> HIDE DEF h
  <2>4. g = h
        BY <2>1, <2>2, <2>3
  <2> QED
      BY <2>4, Zenon DEF h
<1>4. Eq(line)
  <2> HIDE DEF Eq
  <2> QED
      BY <1>3
<1> HIDE DEF line
<1>5. Collects(line, q, k, n)
  <2>1. 0 \in 0 .. n /\ line[0] = << >>
        BY <1>4, <1>0
  <2>2. ASSUME NEW i \in 1 .. n
        PROVE  line[i] = IF KeyOf[q[i]] = k THEN Append(line[i - 1], q[i]) ELSE line[i - 1]
    <3>1. i \in 0 .. n /\ i # 0
          BY <1>0
    <3> QED
        BY <3>1, <1>4, Zenon
  <2> QED
      BY <2>1, <2>2 DEF Collects
<1>6. line[n] = f[n]
  <2>1. Collects(f, q, k, n) /\ n \in 0 .. n
        BY <1>0 DEF n
  <2> QED
      BY <2>1, <1>5, <1>0, CollectsOnce
<1> QED
    BY <1>1, <1>6 DEF n

LEMMA LineEmpty == \A k : Line(<< >>, k) = << >>
<1> SUFFICES ASSUME NEW k PROVE Line(<< >>, k) = << >>
    OBVIOUS
<1>1. << >> \in Seq(Work) /\ Len(<< >>) = 0
      BY EmptySeq
<1>2. PICK f \in [0 .. 0 -> Seq(Work)] : Collects(f, << >>, k, 0)
      BY <1>1, CollectsExists, Zenon
<1>3. Line(<< >>, k) = f[0]
      BY <1>1, <1>2, LineIs, Zenon
<1> QED
    BY <1>2, <1>3 DEF Collects

LEMMA LineTyped ==
    ASSUME NEW q \in Seq(Work), NEW k
    PROVE  Line(q, k) \in Seq(Work)
<1>1. PICK f \in [0 .. Len(q) -> Seq(Work)] : Collects(f, q, k, Len(q))
      BY CollectsExists
<1>2. Line(q, k) = f[Len(q)]
      BY <1>1, LineIs
<1>3. Len(q) \in 0 .. Len(q)
      BY LenProperties
<1> QED
    BY <1>1, <1>2, <1>3

LEMMA LineAppend ==
    ASSUME NEW q \in Seq(Work), NEW x \in Work, NEW k
    PROVE  Line(Append(q, x), k) = IF KeyOf[x] = k THEN Append(Line(q, k), x) ELSE Line(q, k)
<1> DEFINE a == Append(q, x)
           n == Len(q)
<1>1. /\ a \in Seq(Work) /\ Len(a) = n + 1 /\ n \in Nat /\ a[n + 1] = x
      /\ \A i \in 1 .. n : a[i] = q[i]
      BY AppendProperties, LenProperties
<1> HIDE DEF a, n
<1>2. PICK f \in [0 .. n + 1 -> Seq(Work)] : Collects(f, a, k, n + 1)
      BY <1>1, CollectsExists
<1>3. Line(a, k) = f[n + 1]
      BY <1>1, <1>2, LineIs
<1>4. Collects(f, q, k, n)
  <2>1. ASSUME NEW i \in 1 .. n
        PROVE  f[i] = IF KeyOf[q[i]] = k THEN Append(f[i - 1], q[i]) ELSE f[i - 1]
    <3>1. i \in 1 .. n + 1 /\ a[i] = q[i]
          BY <1>1
    <3> QED
        BY <3>1, <1>2 DEF Collects
  <2> QED
      BY <2>1, <1>2 DEF Collects
<1>5. Line(q, k) = f[n]
      BY <1>4, LineIs DEF n
<1>6. n + 1 \in 1 .. n + 1 /\ (n + 1) - 1 = n
      BY <1>1
<1>7. f[n + 1] = IF KeyOf[x] = k THEN Append(f[n], x) ELSE f[n]
      BY <1>1, <1>2, <1>6, ZenonT(30) DEF Collects
<1> QED
    BY <1>3, <1>5, <1>7 DEF a

\* Taking out an entry of another key leaves the line of k alone.
LEMMA Before ==
    ASSUME NEW i \in Nat, NEW j \in Nat, NEW n \in Nat, j + 1 = i, j + 1 <= n - 1
    PROVE  j < i /\ j <= n - 1 /\ i - 1 = j
OBVIOUS

LEMMA LineOther ==
    ASSUME NEW q \in Seq(Work), NEW i \in DOMAIN q, NEW k, KeyOf[q[i]] # k
    PROVE  Line(Shift(q, i), k) = Line(q, k)
<1> DEFINE n == Len(q)
           p == Shift(q, i)
<1>1. /\ n \in Nat /\ i \in 1 .. n /\ n - 1 \in Nat
      BY LenProperties
<1>2. /\ p \in Seq(Work) /\ Len(p) = n - 1
      /\ \A j \in 1 .. n - 1 : p[j] = IF j < i THEN q[j] ELSE q[j + 1]
      BY ShiftProperties
<1>3. PICK f \in [0 .. n -> Seq(Work)] : Collects(f, q, k, n)
      BY CollectsExists
<1>4. PICK g \in [0 .. n - 1 -> Seq(Work)] : Collects(g, p, k, n - 1)
      BY <1>2, CollectsExists, Zenon
<1>5. Line(q, k) = f[n] /\ Line(p, k) = g[n - 1]
      BY <1>2, <1>3, <1>4, LineIs
<1> HIDE DEF n, p
<1>6. f[i] = f[i - 1]
      BY <1>1, <1>3, Zenon DEF Collects
<1> DEFINE Good == {j \in Nat : j <= n - 1 => g[j] = IF j < i THEN f[j] ELSE f[j + 1]}
<1>7. 0 \in Good
      BY <1>1, <1>3, <1>4 DEF Collects
<1>8. ASSUME NEW j \in Nat, j \in Good PROVE j + 1 \in Good
  <2> SUFFICES ASSUME j + 1 <= n - 1
               PROVE  g[j + 1] = IF j + 1 < i THEN f[j + 1] ELSE f[j + 2]
      OBVIOUS
  <2>1. /\ j + 1 \in 1 .. n - 1 /\ (j + 1) - 1 = j /\ j + 1 \in 1 .. n
        /\ j + 2 \in 1 .. n /\ (j + 2) - 1 = j + 1 /\ (j + 1) + 1 = j + 2
        BY <1>1
  <2>2. /\ g[j + 1] = IF KeyOf[p[j + 1]] = k THEN Append(g[j], p[j + 1]) ELSE g[j]
        /\ f[j + 1] = IF KeyOf[q[j + 1]] = k THEN Append(f[j], q[j + 1]) ELSE f[j]
        /\ f[j + 2] = IF KeyOf[q[j + 2]] = k THEN Append(f[j + 1], q[j + 2]) ELSE f[j + 1]
        BY <2>1, <1>3, <1>4 DEF Collects
  <2>3. p[j + 1] = IF j + 1 < i THEN q[j + 1] ELSE q[j + 2]
        BY <2>1, <1>2, Zenon
  <2>4. CASE j + 1 < i
    <3>1. g[j] = f[j]
          BY <2>4, <1>1, <1>8, SMTT(30)
    <3> QED
        BY <3>1, <2>2, <2>3, <2>4
  <2>5. CASE j + 1 = i
    <3>0. j < i /\ j <= n - 1 /\ i - 1 = j
      <4>1. i \in Nat /\ j \in Nat /\ n \in Nat /\ j + 1 = i /\ j + 1 <= n - 1
            BY <2>5, <1>1
      <4> QED
          BY <4>1, Before, ZenonT(30)
    <3>1. g[j] = f[j] /\ f[j + 1] = f[j]
          BY <3>0, <2>5, <1>6, <1>8, ZenonT(30)
    <3> QED
        BY <3>1, <2>2, <2>3, <2>5
  <2>6. CASE j + 1 > i
    <3>1. ~(j + 1 < i) /\ ~(j < i) /\ j <= n - 1
          BY <2>6, <1>1, SMTT(30)
    <3>2. g[j] = f[j + 1]
          BY <3>1, <1>8
    <3> QED
        BY <3>1, <3>2, <2>2, <2>3
  <2> QED
      BY <2>4, <2>5, <2>6, <1>1
<1> HIDE DEF Good
<1>9. n - 1 \in Good
      BY <1>1, <1>7, <1>8, NatSets, Zenon
<1>10. g[n - 1] = f[n]
  <2>1. CASE i = n
    <3>1. g[n - 1] = f[n - 1]
          BY <2>1, <1>1, <1>9 DEF Good
    <3> QED
        BY <3>1, <2>1, <1>6
  <2>2. CASE i < n
    <3>1. (n - 1) + 1 = n /\ ~(n - 1 < i)
          BY <2>2, <1>1
    <3> QED
        BY <3>1, <1>1, <1>9 DEF Good
  <2> QED
      BY <2>1, <2>2, <1>1
<1> QED
    BY <1>5, <1>10 DEF p

LEMMA TailAppend ==
    ASSUME NEW s \in Seq(Work), NEW x \in Work, s # << >>
    PROVE  /\ Append(s, x) # << >> /\ Head(Append(s, x)) = Head(s)
           /\ Tail(Append(s, x)) = Append(Tail(s), x)
<1> DEFINE a == Append(s, x)
           t == Tail(s)
           n == Len(s)
<1>1. n \in Nat /\ n # 0
      BY LenProperties, EmptySeq
<1>2. /\ a \in Seq(Work) /\ Len(a) = n + 1 /\ a[n + 1] = x /\ a # << >>
      /\ \A i \in 1 .. n : a[i] = s[i]
      BY AppendProperties
<1>3. /\ t \in Seq(Work) /\ Len(t) = n - 1 /\ \A i \in 1 .. n - 1 : t[i] = s[i + 1]
      BY HeadTailProperties
<1>4. Head(s) = s[1] /\ Head(a) = a[1]
      BY <1>2, HeadTailProperties
<1> HIDE DEF a, t, n
<1>5. /\ Tail(a) \in Seq(Work) /\ Len(Tail(a)) = n
      /\ \A i \in 1 .. n : Tail(a)[i] = a[i + 1]
      BY <1>1, <1>2, HeadTailProperties
<1>6. /\ Append(t, x) \in Seq(Work) /\ Len(Append(t, x)) = n
      /\ Append(t, x)[n] = x /\ \A i \in 1 .. n - 1 : Append(t, x)[i] = t[i]
  <2>1. /\ Append(t, x) \in Seq(Work) /\ Len(Append(t, x)) = Len(t) + 1
        /\ Append(t, x)[Len(t) + 1] = x /\ \A i \in 1 .. Len(t) : Append(t, x)[i] = t[i]
        BY <1>3, AppendProperties
  <2> QED
      BY <2>1, <1>1, <1>3
<1>7. ASSUME NEW i \in 1 .. n PROVE Tail(a)[i] = Append(t, x)[i]
  <2>1. CASE i = n
        BY <2>1, <1>1, <1>2, <1>5, <1>6
  <2>2. CASE i # n
    <3>1. i \in 1 .. n - 1 /\ i + 1 \in 1 .. n
          BY <2>2, <1>1
    <3> QED
        BY <3>1, <1>2, <1>3, <1>5, <1>6, ZenonT(30)
  <2> QED
      BY <2>1, <2>2, Zenon
<1>8. Tail(a) = Append(t, x)
      BY <1>5, <1>6, <1>7, SeqEqual
<1>9. Head(a) = Head(s)
      BY <1>1, <1>2, <1>4
<1> QED
    BY <1>2, <1>8, <1>9 DEF a, t

\* Taking out the first entry of key k takes the head of its line.
\* The entry a worker takes is the oldest of its key, which nobody holds.
LEMMA FirstOfKey ==
    ASSUME queue \in Seq(Work), NEW i, First(i)
    PROVE  /\ queue[i] \in Work /\ KeyOf[queue[i]] \in Key /\ KeyOf[queue[i]] \notin active
           /\ \A j \in 1 .. i - 1 : KeyOf[queue[j]] # KeyOf[queue[i]]
<1>1. /\ i \in DOMAIN queue /\ KeyOf[queue[i]] \notin active
      /\ \A j \in DOMAIN queue : KeyOf[queue[j]] \notin active => i <= j
      BY Zenon DEF First, Selectable
<1>2. DOMAIN queue = 1 .. Len(queue) /\ Len(queue) \in Nat
      BY LenProperties
<1>3. queue[i] \in Work
      BY <1>1, <1>2, ElementOfSeq
<1>4. KeyOf[queue[i]] \in Key
      BY <1>3, ConstantsAssumption
<1>5. ASSUME NEW j \in 1 .. i - 1 PROVE KeyOf[queue[j]] # KeyOf[queue[i]]
  <2>1. j \in DOMAIN queue /\ ~(i <= j)
        BY <1>1, <1>2
  <2> QED
      BY <1>1, <2>1, Zenon
<1> QED
    BY <1>1, <1>3, <1>4, <1>5, Zenon

LEMMA LineFirst ==
    ASSUME NEW q \in Seq(Work), NEW i \in DOMAIN q, NEW k, KeyOf[q[i]] = k,
           \A j \in 1 .. i - 1 : KeyOf[q[j]] # k
    PROVE  /\ Line(q, k) # << >> /\ Head(Line(q, k)) = q[i]
           /\ Line(Shift(q, i), k) = Tail(Line(q, k))
<1> DEFINE n == Len(q)
           p == Shift(q, i)
<1>1. /\ n \in Nat /\ i \in 1 .. n /\ n - 1 \in Nat /\ q[i] \in Work
      /\ \A j \in 1 .. n : q[j] \in Work
      BY LenProperties, ElementOfSeq
<1>2. /\ p \in Seq(Work) /\ Len(p) = n - 1
      /\ \A j \in 1 .. n - 1 : p[j] = IF j < i THEN q[j] ELSE q[j + 1]
      BY ShiftProperties, ZenonT(30)
<1>3. PICK f \in [0 .. n -> Seq(Work)] : Collects(f, q, k, n)
      BY CollectsExists, Zenon
<1>4. PICK g \in [0 .. n - 1 -> Seq(Work)] : Collects(g, p, k, n - 1)
      BY <1>2, CollectsExists, ZenonT(30)
<1>5. Line(q, k) = f[n] /\ Line(p, k) = g[n - 1]
      BY <1>2, <1>3, <1>4, LineIs, ZenonT(30)
<1> HIDE DEF n, p
<1> DEFINE Empty == {j \in Nat : j < i => f[j] = << >> /\ (j <= n - 1 => g[j] = << >>)}
<1>6. 0 \in Empty
      BY <1>1, <1>3, <1>4, ZenonT(30) DEF Collects
<1>7. ASSUME NEW j \in Nat, j \in Empty PROVE j + 1 \in Empty
  <2> SUFFICES ASSUME j + 1 < i
               PROVE  f[j + 1] = << >> /\ (j + 1 <= n - 1 => g[j + 1] = << >>)
      OBVIOUS
  <2>1. /\ j + 1 \in 1 .. n - 1 /\ (j + 1) - 1 = j /\ j + 1 \in 1 .. n
        /\ j + 1 \in 1 .. i - 1
        BY <1>1
  <2>2. f[j] = << >> /\ g[j] = << >>
        BY <1>1, <1>7
  <2>3. p[j + 1] = q[j + 1] /\ KeyOf[q[j + 1]] # k
        BY <2>1, <1>2
  <2> QED
      BY <2>1, <2>2, <2>3, <1>3, <1>4, ZenonT(30) DEF Collects
<1> HIDE DEF Empty
<1>8. i - 1 \in Empty
  <2>1. i - 1 \in Nat
        BY <1>1
  <2> QED
      BY <2>1, <1>6, <1>7, NatSets, Zenon
<1>9. f[i - 1] = << >> /\ g[i - 1] = << >>
      BY <1>1, <1>8, SMTT(30) DEF Empty
<1> DEFINE Ahead(j) == /\ f[j + 1] # << >> /\ Head(f[j + 1]) = q[i]
                       /\ g[j] = Tail(f[j + 1])
           Good == {j \in Nat : i - 1 <= j /\ j <= n - 1 => Ahead(j)}
<1>10. Ahead(i - 1)
  <2>1. f[i] = Append(<< >>, q[i])
        BY <1>1, <1>3, <1>9, Zenon DEF Collects
  <2>2. Append(<< >>, q[i]) # << >> /\ Head(Append(<< >>, q[i])) = q[i]
        /\ Tail(Append(<< >>, q[i])) = << >>
        OBVIOUS
  <2>3. (i - 1) + 1 = i
        BY <1>1
  <2> QED
      BY <2>1, <2>2, <2>3, <1>9, Zenon
<1>11. 0 \in Good
  <2> SUFFICES ASSUME i - 1 <= 0 PROVE Ahead(0)
      OBVIOUS
  <2>1. i - 1 = 0
        BY <1>1
  <2> QED
      BY <2>1, <1>10
<1>12. ASSUME NEW j \in Nat, j \in Good PROVE j + 1 \in Good
  <2> SUFFICES ASSUME i - 1 <= j + 1, j + 1 <= n - 1 PROVE Ahead(j + 1)
      OBVIOUS
  <2>1. CASE i - 1 = j + 1
        BY <2>1, <1>10, ZenonT(30)
  <2>2. CASE i - 1 < j + 1
    <3>1. /\ j + 1 \in 1 .. n - 1 /\ (j + 1) - 1 = j
          /\ j + 2 \in 1 .. n /\ (j + 2) - 1 = j + 1 /\ (j + 1) + 1 = j + 2
          /\ ~(j + 1 < i) /\ j + 1 \in 0 .. n /\ j + 2 \in 0 .. n
          BY <2>2, <1>1
    <3>2. Ahead(j)
          BY <2>2, <1>1, <1>12, SMTT(30)
    <3>3. p[j + 1] = q[j + 2] /\ q[j + 2] \in Work
          BY <3>1, <1>1, <1>2, ZenonT(30)
    <3>4. /\ g[j + 1] = IF KeyOf[q[j + 2]] = k THEN Append(g[j], q[j + 2]) ELSE g[j]
          /\ f[j + 2] = IF KeyOf[q[j + 2]] = k THEN Append(f[j + 1], q[j + 2]) ELSE f[j + 1]
          BY <3>1, <3>3, <1>3, <1>4 DEF Collects
    <3>5. ASSUME NEW s \in Seq(Work), NEW x \in Work, s # << >>
          PROVE  /\ Append(s, x) # << >> /\ Head(Append(s, x)) = Head(s)
                 /\ Tail(Append(s, x)) = Append(Tail(s), x)
          BY <3>5, TailAppend, ZenonT(30)
    <3>6. f[j + 1] \in Seq(Work)
          BY <3>1
    <3>7. CASE KeyOf[q[j + 2]] = k
      <4>1. g[j + 1] = Append(Tail(f[j + 1]), q[j + 2]) /\ f[j + 2] = Append(f[j + 1], q[j + 2])
            BY <3>7, <3>2, <3>4
      <4>2. /\ Append(f[j + 1], q[j + 2]) # << >>
            /\ Head(Append(f[j + 1], q[j + 2])) = q[i]
            /\ Tail(Append(f[j + 1], q[j + 2])) = Append(Tail(f[j + 1]), q[j + 2])
            BY <3>2, <3>3, <3>5, <3>6, Zenon
      <4> QED
          BY <4>1, <4>2, <3>1, Zenon
    <3>8. CASE KeyOf[q[j + 2]] # k
          BY <3>8, <3>1, <3>2, <3>4
    <3> QED
        BY <3>7, <3>8, ZenonT(30)
  <2> QED
      BY <2>1, <2>2, <1>1
<1> HIDE DEF Good
<1>13. n - 1 \in Good
      BY <1>1, <1>11, <1>12, NatSets, Zenon
<1>14. Ahead(n - 1) /\ (n - 1) + 1 = n
      BY <1>1, <1>13 DEF Good
<1> QED
    BY <1>5, <1>14 DEF p

-----------------------------------------------------------------------------
\* A worker that gives its key back has run its entry.
Returned == \A w \in Worker : pc[w] = "release" => entry[w] \in done

LEMMA ReturnedStep == IInv /\ Returned /\ [Next]_vars => Returned'
<1> SUFFICES ASSUME IInv, Returned, [Next]_vars PROVE Returned'
    OBVIOUS
<1>0. /\ entry \in [Worker -> Work \cup {NoWork}]
      /\ pc \in [Worker -> {"absent", "lock", "wait", "execute", "release", "exited"}]
      BY DEF IInv, TypeOK
<1>1. CASE UNCHANGED vars
      BY <1>1 DEF vars, Returned
<1>2. ASSUME UNCHANGED <<entry, done>>, pc' = Broadcast(pc) PROVE Returned'
      BY <1>0, <1>2, ZenonT(30) DEF Returned, Broadcast
<1>3. CASE Start \/ Join \/ Closed
      BY <1>3, Zenon DEF Start, Join, Closed, vars, Returned
<1>4. CASE CreateFails \/ Finish \/ RequestStop
      BY <1>4, <1>2 DEF CreateFails, Finish, RequestStop
<1>5. ASSUME NEW x \in Work, Submit(x) PROVE Returned'
  <2>1. UNCHANGED <<entry, done>> /\ (pc' = Broadcast(pc) \/ pc' = pc)
        BY <1>5 DEF Submit
  <2>2. CASE pc' = pc
        BY <2>1, <2>2 DEF Returned
  <2> QED
      BY <2>1, <2>2, <1>2
<1>6. ASSUME NEW w \in Worker,
             CreateWorker(w) \/ Exit(w) \/ Wait(w) \/ SpuriousWakeup(w)
      PROVE  Returned'
      BY <1>0, <1>6, ZenonT(30) DEF CreateWorker, Exit, Wait, SpuriousWakeup, Returned
<1>7. ASSUME NEW w \in Worker, Select(w) PROVE Returned'
      BY <1>0, <1>7, Zenon DEF Select, Returned
<1>8. ASSUME NEW w \in Worker, Execute(w) PROVE Returned'
      BY <1>0, <1>8 DEF Execute, Returned
<1>9. ASSUME NEW w \in Worker, Release(w) PROVE Returned'
  <2> DEFINE f == [pc EXCEPT ![w] = "lock"]
  <2>1. f \in [Worker -> {"absent", "lock", "wait", "execute", "release", "exited"}]
        /\ f[w] = "lock" /\ \A v \in Worker \ {w} : f[v] = pc[v]
        BY <1>0
  <2>2. pc' = Broadcast(f) /\ entry' = [entry EXCEPT ![w] = NoWork] /\ done' = done
        BY <1>9 DEF Release
  <2> HIDE DEF f
  <2>3. \A v \in Worker : pc'[v] = "release" => v # w /\ pc[v] = "release"
        BY <2>1, <2>2, ZenonT(30) DEF Broadcast
  <2> QED
      BY <2>2, <2>3, <1>0 DEF Returned
<1> QED
    BY <1>1, <1>3, <1>4, <1>5, <1>6, <1>7, <1>8, <1>9 DEF Next, WorkerStep

\* The refinement mapping.
Pending == [k \in Key |-> Line(queue, k)]
Current == [k \in Key |-> Held(k)]

LEMMA HeldIs ==
    ASSUME KeyExclusion, NEW w \in Worker, Busy(w)
    PROVE  Holders(KeyOf[entry[w]]) = {w} /\ Held(KeyOf[entry[w]]) = entry[w]
<1>1. Holders(KeyOf[entry[w]]) = {w}
      BY DEF Holders, KeyExclusion
<1>2. (CHOOSE v \in {w} : TRUE) = w
      BY ZenonT(30)
<1> QED
    BY <1>1, <1>2, ZenonT(30) DEF Held

\* The workers hold what they held.
LEMMA HeldKept ==
    ASSUME \A w \in Worker : (Busy(w)' <=> Busy(w)) /\ (Busy(w) => entry'[w] = entry[w])
    PROVE  Current' = Current
<1>1. ASSUME NEW k \in Key PROVE Held(k)' = Held(k)
  <2>1. Holders(k)' = Holders(k)
        BY ZenonT(30) DEF Holders
  <2>2. CASE Holders(k) = {}
        BY <2>1, <2>2, ZenonT(30) DEF Held
  <2>3. CASE Holders(k) # {}
    <3> DEFINE v == CHOOSE w \in Holders(k) : TRUE
    <3>1. v \in Holders(k)
          BY <2>3
    <3>2. v \in Worker /\ Busy(v)
          BY <3>1 DEF Holders
    <3>3. Held(k) = entry[v] /\ Held(k)' = entry'[v]
          BY <2>1, <2>3, ZenonT(30) DEF Held
    <3> HIDE DEF v
    <3> QED
        BY <3>2, <3>3, ZenonT(30)
  <2> QED
      BY <2>2, <2>3, ZenonT(30)
<1> QED
    BY <1>1 DEF Current

\* A worker that takes or gives back an entry of key k changes what is held
\* of that key only.
LEMMA HeldElsewhere ==
    ASSUME NEW w \in Worker, NEW k \in Key,
           \A v \in Worker \ {w} : (Busy(v)' <=> Busy(v)) /\ entry'[v] = entry[v],
           Busy(w) => KeyOf[entry[w]] = k, Busy(w)' => KeyOf[entry'[w]] = k
    PROVE  \A d \in Key : d # k => Current'[d] = Current[d]
<1> SUFFICES ASSUME NEW d \in Key, d # k PROVE Current'[d] = Current[d]
    BY ZenonT(30)
<1>1. Holders(d)' = Holders(d) /\ w \notin Holders(d)
      BY DEF Holders
<1>2. CASE Holders(d) = {}
      BY <1>1, <1>2, ZenonT(30) DEF Current, Held
<1>3. CASE Holders(d) # {}
  <2> DEFINE v == CHOOSE u \in Holders(d) : TRUE
  <2>1. v \in Holders(d)
        BY <1>3, ZenonT(30)
  <2>2. v \in Worker \ {w}
        BY <2>1, <1>1, ZenonT(30) DEF Holders
  <2>3. Held(d) = entry[v] /\ Held(d)' = entry'[v]
        BY <1>1, <1>3 DEF Held
  <2> HIDE DEF v
  <2> QED
      BY <2>2, <2>3, ZenonT(30) DEF Current
<1> QED
    BY <1>2, <1>3

LEMMA FifoInit == Init => Fifo!Init
<1> SUFFICES ASSUME Init PROVE Fifo!Init
    OBVIOUS
<1>1. Pending = [k \in Key |-> << >>]
      BY LineEmpty DEF Init, Pending
<1>2. Current = [k \in Key |-> NoWork]
  <2>1. \A k : Holders(k) = {}
        BY DEF Init, Holders, Busy
  <2> QED
      BY <2>1 DEF Current, Held
<1> QED
    BY <1>1, <1>2 DEF Fifo!Init, Init, Pending, Current

LEMMA FifoStep == IInv /\ IInv' /\ Returned /\ [Next]_vars => [Fifo!Next]_(Fifo!vars)
<1> SUFFICES ASSUME IInv, IInv', Returned, [Next]_vars
             PROVE  Fifo!Next \/ UNCHANGED <<Pending, Current, done>>
    BY DEF Fifo!vars, Pending, Current
<1>0. /\ entry \in [Worker -> Work \cup {NoWork}] /\ queue \in Seq(Work)
      /\ pc \in [Worker -> {"absent", "lock", "wait", "execute", "release", "exited"}]
      BY DEF IInv, TypeOK
<1>q. ASSUME queue' = queue PROVE Pending' = Pending
      BY <1>q DEF Pending
<1>s. ASSUME UNCHANGED <<queue, entry, done>>,
             \A w \in Worker : Busy(w)' <=> Busy(w)
      PROVE  UNCHANGED <<Pending, Current, done>>
      BY <1>s, <1>q, HeldKept
<1>b. ASSUME pc' = Broadcast(pc) PROVE \A w \in Worker : Busy(w)' <=> Busy(w)
      BY <1>b, <1>0, BroadcastProperties DEF Busy
<1>1. CASE UNCHANGED vars
      BY <1>1, <1>s DEF vars, Busy
<1>2. CASE Start \/ Join \/ Closed
      BY <1>2, <1>s DEF Start, Join, Closed, vars, Busy
<1>3. CASE CreateFails \/ Finish \/ RequestStop
      BY <1>3, <1>b, <1>s DEF CreateFails, Finish, RequestStop
<1>4. ASSUME NEW w \in Worker,
             CreateWorker(w) \/ Exit(w) \/ Wait(w) \/ SpuriousWakeup(w)
      PROVE  UNCHANGED <<Pending, Current, done>>
  <2>1. UNCHANGED <<queue, entry, done>> /\ \A v \in Worker : Busy(v)' <=> Busy(v)
        BY <1>0, <1>4 DEF CreateWorker, Exit, Wait, SpuriousWakeup, Busy
  <2> QED
      BY <2>1, <1>s
<1>5. ASSUME NEW x \in Work, Submit(x)
      PROVE  Fifo!Next \/ UNCHANGED <<Pending, Current, done>>
  <2>1. CASE queue' = queue /\ pc' = pc
        BY <2>1, <1>5, <1>s DEF Submit, Busy
  <2>2. CASE queue' = Append(queue, x) /\ pc' = Broadcast(pc)
    <3>1. Current' = Current /\ done' = done
          BY <2>2, <1>5, <1>b, HeldKept DEF Submit
    <3>2. KeyOf[x] \in Key
          BY ConstantsAssumption
    <3>3. \A k \in Key : Pending'[k] = IF KeyOf[x] = k THEN Append(Pending[k], x) ELSE Pending[k]
          BY <2>2, <1>0, LineAppend DEF Pending
    <3>4. Pending' = [Pending EXCEPT ![KeyOf[x]] = Append(Pending[KeyOf[x]], x)]
          BY <3>2, <3>3, Zenon DEF Pending
    <3>5. Fifo!Accept(x)
          BY <3>1, <3>4 DEF Fifo!Accept, Pending, Current
    <3> QED
        BY <3>5 DEF Fifo!Next
  <2> QED
      BY <2>1, <2>2, <1>5 DEF Submit
<1>6. ASSUME NEW w \in Worker, Select(w) PROVE Fifo!Next
  <2>1. PICK i \in DOMAIN queue :
           /\ First(i) /\ entry' = [entry EXCEPT ![w] = queue[i]]
           /\ queue' = Shift(queue, i)
        BY <1>6, Zenon DEF Select
  <2>2. /\ pc[w] = "lock" /\ pc' = [pc EXCEPT ![w] = "execute"] /\ done' = done
        BY <1>6 DEF Select
  <2>3. /\ queue[i] \in Work /\ KeyOf[queue[i]] \in Key /\ KeyOf[queue[i]] \notin active
        /\ \A j \in 1 .. i - 1 : KeyOf[queue[j]] # KeyOf[queue[i]]
        BY <2>1, <1>0, FirstOfKey, ZenonT(30)
  <2>4. PICK k \in Key : k = KeyOf[queue[i]]
        BY <2>3, ZenonT(30)
  <2>5. \A j \in 1 .. i - 1 : KeyOf[queue[j]] # k
        BY <2>3, <2>4, Zenon
  <2>6. Pending[k] # << >> /\ Head(Pending[k]) = queue[i] /\ Pending'[k] = Tail(Pending[k])
    <3>1. Line(queue, k) # << >> /\ Head(Line(queue, k)) = queue[i]
          /\ Line(Shift(queue, i), k) = Tail(Line(queue, k))
          BY <2>1, <2>4, <2>5, <1>0, LineFirst, ZenonT(30)
    <3> QED
        BY <3>1, <2>1, ZenonT(30) DEF Pending
  <2>7. \A d \in Key : d # k => Pending'[d] = Pending[d]
        BY <2>1, <2>4, <1>0, LineOther, Zenon DEF Pending
  <2>8. Pending' = [Pending EXCEPT ![k] = Tail(Pending[k])]
        BY <2>6, <2>7, ZenonT(30) DEF Pending
  <2>9. /\ ~Busy(w) /\ Busy(w)' /\ entry'[w] = queue[i]
        /\ \A v \in Worker \ {w} : (Busy(v)' <=> Busy(v)) /\ entry'[v] = entry[v]
        BY <2>1, <2>2, <1>0 DEF Busy
  <2>10. Holders(k) = {} /\ Holders(k)' = {w}
    <3>1. \A v \in Worker : Busy(v) => KeyOf[entry[v]] # k
          BY <2>3, <2>4, ZenonT(30) DEF IInv, ActiveIsHeld
    <3> QED
        BY <3>1, <2>4, <2>9 DEF Holders
  <2>11. Current[k] = NoWork /\ Current'[k] = queue[i]
    <3>1. (CHOOSE v \in {w} : TRUE) = w
          BY ZenonT(30)
    <3>2. Held(k) = NoWork /\ Held(k)' = entry'[w]
          BY <3>1, <2>10, ZenonT(30) DEF Held
    <3> QED
        BY <3>2, <2>9 DEF Current
  <2>12. \A d \in Key : d # k => Current'[d] = Current[d]
        BY <2>4, <2>9, HeldElsewhere, ZenonT(30)
  <2>13. Current' = [Current EXCEPT ![k] = Head(Pending[k])]
        BY <2>6, <2>11, <2>12, ZenonT(30) DEF Current
  <2>14. Fifo!Begin(k)
        BY <2>2, <2>6, <2>8, <2>11, <2>13 DEF Fifo!Begin, Pending, Current
  <2> QED
      BY <2>14 DEF Fifo!Next
<1>7. ASSUME NEW w \in Worker, Execute(w) PROVE Fifo!Next
  <2> DEFINE k == KeyOf[entry[w]]
  <2>1. /\ Busy(w) /\ pc' = [pc EXCEPT ![w] = "release"] /\ UNCHANGED <<queue, entry>>
        /\ done' = done \cup {entry[w]}
        BY <1>7, Zenon DEF Execute, Busy
  <2>2. entry[w] # NoWork /\ entry[w] \in Work /\ k \in Key
        BY <2>1, <1>0, ConstantsAssumption, ZenonT(30) DEF IInv, ActiveIsHeld
  <2>3. Current[k] = entry[w]
        BY <2>1, <2>2, HeldIs, Zenon DEF IInv, Current
  <2>4. \A v \in Worker : Busy(v)' <=> Busy(v)
        BY <2>1, <1>0 DEF Busy
  <2>5. Pending' = Pending /\ Current' = Current
        BY <2>1, <2>4, <1>q, HeldKept
  <2> HIDE DEF k
  <2>6. Fifo!Return(k)
        BY <2>1, <2>2, <2>3, <2>5 DEF Fifo!Return, Pending, Current
  <2> QED
      BY <2>2, <2>6 DEF Fifo!Next
<1>8. ASSUME NEW w \in Worker, Release(w) PROVE Fifo!Next
  <2> DEFINE f == [pc EXCEPT ![w] = "lock"]
  <2>1. /\ Busy(w) /\ pc[w] = "release" /\ pc' = Broadcast(f) /\ UNCHANGED <<queue, done>>
        /\ entry' = [entry EXCEPT ![w] = NoWork]
        BY <1>8 DEF Release, Busy
  <2>2. /\ entry[w] # NoWork /\ entry[w] \in Work /\ KeyOf[entry[w]] \in Key
        /\ entry[w] \in done
        BY <2>1, <1>0, ConstantsAssumption DEF IInv, ActiveIsHeld, Returned
  <2>3. f \in [Worker -> {"absent", "lock", "wait", "execute", "release", "exited"}]
        /\ f[w] = "lock" /\ \A v \in Worker \ {w} : f[v] = pc[v]
        BY <1>0
  <2> HIDE DEF f
  <2>4. /\ ~Busy(w)' /\ \A v \in Worker \ {w} : (Busy(v)' <=> Busy(v)) /\ entry'[v] = entry[v]
        BY <2>1, <2>3, <1>0, BroadcastProperties, SMTT(30) DEF Busy
  <2>5. PICK k \in Key : k = KeyOf[entry[w]]
        BY <2>2
  <2>6. Current[k] = entry[w] /\ Holders(k) = {w}
        BY <2>1, <2>5, HeldIs DEF IInv, Current
  <2>7. Current'[k] = NoWork
    <3>1. Holders(k)' = {}
          BY <2>4, <2>6, ZenonT(30) DEF Holders
    <3> QED
        BY <3>1, ZenonT(30) DEF Current, Held
  <2>8. \A d \in Key : d # k => Current'[d] = Current[d]
        BY <2>4, <2>5, HeldElsewhere, ZenonT(30)
  <2>9. Current' = [Current EXCEPT ![k] = NoWork] /\ Pending' = Pending
        BY <2>1, <2>7, <2>8, <1>q, Zenon DEF Current
  <2>10. Fifo!Release(k)
        BY <2>1, <2>2, <2>6, <2>9, Zenon DEF Fifo!Release, Pending, Current
  <2> QED
      BY <2>10 DEF Fifo!Next
<1> QED
    BY <1>1, <1>2, <1>3, <1>4, <1>5, <1>6, <1>7, <1>8, ZenonT(30) DEF Next, WorkerStep

\* The queue implements one FIFO per key, for every number of workers, keys
\* and queue places: operations of one key begin in the order submit accepted
\* them, one at a time (request_queue_select_locked, request_queue_release_locked).
THEOREM QueueImplementsKeyedFifo == Spec => ImplementsKeyedFifo
<1>1. Init => IInv /\ Returned /\ Fifo!Init
      BY InitEstablishes, FifoInit DEF Init, Returned
<1>2. IInv /\ Returned /\ [Next]_vars => IInv' /\ Returned'
      BY StepPreserves, ReturnedStep
<1>3. IInv /\ IInv' /\ Returned /\ [Next]_vars => [Fifo!Next]_(Fifo!vars)
      BY FifoStep
<1> QED
    BY <1>1, <1>2, <1>3, PTL DEF Spec, ImplementsKeyedFifo, Fifo!Spec

\* Inside the host too the operations of one session begin in the order the
\* queue accepted them, one at a time.
THEOREM HostImplementsKeyedFifo == HostSpec => ImplementsKeyedFifo
BY HostImplementsQueue, QueueImplementsKeyedFifo
=============================================================================
