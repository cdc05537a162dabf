--------------------------- MODULE Pipeline_proofs ----------------------------
(*****************************************************************************)
(* The theorems of Pipeline, for any number of threads, call sites, metrics  *)
(* and buffers.  First the control state: where each thread is, what it      *)
(* holds of the pool, the registry and the references.  Then the buffers:    *)
(* which writer's they are, their order on the way to the sink, the records  *)
(* in them, what a batch must contain, and the counters of what was dropped. *)
(* Then the descriptors, which are announced once and before the records     *)
(* that need them, what stopping leaves behind, the balance of buffers, and  *)
(* the invariant with its theorems.                                          *)
(*****************************************************************************)
EXTENDS Pipeline, FoldTheorems, TLAPS

-------------------------------------------------------------------------------
(*****************************************************************************)
(* Threads, pool, registry and references.                                   *)
(*****************************************************************************)

\* The types of the pool.
PoolTypes ==
    /\ avail \in 0 .. Capacity
    /\ queue \in Seq(Writers)
    /\ client \in [Writers -> {"idle", "asking", "waiting", "granted", "refused"}]
    /\ closed \in BOOLEAN

\* The types of the threads' state.
ThreadTypes ==
    /\ pc \in [Writers -> Places]
    /\ cur \in [Writers -> Seq([d : Descs, size : Nat])]
    /\ mo_mtk_descs \subseteq MtkIds

\* The types of the core's and the worker's control state.
CoreTypes ==
    /\ mu_ref_count \in Nat
    /\ owner_ref \in BOOLEAN /\ ev_stop \in BOOLEAN /\ lb_stop \in BOOLEAN
    /\ mp_writers \in Seq(Writers) /\ to_pull \in Seq(Writers)
    /\ wpc \in {"wait", "collect", "drain", "service", "recycle", "flush", "stopped"}

\* The record of a call: a log record or a metric sample.
Call(w) == IF w \in LogWriters THEN [d : LogDescs, size : LogSizes] ELSE [d : MtkIds, size : {MtkSize}]
\* A thread has a record to send exactly while it is in a call.
CallInv ==
    \A w \in Writers :
        /\ pc[w] \in InCall => Len(cur[w]) = 1 /\ cur[w][1] \in Call(w)
        /\ pc[w] \notin InCall => cur[w] = <<>>
        /\ w \in MtkWriters => pc[w] \notin {"resolve", "acquireSvc", "haveSvc"}

\* The queue holds each waiting thread once, and only a thread that is in acquire_buffer
\* has to do with it.
QueueInv ==
    /\ \A w \in Writers :
          /\ client[w] # "idle" => pc[w] \in {"acquire", "acquireSvc"}
          /\ client[w] # "refused"
          /\ client[w] = "waiting" <=> \E i \in 1 .. Len(queue) : queue[i] = w
    /\ \A i, j \in 1 .. Len(queue) : queue[i] = queue[j] => i = j

\* The threads that have a writer.
Alive == {w \in Writers : pc[w] \notin {"unborn", "gone"}}
\* Every thread that has a writer and the owner hold one reference each; the core stops when the
\* last one goes.
RefInv ==
    /\ mu_ref_count = Cardinality(Alive) + (IF owner_ref THEN 1 ELSE 0)
    /\ closed \/ ev_stop => mu_ref_count = 0
    /\ lb_stop => ev_stop
\* The registry holds each writer that is alive once.
RegistryInv ==
    /\ \A i, j \in 1 .. Len(mp_writers) : mp_writers[i] = mp_writers[j] => i = j
    /\ Range(mp_writers) = Alive
    /\ wpc # "drain" => to_pull = <<>>

\* The control state: the part of the invariant all others rest on.
Control == /\ PoolTypes /\ ThreadTypes /\ CoreTypes
           /\ CallInv /\ QueueInv /\ RefInv /\ RegistryInv

-----------------------------------------------------------------------------
\* Unlinking a writer from a registry that holds it once leaves a registry of the others.
LEMMA RemoveFirstFromInjective ==
    ASSUME NEW S, NEW s \in Seq(S), NEW x, x \in Range(s),
           \A i, j \in 1 .. Len(s) : s[i] = s[j] => i = j
    PROVE  /\ RemoveFirst(s, x) \in Seq(S)
           /\ \A i, j \in 1 .. Len(RemoveFirst(s, x)) :
                 RemoveFirst(s, x)[i] = RemoveFirst(s, x)[j] => i = j
           /\ Range(RemoveFirst(s, x)) = Range(s) \ {x}
<1>1. PICK k \in 1 .. Len(s) : s[k] = x
  BY DEF Range
<1>2. {i \in 1 .. Len(s) : s[i] = x} = {k}
  BY <1>1
<1>3. SelectInSeq(s, LAMBDA v : v = x) = k
  BY <1>2 DEF SelectInSeq, Min
<1>4. RemoveFirst(s, x) = SubSeq(s, 1, k - 1) \o SubSeq(s, k + 1, Len(s))
  BY <1>1, <1>3 DEF RemoveFirst, RemoveAt
<1>5. PICK t : t = RemoveFirst(s, x)
  OBVIOUS
<1>6. /\ t \in Seq(S) /\ Len(t) = Len(s) - 1
      /\ \A i \in 1 .. Len(t) : t[i] = IF i < k THEN s[i] ELSE s[i + 1]
  <2>1. PICK a : a = SubSeq(s, 1, k - 1)
    OBVIOUS
  <2>2. PICK b : b = SubSeq(s, k + 1, Len(s))
    OBVIOUS
  <2>3. a \in Seq(S) /\ Len(a) = k - 1 /\ \A i \in 1 .. k - 1 : a[i] = s[i]
    BY <2>1, SubSeqProperties
  <2>4. b \in Seq(S) /\ Len(b) = Len(s) - k /\ \A i \in 1 .. Len(s) - k : b[i] = s[k + i]
    BY <2>2, SubSeqProperties
  <2>5. t = a \o b
    BY <1>4, <1>5, <2>1, <2>2
  <2>6. /\ t \in Seq(S) /\ Len(t) = Len(s) - 1
        /\ \A i \in 1 .. Len(s) - 1 : t[i] = IF i <= k - 1 THEN a[i] ELSE b[i - (k - 1)]
    <3>1. /\ a \o b \in Seq(S) /\ Len(a \o b) = Len(a) + Len(b)
          /\ \A i \in 1 .. Len(a) + Len(b) : (a \o b)[i] = IF i <= Len(a) THEN a[i] ELSE b[i - Len(a)]
      <4>1. a \in Seq(S) /\ b \in Seq(S)
        BY <2>3, <2>4
      <4> QED BY <4>1, ConcatAt
    <3> QED BY <2>3, <2>4, <2>5, <3>1
  <2> QED BY <2>3, <2>4, <2>6
<1>7. \A i, j \in 1 .. Len(t) : t[i] = t[j] => i = j
  BY <1>6
<1>8. Range(t) = Range(s) \ {x}
  <2>1. Range(t) \subseteq Range(s) \ {x}
    BY <1>1, <1>6 DEF Range
  <2>2. ASSUME NEW y \in Range(s), y # x PROVE y \in Range(t)
    <3>1. PICK j \in 1 .. Len(s) : s[j] = y
      BY DEF Range
    <3>2. CASE j < k
      BY <1>6, <3>1, <3>2 DEF Range
    <3>3. CASE j > k
      <4>1. j - 1 \in 1 .. Len(t) /\ t[j - 1] = y
        BY <1>6, <3>1, <3>3
      <4> QED BY <1>6, <4>1 DEF Range
    <3> QED BY <1>1, <2>2, <3>1, <3>2, <3>3
  <2> QED BY <2>1, <2>2
<1> QED BY <1>5, <1>6, <1>7, <1>8

-----------------------------------------------------------------------------
\* The control state is right when the core has been created.
LEMMA ControlInit == Init => Control
<1> SUFFICES ASSUME Init PROVE Control
  OBVIOUS
<1>1. Alive = {}
  BY DEF Init, Alive
<1>2. PoolTypes /\ ThreadTypes /\ CoreTypes /\ CallInv /\ QueueInv
  <2> USE DEF Init
  <2>1. PoolTypes
    <3>1. avail = Capacity /\ queue = <<>> /\ client = [w \in Writers |-> "idle"] /\ closed = FALSE
      BY DEF Pool!Init
    <3>2. Capacity \in Nat
      BY PipelineAssumption
    <3>3. avail \in 0 .. Capacity
      BY <3>1, <3>2
    <3>4. client \in [Writers -> {"idle", "asking", "waiting", "granted", "refused"}]
      BY <3>1
    <3> QED BY ONLY <3>1, <3>3, <3>4, EmptySeq DEF PoolTypes
  <2>2. ThreadTypes
    BY DEF ThreadTypes, Places
  <2>3. CoreTypes
    <3>1. /\ mu_ref_count = 1 /\ owner_ref = TRUE /\ ev_stop = FALSE /\ lb_stop = FALSE
          /\ mp_writers = <<>> /\ to_pull = <<>> /\ wpc = "wait"
      OBVIOUS
    <3> QED BY ONLY <3>1, EmptySeq DEF CoreTypes
  <2>4. CallInv
    BY DEF CallInv, InCall
  <2>5. QueueInv
    BY DEF QueueInv, Pool!Init
  <2> QED BY <2>1, <2>2, <2>3, <2>4, <2>5
<1>3. Range(<<>>) = {}
  BY DEF Range
<1>4. RefInv /\ RegistryInv
  BY <1>1, <1>3, FS_EmptySet DEF Init, Pool!Init, RefInv, RegistryInv
<1> QED BY <1>2, <1>4 DEF Control

USE DEF poolVars, bufVars, recVars, coreVars, descVars, svcVars, wakeVars, workerVars, producerVars

\* How the pool changes.
LEMMA PoolTake ==
    ASSUME PoolTypes, QueueInv, NEW w \in Writers, Pool!Take(w)
    PROVE  /\ PoolTypes' /\ closed' = closed /\ queue' = queue
           /\ client' = [client EXCEPT ![w] = "idle"]
           /\ client[w] \in {"idle", "asking"}
           /\ avail \in Nat \ {0} /\ avail' = avail - 1
<1>1. /\ client[w] \in {"idle", "asking"} /\ avail > 0 /\ avail' = avail - 1
      /\ client' = [client EXCEPT ![w] = "idle"] /\ queue' = queue /\ closed' = closed
  BY DEF Pool!Take
<1>2. avail \in 0 .. Capacity /\ Capacity \in Nat
  BY PipelineAssumption DEF PoolTypes
<1>3. client' \in [Writers -> {"idle", "asking", "waiting", "granted", "refused"}]
  BY <1>1 DEF PoolTypes
<1> QED BY <1>1, <1>2, <1>3 DEF PoolTypes

\* acquire_buffer that succeeds at once takes from the pool, whether or not it wakes the worker.
LEMMA TakeBufferTakes == \A w : TakeBuffer(w) => Pool!Take(w)
  BY DEF TakeBuffer

\* Recycled buffers: waiting threads are granted, nobody else notices, and the queue still holds
\* each waiting thread once.
LEMMA PoolGiveBack ==
    ASSUME PoolTypes, QueueInv, NEW n \in Nat, ReleaseBuffers(n)
    PROVE  /\ PoolTypes' /\ closed' = closed
           /\ \A w \in Writers :
                 /\ client'[w] = client[w] \/ (client[w] = "waiting" /\ client'[w] = "granted")
                 /\ client'[w] = "waiting" <=> \E i \in 1 .. Len(queue') : queue'[i] = w
           /\ \A i, j \in 1 .. Len(queue') : queue'[i] = queue'[j] => i = j
<1> DEFINE served == IF n < Len(queue) THEN n ELSE Len(queue)
           lucky  == {queue[i] : i \in 1 .. served}
<1>1. /\ avail + n <= Capacity
      /\ client' = [t \in Writers |-> IF t \in lucky THEN "granted" ELSE client[t]]
      /\ queue' = SubSeq(queue, served + 1, Len(queue))
      /\ avail' = avail + n - served
      /\ closed' = closed
  BY DEF ReleaseBuffers, Pool!GiveBack
<1>2. served \in Nat /\ served <= Len(queue) /\ served <= n /\ queue \in Seq(Writers) /\ Len(queue) \in Nat
  BY DEF PoolTypes
<1>3. /\ queue' \in Seq(Writers) /\ Len(queue') = Len(queue) - served
      /\ \A i \in 1 .. Len(queue') : queue'[i] = queue[served + i]
  <2> HIDE DEF served
  <2> QED BY <1>1, <1>2, SubSeqProperties
<1>4. PoolTypes' /\ closed' = closed
  <2> HIDE DEF served
  <2>1. \A w \in Writers : client'[w] \in {"idle", "asking", "waiting", "granted", "refused"}
    BY <1>1 DEF PoolTypes
  <2> QED BY <1>1, <1>2, <1>3, <2>1, PipelineAssumption DEF PoolTypes
<1>5. \A i, j \in 1 .. Len(queue) : queue[i] = queue[j] => i = j
  BY DEF QueueInv
<1>6. \A i, j \in 1 .. Len(queue') : queue'[i] = queue'[j] => i = j
  <2> HIDE DEF served
  <2> SUFFICES ASSUME NEW i \in 1 .. Len(queue'), NEW j \in 1 .. Len(queue'), queue'[i] = queue'[j]
               PROVE  i = j
    OBVIOUS
  <2>1. served + i \in 1 .. Len(queue) /\ served + j \in 1 .. Len(queue)
    BY <1>2, <1>3
  <2>2. queue[served + i] = queue[served + j]
    BY <1>3
  <2>3. served + i = served + j
    BY <1>5, <2>1, <2>2
  <2> QED BY <1>2, <2>3
<1>7. ASSUME NEW w \in Writers
      PROVE  /\ client'[w] = client[w] \/ (client[w] = "waiting" /\ client'[w] = "granted")
             /\ client'[w] = "waiting" <=> \E i \in 1 .. Len(queue') : queue'[i] = w
  <2>1. client[w] = "waiting" <=> \E i \in 1 .. Len(queue) : queue[i] = w
    BY DEF QueueInv
  <2>2. client'[w] = IF w \in lucky THEN "granted" ELSE client[w]
    BY <1>1 DEF PoolTypes
  <2>3. w \in lucky <=> \E i \in 1 .. served : queue[i] = w
    OBVIOUS
  <2> HIDE DEF served, lucky
  <2>4. w \in lucky => client[w] = "waiting"
    BY <1>2, <2>1, <2>3
  <2>5. ASSUME NEW i \in 1 .. Len(queue'), queue'[i] = w
        PROVE  client'[w] = "waiting"
    <3>1. served + i \in 1 .. Len(queue) /\ queue[served + i] = w
      BY <1>2, <1>3, <2>5
    <3>2. w \notin lucky
      BY <1>2, <1>5, <2>3, <3>1
    <3> QED BY <2>1, <2>2, <3>1, <3>2
  <2>6. ASSUME client'[w] = "waiting"
        PROVE  \E i \in 1 .. Len(queue') : queue'[i] = w
    <3>1. w \notin lucky /\ client[w] = "waiting"
      BY <2>2, <2>6
    <3>2. PICK i \in 1 .. Len(queue) : queue[i] = w
      BY <2>1, <3>1
    <3>3. i > served
      BY <1>2, <2>3, <3>1, <3>2
    <3>4. i - served \in 1 .. Len(queue') /\ queue'[i - served] = queue[i]
      BY <1>2, <1>3, <3>2, <3>3
    <3> QED BY <3>2, <3>4
  <2> QED BY <2>2, <2>4, <2>5, <2>6
<1> QED BY <1>1, <1>4, <1>6, <1>7

\* The set of alive threads is finite, and changes with its threads one by one.
LEMMA AliveFinite == IsFiniteSet(Alive) /\ Cardinality(Alive) \in Nat /\ Cardinality(Alive) <= Cardinality(Writers)
<1>1. Alive \in SUBSET Writers
  BY DEF Alive
<1> QED BY <1>1, PipelineAssumption, FS_Subset, FS_CardinalityType

\* A thread that is inside the API stays alive when it goes from one place to another.
LEMMA AliveSame ==
    ASSUME ThreadTypes, \A w \in Writers : pc'[w] \in {"unborn", "gone"} <=> pc[w] \in {"unborn", "gone"}
    PROVE  Alive' = Alive
  BY DEF Alive

\* What becomes of the pool when threads that are not in acquire_buffer use it: nobody
\* starts to wait.
Calm ==
    /\ PoolTypes' /\ closed' = closed
    /\ \A u \in Writers :
          /\ client'[u] # "refused"
          /\ client'[u] # "idle" => client[u] # "idle"
          /\ client'[u] = "waiting" <=> \E i \in 1 .. Len(queue') : queue'[i] = u
    /\ \A i, j \in 1 .. Len(queue') : queue'[i] = queue'[j] => i = j

\* The pool steps of other threads and of the worker are calm.
LEMMA PoolCalm ==
    ASSUME PoolTypes, QueueInv,
           UNCHANGED poolVars \/ (\E w \in Writers : Pool!Take(w)) \/ \E n \in Nat : ReleaseBuffers(n)
    PROVE  Calm
<1>1. CASE UNCHANGED poolVars
  BY <1>1 DEF PoolTypes, QueueInv, Calm
<1>2. ASSUME NEW w \in Writers, Pool!Take(w) PROVE Calm
  <2>1. /\ PoolTypes' /\ closed' = closed /\ queue' = queue
        /\ client' = [client EXCEPT ![w] = "idle"]
        /\ client[w] \in {"idle", "asking"}
    BY <1>2, PoolTake
  <2>2. \A u \in Writers : client'[u] = IF u = w THEN "idle" ELSE client[u]
    BY <2>1 DEF PoolTypes
  <2> QED BY <2>1, <2>2 DEF QueueInv, Calm
<1>3. CASE \E n \in Nat : ReleaseBuffers(n)
  <2>1. PICK n \in Nat : ReleaseBuffers(n)
    BY <1>3
  <2>2. /\ PoolTypes' /\ closed' = closed
        /\ \A u \in Writers :
              /\ client'[u] = client[u] \/ (client[u] = "waiting" /\ client'[u] = "granted")
              /\ client'[u] = "waiting" <=> \E i \in 1 .. Len(queue') : queue'[i] = u
        /\ \A i, j \in 1 .. Len(queue') : queue'[i] = queue'[j] => i = j
    BY <2>1, PoolGiveBack
  <2> QED BY <2>2 DEF QueueInv, Calm
<1> QED BY <1>1, <1>2, <1>3

\* A calm pool step keeps the queue right when no thread that uses the pool moves.
LEMMA CalmQueue ==
    ASSUME QueueInv, Calm, \A u \in Writers : pc'[u] = pc[u] \/ client[u] = "idle"
    PROVE  QueueInv'
  BY DEF QueueInv, Calm

\* A thread goes to p and keeps its record, or it goes to p without one.
LEMMA ThreadGoes ==
    ASSUME ThreadTypes, CallInv, NEW w \in Writers, NEW p \in Places,
           pc' = [pc EXCEPT ![w] = p],
           w \in MtkWriters => p \notin {"resolve", "acquireSvc", "haveSvc"},
           \/ cur' = cur /\ (p \in InCall <=> pc[w] \in InCall)
           \/ cur' = [cur EXCEPT ![w] = <<>>] /\ p \notin InCall,
           mo_mtk_descs' = mo_mtk_descs
    PROVE  ThreadTypes' /\ CallInv'
<1>1. \A u \in Writers : pc'[u] = IF u = w THEN p ELSE pc[u]
  BY DEF ThreadTypes
<1>2. CASE cur' = cur /\ (p \in InCall <=> pc[w] \in InCall)
  <2>1. ThreadTypes'
    BY <1>2 DEF ThreadTypes
  <2>2. CallInv'
    BY <1>1, <1>2 DEF CallInv, Call
  <2> QED BY <2>1, <2>2
<1>3. CASE cur' = [cur EXCEPT ![w] = <<>>] /\ p \notin InCall
  <2>1. <<>> \in Seq([d : Descs, size : Nat])
    BY EmptySeq
  <2>2. ThreadTypes'
    BY <1>3, <2>1 DEF ThreadTypes
  <2>3. \A u \in Writers : cur'[u] = IF u = w THEN <<>> ELSE cur[u]
    BY <1>3 DEF ThreadTypes
  <2>4. CallInv'
    <3> SUFFICES ASSUME NEW u \in Writers
                 PROVE  /\ pc'[u] \in InCall => Len(cur'[u]) = 1 /\ cur'[u][1] \in Call(u)
                        /\ pc'[u] \notin InCall => cur'[u] = <<>>
                        /\ u \in MtkWriters => pc'[u] \notin {"resolve", "acquireSvc", "haveSvc"}
      BY DEF CallInv, Call
    <3>1. CASE u = w
      BY <1>1, <1>3, <2>3, <3>1
    <3>2. CASE u # w
      BY <1>1, <2>3, <3>2 DEF CallInv
    <3> QED BY <3>1, <3>2
  <2> QED BY <2>2, <2>4
<1> QED BY <1>2, <1>3

\* The part of the invariant about the core, when a step changes neither the references
\* nor the registry.
LEMMA CoreSame ==
    ASSUME Control, UNCHANGED <<coreVars, ev_stop, wpc, lb_stop, to_pull>>, closed' = closed,
           \A w \in Writers : pc'[w] \in {"unborn", "gone"} <=> pc[w] \in {"unborn", "gone"}
    PROVE  CoreTypes' /\ RefInv' /\ RegistryInv'
<1>1. Alive' = Alive
  BY AliveSame DEF Control
<1>2. CoreTypes'
  BY DEF Control, CoreTypes
<1>3. RefInv' /\ RegistryInv'
  BY <1>1 DEF Control, RefInv, RegistryInv
<1> QED BY <1>2, <1>3

\* A thread's writer is constructed: one reference and one entry of the registry more.
LEMMA CreateControl ==
    ASSUME Control, NEW w \in Writers, Create(w)
    PROVE  Control'
<1> USE DEF Create, Goto
<1>1. PoolTypes' /\ ThreadTypes' /\ CallInv' /\ QueueInv'
  <2>1. "idle" \in Places /\ "idle" \notin InCall /\ pc[w] \notin InCall
    BY DEF Places, InCall
  <2>2. ThreadTypes' /\ CallInv'
    BY <2>1, ThreadGoes DEF Control
  <2>3. Calm
    BY PoolCalm DEF Control
  <2>4. \A u \in Writers : pc'[u] = pc[u] \/ client[u] = "idle"
    BY DEF Control, QueueInv, ThreadTypes
  <2> QED BY <2>2, <2>3, <2>4, CalmQueue DEF Control, Calm
<1>2. pc[w] = "unborn" /\ pc' = [pc EXCEPT ![w] = "idle"] /\ pc \in [Writers -> Places]
  BY DEF Control, ThreadTypes
<1>3. Alive' = Alive \cup {w} /\ w \notin Alive
  BY <1>2 DEF Alive
<1>4. Cardinality(Alive') = Cardinality(Alive) + 1
  BY <1>3, AliveFinite, FS_AddElement
<1>5. mp_writers' = <<w>> \o mp_writers /\ mp_writers \in Seq(Writers) /\ <<w>> \in Seq(Writers)
  BY DEF Control, CoreTypes
<1>6. CoreTypes'
  <2>1. mp_writers' \in Seq(Writers)
    BY <1>5, ConcatProperties
  <2> QED BY <2>1 DEF Control, CoreTypes
<1>7. RefInv'
  BY <1>4, AliveFinite DEF Control, RefInv, CoreTypes
<1>8. RegistryInv'
  <2>1. Range(mp_writers') = Range(<<w>>) \cup Range(mp_writers)
    BY <1>5, RangeConcatenation
  <2>2. Range(<<w>>) = {w}
    BY DEF Range
  <2>3. Range(mp_writers) = Alive
    BY DEF Control, RegistryInv
  <2>4. /\ Len(mp_writers') = Len(mp_writers) + 1
        /\ \A i \in 1 .. Len(mp_writers') : mp_writers'[i] = IF i = 1 THEN w ELSE mp_writers[i - 1]
    BY <1>5
  <2>5. \A i \in 1 .. Len(mp_writers) : mp_writers[i] # w
    BY <1>3, <1>5, <2>3 DEF Range
  <2>6. ASSUME NEW i \in 1 .. Len(mp_writers'), NEW j \in 1 .. Len(mp_writers'), mp_writers'[i] = mp_writers'[j]
        PROVE  i = j
    <3>1. \A k, l \in 1 .. Len(mp_writers) : mp_writers[k] = mp_writers[l] => k = l
      BY DEF Control, RegistryInv
    <3>2. Len(mp_writers) \in Nat
      BY <1>5
    <3>3. CASE i = 1 \/ j = 1
      BY <2>4, <2>5, <2>6, <3>2, <3>3
    <3>4. CASE i # 1 /\ j # 1
      BY <2>4, <2>6, <3>1, <3>2, <3>4
    <3> QED BY <3>3, <3>4
  <2>7. wpc' # "drain" => to_pull' = <<>>
    BY DEF Control, RegistryInv
  <2> QED BY <1>3, <2>1, <2>2, <2>3, <2>6, <2>7 DEF RegistryInv
<1> QED BY <1>1, <1>6, <1>7, <1>8 DEF Control

\* A step of one thread that leaves the core alone.
LEMMA ThreadStepControl ==
    ASSUME Control, NEW w \in Writers, ThreadTypes', CallInv',
           UNCHANGED <<coreVars, ev_stop, wpc, lb_stop, to_pull>>,
           UNCHANGED poolVars \/ Pool!Take(w) \/ \E n \in Nat : ReleaseBuffers(n),
           NEW p, pc' = [pc EXCEPT ![w] = p],
           p \in {"unborn", "gone"} <=> pc[w] \in {"unborn", "gone"},
           p = pc[w] \/ pc[w] \notin {"acquire", "acquireSvc"}
    PROVE  Control'
<1>1. Calm
  BY PoolCalm DEF Control
<1>2. \A u \in Writers : pc'[u] = IF u = w THEN p ELSE pc[u]
  BY DEF Control, ThreadTypes
<1>3. \A u \in Writers : pc'[u] = pc[u] \/ client[u] = "idle"
  BY <1>2 DEF Control, QueueInv
<1>4. QueueInv'
  BY <1>1, <1>3, CalmQueue DEF Control
<1>5. CoreTypes' /\ RefInv' /\ RegistryInv'
  BY <1>1, <1>2, CoreSame DEF Calm
<1> QED BY <1>1, <1>4, <1>5 DEF Control, Calm

\* Announcing a metric touches the pool only by taking a buffer.
LEMMA SvcEntryPool ==
    ASSUME NEW w, NEW m, SvcEntryOrDrop(w, m)
    PROVE  UNCHANGED poolVars \/ Pool!Take(w)
  BY TakeBufferTakes DEF SvcEntryOrDrop

\* cp8_mtk::create keeps the control state.
LEMMA RegisterControl ==
    ASSUME Control, NEW w \in Writers, NEW m \in MtkIds, register_mtk(w, m)
    PROVE  Control'
<1>1. /\ mo_mtk_descs' = mo_mtk_descs \cup {m} /\ SvcEntryOrDrop(w, m)
      /\ UNCHANGED <<pc, cur, coreVars, ev_stop, wpc, lb_stop, to_pull>>
      /\ pc[w] = "idle"
  BY DEF register_mtk
<1>2. UNCHANGED poolVars \/ Pool!Take(w)
  BY <1>1, SvcEntryPool
<1>3. ThreadTypes' /\ CallInv'
  BY <1>1 DEF Control, ThreadTypes, CallInv, Call
<1>4. pc' = [pc EXCEPT ![w] = "idle"]
  BY <1>1 DEF Control, ThreadTypes
<1> QED BY <1>1, <1>2, <1>3, <1>4, ThreadStepControl

\* Entering the API keeps the control state: the call carries a record of its writer.
LEMMA SendControl ==
    ASSUME Control, NEW w \in Writers, NEW d \in Descs, NEW s \in LogSizes \cup {MtkSize}, Send(w, d, s)
    PROVE  Control'
<1>1. /\ pc[w] = "idle" /\ cur' = [cur EXCEPT ![w] = <<[d |-> d, size |-> s]>>]
      /\ UNCHANGED <<coreVars, ev_stop, wpc, lb_stop, to_pull, poolVars, mo_mtk_descs>>
  BY DEF Send
<1>2. PICK p \in {"lock", "resolve"} :
         /\ pc' = [pc EXCEPT ![w] = p]
         /\ \/ w \in LogWriters /\ d \in LogDescs /\ s \in LogSizes
            \/ w \in MtkWriters /\ d \in MtkIds /\ s = MtkSize /\ p = "lock"
  BY DEF Send, Goto, Control, ThreadTypes
<1>3. s \in Nat
  BY PipelineAssumption
<1>4. PICK r : r = [d |-> d, size |-> s]
  OBVIOUS
<1>5. r \in [d : Descs, size : Nat] /\ r \in Call(w)
  BY <1>2, <1>3, <1>4, PipelineAssumption DEF Call, Descs
<1>6. <<r>> \in Seq([d : Descs, size : Nat]) /\ Len(<<r>>) = 1 /\ <<r>>[1] = r
  BY <1>5
<1>7. cur' = [cur EXCEPT ![w] = <<r>>]
  BY <1>1, <1>4
<1>8. /\ \A u \in Writers : pc'[u] = IF u = w THEN p ELSE pc[u]
      /\ \A u \in Writers : cur'[u] = IF u = w THEN <<r>> ELSE cur[u]
  BY <1>2, <1>7 DEF Control, ThreadTypes
<1>9. ThreadTypes'
  <2>1. p \in Places
    BY DEF Places, InCall
  <2> QED BY <1>1, <1>2, <1>6, <1>7, <2>1 DEF Control, ThreadTypes
<1>10. CallInv'
  <2>1. p \in InCall
    BY DEF InCall
  <2>2. w \in MtkWriters => p = "lock"
    BY <1>2, PipelineAssumption
  <2> SUFFICES ASSUME NEW u \in Writers
               PROVE  /\ pc'[u] \in InCall => Len(cur'[u]) = 1 /\ cur'[u][1] \in Call(u)
                      /\ pc'[u] \notin InCall => cur'[u] = <<>>
                      /\ u \in MtkWriters => pc'[u] \notin {"resolve", "acquireSvc", "haveSvc"}
    BY DEF CallInv, Call
  <2>3. CASE u = w
    BY <1>5, <1>6, <1>8, <2>1, <2>2, <2>3
  <2>4. CASE u # w
    BY <1>8, <2>4 DEF Control, CallInv
  <2> QED BY <2>3, <2>4
<1> QED BY <1>1, <1>2, <1>9, <1>10, ThreadStepControl

\* Making a log descriptor known keeps the control state.
LEMMA ResolveControl ==
    ASSUME Control, NEW w \in Writers, ResolveBegin(w) \/ ResolveFail(w) \/ ResolveEnd(w)
    PROVE  Control'
<1>1. UNCHANGED <<coreVars, ev_stop, wpc, lb_stop, to_pull, poolVars, mo_mtk_descs>>
  BY DEF ResolveBegin, ResolveFail, ResolveEnd
<1>2. PICK p \in {"lock", "acquireSvc", "idle"} :
         /\ pc' = [pc EXCEPT ![w] = p]
         /\ pc[w] \in {"resolve", "haveSvc"}
         /\ cur' = IF p = "idle" THEN [cur EXCEPT ![w] = <<>>] ELSE cur
  BY DEF ResolveBegin, ResolveFail, ResolveEnd, Resolved, Goto
<1>3. w \notin MtkWriters
  BY <1>2 DEF Control, CallInv
<1>4. p \in Places /\ (p \in InCall <=> p # "idle") /\ pc[w] \in InCall
  BY <1>2 DEF Places, InCall
<1>5. ThreadTypes' /\ CallInv'
  BY <1>1, <1>2, <1>3, <1>4, ThreadGoes DEF Control
<1> QED BY <1>1, <1>2, <1>5, ThreadStepControl

\* The first try of acquire_buffer keeps the control state.
LEMMA AcquireTryControl ==
    ASSUME Control, NEW w \in Writers, AcquireTry(w)
    PROVE  Control'
<1>1. UNCHANGED <<coreVars, ev_stop, wpc, lb_stop, to_pull, mo_mtk_descs, cur>> /\ client[w] = "idle"
  BY DEF AcquireTry
<1>2. PICK p \in {pc[w], "have", "haveSvc"} :
         /\ pc' = [pc EXCEPT ![w] = p]
         /\ \/ Pool!Take(w) /\ ((p = "have" /\ pc[w] = "acquire") \/ (p = "haveSvc" /\ pc[w] = "acquireSvc"))
            \/ Pool!Ask(w) /\ p = pc[w] /\ pc[w] \in {"acquire", "acquireSvc"}
  BY TakeBufferTakes DEF AcquireTry, Goto, Control, ThreadTypes
<1>3. p \in Places /\ p \in InCall /\ pc[w] \in InCall
  BY <1>2 DEF Places, InCall
<1>4. w \in MtkWriters => p \notin {"resolve", "acquireSvc", "haveSvc"}
  BY <1>2 DEF Control, CallInv
<1>5. ThreadTypes' /\ CallInv'
  BY <1>1, <1>2, <1>3, <1>4, ThreadGoes DEF Control
<1>6. \A u \in Writers : pc'[u] = IF u = w THEN p ELSE pc[u]
  BY <1>2 DEF Control, ThreadTypes
<1>7. PoolTypes' /\ QueueInv' /\ closed' = closed
  <2>1. CASE Pool!Take(w)
    <3>1. Calm
      BY <2>1, PoolCalm DEF Control
    <3> QED BY <1>1, <1>6, <3>1, CalmQueue DEF Control, Calm
  <2>2. CASE Pool!Ask(w) /\ p = pc[w] /\ pc[w] \in {"acquire", "acquireSvc"}
    <3>1. client' = [client EXCEPT ![w] = "asking"] /\ UNCHANGED <<avail, queue, closed>>
      BY <2>2 DEF Pool!Ask
    <3>2. PoolTypes'
      BY <3>1 DEF Control, PoolTypes
    <3>3. \A u \in Writers : client'[u] = IF u = w THEN "asking" ELSE client[u]
      BY <3>1 DEF Control, PoolTypes
    <3>4. QueueInv'
      BY <1>1, <1>6, <2>2, <3>1, <3>3 DEF Control, QueueInv
    <3> QED BY <3>1, <3>2, <3>4
  <2> QED BY <1>2, <2>1, <2>2
<1>8. CoreTypes' /\ RefInv' /\ RegistryInv'
  <2>1. p \notin {"unborn", "gone"} /\ pc[w] \notin {"unborn", "gone"}
    BY <1>2
  <2> QED BY <1>1, <1>6, <1>7, <2>1, CoreSame
<1> QED BY <1>5, <1>7, <1>8 DEF Control

\* The wait of acquire_buffer keeps the control state: a thread waits in one place only, and is
\* granted a buffer and not refused.
LEMMA AcquireWaitControl ==
    ASSUME Control, NEW w \in Writers, AcquireWait(w)
    PROVE  Control'
<1>1. UNCHANGED <<coreVars, ev_stop, wpc, lb_stop, to_pull, mo_mtk_descs, cur>>
  BY DEF AcquireWait
<1>2. client[w] # "idle" /\ client[w] # "refused" /\ client[w] # "waiting" /\ pc[w] \in {"acquire", "acquireSvc"}
  BY DEF AcquireWait, Pool!Enqueue, Pool!Return, Control, QueueInv
<1>3. PICK p \in {pc[w], "have", "haveSvc"} :
         /\ pc' = [pc EXCEPT ![w] = p]
         /\ \/ Pool!Take(w) /\ p = IF pc[w] = "acquire" THEN "have" ELSE "haveSvc"
            \/ Pool!Return(w) /\ client[w] = "granted" /\ p = IF pc[w] = "acquire" THEN "have" ELSE "haveSvc"
            \/ Pool!Enqueue(w) /\ p = pc[w]
  BY DEF AcquireWait, Goto, Control, ThreadTypes
<1>4. p \in Places /\ p \in InCall /\ pc[w] \in InCall
  BY <1>2, <1>3 DEF Places, InCall
<1>5. w \in MtkWriters => p \notin {"resolve", "acquireSvc", "haveSvc"}
  BY <1>2, <1>3 DEF Control, CallInv
<1>6. ThreadTypes' /\ CallInv'
  BY <1>1, <1>3, <1>4, <1>5, ThreadGoes DEF Control
<1>7. \A u \in Writers : pc'[u] = IF u = w THEN p ELSE pc[u]
  BY <1>3 DEF Control, ThreadTypes
<1>8. PoolTypes' /\ QueueInv' /\ closed' = closed
  <2>1. CASE Pool!Take(w) \/ Pool!Return(w)
    <3>1. client' = [client EXCEPT ![w] = "idle"] /\ UNCHANGED <<queue, closed>>
      BY <2>1 DEF Pool!Take, Pool!Return
    <3>2. \A u \in Writers : client'[u] = IF u = w THEN "idle" ELSE client[u]
      BY <3>1 DEF Control, PoolTypes
    <3>3. PoolTypes'
      <4>1. CASE Pool!Take(w)
        BY <4>1, PoolTake DEF Control
      <4>2. CASE Pool!Return(w)
        BY <3>1, <4>2 DEF Pool!Return, Control, PoolTypes
      <4> QED BY <2>1, <4>1, <4>2
    <3>4. QueueInv'
      BY <1>2, <1>7, <3>1, <3>2 DEF Control, QueueInv
    <3> QED BY <3>1, <3>3, <3>4
  <2>2. CASE Pool!Enqueue(w) /\ p = pc[w]
    <3>1. /\ client' = [client EXCEPT ![w] = "waiting"] /\ queue' = Append(queue, w)
          /\ UNCHANGED <<avail, closed>>
      BY <2>2 DEF Pool!Enqueue
    <3>2. \A u \in Writers : client'[u] = IF u = w THEN "waiting" ELSE client[u]
      BY <3>1 DEF Control, PoolTypes
    <3>3. queue \in Seq(Writers) /\ Len(queue) \in Nat
      BY DEF Control, PoolTypes
    <3>4. /\ queue' \in Seq(Writers) /\ Len(queue') = Len(queue) + 1
          /\ \A i \in 1 .. Len(queue') : queue'[i] = IF i <= Len(queue) THEN queue[i] ELSE w
      BY <3>1, <3>3
    <3>5. PoolTypes'
      BY <3>1, <3>4 DEF Control, PoolTypes
    <3>6. \A u \in Writers : client[u] = "waiting" <=> \E i \in 1 .. Len(queue) : queue[i] = u
      BY DEF Control, QueueInv
    <3>7. \A i \in 1 .. Len(queue) : queue[i] # w
      BY <1>2, <3>6
    <3>8. \A u \in Writers : client'[u] = "waiting" <=> \E i \in 1 .. Len(queue') : queue'[i] = u
      <4> SUFFICES ASSUME NEW u \in Writers
                   PROVE  client'[u] = "waiting" <=> \E i \in 1 .. Len(queue') : queue'[i] = u
        OBVIOUS
      <4>1. CASE u = w
        <5>1. Len(queue') \in 1 .. Len(queue') /\ queue'[Len(queue')] = w
          BY <3>3, <3>4
        <5> QED BY <3>2, <4>1, <5>1
      <4>2. CASE u # w
        <5>1. ASSUME NEW i \in 1 .. Len(queue'), queue'[i] = u PROVE i \in 1 .. Len(queue) /\ queue[i] = u
          BY <3>3, <3>4, <4>2, <5>1
        <5>2. ASSUME NEW i \in 1 .. Len(queue), queue[i] = u PROVE i \in 1 .. Len(queue') /\ queue'[i] = u
          BY <3>3, <3>4, <5>2
        <5> QED BY <3>2, <3>6, <4>2, <5>1, <5>2
      <4> QED BY <4>1, <4>2
    <3>9. \A i, j \in 1 .. Len(queue') : queue'[i] = queue'[j] => i = j
      <4>1. \A i, j \in 1 .. Len(queue) : queue[i] = queue[j] => i = j
        BY DEF Control, QueueInv
      <4> SUFFICES ASSUME NEW i \in 1 .. Len(queue'), NEW j \in 1 .. Len(queue'), queue'[i] = queue'[j]
                   PROVE  i = j
        OBVIOUS
      <4>2. CASE i <= Len(queue) /\ j <= Len(queue)
        BY <3>3, <3>4, <4>1, <4>2
      <4>3. CASE i > Len(queue) \/ j > Len(queue)
        BY <3>3, <3>4, <3>7, <4>3
      <4> QED BY <3>3, <4>2, <4>3
    <3>10. \A u \in Writers : (client'[u] # "idle" => pc'[u] \in {"acquire", "acquireSvc"}) /\ client'[u] # "refused"
      BY <1>2, <1>7, <2>2, <3>2 DEF Control, QueueInv
    <3> QED BY <3>1, <3>5, <3>8, <3>9, <3>10 DEF QueueInv
  <2> QED BY <1>3, <2>1, <2>2
<1>9. CoreTypes' /\ RefInv' /\ RegistryInv'
  <2>1. p \notin {"unborn", "gone"} /\ pc[w] \notin {"unborn", "gone"}
    BY <1>2, <1>3
  <2> QED BY <1>1, <1>7, <1>8, <2>1, CoreSame
<1> QED BY <1>6, <1>8, <1>9 DEF Control

\* The three ways a record is written touch the pool with one buffer at most.
LEMMA WritePool ==
    ASSUME NEW w, NEW b, NEW n, WriteWhole(w, b, n) \/ WriteFragmented(w, b, n) \/ Discard(w, b, n)
    PROVE  UNCHANGED poolVars \/ Pool!Take(w) \/ \E k \in Nat : ReleaseBuffers(k)
  BY TakeBufferTakes DEF WriteWhole, WriteFragmented, Discard

\* The critical section that writes a record keeps the control state.
LEMMA WriteControl ==
    ASSUME Control, NEW w \in Writers, LockWriter(w) \/ InstallBuffer(w)
    PROVE  Control'
<1>1. /\ UNCHANGED <<coreVars, ev_stop, wpc, lb_stop, to_pull, mo_mtk_descs>>
      /\ pc[w] \in {"lock", "have"}
  BY DEF LockWriter, InstallBuffer
<1>2. UNCHANGED poolVars \/ Pool!Take(w) \/ \E k \in Nat : ReleaseBuffers(k)
  BY WritePool DEF LockWriter, InstallBuffer
<1>3. PICK p \in {"idle", "acquire"} :
         /\ pc' = [pc EXCEPT ![w] = p]
         /\ cur' = IF p = "idle" THEN [cur EXCEPT ![w] = <<>>] ELSE cur
  BY DEF LockWriter, InstallBuffer, Goto
<1>4. p \in Places /\ (p \in InCall <=> p # "idle") /\ pc[w] \in InCall
  BY <1>1 DEF Places, InCall
<1>5. ThreadTypes' /\ CallInv'
  BY <1>1, <1>3, <1>4, ThreadGoes DEF Control
<1> QED BY <1>1, <1>2, <1>3, <1>5, ThreadStepControl

\* The first two steps of a writer's destructor keep the control state.
LEMMA ExitControl ==
    ASSUME Control, NEW w \in Writers, ExitPush(w) \/ ExitStats(w)
    PROVE  Control'
<1>1. /\ UNCHANGED <<coreVars, ev_stop, wpc, lb_stop, to_pull, poolVars, mo_mtk_descs, cur>>
      /\ pc[w] \in {"idle", "pushed"}
  BY DEF ExitPush, ExitStats
<1>2. PICK p \in {"pushed", "counted"} : pc' = [pc EXCEPT ![w] = p]
  BY DEF ExitPush, ExitStats, Goto
<1>3. p \in Places /\ p \notin InCall /\ pc[w] \notin InCall
  BY <1>1 DEF Places, InCall
<1>4. ThreadTypes' /\ CallInv'
  BY <1>1, <1>2, <1>3, ThreadGoes DEF Control
<1> QED BY <1>1, <1>2, <1>4, ThreadStepControl

\* The last reference is dropped when no thread is alive: nobody waits for a buffer.
LEMMA ReleaseControl ==
    ASSUME Control, CoreRelease,
           mu_ref_count = 1 => \A u \in Writers : client[u] = "idle"
    PROVE  /\ PoolTypes' /\ client' = client /\ queue' = queue
           /\ mu_ref_count' = mu_ref_count - 1
           /\ closed' \/ ev_stop' => mu_ref_count = 1 \/ closed \/ ev_stop
           /\ ev_stop => ev_stop'
           /\ ev_stop' \in BOOLEAN
<1>1. CASE mu_ref_count = 1
  <2>1. /\ mu_ref_count' = mu_ref_count - 1 /\ ev_stop' = TRUE /\ closed' = TRUE
        /\ client' = [t \in Writers |-> IF client[t] = "waiting" THEN "refused" ELSE client[t]]
        /\ queue' = <<>> /\ avail' = avail
    BY <1>1 DEF CoreRelease, Pool!Close
  <2>2. client' = client
    BY <1>1, <2>1 DEF Control, PoolTypes
  <2>3. queue = <<>>
    <3>1. queue \in Seq(Writers) /\ \A i \in 1 .. Len(queue) : queue[i] \in Writers
      BY DEF Control, PoolTypes
    <3>2. ~ \E i \in 1 .. Len(queue) : TRUE
      BY <1>1, <3>1 DEF Control, QueueInv
    <3> QED BY <3>1, <3>2
  <2>4. PoolTypes'
    BY <2>1, <2>2, <2>3 DEF Control, PoolTypes
  <2> QED BY <1>1, <2>1, <2>2, <2>3, <2>4
<1>2. CASE mu_ref_count # 1
  <2>1. mu_ref_count' = mu_ref_count - 1 /\ UNCHANGED <<poolVars, ev_stop>>
    BY <1>2 DEF CoreRelease
  <2>2. PoolTypes'
    BY <2>1 DEF Control, PoolTypes
  <2> QED BY <2>1, <2>2 DEF Control, CoreTypes
<1> QED BY <1>1, <1>2

\* The last step of the destructor gives up the entry of the registry and the reference together.
LEMMA UnregisterControl ==
    ASSUME Control, NEW w \in Writers, ExitUnregister(w)
    PROVE  Control'
<1>1. /\ pc[w] = "counted" /\ wpc # "drain" /\ mp_writers' = RemoveFirst(mp_writers, w) /\ CoreRelease
      /\ pc' = [pc EXCEPT ![w] = "gone"]
      /\ UNCHANGED <<owner_ref, cur, mo_mtk_descs, wpc, lb_stop, to_pull>>
  BY DEF ExitUnregister, Goto, WritersLocked
<1>2. \A u \in Writers : pc'[u] = IF u = w THEN "gone" ELSE pc[u]
  BY <1>1 DEF Control, ThreadTypes
<1>3. w \in Alive /\ Alive' = Alive \ {w}
  BY <1>1, <1>2 DEF Alive
<1>4. /\ Cardinality(Alive') = Cardinality(Alive) - 1 /\ Cardinality(Alive) \in Nat /\ Cardinality(Alive') \in Nat
      /\ IsFiniteSet(Alive')
  BY <1>3, AliveFinite, FS_RemoveElement, FS_CardinalityType
<1>5. ASSUME mu_ref_count = 1 PROVE \A u \in Writers : client[u] = "idle"
  <2>1. Cardinality(Alive') = 0
    BY <1>4, <1>5 DEF Control, RefInv
  <2>2. Alive' = {}
    BY <1>4, <2>1, FS_EmptySet
  <2>3. \A u \in Writers : pc[u] \in {"unborn", "gone", "counted"}
    BY <1>1, <1>3, <2>2 DEF Alive
  <2> QED BY <2>3 DEF Control, QueueInv
<1>6. /\ PoolTypes' /\ client' = client /\ queue' = queue
      /\ mu_ref_count' = mu_ref_count - 1
      /\ closed' \/ ev_stop' => mu_ref_count = 1 \/ closed \/ ev_stop
      /\ ev_stop => ev_stop'
      /\ ev_stop' \in BOOLEAN
  BY <1>1, <1>5, ReleaseControl
<1>7. ThreadTypes' /\ CallInv'
  <2>1. "gone" \in Places /\ "gone" \notin InCall /\ pc[w] \notin InCall
    BY <1>1 DEF Places, InCall
  <2> QED BY <1>1, <2>1, ThreadGoes DEF Control
<1>8. QueueInv'
  BY <1>1, <1>2, <1>6 DEF Control, QueueInv
<1>9. /\ mu_ref_count \in Nat /\ mu_ref_count # 0
  BY <1>4 DEF Control, RefInv, CoreTypes
<1>10. /\ mp_writers' \in Seq(Writers)
       /\ \A i, j \in 1 .. Len(mp_writers') : mp_writers'[i] = mp_writers'[j] => i = j
       /\ Range(mp_writers') = Alive'
  <2>1. mp_writers \in Seq(Writers) /\ w \in Range(mp_writers) /\ Range(mp_writers) = Alive
    BY <1>3 DEF Control, CoreTypes, RegistryInv
  <2>2. \A i, j \in 1 .. Len(mp_writers) : mp_writers[i] = mp_writers[j] => i = j
    BY DEF Control, RegistryInv
  <2> QED BY <1>1, <1>3, <2>1, <2>2, RemoveFirstFromInjective
<1>11. CoreTypes'
  BY <1>1, <1>6, <1>9, <1>10 DEF Control, CoreTypes
<1>12. RefInv'
  <2>1. mu_ref_count' = Cardinality(Alive') + (IF owner_ref' THEN 1 ELSE 0)
    BY <1>1, <1>4, <1>6 DEF Control, RefInv, CoreTypes
  <2>2. closed' \/ ev_stop' => mu_ref_count' = 0
    BY <1>6, <1>9 DEF Control, RefInv
  <2> QED BY <1>1, <1>6, <2>1, <2>2 DEF Control, RefInv
<1>13. RegistryInv'
  BY <1>1, <1>10 DEF Control, RegistryInv
<1> QED BY <1>6, <1>7, <1>8, <1>11, <1>12, <1>13 DEF Control

\* p8_release gives up the owner's reference.
LEMMA OwnerControl ==
    ASSUME Control, OwnerRelease
    PROVE  Control'
<1>1. /\ owner_ref /\ owner_ref' = FALSE /\ CoreRelease
      /\ UNCHANGED <<mp_writers, pc, cur, mo_mtk_descs, wpc, lb_stop, to_pull>>
  BY DEF OwnerRelease
<1>2. ASSUME mu_ref_count = 1 PROVE \A u \in Writers : client[u] = "idle"
  <2>1. Cardinality(Alive) = 0
    BY <1>1, <1>2, AliveFinite DEF Control, RefInv
  <2>2. Alive = {}
    BY <2>1, AliveFinite, FS_EmptySet
  <2>3. \A u \in Writers : pc[u] \in {"unborn", "gone"}
    BY <2>2 DEF Alive
  <2> QED BY <2>3 DEF Control, QueueInv
<1>3. /\ PoolTypes' /\ client' = client /\ queue' = queue
      /\ mu_ref_count' = mu_ref_count - 1
      /\ closed' \/ ev_stop' => mu_ref_count = 1 \/ closed \/ ev_stop
      /\ ev_stop => ev_stop'
      /\ ev_stop' \in BOOLEAN
  BY <1>1, <1>2, ReleaseControl
<1>4. mu_ref_count \in Nat /\ mu_ref_count # 0
  BY <1>1, AliveFinite DEF Control, RefInv, CoreTypes
<1>5. Alive' = Alive
  BY <1>1 DEF Alive
<1>6. ThreadTypes' /\ CallInv' /\ QueueInv'
  BY <1>1, <1>3 DEF Control, ThreadTypes, CallInv, Call, QueueInv
<1>7. CoreTypes' /\ RegistryInv'
  <2>1. mu_ref_count' \in Nat
    BY <1>3, <1>4
  <2>2. owner_ref' \in BOOLEAN /\ ev_stop' \in BOOLEAN
    BY <1>1, <1>3
  <2>3. CoreTypes'
    BY <1>1, <2>1, <2>2 DEF Control, CoreTypes
  <2>4. RegistryInv'
    BY <1>1, <1>5 DEF Control, RegistryInv
  <2> QED BY <2>3, <2>4
<1>8. RefInv'
  <2>1. mu_ref_count' = Cardinality(Alive') + (IF owner_ref' THEN 1 ELSE 0)
    BY <1>1, <1>3, <1>5, AliveFinite DEF Control, RefInv, CoreTypes
  <2>2. closed' \/ ev_stop' => mu_ref_count' = 0
    BY <1>3, <1>4 DEF Control, RefInv
  <2> QED BY <1>1, <1>3, <2>1, <2>2 DEF Control, RefInv
<1> QED BY <1>3, <1>6, <1>7, <1>8 DEF Control

\* The worker's steps keep the control state.
LEMMA WorkerControl ==
    ASSUME Control, lo_ready \in Seq(Buffer), WorkerStep
    PROVE  Control'
<1>1. UNCHANGED <<pc, cur, coreVars, mo_mtk_descs, ev_stop>>
  BY DEF WorkerStep, WaitEvent, CollectBegin, Pull, CollectReady, WriteService, RecycleService,
         ClearWakePending, flush_ready
<1>2. /\ UNCHANGED poolVars \/ \E n \in Nat : ReleaseBuffers(n)
      /\ lb_stop' \in BOOLEAN /\ (lb_stop' => ev_stop)
      /\ wpc' \in {"wait", "collect", "drain", "service", "recycle", "flush", "stopped"}
      /\ to_pull' \in Seq(Writers) /\ (wpc' # "drain" => to_pull' = <<>>)
  <2> USE DEF Control, CoreTypes, RegistryInv, RefInv
  <2>1. CASE WaitEvent
    BY <2>1 DEF WaitEvent
  <2>2. CASE CollectBegin
    BY <2>2 DEF CollectBegin
  <2>3. CASE Pull
    BY <2>3 DEF Pull
  <2>4. CASE CollectReady
    BY <2>4 DEF CollectReady
  <2>5. CASE WriteService
    BY <2>5 DEF WriteService
  <2>6. CASE RecycleService
    <3>1. \E n \in Nat : ReleaseBuffers(n)
      BY <2>6 DEF RecycleService
    <3> QED BY <2>6, <3>1 DEF RecycleService
  <2>7. CASE ClearWakePending
    BY <2>7 DEF ClearWakePending
  <2>8. CASE flush_ready
    <3>1. ReleaseBuffers(Len(lo_ready)) /\ Len(lo_ready) \in Nat
      BY <2>8 DEF flush_ready
    <3> QED BY <2>8, <3>1 DEF flush_ready
  <2> QED BY <2>1, <2>2, <2>3, <2>4, <2>5, <2>6, <2>7, <2>8 DEF WorkerStep
<1>3. Calm
  BY <1>2, PoolCalm DEF Control
<1>4. Alive' = Alive
  BY <1>1 DEF Alive
<1>5. ThreadTypes' /\ CallInv'
  BY <1>1 DEF Control, ThreadTypes, CallInv, Call
<1>6. QueueInv'
  BY <1>1, <1>3, CalmQueue DEF Control
<1>7. CoreTypes'
  BY <1>1, <1>2 DEF Control, CoreTypes
<1>8. RefInv'
  BY <1>1, <1>2, <1>3, <1>4 DEF Control, RefInv, Calm
<1>9. RegistryInv'
  BY <1>1, <1>2, <1>4 DEF Control, RegistryInv
<1> QED BY <1>3, <1>5, <1>6, <1>7, <1>8, <1>9 DEF Control, Calm

\* Every step keeps the control state.
LEMMA ControlStep ==
    ASSUME Control, lo_ready \in Seq(Buffer), [Next]_vars
    PROVE  Control'
<1>1. ASSUME NEW w \in Writers, WriterStep(w) PROVE Control'
  BY <1>1, CreateControl, RegisterControl, SendControl, ResolveControl, AcquireTryControl,
     AcquireWaitControl, WriteControl, ExitControl, UnregisterControl
     DEF WriterStep, CallStep, ExitStep
<1>2. CASE Stopped \/ UNCHANGED vars
  <2>1. UNCHANGED <<poolVars, pc, cur, mo_mtk_descs, coreVars, ev_stop, wpc, lb_stop, to_pull>>
    BY <1>2 DEF Stopped, vars
  <2>2. PoolTypes' /\ ThreadTypes' /\ CoreTypes'
    BY <2>1 DEF Control, PoolTypes, ThreadTypes, CoreTypes
  <2>3. CallInv' /\ QueueInv'
    BY <2>1 DEF Control, CallInv, Call, QueueInv
  <2>4. Alive' = Alive
    BY <2>1 DEF Alive
  <2>5. RefInv' /\ RegistryInv'
    BY <2>1, <2>4 DEF Control, RefInv, RegistryInv
  <2> QED BY <2>2, <2>3, <2>5 DEF Control
<1> QED BY <1>1, <1>2, OwnerControl, WorkerControl DEF Next

-------------------------------------------------------------------------------
(*****************************************************************************)
(* A writer's buffers among others, and the records in them.                 *)
(*****************************************************************************)

\* Induction over sequences, with the predicate as the set of its sequences.
LEMMA SeqSetInduction ==
    ASSUME NEW S, NEW T, <<>> \in T, \A s \in Seq(S) : \A e \in S : s \in T => Append(s, e) \in T
    PROVE  Seq(S) \subseteq T
<1> DEFINE N == {n \in Nat : \A s \in Seq(S) : Len(s) = n => s \in T}
<1>1. 0 \in N
  OBVIOUS
<1>2. ASSUME NEW n \in Nat, n \in N PROVE n + 1 \in N
  <2> SUFFICES ASSUME NEW s \in Seq(S), Len(s) = n + 1 PROVE s \in T
    OBVIOUS
  <2>1. PICK t \in Seq(S), e \in S : s = Append(t, e)
    BY SequenceEmptyOrAppend
  <2>2. Len(t) = n
    BY <2>1
  <2> QED BY <1>2, <2>1, <2>2
<1>3. Nat \subseteq N
  BY <1>1, <1>2, NatSetInduction, Zenon
<1> QED BY <1>3

\* OfWriter and RecordsOf, one buffer at a time.
LEMMA OfWriterEmpty == \A w : OfWriter(<<>>, w) = <<>>
<1> SUFFICES ASSUME NEW w PROVE OfWriter(<<>>, w) = <<>>
  OBVIOUS
<1>1. [i \in DOMAIN <<>> |-> IF <<>>[i].w = w THEN <<<<>>[i]>> ELSE <<>>] = <<>>
  OBVIOUS
<1> QED BY <1>1, FlatEmpty DEF OfWriter

\* A writer's pieces of a sequence of buffers: one buffer, or none.
Sel(s, w) == [i \in DOMAIN s |-> IF s[i].w = w THEN <<s[i]>> ELSE <<>>]

\* Selecting a writer's buffers gives pieces of one buffer or none.
LEMMA SelIn ==
    ASSUME NEW S, NEW s \in Seq(S), NEW w, NEW A,
           \A i \in 1 .. Len(s) : (IF s[i].w = w THEN <<s[i]>> ELSE <<>>) \in A
    PROVE  Sel(s, w) \in Seq(A)
<1>1. DOMAIN s = 1 .. Len(s) /\ Len(s) \in Nat
  OBVIOUS
<1>2. Sel(s, w) \in [1 .. Len(s) -> A]
  BY <1>1 DEF Sel
<1> QED BY <1>1, <1>2, SeqDef

\* The pieces are sequences of the same buffers.
LEMMA SelType ==
    ASSUME NEW S, NEW s \in Seq(S), NEW w
    PROVE  Sel(s, w) \in Seq(Seq(S))
<1>1. \A i \in 1 .. Len(s) : s[i] \in S /\ <<s[i]>> \in Seq(S) /\ <<>> \in Seq(S)
  OBVIOUS
<1>2. PICK A : A = Seq(S)
  OBVIOUS
<1>3. \A i \in 1 .. Len(s) : (IF s[i].w = w THEN <<s[i]>> ELSE <<>>) \in A
  BY <1>1, <1>2
<1>4. Sel(s, w) \in Seq(A)
  BY <1>3, SelIn
<1> QED BY <1>2, <1>4

\* One more buffer is one more piece.
LEMMA SelAppend ==
    ASSUME NEW S, NEW s \in Seq(S), NEW w, NEW b \in S
    PROVE  Sel(Append(s, b), w) = Append(Sel(s, w), IF b.w = w THEN <<b>> ELSE <<>>)
  BY DEF Sel

\* OfWriter is the concatenation of a writer's pieces.
LEMMA OfWriterSel == \A s, w : OfWriter(s, w) = FlattenSeq(Sel(s, w))
  BY DEF OfWriter, Sel

\* A buffer behind others is the last of its writer's, and nobody else's.
LEMMA OfWriterAppend ==
    ASSUME NEW S, NEW s \in Seq(S), NEW b \in S, NEW w
    PROVE  OfWriter(Append(s, b), w) = IF b.w = w THEN Append(OfWriter(s, w), b) ELSE OfWriter(s, w)
<1>1. PICK x : x = IF b.w = w THEN <<b>> ELSE <<>>
  OBVIOUS
<1>2. PICK ss : ss = Sel(s, w)
  OBVIOUS
<1>3. x \in Seq(S) /\ ss \in Seq(Seq(S))
  BY <1>1, <1>2, SelType
<1>4. FlattenSeq(Append(ss, x)) = FlattenSeq(ss) \o x
  BY <1>3, FlatAppend
<1>5. FlattenSeq(ss) \in Seq(S)
  BY <1>3, FlatType
<1>6. OfWriter(Append(s, b), w) = FlattenSeq(Append(ss, x)) /\ OfWriter(s, w) = FlattenSeq(ss)
  <2>1. Sel(Append(s, b), w) = Append(ss, x)
    BY <1>1, <1>2, SelAppend
  <2> QED BY <1>2, <2>1, OfWriterSel
<1>7. PICK f : f = FlattenSeq(ss)
  OBVIOUS
<1>8. f \in Seq(S)
  BY <1>5, <1>7
<1>9. f \o <<b>> = Append(f, b) /\ f \o <<>> = f
  BY <1>8
<1> QED BY <1>1, <1>4, <1>6, <1>7, <1>9

\* A writer's buffers are buffers.
LEMMA OfWriterType ==
    ASSUME NEW S, NEW s \in Seq(S), NEW w
    PROVE  OfWriter(s, w) \in Seq(S)
  BY SelType, FlatType DEF OfWriter, Sel

\* A writer's buffers in two sequences are those of the first and those of the second.
LEMMA OfWriterConcat ==
    ASSUME NEW S, NEW s \in Seq(S), NEW t \in Seq(S), NEW w
    PROVE  OfWriter(s \o t, w) = OfWriter(s, w) \o OfWriter(t, w)
<1> DEFINE T == {u \in Seq(S) : OfWriter(s \o u, w) = OfWriter(s, w) \o OfWriter(u, w)}
<1>1. <<>> \in T
  <2>1. PICK f : f = OfWriter(s, w)
    OBVIOUS
  <2>2. f \in Seq(S)
    BY <2>1, OfWriterType
  <2>3. s \o <<>> = s /\ f \o <<>> = f /\ <<>> \in Seq(S)
    BY <2>2
  <2>4. OfWriter(s \o <<>>, w) = OfWriter(s, w) \o OfWriter(<<>>, w)
    BY <2>1, <2>3, OfWriterEmpty
  <2> QED BY <2>3, <2>4
<1>2. ASSUME NEW u \in Seq(S), NEW b \in S, u \in T PROVE Append(u, b) \in T
  <2>1. PICK p : p = s \o u
    OBVIOUS
  <2>2. p \in Seq(S) /\ s \o Append(u, b) = Append(p, b)
    BY <2>1
  <2>3. PICK f : f = OfWriter(s, w)
    OBVIOUS
  <2>4. PICK g : g = OfWriter(u, w)
    OBVIOUS
  <2>5. f \in Seq(S) /\ g \in Seq(S)
    BY <2>3, <2>4, OfWriterType
  <2>6. OfWriter(p, w) = f \o g
    BY <1>2, <2>1, <2>3, <2>4
  <2>7. f \o Append(g, b) = Append(f \o g, b)
    BY <2>5
  <2>8. OfWriter(Append(u, b), w) = IF b.w = w THEN Append(g, b) ELSE g
    BY <2>4, OfWriterAppend
  <2>9. OfWriter(Append(p, b), w) = IF b.w = w THEN Append(f \o g, b) ELSE f \o g
    <3>1. OfWriter(Append(p, b), w) = IF b.w = w THEN Append(OfWriter(p, w), b) ELSE OfWriter(p, w)
      BY <2>2, OfWriterAppend
    <3> QED BY <2>6, <3>1
  <2>10. OfWriter(s \o Append(u, b), w) = OfWriter(s, w) \o OfWriter(Append(u, b), w)
    BY <2>2, <2>3, <2>7, <2>8, <2>9
  <2>11. Append(u, b) \in Seq(S)
    OBVIOUS
  <2> QED BY <2>10, <2>11
<1>3. Seq(S) \subseteq T
  <2> HIDE DEF T
  <2> QED BY <1>1, <1>2, SeqSetInduction, Zenon
<1> QED BY <1>3

\* A sequence of one writer is all its own.
LEMMA OfWriterOwn ==
    ASSUME NEW S, NEW s \in Seq(S), NEW w, \A b \in Range(s) : b.w = w
    PROVE  OfWriter(s, w) = s
<1> DEFINE T == {u \in Seq(S) : (\A i \in 1 .. Len(u) : u[i].w = w) => OfWriter(u, w) = u}
<1>1. <<>> \in T
  BY OfWriterEmpty
<1>2. ASSUME NEW u \in Seq(S), NEW b \in S, u \in T PROVE Append(u, b) \in T
  <2> SUFFICES ASSUME \A i \in 1 .. Len(Append(u, b)) : Append(u, b)[i].w = w
               PROVE  OfWriter(Append(u, b), w) = Append(u, b)
    <3>1. Append(u, b) \in Seq(S)
      OBVIOUS
    <3> QED BY <3>1
  <2>1. (\A i \in 1 .. Len(u) : u[i].w = w) /\ b.w = w
    <3>1. Len(u) \in Nat /\ Len(Append(u, b)) = Len(u) + 1 /\ Append(u, b)[Len(u) + 1] = b
      OBVIOUS
    <3>2. \A i \in 1 .. Len(u) : i \in 1 .. Len(Append(u, b)) /\ Append(u, b)[i] = u[i]
      OBVIOUS
    <3> QED BY <3>1, <3>2
  <2>2. OfWriter(Append(u, b), w) = IF b.w = w THEN Append(OfWriter(u, w), b) ELSE OfWriter(u, w)
    BY OfWriterAppend
  <2> QED BY <1>2, <2>1, <2>2
<1>3. Seq(S) \subseteq T
  <2> HIDE DEF T
  <2> QED BY <1>1, <1>2, SeqSetInduction, Zenon
<1>4. \A i \in 1 .. Len(s) : s[i].w = w
  BY DEF Range
<1> QED BY <1>3, <1>4

\* A sequence of other writers holds none of it.
LEMMA OfWriterOther ==
    ASSUME NEW S, NEW s \in Seq(S), NEW w, \A b \in Range(s) : b.w # w
    PROVE  OfWriter(s, w) = <<>>
<1> DEFINE T == {u \in Seq(S) : (\A i \in 1 .. Len(u) : u[i].w # w) => OfWriter(u, w) = <<>>}
<1>1. <<>> \in T
  BY OfWriterEmpty
<1>2. ASSUME NEW u \in Seq(S), NEW b \in S, u \in T PROVE Append(u, b) \in T
  <2> SUFFICES ASSUME \A i \in 1 .. Len(Append(u, b)) : Append(u, b)[i].w # w
               PROVE  OfWriter(Append(u, b), w) = <<>>
    <3>1. Append(u, b) \in Seq(S)
      OBVIOUS
    <3> QED BY <3>1
  <2>1. (\A i \in 1 .. Len(u) : u[i].w # w) /\ b.w # w
    <3>1. Len(u) \in Nat /\ Len(Append(u, b)) = Len(u) + 1 /\ Append(u, b)[Len(u) + 1] = b
      OBVIOUS
    <3>2. \A i \in 1 .. Len(u) : i \in 1 .. Len(Append(u, b)) /\ Append(u, b)[i] = u[i]
      OBVIOUS
    <3> QED BY <3>1, <3>2
  <2>2. OfWriter(Append(u, b), w) = IF b.w = w THEN Append(OfWriter(u, w), b) ELSE OfWriter(u, w)
    BY OfWriterAppend
  <2> QED BY <1>2, <2>1, <2>2
<1>3. Seq(S) \subseteq T
  <2> HIDE DEF T
  <2> QED BY <1>1, <1>2, SeqSetInduction, Zenon
<1>4. \A i \in 1 .. Len(s) : s[i].w # w
  BY DEF Range
<1> QED BY <1>3, <1>4

\* No buffers, no records.
LEMMA RecordsEmpty == RecordsOf(<<>>) = <<>>
<1>1. [i \in DOMAIN <<>> |-> <<>>[i].recs] = <<>>
  OBVIOUS
<1> QED BY <1>1, FlatEmpty DEF RecordsOf

\* The records of each buffer.
RecSeqs(s) == [i \in DOMAIN s |-> s[i].recs]

\* The records of each buffer are descriptors of records.
LEMMA RecSeqsType ==
    ASSUME NEW s \in Seq(Buffer)
    PROVE  RecSeqs(s) \in Seq(Seq(Descs))
<1>1. PICK A : A = Seq(Descs)
  OBVIOUS
<1>2. \A b \in Buffer : b.recs \in A
  BY <1>1 DEF Buffer
<1>3. \A i \in 1 .. Len(s) : s[i] \in Buffer
  OBVIOUS
<1>4. \A i \in 1 .. Len(s) : s[i].recs \in A
  BY <1>2, <1>3
<1>5. RecSeqs(s) \in Seq(A)
  BY <1>4 DEF RecSeqs
<1> QED BY <1>1, <1>5

\* The records of a stream are descriptors of records.
LEMMA RecordsType ==
    ASSUME NEW s \in Seq(Buffer)
    PROVE  RecordsOf(s) \in Seq(Descs)
  BY RecSeqsType, FlatType DEF RecordsOf, RecSeqs

\* A buffer behind a stream puts its records behind those of the stream.
LEMMA RecordsAppend ==
    ASSUME NEW s \in Seq(Buffer), NEW b \in Buffer
    PROVE  RecordsOf(Append(s, b)) = RecordsOf(s) \o b.recs
<1>1. RecSeqs(Append(s, b)) = Append(RecSeqs(s), b.recs)
  BY DEF RecSeqs
<1>2. b.recs \in Seq(Descs)
  BY DEF Buffer
<1>3. PICK ss : ss = RecSeqs(s)
  OBVIOUS
<1>4. ss \in Seq(Seq(Descs))
  BY <1>3, RecSeqsType
<1>5. FlattenSeq(Append(ss, b.recs)) = FlattenSeq(ss) \o b.recs
  BY <1>2, <1>4, FlatAppend
<1> QED BY <1>1, <1>3, <1>5 DEF RecordsOf, RecSeqs

\* Joining streams joins their buffers' records.
LEMMA RecSeqsConcat ==
    ASSUME NEW S, NEW s \in Seq(S), NEW t \in Seq(S)
    PROVE  RecSeqs(s \o t) = RecSeqs(s) \o RecSeqs(t)
<1>1. PICK n : n = Len(s)
  OBVIOUS
<1>2. PICK m : m = Len(t)
  OBVIOUS
<1>3. PICK p : p = s \o t
  OBVIOUS
<1>4. /\ n \in Nat /\ m \in Nat /\ DOMAIN s = 1 .. n /\ DOMAIN t = 1 .. m /\ DOMAIN p = 1 .. n + m
      /\ \A i \in 1 .. n + m : p[i] = IF i <= n THEN s[i] ELSE t[i - n]
  BY <1>1, <1>2, <1>3
<1>5. /\ RecSeqs(s) = [i \in 1 .. n |-> s[i].recs] /\ RecSeqs(t) = [i \in 1 .. m |-> t[i].recs]
      /\ RecSeqs(p) = [i \in 1 .. n + m |-> p[i].recs]
  BY <1>4 DEF RecSeqs
<1>6. PICK A : A = {x.recs : x \in S}
  OBVIOUS
<1>7. RecSeqs(s) \in Seq(A) /\ RecSeqs(t) \in Seq(A) /\ RecSeqs(p) \in Seq(A)
  <2>1. \A i \in 1 .. n : s[i].recs \in A
    BY <1>1, <1>6
  <2>2. \A i \in 1 .. m : t[i].recs \in A
    BY <1>2, <1>6
  <2>3. \A i \in 1 .. n + m : p[i].recs \in A
    <3> SUFFICES ASSUME NEW i \in 1 .. n + m PROVE p[i].recs \in A
      OBVIOUS
    <3> QED BY <1>4, <2>1, <2>2
  <2> QED BY <1>4, <1>5, <2>1, <2>2, <2>3
<1>8. RecSeqs(p) = RecSeqs(s) \o RecSeqs(t)
  <2>1. PICK a : a = RecSeqs(s)
    OBVIOUS
  <2>2. PICK b : b = RecSeqs(t)
    OBVIOUS
  <2>3. a \in Seq(A) /\ b \in Seq(A) /\ Len(a) = n /\ Len(b) = m
    BY <1>4, <1>5, <1>7, <2>1, <2>2
  <2>4. \A i \in 1 .. n + m : RecSeqs(p)[i] = (a \o b)[i]
    BY <1>4, <1>5, <2>1, <2>2, <2>3
  <2>5. a \o b \in Seq(A) /\ Len(a \o b) = n + m /\ Len(RecSeqs(p)) = n + m
    <3>1. a \o b \in Seq(A) /\ Len(a \o b) = n + m
      <4>1. a \in Seq(A) /\ b \in Seq(A)
        BY <2>3
      <4>2. a \o b \in Seq(A) /\ Len(a \o b) = Len(a) + Len(b)
        BY <4>1, ConcatProperties
      <4> QED BY <2>3, <4>2
    <3>2. Len(RecSeqs(p)) = n + m
      BY <1>4, <1>5
    <3> QED BY <3>1, <3>2
  <2> QED BY <1>7, <2>1, <2>2, <2>4, <2>5, SeqEqual
<1> QED BY <1>3, <1>8

\* The records of two streams joined are those of the first and those of the second.
LEMMA RecordsConcat ==
    ASSUME NEW s \in Seq(Buffer), NEW t \in Seq(Buffer)
    PROVE  RecordsOf(s \o t) = RecordsOf(s) \o RecordsOf(t)
<1>1. RecSeqs(s \o t) = RecSeqs(s) \o RecSeqs(t)
  BY RecSeqsConcat
<1>2. PICK ss : ss = RecSeqs(s)
  OBVIOUS
<1>3. PICK tt : tt = RecSeqs(t)
  OBVIOUS
<1>4. ss \in Seq(Seq(Descs)) /\ tt \in Seq(Seq(Descs))
  BY <1>2, <1>3, RecSeqsType
<1>5. FlattenSeq(ss \o tt) = FlattenSeq(ss) \o FlattenSeq(tt)
  BY <1>4, FlatConcat
<1> QED BY <1>1, <1>2, <1>3, <1>5 DEF RecordsOf, RecSeqs

\* The records of a stream are the records of its buffers.
LEMMA RecordsRange ==
    ASSUME NEW s \in Seq(Buffer)
    PROVE  Range(RecordsOf(s)) = UNION {Range(b.recs) : b \in Range(s)}
<1>1. PICK ss : ss = RecSeqs(s)
  OBVIOUS
<1>2. ss \in Seq(Seq(Descs))
  BY <1>1, RecSeqsType
<1>3. Range(FlattenSeq(ss)) = UNION {Range(ss[i]) : i \in 1 .. Len(ss)}
  BY <1>2, FlatRange
<1>4. Len(ss) = Len(s) /\ \A i \in 1 .. Len(s) : ss[i] = s[i].recs
  BY <1>1 DEF RecSeqs
<1>5. UNION {Range(ss[i]) : i \in 1 .. Len(ss)} = UNION {Range(b.recs) : b \in Range(s)}
  BY <1>4 DEF Range
<1>6. RecordsOf(s) = FlattenSeq(ss)
  BY <1>1 DEF RecordsOf, RecSeqs
<1> QED BY <1>3, <1>5, <1>6
-------------------------------------------------------------------------------
(*****************************************************************************)
(* What the critical section does to the buffers, and who holds them.        *)
(*****************************************************************************)

USE DEF poolVars, bufVars, recVars, coreVars, descVars, svcVars, wakeVars, workerVars, producerVars

\* The data buffers, wherever they are, and the counters that number them.
BufferTypes ==
    /\ mp_buffer \in [Writers -> Seq(Buffer)] /\ mo_fragments \in [Writers -> Seq(Buffer)]
    /\ mo_ready_queue \in Seq(Buffer) /\ lo_ready \in Seq(Buffer)
    /\ sink_data \in [Writers -> Seq(Buffer)]
    /\ mu_buf_seq \in [Writers -> Nat]
    /\ accepted \in [Writers -> Nat]

\* The places of a thread whose writer has handed its buffers over.
Exited == {"pushed", "counted", "gone"}

\* Where a thread may hold buffers: it has one tail at most, fills the buffers it holds
\* with its own records, and has none when it exits.
HeldInv ==
    /\ \A w \in Writers :
          /\ Len(mp_buffer[w]) <= 1
          /\ \A b \in Range(Held(w)) : b.w = w /\ b.used > 0
          /\ pc[w] \in Exited \cup {"unborn"} => Held(w) = <<>>
          /\ pc[w] \in {"acquire", "have"} => mp_buffer[w] = <<>>
    /\ \A b \in Range(mo_ready_queue) : pc[b.w] \in Exited

\* A sequence that is not empty and has at most one element has one.
LEMMA SeqOfOne ==
    ASSUME NEW S, NEW t \in Seq(S), t # <<>>, Len(t) <= 1
    PROVE  Len(t) = 1 /\ t[1] \in S /\ t = <<t[1]>>
<1>1. Len(t) = 1
  <2>1. Len(t) \in Nat \ {0}
    BY EmptySeq
  <2>2. \A n \in Nat \ {0} : n <= 1 => n = 1
    OBVIOUS
  <2> QED BY ONLY <2>1, <2>2, Len(t) <= 1
<1>2. t[1] \in S
  BY <1>1
<1>3. PICK x : x = t[1]
  OBVIOUS
<1>4. <<x>> \in Seq(S) /\ Len(<<x>>) = 1 /\ <<x>>[1] = x
  BY <1>2, <1>3
<1>5. t = <<x>>
  BY <1>1, <1>3, <1>4, SeqEqual
<1> QED BY <1>1, <1>2, <1>3, <1>5

\* A writer's buffers are buffers.
LEMMA HeldType ==
    ASSUME BufferTypes, NEW w \in Writers
    PROVE  /\ Held(w) \in Seq(Buffer) /\ mo_fragments[w] \in Seq(Buffer) /\ mp_buffer[w] \in Seq(Buffer)
           /\ Len(mp_buffer[w]) \in Nat
<1>1. mo_fragments[w] \in Seq(Buffer) /\ mp_buffer[w] \in Seq(Buffer)
  BY DEF BufferTypes
<1> QED BY <1>1, ConcatProperties DEF Held

\* The buffer b a record goes to, and the number n of the one behind it.
IsTail(w, b, n) ==
    pc[w] = "lock" /\ Held(w) = Append(mo_fragments[w], b) /\ n = mu_buf_seq[w] /\ b.used > 0
\* The same for the buffer a thread came back with from acquire_buffer(true).
IsFresh(w, b, n) ==
    pc[w] = "have" /\ Held(w) = mo_fragments[w] /\ n = mu_buf_seq[w] + 1 /\ b = NewBuffer(w)

\* A new buffer is empty and carries the next number.
LEMMA FreshBuffer ==
    ASSUME BufferTypes, NEW w \in Writers
    PROVE  /\ NewBuffer(w) \in Buffer
           /\ NewBuffer(w).w = w /\ NewBuffer(w).seq = mu_buf_seq[w] /\ NewBuffer(w).used = 0
           /\ NewBuffer(w).recs = <<>> /\ NewBuffer(w).frag = FALSE
<1>1. mu_buf_seq[w] \in Nat /\ 0 \in 0 .. BufCells /\ <<>> \in Seq(Descs)
  BY PipelineAssumption DEF BufferTypes
<1> QED BY <1>1 DEF NewBuffer, Buffer

\* The thread unlocks to wait for a buffer, and has no tail then.
Parks(w) ==
    /\ pc[w] = "lock"
    /\ mo_fragments' = [mo_fragments EXCEPT ![w] = Held(w)]
    /\ mp_buffer' = [mp_buffer EXCEPT ![w] = <<>>]
    /\ pc' = [pc EXCEPT ![w] = "acquire"]
    /\ UNCHANGED <<mu_buf_seq, recVars, cur, poolVars, wakeVars>>

\* The record is written to b, or dropped, and the call ends.
Writes(w, b, n) ==
    /\ WriteWhole(w, b, n) \/ WriteFragmented(w, b, n) \/ Discard(w, b, n)
    /\ pc' = [pc EXCEPT ![w] = "idle"]
    /\ cur' = [cur EXCEPT ![w] = <<>>]

\* The critical section either gives up the lock to wait for a buffer, or writes the record into
\* the tail buffer or into a new one that has room for it to begin.
LEMMA WriteBase ==
    ASSUME Control, BufferTypes, HeldInv, NEW w \in Writers, LockWriter(w) \/ InstallBuffer(w)
    PROVE  /\ Parks(w) \/ \E b \in Buffer, n \in Nat :
                 /\ b.w = w /\ Room(b) >= StartRoom(w)
                 /\ IsTail(w, b, n) \/ IsFresh(w, b, n)
                 /\ Writes(w, b, n)
           /\ pc[w] \in {"lock", "have"}
           /\ UNCHANGED <<sink_data, lo_ready, mo_ready_queue, wpc, to_pull, due, descVars, svcVars, sink_svc, lo_bufs,
                          mp_writers, mu_dropped_total, lb_stop>>
<1>1. /\ pc[w] \in {"lock", "have"}
      /\ UNCHANGED <<sink_data, lo_ready, mo_ready_queue, wpc, to_pull, due, descVars, svcVars, sink_svc, lo_bufs,
                     mp_writers, mu_dropped_total, lb_stop>>
  <2>1. CASE LockWriter(w)
    BY <2>1 DEF LockWriter
  <2>2. CASE InstallBuffer(w)
    BY <2>2 DEF InstallBuffer
  <2> QED BY <2>1, <2>2
<1>2. CASE LockWriter(w) /\ mp_buffer[w] # <<>> /\ Room(mp_buffer[w][1]) >= StartRoom(w)
  <2>1. PICK b : b = mp_buffer[w][1]
    OBVIOUS
  <2>2. PICK n : n = mu_buf_seq[w]
    OBVIOUS
  <2>3. Writes(w, b, n) /\ Room(b) >= StartRoom(w) /\ pc[w] = "lock"
    BY <1>2, <2>1, <2>2 DEF LockWriter, Writes, Goto
  <2>4. /\ mp_buffer[w] \in Seq(Buffer) /\ Len(mp_buffer[w]) <= 1 /\ mo_fragments[w] \in Seq(Buffer)
        /\ n \in Nat
    BY <2>2 DEF BufferTypes, HeldInv
  <2>5. PICK t : t = mp_buffer[w]
    OBVIOUS
  <2>6. Len(t) = 1 /\ t = <<b>> /\ b \in Buffer
    BY <1>2, <2>1, <2>4, <2>5, SeqOfOne
  <2>7. PICK f : f = mo_fragments[w]
    OBVIOUS
  <2>8. f \o t = Append(f, b)
    BY <2>4, <2>6, <2>7
  <2>9. Held(w) = Append(mo_fragments[w], b)
    BY <2>5, <2>7, <2>8 DEF Held
  <2>10. b \in Range(Append(f, b))
    <3>1. Append(f, b) \in Seq(Buffer) /\ Len(f) + 1 \in 1 .. Len(Append(f, b)) /\ Append(f, b)[Len(f) + 1] = b
      BY <2>4, <2>6, <2>7
    <3> QED BY <3>1 DEF Range
  <2>11. b.w = w /\ b.used > 0
    BY <2>7, <2>9, <2>10 DEF HeldInv
  <2> QED BY <1>1, <2>2, <2>3, <2>4, <2>6, <2>9, <2>11 DEF IsTail
<1>3. CASE LockWriter(w) /\ ~(mp_buffer[w] # <<>> /\ Room(mp_buffer[w][1]) >= StartRoom(w))
  BY <1>1, <1>3 DEF LockWriter, Parks, Goto
<1>4. CASE InstallBuffer(w)
  <2>1. PICK b : b = NewBuffer(w)
    OBVIOUS
  <2>2. PICK n : n = mu_buf_seq[w] + 1
    OBVIOUS
  <2>3. Writes(w, b, n) /\ pc[w] = "have"
    BY <1>4, <2>1, <2>2 DEF InstallBuffer, Writes, Goto
  <2>4. mp_buffer[w] = <<>> /\ mo_fragments[w] \in Seq(Buffer) /\ n \in Nat
    BY <2>2, <2>3 DEF HeldInv, BufferTypes
  <2>5. PICK f : f = mo_fragments[w]
    OBVIOUS
  <2>6. f \o <<>> = f
    BY <2>4, <2>5
  <2>7. Held(w) = mo_fragments[w]
    BY <2>4, <2>5, <2>6 DEF Held
  <2>8. b \in Buffer /\ b.w = w /\ b.used = 0
    BY <2>1, FreshBuffer
  <2>9. Room(b) >= StartRoom(w)
    BY <2>8, PipelineAssumption DEF Room, StartRoom
  <2> QED BY <1>1, <2>1, <2>2, <2>3, <2>4, <2>7, <2>8, <2>9 DEF IsFresh
<1> QED BY <1>2, <1>3, <1>4

\* A written buffer joins the writer's buffers as its tail or, when it is full, as the last
\* finished one.
LEMMA KeepHeld ==
    ASSUME BufferTypes, NEW w \in Writers, NEW frags \in Seq(Buffer), NEW c \in Buffer, Keep(w, frags, c)
    PROVE  /\ mp_buffer' \in [Writers -> Seq(Buffer)] /\ mo_fragments' \in [Writers -> Seq(Buffer)]
           /\ Held(w)' = Append(frags, c) /\ Len(mp_buffer'[w]) <= 1
           /\ \A u \in Writers : u # w => mp_buffer'[u] = mp_buffer[u] /\ mo_fragments'[u] = mo_fragments[u]
<1>1. Append(frags, c) \in Seq(Buffer) /\ <<>> \in Seq(Buffer) /\ <<c>> \in Seq(Buffer)
  OBVIOUS
<1>2. Append(frags, c) \o <<>> = Append(frags, c) /\ frags \o <<c>> = Append(frags, c)
  OBVIOUS
<1>3. CASE Room(c) < EndRoom(w)
  <2>1. mo_fragments' = [mo_fragments EXCEPT ![w] = Append(frags, c)] /\ mp_buffer' = [mp_buffer EXCEPT ![w] = <<>>]
    BY <1>3 DEF Keep
  <2>2. mo_fragments'[w] = Append(frags, c) /\ mp_buffer'[w] = <<>>
    BY <2>1 DEF BufferTypes
  <2> QED BY <1>1, <1>2, <2>1, <2>2 DEF BufferTypes, Held
<1>4. CASE ~(Room(c) < EndRoom(w))
  <2>1. mo_fragments' = [mo_fragments EXCEPT ![w] = frags] /\ mp_buffer' = [mp_buffer EXCEPT ![w] = <<c>>]
    BY <1>4 DEF Keep
  <2>2. mo_fragments'[w] = frags /\ mp_buffer'[w] = <<c>>
    BY <2>1 DEF BufferTypes
  <2> QED BY <1>1, <1>2, <2>1, <2>2 DEF BufferTypes, Held
<1> QED BY <1>3, <1>4

\* What can become of a record: it ends in the buffer it began in, it runs over into a
\* second one, or it is dropped.
Continues(c, b, d) == c.w = b.w /\ c.seq = b.seq /\ c.used > 0 /\ c.recs = Append(b.recs, d)
\* The buffer that holds the rest of a record that began in another.
BeginsBehind(e, w, n) == e.w = w /\ e.seq = n /\ e.used > 0 /\ e.recs = <<>> /\ e.frag = FALSE
\* The API returns true.
Counts(w) == accepted' = [accepted EXCEPT ![w] = accepted[w] + 1]

\* The record ends in the buffer it began in.
EndsWhole(w, b, n) ==
    /\ UNCHANGED poolVars
    /\ \E c \in Buffer :
          /\ Continues(c, b, cur[w][1].d) /\ c.frag = b.frag
          /\ Held(w)' = Append(mo_fragments[w], c)
          /\ mu_buf_seq' = [mu_buf_seq EXCEPT ![w] = n]
          /\ Counts(w)
\* The record runs over into a second buffer, which was free at once.
EndsSplit(w, b, n) ==
    /\ TakeBuffer(w)
    /\ \E c \in Buffer, e \in Buffer :
          /\ Continues(c, b, cur[w][1].d) /\ BeginsBehind(e, w, n)
          /\ Held(w)' = Append(Append(mo_fragments[w], c), e)
          /\ mu_buf_seq' = [mu_buf_seq EXCEPT ![w] = n + 1]
          /\ Counts(w)
\* No second buffer was free: the record is rolled back, and a buffer that is empty again goes
\* back with its number.
EndsDropped(w, b, n) ==
    /\ b.used = 0 => ReleaseBuffers(1)
    /\ b.used # 0 => UNCHANGED poolVars
    /\ Held(w)' = IF b.used = 0 THEN mo_fragments[w] ELSE Append(mo_fragments[w], b)
    /\ mu_buf_seq' = [mu_buf_seq EXCEPT ![w] = IF b.used = 0 THEN n - 1 ELSE n]
    /\ accepted' = accepted

\* The record a thread in a call sends, and the room it needs.
LEMMA RecordSize ==
    ASSUME Control, NEW w \in Writers, pc[w] \in {"lock", "have"}, NEW b \in Buffer, Room(b) >= StartRoom(w)
    PROVE  /\ cur[w][1].d \in Descs /\ cur[w][1].size \in Nat \ {0}
           /\ b.used \in 0 .. BufCells /\ Room(b) = BufCells - b.used /\ b.used < BufCells
           /\ cur[w][1].size - Room(b) <= BufCells
<1>1. cur[w][1] \in Call(w)
  BY DEF Control, CallInv, InCall
<1>2. PICK r : r = cur[w][1]
  OBVIOUS
<1>3. /\ MinSpace \in Nat \ {0} /\ HdrCells \in Nat \ {0} /\ BufCells \in Nat \ {0} /\ MtkSize \in Nat \ {0}
      /\ MtkSize <= BufCells /\ LogSizes \subseteq HdrCells .. BufCells + HdrCells + MinSpace
  BY PipelineAssumption
<1>4. b.used \in 0 .. BufCells /\ Room(b) = BufCells - b.used
  BY DEF Buffer, Room
<1>5. CASE w \in LogWriters
  <2>1. r.d \in LogDescs /\ r.size \in LogSizes
    BY <1>1, <1>2, <1>5 DEF Call
  <2>2. Room(b) >= MinSpace + HdrCells
    BY <1>5 DEF StartRoom
  <2>3. r.size \in HdrCells .. BufCells + HdrCells + MinSpace
    BY <1>3, <2>1
  <2> QED BY <1>2, <1>3, <1>4, <2>1, <2>2, <2>3 DEF Descs
<1>6. CASE w \notin LogWriters
  <2>1. r.d \in MtkIds /\ r.size = MtkSize
    BY <1>1, <1>2, <1>6 DEF Call
  <2>2. Room(b) >= MtkSize
    BY <1>6 DEF StartRoom
  <2> QED BY <1>2, <1>3, <1>4, <2>1, <2>2 DEF Descs
<1> QED BY <1>5, <1>6

\* Writing a record ends in one of three ways: it is whole in one buffer, it goes on in a second
\* one, or it is rolled back and dropped.
LEMMA WriteOutcome ==
    ASSUME Control, BufferTypes, HeldInv, NEW w \in Writers, pc[w] \in {"lock", "have"},
           NEW b \in Buffer, NEW n \in Nat, b.w = w, Room(b) >= StartRoom(w),
           IsTail(w, b, n) \/ IsFresh(w, b, n), Writes(w, b, n)
    PROVE  /\ mp_buffer' \in [Writers -> Seq(Buffer)] /\ mo_fragments' \in [Writers -> Seq(Buffer)]
           /\ Len(mp_buffer'[w]) <= 1
           /\ \A u \in Writers : u # w => mp_buffer'[u] = mp_buffer[u] /\ mo_fragments'[u] = mo_fragments[u]
           /\ EndsWhole(w, b, n) \/ EndsSplit(w, b, n) \/ EndsDropped(w, b, n)
<1>1. PICK r : r = cur[w][1]
  OBVIOUS
<1>2. /\ r.d \in Descs /\ r.size \in Nat \ {0}
      /\ b.used \in 0 .. BufCells /\ Room(b) = BufCells - b.used /\ b.used < BufCells
      /\ r.size - Room(b) <= BufCells /\ BufCells \in Nat
  BY <1>1, RecordSize, PipelineAssumption
<1>3. /\ b.seq \in Nat /\ b.recs \in Seq(Descs) /\ b.frag \in BOOLEAN
      /\ b = [w |-> b.w, seq |-> b.seq, used |-> b.used, recs |-> b.recs, frag |-> b.frag]
  BY DEF Buffer
<1>4. Append(b.recs, r.d) \in Seq(Descs)
  BY <1>2, <1>3
<1>5. mo_fragments[w] \in Seq(Buffer)
  BY DEF BufferTypes
<1>6. CASE WriteWhole(w, b, n)
  <2>1. PICK c : c = [b EXCEPT !.used = @ + r.size, !.recs = Append(@, r.d)]
    OBVIOUS
  <2>2. /\ r.size <= Room(b) /\ Keep(w, mo_fragments[w], c)
        /\ mu_buf_seq' = [mu_buf_seq EXCEPT ![w] = n] /\ Accept(w) /\ UNCHANGED poolVars
    BY <1>1, <1>6, <2>1 DEF WriteWhole
  <2>3. c = [w |-> b.w, seq |-> b.seq, used |-> b.used + r.size, recs |-> Append(b.recs, r.d), frag |-> b.frag]
    BY <1>3, <2>1
  <2>4. b.used + r.size \in 0 .. BufCells /\ b.used + r.size > 0
    BY <1>2, <2>2
  <2>5. c \in Buffer
    BY <1>3, <1>4, <2>3, <2>4 DEF Buffer
  <2>6. Continues(c, b, cur[w][1].d) /\ c.frag = b.frag
    BY <1>1, <2>3, <2>4 DEF Continues
  <2>7. /\ mp_buffer' \in [Writers -> Seq(Buffer)] /\ mo_fragments' \in [Writers -> Seq(Buffer)]
        /\ Held(w)' = Append(mo_fragments[w], c) /\ Len(mp_buffer'[w]) <= 1
        /\ \A u \in Writers : u # w => mp_buffer'[u] = mp_buffer[u] /\ mo_fragments'[u] = mo_fragments[u]
    BY <1>5, <2>2, <2>5, KeepHeld
  <2>8. Counts(w)
    BY <2>2 DEF Accept, Counts
  <2>9. EndsWhole(w, b, n)
    BY <2>2, <2>5, <2>6, <2>7, <2>8 DEF EndsWhole
  <2> QED BY <2>7, <2>9
<1>7. CASE WriteFragmented(w, b, n)
  <2>1. PICK c : c = [b EXCEPT !.used = BufCells, !.recs = Append(@, r.d), !.frag = TRUE]
    OBVIOUS
  <2>2. PICK e : e = [NewBuffer(w) EXCEPT !.seq = n, !.used = r.size - Room(b)]
    OBVIOUS
  <2>3. /\ r.size > Room(b) /\ Keep(w, Append(mo_fragments[w], c), e)
        /\ mu_buf_seq' = [mu_buf_seq EXCEPT ![w] = n + 1] /\ Accept(w) /\ TakeBuffer(w)
    BY <1>1, <1>7, <2>1, <2>2 DEF WriteFragmented
  <2>4. c = [w |-> b.w, seq |-> b.seq, used |-> BufCells, recs |-> Append(b.recs, r.d), frag |-> TRUE]
    BY <1>3, <2>1
  <2>5. e = [w |-> w, seq |-> n, used |-> r.size - Room(b), recs |-> <<>>, frag |-> FALSE]
    BY <2>2 DEF NewBuffer
  <2>6. r.size - Room(b) \in 0 .. BufCells /\ r.size - Room(b) > 0 /\ BufCells \in 0 .. BufCells /\ BufCells > 0
    BY <1>2, <2>3
  <2>7. c \in Buffer
    BY <1>3, <1>4, <2>4, <2>6 DEF Buffer
  <2>8. <<>> \in Seq(Descs)
    BY EmptySeq
  <2>9. e \in Buffer
    BY <2>5, <2>6, <2>8 DEF Buffer
  <2>10. Continues(c, b, cur[w][1].d) /\ BeginsBehind(e, w, n)
    BY <1>1, <2>4, <2>5, <2>6 DEF Continues, BeginsBehind
  <2>11. PICK f : f = Append(mo_fragments[w], c)
    OBVIOUS
  <2>12. f \in Seq(Buffer)
    BY <1>5, <2>7, <2>11
  <2>13. Keep(w, f, e)
    BY <2>3, <2>11
  <2>14. /\ mp_buffer' \in [Writers -> Seq(Buffer)] /\ mo_fragments' \in [Writers -> Seq(Buffer)]
         /\ Held(w)' = Append(f, e) /\ Len(mp_buffer'[w]) <= 1
         /\ \A u \in Writers : u # w => mp_buffer'[u] = mp_buffer[u] /\ mo_fragments'[u] = mo_fragments[u]
    BY <2>9, <2>12, <2>13, KeepHeld
  <2>15. Counts(w)
    BY <2>3 DEF Accept, Counts
  <2>16. EndsSplit(w, b, n)
    BY <2>3, <2>7, <2>9, <2>10, <2>11, <2>14, <2>15 DEF EndsSplit
  <2> QED BY <2>14, <2>16
<1>8. CASE Discard(w, b, n)
  <2>1. PICK t : t = IF b.used = 0 THEN <<>> ELSE <<b>>
    OBVIOUS
  <2>2. /\ mp_buffer' = [mp_buffer EXCEPT ![w] = t] /\ mo_fragments' = mo_fragments
        /\ mu_buf_seq' = [mu_buf_seq EXCEPT ![w] = IF b.used = 0 THEN n - 1 ELSE n]
        /\ accepted' = accepted
        /\ b.used = 0 => ReleaseBuffers(1)
        /\ b.used # 0 => UNCHANGED poolVars
    BY <1>8, <2>1 DEF Discard, Drop
  <2>3. t \in Seq(Buffer) /\ Len(t) <= 1
    BY <2>1
  <2>4. mp_buffer' \in [Writers -> Seq(Buffer)] /\ mp_buffer'[w] = t
    BY <2>2, <2>3 DEF BufferTypes
  <2>5. \A u \in Writers : u # w => mp_buffer'[u] = mp_buffer[u] /\ mo_fragments'[u] = mo_fragments[u]
    BY <2>2 DEF BufferTypes
  <2>6. PICK f : f = mo_fragments[w]
    OBVIOUS
  <2>7. f \o <<>> = f /\ f \o <<b>> = Append(f, b)
    BY <1>5, <2>6
  <2>8. Held(w)' = f \o t
    BY <2>2, <2>4, <2>6 DEF Held
  <2>9. Held(w)' = IF b.used = 0 THEN mo_fragments[w] ELSE Append(mo_fragments[w], b)
    BY <2>1, <2>6, <2>7, <2>8
  <2>10. EndsDropped(w, b, n)
    BY <2>2, <2>9 DEF EndsDropped
  <2> QED BY <2>2, <2>3, <2>4, <2>5, <2>10 DEF BufferTypes
<1> QED BY <1>6, <1>7, <1>8 DEF Writes

-----------------------------------------------------------------------------
streamVars == <<mp_buffer, mo_fragments, mo_ready_queue, lo_ready, sink_data, mu_buf_seq, accepted>>

\* A thread does not begin to exit or to wait for a buffer.
PcQuiet ==
    \A u \in Writers :
        \/ pc'[u] = pc[u]
        \/ /\ pc'[u] \in {"acquire", "have"} => pc[u] \in {"acquire", "have"}
           /\ pc'[u] \in Exited \cup {"unborn"} => pc[u] \in Exited \cup {"unborn"}
           /\ pc[u] \in Exited => pc'[u] \in Exited

\* A thread that acts in the wait of acquire_buffer is not idle at the pool.
LEMMA AcquireWaits == \A w : AcquireWait(w) => client[w] # "idle"
  BY DEF AcquireWait, Pool!Enqueue, Pool!Return

\* The worker moves no other thread.
LEMMA WorkerPc == WorkerStep => pc' = pc
  BY DEF WorkerStep, WaitEvent, CollectBegin, Pull, CollectReady, WriteService, RecycleService,
         ClearWakePending, flush_ready

\* A step of one thread that does not enter or leave a place where buffers are held differently is
\* quiet.
LEMMA ThreadStepQuiet ==
    ASSUME Control, NEW w \in Writers, NEW p, pc' = [pc EXCEPT ![w] = p],
           /\ p \in {"acquire", "have"} => pc[w] \in {"acquire", "have"}
           /\ p \in Exited \cup {"unborn"} => pc[w] \in Exited \cup {"unborn"}
           /\ pc[w] \in Exited => p \in Exited
    PROVE  PcQuiet
<1>1. \A u \in Writers : pc'[u] = IF u = w THEN p ELSE pc[u]
  BY DEF Control, ThreadTypes
<1> QED BY <1>1 DEF PcQuiet

\* Only the writing of a record and the push at exit change buffers of a writer from its own
\* thread.
LEMMA QuietWriter ==
    ASSUME Control, NEW w \in Writers, WriterStep(w)
    PROVE  \/ UNCHANGED streamVars /\ PcQuiet
           \/ LockWriter(w) \/ InstallBuffer(w) \/ ExitPush(w)
<1> USE DEF streamVars, Exited
<1>1. CASE Create(w)
  BY <1>1, ThreadStepQuiet DEF Create, Goto
<1>2. CASE \E m \in MtkIds : register_mtk(w, m)
  BY <1>2 DEF register_mtk, PcQuiet
<1>3. CASE \E d \in Descs, s \in LogSizes \cup {MtkSize} : Send(w, d, s)
  BY <1>3, ThreadStepQuiet DEF Send, Goto
<1>4. CASE ResolveBegin(w)
  <2>1. UNCHANGED streamVars
    BY <1>4 DEF ResolveBegin
  <2>2. \E p \in {"lock", "acquireSvc"} : pc' = [pc EXCEPT ![w] = p] /\ pc[w] = "resolve"
    BY <1>4 DEF ResolveBegin, Resolved, Goto
  <2> QED BY <2>1, <2>2, ThreadStepQuiet
<1>5. CASE ResolveFail(w)
  <2>1. UNCHANGED streamVars
    BY <1>5 DEF ResolveFail, Drop
  <2> QED BY <1>5, <2>1, ThreadStepQuiet DEF ResolveFail, Goto
<1>6. CASE ResolveEnd(w)
  BY <1>6, ThreadStepQuiet DEF ResolveEnd, Resolved, Goto
<1>7. CASE AcquireTry(w)
  <2>1. UNCHANGED streamVars
    BY <1>7 DEF AcquireTry
  <2>2. \/ pc' = pc
        \/ pc' = [pc EXCEPT ![w] = "have"] /\ pc[w] = "acquire"
        \/ pc' = [pc EXCEPT ![w] = "haveSvc"] /\ pc[w] = "acquireSvc"
    BY <1>7 DEF AcquireTry, Goto
  <2>3. pc' = pc => PcQuiet
    BY DEF PcQuiet
  <2> QED BY <2>1, <2>2, <2>3, ThreadStepQuiet
<1>8. CASE AcquireWait(w)
  <2>1. UNCHANGED streamVars
    BY <1>8 DEF AcquireWait
  <2>2. client[w] # "idle"
    BY <1>8, AcquireWaits
  <2>3. pc[w] \in {"acquire", "acquireSvc"}
    BY <2>2 DEF Control, QueueInv
  <2>4. pc' = pc \/ pc' = [pc EXCEPT ![w] = IF pc[w] = "acquire" THEN "have" ELSE "haveSvc"]
    BY <1>8 DEF AcquireWait, Goto
  <2>5. pc' = pc => PcQuiet
    BY DEF PcQuiet
  <2> QED BY <2>1, <2>3, <2>4, <2>5, ThreadStepQuiet
<1>9. CASE ExitStats(w)
  BY <1>9, ThreadStepQuiet DEF ExitStats, Goto
<1>10. CASE ExitUnregister(w)
  BY <1>10, ThreadStepQuiet DEF ExitUnregister, Goto
<1> QED BY <1>1, <1>2, <1>3, <1>4, <1>5, <1>6, <1>7, <1>8, <1>9, <1>10 DEF WriterStep, CallStep, ExitStep

\* Of all steps only five change where buffers are.
LEMMA QuietSteps ==
    ASSUME Control, [Next]_vars
    PROVE  \/ UNCHANGED streamVars /\ PcQuiet
           \/ \E w \in Writers : LockWriter(w) \/ InstallBuffer(w) \/ ExitPush(w)
           \/ Pull \/ CollectReady \/ flush_ready
<1>1. CASE OwnerRelease
  BY <1>1 DEF OwnerRelease, streamVars, PcQuiet
<1>2. CASE WorkerStep
  <2>1. pc' = pc
    BY <1>2, WorkerPc
  <2>2. UNCHANGED streamVars \/ Pull \/ CollectReady \/ flush_ready
    BY <1>2 DEF WorkerStep, WaitEvent, CollectBegin, WriteService, RecycleService, ClearWakePending, streamVars
  <2> QED BY <2>1, <2>2 DEF PcQuiet
<1>3. CASE Stopped \/ UNCHANGED vars
  BY <1>3 DEF Stopped, vars, streamVars, PcQuiet
<1> QED BY <1>1, <1>2, <1>3, QuietWriter DEF Next

-----------------------------------------------------------------------------
\* An append adds one element to the range.
LEMMA RangeAppend ==
    ASSUME NEW S, NEW s \in Seq(S), NEW x \in S
    PROVE  Range(Append(s, x)) = Range(s) \cup {x}
<1>1. Append(s, x) = s \o <<x>> /\ <<x>> \in Seq(S)
  BY AppendIsConcat
<1>2. Range(s \o <<x>>) = Range(s) \cup Range(<<x>>)
  BY <1>1, RangeConcatenation
<1>3. Range(<<x>>) = {x}
  BY DEF Range
<1> QED BY <1>1, <1>2, <1>3

\* The empty sequence has an empty range.
LEMMA RangeEmpty == Range(<<>>) = {}
  BY DEF Range

\* Steps that leave the buffers where they are keep them right.
LEMMA QuietHeld ==
    ASSUME Control, BufferTypes, HeldInv, UNCHANGED streamVars, PcQuiet
    PROVE  BufferTypes' /\ HeldInv'
<1> USE DEF streamVars
<1>1. BufferTypes'
  BY DEF BufferTypes
<1>2. \A u \in Writers : Held(u)' = Held(u)
  BY DEF Held
<1>3. ASSUME NEW u \in Writers
      PROVE  /\ Len(mp_buffer'[u]) <= 1
             /\ \A b \in Range(Held(u)') : b.w = u /\ b.used > 0
             /\ pc'[u] \in Exited \cup {"unborn"} => Held(u)' = <<>>
             /\ pc'[u] \in {"acquire", "have"} => mp_buffer'[u] = <<>>
  BY <1>2 DEF HeldInv, PcQuiet
<1>4. \A b \in Range(mo_ready_queue') : pc'[b.w] \in Exited
  <2>1. \A b \in Range(mo_ready_queue) : b.w \in Writers /\ pc[b.w] \in Exited
    <3>1. \A b \in Range(mo_ready_queue) : b \in Buffer
      BY RangeOfSeq DEF BufferTypes
    <3> QED BY <3>1 DEF HeldInv, Buffer
  <2> QED BY <2>1 DEF PcQuiet
<1>5. HeldInv'
  BY <1>3, <1>4 DEF HeldInv
<1> QED BY <1>1, <1>5

\* What one thread's step does to the buffers of the others.
LEMMA OneHeld ==
    ASSUME Control, BufferTypes, HeldInv, NEW w \in Writers, NEW p, pc' = [pc EXCEPT ![w] = p],
           pc[w] \notin Exited, UNCHANGED mo_ready_queue,
           \A u \in Writers : u # w => mp_buffer'[u] = mp_buffer[u] /\ mo_fragments'[u] = mo_fragments[u],
           /\ Len(mp_buffer'[w]) <= 1
           /\ \A b \in Range(Held(w)') : b.w = w /\ b.used > 0
           /\ p \notin Exited \cup {"unborn"}
           /\ p \in {"acquire", "have"} => mp_buffer'[w] = <<>>
    PROVE  HeldInv'
<1>1. \A u \in Writers : pc'[u] = IF u = w THEN p ELSE pc[u]
  BY DEF Control, ThreadTypes
<1>2. \A u \in Writers : u # w => Held(u)' = Held(u)
  BY DEF Held
<1>3. ASSUME NEW u \in Writers, u # w
      PROVE  /\ Len(mp_buffer'[u]) <= 1
             /\ \A b \in Range(Held(u)') : b.w = u /\ b.used > 0
             /\ pc'[u] \in Exited \cup {"unborn"} => Held(u)' = <<>>
             /\ pc'[u] \in {"acquire", "have"} => mp_buffer'[u] = <<>>
  BY <1>1, <1>2, <1>3 DEF HeldInv
<1>4. /\ Len(mp_buffer'[w]) <= 1
      /\ \A b \in Range(Held(w)') : b.w = w /\ b.used > 0
      /\ pc'[w] \in Exited \cup {"unborn"} => Held(w)' = <<>>
      /\ pc'[w] \in {"acquire", "have"} => mp_buffer'[w] = <<>>
  BY <1>1
<1>5. \A b \in Range(mo_ready_queue') : pc'[b.w] \in Exited
  <2>1. \A b \in Range(mo_ready_queue) : b.w \in Writers /\ pc[b.w] \in Exited
    <3>1. \A b \in Range(mo_ready_queue) : b \in Buffer
      BY RangeOfSeq DEF BufferTypes
    <3> QED BY <3>1 DEF HeldInv, Buffer
  <2> QED BY <1>1, <2>1
<1> QED BY <1>3, <1>4, <1>5 DEF HeldInv

\* Writing a record leaves the writer's buffers its own and none of them empty.
LEMMA WriteHeld ==
    ASSUME Control, BufferTypes, HeldInv, NEW w \in Writers, LockWriter(w) \/ InstallBuffer(w)
    PROVE  BufferTypes' /\ HeldInv'
<1>1. /\ pc[w] \in {"lock", "have"}
      /\ UNCHANGED <<sink_data, lo_ready, mo_ready_queue>>
  BY WriteBase
<1>2. /\ Held(w) \in Seq(Buffer) /\ mo_fragments[w] \in Seq(Buffer)
      /\ \A b \in Range(Held(w)) : b.w = w /\ b.used > 0
  BY HeldType DEF HeldInv
<1>3. CASE Parks(w)
  <2>1. /\ mo_fragments' = [mo_fragments EXCEPT ![w] = Held(w)]
        /\ mp_buffer' = [mp_buffer EXCEPT ![w] = <<>>]
        /\ pc' = [pc EXCEPT ![w] = "acquire"] /\ UNCHANGED <<mu_buf_seq, accepted>>
    BY <1>3 DEF Parks
  <2>2. <<>> \in Seq(Buffer) /\ Len(<<>>) <= 1
    BY EmptySeq
  <2>3. BufferTypes'
    BY <1>1, <1>2, <2>1, <2>2 DEF BufferTypes
  <2>4. /\ mp_buffer'[w] = <<>> /\ mo_fragments'[w] = Held(w)
        /\ \A u \in Writers : u # w => mp_buffer'[u] = mp_buffer[u] /\ mo_fragments'[u] = mo_fragments[u]
    BY <2>1 DEF BufferTypes
  <2>5. Held(w)' = Held(w)
    <3>1. PICK h : h = Held(w)
      OBVIOUS
    <3>2. h \o <<>> = h
      BY <1>2, <3>1
    <3> QED BY <2>4, <3>1, <3>2 DEF Held
  <2>6. HeldInv'
    BY <1>1, <1>2, <2>1, <2>2, <2>4, <2>5, OneHeld DEF Exited
  <2> QED BY <2>3, <2>6
<1>4. ASSUME NEW b \in Buffer, NEW n \in Nat, b.w = w, Room(b) >= StartRoom(w),
             IsTail(w, b, n) \/ IsFresh(w, b, n), Writes(w, b, n)
      PROVE  BufferTypes' /\ HeldInv'
  <2>1. /\ mp_buffer' \in [Writers -> Seq(Buffer)] /\ mo_fragments' \in [Writers -> Seq(Buffer)]
        /\ Len(mp_buffer'[w]) <= 1
        /\ \A u \in Writers : u # w => mp_buffer'[u] = mp_buffer[u] /\ mo_fragments'[u] = mo_fragments[u]
        /\ EndsWhole(w, b, n) \/ EndsSplit(w, b, n) \/ EndsDropped(w, b, n)
    BY <1>1, <1>4, WriteOutcome
  <2>2. PICK f : f = mo_fragments[w]
    OBVIOUS
  <2>3. f \in Seq(Buffer)
    BY <1>2, <2>2
  <2>4. /\ \A x \in Range(f) : x.w = w /\ x.used > 0
        /\ b.used = 0 => n \in Nat \ {0}
    <3>1. CASE IsTail(w, b, n)
      <4>1. Range(Held(w)) = Range(f) \cup {b}
        BY <2>2, <2>3, <3>1, RangeAppend DEF IsTail
      <4> QED BY <1>2, <3>1, <4>1 DEF IsTail
    <3>2. CASE IsFresh(w, b, n)
      <4>1. Held(w) = f /\ n = mu_buf_seq[w] + 1 /\ mu_buf_seq[w] \in Nat
        BY <2>2, <3>2 DEF IsFresh, BufferTypes
      <4> QED BY <1>2, <4>1
    <3> QED BY <1>4, <3>1, <3>2
  <2>5. mu_buf_seq' \in [Writers -> Nat] /\ accepted' \in [Writers -> Nat]
    <3>1. n + 1 \in Nat /\ (b.used = 0 => n - 1 \in Nat) /\ accepted[w] + 1 \in Nat
      BY <2>4 DEF BufferTypes
    <3>2. CASE EndsWhole(w, b, n)
      BY <3>1, <3>2 DEF EndsWhole, Counts, BufferTypes
    <3>3. CASE EndsSplit(w, b, n)
      BY <3>1, <3>3 DEF EndsSplit, Counts, BufferTypes
    <3>4. CASE EndsDropped(w, b, n)
      BY <3>1, <3>4 DEF EndsDropped, BufferTypes
    <3> QED BY <2>1, <3>2, <3>3, <3>4
  <2>6. BufferTypes'
    BY <1>1, <2>1, <2>5 DEF BufferTypes
  <2>7. \A x \in Range(Held(w)') : x.w = w /\ x.used > 0
    <3>1. CASE EndsWhole(w, b, n)
      <4>1. PICK c \in Buffer : c.w = b.w /\ c.used > 0 /\ Held(w)' = Append(f, c)
        BY <2>2, <3>1 DEF EndsWhole, Continues
      <4>2. Range(Held(w)') = Range(f) \cup {c}
        BY <2>3, <4>1, RangeAppend
      <4> QED BY <1>4, <2>4, <4>1, <4>2
    <3>2. CASE EndsSplit(w, b, n)
      <4>1. PICK c \in Buffer, e \in Buffer : /\ c.w = b.w /\ c.used > 0 /\ e.w = w /\ e.used > 0
                                              /\ Held(w)' = Append(Append(f, c), e)
        BY <2>2, <3>2 DEF EndsSplit, Continues, BeginsBehind
      <4>2. PICK g : g = Append(f, c)
        OBVIOUS
      <4>3. g \in Seq(Buffer) /\ Range(g) = Range(f) \cup {c}
        BY <2>3, <4>2, RangeAppend
      <4>4. Range(Held(w)') = Range(g) \cup {e}
        <5>1. Held(w)' = Append(g, e)
          BY <4>1, <4>2
        <5>2. Range(Append(g, e)) = Range(g) \cup {e}
          BY <4>3, RangeAppend
        <5> QED BY <5>1, <5>2
      <4> QED BY <1>4, <2>4, <4>1, <4>3, <4>4
    <3>3. CASE EndsDropped(w, b, n)
      <4>1. CASE b.used = 0
        BY <2>2, <2>4, <3>3, <4>1 DEF EndsDropped
      <4>2. CASE b.used # 0
        <5>1. Held(w)' = Append(f, b) /\ b.used > 0
          BY <2>2, <3>3, <4>2 DEF EndsDropped, Buffer
        <5>2. Range(Held(w)') = Range(f) \cup {b}
          BY <2>3, <5>1, RangeAppend
        <5> QED BY <1>4, <2>4, <5>1, <5>2
      <4> QED BY <4>1, <4>2
    <3> QED BY <2>1, <3>1, <3>2, <3>3
  <2>8. HeldInv'
    <3>1. pc' = [pc EXCEPT ![w] = "idle"]
      BY <1>4 DEF Writes
    <3> QED BY <1>1, <2>1, <2>7, <3>1, OneHeld DEF Exited
  <2> QED BY <2>6, <2>8
<1> QED BY <1>3, <1>4, WriteBase

\* A thread's buffers are taken from it, by the worker or at its exit.
LEMMA Emptied ==
    ASSUME BufferTypes, NEW w \in Writers,
           mo_fragments' = [mo_fragments EXCEPT ![w] = <<>>],
           mp_buffer' = [mp_buffer EXCEPT ![w] = <<>>]
    PROVE  /\ mp_buffer' \in [Writers -> Seq(Buffer)] /\ mo_fragments' \in [Writers -> Seq(Buffer)]
           /\ mp_buffer'[w] = <<>> /\ Held(w)' = <<>>
           /\ \A u \in Writers : u # w => /\ mp_buffer'[u] = mp_buffer[u] /\ mo_fragments'[u] = mo_fragments[u]
                                          /\ Held(u)' = Held(u)
<1>1. <<>> \in Seq(Buffer) /\ <<>> \o <<>> = <<>>
  OBVIOUS
<1>2. mp_buffer' \in [Writers -> Seq(Buffer)] /\ mo_fragments' \in [Writers -> Seq(Buffer)]
  BY <1>1 DEF BufferTypes
<1>3. mp_buffer'[w] = <<>> /\ mo_fragments'[w] = <<>>
  BY DEF BufferTypes
<1>4. \A u \in Writers : u # w => mp_buffer'[u] = mp_buffer[u] /\ mo_fragments'[u] = mo_fragments[u]
  BY DEF BufferTypes
<1> QED BY <1>1, <1>2, <1>3, <1>4 DEF Held

\* The push at exit moves the writer's buffers to the ready queue, and its thread has exited.
LEMMA PushHeld ==
    ASSUME Control, BufferTypes, HeldInv, NEW w \in Writers, ExitPush(w)
    PROVE  BufferTypes' /\ HeldInv'
<1>1. /\ pc[w] = "idle" /\ mo_ready_queue' = mo_ready_queue \o Held(w)
      /\ mo_fragments' = [mo_fragments EXCEPT ![w] = <<>>]
      /\ mp_buffer' = [mp_buffer EXCEPT ![w] = <<>>]
      /\ pc' = [pc EXCEPT ![w] = "pushed"]
      /\ UNCHANGED <<lo_ready, sink_data, mu_buf_seq, accepted>>
  BY DEF ExitPush, Goto
<1>2. /\ mp_buffer' \in [Writers -> Seq(Buffer)] /\ mo_fragments' \in [Writers -> Seq(Buffer)]
      /\ mp_buffer'[w] = <<>> /\ Held(w)' = <<>>
      /\ \A u \in Writers : u # w => mp_buffer'[u] = mp_buffer[u] /\ Held(u)' = Held(u)
  BY <1>1, Emptied
<1>3. Held(w) \in Seq(Buffer) /\ mo_ready_queue \in Seq(Buffer)
  BY HeldType DEF BufferTypes
<1>4. /\ mo_ready_queue' \in Seq(Buffer)
      /\ Range(mo_ready_queue') = Range(mo_ready_queue) \cup Range(Held(w))
  BY <1>1, <1>3, ConcatProperties, RangeConcatenation
<1>5. BufferTypes'
  BY <1>1, <1>2, <1>4 DEF BufferTypes
<1>6. \A u \in Writers : pc'[u] = IF u = w THEN "pushed" ELSE pc[u]
  BY <1>1 DEF Control, ThreadTypes
<1>7. \A b \in Range(mo_ready_queue') : pc'[b.w] \in Exited
  <2>1. \A b \in Range(mo_ready_queue) : b.w \in Writers /\ pc[b.w] \in Exited
    <3>1. \A b \in Range(mo_ready_queue) : b \in Buffer
      BY <1>3, RangeOfSeq
    <3> QED BY <3>1 DEF HeldInv, Buffer
  <2>2. \A b \in Range(Held(w)) : b.w = w
    BY DEF HeldInv
  <2> QED BY <1>4, <1>6, <2>1, <2>2 DEF Exited
<1>8. ASSUME NEW u \in Writers
      PROVE  /\ Len(mp_buffer'[u]) <= 1
             /\ \A b \in Range(Held(u)') : b.w = u /\ b.used > 0
             /\ pc'[u] \in Exited \cup {"unborn"} => Held(u)' = <<>>
             /\ pc'[u] \in {"acquire", "have"} => mp_buffer'[u] = <<>>
  <2>1. CASE u = w
    BY <1>2, <2>1, RangeEmpty, EmptySeq
  <2>2. CASE u # w
    BY <1>2, <1>6, <2>2 DEF HeldInv
  <2> QED BY <2>1, <2>2
<1>9. HeldInv'
  BY <1>7, <1>8 DEF HeldInv
<1> QED BY <1>5, <1>9

\* pull takes the buffers of a writer that is in the registry.
LEMMA PullHeld ==
    ASSUME Control, BufferTypes, HeldInv, Pull
    PROVE  /\ BufferTypes' /\ HeldInv' /\ wpc = "drain" /\ to_pull # <<>>
           /\ Head(to_pull) \in Writers
<1>1. PICK w : w = Head(to_pull)
  OBVIOUS
<1>2. /\ wpc = "drain" /\ to_pull # <<>> /\ lo_ready' = lo_ready \o Held(w)
      /\ mo_fragments' = [mo_fragments EXCEPT ![w] = <<>>]
      /\ mp_buffer' = [mp_buffer EXCEPT ![w] = <<>>]
      /\ UNCHANGED <<mo_ready_queue, sink_data, mu_buf_seq, accepted, pc>>
  BY <1>1 DEF Pull
<1>3. w \in Writers
  BY <1>1, <1>2, HeadTailProperties DEF Control, CoreTypes
<1>4. /\ mp_buffer' \in [Writers -> Seq(Buffer)] /\ mo_fragments' \in [Writers -> Seq(Buffer)]
      /\ mp_buffer'[w] = <<>> /\ Held(w)' = <<>>
      /\ \A u \in Writers : u # w => mp_buffer'[u] = mp_buffer[u] /\ Held(u)' = Held(u)
  BY <1>2, <1>3, Emptied
<1>5. Held(w) \in Seq(Buffer) /\ lo_ready \in Seq(Buffer)
  BY <1>3, HeldType DEF BufferTypes
<1>6. lo_ready' \in Seq(Buffer)
  BY <1>2, <1>5, ConcatProperties
<1>7. BufferTypes'
  BY <1>2, <1>4, <1>6 DEF BufferTypes
<1>8. ASSUME NEW u \in Writers
      PROVE  /\ Len(mp_buffer'[u]) <= 1
             /\ \A b \in Range(Held(u)') : b.w = u /\ b.used > 0
             /\ pc'[u] \in Exited \cup {"unborn"} => Held(u)' = <<>>
             /\ pc'[u] \in {"acquire", "have"} => mp_buffer'[u] = <<>>
  <2>1. CASE u = w
    BY <1>4, <2>1, RangeEmpty, EmptySeq
  <2>2. CASE u # w
    BY <1>2, <1>4, <2>2 DEF HeldInv
  <2> QED BY <2>1, <2>2
<1>9. HeldInv'
  BY <1>2, <1>8 DEF HeldInv
<1> QED BY <1>1, <1>2, <1>3, <1>7, <1>9

\* The ready queue joins the batch.
LEMMA ReadyHeld ==
    ASSUME Control, BufferTypes, HeldInv, CollectReady
    PROVE  BufferTypes' /\ HeldInv'
<1>1. /\ lo_ready' = lo_ready \o mo_ready_queue /\ mo_ready_queue' = <<>>
      /\ UNCHANGED <<mp_buffer, mo_fragments, sink_data, mu_buf_seq, accepted, pc>>
  BY DEF CollectReady
<1>2. lo_ready' \in Seq(Buffer) /\ mo_ready_queue' \in Seq(Buffer)
  BY <1>1, ConcatProperties, EmptySeq DEF BufferTypes
<1>3. BufferTypes'
  BY <1>1, <1>2 DEF BufferTypes
<1>4. \A u \in Writers : Held(u)' = Held(u)
  BY <1>1 DEF Held
<1>5. HeldInv'
  BY <1>1, <1>4, RangeEmpty DEF HeldInv
<1> QED BY <1>3, <1>5

\* The batch goes to the sink.
LEMMA FlushHeld ==
    ASSUME Control, BufferTypes, HeldInv, flush_ready
    PROVE  BufferTypes' /\ HeldInv'
<1>1. /\ sink_data' = [w \in Writers |-> sink_data[w] \o OfWriter(lo_ready, w)]
      /\ lo_ready' = <<>>
      /\ UNCHANGED <<mp_buffer, mo_fragments, mo_ready_queue, mu_buf_seq, accepted, pc>>
  BY DEF flush_ready
<1>2. \A w \in Writers : sink_data[w] \o OfWriter(lo_ready, w) \in Seq(Buffer)
  <2> SUFFICES ASSUME NEW w \in Writers PROVE sink_data[w] \o OfWriter(lo_ready, w) \in Seq(Buffer)
    OBVIOUS
  <2>1. sink_data[w] \in Seq(Buffer) /\ OfWriter(lo_ready, w) \in Seq(Buffer)
    BY OfWriterType DEF BufferTypes
  <2> QED BY <2>1, ConcatProperties
<1>3. sink_data' \in [Writers -> Seq(Buffer)] /\ lo_ready' \in Seq(Buffer)
  BY <1>1, <1>2, EmptySeq
<1>4. BufferTypes'
  BY <1>1, <1>3 DEF BufferTypes
<1>5. \A u \in Writers : Held(u)' = Held(u)
  BY <1>1 DEF Held
<1>6. HeldInv'
  BY <1>1, <1>5 DEF HeldInv
<1> QED BY <1>4, <1>6

\* Every step keeps the buffers right: a writer holds its own buffers, at most one tail, none of
\* them empty, and none once it has exited.
LEMMA BuffersStep ==
    ASSUME Control, BufferTypes, HeldInv, [Next]_vars
    PROVE  BufferTypes' /\ HeldInv'
  BY QuietSteps, QuietHeld, WriteHeld, PushHeld, PullHeld, ReadyHeld, FlushHeld

\* There are no buffers at first.
LEMMA BuffersInit == Init => BufferTypes /\ HeldInv
<1> SUFFICES ASSUME Init PROVE BufferTypes /\ HeldInv
  OBVIOUS
<1>1. <<>> \in Seq(Buffer) /\ <<>> \o <<>> = <<>> /\ Len(<<>>) = 0
  OBVIOUS
<1>2. /\ mp_buffer = [w \in Writers |-> <<>>] /\ mo_fragments = [w \in Writers |-> <<>>]
      /\ sink_data = [w \in Writers |-> <<>>] /\ mo_ready_queue = <<>> /\ lo_ready = <<>>
      /\ mu_buf_seq = [w \in Writers |-> 0] /\ accepted = [w \in Writers |-> 0]
  BY DEF Init
<1>3. BufferTypes
  BY ONLY <1>1, <1>2 DEF BufferTypes
<1>4. \A w \in Writers : Held(w) = <<>>
  BY <1>1, <1>2 DEF Held
<1>5. HeldInv
  BY <1>1, <1>2, <1>4, RangeEmpty DEF HeldInv
<1> QED BY <1>3, <1>5
-------------------------------------------------------------------------------
(*****************************************************************************)
(* The streams: contiguous numbers, whole records, one record per accept.    *)
(*****************************************************************************)

\* The last record of a stream is complete.
Whole(s) == s # <<>> => ~Last(s).frag
\* The buffers of a stream of n carry the numbers from 0 to n - 1.
Numbered(s, n) == Len(s) = n /\ \A i \in 1 .. Len(s) : s[i].seq = i - 1

\* A writer's buffers in the batch, in the ready queue, and all before those it holds.
Taken(w) == OfWriter(lo_ready, w)
Pushed(w) == OfWriter(mo_ready_queue, w)
Before(w) == sink_data[w] \o Taken(w) \o Pushed(w)

\* No buffer of a writer is cut off from the one its last record runs over into.
WholeInv ==
    \A w \in Writers :
        Whole(sink_data[w]) /\ Whole(Taken(w)) /\ Whole(Pushed(w)) /\ Whole(Held(w))

\* The records the API accepted are the ones in the writer's buffers.
AcceptInv == \A w \in Writers : Len(RecordsOf(Stream(w))) = accepted[w]

\* What holds of the streams: they end whole, are numbered and hold the accepted records.
StreamInv ==
    /\ WholeInv
    /\ \A w \in Writers : Numbered(Stream(w), mu_buf_seq[w])
    /\ AcceptInv

\* An empty stream ends whole.
LEMMA WholeEmpty == Whole(<<>>)
  BY DEF Whole

\* A stream ends whole when its last buffer is not a fragment.
LEMMA WholeAppend ==
    ASSUME NEW s \in Seq(Buffer), NEW b \in Buffer
    PROVE  Whole(Append(s, b)) <=> ~b.frag
<1>1. Last(Append(s, b)) = b /\ Append(s, b) # <<>>
  BY DEF Last
<1> QED BY <1>1 DEF Whole

\* Two streams that end whole, joined, end whole.
LEMMA WholeConcat ==
    ASSUME NEW s \in Seq(Buffer), NEW t \in Seq(Buffer), Whole(s), Whole(t)
    PROVE  Whole(s \o t)
<1>1. CASE t = <<>>
  BY <1>1, ConcatEmptySeq
<1>2. CASE t # <<>>
  <2>1. PICK u \in Seq(Buffer), b \in Buffer : t = Append(u, b)
    BY <1>2, SequenceEmptyOrAppend
  <2>2. PICK p : p = s \o u
    OBVIOUS
  <2>3. p \in Seq(Buffer) /\ s \o t = Append(p, b)
    BY <2>1, <2>2
  <2> QED BY <2>1, <2>3, WholeAppend
<1> QED BY <1>1, <1>2

\* One more buffer with the next number keeps a stream numbered.
LEMMA NumberedAppend ==
    ASSUME NEW s \in Seq(Buffer), NEW b \in Buffer, NEW n \in Nat, NEW m, m = n + 1
    PROVE  Numbered(Append(s, b), m) <=> Numbered(s, n) /\ b.seq = n
<1>1. PICK t : t = Append(s, b)
  OBVIOUS
<1>2. PICK k : k = Len(s)
  OBVIOUS
<1>3. /\ k \in Nat /\ Len(t) = k + 1 /\ t[k + 1] = b
      /\ \A i \in 1 .. k : t[i] = s[i]
  BY <1>1, <1>2
<1>4. ASSUME Numbered(t, m) PROVE Numbered(s, n) /\ b.seq = n
  <2>1. k = n
    BY <1>3, <1>4 DEF Numbered
  <2>2. b.seq = n
    <3>1. k + 1 \in 1 .. Len(t)
      BY <1>3
    <3>2. t[k + 1].seq = (k + 1) - 1
      BY <1>4, <3>1 DEF Numbered
    <3> QED BY <1>3, <2>1, <3>2
  <2>3. ASSUME NEW i \in 1 .. k PROVE s[i].seq = i - 1
    <3>1. i \in 1 .. Len(t)
      BY <1>3
    <3> QED BY <1>3, <1>4, <3>1 DEF Numbered
  <2> QED BY <1>2, <2>1, <2>2, <2>3 DEF Numbered
<1>5. ASSUME Numbered(s, n), b.seq = n PROVE Numbered(t, m)
  <2>1. k = n
    BY <1>2, <1>5 DEF Numbered
  <2>2. ASSUME NEW i \in 1 .. Len(t) PROVE t[i].seq = i - 1
    <3>1. CASE i = k + 1
      BY <1>3, <1>5, <2>1, <3>1
    <3>2. CASE i # k + 1
      <4>1. i \in 1 .. k
        BY <1>3, <3>2
      <4> QED BY <1>2, <1>3, <1>5, <4>1 DEF Numbered
    <3> QED BY <3>1, <3>2
  <2> QED BY <1>3, <2>1, <2>2 DEF Numbered
<1> QED BY <1>1, <1>4, <1>5

\* A writer's stream is made of buffers, those before the ones it holds and those it holds.
LEMMA StreamTypes ==
    ASSUME BufferTypes, NEW w \in Writers
    PROVE  /\ sink_data[w] \in Seq(Buffer) /\ Taken(w) \in Seq(Buffer) /\ Pushed(w) \in Seq(Buffer)
           /\ Before(w) \in Seq(Buffer) /\ Held(w) \in Seq(Buffer)
           /\ Stream(w) = Before(w) \o Held(w) /\ Stream(w) \in Seq(Buffer)
<1>1. sink_data[w] \in Seq(Buffer) /\ mo_ready_queue \in Seq(Buffer) /\ lo_ready \in Seq(Buffer)
  BY DEF BufferTypes
<1>2. Taken(w) \in Seq(Buffer) /\ Pushed(w) \in Seq(Buffer) /\ Held(w) \in Seq(Buffer)
  BY <1>1, OfWriterType, HeldType DEF Taken, Pushed
<1>3. Before(w) \in Seq(Buffer)
  BY <1>1, <1>2, ConcatProperties DEF Before
<1>4. Stream(w) = Before(w) \o Held(w)
  BY DEF Stream, Before, Taken, Pushed
<1> QED BY <1>1, <1>2, <1>3, <1>4, ConcatProperties

\* A concatenation over S is a sequence over S.
LEMMA ConcatIn == \A S : \A s, t \in Seq(S) : s \o t \in Seq(S)
  BY ConcatProperties

\* Concatenation with nothing changes nothing.
LEMMA EmptyRight == \A S : \A s \in Seq(S) : s \o <<>> = s /\ <<>> \o s = s
  BY ConcatEmptySeq

\* The four parts of a stream: at the sink, in the batch, in the ready queue, with the writer.
Joined(a, l, r, h) == ((a \o l) \o r) \o h

\* The stream of a writer with its parts regrouped.
LEMMA JoinedMoves ==
    ASSUME NEW S, NEW a \in Seq(S), NEW l \in Seq(S), NEW r \in Seq(S), NEW h \in Seq(S)
    PROVE  /\ Joined(a, l, r \o h, <<>>) = Joined(a, l, r, h)
           /\ Joined(a, l \o r, <<>>, h) = Joined(a, l, r, h)
           /\ Joined(a \o l, <<>>, r, h) = Joined(a, l, r, h)
<1>1. PICK al : al = a \o l
  OBVIOUS
<1>2. PICK lr : lr = l \o r
  OBVIOUS
<1>3. PICK rh : rh = r \o h
  OBVIOUS
<1>5. al \in Seq(S) /\ lr \in Seq(S) /\ rh \in Seq(S)
  BY <1>1, <1>2, <1>3, ConcatIn
<1>6. PICK alr : alr = al \o r
  OBVIOUS
<1>7. PICK alrh : alrh = alr \o h
  OBVIOUS
<1>8. alr \in Seq(S) /\ alrh \in Seq(S)
  BY <1>5, <1>6, <1>7, ConcatIn
<1>9. al \o rh = alrh
  <2>1. al \in Seq(S)
    BY <1>5
  <2>2. (al \o r) \o h = al \o (r \o h)
    BY <2>1, ConcatAssociative
  <2> QED BY <1>3, <1>6, <1>7, <2>2
<1>10. a \o lr = alr
  <2>1. (a \o l) \o r = a \o (l \o r)
    BY ConcatAssociative
  <2> QED BY <1>1, <1>2, <1>6, <2>1
<1>12. al \o <<>> = al /\ alrh \o <<>> = alrh /\ alr \o <<>> = alr
  BY <1>5, <1>8, EmptyRight
<1>14. /\ (al \o <<>>) \o r = alr
       /\ (al \o rh) \o <<>> = alrh
       /\ ((a \o lr) \o <<>>) \o h = alrh
       /\ ((al \o <<>>) \o r) \o h = alrh
  BY <1>6, <1>7, <1>9, <1>10, <1>12
<1>15. /\ Joined(a, l, r, h) = alrh
       /\ Joined(a, l, rh, <<>>) = alrh
       /\ Joined(a, lr, <<>>, h) = alrh
       /\ Joined(al, <<>>, r, h) = alrh
  BY ONLY <1>1, <1>6, <1>7, <1>14 DEF Joined
<1> QED BY ONLY <1>1, <1>2, <1>3, <1>15

\* What moves from the writer to the batch stays in its place of the stream when nothing of it is
\* in the ready queue.
LEMMA JoinedPull ==
    ASSUME NEW S, NEW a \in Seq(S), NEW l \in Seq(S), NEW h \in Seq(S)
    PROVE  Joined(a, l \o h, <<>>, <<>>) = Joined(a, l, <<>>, h)
<1>1. PICK lh : lh = l \o h
  OBVIOUS
<1>2. PICK al : al = a \o l
  OBVIOUS
<1>3. PICK x : x = a \o lh
  OBVIOUS
<1>4. lh \in Seq(S) /\ al \in Seq(S)
  BY <1>1, <1>2, ConcatIn
<1>5. x \in Seq(S)
  BY <1>3, <1>4, ConcatIn
<1>6. x \o <<>> = x /\ al \o <<>> = al
  BY <1>4, <1>5, EmptyRight
<1>7. x = al \o h
  <2>1. (a \o l) \o h = a \o (l \o h)
    BY ConcatAssociative
  <2> QED BY <1>1, <1>2, <1>3, <2>1
<1>8. Joined(a, lh, <<>>, <<>>) = Joined(a, l, <<>>, h)
  BY ONLY <1>2, <1>3, <1>6, <1>7 DEF Joined
<1> QED BY ONLY <1>1, <1>8

\* A stream is the four parts on the way to the sink, joined.
LEMMA StreamJoined == \A u : Stream(u) = Joined(sink_data[u], Taken(u), Pushed(u), Held(u))
  BY DEF Stream, Joined, Taken, Pushed

\* Moving buffers from one place to the next does not change a writer's stream.
LEMMA StreamMoved ==
    ASSUME StreamInv, UNCHANGED <<mu_buf_seq, accepted>>, WholeInv', \A u \in Writers : Stream(u)' = Stream(u)
    PROVE  StreamInv'
<1>1. \A u \in Writers : Numbered(Stream(u)', mu_buf_seq'[u])
  BY DEF StreamInv, Numbered
<1>2. AcceptInv'
  <2> SUFFICES ASSUME NEW u \in Writers PROVE Len(RecordsOf(Stream(u)')) = accepted'[u]
    BY DEF AcceptInv, RecordsOf
  <2> QED BY DEF StreamInv, AcceptInv
<1>3. \A u \in Writers : Numbered(Stream(u), mu_buf_seq[u])'
  BY <1>1 DEF Numbered
<1> QED BY <1>2, <1>3 DEF StreamInv

\* Steps that leave the buffers where they are keep the streams.
LEMMA QuietStream ==
    ASSUME BufferTypes, StreamInv, UNCHANGED streamVars
    PROVE  StreamInv'
<1> USE DEF streamVars
<1>1. \A u \in Writers : /\ Held(u)' = Held(u) /\ Taken(u)' = Taken(u) /\ Pushed(u)' = Pushed(u)
                         /\ sink_data'[u] = sink_data[u]
  BY DEF Held, Taken, Pushed, OfWriter
<1>2. \A u \in Writers : Stream(u)' = Stream(u)
  BY <1>1 DEF Stream, Taken, Pushed
<1>3. WholeInv'
  BY <1>1 DEF StreamInv, WholeInv, Whole, Last
<1> QED BY <1>2, <1>3, StreamMoved

\* flush_ready moves each stream's part of the batch to the sink.
LEMMA FlushStream ==
    ASSUME BufferTypes, BufferTypes', StreamInv, flush_ready
    PROVE  StreamInv'
<1>1. /\ \A u \in Writers : sink_data'[u] = sink_data[u] \o Taken(u)
      /\ lo_ready' = <<>>
      /\ UNCHANGED <<mp_buffer, mo_fragments, mo_ready_queue, mu_buf_seq, accepted>>
  BY DEF flush_ready, Taken
<1>2. \A u \in Writers : Held(u)' = Held(u) /\ Taken(u)' = <<>> /\ Pushed(u)' = Pushed(u)
  BY <1>1, OfWriterEmpty DEF Held, Taken, Pushed, OfWriter
<1>3. \A u \in Writers : Stream(u)' = Stream(u)
  <2> SUFFICES ASSUME NEW u \in Writers PROVE Stream(u)' = Stream(u)
    OBVIOUS
  <2>1. /\ sink_data[u] \in Seq(Buffer) /\ Taken(u) \in Seq(Buffer)
        /\ Pushed(u) \in Seq(Buffer) /\ Held(u) \in Seq(Buffer)
    BY StreamTypes
  <2>2. Stream(u)' = Joined(sink_data'[u], Taken(u)', Pushed(u)', Held(u)')
    BY DEF Stream, Joined, Taken, Pushed
  <2>3. Stream(u)' = Joined(sink_data[u] \o Taken(u), <<>>, Pushed(u), Held(u))
    BY <1>1, <1>2, <2>2
  <2>4. Joined(sink_data[u] \o Taken(u), <<>>, Pushed(u), Held(u)) = Joined(sink_data[u], Taken(u), Pushed(u), Held(u))
    BY <2>1, JoinedMoves
  <2> QED BY <2>3, <2>4, StreamJoined
<1>4. WholeInv'
  <2> SUFFICES ASSUME NEW u \in Writers
               PROVE  Whole(sink_data'[u]) /\ Whole(Taken(u)') /\ Whole(Pushed(u)') /\ Whole(Held(u)')
    BY DEF WholeInv, Whole, Last
  <2>1. sink_data[u] \in Seq(Buffer) /\ Taken(u) \in Seq(Buffer)
    BY StreamTypes
  <2>2. Whole(sink_data[u]) /\ Whole(Taken(u)) /\ Whole(Pushed(u)) /\ Whole(Held(u))
    BY DEF StreamInv, WholeInv
  <2>3. Whole(sink_data[u] \o Taken(u))
    BY <2>1, <2>2, WholeConcat
  <2> QED BY <1>1, <1>2, <2>2, <2>3, WholeEmpty
<1> QED BY <1>1, <1>3, <1>4, StreamMoved

\* The ready queue joins the batch behind what has been pulled: each stream is unchanged.
LEMMA ReadyStream ==
    ASSUME BufferTypes, StreamInv, CollectReady
    PROVE  StreamInv'
<1>1. /\ lo_ready' = lo_ready \o mo_ready_queue /\ mo_ready_queue' = <<>>
      /\ UNCHANGED <<mp_buffer, mo_fragments, sink_data, mu_buf_seq, accepted>>
  BY DEF CollectReady
<1>2. \A u \in Writers : Held(u)' = Held(u) /\ Taken(u)' = Taken(u) \o Pushed(u) /\ Pushed(u)' = <<>>
  <2> SUFFICES ASSUME NEW u \in Writers
               PROVE  Held(u)' = Held(u) /\ Taken(u)' = Taken(u) \o Pushed(u) /\ Pushed(u)' = <<>>
    OBVIOUS
  <2>1. lo_ready \in Seq(Buffer) /\ mo_ready_queue \in Seq(Buffer)
    BY DEF BufferTypes
  <2>2. OfWriter(lo_ready \o mo_ready_queue, u) = OfWriter(lo_ready, u) \o OfWriter(mo_ready_queue, u)
    BY <2>1, OfWriterConcat
  <2>3. Taken(u)' = OfWriter(lo_ready', u) /\ Pushed(u)' = OfWriter(mo_ready_queue', u)
    BY DEF Taken, Pushed, OfWriter
  <2> QED BY <1>1, <2>2, <2>3, OfWriterEmpty DEF Held, Taken, Pushed
<1>3. \A u \in Writers : Stream(u)' = Stream(u)
  <2> SUFFICES ASSUME NEW u \in Writers PROVE Stream(u)' = Stream(u)
    OBVIOUS
  <2>1. /\ sink_data[u] \in Seq(Buffer) /\ Taken(u) \in Seq(Buffer)
        /\ Pushed(u) \in Seq(Buffer) /\ Held(u) \in Seq(Buffer)
    BY StreamTypes
  <2>2. Stream(u)' = Joined(sink_data'[u], Taken(u)', Pushed(u)', Held(u)')
    BY DEF Stream, Joined, Taken, Pushed
  <2>3. Stream(u)' = Joined(sink_data[u], Taken(u) \o Pushed(u), <<>>, Held(u))
    BY <1>1, <1>2, <2>2
  <2>4. Joined(sink_data[u], Taken(u) \o Pushed(u), <<>>, Held(u)) = Joined(sink_data[u], Taken(u), Pushed(u), Held(u))
    BY <2>1, JoinedMoves
  <2> QED BY <2>3, <2>4, StreamJoined
<1>4. WholeInv'
  <2> SUFFICES ASSUME NEW u \in Writers
               PROVE  Whole(sink_data'[u]) /\ Whole(Taken(u)') /\ Whole(Pushed(u)') /\ Whole(Held(u)')
    BY DEF WholeInv, Whole, Last
  <2>1. Pushed(u) \in Seq(Buffer) /\ Taken(u) \in Seq(Buffer)
    BY StreamTypes
  <2>2. Whole(sink_data[u]) /\ Whole(Taken(u)) /\ Whole(Pushed(u)) /\ Whole(Held(u))
    BY DEF StreamInv, WholeInv
  <2>3. Whole(Taken(u) \o Pushed(u))
    BY <2>1, <2>2, WholeConcat
  <2> QED BY <1>1, <1>2, <2>2, <2>3, WholeEmpty
<1> QED BY <1>1, <1>3, <1>4, StreamMoved

\* What pull and core_push take from one writer says nothing of another.
LEMMA HeldOfOther ==
    ASSUME BufferTypes, HeldInv, NEW w \in Writers, NEW u \in Writers, NEW s \in Seq(Buffer)
    PROVE  OfWriter(s \o Held(w), u) = IF u = w THEN OfWriter(s, u) \o Held(w) ELSE OfWriter(s, u)
<1>1. PICK h : h = Held(w)
  OBVIOUS
<1>2. h \in Seq(Buffer) /\ \A b \in Range(h) : b.w = w
  BY <1>1, HeldType DEF HeldInv
<1>3. OfWriter(s \o h, u) = OfWriter(s, u) \o OfWriter(h, u)
  BY <1>2, OfWriterConcat
<1>4. CASE u = w
  BY <1>1, <1>2, <1>3, <1>4, OfWriterOwn
<1>5. CASE u # w
  <2>1. OfWriter(h, u) = <<>>
    BY <1>2, <1>5, OfWriterOther
  <2>2. OfWriter(s, u) \in Seq(Buffer)
    BY OfWriterType
  <2> QED BY <1>1, <1>3, <1>5, <2>1, <2>2, EmptyRight
<1> QED BY <1>4, <1>5

\* The push at exit puts the writer's buffers behind all that is in the ready queue: each stream
\* is unchanged.
LEMMA PushStream ==
    ASSUME BufferTypes, HeldInv, StreamInv, NEW w \in Writers, ExitPush(w)
    PROVE  StreamInv'
<1>1. /\ mo_ready_queue' = mo_ready_queue \o Held(w)
      /\ mo_fragments' = [mo_fragments EXCEPT ![w] = <<>>]
      /\ mp_buffer' = [mp_buffer EXCEPT ![w] = <<>>]
      /\ UNCHANGED <<lo_ready, sink_data, mu_buf_seq, accepted>>
  BY DEF ExitPush
<1>2. /\ Held(w)' = <<>>
      /\ \A u \in Writers : u # w => Held(u)' = Held(u)
  BY <1>1, Emptied
<1>3. \A u \in Writers : /\ Taken(u)' = Taken(u)
                         /\ Pushed(u)' = IF u = w THEN Pushed(u) \o Held(w) ELSE Pushed(u)
  <2> SUFFICES ASSUME NEW u \in Writers
               PROVE  /\ Taken(u)' = Taken(u)
                      /\ Pushed(u)' = IF u = w THEN Pushed(u) \o Held(w) ELSE Pushed(u)
    OBVIOUS
  <2>1. Taken(u)' = OfWriter(lo_ready', u) /\ Pushed(u)' = OfWriter(mo_ready_queue', u)
    BY DEF Taken, Pushed, OfWriter
  <2>2. mo_ready_queue \in Seq(Buffer)
    BY DEF BufferTypes
  <2>3. OfWriter(mo_ready_queue \o Held(w), u)
          = IF u = w THEN OfWriter(mo_ready_queue, u) \o Held(w) ELSE OfWriter(mo_ready_queue, u)
    BY <2>2, HeldOfOther
  <2> QED BY <1>1, <2>1, <2>3 DEF Taken, Pushed
<1>4. \A u \in Writers : Stream(u)' = Stream(u)
  <2> SUFFICES ASSUME NEW u \in Writers PROVE Stream(u)' = Stream(u)
    OBVIOUS
  <2>1. /\ sink_data[u] \in Seq(Buffer) /\ Taken(u) \in Seq(Buffer)
        /\ Pushed(u) \in Seq(Buffer) /\ Held(u) \in Seq(Buffer)
    BY StreamTypes
  <2>2. Stream(u)' = Joined(sink_data'[u], Taken(u)', Pushed(u)', Held(u)')
    BY DEF Stream, Joined, Taken, Pushed
  <2>3. Stream(u) = Joined(sink_data[u], Taken(u), Pushed(u), Held(u))
    BY StreamJoined
  <2>4. CASE u = w
    <3>1. Stream(u)' = Joined(sink_data[u], Taken(u), Pushed(u) \o Held(u), <<>>)
      BY <1>1, <1>2, <1>3, <2>2, <2>4
    <3>2. Joined(sink_data[u], Taken(u), Pushed(u) \o Held(u), <<>>) = Joined(sink_data[u], Taken(u), Pushed(u), Held(u))
      BY <2>1, JoinedMoves
    <3> QED BY <2>3, <3>1, <3>2
  <2>5. CASE u # w
    BY <1>1, <1>2, <1>3, <2>2, <2>3, <2>5
  <2> QED BY <2>4, <2>5
<1>5. WholeInv'
  <2> SUFFICES ASSUME NEW u \in Writers
               PROVE  Whole(sink_data'[u]) /\ Whole(Taken(u)') /\ Whole(Pushed(u)') /\ Whole(Held(u)')
    BY DEF WholeInv, Whole, Last
  <2>1. Pushed(u) \in Seq(Buffer) /\ Held(u) \in Seq(Buffer)
    BY StreamTypes
  <2>2. Whole(sink_data[u]) /\ Whole(Taken(u)) /\ Whole(Pushed(u)) /\ Whole(Held(u))
    BY DEF StreamInv, WholeInv
  <2>3. Whole(Pushed(u) \o Held(u))
    BY <2>1, <2>2, WholeConcat
  <2>4. CASE u = w
    BY <1>1, <1>2, <1>3, <2>2, <2>3, <2>4, WholeEmpty
  <2>5. CASE u # w
    BY <1>1, <1>2, <1>3, <2>2, <2>5
  <2> QED BY <2>4, <2>5
<1> QED BY <1>1, <1>4, <1>5, StreamMoved

\* pull puts the writer's buffers into the batch. Nothing of that writer is in the ready queue, or
\* it would not be in the registry, so its stream is unchanged.
LEMMA PullStream ==
    ASSUME Control, BufferTypes, HeldInv, StreamInv, Pull
    PROVE  StreamInv'
<1>1. PICK w : w = Head(to_pull)
  OBVIOUS
<1>2. /\ lo_ready' = lo_ready \o Held(w)
      /\ mo_fragments' = [mo_fragments EXCEPT ![w] = <<>>]
      /\ mp_buffer' = [mp_buffer EXCEPT ![w] = <<>>]
      /\ UNCHANGED <<mo_ready_queue, sink_data, mu_buf_seq, accepted>>
  BY <1>1 DEF Pull
<1>3. w \in Writers
  BY <1>1, PullHeld
<1>4. /\ Held(w)' = <<>>
      /\ \A u \in Writers : u # w => Held(u)' = Held(u)
  BY <1>2, <1>3, Emptied
<1>5. \A u \in Writers : /\ Pushed(u)' = Pushed(u)
                         /\ Taken(u)' = IF u = w THEN Taken(u) \o Held(w) ELSE Taken(u)
  <2> SUFFICES ASSUME NEW u \in Writers
               PROVE  /\ Pushed(u)' = Pushed(u)
                      /\ Taken(u)' = IF u = w THEN Taken(u) \o Held(w) ELSE Taken(u)
    OBVIOUS
  <2>1. Taken(u)' = OfWriter(lo_ready', u) /\ Pushed(u)' = OfWriter(mo_ready_queue', u)
    BY DEF Taken, Pushed, OfWriter
  <2>2. lo_ready \in Seq(Buffer)
    BY DEF BufferTypes
  <2>3. OfWriter(lo_ready \o Held(w), u)
          = IF u = w THEN OfWriter(lo_ready, u) \o Held(w) ELSE OfWriter(lo_ready, u)
    BY <1>3, <2>2, HeldOfOther
  <2> QED BY <1>2, <2>1, <2>3 DEF Taken, Pushed
\* A writer that has pushed its buffers holds none.
<1>6. Held(w) = <<>> \/ Pushed(w) = <<>>
  <2>1. CASE \E b \in Range(mo_ready_queue) : b.w = w
    BY <1>3, <2>1 DEF HeldInv
  <2>2. CASE \A b \in Range(mo_ready_queue) : b.w # w
    BY <2>2, OfWriterOther DEF Pushed, BufferTypes
  <2> QED BY <2>1, <2>2
<1>7. \A u \in Writers : Stream(u)' = Stream(u)
  <2> SUFFICES ASSUME NEW u \in Writers PROVE Stream(u)' = Stream(u)
    OBVIOUS
  <2>1. /\ sink_data[u] \in Seq(Buffer) /\ Taken(u) \in Seq(Buffer)
        /\ Pushed(u) \in Seq(Buffer) /\ Held(u) \in Seq(Buffer)
    BY StreamTypes
  <2>2. Stream(u)' = Joined(sink_data[u], Taken(u)', Pushed(u), Held(u)')
    BY <1>2, <1>5 DEF Stream, Joined, Taken, Pushed
  <2>3. Stream(u) = Joined(sink_data[u], Taken(u), Pushed(u), Held(u))
    BY StreamJoined
  <2>4. CASE u = w /\ Pushed(w) = <<>>
    <3>1. Stream(u)' = Joined(sink_data[u], Taken(u) \o Held(u), Pushed(u), <<>>)
      BY <1>4, <1>5, <2>2, <2>4
    <3>2. Pushed(u) = <<>>
      BY <2>4
    <3>3. Joined(sink_data[u], Taken(u) \o Held(u), Pushed(u), <<>>) = Joined(sink_data[u], Taken(u), Pushed(u), Held(u))
      BY <2>1, <3>2, JoinedPull
    <3> QED BY <2>3, <3>1, <3>3
  <2>5. CASE u = w /\ Held(w) = <<>>
    <3>1. Taken(u)' = Taken(u) /\ Held(u)' = Held(u)
      BY <1>4, <1>5, <2>1, <2>5, EmptyRight
    <3> QED BY <2>2, <2>3, <3>1
  <2>6. CASE u # w
    BY <1>4, <1>5, <2>2, <2>3, <2>6
  <2> QED BY <1>6, <2>4, <2>5, <2>6
<1>8. WholeInv'
  <2> SUFFICES ASSUME NEW u \in Writers
               PROVE  Whole(sink_data'[u]) /\ Whole(Taken(u)') /\ Whole(Pushed(u)') /\ Whole(Held(u)')
    BY DEF WholeInv, Whole, Last
  <2>1. Taken(u) \in Seq(Buffer) /\ Held(u) \in Seq(Buffer)
    BY StreamTypes
  <2>2. Whole(sink_data[u]) /\ Whole(Taken(u)) /\ Whole(Pushed(u)) /\ Whole(Held(u))
    BY DEF StreamInv, WholeInv
  <2>3. Whole(Taken(u) \o Held(u))
    BY <2>1, <2>2, WholeConcat
  <2>4. CASE u = w
    BY <1>2, <1>4, <1>5, <2>2, <2>3, <2>4, WholeEmpty
  <2>5. CASE u # w
    BY <1>2, <1>4, <1>5, <2>2, <2>5
  <2> QED BY <2>4, <2>5
<1> QED BY <1>2, <1>7, <1>8, StreamMoved

-----------------------------------------------------------------------------
\* What a writer has sent without the buffer its next record goes to.
Base(w) == Before(w) \o mo_fragments[w]

\* One more buffer behind some: its number and its records.
LEMMA OneMore ==
    ASSUME NEW p \in Seq(Buffer), NEW c \in Buffer, NEW n \in Nat, NEW m, m = n + 1,
           Numbered(p, n), c.seq = n
    PROVE  /\ Append(p, c) \in Seq(Buffer)
           /\ Numbered(Append(p, c), m)
           /\ Len(RecordsOf(Append(p, c))) = Len(RecordsOf(p)) + Len(c.recs)
           /\ Len(RecordsOf(p)) \in Nat /\ Len(c.recs) \in Nat
<1>1. Append(p, c) \in Seq(Buffer) /\ Numbered(Append(p, c), m)
  <2>1. Append(p, c) \in Seq(Buffer)
    BY AppendProperties
  <2>2. Numbered(Append(p, c), m) <=> Numbered(p, n) /\ c.seq = n
    BY ONLY p \in Seq(Buffer), c \in Buffer, n \in Nat, m = n + 1, NumberedAppend
  <2> QED BY <2>1, <2>2
<1>2. RecordsOf(p) \in Seq(Descs) /\ c.recs \in Seq(Descs)
  BY RecordsType DEF Buffer
<1>3. RecordsOf(Append(p, c)) = RecordsOf(p) \o c.recs
  BY RecordsAppend
<1>4. Len(RecordsOf(p) \o c.recs) = Len(RecordsOf(p)) + Len(c.recs)
  BY <1>2, ConcatAt
<1> QED BY <1>1, <1>2, <1>3, <1>4

\* The buffers before the one that is written, and the stream with it.
LEMMA BaseParts ==
    ASSUME BufferTypes, NEW w \in Writers
    PROVE  /\ Base(w) \in Seq(Buffer) /\ mo_fragments[w] \in Seq(Buffer) /\ Before(w) \in Seq(Buffer)
           /\ \A b \in Buffer : Before(w) \o Append(mo_fragments[w], b) = Append(Base(w), b)
<1>1. Before(w) \in Seq(Buffer) /\ mo_fragments[w] \in Seq(Buffer)
  BY StreamTypes DEF BufferTypes
<1>2. PICK p : p = Before(w)
  OBVIOUS
<1>3. PICK f : f = mo_fragments[w]
  OBVIOUS
<1>4. p \in Seq(Buffer) /\ f \in Seq(Buffer)
  BY <1>1, <1>2, <1>3
<1>5. p \o f \in Seq(Buffer)
  BY <1>4, ConcatIn
<1>6. \A b \in Buffer : p \o Append(f, b) = Append(p \o f, b)
  BY <1>4, ConcatSnoc
<1>7. Base(w) = p \o f
  BY <1>2, <1>3 DEF Base
<1> QED BY ONLY <1>1, <1>2, <1>3, <1>5, <1>6, <1>7

\* The stream before the buffer that is written: it is numbered up to it, and with the records of
\* that buffer it holds what was accepted.
LEMMA BaseFacts ==
    ASSUME BufferTypes, HeldInv, StreamInv, NEW w \in Writers, NEW b \in Buffer, NEW n \in Nat,
           IsTail(w, b, n) \/ IsFresh(w, b, n)
    PROVE  /\ b.seq \in Nat /\ Len(b.recs) \in Nat /\ n = b.seq + 1 /\ ~b.frag
           /\ Numbered(Base(w), b.seq)
           /\ Len(RecordsOf(Base(w))) + Len(b.recs) = accepted[w]
           /\ Len(RecordsOf(Base(w))) \in Nat
           /\ b.used = 0 => Len(b.recs) = 0 /\ Whole(mo_fragments[w])
<1>1. /\ Base(w) \in Seq(Buffer) /\ mo_fragments[w] \in Seq(Buffer)
      /\ Before(w) \o Append(mo_fragments[w], b) = Append(Base(w), b)
  BY BaseParts
<1>2. b.seq \in Nat /\ b.recs \in Seq(Descs)
  BY DEF Buffer
<1>3. RecordsOf(Base(w)) \in Seq(Descs)
  BY <1>1, RecordsType
<1>4. /\ Stream(w) = Before(w) \o Held(w) /\ Numbered(Stream(w), mu_buf_seq[w])
      /\ Len(RecordsOf(Stream(w))) = accepted[w] /\ Whole(Held(w))
  BY StreamTypes DEF StreamInv, WholeInv, AcceptInv
<1>5. CASE IsTail(w, b, n)
  <2>1. Stream(w) = Append(Base(w), b) /\ n = mu_buf_seq[w] /\ b.used > 0 /\ Held(w) = Append(mo_fragments[w], b)
    BY <1>1, <1>4, <1>5 DEF IsTail
  <2>2. Numbered(Append(Base(w), b), n) /\ Len(RecordsOf(Append(Base(w), b))) = accepted[w]
    BY <1>4, <2>1
  <2>3. PICK p : p = Base(w)
    OBVIOUS
  <2>4. n # 0
    <3>1. Len(Append(p, b)) = Len(p) + 1 /\ Len(p) \in Nat
      BY <1>1, <2>3
    <3>2. Len(Append(p, b)) = n
      BY <2>2, <2>3 DEF Numbered
    <3> QED BY ONLY <3>1, <3>2
  <2>5. n - 1 \in Nat /\ n = (n - 1) + 1
    BY <2>4
  <2>6. Numbered(Base(w), n - 1) /\ b.seq = n - 1
    <3>1. PICK k \in Nat : k = n - 1 /\ n = k + 1
      BY <2>5
    <3>2. Numbered(Base(w), k) /\ b.seq = k
      BY <1>1, <2>2, <3>1, NumberedAppend
    <3> QED BY <3>1, <3>2
  <2>7. n = b.seq + 1 /\ Numbered(Base(w), b.seq)
    BY <2>5, <2>6
  <2>8. Len(RecordsOf(Append(Base(w), b))) = Len(RecordsOf(Base(w))) + Len(b.recs)
    BY <1>1, <1>2, <2>7, OneMore
  <2>9. ~b.frag
    BY <1>1, <1>4, <2>1, WholeAppend
  <2> QED BY <1>2, <1>3, <2>1, <2>2, <2>7, <2>8, <2>9
<1>6. CASE IsFresh(w, b, n)
  <2>1. Held(w) = mo_fragments[w] /\ n = mu_buf_seq[w] + 1 /\ b = NewBuffer(w)
    BY <1>6 DEF IsFresh
  <2>2. b.seq = mu_buf_seq[w] /\ b.recs = <<>> /\ b.frag = FALSE
    BY <2>1, FreshBuffer
  <2>3. Stream(w) = Base(w)
    BY <1>4, <2>1 DEF Base
  <2>4. Len(b.recs) = 0
    BY <2>2
  <2>5. Len(RecordsOf(Base(w))) = accepted[w] /\ Numbered(Base(w), b.seq) /\ Whole(mo_fragments[w])
    BY <1>4, <2>1, <2>2, <2>3
  <2>6. n = b.seq + 1 /\ ~b.frag
    BY <2>1, <2>2
  <2> QED BY <1>2, <1>3, <2>4, <2>5, <2>6
<1> QED BY <1>5, <1>6

\* One thread's buffers change, and the stream of that thread stays what it should be.
LEMMA OneStream ==
    ASSUME BufferTypes, BufferTypes', StreamInv, NEW w \in Writers,
           UNCHANGED <<sink_data, lo_ready, mo_ready_queue>>,
           \A u \in Writers : u # w => /\ mp_buffer'[u] = mp_buffer[u] /\ mo_fragments'[u] = mo_fragments[u]
                                      /\ mu_buf_seq'[u] = mu_buf_seq[u] /\ accepted'[u] = accepted[u],
           NEW s \in Seq(Buffer), s = Before(w) \o Held(w)',
           Whole(Held(w)'), Numbered(s, mu_buf_seq'[w]), Len(RecordsOf(s)) = accepted'[w]
    PROVE  StreamInv'
<1>1. \A u \in Writers : /\ Taken(u)' = Taken(u) /\ Pushed(u)' = Pushed(u) /\ sink_data'[u] = sink_data[u]
                         /\ Before(u)' = Before(u)
  BY DEF Taken, Pushed, Before, OfWriter
<1>2. \A u \in Writers : u # w => Held(u)' = Held(u)
  BY DEF Held
<1>3. \A u \in Writers : Stream(u)' = Before(u)' \o Held(u)'
  BY DEF Stream, Before, Taken, Pushed
<1>4. \A u \in Writers : u # w => Stream(u)' = Stream(u)
  BY <1>1, <1>2 DEF Stream, Taken, Pushed
<1>5. Stream(w)' = s
  BY <1>1, <1>3
<1>6. WholeInv'
  <2> SUFFICES ASSUME NEW u \in Writers
               PROVE  Whole(sink_data'[u]) /\ Whole(Taken(u)') /\ Whole(Pushed(u)') /\ Whole(Held(u)')
    BY DEF WholeInv, Whole, Last
  <2>1. Whole(sink_data[u]) /\ Whole(Taken(u)) /\ Whole(Pushed(u)) /\ Whole(Held(u))
    BY DEF StreamInv, WholeInv
  <2> QED BY <1>1, <1>2, <2>1
<1>7. \A u \in Writers : Numbered(Stream(u)', mu_buf_seq'[u])
  <2> SUFFICES ASSUME NEW u \in Writers PROVE Numbered(Stream(u)', mu_buf_seq'[u])
    OBVIOUS
  <2>1. Numbered(Stream(u), mu_buf_seq[u])
    BY DEF StreamInv
  <2> QED BY <1>4, <1>5, <2>1
<1>8. \A u \in Writers : Numbered(Stream(u), mu_buf_seq[u])'
  BY <1>7 DEF Numbered
<1>9. \A u \in Writers : Len(RecordsOf(Stream(u)')) = accepted'[u]
  <2> SUFFICES ASSUME NEW u \in Writers PROVE Len(RecordsOf(Stream(u)')) = accepted'[u]
    OBVIOUS
  <2>1. Len(RecordsOf(Stream(u))) = accepted[u]
    BY DEF StreamInv, AcceptInv
  <2> QED BY <1>4, <1>5, <2>1
<1>10. AcceptInv'
  BY <1>9 DEF AcceptInv, RecordsOf
<1> QED BY <1>6, <1>8, <1>10 DEF StreamInv

\* Writing a record keeps the stream numbered and whole, and it holds one record more exactly when
\* the API returns true.
LEMMA WriteStream ==
    ASSUME Control, BufferTypes, HeldInv, StreamInv, NEW w \in Writers, LockWriter(w) \/ InstallBuffer(w)
    PROVE  StreamInv'
<1>1. /\ pc[w] \in {"lock", "have"}
      /\ UNCHANGED <<sink_data, lo_ready, mo_ready_queue>>
  BY WriteBase
<1>2. BufferTypes' /\ HeldInv'
  BY WriteHeld
<1>3. PICK f \in Seq(Buffer), p \in Seq(Buffer) :
         /\ f = mo_fragments[w] /\ p = Base(w) /\ p = Before(w) \o f
         /\ \A c \in Buffer : Before(w) \o Append(f, c) = Append(p, c)
  BY BaseParts DEF Base
<1>4. CASE Parks(w)
  <2>1. /\ mo_fragments' = [mo_fragments EXCEPT ![w] = Held(w)]
        /\ mp_buffer' = [mp_buffer EXCEPT ![w] = <<>>]
        /\ UNCHANGED <<mu_buf_seq, accepted>>
    BY <1>4 DEF Parks
  <2>2. /\ mp_buffer'[w] = <<>> /\ mo_fragments'[w] = Held(w)
        /\ \A u \in Writers : u # w => mp_buffer'[u] = mp_buffer[u] /\ mo_fragments'[u] = mo_fragments[u]
    BY <2>1 DEF BufferTypes
  <2>3. Held(w)' = Held(w)
    <3>1. PICK h \in Seq(Buffer) : h = Held(w)
      BY HeldType
    <3>2. h \o <<>> = h
      BY <3>1
    <3> QED BY <2>2, <3>1, <3>2 DEF Held
  <2>4. /\ Stream(w) \in Seq(Buffer) /\ Stream(w) = Before(w) \o Held(w)'
        /\ Whole(Held(w)') /\ Numbered(Stream(w), mu_buf_seq'[w]) /\ Len(RecordsOf(Stream(w))) = accepted'[w]
    BY <2>1, <2>3, StreamTypes DEF StreamInv, WholeInv, AcceptInv
  <2> QED BY <1>1, <1>2, <2>1, <2>2, <2>4, OneStream
<1>5. ASSUME NEW b \in Buffer, NEW n \in Nat, b.w = w, Room(b) >= StartRoom(w),
             IsTail(w, b, n) \/ IsFresh(w, b, n), Writes(w, b, n)
      PROVE  StreamInv'
  <2>1. /\ \A u \in Writers : u # w => mp_buffer'[u] = mp_buffer[u] /\ mo_fragments'[u] = mo_fragments[u]
        /\ EndsWhole(w, b, n) \/ EndsSplit(w, b, n) \/ EndsDropped(w, b, n)
    BY <1>1, <1>5, WriteOutcome
  <2>2. /\ b.seq \in Nat /\ Len(b.recs) \in Nat /\ n = b.seq + 1 /\ ~b.frag
        /\ Numbered(p, b.seq)
        /\ Len(RecordsOf(p)) + Len(b.recs) = accepted[w]
        /\ Len(RecordsOf(p)) \in Nat
        /\ b.used = 0 => Len(b.recs) = 0 /\ Whole(f)
    <3>1. /\ b.seq \in Nat /\ Len(b.recs) \in Nat /\ n = b.seq + 1 /\ ~b.frag
          /\ Numbered(Base(w), b.seq)
          /\ Len(RecordsOf(Base(w))) + Len(b.recs) = accepted[w]
          /\ Len(RecordsOf(Base(w))) \in Nat
          /\ b.used = 0 => Len(b.recs) = 0 /\ Whole(mo_fragments[w])
      BY <1>5, BaseFacts
    <3> QED BY ONLY <1>3, <3>1
  <2>3. mu_buf_seq \in [Writers -> Nat] /\ accepted \in [Writers -> Nat]
    BY DEF BufferTypes
  <2>4. CASE EndsWhole(w, b, n)
    <3>1. PICK c \in Buffer :
            /\ c.seq = b.seq /\ c.recs = Append(b.recs, cur[w][1].d) /\ c.frag = b.frag
            /\ Held(w)' = Append(f, c)
            /\ mu_buf_seq' = [mu_buf_seq EXCEPT ![w] = n]
            /\ accepted' = [accepted EXCEPT ![w] = accepted[w] + 1]
      BY <1>3, <2>4 DEF EndsWhole, Continues, Counts
    <3>2. Len(c.recs) = Len(b.recs) + 1
      BY <3>1 DEF Buffer
    <3>3. /\ Append(p, c) \in Seq(Buffer) /\ Numbered(Append(p, c), n)
          /\ Len(RecordsOf(Append(p, c))) = Len(RecordsOf(p)) + Len(c.recs)
      BY <2>2, <3>1, OneMore
    <3>4. /\ mu_buf_seq'[w] = n /\ accepted'[w] = accepted[w] + 1
          /\ \A u \in Writers : u # w => mu_buf_seq'[u] = mu_buf_seq[u] /\ accepted'[u] = accepted[u]
      BY <2>3, <3>1
    <3>5. Whole(Append(f, c))
      BY <2>2, <3>1, WholeAppend
    <3>6. /\ Append(p, c) = Before(w) \o Held(w)' /\ Whole(Held(w)')
          /\ Numbered(Append(p, c), mu_buf_seq'[w]) /\ Len(RecordsOf(Append(p, c))) = accepted'[w]
      <4>1. Append(p, c) = Before(w) \o Held(w)'
        BY <1>3, <3>1
      <4>2. Len(RecordsOf(Append(p, c))) = accepted'[w]
        BY ONLY <2>2, <3>2, <3>3, <3>4
      <4> QED BY ONLY <3>1, <3>3, <3>4, <3>5, <4>1, <4>2
    <3> QED BY <1>1, <1>2, <2>1, <3>3, <3>4, <3>6, OneStream
  <2>5. CASE EndsSplit(w, b, n)
    <3>1. PICK c \in Buffer, e \in Buffer :
            /\ c.seq = b.seq /\ c.recs = Append(b.recs, cur[w][1].d)
            /\ e.seq = n /\ e.recs = <<>> /\ e.frag = FALSE
            /\ Held(w)' = Append(Append(f, c), e)
            /\ mu_buf_seq' = [mu_buf_seq EXCEPT ![w] = n + 1]
            /\ accepted' = [accepted EXCEPT ![w] = accepted[w] + 1]
      BY <1>3, <2>5 DEF EndsSplit, Continues, Counts, BeginsBehind
    <3>2. Len(c.recs) = Len(b.recs) + 1 /\ Len(e.recs) = 0
      BY <3>1 DEF Buffer
    <3>3. /\ Append(p, c) \in Seq(Buffer) /\ Numbered(Append(p, c), n)
          /\ Len(RecordsOf(Append(p, c))) = Len(RecordsOf(p)) + Len(c.recs)
      BY <2>2, <3>1, OneMore
    <3>4. PICK q \in Seq(Buffer) : q = Append(p, c)
      BY <3>3
    <3>5. /\ Append(q, e) \in Seq(Buffer) /\ Numbered(Append(q, e), n + 1)
          /\ Len(RecordsOf(Append(q, e))) = Len(RecordsOf(q)) + Len(e.recs)
      BY <3>1, <3>3, <3>4, OneMore
    <3>6. /\ mu_buf_seq'[w] = n + 1 /\ accepted'[w] = accepted[w] + 1
          /\ \A u \in Writers : u # w => mu_buf_seq'[u] = mu_buf_seq[u] /\ accepted'[u] = accepted[u]
      BY <2>3, <3>1
    <3>7. PICK g \in Seq(Buffer) : g = Append(f, c)
      <4>1. Append(f, c) \in Seq(Buffer)
        OBVIOUS
      <4> QED BY ONLY <4>1
    <3>8. Whole(Append(g, e))
      BY <3>1, WholeAppend
    <3>9. Before(w) \o Append(g, e) = Append(q, e)
      <4>1. Before(w) \o g = q
        BY <1>3, <3>4, <3>7
      <4>2. Before(w) \in Seq(Buffer)
        BY BaseParts
      <4>3. Before(w) \o Append(g, e) = Append(Before(w) \o g, e)
        BY <4>2, ConcatSnoc
      <4> QED BY <4>1, <4>3
    <3>10. /\ Append(q, e) = Before(w) \o Held(w)' /\ Whole(Held(w)')
           /\ Numbered(Append(q, e), mu_buf_seq'[w]) /\ Len(RecordsOf(Append(q, e))) = accepted'[w]
      <4>1. Append(q, e) = Before(w) \o Held(w)'
        BY ONLY <3>1, <3>7, <3>9
      <4>2. Whole(Held(w)')
        BY ONLY <3>1, <3>7, <3>8
      <4>3. Len(RecordsOf(Append(q, e))) = accepted'[w]
        BY ONLY <2>2, <3>2, <3>3, <3>4, <3>5, <3>6
      <4> QED BY ONLY <3>5, <3>6, <4>1, <4>2, <4>3
    <3> QED BY <1>1, <1>2, <2>1, <3>5, <3>6, <3>10, OneStream
  <2>6. CASE EndsDropped(w, b, n)
    <3>1. /\ accepted' = accepted
          /\ mu_buf_seq'[w] = IF b.used = 0 THEN n - 1 ELSE n
          /\ \A u \in Writers : u # w => mu_buf_seq'[u] = mu_buf_seq[u]
      BY <2>3, <2>6 DEF EndsDropped
    <3>2. CASE b.used = 0
      <4>1. Held(w)' = f /\ mu_buf_seq'[w] = b.seq
        BY <1>3, <2>2, <2>6, <3>1, <3>2 DEF EndsDropped
      <4>2. /\ p = Before(w) \o Held(w)' /\ Whole(Held(w)')
            /\ Numbered(p, mu_buf_seq'[w]) /\ Len(RecordsOf(p)) = accepted'[w]
        <5>1. p = Before(w) \o Held(w)'
          BY ONLY <1>3, <4>1
        <5>2. Len(RecordsOf(p)) = accepted'[w]
          BY ONLY <2>2, <3>1, <3>2
        <5> QED BY ONLY <2>2, <3>2, <4>1, <5>1, <5>2
      <4> QED BY <1>1, <1>2, <2>1, <3>1, <4>2, OneStream
    <3>3. CASE b.used # 0
      <4>1. Held(w)' = Append(f, b) /\ mu_buf_seq'[w] = n
        BY <1>3, <2>6, <3>1, <3>3 DEF EndsDropped
      <4>2. /\ Append(p, b) \in Seq(Buffer) /\ Numbered(Append(p, b), n)
            /\ Len(RecordsOf(Append(p, b))) = Len(RecordsOf(p)) + Len(b.recs)
        BY <2>2, OneMore
      <4>3. Whole(Append(f, b))
        BY <2>2, WholeAppend
      <4>4. /\ Append(p, b) = Before(w) \o Held(w)' /\ Whole(Held(w)')
            /\ Numbered(Append(p, b), mu_buf_seq'[w]) /\ Len(RecordsOf(Append(p, b))) = accepted'[w]
        BY <1>3, <2>2, <3>1, <4>1, <4>2, <4>3
      <4> QED BY <1>1, <1>2, <2>1, <3>1, <4>2, <4>4, OneStream
    <3> QED BY <3>2, <3>3
  <2> QED BY <2>1, <2>4, <2>5, <2>6
<1> QED BY <1>4, <1>5, WriteBase

\* Every step keeps the streams.
LEMMA StreamStep ==
    ASSUME Control, BufferTypes, HeldInv, StreamInv, [Next]_vars
    PROVE  StreamInv'
<1>1. BufferTypes'
  BY BuffersStep
<1> QED BY <1>1, QuietSteps, QuietStream, WriteStream, PushStream, PullStream, ReadyStream, FlushStream

\* The streams are empty at first.
LEMMA StreamInit == Init => StreamInv
<1> SUFFICES ASSUME Init PROVE StreamInv
  OBVIOUS
<1>1. /\ sink_data = [w \in Writers |-> <<>>] /\ mp_buffer = [w \in Writers |-> <<>>]
      /\ mo_fragments = [w \in Writers |-> <<>>] /\ lo_ready = <<>> /\ mo_ready_queue = <<>>
      /\ mu_buf_seq = [w \in Writers |-> 0] /\ accepted = [w \in Writers |-> 0]
  BY DEF Init
<1>2. <<>> \o <<>> = <<>> /\ Len(<<>>) = 0
  OBVIOUS
<1>3. \A w \in Writers : /\ sink_data[w] = <<>> /\ Held(w) = <<>> /\ Taken(w) = <<>> /\ Pushed(w) = <<>>
                         /\ mu_buf_seq[w] = 0 /\ accepted[w] = 0
  BY <1>1, <1>2, OfWriterEmpty DEF Held, Taken, Pushed
<1>4. \A w \in Writers : Stream(w) = <<>>
  BY <1>2, <1>3 DEF Stream, Taken, Pushed
<1>5. WholeInv
  BY <1>3, WholeEmpty DEF WholeInv
<1>6. Numbered(<<>>, 0)
  BY DEF Numbered
<1>7. \A w \in Writers : Numbered(Stream(w), mu_buf_seq[w])
  BY <1>3, <1>4, <1>6
<1>8. AcceptInv
  BY <1>2, <1>3, <1>4, RecordsEmpty DEF AcceptInv
<1> QED BY <1>5, <1>7, <1>8 DEF StreamInv
-------------------------------------------------------------------------------
(*****************************************************************************)
(* The worker's phases and the batch.                                        *)
(*****************************************************************************)

\* A buffer that is due is with a writer the worker has yet to pull or in the ready queue, so that
\* none is left when both are done. A writer that exits meanwhile moves its buffers from one to
\* the other.
BatchInv ==
    /\ wpc = "drain" => due \subseteq (UNION {Keys(Held(w)) : w \in Range(to_pull)}) \cup Keys(mo_ready_queue)
    /\ wpc \in {"service", "recycle", "flush"} => due = {}
    /\ due \subseteq Writers \X Nat

\* What the worker has in its hands in each phase of its loop.
PhaseInv ==
    /\ wpc # "recycle" => lo_bufs = <<>>
    /\ wpc \in {"wait", "collect", "stopped"} => lo_ready = <<>>
    /\ wpc = "stopped" => lb_stop

\* The flags of the wake event.
WakeTypes == mb_wake_pending \in BOOLEAN /\ ev_wake \in BOOLEAN

\* No other thread changes the worker's state.
LEMMA WriterKeepsWorker == \A w \in Writers : WriterStep(w) => UNCHANGED workerVars
<1> SUFFICES ASSUME NEW w \in Writers, WriterStep(w) PROVE UNCHANGED workerVars
  OBVIOUS
<1>1. CASE Create(w) \/ (\E m \in MtkIds : register_mtk(w, m)) \/ ExitPush(w) \/ ExitStep(w)
  BY <1>1 DEF Create, register_mtk, ExitPush, ExitStep, ExitStats, ExitUnregister
<1>2. CASE \E d \in Descs, s \in LogSizes \cup {MtkSize} : Send(w, d, s)
  BY <1>2 DEF Send
<1>3. CASE CallStep(w)
  BY <1>3 DEF CallStep, ResolveBegin, ResolveFail, ResolveEnd, AcquireTry, AcquireWait, LockWriter, InstallBuffer
<1> QED BY <1>1, <1>2, <1>3 DEF WriterStep

\* A step is of the worker or leaves it alone.
LEMMA OtherSteps ==
    ASSUME [Next]_vars
    PROVE  WorkerStep \/ UNCHANGED workerVars
<1>1. OwnerRelease => UNCHANGED workerVars
  BY DEF OwnerRelease
<1>2. Stopped \/ UNCHANGED vars => UNCHANGED workerVars
  BY DEF Stopped, vars
<1> QED BY <1>1, <1>2, WriterKeepsWorker DEF Next

\* Every step keeps the phases of the worker's loop.
LEMMA PhaseStep ==
    ASSUME PhaseInv, [Next]_vars
    PROVE  PhaseInv'
<1>1. CASE UNCHANGED workerVars
  BY <1>1 DEF PhaseInv
<1>2. CASE WorkerStep
  BY <1>2 DEF WorkerStep, WaitEvent, CollectBegin, Pull, CollectReady, WriteService, RecycleService,
              ClearWakePending, flush_ready, PhaseInv
<1> QED BY <1>1, <1>2, OtherSteps

\* The worker begins with nothing in its hands.
LEMMA PhaseInit == Init => PhaseInv
  BY DEF Init, PhaseInv

-----------------------------------------------------------------------------
\* More buffers, more keys.
LEMMA KeysMonotone ==
    ASSUME NEW s, NEW t
    PROVE  /\ Keys(<<>>) = {}
           /\ Range(t) \subseteq Range(s) => Keys(t) \subseteq Keys(s)
  BY RangeEmpty DEF Keys

\* The keys of two sequences joined are those of both.
LEMMA KeysConcat ==
    ASSUME NEW s \in Seq(Buffer), NEW t \in Seq(Buffer)
    PROVE  Keys(s \o t) = Keys(s) \cup Keys(t)
<1>1. Range(s \o t) = Range(s) \cup Range(t)
  BY RangeConcatenation
<1> QED BY <1>1 DEF Keys

\* An append adds the key of one buffer.
LEMMA KeysAppend ==
    ASSUME NEW s \in Seq(Buffer), NEW b \in Buffer
    PROVE  Keys(Append(s, b)) = Keys(s) \cup {<<b.w, b.seq>>}
<1>1. Range(Append(s, b)) = Range(s) \cup {b}
  BY RangeAppend
<1> QED BY <1>1 DEF Keys

\* A key is a writer and a number.
LEMMA KeysType == \A s \in Seq(Buffer) : Keys(s) \subseteq Writers \X Nat
<1> SUFFICES ASSUME NEW s \in Seq(Buffer) PROVE Keys(s) \subseteq Writers \X Nat
  OBVIOUS
<1>1. \A b \in Range(s) : b \in Buffer
  BY RangeOfSeq
<1> QED BY <1>1 DEF Keys, Buffer

\* No step of a thread takes a buffer away that it has filled.
LEMMA WriteKeepsKeys ==
    ASSUME Control, BufferTypes, HeldInv, NEW w \in Writers, LockWriter(w) \/ InstallBuffer(w)
    PROVE  /\ Keys(Held(w)) \subseteq Keys(Held(w)')
           /\ \A u \in Writers : u # w => Held(u)' = Held(u)
<1>1. pc[w] \in {"lock", "have"}
  BY WriteBase
<1>2. PICK f \in Seq(Buffer) : f = mo_fragments[w]
  BY DEF BufferTypes
<1>3. CASE Parks(w)
  <2>1. /\ mo_fragments' = [mo_fragments EXCEPT ![w] = Held(w)]
        /\ mp_buffer' = [mp_buffer EXCEPT ![w] = <<>>]
    BY <1>3 DEF Parks
  <2>2. /\ mp_buffer'[w] = <<>> /\ mo_fragments'[w] = Held(w)
        /\ \A u \in Writers : u # w => mp_buffer'[u] = mp_buffer[u] /\ mo_fragments'[u] = mo_fragments[u]
    BY <2>1 DEF BufferTypes
  <2>3. Held(w)' = Held(w)
    <3>1. PICK h \in Seq(Buffer) : h = Held(w)
      BY HeldType
    <3>2. h \o <<>> = h
      BY <3>1
    <3> QED BY <2>2, <3>1, <3>2 DEF Held
  <2> QED BY <2>2, <2>3 DEF Held
<1>4. ASSUME NEW b \in Buffer, NEW n \in Nat, b.w = w, Room(b) >= StartRoom(w),
             IsTail(w, b, n) \/ IsFresh(w, b, n), Writes(w, b, n)
      PROVE  /\ Keys(Held(w)) \subseteq Keys(Held(w)')
             /\ \A u \in Writers : u # w => Held(u)' = Held(u)
  <2>1. /\ \A u \in Writers : u # w => mp_buffer'[u] = mp_buffer[u] /\ mo_fragments'[u] = mo_fragments[u]
        /\ EndsWhole(w, b, n) \/ EndsSplit(w, b, n) \/ EndsDropped(w, b, n)
    BY <1>1, <1>4, WriteOutcome
  <2>2. /\ Keys(Held(w)) \subseteq Keys(f) \cup {<<b.w, b.seq>>}
        /\ b.used = 0 => Held(w) = f
    <3>1. CASE IsTail(w, b, n)
      BY <1>2, <3>1, KeysAppend DEF IsTail
    <3>2. CASE IsFresh(w, b, n)
      BY <1>2, <3>2 DEF IsFresh
    <3> QED BY <1>4, <3>1, <3>2
  <2>3. CASE EndsWhole(w, b, n)
    <3>1. PICK c \in Buffer : c.w = b.w /\ c.seq = b.seq /\ Held(w)' = Append(f, c)
      BY <1>2, <2>3 DEF EndsWhole, Continues
    <3>2. Keys(Held(w)') = Keys(f) \cup {<<b.w, b.seq>>}
      BY <3>1, KeysAppend
    <3> QED BY <2>1, <2>2, <3>2 DEF Held
  <2>4. CASE EndsSplit(w, b, n)
    <3>1. PICK c \in Buffer, e \in Buffer : c.w = b.w /\ c.seq = b.seq /\ Held(w)' = Append(Append(f, c), e)
      BY <1>2, <2>4 DEF EndsSplit, Continues
    <3>2. Append(f, c) \in Seq(Buffer)
      OBVIOUS
    <3>3. PICK g \in Seq(Buffer) : g = Append(f, c)
      BY ONLY <3>2
    <3>4. Keys(g) = Keys(f) \cup {<<b.w, b.seq>>}
      BY <3>1, <3>3, KeysAppend
    <3>5. Keys(Append(g, e)) = Keys(g) \cup {<<e.w, e.seq>>}
      BY KeysAppend
    <3>6. Keys(f) \cup {<<b.w, b.seq>>} \subseteq Keys(Held(w)')
      BY ONLY <3>1, <3>3, <3>4, <3>5
    <3> QED BY <2>1, <2>2, <3>6 DEF Held
  <2>5. CASE EndsDropped(w, b, n)
    <3>1. Held(w)' = IF b.used = 0 THEN f ELSE Append(f, b)
      BY <1>2, <2>5 DEF EndsDropped
    <3>2. Keys(Append(f, b)) = Keys(f) \cup {<<b.w, b.seq>>}
      BY KeysAppend
    <3> QED BY <2>1, <2>2, <3>1, <3>2 DEF Held
  <2> QED BY <2>1, <2>3, <2>4, <2>5
<1> QED BY <1>3, <1>4, WriteBase

\* What other threads do while the worker collects loses no buffer: a writer's buffers stay with
\* it or go to the ready queue.
LEMMA ThreadsKeepKeys ==
    ASSUME Control, BufferTypes, HeldInv, [Next]_vars, UNCHANGED workerVars
    PROVE  /\ \A u \in Writers : Keys(Held(u)) \subseteq Keys(Held(u)') \cup Keys(mo_ready_queue')
           /\ Keys(mo_ready_queue) \subseteq Keys(mo_ready_queue')
<1>1. CASE UNCHANGED streamVars
  BY <1>1 DEF streamVars, Held
<1>2. ASSUME NEW w \in Writers, LockWriter(w) \/ InstallBuffer(w)
      PROVE  /\ \A u \in Writers : Keys(Held(u)) \subseteq Keys(Held(u)') \cup Keys(mo_ready_queue')
             /\ Keys(mo_ready_queue) \subseteq Keys(mo_ready_queue')
  <2>1. mo_ready_queue' = mo_ready_queue
    BY <1>2, WriteBase
  <2>2. /\ Keys(Held(w)) \subseteq Keys(Held(w)')
        /\ \A u \in Writers : u # w => Held(u)' = Held(u)
    BY <1>2, WriteKeepsKeys
  <2> QED BY <2>1, <2>2
<1>3. ASSUME NEW w \in Writers, ExitPush(w)
      PROVE  /\ \A u \in Writers : Keys(Held(u)) \subseteq Keys(Held(u)') \cup Keys(mo_ready_queue')
             /\ Keys(mo_ready_queue) \subseteq Keys(mo_ready_queue')
  <2>1. /\ mo_ready_queue' = mo_ready_queue \o Held(w)
        /\ mo_fragments' = [mo_fragments EXCEPT ![w] = <<>>]
        /\ mp_buffer' = [mp_buffer EXCEPT ![w] = <<>>]
    BY <1>3 DEF ExitPush
  <2>2. \A u \in Writers : u # w => Held(u)' = Held(u)
    BY <2>1, Emptied
  <2>3. Held(w) \in Seq(Buffer) /\ mo_ready_queue \in Seq(Buffer)
    BY HeldType DEF BufferTypes
  <2>4. Keys(mo_ready_queue') = Keys(mo_ready_queue) \cup Keys(Held(w))
    BY <2>1, <2>3, KeysConcat
  <2> QED BY <2>2, <2>4
<1>4. CASE Pull \/ CollectReady \/ flush_ready
  <2>1. wpc' # wpc \/ to_pull' # to_pull
    BY <1>4, HeadTailProperties DEF Pull, CollectReady, flush_ready, Control, CoreTypes
  <2> QED BY <2>1
<1> QED BY <1>1, <1>2, <1>3, <1>4, QuietSteps

\* Every step keeps the batch: what is due and not yet collected is with a writer still to be
\* pulled or in the ready queue.
LEMMA BatchStep ==
    ASSUME Control, BufferTypes, HeldInv, BatchInv, [Next]_vars
    PROVE  BatchInv'
<1>1. CASE UNCHANGED workerVars
  <2>1. /\ \A u \in Writers : Keys(Held(u)) \subseteq Keys(Held(u)') \cup Keys(mo_ready_queue')
        /\ Keys(mo_ready_queue) \subseteq Keys(mo_ready_queue')
    BY <1>1, ThreadsKeepKeys
  <2>2. \A u \in Range(to_pull) : u \in Writers
    BY RangeOfSeq DEF Control, CoreTypes
  <2>3. wpc = "drain" => due \subseteq (UNION {Keys(Held(w)') : w \in Range(to_pull)}) \cup Keys(mo_ready_queue')
    <3> SUFFICES ASSUME wpc = "drain", NEW k \in due, k \notin Keys(mo_ready_queue')
                 PROVE  \E w \in Range(to_pull) : k \in Keys(Held(w)')
      OBVIOUS
    <3>1. k \notin Keys(mo_ready_queue)
      BY <2>1
    <3>2. PICK w \in Range(to_pull) : k \in Keys(Held(w))
      BY <3>1 DEF BatchInv
    <3> QED BY <2>1, <2>2, <3>2
  <2> QED BY <1>1, <2>3 DEF BatchInv
<1>2. CASE CollectBegin
  <2>1. /\ due' = (UNION {Keys(Held(w)) : w \in Writers}) \cup Keys(mo_ready_queue)
        /\ to_pull' = mp_writers /\ wpc' = "drain"
        /\ UNCHANGED <<mp_buffer, mo_fragments, mo_ready_queue>>
    BY <1>2 DEF CollectBegin
  <2>2. \A w : Held(w)' = Held(w)
    BY <2>1 DEF Held
  <2>3. ASSUME NEW w \in Writers, w \notin Range(mp_writers) PROVE Keys(Held(w)) = {}
    <3>1. pc[w] \in {"unborn", "gone"}
      BY <2>3 DEF Control, RegistryInv, Alive
    <3>2. Held(w) = <<>>
      BY <3>1 DEF HeldInv, Exited
    <3> QED BY <3>2, KeysMonotone
  <2>4. due' \subseteq (UNION {Keys(Held(w)') : w \in Range(to_pull')}) \cup Keys(mo_ready_queue')
    BY <2>1, <2>2, <2>3
  <2>5. due' \subseteq Writers \X Nat
    <3>1. \A w \in Writers : Keys(Held(w)) \subseteq Writers \X Nat
      BY HeldType, KeysType
    <3>2. Keys(mo_ready_queue) \subseteq Writers \X Nat
      BY KeysType DEF BufferTypes
    <3> QED BY <2>1, <3>1, <3>2
  <2> QED BY <2>1, <2>4, <2>5 DEF BatchInv
<1>3. CASE Pull
  <2>1. PICK w : w = Head(to_pull)
    OBVIOUS
  <2>2. /\ wpc = "drain" /\ wpc' = wpc /\ to_pull # <<>> /\ to_pull' = Tail(to_pull)
        /\ due' = due \ Keys(Held(w)) /\ mo_ready_queue' = mo_ready_queue
        /\ mo_fragments' = [mo_fragments EXCEPT ![w] = <<>>]
        /\ mp_buffer' = [mp_buffer EXCEPT ![w] = <<>>]
    BY <1>3, <2>1 DEF Pull
  <2>3. w \in Writers
    BY <1>3, <2>1, PullHeld
  <2>4. \A u \in Writers : u # w => Held(u)' = Held(u)
    BY <2>2, <2>3, Emptied
  <2>5. \A u \in Range(to_pull) : u \in Writers /\ (u = w \/ u \in Range(Tail(to_pull)))
    <3>1. PICK s \in Seq(Writers) : s = to_pull
      BY DEF Control, CoreTypes
    <3>2. s # <<>> /\ Tail(s) \in Seq(Writers) /\ Len(Tail(s)) = Len(s) - 1 /\ Len(s) \in Nat
          /\ \A i \in 1 .. Len(Tail(s)) : Tail(s)[i] = s[i + 1]
      BY <2>2, <3>1, HeadTailProperties
    <3>3. Head(s) = s[1]
      BY <3>2
    <3> SUFFICES ASSUME NEW i \in 1 .. Len(s)
                 PROVE  s[i] \in Writers /\ (s[i] = w \/ s[i] \in Range(Tail(s)))
      BY <3>1 DEF Range
    <3>4. CASE i = 1
      BY <2>1, <3>1, <3>3, <3>4
    <3>5. CASE i # 1
      <4>0. s[i] \in Writers
        OBVIOUS
      <4>1. i - 1 \in 1 .. Len(Tail(s)) /\ (i - 1) + 1 = i
        BY <3>2, <3>5
      <4>2. Tail(s)[i - 1] = s[i]
        BY <3>2, <4>1
      <4>3. DOMAIN Tail(s) = 1 .. Len(Tail(s))
        BY <3>2
      <4> QED BY <4>0, <4>1, <4>2, <4>3 DEF Range
    <3> QED BY ONLY <3>4, <3>5
  <2>6. due' \subseteq (UNION {Keys(Held(u)') : u \in Range(to_pull')}) \cup Keys(mo_ready_queue')
    <3> SUFFICES ASSUME NEW k \in due, k \notin Keys(Held(w)), k \notin Keys(mo_ready_queue)
                 PROVE  \E u \in Range(Tail(to_pull)) : k \in Keys(Held(u)')
      BY <2>2
    <3>1. PICK u \in Range(to_pull) : k \in Keys(Held(u))
      BY <2>2 DEF BatchInv
    <3> QED BY <2>4, <2>5, <3>1
  <2> QED BY <2>2, <2>6 DEF BatchInv
<1>4. CASE CollectReady
  <2>1. wpc = "drain" /\ to_pull = <<>> /\ wpc' = "service" /\ due' = due \ Keys(mo_ready_queue)
    BY <1>4 DEF CollectReady
  <2>2. due \subseteq Keys(mo_ready_queue)
    BY <2>1, RangeEmpty DEF BatchInv
  <2> QED BY <2>1, <2>2 DEF BatchInv
<1>5. CASE WaitEvent \/ WriteService \/ RecycleService \/ ClearWakePending \/ flush_ready
  BY <1>5 DEF WaitEvent, WriteService, RecycleService, ClearWakePending, flush_ready, BatchInv
<1> QED BY <1>1, <1>2, <1>3, <1>4, <1>5, OtherSteps DEF WorkerStep

\* Nothing is due at first.
LEMMA BatchInit == Init => BatchInv
  BY DEF Init, BatchInv

\* The wake flags stay flags.
LEMMA WakeStep ==
    ASSUME WakeTypes, [Next]_vars
    PROVE  WakeTypes'
<1> USE DEF WakeTypes
<1>1. CASE UNCHANGED wakeVars
  BY <1>1
<1>2. CASE notify_pressure
  BY <1>2 DEF notify_pressure
<1>3. \A w : TakeBuffer(w) => WakeTypes'
  BY <1>1, <1>2 DEF TakeBuffer
<1>4. ASSUME NEW w \in Writers, WriterStep(w) PROVE WakeTypes'
  <2>1. CASE Create(w) \/ ExitStep(w)
    BY <2>1, <1>1 DEF Create, ExitStep, ExitStats, ExitUnregister
  <2>2. CASE \E m \in MtkIds : register_mtk(w, m)
    BY <2>2, <1>1, <1>3 DEF register_mtk, SvcEntryOrDrop
  <2>3. CASE \E d \in Descs, s \in LogSizes \cup {MtkSize} : Send(w, d, s)
    BY <2>3, <1>1 DEF Send
  <2>4. CASE ResolveBegin(w) \/ ResolveFail(w) \/ ResolveEnd(w) \/ AcquireWait(w)
    BY <2>4, <1>1 DEF ResolveBegin, ResolveFail, ResolveEnd, AcquireWait
  <2>5. CASE AcquireTry(w)
    BY <2>5, <1>2, <1>3 DEF AcquireTry
  <2>6. \A b, n : WriteWhole(w, b, n) \/ WriteFragmented(w, b, n) \/ Discard(w, b, n) => WakeTypes'
    BY <1>1, <1>3 DEF WriteWhole, WriteFragmented, Discard
  <2>7. CASE LockWriter(w)
    BY <2>7, <1>1, <2>6 DEF LockWriter
  <2>8. CASE InstallBuffer(w)
    BY <2>8, <2>6 DEF InstallBuffer
  <2>9. CASE ExitPush(w)
    BY <2>9 DEF ExitPush
  <2> QED BY <1>4, <2>1, <2>2, <2>3, <2>4, <2>5, <2>7, <2>8, <2>9 DEF WriterStep, CallStep
<1>5. CASE OwnerRelease \/ Stopped \/ UNCHANGED vars
  BY <1>5, <1>1 DEF OwnerRelease, Stopped, vars
<1>6. CASE WorkerStep
  BY <1>6 DEF WorkerStep, WaitEvent, CollectBegin, Pull, CollectReady, WriteService, RecycleService,
              ClearWakePending, flush_ready
<1> QED BY <1>4, <1>5, <1>6 DEF Next

\* The wake flags are flags at first.
LEMMA WakeInit == Init => WakeTypes
  BY DEF Init, WakeTypes
-------------------------------------------------------------------------------
(*****************************************************************************)
(* The drop counters.                                                        *)
(*****************************************************************************)

\* The drop counters are numbers and balance.
DropInv ==
    /\ mu_dropped \in [Writers -> Nat] /\ discarded \in [Writers -> Nat] /\ mu_dropped_total \in Nat
    /\ DropsExact

\* What the drop counters' part of the invariant is about.
dropVars == <<mu_dropped, discarded, mu_dropped_total>>

\* SumFunction of a function of the writers is its sum over the writers.
LEMMA SumWriters ==
    ASSUME NEW S, NEW f \in [Writers -> S]
    PROVE  SumFunction(f) = SumFunctionOnSet(f, Writers)
  BY DEF SumFunction

\* Which steps touch the drop counters.
LEMMA DropSteps ==
    ASSUME [Next]_vars
    PROVE  \/ UNCHANGED dropVars
           \/ \E w \in Writers : Drop(w) /\ UNCHANGED mu_dropped_total
           \/ \E w \in Writers : ExitStats(w)
           \/ poll_dropped_stats /\ UNCHANGED discarded
<1> USE DEF dropVars
<1>1. ASSUME NEW w \in Writers, WriterStep(w)
      PROVE  \/ UNCHANGED dropVars
             \/ Drop(w) /\ UNCHANGED mu_dropped_total
             \/ ExitStats(w)
  <2>1. CASE Create(w) \/ ExitUnregister(w) \/ ExitPush(w)
    BY <2>1 DEF Create, ExitUnregister, ExitPush
  <2>2. CASE \E m \in MtkIds : register_mtk(w, m)
    BY <2>2 DEF register_mtk
  <2>3. CASE \E d \in Descs, s \in LogSizes \cup {MtkSize} : Send(w, d, s)
    BY <2>3 DEF Send
  <2>4. CASE ResolveBegin(w) \/ ResolveEnd(w) \/ AcquireTry(w) \/ AcquireWait(w)
    BY <2>4 DEF ResolveBegin, ResolveEnd, AcquireTry, AcquireWait
  <2>5. CASE ResolveFail(w)
    BY <2>5 DEF ResolveFail
  <2>6. \A b, n : WriteWhole(w, b, n) \/ WriteFragmented(w, b, n) \/ Discard(w, b, n)
                    => Drop(w) \/ UNCHANGED <<mu_dropped, discarded>>
    BY DEF WriteWhole, WriteFragmented, Discard, Accept
  <2>7. CASE LockWriter(w)
    BY <2>6, <2>7 DEF LockWriter
  <2>8. CASE InstallBuffer(w)
    BY <2>6, <2>8 DEF InstallBuffer
  <2> QED BY <1>1, <2>1, <2>2, <2>3, <2>4, <2>5, <2>7, <2>8 DEF WriterStep, CallStep, ExitStep
<1>2. CASE OwnerRelease \/ Stopped \/ UNCHANGED vars
  BY <1>2 DEF OwnerRelease, Stopped, vars
<1>3. CASE WorkerStep
  BY <1>3 DEF WorkerStep, WaitEvent, CollectBegin, Pull, CollectReady, WriteService, RecycleService,
              ClearWakePending, flush_ready
<1> QED BY <1>1, <1>2, <1>3 DEF Next

\* Every step keeps the drop counters: a count moves from a writer to the core or is added with
\* the record it is about.
LEMMA DropStep ==
    ASSUME Control, DropInv, [Next]_vars
    PROVE  DropInv'
<1>1. IsFiniteSet(Writers)
  BY PipelineAssumption
<1>2. /\ mu_dropped \in [Writers -> Nat] /\ discarded \in [Writers -> Nat] /\ mu_dropped_total \in Nat
      /\ mu_dropped_total + SumFunctionOnSet(mu_dropped, Writers) = SumFunctionOnSet(discarded, Writers)
  BY SumWriters DEF DropInv, DropsExact
<1>3. /\ SumFunctionOnSet(mu_dropped, Writers) \in Int /\ SumFunctionOnSet(discarded, Writers) \in Int
  BY <1>1, <1>2, SumInt
<1>4. ASSUME mu_dropped' \in [Writers -> Nat], discarded' \in [Writers -> Nat], mu_dropped_total' \in Nat,
             mu_dropped_total' + SumFunctionOnSet(mu_dropped', Writers) = SumFunctionOnSet(discarded', Writers)
      PROVE  DropInv'
  <2>1. SumFunction(mu_dropped') = SumFunctionOnSet(mu_dropped', Writers)
    BY <1>4, SumWriters
  <2>2. SumFunction(discarded') = SumFunctionOnSet(discarded', Writers)
    BY <1>4, SumWriters
  <2> QED BY <1>4, <2>1, <2>2 DEF DropInv, DropsExact
<1>5. CASE UNCHANGED dropVars
  BY <1>2, <1>4, <1>5 DEF dropVars
<1>6. ASSUME NEW w \in Writers, Drop(w), UNCHANGED mu_dropped_total PROVE DropInv'
  <2>1. /\ mu_dropped' = [mu_dropped EXCEPT ![w] = mu_dropped[w] + 1]
        /\ discarded' = [discarded EXCEPT ![w] = discarded[w] + 1]
    BY <1>6 DEF Drop
  <2>2. /\ mu_dropped' \in [Writers -> Nat] /\ discarded' \in [Writers -> Nat]
        /\ mu_dropped'[w] = mu_dropped[w] + 1 /\ discarded'[w] = discarded[w] + 1
        /\ \A u \in Writers : u = w \/ (mu_dropped[u] = mu_dropped'[u] /\ discarded[u] = discarded'[u])
    BY <1>2, <2>1
  <2>3. SumFunctionOnSet(mu_dropped', Writers) = SumFunctionOnSet(mu_dropped, Writers) - mu_dropped[w] + mu_dropped'[w]
    <3>1. /\ \A u \in Writers : mu_dropped[u] \in Int /\ mu_dropped'[u] \in Int
          /\ \A u \in Writers : u = w \/ mu_dropped[u] = mu_dropped'[u]
      BY <1>2, <2>2
    <3> QED BY <1>1, <3>1, SumChange
  <2>4. SumFunctionOnSet(discarded', Writers) = SumFunctionOnSet(discarded, Writers) - discarded[w] + discarded'[w]
    <3>1. /\ \A u \in Writers : discarded[u] \in Int /\ discarded'[u] \in Int
          /\ \A u \in Writers : u = w \/ discarded[u] = discarded'[u]
      BY <1>2, <2>2
    <3> QED BY <1>1, <3>1, SumChange
  <2>5. mu_dropped[w] \in Nat /\ discarded[w] \in Nat
    BY <1>2
  <2>6. mu_dropped_total' + SumFunctionOnSet(mu_dropped', Writers) = SumFunctionOnSet(discarded', Writers)
    BY ONLY <1>2, <1>3, <1>6, <2>2, <2>3, <2>4, <2>5
  <2> QED BY <1>2, <1>4, <1>6, <2>2, <2>6
<1>7. ASSUME NEW w \in Writers, ExitStats(w) PROVE DropInv'
  <2>1. /\ mu_dropped_total' = mu_dropped_total + mu_dropped[w]
        /\ mu_dropped' = [mu_dropped EXCEPT ![w] = 0] /\ discarded' = discarded
    BY <1>7 DEF ExitStats
  <2>2. /\ mu_dropped' \in [Writers -> Nat] /\ mu_dropped'[w] = 0 /\ mu_dropped[w] \in Nat
        /\ \A u \in Writers : u = w \/ mu_dropped[u] = mu_dropped'[u]
    BY <1>2, <2>1
  <2>3. SumFunctionOnSet(mu_dropped', Writers) = SumFunctionOnSet(mu_dropped, Writers) - mu_dropped[w] + mu_dropped'[w]
    <3>1. \A u \in Writers : mu_dropped[u] \in Int /\ mu_dropped'[u] \in Int
      BY <1>2, <2>2
    <3> QED BY <1>1, <2>2, <3>1, SumChange
  <2>4. mu_dropped_total' + SumFunctionOnSet(mu_dropped', Writers) = SumFunctionOnSet(discarded', Writers)
    BY ONLY <1>2, <1>3, <2>1, <2>2, <2>3
  <2> QED BY <1>2, <1>4, <2>1, <2>2, <2>4
<1>8. CASE poll_dropped_stats /\ UNCHANGED discarded
  <2>1. PICK P : P = Range(mp_writers)
    OBVIOUS
  <2>2. P \in SUBSET Writers
    <3>1. \A u \in Range(mp_writers) : u \in Writers
      BY RangeOfSeq DEF Control, CoreTypes
    <3> QED BY <2>1, <3>1
  <2>3. /\ mu_dropped_total' = mu_dropped_total + SumFunctionOnSet(mu_dropped, P)
        /\ mu_dropped' = Without(mu_dropped, Writers, P) /\ discarded' = discarded
    BY <1>8, <2>1 DEF poll_dropped_stats, Without
  <2>4. mu_dropped' \in [Writers -> Nat]
    BY <1>2, <2>3 DEF Without
  <2>5. SumFunctionOnSet(mu_dropped, Writers)
          = SumFunctionOnSet(mu_dropped, P) + SumFunctionOnSet(mu_dropped', Writers)
    <3>1. \A u \in Writers : mu_dropped[u] \in Int
      BY <1>2
    <3>2. SumFunctionOnSet(mu_dropped, Writers)
            = SumFunctionOnSet(mu_dropped, P) + SumFunctionOnSet(Without(mu_dropped, Writers, P), Writers)
      BY <1>1, <2>2, <3>1, SumSplit
    <3> QED BY <2>3, <3>2
  <2>6. SumFunctionOnSet(mu_dropped, P) \in Nat
    <3>1. IsFiniteSet(P) /\ \A u \in P : mu_dropped[u] \in Nat
      BY <1>1, <1>2, <2>2, FS_Subset
    <3> QED BY <3>1, SumNat
  <2>7. SumFunctionOnSet(mu_dropped', Writers) \in Int
    <3>1. \A u \in Writers : mu_dropped'[u] \in Int
      BY <2>4
    <3> QED BY <1>1, <3>1, SumInt
  <2>8. mu_dropped_total' + SumFunctionOnSet(mu_dropped', Writers) = SumFunctionOnSet(discarded', Writers)
    BY ONLY <1>2, <1>3, <2>3, <2>5, <2>6, <2>7
  <2> QED BY <1>2, <1>4, <2>3, <2>4, <2>6, <2>8
<1> QED BY <1>5, <1>6, <1>7, <1>8, DropSteps

\* Nothing has been dropped at first.
LEMMA DropInit == Init => DropInv
<1> SUFFICES ASSUME Init PROVE DropInv
  OBVIOUS
<1>1. /\ mu_dropped = [w \in Writers |-> 0] /\ discarded = [w \in Writers |-> 0] /\ mu_dropped_total = 0
  BY DEF Init
<1>2. IsFiniteSet(Writers)
  BY PipelineAssumption
<1>3. mu_dropped \in [Writers -> Nat] /\ discarded = mu_dropped /\ \A w \in Writers : mu_dropped[w] = 0
  BY <1>1
<1>4. SumFunctionOnSet(mu_dropped, Writers) = 0
  BY <1>2, <1>3, SumZero
<1>5. SumFunction(mu_dropped) = 0
  BY <1>3, <1>4, SumWriters
<1> QED BY <1>1, <1>3, <1>5 DEF DropInv, DropsExact

-------------------------------------------------------------------------------
(*****************************************************************************)
(* Descriptors are announced once.                                           *)
(*****************************************************************************)

USE DEF poolVars, bufVars, recVars, coreVars, descVars, svcVars, wakeVars, workerVars, producerVars

\* The descriptors announced, in order: those the sink has and those in service buffers.
Announced == sink_svc \o Pending

\* The descriptors a writer may use.
KnownTo(w) == IF w \in LogWriters THEN mo_log_descs ELSE mo_mtk_descs

\* The types of the descriptors' state.
DescTypes ==
    /\ mo_desc_map \in [Writers -> SUBSET LogDescs]
    /\ mo_log_desc_mutex \in LogWriters \cup {NoOne}
    /\ mo_log_descs \subseteq LogDescs
    /\ mo_svc_buffers \in Seq(Seq(Descs)) /\ lo_bufs \in Seq(Seq(Descs))
    /\ sink_svc \in Seq(Descs)
    /\ mu_dropped_svc \in Nat

\* The thread that waits for a service buffer holds mo_log_desc_mutex, and nobody makes its
\* descriptor known meanwhile.
MutexInv ==
    \A u \in Writers :
        /\ pc[u] \in {"acquireSvc", "haveSvc"} <=> mo_log_desc_mutex = u
        /\ mo_log_desc_mutex = u => cur[u][1].d \notin mo_log_descs
        /\ mo_desc_map[u] \subseteq mo_log_descs
        /\ pc[u] \in {"lock", "acquire", "have"} => cur[u][1].d \in KnownTo(u)

\* Only known descriptors are announced, each once, and none is missing that is not accounted for.
AnnounceInv ==
    /\ IsFiniteSet(mo_mtk_descs)
    /\ Range(Announced) \subseteq mo_log_descs \cup (mo_mtk_descs \ HugeMtkIds)
    /\ DescOnce

\* What the descriptors' part of the invariant is about.
quietDesc == <<mo_log_desc_mutex, mo_log_descs, mo_mtk_descs, mo_desc_map, mo_svc_buffers, mu_dropped_svc, sink_svc>>

\* The descriptors announced and those pending are descriptors.
LEMMA PendingType ==
    ASSUME DescTypes
    PROVE  Pending \in Seq(Descs) /\ Announced \in Seq(Descs) /\ sink_svc \in Seq(Descs)
<1>1. mo_svc_buffers \in Seq(Seq(Descs)) /\ sink_svc \in Seq(Descs)
  BY DEF DescTypes
<1>2. Pending \in Seq(Descs)
  BY <1>1, FlatType DEF Pending
<1>3. \A s, t \in Seq(Descs) : s \o t \in Seq(Descs)
  BY ConcatIn
<1> QED BY ONLY <1>1, <1>2, <1>3 DEF Announced

\* An entry goes to the end of what the core has to announce.
Announces(d) == (mo_svc_buffers # <<>> /\ mo_svc_buffers' = SvcAppend(d)) \/ mo_svc_buffers' = SvcAppendNew(d)

\* An entry put into a service buffer, the current one or a new one, is the last of those
\* announced.
LEMMA AnnouncesIt ==
    ASSUME DescTypes, NEW d \in Descs, Announces(d), UNCHANGED sink_svc
    PROVE  /\ mo_svc_buffers' \in Seq(Seq(Descs))
           /\ Pending' = Append(Pending, d)
           /\ Announced' = Append(Announced, d)
           /\ Range(Announced') = Range(Announced) \cup {d}
           /\ Range(Pending') = Range(Pending) \cup {d}
<1>1. Pending \in Seq(Descs) /\ Announced \in Seq(Descs) /\ sink_svc \in Seq(Descs)
  BY PendingType
<1>2. mo_svc_buffers \in Seq(Seq(Descs))
  BY DEF DescTypes
<1>3. mo_svc_buffers' \in Seq(Seq(Descs)) /\ FlattenSeq(mo_svc_buffers') = Append(FlattenSeq(mo_svc_buffers), d)
  BY <1>2, FlatGrow, FlatNew DEF Announces, SvcAppend, SvcAppendNew
<1>4. Pending' = Append(Pending, d)
  BY <1>3 DEF Pending
<1>5. Announced' = sink_svc \o Append(Pending, d)
  BY <1>4 DEF Announced
<1>6. sink_svc \o Append(Pending, d) = Append(sink_svc \o Pending, d)
  BY <1>1, ConcatSnoc
<1>7. Announced' = Append(Announced, d)
  BY ONLY <1>5, <1>6 DEF Announced
<1>8. Range(Append(Announced, d)) = Range(Announced) \cup {d} /\ Range(Append(Pending, d)) = Range(Pending) \cup {d}
  BY <1>1, RangeAppend
<1> QED BY <1>3, <1>4, <1>7, <1>8

\* A new element at the end keeps a sequence without repetition.
LEMMA InjectiveAppend ==
    ASSUME NEW S, NEW s \in Seq(S), NEW d \in S, IsInjective(s), d \notin Range(s)
    PROVE  IsInjective(Append(s, d))
<1>1. PICK t : t = Append(s, d)
  OBVIOUS
<1>2. /\ Len(s) \in Nat /\ DOMAIN s = 1 .. Len(s) /\ DOMAIN t = 1 .. Len(s) + 1 /\ t[Len(s) + 1] = d
      /\ \A i \in 1 .. Len(s) : t[i] = s[i]
  BY <1>1
<1>3. \A i \in 1 .. Len(s) : s[i] # d
  BY <1>2 DEF Range
<1>4. ASSUME NEW a \in 1 .. Len(s) + 1, NEW b \in 1 .. Len(s) + 1, t[a] = t[b] PROVE a = b
  <2>1. CASE a = Len(s) + 1 \/ b = Len(s) + 1
    BY <1>2, <1>3, <1>4, <2>1
  <2>2. CASE a # Len(s) + 1 /\ b # Len(s) + 1
    <3>1. a \in 1 .. Len(s) /\ b \in 1 .. Len(s)
      BY <1>2, <2>2
    <3> QED BY <1>2, <1>4, <3>1 DEF IsInjective
  <2> QED BY <2>1, <2>2
<1>5. IsInjective(t)
  BY <1>2, <1>4 DEF IsInjective
<1> QED BY <1>1, <1>5

\* A descriptor nobody has announced yet.
LEMMA AnnounceNew ==
    ASSUME DescTypes, AnnounceInv, NEW d \in Descs, d \notin Range(Announced), Announces(d), UNCHANGED sink_svc
    PROVE  IsInjective(Announced')
<1>1. Announced' = Append(Announced, d) /\ Announced \in Seq(Descs)
  BY AnnouncesIt, PendingType
<1>2. IsInjective(Announced)
  BY DEF AnnounceInv, DescOnce, Announced
<1> QED BY <1>1, <1>2, InjectiveAppend

-----------------------------------------------------------------------------
\* A thread that goes from one place to another without touching the descriptors.
MovesOn ==
    \A u \in Writers :
        \/ pc'[u] = pc[u] /\ cur'[u] = cur[u]
        \/ /\ cur'[u] = cur[u]
           /\ \/ pc[u] \in {"acquireSvc", "haveSvc"} /\ pc'[u] \in {"acquireSvc", "haveSvc"}
              \/ pc[u] \in {"lock", "acquire", "have"} /\ pc'[u] \in {"lock", "acquire", "have"}
        \/ /\ pc[u] \notin {"acquireSvc", "haveSvc"}
           /\ pc'[u] \notin {"acquireSvc", "haveSvc", "lock", "acquire", "have"}
        \/ /\ pc[u] = "idle" /\ pc'[u] = "lock" /\ cur'[u][1].d \in KnownTo(u)

\* Steps of one thread that neither take mo_log_desc_mutex nor give it up nor change its record.
LEMMA MovesOne ==
    ASSUME Control, NEW w \in Writers, NEW p, pc' = [pc EXCEPT ![w] = p],
           \A u \in Writers : u # w => cur'[u] = cur[u],
           \/ /\ cur'[w] = cur[w]
              /\ \/ pc[w] \in {"acquireSvc", "haveSvc"} /\ p \in {"acquireSvc", "haveSvc"}
                 \/ pc[w] \in {"lock", "acquire", "have"} /\ p \in {"lock", "acquire", "have"}
           \/ /\ pc[w] \notin {"acquireSvc", "haveSvc"}
              /\ p \notin {"acquireSvc", "haveSvc", "lock", "acquire", "have"}
           \/ /\ pc[w] = "idle" /\ p = "lock" /\ cur'[w][1].d \in KnownTo(w)
    PROVE  MovesOn
<1>1. \A u \in Writers : pc'[u] = IF u = w THEN p ELSE pc[u]
  BY DEF Control, ThreadTypes
<1> QED BY <1>1 DEF MovesOn

\* Steps that move no thread.
LEMMA MovesNot ==
    ASSUME UNCHANGED <<pc, cur>>
    PROVE  MovesOn
  BY DEF MovesOn

\* Of a thread's steps, only the creation of a metric and the resolving of a log descriptor touch
\* the descriptors.
LEMMA DescWriter ==
    ASSUME Control, MutexInv, NEW w \in Writers, WriterStep(w)
    PROVE  \/ UNCHANGED quietDesc /\ MovesOn
           \/ \E m \in MtkIds : register_mtk(w, m)
           \/ ResolveBegin(w) \/ ResolveEnd(w)
<1> USE DEF quietDesc
<1>0. cur \in [Writers -> Seq([d : Descs, size : Nat])]
  BY DEF Control, ThreadTypes
<1>1. CASE Create(w)
  BY <1>1, MovesOne DEF Create, Goto
<1>2. CASE \E d \in Descs, s \in LogSizes \cup {MtkSize} : Send(w, d, s)
  <2>1. PICK d \in Descs, s \in LogSizes \cup {MtkSize} : Send(w, d, s)
    BY <1>2
  <2>2. /\ UNCHANGED quietDesc /\ pc[w] = "idle" /\ cur' = [cur EXCEPT ![w] = <<[d |-> d, size |-> s]>>]
    BY <2>1 DEF Send
  <2>3. cur'[w][1].d = d /\ \A u \in Writers : u # w => cur'[u] = cur[u]
    BY <1>0, <2>2
  <2>4. PICK p \in {"lock", "resolve"} : /\ pc' = [pc EXCEPT ![w] = p]
                                         /\ p = "lock" => d \in KnownTo(w)
    <3>1. CASE w \in LogWriters
      <4>1. /\ w \notin MtkWriters
            /\ pc' = [pc EXCEPT ![w] = IF d \in mo_desc_map[w] THEN "lock" ELSE "resolve"]
        BY <2>1, <3>1, PipelineAssumption DEF Send, Goto
      <4> QED BY <3>1, <4>1 DEF MutexInv, KnownTo
    <3>2. CASE w \notin LogWriters
      <4>1. pc' = [pc EXCEPT ![w] = "lock"] /\ d \in mo_mtk_descs
        BY <2>1, <3>2 DEF Send, Goto
      <4> QED BY <3>2, <4>1 DEF KnownTo
    <3> QED BY <3>1, <3>2
  <2> QED BY <2>2, <2>3, <2>4, MovesOne
<1>3. CASE ResolveFail(w)
  <2>1. /\ UNCHANGED quietDesc /\ pc[w] = "resolve" /\ pc' = [pc EXCEPT ![w] = "idle"]
        /\ cur' = [cur EXCEPT ![w] = <<>>]
    BY <1>3 DEF ResolveFail, Goto
  <2>2. \A u \in Writers : u # w => cur'[u] = cur[u]
    BY <1>0, <2>1
  <2> QED BY <2>1, <2>2, MovesOne
<1>4. CASE AcquireTry(w)
  <2>1. UNCHANGED quietDesc /\ cur' = cur
    BY <1>4 DEF AcquireTry
  <2>2. \/ pc' = pc
        \/ pc' = [pc EXCEPT ![w] = "have"] /\ pc[w] = "acquire"
        \/ pc' = [pc EXCEPT ![w] = "haveSvc"] /\ pc[w] = "acquireSvc"
    BY <1>4 DEF AcquireTry, Goto
  <2> QED BY <2>1, <2>2, MovesOne, MovesNot
<1>5. CASE AcquireWait(w)
  <2>1. UNCHANGED quietDesc /\ cur' = cur
    BY <1>5 DEF AcquireWait
  <2>2. pc[w] \in {"acquire", "acquireSvc"}
    BY <1>5, AcquireWaits DEF Control, QueueInv
  <2>3. pc' = pc \/ pc' = [pc EXCEPT ![w] = IF pc[w] = "acquire" THEN "have" ELSE "haveSvc"]
    BY <1>5 DEF AcquireWait, Goto
  <2> QED BY <2>1, <2>2, <2>3, MovesOne, MovesNot
<1>6. CASE LockWriter(w) \/ InstallBuffer(w)
  <2>1. UNCHANGED quietDesc /\ pc[w] \in {"lock", "have"}
    BY <1>6 DEF LockWriter, InstallBuffer
  <2>2. \/ pc' = [pc EXCEPT ![w] = "acquire"] /\ cur' = cur
        \/ pc' = [pc EXCEPT ![w] = "idle"] /\ cur' = [cur EXCEPT ![w] = <<>>]
    BY <1>6 DEF LockWriter, InstallBuffer, Goto
  <2>3. \A u \in Writers : u # w => cur'[u] = cur[u]
    BY <1>0, <2>2
  <2> QED BY <2>1, <2>2, <2>3, MovesOne
<1>7. CASE ExitPush(w)
  BY <1>7, MovesOne DEF ExitPush, Goto
<1>8. CASE ExitStats(w)
  BY <1>8, MovesOne DEF ExitStats, Goto
<1>9. CASE ExitUnregister(w)
  BY <1>9, MovesOne DEF ExitUnregister, Goto
<1> QED BY <1>1, <1>2, <1>3, <1>4, <1>5, <1>6, <1>7, <1>8, <1>9 DEF WriterStep, CallStep, ExitStep

\* Of all steps, only these and the writing of the service buffers touch the descriptors.
LEMMA DescSteps ==
    ASSUME Control, MutexInv, [Next]_vars
    PROVE  \/ UNCHANGED quietDesc /\ MovesOn
           \/ \E w \in Writers, m \in MtkIds : register_mtk(w, m)
           \/ \E w \in Writers : ResolveBegin(w) \/ ResolveEnd(w)
           \/ WriteService
<1> USE DEF quietDesc
<1>1. CASE OwnerRelease \/ Stopped \/ UNCHANGED vars
  BY <1>1, MovesNot DEF OwnerRelease, Stopped, vars
<1>2. CASE WorkerStep
  BY <1>2, MovesNot DEF WorkerStep, WaitEvent, CollectBegin, Pull, CollectReady, RecycleService,
                       ClearWakePending, flush_ready
<1> QED BY <1>1, <1>2, DescWriter DEF Next

-----------------------------------------------------------------------------
\* resolve_log_desc finds the descriptor, announces and publishes it, or waits for a service
\* buffer with the mutex held.
LEMMA ResolveOutcome ==
    ASSUME Control, DescTypes, MutexInv, NEW w \in Writers, ResolveBegin(w) \/ ResolveEnd(w),
           NEW d, d = cur[w][1].d
    PROVE  /\ w \in LogWriters /\ d \in LogDescs
           /\ pc[w] \in {"resolve", "haveSvc"} /\ mo_log_desc_mutex \in {NoOne, w}
           /\ UNCHANGED <<cur, mo_mtk_descs, mu_dropped_svc, sink_svc, lo_bufs>>
           /\ \/ Resolved(w, d) /\ d \in mo_log_descs /\ mo_svc_buffers' = mo_svc_buffers
              \/ Resolved(w, d) /\ d \notin mo_log_descs /\ Announces(d)
              \/ /\ pc[w] = "resolve" /\ d \notin mo_log_descs /\ mo_log_desc_mutex' = w
                 /\ pc' = [pc EXCEPT ![w] = "acquireSvc"]
                 /\ UNCHANGED <<mo_log_descs, mo_desc_map, mo_svc_buffers>>
<1>1. pc[w] \in {"resolve", "haveSvc"} /\ UNCHANGED <<cur, mo_mtk_descs, mu_dropped_svc, sink_svc, lo_bufs>>
  BY DEF ResolveBegin, ResolveEnd
<1>2. w \in LogWriters /\ d \in LogDescs
  <2>1. w \in LogWriters
    BY <1>1 DEF Control, CallInv, Writers
  <2>2. cur[w][1] \in Call(w)
    BY <1>1 DEF Control, CallInv, InCall
  <2> QED BY <2>1, <2>2 DEF Call
<1>3. CASE ResolveBegin(w)
  BY <1>1, <1>2, <1>3 DEF ResolveBegin, SvcRoom, Announces, Goto
<1>4. CASE ResolveEnd(w)
  <2>1. pc[w] = "haveSvc" /\ mo_svc_buffers' = SvcAppendNew(d) /\ Resolved(w, d)
    BY <1>4 DEF ResolveEnd
  <2>2. mo_log_desc_mutex = w /\ d \notin mo_log_descs
    BY <2>1 DEF MutexInv
  <2> QED BY <1>1, <1>2, <2>1, <2>2 DEF Announces
<1> QED BY <1>3, <1>4

\* cp8_mtk::create announces the metric, counts it as dropped, or, when it is too large for a
\* buffer, does neither.
LEMMA RegisterOutcome ==
    ASSUME NEW w \in Writers, NEW m \in MtkIds, register_mtk(w, m)
    PROVE  /\ m \notin mo_mtk_descs /\ mo_mtk_descs' = mo_mtk_descs \cup {m}
           /\ UNCHANGED <<pc, cur, mo_log_desc_mutex, mo_log_descs, mo_desc_map, sink_svc, lo_bufs>>
           /\ \/ m \notin HugeMtkIds /\ Announces(m) /\ mu_dropped_svc' = mu_dropped_svc
              \/ m \notin HugeMtkIds /\ mo_svc_buffers' = mo_svc_buffers /\ mu_dropped_svc' = mu_dropped_svc + 1
              \/ m \in HugeMtkIds /\ mo_svc_buffers' = mo_svc_buffers /\ mu_dropped_svc' = mu_dropped_svc
  BY DEF register_mtk, SvcEntryOrDrop, SvcRoom, Announces

\* write_service gives the sink everything announced.
LEMMA WriteOutcomeSvc ==
    ASSUME DescTypes, WriteService
    PROVE  /\ mo_svc_buffers' = <<>> /\ lo_bufs' = mo_svc_buffers
           /\ sink_svc' = Announced /\ Pending' = <<>> /\ Announced' = Announced
           /\ UNCHANGED <<pc, cur, mo_log_desc_mutex, mo_log_descs, mo_mtk_descs, mo_desc_map, mu_dropped_svc>>
<1>1. /\ mo_svc_buffers' = <<>> /\ lo_bufs' = mo_svc_buffers
      /\ UNCHANGED <<pc, cur, mo_log_desc_mutex, mo_log_descs, mo_mtk_descs, mo_desc_map, mu_dropped_svc>>
      /\ sink_svc' = sink_svc \o FlattenSeq(mo_svc_buffers)
  BY DEF WriteService
<1>2. Pending' = <<>>
  BY <1>1, FlatEmpty DEF Pending
<1>3. sink_svc' = Announced
  BY <1>1 DEF Announced, Pending
<1>4. Announced' = sink_svc' \o <<>>
  BY <1>2 DEF Announced
<1>5. Announced \in Seq(Descs)
  BY PendingType
<1>6. Announced' = Announced
  BY <1>3, <1>4, <1>5, EmptyRight
<1> QED BY <1>1, <1>2, <1>3, <1>6

\* A descriptor the core does not know has not been announced.
LEMMA NewDescriptor ==
    ASSUME Control, DescTypes, AnnounceInv
    PROVE  /\ \A d \in LogDescs : d \notin mo_log_descs => d \notin Range(Announced)
           /\ \A m \in MtkIds : m \notin mo_mtk_descs => m \notin Range(Announced)
           /\ \A d \in LogDescs : d \notin mo_mtk_descs /\ d \in Descs
           /\ \A m \in MtkIds : m \notin mo_log_descs /\ m \in Descs
<1>1. LogDescs \cap MtkIds = {} /\ mo_mtk_descs \subseteq MtkIds /\ mo_log_descs \subseteq LogDescs
  BY PipelineAssumption DEF Control, ThreadTypes, DescTypes
<1> QED BY <1>1 DEF AnnounceInv, Descs

\* Every step keeps the types of the descriptors' state.
LEMMA DescTypesStep ==
    ASSUME Control, DescTypes, MutexInv, AnnounceInv, PhaseInv, [Next]_vars
    PROVE  DescTypes'
<1>1. CASE UNCHANGED quietDesc
  <2>1. lo_bufs' \in Seq(Seq(Descs))
    <3>1. CASE UNCHANGED workerVars
      BY <3>1 DEF DescTypes
    <3>2. CASE WorkerStep
      <4>1. PICK A : A = Seq(Descs)
        OBVIOUS
      <4>2. lo_bufs \in Seq(A) /\ mo_svc_buffers \in Seq(A)
        BY <4>1 DEF DescTypes
      <4>3. lo_bufs' = lo_bufs \/ lo_bufs' = mo_svc_buffers \/ (lo_bufs # <<>> /\ lo_bufs' = Tail(lo_bufs))
        BY <3>2 DEF WorkerStep, WaitEvent, CollectBegin, Pull, CollectReady, WriteService, RecycleService,
                    ClearWakePending, flush_ready
      <4>4. lo_bufs' \in Seq(A)
        BY <4>2, <4>3
      <4> QED BY <4>1, <4>4
    <3> QED BY <3>1, <3>2, OtherSteps
  <2> QED BY <1>1, <2>1 DEF DescTypes, quietDesc
<1>2. ASSUME NEW w \in Writers, NEW m \in MtkIds, register_mtk(w, m) PROVE DescTypes'
  <2>1. /\ UNCHANGED <<mo_log_desc_mutex, mo_log_descs, mo_desc_map, sink_svc, lo_bufs>>
        /\ Announces(m) \/ mo_svc_buffers' = mo_svc_buffers
        /\ mu_dropped_svc' = mu_dropped_svc \/ mu_dropped_svc' = mu_dropped_svc + 1
    BY <1>2, RegisterOutcome
  <2>2. mo_svc_buffers' \in Seq(Seq(Descs))
    BY <2>1, AnnouncesIt DEF DescTypes, Descs
  <2> QED BY <2>1, <2>2 DEF DescTypes
<1>3. ASSUME NEW w \in Writers, ResolveBegin(w) \/ ResolveEnd(w) PROVE DescTypes'
  <2>1. PICK d : d = cur[w][1].d
    OBVIOUS
  <2>2. /\ w \in LogWriters /\ d \in LogDescs
        /\ UNCHANGED <<mu_dropped_svc, sink_svc, lo_bufs>>
        /\ \/ Resolved(w, d) /\ (mo_svc_buffers' = mo_svc_buffers \/ Announces(d))
           \/ mo_log_desc_mutex' = w /\ UNCHANGED <<mo_log_descs, mo_desc_map, mo_svc_buffers>>
    BY <1>3, <2>1, ResolveOutcome
  <2>3. mo_svc_buffers' \in Seq(Seq(Descs))
    BY <2>2, AnnouncesIt DEF DescTypes, Descs
  <2>4. mo_desc_map' \in [Writers -> SUBSET LogDescs]
    BY <2>2 DEF Resolved, DescTypes
  <2> QED BY <2>2, <2>3, <2>4 DEF Resolved, DescTypes
<1>4. CASE WriteService
  <2>1. /\ mo_svc_buffers' = <<>> /\ lo_bufs' = mo_svc_buffers /\ sink_svc' = Announced
        /\ UNCHANGED <<mo_log_desc_mutex, mo_log_descs, mo_desc_map, mu_dropped_svc>>
    BY <1>4, WriteOutcomeSvc
  <2>2. <<>> \in Seq(Seq(Descs))
    BY EmptySeq
  <2> QED BY <2>1, <2>2, PendingType DEF DescTypes
<1> QED BY <1>1, <1>2, <1>3, <1>4, DescSteps

\* Every step keeps mo_log_desc_mutex: the thread in the wait for a service buffer holds it, and
\* the descriptor it is about stays unknown.
LEMMA MutexStep ==
    ASSUME Control, DescTypes, MutexInv, AnnounceInv, [Next]_vars
    PROVE  MutexInv'
<1>0. pc \in [Writers -> Places] /\ NoOne \notin Writers
  BY PipelineAssumption DEF Control, ThreadTypes
<1>1. CASE UNCHANGED quietDesc /\ MovesOn
  <2> SUFFICES ASSUME NEW u \in Writers
               PROVE  /\ pc'[u] \in {"acquireSvc", "haveSvc"} <=> mo_log_desc_mutex' = u
                      /\ mo_log_desc_mutex' = u => cur'[u][1].d \notin mo_log_descs'
                      /\ mo_desc_map'[u] \subseteq mo_log_descs'
                      /\ pc'[u] \in {"lock", "acquire", "have"} => cur'[u][1].d \in KnownTo(u)'
    BY DEF MutexInv
  <2>1. UNCHANGED <<mo_log_desc_mutex, mo_log_descs, mo_desc_map>> /\ KnownTo(u)' = KnownTo(u)
    BY <1>1 DEF quietDesc, KnownTo
  <2>2. /\ pc[u] \in {"acquireSvc", "haveSvc"} <=> mo_log_desc_mutex = u
        /\ mo_log_desc_mutex = u => cur[u][1].d \notin mo_log_descs
        /\ mo_desc_map[u] \subseteq mo_log_descs
        /\ pc[u] \in {"lock", "acquire", "have"} => cur[u][1].d \in KnownTo(u)
    BY DEF MutexInv
  <2>3. CASE pc'[u] = pc[u] /\ cur'[u] = cur[u]
    BY <2>1, <2>2, <2>3
  <2>4. CASE /\ cur'[u] = cur[u]
             /\ \/ pc[u] \in {"acquireSvc", "haveSvc"} /\ pc'[u] \in {"acquireSvc", "haveSvc"}
                \/ pc[u] \in {"lock", "acquire", "have"} /\ pc'[u] \in {"lock", "acquire", "have"}
    BY <2>1, <2>2, <2>4
  <2>5. CASE /\ pc[u] \notin {"acquireSvc", "haveSvc"}
             /\ pc'[u] \notin {"acquireSvc", "haveSvc", "lock", "acquire", "have"}
    BY <2>1, <2>2, <2>5
  <2>6. CASE pc[u] = "idle" /\ pc'[u] = "lock" /\ cur'[u][1].d \in KnownTo(u)
    BY <2>1, <2>2, <2>6
  <2> QED BY <1>1, <2>3, <2>4, <2>5, <2>6 DEF MovesOn
<1>2. ASSUME NEW w \in Writers, NEW m \in MtkIds, register_mtk(w, m) PROVE MutexInv'
  <2>1. /\ UNCHANGED <<pc, cur, mo_log_desc_mutex, mo_log_descs, mo_desc_map>>
        /\ mo_mtk_descs \subseteq mo_mtk_descs'
    BY <1>2, RegisterOutcome
  <2> QED BY <2>1 DEF MutexInv, KnownTo
<1>3. ASSUME NEW w \in Writers, ResolveBegin(w) \/ ResolveEnd(w) PROVE MutexInv'
  <2>1. PICK d : d = cur[w][1].d
    OBVIOUS
  <2>2. /\ w \in LogWriters /\ d \in LogDescs
        /\ pc[w] \in {"resolve", "haveSvc"} /\ mo_log_desc_mutex \in {NoOne, w}
        /\ UNCHANGED <<cur, mo_mtk_descs>>
    BY <1>3, <2>1, ResolveOutcome
  <2>3. CASE Resolved(w, d)
    <3>1. /\ mo_log_descs' = mo_log_descs \cup {d} /\ mo_log_desc_mutex' = NoOne
          /\ mo_desc_map' = [mo_desc_map EXCEPT ![w] = mo_desc_map[w] \cup {d}]
          /\ pc' = [pc EXCEPT ![w] = "lock"]
      BY <2>3 DEF Resolved, Goto
    <3>2. \A u \in Writers : /\ pc'[u] = IF u = w THEN "lock" ELSE pc[u]
                            /\ mo_desc_map'[u] = IF u = w THEN mo_desc_map[w] \cup {d} ELSE mo_desc_map[u]
      BY <1>0, <3>1 DEF DescTypes
    <3> SUFFICES ASSUME NEW u \in Writers
                 PROVE  /\ pc'[u] \in {"acquireSvc", "haveSvc"} <=> mo_log_desc_mutex' = u
                        /\ mo_log_desc_mutex' = u => cur'[u][1].d \notin mo_log_descs'
                        /\ mo_desc_map'[u] \subseteq mo_log_descs'
                        /\ pc'[u] \in {"lock", "acquire", "have"} => cur'[u][1].d \in KnownTo(u)'
      BY DEF MutexInv
    <3>3. /\ pc[u] \in {"acquireSvc", "haveSvc"} <=> mo_log_desc_mutex = u
          /\ mo_desc_map[u] \subseteq mo_log_descs
          /\ pc[u] \in {"lock", "acquire", "have"} => cur[u][1].d \in KnownTo(u)
      BY DEF MutexInv
    <3>4. /\ u = w => cur'[u][1].d \in KnownTo(u)'
          /\ KnownTo(u) \subseteq KnownTo(u)'
      BY <2>1, <2>2, <3>1 DEF KnownTo
    <3>5. mo_log_desc_mutex' # u /\ mo_desc_map'[u] \subseteq mo_log_descs'
      BY <1>0, <3>1, <3>2, <3>3, mo_desc_map[w] \subseteq mo_log_descs DEF MutexInv
    <3>6. pc'[u] \notin {"acquireSvc", "haveSvc"}
      BY <1>0, <2>2, <3>2, <3>3
    <3>7. pc'[u] \in {"lock", "acquire", "have"} => cur'[u][1].d \in KnownTo(u)'
      BY <2>2, <3>2, <3>3, <3>4
    <3> QED BY <3>5, <3>6, <3>7
  <2>4. CASE /\ pc[w] = "resolve" /\ d \notin mo_log_descs /\ mo_log_desc_mutex' = w
             /\ pc' = [pc EXCEPT ![w] = "acquireSvc"]
             /\ UNCHANGED <<mo_log_descs, mo_desc_map, mo_svc_buffers>>
    <3>1. \A u \in Writers : pc'[u] = IF u = w THEN "acquireSvc" ELSE pc[u]
      BY <1>0, <2>4
    <3>2. mo_log_desc_mutex = NoOne
      BY <2>2, <2>4 DEF MutexInv
    <3> QED BY <1>0, <2>1, <2>2, <2>4, <3>1, <3>2 DEF MutexInv, KnownTo
  <2> QED BY <1>3, <2>1, <2>3, <2>4, ResolveOutcome
<1>4. CASE WriteService
  BY <1>4, WriteOutcomeSvc DEF MutexInv, KnownTo
<1> QED BY <1>1, <1>2, <1>3, <1>4, DescSteps

\* Every step keeps the announcements: each once, none missing that is not accounted for.
LEMMA AnnounceStep ==
    ASSUME Control, DescTypes, MutexInv, AnnounceInv, [Next]_vars
    PROVE  AnnounceInv'
<1>0. /\ IsFiniteSet(mo_mtk_descs) /\ mo_mtk_descs \subseteq MtkIds
      /\ Range(Announced) \subseteq mo_log_descs \cup (mo_mtk_descs \ HugeMtkIds)
      /\ IsInjective(Announced) /\ mo_log_descs \subseteq Range(Announced)
      /\ Cardinality(mo_mtk_descs \ (HugeMtkIds \cup Range(Announced))) = mu_dropped_svc
  BY DEF Control, ThreadTypes, AnnounceInv, DescOnce, Announced
<1>1. ASSUME IsFiniteSet(mo_mtk_descs'), IsInjective(Announced'),
             Range(Announced') \subseteq mo_log_descs' \cup (mo_mtk_descs' \ HugeMtkIds),
             mo_log_descs' \subseteq Range(Announced'),
             Cardinality(mo_mtk_descs' \ (HugeMtkIds \cup Range(Announced'))) = mu_dropped_svc'
      PROVE  AnnounceInv'
  BY <1>1 DEF AnnounceInv, DescOnce, Announced
<1>2. CASE UNCHANGED quietDesc
  <2>1. Announced' = Announced
    BY <1>2 DEF quietDesc, Announced, Pending
  <2> QED BY <1>0, <1>1, <1>2, <2>1 DEF quietDesc
<1>3. ASSUME NEW w \in Writers, NEW m \in MtkIds, register_mtk(w, m) PROVE AnnounceInv'
  <2>1. /\ m \notin mo_mtk_descs /\ mo_mtk_descs' = mo_mtk_descs \cup {m}
        /\ mo_log_descs' = mo_log_descs /\ sink_svc' = sink_svc
    BY <1>3, RegisterOutcome
  <2>2. m \notin Range(Announced) /\ m \in Descs
    BY <2>1, NewDescriptor
  <2>3. IsFiniteSet(mo_mtk_descs')
    BY <1>0, <2>1, FS_AddElement
  <2>4. CASE m \notin HugeMtkIds /\ Announces(m) /\ mu_dropped_svc' = mu_dropped_svc
    <3>1. Range(Announced') = Range(Announced) \cup {m}
      BY <2>1, <2>2, <2>4, AnnouncesIt
    <3>2. IsInjective(Announced')
      BY <2>1, <2>2, <2>4, AnnounceNew
    <3>3. mo_mtk_descs' \ (HugeMtkIds \cup Range(Announced')) = mo_mtk_descs \ (HugeMtkIds \cup Range(Announced))
      BY <2>1, <3>1
    <3> QED BY <1>0, <1>1, <2>1, <2>3, <2>4, <3>1, <3>2, <3>3
  <2>5. CASE m \notin HugeMtkIds /\ mo_svc_buffers' = mo_svc_buffers /\ mu_dropped_svc' = mu_dropped_svc + 1
    <3>1. Announced' = Announced
      BY <2>1, <2>5 DEF Announced, Pending
    <3>2. PICK D : D = mo_mtk_descs \ (HugeMtkIds \cup Range(Announced))
      OBVIOUS
    <3>3. IsFiniteSet(D) /\ m \notin D /\ Cardinality(D) = mu_dropped_svc
      BY <1>0, <2>1, <3>2, FS_Subset
    <3>4. mo_mtk_descs' \ (HugeMtkIds \cup Range(Announced')) = D \cup {m}
      BY <2>1, <2>2, <2>5, <3>1, <3>2
    <3>5. Cardinality(D \cup {m}) = mu_dropped_svc + 1
      BY <3>3, FS_AddElement
    <3> QED BY <1>0, <1>1, <2>1, <2>3, <2>5, <3>1, <3>4, <3>5
  <2>6. CASE m \in HugeMtkIds /\ mo_svc_buffers' = mo_svc_buffers /\ mu_dropped_svc' = mu_dropped_svc
    <3>1. Announced' = Announced
      BY <2>1, <2>6 DEF Announced, Pending
    <3>2. mo_mtk_descs' \ (HugeMtkIds \cup Range(Announced')) = mo_mtk_descs \ (HugeMtkIds \cup Range(Announced))
      BY <2>1, <2>6, <3>1
    <3> QED BY <1>0, <1>1, <2>1, <2>3, <2>6, <3>1, <3>2
  <2> QED BY <1>3, <2>4, <2>5, <2>6, RegisterOutcome
<1>4. ASSUME NEW w \in Writers, ResolveBegin(w) \/ ResolveEnd(w) PROVE AnnounceInv'
  <2>1. PICK d : d = cur[w][1].d
    OBVIOUS
  <2>2. /\ d \in LogDescs /\ UNCHANGED <<mo_mtk_descs, mu_dropped_svc, sink_svc>>
        /\ \/ mo_log_descs' = mo_log_descs \cup {d} /\ d \in mo_log_descs /\ mo_svc_buffers' = mo_svc_buffers
           \/ mo_log_descs' = mo_log_descs \cup {d} /\ d \notin mo_log_descs /\ Announces(d)
           \/ UNCHANGED <<mo_log_descs, mo_svc_buffers>>
    BY <1>4, <2>1, ResolveOutcome DEF Resolved
  <2>3. CASE mo_svc_buffers' = mo_svc_buffers /\ mo_log_descs' = mo_log_descs
    <3>1. Announced' = Announced
      BY <2>2, <2>3 DEF Announced, Pending
    <3> QED BY <1>0, <1>1, <2>2, <2>3, <3>1
  <2>4. CASE mo_log_descs' = mo_log_descs \cup {d} /\ d \notin mo_log_descs /\ Announces(d)
    <3>1. d \notin Range(Announced) /\ d \notin mo_mtk_descs /\ d \in Descs
      BY <2>2, <2>4, NewDescriptor
    <3>2. Range(Announced') = Range(Announced) \cup {d}
      BY <2>2, <2>4, <3>1, AnnouncesIt
    <3>3. IsInjective(Announced')
      BY <2>2, <2>4, <3>1, AnnounceNew
    <3>4. mo_mtk_descs' \ (HugeMtkIds \cup Range(Announced')) = mo_mtk_descs \ (HugeMtkIds \cup Range(Announced))
      BY <2>2, <3>1, <3>2
    <3> QED BY <1>0, <1>1, <2>2, <2>4, <3>2, <3>3, <3>4
  <2> QED BY <2>2, <2>3, <2>4
<1>5. CASE WriteService
  <2>1. /\ Announced' = Announced /\ UNCHANGED <<mo_log_descs, mo_mtk_descs, mu_dropped_svc>>
    BY <1>5, WriteOutcomeSvc
  <2> QED BY <1>0, <1>1, <2>1
<1> QED BY <1>2, <1>3, <1>4, <1>5, DescSteps

\* No descriptor is known at first.
LEMMA DescInit == Init => DescTypes /\ MutexInv /\ AnnounceInv
<1> SUFFICES ASSUME Init PROVE DescTypes /\ MutexInv /\ AnnounceInv
  OBVIOUS
<1>1. /\ pc = [w \in Writers |-> "unborn"] /\ mo_desc_map = [w \in Writers |-> {}]
      /\ mo_log_desc_mutex = NoOne /\ mo_log_descs = {} /\ mo_mtk_descs = {}
      /\ mo_svc_buffers = <<>> /\ lo_bufs = <<>> /\ sink_svc = <<>> /\ mu_dropped_svc = 0
  BY DEF Init
<1>2. /\ <<>> \in Seq(Descs) /\ <<>> \in Seq(Seq(Descs))
  BY EmptySeq
<1>3. DescTypes
  BY ONLY <1>1, <1>2 DEF DescTypes
<1>4. MutexInv
  BY <1>1, PipelineAssumption DEF MutexInv
<1>5. Pending = <<>> /\ Announced = <<>>
  BY <1>1, FlatEmpty DEF Pending, Announced
<1>6. IsInjective(<<>>) /\ Range(<<>>) = {}
  BY RangeEmpty DEF IsInjective
<1>7. AnnounceInv
  BY <1>1, <1>5, <1>6, FS_EmptySet DEF AnnounceInv, DescOnce, Announced
<1> QED BY <1>3, <1>4, <1>7
-------------------------------------------------------------------------------
(*****************************************************************************)
(* Records go out behind their descriptors.                                  *)
(*****************************************************************************)

\* All data buffers, wherever they are.
Everywhere ==
    Range(lo_ready) \cup Range(mo_ready_queue)
      \cup (UNION {Range(Held(u)) : u \in Writers}) \cup (UNION {Range(sink_data[u]) : u \in Writers})

\* The core knows the descriptors of all records of a buffer.
Described(b) == Range(b.recs) \subseteq KnownTo(b.w)
\* The sink has them already, when they are of log records, and none of them is pending.
Sendable(b) ==
    /\ Range(b.recs) \cap Range(Pending) = {}
    /\ b.w \in LogWriters => Range(b.recs) \subseteq Range(sink_svc)

\* Every buffer is described; those at the sink, and those of the batch once the service buffers
\* have been written, are sendable.
RecordInv ==
    /\ \A b \in Everywhere : Described(b)
    /\ \A u \in Writers : \A b \in Range(sink_data[u]) : b.w = u /\ Sendable(b)
    /\ wpc \in {"recycle", "flush"} => \A b \in Range(lo_ready) : Sendable(b)

\* The core forgets no descriptor.
LEMMA KnownGrows ==
    ASSUME Control, DescTypes, MutexInv, [Next]_vars
    PROVE  mo_log_descs \subseteq mo_log_descs' /\ mo_mtk_descs \subseteq mo_mtk_descs'
<1>1. CASE UNCHANGED quietDesc
  BY <1>1 DEF quietDesc
<1>2. ASSUME NEW w \in Writers, NEW m \in MtkIds, register_mtk(w, m)
      PROVE  mo_log_descs \subseteq mo_log_descs' /\ mo_mtk_descs \subseteq mo_mtk_descs'
  BY <1>2, RegisterOutcome
<1>3. ASSUME NEW w \in Writers, ResolveBegin(w) \/ ResolveEnd(w)
      PROVE  mo_log_descs \subseteq mo_log_descs' /\ mo_mtk_descs \subseteq mo_mtk_descs'
  BY <1>3, ResolveOutcome DEF Resolved
<1>4. CASE WriteService
  BY <1>4, WriteOutcomeSvc
<1> QED BY <1>1, <1>2, <1>3, <1>4, DescSteps

\* A buffer whose records have known descriptors stays one.
LEMMA DescribedStays ==
    ASSUME Control, DescTypes, MutexInv, [Next]_vars, NEW b, Described(b)
    PROVE  Described(b)'
  BY KnownGrows DEF Described, KnownTo

\* What has gone out stays announced; what is known is announced once the descriptors are sent.
LEMMA SendableStays ==
    ASSUME Control, DescTypes, MutexInv, AnnounceInv, [Next]_vars, NEW b, Described(b), Sendable(b)
    PROVE  Sendable(b)'
<1>0. Range(b.recs) \subseteq KnownTo(b.w) /\ mo_log_descs \subseteq LogDescs /\ mo_mtk_descs \subseteq MtkIds
  BY DEF Described, Control, ThreadTypes, DescTypes
<1>1. CASE UNCHANGED quietDesc
  <2>1. Pending' = Pending /\ sink_svc' = sink_svc
    BY <1>1 DEF quietDesc, Pending
  <2> QED BY <2>1 DEF Sendable
<1>2. ASSUME NEW d \in Descs, d \notin KnownTo(b.w), Announces(d), sink_svc' = sink_svc PROVE Sendable(b)'
  <2>1. Range(Pending') = Range(Pending) \cup {d}
    BY <1>2, AnnouncesIt
  <2> QED BY <1>0, <1>2, <2>1 DEF Sendable
<1>3. CASE mo_svc_buffers' = mo_svc_buffers /\ sink_svc' = sink_svc
  BY <1>3 DEF Sendable, Pending
<1>4. ASSUME NEW w \in Writers, NEW m \in MtkIds, register_mtk(w, m) PROVE Sendable(b)'
  <2>1. m \notin mo_mtk_descs /\ sink_svc' = sink_svc /\ (Announces(m) \/ mo_svc_buffers' = mo_svc_buffers)
    BY <1>4, RegisterOutcome
  <2>2. m \in Descs /\ m \notin mo_log_descs
    BY NewDescriptor
  <2>3. m \notin KnownTo(b.w)
    BY <2>1, <2>2 DEF KnownTo
  <2> QED BY <1>2, <1>3, <2>1, <2>2, <2>3
<1>5. ASSUME NEW w \in Writers, ResolveBegin(w) \/ ResolveEnd(w) PROVE Sendable(b)'
  <2>1. PICK d : d = cur[w][1].d
    OBVIOUS
  <2>2. /\ d \in LogDescs /\ sink_svc' = sink_svc
        /\ mo_svc_buffers' = mo_svc_buffers \/ (d \notin mo_log_descs /\ Announces(d))
    BY <1>5, <2>1, ResolveOutcome
  <2>3. d \in Descs /\ d \notin mo_mtk_descs
    BY <2>2, NewDescriptor
  <2>4. d \notin mo_log_descs => d \notin KnownTo(b.w)
    BY <2>3 DEF KnownTo
  <2> QED BY <1>2, <1>3, <2>2, <2>3, <2>4
<1>6. CASE WriteService
  <2>1. sink_svc' = Announced /\ Pending' = <<>>
    BY <1>6, WriteOutcomeSvc
  <2>2. Range(sink_svc) \subseteq Range(Announced)
    <3>1. sink_svc \in Seq(Descs) /\ Pending \in Seq(Descs)
      BY PendingType
    <3> QED BY <3>1, RangeConcatenation DEF Announced
  <2> QED BY <2>1, <2>2, RangeEmpty DEF Sendable
<1> QED BY <1>1, <1>4, <1>5, <1>6, DescSteps

\* After the service buffers have been written, every buffer with known descriptors may be sent.
LEMMA SendableNow ==
    ASSUME DescTypes, AnnounceInv, WriteService, NEW b, Described(b)
    PROVE  Sendable(b)'
<1>1. sink_svc' = Announced /\ Pending' = <<>>
  BY WriteOutcomeSvc
<1>2. mo_log_descs \subseteq Range(Announced)
  BY DEF AnnounceInv, DescOnce, Announced
<1> QED BY <1>1, <1>2, RangeEmpty DEF Sendable, Described, KnownTo

-----------------------------------------------------------------------------
\* A record joins a buffer after its descriptor became known.
LEMMA WriteDescribed ==
    ASSUME Control, BufferTypes, HeldInv, MutexInv, NEW w \in Writers, LockWriter(w) \/ InstallBuffer(w),
           \A x \in Range(Held(w)) : Described(x)
    PROVE  \A x \in Range(Held(w)') : Described(x)
<1>1. pc[w] \in {"lock", "have"}
  BY WriteBase
<1>2. Held(w) \in Seq(Buffer) /\ mo_fragments[w] \in Seq(Buffer)
  BY HeldType
<1>3. CASE Parks(w)
  <2>1. /\ mo_fragments' = [mo_fragments EXCEPT ![w] = Held(w)]
        /\ mp_buffer' = [mp_buffer EXCEPT ![w] = <<>>]
    BY <1>3 DEF Parks
  <2>2. mp_buffer'[w] = <<>> /\ mo_fragments'[w] = Held(w)
    BY <2>1 DEF BufferTypes
  <2>3. PICK h : h = Held(w)
    OBVIOUS
  <2>4. h \o <<>> = h
    BY <1>2, <2>3
  <2>5. Held(w)' = Held(w)
    BY <2>2, <2>3, <2>4 DEF Held
  <2> QED BY <2>5
<1>4. ASSUME NEW b \in Buffer, NEW n \in Nat, b.w = w, Room(b) >= StartRoom(w),
             IsTail(w, b, n) \/ IsFresh(w, b, n), Writes(w, b, n)
      PROVE  \A x \in Range(Held(w)') : Described(x)
  <2>1. EndsWhole(w, b, n) \/ EndsSplit(w, b, n) \/ EndsDropped(w, b, n)
    BY <1>1, <1>4, WriteOutcome
  <2>2. PICK f : f = mo_fragments[w]
    OBVIOUS
  <2>3. PICK d : d = cur[w][1].d
    OBVIOUS
  <2>4. f \in Seq(Buffer) /\ b.recs \in Seq(Descs) /\ d \in Descs
    BY <1>1, <1>2, <1>4, <2>2, <2>3, RecordSize DEF Buffer
  <2>5. (\A x \in Range(f) : Described(x)) /\ Range(b.recs) \subseteq KnownTo(w)
    <3>1. CASE IsTail(w, b, n)
      <4>1. Range(Held(w)) = Range(f) \cup {b}
        BY <1>4, <2>2, <2>4, <3>1, RangeAppend DEF IsTail
      <4> QED BY <1>4, <4>1 DEF Described
    <3>2. CASE IsFresh(w, b, n)
      <4>1. Held(w) = f /\ b.recs = <<>>
        BY <2>2, <3>2, FreshBuffer DEF IsFresh
      <4> QED BY <4>1, RangeEmpty
    <3> QED BY <1>4, <3>1, <3>2
  <2>6. d \in KnownTo(w)
    BY <1>1, <2>3 DEF MutexInv
  <2>7. \A c : Continues(c, b, d) => Described(c)
    <3>1. Range(Append(b.recs, d)) = Range(b.recs) \cup {d}
      BY <2>4, RangeAppend
    <3> QED BY <1>4, <2>5, <2>6, <3>1 DEF Continues, Described
  <2>8. CASE EndsWhole(w, b, n)
    <3>1. PICK c \in Buffer : Continues(c, b, d) /\ Held(w)' = Append(f, c)
      BY <2>2, <2>3, <2>8 DEF EndsWhole
    <3>2. Range(Held(w)') = Range(f) \cup {c}
      BY <2>4, <3>1, RangeAppend
    <3> QED BY <2>5, <2>7, <3>1, <3>2
  <2>9. CASE EndsSplit(w, b, n)
    <3>1. PICK c \in Buffer, e \in Buffer : /\ Continues(c, b, d) /\ e.recs = <<>>
                                            /\ Held(w)' = Append(Append(f, c), e)
      BY <2>2, <2>3, <2>9 DEF EndsSplit, BeginsBehind
    <3>2. PICK g : g = Append(f, c)
      OBVIOUS
    <3>3. g \in Seq(Buffer) /\ Range(g) = Range(f) \cup {c}
      BY <2>4, <3>2, RangeAppend
    <3>4. Range(Append(g, e)) = Range(g) \cup {e}
      BY <3>3, RangeAppend
    <3>5. Range(Held(w)') = Range(g) \cup {e}
      BY <3>1, <3>2, <3>4
    <3>6. Described(e)
      BY <3>1, RangeEmpty DEF Described
    <3> QED BY <2>5, <2>7, <3>1, <3>3, <3>5, <3>6
  <2>10. CASE EndsDropped(w, b, n)
    <3>1. CASE b.used = 0
      BY <2>2, <2>5, <2>10, <3>1 DEF EndsDropped
    <3>2. CASE b.used # 0
      <4>1. Held(w)' = Append(f, b)
        BY <2>2, <2>10, <3>2 DEF EndsDropped
      <4>2. Range(Held(w)') = Range(f) \cup {b}
        BY <1>4, <2>4, <4>1, RangeAppend
      <4> QED BY <1>4, <2>5, <4>2 DEF Described
    <3> QED BY <3>1, <3>2
  <2> QED BY <2>1, <2>8, <2>9, <2>10
<1> QED BY <1>3, <1>4, WriteBase

\* Writing a record leaves the other writers' buffers.
LEMMA WriteLeavesOthers ==
    ASSUME Control, BufferTypes, HeldInv, NEW w \in Writers, LockWriter(w) \/ InstallBuffer(w)
    PROVE  \A u \in Writers : u # w => Held(u)' = Held(u)
<1>1. pc[w] \in {"lock", "have"}
  BY WriteBase
<1>2. CASE Parks(w)
  <2>1. /\ mo_fragments' = [mo_fragments EXCEPT ![w] = Held(w)]
        /\ mp_buffer' = [mp_buffer EXCEPT ![w] = <<>>]
    BY <1>2 DEF Parks
  <2>2. \A u \in Writers : u # w => mp_buffer'[u] = mp_buffer[u] /\ mo_fragments'[u] = mo_fragments[u]
    BY <2>1 DEF BufferTypes
  <2> QED BY <2>2 DEF Held
<1>3. ASSUME NEW b \in Buffer, NEW n \in Nat, b.w = w, Room(b) >= StartRoom(w),
             IsTail(w, b, n) \/ IsFresh(w, b, n), Writes(w, b, n)
      PROVE  \A u \in Writers : u # w => Held(u)' = Held(u)
  <2>1. \A u \in Writers : u # w => mp_buffer'[u] = mp_buffer[u] /\ mo_fragments'[u] = mo_fragments[u]
    BY <1>1, <1>3, WriteOutcome
  <2> QED BY <2>1 DEF Held
<1> QED BY <1>2, <1>3, WriteBase

\* The buffers of one writer that the worker took.
LEMMA OfWriterIn ==
    ASSUME NEW S, NEW s \in Seq(S), NEW w
    PROVE  \A x \in Range(OfWriter(s, w)) : x \in Range(s) /\ x.w = w
<1> DEFINE T == {u \in Seq(S) : \A x \in Range(OfWriter(u, w)) : x \in Range(u) /\ x.w = w}
<1>1. <<>> \in T
  BY OfWriterEmpty, RangeEmpty
<1>2. ASSUME NEW u \in Seq(S), NEW b \in S, u \in T PROVE Append(u, b) \in T
  <2>1. OfWriter(Append(u, b), w) = IF b.w = w THEN Append(OfWriter(u, w), b) ELSE OfWriter(u, w)
    BY OfWriterAppend
  <2>2. OfWriter(u, w) \in Seq(S)
    BY OfWriterType
  <2>3. /\ Range(Append(u, b)) = Range(u) \cup {b}
        /\ Range(Append(OfWriter(u, w), b)) = Range(OfWriter(u, w)) \cup {b}
    BY <2>2, RangeAppend
  <2>4. \A x \in Range(OfWriter(Append(u, b), w)) : x \in Range(Append(u, b)) /\ x.w = w
    BY <1>2, <2>1, <2>3
  <2>5. Append(u, b) \in Seq(S)
    OBVIOUS
  <2> QED BY <2>4, <2>5
<1>3. Seq(S) \subseteq T
  <2> HIDE DEF T
  <2> QED BY <1>1, <1>2, SeqSetInduction, Zenon
<1> QED BY <1>3

\* A record is written with its descriptor known: every buffer, wherever it is, stays described.
LEMMA DescribedStep ==
    ASSUME Control, BufferTypes, HeldInv, MutexInv, RecordInv, [Next]_vars
    PROVE  \A b \in Everywhere' : Described(b)
<1>1. /\ \A b \in Range(lo_ready) : Described(b)
      /\ \A b \in Range(mo_ready_queue) : Described(b)
      /\ \A u \in Writers : \A b \in Range(Held(u)) : Described(b)
      /\ \A u \in Writers : \A b \in Range(sink_data[u]) : Described(b)
  BY DEF RecordInv, Everywhere
<1>2. ASSUME /\ \A b \in Range(lo_ready') : Described(b)
             /\ \A b \in Range(mo_ready_queue') : Described(b)
             /\ \A u \in Writers : \A b \in Range(Held(u)') : Described(b)
             /\ \A u \in Writers : \A b \in Range(sink_data'[u]) : Described(b)
      PROVE  \A b \in Everywhere' : Described(b)
  BY <1>2 DEF Everywhere
<1>3. CASE UNCHANGED streamVars
  <2>1. \A u \in Writers : Held(u)' = Held(u)
    BY <1>3 DEF streamVars, Held
  <2>2. UNCHANGED <<lo_ready, mo_ready_queue, sink_data>>
    BY <1>3 DEF streamVars
  <2> QED BY <1>1, <1>2, <2>1, <2>2
<1>4. ASSUME NEW w \in Writers, LockWriter(w) \/ InstallBuffer(w) PROVE \A b \in Everywhere' : Described(b)
  <2>1. UNCHANGED <<lo_ready, mo_ready_queue, sink_data>>
    BY <1>4, WriteBase
  <2>2. \A b \in Range(Held(w)') : Described(b)
    BY <1>1, <1>4, WriteDescribed
  <2>3. \A u \in Writers : u # w => Held(u)' = Held(u)
    BY <1>4, WriteLeavesOthers
  <2> QED BY <1>1, <1>2, <2>1, <2>2, <2>3
<1>5. ASSUME NEW w \in Writers, ExitPush(w) PROVE \A b \in Everywhere' : Described(b)
  <2>1. /\ mo_ready_queue' = mo_ready_queue \o Held(w) /\ UNCHANGED <<lo_ready, sink_data>>
        /\ mo_fragments' = [mo_fragments EXCEPT ![w] = <<>>]
        /\ mp_buffer' = [mp_buffer EXCEPT ![w] = <<>>]
    BY <1>5 DEF ExitPush
  <2>2. Held(w)' = <<>> /\ \A u \in Writers : u # w => Held(u)' = Held(u)
    BY <2>1, Emptied
  <2>3. Held(w) \in Seq(Buffer) /\ mo_ready_queue \in Seq(Buffer)
    BY HeldType DEF BufferTypes
  <2>4. Range(mo_ready_queue') = Range(mo_ready_queue) \cup Range(Held(w))
    BY <2>1, <2>3, RangeConcatenation
  <2>5. \A u \in Writers : \A b \in Range(Held(u)') : Described(b)
    BY <1>1, <2>2, RangeEmpty
  <2> QED BY <1>1, <1>2, <2>1, <2>4, <2>5
<1>6. CASE Pull
  <2>1. PICK w : w = Head(to_pull)
    OBVIOUS
  <2>2. /\ lo_ready' = lo_ready \o Held(w) /\ UNCHANGED <<mo_ready_queue, sink_data>>
        /\ mo_fragments' = [mo_fragments EXCEPT ![w] = <<>>]
        /\ mp_buffer' = [mp_buffer EXCEPT ![w] = <<>>]
    BY <1>6, <2>1 DEF Pull
  <2>3. w \in Writers
    BY <1>6, <2>1, PullHeld
  <2>4. Held(w)' = <<>> /\ \A u \in Writers : u # w => Held(u)' = Held(u)
    BY <2>2, <2>3, Emptied
  <2>5. Held(w) \in Seq(Buffer) /\ lo_ready \in Seq(Buffer)
    BY <2>3, HeldType DEF BufferTypes
  <2>6. Range(lo_ready') = Range(lo_ready) \cup Range(Held(w))
    BY <2>2, <2>5, RangeConcatenation
  <2>7. \A u \in Writers : \A b \in Range(Held(u)') : Described(b)
    BY <1>1, <2>4, RangeEmpty
  <2> QED BY <1>1, <1>2, <2>2, <2>3, <2>6, <2>7
<1>7. CASE CollectReady
  <2>1. /\ lo_ready' = lo_ready \o mo_ready_queue /\ mo_ready_queue' = <<>>
        /\ UNCHANGED <<mp_buffer, mo_fragments, sink_data>>
    BY <1>7 DEF CollectReady
  <2>2. mo_ready_queue \in Seq(Buffer) /\ lo_ready \in Seq(Buffer)
    BY DEF BufferTypes
  <2>3. Range(lo_ready') = Range(lo_ready) \cup Range(mo_ready_queue) /\ Range(mo_ready_queue') = {}
    BY <2>1, <2>2, RangeConcatenation, RangeEmpty
  <2>4. \A u \in Writers : Held(u)' = Held(u)
    BY <2>1 DEF Held
  <2> QED BY <1>1, <1>2, <2>1, <2>3, <2>4
<1>8. CASE flush_ready
  <2>1. /\ sink_data' = [u \in Writers |-> sink_data[u] \o OfWriter(lo_ready, u)] /\ lo_ready' = <<>>
        /\ UNCHANGED <<mp_buffer, mo_fragments, mo_ready_queue>>
    BY <1>8 DEF flush_ready
  <2>2. \A u \in Writers : Held(u)' = Held(u)
    BY <2>1 DEF Held
  <2>3. ASSUME NEW u \in Writers PROVE \A b \in Range(sink_data'[u]) : Described(b)
    <3>1. sink_data[u] \in Seq(Buffer) /\ OfWriter(lo_ready, u) \in Seq(Buffer)
      BY OfWriterType DEF BufferTypes
    <3>2. Range(sink_data'[u]) = Range(sink_data[u]) \cup Range(OfWriter(lo_ready, u))
      BY <2>1, <3>1, RangeConcatenation
    <3>3. \A x \in Range(OfWriter(lo_ready, u)) : x \in Range(lo_ready)
      BY OfWriterIn DEF BufferTypes
    <3> QED BY <1>1, <3>2, <3>3
  <2> QED BY <1>1, <1>2, <2>1, <2>2, <2>3, RangeEmpty
<1> QED BY <1>3, <1>4, <1>5, <1>6, <1>7, <1>8, QuietSteps

\* Every step keeps the order of descriptors and records: the batch is sendable once the service
\* buffers have been written.
LEMMA RecordStep ==
    ASSUME Control, BufferTypes, HeldInv, DescTypes, MutexInv, AnnounceInv, RecordInv, [Next]_vars
    PROVE  RecordInv'
<1>1. \A b \in Everywhere' : Described(b)'
  BY DescribedStep, DescribedStays
<1>2. \A b \in Everywhere : Described(b)
  BY DEF RecordInv
<1>3. ASSUME UNCHANGED sink_data
      PROVE  \A u \in Writers : \A b \in Range(sink_data'[u]) : b.w = u /\ Sendable(b)'
  <2> SUFFICES ASSUME NEW u \in Writers, NEW b \in Range(sink_data[u]) PROVE b.w = u /\ Sendable(b)'
    BY <1>3
  <2>1. b \in Everywhere /\ b.w = u /\ Sendable(b)
    BY DEF Everywhere, RecordInv
  <2> QED BY <1>2, <2>1, SendableStays
<1>4. ASSUME UNCHANGED <<lo_ready, wpc>>
      PROVE  wpc' \in {"recycle", "flush"} => \A b \in Range(lo_ready') : Sendable(b)'
  <2> SUFFICES ASSUME wpc \in {"recycle", "flush"}, NEW b \in Range(lo_ready) PROVE Sendable(b)'
    BY <1>4
  <2>1. b \in Everywhere /\ Sendable(b)
    BY DEF Everywhere, RecordInv
  <2> QED BY <1>2, <2>1, SendableStays
<1>5. CASE UNCHANGED workerVars
  BY <1>1, <1>3, <1>4, <1>5 DEF RecordInv
<1>6. CASE WaitEvent \/ CollectBegin \/ Pull \/ CollectReady
  <2>1. sink_data' = sink_data /\ wpc' \notin {"recycle", "flush"}
    BY <1>6 DEF WaitEvent, CollectBegin, Pull, CollectReady
  <2> QED BY <1>1, <1>3, <2>1 DEF RecordInv
<1>7. CASE WriteService
  <2>1. UNCHANGED <<sink_data, lo_ready>>
    BY <1>7 DEF WriteService
  <2>2. \A b \in Range(lo_ready') : Sendable(b)'
    <3> SUFFICES ASSUME NEW b \in Range(lo_ready) PROVE Sendable(b)'
      BY <2>1
    <3>1. b \in Everywhere
      BY DEF Everywhere
    <3> QED BY <1>2, <1>7, <3>1, SendableNow
  <2> QED BY <1>1, <1>3, <2>1, <2>2 DEF RecordInv
<1>8. CASE RecycleService \/ ClearWakePending
  <2>1. UNCHANGED <<sink_data, lo_ready>> /\ wpc = "recycle"
    BY <1>8 DEF RecycleService, ClearWakePending
  <2>2. \A b \in Range(lo_ready') : Sendable(b)'
    <3> SUFFICES ASSUME NEW b \in Range(lo_ready) PROVE Sendable(b)'
      BY <2>1
    <3>1. b \in Everywhere /\ Sendable(b)
      BY <2>1 DEF Everywhere, RecordInv
    <3> QED BY <1>2, <3>1, SendableStays
  <2> QED BY <1>1, <1>3, <2>1, <2>2 DEF RecordInv
<1>9. CASE flush_ready
  <2>1. /\ sink_data' = [u \in Writers |-> sink_data[u] \o OfWriter(lo_ready, u)] /\ lo_ready' = <<>>
        /\ wpc = "flush"
    BY <1>9 DEF flush_ready
  <2>2. \A u \in Writers : \A b \in Range(sink_data'[u]) : b.w = u /\ Sendable(b)'
    <3> SUFFICES ASSUME NEW u \in Writers, NEW b \in Range(sink_data'[u]) PROVE b.w = u /\ Sendable(b)'
      OBVIOUS
    <3>1. sink_data[u] \in Seq(Buffer) /\ OfWriter(lo_ready, u) \in Seq(Buffer)
      BY OfWriterType DEF BufferTypes
    <3>2. Range(sink_data'[u]) = Range(sink_data[u]) \cup Range(OfWriter(lo_ready, u))
      BY <2>1, <3>1, RangeConcatenation
    <3>3. \A x \in Range(OfWriter(lo_ready, u)) : x \in Range(lo_ready) /\ x.w = u
      BY OfWriterIn DEF BufferTypes
    <3>4. b \in Everywhere /\ b.w = u /\ Sendable(b)
      BY <2>1, <3>2, <3>3 DEF Everywhere, RecordInv
    <3> QED BY <1>2, <3>4, SendableStays
  <2>3. \A b \in Range(lo_ready') : Sendable(b)'
    BY <2>1, RangeEmpty
  <2> QED BY <1>1, <2>2, <2>3 DEF RecordInv
<1> QED BY <1>5, <1>6, <1>7, <1>8, <1>9, OtherSteps DEF WorkerStep

\* There are no records at first.
LEMMA RecordInit == Init => RecordInv
<1> SUFFICES ASSUME Init PROVE RecordInv
  OBVIOUS
<1>1. /\ lo_ready = <<>> /\ mo_ready_queue = <<>> /\ sink_data = [w \in Writers |-> <<>>]
      /\ mp_buffer = [w \in Writers |-> <<>>] /\ mo_fragments = [w \in Writers |-> <<>>]
  BY DEF Init
<1>2. \A u \in Writers : Held(u) = <<>>
  <2>1. <<>> \o <<>> = <<>>
    OBVIOUS
  <2> QED BY <1>1, <2>1 DEF Held
<1>3. Everywhere = {}
  BY <1>1, <1>2, RangeEmpty DEF Everywhere
<1> QED BY <1>1, <1>3, RangeEmpty DEF RecordInv

\* The records at the sink.
LEMMA SentRecords ==
    ASSUME BufferTypes, RecordInv
    PROVE  DescFirst
<1> SUFFICES ASSUME NEW w \in Writers
             PROVE  /\ Range(RecordsOf(sink_data[w])) \cap Range(Pending) = {}
                    /\ w \in LogWriters => Range(RecordsOf(sink_data[w])) \subseteq Range(sink_svc)
  BY DEF DescFirst
<1>1. sink_data[w] \in Seq(Buffer)
  BY DEF BufferTypes
<1>2. Range(RecordsOf(sink_data[w])) = UNION {Range(b.recs) : b \in Range(sink_data[w])}
  BY <1>1, RecordsRange
<1>3. \A b \in Range(sink_data[w]) : b.w = w /\ Sendable(b)
  BY DEF RecordInv
<1> QED BY <1>2, <1>3 DEF Sendable

\* An injective sequence holds a value in one place.
LEMMA OnePlace ==
    ASSUME NEW S, NEW s \in Seq(S), IsInjective(s), NEW d
    PROVE  Cardinality({i \in 1 .. Len(s) : s[i] = d}) < 2
<1>1. PICK P : P = {i \in 1 .. Len(s) : s[i] = d}
  OBVIOUS
<1>2. \A i, j \in P : i = j
  BY <1>1 DEF IsInjective
<1>3. CASE P = {}
  <2>1. Cardinality(P) = 0
    BY <1>3, FS_EmptySet
  <2> QED BY <1>1, <2>1
<1>4. CASE P # {}
  <2>1. PICK i \in P : TRUE
    BY <1>4
  <2>2. P = {i}
    BY <1>2
  <2>3. Cardinality(P) = 1
    BY <2>2, FS_Singleton
  <2> QED BY <1>1, <2>3
<1> QED BY <1>3, <1>4

\* Announcements without repetition and sendable buffers give the property of shared call sites.
LEMMA SharedSites ==
    ASSUME BufferTypes, DescTypes, AnnounceInv, RecordInv
    PROVE  SharedSite
<1>1. Announced \in Seq(Descs) /\ IsInjective(Announced)
  BY PendingType DEF AnnounceInv, DescOnce, Announced
<1>2. \A d \in LogDescs : Cardinality({i \in 1 .. Len(Announced) : Announced[i] = d}) < 2
  BY <1>1, OnePlace
<1>3. DescFirst
  BY SentRecords
<1>4. \A w \in LogWriters : Range(RecordsOf(sink_data[w])) \subseteq Range(sink_svc)
  BY <1>3 DEF DescFirst, Writers
<1> QED BY <1>2, <1>4 DEF SharedSite, Announced
-------------------------------------------------------------------------------
(*****************************************************************************)
(* After the stop.                                                           *)
(*****************************************************************************)

\* After the stop the last batch leaves nothing behind it.
StopInv ==
    lb_stop =>
        /\ wpc \in {"service", "recycle", "flush", "stopped"} => mo_ready_queue = <<>>
        /\ wpc \in {"recycle", "flush", "stopped"} => mo_svc_buffers = <<>>

\* When the worker knows of the stop, all threads have left.
LEMMA AllGone ==
    ASSUME Control, lb_stop
    PROVE  owner_ref = FALSE /\ \A w \in Writers : pc[w] \in {"unborn", "gone"} /\ client[w] = "idle"
<1>1. mu_ref_count = 0 /\ mu_ref_count = Cardinality(Alive) + (IF owner_ref THEN 1 ELSE 0)
  BY DEF Control, RefInv
<1>2. IsFiniteSet(Alive) /\ Cardinality(Alive) \in Nat /\ owner_ref \in BOOLEAN
  BY AliveFinite DEF Control, CoreTypes
<1>3. Cardinality(Alive) = 0 /\ owner_ref = FALSE
  BY <1>1, <1>2
<1>4. Alive = {}
  BY <1>2, <1>3, FS_EmptySet
<1>5. \A w \in Writers : pc[w] \in {"unborn", "gone"}
  BY <1>4 DEF Alive
<1> QED BY <1>3, <1>5 DEF Control, QueueInv

\* After the worker has been told to stop, no thread can do anything but the worker.
LEMMA OnlyWorker ==
    ASSUME Control, lb_stop, [Next]_vars
    PROVE  WorkerStep \/ UNCHANGED vars
<1>1. owner_ref = FALSE /\ \A w \in Writers : pc[w] \in {"unborn", "gone"} /\ client[w] = "idle"
  BY AllGone
<1>2. ASSUME NEW w \in Writers, WriterStep(w) PROVE FALSE
  <2>1. ~Create(w) /\ ~ExitPush(w) /\ ~ExitStep(w)
    BY <1>1 DEF Create, ExitPush, ExitStep, ExitStats, ExitUnregister
  <2>2. \A m \in MtkIds : ~register_mtk(w, m)
    BY <1>1 DEF register_mtk
  <2>3. \A d \in Descs, s \in LogSizes \cup {MtkSize} : ~Send(w, d, s)
    BY <1>1 DEF Send
  <2>4. ~ResolveBegin(w) /\ ~ResolveFail(w) /\ ~ResolveEnd(w) /\ ~LockWriter(w) /\ ~InstallBuffer(w)
    BY <1>1 DEF ResolveBegin, ResolveFail, ResolveEnd, LockWriter, InstallBuffer
  <2>5. ~AcquireTry(w)
    BY <1>1 DEF AcquireTry
  <2>6. ~AcquireWait(w)
    BY <1>1, AcquireWaits
  <2> QED BY <1>2, <2>1, <2>2, <2>3, <2>4, <2>5, <2>6 DEF WriterStep, CallStep
<1>3. ~OwnerRelease
  BY <1>1 DEF OwnerRelease
<1> QED BY <1>2, <1>3 DEF Next, Stopped

\* Every step keeps it: the last batch finds everything, and nothing is added behind it.
LEMMA StopStep ==
    ASSUME Control, PhaseInv, StopInv, [Next]_vars
    PROVE  StopInv'
<1>1. CASE lb_stop
  <2>1. CASE UNCHANGED vars
    BY <2>1 DEF vars, StopInv
  <2>2. CASE WaitEvent \/ CollectBegin \/ Pull
    <3>1. wpc' \in {"collect", "drain"}
      BY <2>2 DEF WaitEvent, CollectBegin, Pull
    <3> QED BY <3>1 DEF StopInv
  <2>3. CASE CollectReady \/ WriteService \/ RecycleService \/ ClearWakePending \/ flush_ready
    BY <1>1, <2>3 DEF StopInv, CollectReady, WriteService, RecycleService, ClearWakePending, flush_ready
  <2> QED BY <1>1, <2>1, <2>2, <2>3, OnlyWorker DEF WorkerStep
<1>2. CASE ~lb_stop
  <2>1. lb_stop' = lb_stop \/ wpc' = "collect"
    <3>1. CASE WorkerStep
      BY <3>1 DEF WorkerStep, WaitEvent, CollectBegin, Pull, CollectReady, WriteService, RecycleService,
                  ClearWakePending, flush_ready
    <3> QED BY <3>1, OtherSteps
  <2> QED BY <1>2, <2>1 DEF StopInv
<1> QED BY <1>1, <1>2

\* The worker has not been told to stop at first.
LEMMA StopInit == Init => StopInv
  BY DEF Init, StopInv
-------------------------------------------------------------------------------
(*****************************************************************************)
(* The balance of buffers.                                                   *)
(*****************************************************************************)

\* The buffers with the writers, the threads that have acquired one and not installed it, and the
\* buffers in queues and in the hands of the worker.
HeldCount == SumFunctionOnSet([w \in Writers |-> Len(Held(w))], Writers)
Acquired == {w \in Writers : client[w] = "granted" \/ pc[w] \in {"have", "haveSvc"}}
Queued == Len(mo_ready_queue) + Len(lo_ready) + Len(mo_svc_buffers) + Len(lo_bufs)

\* The balance: what is missing from the pool is in one of these places.
PoolInv == Capacity - avail = HeldCount + Cardinality(Acquired) + Queued

\* What the balance counts are natural numbers.
LEMMA CountTypes ==
    ASSUME BufferTypes, DescTypes
    PROVE  /\ HeldCount \in Nat /\ Cardinality(Acquired) \in Nat /\ IsFiniteSet(Acquired)
           /\ Len(mo_ready_queue) \in Nat /\ Len(lo_ready) \in Nat
           /\ Len(mo_svc_buffers) \in Nat /\ Len(lo_bufs) \in Nat
<1>1. \A w \in Writers : Len(Held(w)) \in Nat
  BY HeldType
<1>2. IsFiniteSet(Writers)
  BY PipelineAssumption
<1>3. PICK f : f = [w \in Writers |-> Len(Held(w))]
  OBVIOUS
<1>4. SumFunctionOnSet(f, Writers) \in Nat
  BY <1>1, <1>2, <1>3, SumNat
<1>5. HeldCount \in Nat
  BY <1>3, <1>4 DEF HeldCount
<1>6. Acquired \in SUBSET Writers
  BY DEF Acquired
<1>7. IsFiniteSet(Acquired) /\ Cardinality(Acquired) \in Nat
  BY <1>2, <1>6, FS_Subset, FS_CardinalityType
<1>8. /\ mo_ready_queue \in Seq(Buffer) /\ lo_ready \in Seq(Buffer)
      /\ mo_svc_buffers \in Seq(Seq(Descs)) /\ lo_bufs \in Seq(Seq(Descs))
  BY DEF BufferTypes, DescTypes
<1>9. \A S : \A s \in Seq(S) : Len(s) \in Nat
  OBVIOUS
<1> QED BY <1>5, <1>7, <1>8, <1>9

\* The balance is the property PoolExact, written with names for its parts.
LEMMA PoolInvIs ==
    ASSUME BufferTypes, DescTypes
    PROVE  PoolInv <=> PoolExact
<1>1. PICK f : f = [w \in Writers |-> Len(Held(w))]
  OBVIOUS
<1>2. \A w \in Writers : Len(Held(w)) \in Nat
  BY HeldType
<1>3. f \in [Writers -> Nat]
  BY <1>1, <1>2
<1>4. SumFunction(f) = SumFunctionOnSet(f, Writers)
  BY <1>3, SumWriters
<1>5. SumFunction([w \in Writers |-> Len(Held(w))]) = HeldCount
  BY <1>1, <1>4 DEF HeldCount
<1>6. PoolExact <=> Capacity - avail = HeldCount + Cardinality(Acquired) + Len(mo_ready_queue)
                                         + Len(lo_ready) + Len(mo_svc_buffers) + Len(lo_bufs)
  BY <1>5 DEF PoolExact, Acquired
<1>7. PICK n : n = HeldCount + Cardinality(Acquired) + Len(mo_ready_queue) + Len(lo_ready) + Len(mo_svc_buffers) + Len(lo_bufs)
  OBVIOUS
<1>8. n = HeldCount + Cardinality(Acquired) + Queued
  BY <1>7, CountTypes DEF Queued
<1> QED BY <1>6, <1>7, <1>8 DEF PoolInv

\* Nothing moves in the writers, and their count is the same.
LEMMA HeldCountSame ==
    ASSUME \A u \in Writers : Held(u)' = Held(u)
    PROVE  HeldCount' = HeldCount
<1>1. PICK f : f = [w \in Writers |-> Len(Held(w))]
  OBVIOUS
<1>2. PICK e : e = [w \in Writers |-> Len(Held(w)')]
  OBVIOUS
<1>3. f = e
  BY <1>1, <1>2
<1> QED BY <1>1, <1>2, <1>3 DEF HeldCount

\* One writer's buffers change, and the count changes by the difference.
LEMMA HeldCountChange ==
    ASSUME BufferTypes, BufferTypes', NEW w \in Writers, \A u \in Writers : u # w => Held(u)' = Held(u)
    PROVE  /\ HeldCount' = HeldCount - Len(Held(w)) + Len(Held(w)')
           /\ Len(Held(w)) \in Nat /\ Len(Held(w)') \in Nat
<1>1. PICK f : f = [u \in Writers |-> Len(Held(u))]
  OBVIOUS
<1>2. PICK e : e = [u \in Writers |-> Len(Held(u)')]
  OBVIOUS
<1>3. \A u \in Writers : Len(Held(u)) \in Nat
  BY HeldType
<1>4. \A u \in Writers : Len(Held(u)') \in Nat
  <2> SUFFICES ASSUME NEW u \in Writers PROVE Len(Held(u)') \in Nat
    OBVIOUS
  <2>1. mo_fragments'[u] \in Seq(Buffer) /\ mp_buffer'[u] \in Seq(Buffer)
    BY DEF BufferTypes
  <2>2. Held(u)' \in Seq(Buffer)
    BY <2>1, ConcatIn DEF Held
  <2> QED BY <2>2
<1>5. \A u \in Writers : u = w \/ f[u] = e[u]
  BY <1>1, <1>2
<1>6. \A u \in Writers : f[u] \in Int /\ e[u] \in Int
  BY <1>1, <1>2, <1>3, <1>4
<1>7. SumFunctionOnSet(e, Writers) = SumFunctionOnSet(f, Writers) - f[w] + e[w]
  BY <1>5, <1>6, SumChange, PipelineAssumption
<1>8. HeldCount = SumFunctionOnSet(f, Writers) /\ HeldCount' = SumFunctionOnSet(e, Writers)
  BY <1>1, <1>2 DEF HeldCount
<1> QED BY <1>1, <1>2, <1>3, <1>4, <1>7, <1>8

-----------------------------------------------------------------------------
\* No thread gets or gives up a buffer.
LEMMA AcquiredSame ==
    ASSUME \A u \in Writers : /\ client'[u] = "granted" <=> client[u] = "granted"
                              /\ pc'[u] \in {"have", "haveSvc"} <=> pc[u] \in {"have", "haveSvc"}
    PROVE  Acquired' = Acquired
  BY DEF Acquired

\* The waiters that are served when buffers come back.
LEMMA Served ==
    ASSUME PoolTypes, QueueInv, NEW n \in Nat, ReleaseBuffers(n)
    PROVE  \E K \in SUBSET Writers :
              /\ IsFiniteSet(K) /\ Cardinality(K) \in Nat
              /\ avail' = avail + n - Cardinality(K)
              /\ \A u \in K : client[u] = "waiting" /\ client'[u] = "granted"
              /\ \A u \in Writers \ K : client'[u] = client[u]
<1> DEFINE served == IF n < Len(queue) THEN n ELSE Len(queue)
           lucky  == {queue[i] : i \in 1 .. served}
<1>1. /\ client' = [t \in Writers |-> IF t \in lucky THEN "granted" ELSE client[t]]
      /\ avail' = avail + n - served
  BY DEF ReleaseBuffers, Pool!GiveBack
<1>2. served \in Nat /\ served <= Len(queue) /\ queue \in Seq(Writers) /\ Len(queue) \in Nat
  BY DEF PoolTypes
<1>3. \A i, j \in 1 .. Len(queue) : queue[i] = queue[j] => i = j
  BY DEF QueueInv
<1>4. PICK K : K = lucky
  OBVIOUS
<1>5. PICK k : k = served
  OBVIOUS
<1>6. K = {queue[i] : i \in 1 .. k} /\ k \in Nat /\ k <= Len(queue)
  BY <1>2, <1>4, <1>5
<1>7. /\ client' = [t \in Writers |-> IF t \in K THEN "granted" ELSE client[t]]
      /\ avail' = avail + n - k
  BY <1>1, <1>4, <1>5
<1> HIDE DEF served, lucky
<1>8. IsFiniteSet(K) /\ Cardinality(K) = k
  <2>1. IsFiniteSet(1 .. k) /\ Cardinality(1 .. k) = k
    BY <1>6, FS_Interval
  <2>2. PICK f : f = [i \in 1 .. k |-> queue[i]]
    OBVIOUS
  <2>3. f \in Bijection(1 .. k, K)
    <3>1. f \in [1 .. k -> K]
      BY <1>6, <2>2
    <3>2. \A i, j \in 1 .. k : f[i] = f[j] => i = j
      BY <1>2, <1>3, <1>6, <2>2
    <3>3. \A x \in K : \E i \in 1 .. k : f[i] = x
      BY <1>6, <2>2
    <3> QED BY <3>1, <3>2, <3>3 DEF Bijection, Injection, Surjection, IsInjective
  <2>4. ExistsBijection(1 .. k, K)
    BY <2>3 DEF ExistsBijection
  <2> QED BY <2>1, <2>4, FS_Bijection
<1>9. K \subseteq Writers /\ \A u \in K : client[u] = "waiting" /\ client'[u] = "granted"
  <2> SUFFICES ASSUME NEW u \in K PROVE u \in Writers /\ client[u] = "waiting" /\ client'[u] = "granted"
    OBVIOUS
  <2>1. PICK i \in 1 .. Len(queue) : queue[i] = u
    BY <1>2, <1>6
  <2>2. u \in Writers
    BY <1>2, <2>1
  <2> QED BY <1>7, <2>1, <2>2 DEF QueueInv
<1>10. \A u \in Writers \ K : client'[u] = client[u]
  BY <1>7
<1> QED BY <1>6, <1>7, <1>8, <1>9, <1>10

\* The places of a thread with a buffer it has not installed.
HaveBuffer == {"have", "haveSvc"}

\* One thread gets a buffer.
LEMMA AcquiredAdds ==
    ASSUME BufferTypes, DescTypes, NEW w \in Writers, w \notin Acquired, w \in Acquired',
           \A u \in Writers : u # w => (u \in Acquired' <=> u \in Acquired)
    PROVE  Cardinality(Acquired') = Cardinality(Acquired) + 1
<1>1. IsFiniteSet(Acquired)
  BY CountTypes
<1>2. Acquired' = Acquired \cup {w}
  <2>1. Acquired \subseteq Writers /\ Acquired' \subseteq Writers
    BY DEF Acquired
  <2> QED BY <2>1
<1> QED BY <1>1, <1>2, FS_AddElement

\* One thread gives up the buffer it has.
LEMMA AcquiredDrops ==
    ASSUME BufferTypes, DescTypes, NEW w \in Writers, w \in Acquired, w \notin Acquired',
           \A u \in Writers : u # w => (u \in Acquired' <=> u \in Acquired)
    PROVE  Cardinality(Acquired') = Cardinality(Acquired) - 1
<1>1. IsFiniteSet(Acquired)
  BY CountTypes
<1>2. Acquired' = Acquired \ {w}
  <2>1. Acquired \subseteq Writers /\ Acquired' \subseteq Writers
    BY DEF Acquired
  <2> QED BY <2>1
<1> QED BY <1>1, <1>2, FS_RemoveElement

\* A buffer that comes back goes to a waiter or is free; x gives up the one it had, if any.
LEMMA GivenBack ==
    ASSUME Control, BufferTypes, DescTypes, NEW n \in Nat, ReleaseBuffers(n), NEW x,
           \A u \in Writers : pc'[u] \in HaveBuffer <=> pc[u] \in HaveBuffer /\ u # x,
           x \in Writers => pc[x] \in HaveBuffer
    PROVE  avail' + Cardinality(Acquired') = avail + n + Cardinality(Acquired \ {x})
<1>1. PICK K \in SUBSET Writers :
              /\ IsFiniteSet(K) /\ Cardinality(K) \in Nat
              /\ avail' = avail + n - Cardinality(K)
              /\ \A u \in K : client[u] = "waiting" /\ client'[u] = "granted"
              /\ \A u \in Writers \ K : client'[u] = client[u]
  BY Served DEF Control
<1>2. PICK A : A = Acquired \ {x}
  OBVIOUS
<1>3. IsFiniteSet(A) /\ Cardinality(A) \in Nat
  BY <1>2, CountTypes, FS_RemoveElement, FS_CardinalityType
<1>4. \A u \in Writers : client[u] # "idle" => pc[u] \notin HaveBuffer
  BY DEF Control, QueueInv, HaveBuffer
<1>5. A \cap K = {}
  BY <1>1, <1>2, <1>4 DEF Acquired, HaveBuffer
<1>6. Acquired' = A \cup K
  <2>1. ASSUME NEW u \in Writers PROVE u \in Acquired' <=> u \in A \cup K
    <3>1. u \in Acquired' <=> client'[u] = "granted" \/ pc'[u] \in HaveBuffer
      BY DEF Acquired, HaveBuffer
    <3>2. u \in Acquired <=> client[u] = "granted" \/ pc[u] \in HaveBuffer
      BY DEF Acquired, HaveBuffer
    <3>3. CASE u \in K
      BY <1>1, <3>1, <3>3
    <3>4. CASE u \notin K /\ u = x
      <4>1. client[u] = "idle" /\ client'[u] = "idle" /\ pc'[u] \notin HaveBuffer
        <5>1. pc[u] \in HaveBuffer
          BY <3>4
        <5>2. client[u] = "idle"
          BY <1>4, <5>1
        <5> QED BY <1>1, <3>4, <5>2
      <4> QED BY <1>2, <3>1, <3>4, <4>1
    <3>5. CASE u \notin K /\ u # x
      BY <1>1, <1>2, <3>1, <3>2, <3>5
    <3> QED BY <3>3, <3>4, <3>5
  <2>2. Acquired' \subseteq Writers /\ A \subseteq Writers
    BY <1>2 DEF Acquired
  <2> QED BY <1>1, <2>1, <2>2
<1>7. Cardinality(A \cup K) = Cardinality(A) + Cardinality(K)
  <2>1. Cardinality(A \cup K) = Cardinality(A) + Cardinality(K) - Cardinality(A \cap K)
    BY <1>1, <1>3, FS_Union
  <2>2. Cardinality(A \cap K) = 0
    BY <1>5, FS_EmptySet
  <2> QED BY <1>1, <1>3, <2>1, <2>2
<1>8. avail \in Int
  BY DEF Control, PoolTypes
<1> QED BY <1>1, <1>2, <1>3, <1>6, <1>7, <1>8

\* A step that moves no buffer.
LEMMA PoolIdle ==
    ASSUME BufferTypes, DescTypes, PoolInv,
           UNCHANGED <<avail, mp_buffer, mo_fragments, mo_ready_queue, lo_ready, lo_bufs>>,
           Len(mo_svc_buffers') = Len(mo_svc_buffers), Acquired' = Acquired
    PROVE  PoolInv'
<1>1. \A u \in Writers : Held(u)' = Held(u)
  BY DEF Held
<1>2. HeldCount' = HeldCount
  BY <1>1, HeldCountSame
<1> QED BY <1>2 DEF PoolInv, Queued

\* A thread moves and no buffer does.
LEMMA PoolIdleThread ==
    ASSUME Control, BufferTypes, DescTypes, PoolInv, NEW w \in Writers, NEW p,
           pc' = [pc EXCEPT ![w] = p], pc[w] \notin HaveBuffer, p \notin HaveBuffer,
           \A u \in Writers : client'[u] = "granted" <=> client[u] = "granted",
           UNCHANGED <<avail, mp_buffer, mo_fragments, mo_ready_queue, lo_ready, lo_bufs>>,
           Len(mo_svc_buffers') = Len(mo_svc_buffers)
    PROVE  PoolInv'
<1>1. \A u \in Writers : pc'[u] = IF u = w THEN p ELSE pc[u]
  BY DEF Control, ThreadTypes
<1>2. Acquired' = Acquired
  BY <1>1, AcquiredSame DEF HaveBuffer
<1> QED BY <1>2, PoolIdle

\* Releasing the core moves no buffer.
LEMMA ReleaseIdle ==
    ASSUME CoreRelease
    PROVE  avail' = avail /\ \A u \in Writers : client'[u] = "granted" <=> client[u] = "granted"
<1>1. CASE mu_ref_count = 1
  <2>1. avail' = avail /\ client' = [u \in Writers |-> IF client[u] = "waiting" THEN "refused" ELSE client[u]]
    BY <1>1 DEF CoreRelease, Pool!Close
  <2> QED BY <2>1
<1>2. CASE mu_ref_count # 1
  BY <1>2 DEF CoreRelease
<1> QED BY <1>1, <1>2

\* Steps of a thread that move no buffer: construction, entering the API, a failed resolve and the
\* end of the destructor.
LEMMA PoolCoreSteps ==
    ASSUME Control, BufferTypes, DescTypes, PoolInv, NEW w \in Writers,
           \/ Create(w) \/ ResolveFail(w) \/ ExitStep(w)
           \/ \E d \in Descs, s \in LogSizes \cup {MtkSize} : Send(w, d, s)
    PROVE  PoolInv'
<1> USE DEF HaveBuffer
<1>1. CASE Create(w)
  BY <1>1, PoolIdleThread DEF Create, Goto
<1>2. CASE ResolveFail(w)
  BY <1>2, PoolIdleThread DEF ResolveFail, Goto
<1>3. CASE ExitStats(w)
  BY <1>3, PoolIdleThread DEF ExitStats, Goto
<1>4. CASE ExitUnregister(w)
  <2>1. CoreRelease /\ pc[w] = "counted" /\ pc' = [pc EXCEPT ![w] = "gone"]
        /\ UNCHANGED <<mp_buffer, mo_fragments, mo_ready_queue, lo_ready, lo_bufs, mo_svc_buffers>>
    BY <1>4 DEF ExitUnregister, Goto
  <2> QED BY <2>1, ReleaseIdle, PoolIdleThread
<1>5. CASE \E d \in Descs, s \in LogSizes \cup {MtkSize} : Send(w, d, s)
  <2>1. PICK d \in Descs, s \in LogSizes \cup {MtkSize} : Send(w, d, s)
    BY <1>5
  <2>2. /\ pc[w] = "idle" /\ UNCHANGED <<poolVars, bufVars, svcVars, mo_ready_queue, workerVars>>
    BY <2>1 DEF Send
  <2>3. PICK p \in {"lock", "resolve"} : pc' = [pc EXCEPT ![w] = p]
    BY <2>1 DEF Send, Goto
  <2> QED BY <2>2, <2>3, PoolIdleThread
<1> QED BY <1>1, <1>2, <1>3, <1>4, <1>5 DEF ExitStep

\* p8_release moves no buffer.
LEMMA PoolOwner ==
    ASSUME BufferTypes, DescTypes, PoolInv, OwnerRelease
    PROVE  PoolInv'
<1>1. /\ CoreRelease /\ pc' = pc
      /\ UNCHANGED <<mp_buffer, mo_fragments, mo_ready_queue, lo_ready, lo_bufs, mo_svc_buffers>>
  BY DEF OwnerRelease
<1>2. Acquired' = Acquired
  BY <1>1, ReleaseIdle, AcquiredSame
<1> QED BY <1>1, <1>2, ReleaseIdle, PoolIdle

-----------------------------------------------------------------------------
\* The length of the list of service buffers.
LEMMA SvcLength ==
    ASSUME DescTypes, NEW d \in Descs
    PROVE  /\ mo_svc_buffers # <<>> /\ mo_svc_buffers' = SvcAppend(d) => Len(mo_svc_buffers') = Len(mo_svc_buffers)
           /\ mo_svc_buffers' = SvcAppendNew(d) => Len(mo_svc_buffers') = Len(mo_svc_buffers) + 1
<1>1. PICK A : A = Seq(Descs)
  OBVIOUS
<1>2. mo_svc_buffers \in Seq(A)
  BY <1>1 DEF DescTypes
<1>3. PICK s : s = mo_svc_buffers
  OBVIOUS
<1>4. s \in Seq(A) /\ <<d>> \in A
  BY <1>1, <1>2, <1>3
<1>5. Len(Append(s, <<d>>)) = Len(s) + 1
  BY <1>4
<1>6. ASSUME s # <<>>, NEW x, x = Append(Last(s), d) PROVE Len(Append(Front(s), x)) = Len(s)
  <2>1. Last(s) \in A /\ Front(s) \in Seq(A) /\ Len(Front(s)) = Len(s) - 1 /\ Len(s) \in Nat
    <3>1. Len(s) \in Nat \ {0} /\ Last(s) = s[Len(s)] /\ Front(s) = SubSeq(s, 1, Len(s) - 1)
      BY <1>4, <1>6, EmptySeq DEF Last, Front
    <3>2. s[Len(s)] \in A
      BY <1>4, <3>1
    <3>3. PICK n \in Nat : n = Len(s) - 1
      BY <3>1
    <3>4. SubSeq(s, 1, n) \in Seq(A) /\ Len(SubSeq(s, 1, n)) = n
      BY <1>4, <3>1, <3>3, SubSeqProperties
    <3> QED BY <3>1, <3>2, <3>3, <3>4
  <2>2. x \in A
    BY <1>1, <1>6, <2>1
  <2>3. Len(Append(Front(s), x)) = Len(Front(s)) + 1
    BY <2>1, <2>2
  <2> QED BY <2>1, <2>3
<1>7. s # <<>> /\ mo_svc_buffers' = SvcAppend(d) => Len(mo_svc_buffers') = Len(s)
  BY <1>3, <1>6 DEF SvcAppend
<1>8. mo_svc_buffers' = SvcAppendNew(d) => Len(mo_svc_buffers') = Len(s) + 1
  BY <1>3, <1>5 DEF SvcAppendNew
<1> QED BY <1>3, <1>7, <1>8

\* A metric announced in a new service buffer takes that buffer from the pool.
LEMMA PoolRegister ==
    ASSUME Control, BufferTypes, DescTypes, PoolInv, NEW w \in Writers, NEW m \in MtkIds, register_mtk(w, m)
    PROVE  PoolInv'
<1>1. pc' = pc /\ UNCHANGED <<mp_buffer, mo_fragments, mo_ready_queue, lo_ready, lo_bufs>> /\ SvcEntryOrDrop(w, m)
  BY DEF register_mtk
<1>2. m \in Descs
  BY DEF Descs
<1>3. CASE mo_svc_buffers # <<>> /\ mo_svc_buffers' = SvcAppend(m) /\ UNCHANGED poolVars
  <2>1. Acquired' = Acquired
    BY <1>1, <1>3, AcquiredSame
  <2> QED BY <1>1, <1>2, <1>3, <2>1, SvcLength, PoolIdle
<1>4. CASE TakeBuffer(w) /\ mo_svc_buffers' = SvcAppendNew(m)
  <2>1. /\ client' = [client EXCEPT ![w] = "idle"] /\ client[w] \in {"idle", "asking"}
        /\ avail \in Nat \ {0} /\ avail' = avail - 1
    BY <1>4, TakeBufferTakes, PoolTake DEF Control
  <2>2. Acquired' = Acquired
    BY <1>1, <2>1, AcquiredSame DEF Control, PoolTypes
  <2>3. HeldCount' = HeldCount
    <3>1. \A u \in Writers : Held(u)' = Held(u)
      BY <1>1 DEF Held
    <3> QED BY <3>1, HeldCountSame
  <2>4. Len(mo_svc_buffers') = Len(mo_svc_buffers) + 1
    BY <1>2, <1>4, SvcLength
  <2>5. Queued' = Queued + 1 /\ Queued \in Nat
    BY <1>1, <2>4, CountTypes DEF Queued
  <2>6. /\ Capacity \in Nat /\ HeldCount \in Nat /\ Cardinality(Acquired) \in Nat
        /\ Capacity - avail = HeldCount + Cardinality(Acquired) + Queued
    BY CountTypes, PipelineAssumption DEF PoolInv
  <2>7. PICK q : q = Cardinality(Acquired)
    OBVIOUS
  <2>8. Capacity - avail' = HeldCount' + q + Queued'
    BY ONLY <2>1, <2>3, <2>5, <2>6, <2>7
  <2> QED BY <2>2, <2>7, <2>8 DEF PoolInv
<1>5. CASE UNCHANGED <<poolVars, mo_svc_buffers>>
  <2>1. Acquired' = Acquired
    BY <1>1, <1>5, AcquiredSame
  <2> QED BY <1>1, <1>5, <2>1, PoolIdle
<1> QED BY <1>1, <1>3, <1>4, <1>5 DEF SvcEntryOrDrop, SvcRoom

\* The service buffer a thread came back with becomes the current one.
LEMMA PoolResolve ==
    ASSUME Control, BufferTypes, DescTypes, MutexInv, PoolInv, NEW w \in Writers, ResolveBegin(w) \/ ResolveEnd(w)
    PROVE  PoolInv'
<1>0. PICK d : d = cur[w][1].d
  OBVIOUS
<1>1. d \in Descs /\ UNCHANGED <<poolVars, mp_buffer, mo_fragments, mo_ready_queue, lo_ready, lo_bufs>>
  <2>1. d \in LogDescs
    BY <1>0, ResolveOutcome
  <2>2. UNCHANGED <<poolVars, mp_buffer, mo_fragments, mo_ready_queue, lo_ready, lo_bufs>>
    BY DEF ResolveBegin, ResolveEnd
  <2> QED BY <2>1, <2>2 DEF Descs
<1>2. CASE ResolveBegin(w)
  <2>1. /\ pc[w] = "resolve"
        /\ \/ mo_svc_buffers' = mo_svc_buffers
           \/ mo_svc_buffers # <<>> /\ mo_svc_buffers' = SvcAppend(d)
    BY <1>0, <1>2 DEF ResolveBegin, SvcRoom
  <2>2. PICK p \in {"lock", "acquireSvc"} : pc' = [pc EXCEPT ![w] = p]
    BY <1>2 DEF ResolveBegin, Resolved, Goto
  <2>3. Len(mo_svc_buffers') = Len(mo_svc_buffers)
    BY <1>1, <2>1, SvcLength
  <2> QED BY <1>1, <2>1, <2>2, <2>3, PoolIdleThread DEF HaveBuffer
<1>3. CASE ResolveEnd(w)
  <2>1. pc[w] = "haveSvc" /\ mo_svc_buffers' = SvcAppendNew(d) /\ pc' = [pc EXCEPT ![w] = "lock"]
    BY <1>0, <1>3 DEF ResolveEnd, Resolved, Goto
  <2>2. \A u \in Writers : pc'[u] = IF u = w THEN "lock" ELSE pc[u]
    BY <2>1 DEF Control, ThreadTypes
  <2>3. client[w] = "idle"
    BY <2>1 DEF Control, QueueInv
  <2>4. w \in Acquired /\ w \notin Acquired' /\ \A u \in Writers : u # w => (u \in Acquired' <=> u \in Acquired)
    BY <1>1, <2>1, <2>2, <2>3 DEF Acquired
  <2>5. Cardinality(Acquired') = Cardinality(Acquired) - 1
    BY <2>4, AcquiredDrops
  <2>6. HeldCount' = HeldCount
    <3>1. \A u \in Writers : Held(u)' = Held(u)
      BY <1>1 DEF Held
    <3> QED BY <3>1, HeldCountSame
  <2>7. Len(mo_svc_buffers') = Len(mo_svc_buffers) + 1
    BY <1>1, <2>1, SvcLength
  <2>8. Queued' = Queued + 1 /\ Queued \in Nat
    BY <1>1, <2>7, CountTypes DEF Queued
  <2> QED BY <1>1, <2>5, <2>6, <2>8, CountTypes DEF PoolInv
<1> QED BY <1>2, <1>3

\* The same as integers, for the arithmetic.
LEMMA PoolNumbers ==
    ASSUME Control, BufferTypes, DescTypes
    PROVE  /\ Capacity \in Int /\ avail \in Int /\ HeldCount \in Int /\ Cardinality(Acquired) \in Int
           /\ Len(mo_ready_queue) \in Int /\ Len(lo_ready) \in Int
           /\ Len(mo_svc_buffers) \in Int /\ Len(lo_bufs) \in Int
           /\ Queued \in Int
<1>1. /\ HeldCount \in Nat /\ Cardinality(Acquired) \in Nat
      /\ Len(mo_ready_queue) \in Nat /\ Len(lo_ready) \in Nat
      /\ Len(mo_svc_buffers) \in Nat /\ Len(lo_bufs) \in Nat
  BY CountTypes
<1>2. Queued \in Int
  BY <1>1 DEF Queued
<1>3. avail \in Int
  BY DEF Control, PoolTypes
<1>4. Capacity \in Int
  BY PipelineAssumption
<1> QED BY <1>1, <1>2, <1>3, <1>4

\* The books balance when what a step takes from the pool it gives to somebody.
LEMMA Balance ==
    ASSUME Control, BufferTypes, DescTypes, PoolInv,
           NEW da \in Int, NEW dh \in Int, NEW dq \in Int, NEW dw \in Int,
           avail' = avail + da, HeldCount' = HeldCount + dh,
           Cardinality(Acquired') = Cardinality(Acquired) + dq, Queued' = Queued + dw,
           da + dh + dq + dw = 0
    PROVE  PoolInv'
<1>1. PICK q : q = Cardinality(Acquired)
  OBVIOUS
<1>2. PICK r : r = Cardinality(Acquired')
  OBVIOUS
<1>3. /\ Capacity \in Int /\ avail \in Int /\ HeldCount \in Int /\ q \in Int /\ Queued \in Int
      /\ Capacity - avail = HeldCount + q + Queued
      /\ avail' = avail + da /\ HeldCount' = HeldCount + dh /\ r = q + dq /\ Queued' = Queued + dw
      /\ da + dh + dq + dw = 0 /\ da \in Int /\ dh \in Int /\ dq \in Int /\ dw \in Int
  BY <1>1, <1>2, PoolNumbers DEF PoolInv
<1>4. Capacity - avail' = HeldCount' + r + Queued'
  BY ONLY <1>3
<1> QED BY <1>2, <1>4 DEF PoolInv

\* The queues and the worker's buffers are untouched.
LEMMA QueuedSame ==
    ASSUME UNCHANGED <<mo_ready_queue, lo_ready, mo_svc_buffers, lo_bufs>>
    PROVE  Queued' = Queued
  BY DEF Queued

\* acquire_buffer moves a buffer from the pool to the thread, and a thread that was granted one to
\* its place behind the call.
LEMMA PoolAcquire ==
    ASSUME Control, BufferTypes, DescTypes, PoolInv, NEW w \in Writers, AcquireTry(w) \/ AcquireWait(w)
    PROVE  PoolInv'
<1> USE DEF HaveBuffer
<1>1. /\ pc[w] \in {"acquire", "acquireSvc"}
      /\ UNCHANGED <<mp_buffer, mo_fragments, mo_ready_queue, lo_ready, mo_svc_buffers, lo_bufs>>
  <2>1. CASE AcquireTry(w)
    BY <2>1 DEF AcquireTry
  <2>2. CASE AcquireWait(w)
    BY <2>2, AcquireWaits DEF AcquireWait, Control, QueueInv
  <2> QED BY <2>1, <2>2
<1>2. ASSUME Pool!Take(w), NEW p \in HaveBuffer, pc' = [pc EXCEPT ![w] = p] PROVE PoolInv'
  <2>1. /\ client' = [client EXCEPT ![w] = "idle"] /\ client[w] \in {"idle", "asking"}
        /\ avail \in Nat \ {0} /\ avail' = avail - 1
    BY <1>2, PoolTake DEF Control
  <2>2. \A u \in Writers : /\ pc'[u] = IF u = w THEN p ELSE pc[u]
                          /\ client'[u] = IF u = w THEN "idle" ELSE client[u]
    BY <1>2, <2>1 DEF Control, ThreadTypes, PoolTypes
  <2>3. w \notin Acquired /\ w \in Acquired' /\ \A u \in Writers : u # w => (u \in Acquired' <=> u \in Acquired)
    BY <1>1, <2>1, <2>2 DEF Acquired
  <2>4. Cardinality(Acquired') = Cardinality(Acquired) + 1
    BY <2>3, AcquiredAdds
  <2>5. HeldCount' = HeldCount
    <3>1. \A u \in Writers : Held(u)' = Held(u)
      BY <1>1 DEF Held
    <3> QED BY <3>1, HeldCountSame
  <2>6. Queued' = Queued
    BY <1>1, QueuedSame
  <2>7. avail' = avail + (-1) /\ HeldCount' = HeldCount + 0 /\ Queued' = Queued + 0
    BY <2>1, <2>5, <2>6, PoolNumbers
  <2> QED BY <2>4, <2>7, Balance
<1>3. ASSUME pc' = pc, avail' = avail, \A u \in Writers : client'[u] = "granted" <=> client[u] = "granted"
      PROVE  PoolInv'
  <2>1. Acquired' = Acquired
    BY <1>3, AcquiredSame
  <2> QED BY <1>1, <1>3, <2>1, PoolIdle
<1>4. ASSUME client[w] = "granted", Pool!Return(w), NEW p \in HaveBuffer, pc' = [pc EXCEPT ![w] = p] PROVE PoolInv'
  <2>1. client' = [client EXCEPT ![w] = "idle"] /\ avail' = avail
    BY <1>4 DEF Pool!Return
  <2>2. \A u \in Writers : /\ pc'[u] = IF u = w THEN p ELSE pc[u]
                          /\ client'[u] = IF u = w THEN "idle" ELSE client[u]
    BY <1>4, <2>1 DEF Control, ThreadTypes, PoolTypes
  <2>3. Acquired' = Acquired
    BY <1>4, <2>2 DEF Acquired
  <2> QED BY <1>1, <2>1, <2>3, PoolIdle
<1>5. CASE AcquireTry(w)
  <2>1. CASE Pool!Ask(w) /\ pc' = pc
    <3>1. avail' = avail /\ client' = [client EXCEPT ![w] = "asking"] /\ client[w] = "idle"
      BY <2>1 DEF Pool!Ask
    <3>2. \A u \in Writers : client'[u] = IF u = w THEN "asking" ELSE client[u]
      BY <3>1 DEF Control, PoolTypes
    <3>3. \A u \in Writers : client'[u] = "granted" <=> client[u] = "granted"
      BY <3>1, <3>2
    <3> QED BY <1>3, <2>1, <3>1, <3>3
  <2>2. CASE TakeBuffer(w) /\ \E p \in HaveBuffer : pc' = [pc EXCEPT ![w] = p]
    BY <1>2, <2>2, TakeBufferTakes
  <2> QED BY <1>5, <2>1, <2>2 DEF AcquireTry, Goto
<1>6. CASE AcquireWait(w)
  <2>1. CASE Pool!Enqueue(w) /\ pc' = pc
    <3>1. avail' = avail /\ client' = [client EXCEPT ![w] = "waiting"] /\ client[w] = "asking"
      BY <2>1 DEF Pool!Enqueue
    <3>2. \A u \in Writers : client'[u] = IF u = w THEN "waiting" ELSE client[u]
      BY <3>1 DEF Control, PoolTypes
    <3>3. \A u \in Writers : client'[u] = "granted" <=> client[u] = "granted"
      BY <3>1, <3>2
    <3> QED BY <1>3, <2>1, <3>1, <3>3
  <2>2. CASE Pool!Take(w) /\ \E p \in HaveBuffer : pc' = [pc EXCEPT ![w] = p]
    BY <1>2, <2>2
  <2>3. CASE client[w] = "granted" /\ Pool!Return(w) /\ \E p \in HaveBuffer : pc' = [pc EXCEPT ![w] = p]
    BY <1>4, <2>3
  <2> QED BY <1>6, <2>1, <2>2, <2>3 DEF AcquireWait, Goto
<1> QED BY <1>5, <1>6

\* An append is one element longer.
LEMMA LenAppend == \A S : \A s \in Seq(S), x \in S : Len(Append(s, x)) = Len(s) + 1 /\ Append(s, x) \in Seq(S) /\ Len(s) \in Nat
  OBVIOUS

\* Writing a record installs the buffer the thread came back with, takes a second one for the rest
\* or gives back an empty one.
LEMMA PoolWrite ==
    ASSUME Control, BufferTypes, HeldInv, DescTypes, PoolInv, NEW w \in Writers, LockWriter(w) \/ InstallBuffer(w)
    PROVE  PoolInv'
<1> USE DEF HaveBuffer
<1>1. pc[w] \in {"lock", "have"} /\ UNCHANGED <<mo_ready_queue, lo_ready, mo_svc_buffers, lo_bufs>>
  BY WriteBase
<1>2. Queued' = Queued /\ client[w] = "idle" /\ BufferTypes'
  BY <1>1, QueuedSame, WriteHeld DEF Control, QueueInv
<1>3. \A u \in Writers : u # w => Held(u)' = Held(u)
  BY WriteLeavesOthers
<1>4. /\ HeldCount' = HeldCount - Len(Held(w)) + Len(Held(w)')
      /\ Len(Held(w)) \in Nat /\ Len(Held(w)') \in Nat
  BY <1>2, <1>3, HeldCountChange
<1>5. mo_fragments[w] \in Seq(Buffer) /\ Held(w) \in Seq(Buffer)
  BY HeldType
<1>6. /\ Capacity \in Int /\ avail \in Int /\ HeldCount \in Int /\ Cardinality(Acquired) \in Int /\ Queued \in Int
      /\ IsFiniteSet(Acquired)
  BY PoolNumbers, CountTypes
<1>7. CASE Parks(w)
  <2>1. /\ mo_fragments' = [mo_fragments EXCEPT ![w] = Held(w)] /\ mp_buffer' = [mp_buffer EXCEPT ![w] = <<>>]
        /\ pc' = [pc EXCEPT ![w] = "acquire"] /\ pc[w] = "lock" /\ UNCHANGED poolVars
    BY <1>7 DEF Parks
  <2>2. mo_fragments'[w] = Held(w) /\ mp_buffer'[w] = <<>>
    BY <2>1 DEF BufferTypes
  <2>3. PICK h : h = Held(w)
    OBVIOUS
  <2>4. h \o <<>> = h
    BY <1>5, <2>3
  <2>5. Held(w)' = Held(w)
    BY <2>2, <2>3, <2>4 DEF Held
  <2>6. HeldCount' = HeldCount
    BY <1>3, <2>5, HeldCountSame
  <2>7. \A u \in Writers : pc'[u] = IF u = w THEN "acquire" ELSE pc[u]
    BY <2>1 DEF Control, ThreadTypes
  <2>8. Acquired' = Acquired
    BY <2>1, <2>7, AcquiredSame
  <2> QED BY <1>2, <2>1, <2>6, <2>8 DEF PoolInv
<1>8. ASSUME NEW b \in Buffer, NEW n \in Nat, b.w = w, Room(b) >= StartRoom(w),
             IsTail(w, b, n) \/ IsFresh(w, b, n), Writes(w, b, n)
      PROVE  PoolInv'
  <2>1. EndsWhole(w, b, n) \/ EndsSplit(w, b, n) \/ EndsDropped(w, b, n)
    BY <1>1, <1>8, WriteOutcome
  <2>2. pc' = [pc EXCEPT ![w] = "idle"]
    BY <1>8 DEF Writes
  <2>3. \A u \in Writers : pc'[u] = IF u = w THEN "idle" ELSE pc[u]
    BY <2>2 DEF Control, ThreadTypes
  <2>4. PICK f : f = mo_fragments[w]
    OBVIOUS
  <2>5. PICK fresh \in {0, 1} : /\ fresh = 1 <=> pc[w] = "have"
                                /\ Len(Held(w)) = Len(f) + 1 - fresh
                                /\ b.used = 0 <=> fresh = 1
                                /\ Len(f) \in Nat
    <3>1. CASE IsTail(w, b, n)
      <4>1. Len(Held(w)) = Len(f) + 1 /\ Len(f) \in Nat
        BY <1>5, <1>8, <2>4, <3>1, LenAppend DEF IsTail
      <4>2. pc[w] = "lock" /\ b.used > 0 /\ b.used # 0
        BY <3>1 DEF IsTail, Buffer
      <4> QED BY <4>1, <4>2
    <3>2. CASE IsFresh(w, b, n)
      <4>0. NewBuffer(w).used = 0
        BY FreshBuffer
      <4>1. Held(w) = f /\ Len(f) \in Nat /\ pc[w] = "have" /\ b.used = 0
        BY <1>5, <2>4, <3>2, <4>0, LenAppend DEF IsFresh
      <4> QED BY <4>1
    <3> QED BY <1>8, <3>1, <3>2
  \* the set of acquired buffers, when the step does not give any back
  <2>6. ASSUME \A u \in Writers : u # w => client'[u] = client[u], client'[w] = "idle"
        PROVE  Cardinality(Acquired') = Cardinality(Acquired) + (-fresh)
    <3>1. \A u \in Writers : u # w => (u \in Acquired' <=> u \in Acquired)
      BY <2>3, <2>6 DEF Acquired
    <3>2. w \notin Acquired' /\ (w \in Acquired <=> fresh = 1)
      BY <1>1, <1>2, <2>3, <2>5, <2>6 DEF Acquired
    <3>3. CASE fresh = 1
      <4>1. Cardinality(Acquired') = Cardinality(Acquired) - 1
        BY <3>1, <3>2, <3>3, AcquiredDrops
      <4> QED BY <1>6, <3>3, <4>1
    <3>4. CASE fresh = 0
      <4>1. Acquired' = Acquired
        <5>1. Acquired \subseteq Writers /\ Acquired' \subseteq Writers
          BY DEF Acquired
        <5> QED BY <3>1, <3>2, <3>4, <5>1
      <4> QED BY <1>6, <3>4, <4>1
    <3> QED BY <3>3, <3>4
  <2>7. CASE EndsWhole(w, b, n)
    <3>1. PICK c \in Buffer : Held(w)' = Append(f, c)
      BY <2>4, <2>7 DEF EndsWhole
    <3>2. Len(Held(w)') = Len(f) + 1
      BY <1>5, <2>4, <3>1, LenAppend
    <3>3. UNCHANGED poolVars
      BY <2>7 DEF EndsWhole
    <3>4. Cardinality(Acquired') = Cardinality(Acquired) + (-fresh)
      BY <1>2, <2>6, <3>3
    <3>5. avail' = avail + 0 /\ HeldCount' = HeldCount + fresh /\ Queued' = Queued + 0
      BY <1>2, <1>4, <1>6, <2>5, <3>2, <3>3
    <3>6. 0 + fresh + (-fresh) + 0 = 0 /\ fresh \in Int /\ -fresh \in Int
      BY <2>5
    <3> QED BY <3>4, <3>5, <3>6, Balance
  <2>8. CASE EndsSplit(w, b, n)
    <3>1. PICK c \in Buffer, e \in Buffer : Held(w)' = Append(Append(f, c), e)
      BY <2>4, <2>8 DEF EndsSplit
    <3>2. PICK g : g = Append(f, c)
      OBVIOUS
    <3>3. g \in Seq(Buffer) /\ Len(g) = Len(f) + 1
      BY <1>5, <2>4, <3>2, LenAppend
    <3>4. Held(w)' = Append(g, e)
      BY <3>1, <3>2
    <3>5. Len(Held(w)') = Len(g) + 1
      BY <3>3, <3>4, LenAppend
    <3>6. /\ client' = [client EXCEPT ![w] = "idle"] /\ avail' = avail - 1
      BY <2>8, TakeBufferTakes, PoolTake DEF EndsSplit, Control
    <3>7. client'[w] = "idle" /\ \A u \in Writers : u # w => client'[u] = client[u]
      BY <3>6 DEF Control, PoolTypes
    <3>8. Cardinality(Acquired') = Cardinality(Acquired) + (-fresh)
      BY <2>6, <3>7
    <3>9. avail' = avail + (-1) /\ HeldCount' = HeldCount + (fresh + 1) /\ Queued' = Queued + 0
      BY <1>2, <1>4, <1>6, <2>5, <3>3, <3>5, <3>6
    <3>10. (-1) + (fresh + 1) + (-fresh) + 0 = 0 /\ fresh + 1 \in Int /\ -fresh \in Int
      BY <2>5
    <3> QED BY <3>8, <3>9, <3>10, Balance
  <2>9. CASE EndsDropped(w, b, n) /\ fresh = 0
    <3>1. Held(w)' = Append(f, b) /\ UNCHANGED poolVars
      BY <2>4, <2>5, <2>9 DEF EndsDropped
    <3>2. Len(Held(w)') = Len(f) + 1
      BY <1>5, <1>8, <2>4, <3>1, LenAppend
    <3>3. Cardinality(Acquired') = Cardinality(Acquired) + (-fresh)
      BY <1>2, <2>6, <3>1
    <3>4. avail' = avail + 0 /\ HeldCount' = HeldCount + 0 /\ Queued' = Queued + 0
      BY <1>2, <1>4, <1>6, <2>5, <2>9, <3>1, <3>2
    <3>5. Cardinality(Acquired') = Cardinality(Acquired) + 0
      BY <1>6, <2>9, <3>3
    <3> QED BY <3>4, <3>5, Balance
  <2>10. CASE EndsDropped(w, b, n) /\ fresh = 1
    <3>1. Held(w)' = f /\ ReleaseBuffers(1)
      BY <2>4, <2>5, <2>10 DEF EndsDropped
    <3>2. HeldCount' = HeldCount
      BY <1>4, <1>6, <2>5, <2>10, <3>1
    <3>3. /\ \A u \in Writers : pc'[u] \in HaveBuffer <=> pc[u] \in HaveBuffer /\ u # w
          /\ pc[w] \in HaveBuffer
      BY <2>3, <2>5, <2>10
    <3>4. avail' + Cardinality(Acquired') = avail + 1 + Cardinality(Acquired \ {w})
      BY <3>1, <3>3, GivenBack
    <3>5. Cardinality(Acquired \ {w}) = Cardinality(Acquired) - 1
      <4>1. w \in Acquired
        BY <2>5, <2>10 DEF Acquired
      <4> QED BY <1>6, <4>1, FS_RemoveElement
    <3>6. PICK q : q = Cardinality(Acquired)
      OBVIOUS
    <3>7. PICK r : r = Cardinality(Acquired')
      OBVIOUS
    <3>8. PoolTypes' /\ r \in Int
      <4>1. DescTypes \in BOOLEAN
        OBVIOUS
      <4>2. PoolTypes'
        BY <3>1, PoolGiveBack DEF Control
      <4>3. Acquired' \in SUBSET Writers
        BY DEF Acquired
      <4> QED BY <3>7, <4>2, <4>3, FS_Subset, FS_CardinalityType, PipelineAssumption
    <3>9. avail' \in Int
      BY <3>8 DEF PoolTypes
    <3>10. Capacity - avail = HeldCount + q + Queued
      BY <3>6 DEF PoolInv
    <3>11. /\ q \in Int /\ r \in Int /\ avail \in Int /\ avail' \in Int
           /\ Capacity \in Int /\ HeldCount \in Int /\ Queued \in Int
           /\ HeldCount' = HeldCount /\ Queued' = Queued
      BY <1>2, <1>6, <3>2, <3>6, <3>8, <3>9
    <3>12. avail' + r = avail + 1 + (q - 1)
      BY <3>4, <3>5, <3>6, <3>7
    <3>13. PICK y \in Int : y = avail'
      BY <3>11
    <3>14. y + r = avail + 1 + (q - 1)
      BY <3>12, <3>13
    <3>15. HeldCount' = HeldCount + 0 /\ Queued' = Queued + 0
      BY <3>11
    <3>16. PICK da \in Int, dq \in Int : da = q - r /\ dq = r - q
      BY <3>11
    <3>17. da + 0 + dq + 0 = 0 /\ y = avail + da /\ r = q + dq
      BY ONLY <3>11, <3>14, <3>16, y \in Int, da \in Int, dq \in Int
    <3>18. avail' = avail + da /\ Cardinality(Acquired') = Cardinality(Acquired) + dq
      BY <3>6, <3>7, <3>13, <3>17
    <3> QED BY <3>15, <3>17, <3>18, Balance
  <2> QED BY <2>1, <2>5, <2>7, <2>8, <2>9, <2>10
<1> QED BY <1>7, <1>8, WriteBase

\* A concatenation is as long as its parts.
LEMMA LenConcat ==
    \A S : \A s, t \in Seq(S) : Len(s \o t) = Len(s) + Len(t) /\ Len(s) \in Nat /\ Len(t) \in Nat
  OBVIOUS

\* A tail is one element shorter.
LEMMA LenTail ==
    \A S : \A s \in Seq(S) : s # <<>> => Len(Tail(s)) = Len(s) - 1 /\ Len(s) \in Nat
  OBVIOUS

\* The push at exit moves buffers from the writer to the ready queue.
LEMMA PoolPush ==
    ASSUME Control, BufferTypes, HeldInv, DescTypes, PoolInv, NEW w \in Writers, ExitPush(w)
    PROVE  PoolInv'
<1>1. /\ mo_ready_queue' = mo_ready_queue \o Held(w) /\ pc[w] = "idle" /\ pc' = [pc EXCEPT ![w] = "pushed"]
      /\ mo_fragments' = [mo_fragments EXCEPT ![w] = <<>>] /\ mp_buffer' = [mp_buffer EXCEPT ![w] = <<>>]
      /\ UNCHANGED <<poolVars, lo_ready, lo_bufs, mo_svc_buffers>>
  BY DEF ExitPush, Goto
<1>2. BufferTypes'
  BY PushHeld
<1>3. Held(w)' = <<>> /\ \A u \in Writers : u # w => Held(u)' = Held(u)
  BY <1>1, Emptied
<1>4. PICK k \in Nat : k = Len(Held(w))
  BY HeldType
<1>5. HeldCount' = HeldCount + (-k)
  <2>1. HeldCount' = HeldCount - Len(Held(w)) + Len(Held(w)')
    BY <1>2, <1>3, HeldCountChange
  <2>2. Len(Held(w)') = 0
    BY <1>3, EmptySeq
  <2> QED BY <1>4, <2>1, <2>2, PoolNumbers
<1>6. Len(mo_ready_queue') = Len(mo_ready_queue) + k
  BY <1>1, <1>4, HeldType, LenConcat DEF BufferTypes
<1>7. Queued' = Queued + k
  BY <1>1, <1>6, PoolNumbers DEF Queued
<1>8. Acquired' = Acquired
  <2>1. \A u \in Writers : pc'[u] = IF u = w THEN "pushed" ELSE pc[u]
    BY <1>1 DEF Control, ThreadTypes
  <2> QED BY <1>1, <2>1, AcquiredSame
<1>9. avail' = avail + 0 /\ Cardinality(Acquired') = Cardinality(Acquired) + 0
  BY <1>1, <1>8, PoolNumbers
<1>10. 0 + (-k) + 0 + k = 0 /\ -k \in Int /\ k \in Int
  BY <1>4
<1> QED BY <1>5, <1>7, <1>9, <1>10, Balance

\* pull moves buffers from the writer to the batch.
LEMMA PoolPull ==
    ASSUME Control, BufferTypes, HeldInv, DescTypes, PoolInv, Pull
    PROVE  PoolInv'
<1>1. PICK w : w = Head(to_pull)
  OBVIOUS
<1>2. /\ lo_ready' = lo_ready \o Held(w) /\ pc' = pc
      /\ mo_fragments' = [mo_fragments EXCEPT ![w] = <<>>] /\ mp_buffer' = [mp_buffer EXCEPT ![w] = <<>>]
      /\ UNCHANGED <<poolVars, mo_ready_queue, lo_bufs, mo_svc_buffers>>
  BY <1>1 DEF Pull
<1>3. BufferTypes' /\ w \in Writers
  BY <1>1, PullHeld
<1>4. Held(w)' = <<>> /\ \A u \in Writers : u # w => Held(u)' = Held(u)
  BY <1>2, <1>3, Emptied
<1>5. PICK k \in Nat : k = Len(Held(w))
  BY <1>3, HeldType
<1>6. HeldCount' = HeldCount + (-k)
  <2>1. HeldCount' = HeldCount - Len(Held(w)) + Len(Held(w)')
    BY <1>3, <1>4, HeldCountChange
  <2>2. Len(Held(w)') = 0
    BY <1>4, EmptySeq
  <2> QED BY <1>5, <2>1, <2>2, PoolNumbers
<1>7. Len(lo_ready') = Len(lo_ready) + k
  BY <1>2, <1>3, <1>5, HeldType, LenConcat DEF BufferTypes
<1>8. Queued' = Queued + k
  BY <1>2, <1>7, PoolNumbers DEF Queued
<1>9. Acquired' = Acquired
  BY <1>2, AcquiredSame
<1>10. avail' = avail + 0 /\ Cardinality(Acquired') = Cardinality(Acquired) + 0
  BY <1>2, <1>9, PoolNumbers
<1>11. 0 + (-k) + 0 + k = 0 /\ -k \in Int /\ k \in Int
  BY <1>5
<1> QED BY <1>6, <1>8, <1>10, <1>11, Balance

\* n buffers that were queued go back.
LEMMA PoolBack ==
    ASSUME Control, BufferTypes, DescTypes, PoolInv, NEW n \in Nat, ReleaseBuffers(n), pc' = pc,
           HeldCount' = HeldCount, Queued' = Queued + (-n)
    PROVE  PoolInv'
<1>1. NoOne \notin Writers /\ NoOne \notin Acquired
  BY PipelineAssumption DEF Acquired
<1>2. \A u \in Writers : pc'[u] \in HaveBuffer <=> pc[u] \in HaveBuffer /\ u # NoOne
  BY <1>1
<1>3. avail' + Cardinality(Acquired') = avail + n + Cardinality(Acquired \ {NoOne})
  BY <1>1, <1>2, GivenBack
<1>4. Acquired \ {NoOne} = Acquired
  BY <1>1
<1>5. PICK q \in Int : q = Cardinality(Acquired)
  BY PoolNumbers
<1>6. PoolTypes'
  BY PoolGiveBack DEF Control
<1>7. PICK y \in Int : y = avail'
  BY <1>6 DEF PoolTypes
<1>8. PICK r \in Int : r = Cardinality(Acquired')
  <2>1. Acquired' \in SUBSET Writers /\ IsFiniteSet(Writers)
    BY PipelineAssumption DEF Acquired
  <2> QED BY <2>1, FS_Subset, FS_CardinalityType
<1>9. PICK a \in Int : a = avail
  BY PoolNumbers
<1>10. y + r = a + n + q
  BY <1>3, <1>4, <1>5, <1>7, <1>8, <1>9
<1>11. PICK da \in Int, dq \in Int, dw \in Int : da = y - a /\ dq = r - q /\ dw = -n
  OBVIOUS
<1>12. y = a + da /\ r = q + dq /\ da + 0 + dq + dw = 0 /\ 0 \in Int
  BY ONLY <1>10, <1>11, y \in Int, r \in Int, q \in Int, a \in Int, n \in Nat
<1>13. avail' = avail + da /\ Cardinality(Acquired') = Cardinality(Acquired) + dq /\ Queued' = Queued + dw
  BY <1>5, <1>7, <1>8, <1>9, <1>11, <1>12
<1>14. HeldCount' = HeldCount + 0
  BY PoolNumbers
<1> QED BY <1>12, <1>13, <1>14, Balance

\* The worker's steps keep the balance.
LEMMA PoolWorker ==
    ASSUME Control, BufferTypes, HeldInv, DescTypes, PhaseInv, PoolInv, WorkerStep
    PROVE  PoolInv'
<1>0. /\ mo_ready_queue \in Seq(Buffer) /\ lo_ready \in Seq(Buffer)
      /\ mo_svc_buffers \in Seq(Seq(Descs)) /\ lo_bufs \in Seq(Seq(Descs))
  BY DEF BufferTypes, DescTypes
<1>1. CASE WaitEvent \/ CollectBegin \/ ClearWakePending
  <2>1. /\ pc' = pc
        /\ UNCHANGED <<poolVars, mp_buffer, mo_fragments, mo_ready_queue, lo_ready, lo_bufs, mo_svc_buffers>>
    BY <1>1 DEF WaitEvent, CollectBegin, ClearWakePending
  <2>2. Acquired' = Acquired
    BY <2>1, AcquiredSame
  <2> QED BY <2>1, <2>2, PoolIdle
<1>2. ASSUME pc' = pc, UNCHANGED <<poolVars, mp_buffer, mo_fragments>>, Queued' = Queued PROVE PoolInv'
  <2>1. Acquired' = Acquired
    BY <1>2, AcquiredSame
  <2>2. HeldCount' = HeldCount
    <3>1. \A u \in Writers : Held(u)' = Held(u)
      BY <1>2 DEF Held
    <3> QED BY <3>1, HeldCountSame
  <2> QED BY <1>2, <2>1, <2>2 DEF PoolInv
<1>3. CASE CollectReady
  <2>1. /\ lo_ready' = lo_ready \o mo_ready_queue /\ mo_ready_queue' = <<>> /\ pc' = pc
        /\ UNCHANGED <<poolVars, mp_buffer, mo_fragments, lo_bufs, mo_svc_buffers>>
    BY <1>3 DEF CollectReady
  <2>2. Len(lo_ready') = Len(lo_ready) + Len(mo_ready_queue) /\ Len(mo_ready_queue') = 0
    BY <1>0, <2>1, LenConcat, EmptySeq
  <2>3. Queued' = Queued
    BY <2>1, <2>2, PoolNumbers DEF Queued
  <2> QED BY <1>2, <2>1, <2>3
<1>4. CASE WriteService
  <2>1. /\ lo_bufs' = mo_svc_buffers /\ mo_svc_buffers' = <<>> /\ pc' = pc /\ wpc = "service"
        /\ UNCHANGED <<poolVars, mp_buffer, mo_fragments, mo_ready_queue, lo_ready>>
    BY <1>4 DEF WriteService
  <2>2. lo_bufs = <<>>
    BY <2>1 DEF PhaseInv
  <2>3. Len(lo_bufs) = 0 /\ Len(mo_svc_buffers') = 0
    BY <2>1, <2>2, EmptySeq
  <2>4. Queued' = Queued
    BY <2>1, <2>3, PoolNumbers DEF Queued
  <2> QED BY <1>2, <2>1, <2>4
<1>5. CASE Pull
  BY <1>5, PoolPull
<1>6. CASE RecycleService
  <2>1. /\ lo_bufs # <<>> /\ lo_bufs' = Tail(lo_bufs) /\ ReleaseBuffers(1) /\ pc' = pc
        /\ UNCHANGED <<mp_buffer, mo_fragments, mo_ready_queue, lo_ready, mo_svc_buffers>>
    BY <1>6 DEF RecycleService
  <2>2. Len(lo_bufs') = Len(lo_bufs) - 1
    <3>1. PICK A : A = Seq(Descs)
      OBVIOUS
    <3>2. lo_bufs \in Seq(A)
      BY <1>0, <3>1
    <3> QED BY <2>1, <3>2, LenTail
  <2>3. Queued' = Queued + (-1)
    BY <2>1, <2>2, PoolNumbers DEF Queued
  <2>4. HeldCount' = HeldCount
    <3>1. \A u \in Writers : Held(u)' = Held(u)
      BY <2>1 DEF Held
    <3> QED BY <3>1, HeldCountSame
  <2> QED BY <2>1, <2>3, <2>4, PoolBack
<1>7. CASE flush_ready
  <2>1. /\ lo_ready' = <<>> /\ ReleaseBuffers(Len(lo_ready)) /\ pc' = pc
        /\ UNCHANGED <<mp_buffer, mo_fragments, mo_ready_queue, lo_bufs, mo_svc_buffers>>
    BY <1>7 DEF flush_ready
  <2>2. PICK k \in Nat : k = Len(lo_ready)
    BY <1>0
  <2>3. Len(lo_ready') = 0
    BY <2>1, EmptySeq
  <2>4. Queued' = Queued + (-k)
    BY <2>1, <2>2, <2>3, PoolNumbers DEF Queued
  <2>5. HeldCount' = HeldCount
    <3>1. \A u \in Writers : Held(u)' = Held(u)
      BY <2>1 DEF Held
    <3> QED BY <3>1, HeldCountSame
  <2> QED BY <2>1, <2>2, <2>4, <2>5, PoolBack
<1> QED BY <1>1, <1>3, <1>4, <1>5, <1>6, <1>7 DEF WorkerStep

\* Every step keeps the balance of buffers.
LEMMA PoolStep ==
    ASSUME Control, BufferTypes, HeldInv, DescTypes, MutexInv, PhaseInv, PoolInv, [Next]_vars
    PROVE  PoolInv'
<1>1. ASSUME NEW w \in Writers, WriterStep(w) PROVE PoolInv'
  <2>1. CASE \E m \in MtkIds : register_mtk(w, m)
    BY <2>1, PoolRegister
  <2>2. CASE \/ Create(w) \/ ResolveFail(w) \/ ExitStep(w)
             \/ \E d \in Descs, s \in LogSizes \cup {MtkSize} : Send(w, d, s)
    BY <2>2, PoolCoreSteps
  <2>3. CASE ResolveBegin(w) \/ ResolveEnd(w)
    BY <2>3, PoolResolve
  <2>4. CASE AcquireTry(w) \/ AcquireWait(w)
    BY <2>4, PoolAcquire
  <2>5. CASE LockWriter(w) \/ InstallBuffer(w)
    BY <2>5, PoolWrite
  <2>6. CASE ExitPush(w)
    BY <2>6, PoolPush
  <2> QED BY <1>1, <2>1, <2>2, <2>3, <2>4, <2>5, <2>6 DEF WriterStep, CallStep
<1>2. CASE UNCHANGED vars
  <2>1. /\ pc' = pc
        /\ UNCHANGED <<poolVars, mp_buffer, mo_fragments, mo_ready_queue, lo_ready, lo_bufs, mo_svc_buffers>>
    BY <1>2 DEF vars
  <2>2. Acquired' = Acquired
    BY <2>1, AcquiredSame
  <2> QED BY <2>1, <2>2, PoolIdle
<1> QED BY <1>1, <1>2, PoolOwner, PoolWorker DEF Next, Stopped

\* Every buffer is in the pool at first.
LEMMA PoolInit == Init => PoolInv
<1> SUFFICES ASSUME Init PROVE PoolInv
  OBVIOUS
<1>1. /\ avail = Capacity /\ client = [w \in Writers |-> "idle"] /\ pc = [w \in Writers |-> "unborn"]
      /\ mp_buffer = [w \in Writers |-> <<>>] /\ mo_fragments = [w \in Writers |-> <<>>]
      /\ mo_ready_queue = <<>> /\ lo_ready = <<>> /\ mo_svc_buffers = <<>> /\ lo_bufs = <<>>
  BY DEF Init, Pool!Init
<1>2. Acquired = {} /\ Cardinality(Acquired) = 0
  BY <1>1, FS_EmptySet DEF Acquired
<1>3. \A u \in Writers : Len(Held(u)) = 0
  <2>1. <<>> \o <<>> = <<>> /\ Len(<<>>) = 0
    OBVIOUS
  <2> QED BY <1>1, <2>1 DEF Held
<1>4. PICK f : f = [w \in Writers |-> Len(Held(w))]
  OBVIOUS
<1>5. SumFunctionOnSet(f, Writers) = 0
  BY <1>3, <1>4, SumZero, PipelineAssumption
<1>6. HeldCount = 0
  BY <1>4, <1>5 DEF HeldCount
<1>7. Queued = 0
  BY <1>1, EmptySeq DEF Queued
<1>8. Capacity \in Int
  BY PipelineAssumption
<1>9. Capacity - avail = 0
  BY <1>1, <1>8
<1> QED BY <1>2, <1>6, <1>7, <1>9 DEF PoolInv
-------------------------------------------------------------------------------
(*****************************************************************************)
(* The inductive invariant, and the theorems.                                *)
(*****************************************************************************)

\* The inductive invariant. Control is inductive alone but for the type of the batch; the streams
\* need to know who holds buffers; the records need the descriptors; the balance needs nearly all.
IInv ==
    /\ Control /\ BufferTypes /\ HeldInv /\ StreamInv
    /\ PhaseInv /\ BatchInv /\ WakeTypes /\ DropInv
    /\ DescTypes /\ MutexInv /\ AnnounceInv /\ RecordInv
    /\ StopInv /\ PoolInv

\* The invariant holds when the core has been created.
LEMMA IInvInit == Init => IInv
  BY ControlInit, BuffersInit, StreamInit, PhaseInit, BatchInit, WakeInit, DropInit, DescInit,
     RecordInit, StopInit, PoolInit DEF IInv

\* Every step keeps the invariant, each part with the parts its lemma names.
LEMMA IInvStep == IInv /\ [Next]_vars => IInv'
<1> SUFFICES ASSUME IInv, [Next]_vars PROVE IInv'
  OBVIOUS
<1>1. /\ Control /\ BufferTypes /\ HeldInv /\ StreamInv
      /\ PhaseInv /\ BatchInv /\ WakeTypes /\ DropInv
      /\ DescTypes /\ MutexInv /\ AnnounceInv /\ RecordInv
      /\ StopInv /\ PoolInv
  BY DEF IInv
<1>2. Control'
  BY <1>1, ControlStep DEF BufferTypes
<1>3. BufferTypes' /\ HeldInv' /\ StreamInv'
  BY <1>1, BuffersStep, StreamStep
<1>4. PhaseInv' /\ BatchInv' /\ WakeTypes' /\ DropInv'
  BY <1>1, PhaseStep, BatchStep, WakeStep, DropStep
<1>5. DescTypes' /\ MutexInv' /\ AnnounceInv' /\ RecordInv'
  BY <1>1, DescTypesStep, MutexStep, AnnounceStep, RecordStep
<1>6. StopInv' /\ PoolInv'
  BY <1>1, StopStep, PoolStep
<1> QED BY <1>2, <1>3, <1>4, <1>5, <1>6 DEF IInv

\* The typing parts together are the type invariant; the references are bounded because no more
\* threads are alive than there are writers.
LEMMA IInvTypes == IInv => TypeOK
<1> SUFFICES ASSUME IInv PROVE TypeOK
  OBVIOUS
<1>1. PoolTypes /\ ThreadTypes /\ CoreTypes /\ RefInv
  BY DEF IInv, Control
<1>2. BufferTypes /\ DescTypes /\ WakeTypes /\ BatchInv /\ DropInv
  BY DEF IInv
<1>3. mu_ref_count \in 0 .. Cardinality(Writers) + 1
  <2>1. IsFiniteSet(Writers) /\ Cardinality(Writers) \in Nat
    BY PipelineAssumption, FS_CardinalityType
  <2>2. PICK a \in Nat : a = Cardinality(Alive)
    BY AliveFinite
  <2>3. PICK n \in Nat : n = Cardinality(Writers)
    BY <2>1
  <2>4. a <= n
    BY <2>2, <2>3, AliveFinite
  <2>5. mu_ref_count = a + (IF owner_ref THEN 1 ELSE 0)
    BY <1>1, <2>2 DEF RefInv
  <2>6. mu_ref_count \in 0 .. n + 1
    BY <2>4, <2>5
  <2> QED BY <2>3, <2>6
<1>4. /\ {closed, owner_ref, mb_wake_pending, ev_wake, ev_stop, lb_stop} \subseteq BOOLEAN
      /\ {mu_buf_seq, mu_dropped, accepted, discarded} \subseteq [Writers -> Nat]
  BY <1>1, <1>2 DEF PoolTypes, CoreTypes, WakeTypes, BufferTypes, DropInv
<1>5. due \subseteq Writers \X Nat /\ mu_dropped_total \in Nat
  BY <1>2 DEF BatchInv, DropInv
<1>6. /\ avail \in 0 .. Capacity /\ queue \in Seq(Writers)
      /\ client \in [Writers -> {"idle", "asking", "waiting", "granted", "refused"}]
      /\ pc \in [Writers -> Places] /\ cur \in [Writers -> Seq([d : Descs, size : Nat])]
      /\ mo_mtk_descs \subseteq MtkIds
      /\ mp_writers \in Seq(Writers) /\ to_pull \in Seq(Writers)
      /\ wpc \in {"wait", "collect", "drain", "service", "recycle", "flush", "stopped"}
  BY <1>1 DEF PoolTypes, ThreadTypes, CoreTypes
<1> QED BY <1>2, <1>3, <1>4, <1>5, <1>6 DEF TypeOK, BufferTypes, DescTypes

\* The stream part of the invariant says it in other words.
LEMMA IInvStreams == IInv => StreamContiguous /\ RecordsWhole
<1> SUFFICES ASSUME IInv PROVE StreamContiguous /\ RecordsWhole
  OBVIOUS
<1>1. StreamContiguous
  BY DEF IInv, StreamInv, StreamContiguous, Numbered
<1>2. RecordsWhole
  BY DEF IInv, StreamInv, WholeInv, RecordsWhole, Whole, Pushed
<1> QED BY <1>1, <1>2

\* When the worker has stopped, nobody has a reference: no writer holds a buffer, the queues are
\* empty, so each stream is what the sink has and the balance of buffers puts them all in the
\* pool.
LEMMA IInvDelivered == IInv => AllDelivered
<1> SUFFICES ASSUME IInv, wpc = "stopped"
             PROVE  /\ \A w \in Writers : Len(RecordsOf(sink_data[w])) = accepted[w]
                    /\ mo_log_descs \subseteq Range(sink_svc)
                    /\ avail = Capacity
  BY DEF AllDelivered
<1>1. /\ Control /\ BufferTypes /\ HeldInv /\ StreamInv /\ PhaseInv
      /\ DescTypes /\ AnnounceInv /\ StopInv /\ PoolInv
  BY DEF IInv
<1>2. lb_stop /\ lo_ready = <<>> /\ lo_bufs = <<>>
  BY <1>1 DEF PhaseInv
<1>3. mo_ready_queue = <<>> /\ mo_svc_buffers = <<>>
  BY <1>1, <1>2 DEF StopInv
<1>4. \A w \in Writers : pc[w] \in {"unborn", "gone"} /\ client[w] = "idle"
  BY <1>1, <1>2, AllGone
<1>5. \A w \in Writers : Held(w) = <<>>
  BY <1>1, <1>4 DEF HeldInv, Exited
<1>6. \A w \in Writers : Stream(w) = sink_data[w]
  <2> SUFFICES ASSUME NEW w \in Writers PROVE Stream(w) = sink_data[w]
    OBVIOUS
  <2>1. OfWriter(<<>>, w) = <<>>
    BY OfWriterEmpty
  <2>2. sink_data[w] \in Seq(Buffer)
    BY <1>1 DEF BufferTypes
  <2>3. Stream(w) = sink_data[w] \o <<>> \o <<>> \o <<>>
    BY <1>2, <1>3, <1>5, <2>1 DEF Stream
  <2> QED BY <2>2, <2>3, EmptyRight
<1>7. Pending = <<>>
  BY <1>3, FlatEmpty DEF Pending
<1>8. sink_svc \o Pending = sink_svc
  BY <1>1, <1>7, EmptyRight DEF DescTypes
<1>9. mo_log_descs \subseteq Range(sink_svc)
  BY <1>1, <1>8 DEF AnnounceInv, DescOnce
<1>10. \A w \in Writers : Len(RecordsOf(sink_data[w])) = accepted[w]
  BY <1>1, <1>6 DEF StreamInv, AcceptInv
<1>11. HeldCount = 0
  <2>1. \A w \in Writers : [u \in Writers |-> Len(Held(u))][w] = 0
    BY <1>5, EmptySeq
  <2> QED BY <2>1, SumZero, PipelineAssumption DEF HeldCount
<1>12. Acquired = {}
  BY <1>4 DEF Acquired
<1>13. Cardinality(Acquired) = 0
  BY <1>12, FS_EmptySet
<1>14. Queued = 0
  BY <1>2, <1>3, EmptySeq DEF Queued
<1>15. avail = Capacity
  <2>1. Capacity - avail = 0 + 0 + 0
    BY <1>1, <1>11, <1>13, <1>14 DEF PoolInv
  <2>2. Capacity \in Int /\ avail \in Int
    BY <1>1, PoolNumbers
  <2> QED BY ONLY <2>1, <2>2
<1> QED BY <1>9, <1>10, <1>15

\* The invariant of the path of a record holds in every reachable state, for any number of
\* threads, call sites, metrics and buffers.
THEOREM InvariantHolds == Spec => []IInv
  BY IInvInit, IInvStep, PTL DEF Spec

\* Every variable has its type: the counters of cp8_tls_writer never go below zero when a record
\* is rolled back, and cp8_core's reference count is never larger than the threads and the owner
\* account for.
THEOREM TypeCorrect == Spec => []TypeOK
  BY InvariantHolds, IInvTypes, PTL

\* No buffer of cp8_tls_writer is lost, duplicated or overtaken on its way through pull, the push
\* at exit and flush_ready: the numbers of a writer's buffers are 0, 1, 2, ...
THEOREM StreamContiguousCorrect == Spec => []StreamContiguous
  BY InvariantHolds, IInvStreams, PTL

\* No record of cp8_log::send is cut by a batch boundary, by the push at exit or by a rollback:
\* behind a fragment comes another buffer of the same writer.
THEOREM RecordsWholeCorrect == Spec => []RecordsWhole
  BY InvariantHolds, IInvStreams, PTL

\* collect_batch finds every buffer that existed when it read the batch timestamp, also those of
\* writers that exit while it goes through the registry.
THEOREM BatchFloorCorrect == Spec => []BatchFloor
<1>1. IInv => BatchFloor
  BY DEF IInv, BatchInv, BatchFloor
<1> QED BY <1>1, InvariantHolds, PTL

\* Every record the API refused is counted once, although poll_dropped_stats of the worker resets
\* the counters of threads that drop and exit.
THEOREM DropsExactCorrect == Spec => []DropsExact
<1>1. IInv => DropsExact
  BY DEF IInv, DropInv
<1> QED BY <1>1, InvariantHolds, PTL

\* resolve_log_desc and cp8_mtk::create announce a descriptor once, and the missing ones are
\* metrics that are too large or counted in mu_dropped_svc.
THEOREM DescOnceCorrect == Spec => []DescOnce
<1>1. IInv => DescOnce
  BY DEF IInv, AnnounceInv
<1> QED BY <1>1, InvariantHolds, PTL

\* write_batch sends no record before its descriptor, whichever thread made the descriptor known.
THEOREM DescFirstCorrect == Spec => []DescFirst
<1>1. IInv => DescFirst
  BY SentRecords DEF IInv
<1> QED BY <1>1, InvariantHolds, PTL

\* Two threads that meet a new call site together, with the service buffer full, announce it once
\* and send no record before.
THEOREM SharedSiteCorrect == Spec => []SharedSite
<1>1. IInv => SharedSite
  BY SharedSites DEF IInv
<1> QED BY <1>1, InvariantHolds, PTL

\* Every buffer missing from the pool is in exactly one place, on every path of acquire_buffer,
\* release_buffer and release_buffers.
THEOREM PoolExactCorrect == Spec => []PoolExact
<1>1. IInv => PoolExact
  BY PoolInvIs DEF IInv
<1> QED BY <1>1, InvariantHolds, PTL

\* When worker_main has returned, every accepted record and every log descriptor is at the sink
\* and every buffer is back in the pool.
THEOREM AllDeliveredCorrect == Spec => []AllDelivered
  BY InvariantHolds, IInvDelivered, PTL
===============================================================================
