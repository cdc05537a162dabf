--------------------------- MODULE BufferPool_proofs ---------------------------
(***************************************************************************)
(* Proofs about BufferPool, for every set of threads, every buffer size    *)
(* and cap, and with or without allocation failures.                       *)
(***************************************************************************)
EXTENDS BufferPool, TLAPS, SequenceTheorems, FiniteSetTheorems

\* Removing the head of a list without repetitions removes exactly that element:
\* the free list's pull_first, the waiter queue's dequeue and the batch loop.
LEMMA TailInjective ==
    ASSUME NEW S, NEW s \in Seq(S), s # <<>>, IsInjective(s)
    PROVE  /\ Head(s) \in S /\ Head(s) \in Range(s)
           /\ Tail(s) \in Seq(S)
           /\ Len(Tail(s)) = Len(s) - 1
           /\ IsInjective(Tail(s))
           /\ Range(Tail(s)) = Range(s) \ {Head(s)}
<1>1. /\ Head(s) \in S /\ Tail(s) \in Seq(S)
      /\ Len(Tail(s)) = Len(s) - 1
      /\ \A i \in 1 .. Len(Tail(s)) : Tail(s)[i] = s[i + 1]
  BY HeadTailProperties
<1>2. Len(s) \in Nat \ {0} /\ DOMAIN s = 1 .. Len(s) /\ DOMAIN Tail(s) = 1 .. Len(s) - 1
  BY <1>1, EmptySeq, LenProperties
<1>3. Head(s) = s[1]
  BY <1>2
<1>4. Head(s) \in Range(s)
  BY <1>2, <1>3 DEF Range
<1>5. IsInjective(Tail(s))
  BY <1>1, <1>2 DEF IsInjective
<1>6. Range(Tail(s)) \subseteq Range(s) \ {Head(s)}
  BY <1>1, <1>2, <1>3 DEF Range, IsInjective
<1>7. Range(s) \ {Head(s)} \subseteq Range(Tail(s))
  <2>1. SUFFICES ASSUME NEW i \in 1 .. Len(s), s[i] # s[1]
                 PROVE  s[i] \in Range(Tail(s))
    BY <1>2, <1>3 DEF Range
  <2>2. i - 1 \in 1 .. Len(s) - 1 /\ s[i] = Tail(s)[i - 1]
    BY <2>1, <1>1, <1>2
  <2> QED
    BY <2>2, <1>2 DEF Range
<1> QED
  BY <1>1, <1>4, <1>5, <1>6, <1>7

\* Appending an element that is not in the list keeps it free of repetitions: the
\* free list's push_last and the waiter queue's enqueue.
LEMMA AppendInjectiveNew ==
    ASSUME NEW S, NEW s \in Seq(S), NEW e \in S, e \notin Range(s), IsInjective(s)
    PROVE  /\ Append(s, e) \in Seq(S)
           /\ Len(Append(s, e)) = Len(s) + 1
           /\ IsInjective(Append(s, e))
           /\ Range(Append(s, e)) = Range(s) \cup {e}
<1>1. /\ Append(s, e) \in Seq(S)
      /\ Len(Append(s, e)) = Len(s) + 1
      /\ \A i \in 1 .. Len(s) : Append(s, e)[i] = s[i]
      /\ Append(s, e)[Len(s) + 1] = e
  BY AppendProperties
<1>2. Len(s) \in Nat /\ DOMAIN s = 1 .. Len(s) /\ DOMAIN Append(s, e) = 1 .. Len(s) + 1
  BY <1>1, LenProperties
<1>3. \A i \in 1 .. Len(s) : s[i] # e
  BY <1>2 DEF Range
<1>4. IsInjective(Append(s, e))
  BY <1>1, <1>2, <1>3 DEF IsInjective
<1>5. Range(Append(s, e)) = Range(s) \cup {e}
  BY <1>1, <1>2 DEF Range
<1> QED
  BY <1>1, <1>4, <1>5
-------------------------------------------------------------------------------
\* acquire_no_lock hands out a buffer nobody owns, keeps the free list consistent
\* and reserves exactly what it allocates.
LEMMA AcquireNoLockFacts ==
    ASSUME IInv, life # "destroyed", NEW b \in Buffers, acquire_no_lock(b)
    PROVE  /\ b \notin out \cup Handed \cup Range(batch)
           /\ mo_free' \in Seq(Buffers) /\ IsInjective(mo_free')
           /\ Range(mo_free') = Range(mo_free) \ {b}
           /\ mo_all' = mo_all \cup {b}
           /\ IsFiniteSet(mo_all')
           /\ mu_used' \in Nat /\ mu_used' <= MaxMemory
           /\ mu_used' = Cardinality(mo_all') * BufferSize
           /\ Range(mo_free') \cap (Range(batch) \cup Handed \cup out \cup {b}) = {}
<1> USE PoolAssumption DEF IInv
<1>1. mo_free \in Seq(Buffers) /\ mu_used \in Nat
  BY DEF TypeOK
<1>2. CASE mo_free # <<>> /\ b = Head(mo_free) /\ mo_free' = Tail(mo_free)
           /\ mo_all' = mo_all /\ mu_used' = mu_used
  <2>1. /\ Head(mo_free) \in Range(mo_free)
        /\ Tail(mo_free) \in Seq(Buffers)
        /\ IsInjective(Tail(mo_free))
        /\ Range(Tail(mo_free)) = Range(mo_free) \ {Head(mo_free)}
    BY <1>1, <1>2, TailInjective DEF OneOwner
  <2>2. b \in Range(mo_free) /\ b \in mo_all
    BY <1>2, <2>1 DEF OneOwner
  <2> QED
    BY <1>1, <1>2, <2>1, <2>2 DEF OneOwner, BudgetExact
<1>3. CASE mo_free = <<>> /\ CanReserve /\ b \notin mo_all /\ mo_all' = mo_all \cup {b}
           /\ mu_used' = mu_used + BufferSize /\ mo_free' = mo_free
  <2>1. Range(mo_free) = {}
    BY <1>3 DEF Range
  <2>2. b \notin out \cup Handed \cup Range(batch)
    BY <1>3 DEF OneOwner
  <2>3. IsFiniteSet(mo_all') /\ Cardinality(mo_all') = Cardinality(mo_all) + 1
        /\ Cardinality(mo_all) \in Nat
    BY <1>3, FS_AddElement, FS_CardinalityType
  <2>4. mu_used' = Cardinality(mo_all') * BufferSize
    <3>1. mu_used = Cardinality(mo_all) * BufferSize
      BY DEF BudgetExact
    <3> QED
      BY <1>3, <2>3, <3>1
  <2>5. mu_used' \in Nat /\ mu_used' <= MaxMemory
    BY <1>1, <1>3 DEF CanReserve
  <2> QED
    BY <1>1, <1>3, <2>1, <2>2, <2>3, <2>4, <2>5 DEF OneOwner
<1> QED
  BY <1>2, <1>3 DEF acquire_no_lock

\* A thread that takes a buffer, in acquire_buffer or on the fast path of
\* acquire_wait, becomes its one owner.
LEMMA TakeKeepsIInv ==
    ASSUME IInv, life # "destroyed", NEW t \in Threads, pc[t] \in {"idle", "gap"},
           NEW b \in Buffers, acquire_no_lock(b), out' = out \cup {b},
           pc' = [pc EXCEPT ![t] = "idle"],
           UNCHANGED <<waitVars, mb_stopping, mu_inflight, mo_mutex, life, mp_buf, mb_done, batch>>
    PROVE  IInv'
<1> USE DEF waitVars
<1>1. /\ b \notin out \cup Handed \cup Range(batch)
      /\ mo_free' \in Seq(Buffers) /\ IsInjective(mo_free')
      /\ Range(mo_free') = Range(mo_free) \ {b}
      /\ mo_all' = mo_all \cup {b}
      /\ IsFiniteSet(mo_all')
      /\ mu_used' \in Nat /\ mu_used' <= MaxMemory
      /\ mu_used' = Cardinality(mo_all') * BufferSize
      /\ Range(mo_free') \cap (Range(batch) \cup Handed \cup out \cup {b}) = {}
  BY AcquireNoLockFacts
<1>2. Handed' = Handed
  BY DEF Handed
<1>3. Inside' = Inside
  BY DEF Inside, InWait, IInv, TypeOK
<1>4. TypeOK'
  BY <1>1 DEF IInv, TypeOK, Places
<1>5. OneOwner'
  BY <1>1, <1>2 DEF IInv, OneOwner
<1>6. BudgetExact'
  BY <1>1 DEF BudgetExact
<1>7. QueueExact'
  BY <1>3 DEF IInv, TypeOK, QueueExact
<1>8. NoLostWakeup' /\ NoUseAfterDestroy'
  BY <1>3 DEF IInv, TypeOK, NoLostWakeup, NoUseAfterDestroy
<1>9. NodeInv' /\ MutexInv'
  BY DEF IInv, TypeOK, NodeInv, MutexInv
<1>10. StopInv'
  BY DEF IInv, TypeOK, StopInv
<1> QED
  BY <1>1, <1>4, <1>5, <1>6, <1>7, <1>8, <1>9, <1>10 DEF IInv

\* The step both recycle overloads take for each buffer passes the buffer from its
\* caller (or the batch) to the oldest waiter or to the free list.
LEMMA RecycleOneKeepsIInv ==
    ASSUME IInv, life = "up", NEW b \in Buffers, RecycleOne(b),
           b \in Range(batch) \cup out,
           Range(batch') \cup out' = (Range(batch) \cup out) \ {b},
           Range(batch') \cap out' = {},
           batch' \in Seq(Buffers), IsInjective(batch'), out' \subseteq Buffers,
           mo_mutex' \in Threads \cup {Worker, NoThread},
           mo_mutex' = Worker <=> batch' # <<>>,
           \A t \in Threads : mo_mutex' = t <=> mo_mutex = t,
           UNCHANGED <<mo_all, mu_used, mu_cv_next, mp_cv, mb_stopping, mu_inflight, life>>
    PROVE  IInv'
<1> USE PoolAssumption
<1>1. /\ mo_free \in Seq(Buffers) /\ IsInjective(mo_free)
      /\ waiters \in Seq(Threads) /\ IsInjective(waiters)
      /\ b \notin Range(mo_free) /\ b \notin Handed /\ b # NoBuf
      /\ mu_wait_count = Len(waiters) /\ Len(waiters) \in Nat
  BY LenProperties DEF IInv, TypeOK, OneOwner, QueueExact
<1>2. CASE mu_wait_count = 0 /\ mo_free' = Append(mo_free, b)
           /\ UNCHANGED <<waiters, mu_wait_count, mp_buf, mb_done, pc>>
  <2>1. /\ mo_free' \in Seq(Buffers) /\ IsInjective(mo_free')
        /\ Range(mo_free') = Range(mo_free) \cup {b}
    BY <1>1, <1>2, AppendInjectiveNew
  <2>2. Handed' = Handed /\ Inside' = Inside
    BY <1>2 DEF Handed, Inside
  <2>3. TypeOK'
    BY <1>2, <2>1 DEF IInv, TypeOK
  <2>4. OneOwner'
    BY <1>1, <1>2, <2>1, <2>2 DEF IInv, OneOwner
  <2>5. QueueExact' /\ NoLostWakeup' /\ NodeInv' /\ MutexInv' /\ BudgetExact'
    BY <1>2, <2>2 DEF IInv, QueueExact, NoLostWakeup, NodeInv, MutexInv, BudgetExact
  <2>6. NoUseAfterDestroy' /\ StopInv'
    BY <1>2 DEF IInv, StopInv, NoUseAfterDestroy
  <2> QED
    BY <2>3, <2>4, <2>5, <2>6 DEF IInv
<1>3. CASE /\ mu_wait_count # 0
           /\ waiters' = Tail(waiters)
           /\ mu_wait_count' = mu_wait_count - 1
           /\ mp_buf' = [mp_buf EXCEPT ![Head(waiters)] = b]
           /\ mb_done' = [mb_done EXCEPT ![Head(waiters)] = TRUE]
           /\ NotifyAll(mp_cv[Head(waiters)])
           /\ mo_free' = mo_free
  <2> DEFINE h == Head(waiters)
  <2>1. waiters # <<>>
    BY <1>1, <1>3
  <2>2. /\ h \in Threads /\ h \in Range(waiters)
        /\ waiters' \in Seq(Threads) /\ IsInjective(waiters')
        /\ Len(waiters') = Len(waiters) - 1
        /\ Range(waiters') = Range(waiters) \ {h}
    BY <1>1, <1>3, <2>1, TailInjective
  <2>3. ~mb_done[h] /\ pc[h] \in {"asleep", "notified"} /\ mp_buf[h] = NoBuf
    BY <2>2 DEF IInv, QueueExact, NodeInv
  <2>4. Handed' = Handed \cup {b}
    <3>1. \A t \in Threads : mp_buf'[t] = IF t = h THEN b ELSE mp_buf[t]
      BY <1>3, <2>2 DEF IInv, TypeOK
    <3> QED
      BY <1>1, <2>2, <2>3, <3>1 DEF Handed
  <2>5. /\ pc' \in [Threads -> Places]
        /\ pc'[h] = "notified"
        /\ \A t \in Threads : pc'[t] = pc[t] \/ (pc[t] = "asleep" /\ pc'[t] = "notified")
    BY <1>3, <2>2, <2>3 DEF NotifyAll, IInv, TypeOK, Places, InWait
  <2>6. Inside' = Inside
    BY <2>5 DEF Inside, InWait
  <2>7. TypeOK'
    <3>1. mp_buf' \in [Threads -> Buffers \cup {NoBuf}]
      BY <1>3 DEF IInv, TypeOK
    <3>2. mb_done' \in [Threads -> BOOLEAN]
      BY <1>3, Zenon DEF IInv, TypeOK
    <3>3. mu_wait_count' \in Nat
      BY <1>1, <1>3
    <3> QED
      BY <1>3, <2>2, <2>5, <3>1, <3>2, <3>3 DEF IInv, TypeOK
  <2>8. OneOwner'
    <3>1. mp_buf' \in [Threads -> Buffers \cup {NoBuf}]
          /\ \A t \in Threads : mp_buf'[t] = IF t = h THEN b ELSE mp_buf[t]
      BY <1>3, <2>2 DEF IInv, TypeOK
    <3>2. \A t \in Threads : mp_buf[t] # b
      BY <1>1 DEF Handed
    <3>3. \A t, u \in Threads : t # u /\ mp_buf'[t] # NoBuf => mp_buf'[t] # mp_buf'[u]
      BY <1>1, <3>1, <3>2 DEF IInv, OneOwner
    <3> QED
      BY <1>1, <1>3, <2>4, <3>3 DEF IInv, OneOwner
  <2>9. QueueExact'
    <3>1. \A t \in Threads : mb_done'[t] = (t = h \/ mb_done[t])
      BY <1>3, <2>2 DEF IInv, TypeOK
    <3>2. \A t \in Threads :
             (t \in Range(waiters)') <=> (pc'[t] \in {"asleep", "notified"} /\ ~mb_done'[t])
      BY <2>2, <2>5, <3>1 DEF IInv, QueueExact
    <3>3. mu_wait_count' = Len(waiters')
      BY <1>1, <1>3, <2>2
    <3> QED
      BY <2>2, <2>6, <3>2, <3>3 DEF IInv, QueueExact
  <2>10. NoLostWakeup' /\ NodeInv'
    <3>1. \A t \in Threads : /\ mb_done'[t] = (t = h \/ mb_done[t])
                             /\ mp_buf'[t] = IF t = h THEN b ELSE mp_buf[t]
      BY <1>3, <2>2 DEF IInv, TypeOK
    <3> QED
      BY <2>3, <2>5, <3>1 DEF IInv, NoLostWakeup, NodeInv
  <2>11. MutexInv'
    BY <2>5 DEF IInv, MutexInv
  <2>12. NoUseAfterDestroy' /\ StopInv' /\ BudgetExact'
    BY <2>1 DEF IInv, StopInv, NoUseAfterDestroy, BudgetExact
  <2> QED
    BY <2>7, <2>8, <2>9, <2>10, <2>11, <2>12 DEF IInv
<1> QED
  BY <1>2, <1>3 DEF RecycleOne

\* Parking: a thread that no queue, node or buffer knows joins the tail of the queue
\* and is counted in mu_inflight.
LEMMA ParkKeepsIInv ==
    ASSUME IInv, NEW t \in Threads, pc[t] = "gap", ~mb_stopping, Park(t),
           UNCHANGED <<poolVars, mb_stopping, mo_mutex, life, batch, out>>
    PROVE  IInv'
<1> USE PoolAssumption DEF poolVars, Park
<1>1. /\ pc' \in [Threads -> Places]
      /\ \A u \in Threads : pc'[u] = IF u = t THEN "asleep" ELSE pc[u]
  BY DEF IInv, TypeOK, Places, InWait
<1>2. /\ mb_done' \in [Threads -> BOOLEAN]
      /\ \A u \in Threads : mb_done'[u] = mb_done[u]
      /\ ~mb_done'[t]
  BY DEF IInv, TypeOK, NodeInv
<1>3. mp_buf' = mp_buf
  BY DEF IInv, TypeOK, NodeInv
<1>4. t \notin Range(waiters)
  BY DEF IInv, QueueExact
<1>5. /\ waiters' \in Seq(Threads) /\ IsInjective(waiters')
      /\ Len(waiters') = Len(waiters) + 1
      /\ Range(waiters') = Range(waiters) \cup {t}
  BY <1>4, AppendInjectiveNew DEF IInv, TypeOK, QueueExact
<1>6. Inside' = Inside \cup {t} /\ t \notin Inside
  BY <1>1 DEF Inside, InWait
<1>7. Cardinality(Inside') = Cardinality(Inside) + 1
  <2>1. IsFiniteSet(Inside)
    BY FS_Subset DEF Inside
  <2> QED
    BY <1>6, <2>1, FS_AddElement
<1>8. Handed' = Handed
  BY <1>3 DEF Handed
<1>9. TypeOK'
  <2>1. mu_cv_next' \in 0 .. CvCount - 1
    BY DEF IInv, TypeOK
  <2>2. mp_cv' \in [Threads -> 0 .. CvCount - 1]
    BY DEF IInv, TypeOK
  <2> QED
    BY <1>1, <1>2, <1>3, <1>5, <2>1, <2>2 DEF IInv, TypeOK
<1>10. OneOwner' /\ BudgetExact'
  BY <1>3, <1>8 DEF IInv, OneOwner, BudgetExact
<1>11. QueueExact'
  <2>1. mu_wait_count' = Len(waiters')
    BY <1>5 DEF IInv, QueueExact
  <2>2. \A u \in Threads :
           (u \in Range(waiters)') <=> (pc'[u] \in {"asleep", "notified"} /\ ~mb_done'[u])
    BY <1>1, <1>2, <1>5 DEF IInv, QueueExact
  <2>3. mu_inflight' = Cardinality(Inside')
    BY <1>7 DEF IInv, QueueExact
  <2> QED
    BY <1>5, <2>1, <2>2, <2>3 DEF QueueExact
<1>12. NoLostWakeup' /\ NodeInv' /\ MutexInv'
  BY <1>1, <1>2, <1>3 DEF IInv, NoLostWakeup, NodeInv, MutexInv
<1>13. NoUseAfterDestroy' /\ StopInv'
  BY DEF IInv, NoUseAfterDestroy, StopInv
<1> QED
  BY <1>9, <1>10, <1>11, <1>12, <1>13 DEF IInv, poolVars

\* A step that moves one thread between places that count the same for the queue and
\* for mu_inflight, and touches no buffer.
LEMMA MoveKeepsIInv ==
    ASSUME IInv, NEW t \in Threads, NEW p \in Places, pc' = [pc EXCEPT ![t] = p],
           pc[t] \in InWait <=> p \in InWait,
           pc[t] \in {"asleep", "notified"} /\ ~mb_done[t] <=> p \in {"asleep", "notified"} /\ ~mb_done[t],
           p = "asleep" => ~mb_done[t],
           p = "gap" => life = "up",
           p = "woken" <=> mo_mutex' = t,
           \A u \in Threads \ {t} : mo_mutex' = u <=> mo_mutex = u,
           mo_mutex' = Worker <=> mo_mutex = Worker,
           mo_mutex' \in Threads \cup {Worker, NoThread},
           life = "destroyed" => mo_mutex' = NoThread,
           UNCHANGED <<poolVars, waitVars, mb_stopping, mu_inflight, life, mp_buf, mb_done, batch, out>>
    PROVE  IInv'
<1> USE DEF poolVars, waitVars
<1>1. /\ pc' \in [Threads -> Places]
      /\ \A u \in Threads : pc'[u] = IF u = t THEN p ELSE pc[u]
  BY DEF IInv, TypeOK
<1>2. Inside' = Inside /\ Handed' = Handed
  BY <1>1 DEF Inside, Handed
<1>3. TypeOK'
  BY <1>1 DEF IInv, TypeOK
<1>4. OneOwner' /\ BudgetExact'
  BY <1>2 DEF IInv, OneOwner, BudgetExact
<1>5. QueueExact'
  BY <1>1, <1>2 DEF IInv, QueueExact
<1>6. NoLostWakeup' /\ NoUseAfterDestroy'
  BY <1>1, <1>2 DEF IInv, NoLostWakeup, NoUseAfterDestroy
<1>7. NodeInv'
  <2>1. \A u \in Threads : mb_done'[u] = mb_done[u] /\ mp_buf'[u] = mp_buf[u]
    OBVIOUS
  <2>2. /\ p \in {"woken", "leaving"} => mb_done[t]
        /\ p \in {"idle", "gap"} => ~mb_done[t]
    BY DEF IInv, NodeInv, TypeOK, InWait, Places
  <2> QED
    BY <1>1, <2>1, <2>2 DEF IInv, NodeInv
<1>8. MutexInv'
  BY <1>1 DEF IInv, MutexInv
<1>9. StopInv'
  BY <1>1 DEF IInv, StopInv
<1> QED
  BY <1>3, <1>4, <1>5, <1>6, <1>7, <1>8, <1>9 DEF IInv

\* stop_waiters empties the queue, completes every node in it without a buffer, and
\* leaves nobody asleep.
LEMMA StopKeepsIInv ==
    ASSUME IInv, StopWaitersBody, life = "up", life' \in {"up", "destroying"}, batch = <<>>,
           life' = "up" \/ \A t \in Threads : pc[t] # "gap",
           UNCHANGED <<poolVars, mu_cv_next, mp_cv, mu_inflight, mo_mutex, batch, out>>
    PROVE  IInv'
<1> USE DEF poolVars, StopWaitersBody
<1>1. /\ pc' \in [Threads -> Places]
      /\ \A t \in Threads : pc'[t] = pc[t] \/ (pc[t] = "asleep" /\ pc'[t] = "notified")
      /\ \A t \in Threads : pc'[t] = "asleep" => waiters = <<>>
  BY DEF IInv, TypeOK, Places, InWait
<1>2. /\ mb_done' \in [Threads -> BOOLEAN]
      /\ \A t \in Threads : mb_done'[t] <=> (mb_done[t] \/ t \in Range(waiters))
  BY DEF IInv, TypeOK
<1>3. mp_buf' = mp_buf
  <2>1. \A t \in Range(waiters) : t \in Threads => mp_buf[t] = NoBuf
    BY DEF IInv, QueueExact, NodeInv
  <2> QED
    BY <2>1 DEF IInv, TypeOK
<1>4. Inside' = Inside /\ Handed' = Handed
  BY <1>1, <1>3 DEF Inside, Handed, InWait
<1>5. Range(waiters') = {} /\ IsInjective(waiters') /\ Len(waiters') = 0 /\ waiters' \in Seq(Threads)
  BY DEF Range, IsInjective
<1>6. TypeOK'
  BY <1>1, <1>2, <1>3, <1>5 DEF IInv, TypeOK
<1>7. OneOwner' /\ BudgetExact'
  BY <1>3, <1>4 DEF IInv, OneOwner, BudgetExact
<1>8. QueueExact'
  <2>1. \A t \in Threads : pc'[t] \in {"asleep", "notified"} => mb_done'[t]
    BY <1>1, <1>2 DEF IInv, QueueExact
  <2> QED
    BY <1>4, <1>5, <2>1 DEF IInv, QueueExact
<1>9. NoLostWakeup'
  BY <1>1, <1>2, <1>5 DEF IInv, NoLostWakeup, Range
<1>10. NodeInv'
  <2>1. \A t \in Range(waiters) : t \in Threads => pc[t] \in {"asleep", "notified"}
    BY DEF IInv, QueueExact
  <2> QED
    BY <1>1, <1>2, <1>3, <2>1 DEF IInv, NodeInv
<1>11. MutexInv' /\ StopInv' /\ NoUseAfterDestroy'
  BY <1>1 DEF IInv, MutexInv, StopInv, NoUseAfterDestroy
<1> QED
  BY <1>6, <1>7, <1>8, <1>9, <1>10, <1>11 DEF IInv

\* A waiter that returns is counted out of mu_inflight and owns what it was handed.
LEMMA LeaveKeepsIInv ==
    ASSUME IInv, NEW t \in Threads, WaitLeave(t)
    PROVE  IInv'
<1> USE PoolAssumption DEF poolVars, waitVars, WaitLeave
<1>1. /\ pc' \in [Threads -> Places]
      /\ \A u \in Threads : pc'[u] = IF u = t THEN "idle" ELSE pc[u]
      /\ pc[t] = "leaving"
  BY DEF IInv, TypeOK, Places
<1>2. /\ mb_done' \in [Threads -> BOOLEAN]
      /\ \A u \in Threads \ {t} : mb_done'[u] = mb_done[u]
      /\ ~mb_done'[t] /\ mb_done[t]
  BY DEF IInv, TypeOK, NodeInv
<1>3. /\ mp_buf' \in [Threads -> Buffers \cup {NoBuf}]
      /\ \A u \in Threads : mp_buf'[u] = IF u = t THEN NoBuf ELSE mp_buf[u]
  BY DEF IInv, TypeOK
<1>4. Inside' = Inside \ {t} /\ t \in Inside
  BY <1>1 DEF Inside, InWait
<1>5. Cardinality(Inside') = Cardinality(Inside) - 1 /\ mu_inflight' \in Nat
  <2>1. IsFiniteSet(Inside)
    BY FS_Subset DEF Inside
  <2>2. IsFiniteSet(Inside') /\ Cardinality(Inside') = Cardinality(Inside) - 1
    BY <1>4, <2>1, FS_RemoveElement
  <2>3. Cardinality(Inside') \in Nat
    BY <2>2, FS_CardinalityType
  <2> QED
    BY <2>2, <2>3 DEF IInv, QueueExact
<1>6. life # "destroyed"
  BY <1>4 DEF IInv, NoUseAfterDestroy
<1>7. Handed' = Handed \ {mp_buf[t]}
  <2>1. \A u \in Threads : mp_buf[u] # NoBuf /\ u # t => mp_buf[u] # mp_buf[t]
    BY <1>6 DEF IInv, OneOwner
  <2> QED
    BY <1>3, <2>1 DEF Handed
<1>8. mp_buf[t] # NoBuf => mp_buf[t] \in Handed
  BY DEF Handed
<1>9. NoBuf \notin Handed
  BY DEF Handed
<1>10. TypeOK'
  <2>1. out' \subseteq Buffers
    BY DEF IInv, TypeOK
  <2> QED
    BY <1>1, <1>2, <1>3, <1>5, <2>1 DEF IInv, TypeOK
<1>11. OneOwner'
  <2>1. Handed' \cup out' = Handed \cup out /\ Handed' \cap out' = {}
    BY <1>6, <1>7, <1>8, <1>9 DEF IInv, OneOwner
  <2>2. Range(mo_free) \cap out' = {} /\ Range(batch) \cap out' = {}
    BY <1>6, <2>1 DEF IInv, OneOwner
  <2>3. \A u, v \in Threads : u # v /\ mp_buf'[u] # NoBuf => mp_buf'[u] # mp_buf'[v]
    BY <1>3, <1>6 DEF IInv, OneOwner
  <2> QED
    BY <1>6, <1>7, <2>1, <2>2, <2>3 DEF IInv, OneOwner
<1>12. QueueExact'
  <2>1. t \notin Range(waiters)
    BY <1>1 DEF IInv, QueueExact
  <2>2. mu_inflight' = Cardinality(Inside')
    BY <1>5 DEF IInv, QueueExact
  <2>3. \A u \in Threads :
           (u \in Range(waiters)') <=> (pc'[u] \in {"asleep", "notified"} /\ ~mb_done'[u])
    BY <1>1, <1>2, <2>1 DEF IInv, QueueExact
  <2> QED
    BY <2>2, <2>3 DEF IInv, QueueExact
<1>13. NoLostWakeup' /\ NodeInv' /\ MutexInv'
  BY <1>1, <1>2, <1>3 DEF IInv, NoLostWakeup, NodeInv, MutexInv
<1>14. NoUseAfterDestroy' /\ StopInv' /\ BudgetExact'
  BY <1>1, <1>6 DEF IInv, NoUseAfterDestroy, StopInv, BudgetExact
<1> QED
  BY <1>10, <1>11, <1>12, <1>13, <1>14 DEF IInv

\* The worker takes its list over from the callers it pulled it from.
LEMMA BatchBeginKeepsIInv ==
    ASSUME IInv, NEW bs, RecycleBatchBegin(bs)
    PROVE  IInv'
<1> USE PoolAssumption DEF poolVars, waitVars, RecycleBatchBegin
<1>1. PICK n \in 1 .. Cardinality(out) : bs \in [1 .. n -> out]
  BY DEF Batches
<1>2. bs \in Seq(out)
  <2>1. n \in Nat
    BY <1>1
  <2> QED
    BY <1>1, <2>1, SeqDef
<1>3. bs \in Seq(Buffers) /\ Range(bs) \subseteq out
  BY <1>2, SeqMonotonic, RangeOfSeq DEF IInv, TypeOK
<1>4. bs # <<>>
  BY <1>1
<1>5. Range(batch) = {}
  BY DEF IInv, MutexInv, Range
<1>6. Handed' = Handed /\ Inside' = Inside
  BY DEF Handed, Inside
<1>7. TypeOK'
  BY <1>3 DEF IInv, TypeOK
<1>8. OneOwner'
  BY <1>3, <1>5, <1>6 DEF IInv, OneOwner
<1>9. QueueExact' /\ BudgetExact' /\ NoLostWakeup' /\ NodeInv'
  BY <1>6 DEF IInv, QueueExact, BudgetExact, NoLostWakeup, NodeInv
<1>10. MutexInv'
  BY <1>4 DEF IInv, MutexInv
<1>11. NoUseAfterDestroy' /\ StopInv'
  BY DEF IInv, NoUseAfterDestroy, StopInv
<1> QED
  BY <1>7, <1>8, <1>9, <1>10, <1>11 DEF IInv

\* The destructor passes its barrier only when nobody is inside acquire_wait, and
\* gives the whole reservation back.
LEMMA DestroyEndKeepsIInv ==
    ASSUME IInv, DestroyEnd
    PROVE  IInv'
<1> USE PoolAssumption DEF waitVars, DestroyEnd
<1>1. Inside = {}
  <2>1. IsFiniteSet(Inside)
    BY FS_Subset DEF Inside
  <2> QED
    BY <2>1, FS_EmptySet DEF IInv, QueueExact
<1>2. Inside' = Inside /\ Handed' = Handed
  BY DEF Inside, Handed
<1>3. IsFiniteSet(mo_all') /\ Cardinality(mo_all') = 0
  BY FS_EmptySet
<1>4. mu_used' = 0
  <2>1. Cardinality(mo_all) \in Nat
    BY FS_CardinalityType DEF IInv
  <2>2. Cardinality(mo_all) * BufferSize \in Nat
    BY <2>1
  <2> QED
    BY <2>2 DEF IInv, BudgetExact
<1>5. TypeOK'
  BY <1>4 DEF IInv, TypeOK
<1>6. OneOwner' /\ BudgetExact'
  BY <1>3, <1>4 DEF OneOwner, BudgetExact
<1>7. QueueExact' /\ NoLostWakeup' /\ NodeInv' /\ MutexInv'
  BY <1>2 DEF IInv, QueueExact, NoLostWakeup, NodeInv, MutexInv
<1>8. NoUseAfterDestroy' /\ StopInv'
  BY <1>1, <1>2 DEF IInv, NoUseAfterDestroy, StopInv
<1> QED
  BY <1>3, <1>5, <1>6, <1>7, <1>8 DEF IInv
-------------------------------------------------------------------------------
\* What the constructor and init() leave satisfies the invariant.
LEMMA InitIInv == Init => IInv
<1> SUFFICES ASSUME Init PROVE IInv
  OBVIOUS
<1> USE PoolAssumption
<1>1. PICK s \in UNION {[1 .. n -> Buffers] : n \in 0 .. InitialCount} :
          /\ IsInjective(s) /\ mo_free = s /\ mo_all = Range(s)
          /\ mu_used = Len(s) * BufferSize /\ mu_used <= MaxMemory
  BY Zenon DEF Init
<1>2. PICK n \in 0 .. InitialCount : s \in [1 .. n -> Buffers]
  BY <1>1
<1>3. n \in Nat /\ s \in Seq(Buffers) /\ Len(s) = n
  BY <1>2, SeqDef
<1>4. IsFiniteSet(mo_all) /\ Cardinality(mo_all) = n
  <2>1. s \in Bijection(1 .. n, Range(s))
    BY <1>1, <1>2 DEF Bijection, Injection, Surjection, Range, IsInjective
  <2>2. ExistsBijection(1 .. n, Range(s))
    BY <2>1 DEF ExistsBijection
  <2> QED
    BY <1>1, <1>3, <2>2, FS_NatBijection, FS_CountingElements
<1>5. Range(mo_free) \subseteq Buffers
  BY <1>1, <1>3, RangeOfSeq
<1>6. /\ waiters = <<>> /\ mu_wait_count = 0 /\ mu_cv_next = 0 /\ mu_inflight = 0
      /\ mb_stopping = FALSE /\ mo_mutex = NoThread /\ life = "up"
      /\ pc = [t \in Threads |-> "idle"]
      /\ mp_buf = [t \in Threads |-> NoBuf]
      /\ mb_done = [t \in Threads |-> FALSE]
      /\ mp_cv = [t \in Threads |-> 0]
      /\ batch = <<>> /\ out = {}
  BY DEF Init
<1>7. Handed = {} /\ Inside = {} /\ Range(batch) = {} /\ Range(waiters) = {}
  BY <1>6 DEF Handed, Inside, InWait, Range
<1>8. TypeOK
  <2>1. mu_used \in Nat
    BY <1>1, <1>3
  <2>2. waiters \in Seq(Threads) /\ batch \in Seq(Buffers)
    BY <1>6
  <2>3. mb_done \in [Threads -> BOOLEAN] /\ mb_stopping \in BOOLEAN
    BY <1>6, Zenon
  <2>4. pc \in [Threads -> Places] /\ mp_buf \in [Threads -> Buffers \cup {NoBuf}]
    BY <1>6 DEF Places
  <2>5. mp_cv \in [Threads -> 0 .. CvCount - 1] /\ mu_cv_next \in 0 .. CvCount - 1
    BY <1>6
  <2>6. mo_all \subseteq Buffers /\ mo_free \in Seq(Buffers) /\ out \subseteq Buffers
    BY <1>1, <1>3, <1>5, <1>6
  <2>7. mu_wait_count \in Nat /\ mu_inflight \in Nat
    BY <1>6
  <2> QED
    BY <1>6, <2>1, <2>2, <2>3, <2>4, <2>5, <2>6, <2>7 DEF TypeOK
<1>9. OneOwner
  BY <1>1, <1>6, <1>7 DEF OneOwner, IsInjective
<1>10. BudgetExact
  BY <1>1, <1>3, <1>4 DEF BudgetExact
<1>11. QueueExact
  BY <1>6, <1>7, FS_EmptySet DEF QueueExact, IsInjective
<1>12. NoLostWakeup /\ NoUseAfterDestroy /\ NodeInv /\ MutexInv /\ StopInv
  BY <1>6 DEF NoLostWakeup, NoUseAfterDestroy, NodeInv, MutexInv, StopInv
<1> QED
  BY <1>4, <1>8, <1>9, <1>10, <1>11, <1>12 DEF IInv

\* One step of one thread inside acquire_buffer.
LEMMA CallerKeepsIInv ==
    ASSUME IInv, NEW t \in Threads, Caller(t)
    PROVE  IInv'
<1> USE PoolAssumption
<1>0. pc[t] \in Places /\ mo_mutex \in Threads \cup {Worker, NoThread}
  BY DEF IInv, TypeOK
<1>1. CASE acquire_buffer(t)
  <2>1. ASSUME NEW b \in Buffers, acquire_no_lock(b), out' = out \cup {b}, UNCHANGED pc
        PROVE  IInv'
    <3>1. pc' = [pc EXCEPT ![t] = "idle"]
      BY <1>1, <2>1 DEF acquire_buffer, IInv, TypeOK
    <3> QED
      BY <1>1, <2>1, <3>1, TakeKeepsIInv DEF acquire_buffer
  <2>2. ASSUME AcquireRefused, pc' = [pc EXCEPT ![t] = "gap"], UNCHANGED out
        PROVE  IInv'
    <3>1. "gap" \in Places /\ "gap" \notin InWait /\ "idle" \notin InWait
      BY DEF Places, InWait
    <3>2. mo_mutex' # t
      BY <1>1 DEF acquire_buffer
    <3> QED
      BY <1>1, <2>2, <3>1, <3>2, MoveKeepsIInv DEF acquire_buffer, AcquireRefused
  <2> QED
    BY <1>1, <2>1, <2>2 DEF acquire_buffer
<1>2. CASE acquire_wait(t)
  <2>0. life # "destroyed"
    BY <1>2 DEF acquire_wait, IInv, StopInv
  <2>1. ASSUME NEW b \in Buffers, acquire_no_lock(b), out' = out \cup {b},
               pc' = [pc EXCEPT ![t] = "idle"],
               UNCHANGED <<waitVars, mu_inflight, mp_buf, mb_done>>
        PROVE  IInv'
    BY <1>2, <2>0, <2>1, TakeKeepsIInv DEF acquire_wait
  <2>2. ASSUME AcquireRefused, pc' = [pc EXCEPT ![t] = "idle"],
               UNCHANGED <<waitVars, mu_inflight, mp_buf, mb_done, out>>
        PROVE  IInv'
    <3>1. "idle" \in Places /\ "gap" \notin InWait /\ "idle" \notin InWait
      BY DEF Places, InWait
    <3>2. mo_mutex' # t
      BY <1>2 DEF acquire_wait
    <3> QED
      BY <1>2, <2>0, <2>2, <3>1, <3>2, MoveKeepsIInv DEF acquire_wait, AcquireRefused
  <2>3. ASSUME AcquireRefused, ~mb_stopping, Park(t), UNCHANGED out
        PROVE  IInv'
    BY <1>2, <2>3, ParkKeepsIInv DEF acquire_wait, AcquireRefused
  <2> QED
    BY <1>2, <2>1, <2>2, <2>3 DEF acquire_wait
<1>3. CASE SpuriousWake(t)
  <2>1. "notified" \in Places /\ "notified" \in InWait /\ "asleep" \in InWait
    BY DEF Places, InWait
  <2>2. mo_mutex' # t /\ (life = "destroyed" => mo_mutex' = NoThread)
    BY <1>3 DEF SpuriousWake, IInv, MutexInv, NoUseAfterDestroy
  <2> QED
    BY <1>0, <1>3, <2>1, <2>2, MoveKeepsIInv DEF SpuriousWake
<1>4. CASE WaitReturn(t)
  <2>0. life # "destroyed"
    BY <1>4 DEF WaitReturn, IInv, NoUseAfterDestroy, Inside, InWait
  <2>1. {"notified", "woken", "asleep"} \subseteq Places \cap InWait
    BY DEF Places, InWait
  <2>2. CASE mb_done[t] /\ pc' = [pc EXCEPT ![t] = "woken"] /\ mo_mutex' = t
    BY <1>4, <2>0, <2>1, <2>2, MoveKeepsIInv DEF WaitReturn
  <2>3. CASE ~mb_done[t] /\ pc' = [pc EXCEPT ![t] = "asleep"] /\ mo_mutex' = mo_mutex
    <3>1. mo_mutex' # t
      BY <1>4, <2>3 DEF WaitReturn
    <3> QED
      BY <1>0, <1>4, <2>0, <2>1, <2>3, <3>1, MoveKeepsIInv DEF WaitReturn
  <2> QED
    BY <1>4, <2>2, <2>3 DEF WaitReturn
<1>5. CASE WaitUnlock(t)
  <2>1. {"woken", "leaving"} \subseteq Places \cap InWait
    BY DEF Places, InWait
  <2>2. mo_mutex = t
    BY <1>5 DEF WaitUnlock, IInv, MutexInv
  <2> QED
    BY <1>5, <2>1, <2>2, MoveKeepsIInv DEF WaitUnlock
<1>6. CASE WaitLeave(t)
  BY <1>6, LeaveKeepsIInv
<1> QED
  BY <1>1, <1>2, <1>3, <1>4, <1>5, <1>6 DEF Caller

\* Every step preserves the invariant.
LEMMA NextKeepsIInv == IInv /\ [Next]_vars => IInv'
<1> SUFFICES ASSUME IInv, [Next]_vars PROVE IInv'
  OBVIOUS
<1> USE PoolAssumption
<1>1. CASE UNCHANGED vars
  BY <1>1 DEF vars, poolVars, waitVars, IInv, TypeOK, OneOwner, BudgetExact, QueueExact,
              NoLostWakeup, NoUseAfterDestroy, NodeInv, MutexInv, StopInv, Handed, Inside
<1>2. ASSUME NEW t \in Threads, Caller(t) PROVE IInv'
  BY <1>2, CallerKeepsIInv
<1>3. ASSUME NEW b \in Buffers, recycle(b) PROVE IInv'
  <2>1. batch = <<>> /\ Range(batch) = {} /\ batch' = batch
    BY <1>3 DEF recycle, IInv, MutexInv, Range
  <2>2. out' \subseteq Buffers /\ batch' \in Seq(Buffers) /\ IsInjective(batch')
    BY <1>3, <2>1 DEF recycle, IInv, TypeOK, IsInjective
  <2>3. Range(batch') = {}
    BY <2>1
  <2> QED
    BY <1>3, <2>1, <2>2, <2>3, RecycleOneKeepsIInv DEF recycle, IInv, TypeOK, MutexInv
<1>4. ASSUME NEW bs \in Batches, RecycleBatchBegin(bs) PROVE IInv'
  BY <1>4, BatchBeginKeepsIInv
<1>5. CASE RecycleBatchStep
  <2>1. batch # <<>> /\ batch \in Seq(Buffers) /\ mo_mutex = Worker
    BY <1>5 DEF RecycleBatchStep, IInv, TypeOK, MutexInv
  <2>2. life = "up"
    BY <2>1 DEF IInv, StopInv
  <2>3. IsInjective(batch) /\ Range(batch) \cap out = {}
    BY <2>2 DEF IInv, OneOwner
  <2>4. /\ Head(batch) \in Buffers /\ Head(batch) \in Range(batch)
        /\ Tail(batch) \in Seq(Buffers) /\ IsInjective(Tail(batch))
        /\ Range(Tail(batch)) = Range(batch) \ {Head(batch)}
    BY <2>1, <2>3, TailInjective
  <2>5. /\ RecycleOne(Head(batch)) /\ batch' = Tail(batch) /\ out' = out
        /\ mo_mutex' = IF Tail(batch) = <<>> THEN NoThread ELSE Worker
        /\ UNCHANGED <<mo_all, mu_used, mu_cv_next, mp_cv, mb_stopping, mu_inflight, life>>
    BY <1>5 DEF RecycleBatchStep
  <2>6. out' \subseteq Buffers
    BY <2>5 DEF IInv, TypeOK
  <2>7. /\ mo_mutex' \in Threads \cup {Worker, NoThread}
        /\ mo_mutex' = Worker <=> batch' # <<>>
        /\ \A t \in Threads : mo_mutex' = t <=> mo_mutex = t
    BY <2>1, <2>5
  <2>8. Range(batch') \cup out' = (Range(batch) \cup out) \ {Head(batch)}
        /\ Range(batch') \cap out' = {}
    BY <2>3, <2>4, <2>5
  <2> QED
    BY <2>2, <2>4, <2>5, <2>6, <2>7, <2>8, RecycleOneKeepsIInv
<1>6. CASE stop_waiters \/ DestroyBegin
  <2>1. batch = <<>>
    BY <1>6 DEF stop_waiters, DestroyBegin, IInv, MutexInv
  <2> QED
    BY <1>6, <2>1, StopKeepsIInv DEF stop_waiters, DestroyBegin
<1>7. CASE DestroyEnd
  BY <1>7, DestroyEndKeepsIInv
<1> QED
  BY <1>1, <1>2, <1>3, <1>4, <1>5, <1>6, <1>7 DEF Next, Gone

\* The inductive invariant holds in every reachable state of the pool.
THEOREM IInvHolds == Spec => []IInv
  BY InitIInv, NextKeepsIInv, PTL DEF Spec

\* The type invariant.
THEOREM TypeCorrect == Spec => []TypeOK
<1>1. IInv => TypeOK
  BY DEF IInv
<1> QED
  BY <1>1, IInvHolds, PTL

\* Each buffer has one owner, whatever acquire, recycle, stop_waiters and allocation
\* failures interleave.
THEOREM OwnershipCorrect == Spec => []OneOwner
<1>1. IInv => OneOwner
  BY DEF IInv
<1> QED
  BY <1>1, IInvHolds, PTL

\* The budget is exact and the cap is kept.
THEOREM BudgetCorrect == Spec => []BudgetExact
<1>1. IInv => BudgetExact
  BY DEF IInv
<1> QED
  BY <1>1, IInvHolds, PTL

\* The waiter queue holds exactly the unserved threads inside acquire_wait, and
\* mu_wait_count and mu_inflight count what the hand-off and the destructor read
\* them for.
THEOREM QueueCorrect == Spec => []QueueExact
<1>1. IInv => QueueExact
  BY DEF IInv
<1> QED
  BY <1>1, IInvHolds, PTL

\* A waiter that has been served is never left blocked on its shard.
THEOREM WakeupCorrect == Spec => []NoLostWakeup
<1>1. IInv => NoLostWakeup
  BY DEF IInv
<1> QED
  BY <1>1, IInvHolds, PTL

\* The teardown barrier: no thread touches the pool after it is destroyed.
THEOREM TeardownCorrect == Spec => []NoUseAfterDestroy
<1>1. IInv => NoUseAfterDestroy
  BY DEF IInv
<1> QED
  BY <1>1, IInvHolds, PTL
-------------------------------------------------------------------------------
\* Without allocation failures a thread parks only when the pool is exhausted, and a
\* recycled buffer goes past the queue only when the queue is empty.
LEMMA NextKeepsNoIdleStock ==
    ASSUME AllocMayFail = FALSE
    PROVE  IInv /\ NoIdleStock /\ [Next]_vars => NoIdleStock'
<1> SUFFICES ASSUME IInv, NoIdleStock, [Next]_vars, waiters' # <<>>
             PROVE  mo_free' = <<>> /\ ~CanReserve'
  BY DEF NoIdleStock
<1> USE PoolAssumption
<1>0. waiters # <<>> => mu_wait_count # 0
  BY DEF IInv, QueueExact, TypeOK
<1>1. CASE UNCHANGED <<poolVars, waiters>>
  BY <1>1 DEF poolVars, NoIdleStock, CanReserve
<1>2. ASSUME NEW b \in Buffers, acquire_no_lock(b), UNCHANGED waitVars
      PROVE  mo_free' = <<>> /\ ~CanReserve'
  BY <1>2 DEF acquire_no_lock, waitVars, NoIdleStock
<1>3. ASSUME NEW t \in Threads, AcquireRefused, Park(t)
      PROVE  mo_free' = <<>> /\ ~CanReserve'
  BY <1>3 DEF AcquireRefused, poolVars, CanReserve
<1>4. ASSUME NEW b \in Buffers, RecycleOne(b), UNCHANGED mu_used
      PROVE  mo_free' = <<>> /\ ~CanReserve'
  <2>1. waiters # <<>>
    BY <1>4 DEF RecycleOne, IInv, TypeOK, QueueExact
  <2> QED
    BY <1>0, <1>4, <2>1 DEF RecycleOne, NoIdleStock, CanReserve
<1>5. CASE DestroyEnd
  BY <1>5 DEF DestroyEnd, waitVars, IInv, StopInv
<1>6. CASE RecycleBatchStep
  <2>1. Head(batch) \in Buffers
    BY <1>6 DEF RecycleBatchStep, IInv, TypeOK
  <2> QED
    BY <1>4, <1>6, <2>1 DEF RecycleBatchStep
<1>7. CASE stop_waiters \/ DestroyBegin
  BY <1>7 DEF stop_waiters, DestroyBegin, StopWaitersBody
<1>8. ASSUME NEW t \in Threads, Caller(t) PROVE mo_free' = <<>> /\ ~CanReserve'
  <2>1. CASE acquire_buffer(t)
    BY <1>1, <1>2, <2>1 DEF acquire_buffer, AcquireRefused, poolVars, waitVars
  <2>2. CASE acquire_wait(t)
    BY <1>1, <1>2, <1>3, <2>2 DEF acquire_wait, AcquireRefused, poolVars, waitVars
  <2>3. CASE SpuriousWake(t) \/ WaitReturn(t) \/ WaitUnlock(t) \/ WaitLeave(t)
    BY <1>1, <2>3 DEF SpuriousWake, WaitReturn, WaitUnlock, WaitLeave, waitVars
  <2> QED
    BY <1>8, <2>1, <2>2, <2>3 DEF Caller
<1> QED
  BY <1>1, <1>4, <1>5, <1>6, <1>7, <1>8
     DEF Next, Gone, vars, recycle, RecycleBatchBegin, waitVars

\* When allocation does not fail nobody waits while a buffer could be had.
THEOREM StockCorrect ==
    ASSUME AllocMayFail = FALSE
    PROVE  Spec => []NoIdleStock
<1>1. Init => NoIdleStock
  BY DEF Init, NoIdleStock
<1>2. IInv /\ NoIdleStock /\ [Next]_vars => NoIdleStock'
  BY NextKeepsNoIdleStock
<1> QED
  BY <1>1, <1>2, IInvHolds, PTL DEF Spec

\* While a thread waits, a step that gives a caller a buffer is a hand-off's return.
LEMMA StepDoesNotBarge ==
    ASSUME IInv, NoIdleStock, [Next]_vars, waiters # <<>>
    PROVE  out' \ out \subseteq Handed
<1> USE PoolAssumption
<1>1. ~ \E b \in Buffers : acquire_no_lock(b)
  BY DEF NoIdleStock, acquire_no_lock
<1>2. ASSUME NEW t \in Threads, Caller(t) PROVE out' \ out \subseteq Handed
  <2>1. CASE WaitLeave(t)
    BY <2>1 DEF WaitLeave, Handed
  <2> QED
    BY <1>1, <1>2, <2>1 DEF Caller, acquire_buffer, acquire_wait, SpuriousWake, WaitReturn, WaitUnlock
<1>3. CASE UNCHANGED vars
  BY <1>3 DEF vars
<1>4. CASE (\E b \in Buffers : recycle(b)) \/ (\E bs \in Batches : RecycleBatchBegin(bs))
  BY <1>4 DEF recycle, RecycleBatchBegin
<1>5. CASE RecycleBatchStep \/ stop_waiters \/ DestroyBegin \/ DestroyEnd
  BY <1>5 DEF RecycleBatchStep, stop_waiters, DestroyBegin, DestroyEnd
<1> QED
  BY <1>2, <1>3, <1>4, <1>5 DEF Next, Gone

\* When allocation does not fail no thread overtakes the waiter queue.
THEOREM NoBargingCorrect ==
    ASSUME AllocMayFail = FALSE
    PROVE  Spec => NoBarging
<1>1. IInv /\ NoIdleStock /\ [Next]_vars => [waiters # <<>> => out' \ out \subseteq Handed]_vars
  BY StepDoesNotBarge
<1> QED
  BY <1>1, IInvHolds, StockCorrect, PTL DEF Spec, NoBarging
-------------------------------------------------------------------------------
\* The state of the abstract allocator a state of the pool stands for, as Fifo
\* substitutes it.
Avail  == MaxMemory \div BufferSize - Cardinality(out) - Len(batch) - Cardinality(Handed)
Client == [t \in Threads |-> Outcome(t)]

\* A list without repetitions has as many members as places: the free list and the
\* batch, counted against the buffers that exist.
LEMMA RangeCount ==
    ASSUME NEW S, NEW s \in Seq(S), IsInjective(s)
    PROVE  IsFiniteSet(Range(s)) /\ Cardinality(Range(s)) = Len(s) /\ Len(s) \in Nat
<1>1. Len(s) \in Nat /\ DOMAIN s = 1 .. Len(s)
  BY LenProperties
<1>2. s \in Bijection(1 .. Len(s), Range(s))
  <2>1. s \in [1 .. Len(s) -> Range(s)]
    <3>1. s = [i \in 1 .. Len(s) |-> s[i]]
      BY LenProperties
    <3>2. \A i \in 1 .. Len(s) : s[i] \in Range(s)
      BY <1>1 DEF Range
    <3> QED
      BY <3>1, <3>2
  <2>2. \A i, j \in 1 .. Len(s) : i # j => s[i] # s[j]
    BY <1>1 DEF IsInjective
  <2>3. \A x \in Range(s) : \E i \in 1 .. Len(s) : s[i] = x
    BY <1>1 DEF Range
  <2> QED
    BY <2>1, <2>2, <2>3 DEF Bijection, Injection, Surjection
<1>3. ExistsBijection(1 .. Len(s), Range(s))
  BY <1>2 DEF ExistsBijection
<1> QED
  BY <1>1, <1>3, FS_NatBijection, FS_CountingElements

\* How many buffers of size b a budget of m bytes holds.
LEMMA DivFacts ==
    ASSUME NEW m \in Nat, NEW b \in Nat \ {0}, NEW n \in Nat, n * b <= m
    PROVE  /\ m \div b \in Nat
           /\ n <= m \div b
           /\ m - n * b >= b => n + 1 <= m \div b
           /\ m - n * b < b => n = m \div b
<1>1. PICK q \in Int : q = m \div b
  OBVIOUS
<1>2. q * b <= m /\ m < (q + 1) * b
  BY <1>1
<1>3. q \in Nat
  BY <1>1
<1>4. n <= q
  <2>1. SUFFICES ASSUME n >= q + 1 PROVE FALSE
    BY <1>3
  <2>2. n * b >= (q + 1) * b
    BY <2>1, <1>3
  <2> QED
    BY <1>2, <2>2, <1>3
<1>5. ASSUME m - n * b >= b PROVE n + 1 <= q
  <2>1. SUFFICES ASSUME n >= q PROVE FALSE
    BY <1>3
  <2>2. n * b >= q * b
    BY <2>1, <1>3
  <2>3. (q + 1) * b = q * b + b
    BY <1>3
  <2>4. n * b + b >= (q + 1) * b
    BY <2>2, <2>3, <1>3
  <2> QED
    BY <1>2, <1>5, <2>4, <1>3
<1>6. ASSUME m - n * b < b PROVE n = q
  <2>1. SUFFICES ASSUME n + 1 <= q PROVE FALSE
    BY <1>3, <1>4
  <2>2. (n + 1) * b <= q * b
    BY <2>1, <1>3
  <2>3. (n + 1) * b = n * b + b
    OBVIOUS
  <2> QED
    BY <1>2, <1>6, <2>2, <2>3, <1>3
<1> QED
  BY <1>1, <1>3, <1>4, <1>5, <1>6

\* Two sets without a common member are counted one after the other.
LEMMA DisjointCount ==
    ASSUME NEW S, NEW T, IsFiniteSet(S), IsFiniteSet(T), S \cap T = {}
    PROVE  /\ IsFiniteSet(S \cup T)
           /\ Cardinality(S) \in Nat /\ Cardinality(T) \in Nat
           /\ Cardinality(S \cup T) = Cardinality(S) + Cardinality(T)
<1>1. Cardinality(S \cap T) = 0
  BY FS_EmptySet
<1>2. /\ IsFiniteSet(S \cup T)
      /\ Cardinality(S \cup T) = Cardinality(S) + Cardinality(T) - Cardinality(S \cap T)
  BY FS_Union
<1>3. PICK c \in Nat : c = Cardinality(S)
  BY FS_CardinalityType
<1>4. PICK d \in Nat : d = Cardinality(T)
  BY FS_CardinalityType
<1>5. Cardinality(S \cup T) = c + d - 0
  BY <1>1, <1>2, <1>3, <1>4
<1>6. c + d - 0 = c + d
  BY ONLY <1>3, <1>4
<1> QED
  BY <1>2, <1>3, <1>4, <1>5, <1>6

\* Every buffer that exists is in exactly one place, so the places add up.
LEMMA Counted ==
    ASSUME IInv, life # "destroyed"
    PROVE  /\ IsFiniteSet(out) /\ IsFiniteSet(Handed)
           /\ Cardinality(out) \in Nat /\ Cardinality(Handed) \in Nat
           /\ Cardinality(mo_all) \in Nat
           /\ Len(batch) \in Nat /\ Len(mo_free) \in Nat
           /\ Cardinality(mo_all)
                = Len(mo_free) + Len(batch) + Cardinality(Handed) + Cardinality(out)
<1>1. /\ mo_free \in Seq(Buffers) /\ batch \in Seq(Buffers)
      /\ IsInjective(mo_free) /\ IsInjective(batch)
  BY DEF IInv, TypeOK, OneOwner
<1>2. /\ IsFiniteSet(Range(mo_free)) /\ Cardinality(Range(mo_free)) = Len(mo_free)
      /\ Len(mo_free) \in Nat
      /\ IsFiniteSet(Range(batch)) /\ Cardinality(Range(batch)) = Len(batch)
      /\ Len(batch) \in Nat
  BY <1>1, RangeCount
<1>3. /\ IsFiniteSet(mo_all)
      /\ mo_all = Range(mo_free) \cup Range(batch) \cup Handed \cup out
      /\ Range(mo_free) \cap (Range(batch) \cup Handed \cup out) = {}
      /\ Range(batch) \cap (Handed \cup out) = {} /\ Handed \cap out = {}
  BY DEF IInv, OneOwner
<1>4. IsFiniteSet(out) /\ IsFiniteSet(Handed)
  BY <1>3, FS_Subset
<1>5. Cardinality(out) \in Nat /\ Cardinality(Handed) \in Nat /\ Cardinality(mo_all) \in Nat
  BY <1>3, <1>4, FS_CardinalityType
<1>6. /\ IsFiniteSet(Handed \cup out)
      /\ Cardinality(Handed \cup out) = Cardinality(Handed) + Cardinality(out)
  BY <1>3, <1>4, DisjointCount
<1>7. /\ IsFiniteSet(Range(batch) \cup (Handed \cup out))
      /\ Cardinality(Range(batch) \cup (Handed \cup out))
           = Len(batch) + Cardinality(Handed \cup out)
  BY <1>2, <1>3, <1>6, DisjointCount
<1>8. Cardinality(Range(mo_free) \cup (Range(batch) \cup (Handed \cup out)))
        = Len(mo_free) + Cardinality(Range(batch) \cup (Handed \cup out))
  <2>1. Range(mo_free) \cap (Range(batch) \cup (Handed \cup out)) = {}
    BY <1>3
  <2> QED
    BY <1>2, <1>7, <2>1, DisjointCount
<1>9. mo_all = Range(mo_free) \cup (Range(batch) \cup (Handed \cup out))
  BY <1>3
<1>10. Cardinality(mo_all)
         = Len(mo_free) + (Len(batch) + (Cardinality(Handed) + Cardinality(out)))
  BY <1>6, <1>7, <1>8, <1>9
<1>11. Cardinality(mo_all) = Len(mo_free) + Len(batch) + Cardinality(Handed) + Cardinality(out)
  <2>1. PICK a \in Nat, b \in Nat, c \in Nat, d \in Nat :
           a = Len(mo_free) /\ b = Len(batch) /\ c = Cardinality(Handed) /\ d = Cardinality(out)
    BY ONLY <1>2, <1>5
  <2>2. a + (b + (c + d)) = a + b + c + d
    OBVIOUS
  <2> QED
    BY ONLY <1>10, <2>1, <2>2
<1> QED
  BY ONLY <1>2, <1>4, <1>5, <1>11

\* What the stock of the abstract allocator says of the free list and the budget: it
\* is positive when a buffer could be had, and zero when none could.
LEMMA AvailNow ==
    ASSUME IInv, life # "destroyed"
    PROVE  /\ Avail \in Nat
           /\ Avail + Cardinality(out) + Len(batch) + Cardinality(Handed)
                = MaxMemory \div BufferSize
           /\ mo_free # <<>> \/ CanReserve => Avail > 0
           /\ mo_free = <<>> /\ ~CanReserve => Avail = 0
<1> USE PoolAssumption
<1>1. PICK n \in Nat : n = Cardinality(mo_all)
  BY Counted
<1>2. PICK f \in Nat : f = Len(mo_free)
  BY Counted
<1>3. PICK k \in Nat : k = Cardinality(out) + Len(batch) + Cardinality(Handed)
  BY Counted
<1>4. n = f + k
  BY <1>1, <1>2, <1>3, Counted
<1>5. mu_used = n * BufferSize /\ mu_used <= MaxMemory
  BY <1>1 DEF IInv, BudgetExact
<1>6. PICK q \in Nat : /\ q = MaxMemory \div BufferSize
                       /\ n <= q
                       /\ MaxMemory - n * BufferSize >= BufferSize => n + 1 <= q
                       /\ MaxMemory - n * BufferSize < BufferSize => n = q
  BY <1>5, DivFacts
<1>7. Avail = q - k
  BY <1>3, <1>6, Counted DEF Avail
<1>8. mo_free # <<>> <=> f > 0
  <2>1. mo_free \in Seq(Buffers)
    BY DEF IInv, TypeOK
  <2> QED
    BY <1>2, <2>1, EmptySeq
<1>9. CanReserve <=> MaxMemory - n * BufferSize >= BufferSize
  BY <1>5 DEF CanReserve
<1>10. mu_used \in Nat
  BY DEF IInv, TypeOK
<1>11. Avail \in Nat /\ Avail + k = q
  BY ONLY <1>4, <1>6, <1>7
<1>12. mo_free # <<>> \/ CanReserve => Avail > 0
  BY <1>4, <1>6, <1>7, <1>8, <1>9
<1>13. mo_free = <<>> /\ ~CanReserve => Avail = 0
  <2>1. ~(MaxMemory - n * BufferSize >= BufferSize) => MaxMemory - n * BufferSize < BufferSize
    OBVIOUS
  <2> QED
    BY <1>4, <1>6, <1>7, <1>8, <1>9, <2>1
<1>14. Avail + Cardinality(out) + Len(batch) + Cardinality(Handed) = Avail + k
  BY <1>3, <1>11, Counted
<1> QED
  BY <1>6, <1>11, <1>12, <1>13, <1>14
-------------------------------------------------------------------------------
\* The initial pool maps to the full stock.
LEMMA InitMaps == Init => Fifo!Init
<1> SUFFICES ASSUME Init PROVE Fifo!Init
  OBVIOUS
<1>1. /\ waiters = <<>> /\ mb_stopping = FALSE
      /\ pc = [t \in Threads |-> "idle"] /\ mp_buf = [t \in Threads |-> NoBuf]
      /\ batch = <<>> /\ out = {}
  BY DEF Init
<1>2. Handed = {}
  BY <1>1 DEF Handed
<1>3. Cardinality(out) = 0 /\ Cardinality(Handed) = 0 /\ Len(batch) = 0
  BY <1>1, <1>2, FS_EmptySet
<1>4. MaxMemory \div BufferSize \in Int
  BY PoolAssumption
<1>5. MaxMemory \div BufferSize - Cardinality(out) - Len(batch) - Cardinality(Handed)
        = MaxMemory \div BufferSize
  BY <1>3, <1>4
<1>6. [t \in Threads |-> Outcome(t)] = [t \in Threads |-> "idle"]
  <2>1. \A t \in Threads : pc[t] = "idle"
    BY <1>1
  <2>2. \A t \in Threads : Outcome(t) = "idle"
    BY <2>1 DEF Outcome, InWait
  <2> QED
    BY <2>2
<1> QED
  BY <1>1, <1>5, <1>6 DEF Fifo!Init

\* A step that gives a caller a buffer at once is Take.
LEMMA TakeMaps ==
    ASSUME NEW t \in Threads, Client[t] \in {"idle", "asking"}, Avail > 0,
           Avail' = Avail - 1, Client' = [Client EXCEPT ![t] = "idle"],
           UNCHANGED <<waiters, mb_stopping>>
    PROVE  Fifo!Next
<1>1. Fifo!Take(t)
  BY DEF Fifo!Take, Avail, Client
<1> QED
  BY <1>1 DEF Fifo!Next

\* A step that only moves a thread from one outcome to another: Ask, TurnAway and
\* Return.
LEMMA MoveMaps ==
    ASSUME NEW t \in Threads, NEW o,
           Avail' = Avail, Client' = [Client EXCEPT ![t] = o],
           UNCHANGED <<waiters, mb_stopping>>,
           \/ Client[t] = "idle" /\ o = "asking" /\ Avail = 0
           \/ Client[t] = "asking" /\ o = "idle" /\ Avail = 0 /\ mb_stopping
           \/ Client[t] \in {"granted", "refused"} /\ o = "idle"
    PROVE  Fifo!Next
<1>1. Fifo!Ask(t) \/ Fifo!TurnAway(t) \/ Fifo!Return(t)
  BY DEF Fifo!Ask, Fifo!TurnAway, Fifo!Return, Avail, Client
<1> QED
  BY <1>1 DEF Fifo!Next

\* Parking is Enqueue.
LEMMA EnqueueMaps ==
    ASSUME NEW t \in Threads, Client[t] = "asking", Avail = 0, ~mb_stopping,
           waiters' = Append(waiters, t), Client' = [Client EXCEPT ![t] = "waiting"],
           Avail' = Avail, mb_stopping' = mb_stopping
    PROVE  Fifo!Next
<1>1. Fifo!Enqueue(t)
  BY DEF Fifo!Enqueue, Avail, Client
<1> QED
  BY <1>1 DEF Fifo!Next

\* A recycled buffer that nobody waits for raises the stock by one.
LEMMA ShelveMaps ==
    ASSUME waiters = <<>>, waiters' = <<>>, Client' = Client, Avail \in Int,
           Avail + 1 <= MaxMemory \div BufferSize, 1 \in 1 .. MaxMemory \div BufferSize,
           Avail' = Avail + 1, mb_stopping' = mb_stopping
    PROVE  Fifo!Next
<1>1. Fifo!GiveBack(1)
  <2>1. Len(waiters) = 0
    OBVIOUS
  <2> QED
    BY <2>1 DEF Fifo!GiveBack, Avail, Client
<1> QED
  BY <1>1 DEF Fifo!Next

\* A recycled buffer that goes to the oldest waiter leaves the stock as it is.
LEMMA HandOffMaps ==
    ASSUME waiters \in Seq(Threads), waiters # <<>>, waiters' = Tail(waiters),
           Client' = [Client EXCEPT ![Head(waiters)] = "granted"],
           Avail \in Int,
           Avail + 1 <= MaxMemory \div BufferSize, 1 \in 1 .. MaxMemory \div BufferSize,
           Avail' = Avail, mb_stopping' = mb_stopping
    PROVE  Fifo!Next
<1>1. Len(waiters) \in Nat /\ Len(waiters) >= 1 /\ Head(waiters) = waiters[1]
  BY EmptySeq
<1>2. (IF 1 < Len(waiters) THEN 1 ELSE Len(waiters)) = 1
  <2>1. \A n \in Nat : n >= 1 => (IF 1 < n THEN 1 ELSE n) = 1
    OBVIOUS
  <2> QED
    BY ONLY <1>1, <2>1
<1>3. {waiters[i] : i \in 1 .. 1} = {Head(waiters)}
  BY <1>1
<1>4. SubSeq(waiters, 1 + 1, Len(waiters)) = Tail(waiters)
  BY <1>1
<1>5. Client' = [t \in Threads |-> IF t \in {Head(waiters)} THEN "granted" ELSE Client[t]]
  BY DEF Client
<1>6. Avail' = Avail + 1 - 1
  OBVIOUS
<1>7. Fifo!GiveBack(1)
  BY <1>2, <1>3, <1>4, <1>5, <1>6 DEF Fifo!GiveBack, Avail, Client
<1> QED
  BY <1>7 DEF Fifo!Next

\* Refusing the waiters is Close.
LEMMA CloseMaps ==
    ASSUME mb_stopping' = TRUE, waiters' = <<>>, Avail' = Avail,
           Client' = [t \in Threads |-> IF Client[t] = "waiting" THEN "refused" ELSE Client[t]]
    PROVE  Fifo!Next
<1>1. Fifo!Close
  BY DEF Fifo!Close, Avail, Client
<1> QED
  BY <1>1 DEF Fifo!Next

\* A step that changes neither stock, queue, outcomes nor shutdown is a stutter.
LEMMA StutterMaps ==
    ASSUME Avail' = Avail, Client' = Client, UNCHANGED <<waiters, mb_stopping>>
    PROVE  UNCHANGED Fifo!vars
  BY DEF Fifo!vars, Avail, Client

\* The stock moves against the buffers that are out, in the batch or handed off.
LEMMA AvailShift ==
    ASSUME NEW d \in Nat, NEW e \in Nat,
           NEW o \in Nat, NEW k \in Nat, NEW h \in Nat,
           NEW p \in Nat, NEW l \in Nat, NEW i \in Nat,
           Cardinality(out) = o, Len(batch) = k, Cardinality(Handed) = h,
           Cardinality(out') = p, Len(batch') = l, Cardinality(Handed') = i,
           p + l + i + d = o + k + h + e
    PROVE  Avail' = Avail + d - e
<1>1. PICK c \in Int : c = MaxMemory \div BufferSize
  BY PoolAssumption
<1>2. Avail = c - o - k - h
  BY <1>1 DEF Avail
<1>3. Avail' = c - p - l - i
  BY <1>1 DEF Avail
<1>4. c - p - l - i = (c - o - k - h) + d - e
  BY ONLY p + l + i + d = o + k + h + e, <1>1
<1> QED
  BY <1>2, <1>3, <1>4

\* A step that changes the node and the place of one thread changes its outcome only.
LEMMA OneClient ==
    ASSUME NEW t \in Threads, NEW o,
           \A u \in Threads \ {t} : /\ pc'[u] = pc[u]
                                    /\ mp_buf'[u] = mp_buf[u] /\ mb_done'[u] = mb_done[u],
           Outcome(t)' = o
    PROVE  Client' = [Client EXCEPT ![t] = o]
<1>1. \A u \in Threads \ {t} : Outcome(u)' = Outcome(u)
  BY DEF Outcome
<1>2. \A u \in Threads : Outcome(u)' = IF u = t THEN o ELSE Outcome(u)
  BY <1>1
<1> QED
  BY <1>2 DEF Client

\* An acquisition that finds a buffer.
LEMMA TakeStep ==
    ASSUME IInv, life # "destroyed", NEW t \in Threads, pc[t] \in {"idle", "gap"},
           NEW b \in Buffers, acquire_no_lock(b), out' = out \cup {b},
           pc' = [pc EXCEPT ![t] = "idle"],
           UNCHANGED <<waitVars, mb_stopping, mp_buf, mb_done, batch>>
    PROVE  Fifo!Next
<1>1. Client[t] \in {"idle", "asking"}
  BY DEF Client, Outcome, InWait
<1>2. Avail > 0 /\ Avail \in Nat
  BY AvailNow DEF acquire_no_lock
<1>3. b \notin out
  BY AcquireNoLockFacts
<1>4. Handed' = Handed
  BY DEF Handed
<1>5. PICK o \in Nat, k \in Nat, h \in Nat :
         Cardinality(out) = o /\ Len(batch) = k /\ Cardinality(Handed) = h
  BY Counted
<1>6. Cardinality(out') = o + 1
  BY <1>3, <1>5, Counted, FS_AddElement
<1>7. Avail' = Avail + 0 - 1
  <2>1. PICK p \in Nat : p = o + 1
    BY <1>5
  <2>2. p + k + h + 0 = o + k + h + 1
    BY ONLY <1>5, <2>1
  <2>3. Cardinality(out') = p /\ Len(batch') = k /\ Cardinality(Handed') = h
    BY <1>4, <1>5, <1>6, <2>1
  <2>4. 0 \in Nat /\ 1 \in Nat
    OBVIOUS
  <2> QED
    BY ONLY <1>5, <2>1, <2>2, <2>3, <2>4, AvailShift
<1>8. Avail' = Avail - 1
  BY <1>2, <1>7
<1>9. Client' = [Client EXCEPT ![t] = "idle"]
  <2>1. pc \in [Threads -> Places]
    BY DEF IInv, TypeOK
  <2>2. pc'[t] = "idle" /\ \A u \in Threads \ {t} : pc'[u] = pc[u]
    BY <2>1
  <2>3. Outcome(t)' = "idle"
    BY <2>2 DEF Outcome, InWait
  <2> QED
    BY <2>2, <2>3, OneClient
<1> QED
  BY <1>1, <1>2, <1>8, <1>9, TakeMaps DEF waitVars

\* An acquisition that finds none, when allocation does not fail: the caller goes on
\* to wait, is turned away, or parks.
LEMMA RefusedStep ==
    ASSUME AllocMayFail = FALSE, IInv, life # "destroyed", NEW t \in Threads,
           AcquireRefused, UNCHANGED <<mb_stopping, batch, out>>,
           \/ /\ pc[t] = "idle" /\ pc' = [pc EXCEPT ![t] = "gap"]
              /\ UNCHANGED <<waitVars, mp_buf, mb_done>>
           \/ /\ pc[t] = "gap" /\ pc' = [pc EXCEPT ![t] = "idle"] /\ mb_stopping
              /\ UNCHANGED <<waitVars, mp_buf, mb_done>>
           \/ pc[t] = "gap" /\ Park(t) /\ ~mb_stopping
    PROVE  Fifo!Next
<1>1. Avail = 0
  BY AvailNow DEF AcquireRefused
<1>2. /\ pc \in [Threads -> Places] /\ mp_buf \in [Threads -> Buffers \cup {NoBuf}]
      /\ mb_done \in [Threads -> BOOLEAN]
  BY DEF IInv, TypeOK
<1>3. ~mb_done[t] /\ mp_buf[t] = NoBuf
  BY DEF IInv, NodeInv
<1>4. UNCHANGED <<waitVars, mp_buf, mb_done>> => Avail' = Avail
  BY DEF Avail, Handed
<1>5. CASE /\ pc[t] = "idle" /\ pc' = [pc EXCEPT ![t] = "gap"]
           /\ UNCHANGED <<waitVars, mp_buf, mb_done>>
  <2>1. pc'[t] = "gap" /\ \A u \in Threads \ {t} : pc'[u] = pc[u]
    BY <1>2, <1>5
  <2>2. Outcome(t)' = "asking" /\ Client[t] = "idle"
    BY <1>5, <2>1 DEF Outcome, Client, InWait
  <2>3. Client' = [Client EXCEPT ![t] = "asking"]
    BY <1>5, <2>1, <2>2, OneClient
  <2> QED
    BY <1>1, <1>4, <1>5, <2>2, <2>3, MoveMaps DEF waitVars
<1>6. CASE /\ pc[t] = "gap" /\ pc' = [pc EXCEPT ![t] = "idle"] /\ mb_stopping
           /\ UNCHANGED <<waitVars, mp_buf, mb_done>>
  <2>1. pc'[t] = "idle" /\ \A u \in Threads \ {t} : pc'[u] = pc[u]
    BY <1>2, <1>6
  <2>2. Outcome(t)' = "idle" /\ Client[t] = "asking"
    BY <1>6, <2>1 DEF Outcome, Client, InWait
  <2>3. Client' = [Client EXCEPT ![t] = "idle"]
    BY <1>6, <2>1, <2>2, OneClient
  <2> QED
    BY <1>1, <1>4, <1>6, <2>2, <2>3, MoveMaps DEF waitVars
<1>7. CASE pc[t] = "gap" /\ Park(t) /\ ~mb_stopping
  <2>1. /\ pc'[t] = "asleep" /\ mp_buf'[t] = NoBuf /\ ~mb_done'[t]
        /\ \A u \in Threads \ {t} : /\ pc'[u] = pc[u]
                                    /\ mp_buf'[u] = mp_buf[u] /\ mb_done'[u] = mb_done[u]
    BY <1>2, <1>7 DEF Park
  <2>2. Handed' = Handed
    BY <1>3, <2>1 DEF Handed
  <2>3. Avail' = Avail
    BY <2>2 DEF Avail
  <2>4. Outcome(t)' = "waiting" /\ Client[t] = "asking"
    BY <1>7, <2>1 DEF Outcome, Client, InWait
  <2>5. Client' = [Client EXCEPT ![t] = "waiting"]
    BY <2>1, <2>4, OneClient
  <2> QED
    BY <1>1, <1>7, <2>3, <2>4, <2>5, EnqueueMaps DEF Park
<1> QED
  BY <1>5, <1>6, <1>7

\* A recycled buffer, alone or from a batch, is given back to the allocator, which
\* serves the oldest waiter or puts it into the stock.
LEMMA RecycleStep ==
    ASSUME IInv, life # "destroyed", NEW b \in Buffers, RecycleOne(b), b \notin Handed,
           NEW p \in Nat, NEW l \in Nat,
           Cardinality(out') = p, Len(batch') = l,
           p + l + 1 = Cardinality(out) + Len(batch),
           mb_stopping' = mb_stopping
    PROVE  Fifo!Next
<1>1. PICK o \in Nat, k \in Nat, h \in Nat :
         Cardinality(out) = o /\ Len(batch) = k /\ Cardinality(Handed) = h
  BY Counted
<1>2. p + l + 1 = o + k
  BY <1>1
<1>3. PICK c \in Int : c = MaxMemory \div BufferSize
  BY PoolAssumption
<1>4. PICK a \in Nat : a = Avail
  BY AvailNow
<1>5. a + o + k + h = c
  BY <1>1, <1>3, <1>4, AvailNow
<1>6. a + 1 <= c /\ 1 <= c
  BY ONLY <1>1, <1>2, <1>3, <1>4, <1>5
<1>7. /\ Avail \in Int
      /\ Avail + 1 <= MaxMemory \div BufferSize /\ 1 \in 1 .. MaxMemory \div BufferSize
  BY <1>3, <1>4, <1>6
<1>8. /\ waiters \in Seq(Threads) /\ mu_wait_count = Len(waiters)
      /\ pc \in [Threads -> Places] /\ mp_buf \in [Threads -> Buffers \cup {NoBuf}]
      /\ mb_done \in [Threads -> BOOLEAN] /\ b # NoBuf
  BY PoolAssumption DEF IInv, TypeOK, QueueExact
<1>9. CASE mu_wait_count = 0 /\ UNCHANGED <<waiters, mu_wait_count, mp_buf, mb_done, pc>>
  <2>1. waiters = <<>>
    BY <1>8, <1>9, EmptySeq
  <2>2. Client' = Client
    BY <1>9 DEF Client, Outcome
  <2>3. Handed' = Handed
    BY <1>9 DEF Handed
  <2>4. Avail' = Avail + 1 - 0
    <3>1. p + l + h + 1 = o + k + h + 0
      BY ONLY <1>1, <1>2
    <3>2. Cardinality(Handed') = h /\ 0 \in Nat /\ 1 \in Nat
      BY <1>1, <2>3
    <3> QED
      BY <1>1, <3>1, <3>2, AvailShift
  <2>5. Avail' = Avail + 1
    BY <1>7, <2>4
  <2>6. waiters' = <<>>
    BY <1>9, <2>1
  <2> QED
    BY <1>7, <2>1, <2>2, <2>5, <2>6, ShelveMaps
<1>10. CASE /\ mu_wait_count # 0
            /\ waiters' = Tail(waiters)
            /\ mp_buf' = [mp_buf EXCEPT ![Head(waiters)] = b]
            /\ mb_done' = [mb_done EXCEPT ![Head(waiters)] = TRUE]
            /\ NotifyAll(mp_cv[Head(waiters)])
  <2>1. waiters # <<>>
    BY <1>8, <1>10
  <2>2. PICK t \in Threads : t = Head(waiters) /\ t \in Range(waiters)
    BY <1>8, <2>1, TailInjective DEF IInv, QueueExact
  <2>3. ~mb_done[t] /\ pc[t] \in {"asleep", "notified"} /\ mp_buf[t] = NoBuf
    BY <2>2 DEF IInv, QueueExact, NodeInv
  <2>4. \A u \in Threads : pc'[u] = pc[u] \/ (pc[u] = "asleep" /\ pc'[u] = "notified")
    BY <1>10 DEF NotifyAll
  <2>5. /\ mp_buf'[t] = b /\ mb_done'[t] = TRUE
        /\ \A u \in Threads \ {t} : mp_buf'[u] = mp_buf[u] /\ mb_done'[u] = mb_done[u]
    BY <1>8, <1>10, <2>2
  <2>6. Handed' = Handed \cup {b}
    BY <1>8, <2>3, <2>5 DEF Handed
  <2>7. Cardinality(Handed') = h + 1
    BY <1>1, <2>6, Counted, FS_AddElement
  <2>8. Avail' = Avail + 0 - 0
    <3>1. PICK i \in Nat : i = h + 1
      BY <1>1
    <3>2. p + l + i + 0 = o + k + h + 0
      BY ONLY <1>1, <1>2, <3>1
    <3>3. Cardinality(Handed') = i /\ 0 \in Nat
      BY <2>7, <3>1
    <3> QED
      BY <1>1, <3>1, <3>2, <3>3, AvailShift
  <2>9. Avail' = Avail
    BY <1>7, <2>8
  <2>10. \A u \in Threads \ {t} : Outcome(u)' = Outcome(u)
    <3>1. SUFFICES ASSUME NEW u \in Threads \ {t} PROVE Outcome(u)' = Outcome(u)
      OBVIOUS
    <3>2. CASE pc'[u] = pc[u]
      BY <2>5, <3>2 DEF Outcome
    <3>3. CASE pc[u] = "asleep" /\ pc'[u] = "notified"
      BY <2>5, <3>3 DEF Outcome, InWait
    <3> QED
      BY <2>4, <3>2, <3>3
  <2>11. Outcome(t)' = "granted"
    <3>1. pc'[t] \in {"asleep", "notified"}
      BY <2>3, <2>4
    <3> QED
      BY <1>8, <2>5, <3>1 DEF Outcome, InWait
  <2>12. Client' = [Client EXCEPT ![t] = "granted"]
    BY <2>10, <2>11 DEF Client
  <2> QED
    BY <1>7, <1>8, <1>10, <2>1, <2>2, <2>9, <2>12, HandOffMaps
<1> QED
  BY <1>9, <1>10 DEF RecycleOne

\* A waiter that returns takes what it was handed, or the refusal, with it.
LEMMA LeaveStep ==
    ASSUME IInv, NEW t \in Threads, WaitLeave(t)
    PROVE  Fifo!Next
<1> USE DEF WaitLeave
<1>1. /\ pc \in [Threads -> Places] /\ mp_buf \in [Threads -> Buffers \cup {NoBuf}]
      /\ mb_done \in [Threads -> BOOLEAN]
  BY DEF IInv, TypeOK
<1>2. /\ pc'[t] = "idle" /\ mp_buf'[t] = NoBuf
      /\ \A u \in Threads \ {t} : /\ pc'[u] = pc[u]
                                  /\ mp_buf'[u] = mp_buf[u] /\ mb_done'[u] = mb_done[u]
  BY <1>1
<1>3. pc[t] = "leaving" /\ mb_done[t]
  BY DEF IInv, NodeInv
<1>4. life # "destroyed"
  BY <1>3 DEF IInv, NoUseAfterDestroy, Inside, InWait
<1>5. Client[t] \in {"granted", "refused"}
  BY <1>3 DEF Client, Outcome, InWait
<1>6. Client' = [Client EXCEPT ![t] = "idle"]
  <2>1. Outcome(t)' = "idle"
    BY <1>2 DEF Outcome, InWait
  <2> QED
    BY <1>2, <2>1, OneClient
<1>7. PICK o \in Nat, k \in Nat, h \in Nat, a \in Nat :
         Cardinality(out) = o /\ Len(batch) = k /\ Cardinality(Handed) = h /\ Avail = a
  BY <1>4, Counted, AvailNow
<1>8. Avail' = Avail
  <2>1. CASE mp_buf[t] = NoBuf
    <3>1. Handed' = Handed
      BY <1>2, <2>1 DEF Handed
    <3>2. out' = out
      BY <2>1
    <3> QED
      BY <3>1, <3>2 DEF Avail
  <2>2. CASE mp_buf[t] # NoBuf
    <3>1. mp_buf[t] \in Handed /\ mp_buf[t] \notin out
      BY <1>4, <2>2 DEF Handed, IInv, OneOwner
    <3>2. \A u \in Threads \ {t} : mp_buf[u] # mp_buf[t]
      BY <1>4, <2>2 DEF IInv, OneOwner
    <3>3. Handed' = Handed \ {mp_buf[t]}
      BY <1>2, <3>2 DEF Handed
    <3>4. Cardinality(Handed') = h - 1 /\ Cardinality(Handed') \in Nat
      BY <1>4, <1>7, <3>1, <3>3, Counted, FS_RemoveElement, FS_CardinalityType
    <3>5. out' = out \cup {mp_buf[t]}
      BY <2>2
    <3>6. Cardinality(out') = o + 1
      BY <1>4, <1>7, <3>1, <3>5, Counted, FS_AddElement
    <3>7. PICK p \in Nat, i \in Nat : p = o + 1 /\ i = h - 1 /\ Cardinality(Handed') = i
      BY <1>7, <3>4
    <3>8. p + k + i + 0 = o + k + h + 0
      BY ONLY <1>7, <3>7
    <3>9. Cardinality(out') = p /\ Len(batch') = k /\ 0 \in Nat
      BY <1>7, <3>6, <3>7
    <3>10. Avail' = Avail + 0 - 0
      BY ONLY <1>7, <3>7, <3>8, <3>9, AvailShift
    <3> QED
      BY <1>7, <3>10
  <2> QED
    BY <2>1, <2>2
<1> QED
  BY <1>5, <1>6, <1>8, MoveMaps DEF waitVars

\* The worker's list is still in circulation while the worker holds it.
LEMMA BatchBeginStep ==
    ASSUME IInv, NEW bs, RecycleBatchBegin(bs)
    PROVE  UNCHANGED Fifo!vars
<1> USE DEF RecycleBatchBegin
<1>0. life # "destroyed"
  OBVIOUS
<1>1. PICK n \in 1 .. Cardinality(out) : bs \in [1 .. n -> out]
  BY DEF Batches
<1>2. bs \in Seq(out)
  <2>1. n \in Nat
    BY <1>1
  <2> QED
    BY <1>1, <2>1, SeqDef
<1>3. Range(bs) \subseteq out
  BY <1>2, RangeOfSeq
<1>4. IsFiniteSet(Range(bs)) /\ Cardinality(Range(bs)) = Len(bs) /\ Len(bs) \in Nat
  BY <1>2, RangeCount
<1>5. batch = <<>>
  BY PoolAssumption DEF IInv, MutexInv
<1>6. PICK o \in Nat, h \in Nat, a \in Nat :
         Cardinality(out) = o /\ Cardinality(Handed) = h /\ Avail = a
  BY <1>0, Counted, AvailNow
<1>7. IsFiniteSet(out \ Range(bs))
  BY <1>0, Counted, FS_Subset
<1>8. Cardinality(out) = Cardinality(out \ Range(bs)) + Cardinality(Range(bs))
  <2>1. (out \ Range(bs)) \cap Range(bs) = {} /\ (out \ Range(bs)) \cup Range(bs) = out
    BY <1>3
  <2> QED
    BY <1>4, <1>7, <2>1, DisjointCount
<1>9. PICK p \in Nat, l \in Nat : Cardinality(out') = p /\ Len(batch') = l /\ o = p + l
  BY <1>4, <1>6, <1>7, <1>8, FS_CardinalityType
<1>10. Handed' = Handed
  BY DEF Handed
<1>11. Avail' = Avail + 0 - 0
  <2>1. p + l + h + 0 = o + 0 + h + 0
    BY ONLY <1>6, <1>9
  <2>2. Len(batch) = 0 /\ Cardinality(Handed') = h /\ 0 \in Nat
    BY <1>5, <1>6, <1>10
  <2> QED
    BY ONLY <1>6, <1>9, <2>1, <2>2, AvailShift
<1>12. Avail' = Avail
  BY <1>6, <1>11
<1>13. Client' = Client
  BY DEF Client, Outcome
<1> QED
  BY <1>12, <1>13, StutterMaps DEF waitVars

\* Shutdown completes every node in the queue without a buffer, which refuses the
\* clients that wait and no other.
LEMMA StopStep ==
    ASSUME IInv, StopWaitersBody, UNCHANGED <<batch, out>>
    PROVE  Fifo!Next
<1> USE DEF StopWaitersBody
<1>1. mp_buf' = mp_buf
  <2>1. \A t \in Range(waiters) : t \in Threads => mp_buf[t] = NoBuf
    BY DEF IInv, QueueExact, NodeInv
  <2> QED
    BY <2>1 DEF IInv, TypeOK
<1>2. Handed' = Handed
  BY <1>1 DEF Handed
<1>3. Avail' = Avail
  BY <1>2 DEF Avail
<1>4. ASSUME NEW t \in Threads
      PROVE  Outcome(t)' = IF Outcome(t) = "waiting" THEN "refused" ELSE Outcome(t)
  <2>1. /\ pc'[t] = pc[t] \/ (pc[t] = "asleep" /\ pc'[t] = "notified")
        /\ mb_done'[t] <=> (mb_done[t] \/ t \in Range(waiters))
        /\ mp_buf'[t] = mp_buf[t]
    BY <1>1
  <2>2. t \in Range(waiters) <=> (pc[t] \in {"asleep", "notified"} /\ ~mb_done[t])
    BY DEF IInv, QueueExact
  <2>3. CASE t \in Range(waiters)
    <3>1. mp_buf[t] = NoBuf
      BY <2>2, <2>3 DEF IInv, NodeInv
    <3>2. Outcome(t) = "waiting"
      BY <2>2, <2>3 DEF Outcome, InWait
    <3>3. pc'[t] \in {"asleep", "notified"} /\ mb_done'[t] /\ mp_buf'[t] = NoBuf
      BY <2>1, <2>2, <2>3, <3>1
    <3>4. Outcome(t)' = "refused"
      BY <3>3 DEF Outcome, InWait
    <3> QED
      BY <3>2, <3>4
  <2>4. CASE t \notin Range(waiters)
    <3>1. mb_done'[t] <=> mb_done[t]
      BY <2>1, <2>4
    <3>2. pc[t] \in Places
      BY DEF IInv, TypeOK
    <3>3. pc[t] \in InWait => mb_done[t]
      BY <2>2, <2>4, <3>2 DEF InWait, IInv, NodeInv
    <3>4. Outcome(t) # "waiting"
      BY <3>2, <3>3 DEF Outcome, InWait, Places
    <3>5. Outcome(t)' = Outcome(t)
      BY <2>1, <3>1, <3>2, <3>3 DEF Outcome, InWait, Places
    <3> QED
      BY <3>4, <3>5
  <2> QED
    BY <2>3, <2>4
<1>5. Client' = [t \in Threads |-> IF Client[t] = "waiting" THEN "refused" ELSE Client[t]]
  BY <1>4 DEF Client
<1> QED
  BY <1>3, <1>5, CloseMaps

\* A step that moves a waiter between the shard and the mutex is not seen: the
\* outcome of a thread inside acquire_wait depends on its node alone.
LEMMA InsideStep ==
    ASSUME NEW t \in Threads, NEW p, pc \in [Threads -> Places],
           pc[t] \in InWait, p \in InWait, pc' = [pc EXCEPT ![t] = p],
           UNCHANGED <<waiters, mb_stopping, mp_buf, mb_done, batch, out>>
    PROVE  UNCHANGED Fifo!vars
<1>1. pc'[t] = p /\ \A u \in Threads \ {t} : pc'[u] = pc[u]
  OBVIOUS
<1>2. Outcome(t)' = Outcome(t)
  BY <1>1 DEF Outcome, InWait
<1>3. Client' = [Client EXCEPT ![t] = Outcome(t)]
  BY <1>1, <1>2, OneClient
<1>4. Client' = Client
  BY <1>3 DEF Client
<1>5. Avail' = Avail
  BY DEF Avail, Handed
<1> QED
  BY <1>4, <1>5, StutterMaps

\* A step that leaves the threads, their nodes, the queue and the buffers in
\* circulation alone is not seen: the destructor's end.
LEMMA UnseenStep ==
    ASSUME UNCHANGED <<pc, mp_buf, mb_done, waiters, mb_stopping, batch, out>>
    PROVE  UNCHANGED Fifo!vars
<1>1. Client' = Client
  BY DEF Client, Outcome
<1>2. Avail' = Avail
  BY DEF Avail, Handed
<1> QED
  BY <1>1, <1>2, StutterMaps

\* Each step of a thread inside acquire_buffer is a step of the allocator or a stutter.
LEMMA CallerMaps ==
    ASSUME AllocMayFail = FALSE, IInv, NEW t \in Threads, Caller(t)
    PROVE  [Fifo!Next]_(Fifo!vars)
<1>0. pc \in [Threads -> Places]
  BY DEF IInv, TypeOK
<1>1. CASE acquire_buffer(t)
  <2>1. ASSUME NEW b \in Buffers, acquire_no_lock(b), out' = out \cup {b}, UNCHANGED pc
        PROVE  Fifo!Next
    <3>1. pc' = [pc EXCEPT ![t] = "idle"]
      BY <1>0, <1>1, <2>1 DEF acquire_buffer
    <3> QED
      BY <1>1, <2>1, <3>1, TakeStep DEF acquire_buffer
  <2>2. ASSUME AcquireRefused, pc' = [pc EXCEPT ![t] = "gap"], UNCHANGED out
        PROVE  Fifo!Next
    BY <1>1, <2>2, RefusedStep DEF acquire_buffer
  <2> QED
    BY <1>1, <2>1, <2>2 DEF acquire_buffer
<1>2. CASE acquire_wait(t)
  <2>0. life # "destroyed"
    BY <1>2 DEF acquire_wait, IInv, StopInv
  <2>1. ASSUME NEW b \in Buffers, acquire_no_lock(b), out' = out \cup {b},
               pc' = [pc EXCEPT ![t] = "idle"],
               UNCHANGED <<waitVars, mu_inflight, mp_buf, mb_done>>
        PROVE  Fifo!Next
    BY <1>2, <2>0, <2>1, TakeStep DEF acquire_wait
  <2>2. ASSUME AcquireRefused, mb_stopping, pc' = [pc EXCEPT ![t] = "idle"],
               UNCHANGED <<waitVars, mu_inflight, mp_buf, mb_done, out>>
        PROVE  Fifo!Next
    BY <1>2, <2>0, <2>2, RefusedStep DEF acquire_wait
  <2>3. ASSUME AcquireRefused, ~mb_stopping, Park(t), UNCHANGED out
        PROVE  Fifo!Next
    BY <1>2, <2>0, <2>3, RefusedStep DEF acquire_wait
  <2> QED
    BY <1>2, <2>1, <2>2, <2>3 DEF acquire_wait
<1>3. CASE SpuriousWake(t)
  BY <1>0, <1>3, InsideStep DEF SpuriousWake, InWait, waitVars
<1>4. CASE WaitReturn(t)
  BY <1>0, <1>4, InsideStep DEF WaitReturn, InWait, waitVars
<1>5. CASE WaitUnlock(t)
  BY <1>0, <1>5, InsideStep DEF WaitUnlock, InWait, waitVars
<1>6. CASE WaitLeave(t)
  BY <1>6, LeaveStep
<1> QED
  BY <1>1, <1>2, <1>3, <1>4, <1>5, <1>6 DEF Caller

\* Each step of the pool is a step of the allocator or a stutter.
LEMMA NextMaps ==
    ASSUME AllocMayFail = FALSE
    PROVE  IInv /\ [Next]_vars => [Fifo!Next]_(Fifo!vars)
<1> SUFFICES ASSUME IInv, [Next]_vars PROVE [Fifo!Next]_(Fifo!vars)
  OBVIOUS
<1>1. CASE UNCHANGED vars
  BY <1>1, UnseenStep DEF vars, waitVars
<1>2. ASSUME NEW t \in Threads, Caller(t) PROVE [Fifo!Next]_(Fifo!vars)
  BY <1>2, CallerMaps
<1>3. ASSUME NEW b \in Buffers, recycle(b) PROVE [Fifo!Next]_(Fifo!vars)
  <2>1. life # "destroyed" /\ RecycleOne(b) /\ b \in out /\ out' = out \ {b} /\ batch' = batch
        /\ mb_stopping' = mb_stopping
    BY <1>3 DEF recycle
  <2>2. b \notin Handed
    BY <2>1 DEF IInv, OneOwner
  <2>3. PICK o \in Nat, k \in Nat : Cardinality(out) = o /\ Len(batch) = k
    BY <2>1, Counted
  <2>4. Cardinality(out') = o - 1 /\ Cardinality(out') \in Nat
    BY <2>1, <2>3, Counted, FS_RemoveElement, FS_CardinalityType
  <2>5. PICK p \in Nat : Cardinality(out') = p /\ p + k + 1 = o + k
    BY <2>3, <2>4
  <2>6. Cardinality(out) + Len(batch) = o + k /\ Len(batch') = k
    BY <2>1, <2>3
  <2> QED
    BY <2>1, <2>2, <2>3, <2>5, <2>6, RecycleStep
<1>4. ASSUME NEW bs \in Batches, RecycleBatchBegin(bs) PROVE [Fifo!Next]_(Fifo!vars)
  BY <1>4, BatchBeginStep
<1>5. CASE RecycleBatchStep
  <2>1. batch # <<>> /\ batch \in Seq(Buffers) /\ batch' = Tail(batch) /\ out' = out
        /\ RecycleOne(Head(batch)) /\ mb_stopping' = mb_stopping
    BY <1>5 DEF RecycleBatchStep, IInv, TypeOK
  <2>2. life # "destroyed"
    BY <2>1 DEF IInv, StopInv
  <2>3. /\ Head(batch) \in Buffers /\ Head(batch) \in Range(batch)
        /\ Len(Tail(batch)) = Len(batch) - 1
    BY <2>1, <2>2, TailInjective DEF IInv, OneOwner
  <2>4. Head(batch) \notin Handed
    BY <2>2, <2>3 DEF IInv, OneOwner
  <2>5. PICK o \in Nat, k \in Nat : Cardinality(out) = o /\ Len(batch) = k
    BY <2>2, Counted
  <2>6. k # 0
    BY <2>1, <2>5, EmptySeq
  <2>7. PICK l \in Nat : l = k - 1 /\ o + l + 1 = o + k
    BY <2>5, <2>6
  <2>8. /\ Len(batch') = l /\ Cardinality(out') = o
        /\ Cardinality(out) + Len(batch) = o + k
    BY <2>1, <2>3, <2>5, <2>7
  <2> QED
    BY <2>1, <2>2, <2>3, <2>4, <2>5, <2>7, <2>8, RecycleStep
<1>6. CASE stop_waiters \/ DestroyBegin
  BY <1>6, StopStep DEF stop_waiters, DestroyBegin
<1>7. CASE DestroyEnd
  BY <1>7, UnseenStep DEF DestroyEnd, waitVars
<1> QED
  BY <1>1, <1>2, <1>3, <1>4, <1>5, <1>6, <1>7 DEF Next, Gone

\* When allocation does not fail the pool implements the strict FIFO allocator: every
\* behaviour of acquire_buffer, both recycles and shutdown is one of a stock and a
\* queue (p8_core.hpp:139).
THEOREM FifoCorrect ==
    ASSUME AllocMayFail = FALSE
    PROVE  Spec => ImplementsFifo
<1>1. Init => Fifo!Init
  BY InitMaps
<1>2. IInv /\ [Next]_vars => [Fifo!Next]_(Fifo!vars)
  BY NextMaps
<1> QED
  BY <1>1, <1>2, IInvHolds, PTL DEF Spec, ImplementsFifo, Fifo!Spec
===============================================================================
