------------------------------ MODULE BufferPool ------------------------------
(***************************************************************************)
(* The data buffer pool of Protocol8 (p8_buffer_pool.cpp and .hpp), the    *)
(* memory budget it grows under (p8_memory_budget.cpp) and the way         *)
(* cp8_core::acquire_buffer uses them: a try under one lock of mo_mutex,   *)
(* then, for a blocking caller, acquire_wait under a second one.           *)
(*                                                                         *)
(* Every critical section of mo_mutex is one action guarded by             *)
(* mo_mutex = NoThread.  The two that other threads can observe half done  *)
(* keep the mutex over several steps: a batch recycle, and a woken waiter  *)
(* that has left the condition variable and has not unlocked yet.          *)
(***************************************************************************)
EXTENDS Integers, FiniteSets, Sequences, Functions

CONSTANTS
    Threads,      \* threads that acquire buffers (the writers)
    Worker,       \* the worker thread, the one that recycles batches
    NoThread,     \* mo_mutex is not held
    Buffers,      \* addresses operator new can return
    NoBuf,        \* nullptr
    BufferSize,   \* mz_buffer_size, in bytes
    MaxMemory,    \* mz_max of the budget, in bytes
    InitialCount, \* buffers init() is asked to pre-allocate
    CvCount,      \* mz_wait_cv_count, the number of condition variable shards
    AllocMayFail  \* TRUE when new(std::nothrow) may return nullptr

ASSUME PoolAssumption ==
    /\ IsFiniteSet(Threads)
    /\ Worker \notin Threads
    /\ NoThread \notin Threads \cup {Worker}
    /\ NoBuf \notin Buffers
    /\ BufferSize \in Nat \ {0}
    /\ MaxMemory \in Nat
    /\ InitialCount \in Nat
    /\ CvCount \in Nat \ {0}
    /\ AllocMayFail \in BOOLEAN

VARIABLES
    \* the pool
    mo_all,        \* every buffer the pool has allocated
    mo_free,       \* free list
    mu_used,       \* bytes reserved from the budget
    waiters,       \* mp_wait_head .. mp_wait_tail, oldest first
    mu_wait_count,
    mb_stopping,
    mu_cv_next,    \* kept modulo CvCount, which divides 2^32 in the code
    mu_inflight,
    mo_mutex,      \* the thread holding mo_mutex, or NoThread
    life,          \* "up", "destroying" (~cp8_buffer_pool entered), "destroyed"
    \* the callers
    pc,            \* where each thread is in acquire_buffer
    mp_buf,        \* s_waiter::mp_buf of each thread
    mb_done,       \* s_waiter::mb_done
    mp_cv,         \* s_waiter::mp_cv, as a shard index
    batch,         \* what is left of the list the worker is recycling
    out            \* buffers callers own: acquired and not given back

poolVars   == <<mo_all, mo_free, mu_used>>
waitVars   == <<waiters, mu_wait_count, mu_cv_next, mp_cv>>
vars == <<poolVars, waitVars, mb_stopping, mu_inflight, mo_mutex, life,
          pc, mp_buf, mb_done, batch, out>>

\* The places of a thread: not in a call; between the two critical sections of
\* acquire_buffer(true); blocked on its shard; woken and waiting for mo_mutex;
\* holding mo_mutex after wait() returned; past unlock() with the decrement of
\* mu_inflight still to do.
InWait == {"asleep", "notified", "woken", "leaving"}
Places == {"idle", "gap"} \cup InWait

\* Buffers a hand-off has put into a waiter's node and the waiter has not returned.
Handed == {mp_buf[t] : t \in {u \in Threads : mp_buf[u] # NoBuf}}
Inside == {t \in Threads : pc[t] \in InWait}

TypeOK ==
    /\ mo_all \subseteq Buffers
    /\ mo_free \in Seq(Buffers)
    /\ mu_used \in Nat
    /\ waiters \in Seq(Threads)
    /\ mu_wait_count \in Nat
    /\ mb_stopping \in BOOLEAN
    /\ mu_cv_next \in 0 .. CvCount - 1
    /\ mu_inflight \in Nat
    /\ mo_mutex \in Threads \cup {Worker, NoThread}
    /\ life \in {"up", "destroying", "destroyed"}
    /\ pc \in [Threads -> Places]
    /\ mp_buf \in [Threads -> Buffers \cup {NoBuf}]
    /\ mb_done \in [Threads -> BOOLEAN]
    /\ mp_cv \in [Threads -> 0 .. CvCount - 1]
    /\ batch \in Seq(Buffers)
    /\ out \subseteq Buffers
-------------------------------------------------------------------------------
\* The state after the constructor and init(InitialCount): as many buffers as the
\* budget allows, fewer only when an allocation failed.
Init ==
    /\ \E s \in UNION {[1 .. n -> Buffers] : n \in 0 .. InitialCount} :
          /\ IsInjective(s)
          /\ mo_free = s
          /\ mo_all = Range(s)
          /\ mu_used = Len(s) * BufferSize
          /\ mu_used <= MaxMemory
          /\ \/ Len(s) = InitialCount
             \/ MaxMemory - mu_used < BufferSize
             \/ AllocMayFail
    /\ waiters = <<>> /\ mu_wait_count = 0 /\ mu_cv_next = 0 /\ mu_inflight = 0
    /\ mb_stopping = FALSE /\ mo_mutex = NoThread /\ life = "up"
    /\ pc = [t \in Threads |-> "idle"]
    /\ mp_buf = [t \in Threads |-> NoBuf]
    /\ mb_done = [t \in Threads |-> FALSE]
    /\ mp_cv = [t \in Threads |-> 0]
    /\ batch = <<>> /\ out = {}

\* cp8_memory_budget::try_reserve(mz_buffer_size) would succeed.
CanReserve == mu_used <= MaxMemory /\ MaxMemory - mu_used >= BufferSize

\* acquire_no_lock returning b: the head of the free list, or a new buffer, which
\* is pushed on the empty free list and pulled from it at once.
acquire_no_lock(b) ==
    \/ /\ mo_free # <<>>
       /\ b = Head(mo_free)
       /\ mo_free' = Tail(mo_free)
       /\ UNCHANGED <<mo_all, mu_used>>
    \/ /\ mo_free = <<>>
       /\ CanReserve
       /\ b \in Buffers \ mo_all
       /\ mo_all' = mo_all \cup {b}
       /\ mu_used' = mu_used + BufferSize
       /\ UNCHANGED mo_free

\* Mutated form: the reservation of a failed allocation is kept.
RefusedKeepsReservation ==
    /\ mo_free = <<>>
    /\ \/ ~CanReserve /\ UNCHANGED mu_used
       \/ CanReserve /\ AllocMayFail /\ mu_used' = mu_used + BufferSize
    /\ UNCHANGED <<mo_all, mo_free>>

\* acquire_no_lock returning nullptr: over the cap, or the allocation failed and the
\* reservation was given back.
AcquireRefused ==
    /\ mo_free = <<>>
    /\ ~CanReserve \/ AllocMayFail
    /\ UNCHANGED poolVars

\* acquire_buffer's first critical section.  A refused non-blocking caller returns
\* nullptr and changes nothing, which is a stuttering step; a refused blocking
\* caller goes on to acquire_wait.
acquire_buffer(t) ==
    /\ life = "up" /\ pc[t] = "idle" /\ mo_mutex = NoThread
    /\ \/ /\ \E b \in Buffers : acquire_no_lock(b) /\ out' = out \cup {b}
          /\ UNCHANGED pc
       \/ AcquireRefused /\ pc' = [pc EXCEPT ![t] = "gap"] /\ UNCHANGED out
    /\ UNCHANGED <<waitVars, mb_stopping, mu_inflight, mo_mutex, life, mp_buf, mb_done, batch>>

\* Mutated form: a parked thread is not counted in mu_inflight.
ParkUncounted(t) ==
    /\ waiters' = Append(waiters, t)
    /\ mu_wait_count' = mu_wait_count + 1
    /\ mp_cv' = [mp_cv EXCEPT ![t] = mu_cv_next]
    /\ mu_cv_next' = (mu_cv_next + 1) % CvCount
    /\ pc' = [pc EXCEPT ![t] = "asleep"]
    /\ mp_buf' = [mp_buf EXCEPT ![t] = NoBuf]
    /\ mb_done' = [mb_done EXCEPT ![t] = FALSE]
    /\ UNCHANGED mu_inflight

\* acquire_wait up to the moment the thread is parked, which is one critical section:
\* wait() gives the mutex up only once the thread is on its shard.
Park(t) ==
    /\ waiters' = Append(waiters, t)
    /\ mu_wait_count' = mu_wait_count + 1
    /\ mu_inflight' = mu_inflight + 1
    /\ mp_cv' = [mp_cv EXCEPT ![t] = mu_cv_next]
    /\ mu_cv_next' = (mu_cv_next + 1) % CvCount
    /\ pc' = [pc EXCEPT ![t] = "asleep"]
    /\ mp_buf' = [mp_buf EXCEPT ![t] = NoBuf]
    /\ mb_done' = [mb_done EXCEPT ![t] = FALSE]

acquire_wait(t) ==
    /\ pc[t] = "gap" /\ mo_mutex = NoThread
    /\ \/ /\ \E b \in Buffers : acquire_no_lock(b) /\ out' = out \cup {b}
          /\ pc' = [pc EXCEPT ![t] = "idle"]
          /\ UNCHANGED <<waitVars, mu_inflight, mp_buf, mb_done>>
       \/ /\ AcquireRefused /\ mb_stopping
          /\ pc' = [pc EXCEPT ![t] = "idle"]
          /\ UNCHANGED <<waitVars, mu_inflight, mp_buf, mb_done, out>>
       \/ /\ AcquireRefused /\ ~mb_stopping
          /\ Park(t)
          /\ UNCHANGED out
    /\ UNCHANGED <<mb_stopping, mo_mutex, life, batch>>

\* std::condition_variable::wait may return without a notification.
SpuriousWake(t) ==
    /\ pc[t] = "asleep"
    /\ pc' = [pc EXCEPT ![t] = "notified"]
    /\ UNCHANGED <<poolVars, waitVars, mb_stopping, mu_inflight, mo_mutex, life,
                   mp_buf, mb_done, batch, out>>

\* A notified thread takes the mutex and evaluates the predicate: it keeps the mutex
\* if its node is done, and parks again otherwise.
WaitReturn(t) ==
    /\ pc[t] = "notified" /\ mo_mutex = NoThread
    /\ \/ mb_done[t] /\ pc' = [pc EXCEPT ![t] = "woken"] /\ mo_mutex' = t
       \/ ~mb_done[t] /\ pc' = [pc EXCEPT ![t] = "asleep"] /\ UNCHANGED mo_mutex
    /\ UNCHANGED <<poolVars, waitVars, mb_stopping, mu_inflight, life,
                   mp_buf, mb_done, batch, out>>

\* lo_lock.unlock(): the waiter still has to touch mu_inflight.
WaitUnlock(t) ==
    /\ pc[t] = "woken"
    /\ mo_mutex' = NoThread
    /\ pc' = [pc EXCEPT ![t] = "leaving"]
    /\ UNCHANGED <<poolVars, waitVars, mb_stopping, mu_inflight, life,
                   mp_buf, mb_done, batch, out>>

\* The decrement of mu_inflight and the return; the caller owns what it was handed.
WaitLeave(t) ==
    /\ pc[t] = "leaving"
    /\ mu_inflight' = mu_inflight - 1
    /\ pc' = [pc EXCEPT ![t] = "idle"]
    /\ out' = out \cup ({mp_buf[t]} \ {NoBuf})
    /\ mp_buf' = [mp_buf EXCEPT ![t] = NoBuf]
    /\ mb_done' = [mb_done EXCEPT ![t] = FALSE]
    /\ UNCHANGED <<poolVars, waitVars, mb_stopping, mo_mutex, life, batch>>
-------------------------------------------------------------------------------
\* Mutated form: notify_one, which may wake a thread that shares the shard.
NotifyOne(s) ==
    LET parked == {t \in Threads : pc[t] = "asleep" /\ mp_cv[t] = s}
    IN  IF parked = {} THEN UNCHANGED pc
        ELSE \E t \in parked : pc' = [pc EXCEPT ![t] = "notified"]

\* notify_all on shard s.
NotifyAll(s) ==
    pc' = [t \in Threads |-> IF pc[t] = "asleep" /\ mp_cv[t] = s THEN "notified" ELSE pc[t]]

\* Mutated form: the buffer is handed off and also put on the free list.
RecycleTwice(b) ==
    /\ mo_free' = Append(mo_free, b)
    /\ \/ mu_wait_count = 0 /\ UNCHANGED <<waiters, mu_wait_count, mp_buf, mb_done, pc>>
       \/ /\ mu_wait_count # 0
          /\ waiters' = Tail(waiters)
          /\ mu_wait_count' = mu_wait_count - 1
          /\ mp_buf' = [mp_buf EXCEPT ![Head(waiters)] = b]
          /\ mb_done' = [mb_done EXCEPT ![Head(waiters)] = TRUE]
          /\ NotifyAll(mp_cv[Head(waiters)])

\* Mutated form: the waiters are not looked at.
RecycleToFreeList(b) ==
    /\ mo_free' = Append(mo_free, b)
    /\ UNCHANGED <<waiters, mu_wait_count, mp_buf, mb_done, pc>>

\* Mutated form: the newest waiter is served.
RecycleNewestFirst(b) ==
    LET last == waiters[Len(waiters)] IN
    \/ /\ mu_wait_count = 0
       /\ mo_free' = Append(mo_free, b)
       /\ UNCHANGED <<waiters, mu_wait_count, mp_buf, mb_done, pc>>
    \/ /\ mu_wait_count # 0
       /\ waiters' = SubSeq(waiters, 1, Len(waiters) - 1)
       /\ mu_wait_count' = mu_wait_count - 1
       /\ mp_buf' = [mp_buf EXCEPT ![last] = b]
       /\ mb_done' = [mb_done EXCEPT ![last] = TRUE]
       /\ NotifyAll(mp_cv[last])
       /\ UNCHANGED mo_free

\* The body both recycle overloads run for each buffer: the oldest waiter gets it
\* (try_handoff_no_lock) and its shard is notified, or it goes to the free list.
RecycleOne(b) ==
    \/ /\ mu_wait_count = 0
       /\ mo_free' = Append(mo_free, b)
       /\ UNCHANGED <<waiters, mu_wait_count, mp_buf, mb_done, pc>>
    \/ /\ mu_wait_count # 0
       /\ waiters' = Tail(waiters)
       /\ mu_wait_count' = mu_wait_count - 1
       /\ mp_buf' = [mp_buf EXCEPT ![Head(waiters)] = b]
       /\ mb_done' = [mb_done EXCEPT ![Head(waiters)] = TRUE]
       /\ NotifyAll(mp_cv[Head(waiters)])
       /\ UNCHANGED mo_free

\* recycle(uint8_t *), from cp8_core::release_buffer.
recycle(b) ==
    /\ life = "up" /\ mo_mutex = NoThread
    /\ b \in out
    /\ out' = out \ {b}
    /\ RecycleOne(b)
    /\ UNCHANGED <<mo_all, mu_used, mu_cv_next, mp_cv, mb_stopping, mu_inflight,
                   mo_mutex, life, batch>>

\* The lists the worker can hold: a batch holds each outstanding buffer at most once.
Batches == UNION {[1 .. n -> out] : n \in 1 .. Cardinality(out)}

\* recycle(c_lst &), from cp8_core::release_buffers: the worker takes the mutex with
\* a list of buffers and keeps it until the list is empty.
RecycleBatchBegin(bs) ==
    /\ life = "up" /\ mo_mutex = NoThread
    /\ bs \in Batches /\ IsInjective(bs)
    /\ out' = out \ Range(bs)
    /\ batch' = bs
    /\ mo_mutex' = Worker
    /\ UNCHANGED <<poolVars, waitVars, mb_stopping, mu_inflight, life, pc, mp_buf, mb_done>>

RecycleBatchStep ==
    /\ batch # <<>>
    /\ RecycleOne(Head(batch))
    /\ batch' = Tail(batch)
    /\ mo_mutex' = IF Tail(batch) = <<>> THEN NoThread ELSE Worker
    /\ UNCHANGED <<mo_all, mu_used, mu_cv_next, mp_cv, mb_stopping, mu_inflight, life, out>>

\* Mutated form: mu_wait_count is not reset.
StopKeepsCount ==
    /\ mb_stopping' = TRUE
    /\ waiters' = <<>>
    /\ UNCHANGED mu_wait_count
    /\ mp_buf' = [t \in Threads |-> IF t \in Range(waiters) THEN NoBuf ELSE mp_buf[t]]
    /\ mb_done' = [t \in Threads |-> mb_done[t] \/ t \in Range(waiters)]
    /\ pc' = [t \in Threads |->
                 IF waiters # <<>> /\ pc[t] = "asleep" THEN "notified" ELSE pc[t]]

\* Mutated form: the shards are not notified.
StopSilently ==
    /\ mb_stopping' = TRUE
    /\ waiters' = <<>>
    /\ mu_wait_count' = 0
    /\ mp_buf' = [t \in Threads |-> IF t \in Range(waiters) THEN NoBuf ELSE mp_buf[t]]
    /\ mb_done' = [t \in Threads |-> mb_done[t] \/ t \in Range(waiters)]
    /\ UNCHANGED pc

\* stop_waiters: every queued node is done with a nullptr result, and every shard is
\* notified if there was a node.
StopWaitersBody ==
    /\ mb_stopping' = TRUE
    /\ waiters' = <<>>
    /\ mu_wait_count' = 0
    /\ mp_buf' = [t \in Threads |-> IF t \in Range(waiters) THEN NoBuf ELSE mp_buf[t]]
    /\ mb_done' = [t \in Threads |-> mb_done[t] \/ t \in Range(waiters)]
    /\ pc' = [t \in Threads |->
                 IF waiters # <<>> /\ pc[t] = "asleep" THEN "notified" ELSE pc[t]]

\* stop_waiters called by cp8_core::stop_worker.
stop_waiters ==
    /\ life = "up" /\ mo_mutex = NoThread
    /\ StopWaitersBody
    /\ UNCHANGED <<poolVars, mu_cv_next, mp_cv, mu_inflight, mo_mutex, life, batch, out>>

\* ~cp8_buffer_pool up to the barrier.  The owner deletes the pool only when no
\* thread is about to enter it (callers hold a core reference); parked threads are
\* allowed.
DestroyBegin ==
    /\ life = "up" /\ mo_mutex = NoThread
    /\ \A t \in Threads : pc[t] # "gap"
    /\ StopWaitersBody
    /\ life' = "destroying"
    /\ UNCHANGED <<poolVars, mu_cv_next, mp_cv, mu_inflight, mo_mutex, batch, out>>

\* Mutated form: the barrier is missing.
DestroyWithoutBarrier ==
    /\ life = "destroying"
    /\ mo_mutex = NoThread
    /\ life' = "destroyed"
    /\ mu_used' = mu_used - Cardinality(mo_all) * BufferSize
    /\ mo_all' = {} /\ mo_free' = <<>>
    /\ UNCHANGED <<waitVars, mb_stopping, mu_inflight, mo_mutex, pc, mp_buf, mb_done, batch, out>>

\* Past the spin on mu_inflight: the buffers, the reservation and the mutex are gone.
DestroyEnd ==
    /\ life = "destroying"
    /\ mu_inflight = 0
    /\ mo_mutex = NoThread
    /\ life' = "destroyed"
    /\ mu_used' = mu_used - Cardinality(mo_all) * BufferSize
    /\ mo_all' = {} /\ mo_free' = <<>>
    /\ UNCHANGED <<waitVars, mb_stopping, mu_inflight, mo_mutex, pc, mp_buf, mb_done, batch, out>>

\* Nothing happens after the pool is gone.
Gone == life = "destroyed" /\ UNCHANGED vars

Caller(t) ==
    \/ acquire_buffer(t) \/ acquire_wait(t) \/ SpuriousWake(t)
    \/ WaitReturn(t) \/ WaitUnlock(t) \/ WaitLeave(t)

Next ==
    \/ \E t \in Threads : Caller(t)
    \/ \E b \in Buffers : recycle(b)
    \/ \E bs \in Batches : RecycleBatchBegin(bs)
    \/ RecycleBatchStep
    \/ stop_waiters \/ DestroyBegin \/ DestroyEnd \/ Gone

Spec == Init /\ [][Next]_vars
-------------------------------------------------------------------------------
(***************************************************************************)
(* Fairness.  The threads of the process run, the mutex starves nobody     *)
(* that keeps asking (strong fairness where a step needs mo_mutex), and    *)
(* every buffer a caller owns comes back: the worker's cycle pulls every   *)
(* writer's buffers at least once per P8_CORE_THREAD_TIMEOUT_MS and        *)
(* recycles them.  Nothing is assumed about acquire_buffer, shutdown or    *)
(* spurious wake-ups.                                                      *)
(***************************************************************************)
Fairness ==
    /\ \A t \in Threads :
          /\ SF_vars(acquire_wait(t))
          /\ SF_vars(WaitReturn(t))
          /\ WF_vars(WaitUnlock(t))
          /\ WF_vars(WaitLeave(t))
    /\ \A b \in Buffers : SF_vars(recycle(b))
    /\ WF_vars(RecycleBatchStep)

FairSpec == Spec /\ Fairness
-------------------------------------------------------------------------------
(***************************************************************************)
(* Properties.                                                             *)
(***************************************************************************)

\* Until the destructor frees them, each buffer the pool allocated has exactly one
\* owner: the free list, the batch being recycled, one served waiter, or a caller.
\* Acquire, hand-off, batch recycle and shutdown never lose or duplicate one.
OneOwner ==
    life # "destroyed" =>
        /\ mo_all = Range(mo_free) \cup Range(batch) \cup Handed \cup out
        /\ IsInjective(mo_free) /\ IsInjective(batch)
        /\ \A t, u \in Threads : t # u /\ mp_buf[t] # NoBuf => mp_buf[t] # mp_buf[u]
        /\ Range(mo_free) \cap (Range(batch) \cup Handed \cup out) = {}
        /\ Range(batch) \cap (Handed \cup out) = {}
        /\ Handed \cap out = {}

\* The reservation is exactly the memory the pool has allocated, so a failed
\* allocation and the destructor give back what they took, and it stays under the cap.
BudgetExact ==
    /\ mu_used = Cardinality(mo_all) * BufferSize
    /\ mu_used <= MaxMemory

\* The waiter queue holds, once each, exactly the threads that are inside
\* acquire_wait and not served; mu_wait_count, which try_handoff_no_lock reads in
\* place of the queue, is its length; and mu_inflight counts every thread that still
\* has to touch the pool.
QueueExact ==
    /\ IsInjective(waiters)
    /\ mu_wait_count = Len(waiters)
    /\ \A t \in Threads :
          (t \in Range(waiters)) <=> (pc[t] \in {"asleep", "notified"} /\ ~mb_done[t])
    /\ mu_inflight = Cardinality(Inside)

\* A served or refused waiter is never left blocked on its condition variable: the
\* shard notified is the one it parked on.
NoLostWakeup == \A t \in Threads : pc[t] = "asleep" => ~mb_done[t]

\* Once the destructor has passed its barrier no thread is still inside acquire_wait,
\* not even between unlock() and the decrement of mu_inflight.
NoUseAfterDestroy == life = "destroyed" => Inside = {} /\ mo_mutex = NoThread

\* Nobody waits while a buffer could be had.
NoIdleStock == waiters # <<>> => mo_free = <<>> /\ ~CanReserve

\* No thread gets a buffer past the queue: while someone waits, a buffer reaches a
\* caller only through a hand-off ("strict-FIFO queue", p8_core.hpp:139).
NoBarging == [][waiters # <<>> => out' \ out \subseteq Handed]_vars

\* The pool implements the strict FIFO allocator.
Outcome(t) ==
    CASE pc[t] = "idle" -> "idle"
      [] pc[t] = "gap" -> "asking"
      [] pc[t] \in InWait /\ ~mb_done[t] -> "waiting"
      [] pc[t] \in InWait /\ mb_done[t] /\ mp_buf[t] # NoBuf -> "granted"
      [] OTHER -> "refused"

Fifo == INSTANCE FifoAllocator WITH
    Capacity <- MaxMemory \div BufferSize,
    avail    <- MaxMemory \div BufferSize - Cardinality(out) - Len(batch) - Cardinality(Handed),
    queue    <- waiters,
    client   <- [t \in Threads |-> Outcome(t)],
    closed   <- mb_stopping

ImplementsFifo == Fifo!Spec

\* A blocking acquire comes back: with a buffer, or refused by shutdown.
AcquireReturns == \A t \in Threads : pc[t] # "idle" ~> pc[t] = "idle"
-------------------------------------------------------------------------------
(***************************************************************************)
(* The inductive invariant of the proofs in BufferPool_proofs.             *)
(***************************************************************************)

\* Where a waiter's node stands with respect to its thread.
NodeInv ==
    \A t \in Threads :
        /\ pc[t] \in {"woken", "leaving"} => mb_done[t]
        /\ pc[t] \in {"idle", "gap"} => ~mb_done[t]
        /\ ~mb_done[t] => mp_buf[t] = NoBuf

\* Who holds the mutex over several steps.
MutexInv ==
    /\ \A t \in Threads : mo_mutex = t <=> pc[t] = "woken"
    /\ mo_mutex = Worker <=> batch # <<>>

\* What shutdown leaves behind.
StopInv ==
    /\ mb_stopping => waiters = <<>>
    /\ life # "up" => mb_stopping /\ \A t \in Threads : pc[t] # "gap"
    /\ life # "up" => batch = <<>>
    /\ life = "destroyed" => mo_free = <<>>

IInv ==
    /\ TypeOK
    /\ IsFiniteSet(mo_all)
    /\ OneOwner /\ BudgetExact /\ QueueExact
    /\ NoLostWakeup /\ NoUseAfterDestroy
    /\ NodeInv /\ MutexInv /\ StopInv
===============================================================================
