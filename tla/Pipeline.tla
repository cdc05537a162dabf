------------------------------- MODULE Pipeline -------------------------------
(***************************************************************************)
(* The path of a record through Protocol8.  A thread's writer (cp8_log or  *)
(* cp8_mtk over cp8_tls_writer) makes its descriptor known, takes buffers  *)
(* from the pool and fills them; the core's worker collects the buffers of *)
(* all writers, sends the descriptors and then the data to the sink and    *)
(* recycles the buffers; the last reference to the core stops the worker.  *)
(*                                                                         *)
(* The pool is the abstract allocator FifoAllocator, which BufferPool      *)
(* implements.  A data buffer is measured in cells; a record takes one or  *)
(* more and may continue in a second buffer.  A critical section of the    *)
(* writer's spin lock, of mo_svc_mutex, mo_ready_lock or the pool mutex is *)
(* one action; mo_log_desc_mutex and mo_writers_lock, which are held over  *)
(* several steps, are explicit.                                            *)
(***************************************************************************)
EXTENDS Integers, FiniteSets, Sequences, SequencesExt

CONSTANTS
    LogWriters,   \* cp8_log writers, one per thread
    MtkWriters,   \* cp8_mtk writers
    LogDescs,     \* log call sites
    MtkIds,       \* metrics
    HugeMtkIds,   \* metrics whose entry, with its attributes, exceeds a service buffer
    NoOne,        \* mo_log_desc_mutex is free
    Capacity,     \* buffers the budget allows
    BufCells,     \* cells of a data buffer behind its header
    LogSizes,     \* sizes of a log record, in cells
    MtkSize,      \* sizeof(s_p8_mtk_item_dat)
    HdrCells,     \* sizeof(s_p8_log_item_dat)
    MinSpace,     \* P8_LOG_MIN_BUFFER_SPACE
    SvcEntries,   \* descriptor entries a service buffer holds
    AllocMayFail, \* TRUE when the allocation of a log descriptor may fail
    MaxRecords,   \* bound: records all writers together try to send
    PressurePct   \* P8_CORE_FREE_MEM_PERCENT

Writers == LogWriters \cup MtkWriters
Descs   == LogDescs \cup MtkIds

ASSUME PipelineAssumption ==
    /\ IsFiniteSet(Writers) /\ NoOne \notin Writers
    /\ LogWriters \cap MtkWriters = {} /\ LogDescs \cap MtkIds = {} /\ HugeMtkIds \subseteq MtkIds
    /\ {Capacity, BufCells, MtkSize, HdrCells, MinSpace, SvcEntries} \subseteq Nat \ {0}
    /\ MinSpace + HdrCells <= BufCells /\ MtkSize <= BufCells
    \* a record continues in at most one further buffer, wherever it begins
    /\ LogSizes \subseteq HdrCells .. BufCells + HdrCells + MinSpace
    /\ MaxRecords \in Nat /\ PressurePct \in 0 .. 100 /\ AllocMayFail \in BOOLEAN

VARIABLES
    avail, queue, client, closed,  \* the pool, see FifoAllocator
    \* writers
    pc,           \* where each writer's thread is
    cur,          \* the record it is sending, as a sequence of zero or one records
    mo_desc_map,  \* log descriptors the writer has resolved
    mp_buffer,    \* its tail buffer, as a sequence of zero or one buffers
    mo_fragments, \* its finished buffers
    mu_buf_seq,
    mu_dropped,   \* mu_dropped_logs or mu_dropped_metrics of the writer
    \* core
    mp_writers,   \* the registry, head first
    mu_ref_count,
    owner_ref,    \* p8_release has not been called yet
    mo_log_desc_mutex,
    mo_log_descs, mo_mtk_descs,
    mo_svc_buffers,
    mo_ready_queue,
    mu_dropped_total, \* the core's drop accumulators
    mu_dropped_svc,
    mb_wake_pending,
    ev_wake, ev_stop, \* mo_worker_event
    \* worker
    wpc,
    lb_stop,   \* wait() returned mu_event_stop
    to_pull, lo_ready, lo_bufs,
    \* the two streams the sink has been given
    sink_svc, sink_data,
    \* history
    accepted,  \* records for which the API returned true
    discarded, \* records for which it returned false
    due        \* buffers there when the batch timestamp was taken that are not yet collected

poolVars   == <<avail, queue, client, closed>>
bufVars    == <<mp_buffer, mo_fragments, mu_buf_seq>>
recVars    == <<mu_dropped, accepted, discarded>>
coreVars   == <<mp_writers, mu_ref_count, owner_ref>>
descVars   == <<mo_log_desc_mutex, mo_log_descs, mo_mtk_descs, mo_desc_map>>
svcVars    == <<mo_svc_buffers, mu_dropped_svc>>
wakeVars   == <<mb_wake_pending, ev_wake>>
workerVars == <<wpc, lb_stop, to_pull, lo_ready, lo_bufs, due, sink_svc, sink_data>>
vars == <<poolVars, pc, cur, bufVars, recVars, coreVars, descVars, svcVars,
          mo_ready_queue, mu_dropped_total, wakeVars, ev_stop, workerVars>>

Pool == INSTANCE FifoAllocator WITH Threads <- Writers

\* A data buffer: its writer, its number, the cells used, the descriptors of the
\* records that begin in it, and P8_DATA_FLAG_FRAGMENT: the last one continues in the
\* writer's next buffer.
NewBuffer(w) == [w |-> w, seq |-> mu_buf_seq[w], used |-> 0, recs |-> <<>>, frag |-> FALSE]
Room(b)      == BufCells - b.used

\* A log buffer is given up below StartRoom when a record begins, and below EndRoom
\* when one ends; a metric buffer in both places when no item fits.
StartRoom(w) == IF w \in LogWriters THEN MinSpace + HdrCells ELSE MtkSize
EndRoom(w)   == IF w \in LogWriters THEN MinSpace ELSE MtkSize

Held(w)     == mo_fragments[w] \o mp_buffer[w]
Keys(s)     == {<<b.w, b.seq>> : b \in Range(s)}
OfWriter(s, w) == FlattenSeq([i \in DOMAIN s |-> IF s[i].w = w THEN <<s[i]>> ELSE <<>>])

\* The worker holds mo_writers_lock while it goes through the registry.
WritersLocked == wpc = "drain"

\* Places of a writer's thread: not constructed; outside the API; in resolve_log_desc
\* waiting for mo_log_desc_mutex; in acquire_buffer(true) for a service buffer, and back
\* from it; at the writer's spin lock; in acquire_buffer(true) for a data buffer, and back
\* from it; between the steps of ~cp8_tls_writer; destroyed.
InCall == {"resolve", "acquireSvc", "haveSvc", "lock", "acquire", "have"}
Places == {"unborn", "idle", "pushed", "counted", "gone"} \cup InCall
Goto(w, p) == pc' = [pc EXCEPT ![w] = p]
-------------------------------------------------------------------------------
Init ==
    /\ Pool!Init
    /\ pc = [w \in Writers |-> "unborn"]
    /\ cur = [w \in Writers |-> <<>>]
    /\ mo_desc_map = [w \in Writers |-> {}]
    /\ mp_buffer = [w \in Writers |-> <<>>] /\ mo_fragments = [w \in Writers |-> <<>>]
    /\ mu_buf_seq = [w \in Writers |-> 0] /\ mu_dropped = [w \in Writers |-> 0]
    /\ mp_writers = <<>> /\ mu_ref_count = 1 /\ owner_ref = TRUE
    /\ mo_log_desc_mutex = NoOne /\ mo_log_descs = {} /\ mo_mtk_descs = {}
    /\ mo_svc_buffers = <<>> /\ mo_ready_queue = <<>>
    /\ mu_dropped_total = 0 /\ mu_dropped_svc = 0
    /\ mb_wake_pending = FALSE /\ ev_wake = FALSE /\ ev_stop = FALSE
    /\ wpc = "wait" /\ lb_stop = FALSE /\ to_pull = <<>> /\ lo_ready = <<>> /\ lo_bufs = <<>>
    /\ sink_svc = <<>> /\ sink_data = [w \in Writers |-> <<>>]
    /\ accepted = [w \in Writers |-> 0] /\ discarded = [w \in Writers |-> 0]
    /\ due = {}
-------------------------------------------------------------------------------
(***************************************************************************)
(* Parts the writers' actions share.                                       *)
(***************************************************************************)

\* Only the thread that flips mb_wake_pending pays for the event.
notify_pressure ==
    /\ mb_wake_pending' = TRUE
    /\ ev_wake' = (ev_wake \/ ~mb_wake_pending)

\* acquire_buffer when the first try finds a buffer: the worker is woken when little
\* memory is left.
TakeBuffer(w) ==
    /\ Pool!Take(w)
    /\ IF (avail' * 100) \div Capacity < PressurePct THEN notify_pressure ELSE UNCHANGED wakeVars

\* release_buffer and release_buffers: n buffers go back to the pool.
ReleaseBuffers(n) == Pool!GiveBack(n)

\* Mutated form: the destructor refuses the waiters and does not stop the worker.
ReleaseWithoutStop ==
    /\ mu_ref_count' = mu_ref_count - 1
    /\ IF mu_ref_count = 1 THEN Pool!Close ELSE UNCHANGED poolVars
    /\ UNCHANGED ev_stop

\* cp8_core::release by a thread: the last reference destroys the core, which begins
\* with stop_worker: the waiters are refused and the worker is told to stop.
CoreRelease ==
    /\ mu_ref_count' = mu_ref_count - 1
    /\ IF mu_ref_count = 1 THEN Pool!Close /\ ev_stop' = TRUE
                           ELSE UNCHANGED <<poolVars, ev_stop>>

\* svc_reserve finds room in the current service buffer.
SvcRoom == mo_svc_buffers # <<>> /\ Len(Last(mo_svc_buffers)) < SvcEntries
SvcAppend(d)    == Append(Front(mo_svc_buffers), Append(Last(mo_svc_buffers), d))
SvcAppendNew(d) == Append(mo_svc_buffers, <<d>>)
-------------------------------------------------------------------------------
(***************************************************************************)
(* Writers.                                                                *)
(***************************************************************************)

\* Mutated form: the writer takes no reference to the core.
CreateWithoutReference(w) ==
    /\ pc[w] = "unborn" /\ owner_ref /\ ~WritersLocked
    /\ mp_writers' = <<w>> \o mp_writers
    /\ Goto(w, "idle")
    /\ UNCHANGED <<mu_ref_count, owner_ref, poolVars, cur, bufVars, recVars,
                   descVars, svcVars, mo_ready_queue, mu_dropped_total, wakeVars, ev_stop, workerVars>>

\* cp8_tls_writer's constructor, on a thread's first use of the API.
Create(w) ==
    /\ pc[w] = "unborn" /\ owner_ref /\ ~WritersLocked
    /\ mu_ref_count' = mu_ref_count + 1
    /\ mp_writers' = <<w>> \o mp_writers
    /\ Goto(w, "idle")
    /\ UNCHANGED <<owner_ref, poolVars, cur, bufVars, recVars, descVars,
                   svcVars, mo_ready_queue, mu_dropped_total, wakeVars, ev_stop, workerVars>>

\* Mutated form: a descriptor that found no buffer is not counted.
SvcEntryUncounted(w, m) ==
    \/ /\ m \notin HugeMtkIds /\ SvcRoom
       /\ mo_svc_buffers' = SvcAppend(m)
       /\ UNCHANGED <<poolVars, wakeVars, mu_dropped_svc>>
    \/ /\ m \notin HugeMtkIds /\ ~SvcRoom
       /\ TakeBuffer(w)
       /\ mo_svc_buffers' = SvcAppendNew(m)
       /\ UNCHANGED mu_dropped_svc
    \/ /\ m \in HugeMtkIds \/ (~SvcRoom /\ avail = 0)
       /\ UNCHANGED <<svcVars, poolVars, wakeVars>>

\* svc_reserve without a lock to give up: the entry is dropped when no buffer is free,
\* and also, without being counted, when it exceeds a whole buffer.
SvcEntryOrDrop(w, m) ==
    \/ /\ m \notin HugeMtkIds /\ SvcRoom
       /\ mo_svc_buffers' = SvcAppend(m)
       /\ UNCHANGED <<poolVars, wakeVars, mu_dropped_svc>>
    \/ /\ m \notin HugeMtkIds /\ ~SvcRoom
       /\ TakeBuffer(w)
       /\ mo_svc_buffers' = SvcAppendNew(m)
       /\ UNCHANGED mu_dropped_svc
    \/ /\ m \notin HugeMtkIds /\ ~SvcRoom /\ avail = 0
       /\ mu_dropped_svc' = mu_dropped_svc + 1
       /\ UNCHANGED <<mo_svc_buffers, poolVars, wakeVars>>
    \/ /\ m \in HugeMtkIds
       /\ UNCHANGED <<svcVars, poolVars, wakeVars>>

\* cp8_mtk::create of a new metric; an existing one is found and changes nothing.
register_mtk(w, m) ==
    /\ w \in MtkWriters /\ pc[w] = "idle" /\ m \notin mo_mtk_descs
    /\ mo_mtk_descs' = mo_mtk_descs \cup {m}
    /\ SvcEntryOrDrop(w, m)
    /\ UNCHANGED <<pc, cur, bufVars, recVars, coreVars, mo_log_desc_mutex,
                   mo_log_descs, mo_desc_map, mo_ready_queue, mu_dropped_total, ev_stop, workerVars>>

Sent == SumFunction([w \in Writers |-> accepted[w] + discarded[w] + Len(cur[w])])

\* cp8_log::send or cp8_mtk::emit is called, up to the resolve or to the spin lock.
Send(w, d, s) ==
    /\ pc[w] = "idle" /\ Sent < MaxRecords
    /\ \/ w \in LogWriters /\ d \in LogDescs /\ s \in LogSizes
          /\ Goto(w, IF d \in mo_desc_map[w] THEN "lock" ELSE "resolve")
       \/ w \in MtkWriters /\ d \in mo_mtk_descs /\ s = MtkSize
          /\ Goto(w, "lock")
    /\ cur' = [cur EXCEPT ![w] = <<[d |-> d, size |-> s]>>]
    /\ UNCHANGED <<poolVars, bufVars, recVars, coreVars, descVars, svcVars,
                   mo_ready_queue, mu_dropped_total, wakeVars, ev_stop, workerVars>>

\* The API returns true, or false with the writer's drop counter increased.
Accept(w) ==
    /\ accepted' = [accepted EXCEPT ![w] = @ + 1]
    /\ UNCHANGED <<mu_dropped, discarded>>
Drop(w) ==
    /\ mu_dropped' = [mu_dropped EXCEPT ![w] = @ + 1]
    /\ discarded' = [discarded EXCEPT ![w] = @ + 1]
    /\ UNCHANGED accepted

\* The descriptor is known to the core, and the writer caches it.
Resolved(w, d) ==
    /\ mo_log_descs' = mo_log_descs \cup {d}
    /\ mo_desc_map' = [mo_desc_map EXCEPT ![w] = @ \cup {d}]
    /\ mo_log_desc_mutex' = NoOne
    /\ Goto(w, "lock")

\* Mutated form: mo_log_desc_mutex is not held over the wait.
ResolveUnlocked(w) ==
    LET d == cur[w][1].d IN
    /\ pc[w] = "resolve" /\ mo_log_desc_mutex = NoOne
    /\ \/ /\ d \in mo_log_descs \/ SvcRoom
          /\ Resolved(w, d)
          /\ mo_svc_buffers' = IF d \in mo_log_descs THEN mo_svc_buffers ELSE SvcAppend(d)
       \/ /\ d \notin mo_log_descs /\ ~SvcRoom
          /\ Goto(w, "acquireSvc")
          /\ UNCHANGED <<mo_log_desc_mutex, mo_log_descs, mo_desc_map, mo_svc_buffers>>
    /\ UNCHANGED <<poolVars, cur, bufVars, recVars, coreVars, mo_mtk_descs,
                   mu_dropped_svc, mo_ready_queue, mu_dropped_total, wakeVars, ev_stop, workerVars>>

\* resolve_log_desc: a known descriptor is found; a new one is written to the current
\* service buffer and published, or waits for a service buffer with mo_log_desc_mutex held.
ResolveBegin(w) ==
    LET d == cur[w][1].d IN
    /\ pc[w] = "resolve" /\ mo_log_desc_mutex = NoOne
    /\ \/ /\ d \in mo_log_descs
          /\ Resolved(w, d)
          /\ UNCHANGED mo_svc_buffers
       \/ /\ d \notin mo_log_descs /\ SvcRoom
          /\ mo_svc_buffers' = SvcAppend(d)
          /\ Resolved(w, d)
       \/ /\ d \notin mo_log_descs /\ ~SvcRoom
          /\ mo_log_desc_mutex' = w
          /\ Goto(w, "acquireSvc")
          /\ UNCHANGED <<mo_log_descs, mo_desc_map, mo_svc_buffers>>
    /\ UNCHANGED <<poolVars, cur, bufVars, recVars, coreVars, mo_mtk_descs,
                   mu_dropped_svc, mo_ready_queue, mu_dropped_total, wakeVars, ev_stop, workerVars>>

\* resolve_log_desc cannot allocate the descriptor: the record is dropped, and the next
\* one of the call site tries again.
ResolveFail(w) ==
    /\ AllocMayFail
    /\ pc[w] = "resolve" /\ mo_log_desc_mutex = NoOne
    /\ cur[w][1].d \notin mo_log_descs
    /\ Drop(w)
    /\ Goto(w, "idle")
    /\ cur' = [cur EXCEPT ![w] = <<>>]
    /\ UNCHANGED <<poolVars, bufVars, coreVars, descVars, svcVars,
                   mo_ready_queue, mu_dropped_total, wakeVars, ev_stop, workerVars>>

\* mo_svc_mutex is locked again: the new buffer becomes the current one, the entry goes
\* into it and the descriptor is published.
ResolveEnd(w) ==
    /\ pc[w] = "haveSvc"
    /\ mo_svc_buffers' = SvcAppendNew(cur[w][1].d)
    /\ Resolved(w, cur[w][1].d)
    /\ UNCHANGED <<poolVars, cur, bufVars, recVars, coreVars, mo_mtk_descs,
                   mu_dropped_svc, mo_ready_queue, mu_dropped_total, wakeVars, ev_stop, workerVars>>

\* acquire_buffer(true), first critical section: the thread has its buffer, or goes on
\* to acquire_wait.
AcquireTry(w) ==
    /\ client[w] = "idle"
    /\ \/ /\ pc[w] = "acquire" /\ TakeBuffer(w) /\ Goto(w, "have")
       \/ /\ pc[w] = "acquireSvc" /\ TakeBuffer(w) /\ Goto(w, "haveSvc")
       \/ /\ pc[w] \in {"acquire", "acquireSvc"}
          /\ Pool!Ask(w) /\ notify_pressure
          /\ UNCHANGED pc
    /\ UNCHANGED <<cur, bufVars, recVars, coreVars, descVars, svcVars,
                   mo_ready_queue, mu_dropped_total, ev_stop, workerVars>>

\* acquire_wait: a buffer has come back meanwhile, the thread joins the queue, or it was
\* served and returns.  It is never turned away here, see CoreOutlivesUsers of Lifecycle.
AcquireWait(w) ==
    /\ \/ /\ client[w] = "asking" /\ Pool!Take(w)
          /\ Goto(w, IF pc[w] = "acquire" THEN "have" ELSE "haveSvc")
       \/ Pool!Enqueue(w) /\ UNCHANGED pc
       \/ /\ client[w] = "granted" /\ Pool!Return(w)
          /\ Goto(w, IF pc[w] = "acquire" THEN "have" ELSE "haveSvc")
    /\ UNCHANGED <<cur, bufVars, recVars, coreVars, descVars, svcVars,
                   mo_ready_queue, mu_dropped_total, wakeVars, ev_stop, workerVars>>

\* The writer keeps b as its tail behind frags, or parks it when too little room is left.
Keep(w, frags, b) ==
    LET full == Room(b) < EndRoom(w) IN
    /\ mo_fragments' = [mo_fragments EXCEPT ![w] = IF full THEN Append(frags, b) ELSE frags]
    /\ mp_buffer' = [mp_buffer EXCEPT ![w] = IF full THEN <<>> ELSE <<b>>]

\* The record fits into b, the tail buffer; n is the number the next buffer gets.
WriteWhole(w, b, n) ==
    LET r == cur[w][1] IN
    /\ r.size <= Room(b)
    /\ Keep(w, mo_fragments[w], [b EXCEPT !.used = @ + r.size, !.recs = Append(@, r.d)])
    /\ mu_buf_seq' = [mu_buf_seq EXCEPT ![w] = n]
    /\ Accept(w)
    /\ UNCHANGED <<poolVars, wakeVars>>

\* copy_fragmented runs over the end of b, and rotate_fragment_buffer gets a next buffer.
WriteFragmented(w, b, n) ==
    LET r     == cur[w][1]
        first == [b EXCEPT !.used = BufCells, !.recs = Append(@, r.d), !.frag = TRUE]
        next  == [NewBuffer(w) EXCEPT !.seq = n, !.used = r.size - Room(b)]
    IN  /\ r.size > Room(b)
        /\ TakeBuffer(w)
        /\ Keep(w, Append(mo_fragments[w], first), next)
        /\ mu_buf_seq' = [mu_buf_seq EXCEPT ![w] = n + 1]
        /\ Accept(w)

\* Mutated form: lbl_discard leaves the fragment flag on the buffer.
DiscardKeepsFlag(w, b, n) ==
    /\ cur[w][1].size > Room(b) /\ avail = 0
    /\ IF b.used = 0
       THEN /\ ReleaseBuffers(1)
            /\ mp_buffer' = [mp_buffer EXCEPT ![w] = <<>>]
            /\ mu_buf_seq' = [mu_buf_seq EXCEPT ![w] = n - 1]
       ELSE /\ mp_buffer' = [mp_buffer EXCEPT ![w] = <<[b EXCEPT !.frag = TRUE]>>]
            /\ mu_buf_seq' = [mu_buf_seq EXCEPT ![w] = n]
            /\ UNCHANGED <<poolVars>>
    /\ Drop(w)
    /\ UNCHANGED <<mo_fragments, wakeVars>>

\* Mutated form: lbl_discard does not give the buffer's number back.
DiscardKeepsNumber(w, b, n) ==
    /\ cur[w][1].size > Room(b) /\ avail = 0
    /\ IF b.used = 0
       THEN /\ ReleaseBuffers(1)
            /\ mp_buffer' = [mp_buffer EXCEPT ![w] = <<>>]
       ELSE /\ mp_buffer' = [mp_buffer EXCEPT ![w] = <<b>>]
            /\ UNCHANGED <<poolVars>>
    /\ mu_buf_seq' = [mu_buf_seq EXCEPT ![w] = n]
    /\ Drop(w)
    /\ UNCHANGED <<mo_fragments, wakeVars>>

\* lbl_discard: there is no next buffer.  A buffer taken for this record alone goes back
\* to the pool with its number; another one is cut where the record began.
Discard(w, b, n) ==
    /\ cur[w][1].size > Room(b) /\ avail = 0
    /\ IF b.used = 0
       THEN /\ ReleaseBuffers(1)
            /\ mp_buffer' = [mp_buffer EXCEPT ![w] = <<>>]
            /\ mu_buf_seq' = [mu_buf_seq EXCEPT ![w] = n - 1]
       ELSE /\ mp_buffer' = [mp_buffer EXCEPT ![w] = <<b>>]
            /\ mu_buf_seq' = [mu_buf_seq EXCEPT ![w] = n]
            /\ UNCHANGED <<poolVars>>
    /\ Drop(w)
    /\ UNCHANGED <<mo_fragments, wakeVars>>

\* The spin lock is taken: the record goes into the tail buffer, or that one is parked
\* and the thread unlocks to wait for a buffer.
LockWriter(w) ==
    /\ pc[w] = "lock"
    /\ IF mp_buffer[w] # <<>> /\ Room(mp_buffer[w][1]) >= StartRoom(w)
       THEN LET b == mp_buffer[w][1] IN
            /\ \/ WriteWhole(w, b, mu_buf_seq[w])
               \/ WriteFragmented(w, b, mu_buf_seq[w])
               \/ Discard(w, b, mu_buf_seq[w])
            /\ Goto(w, "idle")
            /\ cur' = [cur EXCEPT ![w] = <<>>]
       ELSE /\ mo_fragments' = [mo_fragments EXCEPT ![w] = Held(w)]
            /\ mp_buffer' = [mp_buffer EXCEPT ![w] = <<>>]
            /\ Goto(w, "acquire")
            /\ UNCHANGED <<mu_buf_seq, recVars, cur, poolVars, wakeVars>>
    /\ UNCHANGED <<coreVars, descVars, svcVars, mo_ready_queue, mu_dropped_total, ev_stop, workerVars>>

\* Back from acquire_buffer with the spin lock taken again: the new buffer gets the next
\* number and the record.
InstallBuffer(w) ==
    LET b == NewBuffer(w)
        n == mu_buf_seq[w] + 1
    IN  /\ pc[w] = "have"
        /\ WriteWhole(w, b, n) \/ WriteFragmented(w, b, n) \/ Discard(w, b, n)
        /\ Goto(w, "idle")
        /\ cur' = [cur EXCEPT ![w] = <<>>]
        /\ UNCHANGED <<coreVars, descVars, svcVars, mo_ready_queue, mu_dropped_total, ev_stop,
                       workerVars>>

\* Mutated form: the destructor pushes the finished buffers and forgets the tail.
ExitPushesFragmentsOnly(w) ==
    /\ pc[w] = "idle"
    /\ mo_ready_queue' = mo_ready_queue \o mo_fragments[w]
    /\ ev_wake' = (ev_wake \/ mo_fragments[w] # <<>>)
    /\ mo_fragments' = [mo_fragments EXCEPT ![w] = <<>>]
    /\ Goto(w, "pushed")
    /\ UNCHANGED <<poolVars, cur, mu_buf_seq, recVars, coreVars, descVars,
                   svcVars, mu_dropped_total, mb_wake_pending, ev_stop, workerVars, mp_buffer>>

\* ~cp8_tls_writer: core_push hands all buffers to the core and wakes the worker,
ExitPush(w) ==
    /\ pc[w] = "idle"
    /\ mo_ready_queue' = mo_ready_queue \o Held(w)
    /\ ev_wake' = (ev_wake \/ Held(w) # <<>>)
    /\ mo_fragments' = [mo_fragments EXCEPT ![w] = <<>>]
    /\ mp_buffer' = [mp_buffer EXCEPT ![w] = <<>>]
    /\ Goto(w, "pushed")
    /\ UNCHANGED <<poolVars, cur, mu_buf_seq, recVars, coreVars, descVars,
                   svcVars, mu_dropped_total, mb_wake_pending, ev_stop, workerVars>>

\* Mutated form: the drop counter is added and not reset.
ExitStatsTwice(w) ==
    /\ pc[w] = "pushed"
    /\ mu_dropped_total' = mu_dropped_total + mu_dropped[w]
    /\ Goto(w, "counted")
    /\ UNCHANGED <<poolVars, cur, bufVars, recVars, coreVars,
                   descVars, svcVars, mo_ready_queue, wakeVars, ev_stop, workerVars>>

\* accumulate_dropped(pull_dropped()) adds what it dropped to the core's accumulators,
ExitStats(w) ==
    /\ pc[w] = "pushed"
    /\ mu_dropped_total' = mu_dropped_total + mu_dropped[w]
    /\ mu_dropped' = [mu_dropped EXCEPT ![w] = 0]
    /\ Goto(w, "counted")
    /\ UNCHANGED <<poolVars, cur, bufVars, accepted, discarded, coreVars,
                   descVars, svcVars, mo_ready_queue, wakeVars, ev_stop, workerVars>>

\* and it leaves the registry and drops its reference.
ExitUnregister(w) ==
    /\ pc[w] = "counted" /\ ~WritersLocked
    /\ mp_writers' = RemoveFirst(mp_writers, w)
    /\ CoreRelease
    /\ Goto(w, "gone")
    /\ UNCHANGED <<owner_ref, cur, bufVars, recVars, descVars, svcVars,
                   mo_ready_queue, mu_dropped_total, wakeVars, workerVars>>

\* p8_release.
OwnerRelease ==
    /\ owner_ref
    /\ owner_ref' = FALSE
    /\ CoreRelease
    /\ UNCHANGED <<mp_writers, pc, cur, bufVars, recVars, descVars, svcVars,
                   mo_ready_queue, mu_dropped_total, wakeVars, workerVars>>
-------------------------------------------------------------------------------
(***************************************************************************)
(* worker_main.                                                            *)
(***************************************************************************)
producerVars == <<pc, cur, mu_buf_seq, accepted, discarded, coreVars, descVars, ev_stop>>

\* mo_worker_event.wait(P8_CORE_THREAD_TIMEOUT_MS): stop is a manual-reset event, wake
\* is reset by the wait.
WaitEvent ==
    /\ wpc = "wait"
    /\ \/ ev_stop /\ lb_stop' = TRUE /\ UNCHANGED ev_wake
       \/ ev_wake /\ lb_stop' = FALSE /\ ev_wake' = FALSE
       \/ ~ev_stop /\ ~ev_wake /\ lb_stop' = FALSE /\ UNCHANGED ev_wake
    /\ wpc' = "collect"
    /\ UNCHANGED <<producerVars, poolVars, mp_buffer, mo_fragments, mu_dropped,
                   svcVars, mo_ready_queue, mu_dropped_total, mb_wake_pending, to_pull, lo_ready,
                   lo_bufs, due, sink_svc, sink_data>>

\* collect_batch reads the batch timestamp and drain_writers locks the registry.
CollectBegin ==
    /\ wpc = "collect"
    /\ due' = (UNION {Keys(Held(w)) : w \in Writers}) \cup Keys(mo_ready_queue)
    /\ to_pull' = mp_writers
    /\ wpc' = "drain"
    /\ UNCHANGED <<producerVars, poolVars, mp_buffer, mo_fragments, mu_dropped,
                   svcVars, mo_ready_queue, mu_dropped_total, wakeVars, lb_stop, lo_ready, lo_bufs,
                   sink_svc, sink_data>>

\* Mutated form: pull leaves the tail buffer with the writer.
PullFragmentsOnly ==
    LET w == Head(to_pull) IN
    /\ wpc = "drain" /\ to_pull # <<>>
    /\ to_pull' = Tail(to_pull)
    /\ lo_ready' = lo_ready \o mo_fragments[w]
    /\ due' = due \ Keys(mo_fragments[w])
    /\ mo_fragments' = [mo_fragments EXCEPT ![w] = <<>>]
    /\ UNCHANGED <<producerVars, poolVars, mu_dropped, svcVars, mp_buffer,
                   mo_ready_queue, mu_dropped_total, wakeVars, wpc, lb_stop, lo_bufs,
                   sink_svc, sink_data>>

\* cp8_tls_writer::pull of the next writer of the registry.
Pull ==
    LET w == Head(to_pull) IN
    /\ wpc = "drain" /\ to_pull # <<>>
    /\ to_pull' = Tail(to_pull)
    /\ lo_ready' = lo_ready \o Held(w)
    /\ due' = due \ Keys(Held(w))
    /\ mo_fragments' = [mo_fragments EXCEPT ![w] = <<>>]
    /\ mp_buffer' = [mp_buffer EXCEPT ![w] = <<>>]
    /\ UNCHANGED <<producerVars, poolVars, mu_dropped, svcVars,
                   mo_ready_queue, mu_dropped_total, wakeVars, wpc, lb_stop, lo_bufs,
                   sink_svc, sink_data>>

\* The registry is unlocked and the buffers of writers that have exited join the batch.
CollectReady ==
    /\ wpc = "drain" /\ to_pull = <<>>
    /\ lo_ready' = lo_ready \o mo_ready_queue
    /\ due' = due \ Keys(mo_ready_queue)
    /\ mo_ready_queue' = <<>>
    /\ wpc' = "service"
    /\ UNCHANGED <<producerVars, poolVars, mp_buffer, mo_fragments, mu_dropped,
                   svcVars, mu_dropped_total, wakeVars, lb_stop, to_pull, lo_bufs,
                   sink_svc, sink_data>>

\* Mutated form: the service buffer that still has room stays with the core.
WriteServiceKeepsCurrent ==
    LET taken == IF SvcRoom THEN Front(mo_svc_buffers) ELSE mo_svc_buffers IN
    /\ wpc = "service"
    /\ lo_bufs' = taken
    /\ mo_svc_buffers' = IF SvcRoom THEN <<Last(mo_svc_buffers)>> ELSE <<>>
    /\ sink_svc' = sink_svc \o FlattenSeq(taken)
    /\ wpc' = "recycle"
    /\ UNCHANGED <<producerVars, poolVars, mp_buffer, mo_fragments, mu_dropped,
                   mu_dropped_svc, mo_ready_queue, mu_dropped_total, wakeVars, lb_stop, to_pull,
                   lo_ready, due, sink_data>>

\* All service buffers are taken under mo_svc_mutex and written to the sink.
WriteService ==
    /\ wpc = "service"
    /\ lo_bufs' = mo_svc_buffers
    /\ mo_svc_buffers' = <<>>
    /\ sink_svc' = sink_svc \o FlattenSeq(mo_svc_buffers)
    /\ wpc' = "recycle"
    /\ UNCHANGED <<producerVars, poolVars, mp_buffer, mo_fragments, mu_dropped,
                   mu_dropped_svc, mo_ready_queue, mu_dropped_total, wakeVars, lb_stop, to_pull,
                   lo_ready, due, sink_data>>

\* release_buffer of the next service buffer.
RecycleService ==
    /\ wpc = "recycle" /\ lo_bufs # <<>>
    /\ ReleaseBuffers(1)
    /\ lo_bufs' = Tail(lo_bufs)
    /\ UNCHANGED <<producerVars, mp_buffer, mo_fragments, mu_dropped, svcVars, mo_ready_queue,
                   mu_dropped_total, wakeVars, wpc, lb_stop, to_pull, lo_ready, due,
                   sink_svc, sink_data>>

\* When P8_CORE_STATS_POLL_INTERVAL_MS has passed, every registered writer's drop counter
\* is read and reset and the sum added to the core's accumulators.
poll_dropped_stats ==
    LET polled == Range(mp_writers) IN
    /\ mu_dropped_total' = mu_dropped_total + SumFunctionOnSet(mu_dropped, polled)
    /\ mu_dropped' = [w \in Writers |-> IF w \in polled THEN 0 ELSE mu_dropped[w]]

\* The poll, if it is time for it, and the clearing of mb_wake_pending.
ClearWakePending ==
    /\ wpc = "recycle" /\ lo_bufs = <<>>
    /\ poll_dropped_stats \/ UNCHANGED <<mu_dropped, mu_dropped_total>>
    /\ mb_wake_pending' = FALSE
    /\ wpc' = "flush"
    /\ UNCHANGED <<producerVars, poolVars, mp_buffer, mo_fragments, svcVars,
                   mo_ready_queue, ev_wake, lb_stop, to_pull, lo_ready, lo_bufs, due,
                   sink_svc, sink_data>>

\* Mutated form: the batch is written and not recycled.
FlushWithoutRelease ==
    /\ wpc = "flush"
    /\ sink_data' = [w \in Writers |-> sink_data[w] \o OfWriter(lo_ready, w)]
    /\ lo_ready' = <<>>
    /\ wpc' = IF lb_stop THEN "stopped" ELSE "wait"
    /\ UNCHANGED <<producerVars, mp_buffer, mo_fragments, mu_dropped, svcVars, mo_ready_queue,
                   mu_dropped_total, wakeVars, lb_stop, to_pull, lo_bufs, due, sink_svc, poolVars>>

\* flush_ready writes the batch and recycles its buffers; the loop ends after a stop.
flush_ready ==
    /\ wpc = "flush"
    /\ sink_data' = [w \in Writers |-> sink_data[w] \o OfWriter(lo_ready, w)]
    /\ ReleaseBuffers(Len(lo_ready))
    /\ lo_ready' = <<>>
    /\ wpc' = IF lb_stop THEN "stopped" ELSE "wait"
    /\ UNCHANGED <<producerVars, mp_buffer, mo_fragments, mu_dropped, svcVars, mo_ready_queue,
                   mu_dropped_total, wakeVars, lb_stop, to_pull, lo_bufs, due, sink_svc>>

WorkerStep ==
    \/ WaitEvent \/ CollectBegin \/ Pull \/ CollectReady \/ WriteService
    \/ RecycleService \/ ClearWakePending \/ flush_ready
-------------------------------------------------------------------------------
\* The steps inside an API call and inside the destructor of a thread's writer.
CallStep(w) ==
    \/ ResolveBegin(w) \/ ResolveFail(w) \/ ResolveEnd(w) \/ AcquireTry(w) \/ AcquireWait(w)
    \/ LockWriter(w) \/ InstallBuffer(w)

ExitStep(w) == ExitStats(w) \/ ExitUnregister(w)

WriterStep(w) ==
    \/ Create(w)
    \/ \E m \in MtkIds : register_mtk(w, m)
    \/ \E d \in Descs, s \in LogSizes \cup {MtkSize} : Send(w, d, s)
    \/ CallStep(w)
    \/ ExitPush(w)
    \/ ExitStep(w)

\* The worker has returned from worker_main and the core is destroyed.
Stopped == wpc = "stopped" /\ UNCHANGED vars

Next ==
    \/ \E w \in Writers : WriterStep(w)
    \/ OwnerRelease
    \/ WorkerStep
    \/ Stopped

Spec == Init /\ [][Next]_vars
-------------------------------------------------------------------------------
(***************************************************************************)
(* Fairness.  The threads of the process run: the worker's loop, whose     *)
(* wait is bounded by a timeout, and a thread that is inside a call or in  *)
(* the destructor of its writer.  A thread that waits for                  *)
(* mo_log_desc_mutex or mo_writers_lock gets it if it is free again and    *)
(* again.  Nothing obliges a thread to send or exit, or the owner to call  *)
(* p8_release.                                                             *)
(***************************************************************************)
Fairness ==
    /\ WF_vars(WorkerStep)
    /\ \A w \in Writers :
          /\ SF_vars(ResolveBegin(w))
          /\ WF_vars(CallStep(w))
          /\ SF_vars(ExitStep(w))

FairSpec == Spec /\ Fairness
-------------------------------------------------------------------------------
(***************************************************************************)
(* Properties.                                                             *)
(***************************************************************************)
Buffer == [w : Writers, seq : Nat, used : 0 .. BufCells, recs : Seq(Descs), frag : BOOLEAN]

\* Every variable has its type; in particular the writer's numbers and counters never go
\* below zero when a record is rolled back.
TypeOK ==
    /\ avail \in 0 .. Capacity
    /\ queue \in Seq(Writers)
    /\ client \in [Writers -> {"idle", "asking", "waiting", "granted", "refused"}]
    /\ {closed, owner_ref, mb_wake_pending, ev_wake, ev_stop, lb_stop} \subseteq BOOLEAN
    /\ pc \in [Writers -> Places]
    /\ cur \in [Writers -> Seq([d : Descs, size : Nat])]
    /\ mo_desc_map \in [Writers -> SUBSET LogDescs]
    /\ mp_buffer \in [Writers -> Seq(Buffer)]
    /\ mo_fragments \in [Writers -> Seq(Buffer)]
    /\ {mu_buf_seq, mu_dropped, accepted, discarded} \subseteq [Writers -> Nat]
    /\ mp_writers \in Seq(Writers) /\ to_pull \in Seq(Writers)
    /\ mu_ref_count \in 0 .. Cardinality(Writers) + 1
    /\ mo_log_desc_mutex \in LogWriters \cup {NoOne}
    /\ mo_log_descs \subseteq LogDescs /\ mo_mtk_descs \subseteq MtkIds
    /\ mo_svc_buffers \in Seq(Seq(Descs)) /\ lo_bufs \in Seq(Seq(Descs))
    /\ mo_ready_queue \in Seq(Buffer) /\ lo_ready \in Seq(Buffer)
    /\ mu_dropped_total \in Nat /\ mu_dropped_svc \in Nat
    /\ wpc \in {"wait", "collect", "drain", "service", "recycle", "flush", "stopped"}
    /\ sink_svc \in Seq(Descs) /\ sink_data \in [Writers -> Seq(Buffer)]
    /\ due \subseteq Writers \X Nat

\* The buffers of a writer from the first one it filled to its tail, wherever they are.
Stream(w) == sink_data[w] \o OfWriter(lo_ready, w) \o OfWriter(mo_ready_queue, w) \o Held(w)
RecordsOf(s) == FlattenSeq([i \in DOMAIN s |-> s[i].recs])
Pending == FlattenSeq(mo_svc_buffers)

\* The sink has a log record's descriptor before it gets the record ("no record goes out
\* before its descriptor", resolve_log_desc), whichever thread made the descriptor known;
\* and no metric sample overtakes its descriptor, unless that one was dropped for good.
DescFirst ==
    \A w \in Writers :
        LET sent == Range(RecordsOf(sink_data[w])) IN
        /\ sent \cap Range(Pending) = {}
        /\ w \in LogWriters => sent \subseteq Range(sink_svc)

\* A descriptor is sent once, however many threads meet the call site together, and the
\* only ones missing are metrics: those too large for a buffer, and those that found the
\* pool exhausted, each counted in mu_dropped_svc.
DescOnce ==
    /\ IsInjective(sink_svc \o Pending)
    /\ mo_log_descs \subseteq Range(sink_svc \o Pending)
    /\ Cardinality(mo_mtk_descs \ (HugeMtkIds \cup Range(sink_svc \o Pending))) = mu_dropped_svc

\* Two threads that meet a new call site together, with the service buffer full: one
\* announces the site for both, and neither sends a record before.
SharedSite ==
    /\ \A d \in LogDescs : Cardinality({i \in 1 .. Len(sink_svc \o Pending) : (sink_svc \o Pending)[i] = d}) < 2
    /\ \A w \in LogWriters : Range(RecordsOf(sink_data[w])) \subseteq Range(sink_svc)

\* No buffer of a writer is lost, duplicated or overtaken on any way to the sink (pulled,
\* pushed at exit, in flight): their numbers are 0, 1, 2, ... and a number given to a
\* rolled-back buffer is used again ("a gap means lost buffers", s_p8_data_buf_hdr).
StreamContiguous ==
    \A w \in Writers :
        /\ Len(Stream(w)) = mu_buf_seq[w]
        /\ \A i \in 1 .. Len(Stream(w)) : Stream(w)[i].seq = i - 1

\* A record is never cut by a batch boundary or by a rollback: behind a buffer flagged as
\* a fragment comes another one of its writer in the same batch.
RecordsWhole ==
    \A w \in Writers : \A s \in {sink_data[w], OfWriter(mo_ready_queue, w), Held(w)} :
        s # <<>> => ~Last(s).frag

\* Every buffer that existed when the batch timestamp was taken is in the batch, so
\* "buffers of later batches start at or after it" (s_p8_batch::mu_timestamp), also when
\* writers exit during the collection.
BatchFloor ==
    wpc \in {"service", "recycle", "flush"} => due = {}

\* Each buffer missing from the pool is in exactly one place: with a writer, granted or
\* taken and not installed, in the ready queue, in the batch or a service buffer.
PoolExact ==
    LET acquired == {w \in Writers : client[w] = "granted" \/ pc[w] \in {"have", "haveSvc"}}
    IN  Capacity - avail =
            SumFunction([w \in Writers |-> Len(Held(w))]) + Cardinality(acquired)
              + Len(mo_ready_queue) + Len(lo_ready) + Len(mo_svc_buffers) + Len(lo_bufs)

\* Every record the API refused is counted once, by its writer or by the core, and none of
\* the counts is lost when a thread exits while the worker polls.
DropsExact ==
    mu_dropped_total + SumFunction(mu_dropped) = SumFunction(discarded)

\* When the worker has stopped, every accepted record and every log descriptor is at the
\* sink, and every buffer back in the pool.
AllDelivered ==
    wpc = "stopped" =>
        /\ \A w \in Writers : Len(RecordsOf(sink_data[w])) = accepted[w]
        /\ mo_log_descs \subseteq Range(sink_svc)
        /\ avail = Capacity

\* A thread that calls the API comes back, although it may wait for buffers that only the
\* worker recycles.
SendReturns == \A w \in Writers : pc[w] \in InCall ~> pc[w] = "idle"

\* Accepted records reach the sink: it catches up with each writer, whose sends are bounded
\* here, whether or not that writer sends again or exits.
Delivered ==
    \A w \in Writers :
        Len(RecordsOf(sink_data[w])) < accepted[w] ~> Len(RecordsOf(sink_data[w])) = accepted[w]

\* The destructor's join returns.
StopCompletes == mu_ref_count = 0 ~> wpc = "stopped"

\* A producer that waits for a buffer has the worker's attention: the worker does not go
\* to sleep on it with its wake-up suppressed.
PressureHeard == wpc = "wait" /\ queue # <<>> => ev_wake \/ ev_stop
===============================================================================
