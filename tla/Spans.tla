-------------------------------- MODULE Spans ---------------------------------
(***************************************************************************)
(* Trace spans (p8_trc.cpp): span identifiers taken from the core in       *)
(* blocks, the stack of open spans that gives p8_trc_begin its parent,     *)
(* begin and end records, and the way they reach the sink in batches whose *)
(* timestamp tells the reader what is complete.                            *)
(*                                                                         *)
(* The buffers of a writer are the sequence of the records in them; how    *)
(* they are taken, filled and numbered is the subject of Pipeline.  A call *)
(* is one action: of what it does, other threads see the fetch_add of the  *)
(* core's counter and the record, which is written under the writer's spin *)
(* lock, and the two may be seen in any order.                             *)
(***************************************************************************)
EXTENDS Integers, FiniteSets, Sequences, SequencesExt

CONSTANTS
    Threads,  \* threads that trace
    Block,    \* P8_CORE_SPAN_ID_BLOCK
    MaxSpans, \* bound: calls of begin
    MaxCalls, \* bound: calls of begin and end together
    MaxAsync  \* bound: asynchronous spans

ASSUME SpansAssumption ==
    /\ Block \in Nat \ {0}
    /\ {MaxSpans, MaxCalls, MaxAsync} \subseteq Nat

\* P8_INVALID_SPAN and P8_NO_PARENT_SPAN.  A span identifier is bit 63 (P8_ASYNC_SPAN_BIT)
\* and the number below it; a record has a type, an id, a parent and a timestamp.
NoSpan == [async |-> FALSE, n |-> 0]

VARIABLES
    mu_span_id_seq,  \* of the core
    mu_next_span_id, mu_end_span_id, mo_open_spans, \* of each thread's cp8_trc
    mu_dropped_traces,
    gone,            \* threads that have exited
    held,            \* records in the writer's buffers
    mo_ready_queue,  \* records of each thread in the buffers left by an exit
    \* worker
    wpc, to_pull,
    lo_ready,        \* records of each thread in the batch
    lu_ts,           \* timestamp of the batch being collected
    \* what the sink has been given
    sink,            \* the records of each thread
    settled,         \* mu_timestamp of the last batch
    ticks,           \* get_ticks()
    \* history
    issued,          \* numbers taken for identifiers, in the order they were taken
    handles,         \* identifiers the API has returned
    ends             \* calls of end

idVars     == <<mu_span_id_seq, mu_next_span_id, mu_end_span_id, issued>>
writerVars == <<mo_open_spans, mu_dropped_traces, gone, handles, ends>>
workerVars == <<wpc, to_pull, lo_ready, lu_ts, sink, settled>>
vars == <<idVars, writerVars, held, mo_ready_queue, workerVars, ticks>>

InitIds ==
    /\ mu_span_id_seq = 1
    /\ mu_next_span_id = [t \in Threads |-> 0] /\ mu_end_span_id = [t \in Threads |-> 0]

Init ==
    /\ InitIds
    /\ issued = <<>>
    /\ mo_open_spans = [t \in Threads |-> <<>>]
    /\ mu_dropped_traces = [t \in Threads |-> 0]
    /\ gone = {} /\ handles = {} /\ ends = 0
    /\ held = [t \in Threads |-> <<>>] /\ mo_ready_queue = [t \in Threads |-> <<>>]
    /\ wpc = "wait" /\ to_pull = {} /\ lo_ready = [t \in Threads |-> <<>>] /\ lu_ts = 0
    /\ sink = [t \in Threads |-> <<>>] /\ settled = 0
    /\ ticks = 0
-------------------------------------------------------------------------------
\* Mutated form: blocks overlap by one identifier.
ReserveOverlapping(t) ==
    /\ mu_span_id_seq' = mu_span_id_seq + Block - 1
    /\ mu_next_span_id' = [mu_next_span_id EXCEPT ![t] = mu_span_id_seq + 1]
    /\ mu_end_span_id' = [mu_end_span_id EXCEPT ![t] = mu_span_id_seq + Block]

\* reserve_span_ids, and the first identifier of the block is taken.
Reserve(t) ==
    /\ mu_span_id_seq' = mu_span_id_seq + Block
    /\ mu_next_span_id' = [mu_next_span_id EXCEPT ![t] = mu_span_id_seq + 1]
    /\ mu_end_span_id' = [mu_end_span_id EXCEPT ![t] = mu_span_id_seq + Block]

\* The next identifier of t, from a new block when its own is used up.
NextId(t) ==
    IF mu_next_span_id[t] = mu_end_span_id[t] THEN mu_span_id_seq ELSE mu_next_span_id[t]

TakeId(t) ==
    \/ /\ mu_next_span_id[t] = mu_end_span_id[t]
       /\ Reserve(t)
    \/ /\ mu_next_span_id[t] # mu_end_span_id[t]
       /\ mu_next_span_id' = [mu_next_span_id EXCEPT ![t] = @ + 1]
       /\ UNCHANGED <<mu_span_id_seq, mu_end_span_id>>

\* The parent p8_trc_begin gives its span.
Innermost(t) == IF mo_open_spans[t] = <<>> THEN NoSpan ELSE Last(mo_open_spans[t])

\* A record gets its timestamp and joins the writer's buffers under its lock.
Write(t, type, id, parent) ==
    /\ held' = [held EXCEPT ![t] =
          Append(@, [type |-> type, id |-> id, parent |-> parent, ts |-> ticks])]
    /\ ticks' = ticks + 1

\* write_begin: the identifier is taken and the record written.  The descriptor of the call
\* site is resolved first, which fails only on shutdown.
write_begin(t, type, id, parent) ==
    /\ t \notin gone /\ Len(issued) < MaxSpans /\ Len(issued) + ends < MaxCalls
    /\ TakeId(t)
    /\ issued' = Append(issued, id.n)
    /\ Write(t, type, id, parent)
    /\ handles' = handles \cup {id}
    /\ UNCHANGED <<mu_dropped_traces, gone, ends, mo_ready_queue, workerVars>>

begin(t) ==
    LET id == [async |-> FALSE, n |-> NextId(t)] IN
    /\ write_begin(t, "begin", id, Innermost(t))
    /\ mo_open_spans' = [mo_open_spans EXCEPT ![t] = Append(@, id)]

begin_async(t, parent) ==
    /\ Cardinality({id \in handles : id.async}) < MaxAsync
    /\ write_begin(t, "begin_async", [async |-> TRUE, n |-> NextId(t)], parent)
    /\ UNCHANGED mo_open_spans

\* Mutated form: the identifier of a dropped record is returned.
DiscardReturnsId(t) ==
    /\ t \notin gone /\ Len(issued) < MaxSpans /\ Len(issued) + ends < MaxCalls
    /\ TakeId(t)
    /\ issued' = Append(issued, NextId(t))
    /\ mu_dropped_traces' = [mu_dropped_traces EXCEPT ![t] = @ + 1]
    /\ handles' = handles \cup {[async |-> FALSE, n |-> NextId(t)]}
    /\ UNCHANGED <<mo_open_spans, gone, ends, held, mo_ready_queue, workerVars, ticks>>

\* write_begin, of either kind, ending in lbl_discard: the attributes found no further
\* buffer, the identifier is lost and P8_INVALID_SPAN returned.
DiscardBegin(t) ==
    /\ t \notin gone /\ Len(issued) < MaxSpans /\ Len(issued) + ends < MaxCalls
    /\ TakeId(t)
    /\ issued' = Append(issued, NextId(t))
    /\ mu_dropped_traces' = [mu_dropped_traces EXCEPT ![t] = @ + 1]
    /\ UNCHANGED <<mo_open_spans, gone, handles, ends, held, mo_ready_queue, workerVars, ticks>>

\* Mutated form: only the span itself leaves the stack.
PopOnlySpan(open, id) == SelectSeq(open, LAMBDA s : s # id)

\* pop_span: the span leaves the stack with the spans opened inside it; a span that is not
\* there leaves the stack as it is.
pop_span(open, id) ==
    IF \E i \in DOMAIN open : open[i] = id
    THEN SubSeq(open, 1, (CHOOSE i \in DOMAIN open : open[i] = id) - 1)
    ELSE open

\* end of a span that some begin returned, on any thread and any number of times; the
\* record waits for a buffer if it has to, and is never dropped before shutdown.
end(t, id) ==
    /\ t \notin gone /\ Len(issued) + ends < MaxCalls
    /\ id \in handles
    /\ mo_open_spans' = IF id.async THEN mo_open_spans
                        ELSE [mo_open_spans EXCEPT ![t] = pop_span(@, id)]
    /\ Write(t, "end", id, NoSpan)
    /\ ends' = ends + 1
    /\ UNCHANGED <<idVars, mu_dropped_traces, gone, handles, mo_ready_queue, workerVars>>

\* The thread exits: core_push.
Exit(t) ==
    /\ t \notin gone
    /\ gone' = gone \cup {t}
    /\ mo_ready_queue' = [mo_ready_queue EXCEPT ![t] = held[t]]
    /\ held' = [held EXCEPT ![t] = <<>>]
    /\ UNCHANGED <<idVars, mo_open_spans, mu_dropped_traces, handles, ends, workerVars, ticks>>
-------------------------------------------------------------------------------
\* collect_batch reads the batch timestamp first; the margin it subtracts is taken as 0.
CollectBegin ==
    /\ wpc = "wait"
    /\ lu_ts' = ticks
    /\ to_pull' = Threads
    /\ wpc' = "drain"
    /\ UNCHANGED <<idVars, writerVars, held, mo_ready_queue, lo_ready, sink, settled, ticks>>

Pull(t) ==
    /\ wpc = "drain" /\ t \in to_pull
    /\ to_pull' = to_pull \ {t}
    /\ lo_ready' = [lo_ready EXCEPT ![t] = held[t]]
    /\ held' = [held EXCEPT ![t] = <<>>]
    /\ UNCHANGED <<idVars, writerVars, mo_ready_queue, wpc, lu_ts, sink, settled, ticks>>

\* Mutated form: the batch timestamp is read after the writers were drained.
FlushStampsLate ==
    LET batch == [t \in Threads |-> lo_ready[t] \o mo_ready_queue[t]] IN
    /\ wpc = "drain" /\ to_pull = {}
    /\ mo_ready_queue' = [t \in Threads |-> <<>>]
    /\ sink' = [t \in Threads |-> sink[t] \o batch[t]]
    /\ settled' = ticks
    /\ lo_ready' = [t \in Threads |-> <<>>] /\ lu_ts' = 0
    /\ wpc' = "wait"
    /\ UNCHANGED <<idVars, writerVars, held, to_pull, ticks>>

\* The buffers of writers that have exited join the batch, and flush_ready sends it with
\* its timestamp; an empty batch is sent only now and then.
flush_ready ==
    LET batch == [t \in Threads |-> lo_ready[t] \o mo_ready_queue[t]] IN
    /\ wpc = "drain" /\ to_pull = {}
    /\ mo_ready_queue' = [t \in Threads |-> <<>>]
    /\ sink' = [t \in Threads |-> sink[t] \o batch[t]]
    /\ \/ settled' = lu_ts
       \/ (\A t \in Threads : batch[t] = <<>>) /\ UNCHANGED settled
    /\ lo_ready' = [t \in Threads |-> <<>>] /\ lu_ts' = 0
    /\ wpc' = "wait"
    /\ UNCHANGED <<idVars, writerVars, held, to_pull, ticks>>

TraceStep(t) ==
    \/ begin(t)
    \/ \E parent \in handles \cup {NoSpan} : begin_async(t, parent)
    \/ DiscardBegin(t)
    \/ \E id \in handles : end(t, id)
    \/ Exit(t)

WorkerStep == CollectBegin \/ (\E t \in Threads : Pull(t)) \/ flush_ready

Next == (\E t \in Threads : TraceStep(t)) \/ WorkerStep

Spec == Init /\ [][Next]_vars
-------------------------------------------------------------------------------
(***************************************************************************)
(* Properties.                                                             *)
(***************************************************************************)

\* All records of a thread, in the order it wrote them, wherever they are.
Stream(t) == sink[t] \o lo_ready[t] \o mo_ready_queue[t] \o held[t]
Begun(rs) == {r.id : r \in {q \in rs : q.type # "end"}}
Ended(rs) == {r.id : r \in {q \in rs : q.type = "end"}}

\* "span ID, unique in the process" (p8_trc_begin): no identifier is given twice, though
\* threads take them from blocks of their own and the core's counter concurrently.
UniqueSpans == IsInjective(issued)

\* Every end record belongs to a begin record: the identifier of a dropped begin reaches
\* no caller, a record that reached a buffer stays there, and a span that began never has
\* the identifier that stands for a failed begin, which p8_trc_end ignores.
EndHasBegin ==
    LET written == UNION {Range(Stream(t)) : t \in Threads}
    IN  /\ handles = Begun(written) /\ NoSpan \notin handles
        /\ Ended(written) \subseteq handles

\* A reader that takes the records up to the timestamp of the last batch has the begin of
\* every span it meets an end or a child of, although the three may come from different
\* threads and in different batches ("buffers of later batches start at or after it").
SpanOrder ==
    LET sent == UNION {Range(sink[t]) : t \in Threads}
        due  == {r \in sent : r.ts < settled}
    IN  Ended(due) \cup {r.parent : r \in due} \subseteq Begun(sent) \cup {NoSpan}

\* What a reader knows of a thread after the first n records of its stream s: the places
\* of the spans that are open, where the end of a span also ends those inside it.
OpenIn(s) ==
    LET open[n \in 0 .. Len(s)] ==
            CASE n = 0 -> {}
              [] n > 0 /\ s[n].type = "begin" -> open[n - 1] \cup {n}
              [] n > 0 /\ s[n].type = "begin_async" -> open[n - 1]
              [] OTHER -> {i \in open[n - 1] :
                             \A j \in open[n - 1] : s[j].id = s[n].id => i < j}
    IN  open

\* "Its parent is the innermost open span of this thread" (p8_trc_begin): the parent in
\* each begin record is the one the thread's own records imply, also after ends that
\* were out of order, repeated or made on another thread.
ParentIsInnermost ==
    \A t \in Threads :
        LET s    == Stream(t)
            open == OpenIn(s)
        IN  \A n \in 1 .. Len(s) : s[n].type = "begin" =>
               s[n].parent = IF open[n - 1] = {} THEN NoSpan ELSE s[Max(open[n - 1])].id
===============================================================================
