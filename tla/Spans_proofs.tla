----------------------------- MODULE Spans_proofs -----------------------------
(***************************************************************************)
(* Proofs about Spans for any number of threads, any block size and any    *)
(* bound on the calls: identifiers are unique, every end has its begin, a  *)
(* batch's timestamp tells the reader what is complete, and a span's parent *)
(* is the innermost open span of its thread.                               *)
(***************************************************************************)
EXTENDS Spans, FoldTheorems, SequenceTheorems, TLAPS

\* The identifiers a thread still has in its block.
Reserved(t) == {n \in Nat : mu_next_span_id[t] <= n /\ n < mu_end_span_id[t]}

CounterTypes ==
    /\ mu_span_id_seq \in Nat
    /\ mu_next_span_id \in [Threads -> Nat] /\ mu_end_span_id \in [Threads -> Nat]

\* Blocks lie below the counter, in order and without overlap.
BlocksInv ==
    /\ \A t \in Threads : mu_next_span_id[t] <= mu_end_span_id[t]
    /\ \A t \in Threads : mu_end_span_id[t] <= mu_span_id_seq
    /\ \A t, u \in Threads : t # u =>
          \/ mu_end_span_id[t] <= mu_next_span_id[u]
          \/ mu_end_span_id[u] <= mu_next_span_id[t]

\* What was issued lies below the counter and in no thread's block.
IssuedInv ==
    /\ issued \in Seq(Nat)
    /\ \A i \in DOMAIN issued :
          /\ issued[i] < mu_span_id_seq
          /\ \A t \in Threads : issued[i] \notin Reserved(t)

IdInv == CounterTypes /\ BlocksInv /\ IssuedInv /\ UniqueSpans

\* Appending a new element keeps a sequence free of repetitions.
LEMMA AppendUnissued ==
    ASSUME NEW s \in Seq(Nat), NEW e \in Nat, IsInjective(s),
           \A i \in DOMAIN s : s[i] # e
    PROVE  /\ Append(s, e) \in Seq(Nat)
           /\ IsInjective(Append(s, e))
           /\ \A i \in DOMAIN Append(s, e) :
                 (i \in DOMAIN s /\ Append(s, e)[i] = s[i]) \/ Append(s, e)[i] = e
<1>1. /\ Append(s, e) \in Seq(Nat)
      /\ Len(Append(s, e)) = Len(s) + 1
      /\ \A i \in 1 .. Len(s) : Append(s, e)[i] = s[i]
      /\ Append(s, e)[Len(s) + 1] = e
  BY AppendProperties
<1>2. Len(s) \in Nat /\ DOMAIN s = 1 .. Len(s) /\ DOMAIN Append(s, e) = 1 .. Len(s) + 1
  BY <1>1, LenProperties
<1>3. IsInjective(Append(s, e))
  BY <1>1, <1>2 DEF IsInjective
<1>4. \A i \in DOMAIN Append(s, e) :
         (i \in DOMAIN s /\ Append(s, e)[i] = s[i]) \/ Append(s, e)[i] = e
  BY <1>1, <1>2
<1> QED
  BY <1>1, <1>3, <1>4

\* One identifier taken by t: the blocks stay apart, and what was below the counter and in
\* no block stays there, now with the identifier taken.
LEMMA TakeIdBlocks ==
    ASSUME CounterTypes, BlocksInv, NEW t \in Threads, TakeId(t)
    PROVE  /\ CounterTypes' /\ BlocksInv'
           /\ NextId(t) \in Nat
           /\ NextId(t) < mu_span_id_seq => NextId(t) \in Reserved(t)
           /\ mu_span_id_seq <= mu_span_id_seq' /\ NextId(t) < mu_span_id_seq'
           /\ \A u \in Threads : NextId(t) \notin Reserved(u)'
           /\ \A u \in Threads : \A m \in Nat :
                 m < mu_span_id_seq /\ m \notin Reserved(u) => m \notin Reserved(u)'
<1>1. CASE mu_next_span_id[t] = mu_end_span_id[t]
  BY <1>1, SpansAssumption DEF CounterTypes, BlocksInv, TakeId, Reserve, NextId, Reserved
<1>2. CASE mu_next_span_id[t] # mu_end_span_id[t]
  BY <1>2 DEF CounterTypes, BlocksInv, TakeId, NextId, Reserved
<1> QED
  BY <1>1, <1>2

\* Taking an identifier and issuing it keeps the numbers in order.
LEMMA TakeIdStep ==
    ASSUME IdInv, NEW t \in Threads, TakeId(t), issued' = Append(issued, NextId(t))
    PROVE  IdInv'
<1> DEFINE n == NextId(t)
<1>1. /\ CounterTypes' /\ BlocksInv'
      /\ n \in Nat
      /\ n < mu_span_id_seq => n \in Reserved(t)
      /\ mu_span_id_seq <= mu_span_id_seq' /\ n < mu_span_id_seq'
      /\ \A u \in Threads : n \notin Reserved(u)'
      /\ \A u \in Threads : \A m \in Nat :
            m < mu_span_id_seq /\ m \notin Reserved(u) => m \notin Reserved(u)'
  BY TakeIdBlocks DEF IdInv
<1> HIDE DEF n
<1>2. \A i \in DOMAIN issued : issued[i] # n
  BY <1>1 DEF IdInv, IssuedInv
<1>3. /\ issued' \in Seq(Nat)
      /\ UniqueSpans'
      /\ \A i \in DOMAIN issued' : (i \in DOMAIN issued /\ issued'[i] = issued[i]) \/ issued'[i] = n
  <2>1. issued' = Append(issued, n)
    BY DEF n
  <2>2. issued \in Seq(Nat) /\ IsInjective(issued)
    BY DEF UniqueSpans, IdInv, IssuedInv
  <2>3. /\ Append(issued, n) \in Seq(Nat)
        /\ IsInjective(Append(issued, n))
        /\ \A i \in DOMAIN Append(issued, n) :
              (i \in DOMAIN issued /\ Append(issued, n)[i] = issued[i]) \/ Append(issued, n)[i] = n
    BY <2>2, <1>1, <1>2, AppendUnissued
  <2> QED
    BY <2>1, <2>3 DEF UniqueSpans
<1>4. ASSUME NEW i \in DOMAIN issued'
      PROVE  /\ issued'[i] < mu_span_id_seq'
             /\ \A u \in Threads : issued'[i] \notin Reserved(u)'
  <2>1. CASE i \in DOMAIN issued /\ issued'[i] = issued[i]
    <3>1. issued[i] \in Nat /\ issued[i] < mu_span_id_seq
          /\ \A u \in Threads : issued[i] \notin Reserved(u)
      BY <2>1 DEF IdInv, IssuedInv
    <3>2. mu_span_id_seq \in Nat /\ mu_span_id_seq' \in Nat
      BY <1>1 DEF IdInv, CounterTypes
    <3> QED
      BY <2>1, <3>1, <3>2, <1>1
  <2>2. CASE issued'[i] = n
    BY <2>2, <1>1
  <2> QED
    BY <1>3, <1>4, <2>1, <2>2
<1>5. IssuedInv'
  BY <1>3, <1>4 DEF IssuedInv
<1> QED
  BY <1>1, <1>3, <1>5 DEF IdInv

\* The numbers are in order in every state.
LEMMA IdsHold == Spec => []IdInv
<1>1. Init => IdInv
  BY DEF Init, InitIds, IdInv, CounterTypes, BlocksInv, IssuedInv, Reserved, UniqueSpans, IsInjective
<1>2. IdInv /\ [Next]_vars => IdInv'
  <2> SUFFICES ASSUME IdInv, [Next]_vars PROVE IdInv'
    OBVIOUS
  <2> DEFINE Keep == UNCHANGED idVars
  <2>1. ASSUME Keep PROVE IdInv'
    BY <2>1 DEF idVars, IdInv, CounterTypes, BlocksInv, IssuedInv, Reserved, UniqueSpans
  <2>2. ASSUME NEW t \in Threads, begin(t) PROVE IdInv'
    <3>1. TakeId(t) /\ issued' = Append(issued, NextId(t))
      BY <2>2 DEF begin, write_begin
    <3> QED
      BY <3>1, TakeIdStep
  <2>3. ASSUME NEW t \in Threads, NEW p \in handles \cup {NoSpan}, begin_async(t, p) PROVE IdInv'
    <3>1. TakeId(t) /\ issued' = Append(issued, NextId(t))
      BY <2>3 DEF begin_async, write_begin
    <3> QED
      BY <3>1, TakeIdStep
  <2>4. ASSUME NEW t \in Threads, DiscardBegin(t) PROVE IdInv'
    BY <2>4, TakeIdStep DEF DiscardBegin
  <2>5. ASSUME NEW t \in Threads, NEW id \in handles, end(t, id) PROVE Keep
    BY <2>5 DEF end
  <2>6. ASSUME NEW t \in Threads, Exit(t) PROVE Keep
    BY <2>6 DEF Exit
  <2>7. ASSUME WorkerStep PROVE Keep
    BY <2>7 DEF WorkerStep, CollectBegin, Pull, flush_ready
  <2>8. CASE UNCHANGED vars
    BY <2>8, <2>1 DEF vars
  <2> QED
    BY <2>1, <2>2, <2>3, <2>4, <2>5, <2>6, <2>7, <2>8 DEF Next, TraceStep
<1> QED
  BY <1>1, <1>2, PTL DEF Spec

\* No identifier is given twice, in whatever order the threads begin spans, use up their
\* blocks and reserve new ones.
THEOREM UniqueSpansCorrect == Spec => []UniqueSpans
<1>1. IdInv => UniqueSpans
  BY DEF IdInv
<1> QED
  BY <1>1, IdsHold, PTL


\* Zero names no span: the counter starts at one.
PositiveInv ==
    /\ mu_span_id_seq > 0
    /\ \A t \in Threads : mu_next_span_id[t] # mu_end_span_id[t] => mu_next_span_id[t] > 0

\* Zero is never in a block.
LEMMA NumbersArePositive == Spec => [](IdInv /\ PositiveInv)
<1>1. Init => PositiveInv
  BY DEF Init, InitIds, PositiveInv
<1>2. IdInv /\ PositiveInv /\ [Next]_vars => PositiveInv'
  <2> SUFFICES ASSUME IdInv, PositiveInv, [Next]_vars PROVE PositiveInv'
    OBVIOUS
  <2>1. ASSUME UNCHANGED idVars PROVE PositiveInv'
    BY <2>1 DEF idVars, PositiveInv
  <2>2. ASSUME NEW t \in Threads, TakeId(t) PROVE PositiveInv'
    BY <2>2, SpansAssumption DEF IdInv, CounterTypes, PositiveInv, TakeId, Reserve
  <2>3. ASSUME NEW t \in Threads, TraceStep(t) PROVE UNCHANGED idVars \/ TakeId(t)
    BY <2>3 DEF TraceStep, begin, begin_async, write_begin, DiscardBegin, end, Exit
  <2>4. WorkerStep \/ UNCHANGED vars => UNCHANGED idVars
    BY DEF WorkerStep, CollectBegin, Pull, flush_ready, vars
  <2> QED
    BY <2>1, <2>2, <2>3, <2>4 DEF Next
<1> QED
  BY <1>1, <1>2, IdsHold, PTL DEF Spec

\* So the next identifier of a thread is not P8_INVALID_SPAN.
LEMMA NextIsPositive ==
    ASSUME IdInv, PositiveInv, NEW t \in Threads
    PROVE  NextId(t) \in Nat /\ NextId(t) # 0
BY DEF IdInv, CounterTypes, PositiveInv, NextId
-------------------------------------------------------------------------------
(***************************************************************************)
(* Records and their causes.                                               *)
(***************************************************************************)
SpanIds == [async : BOOLEAN, n : Nat]
Records == [type : {"begin", "begin_async", "end"}, id : SpanIds, parent : SpanIds, ts : Nat]

RecordTypes ==
    /\ held \in [Threads -> Seq(Records)] /\ mo_ready_queue \in [Threads -> Seq(Records)]
    /\ lo_ready \in [Threads -> Seq(Records)] /\ sink \in [Threads -> Seq(Records)]
    /\ mo_open_spans \in [Threads -> Seq(SpanIds)]
    /\ handles \subseteq SpanIds
    /\ {ticks, settled, lu_ts} \subseteq Nat /\ wpc \in {"wait", "drain"}

\* The records of t that the sink has not been given yet, and all records there are.
Unsent(t) == Range(lo_ready[t]) \cup Range(mo_ready_queue[t]) \cup Range(held[t])
Sent      == UNION {Range(sink[t]) : t \in Threads}
Written   == Sent \cup UNION {Unsent(t) : t \in Threads}

\* A thread leaves its buffers once, and a collection begins with an empty batch.
MovesInv ==
    \A t \in Threads :
        /\ t \notin gone => mo_ready_queue[t] = <<>>
        /\ wpc = "wait" \/ t \in to_pull => lo_ready[t] = <<>>

\* What the API returned are the spans with a begin record; only those are open.
HandlesInv ==
    /\ handles = Begun(Written) /\ NoSpan \notin handles
    /\ \A t \in Threads : Range(mo_open_spans[t]) \subseteq handles

\* Before the end of a span, and before its children, comes its begin.
Caused(id, ts) == \E b \in Written : b.type # "end" /\ b.id = id /\ b.ts < ts
CausesInv ==
    \A r \in Written :
        /\ r.ts < ticks
        /\ r.type = "end" => Caused(r.id, r.ts)
        /\ r.parent # NoSpan => Caused(r.parent, r.ts)

\* What has not been sent is not older than the last batch, and what has not been pulled
\* into the batch under way is not older than its timestamp, unless it is still to be pulled.
SettledInv ==
    /\ settled <= ticks /\ lu_ts <= ticks
    /\ \A t \in Threads : \A r \in Unsent(t) : settled <= r.ts
    /\ wpc = "drain" =>
          \A t \in Threads \ to_pull : \A r \in Range(held[t]) : lu_ts <= r.ts

RecordInv == RecordTypes /\ MovesInv /\ HandlesInv /\ CausesInv /\ SettledInv


\* Where the records of a sequence come from.
LEMMA RangeOfAppend ==
    ASSUME NEW S, NEW s \in Seq(S), NEW e \in S
    PROVE  Range(Append(s, e)) = Range(s) \cup {e}
<1>1. /\ DOMAIN Append(s, e) = 1 .. Len(s) + 1 /\ DOMAIN s = 1 .. Len(s) /\ Len(s) \in Nat
      /\ \A i \in 1 .. Len(s) : Append(s, e)[i] = s[i]
      /\ Append(s, e)[Len(s) + 1] = e
  BY AppendProperties, LenProperties
<1> QED
  BY <1>1 DEF Range

\* No record is in an empty sequence.
LEMMA RangeOfEmpty == Range(<<>>) = {}
BY DEF Range

\* A thread's records are those sent and those on their way.
LEMMA StreamRange ==
    ASSUME RecordTypes, NEW t \in Threads
    PROVE  Range(Stream(t)) = Range(sink[t]) \cup Unsent(t)
<1> DEFINE a == sink[t]  b == lo_ready[t]  c == mo_ready_queue[t]  e == held[t]
<1>1. a \in Seq(Records) /\ b \in Seq(Records) /\ c \in Seq(Records) /\ e \in Seq(Records)
  BY DEF RecordTypes
<1> HIDE DEF a, b, c, e
<1>2. a \o b \in Seq(Records) /\ (a \o b) \o c \in Seq(Records)
  BY <1>1, ConcatProperties
<1>3. Range(a \o b) = Range(a) \cup Range(b)
  BY <1>1, RangeConcatenation
<1>4. Range((a \o b) \o c) = Range(a \o b) \cup Range(c)
  <2>1. PICK s \in Seq(Records) : s = a \o b
    BY <1>2
  <2>2. Range(s \o c) = Range(s) \cup Range(c)
    BY ONLY <1>1, <2>1, RangeConcatenation
  <2> QED
    BY <2>1, <2>2
<1>5. Range(((a \o b) \o c) \o e) = Range((a \o b) \o c) \cup Range(e)
  <2>1. PICK s \in Seq(Records) : s = (a \o b) \o c
    BY <1>2
  <2>2. Range(s \o e) = Range(s) \cup Range(e)
    BY ONLY <1>1, <2>1, RangeConcatenation
  <2> QED
    BY <2>1, <2>2
<1> QED
  BY <1>3, <1>4, <1>5 DEF Stream, Unsent, a, b, c, e

\* A span that leaves the stack takes those above it along.
LEMMA PopLeavesOpen ==
    ASSUME NEW open \in Seq(SpanIds), NEW id
    PROVE  pop_span(open, id) \in Seq(SpanIds) /\ Range(pop_span(open, id)) \subseteq Range(open)
<1>1. CASE \E i \in DOMAIN open : open[i] = id
  <2>1. PICK i \in DOMAIN open : pop_span(open, id) = SubSeq(open, 1, i - 1)
    BY <1>1 DEF pop_span
  <2>2. Len(open) \in Nat /\ DOMAIN open = 1 .. Len(open)
    BY LenProperties
  <2>3. /\ SubSeq(open, 1, i - 1) \in Seq(SpanIds)
        /\ Len(SubSeq(open, 1, i - 1)) = i - 1
        /\ \A k \in 1 .. i - 1 : SubSeq(open, 1, i - 1)[k] = open[k]
    BY <2>1, <2>2, SubSeqProperties
  <2>4. DOMAIN SubSeq(open, 1, i - 1) = 1 .. i - 1
    BY <2>2, <2>3, LenProperties
  <2> QED
    BY <2>1, <2>2, <2>3, <2>4 DEF Range
<1>2. CASE ~ \E i \in DOMAIN open : open[i] = id
  BY <1>2 DEF pop_span
<1> QED
  BY <1>1, <1>2

\* The parent a thread gives its next span is open, if there is one.
LEMMA InnermostIsOpen ==
    ASSUME RecordTypes, NEW t \in Threads
    PROVE  Innermost(t) \in Range(mo_open_spans[t]) \cup {NoSpan}
<1>1. mo_open_spans[t] \in Seq(SpanIds)
  BY DEF RecordTypes
<1>2. CASE mo_open_spans[t] = <<>>
  BY <1>2 DEF Innermost
<1>3. CASE mo_open_spans[t] # <<>>
  <2>1. Len(mo_open_spans[t]) \in DOMAIN mo_open_spans[t]
    BY <1>1, <1>3, EmptySeq, LenProperties
  <2> QED
    BY <1>3, <2>1 DEF Innermost, Last, Range
<1> QED
  BY <1>2, <1>3

-------------------------------------------------------------------------------
(***************************************************************************)
(* What a step does to the records.                                        *)
(***************************************************************************)

\* All that was written are records.
LEMMA WrittenRecords == RecordTypes => Written \subseteq Records
<1> SUFFICES ASSUME RecordTypes, NEW t \in Threads PROVE Range(sink[t]) \cup Unsent(t) \subseteq Records
  BY DEF Written, Sent
<1> QED
  BY RangeOfSeq DEF RecordTypes, Unsent

\* A record written by t: it is the youngest, its causes are there, and it names a span.
LEMMA WriteKeeps ==
    ASSUME RecordInv, NEW t \in Threads, NEW r \in Records, r.ts = ticks,
           held' = [held EXCEPT ![t] = Append(held[t], r)], ticks' = ticks + 1,
           UNCHANGED <<mo_ready_queue, gone, workerVars>>,
           r.id # NoSpan,
           r.type = "end" => r.id \in handles,
           r.parent \in handles \cup {NoSpan},
           handles' = handles \cup {r.id},
           mo_open_spans' \in [Threads -> Seq(SpanIds)],
           \A u \in Threads : Range(mo_open_spans'[u]) \subseteq handles'
    PROVE  RecordInv'
<1> USE DEF RecordInv
<1>1. UNCHANGED <<wpc, to_pull, lo_ready, lu_ts, sink, settled, mo_ready_queue, gone>>
  BY DEF workerVars
<1>2. ticks \in Nat /\ settled \in Nat /\ lu_ts \in Nat
  BY DEF RecordTypes
<1>3. held[t] \in Seq(Records) /\ Range(Append(held[t], r)) = Range(held[t]) \cup {r}
  BY RangeOfAppend DEF RecordTypes
<1>4. RecordTypes'
  <2>1. Append(held[t], r) \in Seq(Records)
    BY <1>3, AppendProperties
  <2>2. r.id \in SpanIds
    BY DEF Records
  <2>3. held' \in [Threads -> Seq(Records)] /\ handles' \subseteq SpanIds /\ ticks' \in Nat
    BY <1>2, <2>1, <2>2 DEF RecordTypes
  <2> QED
    BY <1>1, <2>3 DEF RecordTypes
<1>5. /\ Range(held'[t]) = Range(held[t]) \cup {r}
      /\ \A u \in Threads \ {t} : held'[u] = held[u]
  BY <1>3 DEF RecordTypes
<1>6. /\ Unsent(t)' = Unsent(t) \cup {r} /\ \A u \in Threads \ {t} : Unsent(u)' = Unsent(u)
      /\ Sent' = Sent
  BY <1>1, <1>5 DEF Unsent, Sent
<1>7. Written' = Written \cup {r}
  BY <1>6 DEF Written
<1>8. MovesInv'
  BY <1>1 DEF MovesInv
<1>9. HandlesInv'
  <2>1. Begun(Written') = handles'
    <3>1. Begun(Written') = Begun(Written) \cup Begun({r})
      BY <1>7 DEF Begun
    <3>2. Begun({r}) \subseteq {r.id} /\ (r.type # "end" => Begun({r}) = {r.id})
      BY DEF Begun
    <3> QED
      BY <3>1, <3>2 DEF HandlesInv
  <2> QED
    BY <2>1 DEF HandlesInv
<1>10. CausesInv'
  <2>1. \A q \in Written : q.ts < ticks
    BY DEF CausesInv
  <2>2. \A id \in handles : Caused(id, ticks)
    BY <2>1 DEF HandlesInv, Begun, Caused
  <2>3. ASSUME NEW id, NEW ts, Caused(id, ts) PROVE Caused(id, ts)'
    BY <1>7, <2>3 DEF Caused
  <2>4. ASSUME NEW q \in Written
        PROVE  /\ q.ts < ticks'
               /\ q.type = "end" => Caused(q.id, q.ts)'
               /\ q.parent # NoSpan => Caused(q.parent, q.ts)'
    <3>1. q.ts \in Int /\ q.ts < ticks
      BY <2>1, WrittenRecords DEF Records
    <3> QED
      BY <1>2, <2>3, <3>1 DEF CausesInv
  <2>5. /\ r.ts < ticks'
        /\ r.type = "end" => Caused(r.id, r.ts)'
        /\ r.parent # NoSpan => Caused(r.parent, r.ts)'
    BY <1>2, <2>2, <2>3
  <2> QED
    BY <1>7, <2>4, <2>5 DEF CausesInv
<1>11. SettledInv'
  <2>1. settled <= r.ts /\ lu_ts <= r.ts
    BY DEF SettledInv
  <2>2. settled' <= ticks' /\ lu_ts' <= ticks'
    BY <1>1, <1>2 DEF SettledInv
  <2> QED
    BY <1>1, <1>5, <1>6, <2>1, <2>2 DEF SettledInv
<1> QED
  BY <1>4, <1>8, <1>9, <1>10, <1>11

\* Records that only move.
LEMMA MoveKeeps ==
    ASSUME RecordInv, RecordTypes', Written' = Written, UNCHANGED <<handles, mo_open_spans, ticks>>
    PROVE  HandlesInv' /\ CausesInv'
<1>1. HandlesInv'
  BY DEF RecordInv, HandlesInv
<1>2. \A id, ts : Caused(id, ts)' <=> Caused(id, ts)
  BY DEF Caused
<1>3. CausesInv'
  BY <1>2 DEF RecordInv, CausesInv
<1> QED
  BY <1>1, <1>3

\* The exit of a thread moves its records to the ready queue.
LEMMA ExitKeeps ==
    ASSUME RecordInv, NEW t \in Threads, Exit(t)
    PROVE  RecordInv'
<1> USE DEF RecordInv
<1>1. /\ UNCHANGED <<wpc, to_pull, lo_ready, lu_ts, sink, settled, ticks, handles, mo_open_spans>>
      /\ gone' = gone \cup {t} /\ t \notin gone
      /\ mo_ready_queue' = [mo_ready_queue EXCEPT ![t] = held[t]]
      /\ held' = [held EXCEPT ![t] = <<>>]
  BY DEF Exit, workerVars
<1>2. RecordTypes'
  BY <1>1 DEF RecordTypes
<1>3. /\ mo_ready_queue[t] = <<>> /\ mo_ready_queue'[t] = held[t] /\ held'[t] = <<>>
      /\ \A u \in Threads \ {t} : mo_ready_queue'[u] = mo_ready_queue[u] /\ held'[u] = held[u]
  BY <1>1 DEF MovesInv, RecordTypes
<1>4. \A u \in Threads : Unsent(u)' = Unsent(u)
  <2>1. Unsent(t)' = Unsent(t)
    BY <1>1, <1>3, RangeOfEmpty DEF Unsent
  <2>2. \A u \in Threads \ {t} : Unsent(u)' = Unsent(u)
    BY <1>1, <1>3 DEF Unsent
  <2> QED
    BY <2>1, <2>2
<1>5. Written' = Written
  BY <1>1, <1>4 DEF Written, Sent
<1>6. MovesInv'
  BY <1>1, <1>3 DEF MovesInv
<1>7. SettledInv'
  BY <1>1, <1>3, <1>4, RangeOfEmpty DEF SettledInv
<1> QED
  BY <1>1, <1>2, <1>5, <1>6, <1>7, MoveKeeps

\* A collection begins with the timestamp before any writer is drained.
LEMMA CollectKeeps ==
    ASSUME RecordInv, CollectBegin
    PROVE  RecordInv'
<1> USE DEF RecordInv
<1>1. /\ UNCHANGED <<lo_ready, mo_ready_queue, held, gone, sink, settled, ticks, handles, mo_open_spans>>
      /\ wpc = "wait" /\ wpc' = "drain" /\ to_pull' = Threads /\ lu_ts' = ticks
  BY DEF CollectBegin, writerVars
<1>2. RecordTypes'
  BY <1>1 DEF RecordTypes
<1>3. Written' = Written /\ \A u \in Threads : Unsent(u)' = Unsent(u)
  BY <1>1 DEF Written, Sent, Unsent
<1>4. MovesInv'
  BY <1>1 DEF MovesInv
<1>5. SettledInv'
  BY <1>1, <1>2, <1>3 DEF SettledInv, RecordTypes
<1> QED
  BY <1>1, <1>2, <1>3, <1>4, <1>5, MoveKeeps

\* The worker moves a writer's records into the batch.
LEMMA PullKeeps ==
    ASSUME RecordInv, NEW t \in Threads, Pull(t)
    PROVE  RecordInv'
<1> USE DEF RecordInv
<1>1. /\ UNCHANGED <<wpc, mo_ready_queue, gone, lu_ts, sink, settled, ticks, handles, mo_open_spans>>
      /\ to_pull' = to_pull \ {t} /\ t \in to_pull /\ wpc = "drain"
      /\ lo_ready' = [lo_ready EXCEPT ![t] = held[t]]
      /\ held' = [held EXCEPT ![t] = <<>>]
  BY DEF Pull, writerVars
<1>2. RecordTypes'
  BY <1>1 DEF RecordTypes
<1>3. /\ lo_ready[t] = <<>> /\ lo_ready'[t] = held[t] /\ held'[t] = <<>>
      /\ \A u \in Threads \ {t} : lo_ready'[u] = lo_ready[u] /\ held'[u] = held[u]
  BY <1>1 DEF MovesInv, RecordTypes
<1>4. \A u \in Threads : Unsent(u)' = Unsent(u)
  <2>1. Unsent(t)' = Unsent(t)
    BY <1>1, <1>3, RangeOfEmpty DEF Unsent
  <2>2. \A u \in Threads \ {t} : Unsent(u)' = Unsent(u)
    BY <1>1, <1>3 DEF Unsent
  <2> QED
    BY <2>1, <2>2
<1>5. Written' = Written
  BY <1>1, <1>4 DEF Written, Sent
<1>6. MovesInv'
  BY <1>1, <1>3 DEF MovesInv
<1>7. SettledInv'
  BY <1>1, <1>3, <1>4, RangeOfEmpty DEF SettledInv
<1> QED
  BY <1>1, <1>2, <1>5, <1>6, <1>7, MoveKeeps

\* The batch carries all that was written before its timestamp.
LEMMA FlushKeeps ==
    ASSUME RecordInv, flush_ready
    PROVE  RecordInv'
<1> USE DEF RecordInv
<1> DEFINE batch(t) == lo_ready[t] \o mo_ready_queue[t]
<1>1. /\ UNCHANGED <<gone, held, to_pull, ticks, handles, mo_open_spans>>
      /\ wpc = "drain" /\ to_pull = {} /\ wpc' = "wait" /\ lu_ts' = 0
      /\ sink' = [t \in Threads |-> sink[t] \o batch(t)]
      /\ lo_ready' = [t \in Threads |-> <<>>] /\ mo_ready_queue' = [t \in Threads |-> <<>>]
      /\ settled' \in {settled, lu_ts}
  BY DEF flush_ready, writerVars
<1>2. ASSUME NEW t \in Threads
      PROVE  /\ batch(t) \in Seq(Records) /\ sink[t] \o batch(t) \in Seq(Records)
             /\ Range(sink[t] \o batch(t)) = Range(sink[t]) \cup Range(lo_ready[t]) \cup Range(mo_ready_queue[t])
             /\ Range(batch(t)) = Range(lo_ready[t]) \cup Range(mo_ready_queue[t])
  <2>1. lo_ready[t] \in Seq(Records) /\ mo_ready_queue[t] \in Seq(Records) /\ sink[t] \in Seq(Records)
    BY DEF RecordTypes
  <2>2. batch(t) \in Seq(Records) /\ Range(batch(t)) = Range(lo_ready[t]) \cup Range(mo_ready_queue[t])
    BY <2>1, ConcatProperties, RangeConcatenation
  <2> HIDE DEF batch
  <2>3. sink[t] \o batch(t) \in Seq(Records) /\ Range(sink[t] \o batch(t)) = Range(sink[t]) \cup Range(batch(t))
    BY <2>1, <2>2, ConcatProperties, RangeConcatenation
  <2> QED
    BY <2>2, <2>3
<1> HIDE DEF batch
<1>3. RecordTypes'
  BY <1>1, <1>2 DEF RecordTypes
<1>4. \A t \in Threads :
         /\ Unsent(t)' = Range(held[t])
         /\ Range(sink'[t]) \cup Unsent(t)' = Range(sink[t]) \cup Unsent(t)
  <2> TAKE t \in Threads
  <2>1. Unsent(t)' = Range(held[t])
    BY <1>1, RangeOfEmpty DEF Unsent
  <2>2. Range(sink'[t]) = Range(sink[t]) \cup Range(lo_ready[t]) \cup Range(mo_ready_queue[t])
    BY <1>1, <1>2
  <2> QED
    BY <2>1, <2>2 DEF Unsent
<1>5. Written' = Written
  <2>1. Written = UNION {Range(sink[t]) \cup Unsent(t) : t \in Threads}
    BY DEF Written, Sent
  <2>2. Written' = UNION {Range(sink'[t]) \cup Unsent(t)' : t \in Threads}
    BY DEF Written, Sent
  <2> QED
    BY <1>4, <2>1, <2>2
<1>6. MovesInv'
  BY <1>1 DEF MovesInv
<1>7. SettledInv'
  <2>1. \A t \in Threads : \A r \in Range(held[t]) : lu_ts <= r.ts /\ settled <= r.ts
    BY <1>1 DEF SettledInv, Unsent
  <2>2. settled' \in {settled, lu_ts} /\ ticks' = ticks /\ 0 <= ticks
    BY <1>1 DEF RecordTypes
  <2> QED
    BY <1>1, <1>4, <2>1, <2>2 DEF SettledInv
<1> QED
  BY <1>1, <1>3, <1>5, <1>6, <1>7, MoveKeeps

\* A span that began: its number was just taken, and its parent is open or was given.
LEMMA BeginKeeps ==
    ASSUME RecordInv, IdInv, PositiveInv, NEW t \in Threads, NEW type \in {"begin", "begin_async"},
           NEW id \in SpanIds, id.n = NextId(t), NEW parent \in handles \cup {NoSpan},
           write_begin(t, type, id, parent),
           \/ mo_open_spans' = mo_open_spans
           \/ mo_open_spans' = [mo_open_spans EXCEPT ![t] = Append(mo_open_spans[t], id)]
    PROVE  RecordInv'
<1> DEFINE r == [type |-> type, id |-> id, parent |-> parent, ts |-> ticks]
<1>1. /\ held' = [held EXCEPT ![t] = Append(held[t], r)] /\ ticks' = ticks + 1
      /\ handles' = handles \cup {id}
      /\ UNCHANGED <<mo_ready_queue, gone, workerVars>>
  BY DEF write_begin, Write
<1>2. parent \in SpanIds /\ ticks \in Nat
  <2>1. NoSpan \in SpanIds
    BY DEF NoSpan, SpanIds
  <2>2. handles \subseteq SpanIds /\ ticks \in Nat
    BY DEF RecordInv, RecordTypes
  <2> QED
    BY <2>1, <2>2
<1>3. r \in Records /\ r.ts = ticks /\ r.id = id /\ r.parent = parent /\ r.type # "end"
  BY <1>2 DEF Records
<1>4. id # NoSpan
  BY NextIsPositive DEF NoSpan
<1>5. /\ mo_open_spans' \in [Threads -> Seq(SpanIds)]
      /\ \A u \in Threads : Range(mo_open_spans'[u]) \subseteq handles'
  <2>1. /\ mo_open_spans \in [Threads -> Seq(SpanIds)]
        /\ \A u \in Threads : Range(mo_open_spans[u]) \subseteq handles
    BY DEF RecordInv, RecordTypes, HandlesInv
  <2>2. /\ Append(mo_open_spans[t], id) \in Seq(SpanIds)
        /\ Range(Append(mo_open_spans[t], id)) = Range(mo_open_spans[t]) \cup {id}
    BY <2>1, AppendProperties, RangeOfAppend
  <2> QED
    BY <1>1, <2>1, <2>2
<1> HIDE DEF r
<1> QED
  BY <1>1, <1>3, <1>4, <1>5, WriteKeeps

\* The end of a span that some begin returned.
LEMMA EndKeeps ==
    ASSUME RecordInv, NEW t \in Threads, NEW id \in handles, end(t, id)
    PROVE  RecordInv'
<1> DEFINE r == [type |-> "end", id |-> id, parent |-> NoSpan, ts |-> ticks]
<1>1. /\ held' = [held EXCEPT ![t] = Append(held[t], r)] /\ ticks' = ticks + 1
      /\ handles' = handles
      /\ UNCHANGED <<mo_ready_queue, gone, workerVars>>
  BY DEF end, Write
<1>2. handles \subseteq SpanIds /\ ticks \in Nat /\ id # NoSpan
  BY DEF RecordInv, RecordTypes, HandlesInv
<1>3. r \in Records /\ r.ts = ticks /\ r.id = id /\ r.parent = NoSpan
  BY <1>2 DEF Records, NoSpan, SpanIds
<1>4. /\ mo_open_spans' \in [Threads -> Seq(SpanIds)]
      /\ \A u \in Threads : Range(mo_open_spans'[u]) \subseteq handles'
  <2>1. /\ mo_open_spans \in [Threads -> Seq(SpanIds)]
        /\ \A u \in Threads : Range(mo_open_spans[u]) \subseteq handles
    BY DEF RecordInv, RecordTypes, HandlesInv
  <2>2. /\ pop_span(mo_open_spans[t], id) \in Seq(SpanIds)
        /\ Range(pop_span(mo_open_spans[t], id)) \subseteq Range(mo_open_spans[t])
    BY <2>1, PopLeavesOpen
  <2>3. mo_open_spans' = IF id.async THEN mo_open_spans
                         ELSE [mo_open_spans EXCEPT ![t] = pop_span(mo_open_spans[t], id)]
    BY DEF end
  <2> QED
    BY <1>1, <2>1, <2>2, <2>3
<1>5. handles' = handles \cup {r.id} /\ r.parent \in handles \cup {NoSpan} /\ r.id # NoSpan
  BY <1>1, <1>2, <1>3
<1> HIDE DEF r
<1> QED
  BY <1>1, <1>3, <1>4, <1>5, WriteKeeps

\* Nothing of the records changed.
LEMMA QuietKeeps ==
    ASSUME RecordInv,
           UNCHANGED <<held, mo_ready_queue, mo_open_spans, handles, gone, ticks, workerVars>>
    PROVE  RecordInv'
<1> USE DEF RecordInv, workerVars
<1>1. RecordTypes' /\ MovesInv'
  BY DEF RecordTypes, MovesInv
<1>2. Written' = Written /\ \A t \in Threads : Unsent(t)' = Unsent(t)
  BY DEF Written, Sent, Unsent
<1>3. SettledInv'
  BY <1>2 DEF SettledInv
<1> QED
  BY <1>1, <1>2, <1>3, MoveKeeps

\* Records are where they should be in every state.
LEMMA RecordsHold == Spec => []RecordInv
<1>1. Init => RecordInv
  <2> SUFFICES ASSUME Init PROVE RecordInv
    OBVIOUS
  <2>1. RecordTypes /\ MovesInv
    BY DEF Init, RecordTypes, MovesInv
  <2>2. \A t \in Threads : Range(sink[t]) = {} /\ Unsent(t) = {}
    BY RangeOfEmpty DEF Init, Unsent
  <2>3. Written = {}
    BY <2>2 DEF Written, Sent
  <2>4. HandlesInv
    BY <2>3, RangeOfEmpty DEF Init, HandlesInv, Begun
  <2>5. CausesInv /\ SettledInv
    BY <2>2, <2>3 DEF Init, CausesInv, SettledInv
  <2> QED
    BY <2>1, <2>4, <2>5 DEF RecordInv
<1>2. RecordInv /\ IdInv /\ PositiveInv /\ [Next]_vars => RecordInv'
  <2> SUFFICES ASSUME RecordInv, IdInv, PositiveInv, [Next]_vars PROVE RecordInv'
    OBVIOUS
  <2>1. ASSUME NEW t \in Threads, begin(t) PROVE RecordInv'
    <3> DEFINE id == [async |-> FALSE, n |-> NextId(t)]
    <3>1. write_begin(t, "begin", id, Innermost(t))
          /\ mo_open_spans' = [mo_open_spans EXCEPT ![t] = Append(mo_open_spans[t], id)]
      BY <2>1 DEF begin
    <3>2. id \in SpanIds /\ id.n = NextId(t)
      BY NextIsPositive DEF SpanIds
    <3>3. Innermost(t) \in handles \cup {NoSpan}
      BY InnermostIsOpen DEF RecordInv, HandlesInv
    <3> QED
      BY <3>1, <3>2, <3>3, BeginKeeps
  <2>2. ASSUME NEW t \in Threads, NEW parent \in handles \cup {NoSpan}, begin_async(t, parent) PROVE RecordInv'
    <3> DEFINE id == [async |-> TRUE, n |-> NextId(t)]
    <3>1. write_begin(t, "begin_async", id, parent) /\ mo_open_spans' = mo_open_spans
      BY <2>2 DEF begin_async
    <3>2. id \in SpanIds /\ id.n = NextId(t)
      BY NextIsPositive DEF SpanIds
    <3> QED
      BY <3>1, <3>2, BeginKeeps
  <2>3. ASSUME NEW t \in Threads, DiscardBegin(t) PROVE RecordInv'
    BY <2>3, QuietKeeps DEF DiscardBegin
  <2>4. CASE UNCHANGED vars
    BY <2>4, QuietKeeps DEF vars, writerVars
  <2> QED
    BY <2>1, <2>2, <2>3, <2>4, EndKeeps, ExitKeeps, CollectKeeps, PullKeeps, FlushKeeps
       DEF Next, TraceStep, WorkerStep
<1> QED
  BY <1>1, <1>2, NumbersArePositive, PTL DEF Spec

(***************************************************************************)
(* What the API returned is what has a begin record, wherever the worker,  *)
(* the exits of threads and the batches have taken it, and only such spans *)
(* are ended.                                                              *)
(***************************************************************************)
THEOREM EndHasBeginCorrect == Spec => []EndHasBegin
<1>1. RecordInv => EndHasBegin
  <2> SUFFICES ASSUME RecordInv PROVE EndHasBegin
    OBVIOUS
  <2> DEFINE written == UNION {Range(Stream(t)) : t \in Threads}
  <2>1. written = Written
    <3>1. written = UNION {Range(sink[t]) \cup Unsent(t) : t \in Threads}
      BY StreamRange DEF RecordInv
    <3> QED
      BY <3>1 DEF Written, Sent
  <2> HIDE DEF written
  <2>2. Ended(Written) \subseteq handles
    BY DEF RecordInv, CausesInv, Caused, HandlesInv, Ended, Begun
  <2>3. handles = Begun(written) /\ NoSpan \notin handles /\ Ended(written) \subseteq handles
    BY <2>1, <2>2 DEF RecordInv, HandlesInv
  <2> QED
    BY <2>3 DEF EndHasBegin, written
<1> QED
  BY <1>1, RecordsHold, PTL

(***************************************************************************)
(* The batch timestamp is read before the first writer is drained, so that *)
(* everything older is in this batch or an earlier one; the begin of a     *)
(* span is older than its end and its children.                            *)
(***************************************************************************)
THEOREM SpanOrderCorrect == Spec => []SpanOrder
<1>1. RecordInv => SpanOrder
  <2> SUFFICES ASSUME RecordInv PROVE SpanOrder
    OBVIOUS
  <2> DEFINE due == {r \in Sent : r.ts < settled}
  <2>1. RecordTypes /\ Written \subseteq Records /\ settled \in Nat
    BY WrittenRecords DEF RecordInv, RecordTypes
  <2>2. \A b \in Written : b.ts \in Nat
    BY <2>1 DEF Records
  <2>3. \A b \in Written : b.ts < settled => b \in Sent
    BY <2>1, <2>2 DEF RecordInv, SettledInv, Written
  <2>4. ASSUME NEW r \in due, NEW id, Caused(id, r.ts) PROVE id \in Begun(Sent)
    <3>1. PICK b \in Written : b.type # "end" /\ b.id = id /\ b.ts < r.ts
      BY <2>4 DEF Caused
    <3>2. r.ts \in Nat /\ r.ts < settled
      BY <2>2 DEF Written
    <3>3. b \in Sent
      BY <2>1, <2>2, <2>3, <3>1, <3>2
    <3> QED
      BY <3>1, <3>3 DEF Begun
  <2>5. \A r \in due : /\ r.type = "end" => r.id \in Begun(Sent)
                       /\ r.parent # NoSpan => r.parent \in Begun(Sent)
    BY <2>4 DEF RecordInv, CausesInv, Written
  <2>6. Ended(due) \cup {r.parent : r \in due} \subseteq Begun(Sent) \cup {NoSpan}
    BY <2>5 DEF Ended
  <2> QED
    BY <2>6 DEF SpanOrder, Sent
<1> QED
  BY <1>1, RecordsHold, PTL

-------------------------------------------------------------------------------
(***************************************************************************)
(* What the records of a thread leave open: OpenIn is a recursive function *)
(* that CHOOSE picks; it exists, and adding a record leaves its earlier    *)
(* values as they are.                                                     *)
(***************************************************************************)

\* What the reader knows to be open after record n, from what was open after record n - 1.
OpenAfter(s, open, n) ==
    CASE n = 0 -> {}
      [] n > 0 /\ s[n].type = "begin" -> open[n - 1] \cup {n}
      [] n > 0 /\ s[n].type = "begin_async" -> open[n - 1]
      [] OTHER -> {i \in open[n - 1] :
                     \A j \in open[n - 1] : s[j].id = s[n].id => i < j}

\* f tells what is open after each of the first m records.
OpenUpTo(f, s, m) == f = [n \in 0 .. m |-> OpenAfter(s, f, n)]

\* The three kinds of records.
LEMMA OpenKinds ==
    ASSUME NEW s, NEW f, NEW n \in Nat
    PROVE  /\ n = 0 => OpenAfter(s, f, n) = {}
           /\ n # 0 => /\ s[n].type = "begin" => OpenAfter(s, f, n) = f[n - 1] \cup {n}
                       /\ s[n].type = "begin_async" => OpenAfter(s, f, n) = f[n - 1]
                       /\ s[n].type = "end" =>
                             OpenAfter(s, f, n) = {i \in f[n - 1] :
                                \A j \in f[n - 1] : s[j].id = s[n].id => i < j}
BY DEF OpenAfter

\* Only what was open before a record matters.
LEMMA OpenDepends ==
    ASSUME NEW s, NEW f, NEW g, NEW n \in Nat, n # 0 => f[n - 1] = g[n - 1]
    PROVE  OpenAfter(s, f, n) = OpenAfter(s, g, n)
<1>1. CASE n = 0
  BY <1>1 DEF OpenAfter
<1>2. CASE n # 0
  <2>1. PICK x : x = f[n - 1] /\ x = g[n - 1]
    BY <1>2
  <2> QED
    BY ONLY <1>2, <2>1, n \in Nat DEF OpenAfter
<1> QED
  BY <1>1, <1>2

\* The function is what it says at each place.
LEMMA OpenValue ==
    ASSUME NEW f, NEW s, NEW m \in Nat, OpenUpTo(f, s, m)
    PROVE  \A n \in 0 .. m : f[n] = OpenAfter(s, f, n)
<1> DEFINE Rhs == [n \in 0 .. m |-> OpenAfter(s, f, n)]
<1>1. f = Rhs
  BY DEF OpenUpTo
<1>2. \A n \in 0 .. m : Rhs[n] = OpenAfter(s, f, n)
  OBVIOUS
<1> HIDE DEF Rhs
<1> QED
  BY <1>1, <1>2

\* Such a function exists, up to any length.
LEMMA OpenExists ==
    ASSUME NEW s, NEW m \in Nat
    PROVE  \E f : OpenUpTo(f, s, m)
<1> DEFINE T == {k \in Nat : \E f : OpenUpTo(f, s, k)}
<1>1. 0 \in T
  <2>1. PICK f : f = [n \in 0 .. 0 |-> {}]
    OBVIOUS
  <2>2. \A n \in 0 .. 0 : OpenAfter(s, f, n) = {}
    BY OpenKinds
  <2>3. f = [n \in 0 .. 0 |-> OpenAfter(s, f, n)]
    BY <2>1, <2>2
  <2> QED
    BY <2>3 DEF OpenUpTo
<1>2. ASSUME NEW k \in Nat, k \in T PROVE k + 1 \in T
  <2>1. PICK f : OpenUpTo(f, s, k)
    BY <1>2
  <2>2. PICK g : g = [n \in 0 .. k + 1 |-> OpenAfter(s, f, n)]
    OBVIOUS
  <2>3. \A n \in 0 .. k : g[n] = f[n]
    BY <2>1, <2>2, OpenValue
  <2>4. \A n \in 0 .. k + 1 : OpenAfter(s, g, n) = OpenAfter(s, f, n)
    <3> SUFFICES ASSUME NEW n \in 0 .. k + 1 PROVE OpenAfter(s, g, n) = OpenAfter(s, f, n)
      OBVIOUS
    <3>1. n \in Nat /\ (n # 0 => n - 1 \in 0 .. k)
      OBVIOUS
    <3>2. n # 0 => g[n - 1] = f[n - 1]
      BY <2>3, <3>1
    <3> QED
      BY <3>1, <3>2, OpenDepends
  <2>5. g = [n \in 0 .. k + 1 |-> OpenAfter(s, g, n)]
    BY <2>2, <2>4
  <2>6. OpenUpTo(g, s, k + 1)
    BY <2>5 DEF OpenUpTo
  <2> QED
    BY <2>6
<1> QED
  BY <1>1, <1>2, NatSetInduction, Zenon

\* OpenIn is that function.
LEMMA OpenInIs ==
    ASSUME NEW s, NEW m \in Nat, m = Len(s)
    PROVE  OpenUpTo(OpenIn(s), s, m)
<1>1. PICK f : OpenUpTo(f, s, Len(s))
  BY OpenExists
<1>2. OpenUpTo(OpenIn(s), s, Len(s))
  BY ONLY <1>1, Zenon DEF OpenIn, OpenUpTo, OpenAfter
<1> QED
  BY <1>2

\* What is open after a record depends on no later one.
LEMMA OpenPrefix ==
    ASSUME NEW s, NEW c, NEW f, NEW g, NEW m \in Nat, NEW k \in Nat, m <= k,
           OpenUpTo(f, s, m), OpenUpTo(g, c, k), \A n \in 1 .. m : s[n] = c[n]
    PROVE  \A n \in 0 .. m : f[n] = g[n] /\ f[n] \subseteq 1 .. n
<1> DEFINE T == {n \in Nat : n <= m => f[n] = g[n] /\ f[n] \subseteq 1 .. n}
<1>1. \A n \in 0 .. m : f[n] = OpenAfter(s, f, n)
  BY OpenValue
<1>2. \A n \in 0 .. k : g[n] = OpenAfter(c, g, n)
  BY OpenValue
<1>3. 0 \in T
  <2>1. f[0] = {} /\ g[0] = {}
    <3>1. 0 \in 0 .. m /\ 0 \in 0 .. k
      OBVIOUS
    <3> QED
      BY <1>1, <1>2, <3>1, OpenKinds
  <2> QED
    BY <2>1
<1>4. ASSUME NEW q \in Nat, q \in T PROVE q + 1 \in T
  <2> SUFFICES ASSUME q + 1 <= m PROVE f[q + 1] = g[q + 1] /\ f[q + 1] \subseteq 1 .. q + 1
    OBVIOUS
  <2>1. PICK o : o = f[q] /\ o = g[q] /\ o \subseteq 1 .. q
    BY <1>4
  <2>2. PICK n \in Nat : n = q + 1 /\ n # 0 /\ n - 1 = q
    OBVIOUS
  <2>3. n \in 0 .. m /\ n \in 0 .. k /\ n \in 1 .. m /\ \A j \in o : j \in 1 .. m /\ j \in 1 .. n
    BY <2>1, <2>2
  <2>4. s[n] = c[n] /\ \A j \in o : s[j] = c[j]
    BY <2>3
  <2>5. f[n] = OpenAfter(s, f, n) /\ g[n] = OpenAfter(c, g, n)
    BY <1>1, <1>2, <2>3
  <2>6. OpenAfter(s, f, n) = OpenAfter(c, g, n)
    <3>1. f[n - 1] = o /\ g[n - 1] = o
      BY ONLY <2>1, <2>2
    <3>2. {i \in o : \A j \in o : s[j].id = s[n].id => i < j}
            = {i \in o : \A j \in o : c[j].id = c[n].id => i < j}
      BY ONLY <2>4
    <3>3. PICK a : a = {i \in o : \A j \in o : s[j].id = s[n].id => i < j}
      OBVIOUS
    <3>4. OpenAfter(s, f, n) = IF s[n].type = "begin" THEN o \cup {n}
                               ELSE IF s[n].type = "begin_async" THEN o ELSE a
      BY ONLY <2>2, <3>1, <3>3 DEF OpenAfter
    <3>5. PICK b : b = {i \in o : \A j \in o : c[j].id = c[n].id => i < j}
      OBVIOUS
    <3>6. OpenAfter(c, g, n) = IF c[n].type = "begin" THEN o \cup {n}
                               ELSE IF c[n].type = "begin_async" THEN o ELSE b
      BY ONLY <2>2, <3>1, <3>5 DEF OpenAfter
    <3>7. a = b
      BY ONLY <3>2, <3>3, <3>5
    <3> QED
      BY ONLY <2>4, <3>4, <3>6, <3>7
  <2>7. OpenAfter(s, f, n) \subseteq o \cup {n}
    BY ONLY <2>1, <2>2 DEF OpenAfter
  <2> QED
    BY ONLY <2>2, <2>3, <2>5, <2>6, <2>7
<1>5. Nat \subseteq T
  BY <1>3, <1>4, NatSetInduction, Zenon
<1> QED
  BY <1>5

-------------------------------------------------------------------------------
(***************************************************************************)
(* The stack of a thread and the spans its records leave open.             *)
(***************************************************************************)

\* The spans of stack began at the places p of s, in this order, and no other is open.
Places(s, stack, p) ==
    /\ p \in [1 .. Len(stack) -> 1 .. Len(s)]
    /\ \A i \in 1 .. Len(stack) : s[p[i]].id = stack[i]
    /\ \A i, j \in 1 .. Len(stack) : i < j => p[i] < p[j]
    /\ OpenIn(s)[Len(s)] = {p[i] : i \in 1 .. Len(stack)}

\* The stack is what the records imply.
StackOf(s, stack) ==
    /\ stack \in Seq(SpanIds)
    /\ \A i, j \in 1 .. Len(stack) : stack[i] = stack[j] => i = j
    /\ \A i \in 1 .. Len(stack) : ~ stack[i].async
    /\ \E p : Places(s, stack, p)

\* The innermost of the open spans, and its identifier.
Inner(s, open) == IF open = {} THEN NoSpan ELSE s[Max(open)].id
TopOf(stack)   == IF stack = <<>> THEN NoSpan ELSE Last(stack)

\* ParentIsInnermost of one thread's records; the innermost span is one of the open ones.
ParentsRight(s) ==
    \A n \in 1 .. Len(s) : s[n].type = "begin" =>
        /\ s[n].parent = Inner(s, OpenIn(s)[n - 1])
        /\ OpenIn(s)[n - 1] # {} => Max(OpenIn(s)[n - 1]) \in OpenIn(s)[n - 1]

\* c is s with the record r behind it.
Grown(c, s, r, m) ==
    /\ m \in Nat /\ Len(s) = m /\ Len(c) = m + 1
    /\ \A n \in 1 .. m : c[n] = s[n]
    /\ c[m + 1] = r

\* What is open after the records of c, given what was after those of s.
GrownOpen(c, s, r, m) ==
    /\ Grown(c, s, r, m)
    /\ \A n \in 0 .. m : OpenIn(c)[n] = OpenIn(s)[n] /\ OpenIn(s)[n] \subseteq 1 .. n
    /\ r.type = "begin" => OpenIn(c)[m + 1] = OpenIn(s)[m] \cup {m + 1}
    /\ r.type = "begin_async" => OpenIn(c)[m + 1] = OpenIn(s)[m]
    /\ r.type = "end" => OpenIn(c)[m + 1] = {i \in OpenIn(s)[m] :
                                               \A j \in OpenIn(s)[m] : s[j].id = r.id => i < j}

\* Append adds one record behind the others.
LEMMA AppendGrows ==
    ASSUME NEW s \in Seq(Records), NEW r \in Records, NEW c, c = Append(s, r)
    PROVE  Grown(c, s, r, Len(s))
<1>1. Len(s) \in Nat
  OBVIOUS
<1> QED
  BY <1>1, AppendProperties DEF Grown

\* What is open after each record of s is the same in s with one record more.
LEMMA OpenGrows ==
    ASSUME NEW s, NEW r, NEW c, NEW m, Grown(c, s, r, m)
    PROVE  GrownOpen(c, s, r, m)
<1>1. m \in Nat /\ Len(s) = m /\ Len(c) = m + 1 /\ c[m + 1] = r /\ \A n \in 1 .. m : s[n] = c[n]
  BY DEF Grown
<1>2. PICK f : f = OpenIn(s) /\ OpenUpTo(f, s, m)
  BY <1>1, OpenInIs
<1>3. PICK k \in Nat : k = m + 1 /\ k # 0 /\ k - 1 = m /\ m <= k
  BY ONLY <1>1
<1>4. PICK g : g = OpenIn(c) /\ OpenUpTo(g, c, k)
  BY <1>1, <1>3, OpenInIs
<1>5. \A n \in 0 .. m : f[n] = g[n] /\ f[n] \subseteq 1 .. n
  <2>1. OpenUpTo(f, s, m) /\ OpenUpTo(g, c, k) /\ m \in Nat /\ m <= k
    BY ONLY <1>1, <1>2, <1>3, <1>4
  <2>2. \A n \in 1 .. m : s[n] = c[n]
    BY ONLY <1>1
  <2> QED
    BY ONLY <2>1, <2>2, k \in Nat, OpenPrefix
<1>6. g[k] = OpenAfter(c, g, k)
  <2>1. k \in 0 .. k
    BY <1>3
  <2> QED
    BY ONLY <1>4, <2>1, <1>3, OpenValue
<1>7. PICK o : o = f[m] /\ o = g[m] /\ o \subseteq 1 .. m
  <2>1. m \in 0 .. m
    BY <1>1
  <2> QED
    BY ONLY <1>5, <2>1
<1>8. \A j \in o : c[j] = s[j]
  BY <1>1, <1>7
<1>9. c[k] = r /\ g[k - 1] = o
  BY <1>1, <1>3, <1>7
<1>10. /\ r.type = "begin" => g[k] = o \cup {k}
       /\ r.type = "begin_async" => g[k] = o
       /\ r.type = "end" => g[k] = {i \in o : \A j \in o : c[j].id = r.id => i < j}
  BY ONLY <1>3, <1>6, <1>9, OpenKinds
<1>11. {i \in o : \A j \in o : c[j].id = r.id => i < j} = {i \in o : \A j \in o : s[j].id = r.id => i < j}
  BY ONLY <1>8
<1>12. \A n \in 0 .. m : g[n] = f[n] /\ f[n] \subseteq 1 .. n
  BY <1>5
<1> QED
  BY ONLY <1>2, <1>3, <1>4, <1>7, <1>10, <1>11, <1>12, Grown(c, s, r, m) DEF GrownOpen

\* The place of the top of the stack is the largest.
LEMMA StackParent ==
    ASSUME NEW s, NEW stack, StackOf(s, stack), NEW m \in Nat, Len(s) = m
    PROVE  /\ TopOf(stack) = Inner(s, OpenIn(s)[m])
           /\ OpenIn(s)[m] # {} => Max(OpenIn(s)[m]) \in OpenIn(s)[m]
<1>1. PICK p : Places(s, stack, p)
  BY DEF StackOf
<1>2. stack \in Seq(SpanIds)
  BY DEF StackOf
<1>3. PICK l \in Nat : l = Len(stack)
  BY <1>2, LenProperties
<1>4. PICK o : o = OpenIn(s)[m] /\ o = {p[i] : i \in 1 .. l}
  BY <1>1, <1>3 DEF Places
<1>5. CASE l = 0
  <2>1. stack = <<>> /\ o = {}
    <3>1. stack = <<>>
      BY ONLY <1>2, <1>3, <1>5, EmptySeq
    <3> QED
      BY ONLY <1>4, <1>5, <3>1
  <2> QED
    BY <1>4, <2>1 DEF TopOf, Inner
<1>6. CASE l # 0
  <2>1. l \in 1 .. l /\ \A i \in 1 .. l : i < l \/ i = l
    BY <1>6
  <2>2. p[l] \in o /\ \A i \in 1 .. l : p[i] \in Nat /\ p[i] <= p[l]
    <3>1. p \in [1 .. l -> 1 .. m] /\ \A i, j \in 1 .. l : i < j => p[i] < p[j]
      BY <1>1, <1>3 DEF Places
    <3>2. \A i \in 1 .. l : p[i] \in Nat
      BY <3>1
    <3> QED
      BY <2>1, <1>4, <3>1, <3>2
  <2>3. \A y \in o : p[l] >= y
    BY <1>4, <2>2
  <2>4. \A x \in o : (\A y \in o : x >= y) => x = p[l]
    <3>1. \A x \in o : x \in Nat /\ x <= p[l]
      BY ONLY <1>4, <2>2
    <3>2. p[l] \in Nat
      BY ONLY <2>1, <2>2
    <3> QED
      BY ONLY <2>2, <3>1, <3>2
  <2>5. Max(o) = p[l]
    BY <2>2, <2>3, <2>4 DEF Max
  <2>6. s[p[l]].id = stack[l] /\ stack # <<>>
    BY <1>1, <1>3, <1>6, <2>1, LenProperties DEF Places
  <2>7. TopOf(stack) = stack[l]
    BY <1>3, <2>6 DEF TopOf, Last
  <2> QED
    BY <1>4, <2>2, <2>5, <2>6, <2>7 DEF Inner
<1> QED
  BY <1>5, <1>6

\* A record keeps the parents right if its own is.
LEMMA ParentsGrow ==
    ASSUME NEW s, NEW r, NEW c, NEW m, GrownOpen(c, s, r, m), ParentsRight(s),
           r.type = "begin" =>
              /\ r.parent = Inner(s, OpenIn(s)[m])
              /\ OpenIn(s)[m] # {} => Max(OpenIn(s)[m]) \in OpenIn(s)[m]
    PROVE  ParentsRight(c)
<1>1. m \in Nat /\ Len(s) = m /\ Len(c) = m + 1 /\ c[m + 1] = r /\ \A n \in 1 .. m : c[n] = s[n]
  BY DEF GrownOpen, Grown
<1>2. ASSUME NEW n \in 1 .. m + 1, c[n].type = "begin"
      PROVE  /\ c[n].parent = Inner(c, OpenIn(c)[n - 1])
             /\ OpenIn(c)[n - 1] # {} => Max(OpenIn(c)[n - 1]) \in OpenIn(c)[n - 1]
  <2>1. n - 1 \in 0 .. m
    BY <1>1
  <2>2. PICK o : o = OpenIn(c)[n - 1] /\ o = OpenIn(s)[n - 1] /\ o \subseteq 1 .. n - 1
    BY <2>1 DEF GrownOpen
  <2>3. c[n].parent = Inner(s, o) /\ (o # {} => Max(o) \in o)
    <3>1. CASE n \in 1 .. m
      BY <1>1, <1>2, <2>2, <3>1 DEF ParentsRight
    <3>2. CASE n = m + 1
      <4>1. n - 1 = m
        BY <1>1, <3>2
      <4> QED
        BY <1>1, <1>2, <2>2, <3>2, <4>1
    <3> QED
      BY <1>1, <3>1, <3>2
  <2>4. Inner(c, o) = Inner(s, o)
    <3>1. CASE o = {}
      BY <3>1 DEF Inner
    <3>2. CASE o # {}
      <4>1. Max(o) \in 1 .. m
        BY <1>1, <2>2, <2>3, <3>2
      <4> QED
        BY <1>1, <3>2, <4>1 DEF Inner
    <3> QED
      BY <3>1, <3>2
  <2> QED
    BY <2>2, <2>3, <2>4
<1> QED
  BY <1>1, <1>2 DEF ParentsRight

\* begin pushes its span.
LEMMA BeginStack ==
    ASSUME NEW s, NEW r, NEW c, NEW m, GrownOpen(c, s, r, m), NEW stack, StackOf(s, stack),
           NEW id \in SpanIds, r.type = "begin", r.id = id, ~ id.async,
           \A i \in 1 .. Len(stack) : stack[i] # id
    PROVE  StackOf(c, Append(stack, id))
<1>1. m \in Nat /\ Len(s) = m /\ Len(c) = m + 1 /\ c[m + 1] = r /\ \A n \in 1 .. m : c[n] = s[n]
  BY DEF GrownOpen, Grown
<1>2. PICK p : Places(s, stack, p)
  BY DEF StackOf
<1>3. stack \in Seq(SpanIds)
  BY DEF StackOf
<1>4. PICK l \in Nat : l = Len(stack)
  BY <1>3, LenProperties
<1>5. PICK w : w = Append(stack, id)
  OBVIOUS
<1>6. w \in Seq(SpanIds) /\ Len(w) = l + 1 /\ w[l + 1] = id /\ \A i \in 1 .. l : w[i] = stack[i]
  BY <1>3, <1>4, <1>5, AppendProperties
<1>7. PICK q : q = [i \in 1 .. l + 1 |-> IF i = l + 1 THEN m + 1 ELSE p[i]]
  OBVIOUS
<1>8. /\ p \in [1 .. l -> 1 .. m]
      /\ \A i \in 1 .. l : s[p[i]].id = stack[i]
      /\ \A i, j \in 1 .. l : i < j => p[i] < p[j]
      /\ OpenIn(s)[m] = {p[i] : i \in 1 .. l}
  BY <1>1, <1>2, <1>4 DEF Places
<1>9. q[l + 1] = m + 1 /\ \A i \in 1 .. l : q[i] = p[i] /\ q[i] \in 1 .. m
  <2>1. l + 1 \in 1 .. l + 1 /\ \A i \in 1 .. l : i \in 1 .. l + 1 /\ i # l + 1
    OBVIOUS
  <2> QED
    BY ONLY <1>7, <1>8, <2>1
<1>10. Places(c, w, q)
  <2>1. q \in [1 .. l + 1 -> 1 .. m + 1]
    <3>1. \A i \in 1 .. l + 1 : (IF i = l + 1 THEN m + 1 ELSE p[i]) \in 1 .. m + 1
      BY <1>1, <1>8
    <3> QED
      BY ONLY <1>7, <3>1
  <2>2. ASSUME NEW i \in 1 .. l + 1 PROVE c[q[i]].id = w[i]
    <3>1. CASE i \in 1 .. l
      BY <1>1, <1>6, <1>8, <1>9, <3>1
    <3>2. CASE i = l + 1
      BY <1>1, <1>6, <1>9, <3>2
    <3> QED
      BY <3>1, <3>2
  <2>3. ASSUME NEW i \in 1 .. l + 1, NEW j \in 1 .. l + 1, i < j PROVE q[i] < q[j]
    <3>1. i \in 1 .. l
      BY <2>3
    <3>2. CASE j \in 1 .. l
      BY <1>8, <1>9, <2>3, <3>1, <3>2
    <3>3. CASE j = l + 1
      BY <1>1, <1>9, <3>1, <3>3
    <3> QED
      BY <3>2, <3>3
  <2>4. OpenIn(c)[m + 1] = {q[i] : i \in 1 .. l + 1}
    <3>1. OpenIn(c)[m + 1] = {p[i] : i \in 1 .. l} \cup {m + 1}
      BY <1>8 DEF GrownOpen
    <3>2. \A i : i \in 1 .. l + 1 <=> i \in 1 .. l \/ i = l + 1
      OBVIOUS
    <3> QED
      BY ONLY <1>9, <3>1, <3>2
  <2> QED
    BY ONLY <1>1, <1>6, <2>1, <2>2, <2>3, <2>4 DEF Places
<1>11. \A i, j \in 1 .. l + 1 : w[i] = w[j] => i = j
  <2>1. \A i, j \in 1 .. l : stack[i] = stack[j] => i = j
    BY <1>4 DEF StackOf
  <2> QED
    BY <1>4, <1>6, <2>1
<1>12. \A i \in 1 .. l + 1 : ~ w[i].async
  <2>1. \A i \in 1 .. l : ~ stack[i].async
    BY <1>4 DEF StackOf
  <2> QED
    BY <1>6, <2>1
<1> QED
  BY ONLY <1>5, <1>6, <1>10, <1>11, <1>12 DEF StackOf

\* begin_async leaves it as it is.
LEMMA AsyncStack ==
    ASSUME NEW s, NEW r, NEW c, NEW m, GrownOpen(c, s, r, m), NEW stack, StackOf(s, stack),
           r.type = "begin_async"
    PROVE  StackOf(c, stack)
<1>1. m \in Nat /\ Len(s) = m /\ Len(c) = m + 1 /\ \A n \in 1 .. m : c[n] = s[n]
  BY DEF GrownOpen, Grown
<1>2. PICK p : Places(s, stack, p)
  BY DEF StackOf
<1>3. PICK D : D = 1 .. Len(stack)
  OBVIOUS
<1>4. /\ p \in [D -> 1 .. m]
      /\ \A i \in D : s[p[i]].id = stack[i]
      /\ \A i, j \in D : i < j => p[i] < p[j]
      /\ OpenIn(c)[m + 1] = {p[i] : i \in D}
  BY <1>1, <1>2, <1>3 DEF Places, GrownOpen
<1>5. p \in [D -> 1 .. m + 1] /\ \A i \in D : c[p[i]].id = stack[i]
  BY <1>1, <1>4
<1>6. Places(c, stack, p)
  BY ONLY <1>1, <1>3, <1>4, <1>5 DEF Places
<1> QED
  BY <1>6 DEF StackOf

\* end pops its span with those inside it, if it is on the stack; an asynchronous span never is.
LEMMA EndStack ==
    ASSUME NEW s, NEW r, NEW c, NEW m, GrownOpen(c, s, r, m), NEW stack, StackOf(s, stack),
           NEW id, r.type = "end", r.id = id
    PROVE  StackOf(c, pop_span(stack, id)) /\ (id.async => pop_span(stack, id) = stack)
<1>1. m \in Nat /\ Len(s) = m /\ Len(c) = m + 1 /\ \A n \in 1 .. m : c[n] = s[n]
  BY DEF GrownOpen, Grown
<1>2. PICK p : Places(s, stack, p)
  BY DEF StackOf
<1>3. stack \in Seq(SpanIds)
  BY DEF StackOf
<1>4. PICK l \in Nat : l = Len(stack) /\ DOMAIN stack = 1 .. l
  BY <1>3, LenProperties
<1>5. /\ p \in [1 .. l -> 1 .. m]
      /\ \A i \in 1 .. l : s[p[i]].id = stack[i]
      /\ \A i, j \in 1 .. l : i < j => p[i] < p[j]
      /\ OpenIn(s)[m] = {p[i] : i \in 1 .. l}
  BY <1>1, <1>2, <1>4 DEF Places
<1>6. /\ \A i, j \in 1 .. l : stack[i] = stack[j] => i = j
      /\ \A i \in 1 .. l : ~ stack[i].async
  BY <1>4 DEF StackOf
<1>7. PICK o : o = {p[i] : i \in 1 .. l}
  OBVIOUS
<1>8. OpenIn(c)[m + 1] = {i \in o : \A j \in o : s[j].id = id => i < j}
  BY <1>5, <1>7 DEF GrownOpen
<1>9. \A i \in 1 .. l : p[i] \in 1 .. m /\ p[i] \in 1 .. m + 1 /\ c[p[i]].id = stack[i]
  BY <1>1, <1>5
<1>10. CASE \E i \in 1 .. l : stack[i] = id
  <2>1. PICK k \in 1 .. l : stack[k] = id /\ pop_span(stack, id) = SubSeq(stack, 1, k - 1)
    BY <1>4, <1>10 DEF pop_span
  <2>2. PICK h \in Nat : h = k - 1
    OBVIOUS
  <2>3. \A i : i \in 1 .. h <=> i \in 1 .. l /\ i < k
    BY <2>2
  <2>4. PICK w : w = SubSeq(stack, 1, h)
    OBVIOUS
  <2>5. w \in Seq(SpanIds) /\ Len(w) = h /\ \A i \in 1 .. h : w[i] = stack[i]
    BY <1>3, <1>4, <2>2, <2>4, SubSeqProperties
  <2>6. PICK q : q = [i \in 1 .. h |-> p[i]]
    OBVIOUS
  <2>7. \A i \in 1 .. h : q[i] = p[i]
    BY <2>6
  <2>8. OpenIn(c)[m + 1] = {q[i] : i \in 1 .. h}
    <3>1. p[k] \in o /\ s[p[k]].id = id
      BY <1>5, <1>7, <2>1
    <3>2. \A j \in o : s[j].id = id => j = p[k]
      BY <1>5, <1>6, <1>7, <2>1
    <3>3. \A x : x \in OpenIn(c)[m + 1] <=> x \in o /\ x < p[k]
      BY ONLY <1>8, <3>1, <3>2
    <3>4. \A i \in 1 .. l : p[i] < p[k] <=> i < k
      <4>1. \A i \in 1 .. l : i < k \/ i = k \/ k < i
        OBVIOUS
      <4> QED
        BY <1>5, <1>9, <4>1
    <3>5. \A x : x \in OpenIn(c)[m + 1] <=> \E i \in 1 .. h : x = q[i]
      <4>1. \A x : x \in OpenIn(c)[m + 1] <=> \E i \in 1 .. l : x = p[i] /\ p[i] < p[k]
        BY ONLY <1>7, <3>3
      <4>2. \A x : x \in OpenIn(c)[m + 1] <=> \E i \in 1 .. l : x = p[i] /\ i < k
        BY ONLY <3>4, <4>1
      <4> QED
        BY ONLY <2>3, <2>7, <4>2
    <3>6. OpenIn(c)[m + 1] \subseteq o
      BY ONLY <3>3
    <3> QED
      BY ONLY <3>5, <1>8
  <2>9. Places(c, w, q)
    <3>1. q \in [1 .. h -> 1 .. m + 1]
      BY <1>9, <2>3, <2>6
    <3>2. \A i \in 1 .. h : c[q[i]].id = w[i]
      BY <1>9, <2>3, <2>5, <2>7
    <3>3. \A i, j \in 1 .. h : i < j => q[i] < q[j]
      BY <1>5, <2>3, <2>7
    <3> QED
      BY ONLY <1>1, <2>5, <2>8, <3>1, <3>2, <3>3 DEF Places
  <2>10. /\ \A i, j \in 1 .. h : w[i] = w[j] => i = j
         /\ \A i \in 1 .. h : ~ w[i].async
    <3>1. \A i \in 1 .. h : i \in 1 .. l /\ w[i] = stack[i]
      BY ONLY <2>3, <2>5
    <3> QED
      BY ONLY <1>6, <3>1
  <2>11. StackOf(c, w)
    BY ONLY <2>5, <2>9, <2>10 DEF StackOf
  <2> QED
    BY <1>6, <2>1, <2>2, <2>4, <2>11
<1>11. CASE ~ \E i \in 1 .. l : stack[i] = id
  <2>1. pop_span(stack, id) = stack
    BY <1>4, <1>11 DEF pop_span
  <2>2. \A j \in o : s[j].id # id
    BY <1>5, <1>7, <1>11
  <2>3. OpenIn(c)[m + 1] = o
    BY ONLY <1>8, <2>2
  <2>4. p \in [1 .. l -> 1 .. m + 1]
    BY <1>5, <1>9
  <2>5. Places(c, stack, p)
    BY ONLY <1>1, <1>4, <1>5, <1>7, <1>9, <2>3, <2>4 DEF Places
  <2>6. StackOf(c, stack)
    BY ONLY <1>3, <1>4, <1>6, <2>5 DEF StackOf
  <2> QED
    BY <2>1, <2>6
<1> QED
  BY <1>10, <1>11

-------------------------------------------------------------------------------
(***************************************************************************)
(* Where a record goes.                                                    *)
(***************************************************************************)

\* The stack of every thread is what its records imply, and so were the parents; a thread
\* that has exited holds nothing; what the API returned was issued.
ParentInv ==
    /\ \A t \in Threads : StackOf(Stream(t), mo_open_spans[t]) /\ ParentsRight(Stream(t))
    /\ \A t \in gone : t \in Threads => held[t] = <<>>
    /\ \A h \in handles : \E i \in DOMAIN issued : issued[i] = h.n

\* Concatenation: its type, associativity, and the empty sequence on the right.
LEMMA JoinFacts ==
    \A S : \A a, b, c \in Seq(S) :
        /\ a \o b \in Seq(S)
        /\ (a \o b) \o c = a \o (b \o c)
        /\ a \o <<>> = a
BY ConcatProperties, ConcatAssociative, ConcatEmptySeq

\* The parts of a stream are records.
LEMMA StreamParts ==
    ASSUME RecordTypes, NEW t \in Threads
    PROVE  /\ sink[t] \in Seq(Records) /\ lo_ready[t] \in Seq(Records)
           /\ mo_ready_queue[t] \in Seq(Records) /\ held[t] \in Seq(Records)
           /\ Stream(t) \in Seq(Records)
<1>1. PICK a \in Seq(Records), b \in Seq(Records), c \in Seq(Records), d \in Seq(Records) :
         a = sink[t] /\ b = lo_ready[t] /\ c = mo_ready_queue[t] /\ d = held[t]
  BY DEF RecordTypes
<1>2. ((a \o b) \o c) \o d \in Seq(Records)
  <2>1. PICK x \in Seq(Records) : x = a \o b
    BY ONLY JoinFacts
  <2>2. PICK y \in Seq(Records) : y = x \o c
    BY ONLY JoinFacts
  <2>3. y \o d \in Seq(Records)
    BY ONLY JoinFacts
  <2> QED
    BY ONLY <2>1, <2>2, <2>3
<1> QED
  BY <1>1, <1>2 DEF Stream

\* A record joins the stream of its thread.
LEMMA WriteStream ==
    ASSUME RecordTypes, NEW t \in Threads, NEW r \in Records,
           held' = [held EXCEPT ![t] = Append(held[t], r)], UNCHANGED <<sink, lo_ready, mo_ready_queue>>
    PROVE  /\ Stream(t)' = Append(Stream(t), r)
           /\ \A u \in Threads \ {t} : Stream(u)' = Stream(u)
<1>1. held'[t] = Append(held[t], r) /\ \A u \in Threads \ {t} : held'[u] = held[u]
  BY DEF RecordTypes
<1>2. PICK h \in Seq(Records) : h = held[t]
  BY StreamParts
<1>3. PICK x \in Seq(Records) : x = sink[t] \o lo_ready[t] \o mo_ready_queue[t]
  <2>1. PICK a \in Seq(Records), b \in Seq(Records), c \in Seq(Records) :
           a = sink[t] /\ b = lo_ready[t] /\ c = mo_ready_queue[t]
    BY StreamParts
  <2>2. PICK y \in Seq(Records) : y = a \o b
    BY ONLY JoinFacts
  <2>3. y \o c \in Seq(Records)
    BY ONLY JoinFacts
  <2> QED
    BY ONLY <2>1, <2>2, <2>3
<1>4. x \o Append(h, r) = Append(x \o h, r)
  BY ONLY r \in Records, ConcatSnoc
<1>5. Stream(t)' = x \o Append(h, r) /\ Stream(t) = x \o h
  BY <1>1, <1>2, <1>3 DEF Stream
<1>6. \A u \in Threads \ {t} : Stream(u)' = Stream(u)
  BY <1>1 DEF Stream
<1> QED
  BY ONLY <1>4, <1>5, <1>6

\* The exit of a thread and the steps of the worker leave every stream as it is.
LEMMA MoveStream ==
    ASSUME RecordTypes, MovesInv, \A t \in gone : t \in Threads => held[t] = <<>>,
           (\E t \in Threads : Exit(t) \/ Pull(t)) \/ CollectBegin \/ flush_ready
    PROVE  /\ \A u \in Threads : Stream(u)' = Stream(u)
           /\ \A t \in gone' : t \in Threads => held'[t] = <<>>
<1>1. ASSUME NEW t \in Threads, Exit(t)
      PROVE  /\ \A u \in Threads : Stream(u)' = Stream(u)
             /\ \A u \in gone' : u \in Threads => held'[u] = <<>>
  <2>1. /\ UNCHANGED <<sink, lo_ready>> /\ gone' = gone \cup {t}
        /\ mo_ready_queue[t] = <<>> /\ mo_ready_queue'[t] = held[t] /\ held'[t] = <<>>
        /\ \A u \in Threads \ {t} : mo_ready_queue'[u] = mo_ready_queue[u] /\ held'[u] = held[u]
    BY <1>1 DEF Exit, workerVars, RecordTypes, MovesInv
  <2>2. PICK a \in Seq(Records), b \in Seq(Records), d \in Seq(Records) :
           a = sink[t] /\ b = lo_ready[t] /\ d = held[t]
    BY StreamParts
  <2>3. ((a \o b) \o <<>>) \o d = ((a \o b) \o d) \o <<>>
    <3>1. PICK x \in Seq(Records) : x = a \o b
      BY ONLY JoinFacts
    <3>2. x \o <<>> = x
      BY ONLY JoinFacts
    <3>3. PICK y \in Seq(Records) : y = x \o d
      BY ONLY JoinFacts
    <3>4. y \o <<>> = y
      BY ONLY JoinFacts
    <3> QED
      BY ONLY <3>1, <3>2, <3>3, <3>4
  <2>4. Stream(t)' = Stream(t)
    BY ONLY <2>1, <2>2, <2>3 DEF Stream
  <2>5. \A u \in Threads \ {t} : Stream(u)' = Stream(u)
    BY ONLY <2>1 DEF Stream
  <2>6. \A u \in gone' : u \in Threads => held'[u] = <<>>
    BY <2>1
  <2> QED
    BY <2>4, <2>5, <2>6
<1>2. ASSUME NEW t \in Threads, Pull(t)
      PROVE  /\ \A u \in Threads : Stream(u)' = Stream(u)
             /\ \A u \in gone' : u \in Threads => held'[u] = <<>>
  <2>1. /\ UNCHANGED <<sink, mo_ready_queue, gone>>
        /\ lo_ready[t] = <<>> /\ lo_ready'[t] = held[t] /\ held'[t] = <<>>
        /\ \A u \in Threads \ {t} : lo_ready'[u] = lo_ready[u] /\ held'[u] = held[u]
        /\ mo_ready_queue[t] = <<>> \/ held[t] = <<>>
    BY <1>2 DEF Pull, writerVars, RecordTypes, MovesInv
  <2>2. PICK a \in Seq(Records), c \in Seq(Records), d \in Seq(Records) :
           a = sink[t] /\ c = mo_ready_queue[t] /\ d = held[t]
    BY StreamParts
  <2>3. ((a \o <<>>) \o c) \o d = ((a \o d) \o c) \o <<>>
    <3>1. a \o <<>> = a
      BY ONLY JoinFacts
    <3>2. PICK x \in Seq(Records), y \in Seq(Records) : x = a \o d /\ y = a \o c
      BY ONLY JoinFacts
    <3>3. PICK z \in Seq(Records) : z = x \o c
      BY ONLY JoinFacts
    <3>4. x \o <<>> = x /\ y \o <<>> = y /\ z \o <<>> = z
      BY ONLY JoinFacts
    <3>5. c = <<>> \/ d = <<>>
      BY ONLY <2>1, <2>2
    <3>6. CASE c = <<>>
      BY ONLY <3>1, <3>2, <3>3, <3>4, <3>6
    <3>7. CASE d = <<>>
      BY ONLY <3>1, <3>2, <3>3, <3>4, <3>7
    <3> QED
      BY <3>5, <3>6, <3>7
  <2>4. Stream(t)' = Stream(t)
    BY ONLY <2>1, <2>2, <2>3 DEF Stream
  <2>5. \A u \in Threads \ {t} : Stream(u)' = Stream(u)
    BY ONLY <2>1 DEF Stream
  <2>6. \A u \in gone' : u \in Threads => held'[u] = <<>>
    BY <2>1
  <2> QED
    BY <2>4, <2>5, <2>6
<1>3. ASSUME CollectBegin
      PROVE  /\ \A u \in Threads : Stream(u)' = Stream(u)
             /\ \A u \in gone' : u \in Threads => held'[u] = <<>>
  BY <1>3 DEF CollectBegin, writerVars, Stream
<1>4. ASSUME flush_ready
      PROVE  /\ \A u \in Threads : Stream(u)' = Stream(u)
             /\ \A u \in gone' : u \in Threads => held'[u] = <<>>
  <2>1. /\ UNCHANGED <<gone, held>>
        /\ \A t \in Threads : /\ sink'[t] = sink[t] \o (lo_ready[t] \o mo_ready_queue[t])
                              /\ lo_ready'[t] = <<>> /\ mo_ready_queue'[t] = <<>>
    BY <1>4 DEF flush_ready, writerVars
  <2>2. ASSUME NEW t \in Threads PROVE Stream(t)' = Stream(t)
    <3>1. PICK a \in Seq(Records), b \in Seq(Records), c \in Seq(Records) :
             a = sink[t] /\ b = lo_ready[t] /\ c = mo_ready_queue[t]
      BY StreamParts
    <3>2. ((a \o (b \o c)) \o <<>>) \o <<>> = (a \o b) \o c
      <4>1. a \o (b \o c) = (a \o b) \o c
        BY ONLY JoinFacts
      <4>2. PICK x \in Seq(Records) : x = a \o b
        BY ONLY JoinFacts
      <4>3. PICK y \in Seq(Records) : y = x \o c
        BY ONLY JoinFacts
      <4>4. y \o <<>> = y
        BY ONLY JoinFacts
      <4> QED
        BY ONLY <4>1, <4>2, <4>3, <4>4
    <3> QED
      BY ONLY <2>1, <3>1, <3>2, t \in Threads DEF Stream
  <2> QED
    BY <2>1, <2>2
<1> QED
  BY <1>1, <1>2, <1>3, <1>4

\* What a record written by t does to the streams.
LEMMA RecordGrows ==
    ASSUME RecordTypes, NEW t \in Threads, NEW r \in Records,
           held' = [held EXCEPT ![t] = Append(held[t], r)], UNCHANGED <<sink, lo_ready, mo_ready_queue>>
    PROVE  /\ Len(Stream(t)) \in Nat
           /\ GrownOpen(Stream(t)', Stream(t), r, Len(Stream(t)))
           /\ \A u \in Threads \ {t} : Stream(u)' = Stream(u)
           /\ \A u \in Threads \ {t} : held'[u] = held[u]
<1>1. PICK s \in Seq(Records) : s = Stream(t)
  BY StreamParts
<1>2. PICK c : c = Append(s, r)
  OBVIOUS
<1>3. Stream(t)' = c /\ \A u \in Threads \ {t} : Stream(u)' = Stream(u)
  BY <1>1, <1>2, WriteStream
<1>4. Grown(c, s, r, Len(s))
  BY ONLY <1>2, r \in Records, AppendGrows
<1>5. GrownOpen(c, s, r, Len(s))
  BY ONLY <1>4, OpenGrows
<1>6. Len(s) \in Nat
  OBVIOUS
<1>7. \A u \in Threads \ {t} : held'[u] = held[u]
  BY DEF RecordTypes
<1> QED
  BY ONLY <1>1, <1>3, <1>5, <1>6, <1>7

\* The number that is taken was not issued before, and is now.
LEMMA FreshNumber ==
    ASSUME IdInv, NEW t \in Threads, TakeId(t), issued' = Append(issued, NextId(t))
    PROVE  /\ \A i \in DOMAIN issued : issued[i] # NextId(t)
           /\ \E i \in DOMAIN issued' : issued'[i] = NextId(t)
           /\ \A n : (\E i \in DOMAIN issued : issued[i] = n) => \E i \in DOMAIN issued' : issued'[i] = n
<1>1. PICK n \in Nat : n = NextId(t) /\ (n < mu_span_id_seq => n \in Reserved(t))
  BY TakeIdBlocks DEF IdInv
<1>2. \A i \in DOMAIN issued : issued[i] # n
  BY <1>1 DEF IdInv, IssuedInv
<1>3. issued \in Seq(Nat)
  BY DEF IdInv, IssuedInv
<1>4. /\ DOMAIN Append(issued, n) = 1 .. Len(issued) + 1 /\ DOMAIN issued = 1 .. Len(issued)
      /\ Len(issued) \in Nat
      /\ \A i \in 1 .. Len(issued) : Append(issued, n)[i] = issued[i]
      /\ Append(issued, n)[Len(issued) + 1] = n
  BY ONLY <1>3, AppendProperties, LenProperties
<1>5. issued' = Append(issued, n)
  BY <1>1
<1> QED
  BY ONLY <1>1, <1>2, <1>4, <1>5

\* A span that begins gets the innermost open span of its thread as its parent and is pushed.
LEMMA BeginParents ==
    ASSUME ParentInv, RecordInv, IdInv, PositiveInv, NEW t \in Threads, begin(t)
    PROVE  ParentInv'
<1>1. PICK id : id = [async |-> FALSE, n |-> NextId(t)]
  OBVIOUS
<1>2. id \in SpanIds /\ ~ id.async /\ id.n = NextId(t)
  BY <1>1, NextIsPositive DEF SpanIds
<1>3. PICK r : r = [type |-> "begin", id |-> id, parent |-> Innermost(t), ts |-> ticks]
  OBVIOUS
<1>4. /\ t \notin gone /\ gone' = gone /\ TakeId(t) /\ issued' = Append(issued, NextId(t))
      /\ held' = [held EXCEPT ![t] = Append(held[t], r)] /\ handles' = handles \cup {id}
      /\ mo_open_spans' = [mo_open_spans EXCEPT ![t] = Append(mo_open_spans[t], id)]
      /\ UNCHANGED <<sink, lo_ready, mo_ready_queue>>
  BY <1>1, <1>2, <1>3 DEF begin, write_begin, Write, workerVars
<1>5. r \in Records /\ r.type = "begin" /\ r.id = id /\ r.parent = TopOf(mo_open_spans[t])
  <2>1. Innermost(t) \in SpanIds
    <3>1. NoSpan \in SpanIds
      BY DEF NoSpan, SpanIds
    <3>2. handles \subseteq SpanIds /\ Range(mo_open_spans[t]) \subseteq handles
      BY DEF RecordInv, RecordTypes, HandlesInv
    <3> QED
      BY <3>1, <3>2, InnermostIsOpen DEF RecordInv
  <2>2. ticks \in Nat
    BY DEF RecordInv, RecordTypes
  <2>3. Innermost(t) = TopOf(mo_open_spans[t])
    BY DEF Innermost, TopOf
  <2> QED
    BY <1>2, <1>3, <2>1, <2>2, <2>3 DEF Records
<1>6. /\ \A i \in DOMAIN issued : issued[i] # id.n
      /\ \E i \in DOMAIN issued' : issued'[i] = id.n
      /\ \A n : (\E i \in DOMAIN issued : issued[i] = n) => \E i \in DOMAIN issued' : issued'[i] = n
  BY ONLY IdInv, t \in Threads, <1>2, <1>4, FreshNumber
<1>7. PICK stack : stack = mo_open_spans[t] /\ stack \in Seq(SpanIds)
  BY DEF RecordInv, RecordTypes
<1>8. \A i \in 1 .. Len(stack) : stack[i] # id
  <2>1. ASSUME NEW i \in 1 .. Len(stack) PROVE stack[i] \in handles
    <3>1. i \in DOMAIN stack
      BY <1>7, LenProperties
    <3> QED
      BY <1>7, <3>1 DEF RecordInv, HandlesInv, Range
  <2> QED
    BY <1>6, <2>1 DEF ParentInv
<1>9. PICK s, c, m : s = Stream(t) /\ c = Stream(t)' /\ m = Len(s)
  OBVIOUS
<1>10. /\ m \in Nat /\ GrownOpen(c, s, r, m)
       /\ \A u \in Threads \ {t} : Stream(u)' = Stream(u) /\ held'[u] = held[u]
  BY <1>4, <1>5, <1>9, RecordGrows DEF RecordInv
<1>11. StackOf(s, stack) /\ ParentsRight(s)
  BY <1>7, <1>9 DEF ParentInv
<1>12. StackOf(c, Append(stack, id))
  BY ONLY <1>2, <1>5, <1>8, <1>10, <1>11, BeginStack
<1>13. ParentsRight(c)
  <2>1. /\ r.parent = Inner(s, OpenIn(s)[m])
        /\ OpenIn(s)[m] # {} => Max(OpenIn(s)[m]) \in OpenIn(s)[m]
    BY ONLY <1>5, <1>7, <1>9, <1>10, <1>11, StackParent
  <2> QED
    BY ONLY <1>10, <1>11, <2>1, ParentsGrow
<1>14. /\ mo_open_spans'[t] = Append(stack, id)
       /\ \A u \in Threads \ {t} : mo_open_spans'[u] = mo_open_spans[u]
  BY <1>4, <1>7 DEF RecordInv, RecordTypes
<1>15. \A u \in Threads : StackOf(Stream(u)', mo_open_spans'[u]) /\ ParentsRight(Stream(u)')
  <2>1. StackOf(c, mo_open_spans'[t])
    BY ONLY <1>12, <1>14
  <2> QED
    BY ONLY ParentInv, <1>9, <1>10, <1>13, <1>14, <2>1 DEF ParentInv
<1>16. \A u \in gone' : u \in Threads => held'[u] = <<>>
  BY ONLY ParentInv, <1>4, <1>10 DEF ParentInv
<1>17. \A h \in handles' : \E i \in DOMAIN issued' : issued'[i] = h.n
  <2>1. handles' = handles \cup {id}
    BY ONLY <1>4
  <2> QED
    BY ONLY ParentInv, <1>6, <2>1 DEF ParentInv
<1> QED
  BY ONLY <1>15, <1>16, <1>17 DEF ParentInv

\* An asynchronous span gets the parent it is told and stays off the stack.
LEMMA AsyncParents ==
    ASSUME ParentInv, RecordInv, IdInv, PositiveInv, NEW t \in Threads,
           NEW parent \in handles \cup {NoSpan}, begin_async(t, parent)
    PROVE  ParentInv'
<1>1. PICK id : id = [async |-> TRUE, n |-> NextId(t)]
  OBVIOUS
<1>2. id \in SpanIds /\ id.n = NextId(t)
  BY <1>1, NextIsPositive DEF SpanIds
<1>3. PICK r : r = [type |-> "begin_async", id |-> id, parent |-> parent, ts |-> ticks]
  OBVIOUS
<1>4. /\ t \notin gone /\ gone' = gone /\ TakeId(t) /\ issued' = Append(issued, NextId(t))
      /\ held' = [held EXCEPT ![t] = Append(held[t], r)] /\ handles' = handles \cup {id}
      /\ UNCHANGED <<sink, lo_ready, mo_ready_queue, mo_open_spans>>
  BY <1>1, <1>2, <1>3 DEF begin_async, write_begin, Write, workerVars
<1>5. r \in Records /\ r.type = "begin_async" /\ r.type # "begin"
  <2>1. NoSpan \in SpanIds
    BY DEF NoSpan, SpanIds
  <2>2. handles \subseteq SpanIds /\ ticks \in Nat
    BY DEF RecordInv, RecordTypes
  <2> QED
    BY <1>2, <1>3, <2>1, <2>2 DEF Records
<1>6. /\ \E i \in DOMAIN issued' : issued'[i] = id.n
      /\ \A n : (\E i \in DOMAIN issued : issued[i] = n) => \E i \in DOMAIN issued' : issued'[i] = n
  BY ONLY IdInv, t \in Threads, <1>2, <1>4, FreshNumber
<1>7. PICK s, c, m : s = Stream(t) /\ c = Stream(t)' /\ m = Len(s)
  OBVIOUS
<1>8. /\ GrownOpen(c, s, r, m)
      /\ \A u \in Threads \ {t} : Stream(u)' = Stream(u) /\ held'[u] = held[u]
  BY <1>4, <1>5, <1>7, RecordGrows DEF RecordInv
<1>9. PICK stack : stack = mo_open_spans[t]
  OBVIOUS
<1>10. StackOf(s, stack) /\ ParentsRight(s)
  BY <1>7, <1>9 DEF ParentInv
<1>11. StackOf(c, stack)
  BY ONLY <1>5, <1>8, <1>10, AsyncStack
<1>12. ParentsRight(c)
  BY ONLY <1>5, <1>8, <1>10, ParentsGrow
<1> QED
  BY ONLY ParentInv, <1>4, <1>6, <1>7, <1>8, <1>9, <1>11, <1>12 DEF ParentInv

\* The end of a span, on whatever thread.
LEMMA EndParents ==
    ASSUME ParentInv, RecordInv, NEW t \in Threads, NEW id \in handles, end(t, id)
    PROVE  ParentInv'
<1>1. PICK r : r = [type |-> "end", id |-> id, parent |-> NoSpan, ts |-> ticks]
  OBVIOUS
<1>2. /\ t \notin gone /\ UNCHANGED <<gone, issued, handles, sink, lo_ready, mo_ready_queue>>
      /\ held' = [held EXCEPT ![t] = Append(held[t], r)]
      /\ mo_open_spans' = IF id.async THEN mo_open_spans
                          ELSE [mo_open_spans EXCEPT ![t] = pop_span(mo_open_spans[t], id)]
  BY <1>1 DEF end, Write, idVars, workerVars
<1>3. r \in Records /\ r.type = "end" /\ r.type # "begin" /\ r.id = id
  <2>1. NoSpan \in SpanIds
    BY DEF NoSpan, SpanIds
  <2>2. handles \subseteq SpanIds /\ ticks \in Nat
    BY DEF RecordInv, RecordTypes
  <2> QED
    BY <1>1, <2>1, <2>2 DEF Records
<1>4. PICK s, c, m : s = Stream(t) /\ c = Stream(t)' /\ m = Len(s)
  OBVIOUS
<1>5. /\ GrownOpen(c, s, r, m)
      /\ \A u \in Threads \ {t} : Stream(u)' = Stream(u) /\ held'[u] = held[u]
  BY <1>2, <1>3, <1>4, RecordGrows DEF RecordInv
<1>6. PICK stack : stack = mo_open_spans[t]
  OBVIOUS
<1>7. StackOf(s, stack) /\ ParentsRight(s)
  BY <1>4, <1>6 DEF ParentInv
<1>8. StackOf(c, pop_span(stack, id)) /\ (id.async => pop_span(stack, id) = stack)
  BY ONLY <1>3, <1>5, <1>7, EndStack
<1>9. ParentsRight(c)
  BY ONLY <1>3, <1>5, <1>7, ParentsGrow
<1>10. /\ mo_open_spans'[t] = pop_span(stack, id)
       /\ \A u \in Threads \ {t} : mo_open_spans'[u] = mo_open_spans[u]
  BY <1>2, <1>6, <1>8 DEF RecordInv, RecordTypes
<1>11. t \notin gone /\ gone' = gone /\ issued' = issued /\ handles' = handles
  BY <1>2
<1>12. StackOf(c, mo_open_spans'[t])
  BY ONLY <1>8, <1>10
<1>13. \A u \in Threads : StackOf(Stream(u)', mo_open_spans'[u]) /\ ParentsRight(Stream(u)')
  BY ONLY ParentInv, <1>4, <1>5, <1>9, <1>10, <1>12 DEF ParentInv
<1>14. \A u \in gone' : u \in Threads => held'[u] = <<>>
  BY ONLY ParentInv, <1>5, <1>11 DEF ParentInv
<1> QED
  BY ONLY ParentInv, <1>11, <1>13, <1>14 DEF ParentInv

\* Stacks and parents are what the records imply in every state.
LEMMA ParentsHold == Spec => []ParentInv
<1>1. Init => ParentInv
  <2> SUFFICES ASSUME Init PROVE ParentInv
    OBVIOUS
  <2>1. PICK s : s = <<>>
    OBVIOUS
  <2>2. s \in Seq(SpanIds) /\ Len(s) = 0
    BY <2>1
  <2>3. \A t \in Threads : Stream(t) = s /\ mo_open_spans[t] = s
    <3>1. s \o s = s
      BY <2>1
    <3>2. \A t \in Threads : sink[t] = s /\ lo_ready[t] = s /\ mo_ready_queue[t] = s /\ held[t] = s
      BY <2>1 DEF Init
    <3> QED
      BY <2>1, <3>1, <3>2 DEF Init, Stream
  <2>4. PICK f : f = OpenIn(s) /\ OpenUpTo(f, s, 0)
    BY <2>2, OpenInIs
  <2>5. f[0] = {}
    <3>1. f[0] = OpenAfter(s, f, 0)
      BY <2>4, OpenValue
    <3> QED
      BY <3>1, OpenKinds
  <2>6. StackOf(s, s)
    <3>1. PICK p : p = [i \in 1 .. 0 |-> 0]
      OBVIOUS
    <3>2. Places(s, s, p)
      BY <2>2, <2>4, <2>5, <3>1 DEF Places
    <3> QED
      BY <2>2, <3>2 DEF StackOf
  <2>7. ParentsRight(s)
    BY <2>2 DEF ParentsRight
  <2> QED
    BY <2>3, <2>6, <2>7 DEF ParentInv, Init
<1>2. ParentInv /\ RecordInv /\ IdInv /\ PositiveInv /\ [Next]_vars => ParentInv'
  <2> SUFFICES ASSUME ParentInv, RecordInv, IdInv, PositiveInv, [Next]_vars PROVE ParentInv'
    OBVIOUS
  <2>1. ASSUME NEW t \in Threads, DiscardBegin(t) PROVE ParentInv'
    <3>1. /\ UNCHANGED <<mo_open_spans, gone, handles, held, mo_ready_queue, sink, lo_ready>>
          /\ TakeId(t) /\ issued' = Append(issued, NextId(t))
      BY <2>1 DEF DiscardBegin, workerVars
    <3>2. \A n : (\E i \in DOMAIN issued : issued[i] = n) => \E i \in DOMAIN issued' : issued'[i] = n
      BY <3>1, FreshNumber
    <3>3. \A u \in Threads : Stream(u)' = Stream(u)
      BY <3>1 DEF Stream
    <3> QED
      BY ONLY ParentInv, <3>1, <3>2, <3>3 DEF ParentInv
  <2>2. ASSUME (\E t \in Threads : Exit(t) \/ Pull(t)) \/ CollectBegin \/ flush_ready PROVE ParentInv'
    <3>1. UNCHANGED <<mo_open_spans, handles, issued>>
      BY <2>2 DEF Exit, Pull, CollectBegin, flush_ready, idVars, writerVars
    <3>2. /\ \A u \in Threads : Stream(u)' = Stream(u)
          /\ \A t \in gone' : t \in Threads => held'[t] = <<>>
      BY <2>2, MoveStream DEF ParentInv, RecordInv
    <3> QED
      BY ONLY ParentInv, <3>1, <3>2 DEF ParentInv
  <2>3. CASE UNCHANGED vars
    <3>1. UNCHANGED <<mo_open_spans, handles, issued, gone, held>>
      BY <2>3 DEF vars, idVars, writerVars
    <3>2. \A u \in Threads : Stream(u)' = Stream(u)
      BY <2>3 DEF vars, workerVars, Stream
    <3> QED
      BY ONLY ParentInv, <3>1, <3>2 DEF ParentInv
  <2> QED
    BY <2>1, <2>2, <2>3, BeginParents, AsyncParents, EndParents DEF Next, TraceStep, WorkerStep
<1> QED
  BY <1>1, <1>2, RecordsHold, NumbersArePositive, PTL DEF Spec

(***************************************************************************)
(* A thread's stack holds exactly the spans its records leave open, in the *)
(* order they began, so the parent p8_trc_begin takes from the top of the  *)
(* stack is the innermost of them: also when spans are ended out of order, *)
(* twice, or on another thread, and wherever the worker has taken the      *)
(* records.                                                                *)
(***************************************************************************)
THEOREM ParentIsInnermostCorrect == Spec => []ParentIsInnermost
<1>1. ParentInv => ParentIsInnermost
  BY DEF ParentInv, ParentsRight, Inner, ParentIsInnermost
<1> QED
  BY <1>1, ParentsHold, PTL
===============================================================================
