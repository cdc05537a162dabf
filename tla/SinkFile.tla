------------------------------- MODULE SinkFile -------------------------------
(***************************************************************************)
(* The sinks a core can have: cp8_sink_file, which appends to a service    *)
(* and a data file with scatter/gather writes, and cp8_sink_null, which    *)
(* counts.  All calls come from one thread at a time, the constructor's    *)
(* and then the worker's, so a call is one step; what can go wrong inside  *)
(* it is chosen: the growth of the iov array may fail, and any write_v may *)
(* write less than it was given.                                           *)
(*                                                                         *)
(* Bytes are counted in cells.  A file is the sequence of its cells, and   *)
(* an entry of the iov array is the sequence of cells it points to.        *)
(***************************************************************************)
EXTENDS Integers, Sequences, SequencesExt, FiniteSets, FiniteSetsExt

CONSTANTS
    MaxIov,    \* mz_max_iov: entries one write_v takes
    HdrCells,  \* sizeof(s_p8_hdr)
    MaxErrors  \* bound: failed writes and failed growths

VARIABLES
    sink,             \* "none", "file" or "null"
    svc_file, data_file,
    mz_iov_cap,
    mu_bytes_written, mu_bytes_dropped, mu_write_errors,
    mu_total,         \* of the null sink
    given_svc, given_data \* history: all the core handed over

fileVars  == <<svc_file, data_file>>
countVars == <<mu_bytes_written, mu_bytes_dropped, mu_write_errors>>
givenVars == <<given_svc, given_data>>
sinkVars  == <<sink, fileVars, mz_iov_cap, countVars, mu_total, givenVars>>

ASSUME SinkAssumption == {MaxIov, HdrCells} \subseteq Nat \ {0} /\ MaxErrors \in Nat

Cells(x, n) == [i \in 1 .. n |-> <<x, i>>]
Hello       == Cells(<<"hello">>, HdrCells)

SinkInit ==
    /\ sink = "none" /\ svc_file = <<>> /\ data_file = <<>> /\ mz_iov_cap = 0
    /\ mu_bytes_written = 0 /\ mu_bytes_dropped = 0 /\ mu_write_errors = 0 /\ mu_total = 0
    /\ given_svc = <<>> /\ given_data = <<>>
-------------------------------------------------------------------------------
\* The array is sent in chunks of at most MaxIov entries.
Chunks(iov) ==
    [k \in 1 .. (Len(iov) + MaxIov - 1) \div MaxIov |->
        FlattenSeq(SubSeq(iov, (k - 1) * MaxIov + 1, Min({k * MaxIov, Len(iov)})))]

\* What write_v may return for every chunk: all of it, or less, which is an error.
Outcomes(chunks) ==
    {out \in [1 .. Len(chunks) -> 0 .. Max({Len(chunks[k]) : k \in 1 .. Len(chunks)})] :
        /\ \A k \in 1 .. Len(chunks) : out[k] <= Len(chunks[k])
        /\ Cardinality({k \in 1 .. Len(chunks) : out[k] < Len(chunks[k])})
              <= MaxErrors - mu_write_errors}

\* Mutated form: what a short write leaves out is not counted.
write_entries_Uncounted(file, iov, file1) ==
    LET chunks == Chunks(iov) IN
    \E out \in Outcomes(chunks) :
        LET got == FlattenSeq([k \in 1 .. Len(chunks) |-> SubSeq(chunks[k], 1, out[k])])
        IN  /\ file1 = file \o got
            /\ mu_bytes_written' = mu_bytes_written + Len(got)
            /\ mu_write_errors' = mu_write_errors
                  + Cardinality({k \in 1 .. Len(chunks) : out[k] < Len(chunks[k])})
            /\ UNCHANGED mu_bytes_dropped

\* file1 is the file afterwards.  After a short chunk the next one is written all the
\* same.
write_entries(file, iov, file1) ==
    LET chunks == Chunks(iov) IN
    \E out \in Outcomes(chunks) :
        LET got == FlattenSeq([k \in 1 .. Len(chunks) |-> SubSeq(chunks[k], 1, out[k])])
        IN  /\ file1 = file \o got
            /\ mu_bytes_written' = mu_bytes_written + Len(got)
            /\ mu_bytes_dropped' = mu_bytes_dropped + Len(FlattenSeq(chunks)) - Len(got)
            /\ mu_write_errors' = mu_write_errors
                  + Cardinality({k \in 1 .. Len(chunks) : out[k] < Len(chunks[k])})

\* Mutated form: a batch without an iov array is dropped and no error counted.
drop_batch_Silent(iov) ==
    /\ mu_write_errors < MaxErrors
    /\ UNCHANGED <<mu_bytes_written, mu_bytes_dropped, mu_write_errors>>

drop_batch(iov) ==
    /\ mu_write_errors < MaxErrors
    /\ mu_bytes_dropped' = mu_bytes_dropped + Len(FlattenSeq(iov))
    /\ mu_write_errors' = mu_write_errors + 1
    /\ UNCHANGED mu_bytes_written

\* grow_iov: realloc may fail, and the whole batch is dropped then.
WriteGrown(file, iov, file1) ==
    \/ /\ mz_iov_cap' = Max({mz_iov_cap, Len(iov)})
       /\ write_entries(file, iov, file1)
    \/ /\ Len(iov) > mz_iov_cap /\ UNCHANGED mz_iov_cap
       /\ drop_batch(iov)
       /\ file1 = file

\* cp8_sink_null counts the bytes.
CountOnly(iov) ==
    /\ mu_total' = mu_total + Len(FlattenSeq(iov))
    /\ UNCHANGED <<fileVars, mz_iov_cap, countVars>>
-------------------------------------------------------------------------------
(***************************************************************************)
(* The calls of the core.                                                  *)
(***************************************************************************)

\* The constructor opens the sink and writes the header.  A file sink that cannot create
\* its directory or one of its two files is replaced by a null sink; a failed header is
\* only reported.  The sink is never called unopened.
OpenSink(kind) ==
    /\ sink = "none"
    /\ given_data' = Hello /\ UNCHANGED <<given_svc, svc_file, mz_iov_cap>>
    /\ \/ /\ kind = "file" /\ sink' = "file"
          /\ write_entries(data_file, <<Hello>>, data_file')
          /\ UNCHANGED mu_total
       \/ /\ sink' = "null"
          /\ mu_total' = mu_total + HdrCells
          /\ UNCHANGED <<data_file, countVars>>

\* write_service: one entry per service buffer.
WriteService(iov) ==
    /\ given_svc' = given_svc \o FlattenSeq(iov)
    /\ \/ sink = "file" /\ WriteGrown(svc_file, iov, svc_file') /\ UNCHANGED <<data_file, mu_total>>
       \/ sink = "null" /\ CountOnly(iov)
    /\ UNCHANGED <<sink, given_data>>

\* write_data: the packet of the batch is the first entry, then one per data buffer.
WriteData(packet, bufs) ==
    LET iov == <<packet>> \o bufs IN
    /\ given_data' = given_data \o FlattenSeq(iov)
    /\ \/ sink = "file" /\ WriteGrown(data_file, iov, data_file') /\ UNCHANGED <<svc_file, mu_total>>
       \/ sink = "null" /\ CountOnly(iov)
    /\ UNCHANGED <<sink, given_svc>>
-------------------------------------------------------------------------------
\* s is what remains of t when some cells are left out: nothing is repeated, invented or
\* out of order.  No cell occurs twice in t.
Place(t, c) == CHOOSE j \in 1 .. Len(t) : t[j] = c
RemainsOf(s, t) ==
    /\ Range(s) \subseteq Range(t)
    /\ \A i \in 2 .. Len(s) : Place(t, s[i - 1]) < Place(t, s[i])

\* Every byte handed to the file sink is in one of its files or counted as dropped, across
\* short writes, chunks that follow one and batches without an iov array; the null sink
\* counts them all (write_entries, drop_batch, cp8_sink_null).
SinkAccounts ==
    /\ sink = "file" =>
          /\ mu_bytes_written = Len(svc_file) + Len(data_file)
          /\ mu_bytes_written + mu_bytes_dropped = Len(given_svc) + Len(given_data)
    /\ sink = "null" => mu_total = Len(given_svc) + Len(given_data)

\* The files hold what was handed over, in that order, with holes where writes failed; a
\* hole is never silent: without a counted error the files are complete (write_entries,
\* grow_iov, drop_batch).
FilesFaithful ==
    sink = "file" =>
        /\ RemainsOf(svc_file, given_svc) /\ RemainsOf(data_file, given_data)
        /\ mu_write_errors = 0 => svc_file = given_svc /\ data_file = given_data
===============================================================================
