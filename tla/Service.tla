-------------------------------- MODULE Service --------------------------------
(***************************************************************************)
(* The way of a descriptor to the sink.  Threads register attributes and   *)
(* log modules and resolve the sites of their spans; each becomes one or   *)
(* more entries in the core's service buffers, which the worker writes     *)
(* before the data of its cycle.                                           *)
(*                                                                         *)
(* An attribute or a module that finds the pool exhausted loses its entry; *)
(* a site waits for a buffer with mo_trc_desc_mutex held and mo_svc_mutex  *)
(* released.  mo_attr_mutex, mo_log_mod_mutex and mo_svc_mutex are never   *)
(* held over a wait, so a critical section of theirs is one action.  The   *)
(* path of data buffers is Pipeline's: here a data buffer with one record  *)
(* simply becomes ready.                                                   *)
(***************************************************************************)
EXTENDS SinkFile

CONSTANTS
    Threads,
    NoOne,       \* mo_trc_desc_mutex is free
    AttrNames, AttrTypes,
    ModNames, Levels,
    Sites,       \* span sites
    Strings,     \* the file, function and span name of each site, in this order
    Capacity,    \* buffers the budget allows
    SvcEntries,  \* entries a service buffer holds
    EntryCells,  \* size of an entry
    BatchCells,  \* sizeof(s_p8_batch)
    DataCells,   \* size of a data buffer's contents
    MaxRecords,  \* bound: records emitted
    MaxBatches   \* bound: batches, so empty ones come to an end

VARIABLES
    avail, queue, client, closed, \* the pool, see FifoAllocator
    mo_attr_descs, \* registered attributes, by identifier
    mo_log_mods,   \* registered modules, by identifier
    mo_trc_descs,  \* sites that are known
    mo_sent,       \* mo_file_names, mo_func_names, mo_span_names
    mo_trc_desc_mutex,
    mo_svc_buffers,
    mu_dropped_svc,
    pc,            \* per thread: outside, or where it is in resolve_trc_desc
    todo,          \* per thread: the entries resolve_trc_desc still has to write
    ready,         \* data buffers the worker has not collected
    stop, lb_stop, \* the last reference is gone; the worker has seen it
    wpc, lo_ready, lo_bufs,
    mu_batch_index

poolVars   == <<avail, queue, client, closed>>
regVars    == <<mo_attr_descs, mo_log_mods>>
trcVars    == <<mo_trc_descs, mo_sent, mo_trc_desc_mutex, pc, todo>>
workerVars == <<lb_stop, wpc, lo_ready, lo_bufs, mu_batch_index>>
vars == <<sinkVars, poolVars, regVars, trcVars, mo_svc_buffers, mu_dropped_svc, ready, stop, workerVars>>

Pool == INSTANCE FifoAllocator

ASSUME ServiceAssumption ==
    /\ {Capacity, SvcEntries, EntryCells, BatchCells, DataCells} \subseteq Nat \ {0}
    /\ MaxRecords \in Nat /\ MaxBatches \in Nat /\ NoOne \notin Threads
    /\ \A s \in Sites : Len(Strings[s]) = 3

\* Entries: an attribute or a module with its identifier, a string with its kind, a site.
AttrEntry(id)    == <<"attr", id>>
ModEntry(id)     == <<"mod", id>>
StrEntry(s, i)   == <<<<"file", "func", "name">>[i], Strings[s][i]>>
TrcEntry(s)      == <<"trace", s>>

EntrySeqCells(entries) == FlattenSeq([i \in 1 .. Len(entries) |-> Cells(entries[i], EntryCells)])
-------------------------------------------------------------------------------
Init ==
    /\ SinkInit /\ Pool!Init
    /\ mo_attr_descs = <<>> /\ mo_log_mods = <<>>
    /\ mo_trc_descs = {} /\ mo_sent = {} /\ mo_trc_desc_mutex = NoOne
    /\ mo_svc_buffers = <<>> /\ mu_dropped_svc = 0
    /\ pc = [t \in Threads |-> "idle"] /\ todo = [t \in Threads |-> <<>>]
    /\ ready = <<>> /\ stop = FALSE /\ lb_stop = FALSE
    /\ wpc = "unborn" /\ lo_ready = <<>> /\ lo_bufs = <<>> /\ mu_batch_index = 0

\* cp8_core's constructor: the sink, then the worker.
StartCore ==
    /\ wpc = "unborn"
    /\ \E kind \in {"file", "null"} : OpenSink(kind)
    /\ wpc' = "wait"
    /\ UNCHANGED <<poolVars, regVars, trcVars, mo_svc_buffers, mu_dropped_svc, ready, stop,
                   lb_stop, lo_ready, lo_bufs, mu_batch_index>>

Open == wpc # "unborn" /\ ~stop
-------------------------------------------------------------------------------
(***************************************************************************)
(* Service buffers                                                         *)
(***************************************************************************)
SvcRoom == mo_svc_buffers # <<>> /\ Len(Last(mo_svc_buffers)) < SvcEntries

\* Writes the entries into the last buffer.
AppendTo(bufs, entries) == Append(Front(bufs), Last(bufs) \o entries)

\* Mutated form: an entry that finds no buffer is dropped without counting it.
SvcOrDrop_Uncounted(t, entry) ==
    \/ /\ SvcRoom
       /\ mo_svc_buffers' = AppendTo(mo_svc_buffers, <<entry>>)
       /\ UNCHANGED <<poolVars, mu_dropped_svc>>
    \/ /\ ~SvcRoom /\ Pool!Take(t)
       /\ mo_svc_buffers' = Append(mo_svc_buffers, <<entry>>)
       /\ UNCHANGED mu_dropped_svc
    \/ /\ ~SvcRoom /\ avail = 0
       /\ UNCHANGED <<poolVars, mo_svc_buffers, mu_dropped_svc>>

\* svc_reserve without waiting, by an attribute or a module: when the last buffer is full
\* and the pool exhausted, the entry is dropped and counted.
SvcOrDrop(t, entry) ==
    \/ /\ SvcRoom
       /\ mo_svc_buffers' = AppendTo(mo_svc_buffers, <<entry>>)
       /\ UNCHANGED <<poolVars, mu_dropped_svc>>
    \/ /\ ~SvcRoom /\ Pool!Take(t)
       /\ mo_svc_buffers' = Append(mo_svc_buffers, <<entry>>)
       /\ UNCHANGED mu_dropped_svc
    \/ /\ ~SvcRoom /\ avail = 0
       /\ mu_dropped_svc' = mu_dropped_svc + 1
       /\ UNCHANGED <<poolVars, mo_svc_buffers>>
-------------------------------------------------------------------------------
(***************************************************************************)
(* Registries                                                              *)
(***************************************************************************)

\* attr_register of a new name.  A known name gets its identifier, or an error when the
\* type differs, and nothing changes.
attr_register(t, name, type) ==
    /\ Open /\ pc[t] = "idle"
    /\ \A i \in 1 .. Len(mo_attr_descs) : mo_attr_descs[i].name # name
    /\ mo_attr_descs' = Append(mo_attr_descs, [name |-> name, type |-> type])
    /\ SvcOrDrop(t, AttrEntry(Len(mo_attr_descs)))
    /\ UNCHANGED <<sinkVars, mo_log_mods, trcVars, ready, stop, workerVars>>

\* register_module: a known name only refreshes the verbosity, which set_verbosity also
\* sets and nobody sends again.
register_module(t, name, level) ==
    /\ Open /\ pc[t] = "idle"
    /\ \/ /\ \A i \in 1 .. Len(mo_log_mods) : mo_log_mods[i].name # name
          /\ mo_log_mods' = Append(mo_log_mods, [name |-> name, verbosity |-> level])
          /\ SvcOrDrop(t, ModEntry(Len(mo_log_mods)))
       \/ \E i \in 1 .. Len(mo_log_mods) :
             /\ mo_log_mods[i].name = name
             /\ mo_log_mods' = [mo_log_mods EXCEPT ![i].verbosity = level]
             /\ UNCHANGED <<poolVars, mo_svc_buffers, mu_dropped_svc>>
    /\ UNCHANGED <<sinkVars, mo_attr_descs, trcVars, ready, stop, workerVars>>
-------------------------------------------------------------------------------
(***************************************************************************)
(* resolve_trc_desc                                                        *)
(***************************************************************************)

\* A string that was sent before is not sent again (serialize_str).
Unsent(e) == IF e \in mo_sent THEN <<>> ELSE <<e>>

StringsOf(s) == Unsent(StrEntry(s, 1)) \o Unsent(StrEntry(s, 2)) \o Unsent(StrEntry(s, 3))

\* Mutated form: the site's own entry goes first.
EntriesOf_SiteFirst(s) == <<TrcEntry(s)>> \o StringsOf(s)

\* What has to be written for a site: its strings that were not sent yet, then the site.
EntriesOf(s) == StringsOf(s) \o <<TrcEntry(s)>>

\* The mutex is taken.  A known site needs nothing: the mutex is released again.
Resolve(t, s) ==
    /\ Open /\ pc[t] = "idle" /\ s \notin mo_trc_descs /\ mo_trc_desc_mutex = NoOne
    /\ mo_trc_desc_mutex' = t
    /\ todo' = [todo EXCEPT ![t] = EntriesOf(s)]
    /\ pc' = [pc EXCEPT ![t] = "write"]
    /\ UNCHANGED <<sinkVars, poolVars, regVars, mo_trc_descs, mo_sent, mo_svc_buffers,
                   mu_dropped_svc, ready, stop, workerVars>>

\* Under mo_svc_mutex entries are written while the last of the buffers has room.  When
\* all are written the site is known and mo_trc_desc_mutex is released; otherwise
\* mo_svc_mutex is released to wait for a buffer.
WriteInto(t, bufs) ==
    LET n    == IF bufs = <<>> THEN 0 ELSE Min({SvcEntries - Len(Last(bufs)), Len(todo[t])})
        now  == SubSeq(todo[t], 1, n)
        rest == SubSeq(todo[t], n + 1, Len(todo[t]))
        site == Last(todo[t])[2]
    IN  /\ mo_svc_buffers' = IF n = 0 THEN bufs ELSE AppendTo(bufs, now)
        /\ todo' = [todo EXCEPT ![t] = rest]
        /\ mo_sent' = mo_sent \cup {e \in Range(now) : e[1] # "trace"}
        /\ IF rest = <<>>
           THEN /\ mo_trc_descs' = mo_trc_descs \cup {site}
                /\ mo_trc_desc_mutex' = NoOne
                /\ pc' = [pc EXCEPT ![t] = "idle"]
           ELSE /\ pc' = [pc EXCEPT ![t] = "acquire"]
                /\ UNCHANGED <<mo_trc_descs, mo_trc_desc_mutex>>

WriteEntries(t) ==
    /\ pc[t] = "write"
    /\ WriteInto(t, mo_svc_buffers)
    /\ UNCHANGED <<sinkVars, poolVars, regVars, mu_dropped_svc, ready, stop, workerVars>>

\* acquire_buffer(true) with mo_svc_mutex released.  The thread's writer has a reference
\* to the core, so the pool is not shut down meanwhile.
AcquireSvc(t) ==
    /\ pc[t] = "acquire"
    /\ \/ Pool!Take(t) /\ pc' = [pc EXCEPT ![t] = "have"]
       \/ Pool!Ask(t) /\ UNCHANGED pc
       \/ Pool!Enqueue(t) /\ UNCHANGED pc
       \/ client[t] = "granted" /\ Pool!Return(t) /\ pc' = [pc EXCEPT ![t] = "have"]
    /\ UNCHANGED <<sinkVars, regVars, mo_trc_descs, mo_sent, mo_trc_desc_mutex, todo,
                   mo_svc_buffers, mu_dropped_svc, ready, stop, workerVars>>

\* Locked again: the new buffer is the last one, whatever others did meanwhile.
InstallSvc(t) ==
    /\ pc[t] = "have"
    /\ WriteInto(t, Append(mo_svc_buffers, <<>>))
    /\ UNCHANGED <<sinkVars, poolVars, regVars, mu_dropped_svc, ready, stop, workerVars>>

\* A thread that has resolved the site writes a span record of it, which fills a data buffer.
Emit(t, s) ==
    /\ Open /\ pc[t] = "idle" /\ s \in mo_trc_descs
    /\ Len(SelectSeq(given_data, LAMBDA c : c[1][1] = "span" /\ c[2] = 1)) + Len(lo_ready) + Len(ready)
          < MaxRecords
    /\ ready' = Append(ready, s)
    /\ UNCHANGED <<sinkVars, poolVars, regVars, trcVars, mo_svc_buffers, mu_dropped_svc, stop, workerVars>>

\* The last reference goes when no thread is inside the API any more.
Stop ==
    /\ Open /\ \A t \in Threads : pc[t] = "idle"
    /\ stop' = TRUE /\ Pool!Close
    /\ UNCHANGED <<sinkVars, regVars, trcVars, mo_svc_buffers, mu_dropped_svc, ready, workerVars>>
-------------------------------------------------------------------------------
(***************************************************************************)
(* worker_main                                                             *)
(***************************************************************************)
Collect ==
    /\ wpc = "wait"
    /\ lb_stop' = stop
    /\ lo_ready' = ready /\ ready' = <<>>
    /\ wpc' = "service"
    /\ UNCHANGED <<sinkVars, poolVars, regVars, trcVars, mo_svc_buffers, mu_dropped_svc, stop, lo_bufs,
                   mu_batch_index>>

\* After the data is collected, all service buffers are taken under mo_svc_mutex and
\* written.
GiveService ==
    /\ wpc = "service"
    /\ lo_bufs' = mo_svc_buffers /\ mo_svc_buffers' = <<>>
    /\ IF mo_svc_buffers = <<>> THEN UNCHANGED sinkVars
       ELSE WriteService([i \in 1 .. Len(mo_svc_buffers) |-> EntrySeqCells(mo_svc_buffers[i])])
    /\ wpc' = "recycle"
    /\ UNCHANGED <<poolVars, regVars, trcVars, mu_dropped_svc, ready, stop, lb_stop, lo_ready,
                   mu_batch_index>>

\* release_buffer of the next service buffer.
Recycle ==
    /\ wpc = "recycle" /\ lo_bufs # <<>>
    /\ Pool!GiveBack(1)
    /\ lo_bufs' = Tail(lo_bufs)
    /\ UNCHANGED <<sinkVars, regVars, trcVars, mo_svc_buffers, mu_dropped_svc, ready, stop, lb_stop,
                   wpc, lo_ready, mu_batch_index>>

\* flush_ready: with no data an empty batch is sent only from time to time.
Flush ==
    /\ wpc = "recycle" /\ lo_bufs = <<>>
    /\ \/ /\ lo_ready # <<>> \/ mu_batch_index < MaxBatches
          /\ WriteData(Cells(<<"batch", mu_batch_index>>, BatchCells),
                       [i \in 1 .. Len(lo_ready) |->
                           Cells(<<"span", mu_batch_index, i, lo_ready[i]>>, DataCells)])
          /\ mu_batch_index' = mu_batch_index + 1
       \/ /\ lo_ready = <<>>
          /\ UNCHANGED <<sinkVars, mu_batch_index>>
    /\ lo_ready' = <<>>
    /\ wpc' = IF lb_stop THEN "ended" ELSE "wait"
    /\ UNCHANGED <<poolVars, regVars, trcVars, mo_svc_buffers, mu_dropped_svc, ready, stop, lb_stop,
                   lo_bufs>>

Next ==
    \/ \E t \in Threads :
          \/ \E a \in AttrNames, ty \in AttrTypes : attr_register(t, a, ty)
          \/ \E m \in ModNames, l \in Levels : register_module(t, m, l)
          \/ \E s \in Sites : Resolve(t, s) \/ Emit(t, s)
          \/ WriteEntries(t) \/ AcquireSvc(t) \/ InstallSvc(t)
    \/ StartCore \/ Collect \/ GiveService \/ Recycle \/ Flush
    \/ Stop

Spec == Init /\ [][Next]_vars
-------------------------------------------------------------------------------
\* Service entries the sink was given, in order: every entry has EntryCells cells.
GivenSvc == [i \in 1 .. Len(given_svc) \div EntryCells |-> given_svc[(i - 1) * EntryCells + 1][1]]
Before(e, i, s) == \E j \in 1 .. i - 1 : s[j] = e

\* The descriptor stream can be read front to back: no entry comes twice, a site comes
\* after its three strings, and a record is given to the sink only after its site's
\* descriptor, however the threads share strings and wait for buffers (resolve_trc_desc,
\* serialize_str, worker_main).
ReadableInOrder ==
    LET given == Range(GivenSvc)
        all   == GivenSvc \o FlattenSeq(mo_svc_buffers)
    IN  /\ Cardinality(Range(all)) = Len(all)
        /\ \A i \in 1 .. Len(all) :
              all[i][1] = "trace" => \A k \in 1 .. 3 : Before(StrEntry(all[i][2], k), i, all)
        /\ \A i \in 1 .. Len(given_data) :
              given_data[i][1][1] = "span" => TrcEntry(given_data[i][1][4]) \in given

\* A registered attribute, module or site is announced exactly once or counted as dropped:
\* when the worker has ended nothing is pending, and the identifiers without an entry are
\* as many as mu_dropped_svc says (attr_register, register_module, svc_reserve).
AnnouncedOrCounted ==
    wpc = "ended" =>
        LET wanted == {AttrEntry(i - 1) : i \in 1 .. Len(mo_attr_descs)} \cup
                      {ModEntry(i - 1) : i \in 1 .. Len(mo_log_mods)}
        IN  /\ mo_svc_buffers = <<>> /\ ready = <<>>
            /\ Cardinality(wanted \ Range(GivenSvc)) = mu_dropped_svc
            /\ \A s \in mo_trc_descs : TrcEntry(s) \in Range(GivenSvc)
===============================================================================
