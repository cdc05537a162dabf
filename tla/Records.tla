-------------------------------- MODULE Records --------------------------------
(***************************************************************************)
(* The bytes of a writer: how cp8_log::send and cp8_trc lay records out in *)
(* data buffers, continue a record in the next buffers, pad it and take it *)
(* back when no buffer is left, and what a receiver that joins the buffers *)
(* of the writer makes of them.                                            *)
(*                                                                         *)
(* The writer lock is held for the whole of a record, except while a       *)
(* writer without a buffer waits for one, so that a call is one step, or   *)
(* two when it waits.  Structure sizes are the wire sizes; the width of    *)
(* the 16-bit size fields and the buffer size are constants.  The bytes of *)
(* a record are numbered, and a buffer holds runs of them.                 *)
(***************************************************************************)
EXTENDS FormatString, FiniteSetsExt

CONSTANTS
    CallOf,     \* what a thread may send: [name -> kind, format, strings, attrs]
    Calls,      \* [writer -> names of the calls its thread makes]
    Capacity,   \* buffers of the pool
    BufMax,     \* mz_buf_max
    SizeMod,    \* 2^16, the width of mu_size and mu_args_size
    MaxAttrs,   \* UINT8_MAX
    MaxCalls    \* bound: calls of a writer

Writers == DOMAIN Calls

BufHdr   == 16 \* s_p8_data_buf_hdr
LogHdr   == 40 \* s_p8_log_item_dat
BeginHdr == 40 \* s_p8_trc_begin_dat
EndHdr   == 24 \* s_p8_trc_end_dat
MinSpace == 32 \* P8_LOG_MIN_BUFFER_SPACE
IdLen    == 4  \* p8_attr_id
LenLen   == 2  \* the length before a string
NumLen   == 8  \* a number, of an argument or an attribute

Padded(n)  == ((n + 7) \div 8) * 8
MaxRecord  == ((SizeMod - 1) \div 8) * 8 \* P8_MAX_RECORD_SIZE

ASSUME RecordsAssumption ==
    /\ {Capacity, MaxAttrs, MaxCalls, SizeMod} \subseteq Nat \ {0}
    /\ BufMax \in Nat /\ BufMax % 8 = 0 /\ BufMax >= BufHdr + LogHdr + MinSpace

VARIABLES
    writer,    \* [writer -> frags, buf, used, seq, dropped: cp8_tls_writer]
    waiting,   \* [writer -> the call that waits for a buffer, or NoCall]
    mu_free,   \* buffers in the pool
    mu_held,   \* buffers the worker pulled and did not release yet
    accepted,  \* history: the records whose call returned success
    pulled     \* history: the buffers the worker took, in order

vars == <<writer, waiting, mu_free, mu_held, accepted, pulled>>

NoCall == ""
NoBuf  == <<>>

Init ==
    /\ writer = [w \in Writers |-> [frags |-> <<>>, buf |-> NoBuf, used |-> 0, seq |-> 0, dropped |-> 0]]
    /\ waiting = [w \in Writers |-> NoCall]
    /\ mu_free = Capacity /\ mu_held = 0
    /\ accepted = [w \in Writers |-> <<>>] /\ pulled = [w \in Writers |-> <<>>]
-------------------------------------------------------------------------------
(***************************************************************************)
(* What a call writes.  A string is the sequence of its bytes, "lead" for  *)
(* the first byte of a character and "cont" for the others; an attribute   *)
(* is [known, text], text the string or NoText for a number.               *)
(***************************************************************************)
NoText == <<"number">>

\* Mutated form: the cut falls anywhere.
p8_cut_utf8_Anywhere(str, n) == n

\* Back to the start of the character byte n (from 0) is in.
p8_cut_utf8(str, n) == Max({m \in 0 .. n : m = 0 \/ str[m + 1] # "cont"})

\* Bytes of the string that go out when the record has room left, -1 for a skipped value.
AttrBytes(attr, room) ==
    IF ~attr.known THEN -1
    ELSE IF attr.text = NoText THEN (IF room < IdLen + NumLen THEN -1 ELSE NumLen)
    ELSE IF room < IdLen + LenLen THEN -1
    ELSE IF Len(attr.text) > room - IdLen - LenLen
         THEN p8_cut_utf8(attr.text, room - IdLen - LenLen)
         ELSE Len(attr.text)

AttrPieces(attr, n) == IF attr.text = NoText THEN <<IdLen, n>> ELSE <<IdLen, LenLen, n>>

\* One attribute behind the record r that has r.size bytes so far; cut keeps the length
\* every attribute got.
AttrStep(r, attr) ==
    LET n == AttrBytes(attr, IF r.size < MaxRecord THEN MaxRecord - r.size ELSE 0)
    IN  IF r.count = MaxAttrs \/ n = -1 THEN [r EXCEPT !.cut = Append(@, -1)]
        ELSE [pieces |-> r.pieces \o AttrPieces(attr, n),
              size   |-> r.size + SumFunction(AttrPieces(attr, n)),
              count  |-> r.count + 1,
              cut    |-> Append(r.cut, n)]

\* The attributes of a record of which size bytes are out, and its size behind them.
serialize_attrs(size, attrs) ==
    FoldLeft(AttrStep, [pieces |-> <<>>, size |-> size, count |-> 0, cut |-> <<>>], attrs)

\* Pieces of the arguments a log takes from its call, strings being the lengths given.
ArgStep(r, arg) ==
    IF arg.type \in StringTypes
    THEN [pieces |-> r.pieces \o <<LenLen, Head(r.rest)>>, rest |-> Tail(r.rest)]
    ELSE [r EXCEPT !.pieces = Append(@, arg.size)]

ArgPieces(args, strings) == FoldLeft(ArgStep, [pieces |-> <<>>, rest |-> strings], args).pieces

HdrOf(call) == CASE call.kind = "log" -> LogHdr [] call.kind = "begin" -> BeginHdr
                 [] OTHER -> EndHdr

Arguments(call) ==
    IF call.kind = "log" THEN ArgPieces(parse_format_string(call.format), call.strings) ELSE <<>>

RecordWith(args, argsSize, attrs) ==
    [pieces       |-> args \o attrs.pieces,
     mu_args_size |-> argsSize % SizeMod,
     mu_count     |-> attrs.count,
     mu_size      |-> Padded(attrs.size) % SizeMod,
     pad          |-> Padded(attrs.size) - attrs.size,
     cut          |-> attrs.cut]

\* The record of every call: its pieces after the header, and the fields of the header.
RecordOf == [c \in DOMAIN CallOf |->
    LET call     == CallOf[c]
        args     == Arguments(call)
        argsSize == SumFunction(args)
    IN  RecordWith(args, argsSize, serialize_attrs(HdrOf(call) + argsSize, call.attrs))]

HdrLen(c) == HdrOf(CallOf[c])
IsLog(c)  == CallOf[c].kind = "log"

\* The arguments of every call leave its record below the limit, which only the attributes
\* are held to: without this mu_size and mu_args_size wrap.
ArgsFit ==
    \A c \in DOMAIN CallOf : HdrLen(c) + SumFunction(Arguments(CallOf[c])) <= MaxRecord

\* The strings of an attribute, which begin with a character.
Texts == {s \in Seq({"lead", "cont"}) : s = <<>> \/ s[1] = "lead"}

StringArgs(args) == {i \in 1 .. Len(args) : args[i].type \in StringTypes}

ASSUME CallsAssumption ==
    /\ NoCall \notin DOMAIN CallOf /\ \A w \in Writers : Calls[w] \subseteq DOMAIN CallOf
    /\ \A c \in DOMAIN CallOf :
          /\ CallOf[c].attrs \in Seq([known : BOOLEAN, text : {NoText} \cup Texts])
          /\ IsLog(c) =>
                /\ CallOf[c].format \in Seq(STRING) /\ CallOf[c].strings \in Seq(Nat)
                /\ Cardinality(StringArgs(parse_format_string(CallOf[c].format)))
                      <= Len(CallOf[c].strings)
-------------------------------------------------------------------------------
(***************************************************************************)
(* Writing it.  The state st of a writer that is inside a record: its      *)
(* fields, the free buffers, the number of the record, how many of its     *)
(* bytes are out, and whether every buffer it asked for was there.         *)
(***************************************************************************)
NewBuf(seq) == [fragment |-> FALSE, mu_size |-> BufHdr, mu_buf_seq |-> seq, runs |-> <<>>]

WithNewBuf(st) ==
    [st EXCEPT !.buf = NewBuf(st.seq), !.used = BufHdr, !.seq = @ + 1, !.free = @ - 1]

rotate_fragment_buffer(st) ==
    LET full   == [st.buf EXCEPT !.fragment = TRUE, !.mu_size = st.used]
        parked == [st EXCEPT !.frags = Append(@, full), !.buf = NoBuf]
    IN  IF st.free = 0 THEN [parked EXCEPT !.ok = FALSE] ELSE WithNewBuf(parked)

\* n bytes of the record go to the current buffer; size is what the header run carries.
Put(st, n) ==
    [st EXCEPT !.buf.runs = Append(@, [rec |-> st.rec, from |-> st.out, n |-> n, size |-> st.size]),
               !.used = @ + n, !.out = @ + n]

\* One turn of the loop: bytes up to goal go to what is left of the buffer, or to the next.
CopyStep(st, goal) ==
    IF ~st.ok \/ st.out = goal THEN st
    ELSE LET r == IF st.used = BufMax THEN rotate_fragment_buffer(st) ELSE st
         IN  IF ~r.ok THEN r ELSE Put(r, Min({goal - r.out, BufMax - r.used}))

\* At least one turn for every buffer the bytes can be in.
copy_fragmented(st, len) ==
    FoldLeft(CopyStep, st, [i \in 1 .. len \div (BufMax - BufHdr) + 2 |-> st.out + len])

\* Mutated form: a piece that does not fit starts the next buffer.
WritePiece_Gap(st, len) ==
    IF ~st.ok \/ len = 0 THEN st
    ELSE IF st.used + len <= BufMax THEN Put(st, len)
    ELSE LET r == rotate_fragment_buffer(st) IN IF ~r.ok THEN r ELSE copy_fragmented(r, len)

WritePiece(st, len) ==
    IF ~st.ok \/ len = 0 THEN st
    ELSE IF st.used + len <= BufMax THEN Put(st, len) ELSE copy_fragmented(st, len)

\* Mutated form: the buffer keeps the fragment flag.
CutBack_KeepsFlag(buf, start, runs) == [buf EXCEPT !.mu_size = start, !.runs = SubSeq(@, 1, runs)]

\* The buffer a dropped record began in, cut there: the earlier runs stay, and the bytes
\* of the record are behind mu_size again.
CutBack(buf, start, runs) ==
    [buf EXCEPT !.fragment = FALSE, !.mu_size = start, !.runs = SubSeq(@, 1, runs)]

\* lbl_discard: st0 is the writer as the record began, at st0.used in a buffer of so many
\* runs.  The buffers taken only for the record go back with their numbers.
discard(st, st0) ==
    LET commit == Len(st0.frags)
        alone  == st0.used = BufHdr
        extra  == Len(st.frags) - (commit + 1) + (IF alone THEN 1 ELSE 0)
    IN  [st EXCEPT !.frags = SubSeq(@, 1, commit),
                   !.buf  = IF alone THEN NoBuf
                            ELSE CutBack(st.frags[commit + 1], st0.used, Len(st0.buf.runs)),
                   !.used = IF alone THEN 0 ELSE st0.used,
                   !.seq = @ - extra, !.free = @ + extra, !.dropped = @ + 1]

Park(st) == [st EXCEPT !.frags = Append(@, st.buf), !.buf = NoBuf, !.used = 0]

\* A log leaves the buffer when there is no room for another; a trace record looks first.
\* The pad is only stepped over.
Complete(st, c) ==
    LET padded == Put(st, RecordOf[c].pad)
        done   == [padded EXCEPT !.buf.mu_size = padded.used]
    IN  IF IsLog(c) /\ BufMax - done.used < MinSpace THEN Park(done) ELSE done

\* The record of the call written at the end of the current buffer.
WriteRecord(st0, c) ==
    LET st == FoldLeft(WritePiece, Put([st0 EXCEPT !.size = RecordOf[c].mu_size], HdrLen(c)),
                       RecordOf[c].pieces)
    IN  IF st.ok THEN Complete(st, c) ELSE discard(st, st0)
-------------------------------------------------------------------------------
Begun(w) == Len(accepted[w]) + writer[w].dropped

StateOf(w) ==
    [frags |-> writer[w].frags, buf |-> writer[w].buf, used |-> writer[w].used,
     seq |-> writer[w].seq, dropped |-> writer[w].dropped, free |-> mu_free,
     rec |-> Begun(w) + 1, size |-> 0, out |-> 0, ok |-> TRUE]

\* The writer of st, and what became of the call.
Wrote(w, st, c) ==
    /\ writer' = [writer EXCEPT ![w] = [frags |-> st.frags, buf |-> st.buf, used |-> st.used,
                                        seq |-> st.seq, dropped |-> st.dropped]]
    /\ mu_free' = st.free
    /\ accepted' = IF st.ok THEN [accepted EXCEPT ![w] = Append(@, [rec |-> st.rec, call |-> c])]
                   ELSE accepted

\* Room a record needs to start in the current buffer.
Needed(c) == IF IsLog(c) THEN LogHdr + MinSpace ELSE HdrLen(c)

\* cp8_log::send, cp8_trc::write_begin and write_end up to the buffer check.
Send(w, c) ==
    LET st   == StateOf(w)
        full == st.buf # NoBuf /\ BufMax - st.used < Needed(c)
    IN  /\ waiting[w] = NoCall /\ Begun(w) < MaxCalls
        /\ IF st.buf # NoBuf /\ ~full
           THEN Wrote(w, WriteRecord(st, c), c) /\ UNCHANGED waiting
           ELSE /\ writer' = IF full THEN [writer EXCEPT ![w] = Park(@)] ELSE writer
                /\ waiting' = [waiting EXCEPT ![w] = c]
                /\ UNCHANGED <<mu_free, accepted>>
        /\ UNCHANGED <<mu_held, pulled>>

\* acquire_buffer(true) has a buffer, and the call goes on.
Acquired(w) ==
    /\ waiting[w] # NoCall /\ mu_free > 0
    /\ Wrote(w, WriteRecord(WithNewBuf(StateOf(w)), waiting[w]), waiting[w])
    /\ waiting' = [waiting EXCEPT ![w] = NoCall]
    /\ UNCHANGED <<mu_held, pulled>>

Emptied(st) == [st EXCEPT !.frags = <<>>, !.buf = NoBuf, !.used = 0]

\* The worker takes all the writer holds; not inside a record, the writer lock is held there.
pull(w) ==
    LET bufs == writer[w].frags \o (IF writer[w].buf = NoBuf THEN <<>> ELSE <<writer[w].buf>>)
    IN  /\ bufs # <<>>
        /\ pulled' = [pulled EXCEPT ![w] = @ \o bufs]
        /\ mu_held' = mu_held + Len(bufs)
        /\ writer' = [writer EXCEPT ![w] = Emptied(@)]
        /\ UNCHANGED <<waiting, mu_free, accepted>>

Recycle ==
    /\ mu_held > 0
    /\ mu_held' = mu_held - 1 /\ mu_free' = mu_free + 1
    /\ UNCHANGED <<writer, waiting, accepted, pulled>>

Next ==
    \/ \E w \in Writers : (\E c \in Calls[w] : Send(w, c)) \/ Acquired(w) \/ pull(w)
    \/ Recycle

Spec == Init /\ [][Next]_vars
-------------------------------------------------------------------------------
(***************************************************************************)
(* The receiver: it walks the buffers of a writer in the order of their    *)
(* numbers, takes mu_size bytes of each, and of every record as many bytes *)
(* as the record's own mu_size says, going on in the next buffer only when *)
(* the flag says so.                                                       *)
(***************************************************************************)
BuffersOf(w) ==
    pulled[w] \o writer[w].frags \o (IF writer[w].buf = NoBuf THEN <<>> ELSE <<writer[w].buf>>)

ReadStart == [records |-> <<>>, left |-> 0, from |-> 0, bufs |-> 0, ok |-> TRUE]

\* A run starts a record, or continues the one that is being read.
ReadRun(r, run) ==
    IF run.from = 0
    THEN [r EXCEPT !.ok = @ /\ r.left = 0, !.left = run.size - run.n, !.from = run.n,
                   !.records = Append(@, [rec |-> run.rec, mu_size |-> run.size])]
    ELSE [r EXCEPT !.ok = @ /\ run.from = r.from /\ run.rec = Last(r.records).rec
                            /\ run.n <= r.left,
                   !.left = @ - run.n, !.from = @ + run.n]

EndOf(runs, k) == BufHdr + SumFunction([i \in 1 .. k |-> runs[i].n])

ReadBuffer(r, buf) ==
    LET last == FoldLeft(ReadRun, r, buf.runs) IN
    [last EXCEPT !.bufs = @ + 1,
                 !.ok = @ /\ buf.mu_buf_seq = r.bufs /\ (buf.fragment <=> last.left > 0)
                          /\ buf.mu_size = EndOf(buf.runs, Len(buf.runs))
                          /\ buf.mu_size <= BufMax]

Read(w) == FoldLeft(ReadBuffer, ReadStart, BuffersOf(w))

(***************************************************************************)
(* Whatever was continued in further buffers, pulled in between, or taken  *)
(* back for want of a buffer, the receiver finds exactly the records whose *)
(* calls succeeded, in order, whole, and no number missing.                *)
(***************************************************************************)
ReceiverRecovers ==
    \A w \in Writers :
        LET r == Read(w) IN
        /\ r.ok /\ r.left = 0
        /\ r.records = [i \in 1 .. Len(accepted[w]) |->
                          [rec |-> accepted[w][i].rec, mu_size |-> RecordOf[accepted[w][i].call].mu_size]]

(***************************************************************************)
(* A record starts at a multiple of 8 in its buffer, also after one that   *)
(* was continued from the buffer before: 64-bit fields are read in place.  *)
(***************************************************************************)
RecordsAligned ==
    \A w \in Writers : \A b \in 1 .. Len(BuffersOf(w)) :
        LET runs == BuffersOf(w)[b].runs IN
        \A k \in 1 .. Len(runs) : runs[k].from = 0 => EndOf(runs, k - 1) % 8 = 0

\* The string may end after n bytes.
CharEnd(text, n) == n = Len(text) \/ text[n + 1] = "lead"

NextEnd(text, n) == Min({m \in n + 1 .. Len(text) : CharEnd(text, m)})

\* Bytes of the record of c up to its a-th attribute, from the lengths that went out.
SizeUpTo(c, a) ==
    HdrLen(c) + RecordOf[c].mu_args_size
      + SumFunction([i \in 1 .. a |->
            LET n == RecordOf[c].cut[i] IN
            IF n = -1 THEN 0 ELSE SumFunction(AttrPieces(CallOf[c].attrs[i], n))])

CutRight == [c \in DOMAIN CallOf |->
    LET attrs == CallOf[c].attrs
        cut   == RecordOf[c].cut
    IN  /\ RecordOf[c].mu_size = Padded(SizeUpTo(c, Len(attrs)))
        /\ \A a \in 1 .. Len(attrs) :
              cut[a] # -1 /\ attrs[a].text # NoText =>
                  /\ CharEnd(attrs[a].text, cut[a])
                  /\ \/ cut[a] = Len(attrs[a].text)
                     \/ SizeUpTo(c, a) - cut[a] + NextEnd(attrs[a].text, cut[a]) > MaxRecord]

(***************************************************************************)
(* The size field of an accepted record did not wrap, and a string of an   *)
(* attribute that was cut to stay below the limit ends with a whole UTF-8  *)
(* character and has lost no character that would have fitted.             *)
(***************************************************************************)
AttrsCutRight == \A w \in Writers : \A k \in 1 .. Len(accepted[w]) : CutRight[accepted[w][k].call]

(***************************************************************************)
(* A log record holds the arguments its caller passed: for no format it    *)
(* may have been sent with does parse_format_string find other arguments   *)
(* than C passes, in another order or of another kind, up to the limit;    *)
(* whatever widths, precisions, stars and length prefixes come before, no  *)
(* later argument is read from the place of another.                       *)
(***************************************************************************)
ArgsAsPassed ==
    \A w \in Writers : \A k \in 1 .. Len(accepted[w]) : IsLog(accepted[w][k].call) => Misread = {}
===============================================================================
