---------------------------- MODULE Records_proofs ----------------------------
(*****************************************************************************)
(* The theorems of Records, for any calls, buffer size, size limit, number   *)
(* of writers and pool.                                                      *)
(*****************************************************************************)
EXTENDS Records, FoldTheorems, TLAPS

BufferFold == INSTANCE FoldTheorems WITH FoldStep <- ReadBuffer
RunFold    == INSTANCE FoldTheorems WITH FoldStep <- ReadRun

Run == [rec : Nat, from : Nat, n : Nat, size : Nat]
Buf == [fragment : BOOLEAN, mu_size : Nat, mu_buf_seq : Nat, runs : Seq(Run)]

-------------------------------------------------------------------------------
(*****************************************************************************)
(* Sums over sequences.                                                      *)
(*****************************************************************************)

\* The sum of a sequence that is one longer.
LEMMA SumLonger ==
    ASSUME NEW k \in Nat, NEW f, NEW g, DOMAIN f = 1 .. k, DOMAIN g = 1 .. (k + 1),
           \A i \in 1 .. k : f[i] = g[i], \A i \in 1 .. (k + 1) : g[i] \in Nat
    PROVE  SumFunction(g) = SumFunction(f) + g[k + 1] /\ SumFunction(f) \in Nat
<1>1. PICK S : S = 1 .. (k + 1)
    OBVIOUS
<1>2. PICK R : R = 1 .. k
    OBVIOUS
<1>3. IsFiniteSet(S) /\ IsFiniteSet(R)
    BY <1>1, <1>2, FS_Interval
<1>4. PICK x : x = k + 1
    OBVIOUS
<1>5. x \in S /\ S \ {x} = R /\ \A y \in S : g[y] \in Int
    BY <1>1, <1>2, <1>4
<1>6. SumFunctionOnSet(g, S) = g[x] + SumFunctionOnSet(g, R)
    BY ONLY <1>3, <1>5, SumRemove
<1>7. SumFunctionOnSet(f, R) = SumFunctionOnSet(g, R)
    BY ONLY <1>2, <1>3, \A i \in 1 .. k : f[i] = g[i], SumSame
<1>8. SumFunctionOnSet(f, R) \in Nat
  <2>1. \A y \in R : f[y] \in Nat
      BY <1>2
  <2> QED BY ONLY <2>1, <1>3, SumNat
<1>9. SumFunction(g) = SumFunctionOnSet(g, S) /\ SumFunction(f) = SumFunctionOnSet(f, R)
    BY <1>1, <1>2 DEF SumFunction
<1> QED BY <1>1, <1>4, <1>5, <1>6, <1>7, <1>8, <1>9

\* The sum of nothing.
LEMMA SumNothing == \A f : DOMAIN f = 1 .. 0 => SumFunction(f) = 0
<1> SUFFICES ASSUME NEW f, DOMAIN f = 1 .. 0 PROVE SumFunction(f) = 0
    OBVIOUS
<1>1. DOMAIN f = {}
    OBVIOUS
<1> QED BY <1>1, SumEmpty DEF SumFunction

\* The sum of the first k of s.
UpToSum(s, k) == SumFunction([i \in 1 .. k |-> s[i]])

\* Partial sums of a sequence of numbers.
LEMMA UpToSumNext ==
    ASSUME NEW s \in Seq(Nat), NEW k \in Nat, k < Len(s)
    PROVE  UpToSum(s, k) \in Nat /\ UpToSum(s, k + 1) = UpToSum(s, k) + s[k + 1]
<1>1. PICK f : f = [i \in 1 .. k |-> s[i]]
    OBVIOUS
<1>2. PICK g : g = [i \in 1 .. (k + 1) |-> s[i]]
    OBVIOUS
<1>3. \A i \in 1 .. k : f[i] = g[i]
    BY <1>1, <1>2
<1>4. \A i \in 1 .. (k + 1) : g[i] \in Nat
    BY <1>2
<1>5. DOMAIN f = 1 .. k /\ DOMAIN g = 1 .. (k + 1) /\ g[k + 1] = s[k + 1]
    BY <1>1, <1>2
<1>6. SumFunction(g) = SumFunction(f) + g[k + 1] /\ SumFunction(f) \in Nat
    BY ONLY <1>3, <1>4, <1>5, k \in Nat, SumLonger
<1> QED BY <1>1, <1>2, <1>5, <1>6 DEF UpToSum

\* The sum of a sequence is its partial sum of all, and nothing is the sum of its first 0.
LEMMA UpToSumEnds ==
    ASSUME NEW s \in Seq(Nat)
    PROVE  UpToSum(s, 0) = 0 /\ UpToSum(s, Len(s)) = SumFunction(s)
<1>1. [i \in 1 .. Len(s) |-> s[i]] = s
    OBVIOUS
<1>2. PICK f : f = [i \in 1 .. 0 |-> s[i]]
    OBVIOUS
<1>3. DOMAIN f = 1 .. 0
    BY <1>2
<1>4. SumFunction(f) = 0
    BY <1>3, SumNothing
<1> QED BY <1>1, <1>2, <1>4 DEF UpToSum

\* Partial sums are numbers, and none is more than the sum.
LEMMA UpToSumNat ==
    ASSUME NEW s \in Seq(Nat)
    PROVE  /\ \A k \in 0 .. Len(s) : UpToSum(s, k) \in Nat
           /\ SumFunction(s) \in Nat
<1> DEFINE T == {k \in Nat : k <= Len(s) => UpToSum(s, k) \in Nat}
<1>1. 0 \in T
    BY UpToSumEnds
<1>2. ASSUME NEW k \in Nat, k \in T PROVE k + 1 \in T
    BY <1>2, UpToSumNext
<1>3. Nat \subseteq T
    BY <1>1, <1>2, NatSetInduction, Zenon
<1>4. \A k \in 0 .. Len(s) : UpToSum(s, k) \in Nat
    BY <1>3
<1> QED BY <1>4, UpToSumEnds

\* No partial sum is more than the sum.
LEMMA UpToSumMax ==
    ASSUME NEW s \in Seq(Nat), NEW k \in 0 .. Len(s)
    PROVE  UpToSum(s, k) <= SumFunction(s)
<1> DEFINE T == {j \in Nat : k + j <= Len(s) => UpToSum(s, k) <= UpToSum(s, k + j)}
<1>1. 0 \in T
    BY UpToSumNat
<1>2. ASSUME NEW j \in Nat, j \in T PROVE j + 1 \in T
  <2> SUFFICES ASSUME k + (j + 1) <= Len(s) PROVE UpToSum(s, k) <= UpToSum(s, k + (j + 1))
      OBVIOUS
  <2>1. PICK m \in Nat : m = k + j
      OBVIOUS
  <2>2. m < Len(s) /\ k + (j + 1) = m + 1 /\ k \in 0 .. Len(s) /\ s[m + 1] \in Nat
      BY <2>1
  <2>3. UpToSum(s, k) <= UpToSum(s, m)
      BY <1>2, <2>1, <2>2
  <2>4. UpToSum(s, m) \in Nat /\ UpToSum(s, m + 1) = UpToSum(s, m) + s[m + 1]
      BY <2>2, UpToSumNext
  <2>5. UpToSum(s, k) \in Nat
      BY UpToSumNat
  <2> QED BY <2>2, <2>3, <2>4, <2>5
<1>3. Nat \subseteq T
    BY <1>1, <1>2, NatSetInduction, Zenon
<1>4. PICK j \in Nat : k + j = Len(s)
  <2>1. Len(s) \in Nat
      OBVIOUS
  <2>2. Len(s) - k \in Nat /\ k + (Len(s) - k) = Len(s)
      BY ONLY <2>1, k \in 0 .. Len(s)
  <2> QED BY <2>2, Zenon
<1>5. UpToSum(s, k) <= UpToSum(s, k + j)
  <2>1. j \in T
      BY <1>3
  <2>2. k + j <= Len(s)
      BY ONLY <1>4, k \in 0 .. Len(s), Len(s) \in Nat
  <2> QED BY <2>1, <2>2
<1> QED BY <1>4, <1>5, UpToSumEnds

\* The sum of two sequences one behind the other.
LEMMA SumConcat ==
    ASSUME NEW s \in Seq(Nat), NEW t \in Seq(Nat)
    PROVE  SumFunction(s \o t) = SumFunction(s) + SumFunction(t)
<1>1. PICK u : u = s \o t
    OBVIOUS
<1>2. u \in Seq(Nat) /\ Len(u) = Len(s) + Len(t)
    BY <1>1
<1>3. \A i \in 1 .. Len(s) : u[i] = s[i]
    BY <1>1
<1>4. \A i \in 1 .. Len(t) : u[Len(s) + i] = t[i]
    BY <1>1
<1>5. UpToSum(u, Len(s)) = SumFunction(s)
  <2>1. [i \in 1 .. Len(s) |-> u[i]] = s
      BY <1>2, <1>3
  <2> QED BY <2>1 DEF UpToSum
<1> DEFINE T == {j \in Nat : j <= Len(t) => UpToSum(u, Len(s) + j) = SumFunction(s) + UpToSum(t, j)}
<1>6. 0 \in T
    BY <1>5, UpToSumEnds, UpToSumNat
<1>7. ASSUME NEW j \in Nat, j \in T PROVE j + 1 \in T
  <2> SUFFICES ASSUME j + 1 <= Len(t)
               PROVE  UpToSum(u, Len(s) + (j + 1)) = SumFunction(s) + UpToSum(t, j + 1)
      OBVIOUS
  <2>1. PICK m \in Nat : m = Len(s) + j
      OBVIOUS
  <2>2. m < Len(u) /\ Len(s) + (j + 1) = m + 1 /\ j < Len(t) /\ u[m + 1] = t[j + 1]
      BY <1>2, <1>4, <2>1
  <2>3. UpToSum(u, m) = SumFunction(s) + UpToSum(t, j)
      BY <1>7, <2>1, <2>2
  <2>4. UpToSum(u, m) \in Nat /\ UpToSum(u, m + 1) = UpToSum(u, m) + u[m + 1]
      BY <1>2, <2>2, UpToSumNext
  <2>5. UpToSum(t, j) \in Nat /\ UpToSum(t, j + 1) = UpToSum(t, j) + t[j + 1]
      BY <2>2, UpToSumNext
  <2>6. SumFunction(s) \in Nat /\ t[j + 1] \in Nat
      BY UpToSumNat, <2>2
  <2> QED BY <2>2, <2>3, <2>4, <2>5, <2>6
<1>8. Nat \subseteq T
    BY <1>6, <1>7, NatSetInduction, Zenon
<1>9. UpToSum(u, Len(s) + Len(t)) = SumFunction(s) + UpToSum(t, Len(t))
    BY <1>8
<1> QED BY <1>1, <1>2, <1>9, UpToSumEnds

-------------------------------------------------------------------------------
(*****************************************************************************)
(* What the receiver has read after some buffers, and some runs of the next. *)
(*****************************************************************************)
After(bufs) == FoldLeft(ReadBuffer, ReadStart, bufs)
AfterRuns(r, runs) == FoldLeft(ReadRun, r, runs)

\* Reading nothing.
LEMMA AfterNothing == After(<<>>) = ReadStart /\ \A r : AfterRuns(r, <<>>) = r
<1>1. PICK e : e = <<>>
    OBVIOUS
<1>2. DOMAIN e = 1 .. 0
    BY <1>1
<1>3. \A base : BufferFold!Folded(base, e) = base
    BY <1>2, BufferFold!FoldLeftEmpty
<1>4. \A base : RunFold!Folded(base, e) = base
    BY <1>2, RunFold!FoldLeftEmpty
<1>5. \A base : FoldLeft(ReadBuffer, base, e) = base
    BY <1>3 DEF BufferFold!Folded, FoldLeft, BufferFold!FoldLeft, MapThenFoldSet, BufferFold!MapThenFoldSet,
                Max, BufferFold!Max
<1>6. \A base : FoldLeft(ReadRun, base, e) = base
    BY <1>4 DEF RunFold!Folded, FoldLeft, RunFold!FoldLeft, MapThenFoldSet, RunFold!MapThenFoldSet,
                Max, RunFold!Max
<1> QED BY <1>1, <1>5, <1>6 DEF After, AfterRuns

\* Reading one more buffer.
LEMMA AfterSnoc ==
    ASSUME NEW bufs \in Seq(Buf), NEW buf \in Buf
    PROVE  After(Append(bufs, buf)) = ReadBuffer(After(bufs), buf)
<1>1. PICK t : t = Append(bufs, buf)
    OBVIOUS
<1>2. BufferFold!Folded(ReadStart, t)
        = ReadBuffer(BufferFold!Folded(ReadStart, bufs), buf)
    BY <1>1, BufferFold!FoldLeftSnoc
<1>3. FoldLeft(ReadBuffer, ReadStart, t) = ReadBuffer(FoldLeft(ReadBuffer, ReadStart, bufs), buf)
    BY ONLY <1>2 DEF BufferFold!Folded, FoldLeft, BufferFold!FoldLeft, MapThenFoldSet, BufferFold!MapThenFoldSet,
                Max, BufferFold!Max
<1> QED BY <1>1, <1>3 DEF After

\* Reading one more run.
LEMMA AfterRunsSnoc ==
    ASSUME NEW r, NEW runs \in Seq(Run), NEW run \in Run
    PROVE  AfterRuns(r, Append(runs, run)) = ReadRun(AfterRuns(r, runs), run)
<1>1. PICK t : t = Append(runs, run)
    OBVIOUS
<1>2. RunFold!Folded(r, t) = ReadRun(RunFold!Folded(r, runs), run)
    BY <1>1, RunFold!FoldLeftSnoc
<1>3. FoldLeft(ReadRun, r, t) = ReadRun(FoldLeft(ReadRun, r, runs), run)
    BY ONLY <1>2 DEF RunFold!Folded, FoldLeft, RunFold!FoldLeft, MapThenFoldSet, RunFold!MapThenFoldSet,
                Max, RunFold!Max
<1> QED BY <1>1, <1>3 DEF AfterRuns

\* Where the bytes of a buffer end that has no run.
LEMMA EndOfNothing == \A runs : EndOf(runs, 0) = BufHdr
<1> SUFFICES ASSUME NEW runs PROVE EndOf(runs, 0) = BufHdr
    OBVIOUS
<1>1. PICK f : f = [i \in 1 .. 0 |-> runs[i].n]
    OBVIOUS
<1>2. SumFunction(f) = 0
    BY <1>1, SumNothing
<1> QED BY <1>1, <1>2 DEF EndOf, BufHdr

\* Where they end with one run more.
LEMMA EndOfNext ==
    ASSUME NEW runs \in Seq(Run), NEW k \in Nat, k < Len(runs)
    PROVE  EndOf(runs, k + 1) = EndOf(runs, k) + runs[k + 1].n /\ EndOf(runs, k) \in Nat
<1>1. PICK f : f = [i \in 1 .. k |-> runs[i].n]
    OBVIOUS
<1>2. PICK g : g = [i \in 1 .. (k + 1) |-> runs[i].n]
    OBVIOUS
<1>3. \A i \in 1 .. k : f[i] = g[i]
    BY <1>1, <1>2
<1>4. \A i \in 1 .. (k + 1) : g[i] \in Nat
  <2>1. \A i \in 1 .. (k + 1) : runs[i] \in Run
      OBVIOUS
  <2>2. \A i \in 1 .. (k + 1) : runs[i].n \in Nat
      BY ONLY <2>1 DEF Run
  <2> QED BY <1>2, <2>2
<1>5. DOMAIN f = 1 .. k /\ DOMAIN g = 1 .. (k + 1) /\ g[k + 1] = runs[k + 1].n
    BY <1>1, <1>2
<1>6. SumFunction(g) = SumFunction(f) + g[k + 1] /\ SumFunction(f) \in Nat
    BY ONLY <1>3, <1>4, <1>5, k \in Nat, SumLonger
<1>7. EndOf(runs, k) = 16 + SumFunction(f) /\ EndOf(runs, k + 1) = 16 + SumFunction(g)
    BY <1>1, <1>2 DEF EndOf, BufHdr
<1>8. g[k + 1] \in Nat
    BY <1>4
<1> QED BY <1>5, <1>6, <1>7, <1>8

\* It is a number.
LEMMA EndOfNat ==
    ASSUME NEW runs \in Seq(Run), NEW k \in 0 .. Len(runs)
    PROVE  EndOf(runs, k) \in Nat
<1> DEFINE T == {j \in Nat : j <= Len(runs) => EndOf(runs, j) \in Nat}
<1>1. 0 \in T
    BY EndOfNothing DEF BufHdr
<1>2. ASSUME NEW j \in Nat, j \in T PROVE j + 1 \in T
  <2> SUFFICES ASSUME j + 1 <= Len(runs) PROVE EndOf(runs, j + 1) \in Nat
      OBVIOUS
  <2>1. j < Len(runs) /\ runs[j + 1] \in Run
      OBVIOUS
  <2>3. runs[j + 1].n \in Nat
      BY ONLY <2>1 DEF Run
  <2>2. EndOf(runs, j + 1) = EndOf(runs, j) + runs[j + 1].n /\ EndOf(runs, j) \in Nat
      BY <2>1, EndOfNext
  <2> QED BY <2>2, <2>3
<1>3. Nat \subseteq T
    BY <1>1, <1>2, NatSetInduction, Zenon
<1> QED BY <1>3

\* The ends of the runs before one that is added stay.
LEMMA EndOfSnoc ==
    ASSUME NEW runs \in Seq(Run), NEW run \in Run, NEW more, more = Append(runs, run)
    PROVE  /\ more \in Seq(Run) /\ Len(more) = Len(runs) + 1
           /\ EndOf(more, Len(more)) = EndOf(runs, Len(runs)) + run.n
           /\ \A k \in 0 .. Len(runs) : EndOf(more, k) = EndOf(runs, k)
<1>1. more \in Seq(Run) /\ Len(more) = Len(runs) + 1 /\ Len(runs) \in Nat
    OBVIOUS
<1>2. more[Len(runs) + 1] = run /\ \A i \in 1 .. Len(runs) : more[i] = runs[i]
    OBVIOUS
<1>3. ASSUME NEW k \in 0 .. Len(runs) PROVE EndOf(more, k) = EndOf(runs, k)
  <2>1. \A i \in 1 .. k : more[i].n = runs[i].n
      BY <1>1, <1>2
  <2>2. [i \in 1 .. k |-> more[i].n] = [i \in 1 .. k |-> runs[i].n]
      BY <2>1
  <2> QED BY <2>2 DEF EndOf
<1>4. EndOf(more, Len(runs) + 1) = EndOf(more, Len(runs)) + run.n
  <2>1. PICK k \in Nat : k = Len(runs)
      BY <1>1
  <2>2. k < Len(more) /\ more[k + 1] = run
      BY <1>1, <1>2, <2>1
  <2>3. EndOf(more, k + 1) = EndOf(more, k) + more[k + 1].n
      BY ONLY <1>1, <2>2, k \in Nat, EndOfNext
  <2> QED BY <2>1, <2>2, <2>3
<1> QED BY <1>1, <1>3, <1>4

\* Every record that starts in a buffer starts at a multiple of 8.
AlignedRuns(runs) == \A k \in 1 .. Len(runs) : runs[k].from = 0 => EndOf(runs, k - 1) % 8 = 0

\* A run that starts no record, or starts one at a multiple of 8, can be added.
LEMMA AlignedSnoc ==
    ASSUME NEW runs \in Seq(Run), NEW run \in Run, AlignedRuns(runs),
           run.from = 0 => EndOf(runs, Len(runs)) % 8 = 0
    PROVE  AlignedRuns(Append(runs, run))
<1>1. PICK more : more = Append(runs, run)
    OBVIOUS
<1>2. more[Len(runs) + 1] = run /\ \A i \in 1 .. Len(runs) : more[i] = runs[i]
    BY <1>1
<1>3. /\ Len(more) = Len(runs) + 1 /\ Len(runs) \in Nat
      /\ \A k \in 0 .. Len(runs) : EndOf(more, k) = EndOf(runs, k)
    BY ONLY <1>1, runs \in Seq(Run), run \in Run, EndOfSnoc, LenProperties
<1>4. ASSUME NEW k \in 1 .. Len(more), more[k].from = 0 PROVE EndOf(more, k - 1) % 8 = 0
  <2>1. k - 1 \in 0 .. Len(runs) /\ EndOf(more, k - 1) = EndOf(runs, k - 1)
      BY <1>3
  <2>2. CASE k = Len(runs) + 1
      BY <1>2, <1>3, <1>4, <2>1, <2>2
  <2>3. CASE k # Len(runs) + 1
    <3>1. k \in 1 .. Len(runs)
        BY <1>3, <2>3
    <3> QED BY <1>2, <1>4, <2>1, <3>1 DEF AlignedRuns
  <2> QED BY <2>2, <2>3
<1> QED BY <1>1, <1>4 DEF AlignedRuns

-------------------------------------------------------------------------------
(*****************************************************************************)
(* The receiver has found the records of E and nothing wrong; of the last of *)
(* them from bytes are read and left are to come.                            *)
(*****************************************************************************)
Entry == [rec : Nat, mu_size : Nat]
Found(E, left, from, n) ==
    [records |-> E, left |-> left, from |-> from, bufs |-> n, ok |-> TRUE]

\* The first run of a record, when none is open.
LEMMA ReadHeader ==
    ASSUME NEW E, NEW from, NEW n, NEW run \in Run, run.from = 0
    PROVE  ReadRun(Found(E, 0, from, n), run)
             = Found(Append(E, [rec |-> run.rec, mu_size |-> run.size]), run.size - run.n, run.n, n)
    BY DEF ReadRun, Found

\* The next run of a record.
MoreRead(E, entry, left, from, n, run) ==
    ReadRun(Found(Append(E, entry), left, from, n), run)
      = Found(Append(E, entry), left - run.n, from + run.n, n)

LEMMA ReadMore ==
    ASSUME NEW E \in Seq(Entry), NEW entry \in Entry, NEW left \in Int, NEW from \in Int,
           NEW n, NEW run \in Run, run.rec = entry.rec, run.from = from, from # 0, run.n <= left
    PROVE  MoreRead(E, entry, left, from, n, run)
<1>1. PICK F : F = Append(E, entry)
    OBVIOUS
<1>2. Last(F) = entry
    BY <1>1 DEF Last
<1>3. ReadRun(Found(F, left, from, n), run) = Found(F, left - run.n, from + run.n, n)
    BY <1>2 DEF ReadRun, Found
<1> QED BY <1>1, <1>3 DEF MoreRead

\* A whole buffer.
LEMMA ReadWhole ==
    ASSUME NEW r, NEW buf \in Buf, NEW E, NEW left \in Int, NEW from, NEW n \in Nat,
           AfterRuns(r, buf.runs) = Found(E, left, from, n), r.bufs = n, buf.mu_buf_seq = n,
           buf.fragment <=> left > 0, buf.mu_size = EndOf(buf.runs, Len(buf.runs)),
           buf.mu_size <= BufMax
    PROVE  ReadBuffer(r, buf) = Found(E, left, from, n + 1)
<1>1. FoldLeft(ReadRun, r, buf.runs) = Found(E, left, from, n)
    BY DEF AfterRuns
<1>2. (TRUE /\ buf.mu_buf_seq = r.bufs /\ (buf.fragment <=> left > 0)
         /\ buf.mu_size = EndOf(buf.runs, Len(buf.runs)) /\ buf.mu_size <= BufMax) = TRUE
    OBVIOUS
<1>3. PICK F : F = Found(E, left, from, n)
    OBVIOUS
<1>4. F.ok = TRUE /\ F.left = left
    BY <1>3 DEF Found
<1>5. ReadBuffer(r, buf) = [F EXCEPT !.bufs = @ + 1, !.ok = TRUE]
    BY <1>1, <1>2, <1>3, <1>4 DEF ReadBuffer
<1> QED BY <1>3, <1>5 DEF Found

-------------------------------------------------------------------------------
(*****************************************************************************)
(* A writer inside a record: behind the buffers P that the worker took       *)
(* before, it has the parked ones and a current one that is not finished.    *)
(*****************************************************************************)
WState == [frags : Seq(Buf), buf : {NoBuf} \cup Buf, used : Nat, seq : Nat, dropped : Nat,
           free : Int, rec : Nat, size : Nat, out : Nat, ok : BOOLEAN]

AlignedBufs(bufs) == \A i \in 1 .. Len(bufs) : AlignedRuns(bufs[i].runs)

\* The current buffer, its number, and where its bytes end.
Layout(P, st) ==
    /\ st \in WState /\ st.buf \in Buf /\ st.ok = TRUE
    /\ st.buf.fragment = FALSE
    /\ st.buf.mu_buf_seq = Len(P) + Len(st.frags)
    /\ st.seq = Len(P) + Len(st.frags) + 1
    /\ st.used = EndOf(st.buf.runs, Len(st.buf.runs))
    /\ BufHdr <= st.used /\ st.used <= BufMax
    /\ (st.used - st.out) % 8 = 0
    /\ AlignedRuns(st.buf.runs) /\ AlignedBufs(st.frags)

\* What the receiver makes of the bytes so far.
Reading(P, st, E, left, from) ==
    /\ After(P \o st.frags).bufs = Len(P) + Len(st.frags)
    /\ AfterRuns(After(P \o st.frags), st.buf.runs) = Found(E, left, from, Len(P) + Len(st.frags))

\* A run that is put at the end of the bytes.
NewRun(st, n) == [rec |-> st.rec, from |-> st.out, n |-> n, size |-> st.size]

\* The fields of a writer after bytes are put.
PutResult(st, n, u) ==
    /\ u \in WState /\ u.buf \in Buf /\ NewRun(st, n) \in Run
    /\ u.buf.runs = Append(st.buf.runs, NewRun(st, n)) /\ st.buf.runs \in Seq(Run)
    /\ u.buf.fragment = st.buf.fragment /\ u.buf.mu_buf_seq = st.buf.mu_buf_seq
    /\ u.buf.mu_size = st.buf.mu_size
    /\ u.frags = st.frags /\ u.seq = st.seq /\ u.dropped = st.dropped /\ u.free = st.free
    /\ u.rec = st.rec /\ u.size = st.size /\ u.ok = st.ok
    /\ u.used = st.used + n /\ u.out = st.out + n

\* Put adds one run behind those of the buffer and moves the two positions by its bytes.
LEMMA PutFields ==
    ASSUME NEW st \in WState, st.buf \in Buf, NEW n \in Nat, NEW u, u = Put(st, n)
    PROVE  PutResult(st, n, u)
<1>1. PICK run : run = NewRun(st, n)
    OBVIOUS
<1>2. run \in Run
    BY <1>1 DEF NewRun, Run, WState
<1>3. PICK runs : runs = Append(st.buf.runs, run)
    OBVIOUS
<1>4. st.buf.runs \in Seq(Run)
    BY DEF Buf
<1>5. runs \in Seq(Run)
    BY <1>2, <1>3, <1>4
<1>6. PICK b : b = [st.buf EXCEPT !.runs = runs]
    OBVIOUS
<1>7. /\ b \in Buf /\ b.runs = runs /\ b.fragment = st.buf.fragment
      /\ b.mu_buf_seq = st.buf.mu_buf_seq /\ b.mu_size = st.buf.mu_size
    BY ONLY <1>5, <1>6, st.buf \in Buf DEF Buf
<1>8. u = [st EXCEPT !.buf = b, !.used = @ + n, !.out = @ + n]
    BY <1>1, <1>3, <1>6 DEF Put, NewRun, WState
<1>9. /\ u \in WState /\ u.buf = b
      /\ u.frags = st.frags /\ u.seq = st.seq /\ u.dropped = st.dropped /\ u.free = st.free
      /\ u.rec = st.rec /\ u.size = st.size /\ u.ok = st.ok
      /\ u.used = st.used + n /\ u.out = st.out + n
  <2>1. /\ u.buf = b
        /\ u.frags = st.frags /\ u.seq = st.seq /\ u.dropped = st.dropped /\ u.free = st.free
        /\ u.rec = st.rec /\ u.size = st.size /\ u.ok = st.ok
        /\ u.used = st.used + n /\ u.out = st.out + n
      BY ONLY <1>8, st \in WState DEF WState
  <2>2. st.used + n \in Nat /\ st.out + n \in Nat
      BY ONLY st \in WState, n \in Nat DEF WState
  <2>3. u = [st EXCEPT !.buf = b, !.used = st.used + n, !.out = st.out + n]
      BY ONLY <1>8, st \in WState DEF WState
  <2>4. u \in WState
      BY ONLY <1>7, <2>2, <2>3, st \in WState DEF WState
  <2> QED BY <2>1, <2>4
<1> QED BY <1>1, <1>2, <1>3, <1>4, <1>7, <1>9 DEF PutResult

\* The layout stays as it is described, if the bytes fit in the buffer.
LEMMA PutLayout ==
    ASSUME NEW P, NEW st, Layout(P, st), NEW n \in Nat, st.used + n <= BufMax
    PROVE  Layout(P, Put(st, n))
<1>1. PICK u : u = Put(st, n)
    OBVIOUS
<1>2. st \in WState /\ st.buf \in Buf
    BY DEF Layout
<1>3. PICK run : run = NewRun(st, n)
    OBVIOUS
<1>4. /\ u \in WState /\ u.buf \in Buf /\ run \in Run
      /\ u.buf.runs = Append(st.buf.runs, run) /\ st.buf.runs \in Seq(Run)
      /\ u.buf.fragment = st.buf.fragment /\ u.buf.mu_buf_seq = st.buf.mu_buf_seq
      /\ u.frags = st.frags /\ u.seq = st.seq /\ u.ok = st.ok
      /\ u.used = st.used + n /\ u.out = st.out + n
  <2>1. PutResult(st, n, u)
      BY ONLY <1>1, <1>2, n \in Nat, PutFields
  <2> QED BY <1>3, <2>1 DEF PutResult
<1>5. run.n = n /\ run.from = st.out
    BY <1>3 DEF NewRun
<1>6. EndOf(u.buf.runs, Len(u.buf.runs)) = EndOf(st.buf.runs, Len(st.buf.runs)) + n
    BY ONLY <1>4, <1>5, EndOfSnoc
<1>7. run.from = 0 => EndOf(st.buf.runs, Len(st.buf.runs)) % 8 = 0
  <2>1. (st.used - st.out) % 8 = 0 /\ st.used = EndOf(st.buf.runs, Len(st.buf.runs))
      BY DEF Layout
  <2>2. st.used \in Nat
      BY <1>2 DEF WState
  <2> SUFFICES ASSUME st.out = 0 PROVE st.used % 8 = 0
      BY <1>5, <2>1
  <2>3. st.used - st.out = st.used
      BY <2>2
  <2> QED BY <2>1, <2>3
<1>8. AlignedRuns(u.buf.runs)
  <2>1. AlignedRuns(st.buf.runs)
      BY DEF Layout
  <2> QED BY ONLY <1>4, <1>7, <2>1, AlignedSnoc
<1>9. st.used \in Nat /\ st.out \in Nat
    BY <1>2 DEF WState
<1>10. u.used = EndOf(u.buf.runs, Len(u.buf.runs)) /\ BufHdr <= u.used /\ u.used <= BufMax
    BY <1>4, <1>6, <1>9 DEF Layout, BufHdr
<1>11. (u.used - u.out) % 8 = 0
  <2>1. u.used - u.out = st.used - st.out
      BY <1>4, <1>9
  <2> QED BY <2>1 DEF Layout
<1>12. Layout(P, u)
    BY <1>4, <1>8, <1>10, <1>11 DEF Layout
<1> QED BY <1>1, <1>12

\* The header of a record is read as one.
LEMMA PutHeader ==
    ASSUME NEW P, NEW st, Layout(P, st), NEW n \in Nat, NEW E, NEW from,
           Reading(P, st, E, 0, from), st.out = 0
    PROVE  Reading(P, Put(st, n), Append(E, [rec |-> st.rec, mu_size |-> st.size]), st.size - n, n)
<1>1. PICK u : u = Put(st, n)
    OBVIOUS
<1>2. st \in WState /\ st.buf \in Buf
    BY DEF Layout
<1>3. PICK run : run = NewRun(st, n)
    OBVIOUS
<1>4. /\ run \in Run /\ u.buf.runs = Append(st.buf.runs, run) /\ st.buf.runs \in Seq(Run)
      /\ u.frags = st.frags
  <2>1. PutResult(st, n, u)
      BY ONLY <1>1, <1>2, n \in Nat, PutFields
  <2> QED BY <1>3, <2>1 DEF PutResult
<1>5. run.n = n /\ run.from = 0 /\ run.rec = st.rec /\ run.size = st.size
    BY <1>3 DEF NewRun
<1>6. PICK r : r = After(P \o st.frags)
    OBVIOUS
<1>7. PICK k : k = Len(P) + Len(st.frags)
    OBVIOUS
<1>8. AfterRuns(r, st.buf.runs) = Found(E, 0, from, k)
    BY <1>6, <1>7 DEF Reading
<1>9. AfterRuns(r, u.buf.runs) = ReadRun(Found(E, 0, from, k), run)
    BY ONLY <1>4, <1>8, AfterRunsSnoc
<1>10. ReadRun(Found(E, 0, from, k), run)
         = Found(Append(E, [rec |-> st.rec, mu_size |-> st.size]), st.size - n, n, k)
    BY <1>4, <1>5, ReadHeader
<1> QED BY <1>1, <1>4, <1>6, <1>7, <1>9, <1>10 DEF Reading

\* Further bytes of the record are read as they were put.
LEMMA PutMore ==
    ASSUME NEW P, NEW st, Layout(P, st), NEW n \in Nat, NEW E \in Seq(Entry), NEW entry \in Entry,
           Reading(P, st, Append(E, entry), st.size - st.out, st.out), entry.rec = st.rec,
           st.out # 0, st.out + n <= st.size,
           NEW u, u = Put(st, n)
    PROVE  Reading(P, u, Append(E, entry), u.size - u.out, u.out)
<1>2. st \in WState /\ st.buf \in Buf
    BY DEF Layout
<1>3. PICK run : run = NewRun(st, n)
    OBVIOUS
<1>4. /\ run \in Run /\ u.buf.runs = Append(st.buf.runs, run) /\ st.buf.runs \in Seq(Run)
      /\ u.frags = st.frags /\ u.size = st.size /\ u.out = st.out + n
  <2>1. PutResult(st, n, u)
      BY ONLY <1>2, u = Put(st, n), n \in Nat, PutFields
  <2> QED BY <1>3, <2>1 DEF PutResult
<1>5. run.n = n /\ run.from = st.out /\ run.rec = st.rec
    BY <1>3 DEF NewRun
<1>6. PICK r : r = After(P \o st.frags)
    OBVIOUS
<1>7. PICK k : k = Len(P) + Len(st.frags)
    OBVIOUS
<1>8. PICK left : left = st.size - st.out
    OBVIOUS
<1>9. PICK from : from = st.out
    OBVIOUS
<1>10. AfterRuns(r, st.buf.runs) = Found(Append(E, entry), left, from, k)
    BY <1>6, <1>7, <1>8, <1>9 DEF Reading
<1>11. PICK q : q = Found(Append(E, entry), left, from, k)
    OBVIOUS
<1>12. AfterRuns(r, u.buf.runs) = ReadRun(q, run)
    BY ONLY <1>4, <1>10, <1>11, AfterRunsSnoc
<1>13. st.size \in Nat /\ st.out \in Nat
    BY <1>2 DEF WState
<1>17. left \in Int /\ from \in Int
    BY <1>8, <1>9, <1>13
<1>14. run.n <= left /\ from # 0 /\ run.from = from /\ run.rec = entry.rec
    BY <1>5, <1>8, <1>9, <1>13
<1>15. ReadRun(q, run) = Found(Append(E, entry), left - run.n, from + run.n, k)
  <2>1. run \in Run
      BY <1>4
  <2>2. run.rec = entry.rec /\ run.from = from /\ from # 0 /\ run.n <= left
      BY ONLY <1>14, Zenon
  <2>3. MoreRead(E, entry, left, from, k, run)
      BY ONLY <1>17, <2>1, <2>2, E \in Seq(Entry), entry \in Entry, ReadMore
  <2> QED BY <1>11, <2>3 DEF MoreRead
<1>16. left - run.n = u.size - u.out /\ from + run.n = u.out
    BY <1>4, <1>5, <1>8, <1>9, <1>13
<1> QED BY <1>4, <1>6, <1>7, <1>12, <1>15, <1>16 DEF Reading

\* What a sequence began with stays when an element is appended.
LEMMA PrefixAppend ==
    ASSUME NEW S, NEW s \in Seq(S), NEW x \in S, NEW n \in 0 .. Len(s)
    PROVE  SubSeq(Append(s, x), 1, n) = SubSeq(s, 1, n)
<1>1. \A i \in 1 .. n : Append(s, x)[i] = s[i]
    OBVIOUS
<1>2. /\ SubSeq(s, 1, n) = [i \in 1 .. n |-> s[i]]
      /\ SubSeq(Append(s, x), 1, n) = [i \in 1 .. n |-> Append(s, x)[i]]
    OBVIOUS
<1> QED BY <1>1, <1>2

\* A sequence is what it begins with, up to its end.
LEMMA PrefixWhole == \A S : \A s \in Seq(S) : SubSeq(s, 1, Len(s)) = s
    OBVIOUS

\* The state a record began in is the beginning of st: in its parked buffers, and in the
\* runs of the buffer the record began in.
Begins(buf, buf0) ==
    /\ buf \in Buf /\ buf.mu_buf_seq = buf0.mu_buf_seq
    /\ Len(buf0.runs) <= Len(buf.runs) /\ SubSeq(buf.runs, 1, Len(buf0.runs)) = buf0.runs

Kept(st0, st) ==
    /\ st.rec = st0.rec /\ st.dropped = st0.dropped
    /\ Len(st0.frags) <= Len(st.frags) /\ SubSeq(st.frags, 1, Len(st0.frags)) = st0.frags
    /\ Len(st.frags) = Len(st0.frags) => Begins(st.buf, st0.buf)
    /\ Len(st.frags) # Len(st0.frags) => Begins(st.frags[Len(st0.frags) + 1], st0.buf)

\* At first.
LEMMA KeptAtFirst ==
    ASSUME NEW st \in WState, st.buf \in Buf
    PROVE  Kept(st, st)
<1>1. st.frags \in Seq(Buf) /\ st.buf.runs \in Seq(Run)
    BY DEF WState, Buf
<1>2. SubSeq(st.frags, 1, Len(st.frags)) = st.frags /\ Len(st.frags) \in Nat
    BY ONLY <1>1, PrefixWhole, LenProperties
<1>3. SubSeq(st.buf.runs, 1, Len(st.buf.runs)) = st.buf.runs /\ Len(st.buf.runs) \in Nat
    BY ONLY <1>1, PrefixWhole, LenProperties
<1> QED BY <1>2, <1>3 DEF Kept, Begins

\* When bytes are put.
LEMMA KeptPut ==
    ASSUME NEW st0 \in WState, st0.buf \in Buf, NEW st \in WState, st.buf \in Buf, NEW n \in Nat,
           Kept(st0, st), NEW u, u = Put(st, n)
    PROVE  Kept(st0, u)
<1>1. PICK run : run = NewRun(st, n)
    OBVIOUS
<1>2. /\ u.buf \in Buf /\ run \in Run
      /\ u.buf.runs = Append(st.buf.runs, run) /\ st.buf.runs \in Seq(Run)
      /\ u.buf.mu_buf_seq = st.buf.mu_buf_seq
      /\ u.frags = st.frags /\ u.dropped = st.dropped /\ u.rec = st.rec
  <2>1. PutResult(st, n, u)
      BY PutFields
  <2> QED BY ONLY <1>1, <2>1 DEF PutResult
<1>3. ASSUME Begins(st.buf, st0.buf) PROVE Begins(u.buf, st0.buf)
  <2>1. st0.buf.runs \in Seq(Run)
      BY DEF Buf
  <2>2. Len(st0.buf.runs) \in 0 .. Len(st.buf.runs) /\ Len(u.buf.runs) = Len(st.buf.runs) + 1
      BY <1>2, <1>3, <2>1 DEF Begins
  <2>3. SubSeq(u.buf.runs, 1, Len(st0.buf.runs)) = SubSeq(st.buf.runs, 1, Len(st0.buf.runs))
      BY ONLY <1>2, <2>2, PrefixAppend
  <2> QED BY <1>2, <1>3, <2>2, <2>3 DEF Begins
<1> QED BY <1>2, <1>3 DEF Kept

\* When the current buffer is parked.
LEMMA KeptPark ==
    ASSUME NEW st0 \in WState, st0.buf \in Buf, NEW st \in WState, st.buf \in Buf,
           Kept(st0, st), NEW full \in Buf, full.runs = st.buf.runs,
           full.mu_buf_seq = st.buf.mu_buf_seq,
           NEW u, u.frags = Append(st.frags, full), u.rec = st.rec, u.dropped = st.dropped
    PROVE  Kept(st0, u) /\ Len(u.frags) # Len(st0.frags)
<1>1. st0.frags \in Seq(Buf) /\ st.frags \in Seq(Buf)
    BY DEF WState
<1>2. PICK n \in Nat : n = Len(st0.frags)
    BY <1>1
<1>3. PICK m \in Nat : m = Len(st.frags)
    BY <1>1
<1>4. n <= m /\ SubSeq(st.frags, 1, n) = st0.frags
    BY <1>2, <1>3 DEF Kept
<1>5. Len(u.frags) = m + 1 /\ u.frags[m + 1] = full /\ \A i \in 1 .. m : u.frags[i] = st.frags[i]
    BY <1>1, <1>3
<1>6. SubSeq(u.frags, 1, n) = st0.frags
  <2>1. n \in 0 .. Len(st.frags)
      BY <1>3, <1>4
  <2> QED BY ONLY <1>1, <1>4, <2>1, full \in Buf, u.frags = Append(st.frags, full), PrefixAppend
<1>7. Begins(u.frags[n + 1], st0.buf)
  <2>1. CASE m = n
    <3>1. Begins(st.buf, st0.buf)
        BY <1>2, <1>3, <2>1 DEF Kept
    <3> QED BY <1>5, <2>1, <3>1 DEF Begins
  <2>2. CASE m # n
    <3>1. Begins(st.frags[n + 1], st0.buf) /\ n + 1 \in 1 .. m
        BY <1>2, <1>3, <1>4, <2>2 DEF Kept
    <3> QED BY <1>5, <3>1
  <2> QED BY <2>1, <2>2
<1>8. Len(u.frags) # n /\ n <= Len(u.frags)
    BY <1>4, <1>5
<1> QED BY <1>2, <1>6, <1>7, <1>8 DEF Kept

\* The buffer that is parked when it is full.
Full(st) == [st.buf EXCEPT !.fragment = TRUE, !.mu_size = st.used]

\* A full buffer is marked as a fragment and filled to its end; its runs and number stay.
LEMMA FullFields ==
    ASSUME NEW st \in WState, st.buf \in Buf
    PROVE  /\ Full(st) \in Buf /\ Full(st).runs = st.buf.runs
           /\ Full(st).mu_buf_seq = st.buf.mu_buf_seq
           /\ Full(st).fragment = TRUE /\ Full(st).mu_size = st.used
<1>1. st.used \in Nat
    BY DEF WState
<1> QED BY ONLY <1>1, st.buf \in Buf DEF Full, Buf

\* A new buffer is empty.
LEMMA NewBufFields ==
    ASSUME NEW seq \in Nat
    PROVE  /\ NewBuf(seq) \in Buf /\ NewBuf(seq).runs = <<>> /\ NewBuf(seq).mu_buf_seq = seq
           /\ NewBuf(seq).fragment = FALSE /\ NewBuf(seq).mu_size = BufHdr
    BY DEF NewBuf, Buf, BufHdr

\* The fields of a writer that parks its buffer and asks for another.
LEMMA RotateFields ==
    ASSUME NEW st \in WState, st.buf \in Buf, NEW r, r = rotate_fragment_buffer(st)
    PROVE  /\ r \in WState /\ r.frags = Append(st.frags, Full(st))
           /\ r.rec = st.rec /\ r.dropped = st.dropped /\ r.size = st.size /\ r.out = st.out
           /\ \/ r.ok = FALSE /\ r.seq = st.seq /\ r.buf = NoBuf
              \/ r.ok = st.ok /\ r.seq = st.seq + 1 /\ r.buf = NewBuf(st.seq) /\ r.used = BufHdr
<1>1. PICK frags : frags = Append(st.frags, Full(st))
    OBVIOUS
<1>2. frags \in Seq(Buf)
  <2>1. st.frags \in Seq(Buf)
      BY DEF WState
  <2>2. Full(st) \in Buf
      BY FullFields
  <2> QED BY ONLY <1>1, <2>1, <2>2
<1>3. PICK parked : parked = [st EXCEPT !.frags = frags, !.buf = NoBuf]
    OBVIOUS
<1>4. /\ parked \in WState /\ parked.frags = frags /\ parked.buf = NoBuf
      /\ parked.used = st.used /\ parked.seq = st.seq /\ parked.dropped = st.dropped
      /\ parked.free = st.free /\ parked.rec = st.rec /\ parked.size = st.size
      /\ parked.out = st.out /\ parked.ok = st.ok
    BY ONLY <1>2, <1>3, st \in WState DEF WState
<1>5. r = IF st.free = 0 THEN [parked EXCEPT !.ok = FALSE] ELSE WithNewBuf(parked)
  <2>1. parked = [st EXCEPT !.frags = Append(@, Full(st)), !.buf = NoBuf]
      BY ONLY <1>1, <1>3, st \in WState DEF WState
  <2> QED BY <2>1 DEF rotate_fragment_buffer, Full
<1>6. CASE st.free = 0
  <2>1. r = [parked EXCEPT !.ok = FALSE]
      BY <1>5, <1>6
  <2>2. /\ r \in WState /\ r.frags = frags /\ r.buf = NoBuf /\ r.seq = parked.seq /\ r.ok = FALSE
        /\ r.rec = parked.rec /\ r.dropped = parked.dropped /\ r.size = parked.size
        /\ r.out = parked.out
      BY ONLY <1>4, <2>1 DEF WState
  <2> QED BY <1>1, <1>4, <2>2
<1>7. CASE st.free # 0
  <2>1. PICK b : b = NewBuf(parked.seq)
      OBVIOUS
  <2>2. b \in Buf
    <3>1. parked.seq \in Nat
        BY <1>4 DEF WState
    <3> QED BY <2>1, <3>1, NewBufFields
  <2>3. r = [parked EXCEPT !.buf = b, !.used = 16, !.seq = @ + 1, !.free = @ - 1]
      BY <1>5, <1>7, <2>1 DEF WithNewBuf, BufHdr
  <2>4. /\ r.frags = frags /\ r.buf = b /\ r.seq = parked.seq + 1 /\ r.ok = parked.ok
        /\ r.rec = parked.rec /\ r.dropped = parked.dropped /\ r.size = parked.size
        /\ r.out = parked.out /\ r.used = 16
      BY ONLY <1>4, <2>3 DEF WState
  <2>5. r \in WState
    <3>1. parked.seq + 1 \in Nat /\ parked.free - 1 \in Int /\ parked \in WState /\ 16 \in Nat
        BY ONLY <1>4 DEF WState
    <3>2. r = [parked EXCEPT !.buf = b, !.used = 16, !.seq = parked.seq + 1, !.free = parked.free - 1]
        BY ONLY <1>4, <2>3 DEF WState
    <3> QED BY ONLY <2>2, <3>1, <3>2 DEF WState
  <2> QED BY <1>1, <1>4, <2>1, <2>4, <2>5 DEF BufHdr
<1> QED BY <1>6, <1>7

\* A failed attempt leaves only parked buffers.
Stuck(P, st) ==
    /\ st \in WState /\ st.ok = FALSE
    /\ st.seq = Len(P) + Len(st.frags) /\ AlignedBufs(st.frags)

\* A buffer whose records all start at a multiple of 8 may join others of that kind.
LEMMA AlignedAppend ==
    ASSUME NEW bufs \in Seq(Buf), NEW buf \in Buf, AlignedBufs(bufs), AlignedRuns(buf.runs)
    PROVE  AlignedBufs(Append(bufs, buf))
    BY DEF AlignedBufs

\* Multiples of 8.
LEMMA Mod8 == \A a \in Int : (a % 8 = 0 => \E q \in Int : a = 8 * q) /\ (8 * a) % 8 = 0
<1> SUFFICES ASSUME NEW a \in Int PROVE (a % 8 = 0 => \E q \in Int : a = 8 * q) /\ (8 * a) % 8 = 0
    OBVIOUS
<1>1. a = (8 * (a \div 8)) + (a % 8) /\ a \div 8 \in Int
    OBVIOUS
<1>2. (8 * a) % 8 = 0
    OBVIOUS
<1> QED BY <1>1, <1>2

\* Where 8 divides a number and its distance to o, it divides o and the distance of o to 16.
LEMMA Mod8Swap ==
    ASSUME NEW a \in Nat, NEW o \in Nat, a % 8 = 0, (a - o) % 8 = 0
    PROVE  (16 - o) % 8 = 0 /\ o % 8 = 0
<1>1. PICK q \in Int : a = 8 * q
    BY Mod8
<1>2. PICK p \in Int : a - o = 8 * p
    BY Mod8
<1>3. o = 8 * (q - p) /\ 16 - o = 8 * (2 - q + p) /\ q - p \in Int /\ 2 - q + p \in Int
    BY <1>1, <1>2
<1> QED BY <1>3, Mod8

\* A full buffer is parked and another goes on, or there is none.
LEMMA RotateLayout ==
    ASSUME NEW P \in Seq(Buf), NEW st, Layout(P, st), st.used = BufMax,
           NEW r, r = rotate_fragment_buffer(st)
    PROVE  \/ Layout(P, r) /\ r.used = BufHdr
           \/ Stuck(P, r)
<1>1. st \in WState /\ st.buf \in Buf /\ st.ok = TRUE /\ st.seq = Len(P) + Len(st.frags) + 1
    BY DEF Layout
<1>2. /\ r \in WState /\ r.frags = Append(st.frags, Full(st)) /\ r.out = st.out
      /\ \/ r.ok = FALSE /\ r.seq = st.seq /\ r.buf = NoBuf
         \/ r.ok = st.ok /\ r.seq = st.seq + 1 /\ r.buf = NewBuf(st.seq) /\ r.used = BufHdr
    BY <1>1, RotateFields
<1>3. st.frags \in Seq(Buf) /\ st.seq \in Nat /\ st.out \in Nat
    BY <1>1 DEF WState
<1>4. Full(st) \in Buf /\ Full(st).runs = st.buf.runs
    BY <1>1, FullFields
<1>5. AlignedBufs(r.frags)
    BY <1>2, <1>3, <1>4, AlignedAppend DEF Layout
<1>6. Len(r.frags) = Len(st.frags) + 1
    BY ONLY <1>2, <1>3, <1>4
<1>7. CASE r.ok = FALSE /\ r.seq = st.seq /\ r.buf = NoBuf
  <2>1. r.seq = Len(P) + Len(r.frags)
      BY <1>1, <1>3, <1>6, <1>7
  <2> QED BY <1>2, <1>5, <1>7, <2>1 DEF Stuck
<1>8. CASE r.ok = st.ok /\ r.seq = st.seq + 1 /\ r.buf = NewBuf(st.seq) /\ r.used = BufHdr
  <2>1. /\ r.buf \in Buf /\ r.buf.runs = <<>> /\ r.buf.mu_buf_seq = st.seq /\ r.buf.fragment = FALSE
      BY <1>3, <1>8, NewBufFields
  <2>2. Len(r.buf.runs) = 0
      BY <2>1
  <2>3. EndOf(r.buf.runs, Len(r.buf.runs)) = r.used
      BY <1>8, <2>2, EndOfNothing
  <2>4. AlignedRuns(r.buf.runs)
      BY <2>2 DEF AlignedRuns
  <2>5. st.seq = Len(P) + Len(r.frags)
      BY <1>1, <1>3, <1>6
  <2>6. r.used = 16 /\ 16 <= BufMax /\ (r.used - r.out) % 8 = 0
    <3>1. (BufMax - st.out) % 8 = 0
        BY DEF Layout
    <3>2. BufMax \in Nat /\ BufMax % 8 = 0 /\ 16 <= BufMax
        BY RecordsAssumption DEF BufHdr, LogHdr, MinSpace
    <3>3. (16 - st.out) % 8 = 0
        BY ONLY <1>3, <3>1, <3>2, Mod8Swap
    <3> QED BY <1>2, <1>8, <3>2, <3>3 DEF BufHdr
  <2> QED BY <1>1, <1>2, <1>5, <1>8, <2>1, <2>3, <2>4, <2>5, <2>6 DEF Layout, BufHdr
<1> QED BY <1>2, <1>7, <1>8

\* Reading behind a buffer that is parked.
Parkable(P, frags, buf, E, left, from, n) ==
    /\ n = Len(P) + Len(frags) /\ After(P \o frags).bufs = n
    /\ AfterRuns(After(P \o frags), buf.runs) = Found(E, left, from, n)
    /\ buf.mu_buf_seq = n /\ (buf.fragment <=> left > 0)
    /\ buf.mu_size = EndOf(buf.runs, Len(buf.runs)) /\ buf.mu_size <= BufMax

\* When the current buffer is parked behind the others, the receiver reads on in it: nothing
\* read before changes, and the number it expects next is one higher.
LEMMA AfterPark ==
    ASSUME NEW P \in Seq(Buf), NEW frags \in Seq(Buf), NEW buf \in Buf, NEW E, NEW left \in Int,
           NEW from, NEW n \in Nat, Parkable(P, frags, buf, E, left, from, n)
    PROVE  After(P \o Append(frags, buf)) = Found(E, left, from, n + 1)
<1>1. PICK s : s = P \o frags
    OBVIOUS
<1>2. s \in Seq(Buf)
    BY <1>1
<1>3. P \o Append(frags, buf) = Append(s, buf)
    BY <1>1, ConcatSnoc
<1>4. After(Append(s, buf)) = ReadBuffer(After(s), buf)
    BY <1>2, AfterSnoc
<1>5. PICK r : r = After(s)
    OBVIOUS
<1>6. ReadBuffer(r, buf) = Found(E, left, from, n + 1)
  <2>1. AfterRuns(r, buf.runs) = Found(E, left, from, n) /\ r.bufs = n
      BY <1>1, <1>5 DEF Parkable
  <2>2. /\ buf.mu_buf_seq = n /\ (buf.fragment <=> left > 0)
        /\ buf.mu_size = EndOf(buf.runs, Len(buf.runs)) /\ buf.mu_size <= BufMax
      BY DEF Parkable
  <2> QED BY <2>1, <2>2, ReadWhole
<1> QED BY <1>3, <1>4, <1>5, <1>6

\* The reader goes on behind the full buffer.
LEMMA RotateReads ==
    ASSUME NEW P \in Seq(Buf), NEW st, Layout(P, st), NEW r, r = rotate_fragment_buffer(st),
           r.ok = TRUE, NEW E, NEW left \in Int, NEW from, left > 0, Reading(P, st, E, left, from)
    PROVE  Reading(P, r, E, left, from)
<1>1. st \in WState /\ st.buf \in Buf /\ st.ok = TRUE
    BY DEF Layout
<1>2. r.frags = Append(st.frags, Full(st)) /\ r.buf = NewBuf(st.seq)
    BY <1>1, RotateFields
<1>3. st.frags \in Seq(Buf) /\ st.seq \in Nat
    BY <1>1 DEF WState
<1>4. PICK full : full = Full(st)
    OBVIOUS
<1>5. /\ full \in Buf /\ full.runs = st.buf.runs /\ full.mu_buf_seq = st.buf.mu_buf_seq
      /\ full.fragment = TRUE /\ full.mu_size = st.used
    BY <1>1, <1>4, FullFields
<1>6. PICK n \in Nat : n = Len(P) + Len(st.frags)
    BY <1>3
<1>7. /\ After(P \o st.frags).bufs = n
      /\ AfterRuns(After(P \o st.frags), full.runs) = Found(E, left, from, n)
    BY <1>5, <1>6 DEF Reading
<1>8. /\ full.mu_buf_seq = n /\ (full.fragment <=> left > 0)
      /\ full.mu_size = EndOf(full.runs, Len(full.runs)) /\ full.mu_size <= BufMax
    BY <1>5, <1>6 DEF Layout
<1>9. After(P \o Append(st.frags, full)) = Found(E, left, from, n + 1)
  <2>1. Parkable(P, st.frags, full, E, left, from, n)
      BY ONLY <1>6, <1>7, <1>8 DEF Parkable
  <2> QED BY ONLY <1>3, <1>5, <1>6, <2>1, P \in Seq(Buf), left \in Int, AfterPark
<1>10. r.buf.runs = <<>>
    BY <1>2, <1>3, NewBufFields
<1>11. Len(P) + Len(r.frags) = n + 1 /\ r.frags = Append(st.frags, full)
    BY <1>2, <1>3, <1>4, <1>5, <1>6
<1>12. Found(E, left, from, n + 1).bufs = n + 1
    BY DEF Found
<1> QED BY <1>9, <1>10, <1>11, <1>12, AfterNothing DEF Reading

-------------------------------------------------------------------------------
(*****************************************************************************)
(* Copying a piece: st is within the record entry of a writer that was st0   *)
(* when the record began; fits says that the header carries the right size.  *)
(*****************************************************************************)
Inside(P, st0, E, entry, fits, st) ==
    /\ Kept(st0, st) /\ st.rec = entry.rec /\ st.size = entry.mu_size /\ st.out # 0
    /\ Layout(P, st) \/ (Stuck(P, st) /\ Len(st.frags) # Len(st0.frags))
    /\ fits /\ st.ok = TRUE => Reading(P, st, Append(E, entry), st.size - st.out, st.out)

\* Some bytes of the record are in the buffer.
Within(P, st0, E, entry, fits, st) ==
    Inside(P, st0, E, entry, fits, st) /\ (st.ok = TRUE => BufHdr < st.used)

\* Where a record is written: the buffers before, the writer as it began, what was found.
Place(P, st0, E, entry) ==
    /\ P \in Seq(Buf) /\ st0 \in WState /\ st0.buf \in Buf
    /\ E \in Seq(Entry) /\ entry \in Entry

\* Bytes put inside a record, for which buffer and record have room, leave the writer inside it.
LEMMA WithinPut ==
    ASSUME NEW P, NEW st0, NEW E, NEW entry, NEW fits, NEW st, Place(P, st0, E, entry),
           Inside(P, st0, E, entry, fits, st), st.ok = TRUE,
           NEW n \in Nat, st.used + n <= BufMax, fits => st.out + n <= st.size,
           n # 0 \/ BufHdr < st.used
    PROVE  Within(P, st0, E, entry, fits, Put(st, n))
<1>1. PICK u : u = Put(st, n)
    OBVIOUS
<1>2. Layout(P, st) /\ st \in WState /\ st.buf \in Buf
    BY DEF Inside, Layout, Stuck
<1>3. PutResult(st, n, u)
    BY <1>1, <1>2, PutFields
<1>4. Kept(st0, u)
  <2>1. st0 \in WState /\ st0.buf \in Buf /\ Kept(st0, st)
      BY DEF Place, Inside
  <2> QED BY ONLY <1>1, <1>2, <2>1, n \in Nat, KeptPut
<1>5. Layout(P, u)
    BY <1>1, <1>2, PutLayout
<1>6. u.rec = entry.rec /\ u.size = entry.mu_size /\ u.out # 0
    BY <1>2, <1>3 DEF Inside, PutResult, WState
<1>7. ASSUME fits PROVE Reading(P, u, Append(E, entry), u.size - u.out, u.out)
  <2>1. E \in Seq(Entry) /\ entry \in Entry /\ entry.rec = st.rec /\ st.out # 0
      BY DEF Place, Inside
  <2>2. Reading(P, st, Append(E, entry), st.size - st.out, st.out)
      BY <1>7 DEF Inside
  <2>3. st.out + n <= st.size
      BY <1>7
  <2> QED BY ONLY <1>1, <1>2, <2>1, <2>2, <2>3, n \in Nat, PutMore
<1>8. BufHdr < u.used
  <2>1. u.used = st.used + n /\ st.used \in Nat /\ 16 <= st.used
      BY <1>2, <1>3 DEF PutResult, Layout, WState, BufHdr
  <2> QED BY <2>1 DEF BufHdr
<1>9. Inside(P, st0, E, entry, fits, u)
    BY <1>4, <1>5, <1>6, <1>7 DEF Inside
<1> QED BY <1>1, <1>8, <1>9 DEF Within

\* A full buffer that is parked for a fresh one leaves the writer inside the record, at the
\* beginning of the fresh buffer; without a fresh one the record is given up.
LEMMA WithinRotate ==
    ASSUME NEW P, NEW st0, NEW E, NEW entry, NEW fits, NEW st, Place(P, st0, E, entry),
           Inside(P, st0, E, entry, fits, st), st.ok = TRUE,
           st.used = BufMax, fits => st.out < st.size,
           NEW r, r = rotate_fragment_buffer(st)
    PROVE  /\ Inside(P, st0, E, entry, fits, r) /\ r.out = st.out
           /\ r.ok = FALSE \/ (r.ok = TRUE /\ r.used = BufHdr)
<1>1. Layout(P, st) /\ st \in WState /\ st.buf \in Buf
    BY DEF Inside, Layout, Stuck
<1>2. /\ r.frags = Append(st.frags, Full(st))
      /\ r.rec = st.rec /\ r.dropped = st.dropped /\ r.size = st.size /\ r.out = st.out
    BY <1>1, RotateFields
<1>3. Kept(st0, r) /\ Len(r.frags) # Len(st0.frags)
  <2>1. PICK full : full = Full(st)
      OBVIOUS
  <2>2. full \in Buf /\ full.runs = st.buf.runs /\ full.mu_buf_seq = st.buf.mu_buf_seq
      BY <1>1, <2>1, FullFields
  <2>3. st0 \in WState /\ st0.buf \in Buf /\ Kept(st0, st)
      BY DEF Place, Inside
  <2>4. r.frags = Append(st.frags, full)
      BY <1>2, <2>1
  <2> QED BY ONLY <1>1, <1>2, <2>2, <2>3, <2>4, KeptPark
<1>4. (Layout(P, r) /\ r.used = BufHdr) \/ Stuck(P, r)
  <2>1. P \in Seq(Buf)
      BY DEF Place
  <2> QED BY <1>1, <2>1, RotateLayout
<1>5. ASSUME fits, r.ok = TRUE
      PROVE  Reading(P, r, Append(E, entry), r.size - r.out, r.out)
  <2>1. PICK left : left = st.size - st.out
      OBVIOUS
  <2>2. left \in Int /\ left > 0
      BY <1>1, <1>5, <2>1 DEF WState
  <2>3. Reading(P, st, Append(E, entry), left, st.out)
      BY <1>5, <2>1 DEF Inside
  <2>4. P \in Seq(Buf)
      BY DEF Place
  <2>5. Reading(P, r, Append(E, entry), left, st.out)
      BY <1>1, <1>5, <2>2, <2>3, <2>4, RotateReads
  <2> QED BY <1>2, <2>1, <2>5
<1>6. r.rec = entry.rec /\ r.size = entry.mu_size /\ r.out # 0
    BY <1>2 DEF Inside
<1>7. Inside(P, st0, E, entry, fits, r)
    BY <1>3, <1>4, <1>5, <1>6 DEF Inside
<1> QED BY <1>2, <1>4, <1>7 DEF Layout, Stuck

\* The smaller of two numbers.
LEMMA MinOfTwo == \A a, b \in Int : Min({a, b}) = IF a <= b THEN a ELSE b
<1> SUFFICES ASSUME NEW a \in Int, NEW b \in Int
             PROVE  Min({a, b}) = IF a <= b THEN a ELSE b
    OBVIOUS
<1>1. PICK m : m = IF a <= b THEN a ELSE b
    OBVIOUS
<1>2. m \in {a, b} /\ \A y \in {a, b} : m <= y
    BY <1>1
<1>3. Min({a, b}) \in {a, b} /\ \A y \in {a, b} : Min({a, b}) <= y
    BY <1>2 DEF Min
<1> QED BY <1>1, <1>2, <1>3

\* How far the copying has come: it failed, is done, or has filled its buffer behind x.
Reached(st, goal, x) ==
    st.ok = FALSE \/ st.out = goal \/ (st.used = BufMax /\ st.out >= x)

\* One turn of the loop.
LEMMA CopyStepWithin ==
    ASSUME NEW P, NEW st0, NEW E, NEW entry, NEW fits, NEW st, Place(P, st0, E, entry),
           Within(P, st0, E, entry, fits, st), NEW goal \in Nat, st.ok = TRUE => st.out <= goal,
           fits => goal <= entry.mu_size, NEW c, c = CopyStep(st, goal)
    PROVE  /\ Within(P, st0, E, entry, fits, c)
           /\ c.ok = TRUE => c.out <= goal
           /\ Reached(c, goal, st.out)
           /\ \A x \in Int : Reached(st, goal, x) => Reached(c, goal, x + (BufMax - BufHdr))
<1>0. /\ st \in WState /\ (st.ok = TRUE \/ st.ok = FALSE) /\ st.size = entry.mu_size
      /\ st.out \in Nat /\ st.used \in Nat /\ BufMax \in Nat /\ 16 < BufMax
  <2>1. BufMax \in Nat /\ 16 < BufMax
      BY RecordsAssumption DEF BufHdr, LogHdr, MinSpace
  <2>2. st \in WState /\ (st.ok = TRUE \/ st.ok = FALSE) /\ st.size = entry.mu_size
      BY DEF Within, Inside, Layout, Stuck
  <2>3. st.out \in Nat /\ st.used \in Nat
      BY ONLY <2>2 DEF WState
  <2> QED BY <2>1, <2>2, <2>3
<1>1. CASE st.ok = FALSE \/ st.out = goal
  <2>1. c = st
      BY <1>1 DEF CopyStep
  <2> QED BY <1>1, <2>1 DEF Reached
<1>2. CASE st.ok = TRUE /\ st.out # goal
  <2>1. st.out < goal
      BY <1>0, <1>2
  <2>2. PICK r : r = IF st.used = BufMax THEN rotate_fragment_buffer(st) ELSE st
      OBVIOUS
  <2>3. /\ Inside(P, st0, E, entry, fits, r) /\ r.out = st.out
        /\ r.ok = FALSE \/ (r.ok = TRUE /\ r.used < BufMax)
        /\ st.used = BufMax /\ r.ok = TRUE => r.used = 16
    <3>1. CASE st.used = BufMax
      <4>1. r = rotate_fragment_buffer(st)
          BY <2>2, <3>1
      <4>2. fits => st.out < st.size
          BY <1>0, <2>1, goal \in Nat, entry \in Entry DEF Place, Entry
      <4>3. /\ Inside(P, st0, E, entry, fits, r) /\ r.out = st.out
            /\ r.ok = FALSE \/ (r.ok = TRUE /\ r.used = BufHdr)
          BY <1>2, <3>1, <4>1, <4>2, WithinRotate DEF Within
      <4> QED BY <1>0, <4>3 DEF BufHdr
    <3>2. CASE st.used # BufMax
      <4>1. r = st
          BY <2>2, <3>2
      <4>2. st.used <= BufMax
          BY <1>2 DEF Within, Inside, Layout, Stuck
      <4> QED BY <1>0, <1>2, <3>2, <4>1, <4>2 DEF Within
    <3> QED BY <3>1, <3>2
  <2>4. c = IF ~r.ok THEN r ELSE Put(r, Min({goal - r.out, BufMax - r.used}))
      BY <1>2, <2>2 DEF CopyStep
  <2>5. CASE r.ok = FALSE
    <3>1. c = r
        BY <2>4, <2>5
    <3>2. Within(P, st0, E, entry, fits, c)
        BY <2>3, <2>5, <3>1 DEF Within
    <3> QED BY <2>5, <3>1, <3>2 DEF Reached
  <2>6. CASE r.ok = TRUE
    <3>0. r \in WState /\ r.used \in Nat /\ r.out \in Nat /\ r.buf \in Buf
        BY <2>3, <2>6 DEF Within, Inside, Layout, Stuck, WState
    <3>1. PICK n : n = Min({goal - r.out, BufMax - r.used})
        OBVIOUS
    <3>2. goal - r.out \in Int /\ BufMax - r.used \in Int
        BY <1>0, <3>0
    <3>3. n = IF goal - r.out <= BufMax - r.used THEN goal - r.out ELSE BufMax - r.used
        BY <3>1, <3>2, MinOfTwo
    <3>4. n \in Nat /\ r.used + n <= BufMax /\ r.out + n <= goal
        BY <1>0, <2>1, <2>3, <2>6, <3>0, <3>3
    <3>12. n # 0
        BY <1>0, <2>1, <2>3, <2>6, <3>0, <3>3
    <3>5. c = Put(r, n)
        BY <2>4, <2>6, <3>1
    <3>6. fits => r.out + n <= r.size
      <4>1. r.size = entry.mu_size /\ entry.mu_size \in Nat
          BY <2>3 DEF Within, Inside, Place, Entry
      <4> QED BY <3>0, <3>4, <4>1
    <3>7. Within(P, st0, E, entry, fits, c)
        BY <2>3, <2>6, <3>4, <3>5, <3>6, <3>12, WithinPut
    <3>8. c.ok = TRUE /\ c.used = r.used + n /\ c.out = r.out + n
      <4>1. r \in WState /\ r.buf \in Buf /\ n \in Nat /\ r.ok = TRUE
          BY <2>6, <3>0, <3>4
      <4>2. PutResult(r, n, c)
          BY ONLY <3>5, <4>1, PutFields
      <4> QED BY <4>1, <4>2 DEF PutResult
    <3>9. c.out = goal \/ (c.used = BufMax /\ c.out = st.out + (BufMax - r.used))
        BY <1>0, <2>3, <3>0, <3>3, <3>8
    <3>10. Reached(c, goal, st.out)
        BY <1>0, <2>3, <2>6, <3>0, <3>9 DEF Reached
    <3>11. ASSUME NEW x \in Int, Reached(st, goal, x)
           PROVE  Reached(c, goal, x + (BufMax - BufHdr))
      <4>1. st.used = BufMax /\ st.out >= x
          BY <1>2, <3>11 DEF Reached
      <4>2. r.used = 16
          BY <2>3, <2>6, <4>1
      <4> QED BY <1>0, <3>9, <4>1, <4>2 DEF Reached, BufHdr
    <3> QED BY <3>4, <3>7, <3>8, <3>10, <3>11
  <2> QED BY <2>3, <2>5, <2>6
<1> QED BY <1>0, <1>1, <1>2

\* Products and quotients of the number of turns.
LEMMA TimesNext == \A k, d \in Int : (k + 1) * d = k * d + d /\ k * d \in Int /\ 0 * d = 0
    OBVIOUS

\* One chunk more than the whole chunks of a length is longer than the length.
LEMMA QuotientBound ==
    ASSUME NEW len \in Nat, NEW d \in Nat, d # 0
    PROVE  len \div d \in Nat /\ len < (len \div d + 1) * d
<1>1. PICK q \in Int : q = len \div d
    OBVIOUS
<1>2. len = (d * q) + (len % d) /\ (len % d) \in 0 .. d - 1
    BY <1>1
<1>3. q \in Nat
    BY <1>1
<1>4. (q + 1) * d = d * q + d /\ d * q \in Int
    OBVIOUS
<1> QED BY <1>1, <1>2, <1>3, <1>4

CopyFold == INSTANCE FoldTheorems WITH FoldStep <- CopyStep

\* The copying turn by turn.
Turns(h, st, seq, n) == h[0] = st /\ \A k \in 1 .. n : h[k] = CopyStep(h[k - 1], seq[k])

\* The copy of a piece is the last of its turns, each the CopyStep of the one before.
LEMMA CopyTurns ==
    ASSUME NEW st, NEW seq, NEW n \in Nat, DOMAIN seq = 1 .. n
    PROVE  \E h : Turns(h, st, seq, n) /\ FoldLeft(CopyStep, st, seq) = h[n]
<1>1. PICK h : CopyFold!Steps(h, st, seq, n) /\ CopyFold!FoldLeft(CopyStep, st, seq) = h[n]
    BY CopyFold!FoldLeftSteps
<1>2. Turns(h, st, seq, n)
    BY <1>1 DEF CopyFold!Steps, Turns
<1>3. FoldLeft(CopyStep, st, seq) = h[n]
    BY <1>1 DEF FoldLeft, CopyFold!FoldLeft, MapThenFoldSet, CopyFold!MapThenFoldSet,
                Max, CopyFold!Max
<1> QED BY <1>2, <1>3

\* The bytes stay inside the record, and are all out unless a buffer was refused.
InRecord(fits, st, len, entry) == fits => st.out + len <= entry.mu_size

AllOut(st, len, c) == c.ok = TRUE => c.out = st.out + len

\* The turns are enough: what was not refused a buffer is out.
LEMMA CopyWithin ==
    ASSUME NEW P, NEW st0, NEW E, NEW entry, NEW fits, NEW st, Place(P, st0, E, entry),
           Within(P, st0, E, entry, fits, st), st.ok = TRUE, NEW len \in Nat,
           InRecord(fits, st, len, entry), NEW c, c = copy_fragmented(st, len)
    PROVE  Within(P, st0, E, entry, fits, c) /\ AllOut(st, len, c)
<1> SUFFICES ASSUME fits => st.out + len <= entry.mu_size
             PROVE  /\ Within(P, st0, E, entry, fits, c)
                    /\ c.ok = TRUE => c.out = st.out + len
    BY DEF InRecord, AllOut
<1>1. PICK d : d = BufMax - BufHdr
    OBVIOUS
<1>2. d \in Nat /\ d # 0
    BY <1>1, RecordsAssumption DEF BufHdr, LogHdr, MinSpace
<1>3. st.out \in Nat
    BY DEF Within, Inside, Layout, Stuck, WState
<1>4. PICK goal \in Nat : goal = st.out + len
    BY <1>3
<1>5. PICK n : n = len \div d + 2
    OBVIOUS
<1>6. n \in Nat /\ n # 0 /\ len < (n - 1) * d
  <2>1. len \div d \in Nat /\ len < (len \div d + 1) * d
      BY <1>2, QuotientBound
  <2>2. n - 1 = len \div d + 1
      BY <1>5, <2>1
  <2> QED BY <1>5, <2>1, <2>2
<1>7. PICK seq : seq = [i \in 1 .. n |-> goal]
    OBVIOUS
<1>8. DOMAIN seq = 1 .. n /\ \A k \in 1 .. n : seq[k] = goal
    BY <1>7
<1>9. c = FoldLeft(CopyStep, st, seq)
    BY <1>1, <1>4, <1>5, <1>7 DEF copy_fragmented
<1>19. PICK h : Turns(h, st, seq, n) /\ FoldLeft(CopyStep, st, seq) = h[n]
  <2>1. n \in Nat /\ DOMAIN seq = 1 .. n
      BY <1>6, <1>8
  <2> QED BY ONLY <2>1, CopyTurns
<1>10. h[0] = st /\ \A k \in 1 .. n : h[k] = CopyStep(h[k - 1], seq[k])
    BY <1>19 DEF Turns
<1> DEFINE Good(k) == /\ Within(P, st0, E, entry, fits, h[k])
                      /\ h[k].ok = TRUE => h[k].out <= goal
                      /\ k # 0 => Reached(h[k], goal, st.out + (k - 1) * d)
           T == {k \in Nat : k <= n => Good(k)}
<1>11. 0 \in T
    BY <1>3, <1>4, <1>10
<1> HIDE DEF Good
<1>12. ASSUME NEW k \in Nat, k \in T PROVE k + 1 \in T
  <2> SUFFICES ASSUME k + 1 <= n PROVE Good(k + 1)
      OBVIOUS
  <2>9. Good(k)
      BY <1>6, <1>12
  <2>1. /\ Within(P, st0, E, entry, fits, h[k])
        /\ h[k].ok = TRUE => h[k].out <= goal
        /\ k # 0 => Reached(h[k], goal, st.out + (k - 1) * d)
      BY ONLY <2>9 DEF Good
  <2>2. PICK s : s = h[k]
      OBVIOUS
  <2>3. PICK u : u = h[k + 1]
      OBVIOUS
  <2>4. u = CopyStep(s, goal)
    <3>1. k + 1 \in 1 .. n /\ (k + 1) - 1 = k
        BY <1>6
    <3> QED BY <1>8, <1>10, <2>2, <2>3, <3>1
  <2>5. Within(P, st0, E, entry, fits, s) /\ (s.ok = TRUE => s.out <= goal)
      BY <2>1, <2>2
  <2>6. fits => goal <= entry.mu_size
      BY <1>4
  <2>7. /\ Within(P, st0, E, entry, fits, u)
        /\ u.ok = TRUE => u.out <= goal
        /\ Reached(u, goal, s.out)
        /\ \A x \in Int : Reached(s, goal, x) => Reached(u, goal, x + (BufMax - BufHdr))
      BY ONLY <2>4, <2>5, <2>6, Place(P, st0, E, entry), goal \in Nat, CopyStepWithin
  <2>8. Reached(u, goal, st.out + ((k + 1) - 1) * d)
    <3>1. CASE k = 0
      <4>1. ((k + 1) - 1) * d = 0 /\ s = st
          BY <1>2, <1>10, <2>2, <3>1, TimesNext
      <4> QED BY <1>3, <2>7, <4>1
    <3>2. CASE k # 0
      <4>1. PICK x : x = st.out + (k - 1) * d
          OBVIOUS
      <4>2. k - 1 \in Int /\ d \in Int
          BY <1>2
      <4>3. ((k - 1) + 1) * d = (k - 1) * d + d /\ (k - 1) * d \in Int
          BY ONLY <4>2, TimesNext
      <4>4. x \in Int /\ x + d = st.out + ((k + 1) - 1) * d
        <5>1. (k + 1) - 1 = (k - 1) + 1
            OBVIOUS
        <5> QED BY ONLY <1>2, <1>3, <4>1, <4>3, <5>1
      <4>5. Reached(s, goal, x)
          BY <2>1, <2>2, <3>2, <4>1
      <4> QED BY <1>1, <2>7, <4>4, <4>5
    <3> QED BY <3>1, <3>2
  <2> QED BY <2>3, <2>7, <2>8 DEF Good
<1>13. Nat \subseteq T
    BY <1>11, <1>12, NatSetInduction, Zenon
<1>14. Good(n)
    BY <1>6, <1>13
<1>15. c = h[n]
    BY <1>9, <1>19
<1>16. /\ Within(P, st0, E, entry, fits, c) /\ (c.ok = TRUE => c.out <= goal)
       /\ Reached(c, goal, st.out + (n - 1) * d)
    BY <1>6, <1>14, <1>15 DEF Good
<1>17. c.out \in Nat
    BY <1>16 DEF Within, Inside, Layout, Stuck, WState
<1>18. ASSUME c.ok = TRUE PROVE c.out = goal
  <2>1. (n - 1) * d \in Int
      BY <1>2, <1>6
  <2>2. ~ (c.out >= st.out + (n - 1) * d)
      BY <1>3, <1>4, <1>6, <1>16, <1>17, <1>18, <2>1
  <2> QED BY <1>16, <1>18, <2>2 DEF Reached
<1> QED BY <1>4, <1>16, <1>18

\* A piece of the record.
Room(fits, st, len, entry) == fits /\ st.ok = TRUE => st.out + len <= entry.mu_size

Written(st, len, c) == c.ok = TRUE => st.ok = TRUE /\ c.out = st.out + len

\* A whole piece is written inside its record, over as many buffers as it needs.
LEMMA PieceWithin ==
    ASSUME NEW P, NEW st0, NEW E, NEW entry, NEW fits, NEW st, Place(P, st0, E, entry),
           Within(P, st0, E, entry, fits, st), NEW len \in Nat,
           Room(fits, st, len, entry), NEW c, c = WritePiece(st, len)
    PROVE  Within(P, st0, E, entry, fits, c) /\ Written(st, len, c)
<1>0. /\ st \in WState /\ (st.ok = TRUE \/ st.ok = FALSE) /\ st.size = entry.mu_size
      /\ st.out \in Nat /\ st.used \in Nat /\ BufMax \in Nat
    BY RecordsAssumption DEF Within, Inside, Layout, Stuck, WState
<1>1. CASE st.ok = FALSE \/ len = 0
  <2>1. c = st
      BY <1>1 DEF WritePiece
  <2> QED BY <1>0, <1>1, <2>1 DEF Written
<1>2. CASE st.ok = TRUE /\ len # 0 /\ st.used + len <= BufMax
  <2>1. c = Put(st, len)
      BY <1>2 DEF WritePiece
  <2>2. Within(P, st0, E, entry, fits, c)
    <3>1. Inside(P, st0, E, entry, fits, st) /\ st.ok = TRUE
        BY <1>2 DEF Within
    <3>2. fits => st.out + len <= st.size
        BY <1>0, <1>2 DEF Room
    <3> QED BY <1>2, <2>1, <3>1, <3>2, WithinPut
  <2>3. st.buf \in Buf
      BY <1>2 DEF Within, Inside, Layout, Stuck
  <2>4. PutResult(st, len, c)
      BY ONLY <1>0, <2>1, <2>3, len \in Nat, PutFields
  <2>5. c.out = st.out + len
      BY ONLY <2>4 DEF PutResult
  <2> QED BY <1>2, <2>2, <2>5 DEF Written
<1>3. CASE st.ok = TRUE /\ len # 0 /\ ~ (st.used + len <= BufMax)
  <2>1. c = copy_fragmented(st, len)
      BY <1>3 DEF WritePiece
  <2>2. InRecord(fits, st, len, entry)
      BY <1>3 DEF Room, InRecord
  <2>3. Within(P, st0, E, entry, fits, c) /\ AllOut(st, len, c)
      BY ONLY <1>3, <2>1, <2>2, Place(P, st0, E, entry), Within(P, st0, E, entry, fits, st),
              len \in Nat, CopyWithin
  <2> QED BY <1>3, <2>3 DEF Written, AllOut
<1> QED BY <1>0, <1>1, <1>2, <1>3

PieceFold == INSTANCE FoldTheorems WITH FoldStep <- WritePiece

\* The pieces one by one.
Pieces(h, st, seq, n) == h[0] = st /\ \A k \in 1 .. n : h[k] = WritePiece(h[k - 1], seq[k])

\* The pieces of a record are the last of their turns, each a WritePiece of the one before.
LEMMA PieceTurns ==
    ASSUME NEW st, NEW seq, NEW n \in Nat, DOMAIN seq = 1 .. n
    PROVE  \E h : Pieces(h, st, seq, n) /\ FoldLeft(WritePiece, st, seq) = h[n]
<1>1. PICK h : PieceFold!Steps(h, st, seq, n) /\ PieceFold!FoldLeft(WritePiece, st, seq) = h[n]
    BY PieceFold!FoldLeftSteps
<1>2. Pieces(h, st, seq, n)
    BY <1>1 DEF PieceFold!Steps, Pieces
<1>3. FoldLeft(WritePiece, st, seq) = h[n]
    BY <1>1 DEF FoldLeft, PieceFold!FoldLeft, MapThenFoldSet, PieceFold!MapThenFoldSet,
                Max, PieceFold!Max
<1> QED BY <1>2, <1>3

\* All of them.
LEMMA PiecesWithin ==
    ASSUME NEW P, NEW st0, NEW E, NEW entry, NEW fits, NEW st, Place(P, st0, E, entry),
           Within(P, st0, E, entry, fits, st), NEW pieces \in Seq(Nat),
           InRecord(fits, st, SumFunction(pieces), entry), NEW c, c = FoldLeft(WritePiece, st, pieces)
    PROVE  Within(P, st0, E, entry, fits, c) /\ AllOut(st, SumFunction(pieces), c)
<1> SUFFICES ASSUME fits => st.out + SumFunction(pieces) <= entry.mu_size
             PROVE  /\ Within(P, st0, E, entry, fits, c)
                    /\ c.ok = TRUE => c.out = st.out + SumFunction(pieces)
    BY DEF InRecord, AllOut
<1>1. PICK n \in Nat : n = Len(pieces)
    OBVIOUS
<1>2. DOMAIN pieces = 1 .. n /\ \A k \in 1 .. n : pieces[k] \in Nat
    BY <1>1
<1>3. PICK h : Pieces(h, st, pieces, n) /\ FoldLeft(WritePiece, st, pieces) = h[n]
    BY ONLY <1>2, n \in Nat, PieceTurns
<1>4. h[0] = st /\ \A k \in 1 .. n : h[k] = WritePiece(h[k - 1], pieces[k])
    BY <1>3 DEF Pieces
<1>5. st.out \in Nat /\ st.ok \in BOOLEAN
    BY DEF Within, Inside, Layout, Stuck, WState
<1> DEFINE Good(k) == /\ Within(P, st0, E, entry, fits, h[k])
                      /\ h[k].ok = TRUE => h[k].out = st.out + UpToSum(pieces, k)
           T == {k \in Nat : k <= n => Good(k)}
<1>6. 0 \in T
    BY <1>4, <1>5, UpToSumEnds
<1> HIDE DEF Good
<1>7. ASSUME NEW k \in Nat, k \in T PROVE k + 1 \in T
  <2> SUFFICES ASSUME k + 1 <= n PROVE Good(k + 1)
      OBVIOUS
  <2>1. Good(k)
      BY <1>7
  <2>2. Within(P, st0, E, entry, fits, h[k]) /\ (h[k].ok = TRUE => h[k].out = st.out + UpToSum(pieces, k))
      BY ONLY <2>1 DEF Good
  <2>3. PICK s : s = h[k]
      OBVIOUS
  <2>4. PICK u : u = h[k + 1]
      OBVIOUS
  <2>5. PICK len : len = pieces[k + 1]
      OBVIOUS
  <2>6. k + 1 \in 1 .. n /\ (k + 1) - 1 = k /\ k < Len(pieces) /\ k + 1 \in 0 .. Len(pieces)
      BY <1>1
  <2>7. len \in Nat /\ u = WritePiece(s, len)
      BY <1>2, <1>4, <2>3, <2>4, <2>5, <2>6
  <2>8. /\ UpToSum(pieces, k) \in Nat /\ UpToSum(pieces, k + 1) = UpToSum(pieces, k) + len
        /\ UpToSum(pieces, k + 1) <= SumFunction(pieces)
    <3>1. UpToSum(pieces, k) \in Nat /\ UpToSum(pieces, k + 1) = UpToSum(pieces, k) + len
        BY <2>5, <2>6, UpToSumNext
    <3>2. UpToSum(pieces, k + 1) <= SumFunction(pieces)
        BY <2>6, UpToSumMax
    <3> QED BY <3>1, <3>2
  <2>9. fits /\ s.ok = TRUE => s.out + len <= entry.mu_size
    <3>1. SumFunction(pieces) \in Nat /\ entry.mu_size \in Nat
        BY UpToSumNat DEF Place, Entry
    <3> QED BY <1>5, <2>2, <2>3, <2>7, <2>8, <3>1
  <2>10. /\ Within(P, st0, E, entry, fits, u)
         /\ u.ok = TRUE => s.ok = TRUE /\ u.out = s.out + len
    <3>1. Within(P, st0, E, entry, fits, s)
        BY <2>2, <2>3
    <3>2. Room(fits, s, len, entry)
        BY ONLY <2>9 DEF Room
    <3>3. len \in Nat
        BY ONLY <2>7
    <3>4. u = WritePiece(s, len)
        BY ONLY <2>7
    <3>5. Within(P, st0, E, entry, fits, u) /\ Written(s, len, u)
        BY ONLY <3>1, <3>2, <3>3, <3>4, Place(P, st0, E, entry), PieceWithin
    <3> QED BY ONLY <3>5 DEF Written
  <2>11. u.ok = TRUE => u.out = st.out + UpToSum(pieces, k + 1)
      BY <1>5, <2>2, <2>3, <2>7, <2>8, <2>10
  <2> QED BY <2>4, <2>10, <2>11 DEF Good
<1>8. Nat \subseteq T
    BY <1>6, <1>7, NatSetInduction, Zenon
<1>9. Good(n)
    BY <1>8
<1>10. c = h[n]
    BY <1>3
<1> QED BY <1>1, <1>9, <1>10, UpToSumEnds DEF Good

\* A writer that can begin a record: what precedes is read without a rest, and its buffer is
\* either new or of the size it says.
Ready(P, st, E, fits) ==
    /\ Layout(P, st) /\ st.out = 0 /\ E \in Seq(Entry)
    /\ IF st.used = BufHdr THEN st.buf.runs = <<>> ELSE st.buf.mu_size = st.used
    /\ fits => \E from : Reading(P, st, E, 0, from)

\* The header begins the record.
WithSize(st, size) == [st EXCEPT !.size = size]

\* The header of a record of the given entry, put at once where the thread stands.
Header(P, st0, E, entry, fits, n, s, u) ==
    /\ P \in Seq(Buf) /\ Ready(P, st0, E, fits) /\ n \in Nat /\ n # 0 /\ st0.used + n <= BufMax
    /\ entry \in Entry /\ entry.rec = st0.rec
    /\ s = WithSize(st0, entry.mu_size) /\ u = Put(s, n)

Headed(P, st0, E, entry, fits, n, u) ==
    /\ Place(P, st0, E, entry) /\ Within(P, st0, E, entry, fits, u)
    /\ u.out = n /\ u.ok = TRUE

\* After its header the writer is inside the record, HdrOf bytes into it.
LEMMA HeaderWithin ==
    ASSUME NEW P, NEW st0, NEW E, NEW fits, NEW n, NEW entry, NEW s, NEW u,
           Header(P, st0, E, entry, fits, n, s, u)
    PROVE  Headed(P, st0, E, entry, fits, n, u)
<1> SUFFICES ASSUME P \in Seq(Buf), Ready(P, st0, E, fits), NEW size \in Nat, n \in Nat, n # 0,
                    st0.used + n <= BufMax, entry \in Entry, entry.rec = st0.rec,
                    entry.mu_size = size, s = WithSize(st0, size), u = Put(s, n)
             PROVE  Headed(P, st0, E, entry, fits, n, u)
    BY DEF Header, Entry
<1>1. st0 \in WState /\ st0.buf \in Buf /\ st0.ok = TRUE /\ Layout(P, st0) /\ st0.out = 0
    BY DEF Ready, Layout
<1>2. s = [st0 EXCEPT !.size = size]
    BY DEF WithSize
<1>3. /\ s \in WState /\ s.frags = st0.frags /\ s.buf = st0.buf /\ s.used = st0.used
      /\ s.seq = st0.seq /\ s.dropped = st0.dropped /\ s.rec = st0.rec /\ s.out = st0.out
      /\ s.ok = st0.ok /\ s.size = size
    BY ONLY <1>1, <1>2, size \in Nat DEF WState
<1>4. Layout(P, s)
    BY <1>1, <1>3 DEF Layout
<1>5. Kept(st0, s)
  <2>1. Kept(st0, st0)
      BY <1>1, KeptAtFirst
  <2> QED BY <1>3, <2>1 DEF Kept
<1>6. u = Put(s, n)
    BY <1>2
<1>7. PutResult(s, n, u)
    BY <1>1, <1>3, <1>6, PutFields
<1>8. Kept(st0, u)
  <2>1. s \in WState /\ s.buf \in Buf
      BY <1>1, <1>3
  <2> QED BY ONLY <1>1, <1>5, <1>6, <2>1, n \in Nat, KeptPut
<1>9. Layout(P, u)
    BY <1>3, <1>4, <1>6, PutLayout
<1>10. u.out = n /\ u.ok = TRUE /\ u.rec = entry.rec /\ u.size = entry.mu_size
    BY <1>1, <1>3, <1>7 DEF PutResult
<1>11. ASSUME fits PROVE Reading(P, u, Append(E, entry), u.size - u.out, u.out)
  <2>1. PICK from : Reading(P, st0, E, 0, from)
      BY <1>11 DEF Ready
  <2>2. Reading(P, s, E, 0, from)
      BY <1>3, <2>1 DEF Reading
  <2>3. s.out = 0
      BY <1>1, <1>3
  <2>4. Reading(P, Put(s, n), Append(E, [rec |-> s.rec, mu_size |-> s.size]), s.size - n, n)
      BY ONLY <1>4, <2>2, <2>3, n \in Nat, PutHeader
  <2>5. entry = [rec |-> s.rec, mu_size |-> s.size] /\ u.size = s.size
    <3>1. u.size = s.size
        BY <1>7 DEF PutResult
    <3>2. entry = [rec |-> entry.rec, mu_size |-> entry.mu_size]
        BY DEF Entry
    <3> QED BY <1>3, <3>1, <3>2
  <2> QED BY <1>6, <1>10, <2>4, <2>5
<1>12. Place(P, st0, E, entry)
    BY <1>1 DEF Place, Ready, Entry, WState
<1>14. BufHdr < u.used
  <2>1. u.used = s.used + n /\ s.used \in Nat /\ 16 <= s.used
      BY <1>3, <1>4, <1>7 DEF PutResult, Layout, WState, BufHdr
  <2> QED BY <2>1 DEF BufHdr
<1>13. Within(P, st0, E, entry, fits, u)
    BY <1>8, <1>9, <1>10, <1>11, <1>14 DEF Within, Inside
<1> QED BY <1>10, <1>12, <1>13 DEF Headed

-------------------------------------------------------------------------------
(*****************************************************************************)
(* A writer between two records: behind the buffers P, it has the parked     *)
(* ones and, where it has a current one, that is of the size it says.        *)
(*****************************************************************************)
Current(P, st) ==
    /\ st.buf \in Buf /\ st.buf.fragment = FALSE
    /\ st.buf.mu_buf_seq = Len(P) + Len(st.frags)
    /\ st.seq = Len(P) + Len(st.frags) + 1
    /\ st.used = EndOf(st.buf.runs, Len(st.buf.runs)) /\ st.buf.mu_size = st.used
    /\ BufHdr < st.used /\ st.used <= BufMax /\ st.used % 8 = 0
    /\ AlignedRuns(st.buf.runs)

Settled(P, E, fits, st) ==
    /\ P \in Seq(Buf) /\ st.frags \in Seq(Buf) /\ AlignedBufs(st.frags)
    /\ st.used \in Nat /\ st.seq \in Nat
    /\ \/ /\ st.buf = NoBuf /\ st.used = 0 /\ st.seq = Len(P) + Len(st.frags)
          /\ fits => \E from : After(P \o st.frags) = Found(E, 0, from, st.seq)
       \/ /\ Current(P, st)
          /\ fits => \E from : Reading(P, st, E, 0, from)

\* The absent buffer is no buffer.
LEMMA BufNotNoBuf == NoBuf \notin Buf
<1> SUFFICES ASSUME NoBuf \in Buf PROVE FALSE
    OBVIOUS
<1>1. DOMAIN NoBuf = {"fragment", "mu_size", "mu_buf_seq", "runs"}
    BY DEF Buf
<1>2. DOMAIN NoBuf = {}
    BY DEF NoBuf
<1> QED BY <1>1, <1>2

\* The pad never needs another buffer.
LEMMA PadFits ==
    ASSUME NEW used \in Nat, NEW out \in Nat, NEW pad \in 0 .. 7, NEW max \in Nat,
           max % 8 = 0, (used - out) % 8 = 0, (out + pad) % 8 = 0, used <= max
    PROVE  used + pad <= max /\ (used + pad) % 8 = 0
<1>1. PICK b \in Int : max = 8 * b
    BY Mod8
<1>2. PICK p \in Int : used - out = 8 * p
    BY Mod8
<1>3. PICK q \in Int : out + pad = 8 * q
    BY Mod8
<1>4. used + pad = 8 * (p + q) /\ p + q \in Int
    BY <1>2, <1>3
<1>5. p + q < b + 1
    BY <1>1, <1>4
<1> QED BY <1>1, <1>4, <1>5, Mod8

\* What a record leaves of the writer.
AfterRecord(P, E, fits, st0, d, ok) ==
    /\ Settled(P, E, fits, d) /\ d.free \in Int /\ d.rec = st0.rec /\ d.ok = ok
    /\ d.dropped = st0.dropped + (IF ok THEN 0 ELSE 1)

\* The record is padded, and the buffer knows its size; when there is no room for a log
\* the buffer is parked.
LEMMA CompleteSettled ==
    ASSUME NEW P, NEW st0, NEW E, NEW entry, NEW fits, NEW st, Place(P, st0, E, entry),
           Within(P, st0, E, entry, fits, st), st.ok = TRUE, NEW c,
           NEW pad, pad = RecordOf[c].pad, pad \in 0 .. 7, (st.out + pad) % 8 = 0,
           fits => st.out + pad = entry.mu_size, NEW d, d = Complete(st, c)
    PROVE  AfterRecord(P, Append(E, entry), fits, st0, d, TRUE)
<1>1. /\ Inside(P, st0, E, entry, fits, st) /\ Layout(P, st) /\ BufHdr < st.used
      /\ st \in WState /\ st.buf \in Buf
    BY DEF Within, Inside, Layout, Stuck
<1>2. /\ st.used \in Nat /\ st.out \in Nat /\ BufMax \in Nat /\ BufMax % 8 = 0
      /\ st.used <= BufMax /\ (st.used - st.out) % 8 = 0 /\ st.size = entry.mu_size
    BY <1>1, RecordsAssumption DEF Layout, WState, Inside
<1>3. st.used + pad <= BufMax /\ (st.used + pad) % 8 = 0
    BY <1>2, PadFits
<1>4. PICK u : u = Put(st, pad)
    OBVIOUS
<1>5. Within(P, st0, E, entry, fits, u)
  <2>1. pad \in Nat
      OBVIOUS
  <2>2. fits => st.out + pad <= st.size
      BY <1>2
  <2> QED BY <1>1, <1>3, <1>4, <2>1, <2>2, WithinPut
<1>6. PutResult(st, pad, u)
  <2>1. pad \in Nat
      OBVIOUS
  <2> QED BY ONLY <1>1, <1>4, <2>1, PutFields
<1>7. /\ u \in WState /\ u.buf \in Buf /\ u.used = st.used + pad /\ u.out = st.out + pad
      /\ u.ok = TRUE /\ u.size = st.size
    BY <1>6 DEF PutResult
<1>8. /\ Layout(P, u) /\ BufHdr < u.used /\ Kept(st0, u)
      /\ fits => Reading(P, u, Append(E, entry), u.size - u.out, u.out)
    BY <1>5, <1>7 DEF Within, Inside, Stuck
<1>9. PICK used : used = u.used
    OBVIOUS
<1>10. used \in Nat /\ used % 8 = 0 /\ used <= BufMax /\ BufHdr < used
    BY <1>2, <1>3, <1>7, <1>8, <1>9
<1>11. PICK b : b = [u.buf EXCEPT !.mu_size = used]
    OBVIOUS
<1>12. /\ b \in Buf /\ b.runs = u.buf.runs /\ b.fragment = u.buf.fragment
       /\ b.mu_buf_seq = u.buf.mu_buf_seq /\ b.mu_size = used
    BY ONLY <1>7, <1>10, <1>11 DEF Buf
<1>13. PICK done : done = [u EXCEPT !.buf = b]
    OBVIOUS
<1>14. /\ done \in WState /\ done.buf = b /\ done.frags = u.frags /\ done.used = used
       /\ done.seq = u.seq /\ done.dropped = u.dropped /\ done.free = u.free
       /\ done.rec = u.rec /\ done.ok = TRUE
    BY ONLY <1>7, <1>9, <1>12, <1>13 DEF WState
<1>15. d = IF IsLog(c) /\ BufMax - done.used < MinSpace THEN Park(done) ELSE done
  <2>1. done = [u EXCEPT !.buf.mu_size = used]
      BY <1>7, <1>11, <1>13 DEF WState
  <2> QED BY <1>4, <1>9, <2>1 DEF Complete
<1>16. done.frags \in Seq(Buf) /\ done.seq \in Nat /\ done.free \in Int
    BY <1>14 DEF WState
<1>17. P \in Seq(Buf) /\ done.rec = st0.rec /\ done.dropped = st0.dropped
    BY <1>8, <1>14 DEF Place, Kept
<1>18. Current(P, done) /\ AlignedBufs(done.frags)
    BY <1>8, <1>9, <1>10, <1>12, <1>14 DEF Layout, Current
<1>19. ASSUME fits PROVE Reading(P, done, Append(E, entry), 0, u.out)
  <2>1. u.size - u.out = 0
      BY <1>2, <1>7, <1>19
  <2>2. Reading(P, u, Append(E, entry), 0, u.out)
      BY <1>8, <1>19, <2>1
  <2> QED BY <1>12, <1>14, <2>2 DEF Reading
<1>20. AfterRecord(P, Append(E, entry), fits, st0, done, TRUE)
  <2>1. Settled(P, Append(E, entry), fits, done)
      BY <1>10, <1>14, <1>16, <1>17, <1>18, <1>19 DEF Settled
  <2>2. st0.dropped + 0 = st0.dropped
      BY DEF Place, WState
  <2> QED BY <1>14, <1>16, <1>17, <2>1, <2>2 DEF AfterRecord
<1>21. ASSUME d = Park(done) PROVE AfterRecord(P, Append(E, entry), fits, st0, d, TRUE)
  <2>1. PICK frags : frags = Append(done.frags, b)
      OBVIOUS
  <2>2. frags \in Seq(Buf) /\ Len(frags) = Len(done.frags) + 1
      BY <1>12, <1>16, <2>1
  <2>3. /\ d.frags = frags /\ d.buf = NoBuf /\ d.used = 0 /\ d.seq = done.seq
        /\ d.free = done.free /\ d.rec = done.rec /\ d.ok = TRUE /\ d.dropped = done.dropped
      BY <1>14, <1>21, <2>1 DEF Park, WState
  <2>4. AlignedBufs(frags)
    <3>1. AlignedRuns(b.runs)
        BY <1>14, <1>18 DEF Current
    <3> QED BY ONLY <1>12, <1>16, <1>18, <2>1, <3>1, AlignedAppend
  <2>5. d.seq = Len(P) + Len(frags)
      BY <1>16, <1>17, <1>18, <2>2, <2>3 DEF Current
  <2>6. ASSUME fits PROVE After(P \o frags) = Found(Append(E, entry), 0, u.out, d.seq)
    <3>1. PICK n \in Nat : n = Len(P) + Len(done.frags)
        BY <1>16, <1>17
    <3>2. Parkable(P, done.frags, b, Append(E, entry), 0, u.out, n)
        BY <1>10, <1>12, <1>14, <1>18, <1>19, <2>6, <3>1 DEF Parkable, Current, Reading
    <3>3. After(P \o Append(done.frags, b)) = Found(Append(E, entry), 0, u.out, n + 1)
        BY ONLY <1>12, <1>16, <1>17, <3>2, 0 \in Int, n \in Nat, AfterPark
    <3>4. d.seq = n + 1
        BY <1>16, <1>17, <2>2, <2>5, <3>1
    <3> QED BY <2>1, <3>3, <3>4
  <2>7. Settled(P, Append(E, entry), fits, d)
    <3>1. d.frags \in Seq(Buf) /\ AlignedBufs(d.frags) /\ d.used \in Nat /\ d.seq \in Nat
        BY <1>16, <2>2, <2>3, <2>4
    <3>2. d.buf = NoBuf /\ d.used = 0 /\ d.seq = Len(P) + Len(d.frags)
        BY <2>3, <2>5
    <3>3. fits => \E from : After(P \o d.frags) = Found(Append(E, entry), 0, from, d.seq)
        BY <2>3, <2>6
    <3> QED BY ONLY <1>17, <3>1, <3>2, <3>3 DEF Settled
  <2>8. st0.dropped + 0 = st0.dropped
      BY DEF Place, WState
  <2> QED BY <1>16, <1>17, <2>3, <2>7, <2>8 DEF AfterRecord
<1> QED BY <1>15, <1>20, <1>21

\* The record is taken back: the writer is as before it, or without a buffer when that was new.
LEMMA DiscardSettled ==
    ASSUME NEW P \in Seq(Buf), NEW st0, NEW E, NEW fits, Ready(P, st0, E, fits),
           NEW st, Stuck(P, st), Kept(st0, st), Len(st.frags) # Len(st0.frags),
           NEW d, d = discard(st, st0)
    PROVE  AfterRecord(P, E, fits, st0, d, FALSE)
<1>1. /\ st0 \in WState /\ st0.buf \in Buf /\ st0.frags \in Seq(Buf) /\ st0.used \in Nat
      /\ st0.buf.runs \in Seq(Run) /\ Layout(P, st0) /\ st0.dropped \in Nat
    BY DEF Ready, Layout, WState, Buf
<1>2. /\ st \in WState /\ st.frags \in Seq(Buf) /\ st.seq = Len(P) + Len(st.frags)
      /\ st.ok = FALSE /\ st.free \in Int /\ st.seq \in Nat
    BY DEF Stuck, WState
<1>3. PICK n \in Nat : n = Len(st0.frags)
    BY <1>1
<1>4. PICK m \in Nat : m = Len(st.frags)
    BY <1>2
<1>5. PICK k \in Nat : k = Len(P)
    OBVIOUS
<1>6. n < m /\ SubSeq(st.frags, 1, n) = st0.frags /\ Begins(st.frags[n + 1], st0.buf)
      /\ st.rec = st0.rec /\ st.dropped = st0.dropped
    BY <1>3, <1>4 DEF Kept
<1>7. PICK old : old = st.frags[n + 1]
    OBVIOUS
<1>8. /\ old \in Buf /\ old.mu_buf_seq = st0.buf.mu_buf_seq
      /\ SubSeq(old.runs, 1, Len(st0.buf.runs)) = st0.buf.runs
    BY <1>6, <1>7 DEF Begins
<1>9. PICK b : b = CutBack(old, st0.used, Len(st0.buf.runs))
    OBVIOUS
<1>10. /\ b \in Buf /\ b.runs = st0.buf.runs /\ b.fragment = FALSE
       /\ b.mu_size = st0.used /\ b.mu_buf_seq = st0.buf.mu_buf_seq
  <2>1. b = [old EXCEPT !.fragment = FALSE, !.mu_size = st0.used, !.runs = st0.buf.runs]
      BY <1>8, <1>9 DEF CutBack, Buf
  <2> QED BY ONLY <1>1, <1>8, <2>1 DEF Buf
<1>11. PICK extra \in Int : extra = m - (n + 1) + (IF st0.used = BufHdr THEN 1 ELSE 0)
    OBVIOUS
<1>12. d = [st EXCEPT !.frags = st0.frags,
                      !.buf  = IF st0.used = BufHdr THEN NoBuf ELSE b,
                      !.used = IF st0.used = BufHdr THEN 0 ELSE st0.used,
                      !.seq = @ - extra, !.free = @ + extra, !.dropped = @ + 1]
    BY <1>2, <1>3, <1>4, <1>6, <1>7, <1>9, <1>11 DEF discard, WState
<1>13. /\ d.frags = st0.frags /\ d.buf = (IF st0.used = BufHdr THEN NoBuf ELSE b)
       /\ d.used = (IF st0.used = BufHdr THEN 0 ELSE st0.used)
       /\ d.seq = st.seq - extra /\ d.free = st.free + extra /\ d.dropped = st.dropped + 1
       /\ d.rec = st.rec /\ d.ok = st.ok
    BY ONLY <1>2, <1>12 DEF WState
<1>14. d.free \in Int /\ d.rec = st0.rec /\ d.ok = FALSE /\ d.dropped = st0.dropped + 1
    BY <1>2, <1>6, <1>13
<1>15. AlignedBufs(d.frags)
    BY <1>1, <1>13 DEF Layout
<1>16. CASE st0.used = BufHdr
  <2>1. d.buf = NoBuf /\ d.used = 0 /\ d.seq = k + n /\ d.seq \in Nat
    <3>1. extra = m - n
        BY <1>11, <1>16
    <3>2. st.seq = k + m
        BY <1>2, <1>4, <1>5
    <3> QED BY <1>13, <1>16, <3>1, <3>2
  <2>2. st0.buf.runs = <<>>
      BY <1>16 DEF Ready
  <2>3. ASSUME fits PROVE \E from : After(P \o d.frags) = Found(E, 0, from, d.seq)
    <3>1. PICK from : Reading(P, st0, E, 0, from)
        BY <2>3 DEF Ready
    <3>2. After(P \o st0.frags) = Found(E, 0, from, Len(P) + Len(st0.frags))
        BY <2>2, <3>1, AfterNothing DEF Reading
    <3> QED BY <1>3, <1>5, <1>13, <2>1, <3>2
  <2>4. Settled(P, E, fits, d)
      BY <1>1, <1>3, <1>5, <1>13, <1>15, <2>1, <2>3 DEF Settled
  <2> QED BY <1>14, <2>4 DEF AfterRecord
<1>17. CASE st0.used # BufHdr
  <2>1. d.buf = b /\ d.used = st0.used /\ d.seq = k + n + 1 /\ d.seq \in Nat
    <3>1. extra = m - (n + 1)
        BY <1>11, <1>17
    <3>2. st.seq = k + m
        BY <1>2, <1>4, <1>5
    <3> QED BY <1>13, <1>17, <3>1, <3>2
  <2>2. BufHdr < st0.used /\ st0.used % 8 = 0
    <3>1. BufHdr <= st0.used /\ (st0.used - st0.out) % 8 = 0 /\ st0.out = 0
        BY DEF Ready, Layout
    <3>2. st0.used \in Nat /\ st0.used - 0 = st0.used
        BY <1>1
    <3>3. st0.used % 8 = 0
        BY ONLY <3>1, <3>2
    <3>4. BufHdr < st0.used
        BY ONLY <1>17, <3>1, <3>2 DEF BufHdr
    <3> QED BY <3>3, <3>4
  <2>3. Current(P, d)
      BY <1>1, <1>3, <1>5, <1>10, <1>13, <2>1, <2>2 DEF Current, Layout
  <2>4. ASSUME fits PROVE \E from : Reading(P, d, E, 0, from)
    <3>1. PICK from : Reading(P, st0, E, 0, from)
        BY <2>4 DEF Ready
    <3>2. Reading(P, d, E, 0, from)
        BY <1>10, <1>13, <2>1, <3>1 DEF Reading
    <3> QED BY <3>2
  <2>5. Settled(P, E, fits, d)
      BY <1>1, <1>13, <1>15, <2>1, <2>3, <2>4 DEF Settled
  <2> QED BY <1>14, <2>5 DEF AfterRecord
<1> QED BY <1>16, <1>17

\* What is known of the record of a call: where its bytes end, with the pad, and whether its
\* header says so.
Record(c, fits) ==
    /\ HdrLen(c) \in {LogHdr, BeginHdr, EndHdr}
    /\ RecordOf[c].pieces \in Seq(Nat) /\ RecordOf[c].pad \in 0 .. 7
    /\ RecordOf[c].mu_size \in Nat
    /\ (HdrLen(c) + SumFunction(RecordOf[c].pieces) + RecordOf[c].pad) % 8 = 0
    /\ fits => HdrLen(c) + SumFunction(RecordOf[c].pieces) + RecordOf[c].pad = RecordOf[c].mu_size

\* The record of a call is written, or taken back.
LEMMA WriteSettled ==
    ASSUME NEW P \in Seq(Buf), NEW st0, NEW E, NEW fits, Ready(P, st0, E, fits),
           NEW c, Record(c, fits), st0.used + HdrLen(c) <= BufMax,
           NEW d, d = WriteRecord(st0, c)
    PROVE  \/ AfterRecord(P, Append(E, [rec |-> st0.rec, mu_size |-> RecordOf[c].mu_size]),
                          fits, st0, d, TRUE)
           \/ AfterRecord(P, E, fits, st0, d, FALSE)
<1>1. PICK size \in Nat : size = RecordOf[c].mu_size
    BY DEF Record
<1>2. PICK n \in Nat : n = HdrLen(c)
    BY DEF Record, LogHdr, BeginHdr, EndHdr
<1>3. n # 0 /\ st0.used + n <= BufMax
    BY <1>2 DEF Record, LogHdr, BeginHdr, EndHdr
<1>4. PICK entry : entry = [rec |-> st0.rec, mu_size |-> size]
    OBVIOUS
<1>17. PICK s : s = WithSize(st0, size)
    OBVIOUS
<1>5. PICK u : u = Put(s, n)
    OBVIOUS
<1>6. Place(P, st0, E, entry) /\ Within(P, st0, E, entry, fits, u) /\ u.out = n /\ u.ok = TRUE
  <2>1. st0.rec \in Nat
      BY DEF Ready, Layout, WState
  <2>2. entry \in Entry /\ entry.rec = st0.rec /\ entry.mu_size = size
      BY <1>4, <2>1 DEF Entry
  <2>3. Header(P, st0, E, entry, fits, n, s, u)
      BY <1>3, <1>5, <1>17, <2>2 DEF Header
  <2>4. Headed(P, st0, E, entry, fits, n, u)
      BY ONLY <2>3, HeaderWithin
  <2> QED BY <2>4 DEF Headed
<1>7. PICK pieces \in Seq(Nat) : pieces = RecordOf[c].pieces
    BY DEF Record
<1>8. PICK sum \in Nat : sum = SumFunction(pieces)
    BY UpToSumNat
<1>9. PICK pad \in 0 .. 7 : pad = RecordOf[c].pad
    BY DEF Record
<1>10. (n + sum + pad) % 8 = 0 /\ (fits => n + sum + pad = size)
    BY <1>1, <1>2, <1>7, <1>8, <1>9 DEF Record
<1>11. entry.mu_size = size
    BY <1>4
<1>12. PICK st : st = FoldLeft(WritePiece, u, pieces)
    OBVIOUS
<1>13. /\ Within(P, st0, E, entry, fits, st)
       /\ st.ok = TRUE => st.out = u.out + SumFunction(pieces)
  <2>1. InRecord(fits, u, SumFunction(pieces), entry)
      BY <1>6, <1>8, <1>10, <1>11 DEF InRecord
  <2>2. Within(P, st0, E, entry, fits, st) /\ AllOut(u, SumFunction(pieces), st)
      BY ONLY <1>6, <1>12, <2>1, pieces \in Seq(Nat), PiecesWithin
  <2> QED BY <2>2 DEF AllOut
<1>14. d = IF st.ok THEN Complete(st, c) ELSE discard(st, st0)
    BY <1>1, <1>2, <1>5, <1>7, <1>12, <1>17 DEF WriteRecord, WithSize
<1>15. CASE st.ok = TRUE
  <2>1. d = Complete(st, c) /\ st.out = n + sum
      BY <1>6, <1>8, <1>13, <1>14, <1>15
  <2>2. (st.out + pad) % 8 = 0 /\ (fits => st.out + pad = entry.mu_size)
      BY <1>10, <1>11, <2>1
  <2>3. AfterRecord(P, Append(E, entry), fits, st0, d, TRUE)
      BY <1>6, <1>9, <1>13, <1>15, <2>1, <2>2, CompleteSettled
  <2> QED BY <1>1, <1>4, <2>3
<1>16. CASE st.ok # TRUE
  <2>1. Stuck(P, st) /\ Kept(st0, st) /\ Len(st.frags) # Len(st0.frags) /\ st.ok = FALSE
      BY <1>13, <1>16 DEF Within, Inside, Layout, Stuck
  <2>2. d = discard(st, st0)
      BY <1>14, <2>1
  <2> QED BY <2>1, <2>2, DiscardSettled
<1> QED BY <1>15, <1>16

-------------------------------------------------------------------------------
(*****************************************************************************)
(* The operations of the writer between the records.                         *)
(*****************************************************************************)

\* All the buffers it holds, as the worker takes them and the receiver reads them.
Held(st) == st.frags \o (IF st.buf = NoBuf THEN <<>> ELSE <<st.buf>>)

AllRead(P, E, fits, bufs, n) ==
    /\ bufs \in Seq(Buf) /\ AlignedBufs(bufs) /\ n = Len(P) + Len(bufs)
    /\ fits => \E from : After(P \o bufs) = Found(E, 0, from, n)

\* The receiver reads what a settled writer still holds to the end of its last record.
LEMMA HeldSettled ==
    ASSUME NEW P, NEW E, NEW fits, NEW st, Settled(P, E, fits, st), NEW bufs, bufs = Held(st)
    PROVE  AllRead(P, E, fits, bufs, st.seq)
<1>1. P \in Seq(Buf) /\ st.frags \in Seq(Buf) /\ AlignedBufs(st.frags)
    BY DEF Settled
<1>2. CASE st.buf = NoBuf
  <2>1. bufs = st.frags
      BY <1>1, <1>2 DEF Held
  <2>2. ~ Current(P, st)
      BY <1>2, BufNotNoBuf DEF Current
  <2> QED BY <1>1, <2>1, <2>2 DEF Settled, AllRead
<1>3. CASE st.buf # NoBuf
  <2>1. Current(P, st) /\ (fits => \E from : Reading(P, st, E, 0, from))
      BY <1>3 DEF Settled
  <2>2. PICK buf \in Buf : buf = st.buf
      BY <2>1 DEF Current
  <2>3. bufs = Append(st.frags, buf)
      BY <1>1, <1>3, <2>2 DEF Held
  <2>4. bufs \in Seq(Buf) /\ Len(bufs) = Len(st.frags) + 1
      BY <1>1, <2>3
  <2>5. AlignedBufs(bufs)
    <3>1. AlignedRuns(buf.runs)
        BY <2>1, <2>2 DEF Current
    <3> QED BY ONLY <1>1, <2>3, <3>1, buf \in Buf, AlignedAppend
  <2>6. PICK n \in Nat : n = Len(P) + Len(st.frags)
      BY <1>1
  <2>7. st.seq = n + 1 /\ st.seq = Len(P) + Len(bufs)
      BY <1>1, <2>1, <2>4, <2>6 DEF Current
  <2>8. ASSUME fits PROVE \E from : After(P \o bufs) = Found(E, 0, from, st.seq)
    <3>1. PICK from : Reading(P, st, E, 0, from)
        BY <2>1, <2>8
    <3>2. Parkable(P, st.frags, buf, E, 0, from, n)
        BY <2>1, <2>2, <2>6, <3>1 DEF Parkable, Current, Reading
    <3>3. After(P \o Append(st.frags, buf)) = Found(E, 0, from, n + 1)
        BY ONLY <1>1, <3>2, buf \in Buf, 0 \in Int, n \in Nat, AfterPark
    <3> QED BY <2>3, <2>7, <3>3
  <2> QED BY <2>4, <2>5, <2>7, <2>8 DEF AllRead
<1> QED BY <1>2, <1>3

\* Its fields alone tell that a writer is settled.
Same(st, q) ==
    q.frags = st.frags /\ q.buf = st.buf /\ q.used = st.used /\ q.seq = st.seq

\* A writer is settled by its buffers, its position and its number alone.
LEMMA SettledSame ==
    ASSUME NEW P, NEW E, NEW fits, NEW st, Settled(P, E, fits, st), NEW q, Same(st, q)
    PROVE  Settled(P, E, fits, q)
<1>1. Current(P, st) => Current(P, q)
    BY DEF Current, Same
<1>2. \A from : Reading(P, st, E, 0, from) => Reading(P, q, E, 0, from)
    BY DEF Reading, Same
<1> QED BY <1>1, <1>2 DEF Settled, Same

\* The writer leaves its buffer because there is too little room.
LEMMA SettledLeave ==
    ASSUME NEW P, NEW E, NEW fits, NEW st, Settled(P, E, fits, st), st.buf # NoBuf, NEW q,
           q.frags = Append(st.frags, st.buf), q.buf = NoBuf, q.used = 0, q.seq = st.seq
    PROVE  Settled(P, E, fits, q)
<1>1. PICK bufs : bufs = Held(st)
    OBVIOUS
<1>2. /\ bufs \in Seq(Buf) /\ AlignedBufs(bufs) /\ st.seq = Len(P) + Len(bufs)
      /\ fits => \E from : After(P \o bufs) = Found(E, 0, from, st.seq)
  <2>1. AllRead(P, E, fits, bufs, st.seq)
      BY <1>1, HeldSettled
  <2> QED BY <2>1 DEF AllRead
<1>3. st.frags \in Seq(Buf) /\ st.buf \in Buf /\ st.seq \in Nat /\ P \in Seq(Buf)
    BY DEF Settled, Current
<1>4. q.frags = bufs
  <2>1. st.frags \o <<st.buf>> = Append(st.frags, st.buf)
      BY <1>3
  <2> QED BY <1>1, <2>1 DEF Held
<1> QED BY <1>2, <1>3, <1>4 DEF Settled

\* The worker takes all it holds.
LEMMA SettledPull ==
    ASSUME NEW P, NEW E, NEW fits, NEW st, Settled(P, E, fits, st), AlignedBufs(P), NEW Q, NEW q,
           Q = P \o Held(st), q.frags = <<>>, q.buf = NoBuf, q.used = 0, q.seq = st.seq
    PROVE  Settled(Q, E, fits, q) /\ AlignedBufs(Q)
<1>1. PICK bufs : bufs = Held(st)
    OBVIOUS
<1>2. /\ bufs \in Seq(Buf) /\ AlignedBufs(bufs) /\ st.seq = Len(P) + Len(bufs)
      /\ fits => \E from : After(P \o bufs) = Found(E, 0, from, st.seq)
  <2>1. AllRead(P, E, fits, bufs, st.seq)
      BY <1>1, HeldSettled
  <2> QED BY <2>1 DEF AllRead
<1>3. P \in Seq(Buf) /\ st.seq \in Nat
    BY DEF Settled
<1>4. /\ Q \in Seq(Buf) /\ Len(Q) = Len(P) + Len(bufs) /\ Q \o <<>> = Q
      /\ <<>> \in Seq(Buf) /\ Len(<<>>) = 0
    BY <1>1, <1>2, <1>3
<1>5. AlignedBufs(Q)
  <2>1. ASSUME NEW i \in 1 .. Len(Q) PROVE AlignedRuns(Q[i].runs)
    <3>1. CASE i <= Len(P)
      <4>1. Q[i] = P[i] /\ i \in 1 .. Len(P)
          BY <1>1, <1>2, <1>3, <3>1
      <4> QED BY <4>1 DEF AlignedBufs
    <3>2. CASE ~ (i <= Len(P))
      <4>1. Q[i] = bufs[i - Len(P)] /\ i - Len(P) \in 1 .. Len(bufs)
          BY <1>1, <1>2, <1>3, <1>4, <3>2
      <4> QED BY <1>2, <4>1 DEF AlignedBufs
    <3> QED BY <3>1, <3>2
  <2> QED BY <2>1 DEF AlignedBufs
<1>6. AlignedBufs(<<>>)
    BY DEF AlignedBufs
<1>7. q.seq = Len(Q) + Len(q.frags)
    BY <1>2, <1>3, <1>4
<1>8. ASSUME fits PROVE \E from : After(Q \o q.frags) = Found(E, 0, from, q.seq)
  <2>1. Q \o q.frags = P \o bufs
      BY <1>1, <1>4
  <2> QED BY <1>2, <1>8, <2>1
<1>9. Settled(Q, E, fits, q)
    BY <1>3, <1>4, <1>6, <1>7, <1>8 DEF Settled
<1> QED BY <1>5, <1>9

\* A writer with a buffer can begin a record in it.
LEMMA ReadyCurrent ==
    ASSUME NEW P, NEW E \in Seq(Entry), NEW fits, NEW st \in WState, st.out = 0, st.ok = TRUE,
           Settled(P, E, fits, st), st.buf # NoBuf
    PROVE  Ready(P, st, E, fits)
<1>1. Current(P, st) /\ (fits => \E from : Reading(P, st, E, 0, from)) /\ AlignedBufs(st.frags)
    BY DEF Settled
<1>2. st.used \in Nat
    BY DEF WState
<1>3. (st.used - st.out) % 8 = 0
  <2>1. st.used - 0 = st.used
      BY <1>2
  <2> QED BY <1>1, <2>1 DEF Current
<1>4. Layout(P, st)
    BY <1>1, <1>2, <1>3 DEF Layout, Current, BufHdr
<1>5. st.used # BufHdr /\ st.buf.mu_size = st.used
    BY <1>1, <1>2 DEF Current, BufHdr
<1> QED BY <1>1, <1>4, <1>5 DEF Ready

\* A writer that was given a new buffer can begin a record in that.
LEMMA ReadyNew ==
    ASSUME NEW P, NEW E \in Seq(Entry), NEW fits, NEW st \in WState, st.out = 0, st.ok = TRUE,
           Settled(P, E, fits, st), st.buf = NoBuf, NEW s, s = WithNewBuf(st)
    PROVE  Ready(P, s, E, fits) /\ s.used = BufHdr /\ s.rec = st.rec /\ s.dropped = st.dropped
<1>1. /\ st.seq = Len(P) + Len(st.frags) /\ AlignedBufs(st.frags) /\ P \in Seq(Buf)
      /\ fits => \E from : After(P \o st.frags) = Found(E, 0, from, st.seq)
    BY BufNotNoBuf DEF Settled, Current
<1>2. st.seq \in Nat /\ st.free \in Int /\ st.frags \in Seq(Buf)
    BY DEF WState
<1>3. PICK b : b = NewBuf(st.seq)
    OBVIOUS
<1>4. /\ b \in Buf /\ b.runs = <<>> /\ b.mu_buf_seq = st.seq /\ b.fragment = FALSE
    BY <1>2, <1>3, NewBufFields
<1>5. s = [st EXCEPT !.buf = b, !.used = 16, !.seq = @ + 1, !.free = @ - 1]
    BY <1>3 DEF WithNewBuf, BufHdr, WState
<1>6. /\ s.frags = st.frags /\ s.buf = b /\ s.used = 16 /\ s.seq = st.seq + 1 /\ s.out = 0
      /\ s.ok = TRUE /\ s.rec = st.rec /\ s.dropped = st.dropped
    BY <1>5 DEF WState
<1>7. s \in WState
  <2>1. st.seq + 1 \in Nat /\ st.free - 1 \in Int /\ 16 \in Nat
      BY <1>2
  <2>2. s = [st EXCEPT !.buf = b, !.used = 16, !.seq = st.seq + 1, !.free = st.free - 1]
      BY <1>5 DEF WState
  <2> QED BY ONLY <1>4, <2>1, <2>2, st \in WState DEF WState
<1>8. EndOf(s.buf.runs, Len(s.buf.runs)) = 16
  <2>1. Len(s.buf.runs) = 0
      BY <1>4, <1>6
  <2> QED BY <2>1, EndOfNothing DEF BufHdr
<1>9. AlignedRuns(s.buf.runs)
    BY <1>4, <1>6 DEF AlignedRuns
<1>10. 16 <= BufMax /\ (s.used - s.out) % 8 = 0
    BY <1>6, RecordsAssumption DEF BufHdr, LogHdr, MinSpace
<1>11. Layout(P, s)
    BY <1>1, <1>4, <1>6, <1>7, <1>8, <1>9, <1>10 DEF Layout, BufHdr
<1>12. ASSUME fits PROVE \E from : Reading(P, s, E, 0, from)
  <2>1. PICK from : After(P \o st.frags) = Found(E, 0, from, st.seq)
      BY <1>1, <1>12
  <2>2. Found(E, 0, from, st.seq).bufs = st.seq
      BY DEF Found
  <2>3. Reading(P, s, E, 0, from)
      BY <1>1, <1>4, <1>6, <2>1, <2>2, AfterNothing DEF Reading
  <2> QED BY <2>3
<1> QED BY <1>4, <1>6, <1>11, <1>12 DEF Ready, BufHdr

-------------------------------------------------------------------------------
(*****************************************************************************)
(* The record of a call.                                                     *)
(*****************************************************************************)

\* The sum of a sequence that is one longer, and of short ones.
LEMMA SumSnoc ==
    ASSUME NEW s \in Seq(Nat), NEW x \in Nat
    PROVE  SumFunction(Append(s, x)) = SumFunction(s) + x /\ SumFunction(s) \in Nat
<1>1. PICK k \in Nat : k = Len(s)
    OBVIOUS
<1>2. PICK g : g = Append(s, x)
    OBVIOUS
<1>3. /\ DOMAIN s = 1 .. k /\ DOMAIN g = 1 .. (k + 1) /\ g[k + 1] = x
      /\ \A i \in 1 .. k : s[i] = g[i]
    BY <1>1, <1>2
<1>4. \A i \in 1 .. (k + 1) : g[i] \in Nat
    BY <1>1, <1>2
<1>5. SumFunction(g) = SumFunction(s) + g[k + 1] /\ SumFunction(s) \in Nat
    BY ONLY <1>3, <1>4, k \in Nat, SumLonger
<1> QED BY <1>2, <1>3, <1>5

\* The sums of the first one, two and three elements, which serialize_attrs accumulates.
LEMMA SumOne ==
    ASSUME NEW s \in Seq(Nat), Len(s) > 0
    PROVE  s[1] \in Nat /\ UpToSum(s, 1) = s[1]
<1>1. UpToSum(s, 0) = 0
    BY UpToSumEnds
<1>2. PICK k \in Nat : k = 0
    OBVIOUS
<1>3. UpToSum(s, k + 1) = UpToSum(s, k) + s[k + 1]
    BY <1>2, UpToSumNext
<1>4. k + 1 = 1 /\ s[1] \in Nat
    BY <1>2
<1> QED BY <1>1, <1>2, <1>3, <1>4

\* The sum of the first two elements.
LEMMA SumTwo ==
    ASSUME NEW s \in Seq(Nat), Len(s) > 1
    PROVE  s[2] \in Nat /\ UpToSum(s, 2) = s[1] + s[2]
<1>1. UpToSum(s, 1) = s[1]
    BY SumOne
<1>2. PICK k \in Nat : k = 1
    OBVIOUS
<1>3. UpToSum(s, k + 1) = UpToSum(s, k) + s[k + 1]
    BY <1>2, UpToSumNext
<1>4. k + 1 = 2 /\ s[2] \in Nat
    BY <1>2
<1> QED BY <1>1, <1>2, <1>3, <1>4

\* The sum of the first three elements.
LEMMA SumThree ==
    ASSUME NEW s \in Seq(Nat), Len(s) > 2
    PROVE  s[3] \in Nat /\ UpToSum(s, 3) = s[1] + s[2] + s[3]
<1>1. UpToSum(s, 2) = s[1] + s[2]
    BY SumTwo
<1>2. PICK k \in Nat : k = 2
    OBVIOUS
<1>3. UpToSum(s, k + 1) = UpToSum(s, k) + s[k + 1]
    BY <1>2, UpToSumNext
<1>4. k + 1 = 3 /\ s[3] \in Nat
    BY <1>2
<1> QED BY <1>1, <1>2, <1>3, <1>4

\* The sums of short sequences: an attribute's pieces are at most three.
LEMMA SumOfNone == SumFunction(<<>>) = 0
<1>1. PICK f : f = <<>>
    OBVIOUS
<1>2. DOMAIN f = 1 .. 0
    BY <1>1
<1> QED BY <1>1, <1>2, SumNothing

\* An attribute of a fixed size is a header and a value.
LEMMA SumOfTwo ==
    ASSUME NEW x \in Nat, NEW y \in Nat
    PROVE  SumFunction(<<x, y>>) = x + y
<1>1. PICK s : s = <<x, y>>
    OBVIOUS
<1>2. s \in Seq(Nat)
    BY <1>1
<1>3. Len(s) = 2 /\ s[1] = x /\ s[2] = y
    BY <1>1
<1>4. UpToSum(s, 2) = s[1] + s[2]
  <2>1. Len(s) > 1
      BY <1>3
  <2> QED BY ONLY <1>2, <2>1, SumTwo
<1>5. UpToSum(s, Len(s)) = SumFunction(s)
    BY <1>2, UpToSumEnds
<1> QED BY <1>1, <1>3, <1>4, <1>5

\* A string attribute is a header, a length and a text.
LEMMA SumOfThree ==
    ASSUME NEW x \in Nat, NEW y \in Nat, NEW z \in Nat
    PROVE  SumFunction(<<x, y, z>>) = x + y + z
<1>1. PICK s : s = <<x, y, z>>
    OBVIOUS
<1>2. s \in Seq(Nat)
    BY <1>1
<1>3. Len(s) = 3 /\ s[1] = x /\ s[2] = y /\ s[3] = z
    BY <1>1
<1>4. UpToSum(s, 3) = s[1] + s[2] + s[3]
  <2>1. Len(s) > 2
      BY <1>3
  <2> QED BY ONLY <1>2, <2>1, SumThree
<1>5. UpToSum(s, Len(s)) = SumFunction(s)
    BY <1>2, UpToSumEnds
<1> QED BY <1>1, <1>3, <1>4, <1>5

\* The least and the greatest of some numbers up to n.
LEMMA MaxOf ==
    ASSUME NEW n \in Nat, NEW S, S \subseteq 0 .. n, S # {}
    PROVE  Max(S) \in S /\ \A y \in S : y <= Max(S)
<1>1. \E x \in S : \A y \in S : x >= y
  <2> DEFINE T == {m \in Nat : \A R \in SUBSET (0 .. m) : R # {} => \E x \in R : \A y \in R : x >= y}
  <2>1. 0 \in T
    <3> SUFFICES ASSUME NEW R \in SUBSET (0 .. 0), R # {} PROVE \E x \in R : \A y \in R : x >= y
        OBVIOUS
    <3>1. \A y \in R : y \in Int /\ y = 0
        OBVIOUS
    <3>2. PICK x \in R : x = 0
        BY <3>1
    <3>3. \A y \in R : x >= y
        BY <3>1, <3>2
    <3> QED BY <3>3
  <2>2. ASSUME NEW m \in Nat, m \in T PROVE m + 1 \in T
    <3> SUFFICES ASSUME NEW R \in SUBSET (0 .. (m + 1)), R # {}
                 PROVE  \E x \in R : \A y \in R : x >= y
        OBVIOUS
    <3>1. CASE m + 1 \in R
      <4>1. \A y \in R : m + 1 >= y
          OBVIOUS
      <4> QED BY <3>1, <4>1
    <3>2. CASE m + 1 \notin R
      <4>1. R \in SUBSET (0 .. m)
          BY <3>2
      <4> QED BY <2>2, <4>1
    <3> QED BY <3>1, <3>2
  <2>3. Nat \subseteq T
      BY <2>1, <2>2, NatSetInduction, Zenon
  <2>4. n \in T /\ S \in SUBSET (0 .. n)
      BY <2>3
  <2> QED BY <2>4
<1>2. PICK x \in S : \A y \in S : x >= y
    BY <1>1
<1>3. Max(S) \in S /\ \A y \in S : Max(S) >= y
    BY <1>2 DEF Max
<1>4. \A y \in S : y \in Int
    OBVIOUS
<1> QED BY <1>3, <1>4

\* The least of a bounded set of numbers, as Max of one.
LEMMA MinOf ==
    ASSUME NEW n \in Nat, NEW S, S \subseteq 0 .. n, S # {}
    PROVE  Min(S) \in S /\ \A y \in S : Min(S) <= y
<1> DEFINE T == {m \in Nat : \A x \in S : x <= m => \E z \in S : \A y \in S : z <= y}
<1>1. 0 \in T
    BY \A y \in S : y \in Nat
<1>2. ASSUME NEW m \in Nat, m \in T PROVE m + 1 \in T
  <2> SUFFICES ASSUME NEW x \in S, x <= m + 1 PROVE \E z \in S : \A y \in S : z <= y
      OBVIOUS
  <2>1. CASE \E y \in S : y <= m
      BY <1>2, <2>1
  <2>2. CASE ~ \E y \in S : y <= m
    <3>1. \A y \in S : x <= y
        BY <2>2
    <3> QED BY <3>1
  <2> QED BY <2>1, <2>2
<1>3. Nat \subseteq T
    BY <1>1, <1>2, NatSetInduction, Zenon
<1>4. PICK x : x \in S
    OBVIOUS
<1>5. x \in Nat /\ x <= x
    BY <1>4
<1>6. \E z \in S : \A y \in S : z <= y
    BY <1>3, <1>4, <1>5
<1> QED BY <1>6 DEF Min

\* The cut is at the end of a character, and the next end is behind the bytes there is room for.
LEMMA CutEnds ==
    ASSUME NEW text \in Texts, NEW m \in Nat, m < Len(text), NEW n, n = p8_cut_utf8(text, m)
    PROVE  n \in 0 .. m /\ CharEnd(text, n) /\ NextEnd(text, n) \in Nat /\ NextEnd(text, n) > m
<1>0. text \in Seq({"lead", "cont"}) /\ text[1] = "lead" /\ Len(text) \in Nat
    BY DEF Texts
<1>1. PICK S : S = {k \in 0 .. m : k = 0 \/ text[k + 1] # "cont"}
    OBVIOUS
<1>2. S \subseteq 0 .. m /\ S # {}
    BY <1>1
<1>3. n \in S /\ \A y \in S : y <= n
    BY <1>1, <1>2, MaxOf DEF p8_cut_utf8
<1>4. n \in 0 .. m /\ (n = 0 \/ text[n + 1] # "cont")
    BY <1>1, <1>3
<1>5. \A k \in 1 .. Len(text) : text[k] = "lead" \/ text[k] = "cont"
    BY <1>0
<1>6. text[n + 1] = "lead"
    BY <1>0, <1>4, <1>5
<1>7. CharEnd(text, n)
    BY <1>6 DEF CharEnd
<1>8. PICK R : R = {k \in n + 1 .. Len(text) : CharEnd(text, k)}
    OBVIOUS
<1>9. R \subseteq 0 .. Len(text) /\ Len(text) \in R
    BY <1>0, <1>4, <1>8 DEF CharEnd
<1>10. Min(R) \in R /\ NextEnd(text, n) = Min(R)
    BY <1>0, <1>8, <1>9, MinOf DEF NextEnd
<1>11. PICK k \in n + 1 .. Len(text) : k = Min(R) /\ CharEnd(text, k)
    BY <1>8, <1>10
<1>12. ~ (k <= m)
  <2> SUFFICES ASSUME k <= m PROVE FALSE
      OBVIOUS
  <2>1. text[k + 1] = "lead"
      BY <1>0, <1>11 DEF CharEnd
  <2>2. k \in S
      BY <1>1, <1>4, <1>11, <2>1
  <2> QED BY <1>3, <1>4, <1>11, <2>2
<1> QED BY <1>0, <1>4, <1>7, <1>10, <1>11, <1>12

\* An attribute, and the bytes of one of which n bytes of the value go out.
Attr == [known : BOOLEAN, text : {NoText} \cup Texts]

AttrSize(attr, n) == IF n = -1 THEN 0 ELSE SumFunction(AttrPieces(attr, n))

\* A string that goes out is cut between characters, and only if the next does not fit.
CutFor(attr, room, n) ==
    /\ n \in Nat /\ AttrPieces(attr, n) \in Seq(Nat)
    /\ AttrSize(attr, n) \in Nat /\ AttrSize(attr, n) <= room
    /\ attr.text # NoText =>
          /\ CharEnd(attr.text, n)
          /\ \/ n = Len(attr.text)
             \/ /\ NextEnd(attr.text, n) \in Nat
                /\ AttrSize(attr, n) - n + NextEnd(attr.text, n) > room

\* A string that is shortened to the room that is left ends with a whole character, and with
\* the next one would not have fitted (p8_cut_utf8 in serialize_attrs).
LEMMA AttrBytesRight ==
    ASSUME NEW attr \in Attr, NEW room \in Nat, NEW n, n = AttrBytes(attr, room), n # -1
    PROVE  CutFor(attr, room, n)
<1>1. attr.known = TRUE \/ attr.known = FALSE
    BY DEF Attr
<1>2. attr.known = TRUE
    BY <1>1 DEF AttrBytes
<1>3. CASE attr.text = NoText
  <2>1. n = 8 /\ 12 <= room
      BY <1>2, <1>3 DEF AttrBytes, NumLen, IdLen
  <2>2. AttrPieces(attr, n) = <<4, n>>
      BY <1>3 DEF AttrPieces, IdLen
  <2>3. SumFunction(<<4, n>>) = 4 + n
    <3>1. PICK a \in Nat : a = 4
        OBVIOUS
    <3>2. n \in Nat
        BY <2>1
    <3>3. SumFunction(<<a, n>>) = a + n
        BY <3>2, SumOfTwo
    <3> QED BY <3>1, <3>3
  <2>4. AttrPieces(attr, n) \in Seq(Nat)
    <3>1. n \in Nat
        BY <2>1
    <3>2. <<4, n>> \in Seq(Nat)
        BY <3>1
    <3> QED BY <2>2, <3>2
  <2>5. AttrSize(attr, n) = 12
      BY <2>1, <2>2, <2>3 DEF AttrSize
  <2> QED BY <1>3, <2>1, <2>4, <2>5 DEF CutFor
<1>4. CASE attr.text # NoText
  <2>1. PICK text \in Texts : text = attr.text
      BY <1>4 DEF Attr
  <2>2. PICK m : m = room - 6
      OBVIOUS
  <2>3. Len(text) \in Nat
      BY DEF Texts
  <2>4. m \in Nat /\ n = IF Len(text) > m THEN p8_cut_utf8(text, m) ELSE Len(text)
    <3>1. ~ (room < 6)
        BY <1>2, <1>4 DEF AttrBytes, IdLen, LenLen
    <3>2. room - 4 - 2 = m
        BY <2>2
    <3> QED BY <1>2, <1>4, <2>1, <2>2, <3>1, <3>2 DEF AttrBytes, IdLen, LenLen
  <2>5. n \in Nat /\ n <= m /\ CharEnd(text, n) /\ (n = Len(text) \/ (NextEnd(text, n) \in Nat /\ NextEnd(text, n) > m))
    <3>1. CASE Len(text) > m
      <4>1. n = p8_cut_utf8(text, m) /\ m < Len(text)
          BY <2>3, <2>4, <3>1
      <4> QED BY <2>4, <4>1, CutEnds
    <3>2. CASE ~ (Len(text) > m)
        BY <2>3, <2>4, <3>2 DEF CharEnd
    <3> QED BY <3>1, <3>2
  <2>6. AttrPieces(attr, n) = <<4, 2, n>>
      BY <1>4 DEF AttrPieces, IdLen, LenLen
  <2>7. SumFunction(<<4, 2, n>>) = 4 + 2 + n
    <3>1. PICK a \in Nat, b \in Nat : a = 4 /\ b = 2
        OBVIOUS
    <3>2. n \in Nat
        BY <2>5
    <3>3. SumFunction(<<a, b, n>>) = a + b + n
      <4>1. a \in Nat /\ b \in Nat
          OBVIOUS
      <4> QED BY ONLY <3>2, <4>1, SumOfThree
    <3> QED BY <3>1, <3>3
  <2>8. AttrSize(attr, n) = 6 + n /\ AttrPieces(attr, n) \in Seq(Nat)
      BY <2>5, <2>6, <2>7 DEF AttrSize
  <2> QED BY <2>1, <2>2, <2>4, <2>5, <2>8 DEF CutFor
<1> QED BY <1>3, <1>4

\* The size behind the a-th attribute, from the lengths that went out.
SizeBehind(size, attrs, cut, a) ==
    size + SumFunction([i \in 1 .. a |-> AttrSize(attrs[i], cut[i])])

RightAt(size, attrs, cut, a) ==
    cut[a] # -1 /\ attrs[a].text # NoText =>
        /\ CharEnd(attrs[a].text, cut[a])
        /\ \/ cut[a] = Len(attrs[a].text)
           \/ SizeBehind(size, attrs, cut, a) - cut[a] + NextEnd(attrs[a].text, cut[a]) > MaxRecord

AttrState == [pieces : Seq(Nat), size : Nat, count : Nat, cut : Seq(Int)]

\* The record with its first k attributes.
Serialized(size, attrs, k, r) ==
    /\ r \in AttrState /\ Len(r.cut) = k
    /\ \A i \in 1 .. k : AttrSize(attrs[i], r.cut[i]) \in Nat
    /\ r.size = SizeBehind(size, attrs, r.cut, k) /\ r.size = size + SumFunction(r.pieces)
    /\ size <= MaxRecord => r.size <= MaxRecord
    /\ \A a \in 1 .. k : RightAt(size, attrs, r.cut, a)

\* The limit of a record is a multiple of 8 that its 16-bit size field can hold.
LEMMA MaxRecordNat == MaxRecord \in Nat /\ MaxRecord % 8 = 0 /\ MaxRecord < SizeMod
<1>1. SizeMod \in Nat /\ SizeMod # 0
    BY RecordsAssumption
<1>2. PICK q \in Int : q = (SizeMod - 1) \div 8
    BY <1>1
<1>3. SizeMod - 1 = 8 * q + ((SizeMod - 1) % 8) /\ (SizeMod - 1) % 8 \in 0 .. 7 /\ q \in Nat
    BY <1>1, <1>2
<1>4. MaxRecord = 8 * q
    BY <1>2 DEF MaxRecord
<1> QED BY <1>1, <1>3, <1>4, Mod8

\* A length more does not change the sizes before it, and adds its bytes.
OneMore(size, attrs, cut, n, k, more, attr) ==
    /\ size \in Nat /\ cut \in Seq(Int) /\ n \in Int /\ k \in Nat /\ k = Len(cut)
    /\ more = Append(cut, n) /\ attr = attrs[k + 1]
    /\ \A i \in 1 .. k : AttrSize(attrs[i], cut[i]) \in Nat
    /\ AttrSize(attr, n) \in Nat

Longer(size, attrs, cut, n, k, more, attr) ==
    /\ more \in Seq(Int) /\ Len(more) = k + 1 /\ more[k + 1] = n
    /\ \A i \in 1 .. k : more[i] = cut[i]
    /\ \A a \in 1 .. k : SizeBehind(size, attrs, more, a) = SizeBehind(size, attrs, cut, a)
    /\ SizeBehind(size, attrs, more, k + 1) = SizeBehind(size, attrs, cut, k) + AttrSize(attr, n)

\* OneMore gives Longer: what the attributes before cost is settled when the next is added.
LEMMA UpToSnoc ==
    ASSUME NEW size, NEW attrs, NEW cut, NEW n, NEW k, NEW more, NEW attr,
           OneMore(size, attrs, cut, n, k, more, attr)
    PROVE  Longer(size, attrs, cut, n, k, more, attr)
<1> SUFFICES ASSUME size \in Nat, cut \in Seq(Int), n \in Int, k \in Nat, k = Len(cut),
                    more = Append(cut, n), attr = attrs[k + 1],
                    \A i \in 1 .. k : AttrSize(attrs[i], cut[i]) \in Nat,
                    AttrSize(attr, n) \in Nat
             PROVE  Longer(size, attrs, cut, n, k, more, attr)
    BY DEF OneMore
<1>1. /\ more \in Seq(Int) /\ Len(more) = k + 1 /\ more[k + 1] = n
      /\ \A i \in 1 .. k : more[i] = cut[i]
    OBVIOUS
<1>2. ASSUME NEW a \in 0 .. k PROVE SizeBehind(size, attrs, more, a) = SizeBehind(size, attrs, cut, a)
  <2>1. \A i \in 1 .. a : AttrSize(attrs[i], more[i]) = AttrSize(attrs[i], cut[i])
      BY <1>1
  <2>2. [i \in 1 .. a |-> AttrSize(attrs[i], more[i])] = [i \in 1 .. a |-> AttrSize(attrs[i], cut[i])]
      BY <2>1
  <2> QED BY <2>2 DEF SizeBehind
<1>3. PICK f : f = [i \in 1 .. k |-> AttrSize(attrs[i], more[i])]
    OBVIOUS
<1>4. PICK g : g = [i \in 1 .. (k + 1) |-> AttrSize(attrs[i], more[i])]
    OBVIOUS
<1>5. /\ DOMAIN f = 1 .. k /\ DOMAIN g = 1 .. (k + 1) /\ g[k + 1] = AttrSize(attr, n)
      /\ \A i \in 1 .. k : f[i] = g[i]
    BY <1>1, <1>3, <1>4
<1>6. \A i \in 1 .. (k + 1) : g[i] \in Nat
  <2>1. \A i \in 1 .. k : g[i] \in Nat
      BY <1>1, <1>4
  <2> QED BY <1>5, <2>1
<1>7. SumFunction(g) = SumFunction(f) + g[k + 1] /\ SumFunction(f) \in Nat
    BY ONLY <1>5, <1>6, k \in Nat, SumLonger
<1>8. SizeBehind(size, attrs, more, k + 1) = SizeBehind(size, attrs, more, k) + AttrSize(attr, n)
  <2>1. PICK b \in Nat, c \in Nat : b = SumFunction(f) /\ c = AttrSize(attr, n)
      BY <1>7
  <2>2. SizeBehind(size, attrs, more, k + 1) = size + (b + c)
      BY <1>4, <1>5, <1>7, <2>1 DEF SizeBehind
  <2>3. SizeBehind(size, attrs, more, k) = size + b
      BY <1>3, <2>1 DEF SizeBehind
  <2>4. size + (b + c) = (size + b) + c
      OBVIOUS
  <2> QED BY <2>1, <2>2, <2>3, <2>4
<1>9. SizeBehind(size, attrs, more, k) = SizeBehind(size, attrs, cut, k)
    BY <1>2
<1> QED BY <1>1, <1>2, <1>8, <1>9 DEF Longer

\* One attribute more.
LEMMA AttrStepRight ==
    ASSUME NEW size \in Nat, NEW attrs \in Seq(Attr), NEW k \in Nat, k < Len(attrs), NEW r,
           Serialized(size, attrs, k, r), NEW attr, attr = attrs[k + 1], NEW s,
           s = AttrStep(r, attr)
    PROVE  Serialized(size, attrs, k + 1, s)
<1>0. attr \in Attr
    OBVIOUS
<1>1. /\ r \in AttrState /\ r.cut \in Seq(Int) /\ r.pieces \in Seq(Nat) /\ r.size \in Nat
      /\ r.count \in Nat /\ k = Len(r.cut)
      /\ \A i \in 1 .. k : AttrSize(attrs[i], r.cut[i]) \in Nat
    BY DEF Serialized, AttrState
<1>2. PICK room : room = IF r.size < MaxRecord THEN MaxRecord - r.size ELSE 0
    OBVIOUS
<1>3. room \in Nat
    BY <1>1, <1>2, MaxRecordNat
<1>4. PICK n : n = AttrBytes(attr, room)
    OBVIOUS
<1>5. s = IF r.count = MaxAttrs \/ n = -1 THEN [r EXCEPT !.cut = Append(@, -1)]
          ELSE [pieces |-> r.pieces \o AttrPieces(attr, n),
                size   |-> r.size + SumFunction(AttrPieces(attr, n)),
                count  |-> r.count + 1,
                cut    |-> Append(r.cut, n)]
    BY <1>2, <1>4 DEF AttrStep
<1>6. ASSUME NEW x \in Int, AttrSize(attr, x) \in Nat, s \in AttrState, s.cut = Append(r.cut, x),
             s.size = r.size + AttrSize(attr, x),
             SumFunction(s.pieces) = SumFunction(r.pieces) + AttrSize(attr, x),
             x # -1 => CutFor(attr, room, x)
      PROVE  Serialized(size, attrs, k + 1, s)
  <2>1. PICK cut : cut = r.cut
      OBVIOUS
  <2>2. PICK more : more = s.cut
      OBVIOUS
  <2>3. /\ cut \in Seq(Int) /\ k = Len(cut) /\ more = Append(cut, x)
        /\ \A i \in 1 .. k : AttrSize(attrs[i], cut[i]) \in Nat
      BY <1>1, <1>6, <2>1, <2>2
  <2>4. /\ more \in Seq(Int) /\ Len(more) = k + 1 /\ more[k + 1] = x
        /\ \A i \in 1 .. k : more[i] = cut[i]
        /\ \A a \in 1 .. k : SizeBehind(size, attrs, more, a) = SizeBehind(size, attrs, cut, a)
        /\ SizeBehind(size, attrs, more, k + 1) = SizeBehind(size, attrs, cut, k) + AttrSize(attr, x)
    <3>1. OneMore(size, attrs, cut, x, k, more, attr)
        BY <1>6, <2>3 DEF OneMore
    <3>2. Longer(size, attrs, cut, x, k, more, attr)
        BY ONLY <3>1, UpToSnoc
    <3> QED BY <3>2 DEF Longer
  <2>5. \A i \in 1 .. (k + 1) : AttrSize(attrs[i], more[i]) \in Nat
    <3>1. AttrSize(attrs[k + 1], more[k + 1]) \in Nat
        BY <1>6, <2>4
    <3>2. \A i \in 1 .. k : AttrSize(attrs[i], more[i]) \in Nat
        BY <2>3, <2>4
    <3> QED BY <3>1, <3>2
  <2>6. s.size = SizeBehind(size, attrs, more, k + 1)
    <3>1. r.size = SizeBehind(size, attrs, cut, k)
        BY <2>1 DEF Serialized
    <3> QED BY <1>6, <2>4, <3>1
  <2>7. s.size = size + SumFunction(s.pieces)
    <3>1. r.size = size + SumFunction(r.pieces)
        BY DEF Serialized
    <3>2. SumFunction(r.pieces) \in Nat
        BY <1>1, UpToSumNat
    <3> QED BY <1>6, <3>1, <3>2
  <2>8. x # -1 => AttrSize(attr, x) <= room
      BY <1>6 DEF CutFor
  <2>9. x = -1 => AttrSize(attr, x) = 0
      BY DEF AttrSize
  <2>10. size <= MaxRecord => s.size <= MaxRecord
    <3>1. size <= MaxRecord => r.size <= MaxRecord
        BY DEF Serialized
    <3>2. PICK b \in Nat : b = AttrSize(attr, x)
        BY <1>6
    <3>3. b <= room \/ b = 0
        BY <2>8, <2>9, <3>2
    <3>4. s.size = r.size + b
        BY <1>6, <3>2
    <3>5. r.size <= MaxRecord => r.size + b <= MaxRecord
      <4>1. PICK z \in Nat, m \in Nat : z = r.size /\ m = MaxRecord
          BY <1>1, MaxRecordNat
      <4>2. room = IF z < m THEN m - z ELSE 0
          BY <1>2, <4>1
      <4>3. z <= m => z + b <= m
          BY <3>3, <4>2
      <4> QED BY <4>1, <4>3
    <3> QED BY <3>1, <3>4, <3>5
  <2>11. ASSUME NEW a \in 1 .. k PROVE RightAt(size, attrs, more, a)
    <3>1. RightAt(size, attrs, cut, a)
        BY <2>1 DEF Serialized
    <3> QED BY <2>4, <3>1 DEF RightAt
  <2>12. RightAt(size, attrs, more, k + 1)
    <3> SUFFICES ASSUME x # -1, attr.text # NoText
                 PROVE  /\ CharEnd(attr.text, x)
                        /\ \/ x = Len(attr.text)
                           \/ SizeBehind(size, attrs, more, k + 1) - x + NextEnd(attr.text, x) > MaxRecord
        BY <2>4 DEF RightAt
    <3>1. /\ CharEnd(attr.text, x) /\ AttrSize(attr, x) <= room
          /\ \/ x = Len(attr.text)
             \/ /\ NextEnd(attr.text, x) \in Nat
                /\ AttrSize(attr, x) - x + NextEnd(attr.text, x) > room
        BY <1>6 DEF CutFor
    <3>2. CASE x = Len(attr.text)
        BY <3>1, <3>2
    <3>3. CASE x # Len(attr.text)
      <4>1. PICK next \in Nat : next = NextEnd(attr.text, x)
          BY <3>1, <3>3
      <4>2. PICK b \in Nat : b = AttrSize(attr, x)
          BY <1>6
      <4>3. b - x + next > room
          BY <3>1, <3>3, <4>1, <4>2
      <4>4. SizeBehind(size, attrs, more, k + 1) = r.size + b
          BY <1>6, <2>6, <4>2
      <4>5. (r.size + b) - x + next > MaxRecord
        <5>1. PICK z \in Nat, m \in Nat : z = r.size /\ m = MaxRecord
            BY <1>1, MaxRecordNat
        <5>2. room = IF z < m THEN m - z ELSE 0
            BY <1>2, <5>1
        <5>3. (z + b) - x + next > m
            BY <1>6, <4>3, <5>2
        <5> QED BY <5>1, <5>3
      <4> QED BY <3>1, <4>1, <4>4, <4>5
    <3> QED BY <3>2, <3>3
  <2>13. ASSUME NEW a \in 1 .. (k + 1) PROVE RightAt(size, attrs, more, a)
    <3>1. a \in 1 .. k \/ a = k + 1
        OBVIOUS
    <3> QED BY <2>11, <2>12, <3>1
  <2> QED BY <1>6, <2>2, <2>4, <2>5, <2>6, <2>7, <2>10, <2>13 DEF Serialized
<1>7. CASE r.count = MaxAttrs \/ n = -1
  <2>1. s = [r EXCEPT !.cut = Append(r.cut, -1)]
      BY <1>1, <1>5, <1>7 DEF AttrState
  <2>2. Append(r.cut, -1) \in Seq(Int) /\ -1 \in Int
      BY <1>1
  <2>3. /\ s \in AttrState /\ s.cut = Append(r.cut, -1) /\ s.size = r.size /\ s.pieces = r.pieces
      BY ONLY <1>1, <2>1, <2>2 DEF AttrState
  <2>4. AttrSize(attr, -1) = 0
      BY DEF AttrSize
  <2>5. SumFunction(r.pieces) \in Nat
      BY <1>1, UpToSumNat
  <2>6. PICK x \in Int : x = -1
      OBVIOUS
  <2>7. /\ AttrSize(attr, x) \in Nat /\ s \in AttrState /\ s.cut = Append(r.cut, x)
        /\ s.size = r.size + AttrSize(attr, x) /\ x = -1
        /\ SumFunction(s.pieces) = SumFunction(r.pieces) + AttrSize(attr, x)
      BY <1>1, <2>3, <2>4, <2>5, <2>6
  <2> QED BY <1>6, <2>7
<1>8. CASE ~ (r.count = MaxAttrs \/ n = -1)
  <2>1. n # -1 /\ CutFor(attr, room, n)
      BY <1>0, <1>3, <1>4, <1>8, AttrBytesRight
  <2>2. PICK pieces : pieces = AttrPieces(attr, n)
      OBVIOUS
  <2>3. pieces \in Seq(Nat) /\ AttrSize(attr, n) = SumFunction(pieces) /\ AttrSize(attr, n) \in Nat
        /\ n \in Nat
      BY <2>1, <2>2 DEF CutFor, AttrSize
  <2>4. SumFunction(r.pieces \o pieces) = SumFunction(r.pieces) + SumFunction(pieces)
      BY <1>1, <2>3, SumConcat
  <2>5. s = [pieces |-> r.pieces \o pieces, size |-> r.size + SumFunction(pieces),
             count |-> r.count + 1, cut |-> Append(r.cut, n)]
      BY <1>5, <1>8, <2>2
  <2>6. /\ s.pieces = r.pieces \o pieces /\ s.size = r.size + SumFunction(pieces)
        /\ s.cut = Append(r.cut, n)
      BY <2>5
  <2>7. s \in AttrState
    <3>1. r.pieces \o pieces \in Seq(Nat)
        BY <1>1, <2>3
    <3>2. r.size + SumFunction(pieces) \in Nat /\ r.count + 1 \in Nat
        BY <1>1, <2>3
    <3>3. Append(r.cut, n) \in Seq(Int)
        BY <1>1, <2>3
    <3> QED BY ONLY <2>5, <3>1, <3>2, <3>3 DEF AttrState
  <2> QED BY <1>6, <2>1, <2>3, <2>4, <2>6, <2>7
<1> QED BY <1>7, <1>8

AttrFold == INSTANCE FoldTheorems WITH FoldStep <- AttrStep
ArgFold  == INSTANCE FoldTheorems WITH FoldStep <- ArgStep
ScanFold == INSTANCE FoldTheorems WITH FoldStep <- ScanStep

\* The attributes, the arguments and the characters of a format one by one.
AttrsTaken(h, r, seq, n) == h[0] = r /\ \A k \in 1 .. n : h[k] = AttrStep(h[k - 1], seq[k])
ArgsTaken(h, r, seq, n)  == h[0] = r /\ \A k \in 1 .. n : h[k] = ArgStep(h[k - 1], seq[k])
Scanned(h, r, seq, n)    == h[0] = r /\ \A k \in 1 .. n : h[k] = ScanStep(h[k - 1], seq[k])

\* serialize_attrs is the last of its turns, each the AttrStep of the one before.
LEMMA AttrTurns ==
    ASSUME NEW r, NEW seq, NEW n \in Nat, DOMAIN seq = 1 .. n
    PROVE  \E h : AttrsTaken(h, r, seq, n) /\ FoldLeft(AttrStep, r, seq) = h[n]
<1>1. PICK h : AttrFold!Steps(h, r, seq, n) /\ AttrFold!FoldLeft(AttrStep, r, seq) = h[n]
    BY AttrFold!FoldLeftSteps
<1>2. AttrsTaken(h, r, seq, n)
    BY <1>1 DEF AttrFold!Steps, AttrsTaken
<1>3. FoldLeft(AttrStep, r, seq) = h[n]
    BY <1>1 DEF FoldLeft, AttrFold!FoldLeft, MapThenFoldSet, AttrFold!MapThenFoldSet,
                Max, AttrFold!Max
<1> QED BY <1>2, <1>3

\* The pieces of the arguments are the last of their turns, each the ArgStep of the one before.
LEMMA ArgTurns ==
    ASSUME NEW r, NEW seq, NEW n \in Nat, DOMAIN seq = 1 .. n
    PROVE  \E h : ArgsTaken(h, r, seq, n) /\ FoldLeft(ArgStep, r, seq) = h[n]
<1>1. PICK h : ArgFold!Steps(h, r, seq, n) /\ ArgFold!FoldLeft(ArgStep, r, seq) = h[n]
    BY ArgFold!FoldLeftSteps
<1>2. ArgsTaken(h, r, seq, n)
    BY <1>1 DEF ArgFold!Steps, ArgsTaken
<1>3. FoldLeft(ArgStep, r, seq) = h[n]
    BY <1>1 DEF FoldLeft, ArgFold!FoldLeft, MapThenFoldSet, ArgFold!MapThenFoldSet,
                Max, ArgFold!Max
<1> QED BY <1>2, <1>3

\* The scan of a format is the last of its turns, each the ScanStep of the one before.
LEMMA ScanTurns ==
    ASSUME NEW r, NEW seq, NEW n \in Nat, DOMAIN seq = 1 .. n
    PROVE  \E h : Scanned(h, r, seq, n) /\ FoldLeft(ScanStep, r, seq) = h[n]
<1>1. PICK h : ScanFold!Steps(h, r, seq, n) /\ ScanFold!FoldLeft(ScanStep, r, seq) = h[n]
    BY ScanFold!FoldLeftSteps
<1>2. Scanned(h, r, seq, n)
    BY <1>1 DEF ScanFold!Steps, Scanned
<1>3. FoldLeft(ScanStep, r, seq) = h[n]
    BY <1>1 DEF FoldLeft, ScanFold!FoldLeft, MapThenFoldSet, ScanFold!MapThenFoldSet,
                Max, ScanFold!Max
<1> QED BY <1>2, <1>3

\* All the attributes of a record.
LEMMA AttrsRight ==
    ASSUME NEW size \in Nat, NEW attrs \in Seq(Attr), NEW c, c = serialize_attrs(size, attrs)
    PROVE  Serialized(size, attrs, Len(attrs), c)
<1>1. PICK n \in Nat : n = Len(attrs)
    OBVIOUS
<1>2. PICK r : r = [pieces |-> <<>>, size |-> size, count |-> 0, cut |-> <<>>]
    OBVIOUS
<1>3. PICK h : AttrsTaken(h, r, attrs, n) /\ FoldLeft(AttrStep, r, attrs) = h[n]
  <2>1. DOMAIN attrs = 1 .. n
      BY <1>1
  <2> QED BY ONLY <2>1, n \in Nat, AttrTurns
<1>4. h[0] = r /\ \A k \in 1 .. n : h[k] = AttrStep(h[k - 1], attrs[k])
    BY <1>3 DEF AttrsTaken
<1> DEFINE Good(k) == Serialized(size, attrs, k, h[k])
           T == {k \in Nat : k <= n => Good(k)}
<1>5. Good(0)
  <2>1. r \in AttrState
    <3>1. <<>> \in Seq(Nat) /\ <<>> \in Seq(Int) /\ 0 \in Nat
        OBVIOUS
    <3> QED BY ONLY <1>2, <3>1, size \in Nat DEF AttrState
  <2>2. r.cut = <<>> /\ r.pieces = <<>> /\ r.size = size /\ Len(r.cut) = 0
      BY <1>2
  <2>3. SumFunction(<<>>) = 0
      BY SumOfNone
  <2>4. SizeBehind(size, attrs, r.cut, 0) = size
    <3>1. PICK f : f = [i \in 1 .. 0 |-> AttrSize(attrs[i], r.cut[i])]
        OBVIOUS
    <3>2. DOMAIN f = 1 .. 0
        BY <3>1
    <3>3. SumFunction(f) = 0
        BY <3>2, SumNothing
    <3> QED BY <3>1, <3>3 DEF SizeBehind
  <2>5. 1 .. 0 = {}
      OBVIOUS
  <2> QED BY <1>4, <2>1, <2>2, <2>3, <2>4, <2>5 DEF Serialized
<1> HIDE DEF Good
<1>6. 0 \in T
    BY <1>5
<1>7. ASSUME NEW k \in Nat, k \in T PROVE k + 1 \in T
  <2> SUFFICES ASSUME k + 1 <= n PROVE Good(k + 1)
      OBVIOUS
  <2>1. Good(k)
      BY <1>7
  <2>2. PICK q : q = h[k]
      OBVIOUS
  <2>3. PICK s : s = h[k + 1]
      OBVIOUS
  <2>4. PICK attr : attr = attrs[k + 1]
      OBVIOUS
  <2>5. k + 1 \in 1 .. n /\ (k + 1) - 1 = k /\ k < Len(attrs)
      BY <1>1
  <2>6. s = AttrStep(q, attr)
      BY <1>4, <2>2, <2>3, <2>4, <2>5
  <2>7. Serialized(size, attrs, k, q)
      BY ONLY <2>1, <2>2 DEF Good
  <2>8. Serialized(size, attrs, k + 1, s)
      BY ONLY <2>4, <2>5, <2>6, <2>7, size \in Nat, attrs \in Seq(Attr), k \in Nat, AttrStepRight
  <2> QED BY ONLY <2>3, <2>8 DEF Good
<1>8. Nat \subseteq T
    BY <1>6, <1>7, NatSetInduction, Zenon
<1>9. Good(n)
    BY <1>8
<1>10. c = h[n]
    BY <1>2, <1>3 DEF serialize_attrs
<1> QED BY ONLY <1>1, <1>9, <1>10 DEF Good

\* What the scan of a format has found: arguments with their sizes.
Types == StringTypes \cup {"INT8", "INT16", "INT32", "INT64", "INTMAX", "PVOID", "DOUBLE",
                           "LDOUBLE", "CHAR", "CHAR32", NoType}

Arg == [type : Types, size : Nat]

Scan(s) == "args" \in DOMAIN s /\ s.args \in Seq(Arg)

\* An argument that is found has a type of the table and a size.
LEMMA AddArgType ==
    ASSUME NEW s, Scan(s), NEW type \in Types
    PROVE  Scan(AddArg(s, type))
<1>1. PICK arg : arg = [type |-> type, size |-> SizeOf(type, s.width)]
    OBVIOUS
<1>2. arg \in Arg
  <2>1. PICK size \in Nat : size = SizeOf(type, s.width)
      BY DEF SizeOf
  <2> QED BY ONLY <1>1, <2>1, type \in Types DEF Arg
<1>3. PICK args : args = Append(s.args, arg)
    OBVIOUS
<1>4. args \in Seq(Arg)
    BY ONLY <1>2, <1>3, Scan(s) DEF Scan
<1>5. AddArg(s, type) = IF Len(s.args) >= MaxArgs THEN [s EXCEPT !.returned = TRUE]
                        ELSE [s EXCEPT !.args = args]
    BY <1>1, <1>3 DEF AddArg
<1>6. Scan([s EXCEPT !.returned = TRUE])
    BY DEF Scan
<1>7. Scan([s EXCEPT !.args = args])
    BY ONLY <1>4, Scan(s) DEF Scan
<1> QED BY <1>5, <1>6, <1>7

\* Every conversion character, known or not, has a type of the table or none.
LEMMA ConversionTypeType ==
    ASSUME NEW c, NEW prefix
    PROVE  ConversionType(c, prefix) \in Types
<1>1. IntType(prefix) \in Types
    BY Zenon DEF IntType, Types
<1>2. StringType(c, prefix) \in Types
    BY Zenon DEF StringType, Types, StringTypes
<1>3. FloatType(prefix) \in Types
    BY Zenon DEF FloatType, Types
<1>4. CharType(prefix) \in Types
    BY Zenon DEF CharType, Types
<1>5. NoType \in Types /\ "PVOID" \in Types
    BY Zenon DEF Types
<1> QED BY ONLY <1>1, <1>2, <1>3, <1>4, <1>5, Zenon DEF ConversionType

\* One character.
LEMMA ScanStepType ==
    ASSUME NEW s, Scan(s), NEW rest
    PROVE  Scan(ScanStep(s, rest))
<1>1. Scan(StarStep(s))
  <2>1. PICK type : type = "INT32"
      OBVIOUS
  <2>2. type \in Types
      BY <2>1 DEF Types
  <2>3. PICK a : a = AddArg(s, type)
      OBVIOUS
  <2>4. Scan(a)
      BY <2>2, <2>3, AddArgType
  <2>5. StarStep(s) = [a EXCEPT !.width = TRUE]
      BY <2>1, <2>3 DEF StarStep
  <2> QED BY ONLY <2>4, <2>5 DEF Scan
<1>2. Scan(PrefixStep(s, rest))
  <2>1. PICK p : p = find_prefix(rest)
      OBVIOUS
  <2>2. PICK t : t = [s EXCEPT !.prefix = p, !.skip = Len(p) - 1, !.width = @ \/ Last(p) \in Digits]
      OBVIOUS
  <2>3. PrefixStep(s, rest) = IF p = <<>> THEN s ELSE t
      BY <2>1, <2>2, Zenon DEF PrefixStep
  <2>4. Scan(t)
      BY ONLY <2>2, Scan(s) DEF Scan
  <2> QED BY <2>3, <2>4
<1>3. PICK c : c = Head(rest)
    OBVIOUS
<1>4. PICK a : a = AddArg(s, ConversionType(c, s.prefix))
    OBVIOUS
<1>5. Scan(a)
  <2>1. PICK type \in Types : type = ConversionType(c, s.prefix)
      BY ConversionTypeType
  <2> QED BY <1>4, <2>1, AddArgType
<1>6. Scan([a EXCEPT !.percent = FALSE]) /\ Scan([s EXCEPT !.percent = FALSE])
      /\ Scan([s EXCEPT !.width = TRUE])
    BY ONLY <1>5, Scan(s) DEF Scan
<1>7. Scan(DirectiveStep(s, rest))
    BY <1>1, <1>2, <1>3, <1>4, <1>6, Zenon DEF DirectiveStep
<1>8. Scan([s EXCEPT !.skip = @ - 1])
    BY DEF Scan
<1>9. Scan([s EXCEPT !.percent = TRUE, !.prefix = <<>>, !.width = FALSE])
    BY DEF Scan
<1> QED BY <1>7, <1>8, <1>9, Zenon DEF ScanStep

\* The whole format.
LEMMA ParseType ==
    ASSUME NEW format, Len(format) \in Nat
    PROVE  parse_format_string(format) \in Seq(Arg)
<1>1. PICK n \in Nat : n = Len(format)
    OBVIOUS
<1>2. PICK seq : seq = [i \in 1 .. n |-> SubSeq(format, i, n)]
    OBVIOUS
<1>3. PICK h : Scanned(h, ScanStart, seq, n) /\ FoldLeft(ScanStep, ScanStart, seq) = h[n]
  <2>1. DOMAIN seq = 1 .. n
      BY <1>2
  <2> QED BY ONLY <2>1, n \in Nat, ScanTurns
<1>4. h[0] = ScanStart /\ \A k \in 1 .. n : h[k] = ScanStep(h[k - 1], seq[k])
    BY <1>3 DEF Scanned
<1> DEFINE T == {k \in Nat : k <= n => Scan(h[k])}
<1>5. 0 \in T
  <2>1. Scan(ScanStart)
    <3>1. <<>> \in Seq(Arg)
        OBVIOUS
    <3> QED BY <3>1 DEF ScanStart, Scan
  <2> QED BY <1>4, <2>1
<1>6. ASSUME NEW k \in Nat, k \in T PROVE k + 1 \in T
  <2> SUFFICES ASSUME k + 1 <= n PROVE Scan(h[k + 1])
      OBVIOUS
  <2>1. PICK s : s = h[k] /\ Scan(s)
      BY <1>6
  <2>2. k + 1 \in 1 .. n /\ (k + 1) - 1 = k
      OBVIOUS
  <2>3. PICK rest : rest = seq[k + 1]
      OBVIOUS
  <2>4. h[k + 1] = ScanStep(s, rest)
      BY <1>4, <2>1, <2>2, <2>3
  <2>5. Scan(ScanStep(s, rest))
      BY <2>1, ScanStepType
  <2> QED BY <2>4, <2>5
<1>7. Nat \subseteq T
    BY <1>5, <1>6, NatSetInduction, Zenon
<1>8. Scan(h[n])
    BY <1>7
<1>9. parse_format_string(format) = h[n].args
    BY <1>1, <1>2, <1>3 DEF parse_format_string
<1> QED BY <1>8, <1>9 DEF Scan

\* The strings among the first k arguments.
StringsUpTo(args, k) == {i \in 1 .. k : args[i].type \in StringTypes}

\* The strings among one more argument are one more exactly when that one is a string.
LEMMA StringsNext ==
    ASSUME NEW args, NEW k \in Nat
    PROVE  /\ Cardinality(StringsUpTo(args, 0)) = 0 /\ Cardinality(StringsUpTo(args, k)) \in Nat
           /\ Cardinality(StringsUpTo(args, k + 1))
                = Cardinality(StringsUpTo(args, k)) + (IF args[k + 1].type \in StringTypes THEN 1 ELSE 0)
           /\ \A n \in Nat : k <= n => Cardinality(StringsUpTo(args, k)) <= Cardinality(StringsUpTo(args, n))
<1>1. \A n \in Nat : IsFiniteSet(StringsUpTo(args, n)) /\ Cardinality(StringsUpTo(args, n)) \in Nat
  <2> TAKE n \in Nat
  <2>1. IsFiniteSet(1 .. n)
      BY FS_Interval
  <2>2. StringsUpTo(args, n) \subseteq 1 .. n
      BY DEF StringsUpTo
  <2>3. IsFiniteSet(StringsUpTo(args, n))
      BY <2>1, <2>2, FS_Subset
  <2> QED BY <2>3, FS_CardinalityType
<1>2. StringsUpTo(args, 0) = {}
    BY DEF StringsUpTo
<1>3. \A n \in Nat : k <= n => Cardinality(StringsUpTo(args, k)) <= Cardinality(StringsUpTo(args, n))
  <2> SUFFICES ASSUME NEW n \in Nat, k <= n
               PROVE  Cardinality(StringsUpTo(args, k)) <= Cardinality(StringsUpTo(args, n))
      OBVIOUS
  <2>1. StringsUpTo(args, k) \subseteq StringsUpTo(args, n)
      BY DEF StringsUpTo
  <2> QED BY <1>1, <2>1, FS_Subset
<1>4. CASE args[k + 1].type \in StringTypes
  <2>1. StringsUpTo(args, k + 1) = StringsUpTo(args, k) \cup {k + 1} /\ k + 1 \notin StringsUpTo(args, k)
      BY <1>4 DEF StringsUpTo
  <2> QED BY <1>1, <1>2, <1>4, <2>1, FS_AddElement, FS_EmptySet, <1>3
<1>5. CASE args[k + 1].type \notin StringTypes
  <2>1. StringsUpTo(args, k + 1) = StringsUpTo(args, k)
      BY <1>5 DEF StringsUpTo
  <2> QED BY <1>1, <1>2, <1>5, <2>1, FS_EmptySet, <1>3
<1> QED BY <1>4, <1>5

\* An argument: one string of the call is used for every string.
LEMMA ArgStepType ==
    ASSUME NEW r, r.pieces \in Seq(Nat), r.rest \in Seq(Nat), NEW arg \in Arg,
           arg.type \in StringTypes => r.rest # <<>>,
           r = [pieces |-> r.pieces, rest |-> r.rest], NEW s, s = ArgStep(r, arg)
    PROVE  /\ s.pieces \in Seq(Nat) /\ s.rest \in Seq(Nat)
           /\ s = [pieces |-> s.pieces, rest |-> s.rest]
           /\ Len(s.rest) = Len(r.rest) - (IF arg.type \in StringTypes THEN 1 ELSE 0)
<1>1. CASE arg.type \in StringTypes
  <2>1. s = [pieces |-> r.pieces \o <<2, Head(r.rest)>>, rest |-> Tail(r.rest)]
      BY <1>1 DEF ArgStep, LenLen
  <2>2. /\ Head(r.rest) \in Nat /\ Tail(r.rest) \in Seq(Nat) /\ Len(Tail(r.rest)) = Len(r.rest) - 1
      BY <1>1
  <2>3. r.pieces \o <<2, Head(r.rest)>> \in Seq(Nat)
    <3>1. <<2, Head(r.rest)>> \in Seq(Nat)
        BY <2>2
    <3> QED BY <3>1
  <2> QED BY <1>1, <2>1, <2>2, <2>3
<1>2. CASE arg.type \notin StringTypes
  <2>1. s = [r EXCEPT !.pieces = Append(r.pieces, arg.size)]
      BY <1>2 DEF ArgStep
  <2>2. Append(r.pieces, arg.size) \in Seq(Nat)
      BY DEF Arg
  <2>3. s = [pieces |-> Append(r.pieces, arg.size), rest |-> r.rest]
      BY <2>1
  <2> QED BY <1>2, <2>2, <2>3
<1> QED BY <1>1, <1>2

\* All the arguments of a log.
LEMMA ArgPiecesType ==
    ASSUME NEW args \in Seq(Arg), NEW strings \in Seq(Nat),
           Cardinality(StringArgs(args)) <= Len(strings)
    PROVE  ArgPieces(args, strings) \in Seq(Nat)
<1>1. PICK n \in Nat : n = Len(args)
    OBVIOUS
<1>2. PICK r : r = [pieces |-> <<>>, rest |-> strings]
    OBVIOUS
<1>3. PICK h : ArgsTaken(h, r, args, n) /\ FoldLeft(ArgStep, r, args) = h[n]
  <2>1. DOMAIN args = 1 .. n
      BY <1>1
  <2> QED BY ONLY <2>1, n \in Nat, ArgTurns
<1>4. h[0] = r /\ \A k \in 1 .. n : h[k] = ArgStep(h[k - 1], args[k])
    BY <1>3 DEF ArgsTaken
<1>5. Cardinality(StringsUpTo(args, n)) <= Len(strings)
    BY <1>1 DEF StringsUpTo, StringArgs
<1> DEFINE Good(k) == /\ h[k].pieces \in Seq(Nat) /\ h[k].rest \in Seq(Nat)
                      /\ h[k] = [pieces |-> h[k].pieces, rest |-> h[k].rest]
                      /\ Len(h[k].rest) = Len(strings) - Cardinality(StringsUpTo(args, k))
           T == {k \in Nat : k <= n => Good(k)}
<1>6. Good(0)
  <2>1. r.pieces = <<>> /\ r.rest = strings /\ r = [pieces |-> r.pieces, rest |-> r.rest]
      BY <1>2
  <2>2. Cardinality(StringsUpTo(args, 0)) = 0
      BY StringsNext
  <2>3. h[0] = r /\ <<>> \in Seq(Nat)
      BY <1>4
  <2>4. Len(strings) = Len(strings) - Cardinality(StringsUpTo(args, 0))
    <3>1. Len(strings) \in Nat
        OBVIOUS
    <3> QED BY <2>2, <3>1
  <2> QED BY ONLY <2>1, <2>3, <2>4, strings \in Seq(Nat), Zenon
<1> HIDE DEF Good
<1>7. 0 \in T
    BY <1>6
<1>8. ASSUME NEW k \in Nat, k \in T PROVE k + 1 \in T
  <2> SUFFICES ASSUME k + 1 <= n PROVE Good(k + 1)
      OBVIOUS
  <2>1. Good(k)
      BY <1>8
  <2>2. PICK q : q = h[k]
      OBVIOUS
  <2>3. PICK s : s = h[k + 1]
      OBVIOUS
  <2>4. PICK arg : arg = args[k + 1]
      OBVIOUS
  <2>5. k + 1 \in 1 .. n /\ (k + 1) - 1 = k /\ arg \in Arg
      BY <1>1, <2>4
  <2>6. s = ArgStep(q, arg)
      BY <1>4, <2>2, <2>3, <2>4, <2>5
  <2>7. /\ q.pieces \in Seq(Nat) /\ q.rest \in Seq(Nat) /\ q = [pieces |-> q.pieces, rest |-> q.rest]
        /\ Len(q.rest) = Len(strings) - Cardinality(StringsUpTo(args, k))
      BY ONLY <2>1, <2>2 DEF Good
  <2>8. /\ Cardinality(StringsUpTo(args, k)) \in Nat /\ Cardinality(StringsUpTo(args, k + 1)) \in Nat
        /\ Cardinality(StringsUpTo(args, k + 1))
             = Cardinality(StringsUpTo(args, k)) + (IF arg.type \in StringTypes THEN 1 ELSE 0)
        /\ Cardinality(StringsUpTo(args, k + 1)) <= Cardinality(StringsUpTo(args, n))
        /\ Cardinality(StringsUpTo(args, n)) \in Nat
      BY <2>4, StringsNext
  <2>9. arg.type \in StringTypes => q.rest # <<>>
    <3> SUFFICES ASSUME arg.type \in StringTypes PROVE Len(q.rest) # 0
        BY <2>7
    <3>1. PICK x \in Nat : x = Len(strings)
        OBVIOUS
    <3> QED BY <1>5, <2>7, <2>8, <3>1
  <2>10. /\ s.pieces \in Seq(Nat) /\ s.rest \in Seq(Nat) /\ s = [pieces |-> s.pieces, rest |-> s.rest]
         /\ Len(s.rest) = Len(q.rest) - (IF arg.type \in StringTypes THEN 1 ELSE 0)
      BY ONLY <2>5, <2>6, <2>7, <2>9, ArgStepType
  <2>11. Len(s.rest) = Len(strings) - Cardinality(StringsUpTo(args, k + 1))
    <3>1. PICK x \in Nat, y \in Nat : x = Len(strings) /\ y = Cardinality(StringsUpTo(args, k))
        BY <2>8
    <3>2. Len(q.rest) = x - y
        BY <2>7, <3>1
    <3>3. PICK z \in Nat : z = IF arg.type \in StringTypes THEN 1 ELSE 0
        OBVIOUS
    <3>4. Len(s.rest) = (x - y) - z
        BY <2>10, <3>2, <3>3
    <3>5. Cardinality(StringsUpTo(args, k + 1)) = y + z
        BY <2>8, <3>1, <3>3
    <3> QED BY <3>1, <3>4, <3>5
  <2> QED BY ONLY <2>3, <2>10, <2>11 DEF Good
<1>9. Nat \subseteq T
    BY <1>7, <1>8, NatSetInduction, Zenon
<1>10. Good(n)
    BY <1>9
<1>11. ArgPieces(args, strings) = h[n].pieces
    BY <1>2, <1>3 DEF ArgPieces
<1> QED BY <1>10, <1>11 DEF Good

\* The arguments of a call are numbers of bytes, and its attributes are attributes.
LEMMA CallType ==
    ASSUME NEW c \in DOMAIN CallOf
    PROVE  /\ Arguments(CallOf[c]) \in Seq(Nat) /\ CallOf[c].attrs \in Seq(Attr)
           /\ HdrLen(c) \in {LogHdr, BeginHdr, EndHdr} /\ HdrLen(c) \in Nat
<1>1. CallOf[c].attrs \in Seq(Attr)
    BY CallsAssumption DEF Attr
<1>2. HdrLen(c) \in {LogHdr, BeginHdr, EndHdr} /\ HdrLen(c) \in Nat
    BY DEF HdrLen, HdrOf, LogHdr, BeginHdr, EndHdr
<1>3. CASE IsLog(c)
  <2>1. PICK format : format = CallOf[c].format
      OBVIOUS
  <2>2. PICK strings : strings = CallOf[c].strings
      OBVIOUS
  <2>3. /\ format \in Seq(STRING) /\ strings \in Seq(Nat)
        /\ Cardinality(StringArgs(parse_format_string(format))) <= Len(strings)
      BY <1>3, <2>1, <2>2, CallsAssumption
  <2>4. PICK args \in Seq(Arg) : args = parse_format_string(format)
      BY <2>3, ParseType
  <2>5. ArgPieces(args, strings) \in Seq(Nat)
      BY <2>3, <2>4, ArgPiecesType
  <2> QED BY <1>1, <1>2, <1>3, <2>1, <2>2, <2>4, <2>5 DEF Arguments, IsLog
<1>4. CASE ~ IsLog(c)
  <2>1. Arguments(CallOf[c]) = <<>>
      BY <1>4 DEF Arguments, IsLog
  <2> QED BY <1>1, <1>2, <2>1
<1> QED BY <1>3, <1>4

\* The fields of the record of a call.
Contents(c, args, size, r) ==
    /\ args = Arguments(CallOf[c]) /\ args \in Seq(Nat) /\ size = HdrLen(c) + SumFunction(args)
    /\ Serialized(size, CallOf[c].attrs, Len(CallOf[c].attrs), r)
    /\ RecordOf[c].pieces = args \o r.pieces /\ RecordOf[c].cut = r.cut
    /\ RecordOf[c].mu_args_size = SumFunction(args) % SizeMod
    /\ RecordOf[c].mu_size = Padded(r.size) % SizeMod /\ RecordOf[c].pad = Padded(r.size) - r.size

\* What RecordOf says of a call, named: its arguments, their size, the attributes behind them.
LEMMA RecordFields ==
    ASSUME NEW c \in DOMAIN CallOf
    PROVE  \E args, size, r : Contents(c, args, size, r)
<1>1. PICK args \in Seq(Nat) : args = Arguments(CallOf[c])
    BY CallType
<1>2. PICK n \in Nat : n = SumFunction(args)
    BY UpToSumNat
<1>3. PICK size \in Nat : size = HdrLen(c) + n
    BY CallType
<1>4. PICK attrs \in Seq(Attr) : attrs = CallOf[c].attrs
    BY CallType
<1>5. PICK r : r = serialize_attrs(size, attrs)
    OBVIOUS
<1>6. Serialized(size, attrs, Len(attrs), r)
    BY <1>5, AttrsRight
<1>7. RecordOf[c] = RecordWith(args, n, r)
    BY <1>1, <1>2, <1>3, <1>4, <1>5 DEF RecordOf, HdrLen
<1>8. /\ RecordOf[c].pieces = args \o r.pieces /\ RecordOf[c].cut = r.cut
      /\ RecordOf[c].mu_args_size = n % SizeMod
      /\ RecordOf[c].mu_size = Padded(r.size) % SizeMod /\ RecordOf[c].pad = Padded(r.size) - r.size
    BY <1>7 DEF RecordWith
<1>9. Contents(c, args, size, r)
    BY <1>1, <1>2, <1>3, <1>4, <1>6, <1>8 DEF Contents
<1> QED BY <1>9

\* Padding to a multiple of 8.
LEMMA PaddedFacts ==
    ASSUME NEW n \in Nat
    PROVE  /\ Padded(n) \in Nat /\ Padded(n) - n \in 0 .. 7 /\ Padded(n) % 8 = 0
           /\ \A m \in Nat : m % 8 = 0 /\ n <= m => Padded(n) <= m
<1>1. PICK q \in Int : q = (n + 7) \div 8
    OBVIOUS
<1>2. n + 7 = 8 * q + ((n + 7) % 8) /\ (n + 7) % 8 \in 0 .. 7
    BY <1>1
<1>3. Padded(n) = 8 * q
    BY <1>1 DEF Padded
<1>4. Padded(n) \in Nat /\ Padded(n) - n \in 0 .. 7
    BY <1>2, <1>3
<1>5. Padded(n) % 8 = 0
    BY <1>3, Mod8
<1>6. ASSUME NEW m \in Nat, m % 8 = 0, n <= m PROVE Padded(n) <= m
  <2>1. PICK p \in Int : m = 8 * p
      BY <1>6, Mod8
  <2>2. 8 * q < 8 * p + 8
      BY <1>2, <1>6, <2>1
  <2> QED BY <1>3, <2>1, <2>2
<1> QED BY <1>4, <1>5, <1>6

\* What WriteRecord needs of the record.
LEMMA RecordFacts ==
    ASSUME NEW c \in DOMAIN CallOf, NEW fits, fits => ArgsFit
    PROVE  Record(c, fits)
<1>1. PICK args, size, r : Contents(c, args, size, r)
    BY RecordFields
<1>2. /\ args \in Seq(Nat) /\ args = Arguments(CallOf[c]) /\ size = HdrLen(c) + SumFunction(args)
      /\ r \in AttrState /\ r.size = size + SumFunction(r.pieces)
      /\ size <= MaxRecord => r.size <= MaxRecord
    BY <1>1 DEF Contents, Serialized
<1>3. r.pieces \in Seq(Nat) /\ r.size \in Nat
    BY <1>2 DEF AttrState
<1>4. PICK hdr \in Nat : hdr = HdrLen(c)
    BY CallType
<1>5. PICK pieces \in Seq(Nat) : pieces = RecordOf[c].pieces
  <2>1. RecordOf[c].pieces = args \o r.pieces
      BY <1>1 DEF Contents
  <2>2. args \o r.pieces \in Seq(Nat)
      BY <1>2, <1>3
  <2> QED BY <2>1, <2>2
<1>6. hdr + SumFunction(pieces) = r.size
  <2>1. SumFunction(pieces) = SumFunction(args) + SumFunction(r.pieces)
      BY <1>1, <1>2, <1>3, <1>5, SumConcat DEF Contents
  <2>2. SumFunction(args) \in Nat /\ SumFunction(r.pieces) \in Nat
      BY <1>2, <1>3, UpToSumNat
  <2> QED BY <1>2, <1>4, <2>1, <2>2
<1>7. PICK padded \in Nat : padded = Padded(r.size)
    BY <1>3, PaddedFacts
<1>8. padded - r.size \in 0 .. 7 /\ padded % 8 = 0 /\ RecordOf[c].pad = padded - r.size
    BY <1>1, <1>3, <1>7, PaddedFacts DEF Contents
<1>9. RecordOf[c].mu_size = padded % SizeMod /\ SizeMod \in Nat /\ SizeMod # 0
    BY <1>1, <1>7, RecordsAssumption DEF Contents
<1>10. RecordOf[c].mu_size \in Nat
    BY <1>7, <1>9
<1>11. HdrLen(c) + SumFunction(RecordOf[c].pieces) + RecordOf[c].pad = padded
    BY <1>3, <1>4, <1>5, <1>6, <1>7, <1>8
<1>12. ASSUME fits PROVE padded = RecordOf[c].mu_size
  <2>1. size <= MaxRecord
      BY <1>2, <1>12 DEF ArgsFit
  <2>2. padded <= MaxRecord
      BY <1>2, <1>3, <1>7, <2>1, PaddedFacts, MaxRecordNat
  <2>3. padded < SizeMod
      BY <1>7, <1>9, <2>2, MaxRecordNat
  <2> QED BY <1>7, <1>9, <2>3
<1> QED BY <1>5, <1>8, <1>10, <1>11, <1>12, CallType DEF Record

\* The attributes of every call are cut right.
LEMMA CutRightAll ==
    ASSUME ArgsFit, NEW c \in DOMAIN CallOf
    PROVE  CutRight[c]
<1>1. PICK args, size, r : Contents(c, args, size, r)
    BY RecordFields
<1>2. PICK attrs : attrs = CallOf[c].attrs
    OBVIOUS
<1>3. PICK cut : cut = RecordOf[c].cut
    OBVIOUS
<1>4. /\ args \in Seq(Nat) /\ args = Arguments(CallOf[c]) /\ size = HdrLen(c) + SumFunction(args)
      /\ Serialized(size, attrs, Len(attrs), r) /\ cut = r.cut
    BY <1>1, <1>2, <1>3 DEF Contents
<1>5. /\ r \in AttrState /\ r.size = SizeBehind(size, attrs, cut, Len(attrs))
      /\ size <= MaxRecord => r.size <= MaxRecord
      /\ \A a \in 1 .. Len(attrs) : RightAt(size, attrs, cut, a)
    BY <1>4 DEF Serialized
<1>6. PICK sum \in Nat : sum = SumFunction(args)
    BY <1>4, UpToSumNat
<1>7. PICK hdr \in Nat : hdr = HdrLen(c)
    BY CallType
<1>8. size <= MaxRecord
    BY <1>4 DEF ArgsFit
<1>9. SizeMod \in Nat /\ SizeMod # 0
    BY RecordsAssumption
<1>10. RecordOf[c].mu_args_size = sum
  <2>1. sum < SizeMod
    <3>1. hdr + sum <= MaxRecord
        BY <1>4, <1>6, <1>7, <1>8
    <3>2. PICK m \in Nat : m = MaxRecord /\ m < SizeMod
        BY MaxRecordNat
    <3> QED BY <1>9, <3>1, <3>2
  <2>2. sum % SizeMod = sum
      BY <1>9, <2>1
  <2> QED BY <1>1, <1>6, <1>4, <2>2 DEF Contents
<1>11. \A a : SizeUpTo(c, a) = SizeBehind(size, attrs, cut, a)
  <2> SUFFICES ASSUME NEW a PROVE SizeUpTo(c, a) = SizeBehind(size, attrs, cut, a)
      OBVIOUS
  <2>1. [i \in 1 .. a |-> LET n == RecordOf[c].cut[i]
                          IN IF n = -1 THEN 0 ELSE SumFunction(AttrPieces(CallOf[c].attrs[i], n))]
          = [i \in 1 .. a |-> AttrSize(attrs[i], cut[i])]
      BY <1>2, <1>3 DEF AttrSize
  <2>2. size = HdrLen(c) + RecordOf[c].mu_args_size
      BY <1>4, <1>6, <1>10
  <2> QED BY <2>1, <2>2 DEF SizeUpTo, SizeBehind
<1>12. RecordOf[c].mu_size = Padded(SizeUpTo(c, Len(attrs)))
  <2>1. r.size \in Nat
      BY <1>5 DEF AttrState
  <2>2. PICK padded \in Nat : padded = Padded(r.size)
      BY <2>1, PaddedFacts
  <2>3. padded <= MaxRecord
      BY <1>5, <1>8, <2>1, <2>2, PaddedFacts, MaxRecordNat
  <2>4. padded < SizeMod
      BY <1>9, <2>3, MaxRecordNat
  <2>5. padded % SizeMod = padded
      BY <1>9, <2>4
  <2>6. RecordOf[c].mu_size = Padded(r.size) % SizeMod
      BY <1>1 DEF Contents
  <2> QED BY <1>5, <1>11, <2>2, <2>5, <2>6
<1>13. ASSUME NEW a \in 1 .. Len(attrs), cut[a] # -1 /\ attrs[a].text # NoText
       PROVE  /\ CharEnd(attrs[a].text, cut[a])
              /\ \/ cut[a] = Len(attrs[a].text)
                 \/ SizeUpTo(c, a) - cut[a] + NextEnd(attrs[a].text, cut[a]) > MaxRecord
  <2>1. RightAt(size, attrs, cut, a)
      BY <1>5
  <2>2. SizeUpTo(c, a) = SizeBehind(size, attrs, cut, a)
      BY <1>11
  <2> QED BY <1>13, <2>1, <2>2 DEF RightAt
<1> QED BY <1>2, <1>3, <1>12, <1>13 DEF CutRight

-------------------------------------------------------------------------------
(*****************************************************************************)
(* The invariant: every writer is settled between two steps, the receiver    *)
(* has found the records whose calls returned, and a call that waits has no  *)
(* buffer.                                                                   *)
(*****************************************************************************)
WriterState == [frags : Seq(Buf), buf : {NoBuf} \cup Buf, used : Nat, seq : Nat, dropped : Nat]
Accepted    == [rec : Nat, call : DOMAIN CallOf]

EntryOf(a) == [rec |-> a.rec, mu_size |-> RecordOf[a.call].mu_size]

EntriesOf(list) == [i \in 1 .. Len(list) |-> EntryOf(list[i])]

WriterInv(P, list, fits, st, call, calls) ==
    /\ Settled(P, EntriesOf(list), fits, st) /\ AlignedBufs(P)
    /\ call # NoCall => st.buf = NoBuf /\ call \in calls

TypeOK ==
    /\ writer \in [Writers -> WriterState] /\ DOMAIN waiting = Writers
    /\ mu_free \in Int /\ mu_held \in Int
    /\ accepted \in [Writers -> Seq(Accepted)] /\ pulled \in [Writers -> Seq(Buf)]

Inv(fits) ==
    /\ TypeOK
    /\ \A w \in Writers : WriterInv(pulled[w], accepted[w], fits, writer[w], waiting[w], Calls[w])

\* The entries of one record more.
LEMMA EntriesSnoc ==
    ASSUME NEW list \in Seq(Accepted)
    PROVE  /\ EntriesOf(list) \in Seq(Entry)
           /\ \A a \in Accepted : EntriesOf(Append(list, a)) = Append(EntriesOf(list), EntryOf(a))
<1>1. ASSUME NEW a \in Accepted PROVE EntryOf(a) \in Entry
  <2>1. a.call \in DOMAIN CallOf /\ a.rec \in Nat
      BY DEF Accepted
  <2>2. Record(a.call, FALSE)
      BY <2>1, RecordFacts
  <2> QED BY <2>1, <2>2 DEF Record, EntryOf, Entry
<1>2. EntriesOf(list) \in Seq(Entry)
  <2>1. \A i \in 1 .. Len(list) : list[i] \in Accepted
      OBVIOUS
  <2>2. \A i \in 1 .. Len(list) : EntryOf(list[i]) \in Entry
      BY <1>1, <2>1
  <2> QED BY <2>2 DEF EntriesOf
<1>3. ASSUME NEW a \in Accepted
      PROVE  EntriesOf(Append(list, a)) = Append(EntriesOf(list), EntryOf(a))
  <2>1. PICK more : more = Append(list, a)
      OBVIOUS
  <2>2. PICK n \in Nat : n = Len(list)
      OBVIOUS
  <2>3. Len(more) = n + 1 /\ more[n + 1] = a /\ \A i \in 1 .. n : more[i] = list[i]
      BY <2>1, <2>2
  <2>4. PICK e \in Seq(Entry) : e = EntriesOf(list)
      BY <1>2
  <2>5. Len(e) = n /\ \A i \in 1 .. n : e[i] = EntryOf(list[i])
      BY <2>2, <2>4 DEF EntriesOf
  <2>6. \A i \in 1 .. (n + 1) : EntryOf(more[i]) = Append(e, EntryOf(a))[i]
      BY <2>3, <2>5
  <2>7. EntriesOf(more) = [i \in 1 .. (n + 1) |-> EntryOf(more[i])]
      BY <2>3 DEF EntriesOf
  <2>8. Append(e, EntryOf(a)) = [i \in 1 .. (n + 1) |-> Append(e, EntryOf(a))[i]]
    <3>1. PICK x \in Entry : x = EntryOf(a)
        BY <1>1
    <3>2. PICK g : g = Append(e, x)
        OBVIOUS
    <3>3. g \in Seq(Entry) /\ DOMAIN g = 1 .. (n + 1)
        BY <2>4, <2>5, <3>1, <3>2
    <3>4. g = [i \in 1 .. (n + 1) |-> g[i]]
        BY <3>3
    <3> QED BY <3>1, <3>2, <3>4
  <2>9. EntriesOf(more) = Append(e, EntryOf(a))
      BY <2>6, <2>7, <2>8
  <2> QED BY <2>1, <2>4, <2>9
<1> QED BY <1>2, <1>3

\* The invariant holds at first.
LEMMA InvInit ==
    ASSUME Init, NEW fits
    PROVE  Inv(fits)
<1>1. TypeOK
  <2>1. <<>> \in Seq(Buf) /\ <<>> \in Seq(Accepted)
      OBVIOUS
  <2>2. [frags |-> <<>>, buf |-> NoBuf, used |-> 0, seq |-> 0, dropped |-> 0] \in WriterState
      BY <2>1 DEF WriterState
  <2>3. Capacity \in Int
      BY RecordsAssumption
  <2> QED BY <2>1, <2>2, <2>3 DEF Init, TypeOK
<1>2. ASSUME NEW w \in Writers
      PROVE  WriterInv(pulled[w], accepted[w], fits, writer[w], waiting[w], Calls[w])
  <2>1. PICK st : st = writer[w]
      OBVIOUS
  <2>2. /\ st.frags = <<>> /\ st.buf = NoBuf /\ st.used = 0 /\ st.seq = 0
        /\ waiting[w] = NoCall /\ accepted[w] = <<>> /\ pulled[w] = <<>>
      BY <2>1 DEF Init
  <2>3. EntriesOf(<<>>) = <<>>
      BY DEF EntriesOf
  <2>4. <<>> \in Seq(Buf) /\ Len(<<>>) = 0 /\ <<>> \o <<>> = <<>> /\ AlignedBufs(<<>>)
      BY DEF AlignedBufs
  <2>5. After(<<>>) = Found(<<>>, 0, 0, 0)
      BY AfterNothing DEF ReadStart, Found
  <2>6. Settled(<<>>, <<>>, fits, st)
      BY <2>2, <2>4, <2>5 DEF Settled
  <2> QED BY <2>1, <2>2, <2>3, <2>4, <2>6 DEF WriterInv
<1> QED BY <1>1, <1>2 DEF Inv

\* A call of a writer is written or dropped: the others are not touched.
LEMMA WroteKeeps ==
    ASSUME NEW fits, fits => ArgsFit, Inv(fits), NEW w \in Writers, NEW c \in Calls[w],
           NEW st0, NEW d, d = WriteRecord(st0, c),
           Ready(pulled[w], st0, EntriesOf(accepted[w]), fits),
           st0.dropped = writer[w].dropped, st0.used + HdrLen(c) <= BufMax,
           Wrote(w, d, c), UNCHANGED <<mu_held, pulled>>,
           DOMAIN waiting' = Writers, waiting'[w] = NoCall,
           \A v \in Writers : v # w => waiting'[v] = waiting[v]
    PROVE  Inv(fits)'
<1>1. /\ TypeOK
      /\ \A v \in Writers : WriterInv(pulled[v], accepted[v], fits, writer[v], waiting[v], Calls[v])
    BY DEF Inv
<1>2. /\ writer \in [Writers -> WriterState] /\ accepted \in [Writers -> Seq(Accepted)]
      /\ pulled \in [Writers -> Seq(Buf)] /\ mu_held \in Int
    BY <1>1 DEF TypeOK
<1>3. c \in DOMAIN CallOf
    BY CallsAssumption
<1>4. PICK P \in Seq(Buf) : P = pulled[w]
    BY <1>2
<1>5. PICK list \in Seq(Accepted) : list = accepted[w]
    BY <1>2
<1>6. PICK E \in Seq(Entry) : E = EntriesOf(list)
    BY EntriesSnoc
<1>7. PICK a : a = [rec |-> st0.rec, call |-> c]
    OBVIOUS
<1>8. Ready(P, st0, E, fits)
    BY <1>4, <1>5, <1>6
<1>9. st0 \in WState
    BY <1>8 DEF Ready, Layout
<1>10. a \in Accepted
  <2>1. st0.rec \in Nat
      BY <1>9 DEF WState
  <2> QED BY <1>3, <1>7, <2>1 DEF Accepted
<1>11. EntryOf(a) = [rec |-> st0.rec, mu_size |-> RecordOf[c].mu_size]
    BY <1>7 DEF EntryOf
<1>12. \/ AfterRecord(P, Append(E, EntryOf(a)), fits, st0, d, TRUE)
       \/ AfterRecord(P, E, fits, st0, d, FALSE)
  <2>1. Record(c, fits)
      BY <1>3, RecordFacts
  <2> QED BY <1>8, <1>11, <2>1, WriteSettled
<1>13. PICK new : new = IF d.ok THEN Append(list, a) ELSE list
    OBVIOUS
<1>14. new \in Seq(Accepted) /\ Settled(P, EntriesOf(new), fits, d) /\ d.free \in Int
       /\ d.rec = st0.rec /\ d.dropped \in Nat /\ d.ok \in BOOLEAN
  <2>1. st0.dropped \in Nat
      BY <1>9 DEF WState
  <2>2. CASE AfterRecord(P, Append(E, EntryOf(a)), fits, st0, d, TRUE)
    <3>1. d.ok = TRUE /\ d.free \in Int /\ d.rec = st0.rec /\ d.dropped = st0.dropped + 0
        BY <2>2 DEF AfterRecord
    <3>2. new = Append(list, a) /\ EntriesOf(new) = Append(E, EntryOf(a))
        BY <1>6, <1>10, <1>13, <3>1, EntriesSnoc
    <3>3. Settled(P, EntriesOf(new), fits, d)
        BY <2>2, <3>2 DEF AfterRecord
    <3>4. new \in Seq(Accepted)
        BY <1>10, <3>2
    <3>5. d.dropped \in Nat
        BY <2>1, <3>1
    <3>6. d.ok \in BOOLEAN
        BY <3>1, Zenon
    <3> QED BY <3>1, <3>3, <3>4, <3>5, <3>6, Zenon
  <2>3. CASE AfterRecord(P, E, fits, st0, d, FALSE)
    <3>1. d.ok = FALSE /\ d.free \in Int /\ d.rec = st0.rec /\ d.dropped = st0.dropped + 1
        BY <2>3 DEF AfterRecord
    <3>2. new = list
        BY <1>13, <3>1
    <3>3. Settled(P, EntriesOf(new), fits, d)
        BY <1>6, <2>3, <3>2 DEF AfterRecord
    <3>4. new \in Seq(Accepted)
        BY <3>2
    <3>5. d.dropped \in Nat
        BY <2>1, <3>1
    <3>6. d.ok \in BOOLEAN
        BY <3>1, Zenon
    <3> QED BY <3>1, <3>3, <3>4, <3>5, <3>6, Zenon
  <2> QED BY <1>12, <2>2, <2>3
<1>15. PICK st : st = [frags |-> d.frags, buf |-> d.buf, used |-> d.used, seq |-> d.seq,
                       dropped |-> d.dropped]
    OBVIOUS
<1>16. st \in WriterState /\ Settled(P, EntriesOf(new), fits, st)
  <2>1. d.frags \in Seq(Buf) /\ d.used \in Nat /\ d.seq \in Nat /\ d.buf \in {NoBuf} \cup Buf
      BY <1>14 DEF Settled, Current
  <2>2. Same(d, st)
      BY <1>15 DEF Same
  <2>3. st \in WriterState
      BY <1>14, <1>15, <2>1 DEF WriterState
  <2> QED BY <1>14, <2>2, <2>3, SettledSame
<1>17. writer' = [writer EXCEPT ![w] = st] /\ mu_free' = d.free
    BY <1>15 DEF Wrote
<1>18. accepted' = [accepted EXCEPT ![w] = new]
  <2>1. CASE d.ok = TRUE
      BY <1>2, <1>5, <1>7, <1>13, <1>14, <2>1 DEF Wrote
  <2>2. CASE d.ok = FALSE
      BY <1>2, <1>5, <1>13, <2>2 DEF Wrote
  <2> QED BY <1>14, <2>1, <2>2
<1>19. TypeOK'
    BY <1>2, <1>14, <1>16, <1>17, <1>18 DEF TypeOK
<1>20. ASSUME NEW v \in Writers
       PROVE  WriterInv(pulled'[v], accepted'[v], fits, writer'[v], waiting'[v], Calls[v])
  <2>1. CASE v = w
    <3>1. writer'[v] = st /\ accepted'[v] = new /\ pulled'[v] = P /\ waiting'[v] = NoCall
        BY <1>2, <1>4, <1>17, <1>18, <2>1
    <3>2. AlignedBufs(P)
        BY <1>1, <1>4 DEF WriterInv
    <3> QED BY <1>16, <3>1, <3>2 DEF WriterInv
  <2>2. CASE v # w
    <3>1. writer'[v] = writer[v] /\ accepted'[v] = accepted[v] /\ pulled'[v] = pulled[v]
          /\ waiting'[v] = waiting[v]
        BY <1>2, <1>17, <1>18, <2>2
    <3> QED BY <1>1, <3>1
  <2> QED BY <2>1, <2>2
<1> QED BY <1>19, <1>20 DEF Inv

\* The state of a writer that begins a record.
LEMMA StateOfFields ==
    ASSUME TypeOK, NEW w \in Writers, NEW st, st = StateOf(w)
    PROVE  /\ st \in WState /\ Same(writer[w], st) /\ st.out = 0 /\ st.ok = TRUE
           /\ st.dropped = writer[w].dropped
<1>1. writer[w] \in WriterState /\ mu_free \in Int /\ accepted[w] \in Seq(Accepted)
    BY DEF TypeOK
<1>2. /\ writer[w].frags \in Seq(Buf) /\ writer[w].buf \in {NoBuf} \cup Buf
      /\ writer[w].used \in Nat /\ writer[w].seq \in Nat /\ writer[w].dropped \in Nat
    BY <1>1 DEF WriterState
<1>3. Begun(w) + 1 \in Nat
    BY <1>1, <1>2 DEF Begun
<1>4. PICK rec \in Nat : rec = Begun(w) + 1
    BY <1>3
<1>5. st = [frags |-> writer[w].frags, buf |-> writer[w].buf, used |-> writer[w].used,
            seq |-> writer[w].seq, dropped |-> writer[w].dropped, free |-> mu_free,
            rec |-> rec, size |-> 0, out |-> 0, ok |-> TRUE]
    BY <1>4 DEF StateOf
<1>6. st \in WState
    BY <1>1, <1>2, <1>5 DEF WState
<1> QED BY <1>5, <1>6 DEF Same

\* A call that finds room in the current buffer, or has to wait for one.
LEMMA SendKeeps ==
    ASSUME NEW fits, fits => ArgsFit, Inv(fits), NEW w \in Writers, NEW c \in Calls[w], Send(w, c)
    PROVE  Inv(fits)'
<1>1. /\ TypeOK
      /\ \A v \in Writers : WriterInv(pulled[v], accepted[v], fits, writer[v], waiting[v], Calls[v])
    BY DEF Inv
<1>2. /\ writer \in [Writers -> WriterState] /\ accepted \in [Writers -> Seq(Accepted)]
      /\ pulled \in [Writers -> Seq(Buf)] /\ mu_held \in Int /\ DOMAIN waiting = Writers
    BY <1>1 DEF TypeOK
<1>3. PICK st : st = StateOf(w)
    OBVIOUS
<1>4. /\ st \in WState /\ Same(writer[w], st) /\ st.out = 0 /\ st.ok = TRUE
      /\ st.dropped = writer[w].dropped
    BY <1>1, <1>3, StateOfFields
<1>5. PICK full : full = (st.buf # NoBuf /\ BufMax - st.used < Needed(c))
    OBVIOUS
<1>6. /\ waiting[w] = NoCall /\ UNCHANGED <<mu_held, pulled>>
      /\ IF st.buf # NoBuf /\ ~full
         THEN Wrote(w, WriteRecord(st, c), c) /\ UNCHANGED waiting
         ELSE /\ writer' = IF full
                     THEN [writer EXCEPT ![w] = Park(@)] ELSE writer
              /\ waiting' = [waiting EXCEPT ![w] = c]
              /\ UNCHANGED <<mu_free, accepted>>
    BY <1>3, <1>5 DEF Send
<1>7. PICK P \in Seq(Buf) : P = pulled[w]
    BY <1>2
<1>8. PICK E \in Seq(Entry) : E = EntriesOf(accepted[w])
    BY <1>2, EntriesSnoc
<1>9. Settled(P, E, fits, writer[w]) /\ AlignedBufs(P)
    BY <1>1, <1>7, <1>8 DEF WriterInv
<1>10. CASE st.buf # NoBuf /\ ~full
  <2>1. Settled(P, E, fits, st)
      BY <1>4, <1>9, SettledSame
  <2>2. Ready(P, st, E, fits)
      BY <1>4, <1>10, <2>1, ReadyCurrent
  <2>3. st.used + HdrLen(c) <= BufMax
    <3>1. c \in DOMAIN CallOf
        BY CallsAssumption
    <3>2. HdrLen(c) \in Nat /\ HdrLen(c) \in {40, 24}
        BY <3>1, CallType DEF LogHdr, BeginHdr, EndHdr
    <3>3. HdrLen(c) <= Needed(c)
      <4>1. CASE IsLog(c)
        <5>1. Needed(c) = 72
            BY <4>1 DEF Needed, LogHdr, MinSpace
        <5> QED BY <3>2, <5>1
      <4>2. CASE ~ IsLog(c)
        <5>1. Needed(c) = HdrLen(c)
            BY <4>2 DEF Needed
        <5> QED BY <3>2, <5>1
      <4> QED BY <4>1, <4>2
    <3>4. ~ (BufMax - st.used < Needed(c)) /\ Needed(c) \in Int
      <4>1. ~ (BufMax - st.used < Needed(c))
          BY <1>5, <1>10
      <4>2. Needed(c) = 72 \/ Needed(c) = HdrLen(c)
          BY DEF Needed, LogHdr, MinSpace
      <4> QED BY <3>2, <4>1, <4>2
    <3>5. BufMax \in Nat /\ st.used \in Nat
        BY <1>4, RecordsAssumption DEF WState
    <3> QED BY <3>2, <3>3, <3>4, <3>5
  <2>4. PICK d : d = WriteRecord(st, c)
      OBVIOUS
  <2>5. Wrote(w, d, c) /\ waiting' = waiting
      BY <1>6, <1>10, <2>4
  <2>6. Ready(pulled[w], st, EntriesOf(accepted[w]), fits)
      BY <1>7, <1>8, <2>2
  <2> QED BY <1>2, <1>4, <1>6, <2>3, <2>4, <2>5, <2>6, WroteKeeps
<1>11. CASE ~ (st.buf # NoBuf /\ ~full)
  <2>1. /\ waiting' = [waiting EXCEPT ![w] = c] /\ UNCHANGED <<mu_free, accepted, mu_held, pulled>>
        /\ writer' = IF full
                     THEN [writer EXCEPT ![w] = Park(@)] ELSE writer
      BY <1>6, <1>11
  <2>2. PICK old \in WriterState : old = writer[w]
      BY <1>2
  <2>3. PICK new : new = IF full THEN Park(old) ELSE old
      OBVIOUS
  <2>4. writer' = [writer EXCEPT ![w] = new]
    <3>1. CASE full
        BY <2>1, <2>2, <2>3, <3>1, Zenon
    <3>2. CASE ~full
        BY <1>2, <2>1, <2>2, <2>3, <3>2
    <3> QED BY <3>1, <3>2
  <2>5. st.buf = old.buf
      BY <1>4, <2>2 DEF Same
  <2>6. new \in WriterState /\ Settled(P, E, fits, new) /\ new.buf = NoBuf
    <3>1. CASE full
      <4>1. old.buf # NoBuf
          BY <1>5, <2>5, <3>1
      <4>2. old.frags \in Seq(Buf) /\ old.buf \in Buf /\ old.seq \in Nat /\ old.dropped \in Nat
          BY <4>1 DEF WriterState
      <4>3. new = [old EXCEPT !.frags = Append(old.frags, old.buf), !.buf = NoBuf, !.used = 0]
          BY <2>3, <3>1 DEF Park
      <4>4. /\ new.frags = Append(old.frags, old.buf) /\ new.buf = NoBuf /\ new.used = 0
            /\ new.seq = old.seq
          BY <4>3 DEF WriterState
      <4>5. Append(old.frags, old.buf) \in Seq(Buf)
          BY <4>2
      <4>6. new \in WriterState
        <5>1. PICK frags \in Seq(Buf) : frags = Append(old.frags, old.buf)
            BY <4>5
        <5>2. new = [old EXCEPT !.frags = frags, !.buf = NoBuf, !.used = 0]
            BY <4>3, <5>1
        <5> QED BY ONLY <5>2, old \in WriterState, frags \in Seq(Buf) DEF WriterState
      <4>7. Settled(P, E, fits, old)
          BY <1>9, <2>2
      <4> QED BY <4>1, <4>4, <4>6, <4>7, SettledLeave
    <3>2. CASE ~full
      <4>1. new = old
          BY <2>3, <3>2
      <4> QED BY <1>9, <1>11, <2>2, <2>5, <3>2, <4>1
    <3> QED BY <3>1, <3>2
  <2>7. TypeOK'
      BY <1>1, <1>2, <2>1, <2>4, <2>6 DEF TypeOK
  <2>8. ASSUME NEW v \in Writers
        PROVE  WriterInv(pulled'[v], accepted'[v], fits, writer'[v], waiting'[v], Calls[v])
    <3>1. CASE v = w
      <4>1. /\ writer'[v] = new /\ accepted'[v] = accepted[w] /\ pulled'[v] = P
            /\ waiting'[v] = c
          BY <1>2, <1>7, <2>1, <2>4, <3>1
      <4> QED BY <1>8, <1>9, <2>6, <3>1, <4>1 DEF WriterInv
    <3>2. CASE v # w
      <4>1. /\ writer'[v] = writer[v] /\ accepted'[v] = accepted[v] /\ pulled'[v] = pulled[v]
            /\ waiting'[v] = waiting[v]
          BY <1>2, <2>1, <2>4, <3>2
      <4> QED BY <1>1, <4>1
    <3> QED BY <3>1, <3>2
  <2> QED BY <2>7, <2>8 DEF Inv
<1> QED BY <1>10, <1>11

\* A call that was given the buffer it waited for.
LEMMA AcquiredKeeps ==
    ASSUME NEW fits, fits => ArgsFit, Inv(fits), NEW w \in Writers, Acquired(w)
    PROVE  Inv(fits)'
<1>1. /\ TypeOK
      /\ \A v \in Writers : WriterInv(pulled[v], accepted[v], fits, writer[v], waiting[v], Calls[v])
    BY DEF Inv
<1>2. /\ accepted \in [Writers -> Seq(Accepted)] /\ pulled \in [Writers -> Seq(Buf)]
      /\ DOMAIN waiting = Writers
    BY <1>1 DEF TypeOK
<1>3. PICK st : st = StateOf(w)
    OBVIOUS
<1>4. /\ st \in WState /\ Same(writer[w], st) /\ st.out = 0 /\ st.ok = TRUE
      /\ st.dropped = writer[w].dropped
    BY <1>1, <1>3, StateOfFields
<1>5. PICK c : c = waiting[w]
    OBVIOUS
<1>6. c # NoCall
    BY <1>5 DEF Acquired
<1>7. c \in Calls[w] /\ writer[w].buf = NoBuf
    BY <1>1, <1>5, <1>6 DEF WriterInv
<1>8. PICK st0 : st0 = WithNewBuf(st)
    OBVIOUS
<1>9. PICK P \in Seq(Buf) : P = pulled[w]
    BY <1>2
<1>10. PICK E \in Seq(Entry) : E = EntriesOf(accepted[w])
    BY <1>2, EntriesSnoc
<1>11. Settled(P, E, fits, st)
  <2>1. Settled(P, E, fits, writer[w])
      BY <1>1, <1>9, <1>10 DEF WriterInv
  <2> QED BY <1>4, <2>1, SettledSame
<1>12. Ready(P, st0, E, fits) /\ st0.used = BufHdr /\ st0.dropped = st.dropped
  <2>1. st.buf = NoBuf
      BY <1>4, <1>7 DEF Same
  <2> QED BY <1>4, <1>8, <1>11, <2>1, ReadyNew
<1>13. st0.used + HdrLen(c) <= BufMax
  <2>1. c \in DOMAIN CallOf
      BY <1>7, CallsAssumption
  <2>2. HdrLen(c) \in {40, 24}
      BY <2>1, CallType DEF LogHdr, BeginHdr, EndHdr
  <2>3. BufMax \in Nat /\ BufMax >= 88
      BY RecordsAssumption DEF BufHdr, LogHdr, MinSpace
  <2> QED BY <1>12, <2>2, <2>3 DEF BufHdr
<1>14. PICK d : d = WriteRecord(st0, c)
    OBVIOUS
<1>15. Wrote(w, d, c) /\ waiting' = [waiting EXCEPT ![w] = NoCall] /\ UNCHANGED <<mu_held, pulled>>
    BY <1>3, <1>5, <1>8, <1>14 DEF Acquired
<1>16. /\ DOMAIN waiting' = Writers /\ waiting'[w] = NoCall
       /\ \A v \in Writers : v # w => waiting'[v] = waiting[v]
    BY <1>2, <1>15
<1>17. Ready(pulled[w], st0, EntriesOf(accepted[w]), fits) /\ st0.dropped = writer[w].dropped
    BY <1>4, <1>9, <1>10, <1>12
<1> QED BY <1>7, <1>13, <1>14, <1>15, <1>16, <1>17, WroteKeeps

\* The worker takes the buffers of a writer.
LEMMA PullKeeps ==
    ASSUME NEW fits, Inv(fits), NEW w \in Writers, pull(w)
    PROVE  Inv(fits)'
<1>1. /\ TypeOK
      /\ \A v \in Writers : WriterInv(pulled[v], accepted[v], fits, writer[v], waiting[v], Calls[v])
    BY DEF Inv
<1>2. /\ writer \in [Writers -> WriterState] /\ pulled \in [Writers -> Seq(Buf)] /\ mu_held \in Int
    BY <1>1 DEF TypeOK
<1>3. PICK old \in WriterState : old = writer[w]
    BY <1>2
<1>4. PICK bufs : bufs = Held(old)
    OBVIOUS
<1>5. PICK P \in Seq(Buf) : P = pulled[w]
    BY <1>2
<1>6. PICK E : E = EntriesOf(accepted[w])
    OBVIOUS
<1>7. Settled(P, E, fits, old) /\ AlignedBufs(P)
    BY <1>1, <1>3, <1>5, <1>6 DEF WriterInv
<1>8. bufs \in Seq(Buf)
  <2>1. AllRead(P, E, fits, bufs, old.seq)
      BY <1>4, <1>7, HeldSettled
  <2> QED BY <2>1 DEF AllRead
<1>9. PICK new : new = Emptied(old)
    OBVIOUS
<1>10. /\ pulled' = [pulled EXCEPT ![w] = P \o bufs] /\ mu_held' = mu_held + Len(bufs)
       /\ writer' = [writer EXCEPT ![w] = new] /\ UNCHANGED <<waiting, mu_free, accepted>>
  <2>1. bufs = writer[w].frags \o (IF writer[w].buf = NoBuf THEN <<>> ELSE <<writer[w].buf>>)
      BY <1>3, <1>4 DEF Held
  <2>2. /\ pulled' = [pulled EXCEPT ![w] = pulled[w] \o bufs] /\ mu_held' = mu_held + Len(bufs)
        /\ writer' = [writer EXCEPT ![w] = Emptied(writer[w])]
        /\ UNCHANGED <<waiting, mu_free, accepted>>
      BY <2>1 DEF pull
  <2>3. writer' = [writer EXCEPT ![w] = new]
      BY <1>3, <1>9, <2>2, Zenon
  <2> QED BY <1>5, <2>2, <2>3
<1>11. new \in WriterState
  <2>1. PICK frags : frags = <<>>
      OBVIOUS
  <2>2. frags \in Seq(Buf)
      BY <2>1
  <2>3. new = [old EXCEPT !.frags = frags, !.buf = NoBuf, !.used = 0]
      BY <1>9, <2>1 DEF Emptied
  <2> QED BY ONLY <2>2, <2>3, old \in WriterState DEF WriterState
<1>12. PICK Q : Q = P \o bufs
    OBVIOUS
<1>13. Settled(Q, E, fits, new) /\ AlignedBufs(Q) /\ Q \in Seq(Buf)
  <2>1. new.frags = <<>> /\ new.buf = NoBuf /\ new.used = 0 /\ new.seq = old.seq
      BY <1>9 DEF Emptied, WriterState
  <2>2. Q = P \o Held(old)
      BY <1>4, <1>12
  <2>3. Settled(Q, E, fits, new) /\ AlignedBufs(Q)
      BY ONLY <1>7, <2>1, <2>2, SettledPull
  <2> QED BY <1>8, <1>12, <2>3
<1>14. TypeOK'
    BY <1>1, <1>2, <1>8, <1>10, <1>11, <1>12, <1>13 DEF TypeOK
<1>15. ASSUME NEW v \in Writers
       PROVE  WriterInv(pulled'[v], accepted'[v], fits, writer'[v], waiting'[v], Calls[v])
  <2>1. CASE v = w
    <3>1. /\ writer'[v] = new /\ pulled'[v] = Q /\ accepted'[v] = accepted[v]
          /\ waiting'[v] = waiting[v]
        BY <1>2, <1>10, <1>12, <2>1
    <3>2. waiting[v] # NoCall => waiting[v] \in Calls[v]
        BY <1>1 DEF WriterInv
    <3>3. new.buf = NoBuf
        BY <1>9 DEF Emptied, WriterState
    <3> QED BY <1>6, <1>13, <2>1, <3>1, <3>2, <3>3 DEF WriterInv
  <2>2. CASE v # w
    <3>1. /\ writer'[v] = writer[v] /\ accepted'[v] = accepted[v] /\ pulled'[v] = pulled[v]
          /\ waiting'[v] = waiting[v]
        BY <1>2, <1>10, <2>2
    <3> QED BY <1>1, <3>1
  <2> QED BY <2>1, <2>2
<1> QED BY <1>14, <1>15 DEF Inv

\* Every step.
LEMMA InvNext ==
    ASSUME NEW fits, fits => ArgsFit, Inv(fits), [Next]_vars
    PROVE  Inv(fits)'
<1>1. CASE UNCHANGED vars
  <2>1. UNCHANGED <<writer, waiting, mu_free, mu_held, accepted, pulled>>
      BY <1>1 DEF vars
  <2>2. TypeOK'
      BY <2>1 DEF Inv, TypeOK
  <2> QED BY <2>1, <2>2 DEF Inv
<1>2. ASSUME NEW w \in Writers, NEW c \in Calls[w], Send(w, c) PROVE Inv(fits)'
    BY <1>2, SendKeeps
<1>3. ASSUME NEW w \in Writers, Acquired(w) PROVE Inv(fits)'
    BY <1>3, AcquiredKeeps
<1>4. ASSUME NEW w \in Writers, pull(w) PROVE Inv(fits)'
    BY <1>4, PullKeeps
<1>5. CASE Recycle
  <2>1. /\ UNCHANGED <<writer, waiting, accepted, pulled>>
        /\ mu_held' = mu_held - 1 /\ mu_free' = mu_free + 1
      BY <1>5 DEF Recycle
  <2>2. TypeOK'
      BY <2>1 DEF Inv, TypeOK
  <2> QED BY <2>1, <2>2 DEF Inv
<1> QED BY <1>1, <1>2, <1>3, <1>4, <1>5 DEF Next

-------------------------------------------------------------------------------
(*****************************************************************************)
(* Whatever is pulled in between, continued in further buffers or taken back *)
(* for want of one, every record starts at a multiple of 8 in its buffer:    *)
(* continued pieces keep the rest of the division, the pad completes it, and *)
(* a discarded record leaves the end that was there.                         *)
(*****************************************************************************)
LEMMA InvAligned ==
    ASSUME NEW fits, Inv(fits)
    PROVE  RecordsAligned
<1> SUFFICES ASSUME NEW w \in Writers, NEW b \in 1 .. Len(BuffersOf(w))
             PROVE  AlignedRuns(BuffersOf(w)[b].runs)
    BY DEF RecordsAligned, AlignedRuns
<1>1. PICK st \in WriterState : st = writer[w]
    BY DEF Inv, TypeOK
<1>2. PICK P \in Seq(Buf) : P = pulled[w]
    BY DEF Inv, TypeOK
<1>3. PICK E : E = EntriesOf(accepted[w])
    OBVIOUS
<1>4. Settled(P, E, fits, st) /\ AlignedBufs(P)
    BY <1>1, <1>2, <1>3 DEF Inv, WriterInv
<1>5. PICK Q : Q = P \o Held(st)
    OBVIOUS
<1>6. BuffersOf(w) = Q
  <2>1. PICK X : X = IF st.buf = NoBuf THEN <<>> ELSE <<st.buf>>
      OBVIOUS
  <2>2. X \in Seq(Buf) /\ st.frags \in Seq(Buf)
      BY <2>1 DEF WriterState
  <2>3. (P \o st.frags) \o X = P \o (st.frags \o X)
    <3>1. PICK f \in Seq(Buf) : f = st.frags
        BY <2>2
    <3>2. (P \o f) \o X = P \o (f \o X)
        BY ONLY <2>2, P \in Seq(Buf), f \in Seq(Buf), ConcatAssoc
    <3> QED BY <3>1, <3>2
  <2> QED BY <1>1, <1>2, <1>5, <2>1, <2>3 DEF BuffersOf, Held
<1>7. PICK q : q = [frags |-> <<>>, buf |-> NoBuf, used |-> 0, seq |-> st.seq]
    OBVIOUS
<1>8. q.frags = <<>> /\ q.buf = NoBuf /\ q.used = 0 /\ q.seq = st.seq
    BY <1>7
<1>9. AlignedBufs(Q)
    BY <1>4, <1>5, <1>8, SettledPull
<1> QED BY <1>6, <1>9 DEF AlignedBufs

\* RecordsAligned holds in every reachable state: whichever writes are split over buffers
\* (p8_tls.cpp, WritePiece), given up for want of a buffer (discard) or pulled by the worker in
\* between, a record starts at a multiple of 8 in its buffer. No premise is needed.
THEOREM RecordsAlignedCorrect == Spec => []RecordsAligned
<1>1. Init => Inv(FALSE)
    BY InvInit
<1>2. Inv(FALSE) /\ [Next]_vars => Inv(FALSE)'
    BY InvNext
<1>3. Inv(FALSE) => RecordsAligned
    BY InvAligned
<1> QED BY <1>1, <1>2, <1>3, PTL DEF Spec

(*****************************************************************************)
(* And the receiver finds exactly the records whose calls returned, in their *)
(* order and whole, with no buffer number missing, when no arguments alone   *)
(* take a record past the limit.                                             *)
(*****************************************************************************)
LEMMA InvRecovers ==
    ASSUME Inv(TRUE)
    PROVE  ReceiverRecovers
<1> SUFFICES ASSUME NEW w \in Writers
             PROVE  /\ Read(w).ok /\ Read(w).left = 0
                    /\ Read(w).records = EntriesOf(accepted[w])
    BY DEF ReceiverRecovers, EntriesOf, EntryOf
<1>1. PICK st \in WriterState : st = writer[w]
    BY DEF Inv, TypeOK
<1>2. PICK P \in Seq(Buf) : P = pulled[w]
    BY DEF Inv, TypeOK
<1>3. PICK E : E = EntriesOf(accepted[w])
    OBVIOUS
<1>4. Settled(P, E, TRUE, st)
    BY <1>1, <1>2, <1>3 DEF Inv, WriterInv
<1>5. PICK bufs : bufs = Held(st)
    OBVIOUS
<1>6. PICK from : After(P \o bufs) = Found(E, 0, from, st.seq)
  <2>1. AllRead(P, E, TRUE, bufs, st.seq)
      BY <1>4, <1>5, HeldSettled
  <2> QED BY <2>1 DEF AllRead
<1>7. BuffersOf(w) = P \o bufs
  <2>1. PICK X : X = IF st.buf = NoBuf THEN <<>> ELSE <<st.buf>>
      OBVIOUS
  <2>2. X \in Seq(Buf) /\ st.frags \in Seq(Buf)
      BY <2>1 DEF WriterState
  <2>3. (P \o st.frags) \o X = P \o (st.frags \o X)
    <3>1. PICK f \in Seq(Buf) : f = st.frags
        BY <2>2
    <3>2. (P \o f) \o X = P \o (f \o X)
        BY ONLY <2>2, P \in Seq(Buf), f \in Seq(Buf), ConcatAssoc
    <3> QED BY <3>1, <3>2
  <2> QED BY <1>1, <1>2, <1>5, <2>1, <2>3 DEF BuffersOf, Held
<1>8. Read(w) = Found(E, 0, from, st.seq)
    BY <1>6, <1>7 DEF Read, After
<1> QED BY <1>3, <1>8 DEF Found

\* ReceiverRecovers holds in every reachable state when the arguments of each call fit a record
\* (ArgsFit; without it the 16-bit mu_size wraps, p8_log.cpp:598): the receiver that follows the
\* buffers of a writer by their numbers finds the records of the calls that returned, each whole
\* and in order, and none of those that discard took back.
THEOREM ReceiverRecoversCorrect == ArgsFit => (Spec => []ReceiverRecovers)
<1> SUFFICES ASSUME ArgsFit PROVE Spec => []ReceiverRecovers
    OBVIOUS
<1>1. Init => Inv(TRUE)
    BY InvInit
<1>2. Inv(TRUE) /\ [Next]_vars => Inv(TRUE)'
    BY InvNext
<1>3. Inv(TRUE) => ReceiverRecovers
    BY InvRecovers
<1> QED BY <1>1, <1>2, <1>3, PTL DEF Spec

(*****************************************************************************)
(* Under the same condition the size field of an accepted record did not     *)
(* wrap, and an attribute string that was cut ends with a whole character    *)
(* and lost none that would have fitted.                                     *)
(*****************************************************************************)
LEMMA InvCutRight ==
    ASSUME ArgsFit, Inv(TRUE)
    PROVE  AttrsCutRight
<1> SUFFICES ASSUME NEW w \in Writers, NEW k \in 1 .. Len(accepted[w])
             PROVE  CutRight[accepted[w][k].call]
    BY DEF AttrsCutRight
<1>1. accepted[w] \in Seq(Accepted)
    BY DEF Inv, TypeOK
<1>2. accepted[w][k] \in Accepted
    BY <1>1
<1>3. accepted[w][k].call \in DOMAIN CallOf
    BY <1>2 DEF Accepted
<1> QED BY <1>3, CutRightAll

\* AttrsCutRight holds in every reachable state under the same premise: serialize_attrs keeps the
\* record within its 16-bit limit and cuts a text only where it must, between two characters.
THEOREM AttrsCutRightCorrect == ArgsFit => (Spec => []AttrsCutRight)
<1> SUFFICES ASSUME ArgsFit PROVE Spec => []AttrsCutRight
    OBVIOUS
<1>1. Init => Inv(TRUE)
    BY InvInit
<1>2. Inv(TRUE) /\ [Next]_vars => Inv(TRUE)'
    BY InvNext
<1>3. Inv(TRUE) => AttrsCutRight
    BY InvCutRight
<1> QED BY <1>1, <1>2, <1>3, PTL DEF Spec
===============================================================================
