---------------------------- MODULE Service_proofs ----------------------------
(***************************************************************************)
(* Proofs about Service and the sink it writes to, for every set of        *)
(* threads, sites and names, every capacity and every size of buffers,     *)
(* entries and chunks.                                                     *)
(*                                                                         *)
(* First the sink: chunks flatten to what was handed over, and a write     *)
(* leaves out cells but never repeats or reorders them.  Then the service  *)
(* buffers and what one write into them does; cells and the entries they   *)
(* stand for; the stream of entries, which stays readable; and the         *)
(* invariant of the whole, action by action.                               *)
(***************************************************************************)
EXTENDS Service, FoldTheorems

\* The smaller and the larger of two numbers: the bounds of a chunk, the room in a buffer.
LEMMA MinTwo ==
    ASSUME NEW a \in Int, NEW b \in Int
    PROVE  /\ Min({a, b}) = IF a <= b THEN a ELSE b
           /\ Max({a, b}) = IF a <= b THEN b ELSE a
<1>1. Min({a, b}) \in {a, b} /\ \A y \in {a, b} : Min({a, b}) <= y
  <2>1. \E x \in {a, b} : \A y \in {a, b} : x <= y
    OBVIOUS
  <2> QED
    BY <2>1 DEF Min
<1>2. Max({a, b}) \in {a, b} /\ \A y \in {a, b} : Max({a, b}) >= y
  <2>1. \E x \in {a, b} : \A y \in {a, b} : x >= y
    OBVIOUS
  <2> QED
    BY <2>1 DEF Max
<1> QED
  BY <1>1, <1>2

\* How many chunks of at most m entries l entries make.
LEMMA ChunkArith ==
    ASSUME NEW l \in Nat, NEW m \in Nat \ {0}, NEW n, n = (l + m - 1) \div m
    PROVE  /\ n \in Nat /\ n * m >= l
           /\ \A k \in Nat : k < n => k * m < l
<1>1. n \in Int /\ n * m <= l + m - 1 /\ l + m - 1 < (n + 1) * m
  OBVIOUS
<1>2. n \in Nat
  BY <1>1
<1>3. (n + 1) * m = n * m + m
  BY <1>2
<1>4. n * m >= l
  BY <1>1, <1>2, <1>3
<1>5. ASSUME NEW k \in Nat, k < n PROVE k * m < l
  <2>1. (k + 1) * m <= n * m
    BY <1>2, <1>5
  <2>2. (k + 1) * m = k * m + m
    OBVIOUS
  <2> QED
    BY <1>1, <1>2, <2>1, <2>2
<1> QED
  BY <1>2, <1>4, <1>5

\* Two pieces of a sequence that follow each other are one piece.
LEMMA SubSeqSplit ==
    ASSUME NEW S, NEW s \in Seq(S)
    PROVE  \A i, j \in Nat : i <= j /\ j <= Len(s) =>
              /\ SubSeq(s, 1, i) \in Seq(S) /\ SubSeq(s, i + 1, j) \in Seq(S)
              /\ SubSeq(s, 1, j) = SubSeq(s, 1, i) \o SubSeq(s, i + 1, j)
<1> SUFFICES ASSUME NEW i \in Nat, NEW j \in Nat, i <= j, j <= Len(s)
             PROVE  /\ SubSeq(s, 1, i) \in Seq(S) /\ SubSeq(s, i + 1, j) \in Seq(S)
                    /\ SubSeq(s, 1, j) = SubSeq(s, 1, i) \o SubSeq(s, i + 1, j)
  OBVIOUS
<1>0. PICK k \in Nat : k = Len(s)
  OBVIOUS
<1>1. PICK a : a = SubSeq(s, 1, i)
  OBVIOUS
<1>2. a \in Seq(S) /\ Len(a) = i /\ \A x \in 1 .. i : a[x] = s[x]
  BY <1>0, <1>1, SubSeqProperties
<1>3. PICK b : b = SubSeq(s, i + 1, j)
  OBVIOUS
<1>4. b \in Seq(S) /\ Len(b) = j - i /\ \A x \in 1 .. j - i : b[x] = s[i + x]
  <2>1. /\ b = [x \in 1 .. (j - (i + 1) + 1) |-> s[(i + 1) + x - 1]]
    BY <1>3
  <2>2. j - (i + 1) + 1 = j - i /\ j - i \in Nat
    OBVIOUS
  <2>3. \A x \in 1 .. j - i : (i + 1) + x - 1 = i + x /\ i + x \in 1 .. Len(s)
    BY <1>0
  <2>4. b = [x \in 1 .. j - i |-> s[i + x]]
    BY <2>1, <2>2, <2>3
  <2>5. \A x \in 1 .. j - i : s[i + x] \in S
    BY <2>3
  <2> QED
    BY <2>2, <2>4, <2>5
<1>5. PICK c : c = SubSeq(s, 1, j)
  OBVIOUS
<1>6. c \in Seq(S) /\ Len(c) = j /\ \A x \in 1 .. j : c[x] = s[x]
  BY <1>0, <1>5, SubSeqProperties
<1>7. PICK d : d = a \o b
  OBVIOUS
<1>8. PICK e \in Nat : e = j - i /\ i + e = j
  OBVIOUS
<1>9. d \in Seq(S) /\ Len(d) = j
      /\ \A x \in 1 .. j : d[x] = IF x <= i THEN a[x] ELSE b[x - i]
  <2>1. Len(a) = i /\ Len(b) = e
    BY <1>2, <1>4, <1>8
  <2>2. d \in Seq(S) /\ Len(d) = Len(a) + Len(b)
        /\ \A x \in 1 .. Len(a) + Len(b) : d[x] = IF x <= Len(a) THEN a[x] ELSE b[x - Len(a)]
    BY <1>2, <1>4, <1>7, ConcatAt
  <2> QED
    BY <1>8, <2>1, <2>2
<1>10. ASSUME NEW x \in 1 .. j PROVE c[x] = d[x]
  <2>1. CASE x <= i
    <3>1. x \in 1 .. i /\ d[x] = a[x]
      BY <1>9, <2>1
    <3> QED
      BY <1>2, <1>6, <3>1
  <2>2. CASE x > i
    <3>1. x - i \in 1 .. j - i /\ i + (x - i) = x
      BY <2>2
    <3>2. d[x] = b[x - i]
      BY <1>9, <2>2
    <3> QED
      BY <1>4, <1>6, <3>1, <3>2
  <2> QED
    BY <2>1, <2>2
<1>11. c = d
  BY <1>6, <1>9, <1>10, SeqEqual
<1> QED
  BY <1>1, <1>2, <1>3, <1>4, <1>5, <1>7, <1>11

\* All of a sequence.
LEMMA SubSeqAll ==
    ASSUME NEW S, NEW s \in Seq(S)
    PROVE  SubSeq(s, 1, Len(s)) = s
<1>0. PICK k \in Nat : k = Len(s)
  OBVIOUS
<1>1. PICK a : a = SubSeq(s, 1, k)
  OBVIOUS
<1>2. a \in Seq(S) /\ Len(a) = k /\ \A x \in 1 .. k : a[x] = s[x]
  BY <1>0, <1>1, SubSeqProperties
<1>3. a = s
  BY <1>0, <1>2, SeqEqual
<1> QED
  BY <1>0, <1>1, <1>3

\* A prefix that is one longer.
LEMMA SubSeqSnoc ==
    ASSUME NEW S, NEW s \in Seq(S), NEW n \in Nat, n < Len(s)
    PROVE  SubSeq(s, 1, n + 1) = Append(SubSeq(s, 1, n), s[n + 1]) /\ SubSeq(s, 1, n) \in Seq(S)
           /\ s[n + 1] \in S
<1>0. PICK k \in Nat : k = Len(s)
  OBVIOUS
<1>1. PICK a : a = SubSeq(s, 1, n)
  OBVIOUS
<1>2. a \in Seq(S) /\ Len(a) = n /\ \A x \in 1 .. n : a[x] = s[x]
  BY <1>0, <1>1, SubSeqProperties
<1>3. PICK b : b = SubSeq(s, 1, n + 1)
  OBVIOUS
<1>4. b \in Seq(S) /\ Len(b) = n + 1 /\ \A x \in 1 .. n + 1 : b[x] = s[x]
  BY <1>0, <1>3, SubSeqProperties
<1>5. s[n + 1] \in S
  BY <1>0
<1>6. PICK c : c = Append(a, s[n + 1])
  OBVIOUS
<1>7. c \in Seq(S) /\ Len(c) = n + 1 /\ \A x \in 1 .. n + 1 : c[x] = IF x <= n THEN a[x] ELSE s[n + 1]
  BY <1>2, <1>5, <1>6
<1>8. b = c
  BY <1>2, <1>4, <1>7, SeqEqual
<1> QED
  BY <1>1, <1>2, <1>3, <1>5, <1>6, <1>8

\* c holds, flattened, the consecutive pieces of iov that end at u[1], u[2], ...
Pieces(c, iov, u) ==
    /\ u \in [Nat -> Nat]
    /\ \A q \in Nat : u[q] <= u[q + 1] /\ u[q] <= Len(iov)
    /\ u[0] = 0 /\ u[Len(c)] = Len(iov)
    /\ \A q \in Nat : q < Len(c) => c[q + 1] = FlattenSeq(SubSeq(iov, u[q] + 1, u[q + 1]))

\* Cutting a sequence of sequences into consecutive pieces and flattening each piece
\* loses nothing.
LEMMA PiecesFlat ==
    ASSUME NEW S, NEW iov \in Seq(Seq(S)), NEW c \in Seq(Seq(S)), NEW u, Pieces(c, iov, u)
    PROVE  FlattenSeq(c) = FlattenSeq(iov)
<1>0. PICK n \in Nat : n = Len(c)
  OBVIOUS
<1>a. /\ u \in [Nat -> Nat] /\ u[0] = 0 /\ u[n] = Len(iov)
      /\ \A q \in Nat : u[q] <= u[q + 1] /\ u[q] <= Len(iov)
      /\ \A q \in Nat : q < n => c[q + 1] = FlattenSeq(SubSeq(iov, u[q] + 1, u[q + 1]))
  BY <1>0 DEF Pieces
<1>b. u \in [Nat -> Nat]
  BY <1>a
<1> DEFINE T == {q \in Nat : q <= n =>
                    FlattenSeq(SubSeq(c, 1, q)) = FlattenSeq(SubSeq(iov, 1, u[q]))}
<1>1. 0 \in T
  <2>1. SubSeq(c, 1, 0) = <<>> /\ SubSeq(iov, 1, 0) = <<>>
    OBVIOUS
  <2> QED
    BY <1>a, <2>1
<1>2. ASSUME NEW q \in Nat, q \in T PROVE q + 1 \in T
  <2> SUFFICES ASSUME q + 1 <= n
               PROVE  FlattenSeq(SubSeq(c, 1, q + 1)) = FlattenSeq(SubSeq(iov, 1, u[q + 1]))
    OBVIOUS
  <2>1. PICK A : A = Seq(S)
    OBVIOUS
  <2>2. c \in Seq(A) /\ iov \in Seq(A)
    BY <2>1
  <2>3. q < Len(c) /\ q < n
    BY <1>0
  <2>4. /\ SubSeq(c, 1, q + 1) = Append(SubSeq(c, 1, q), c[q + 1])
        /\ SubSeq(c, 1, q) \in Seq(A) /\ c[q + 1] \in A
    BY ONLY <2>2, <2>3, q \in Nat, SubSeqSnoc
  <2>5. FlattenSeq(SubSeq(c, 1, q + 1)) = FlattenSeq(SubSeq(c, 1, q)) \o c[q + 1]
    <3>1. SubSeq(c, 1, q) \in Seq(Seq(S)) /\ c[q + 1] \in Seq(S)
      BY <2>1, <2>4
    <3> QED
      BY ONLY <2>4, <3>1, FlatAppend
  <2>6. PICK i \in Nat, j \in Nat : i = u[q] /\ j = u[q + 1] /\ i <= j /\ j <= Len(iov)
    <3>1. q + 1 \in Nat /\ u[q] \in Nat /\ u[q + 1] \in Nat
      BY ONLY <1>b, q \in Nat
    <3> QED
      BY ONLY <1>a, <3>1, q \in Nat
  <2>7. /\ SubSeq(iov, 1, i) \in Seq(A) /\ SubSeq(iov, i + 1, j) \in Seq(A)
        /\ SubSeq(iov, 1, j) = SubSeq(iov, 1, i) \o SubSeq(iov, i + 1, j)
    <3>1. \A x, y \in Nat : x <= y /\ y <= Len(iov) =>
             /\ SubSeq(iov, 1, x) \in Seq(A) /\ SubSeq(iov, x + 1, y) \in Seq(A)
             /\ SubSeq(iov, 1, y) = SubSeq(iov, 1, x) \o SubSeq(iov, x + 1, y)
      BY ONLY <2>2, SubSeqSplit
    <3>2. i \in Nat /\ j \in Nat /\ i <= j /\ j <= Len(iov)
      BY ONLY <2>6
    <3> QED
      BY ONLY <3>1, <3>2
  <2>8. FlattenSeq(SubSeq(iov, 1, j)) = FlattenSeq(SubSeq(iov, 1, i)) \o FlattenSeq(SubSeq(iov, i + 1, j))
    <3>1. SubSeq(iov, 1, i) \in Seq(Seq(S)) /\ SubSeq(iov, i + 1, j) \in Seq(Seq(S))
      BY ONLY <2>1, <2>7
    <3> QED
      BY ONLY <2>7, <3>1, FlatConcat
  <2>9. c[q + 1] = FlattenSeq(SubSeq(iov, i + 1, j))
    BY ONLY <1>a, <2>3, <2>6, q \in Nat
  <2>10. FlattenSeq(SubSeq(c, 1, q)) = FlattenSeq(SubSeq(iov, 1, i))
    BY <1>2, <2>3, <2>6
  <2> QED
    BY ONLY <2>5, <2>6, <2>8, <2>9, <2>10
<1>3. Nat \subseteq T
  BY <1>1, <1>2, NatSetInduction, Zenon
<1>4. FlattenSeq(SubSeq(c, 1, n)) = FlattenSeq(SubSeq(iov, 1, u[n]))
  <2>1. n \in T
    BY ONLY <1>3, n \in Nat
  <2>2. n <= n
    OBVIOUS
  <2> QED
    BY ONLY <2>1, <2>2
<1>5. PICK A : A = Seq(S)
  OBVIOUS
<1>6. c \in Seq(A) /\ iov \in Seq(A)
  BY <1>5
<1>7. SubSeq(c, 1, Len(c)) = c /\ SubSeq(iov, 1, Len(iov)) = iov
  BY ONLY <1>6, SubSeqAll
<1> QED
  BY ONLY <1>0, <1>a, <1>4, <1>7

\* The chunks write_entries sends hold what the iov array holds, in its order.
LEMMA ChunksFlat ==
    ASSUME NEW S, NEW iov \in Seq(Seq(S))
    PROVE  /\ Chunks(iov) \in Seq(Seq(S))
           /\ FlattenSeq(Chunks(iov)) = FlattenSeq(iov)
<1>1. PICK m \in Nat \ {0} : m = MaxIov
  BY SinkAssumption
<1>2. PICK l \in Nat : l = Len(iov)
  OBVIOUS
<1>3. PICK n : n = (l + m - 1) \div m
  OBVIOUS
<1>4. n \in Nat /\ n * m >= l /\ \A k \in Nat : k < n => k * m < l
  BY ONLY <1>3, ChunkArith
<1>5. PICK u : u = [q \in Nat |-> IF q * m <= l THEN q * m ELSE l]
  OBVIOUS
<1>6. ASSUME NEW q \in Nat
      PROVE  /\ u[q] \in Nat /\ u[q] <= u[q + 1] /\ u[q] <= l
             /\ u[q + 1] = Min({(q + 1) * m, l})
             /\ q < n => u[q] = q * m
  <2>1. PICK x \in Nat : x = q * m
    OBVIOUS
  <2>2. PICK y \in Nat : y = (q + 1) * m /\ x <= y
    <3>1. (q + 1) * m = q * m + m
      OBVIOUS
    <3> QED
      BY <2>1, <3>1
  <2>3. u[q] = IF x <= l THEN x ELSE l
    BY <1>5, <2>1
  <2>4. q + 1 \in Nat
    OBVIOUS
  <2>5. u[q + 1] = IF y <= l THEN y ELSE l
    BY ONLY <1>5, <2>2, <2>4
  <2>6. Min({(q + 1) * m, l}) = IF y <= l THEN y ELSE l
    BY ONLY <1>2, <2>2, MinTwo
  <2>7. q < n => x < l
    BY <1>4, <2>1
  <2> QED
    BY ONLY <1>2, <2>1, <2>2, <2>3, <2>5, <2>6, <2>7
<1>7. u[0] = 0
  <2>1. 0 * m = 0
    OBVIOUS
  <2> QED
    BY <1>5, <2>1
<1>8. u[n] = l
  <2>1. PICK x \in Nat : x = n * m /\ x >= l
    BY <1>4
  <2> QED
    BY <1>4, <1>5, <2>1
<1>9. PICK c : c = Chunks(iov)
  OBVIOUS
<1>10. c = [k \in 1 .. n |-> FlattenSeq(SubSeq(iov, (k - 1) * m + 1, Min({k * m, l})))]
  BY <1>1, <1>2, <1>3, <1>9 DEF Chunks
<1>11. ASSUME NEW q \in Nat, q < n
       PROVE  c[q + 1] = FlattenSeq(SubSeq(iov, u[q] + 1, u[q + 1]))
  <2>1. q + 1 \in 1 .. n /\ (q + 1) - 1 = q
    BY <1>4, <1>11
  <2>2. c[q + 1] = FlattenSeq(SubSeq(iov, ((q + 1) - 1) * m + 1, Min({(q + 1) * m, l})))
    BY ONLY <1>10, <2>1
  <2>3. u[q] = q * m /\ u[q + 1] = Min({(q + 1) * m, l})
    BY ONLY <1>6, <1>11, q \in Nat
  <2> QED
    BY ONLY <2>1, <2>2, <2>3
<1>12. PICK A : A = Seq(S)
  OBVIOUS
<1>13. iov \in Seq(A)
  BY <1>12
<1>14. ASSUME NEW q \in Nat, q < n PROVE c[q + 1] \in A
  <2>1. PICK i \in Nat, j \in Nat : i = u[q] /\ j = u[q + 1] /\ i <= j /\ j <= Len(iov)
    <3>1. q + 1 \in Nat
      OBVIOUS
    <3> QED
      BY ONLY <1>2, <1>6, <3>1, q \in Nat
  <2>2. SubSeq(iov, i + 1, j) \in Seq(A)
    BY ONLY <1>13, <2>1, SubSeqSplit
  <2>3. SubSeq(iov, i + 1, j) \in Seq(Seq(S))
    BY ONLY <1>12, <2>2
  <2>4. FlattenSeq(SubSeq(iov, i + 1, j)) \in Seq(S)
    BY ONLY <2>3, FlatType
  <2> QED
    BY ONLY <1>11, <1>12, <1>14, <2>1, <2>4, q \in Nat
<1>15. c \in Seq(A) /\ Len(c) = n
  <2>1. \A k \in 1 .. n : c[k] \in A
    <3>1. SUFFICES ASSUME NEW k \in 1 .. n PROVE c[k] \in A
      OBVIOUS
    <3>2. PICK q \in Nat : q = k - 1 /\ q < n /\ q + 1 = k
      BY <1>4
    <3> QED
      BY <1>14, <3>2
  <2>2. c \in [1 .. n -> A]
    BY ONLY <1>10, <2>1
  <2> QED
    BY ONLY <1>4, <2>2, SeqDef
<1>16. c \in Seq(Seq(S))
  BY ONLY <1>12, <1>15
<1>17. FlattenSeq(c) = FlattenSeq(iov)
  <2>1. /\ \A q \in Nat : u[q] <= u[q + 1] /\ u[q] <= Len(iov)
        /\ u[0] = 0 /\ u[n] = Len(iov)
        /\ \A q \in Nat : q < n => c[q + 1] = FlattenSeq(SubSeq(iov, u[q] + 1, u[q + 1]))
    BY ONLY <1>2, <1>6, <1>7, <1>8, <1>11
  <2>2. u \in [Nat -> Nat]
    BY ONLY <1>5, <1>6
  <2>3. Pieces(c, iov, u)
    BY ONLY <1>15, <2>1, <2>2 DEF Pieces
  <2> QED
    BY ONLY iov \in Seq(Seq(S)), <1>16, <2>3, PiecesFlat
<1> QED
  BY ONLY <1>9, <1>16, <1>17
-------------------------------------------------------------------------------
\* s is t with some places left out.
SubOf(s, t) ==
    \E f \in [1 .. Len(s) -> 1 .. Len(t)] :
        /\ \A i, j \in 1 .. Len(s) : i < j => f[i] < f[j]
        /\ \A i \in 1 .. Len(s) : s[i] = t[f[i]]

\* A short write takes a prefix of its chunk.
LEMMA SubOfPrefix ==
    ASSUME NEW S, NEW t \in Seq(S), NEW n \in Nat, n <= Len(t)
    PROVE  SubOf(SubSeq(t, 1, n), t) /\ SubSeq(t, 1, n) \in Seq(S)
<1>0. PICK k \in Nat : k = Len(t)
  OBVIOUS
<1>1. PICK s : s = SubSeq(t, 1, n)
  OBVIOUS
<1>2. s \in Seq(S) /\ Len(s) = n /\ \A x \in 1 .. n : s[x] = t[x]
  BY <1>0, <1>1, SubSeqProperties
<1>3. PICK f : f = [i \in 1 .. n |-> i]
  OBVIOUS
<1>4. f \in [1 .. n -> 1 .. k]
  BY <1>0, <1>3
<1>5. SubOf(s, t)
  <2>1. \A i, j \in 1 .. n : i < j => f[i] < f[j]
    BY <1>3
  <2>2. \A i \in 1 .. n : s[i] = t[f[i]]
    BY <1>2, <1>3
  <2> QED
    BY ONLY <1>0, <1>2, <1>4, <2>1, <2>2 DEF SubOf
<1> QED
  BY <1>1, <1>2, <1>5

\* A dropped batch leaves nothing of it in the file.
LEMMA SubOfEmpty == \A t : SubOf(<<>>, t)
<1> SUFFICES ASSUME NEW t PROVE SubOf(<<>>, t)
  OBVIOUS
<1>1. PICK f : f = [i \in {} |-> i]
  OBVIOUS
<1>2. 1 .. Len(<<>>) = {}
  OBVIOUS
<1>3. f \in [{} -> 1 .. Len(t)]
  BY <1>1
<1> QED
  BY <1>2, <1>3 DEF SubOf

\* Leaving out places of two pieces leaves out places of the whole.
LEMMA SubOfConcat ==
    ASSUME NEW S, NEW a \in Seq(S), NEW b \in Seq(S), NEW c \in Seq(S), NEW d \in Seq(S),
           SubOf(a, b), SubOf(c, d)
    PROVE  SubOf(a \o c, b \o d)
<1>1. PICK la \in Nat, lb \in Nat, lc \in Nat, ld \in Nat :
         la = Len(a) /\ lb = Len(b) /\ lc = Len(c) /\ ld = Len(d)
  OBVIOUS
<1>2. PICK f \in [1 .. la -> 1 .. lb] : /\ \A i, j \in 1 .. la : i < j => f[i] < f[j]
                                        /\ \A i \in 1 .. la : a[i] = b[f[i]]
  BY <1>1 DEF SubOf
<1>3. PICK g \in [1 .. lc -> 1 .. ld] : /\ \A i, j \in 1 .. lc : i < j => g[i] < g[j]
                                        /\ \A i \in 1 .. lc : c[i] = d[g[i]]
  BY <1>1 DEF SubOf
<1>4. PICK s : s = a \o c
  OBVIOUS
<1>5. s \in Seq(S) /\ Len(s) = la + lc
      /\ \A i \in 1 .. la + lc : s[i] = IF i <= la THEN a[i] ELSE c[i - la]
  BY <1>1, <1>4, ConcatAt
<1>6. PICK t : t = b \o d
  OBVIOUS
<1>7. t \in Seq(S) /\ Len(t) = lb + ld
      /\ \A i \in 1 .. lb + ld : t[i] = IF i <= lb THEN b[i] ELSE d[i - lb]
  BY <1>1, <1>6, ConcatAt
<1>8. PICK h : h = [i \in 1 .. la + lc |-> IF i <= la THEN f[i] ELSE lb + g[i - la]]
  OBVIOUS
<1>9. ASSUME NEW i \in 1 .. la + lc
      PROVE  /\ i <= la => i \in 1 .. la /\ h[i] = f[i] /\ f[i] \in 1 .. lb
             /\ i > la => i - la \in 1 .. lc /\ h[i] = lb + g[i - la] /\ g[i - la] \in 1 .. ld
  <2>1. CASE i <= la
    <3>1. i \in 1 .. la
      BY <1>1, <2>1
    <3>2. f[i] \in 1 .. lb
      BY ONLY <1>2, <3>1
    <3> QED
      BY <1>1, <1>8, <2>1, <3>1, <3>2
  <2>2. CASE i > la
    <3>1. i - la \in 1 .. lc
      BY <1>1, <2>2
    <3>2. g[i - la] \in 1 .. ld
      BY ONLY <1>3, <3>1
    <3> QED
      BY <1>1, <1>8, <2>2, <3>1, <3>2
  <2> QED
    BY <1>1, <2>1, <2>2
<1>10. ASSUME NEW i \in 1 .. la + lc
       PROVE  h[i] \in 1 .. lb + ld /\ s[i] = t[h[i]]
  <2>1. CASE i <= la
    <3>1. h[i] \in 1 .. lb + ld /\ h[i] <= lb
      BY <1>1, <1>9, <2>1
    <3>2. s[i] = a[i] /\ t[h[i]] = b[h[i]]
      BY <1>5, <1>7, <2>1, <3>1
    <3> QED
      BY <1>2, <1>9, <2>1, <3>1, <3>2
  <2>2. CASE i > la
    <3>1. PICK e \in 1 .. ld : e = g[i - la] /\ h[i] = lb + e
      BY <1>9, <2>2
    <3>2. h[i] \in 1 .. lb + ld /\ ~(h[i] <= lb) /\ h[i] - lb = e
      BY <1>1, <3>1
    <3>3. t[h[i]] = d[e]
      BY <1>7, <3>2
    <3>4. s[i] = c[i - la]
      BY <1>1, <1>5, <2>2
    <3>5. c[i - la] = d[g[i - la]]
      BY <1>3, <1>9, <2>2
    <3> QED
      BY <3>1, <3>2, <3>3, <3>4, <3>5
  <2> QED
    BY <1>1, <2>1, <2>2
<1>11. ASSUME NEW i \in 1 .. la + lc, NEW j \in 1 .. la + lc, i < j
       PROVE  h[i] < h[j]
  <2>1. CASE j <= la
    <3>1. i <= la
      BY <1>1, <1>11, <2>1
    <3> QED
      BY <1>2, <1>9, <1>11, <2>1, <3>1
  <2>2. CASE i > la
    <3>1. j > la
      BY <1>1, <1>11, <2>2
    <3>2. PICK x \in 1 .. ld : x = g[i - la] /\ h[i] = lb + x
      BY <1>9, <2>2
    <3>3. PICK y \in 1 .. ld : y = g[j - la] /\ h[j] = lb + y
      BY <1>9, <3>1
    <3>4. i - la < j - la
      BY <1>1, <1>11
    <3>5. x < y
      <4>1. i - la \in 1 .. lc /\ j - la \in 1 .. lc
        BY <1>9, <2>2, <3>1
      <4> QED
        BY ONLY <1>3, <3>2, <3>3, <3>4, <4>1
    <3>6. lb + x < lb + y
      BY ONLY <1>1, <3>5, x \in 1 .. ld, y \in 1 .. ld
    <3> QED
      BY ONLY <3>2, <3>3, <3>6
  <2>3. CASE i <= la /\ j > la
    <3>1. PICK x \in 1 .. lb : x = f[i] /\ h[i] = x
      BY <1>9, <2>3
    <3>2. PICK y \in 1 .. ld : h[j] = lb + y
      BY <1>9, <2>3
    <3> QED
      BY <1>1, <3>1, <3>2
  <2> QED
    BY <1>1, <2>1, <2>2, <2>3
<1>12. h \in [1 .. la + lc -> 1 .. lb + ld]
  BY <1>8, <1>10
<1>13. SubOf(s, t)
  BY ONLY <1>5, <1>7, <1>10, <1>11, <1>12 DEF SubOf
<1> QED
  BY <1>4, <1>6, <1>13

\* Leaving out places of each piece leaves out places of what the pieces make.
LEMMA SubOfFlat ==
    ASSUME NEW S, NEW ss \in Seq(Seq(S)), NEW tt \in Seq(Seq(S)), Len(ss) = Len(tt),
           \A k \in 1 .. Len(ss) : SubOf(ss[k], tt[k])
    PROVE  SubOf(FlattenSeq(ss), FlattenSeq(tt))
<1>0. PICK n \in Nat : n = Len(ss) /\ n = Len(tt)
  OBVIOUS
<1>1. PICK A : A = Seq(S)
  OBVIOUS
<1>2. ss \in Seq(A) /\ tt \in Seq(A)
  BY <1>1
<1> DEFINE T == {q \in Nat : q <= n =>
                    SubOf(FlattenSeq(SubSeq(ss, 1, q)), FlattenSeq(SubSeq(tt, 1, q)))}
<1>3. 0 \in T
  <2>1. SubSeq(ss, 1, 0) = <<>> /\ SubSeq(tt, 1, 0) = <<>>
    OBVIOUS
  <2>2. SubOf(FlattenSeq(<<>>), FlattenSeq(<<>>))
    BY SubOfEmpty, FlatEmpty
  <2> QED
    BY <2>1, <2>2
<1>4. ASSUME NEW q \in Nat, q \in T PROVE q + 1 \in T
  <2> SUFFICES ASSUME q + 1 <= n
               PROVE  SubOf(FlattenSeq(SubSeq(ss, 1, q + 1)), FlattenSeq(SubSeq(tt, 1, q + 1)))
    OBVIOUS
  <2>1. q < Len(ss) /\ q < Len(tt) /\ q <= n /\ q + 1 \in 1 .. Len(ss)
    BY <1>0
  <2>2. /\ SubSeq(ss, 1, q + 1) = Append(SubSeq(ss, 1, q), ss[q + 1])
        /\ SubSeq(ss, 1, q) \in Seq(A) /\ ss[q + 1] \in A
    BY ONLY <1>2, <2>1, q \in Nat, SubSeqSnoc
  <2>3. /\ SubSeq(tt, 1, q + 1) = Append(SubSeq(tt, 1, q), tt[q + 1])
        /\ SubSeq(tt, 1, q) \in Seq(A) /\ tt[q + 1] \in A
    BY ONLY <1>2, <2>1, q \in Nat, SubSeqSnoc
  <2>4. /\ SubSeq(ss, 1, q) \in Seq(Seq(S)) /\ ss[q + 1] \in Seq(S)
        /\ SubSeq(tt, 1, q) \in Seq(Seq(S)) /\ tt[q + 1] \in Seq(S)
    BY ONLY <1>1, <2>2, <2>3
  <2>5. /\ FlattenSeq(SubSeq(ss, 1, q + 1)) = FlattenSeq(SubSeq(ss, 1, q)) \o ss[q + 1]
        /\ FlattenSeq(SubSeq(ss, 1, q)) \in Seq(S)
    BY ONLY <2>2, <2>4, FlatAppend, FlatType
  <2>6. /\ FlattenSeq(SubSeq(tt, 1, q + 1)) = FlattenSeq(SubSeq(tt, 1, q)) \o tt[q + 1]
        /\ FlattenSeq(SubSeq(tt, 1, q)) \in Seq(S)
    BY ONLY <2>3, <2>4, FlatAppend, FlatType
  <2>7. SubOf(FlattenSeq(SubSeq(ss, 1, q)), FlattenSeq(SubSeq(tt, 1, q)))
    BY <1>4, <2>1
  <2>8. SubOf(ss[q + 1], tt[q + 1])
    BY <2>1
  <2>9. ss[q + 1] \in Seq(S) /\ tt[q + 1] \in Seq(S)
    BY <2>4
  <2>10. SubOf(FlattenSeq(SubSeq(ss, 1, q)) \o ss[q + 1], FlattenSeq(SubSeq(tt, 1, q)) \o tt[q + 1])
    <3>1. PICK x \in Seq(S) : x = FlattenSeq(SubSeq(ss, 1, q))
      BY ONLY <2>5
    <3>2. PICK y \in Seq(S) : y = FlattenSeq(SubSeq(tt, 1, q))
      BY ONLY <2>6
    <3>3. SubOf(x, y)
      BY ONLY <2>7, <3>1, <3>2
    <3>4. SubOf(x \o ss[q + 1], y \o tt[q + 1])
      BY ONLY <2>8, <2>9, <3>1, <3>2, <3>3, SubOfConcat
    <3> QED
      BY ONLY <3>1, <3>2, <3>4
  <2> QED
    BY ONLY <2>5, <2>6, <2>10
<1>5. Nat \subseteq T
  BY <1>3, <1>4, NatSetInduction, Zenon
<1>6. n \in T
  BY ONLY <1>5, n \in Nat
<1>7. n <= n
  OBVIOUS
<1>8. SubOf(FlattenSeq(SubSeq(ss, 1, n)), FlattenSeq(SubSeq(tt, 1, n)))
  BY ONLY <1>6, <1>7
<1>9. SubSeq(ss, 1, Len(ss)) = ss /\ SubSeq(tt, 1, Len(tt)) = tt
  BY ONLY <1>2, SubSeqAll
<1> QED
  BY ONLY <1>0, <1>8, <1>9
-------------------------------------------------------------------------------
\* got is what write_v took of the chunks c, when it returned out.
Took(out, c, got) ==
    /\ out \in Outcomes(c)
    /\ got = FlattenSeq([k \in 1 .. Len(c) |-> SubSeq(c[k], 1, out[k])])

\* What write_v took of the chunks: places of the array's contents are left out, and
\* none when no chunk was short.
LEMMA WrittenChunks ==
    ASSUME NEW S, NEW c \in Seq(Seq(S)), NEW out, NEW got, Took(out, c, got)
    PROVE  /\ got \in Seq(S) /\ SubOf(got, FlattenSeq(c))
           /\ {k \in 1 .. Len(c) : out[k] < Len(c[k])} = {} => got = FlattenSeq(c)
<1>1. PICK A : A = Seq(S)
  OBVIOUS
<1>2. c \in Seq(A)
  BY <1>1
<1>3. PICK n \in Nat : n = Len(c)
  BY <1>2
<1>a. /\ out \in Outcomes(c)
      /\ got = FlattenSeq([k \in 1 .. Len(c) |-> SubSeq(c[k], 1, out[k])])
  BY DEF Took
<1>4. \A k \in 1 .. n : c[k] \in A /\ c[k] \in Seq(S)
  BY ONLY <1>1, <1>2, <1>3
<1>5. \A k \in 1 .. n : out[k] \in Nat /\ out[k] <= Len(c[k])
  <2>1. /\ out \in [1 .. n -> 0 .. Max({Len(c[k]) : k \in 1 .. n})]
        /\ \A k \in 1 .. n : out[k] <= Len(c[k])
    BY ONLY <1>a, <1>3 DEF Outcomes
  <2>2. PICK m : m = Max({Len(c[k]) : k \in 1 .. n})
    OBVIOUS
  <2>3. \A k \in 1 .. n : out[k] \in 0 .. m
    BY ONLY <2>1, <2>2
  <2>4. \A x \in 0 .. m : x \in Nat
    OBVIOUS
  <2>5. \A k \in 1 .. n : out[k] \in Nat
    BY ONLY <2>3, <2>4
  <2> QED
    BY ONLY <2>1, <2>5
<1>6. PICK p : p = [k \in 1 .. n |-> SubSeq(c[k], 1, out[k])]
  OBVIOUS
<1>7. ASSUME NEW k \in 1 .. n
      PROVE  /\ p[k] \in Seq(S) /\ SubOf(p[k], c[k])
             /\ ~(out[k] < Len(c[k])) => p[k] = c[k]
  <2>1. PICK x \in Seq(S), m \in Nat : x = c[k] /\ m = out[k] /\ m <= Len(x)
    BY ONLY <1>4, <1>5, k \in 1 .. n
  <2>2. p[k] = SubSeq(x, 1, m)
    BY ONLY <1>6, <2>1, k \in 1 .. n
  <2>3. SubOf(SubSeq(x, 1, m), x) /\ SubSeq(x, 1, m) \in Seq(S)
    BY ONLY <2>1, SubOfPrefix
  <2>4. ASSUME ~(m < Len(x)) PROVE SubSeq(x, 1, m) = x
    <3>1. m = Len(x)
      BY ONLY <2>1, <2>4
    <3> QED
      BY ONLY <2>1, <3>1, SubSeqAll
  <2> QED
    BY ONLY <2>1, <2>2, <2>3, <2>4
<1>8. p \in Seq(A) /\ Len(p) = n
  <2>1. \A k \in 1 .. n : p[k] \in A
    BY ONLY <1>1, <1>7
  <2>2. p \in [1 .. n -> A]
    BY ONLY <1>6, <2>1
  <2>3. p \in Seq(A)
    BY ONLY n \in Nat, <2>2, SeqDef
  <2>4. DOMAIN p = 1 .. n
    BY ONLY <1>6
  <2>5. Len(p) = n
    BY ONLY n \in Nat, <2>3, <2>4, LenProperties
  <2> QED
    BY ONLY <2>3, <2>5
<1>9. p \in Seq(Seq(S))
  BY ONLY <1>1, <1>8
<1>10. got = FlattenSeq(p)
  BY ONLY <1>a, <1>3, <1>6
<1>11. got \in Seq(S)
  BY ONLY <1>9, <1>10, FlatType
<1>12. SubOf(got, FlattenSeq(c))
  <2>1. Len(p) = Len(c) /\ \A k \in 1 .. Len(p) : SubOf(p[k], c[k])
    BY ONLY <1>3, <1>7, <1>8
  <2> QED
    BY ONLY c \in Seq(Seq(S)), <1>9, <1>10, <2>1, SubOfFlat
<1>13. ASSUME {k \in 1 .. Len(c) : out[k] < Len(c[k])} = {} PROVE got = FlattenSeq(c)
  <2>1. \A k \in 1 .. n : ~(out[k] < Len(c[k]))
    BY ONLY <1>3, <1>13
  <2>2. \A k \in 1 .. n : p[k] = c[k]
    BY ONLY <1>7, <2>1
  <2>3. p = c
    BY ONLY <1>2, <1>3, <1>8, <2>2, SeqEqual
  <2> QED
    BY ONLY <1>10, <2>3
<1> QED
  BY ONLY <1>11, <1>12, <1>13

\* got reached the file, what the array has besides it was counted as dropped.
Accounted(iov, got) ==
    /\ SubOf(got, FlattenSeq(iov))
    /\ mu_bytes_written' = mu_bytes_written + Len(got)
    /\ mu_bytes_dropped' = mu_bytes_dropped + Len(FlattenSeq(iov)) - Len(got)
    /\ mu_write_errors' \in Nat
    /\ mu_write_errors' = 0 => mu_write_errors = 0 /\ got = FlattenSeq(iov)

\* What write_entries does to the file and the counters.
LEMMA WriteEntriesDoes ==
    ASSUME NEW S, NEW iov \in Seq(Seq(S)), NEW file \in Seq(S), NEW file1,
           mu_write_errors \in Nat, write_entries(file, iov, file1)
    PROVE  \E got \in Seq(S) : file1 = file \o got /\ Accounted(iov, got)
<1>1. PICK c : c = Chunks(iov)
  OBVIOUS
<1>2. c \in Seq(Seq(S)) /\ FlattenSeq(c) = FlattenSeq(iov)
  BY <1>1, ChunksFlat
<1>3. PICK out \in Outcomes(c) :
         LET got == FlattenSeq([k \in 1 .. Len(c) |-> SubSeq(c[k], 1, out[k])])
         IN  /\ file1 = file \o got
             /\ mu_bytes_written' = mu_bytes_written + Len(got)
             /\ mu_bytes_dropped' = mu_bytes_dropped + Len(FlattenSeq(c)) - Len(got)
             /\ mu_write_errors' = mu_write_errors
                   + Cardinality({k \in 1 .. Len(c) : out[k] < Len(c[k])})
  BY ONLY <1>1, write_entries(file, iov, file1) DEF write_entries
<1>4. PICK got : got = FlattenSeq([k \in 1 .. Len(c) |-> SubSeq(c[k], 1, out[k])])
  OBVIOUS
<1>5. /\ got \in Seq(S) /\ SubOf(got, FlattenSeq(c))
      /\ {k \in 1 .. Len(c) : out[k] < Len(c[k])} = {} => got = FlattenSeq(c)
  <2>1. Took(out, c, got)
    BY ONLY <1>4, out \in Outcomes(c) DEF Took
  <2> QED
    BY ONLY <1>2, <2>1, WrittenChunks
<1>6. PICK Z : Z = {k \in 1 .. Len(c) : out[k] < Len(c[k])}
  OBVIOUS
<1>7. IsFiniteSet(Z) /\ Cardinality(Z) \in Nat /\ (Cardinality(Z) = 0 => Z = {})
  <2>1. Len(c) \in Nat
    BY <1>2
  <2>2. IsFiniteSet(1 .. Len(c))
    BY <2>1, FS_Interval
  <2>3. IsFiniteSet(Z)
    BY ONLY <1>6, <2>2, FS_Subset
  <2> QED
    BY ONLY <2>3, FS_CardinalityType, FS_EmptySet
<1>8. mu_write_errors' = mu_write_errors + Cardinality(Z)
  BY <1>3, <1>6
<1>9. mu_write_errors' \in Nat /\ (mu_write_errors' = 0 => mu_write_errors = 0 /\ Cardinality(Z) = 0)
  <2>1. PICK z \in Nat : z = Cardinality(Z)
    BY <1>7
  <2>2. PICK e \in Nat : e = mu_write_errors
    OBVIOUS
  <2>3. mu_write_errors' = e + z
    BY <1>8, <2>1, <2>2
  <2>4. e + z \in Nat /\ (e + z = 0 => e = 0 /\ z = 0)
    OBVIOUS
  <2> QED
    BY ONLY <2>1, <2>2, <2>3, <2>4
<1>10. /\ file1 = file \o got
       /\ mu_bytes_written' = mu_bytes_written + Len(got)
       /\ mu_bytes_dropped' = mu_bytes_dropped + Len(FlattenSeq(c)) - Len(got)
  BY ONLY <1>3, <1>4
<1> QED
  BY ONLY <1>2, <1>5, <1>6, <1>7, <1>9, <1>10 DEF Accounted

\* grow_iov may drop the array instead, which is accounted for as well.
LEMMA WriteGrownDoes ==
    ASSUME NEW S, NEW iov \in Seq(Seq(S)), NEW file \in Seq(S), NEW file1,
           mu_write_errors \in Nat, mu_bytes_written \in Int, mu_bytes_dropped \in Int,
           WriteGrown(file, iov, file1)
    PROVE  \E got \in Seq(S) : file1 = file \o got /\ Accounted(iov, got)
<1>1. CASE write_entries(file, iov, file1)
  BY <1>1, WriteEntriesDoes
<1>2. CASE drop_batch(iov) /\ file1 = file
  <2>1. SubOf(<<>>, FlattenSeq(iov))
    BY SubOfEmpty
  <2>2. <<>> \in Seq(S) /\ file = file \o <<>> /\ Len(<<>>) = 0
    BY ConcatEmptySeq
  <2>3. PICK l : l = Len(FlattenSeq(iov))
    OBVIOUS
  <2>4. l \in Nat
    BY <2>3, FlatType
  <2>5. /\ mu_bytes_dropped' = mu_bytes_dropped + l
        /\ mu_write_errors' = mu_write_errors + 1
        /\ mu_bytes_written' = mu_bytes_written
    BY <1>2, <2>3 DEF drop_batch
  <2>6. /\ mu_bytes_written' = mu_bytes_written + Len(<<>>)
        /\ mu_bytes_dropped' = mu_bytes_dropped + l - Len(<<>>)
        /\ mu_write_errors' \in Nat /\ mu_write_errors' # 0
    BY <2>2, <2>4, <2>5
  <2>7. Accounted(iov, <<>>)
    BY ONLY <2>1, <2>3, <2>6 DEF Accounted
  <2> QED
    BY ONLY <1>2, <2>2, <2>7
<1> QED
  BY <1>1, <1>2 DEF WriteGrown
-------------------------------------------------------------------------------
\* Entries of service buffers, their cells, and the cells of data.
Entry    == {AttrEntry(i) : i \in Nat} \cup {ModEntry(i) : i \in Nat}
            \cup {StrEntry(s, i) : s \in Sites, i \in 1 .. 3} \cup {TrcEntry(s) : s \in Sites}
SvcCell  == Entry \X (1 .. EntryCells)
DataTag  == {<<"hello">>} \cup {<<"batch", n>> : n \in Nat}
            \cup {<<"span", n, i, s>> : n \in Nat, i \in Nat, s \in Sites}
DataCell == DataTag \X Nat

SinkTypes ==
    /\ sink \in {"none", "file", "null"}
    /\ svc_file \in Seq(SvcCell) /\ given_svc \in Seq(SvcCell)
    /\ data_file \in Seq(DataCell) /\ given_data \in Seq(DataCell)
    /\ mu_bytes_written \in Int /\ mu_bytes_dropped \in Int
    /\ mu_write_errors \in Nat /\ mu_total \in Int

\* Nothing is given to a sink that is not open.
UnopenedInv ==
    sink = "none" =>
        /\ svc_file = <<>> /\ data_file = <<>> /\ given_svc = <<>> /\ given_data = <<>>
        /\ mu_bytes_written = 0 /\ mu_bytes_dropped = 0 /\ mu_write_errors = 0 /\ mu_total = 0

\* The files are what was given with places left out, none of them without an error.
HolesInv ==
    sink = "file" =>
        /\ SubOf(svc_file, given_svc) /\ SubOf(data_file, given_data)
        /\ mu_write_errors = 0 => svc_file = given_svc /\ data_file = given_data

SinkInv == SinkTypes /\ UnopenedInv /\ SinkAccounts /\ HolesInv

\* n cells of x.
LEMMA CellsType ==
    ASSUME NEW T, NEW x \in T, NEW n \in Nat
    PROVE  /\ Cells(x, n) \in Seq(T \X (1 .. n)) /\ Cells(x, n) \in Seq(T \X Nat)
           /\ Len(Cells(x, n)) = n
           /\ \A i \in 1 .. n : Cells(x, n)[i] = <<x, i>>
<1>1. PICK c : c = Cells(x, n)
  OBVIOUS
<1>2. c = [i \in 1 .. n |-> <<x, i>>]
  BY <1>1 DEF Cells
<1>3. c \in [1 .. n -> T \X (1 .. n)] /\ c \in [1 .. n -> T \X Nat]
  BY <1>2
<1>4. c \in Seq(T \X (1 .. n)) /\ c \in Seq(T \X Nat)
  BY ONLY <1>3, n \in Nat, SeqDef
<1>5. DOMAIN c = 1 .. n
  BY <1>2
<1>6. Len(c) = n
  BY ONLY <1>4, <1>5, n \in Nat, LenProperties
<1> QED
  BY <1>1, <1>2, <1>4, <1>6

\* The header at the beginning of the data.
LEMMA HelloType == Hello \in Seq(DataCell) /\ Len(Hello) = HdrCells /\ HdrCells \in Nat
<1>1. HdrCells \in Nat
  BY SinkAssumption
<1>2. <<"hello">> \in DataTag
  BY DEF DataTag
<1>3. Hello \in Seq(DataTag \X Nat) /\ Len(Hello) = HdrCells
  BY ONLY <1>1, <1>2, CellsType DEF Hello
<1> QED
  BY ONLY <1>1, <1>3 DEF DataCell

\* The constructor accounts for the header.
LEMMA OpenSinkKeeps ==
    ASSUME SinkInv, NEW kind, OpenSink(kind)
    PROVE  SinkInv'
<1> USE DEF SinkInv, SinkTypes, UnopenedInv
<1>1. /\ svc_file = <<>> /\ data_file = <<>> /\ given_svc = <<>> /\ given_data = <<>>
      /\ mu_bytes_written = 0 /\ mu_bytes_dropped = 0 /\ mu_write_errors = 0 /\ mu_total = 0
      /\ given_data' = Hello /\ given_svc' = <<>> /\ svc_file' = <<>>
  BY DEF OpenSink
<1>2. PICK h \in Nat : h = HdrCells /\ Len(Hello) = h
  BY HelloType
<1>3. CASE /\ sink' = "file" /\ mu_total' = mu_total
           /\ write_entries(data_file, <<Hello>>, data_file')
  <2>1. <<Hello>> \in Seq(Seq(DataCell))
    <3>1. PICK A : A = Seq(DataCell)
      OBVIOUS
    <3>2. Hello \in A
      BY <3>1, HelloType
    <3>3. <<Hello>> \in Seq(A)
      BY ONLY <3>2
    <3> QED
      BY ONLY <3>1, <3>3
  <2>2. PICK got \in Seq(DataCell) : data_file' = data_file \o got /\ Accounted(<<Hello>>, got)
    <3>1. data_file \in Seq(DataCell) /\ mu_write_errors \in Nat
      OBVIOUS
    <3> QED
      BY ONLY <1>3, <2>1, <3>1, WriteEntriesDoes
  <2>3. FlattenSeq(<<Hello>>) = Hello
    BY FlatOne
  <2>4. data_file' = got
    BY <1>1, <2>2, ConcatEmptySeq
  <2>5. /\ SubOf(got, Hello)
        /\ mu_bytes_written' = mu_bytes_written + Len(got)
        /\ mu_bytes_dropped' = mu_bytes_dropped + Len(Hello) - Len(got)
        /\ mu_write_errors' \in Nat
        /\ mu_write_errors' = 0 => got = Hello
    BY <2>2, <2>3 DEF Accounted
  <2>6. PICK g \in Nat : g = Len(got)
    OBVIOUS
  <2>7. mu_bytes_written' = g /\ mu_bytes_dropped' = h - g
    BY ONLY <1>1, <1>2, <2>5, <2>6
  <2>8. SinkTypes' /\ UnopenedInv'
    BY <1>1, <1>3, <2>4, <2>5, <2>7, HelloType
  <2>9. SinkAccounts'
    <3>1. Len(svc_file') = 0 /\ Len(given_svc') = 0
      BY <1>1
    <3>2. Len(data_file') = g /\ Len(given_data') = h
      BY <1>1, <1>2, <2>4, <2>6
    <3> QED
      BY ONLY <1>3, <2>7, <3>1, <3>2 DEF SinkAccounts
  <2>10. HolesInv'
    <3>1. SubOf(<<>>, <<>>)
      BY SubOfEmpty
    <3> QED
      BY ONLY <1>1, <2>4, <2>5, <3>1 DEF HolesInv
  <2> QED
    BY <2>8, <2>9, <2>10
<1>4. CASE /\ sink' = "null" /\ mu_total' = mu_total + HdrCells
           /\ UNCHANGED <<data_file, countVars>>
  <2>1. mu_total' = h
    BY <1>1, <1>2, <1>4
  <2>2. Len(given_svc') = 0 /\ Len(given_data') = h
    BY <1>1, <1>2
  <2>3. SinkAccounts' /\ HolesInv' /\ UnopenedInv'
    BY ONLY <1>4, <2>1, <2>2 DEF SinkAccounts, HolesInv, UnopenedInv
  <2>4. SinkTypes'
    BY <1>1, <1>4, <2>1, HelloType DEF countVars
  <2> QED
    BY <2>3, <2>4
<1> QED
  BY <1>3, <1>4 DEF OpenSink

\* A service write accounts for its bytes.
LEMMA WriteServiceKeeps ==
    ASSUME SinkInv, NEW iov \in Seq(Seq(SvcCell)), WriteService(iov)
    PROVE  SinkInv'
<1> USE DEF SinkInv, SinkTypes
<1>0. iov \in Seq(Seq(SvcCell))
  OBVIOUS
<1>1. PICK add \in Seq(SvcCell) : add = FlattenSeq(iov)
  BY <1>0, FlatType
<1>2. given_svc' = given_svc \o add /\ sink' = sink /\ given_data' = given_data
  BY <1>1 DEF WriteService
<1>3. PICK a \in Nat, g \in Nat, og \in Nat :
         a = Len(add) /\ g = Len(given_svc) /\ og = Len(given_data)
  OBVIOUS
<1>4. given_svc' \in Seq(SvcCell) /\ Len(given_svc') = g + a
  BY <1>2, <1>3, ConcatAt
<1>5. CASE sink = "file" /\ WriteGrown(svc_file, iov, svc_file') /\ UNCHANGED <<data_file, mu_total>>
  <2>1. PICK got \in Seq(SvcCell) : svc_file' = svc_file \o got /\ Accounted(iov, got)
    <3>1. /\ svc_file \in Seq(SvcCell) /\ mu_write_errors \in Nat
          /\ mu_bytes_written \in Int /\ mu_bytes_dropped \in Int
      OBVIOUS
    <3> QED
      BY ONLY <1>0, <1>5, <3>1, WriteGrownDoes
  <2>2. /\ SubOf(got, add)
        /\ mu_bytes_written' = mu_bytes_written + Len(got)
        /\ mu_bytes_dropped' = mu_bytes_dropped + Len(add) - Len(got)
        /\ mu_write_errors' \in Nat
        /\ mu_write_errors' = 0 => mu_write_errors = 0 /\ got = add
    BY <1>1, <2>1 DEF Accounted
  <2>3. PICK f \in Nat, of \in Nat, l \in Nat :
           f = Len(svc_file) /\ of = Len(data_file) /\ l = Len(got)
    OBVIOUS
  <2>4. svc_file' \in Seq(SvcCell) /\ Len(svc_file') = f + l
    BY <2>1, <2>3, ConcatAt
  <2>5. PICK w \in Int, d \in Int : w = mu_bytes_written /\ d = mu_bytes_dropped
    OBVIOUS
  <2>6. w = f + of /\ w + d = g + og
    BY ONLY SinkInv, <1>3, <1>5, <2>3, <2>5 DEF SinkInv, SinkAccounts
  <2>7. mu_bytes_written' = w + l /\ mu_bytes_dropped' = d + a - l
    BY ONLY <1>3, <2>2, <2>3, <2>5
  <2>8. Len(data_file') = of /\ Len(given_data') = og
    BY <1>2, <1>3, <1>5, <2>3
  <2>9. SinkAccounts'
    <3>1. w + l = f + l + of /\ (w + l) + (d + a - l) = g + a + og
      BY ONLY <2>6, w \in Int, d \in Int, a \in Nat, g \in Nat, og \in Nat, f \in Nat,
              of \in Nat, l \in Nat
    <3>2. sink' = "file"
      BY <1>2, <1>5
    <3> QED
      BY ONLY <1>4, <2>4, <2>7, <2>8, <3>1, <3>2 DEF SinkAccounts
  <2>10. SinkTypes'
    BY <1>2, <1>4, <1>5, <2>2, <2>4, <2>7
  <2>11. HolesInv'
    <3>1. /\ SubOf(svc_file, given_svc) /\ SubOf(data_file, given_data)
          /\ mu_write_errors = 0 => svc_file = given_svc /\ data_file = given_data
      BY ONLY SinkInv, <1>5 DEF SinkInv, HolesInv
    <3>2. SubOf(svc_file \o got, given_svc \o add)
      <4>1. /\ svc_file \in Seq(SvcCell) /\ given_svc \in Seq(SvcCell)
            /\ got \in Seq(SvcCell) /\ add \in Seq(SvcCell)
        OBVIOUS
      <4> QED
        BY ONLY <2>2, <3>1, <4>1, SubOfConcat
    <3>3. /\ SubOf(svc_file', given_svc') /\ SubOf(data_file', given_data')
          /\ mu_write_errors' = 0 => svc_file' = given_svc' /\ data_file' = given_data'
      BY ONLY <1>2, <1>5, <2>1, <2>2, <3>1, <3>2
    <3> QED
      BY ONLY <3>3 DEF HolesInv
  <2>12. UnopenedInv'
    BY <1>2, <1>5 DEF UnopenedInv
  <2> QED
    BY ONLY <2>9, <2>10, <2>11, <2>12 DEF SinkInv
<1>6. CASE sink = "null" /\ CountOnly(iov)
  <2>1. PICK m \in Int : m = mu_total
    OBVIOUS
  <2>2. mu_total' = m + a /\ UNCHANGED <<fileVars, countVars>>
    BY <1>1, <1>3, <1>6, <2>1 DEF CountOnly
  <2>3. m = g + og
    BY ONLY SinkInv, <1>3, <1>6, <2>1 DEF SinkInv, SinkAccounts
  <2>4. SinkAccounts'
    <3>1. m + a = g + a + og
      BY ONLY <2>3, m \in Int, a \in Nat, g \in Nat, og \in Nat
    <3>2. Len(given_data') = og
      BY <1>2, <1>3
    <3>3. sink' = "null"
      BY <1>2, <1>6
    <3> QED
      BY ONLY <1>4, <2>2, <3>1, <3>2, <3>3 DEF SinkAccounts
  <2>5. SinkTypes'
    BY <1>2, <1>4, <2>2 DEF fileVars, countVars
  <2>6. HolesInv' /\ UnopenedInv'
    BY <1>2, <1>6 DEF HolesInv, UnopenedInv
  <2> QED
    BY ONLY <2>4, <2>5, <2>6 DEF SinkInv
<1> QED
  BY <1>5, <1>6 DEF WriteService

\* A data write accounts for its bytes, those of the packet included.
LEMMA WriteDataKeeps ==
    ASSUME SinkInv, NEW packet \in Seq(DataCell), NEW bufs \in Seq(Seq(DataCell)), WriteData(packet, bufs)
    PROVE  SinkInv'
<1> USE DEF SinkInv, SinkTypes
<1> DEFINE iov == <<packet>> \o bufs
<1>0. iov \in Seq(Seq(DataCell))
  <2>1. PICK A : A = Seq(DataCell)
    OBVIOUS
  <2>2. packet \in A /\ bufs \in Seq(A)
    BY <2>1
  <2>3. <<packet>> \o bufs \in Seq(A)
    BY ONLY <2>2
  <2> QED
    BY ONLY <2>1, <2>3
<1> HIDE DEF iov
<1>1. PICK add \in Seq(DataCell) : add = FlattenSeq(iov)
  BY <1>0, FlatType
<1>2. given_data' = given_data \o add /\ sink' = sink /\ given_svc' = given_svc
  BY <1>1 DEF WriteData, iov
<1>3. PICK a \in Nat, g \in Nat, og \in Nat :
         a = Len(add) /\ g = Len(given_data) /\ og = Len(given_svc)
  OBVIOUS
<1>4. given_data' \in Seq(DataCell) /\ Len(given_data') = g + a
  BY <1>2, <1>3, ConcatAt
<1>5. CASE sink = "file" /\ WriteGrown(data_file, iov, data_file') /\ UNCHANGED <<svc_file, mu_total>>
  <2>1. PICK got \in Seq(DataCell) : data_file' = data_file \o got /\ Accounted(iov, got)
    <3>1. /\ data_file \in Seq(DataCell) /\ mu_write_errors \in Nat
          /\ mu_bytes_written \in Int /\ mu_bytes_dropped \in Int
      OBVIOUS
    <3> QED
      BY ONLY <1>0, <1>5, <3>1, WriteGrownDoes
  <2>2. /\ SubOf(got, add)
        /\ mu_bytes_written' = mu_bytes_written + Len(got)
        /\ mu_bytes_dropped' = mu_bytes_dropped + Len(add) - Len(got)
        /\ mu_write_errors' \in Nat
        /\ mu_write_errors' = 0 => mu_write_errors = 0 /\ got = add
    BY <1>1, <2>1 DEF Accounted
  <2>3. PICK f \in Nat, of \in Nat, l \in Nat :
           f = Len(data_file) /\ of = Len(svc_file) /\ l = Len(got)
    OBVIOUS
  <2>4. data_file' \in Seq(DataCell) /\ Len(data_file') = f + l
    BY <2>1, <2>3, ConcatAt
  <2>5. PICK w \in Int, d \in Int : w = mu_bytes_written /\ d = mu_bytes_dropped
    OBVIOUS
  <2>6. w = f + of /\ w + d = g + og
    BY ONLY SinkInv, <1>3, <1>5, <2>3, <2>5 DEF SinkInv, SinkAccounts
  <2>7. mu_bytes_written' = w + l /\ mu_bytes_dropped' = d + a - l
    BY ONLY <1>3, <2>2, <2>3, <2>5
  <2>8. Len(svc_file') = of /\ Len(given_svc') = og
    BY <1>2, <1>3, <1>5, <2>3
  <2>9. SinkAccounts'
    <3>1. w + l = f + l + of /\ (w + l) + (d + a - l) = g + a + og
      BY ONLY <2>6, w \in Int, d \in Int, a \in Nat, g \in Nat, og \in Nat, f \in Nat,
              of \in Nat, l \in Nat
    <3>2. sink' = "file"
      BY <1>2, <1>5
    <3> QED
      BY ONLY <1>4, <2>4, <2>7, <2>8, <3>1, <3>2 DEF SinkAccounts
  <2>10. SinkTypes'
    BY <1>2, <1>4, <1>5, <2>2, <2>4, <2>7
  <2>11. HolesInv'
    <3>1. /\ SubOf(data_file, given_data) /\ SubOf(svc_file, given_svc)
          /\ mu_write_errors = 0 => data_file = given_data /\ svc_file = given_svc
      BY ONLY SinkInv, <1>5 DEF SinkInv, HolesInv
    <3>2. SubOf(data_file \o got, given_data \o add)
      <4>1. /\ data_file \in Seq(DataCell) /\ given_data \in Seq(DataCell)
            /\ got \in Seq(DataCell) /\ add \in Seq(DataCell)
        OBVIOUS
      <4> QED
        BY ONLY <2>2, <3>1, <4>1, SubOfConcat
    <3>3. /\ SubOf(data_file', given_data') /\ SubOf(svc_file', given_svc')
          /\ mu_write_errors' = 0 => data_file' = given_data' /\ svc_file' = given_svc'
      BY ONLY <1>2, <1>5, <2>1, <2>2, <3>1, <3>2
    <3> QED
      BY ONLY <3>3 DEF HolesInv
  <2>12. UnopenedInv'
    BY <1>2, <1>5 DEF UnopenedInv
  <2> QED
    BY ONLY <2>9, <2>10, <2>11, <2>12 DEF SinkInv
<1>6. CASE sink = "null" /\ CountOnly(iov)
  <2>1. PICK m \in Int : m = mu_total
    OBVIOUS
  <2>2. mu_total' = m + a /\ UNCHANGED <<fileVars, countVars>>
    BY <1>1, <1>3, <1>6, <2>1 DEF CountOnly
  <2>3. m = g + og
    BY ONLY SinkInv, <1>3, <1>6, <2>1 DEF SinkInv, SinkAccounts
  <2>4. SinkAccounts'
    <3>1. m + a = g + a + og
      BY ONLY <2>3, m \in Int, a \in Nat, g \in Nat, og \in Nat
    <3>2. Len(given_svc') = og
      BY <1>2, <1>3
    <3>3. sink' = "null"
      BY <1>2, <1>6
    <3> QED
      BY ONLY <1>4, <2>2, <3>1, <3>2, <3>3 DEF SinkAccounts
  <2>5. SinkTypes'
    BY <1>2, <1>4, <2>2 DEF fileVars, countVars
  <2>6. HolesInv' /\ UnopenedInv'
    BY <1>2, <1>6 DEF HolesInv, UnopenedInv
  <2> QED
    BY ONLY <2>4, <2>5, <2>6 DEF SinkInv
<1> QED
  BY <1>5, <1>6 DEF WriteData, iov

\* The service buffers are sequences of entries and none has more than fit.
BufsOK(b) ==
    /\ b \in Seq(Seq(Entry))
    /\ \A i \in 1 .. Len(b) : Len(b[i]) <= SvcEntries

\* Writing into the last of the buffers appends to what they hold together.
LEMMA FlatExtend ==
    ASSUME NEW b, BufsOK(b), b # <<>>, NEW now \in Seq(Entry),
           Len(Last(b)) + Len(now) <= SvcEntries
    PROVE  BufsOK(AppendTo(b, now)) /\ FlattenSeq(AppendTo(b, now)) = FlattenSeq(b) \o now
<1>1. PICK A : A = Seq(Entry)
  OBVIOUS
<1>2. PICK u \in Seq(A), x \in A : b = Append(u, x)
  <2>1. b \in Seq(A)
    BY <1>1 DEF BufsOK
  <2> QED
    BY <2>1, SequenceEmptyOrAppend
<1>3. Front(b) = u /\ Last(b) = x
  BY <1>2, FrontOfAppend
<1>4. u \in Seq(Seq(Entry)) /\ x \in Seq(Entry)
  BY <1>1
<1>5. PICK y : y = x \o now
  OBVIOUS
<1>6. y \in Seq(Entry) /\ Len(y) = Len(x) + Len(now)
  BY <1>4, <1>5, ConcatAt
<1>7. PICK c : c = Append(u, y)
  OBVIOUS
<1>8. c = AppendTo(b, now)
  BY <1>3, <1>5, <1>7 DEF AppendTo
<1>9. y \in A
  BY <1>1, <1>6
<1>10. PICK n \in Nat : n = Len(u)
  OBVIOUS
<1>11. /\ c \in Seq(A) /\ Len(c) = n + 1 /\ c[n + 1] = y /\ \A i \in 1 .. n : c[i] = u[i]
  BY ONLY <1>7, <1>9, <1>10, u \in Seq(A)
<1>12. Len(b) = n + 1 /\ \A i \in 1 .. n : b[i] = u[i]
  BY ONLY <1>2, <1>10, u \in Seq(A), x \in A
<1>13. ASSUME NEW i \in 1 .. n + 1 PROVE Len(c[i]) <= SvcEntries
  <2>1. CASE i = n + 1
    BY <1>3, <1>6, <1>11, <2>1
  <2>2. CASE i # n + 1
    <3>1. i \in 1 .. n
      BY ONLY <2>2, n \in Nat, i \in 1 .. n + 1
    <3>2. c[i] = b[i]
      BY ONLY <1>11, <1>12, <3>1
    <3>3. Len(b[i]) <= SvcEntries
      BY ONLY BufsOK(b), <1>12, i \in 1 .. n + 1 DEF BufsOK
    <3> QED
      BY ONLY <3>2, <3>3
  <2> QED
    BY <2>1, <2>2
<1>14. BufsOK(c)
  BY ONLY <1>1, <1>11, <1>13 DEF BufsOK
<1>15. FlattenSeq(b) = FlattenSeq(u) \o x /\ FlattenSeq(c) = FlattenSeq(u) \o y
  BY ONLY <1>2, <1>4, <1>6, <1>7, FlatAppend
<1>16. PICK f \in Seq(Entry) : f = FlattenSeq(u)
  BY <1>4, FlatType
<1>17. f \o y = (f \o x) \o now
  <2>1. x \in Seq(Entry)
    BY <1>4
  <2>2. (f \o x) \o now = f \o (x \o now)
    BY ONLY <2>1, f \in Seq(Entry), now \in Seq(Entry), ConcatAssoc
  <2> QED
    BY ONLY <1>5, <2>2
<1> QED
  BY ONLY <1>8, <1>14, <1>15, <1>16, <1>17

\* Opening a new buffer appends what is written into it.
LEMMA FlatOpen ==
    ASSUME NEW b, BufsOK(b), NEW now \in Seq(Entry), Len(now) <= SvcEntries
    PROVE  BufsOK(Append(b, now)) /\ FlattenSeq(Append(b, now)) = FlattenSeq(b) \o now
<1>1. PICK A : A = Seq(Entry)
  OBVIOUS
<1>2. b \in Seq(A) /\ now \in A
  BY <1>1 DEF BufsOK
<1>3. PICK c : c = Append(b, now)
  OBVIOUS
<1>4. PICK n \in Nat : n = Len(b)
  BY <1>2
<1>5. c \in Seq(A) /\ Len(c) = n + 1 /\ c[n + 1] = now /\ \A i \in 1 .. n : c[i] = b[i]
  BY ONLY <1>2, <1>3, <1>4
<1>6. ASSUME NEW i \in 1 .. n + 1 PROVE Len(c[i]) <= SvcEntries
  <2>1. CASE i = n + 1
    BY <1>5, <2>1
  <2>2. CASE i # n + 1
    <3>1. i \in 1 .. n
      BY ONLY <2>2, n \in Nat, i \in 1 .. n + 1
    <3>2. c[i] = b[i] /\ Len(b[i]) <= SvcEntries
      BY ONLY <1>4, <1>5, <3>1, BufsOK(b) DEF BufsOK
    <3> QED
      BY ONLY <3>2
  <2> QED
    BY <2>1, <2>2
<1>7. BufsOK(c)
  BY ONLY <1>1, <1>5, <1>6 DEF BufsOK
<1>8. b \in Seq(Seq(Entry))
  BY DEF BufsOK
<1>9. FlattenSeq(c) = FlattenSeq(b) \o now
  BY ONLY <1>3, <1>8, now \in Seq(Entry), FlatAppend
<1> QED
  BY ONLY <1>3, <1>7, <1>9

\* An entry of an attribute or a module is appended or counted as dropped.
LEMMA SvcOrDropDoes ==
    ASSUME BufsOK(mo_svc_buffers), NEW t, NEW entry \in Entry, SvcOrDrop(t, entry)
    PROVE  /\ BufsOK(mo_svc_buffers')
           /\ \/ /\ FlattenSeq(mo_svc_buffers') = FlattenSeq(mo_svc_buffers) \o <<entry>>
                 /\ mu_dropped_svc' = mu_dropped_svc
              \/ /\ mo_svc_buffers' = mo_svc_buffers
                 /\ mu_dropped_svc' = mu_dropped_svc + 1
<1>1. <<entry>> \in Seq(Entry) /\ Len(<<entry>>) = 1
  OBVIOUS
<1>2. SvcEntries \in Nat /\ 1 <= SvcEntries
  BY ServiceAssumption
<1>3. CASE /\ SvcRoom /\ mo_svc_buffers' = AppendTo(mo_svc_buffers, <<entry>>)
           /\ mu_dropped_svc' = mu_dropped_svc
  <2>1. mo_svc_buffers # <<>> /\ Len(Last(mo_svc_buffers)) < SvcEntries
    BY <1>3 DEF SvcRoom
  <2>2. Len(Last(mo_svc_buffers)) \in Nat
    <3>1. PICK A : A = Seq(Entry)
      OBVIOUS
    <3>2. PICK b \in Seq(A) : b = mo_svc_buffers
      BY <3>1 DEF BufsOK
    <3>3. b[Len(b)] \in A
      BY ONLY b \in Seq(A), <2>1, <3>2
    <3>4. Last(mo_svc_buffers) = b[Len(b)]
      BY <3>2 DEF Last
    <3>5. Last(mo_svc_buffers) \in Seq(Entry)
      BY ONLY <3>1, <3>3, <3>4
    <3> QED
      BY <3>5
  <2>3. Len(Last(mo_svc_buffers)) + Len(<<entry>>) <= SvcEntries
    BY <1>1, <1>2, <2>1, <2>2
  <2>4. /\ BufsOK(AppendTo(mo_svc_buffers, <<entry>>))
        /\ FlattenSeq(AppendTo(mo_svc_buffers, <<entry>>)) = FlattenSeq(mo_svc_buffers) \o <<entry>>
    BY <1>1, <2>1, <2>3, FlatExtend
  <2> QED
    BY ONLY <1>3, <2>4
<1>4. CASE /\ mo_svc_buffers' = Append(mo_svc_buffers, <<entry>>)
           /\ mu_dropped_svc' = mu_dropped_svc
  BY <1>1, <1>2, <1>4, FlatOpen
<1>5. CASE mo_svc_buffers' = mo_svc_buffers /\ mu_dropped_svc' = mu_dropped_svc + 1
  BY <1>5
<1> QED
  BY <1>3, <1>4, <1>5 DEF SvcOrDrop
-------------------------------------------------------------------------------
\* The first n entries thread t has to write are appended to what the buffers b hold.
Wrote(t, b, n) ==
    LET all == todo[t] IN
    /\ BufsOK(mo_svc_buffers')
    /\ FlattenSeq(mo_svc_buffers') = FlattenSeq(b) \o SubSeq(all, 1, n)
    /\ todo' = [todo EXCEPT ![t] = SubSeq(all, n + 1, Len(all))]
    /\ mo_sent' = mo_sent \cup {e \in Range(SubSeq(all, 1, n)) : e[1] # "trace"}
    /\ n = Len(all) => /\ mo_trc_descs' = mo_trc_descs \cup {all[Len(all)][2]}
                       /\ mo_trc_desc_mutex' = NoOne
                       /\ pc' = [pc EXCEPT ![t] = "idle"]
    /\ n # Len(all) => /\ pc' = [pc EXCEPT ![t] = "acquire"]
                       /\ UNCHANGED <<mo_trc_descs, mo_trc_desc_mutex>>

\* WriteInto writes as many entries as the last buffer has room for.
LEMMA WriteIntoDoes ==
    ASSUME NEW b, BufsOK(b), NEW t \in Threads, todo \in [Threads -> Seq(Entry)],
           WriteInto(t, b)
    PROVE  \E n \in 0 .. Len(todo[t]) : Wrote(t, b, n)
<1>1. PICK u \in Seq(Entry) : u = todo[t]
  OBVIOUS
<1>2. PICK l \in Nat : l = Len(u)
  OBVIOUS
<1>3. SvcEntries \in Nat
  BY ServiceAssumption
<1>4. PICK n : n = IF b = <<>> THEN 0 ELSE Min({SvcEntries - Len(Last(b)), Len(todo[t])})
  OBVIOUS
<1>5. n \in 0 .. l /\ (b # <<>> => Len(Last(b)) \in Nat /\ Len(Last(b)) + n <= SvcEntries)
      /\ (b = <<>> => n = 0)
  <2>1. CASE b = <<>>
    BY <1>2, <1>4, <2>1
  <2>2. CASE b # <<>>
    <3>1. PICK A : A = Seq(Entry)
      OBVIOUS
    <3>2. PICK c \in Seq(A) : c = b
      BY <3>1 DEF BufsOK
    <3>3. Len(c) \in 1 .. Len(c) /\ c[Len(c)] \in A
      BY ONLY c \in Seq(A), <2>2, <3>2
    <3>4. Last(b) = c[Len(c)]
      BY <3>2 DEF Last
    <3>5. Len(Last(b)) <= SvcEntries /\ Last(b) \in Seq(Entry)
      BY ONLY <3>1, <3>2, <3>3, <3>4, BufsOK(b) DEF BufsOK
    <3>6. PICK m \in Nat : m = Len(Last(b))
      BY ONLY <3>5
    <3>7. PICK r \in Nat : r = SvcEntries - m
      BY ONLY <1>3, <3>5, <3>6
    <3>8. n = Min({r, l})
      BY ONLY <1>1, <1>2, <1>4, <2>2, <3>6, <3>7
    <3>9. n = IF r <= l THEN r ELSE l
      BY ONLY <3>8, MinTwo, r \in Nat, l \in Nat
    <3> QED
      BY ONLY <1>3, <2>2, <3>6, <3>7, <3>9, l \in Nat
  <2> QED
    BY <2>1, <2>2
<1>6. PICK now \in Seq(Entry) : now = SubSeq(u, 1, n) /\ Len(now) = n
  <2>1. PICK a : a = SubSeq(u, 1, n)
    OBVIOUS
  <2>2. a \in Seq(Entry) /\ Len(a) = n
    BY <1>2, <1>5, <2>1, SubSeqProperties
  <2> QED
    BY <2>1, <2>2
<1>7. PICK rest \in Seq(Entry) : rest = SubSeq(u, n + 1, l) /\ (rest = <<>> <=> n = l)
  <2>1. PICK a : a = SubSeq(u, n + 1, l)
    OBVIOUS
  <2>2. a \in Seq(Entry)
    BY ONLY <1>2, <1>5, <2>1, SubSeqSplit, u \in Seq(Entry)
  <2>3. Len(a) = l - n
    BY ONLY <1>2, <1>5, <2>1, u \in Seq(Entry), l \in Nat
  <2>4. a = <<>> <=> Len(a) = 0
    BY ONLY <2>2
  <2>5. l - n = 0 <=> n = l
    BY ONLY <1>5, l \in Nat
  <2> QED
    BY ONLY <2>1, <2>2, <2>3, <2>4, <2>5
<1>8. /\ mo_svc_buffers' = IF n = 0 THEN b ELSE AppendTo(b, now)
      /\ todo' = [todo EXCEPT ![t] = rest]
      /\ mo_sent' = mo_sent \cup {e \in Range(now) : e[1] # "trace"}
      /\ IF rest = <<>>
         THEN /\ mo_trc_descs' = mo_trc_descs \cup {Last(u)[2]}
              /\ mo_trc_desc_mutex' = NoOne
              /\ pc' = [pc EXCEPT ![t] = "idle"]
         ELSE /\ pc' = [pc EXCEPT ![t] = "acquire"]
              /\ UNCHANGED <<mo_trc_descs, mo_trc_desc_mutex>>
  BY ONLY <1>1, <1>2, <1>4, <1>6, <1>7, WriteInto(t, b) DEF WriteInto
<1>9. Last(u) = u[l]
  BY <1>2 DEF Last
<1>10. BufsOK(mo_svc_buffers') /\ FlattenSeq(mo_svc_buffers') = FlattenSeq(b) \o now
  <2>1. CASE n = 0
    <3>1. now = <<>>
      BY ONLY <1>6, <2>1, now \in Seq(Entry)
    <3>2. PICK f \in Seq(Entry) : f = FlattenSeq(b)
      BY FlatType DEF BufsOK
    <3>3. f \o <<>> = f
      BY ONLY f \in Seq(Entry), ConcatEmptySeq
    <3> QED
      BY ONLY <1>8, <2>1, <3>1, <3>2, <3>3, BufsOK(b)
  <2>2. CASE n # 0
    <3>1. mo_svc_buffers' = AppendTo(b, now) /\ b # <<>>
      BY <1>5, <1>8, <2>2
    <3>2. Len(Last(b)) + Len(now) <= SvcEntries
      BY <1>5, <1>6, <3>1
    <3> QED
      BY ONLY <3>1, <3>2, BufsOK(b), now \in Seq(Entry), FlatExtend
  <2> QED
    BY <2>1, <2>2
<1>11. Wrote(t, b, n)
  BY ONLY <1>1, <1>2, <1>6, <1>7, <1>8, <1>9, <1>10 DEF Wrote
<1> QED
  BY ONLY <1>1, <1>2, <1>5, <1>11

\* Injective sequences and their ranges, by places.
LEMMA InjFacts ==
    ASSUME NEW S, NEW s \in Seq(S)
    PROVE  /\ Range(s) = {s[i] : i \in 1 .. Len(s)} /\ Range(s) \subseteq S
           /\ IsInjective(s) <=> \A i, j \in 1 .. Len(s) : s[i] = s[j] => i = j
<1>1. DOMAIN s = 1 .. Len(s) /\ \A i \in 1 .. Len(s) : s[i] \in S
  OBVIOUS
<1>2. Range(s) = {s[i] : i \in 1 .. Len(s)}
  BY <1>1 DEF Range
<1>3. Range(s) \subseteq S
  BY <1>1, <1>2
<1>4. IsInjective(s) <=> \A i, j \in 1 .. Len(s) : s[i] = s[j] => i = j
  BY <1>1 DEF IsInjective
<1> QED
  BY <1>2, <1>3, <1>4

\* Two sequences without repetitions and without a common member make one without.
LEMMA InjConcat ==
    ASSUME NEW S, NEW a \in Seq(S), NEW b \in Seq(S)
    PROVE  /\ a \o b \in Seq(S) /\ Range(a \o b) = Range(a) \cup Range(b)
           /\ IsInjective(a) /\ IsInjective(b) /\ Range(a) \cap Range(b) = {} => IsInjective(a \o b)
<1>1. PICK c : c = a \o b
  OBVIOUS
<1>2. PICK la \in Nat, lb \in Nat : la = Len(a) /\ lb = Len(b)
  OBVIOUS
<1>3. c \in Seq(S) /\ Len(c) = la + lb
      /\ \A i \in 1 .. la + lb : c[i] = IF i <= la THEN a[i] ELSE b[i - la]
  BY <1>1, <1>2, ConcatAt
<1>4. Range(c) = Range(a) \cup Range(b)
  BY <1>1, RangeConcatenation
<1>5. ASSUME IsInjective(a), IsInjective(b), Range(a) \cap Range(b) = {} PROVE IsInjective(c)
  <2>1. /\ \A i, j \in 1 .. la : a[i] = a[j] => i = j
        /\ \A i, j \in 1 .. lb : b[i] = b[j] => i = j
        /\ \A i \in 1 .. la, j \in 1 .. lb : a[i] # b[j]
    <3>1. /\ \A i, j \in 1 .. la : a[i] = a[j] => i = j
          /\ \A i, j \in 1 .. lb : b[i] = b[j] => i = j
      BY <1>2, <1>5, InjFacts
    <3>2. (\A i \in 1 .. la : a[i] \in Range(a)) /\ (\A i \in 1 .. lb : b[i] \in Range(b))
      BY <1>2, InjFacts
    <3> QED
      BY ONLY <1>5, <3>1, <3>2
  <2>2. ASSUME NEW i \in 1 .. la + lb, NEW j \in 1 .. la + lb, c[i] = c[j] PROVE i = j
    <3>1. CASE i <= la /\ j <= la
      <4>1. i \in 1 .. la /\ j \in 1 .. la
        BY ONLY <3>1, la \in Nat, lb \in Nat, i \in 1 .. la + lb, j \in 1 .. la + lb
      <4> QED
        BY ONLY <1>3, <2>1, <2>2, <3>1, <4>1
    <3>2. CASE ~(i <= la) /\ ~(j <= la)
      <4>1. i - la \in 1 .. lb /\ j - la \in 1 .. lb /\ (i - la = j - la => i = j)
        BY ONLY <3>2, la \in Nat, lb \in Nat, i \in 1 .. la + lb, j \in 1 .. la + lb
      <4>2. c[i] = b[i - la] /\ c[j] = b[j - la]
        BY ONLY <1>3, <3>2, i \in 1 .. la + lb, j \in 1 .. la + lb
      <4> QED
        BY ONLY <2>1, <2>2, <4>1, <4>2
    <3>3. CASE i <= la /\ ~(j <= la)
      <4>1. i \in 1 .. la /\ j - la \in 1 .. lb
        BY ONLY <3>3, la \in Nat, lb \in Nat, i \in 1 .. la + lb, j \in 1 .. la + lb
      <4>2. c[i] = a[i] /\ c[j] = b[j - la]
        BY ONLY <1>3, <3>3, i \in 1 .. la + lb, j \in 1 .. la + lb
      <4> QED
        BY ONLY <2>1, <2>2, <4>1, <4>2
    <3>4. CASE ~(i <= la) /\ j <= la
      <4>1. j \in 1 .. la /\ i - la \in 1 .. lb
        BY ONLY <3>4, la \in Nat, lb \in Nat, i \in 1 .. la + lb, j \in 1 .. la + lb
      <4>2. c[j] = a[j] /\ c[i] = b[i - la]
        BY ONLY <1>3, <3>4, i \in 1 .. la + lb, j \in 1 .. la + lb
      <4> QED
        BY ONLY <2>1, <2>2, <4>1, <4>2
    <3> QED
      BY <3>1, <3>2, <3>3, <3>4
  <2> QED
    BY ONLY <1>3, <2>2, InjFacts
<1> QED
  BY ONLY <1>1, <1>3, <1>4, <1>5

\* The same for one more member.
LEMMA InjSnoc ==
    ASSUME NEW S, NEW a \in Seq(S), NEW x \in S
    PROVE  /\ a \o <<x>> \in Seq(S) /\ Range(a \o <<x>>) = Range(a) \cup {x}
           /\ IsInjective(a) /\ x \notin Range(a) => IsInjective(a \o <<x>>)
<1>1. PICK b : b = <<x>>
  OBVIOUS
<1>2. b \in Seq(S) /\ Len(b) = 1 /\ b[1] = x
  BY <1>1
<1>3. Range(b) = {x} /\ IsInjective(b)
  <2>0. b \in Seq(S)
    BY <1>2
  <2>1. /\ Range(b) = {b[i] : i \in 1 .. Len(b)}
        /\ IsInjective(b) <=> \A i, j \in 1 .. Len(b) : b[i] = b[j] => i = j
    BY ONLY <2>0, InjFacts
  <2>2. 1 .. 1 = {1}
    OBVIOUS
  <2> QED
    BY ONLY <1>2, <2>1, <2>2
<1>4. /\ a \o b \in Seq(S) /\ Range(a \o b) = Range(a) \cup Range(b)
      /\ IsInjective(a) /\ IsInjective(b) /\ Range(a) \cap Range(b) = {} => IsInjective(a \o b)
  BY ONLY <1>2, a \in Seq(S), InjConcat
<1>5. x \notin Range(a) => Range(a) \cap Range(b) = {}
  BY ONLY <1>3
<1> QED
  BY ONLY <1>1, <1>3, <1>4, <1>5

\* What remains of a sequence when places are left out, when none of its members occurs twice.
LEMMA SubOfRemains ==
    ASSUME NEW S, NEW s \in Seq(S), NEW t \in Seq(S), IsInjective(t), SubOf(s, t)
    PROVE  RemainsOf(s, t)
<1>1. PICK n \in Nat, m \in Nat : n = Len(s) /\ m = Len(t)
  OBVIOUS
<1>2. PICK f \in [1 .. n -> 1 .. m] : /\ \A i, j \in 1 .. n : i < j => f[i] < f[j]
                                      /\ \A i \in 1 .. n : s[i] = t[f[i]]
  BY <1>1 DEF SubOf
<1>3. \A i, j \in 1 .. m : t[i] = t[j] => i = j
  BY <1>1, InjFacts
<1>4. ASSUME NEW i \in 1 .. n PROVE Place(t, s[i]) = f[i]
  <2>1. f[i] \in 1 .. m /\ t[f[i]] = s[i]
    BY <1>2
  <2>2. \A j \in 1 .. m : t[j] = s[i] => j = f[i]
    BY <1>3, <2>1
  <2> QED
    BY ONLY <1>1, <2>1, <2>2 DEF Place
<1>5. Range(s) \subseteq Range(t)
  <2>1. Range(s) = {s[i] : i \in 1 .. n} /\ Range(t) = {t[i] : i \in 1 .. m}
    BY <1>1, InjFacts
  <2> QED
    BY ONLY <1>2, <2>1
<1>6. ASSUME NEW i \in 2 .. n PROVE Place(t, s[i - 1]) < Place(t, s[i])
  <2>1. i \in 1 .. n /\ i - 1 \in 1 .. n /\ i - 1 < i
    BY <1>1
  <2> QED
    BY ONLY <1>2, <1>4, <2>1
<1> QED
  BY ONLY <1>1, <1>5, <1>6 DEF RemainsOf
-------------------------------------------------------------------------------
\* n cells of each member of u.
CellsOf(u, n) == FlattenSeq([i \in 1 .. Len(u) |-> Cells(u[i], n)])

\* The cells of the members of a sequence are cells.
LEMMA CellsOfSeq ==
    ASSUME NEW T, NEW u \in Seq(T), NEW n \in Nat
    PROVE  /\ [i \in 1 .. Len(u) |-> Cells(u[i], n)] \in Seq(Seq(T \X Nat))
           /\ CellsOf(u, n) \in Seq(T \X Nat)
<1>1. PICK C : C = Seq(T \X Nat)
  OBVIOUS
<1>2. PICK l \in Nat : l = Len(u)
  OBVIOUS
<1>3. ASSUME NEW i \in 1 .. l PROVE Cells(u[i], n) \in C
  <2>1. u[i] \in T
    BY <1>2
  <2>2. Cells(u[i], n) \in Seq(T \X Nat)
    BY ONLY <2>1, n \in Nat, CellsType
  <2> QED
    BY ONLY <1>1, <2>2
<1>4. PICK c : c = [i \in 1 .. l |-> Cells(u[i], n)]
  OBVIOUS
<1>5. c \in [1 .. l -> C]
  BY ONLY <1>3, <1>4
<1>6. c \in Seq(C)
  BY ONLY <1>5, l \in Nat, SeqDef
<1>7. c \in Seq(Seq(T \X Nat))
  BY ONLY <1>1, <1>6
<1>8. FlattenSeq(c) \in Seq(T \X Nat)
  BY ONLY <1>7, FlatType
<1> QED
  BY ONLY <1>2, <1>4, <1>7, <1>8 DEF CellsOf

\* The cells of two sequences, one after the other.
LEMMA CellsOfConcat ==
    ASSUME NEW T, NEW u \in Seq(T), NEW v \in Seq(T), NEW n \in Nat
    PROVE  CellsOf(u \o v, n) = CellsOf(u, n) \o CellsOf(v, n)
<1>1. PICK w : w = u \o v
  OBVIOUS
<1>2. PICK lu \in Nat, lv \in Nat : lu = Len(u) /\ lv = Len(v)
  OBVIOUS
<1>3. w \in Seq(T) /\ Len(w) = lu + lv
      /\ \A i \in 1 .. lu + lv : w[i] = IF i <= lu THEN u[i] ELSE v[i - lu]
  BY <1>1, <1>2, ConcatAt
<1>4. PICK a, b, c : /\ a = [i \in 1 .. lu |-> Cells(u[i], n)]
                     /\ b = [i \in 1 .. lv |-> Cells(v[i], n)]
                     /\ c = [i \in 1 .. lu + lv |-> Cells(w[i], n)]
  OBVIOUS
<1>5. PICK C : C = Seq(T \X Nat)
  OBVIOUS
<1>6. a \in Seq(C) /\ b \in Seq(C) /\ c \in Seq(C)
  <2>1. a \in Seq(Seq(T \X Nat))
    BY ONLY <1>2, <1>4, u \in Seq(T), n \in Nat, CellsOfSeq
  <2>2. b \in Seq(Seq(T \X Nat))
    BY ONLY <1>2, <1>4, v \in Seq(T), n \in Nat, CellsOfSeq
  <2>3. c = [i \in 1 .. Len(w) |-> Cells(w[i], n)] /\ w \in Seq(T)
    BY ONLY <1>3, <1>4
  <2>4. c \in Seq(Seq(T \X Nat))
    BY ONLY <2>3, n \in Nat, CellsOfSeq
  <2> QED
    BY ONLY <1>5, <2>1, <2>2, <2>4
<1>7. Len(a) = lu /\ Len(b) = lv /\ Len(c) = lu + lv
  <2>1. DOMAIN a = 1 .. lu /\ DOMAIN b = 1 .. lv /\ DOMAIN c = 1 .. lu + lv
    BY ONLY <1>4
  <2>2. lu + lv \in Nat
    OBVIOUS
  <2> QED
    BY ONLY <1>6, <2>1, <2>2, lu \in Nat, lv \in Nat, LenProperties
<1>8. PICK d : d = a \o b
  OBVIOUS
<1>9. d \in Seq(C) /\ Len(d) = lu + lv
      /\ \A i \in 1 .. lu + lv : d[i] = IF i <= lu THEN a[i] ELSE b[i - lu]
  BY ONLY <1>6, <1>7, <1>8, ConcatAt
<1>10. ASSUME NEW i \in 1 .. lu + lv PROVE c[i] = d[i]
  <2>1. CASE i <= lu
    <3>1. i \in 1 .. lu
      BY ONLY <2>1, lu \in Nat, lv \in Nat, i \in 1 .. lu + lv
    <3> QED
      BY ONLY <1>3, <1>4, <1>9, <2>1, <3>1, i \in 1 .. lu + lv
  <2>2. CASE ~(i <= lu)
    <3>1. i - lu \in 1 .. lv
      BY ONLY <2>2, lu \in Nat, lv \in Nat, i \in 1 .. lu + lv
    <3> QED
      BY ONLY <1>3, <1>4, <1>9, <2>2, <3>1, i \in 1 .. lu + lv
  <2> QED
    BY <2>1, <2>2
<1>11. c = d
  BY ONLY <1>6, <1>7, <1>9, <1>10, SeqEqual
<1>12. FlattenSeq(a \o b) = FlattenSeq(a) \o FlattenSeq(b)
  <2>1. a \in Seq(Seq(T \X Nat)) /\ b \in Seq(Seq(T \X Nat))
    BY ONLY <1>5, <1>6
  <2> QED
    BY ONLY <2>1, FlatConcat
<1> QED
  BY ONLY <1>1, <1>2, <1>3, <1>4, <1>8, <1>11, <1>12 DEF CellsOf

\* The cells of one member.
LEMMA CellsOfOne == \A x, n : CellsOf(<<x>>, n) = Cells(x, n)
<1> SUFFICES ASSUME NEW x, NEW n PROVE CellsOf(<<x>>, n) = Cells(x, n)
  OBVIOUS
<1>1. PICK y : y = Cells(x, n)
  OBVIOUS
<1>2. Len(<<x>>) = 1 /\ <<x>>[1] = x
  OBVIOUS
<1>3. [i \in 1 .. 1 |-> Cells(<<x>>[i], n)] = <<y>>
  BY <1>1
<1> QED
  BY ONLY <1>1, <1>2, <1>3, FlatOne DEF CellsOf

\* The cells of u: how many, where each member's first one is, which they are, and that none
\* comes twice.
CellsRight(u, n) ==
    /\ Len(CellsOf(u, n)) = Len(u) * n
    /\ \A i \in 1 .. Len(u) : CellsOf(u, n)[(i - 1) * n + 1] = <<u[i], 1>>
    /\ Range(CellsOf(u, n)) = Range(u) \X (1 .. n)
    /\ IsInjective(u) => IsInjective(CellsOf(u, n))

\* The facts about cells hold with one member more,
LEMMA CellsOfSnoc ==
    ASSUME NEW T, NEW v \in Seq(T), NEW x \in T, NEW n \in Nat \ {0}, CellsRight(v, n)
    PROVE  CellsRight(v \o <<x>>, n)
<1>1. PICK u : u = v \o <<x>>
  OBVIOUS
<1>2. PICK l \in Nat : l = Len(v)
  OBVIOUS
<1>3. u \in Seq(T) /\ Len(u) = l + 1 /\ u[l + 1] = x /\ \A i \in 1 .. l : u[i] = v[i]
  BY <1>1, <1>2
<1>4. PICK c \in Seq(T \X Nat) : c = CellsOf(v, n)
  BY CellsOfSeq
<1>5. PICK d \in Seq(T \X Nat) : d = Cells(x, n) /\ Len(d) = n /\ \A i \in 1 .. n : d[i] = <<x, i>>
  BY CellsType
<1>6. PICK e : e = c \o d
  OBVIOUS
<1>7. e = CellsOf(u, n)
  <2>1. PICK y : y = <<x>>
    OBVIOUS
  <2>2. y \in Seq(T) /\ n \in Nat
    BY <2>1
  <2>3. CellsOf(v \o y, n) = CellsOf(v, n) \o CellsOf(y, n)
    BY ONLY <2>2, v \in Seq(T), CellsOfConcat
  <2> QED
    BY ONLY <1>1, <1>4, <1>5, <1>6, <2>1, <2>3, CellsOfOne
<1>8. /\ Len(c) = l * n /\ \A i \in 1 .. l : c[(i - 1) * n + 1] = <<v[i], 1>>
      /\ Range(c) = Range(v) \X (1 .. n)
      /\ IsInjective(v) => IsInjective(c)
  BY ONLY <1>2, <1>4, CellsRight(v, n) DEF CellsRight
<1>9. PICK m \in Nat : m = l * n
  OBVIOUS
<1>10. /\ e \in Seq(T \X Nat) /\ Len(e) = m + n
       /\ \A i \in 1 .. m + n : e[i] = IF i <= m THEN c[i] ELSE d[i - m]
  BY ONLY <1>5, <1>6, <1>8, <1>9, c \in Seq(T \X Nat), ConcatAt
<1>11. Len(e) = (l + 1) * n
  <2>1. (l + 1) * n = l * n + n
    OBVIOUS
  <2> QED
    BY ONLY <1>9, <1>10, <2>1
<1>12. ASSUME NEW i \in 1 .. l + 1 PROVE e[(i - 1) * n + 1] = <<u[i], 1>>
  <2>1. PICK q \in Nat : q = (i - 1) * n
    BY i - 1 \in Nat
  <2>2. CASE i \in 1 .. l
    <3>1. q + n <= m
      <4>1. i * n <= l * n
        BY <2>2
      <4>2. i * n = q + n
        BY <2>1, <2>2
      <4> QED
        BY ONLY <1>9, <4>1, <4>2
    <3>2. q + 1 \in 1 .. m + n /\ q + 1 <= m
      BY ONLY <3>1, q \in Nat, m \in Nat, n \in Nat \ {0}
    <3> QED
      BY ONLY <1>3, <1>8, <1>10, <2>1, <2>2, <3>2
  <2>3. CASE i = l + 1
    <3>1. q = m
      BY <1>9, <2>1, <2>3
    <3>2. q + 1 \in 1 .. m + n /\ ~(q + 1 <= m) /\ (q + 1) - m = 1 /\ 1 \in 1 .. n
      BY ONLY <3>1, q \in Nat, m \in Nat, n \in Nat \ {0}
    <3>3. e[q + 1] = d[1] /\ d[1] = <<x, 1>>
      BY ONLY <1>5, <1>10, <3>2
    <3> QED
      BY ONLY <1>3, <2>1, <2>3, <3>3
  <2> QED
    BY ONLY <2>2, <2>3, i \in 1 .. l + 1, l \in Nat
<1>13. Range(d) = {x} \X (1 .. n) /\ IsInjective(d)
  <2>0. Len(d) = n
    BY ONLY <1>5
  <2>1. /\ Range(d) = {d[i] : i \in 1 .. n}
        /\ IsInjective(d) <=> \A i, j \in 1 .. n : d[i] = d[j] => i = j
    BY ONLY <2>0, d \in Seq(T \X Nat), InjFacts
  <2>2. {d[i] : i \in 1 .. n} = {<<x, i>> : i \in 1 .. n}
    BY ONLY <1>5
  <2>3. {<<x, i>> : i \in 1 .. n} = {x} \X (1 .. n)
    OBVIOUS
  <2>4. \A i, j \in 1 .. n : d[i] = d[j] => i = j
    BY ONLY <1>5
  <2> QED
    BY ONLY <2>1, <2>2, <2>3, <2>4
<1>14. Range(u) = Range(v) \cup {x} /\ Range(e) = Range(c) \cup Range(d)
  BY ONLY <1>1, <1>6, v \in Seq(T), x \in T, c \in Seq(T \X Nat), d \in Seq(T \X Nat),
          InjSnoc, InjConcat
<1>15. Range(e) = Range(u) \X (1 .. n)
  BY ONLY <1>8, <1>13, <1>14
<1>16. ASSUME IsInjective(u) PROVE IsInjective(e)
  <2>1. \A i, j \in 1 .. l + 1 : u[i] = u[j] => i = j
    BY ONLY <1>3, <1>16, InjFacts
  <2>2. IsInjective(v)
    <3>1. \A i, j \in 1 .. l : v[i] = v[j] => i = j
      BY <1>3, <2>1
    <3> QED
      BY ONLY <1>2, <3>1, v \in Seq(T), InjFacts
  <2>3. x \notin Range(v)
    <3>1. Range(v) = {v[i] : i \in 1 .. l}
      BY ONLY <1>2, v \in Seq(T), InjFacts
    <3>2. \A i \in 1 .. l : u[i] # u[l + 1]
      BY ONLY <2>1, l \in Nat
    <3> QED
      BY ONLY <1>3, <3>1, <3>2
  <2>4. Range(c) \cap Range(d) = {}
    BY ONLY <1>8, <1>13, <2>3
  <2> QED
    BY ONLY <1>6, <1>8, <1>13, <2>2, <2>4, c \in Seq(T \X Nat), d \in Seq(T \X Nat), InjConcat
<1>17. CellsRight(u, n)
  BY ONLY <1>3, <1>7, <1>11, <1>12, <1>15, <1>16 DEF CellsRight
<1> QED
  BY ONLY <1>1, <1>17

\* and so they hold of every sequence.
LEMMA CellsOfFacts ==
    ASSUME NEW T, NEW u \in Seq(T), NEW n \in Nat \ {0}
    PROVE  CellsRight(u, n)
<1> DEFINE R == {q \in Nat : \A w \in Seq(T) : Len(w) = q => CellsRight(w, n)}
<1>1. 0 \in R
  <2> SUFFICES ASSUME NEW w \in Seq(T), Len(w) = 0 PROVE CellsRight(w, n)
    OBVIOUS
  <2>1. w = <<>>
    OBVIOUS
  <2>2. PICK z : z = [i \in 1 .. 0 |-> Cells(w[i], n)]
    OBVIOUS
  <2>3. z = <<>>
    BY <2>2
  <2>4. CellsOf(w, n) = <<>>
    BY <2>1, <2>2, <2>3, FlatEmpty DEF CellsOf
  <2>5. Range(<<>>) = {} /\ IsInjective(<<>>)
    BY DEF Range, IsInjective
  <2> QED
    BY ONLY <2>1, <2>4, <2>5, n \in Nat \ {0} DEF CellsRight
<1>2. ASSUME NEW q \in Nat, q \in R PROVE q + 1 \in R
  <2> SUFFICES ASSUME NEW w \in Seq(T), Len(w) = q + 1 PROVE CellsRight(w, n)
    OBVIOUS
  <2>1. PICK v \in Seq(T), x \in T : w = Append(v, x)
    <3>1. w # <<>>
      OBVIOUS
    <3> QED
      BY <3>1, SequenceEmptyOrAppend
  <2>2. w = v \o <<x>> /\ Len(v) = q
    BY <2>1
  <2>3. CellsRight(v, n)
    BY <1>2, <2>2
  <2> QED
    BY ONLY <2>2, <2>3, v \in Seq(T), x \in T, n \in Nat \ {0}, CellsOfSnoc
<1>3. Nat \subseteq R
  BY <1>1, <1>2, NatSetInduction, Zenon
<1>4. Len(u) \in R
  <2>1. Len(u) \in Nat
    OBVIOUS
  <2> QED
    BY ONLY <1>3, <2>1
<1> QED
  BY <1>4

\* The cells of the buffers, one after the other, are the cells of what they hold together.
LEMMA CellsOfFlat ==
    ASSUME NEW T, NEW b \in Seq(Seq(T)), NEW n \in Nat
    PROVE  /\ [i \in 1 .. Len(b) |-> CellsOf(b[i], n)] \in Seq(Seq(T \X Nat))
           /\ FlattenSeq([i \in 1 .. Len(b) |-> CellsOf(b[i], n)]) = CellsOf(FlattenSeq(b), n)
<1>1. PICK A, C : A = Seq(T) /\ C = Seq(T \X Nat)
  OBVIOUS
<1> DEFINE Celled(w) == [i \in 1 .. Len(w) |-> CellsOf(w[i], n)]
           R == {q \in Nat : \A w \in Seq(A) : Len(w) = q =>
                    Celled(w) \in Seq(C) /\ FlattenSeq(Celled(w)) = CellsOf(FlattenSeq(w), n)}
<1>2. 0 \in R
  <2> SUFFICES ASSUME NEW w \in Seq(A), Len(w) = 0
               PROVE  Celled(w) \in Seq(C) /\ FlattenSeq(Celled(w)) = CellsOf(FlattenSeq(w), n)
    OBVIOUS
  <2>1. w = <<>> /\ Celled(w) = <<>>
    OBVIOUS
  <2>2. PICK z : z = [i \in 1 .. Len(<<>>) |-> Cells(<<>>[i], n)]
    OBVIOUS
  <2>3. z = <<>>
    BY <2>2
  <2>4. CellsOf(<<>>, n) = <<>>
    BY <2>2, <2>3, FlatEmpty DEF CellsOf
  <2>5. <<>> \in Seq(C)
    OBVIOUS
  <2> QED
    BY ONLY <2>1, <2>4, <2>5, FlatEmpty
<1>3. ASSUME NEW q \in Nat, q \in R PROVE q + 1 \in R
  <2> SUFFICES ASSUME NEW w \in Seq(A), Len(w) = q + 1
               PROVE  Celled(w) \in Seq(C) /\ FlattenSeq(Celled(w)) = CellsOf(FlattenSeq(w), n)
    OBVIOUS
  <2>1. PICK v \in Seq(A), x \in A : w = Append(v, x)
    <3>1. w # <<>>
      OBVIOUS
    <3> QED
      BY <3>1, SequenceEmptyOrAppend
  <2>2. Len(v) = q /\ w[q + 1] = x /\ \A i \in 1 .. q : w[i] = v[i]
    BY <2>1
  <2>3. PICK cv : cv = Celled(v)
    OBVIOUS
  <2>4. cv \in Seq(C) /\ FlattenSeq(cv) = CellsOf(FlattenSeq(v), n)
    BY <1>3, <2>2, <2>3
  <2>5. PICK cx : cx = CellsOf(x, n)
    OBVIOUS
  <2>6. cx \in C
    BY ONLY <1>1, <2>5, x \in A, n \in Nat, CellsOfSeq
  <2>7. PICK cw : cw = Celled(w)
    OBVIOUS
  <2>8. cw = [i \in 1 .. q + 1 |-> CellsOf(w[i], n)] /\ cv = [i \in 1 .. q |-> CellsOf(v[i], n)]
    BY <2>2, <2>3, <2>7
  <2>9. Len(cv) = q
    <3>1. DOMAIN cv = 1 .. q
      BY ONLY <2>8
    <3> QED
      BY ONLY <2>4, <3>1, q \in Nat, LenProperties
  <2>10. cw = Append(cv, cx)
    <3>1. PICK d : d = Append(cv, cx)
      OBVIOUS
    <3>2. d \in Seq(C) /\ Len(d) = q + 1 /\ d[q + 1] = cx /\ \A i \in 1 .. q : d[i] = cv[i]
      BY ONLY <2>4, <2>6, <2>9, <3>1, q \in Nat
    <3>3. ASSUME NEW i \in 1 .. q + 1 PROVE cw[i] = d[i]
      <4>1. CASE i = q + 1
        BY ONLY <2>2, <2>5, <2>8, <3>2, <4>1, i \in 1 .. q + 1
      <4>2. CASE i \in 1 .. q
        BY ONLY <2>2, <2>8, <3>2, <4>2, i \in 1 .. q + 1
      <4> QED
        BY ONLY <4>1, <4>2, i \in 1 .. q + 1, q \in Nat
    <3>4. \A i \in 1 .. q + 1 : d[i] \in C
      BY ONLY <3>2, q \in Nat
    <3>5. cw \in [1 .. q + 1 -> C]
      BY ONLY <2>8, <3>3, <3>4
    <3>6. q + 1 \in Nat
      OBVIOUS
    <3>7. cw \in Seq(C)
      BY ONLY <3>5, <3>6, SeqDef
    <3>8. DOMAIN cw = 1 .. q + 1
      BY ONLY <2>8
    <3>9. Len(cw) = q + 1
      BY ONLY <3>6, <3>7, <3>8, LenProperties
    <3>10. cw = d
      BY ONLY <3>2, <3>3, <3>7, <3>9, SeqEqual
    <3> QED
      BY ONLY <3>1, <3>10
  <2>11. cw \in Seq(C)
    BY ONLY <2>4, <2>6, <2>10
  <2>12. FlattenSeq(cw) = FlattenSeq(cv) \o cx
    <3>1. cv \in Seq(Seq(T \X Nat)) /\ cx \in Seq(T \X Nat)
      BY ONLY <1>1, <2>4, <2>6
    <3> QED
      BY ONLY <2>10, <3>1, FlatAppend
  <2>13. v \in Seq(Seq(T)) /\ x \in Seq(T)
    BY <1>1
  <2>14. FlattenSeq(w) = FlattenSeq(v) \o x
    BY ONLY <2>1, <2>13, FlatAppend
  <2>15. FlattenSeq(v) \in Seq(T)
    BY ONLY <2>13, FlatType
  <2>16. CellsOf(FlattenSeq(w), n) = CellsOf(FlattenSeq(v), n) \o CellsOf(x, n)
    <3>1. PICK f \in Seq(T) : f = FlattenSeq(v)
      BY ONLY <2>15
    <3>2. CellsOf(f \o x, n) = CellsOf(f, n) \o CellsOf(x, n)
      BY ONLY <2>13, n \in Nat, f \in Seq(T), CellsOfConcat
    <3> QED
      BY ONLY <2>14, <3>1, <3>2
  <2> QED
    BY ONLY <2>4, <2>5, <2>7, <2>11, <2>12, <2>16
<1>4. Nat \subseteq R
  BY <1>2, <1>3, NatSetInduction, Zenon
<1>5. Len(b) \in R /\ b \in Seq(A)
  <2>1. Len(b) \in Nat /\ b \in Seq(A)
    BY <1>1
  <2> QED
    BY ONLY <1>4, <2>1
<1>6. Celled(b) \in Seq(C) /\ FlattenSeq(Celled(b)) = CellsOf(FlattenSeq(b), n)
  BY ONLY <1>5
<1> QED
  BY ONLY <1>1, <1>6

\* The entries whose cells c are.
EntriesIn(c) == [i \in 1 .. Len(c) \div EntryCells |-> c[(i - 1) * EntryCells + 1][1]]

\* The entries can be read off their cells.
LEMMA Decode ==
    ASSUME NEW g \in Seq(Entry), NEW c, c = EntrySeqCells(g)
    PROVE  EntriesIn(c) = g
<1>1. PICK n \in Nat \ {0} : n = EntryCells
  BY ServiceAssumption
<1>2. c = CellsOf(g, n)
  BY <1>1 DEF EntrySeqCells, CellsOf
<1>3. CellsRight(g, n)
  BY ONLY g \in Seq(Entry), n \in Nat \ {0}, CellsOfFacts
<1>4. PICK l \in Nat : l = Len(g)
  OBVIOUS
<1>5. Len(c) = l * n /\ \A i \in 1 .. l : c[(i - 1) * n + 1] = <<g[i], 1>>
  BY ONLY <1>2, <1>3, <1>4 DEF CellsRight
<1>6. (l * n) \div n = l
  OBVIOUS
<1>7. EntriesIn(c) = [i \in 1 .. l |-> c[(i - 1) * n + 1][1]]
  BY ONLY <1>1, <1>5, <1>6 DEF EntriesIn
<1>8. \A i \in 1 .. l : c[(i - 1) * n + 1][1] = g[i]
  BY ONLY <1>5
<1>9. g = [i \in 1 .. l |-> g[i]]
  BY ONLY <1>4, g \in Seq(Entry)
<1> QED
  BY ONLY <1>7, <1>8, <1>9

\* Cells are appended entry by entry, and none comes twice when no entry does.
LEMMA EntryCellsAre ==
    ASSUME NEW g \in Seq(Entry)
    PROVE  /\ EntrySeqCells(g) \in Seq(SvcCell)
           /\ IsInjective(g) => IsInjective(EntrySeqCells(g))
           /\ \A h \in Seq(Entry) : EntrySeqCells(g \o h) = EntrySeqCells(g) \o EntrySeqCells(h)
<1>1. PICK n \in Nat \ {0} : n = EntryCells
  BY ServiceAssumption
<1>2. \A h \in Seq(Entry) : EntrySeqCells(h) = CellsOf(h, n)
  BY <1>1 DEF EntrySeqCells, CellsOf
<1>3. CellsRight(g, n)
  BY ONLY g \in Seq(Entry), n \in Nat \ {0}, CellsOfFacts
<1>4. PICK c \in Seq(Entry \X Nat) : c = CellsOf(g, n)
  BY ONLY g \in Seq(Entry), n \in Nat \ {0}, CellsOfSeq
<1>5. c \in Seq(SvcCell)
  <2>1. Range(c) = Range(g) \X (1 .. n)
    BY ONLY <1>3, <1>4 DEF CellsRight
  <2>2. Range(g) \subseteq Entry
    BY ONLY g \in Seq(Entry), InjFacts
  <2>3. Range(c) \subseteq SvcCell
    BY ONLY <1>1, <2>1, <2>2 DEF SvcCell
  <2>4. PICK l \in Nat : l = Len(c)
    OBVIOUS
  <2>5. Range(c) = {c[i] : i \in 1 .. l}
    BY ONLY <2>4, c \in Seq(Entry \X Nat), InjFacts
  <2>6. \A i \in 1 .. l : c[i] \in SvcCell
    BY ONLY <2>3, <2>5
  <2>7. c = [i \in 1 .. l |-> c[i]]
    BY ONLY <2>4, c \in Seq(Entry \X Nat)
  <2>8. c \in [1 .. l -> SvcCell]
    BY ONLY <2>6, <2>7
  <2> QED
    BY ONLY <2>8, l \in Nat, SeqDef
<1>6. IsInjective(g) => IsInjective(c)
  BY ONLY <1>3, <1>4 DEF CellsRight
<1>7. ASSUME NEW h \in Seq(Entry)
      PROVE  EntrySeqCells(g \o h) = EntrySeqCells(g) \o EntrySeqCells(h)
  <2>0. g \o h \in Seq(Entry)
    OBVIOUS
  <2>1. PICK k \in Seq(Entry) : k = g \o h
    BY ONLY <2>0
  <2>2. n \in Nat
    OBVIOUS
  <2>3. CellsOf(g \o h, n) = CellsOf(g, n) \o CellsOf(h, n)
    BY ONLY <2>2, g \in Seq(Entry), h \in Seq(Entry), CellsOfConcat
  <2> QED
    BY ONLY <1>2, <2>1, <2>3, g \in Seq(Entry), h \in Seq(Entry), k \in Seq(Entry)
<1> QED
  BY ONLY <1>2, <1>4, <1>5, <1>6, <1>7, g \in Seq(Entry)

\* What write_service is given of the buffers are the cells of all they hold.
LEMMA GivenOfBuffers ==
    ASSUME NEW b \in Seq(Seq(Entry)), NEW iov, iov = [i \in 1 .. Len(b) |-> EntrySeqCells(b[i])]
    PROVE  /\ iov \in Seq(Seq(SvcCell)) /\ FlattenSeq(iov) = EntrySeqCells(FlattenSeq(b))
           /\ FlattenSeq(b) \in Seq(Entry)
<1>1. PICK n \in Nat : n = EntryCells
  BY ServiceAssumption
<1>2. \A h : EntrySeqCells(h) = CellsOf(h, n)
  BY <1>1 DEF EntrySeqCells, CellsOf
<1>3. iov = [i \in 1 .. Len(b) |-> CellsOf(b[i], n)]
  BY ONLY <1>2, iov = [i \in 1 .. Len(b) |-> EntrySeqCells(b[i])]
<1>4. FlattenSeq(iov) = EntrySeqCells(FlattenSeq(b))
  BY ONLY <1>2, <1>3, n \in Nat, b \in Seq(Seq(Entry)), CellsOfFlat
<1>5. FlattenSeq(b) \in Seq(Entry)
  BY FlatType
<1>6. iov \in Seq(Seq(SvcCell))
  <2>1. PICK A, C : A = Seq(Entry) /\ C = Seq(SvcCell)
    OBVIOUS
  <2>2. b \in Seq(A)
    BY <2>1
  <2>3. PICK l \in Nat : l = Len(b)
    BY <2>2
  <2>4. \A i \in 1 .. l : b[i] \in A
    BY ONLY <2>2, <2>3
  <2>5. \A i \in 1 .. l : EntrySeqCells(b[i]) \in C
    BY ONLY <2>1, <2>4, EntryCellsAre
  <2>6. iov \in [1 .. l -> C]
    BY ONLY <2>3, <2>5, iov = [i \in 1 .. Len(b) |-> EntrySeqCells(b[i])]
  <2>7. iov \in Seq(C)
    BY ONLY <2>6, l \in Nat, SeqDef
  <2> QED
    BY ONLY <2>1, <2>7
<1> QED
  BY ONLY <1>4, <1>5, <1>6
-------------------------------------------------------------------------------
IsString(e) == e[1] \in {"file", "func", "name"}

\* The kinds of entries do not mix.
LEMMA EntryKinds ==
    /\ \A i \in Nat : AttrEntry(i) \in Entry /\ ModEntry(i) \in Entry
    /\ \A s \in Sites, k \in 1 .. 3 : StrEntry(s, k) \in Entry /\ IsString(StrEntry(s, k))
    /\ \A s \in Sites : TrcEntry(s) \in Entry
    /\ \A i : AttrEntry(i)[1] = "attr" /\ AttrEntry(i)[2] = i /\ ModEntry(i)[1] = "mod" /\ ModEntry(i)[2] = i
    /\ \A s : TrcEntry(s)[1] = "trace" /\ TrcEntry(s)[2] = s
    /\ \A s : \A k, l \in 1 .. 3 : StrEntry(s, k) = StrEntry(s, l) => k = l
    /\ \A e \in Entry : e[1] = "trace" => \E s \in Sites : e = TrcEntry(s)
<1>1. \A s, k : StrEntry(s, k)[1] = <<"file", "func", "name">>[k]
  BY DEF StrEntry
<1>2. /\ <<"file", "func", "name">>[1] = "file" /\ <<"file", "func", "name">>[2] = "func"
      /\ <<"file", "func", "name">>[3] = "name"
  OBVIOUS
<1>3. \A s : \A k \in 1 .. 3 : IsString(StrEntry(s, k))
  <2>1. \A k \in 1 .. 3 : k = 1 \/ k = 2 \/ k = 3
    OBVIOUS
  <2> QED
    BY ONLY <1>1, <1>2, <2>1 DEF IsString
<1>4. \A s : \A k, l \in 1 .. 3 : StrEntry(s, k) = StrEntry(s, l) => k = l
  <2> SUFFICES ASSUME NEW s, NEW k \in 1 .. 3, NEW l \in 1 .. 3, StrEntry(s, k) = StrEntry(s, l)
               PROVE  k = l
    OBVIOUS
  <2>1. <<"file", "func", "name">>[k] = <<"file", "func", "name">>[l]
    BY <1>1
  <2>2. (k = 1 \/ k = 2 \/ k = 3) /\ (l = 1 \/ l = 2 \/ l = 3)
    OBVIOUS
  <2> QED
    BY ONLY <1>2, <2>1, <2>2
<1>5. \A i \in Nat : AttrEntry(i) \in Entry /\ ModEntry(i) \in Entry
  BY DEF Entry
<1>6. \A s \in Sites, k \in 1 .. 3 : StrEntry(s, k) \in Entry
  BY DEF Entry
<1>7. \A s \in Sites : TrcEntry(s) \in Entry
  BY DEF Entry
<1>8. \A i : AttrEntry(i)[1] = "attr" /\ AttrEntry(i)[2] = i /\ ModEntry(i)[1] = "mod" /\ ModEntry(i)[2] = i
  BY DEF AttrEntry, ModEntry
<1>9. \A s : TrcEntry(s)[1] = "trace" /\ TrcEntry(s)[2] = s
  BY DEF TrcEntry
<1>10. \A e \in Entry : e[1] = "trace" => \E s \in Sites : e = TrcEntry(s)
  <2> SUFFICES ASSUME NEW e \in Entry, e[1] = "trace" PROVE \E s \in Sites : e = TrcEntry(s)
    OBVIOUS
  <2>1. \A i : e # AttrEntry(i) /\ e # ModEntry(i)
    BY <1>8
  <2>2. \A s : \A k \in 1 .. 3 : e # StrEntry(s, k)
    BY <1>3 DEF IsString
  <2> QED
    BY ONLY <2>1, <2>2, e \in Entry DEF Entry
<1> QED
  BY ONLY <1>3, <1>4, <1>5, <1>6, <1>7, <1>8, <1>9, <1>10
-------------------------------------------------------------------------------
\* The entries so far can be read front to back; sent and known are the strings and the
\* sites among them.
Readable(all, sent, known) ==
    /\ all \in Seq(Entry) /\ IsInjective(all)
    /\ \A i \in 1 .. Len(all) :
          all[i][1] = "trace" => \A k \in 1 .. 3 : Before(StrEntry(all[i][2], k), i, all)
    /\ sent = {e \in Range(all) : IsString(e)}
    /\ known = {s \in Sites : TrcEntry(s) \in Range(all)}

\* What is left to write for site s: strings that were not sent, then the site; no string
\* is missing.
Pending(u, s, sent) ==
    /\ u \in Seq(Entry) /\ u # <<>> /\ IsInjective(u) /\ u[Len(u)] = TrcEntry(s)
    /\ \A i \in 1 .. Len(u) : i # Len(u) => IsString(u[i]) /\ u[i] \notin sent
    /\ \A k \in 1 .. 3 : StrEntry(s, k) \in sent \cup Range(u)

\* What was written before a place is not changed by what follows.
LEMMA BeforeKept ==
    ASSUME NEW S, NEW a \in Seq(S), NEW b \in Seq(S), NEW i \in 1 .. Len(a), NEW e, Before(e, i, a)
    PROVE  Before(e, i, a \o b)
<1>1. PICK la \in Nat, lb \in Nat : la = Len(a) /\ lb = Len(b)
  OBVIOUS
<1>2. PICK c : c = a \o b
  OBVIOUS
<1>3. \A j \in 1 .. la + lb : c[j] = IF j <= la THEN a[j] ELSE b[j - la]
  BY <1>1, <1>2, ConcatAt
<1>4. PICK j \in 1 .. i - 1 : a[j] = e
  BY DEF Before
<1>5. j \in 1 .. la + lb /\ j <= la
  BY <1>1
<1>6. c[j] = e
  BY ONLY <1>3, <1>4, <1>5
<1> QED
  BY ONLY <1>2, <1>6, j \in 1 .. i - 1 DEF Before

\* An attribute or a module may be announced at any place.
LEMMA ReadableOther ==
    ASSUME NEW all, NEW sent, NEW known, Readable(all, sent, known),
           NEW e \in Entry, e \notin Range(all), e[1] \in {"attr", "mod"}
    PROVE  Readable(all \o <<e>>, sent, known) /\ Range(all \o <<e>>) = Range(all) \cup {e}
<1>1. all \in Seq(Entry) /\ IsInjective(all)
  BY DEF Readable
<1>2. PICK b : b = <<e>>
  OBVIOUS
<1>3. b \in Seq(Entry) /\ Len(b) = 1 /\ b[1] = e
  BY <1>2
<1>4. PICK c : c = all \o b
  OBVIOUS
<1>5. c \in Seq(Entry) /\ Range(c) = Range(all) \cup {e} /\ IsInjective(c)
  BY ONLY <1>1, <1>2, <1>4, e \in Entry, e \notin Range(all), InjSnoc
<1>6. PICK l \in Nat : l = Len(all)
  BY <1>1
<1>7. Len(c) = l + 1 /\ \A i \in 1 .. l + 1 : c[i] = IF i <= l THEN all[i] ELSE b[i - l]
  <2>1. all \in Seq(Entry) /\ b \in Seq(Entry)
    BY ONLY <1>1, <1>3
  <2>2. /\ Len(c) = Len(all) + Len(b)
        /\ \A i \in 1 .. Len(all) + Len(b) : c[i] = IF i <= Len(all) THEN all[i] ELSE b[i - Len(all)]
    BY ONLY <1>4, <2>1, ConcatAt
  <2> QED
    BY ONLY <1>3, <1>6, <2>2
<1>8. ASSUME NEW i \in 1 .. l + 1, c[i][1] = "trace", NEW k \in 1 .. 3
      PROVE  Before(StrEntry(c[i][2], k), i, c)
  <2>1. CASE i = l + 1
    <3>1. ~(i <= l) /\ i - l = 1
      BY ONLY <2>1, l \in Nat
    <3>2. c[i] = e
      BY ONLY <1>3, <1>7, <3>1, i \in 1 .. l + 1
    <3> QED
      BY ONLY <1>8, <3>2, e[1] \in {"attr", "mod"}
  <2>2. CASE i # l + 1
    <3>1. i \in 1 .. l /\ i <= l
      BY ONLY <2>2, l \in Nat, i \in 1 .. l + 1
    <3>2. c[i] = all[i]
      BY ONLY <1>7, <3>1, i \in 1 .. l + 1
    <3>3. Before(StrEntry(all[i][2], k), i, all)
      BY ONLY <1>6, <1>8, <3>1, <3>2, Readable(all, sent, known) DEF Readable
    <3>4. Before(StrEntry(all[i][2], k), i, all \o b)
      <4>1. PICK x : x = StrEntry(all[i][2], k)
        OBVIOUS
      <4> QED
        BY ONLY <1>1, <1>3, <1>6, <3>1, <3>3, <4>1, BeforeKept
    <3> QED
      BY ONLY <1>4, <3>2, <3>4
  <2> QED
    BY ONLY <2>1, <2>2
<1>9. ~IsString(e) /\ \A s : e # TrcEntry(s)
  BY EntryKinds DEF IsString
<1>10. sent = {x \in Range(c) : IsString(x)} /\ known = {s \in Sites : TrcEntry(s) \in Range(c)}
  BY ONLY <1>5, <1>9, Readable(all, sent, known) DEF Readable
<1>11. Readable(c, sent, known)
  BY ONLY <1>5, <1>7, <1>8, <1>10 DEF Readable
<1> QED
  BY ONLY <1>2, <1>4, <1>5, <1>11

\* The first n entries pending for site s are now written.
Advance(all, sent, known, s, u, n, now, sent1, known1) ==
    /\ Readable(all, sent, known)
    /\ s \in Sites /\ s \notin known /\ Pending(u, s, sent)
    /\ n \in 0 .. Len(u) /\ now = SubSeq(u, 1, n)
    /\ sent1 = sent \cup {e \in Range(now) : e[1] # "trace"}
    /\ known1 = IF n = Len(u) THEN known \cup {s} ELSE known

\* What is pending may be written up to any place; the rest stays pending.
LEMMA ReadablePending ==
    ASSUME NEW all, NEW sent, NEW known, NEW s, NEW u, NEW n, NEW now, NEW sent1, NEW known1,
           Advance(all, sent, known, s, u, n, now, sent1, known1)
    PROVE  /\ Readable(all \o now, sent1, known1)
           /\ Range(all \o now) = Range(all) \cup Range(now)
           /\ \A e \in Range(now) : IsString(e) \/ e[1] = "trace"
           /\ n # Len(u) => Pending(SubSeq(u, n + 1, Len(u)), s, sent1)
<1>0. /\ Readable(all, sent, known)
      /\ s \in Sites /\ s \notin known /\ Pending(u, s, sent)
      /\ n \in 0 .. Len(u) /\ now = SubSeq(u, 1, n)
      /\ sent1 = sent \cup {e \in Range(now) : e[1] # "trace"}
      /\ known1 = IF n = Len(u) THEN known \cup {s} ELSE known
  BY DEF Advance
<1>1. all \in Seq(Entry) /\ IsInjective(all) /\ u \in Seq(Entry) /\ IsInjective(u)
  BY <1>0 DEF Readable, Pending
<1>2. PICK l \in Nat, m \in Nat : l = Len(all) /\ m = Len(u)
  BY <1>1
<1>3. m # 0 /\ n \in 0 .. m
  <2>1. u # <<>>
    BY <1>0 DEF Pending
  <2> QED
    BY <1>0, <1>1, <1>2, <2>1
<1>4. now \in Seq(Entry) /\ Len(now) = n /\ \A i \in 1 .. n : now[i] = u[i]
  BY <1>0, <1>1, <1>2, <1>3, SubSeqProperties
<1>5. \A i, j \in 1 .. m : u[i] = u[j] => i = j
  BY ONLY <1>1, <1>2, InjFacts
<1>6. IsInjective(now) /\ Range(now) = {u[i] : i \in 1 .. n}
  <2>1. Len(now) = n /\ now \in Seq(Entry)
    BY ONLY <1>4
  <2>2. /\ Range(now) = {now[i] : i \in 1 .. n}
        /\ IsInjective(now) <=> \A i, j \in 1 .. n : now[i] = now[j] => i = j
    BY ONLY <2>1, InjFacts
  <2>3. \A i \in 1 .. n : i \in 1 .. m
    BY ONLY <1>3, m \in Nat
  <2>4. \A i, j \in 1 .. n : now[i] = now[j] => i = j
    BY ONLY <1>4, <1>5, <2>3
  <2>5. {now[i] : i \in 1 .. n} = {u[i] : i \in 1 .. n}
    BY ONLY <1>4
  <2> QED
    BY ONLY <2>2, <2>4, <2>5
<1>7. /\ u[m] = TrcEntry(s)
      /\ \A i \in 1 .. m : i # m => IsString(u[i]) /\ u[i] \notin sent
      /\ \A k \in 1 .. 3 : StrEntry(s, k) \in sent \cup Range(u)
  BY ONLY <1>0, <1>2 DEF Pending
<1>8. Range(u) = {u[i] : i \in 1 .. m}
  BY ONLY <1>1, <1>2, InjFacts
<1>9. Range(all) = {all[i] : i \in 1 .. l}
  BY ONLY <1>1, <1>2, InjFacts
<1>10. /\ sent = {e \in Range(all) : IsString(e)}
       /\ known = {x \in Sites : TrcEntry(x) \in Range(all)}
  BY <1>0 DEF Readable
<1>11. ~IsString(TrcEntry(s)) /\ TrcEntry(s)[1] = "trace" /\ TrcEntry(s)[2] = s
  BY EntryKinds DEF IsString
<1>12. \A e : IsString(e) => e[1] # "trace"
  BY DEF IsString
<1>13. Range(all) \cap Range(now) = {}
  <2>1. ASSUME NEW i \in 1 .. n PROVE u[i] \notin Range(all)
    <3>1. i \in 1 .. m
      BY ONLY <1>3, m \in Nat, i \in 1 .. n
    <3>2. CASE i = m
      BY ONLY <1>7, <1>10, <3>2, <1>0
    <3>3. CASE i # m
      BY ONLY <1>7, <1>10, <3>1, <3>3
    <3> QED
      BY ONLY <3>2, <3>3
  <2> QED
    BY ONLY <1>6, <2>1
<1>14. PICK c : c = all \o now
  OBVIOUS
<1>15. /\ c \in Seq(Entry) /\ Range(c) = Range(all) \cup Range(now) /\ IsInjective(c)
  <2>1. all \in Seq(Entry) /\ now \in Seq(Entry)
    BY ONLY <1>1, <1>4
  <2> QED
    BY ONLY <1>1, <1>6, <1>13, <1>14, <2>1, InjConcat
<1>16. Len(c) = l + n /\ \A i \in 1 .. l + n : c[i] = IF i <= l THEN all[i] ELSE now[i - l]
  <2>1. all \in Seq(Entry) /\ now \in Seq(Entry)
    BY ONLY <1>1, <1>4
  <2>2. /\ Len(c) = Len(all) + Len(now)
        /\ \A i \in 1 .. Len(all) + Len(now) : c[i] = IF i <= Len(all) THEN all[i] ELSE now[i - Len(all)]
    BY ONLY <1>14, <2>1, ConcatAt
  <2>3. Len(now) = n
    BY ONLY <1>4
  <2> QED
    BY ONLY <1>2, <2>2, <2>3
<1>17. \A i \in 1 .. n : IsString(u[i]) \/ i = m
  BY ONLY <1>3, <1>7, m \in Nat
<1>18. \A e \in Range(now) : IsString(e) \/ e[1] = "trace"
  BY ONLY <1>6, <1>7, <1>11, <1>17
<1>19. {e \in Range(now) : e[1] # "trace"} = {e \in Range(now) : IsString(e)}
  BY ONLY <1>12, <1>18
<1>20. sent1 = {e \in Range(c) : IsString(e)}
  BY ONLY <1>10, <1>15, <1>19, <1>0
<1>21. known1 = {x \in Sites : TrcEntry(x) \in Range(c)}
  <2>1. ASSUME NEW x \in Sites
        PROVE  TrcEntry(x) \in Range(now) <=> x = s /\ n = m
    <3>1. ASSUME TrcEntry(x) \in Range(now) PROVE x = s /\ n = m
      <4>1. PICK i \in 1 .. n : TrcEntry(x) = u[i]
        BY ONLY <1>6, <3>1
      <4>2. ~IsString(TrcEntry(x)) /\ TrcEntry(x)[2] = x
        BY EntryKinds DEF IsString
      <4>3. i = m
        BY ONLY <1>17, <4>1, <4>2
      <4>4. n = m
        BY ONLY <1>3, <4>3, i \in 1 .. n, m \in Nat
      <4> QED
        BY ONLY <1>7, <1>11, <4>1, <4>2, <4>3, <4>4
    <3>2. ASSUME x = s, n = m PROVE TrcEntry(x) \in Range(now)
      <4>1. m \in 1 .. n
        BY ONLY <1>3, <3>2, m \in Nat
      <4> QED
        BY ONLY <1>6, <1>7, <3>2, <4>1
    <3> QED
      BY ONLY <3>1, <3>2
  <2> QED
    BY ONLY <1>2, <1>10, <1>15, <2>1, <1>0
<1>22. ASSUME NEW i \in 1 .. l + n, c[i][1] = "trace", NEW k \in 1 .. 3
       PROVE  Before(StrEntry(c[i][2], k), i, c)
  <2>1. CASE i <= l
    <3>1. i \in 1 .. l
      BY ONLY <2>1, l \in Nat, i \in 1 .. l + n
    <3>2. c[i] = all[i]
      BY ONLY <1>16, <2>1, i \in 1 .. l + n
    <3>3. PICK e : e = StrEntry(all[i][2], k)
      OBVIOUS
    <3>4. Before(e, i, all)
      BY ONLY <1>2, <1>22, <3>1, <3>2, <3>3, <1>0 DEF Readable
    <3>5. Before(e, i, all \o now)
      <4>1. all \in Seq(Entry) /\ now \in Seq(Entry) /\ i \in 1 .. Len(all)
        BY ONLY <1>1, <1>2, <1>4, <3>1
      <4> QED
        BY ONLY <3>4, <4>1, BeforeKept
    <3> QED
      BY ONLY <1>14, <3>2, <3>3, <3>5
  <2>2. CASE ~(i <= l)
    <3>1. PICK p \in 1 .. n : p = i - l
      BY ONLY <1>3, <2>2, l \in Nat, m \in Nat, i \in 1 .. l + n
    <3>2. c[i] = u[p]
      <4>1. c[i] = now[p]
        BY ONLY <1>16, <2>2, <3>1, i \in 1 .. l + n
      <4> QED
        BY ONLY <1>4, <4>1, p \in 1 .. n
    <3>3. p = m
      BY ONLY <1>12, <1>17, <1>22, <3>2, p \in 1 .. n
    <3>4. n = m /\ c[i][2] = s
      BY ONLY <1>3, <1>7, <1>11, <3>2, <3>3, p \in 1 .. n, m \in Nat
    <3>5. PICK e : e = StrEntry(s, k)
      OBVIOUS
    <3>6. IsString(e) /\ e \in sent \cup Range(u)
      BY ONLY <1>0, <1>7, <3>5, EntryKinds, k \in 1 .. 3
    <3>7. \E j \in 1 .. i - 1 : c[j] = e
      <4>1. CASE e \in sent
        <5>1. PICK j \in 1 .. l : all[j] = e
          BY ONLY <1>9, <1>10, <4>1
        <5>2. j \in 1 .. i - 1 /\ j \in 1 .. l + n /\ j <= l
          BY ONLY <1>3, <2>2, l \in Nat, m \in Nat, j \in 1 .. l, i \in 1 .. l + n
        <5>3. c[j] = e
          BY ONLY <1>16, <5>1, <5>2
        <5> QED
          BY ONLY <5>2, <5>3
      <4>2. CASE e \in Range(u)
        <5>1. PICK q \in 1 .. m : u[q] = e
          BY ONLY <1>8, <4>2
        <5>2. q # m
          BY ONLY <1>7, <1>11, <3>6, <5>1
        <5>3. q \in 1 .. n /\ q < p
          BY ONLY <3>3, <3>4, <5>2, q \in 1 .. m, m \in Nat
        <5>4. PICK j \in Nat : j = l + q
          OBVIOUS
        <5>5. j \in 1 .. i - 1 /\ j \in 1 .. l + n /\ ~(j <= l) /\ j - l = q
          BY ONLY <1>3, <3>1, <5>3, <5>4, l \in Nat, m \in Nat, i \in 1 .. l + n
        <5>6. c[j] = now[q]
          BY ONLY <1>16, <5>5
        <5>7. c[j] = e
          BY ONLY <1>4, <5>1, <5>3, <5>6
        <5> QED
          BY ONLY <5>5, <5>7
      <4> QED
        BY ONLY <3>6, <4>1, <4>2
    <3> QED
      BY ONLY <3>4, <3>5, <3>7 DEF Before
  <2> QED
    BY ONLY <2>1, <2>2
<1>23. Readable(c, sent1, known1)
  BY ONLY <1>15, <1>16, <1>20, <1>21, <1>22 DEF Readable
<1>24. ASSUME n # Len(u) PROVE Pending(SubSeq(u, n + 1, Len(u)), s, sent1)
  <2>1. PICK r : r = SubSeq(u, n + 1, m)
    OBVIOUS
  <2>2. PICK q \in Nat : q = m - n /\ q # 0
    <3>1. n # m
      BY ONLY <1>2, <1>24
    <3>2. m - n \in Nat /\ m - n # 0
      BY ONLY <1>3, <3>1, m \in Nat
    <3> QED
      BY ONLY <3>2
  <2>3. r \in Seq(Entry)
    BY ONLY <1>1, <1>2, <1>3, <2>1, SubSeqSplit
  <2>4. Len(r) = q /\ \A i \in 1 .. q : r[i] = u[n + i]
    <3>1. r = [i \in 1 .. (m - (n + 1) + 1) |-> u[(n + 1) + i - 1]]
      BY ONLY <2>1, <1>3, m \in Nat, n \in Nat
    <3>2. m - (n + 1) + 1 = q
      BY ONLY <1>3, <2>2, m \in Nat
    <3>3. \A i \in 1 .. q : (n + 1) + i - 1 = n + i
      BY ONLY <1>3, q \in Nat, m \in Nat
    <3>4. r = [i \in 1 .. q |-> u[n + i]]
      BY ONLY <3>1, <3>2, <3>3
    <3>5. DOMAIN r = 1 .. q
      BY ONLY <3>4
    <3>6. Len(r) = q
      BY ONLY <2>3, <3>5, q \in Nat, LenProperties
    <3> QED
      BY ONLY <3>4, <3>6
  <2>5. \A i \in 1 .. q : n + i \in 1 .. m /\ (n + i = m <=> i = q)
    BY ONLY <1>3, <2>2, q \in Nat, m \in Nat
  <2>6. r # <<>>
    BY ONLY <2>2, <2>3, <2>4
  <2>7. IsInjective(r)
    <3>2. ASSUME NEW i \in 1 .. q, NEW j \in 1 .. q, r[i] = r[j] PROVE i = j
      <4>1. PICK x \in 1 .. m, y \in 1 .. m : x = n + i /\ y = n + j
        BY ONLY <2>5
      <4>2. u[x] = u[y]
        BY ONLY <2>4, <3>2, <4>1
      <4>3. n + i = n + j
        BY ONLY <1>5, <4>1, <4>2
      <4> QED
        BY ONLY <1>3, <4>3, q \in Nat, m \in Nat
    <3>3. Len(r) = q
      BY ONLY <2>4
    <3> QED
      BY ONLY <2>3, <3>2, <3>3, InjFacts
  <2>8. q \in 1 .. q /\ r[q] = TrcEntry(s)
    BY ONLY <1>7, <2>2, <2>4, <2>5
  <2>9. ASSUME NEW i \in 1 .. q, i # q PROVE IsString(r[i]) /\ r[i] \notin sent1
    <3>1. n + i \in 1 .. m /\ n + i # m /\ r[i] = u[n + i]
      BY ONLY <2>4, <2>5, <2>9
    <3>2. IsString(r[i]) /\ r[i] \notin sent
      BY ONLY <1>7, <3>1
    <3>3. r[i] \notin Range(now)
      <4>1. \A j \in 1 .. n : j \in 1 .. m /\ j # n + i
        BY ONLY <1>3, m \in Nat, i \in 1 .. q, q \in Nat
      <4>2. \A j \in 1 .. n : u[j] # u[n + i]
        BY ONLY <1>5, <3>1, <4>1
      <4> QED
        BY ONLY <1>6, <3>1, <4>2
    <3> QED
      BY ONLY <3>2, <3>3, <1>0
  <2>10. ASSUME NEW k \in 1 .. 3 PROVE StrEntry(s, k) \in sent1 \cup Range(r)
    <3>1. PICK e : e = StrEntry(s, k)
      OBVIOUS
    <3>2. IsString(e) /\ e \in sent \cup Range(u)
      BY ONLY <1>0, <1>7, <3>1, EntryKinds, k \in 1 .. 3
    <3>3. CASE e \in sent
      BY ONLY <3>1, <3>3, <1>0
    <3>4. CASE e \in Range(u)
      <4>1. PICK j \in 1 .. m : u[j] = e
        BY ONLY <1>8, <3>4
      <4>2. CASE j <= n
        <5>1. e \in Range(now)
          BY ONLY <1>3, <1>6, <4>1, <4>2, j \in 1 .. m, m \in Nat
        <5> QED
          BY ONLY <1>12, <3>1, <3>2, <5>1, <1>0
      <4>3. CASE ~(j <= n)
        <5>1. PICK i \in 1 .. q : n + i = j
          <6>1. j - n \in 1 .. q /\ n + (j - n) = j
            BY ONLY <1>3, <2>2, <4>3, j \in 1 .. m, m \in Nat, q \in Nat
          <6> QED
            BY ONLY <6>1
        <5>2. r[i] = e
          BY ONLY <2>4, <4>1, <5>1
        <5>3. Range(r) = {r[x] : x \in 1 .. q}
          <6>1. Len(r) = q
            BY ONLY <2>4
          <6> QED
            BY ONLY <2>3, <6>1, InjFacts
        <5> QED
          BY ONLY <3>1, <5>2, <5>3, i \in 1 .. q
      <4> QED
        BY ONLY <4>2, <4>3
    <3> QED
      BY ONLY <3>2, <3>3, <3>4
  <2>11. Pending(r, s, sent1)
    <3>1. Len(r) = q
      BY ONLY <2>4
    <3> QED
      BY ONLY <2>3, <2>6, <2>7, <2>8, <2>9, <2>10, <3>1 DEF Pending
  <2> QED
    BY ONLY <1>2, <2>1, <2>11
<1> QED
  BY ONLY <1>14, <1>15, <1>18, <1>23, <1>24

\* An entry that was sent before leaves nothing to write.
LEMMA UnsentIs ==
    ASSUME NEW x \in Entry
    PROVE  /\ Unsent(x) \in Seq(Entry) /\ IsInjective(Unsent(x))
           /\ Range(Unsent(x)) = {x} \ mo_sent
<1>1. CASE x \in mo_sent
  <2>1. Unsent(x) = <<>>
    BY <1>1 DEF Unsent
  <2>2. <<>> \in Seq(Entry) /\ Range(<<>>) = {} /\ IsInjective(<<>>)
    BY DEF Range, IsInjective
  <2> QED
    BY ONLY <1>1, <2>1, <2>2
<1>2. CASE x \notin mo_sent
  <2>1. PICK b : b = <<x>>
    OBVIOUS
  <2>2. b \in Seq(Entry)
    BY <2>1
  <2>3. Len(b) = 1 /\ b[1] = x
    BY <2>1
  <2>4. /\ Range(b) = {b[i] : i \in 1 .. Len(b)}
        /\ IsInjective(b) <=> \A i, j \in 1 .. Len(b) : b[i] = b[j] => i = j
    BY ONLY <2>2, InjFacts
  <2>5. 1 .. 1 = {1}
    OBVIOUS
  <2>6. Range(b) = {x} /\ IsInjective(b)
    BY ONLY <2>3, <2>4, <2>5
  <2>7. Unsent(x) = b
    BY <1>2, <2>1 DEF Unsent
  <2> QED
    BY ONLY <1>2, <2>2, <2>6, <2>7
<1> QED
  BY ONLY <1>1, <1>2

\* What resolve_trc_desc has to write for a site it does not know.
LEMMA EntriesPending ==
    ASSUME NEW s \in Sites
    PROVE  Pending(EntriesOf(s), s, mo_sent)
<1>1. PICK x1 \in Entry, x2 \in Entry, x3 \in Entry :
         x1 = StrEntry(s, 1) /\ x2 = StrEntry(s, 2) /\ x3 = StrEntry(s, 3)
  BY EntryKinds
<1>2. /\ x1 # x2 /\ x1 # x3 /\ x2 # x3
      /\ IsString(x1) /\ IsString(x2) /\ IsString(x3)
  BY EntryKinds, <1>1
<1>3. PICK a \in Seq(Entry), b \in Seq(Entry), c \in Seq(Entry) :
         a = Unsent(x1) /\ b = Unsent(x2) /\ c = Unsent(x3)
  BY UnsentIs
<1>4. /\ IsInjective(a) /\ Range(a) = {x1} \ mo_sent
      /\ IsInjective(b) /\ Range(b) = {x2} \ mo_sent
      /\ IsInjective(c) /\ Range(c) = {x3} \ mo_sent
  BY ONLY <1>3, UnsentIs, x1 \in Entry, x2 \in Entry, x3 \in Entry
<1>5. PICK d \in Seq(Entry) : d = a \o b /\ IsInjective(d) /\ Range(d) = {x1, x2} \ mo_sent
  <2>1. Range(a) \cap Range(b) = {} /\ Range(a) \cup Range(b) = {x1, x2} \ mo_sent
    BY ONLY <1>2, <1>4
  <2>2. a \o b \in Seq(Entry) /\ Range(a \o b) = Range(a) \cup Range(b) /\ IsInjective(a \o b)
    BY ONLY <1>4, <2>1, a \in Seq(Entry), b \in Seq(Entry), InjConcat
  <2> QED
    BY ONLY <2>1, <2>2
<1>6. PICK e \in Seq(Entry) : e = d \o c /\ IsInjective(e) /\ Range(e) = {x1, x2, x3} \ mo_sent
  <2>1. Range(d) \cap Range(c) = {} /\ Range(d) \cup Range(c) = {x1, x2, x3} \ mo_sent
    BY ONLY <1>2, <1>4, <1>5
  <2>2. d \o c \in Seq(Entry) /\ Range(d \o c) = Range(d) \cup Range(c) /\ IsInjective(d \o c)
    <3>1. IsInjective(d) /\ IsInjective(c)
      BY ONLY <1>4, <1>5
    <3>2. Range(d) \cap Range(c) = {}
      BY ONLY <2>1
    <3> QED
      BY ONLY <3>1, <3>2, d \in Seq(Entry), c \in Seq(Entry), InjConcat
  <2> QED
    BY ONLY <2>1, <2>2
<1>7. e = StringsOf(s)
  BY ONLY <1>1, <1>3, <1>5, <1>6 DEF StringsOf
<1>8. PICK y \in Entry : y = TrcEntry(s) /\ ~IsString(y)
  BY EntryKinds DEF IsString
<1>9. PICK w : w = <<y>>
  OBVIOUS
<1>10. w \in Seq(Entry) /\ Len(w) = 1 /\ w[1] = y
  BY <1>9
<1>11. PICK u : u = e \o w
  OBVIOUS
<1>12. u = EntriesOf(s)
  BY ONLY <1>7, <1>8, <1>9, <1>11 DEF EntriesOf
<1>13. y \notin Range(e)
  BY ONLY <1>2, <1>6, <1>8
<1>14. u \in Seq(Entry) /\ IsInjective(u) /\ Range(u) = Range(e) \cup {y}
  <2>1. IsInjective(e)
    BY ONLY <1>6
  <2>2. /\ e \o <<y>> \in Seq(Entry) /\ Range(e \o <<y>>) = Range(e) \cup {y}
        /\ IsInjective(e \o <<y>>)
    BY ONLY <1>13, <2>1, e \in Seq(Entry), y \in Entry, InjSnoc
  <2> QED
    BY ONLY <1>9, <1>11, <2>2
<1>15. PICK l \in Nat : l = Len(e)
  OBVIOUS
<1>16. Len(u) = l + 1 /\ u[l + 1] = y /\ \A i \in 1 .. l : u[i] = e[i]
  <2>1. w \in Seq(Entry)
    BY ONLY <1>10
  <2>2. /\ Len(u) = Len(e) + Len(w)
        /\ \A i \in 1 .. Len(e) + Len(w) : u[i] = IF i <= Len(e) THEN e[i] ELSE w[i - Len(e)]
    BY ONLY <1>11, <2>1, e \in Seq(Entry), ConcatAt
  <2>3. Len(u) = l + 1 /\ \A i \in 1 .. l + 1 : u[i] = IF i <= l THEN e[i] ELSE w[i - l]
    BY ONLY <1>10, <1>15, <2>2
  <2>4. /\ l + 1 \in 1 .. l + 1 /\ ~(l + 1 <= l) /\ (l + 1) - l = 1
        /\ \A i \in 1 .. l : i \in 1 .. l + 1 /\ i <= l
    BY ONLY l \in Nat
  <2> QED
    BY ONLY <1>10, <2>3, <2>4
<1>17. u # <<>>
  BY ONLY <1>14, <1>16, l \in Nat
<1>18. ASSUME NEW i \in 1 .. l + 1, i # l + 1 PROVE IsString(u[i]) /\ u[i] \notin mo_sent
  <2>1. i \in 1 .. l
    BY ONLY <1>18, l \in Nat
  <2>2. u[i] \in Range(e)
    <3>1. Range(e) = {e[j] : j \in 1 .. l}
      BY ONLY <1>15, e \in Seq(Entry), InjFacts
    <3> QED
      BY ONLY <1>16, <2>1, <3>1
  <2> QED
    BY ONLY <1>2, <1>6, <2>2
<1>19. \A k \in 1 .. 3 : StrEntry(s, k) \in mo_sent \cup Range(u)
  <2>1. \A k \in 1 .. 3 : k = 1 \/ k = 2 \/ k = 3
    OBVIOUS
  <2> QED
    BY ONLY <1>1, <1>6, <1>14, <2>1
<1>20. Pending(u, s, mo_sent)
  BY ONLY <1>8, <1>14, <1>16, <1>17, <1>18, <1>19 DEF Pending
<1> QED
  BY ONLY <1>12, <1>20

SvcTypes ==
    /\ BufsOK(mo_svc_buffers)
    /\ todo \in [Threads -> Seq(Entry)]
    /\ pc \in [Threads -> {"idle", "write", "acquire", "have"}]
    /\ mo_attr_descs \in Seq([name : AttrNames, type : AttrTypes])
    /\ mo_log_mods \in Seq([name : ModNames, verbosity : Levels])
    /\ mu_dropped_svc \in Nat /\ mu_batch_index \in Nat
    /\ ready \in Seq(Sites) /\ lo_ready \in Seq(Sites)
    /\ stop \in BOOLEAN /\ lb_stop \in BOOLEAN
    /\ wpc \in {"unborn", "wait", "service", "recycle", "ended"}

\* The sink was given whole entries.
GivenInv == GivenSvc \in Seq(Entry) /\ given_svc = EntrySeqCells(GivenSvc)

\* All entries that were written, those the worker has not taken included.
Stream    == GivenSvc \o FlattenSeq(mo_svc_buffers)
StreamInv == Readable(Stream, mo_sent, mo_trc_descs)

\* Only identifiers that were assigned are announced.
RegInv ==
    \A i \in Nat : /\ AttrEntry(i) \in Range(Stream) => i < Len(mo_attr_descs)
                   /\ ModEntry(i) \in Range(Stream) => i < Len(mo_log_mods)

\* Every identifier without an entry was counted.
Wanted  == {AttrEntry(i - 1) : i \in 1 .. Len(mo_attr_descs)} \cup
           {ModEntry(i - 1) : i \in 1 .. Len(mo_log_mods)}
DropInv == mu_dropped_svc = Cardinality(Wanted \ Range(Stream))

\* A thread inside resolve_trc_desc holds its mutex and has the rest of a site to write.
PendInv ==
    \A t \in Threads :
        pc[t] # "idle" => /\ mo_trc_desc_mutex = t
                          /\ \E s \in Sites : s \notin mo_trc_descs /\ Pending(todo[t], s, mo_sent)

\* Collected data is of sites whose entries the worker takes afterwards.
DataInv ==
    /\ \A i \in 1 .. Len(ready) : ready[i] \in mo_trc_descs
    /\ \A i \in 1 .. Len(lo_ready) :
          /\ lo_ready[i] \in mo_trc_descs
          /\ wpc = "recycle" => TrcEntry(lo_ready[i]) \in Range(GivenSvc)
    /\ \A i \in 1 .. Len(given_data) :
          given_data[i][1][1] = "span" => TrcEntry(given_data[i][1][4]) \in Range(GivenSvc)

\* Nothing is produced any more once the worker has seen the stop.
PhaseInv ==
    /\ lb_stop => stop /\ ready = <<>>
    /\ stop => \A t \in Threads : pc[t] = "idle"
    /\ lb_stop /\ wpc \in {"recycle", "ended"} => mo_svc_buffers = <<>>
    /\ wpc = "ended" => lb_stop

\* Packets are numbered.
TagInv ==
    /\ IsInjective(given_data)
    /\ \A i \in 1 .. Len(given_data) :
          given_data[i][1] # <<"hello">> => given_data[i][1][2] < mu_batch_index

SvcInv ==
    /\ SinkInv /\ SvcTypes /\ GivenInv /\ StreamInv /\ RegInv /\ DropInv
    /\ PendInv /\ DataInv /\ PhaseInv /\ TagInv
-------------------------------------------------------------------------------
\* The invariant reads nothing of the sink but these.
LEMMA SinkSame ==
    ASSUME SinkInv, UNCHANGED sinkVars
    PROVE  SinkInv'
BY DEF SinkInv, SinkTypes, UnopenedInv, SinkAccounts, HolesInv, sinkVars, fileVars, countVars, givenVars

\* What was announced is the same when no entry is written and nothing registered.
LEMMA AnnouncedSame ==
    ASSUME GivenInv, StreamInv, RegInv, DropInv,
           UNCHANGED <<given_svc, mo_svc_buffers, mo_sent, mo_trc_descs, mu_dropped_svc>>,
           Len(mo_attr_descs') = Len(mo_attr_descs), Len(mo_log_mods') = Len(mo_log_mods)
    PROVE  /\ GivenInv' /\ StreamInv' /\ RegInv' /\ DropInv'
           /\ GivenSvc' = GivenSvc /\ Stream' = Stream
<1>1. GivenSvc' = GivenSvc
  BY DEF GivenSvc
<1>2. Stream' = Stream
  BY <1>1 DEF Stream
<1>3. Wanted' = Wanted
  BY DEF Wanted
<1> QED
  BY <1>1, <1>2, <1>3 DEF GivenInv, StreamInv, RegInv, DropInv

\* The buffers hold entries, and so does the stream.
LEMMA StreamParts ==
    ASSUME SvcTypes, GivenInv
    PROVE  /\ mo_svc_buffers \in Seq(Seq(Entry)) /\ FlattenSeq(mo_svc_buffers) \in Seq(Entry)
           /\ GivenSvc \in Seq(Entry) /\ Stream \in Seq(Entry)
           /\ Range(GivenSvc) \subseteq Range(Stream)
<1>1. mo_svc_buffers \in Seq(Seq(Entry)) /\ GivenSvc \in Seq(Entry)
  BY DEF SvcTypes, BufsOK, GivenInv
<1>2. PICK f \in Seq(Entry) : f = FlattenSeq(mo_svc_buffers)
  BY <1>1, FlatType
<1>3. PICK g \in Seq(Entry) : g = GivenSvc
  BY <1>1
<1>4. g \o f \in Seq(Entry) /\ Range(g \o f) = Range(g) \cup Range(f)
  BY ONLY g \in Seq(Entry), f \in Seq(Entry), InjConcat
<1> QED
  BY ONLY <1>1, <1>2, <1>3, <1>4 DEF Stream

\* Nothing is registered, written or given at first.
LEMMA InitInv == ASSUME Init PROVE SvcInv
<1> USE DEF Init, SinkInit
<1>1. SinkInv
  <2>1. SinkTypes
    BY DEF SinkTypes
  <2>2. Len(<<>>) = 0
    OBVIOUS
  <2> QED
    BY <2>1 DEF SinkInv, UnopenedInv, SinkAccounts, HolesInv
<1>2. SvcTypes
  <2>1. PICK A : A = Seq(Entry)
    OBVIOUS
  <2>2. <<>> \in Seq(A) /\ <<>> \in A
    BY <2>1
  <2>3. BufsOK(<<>>)
    BY ONLY <2>1, <2>2 DEF BufsOK
  <2>4. todo \in [Threads -> Seq(Entry)]
    BY ONLY Init, <2>1, <2>2 DEF Init
  <2>5. mo_attr_descs \in Seq([name : AttrNames, type : AttrTypes])
        /\ mo_log_mods \in Seq([name : ModNames, verbosity : Levels])
    OBVIOUS
  <2>6. pc \in [Threads -> {"idle", "write", "acquire", "have"}]
    OBVIOUS
  <2>7. /\ mu_dropped_svc \in Nat /\ mu_batch_index \in Nat
        /\ ready \in Seq(Sites) /\ lo_ready \in Seq(Sites)
        /\ wpc \in {"unborn", "wait", "service", "recycle", "ended"} /\ mo_svc_buffers = <<>>
    OBVIOUS
  <2>8. stop \in BOOLEAN /\ lb_stop \in BOOLEAN
    BY Zenon
  <2> QED
    BY ONLY <2>3, <2>4, <2>5, <2>6, <2>7, <2>8 DEF SvcTypes
<1>3. EntrySeqCells(<<>>) = <<>>
  <2>1. PICK z : z = [i \in 1 .. Len(<<>>) |-> Cells(<<>>[i], EntryCells)]
    OBVIOUS
  <2>2. z = <<>>
    BY <2>1
  <2> QED
    BY ONLY <2>1, <2>2, FlatEmpty DEF EntrySeqCells
<1>4. GivenSvc = <<>>
  <2>1. <<>> \in Seq(Entry)
    OBVIOUS
  <2>2. EntriesIn(<<>>) = <<>>
    BY ONLY <1>3, <2>1, Decode
  <2>3. GivenSvc = EntriesIn(<<>>)
    BY DEF GivenSvc, EntriesIn
  <2> QED
    BY ONLY <2>2, <2>3
<1>5. GivenInv
  <2>1. <<>> \in Seq(Entry) /\ given_svc = <<>>
    OBVIOUS
  <2> QED
    BY ONLY <1>3, <1>4, <2>1 DEF GivenInv
<1>6. Stream = <<>> /\ Range(<<>>) = {}
  <2>1. Range(<<>>) = {}
    BY DEF Range
  <2>2. <<>> \o <<>> = <<>> /\ mo_svc_buffers = <<>>
    OBVIOUS
  <2> QED
    BY ONLY <1>4, <2>1, <2>2, FlatEmpty DEF Stream
<1>7. StreamInv
  <2>1. IsInjective(<<>>) /\ <<>> \in Seq(Entry) /\ Len(<<>>) = 0
    BY DEF IsInjective
  <2>2. mo_sent = {} /\ mo_trc_descs = {}
    OBVIOUS
  <2> QED
    BY ONLY <1>6, <2>1, <2>2 DEF StreamInv, Readable
<1>8. RegInv
  BY <1>6 DEF RegInv
<1>9. DropInv
  <2>1. Wanted = {}
    BY DEF Wanted
  <2> QED
    BY <1>6, <2>1, FS_EmptySet DEF DropInv
<1>10. PendInv /\ PhaseInv
  BY DEF PendInv, PhaseInv
<1>11. DataInv /\ TagInv
  <2>1. IsInjective(<<>>)
    BY DEF IsInjective
  <2> QED
    BY <2>1 DEF DataInv, TagInv
<1> QED
  BY ONLY <1>1, <1>2, <1>5, <1>7, <1>8, <1>9, <1>10, <1>11 DEF SvcInv

\* The constructor: only the header is given to the sink.
LEMMA StartKeeps ==
    ASSUME SvcInv, StartCore
    PROVE  SvcInv'
<1> USE DEF SvcInv
<1>1. PICK kind : OpenSink(kind)
  BY DEF StartCore
<1>2. SinkInv'
  BY ONLY SvcInv, <1>1, OpenSinkKeeps DEF SvcInv
<1>3. UNCHANGED <<given_svc, mo_svc_buffers, mo_sent, mo_trc_descs, mu_dropped_svc>>
      /\ UNCHANGED <<mo_attr_descs, mo_log_mods, ready, lo_ready, pc, todo, mo_trc_desc_mutex,
                     stop, lb_stop, mu_batch_index>>
      /\ wpc' = "wait" /\ wpc = "unborn" /\ given_data' = Hello
  BY <1>1 DEF StartCore, OpenSink, trcVars, regVars
<1>4. GivenInv' /\ StreamInv' /\ RegInv' /\ DropInv' /\ GivenSvc' = GivenSvc
  BY ONLY SvcInv, <1>3, AnnouncedSame DEF SvcInv
<1>5. SvcTypes' /\ PendInv' /\ PhaseInv'
  BY <1>3 DEF SvcTypes, PendInv, PhaseInv
<1>6. \A i \in 1 .. HdrCells : Hello[i] = <<<<"hello">>, i>>
  BY DEF Hello, Cells
<1>7. PICK h \in Nat : h = HdrCells
  BY SinkAssumption
<1>8. Hello \in Seq(DataCell) /\ Len(Hello) = h
  BY <1>7, HelloType
<1>9. DataInv'
  BY <1>3, <1>4, <1>6, <1>7, <1>8 DEF DataInv
<1>10. TagInv'
  <2>1. \A i, j \in 1 .. h : Hello[i] = Hello[j] => i = j
    BY ONLY <1>6, <1>7
  <2>2. IsInjective(Hello)
    BY ONLY <1>8, <2>1, InjFacts
  <2> QED
    BY ONLY <1>3, <1>6, <1>7, <1>8, <2>2 DEF TagInv
<1> QED
  BY ONLY <1>2, <1>4, <1>5, <1>9, <1>10 DEF SvcInv

\* Resolve: what is pending then can be written.
LEMMA ResolveKeeps ==
    ASSUME SvcInv, NEW t \in Threads, NEW s \in Sites, Resolve(t, s)
    PROVE  SvcInv'
<1>1. /\ Open /\ pc[t] = "idle" /\ s \notin mo_trc_descs /\ mo_trc_desc_mutex = NoOne
      /\ mo_trc_desc_mutex' = t
      /\ todo' = [todo EXCEPT ![t] = EntriesOf(s)]
      /\ pc' = [pc EXCEPT ![t] = "write"]
      /\ UNCHANGED <<sinkVars, poolVars, regVars, mo_trc_descs, mo_sent, mo_svc_buffers,
                     mu_dropped_svc, ready, stop, workerVars>>
  BY DEF Resolve
<1>2. SinkInv'
  BY ONLY SvcInv, <1>1, SinkSame DEF SvcInv
<1>3. GivenInv' /\ StreamInv' /\ RegInv' /\ DropInv' /\ GivenSvc' = GivenSvc
  <2>1. /\ UNCHANGED <<given_svc, mo_svc_buffers, mo_sent, mo_trc_descs, mu_dropped_svc>>
        /\ mo_attr_descs' = mo_attr_descs /\ mo_log_mods' = mo_log_mods
    BY <1>1 DEF sinkVars, givenVars, regVars
  <2> QED
    BY ONLY SvcInv, <2>1, AnnouncedSame DEF SvcInv
<1>4. PICK u : u = EntriesOf(s) /\ Pending(u, s, mo_sent)
  BY EntriesPending
<1>5. SvcTypes'
  <2>1. u \in Seq(Entry)
    BY ONLY <1>4 DEF Pending
  <2>2. todo \in [Threads -> Seq(Entry)]
    BY DEF SvcInv, SvcTypes
  <2>3. todo' \in [Threads -> Seq(Entry)]
    BY ONLY <1>1, <1>4, <2>1, <2>2
  <2>4. pc \in [Threads -> {"idle", "write", "acquire", "have"}]
    BY DEF SvcInv, SvcTypes
  <2>5. pc' \in [Threads -> {"idle", "write", "acquire", "have"}]
    BY ONLY <1>1, <2>4
  <2> QED
    BY ONLY SvcInv, <1>1, <2>3, <2>5 DEF SvcInv, SvcTypes, regVars, workerVars
<1>6. PendInv'
  <2>1. ASSUME NEW r \in Threads, pc'[r] # "idle"
        PROVE  /\ mo_trc_desc_mutex' = r
               /\ \E x \in Sites : x \notin mo_trc_descs' /\ Pending(todo'[r], x, mo_sent')
    <3>1. CASE r = t
      <4>1. todo'[t] = u
        BY ONLY <1>1, <1>4, SvcInv, t \in Threads DEF SvcInv, SvcTypes
      <4> QED
        BY ONLY <1>1, <1>4, <3>1, <4>1, s \in Sites
    <3>2. CASE r # t
      <4>1. pc[r] # "idle"
        BY ONLY <1>1, <2>1, <3>2
      <4>2. mo_trc_desc_mutex = r
        BY ONLY SvcInv, <4>1, r \in Threads DEF SvcInv, PendInv
      <4> QED
        BY ONLY <1>1, <4>2, r \in Threads, ServiceAssumption
    <3> QED
      BY ONLY <3>1, <3>2
  <2> QED
    BY ONLY <2>1 DEF PendInv
<1>7. PhaseInv'
  BY <1>1 DEF SvcInv, PhaseInv, Open, workerVars
<1>8. DataInv' /\ TagInv'
  BY <1>1, <1>3 DEF SvcInv, DataInv, TagInv, workerVars, sinkVars, givenVars
<1> QED
  BY ONLY <1>2, <1>3, <1>5, <1>6, <1>7, <1>8 DEF SvcInv

\* A thread waits for a buffer or gets it: only the pool and its own place change.
LEMMA AcquireKeeps ==
    ASSUME SvcInv, NEW t \in Threads, AcquireSvc(t)
    PROVE  SvcInv'
<1>1. /\ pc[t] = "acquire"
      /\ pc' = pc \/ pc' = [pc EXCEPT ![t] = "have"]
      /\ UNCHANGED <<sinkVars, regVars, mo_trc_descs, mo_sent, mo_trc_desc_mutex, todo,
                     mo_svc_buffers, mu_dropped_svc, ready, stop, workerVars>>
  BY DEF AcquireSvc
<1>2. SinkInv'
  BY ONLY SvcInv, <1>1, SinkSame DEF SvcInv
<1>3. GivenInv' /\ StreamInv' /\ RegInv' /\ DropInv' /\ GivenSvc' = GivenSvc
  <2>1. /\ UNCHANGED <<given_svc, mo_svc_buffers, mo_sent, mo_trc_descs, mu_dropped_svc>>
        /\ mo_attr_descs' = mo_attr_descs /\ mo_log_mods' = mo_log_mods
    BY <1>1 DEF sinkVars, givenVars, regVars
  <2> QED
    BY ONLY SvcInv, <2>1, AnnouncedSame DEF SvcInv
<1>4. pc \in [Threads -> {"idle", "write", "acquire", "have"}]
  BY DEF SvcInv, SvcTypes
<1>5. pc' \in [Threads -> {"idle", "write", "acquire", "have"}]
      /\ \A r \in Threads : pc'[r] # "idle" <=> pc[r] # "idle"
  BY ONLY <1>1, <1>4
<1>6. SvcTypes'
  BY ONLY SvcInv, <1>1, <1>5 DEF SvcInv, SvcTypes, regVars, workerVars
<1>7. PendInv' /\ PhaseInv'
  BY ONLY SvcInv, <1>1, <1>5 DEF SvcInv, PendInv, PhaseInv, workerVars
<1>8. DataInv' /\ TagInv'
  BY <1>1, <1>3 DEF SvcInv, DataInv, TagInv, workerVars, sinkVars, givenVars
<1> QED
  BY ONLY <1>2, <1>3, <1>6, <1>7, <1>8 DEF SvcInv

\* Steps that change neither sink nor buffers nor registries: a record is emitted, the core
\* is stopped, data is collected, a buffer recycled, or nothing happens.
LEMMA QuietKeeps ==
    ASSUME SvcInv,
           UNCHANGED <<sinkVars, regVars, trcVars, mo_svc_buffers, mu_dropped_svc, mu_batch_index>>,
           \/ /\ \E s \in mo_trc_descs \cap Sites : ready' = Append(ready, s)
              /\ Open /\ UNCHANGED <<stop, lb_stop, wpc, lo_ready>>
           \/ /\ stop' = TRUE /\ \A t \in Threads : pc[t] = "idle"
              /\ UNCHANGED <<ready, lb_stop, wpc, lo_ready>>
           \/ /\ wpc' = "service" /\ lb_stop' = stop
              /\ lo_ready' = ready /\ ready' = <<>> /\ UNCHANGED stop
           \/ UNCHANGED <<ready, stop, lb_stop, wpc, lo_ready>>
    PROVE  SvcInv'
<1>2. SinkInv'
  BY ONLY SvcInv, UNCHANGED sinkVars, SinkSame DEF SvcInv
<1>3. GivenInv' /\ StreamInv' /\ RegInv' /\ DropInv' /\ GivenSvc' = GivenSvc
  <2>1. /\ UNCHANGED <<given_svc, mo_svc_buffers, mo_sent, mo_trc_descs, mu_dropped_svc>>
        /\ mo_attr_descs' = mo_attr_descs /\ mo_log_mods' = mo_log_mods
    BY DEF sinkVars, givenVars, regVars, trcVars
  <2> QED
    BY ONLY SvcInv, <2>1, AnnouncedSame DEF SvcInv
<1>4. /\ UNCHANGED <<mo_attr_descs, mo_log_mods, mo_trc_descs, mo_sent, mo_trc_desc_mutex, pc, todo,
                     given_data>>
  BY DEF sinkVars, givenVars, regVars, trcVars
<1>5. PendInv' /\ TagInv'
  BY <1>4 DEF SvcInv, PendInv, TagInv
<1>6. ready \in Seq(Sites) /\ lo_ready \in Seq(Sites) /\ stop \in BOOLEAN /\ lb_stop \in BOOLEAN
  BY DEF SvcInv, SvcTypes
<1>7. PhaseInv /\ DataInv
  BY DEF SvcInv
<1>8. CASE /\ \E s \in mo_trc_descs \cap Sites : ready' = Append(ready, s)
           /\ Open /\ UNCHANGED <<stop, lb_stop, wpc, lo_ready>>
  <2>1. PICK s \in mo_trc_descs \cap Sites : ready' = Append(ready, s)
    BY <1>8
  <2>2. PICK n \in Nat : n = Len(ready)
    BY <1>6
  <2>3. /\ ready' \in Seq(Sites) /\ Len(ready') = n + 1
        /\ \A i \in 1 .. n + 1 : ready'[i] = IF i = n + 1 THEN s ELSE ready[i]
    BY ONLY <1>6, <2>1, <2>2
  <2>4. \A i \in 1 .. n + 1 : ready'[i] \in mo_trc_descs
    BY ONLY <1>7, <2>1, <2>2, <2>3 DEF DataInv
  <2>5. DataInv'
    BY ONLY <1>3, <1>4, <1>7, <1>8, <2>3, <2>4 DEF DataInv
  <2>6. PhaseInv'
    BY <1>4, <1>7, <1>8 DEF PhaseInv, Open
  <2>7. SvcTypes'
    BY <1>4, <1>8, <2>3 DEF SvcInv, SvcTypes
  <2> QED
    BY ONLY <1>2, <1>3, <1>5, <2>5, <2>6, <2>7 DEF SvcInv
<1>9. CASE /\ stop' = TRUE /\ \A t \in Threads : pc[t] = "idle"
           /\ UNCHANGED <<ready, lb_stop, wpc, lo_ready>>
  <2>1. DataInv'
    BY ONLY <1>3, <1>4, <1>7, <1>9 DEF DataInv
  <2>2. PhaseInv'
    BY <1>4, <1>7, <1>9 DEF PhaseInv
  <2>3. SvcTypes'
    BY <1>4, <1>9 DEF SvcInv, SvcTypes
  <2> QED
    BY ONLY <1>2, <1>3, <1>5, <2>1, <2>2, <2>3 DEF SvcInv
<1>10. CASE /\ wpc' = "service" /\ lb_stop' = stop
            /\ lo_ready' = ready /\ ready' = <<>> /\ UNCHANGED stop
  <2>1. Len(ready') = 0 /\ ready' \in Seq(Sites)
    BY <1>10
  <2>2. DataInv'
    BY ONLY <1>3, <1>4, <1>7, <1>10, <2>1 DEF DataInv
  <2>3. PhaseInv'
    BY <1>4, <1>7, <1>10 DEF PhaseInv
  <2>4. SvcTypes'
    BY <1>4, <1>6, <1>10, <2>1 DEF SvcInv, SvcTypes
  <2> QED
    BY ONLY <1>2, <1>3, <1>5, <2>2, <2>3, <2>4 DEF SvcInv
<1>11. CASE UNCHANGED <<ready, stop, lb_stop, wpc, lo_ready>>
  <2>1. DataInv'
    BY ONLY <1>3, <1>4, <1>7, <1>11 DEF DataInv
  <2>2. PhaseInv'
    BY <1>4, <1>7, <1>11 DEF PhaseInv
  <2>3. SvcTypes'
    BY <1>4, <1>11 DEF SvcInv, SvcTypes
  <2> QED
    BY ONLY <1>2, <1>3, <1>5, <2>1, <2>2, <2>3 DEF SvcInv
<1> QED
  BY <1>8, <1>9, <1>10, <1>11

\* The identifiers of registrations that have numbers below n.
LEMMA NextNumber ==
    ASSUME NEW n \in Nat
    PROVE  /\ {AttrEntry(i - 1) : i \in 1 .. n + 1} = {AttrEntry(i - 1) : i \in 1 .. n} \cup {AttrEntry(n)}
           /\ {ModEntry(i - 1) : i \in 1 .. n + 1} = {ModEntry(i - 1) : i \in 1 .. n} \cup {ModEntry(n)}
<1>1. 1 .. n + 1 = (1 .. n) \cup {n + 1} /\ (n + 1) - 1 = n
  OBVIOUS
<1>2. PICK k : k = n + 1
  OBVIOUS
<1>3. 1 .. k = (1 .. n) \cup {k} /\ k - 1 = n
  BY ONLY <1>1, <1>2
<1>4. {AttrEntry(i - 1) : i \in 1 .. k} = {AttrEntry(i - 1) : i \in 1 .. n} \cup {AttrEntry(n)}
  BY ONLY <1>3
<1>5. {ModEntry(i - 1) : i \in 1 .. k} = {ModEntry(i - 1) : i \in 1 .. n} \cup {ModEntry(n)}
  BY ONLY <1>3
<1> QED
  BY ONLY <1>2, <1>4, <1>5

\* There are finitely many of them.
LEMMA NumbersFinite ==
    ASSUME NEW n \in Nat
    PROVE  /\ IsFiniteSet({AttrEntry(i - 1) : i \in 1 .. n})
           /\ IsFiniteSet({ModEntry(i - 1) : i \in 1 .. n})
<1>1. IsFiniteSet(1 .. n)
  BY FS_Interval
<1>2. PICK f, h : f = [i \in 1 .. n |-> AttrEntry(i - 1)] /\ h = [i \in 1 .. n |-> ModEntry(i - 1)]
  OBVIOUS
<1>3. PICK F, H : F = {AttrEntry(i - 1) : i \in 1 .. n} /\ H = {ModEntry(i - 1) : i \in 1 .. n}
  OBVIOUS
<1>4. f \in Surjection(1 .. n, F) /\ h \in Surjection(1 .. n, H)
  BY ONLY <1>2, <1>3 DEF Surjection
<1> QED
  BY ONLY <1>1, <1>3, <1>4, FS_Surjection

\* A new entry e of an attribute or a module is written or counted as dropped.
LEMMA RegisterDoes ==
    ASSUME SvcInv, NEW e \in Entry, e \notin Range(Stream), e \notin Wanted, IsFiniteSet(Wanted),
           e[1] \in {"attr", "mod"}, Wanted' = Wanted \cup {e},
           NEW t, SvcOrDrop(t, e),
           UNCHANGED <<given_svc, mo_sent, mo_trc_descs>>
    PROVE  /\ GivenInv' /\ StreamInv' /\ DropInv' /\ GivenSvc' = GivenSvc
           /\ Range(Stream') \subseteq Range(Stream) \cup {e}
           /\ BufsOK(mo_svc_buffers') /\ mu_dropped_svc' \in Nat
<1>1. BufsOK(mo_svc_buffers) /\ mu_dropped_svc \in Nat
  BY DEF SvcInv, SvcTypes
<1>2. /\ BufsOK(mo_svc_buffers')
      /\ \/ /\ FlattenSeq(mo_svc_buffers') = FlattenSeq(mo_svc_buffers) \o <<e>>
            /\ mu_dropped_svc' = mu_dropped_svc
         \/ /\ mo_svc_buffers' = mo_svc_buffers
            /\ mu_dropped_svc' = mu_dropped_svc + 1
  BY ONLY <1>1, e \in Entry, SvcOrDrop(t, e), SvcOrDropDoes
<1>3. GivenSvc' = GivenSvc
  BY DEF GivenSvc
<1>4. GivenInv'
  BY ONLY SvcInv, <1>3, UNCHANGED <<given_svc, mo_sent, mo_trc_descs>> DEF SvcInv, GivenInv
<1>5. PICK g \in Seq(Entry), f \in Seq(Entry) :
         g = GivenSvc /\ f = FlattenSeq(mo_svc_buffers)
  BY ONLY SvcInv, StreamParts DEF SvcInv
<1>6. PICK s \in Seq(Entry) : s = Stream /\ s = g \o f
  BY ONLY SvcInv, <1>5, StreamParts DEF SvcInv, Stream
<1>7. Readable(s, mo_sent, mo_trc_descs)
  BY ONLY SvcInv, <1>6 DEF SvcInv, StreamInv
<1>8. PICK d : d = Wanted \ Range(s)
  OBVIOUS
<1>9. mu_dropped_svc = Cardinality(d) /\ IsFiniteSet(d) /\ e \notin d
  <2>1. mu_dropped_svc = Cardinality(d)
    BY ONLY SvcInv, <1>6, <1>8 DEF SvcInv, DropInv
  <2>2. d \subseteq Wanted
    BY ONLY <1>8
  <2>3. IsFiniteSet(d)
    BY ONLY <2>2, IsFiniteSet(Wanted), FS_Subset
  <2>4. e \notin d
    BY ONLY <2>2, e \notin Wanted
  <2> QED
    BY ONLY <2>1, <2>3, <2>4
<1>10. CASE /\ FlattenSeq(mo_svc_buffers') = f \o <<e>> /\ mu_dropped_svc' = mu_dropped_svc
  <2>1. PICK w \in Seq(Entry) : w = <<e>>
    <3>1. <<e>> \in Seq(Entry)
      OBVIOUS
    <3> QED
      BY ONLY <3>1
  <2>2. Stream' = g \o (f \o w)
    BY ONLY <1>3, <1>5, <1>10, <2>1 DEF Stream
  <2>3. Stream' = s \o w
    BY ONLY <1>6, <2>2, g \in Seq(Entry), f \in Seq(Entry), w \in Seq(Entry), ConcatAssoc
  <2>4. /\ Readable(s \o <<e>>, mo_sent, mo_trc_descs) /\ Range(s \o <<e>>) = Range(s) \cup {e}
    BY ONLY <1>6, <1>7, e \in Entry, e \notin Range(Stream), e[1] \in {"attr", "mod"}, ReadableOther
  <2>5. Readable(Stream', mo_sent, mo_trc_descs) /\ Range(Stream') = Range(s) \cup {e}
    BY ONLY <2>1, <2>3, <2>4
  <2>6. StreamInv'
    BY ONLY <2>5, UNCHANGED <<given_svc, mo_sent, mo_trc_descs>> DEF StreamInv
  <2>7. Wanted' \ Range(Stream') = d
    BY ONLY <1>8, <2>5, e \notin Wanted, Wanted' = Wanted \cup {e}
  <2>8. DropInv'
    BY ONLY <1>9, <1>10, <2>7 DEF DropInv
  <2> QED
    BY ONLY <1>1, <1>2, <1>3, <1>4, <1>6, <1>10, <2>5, <2>6, <2>8
<1>11. CASE mo_svc_buffers' = mo_svc_buffers /\ mu_dropped_svc' = mu_dropped_svc + 1
  <2>1. Stream' = Stream
    BY ONLY <1>3, <1>11 DEF Stream
  <2>2. StreamInv'
    BY ONLY <1>6, <1>7, <2>1, UNCHANGED <<given_svc, mo_sent, mo_trc_descs>> DEF StreamInv
  <2>3. Wanted' \ Range(Stream') = d \cup {e}
    BY ONLY <1>6, <1>8, <2>1, e \notin Range(Stream), Wanted' = Wanted \cup {e}
  <2>4. Cardinality(d \cup {e}) = Cardinality(d) + 1
    BY ONLY <1>9, FS_AddElement
  <2>5. DropInv'
    BY ONLY <1>9, <1>11, <2>3, <2>4 DEF DropInv
  <2>6. mu_dropped_svc' \in Nat
    BY ONLY <1>1, <1>11
  <2> QED
    BY ONLY <1>2, <1>3, <1>4, <2>1, <2>2, <2>5, <2>6
<1> QED
  BY ONLY <1>2, <1>5, <1>10, <1>11

\* What an entry written or dropped leaves as it was.
LEMMA RegisterLeaves ==
    ASSUME SvcInv, Open, GivenSvc' = GivenSvc,
           UNCHANGED <<sinkVars, trcVars, ready, stop, workerVars>>
    PROVE  SinkInv' /\ PendInv' /\ DataInv' /\ PhaseInv' /\ TagInv'
<1>1. SinkInv'
  BY ONLY SvcInv, UNCHANGED <<sinkVars, trcVars, ready, stop, workerVars>>, SinkSame DEF SvcInv
<1>2. PendInv' /\ DataInv' /\ TagInv'
  BY DEF SvcInv, PendInv, DataInv, TagInv, trcVars, sinkVars, givenVars, workerVars
<1>3. PhaseInv'
  BY DEF SvcInv, PhaseInv, Open, trcVars, workerVars
<1> QED
  BY ONLY <1>1, <1>2, <1>3

\* attr_register: the new identifier is announced or counted.
LEMMA AttrKeeps ==
    ASSUME SvcInv, NEW t \in Threads, NEW a \in AttrNames, NEW ty \in AttrTypes,
           attr_register(t, a, ty)
    PROVE  SvcInv'
<1>1. /\ Open
      /\ mo_attr_descs' = Append(mo_attr_descs, [name |-> a, type |-> ty])
      /\ SvcOrDrop(t, AttrEntry(Len(mo_attr_descs)))
      /\ UNCHANGED <<sinkVars, mo_log_mods, trcVars, ready, stop, workerVars>>
  BY DEF attr_register
<1>2. mo_attr_descs \in Seq([name : AttrNames, type : AttrTypes])
  BY DEF SvcInv, SvcTypes
<1>3. PICK n \in Nat : n = Len(mo_attr_descs)
  BY <1>2
<1>4. mo_attr_descs' \in Seq([name : AttrNames, type : AttrTypes]) /\ Len(mo_attr_descs') = n + 1
  BY ONLY <1>1, <1>2, <1>3, a \in AttrNames, ty \in AttrTypes
<1>5. PICK e \in Entry : e = AttrEntry(n)
  BY EntryKinds
<1>6. e \notin Range(Stream)
  BY ONLY SvcInv, <1>3, <1>5, n \in Nat DEF SvcInv, RegInv
<1>7. e \notin Wanted
  <2>1. \A i \in 1 .. n : AttrEntry(i - 1) # e
    <3>1. \A i \in 1 .. n : i - 1 # n
      OBVIOUS
    <3> QED
      BY ONLY <1>5, <3>1, EntryKinds
  <2>2. \A i : ModEntry(i - 1) # e
    BY ONLY <1>5, EntryKinds
  <2> QED
    BY ONLY <1>3, <2>1, <2>2 DEF Wanted
<1>8. Wanted' = Wanted \cup {e}
  <2>1. {AttrEntry(i - 1) : i \in 1 .. n + 1} = {AttrEntry(i - 1) : i \in 1 .. n} \cup {e}
    BY ONLY <1>5, n \in Nat, NextNumber
  <2> QED
    BY ONLY <1>1, <1>3, <1>4, <2>1 DEF Wanted
<1>9. IsFiniteSet(Wanted)
  <2>1. Len(mo_attr_descs) \in Nat /\ Len(mo_log_mods) \in Nat
    BY DEF SvcInv, SvcTypes
  <2>2. IsFiniteSet({AttrEntry(i - 1) : i \in 1 .. Len(mo_attr_descs)})
        /\ IsFiniteSet({ModEntry(i - 1) : i \in 1 .. Len(mo_log_mods)})
    BY ONLY <2>1, NumbersFinite
  <2> QED
    BY ONLY <2>2, FS_Union DEF Wanted
<1>10. /\ GivenInv' /\ StreamInv' /\ DropInv' /\ GivenSvc' = GivenSvc
       /\ Range(Stream') \subseteq Range(Stream) \cup {e}
       /\ BufsOK(mo_svc_buffers') /\ mu_dropped_svc' \in Nat
  <2>1. UNCHANGED <<given_svc, mo_sent, mo_trc_descs>>
    BY <1>1 DEF sinkVars, givenVars, trcVars
  <2>2. e[1] \in {"attr", "mod"}
    BY ONLY <1>5, EntryKinds
  <2>3. SvcOrDrop(t, e)
    BY ONLY <1>1, <1>3, <1>5
  <2> QED
    BY ONLY SvcInv, <1>6, <1>7, <1>8, <1>9, <2>1, <2>2, <2>3, e \in Entry, RegisterDoes
<1>11. RegInv'
  <2>1. ASSUME NEW i \in Nat
        PROVE  /\ AttrEntry(i) \in Range(Stream') => i < n + 1
               /\ ModEntry(i) \in Range(Stream') => i < Len(mo_log_mods)
    <3>1. AttrEntry(i) \in Range(Stream) => i < n
      BY ONLY SvcInv, <1>3, i \in Nat DEF SvcInv, RegInv
    <3>2. ModEntry(i) \in Range(Stream) => i < Len(mo_log_mods)
      BY ONLY SvcInv, i \in Nat DEF SvcInv, RegInv
    <3>3. (AttrEntry(i) = e => i = n) /\ ModEntry(i) # e
      BY ONLY <1>5, EntryKinds
    <3>4. AttrEntry(i) \in Range(Stream') => i < n \/ i = n
      BY ONLY <1>10, <3>1, <3>3
    <3>5. ModEntry(i) \in Range(Stream') => i < Len(mo_log_mods)
      BY ONLY <1>10, <3>2, <3>3
    <3>6. i < n \/ i = n => i < n + 1
      OBVIOUS
    <3> QED
      BY ONLY <3>4, <3>5, <3>6
  <2> QED
    BY ONLY <1>1, <1>4, <2>1 DEF RegInv
<1>12. SinkInv' /\ PendInv' /\ DataInv' /\ PhaseInv' /\ TagInv'
  <2>1. UNCHANGED <<sinkVars, trcVars, ready, stop, workerVars>> /\ Open /\ GivenSvc' = GivenSvc
    BY ONLY <1>1, <1>10
  <2> QED
    BY ONLY SvcInv, <2>1, RegisterLeaves
<1>13. SvcTypes'
  BY ONLY SvcInv, <1>1, <1>4, <1>10 DEF SvcInv, SvcTypes, trcVars, workerVars
<1> QED
  BY ONLY <1>10, <1>11, <1>12, <1>13 DEF SvcInv

\* register_module of a new name: the new identifier is announced or counted.
LEMMA ModNewKeeps ==
    ASSUME SvcInv, NEW t \in Threads, NEW a \in ModNames, NEW ty \in Levels, Open,
           mo_log_mods' = Append(mo_log_mods, [name |-> a, verbosity |-> ty]),
           SvcOrDrop(t, ModEntry(Len(mo_log_mods))),
           UNCHANGED <<sinkVars, mo_attr_descs, trcVars, ready, stop, workerVars>>
    PROVE  SvcInv'
<1>1. /\ Open
      /\ mo_log_mods' = Append(mo_log_mods, [name |-> a, verbosity |-> ty])
      /\ SvcOrDrop(t, ModEntry(Len(mo_log_mods)))
      /\ UNCHANGED <<sinkVars, mo_attr_descs, trcVars, ready, stop, workerVars>>
  OBVIOUS
<1>2. mo_log_mods \in Seq([name : ModNames, verbosity : Levels])
  BY DEF SvcInv, SvcTypes
<1>3. PICK n \in Nat : n = Len(mo_log_mods)
  BY <1>2
<1>4. mo_log_mods' \in Seq([name : ModNames, verbosity : Levels]) /\ Len(mo_log_mods') = n + 1
  BY ONLY <1>1, <1>2, <1>3, a \in ModNames, ty \in Levels
<1>5. PICK e \in Entry : e = ModEntry(n)
  BY EntryKinds
<1>6. e \notin Range(Stream)
  BY ONLY SvcInv, <1>3, <1>5, n \in Nat DEF SvcInv, RegInv
<1>7. e \notin Wanted
  <2>1. \A i \in 1 .. n : ModEntry(i - 1) # e
    <3>1. \A i \in 1 .. n : i - 1 # n
      OBVIOUS
    <3> QED
      BY ONLY <1>5, <3>1, EntryKinds
  <2>2. \A i : AttrEntry(i - 1) # e
    BY ONLY <1>5, EntryKinds
  <2> QED
    BY ONLY <1>3, <2>1, <2>2 DEF Wanted
<1>8. Wanted' = Wanted \cup {e}
  <2>1. {ModEntry(i - 1) : i \in 1 .. n + 1} = {ModEntry(i - 1) : i \in 1 .. n} \cup {e}
    BY ONLY <1>5, n \in Nat, NextNumber
  <2> QED
    BY ONLY <1>1, <1>3, <1>4, <2>1 DEF Wanted
<1>9. IsFiniteSet(Wanted)
  <2>1. Len(mo_log_mods) \in Nat /\ Len(mo_attr_descs) \in Nat
    BY DEF SvcInv, SvcTypes
  <2>2. IsFiniteSet({ModEntry(i - 1) : i \in 1 .. Len(mo_log_mods)})
        /\ IsFiniteSet({AttrEntry(i - 1) : i \in 1 .. Len(mo_attr_descs)})
    BY ONLY <2>1, NumbersFinite
  <2> QED
    BY ONLY <2>2, FS_Union DEF Wanted
<1>10. /\ GivenInv' /\ StreamInv' /\ DropInv' /\ GivenSvc' = GivenSvc
       /\ Range(Stream') \subseteq Range(Stream) \cup {e}
       /\ BufsOK(mo_svc_buffers') /\ mu_dropped_svc' \in Nat
  <2>1. UNCHANGED <<given_svc, mo_sent, mo_trc_descs>>
    BY <1>1 DEF sinkVars, givenVars, trcVars
  <2>2. e[1] \in {"attr", "mod"}
    BY ONLY <1>5, EntryKinds
  <2>3. SvcOrDrop(t, e)
    BY ONLY <1>1, <1>3, <1>5
  <2> QED
    BY ONLY SvcInv, <1>6, <1>7, <1>8, <1>9, <2>1, <2>2, <2>3, e \in Entry, RegisterDoes
<1>11. RegInv'
  <2>1. ASSUME NEW i \in Nat
        PROVE  /\ ModEntry(i) \in Range(Stream') => i < n + 1
               /\ AttrEntry(i) \in Range(Stream') => i < Len(mo_attr_descs)
    <3>1. ModEntry(i) \in Range(Stream) => i < n
      BY ONLY SvcInv, <1>3, i \in Nat DEF SvcInv, RegInv
    <3>2. AttrEntry(i) \in Range(Stream) => i < Len(mo_attr_descs)
      BY ONLY SvcInv, i \in Nat DEF SvcInv, RegInv
    <3>3. (ModEntry(i) = e => i = n) /\ AttrEntry(i) # e
      BY ONLY <1>5, EntryKinds
    <3>4. ModEntry(i) \in Range(Stream') => i < n \/ i = n
      BY ONLY <1>10, <3>1, <3>3
    <3>5. AttrEntry(i) \in Range(Stream') => i < Len(mo_attr_descs)
      BY ONLY <1>10, <3>2, <3>3
    <3>6. i < n \/ i = n => i < n + 1
      OBVIOUS
    <3> QED
      BY ONLY <3>4, <3>5, <3>6
  <2> QED
    BY ONLY <1>1, <1>4, <2>1 DEF RegInv
<1>12. SinkInv' /\ PendInv' /\ DataInv' /\ PhaseInv' /\ TagInv'
  <2>1. UNCHANGED <<sinkVars, trcVars, ready, stop, workerVars>> /\ Open /\ GivenSvc' = GivenSvc
    BY ONLY <1>1, <1>10
  <2> QED
    BY ONLY SvcInv, <2>1, RegisterLeaves
<1>13. SvcTypes'
  BY ONLY SvcInv, <1>1, <1>4, <1>10 DEF SvcInv, SvcTypes, trcVars, workerVars
<1> QED
  BY ONLY <1>10, <1>11, <1>12, <1>13 DEF SvcInv

\* A module that is registered again refreshes its verbosity and announces nothing.
LEMMA ModAgainKeeps ==
    ASSUME SvcInv, Open, NEW l \in Levels, NEW i \in 1 .. Len(mo_log_mods),
           mo_log_mods' = [mo_log_mods EXCEPT ![i].verbosity = l],
           UNCHANGED <<sinkVars, mo_attr_descs, trcVars, ready, stop, workerVars,
                       mo_svc_buffers, mu_dropped_svc>>
    PROVE  SvcInv'
<1>1. mo_log_mods \in Seq([name : ModNames, verbosity : Levels])
  BY DEF SvcInv, SvcTypes
<1>2. PICK n \in Nat : n = Len(mo_log_mods)
  BY <1>1
<1>3. mo_log_mods' \in Seq([name : ModNames, verbosity : Levels]) /\ Len(mo_log_mods') = n
  <2>1. PICK R : R = [name : ModNames, verbosity : Levels]
    OBVIOUS
  <2>2. PICK m \in Seq(R) : m = mo_log_mods
    BY <1>1, <2>1
  <2>3. PICK x : x = [m[i] EXCEPT !.verbosity = l]
    OBVIOUS
  <2>4. x \in R
    <3>1. m[i] \in R
      BY ONLY <2>2, m \in Seq(R), i \in 1 .. Len(mo_log_mods)
    <3> QED
      BY ONLY <2>1, <2>3, <3>1, l \in Levels
  <2>5. mo_log_mods' = [m EXCEPT ![i] = x]
    BY ONLY <2>2, <2>3, mo_log_mods' = [mo_log_mods EXCEPT ![i].verbosity = l]
  <2>6. [m EXCEPT ![i] = x] \in Seq(R) /\ Len([m EXCEPT ![i] = x]) = Len(m)
    BY ONLY <2>2, <2>4, m \in Seq(R), i \in 1 .. Len(mo_log_mods), ExceptSeq
  <2> QED
    BY ONLY <1>2, <2>1, <2>2, <2>5, <2>6
<1>4. GivenInv' /\ StreamInv' /\ RegInv' /\ DropInv' /\ GivenSvc' = GivenSvc
  <2>1. /\ UNCHANGED <<given_svc, mo_svc_buffers, mo_sent, mo_trc_descs, mu_dropped_svc>>
        /\ mo_attr_descs' = mo_attr_descs
    BY DEF sinkVars, givenVars, trcVars
  <2>2. Len(mo_attr_descs') = Len(mo_attr_descs) /\ Len(mo_log_mods') = Len(mo_log_mods)
    BY ONLY <1>2, <1>3, <2>1
  <2> QED
    BY ONLY SvcInv, <2>1, <2>2, AnnouncedSame DEF SvcInv
<1>5. SinkInv' /\ PendInv' /\ DataInv' /\ PhaseInv' /\ TagInv'
  <2>1. UNCHANGED <<sinkVars, trcVars, ready, stop, workerVars>>
    OBVIOUS
  <2> QED
    BY ONLY SvcInv, Open, <1>4, <2>1, RegisterLeaves
<1>6. SvcTypes'
  BY ONLY SvcInv, <1>3, UNCHANGED <<sinkVars, mo_attr_descs, trcVars, ready, stop, workerVars,
                       mo_svc_buffers, mu_dropped_svc>> DEF SvcInv, SvcTypes, trcVars, workerVars
<1> QED
  BY ONLY <1>4, <1>5, <1>6 DEF SvcInv

\* A thread writes what it can of its site into the buffers.
LEMMA WroteKeeps ==
    ASSUME SvcInv, NEW t \in Threads, pc[t] # "idle",
           NEW b, BufsOK(b), FlattenSeq(b) = FlattenSeq(mo_svc_buffers), WriteInto(t, b),
           UNCHANGED <<sinkVars, regVars, mu_dropped_svc, ready, stop, workerVars>>
    PROVE  SvcInv'
<1>1. PICK n \in 0 .. Len(todo[t]) : Wrote(t, b, n)
  <2>1. todo \in [Threads -> Seq(Entry)]
    BY DEF SvcInv, SvcTypes
  <2> QED
    BY ONLY <2>1, BufsOK(b), t \in Threads, WriteInto(t, b), WriteIntoDoes
<1>2. PICK u : u = todo[t]
  OBVIOUS
<1>3. PICK s \in Sites : s \notin mo_trc_descs /\ Pending(u, s, mo_sent) /\ mo_trc_desc_mutex = t
  BY ONLY SvcInv, <1>2, t \in Threads, pc[t] # "idle" DEF SvcInv, PendInv
<1>4. u \in Seq(Entry) /\ u[Len(u)] = TrcEntry(s)
  BY ONLY <1>3 DEF Pending
<1>5. PICK now : now = SubSeq(u, 1, n)
  OBVIOUS
<1>6. PICK sent1 : sent1 = mo_sent \cup {e \in Range(now) : e[1] # "trace"}
  OBVIOUS
<1>7. PICK known1 : known1 = IF n = Len(u) THEN mo_trc_descs \cup {s} ELSE mo_trc_descs
  OBVIOUS
<1>8. /\ BufsOK(mo_svc_buffers')
      /\ FlattenSeq(mo_svc_buffers') = FlattenSeq(b) \o now
      /\ todo' = [todo EXCEPT ![t] = SubSeq(u, n + 1, Len(u))]
      /\ mo_sent' = sent1
      /\ mo_trc_descs' = known1
      /\ n = Len(u) => pc' = [pc EXCEPT ![t] = "idle"]
      /\ n # Len(u) => /\ pc' = [pc EXCEPT ![t] = "acquire"]
                       /\ mo_trc_desc_mutex' = mo_trc_desc_mutex
  BY ONLY <1>1, <1>2, <1>4, <1>5, <1>6, <1>7, EntryKinds DEF Wrote
<1>9. PICK g \in Seq(Entry), f \in Seq(Entry) :
         g = GivenSvc /\ f = FlattenSeq(mo_svc_buffers)
  BY ONLY SvcInv, StreamParts DEF SvcInv
<1>10. PICK all \in Seq(Entry) : all = Stream /\ all = g \o f
  BY ONLY SvcInv, <1>9, StreamParts DEF SvcInv, Stream
<1>11. Readable(all, mo_sent, mo_trc_descs)
  BY ONLY SvcInv, <1>10 DEF SvcInv, StreamInv
<1>12. n \in 0 .. Len(u)
  BY ONLY <1>2, n \in 0 .. Len(todo[t])
<1>13. /\ Readable(all \o now, sent1, known1)
       /\ Range(all \o now) = Range(all) \cup Range(now)
       /\ \A e \in Range(now) : IsString(e) \/ e[1] = "trace"
       /\ n # Len(u) => Pending(SubSeq(u, n + 1, Len(u)), s, sent1)
  <2>1. Advance(all, mo_sent, mo_trc_descs, s, u, n, now, sent1, known1)
    BY ONLY <1>3, <1>5, <1>6, <1>7, <1>11, <1>12, s \in Sites DEF Advance
  <2> QED
    BY ONLY <2>1, ReadablePending
<1>14. now \in Seq(Entry)
  <2>1. Len(u) \in Nat
    BY ONLY <1>4
  <2>2. n \in Nat /\ n <= Len(u)
    BY ONLY <1>12, <2>1
  <2> QED
    BY ONLY <1>4, <1>5, <2>2, SubOfPrefix
<1>15. GivenSvc' = GivenSvc /\ GivenInv'
  BY DEF SvcInv, GivenInv, GivenSvc, sinkVars, givenVars
<1>16. Stream' = all \o now
  <2>1. Stream' = g \o (f \o now)
    BY ONLY <1>8, <1>9, <1>15, FlattenSeq(b) = FlattenSeq(mo_svc_buffers) DEF Stream
  <2>2. (g \o f) \o now = g \o (f \o now)
    BY ONLY <1>14, g \in Seq(Entry), f \in Seq(Entry), ConcatAssoc
  <2> QED
    BY ONLY <1>10, <2>1, <2>2
<1>17. StreamInv'
  BY ONLY <1>8, <1>13, <1>16 DEF StreamInv
<1>18. \A i : AttrEntry(i) \notin Range(now) /\ ModEntry(i) \notin Range(now)
  BY ONLY <1>13, EntryKinds DEF IsString
<1>19. mo_attr_descs' = mo_attr_descs /\ mo_log_mods' = mo_log_mods /\ mu_dropped_svc' = mu_dropped_svc
  BY DEF regVars
<1>20. RegInv'
  BY ONLY SvcInv, <1>10, <1>13, <1>16, <1>18, <1>19 DEF SvcInv, RegInv
<1>21. DropInv'
  <2>1. Wanted' = Wanted
    BY ONLY <1>19 DEF Wanted
  <2>2. Wanted \cap Range(now) = {}
    BY ONLY <1>18 DEF Wanted
  <2>3. Wanted' \ Range(Stream') = Wanted \ Range(Stream)
    BY ONLY <1>10, <1>13, <1>16, <2>1, <2>2
  <2> QED
    BY ONLY SvcInv, <1>19, <2>3 DEF SvcInv, DropInv
<1>22. SinkInv'
  <2>1. UNCHANGED sinkVars
    OBVIOUS
  <2> QED
    BY ONLY SvcInv, <2>1, SinkSame DEF SvcInv
<1>23. pc \in [Threads -> {"idle", "write", "acquire", "have"}] /\ todo \in [Threads -> Seq(Entry)]
  BY DEF SvcInv, SvcTypes
<1>24. /\ pc' \in [Threads -> {"idle", "write", "acquire", "have"}]
       /\ \A r \in Threads : r # t => pc'[r] = pc[r] /\ todo'[r] = todo[r]
       /\ n = Len(u) => pc'[t] = "idle"
       /\ todo'[t] = SubSeq(u, n + 1, Len(u))
  BY ONLY <1>8, <1>23, t \in Threads
<1>25. \A r \in Threads : r # t => pc[r] = "idle"
  BY ONLY SvcInv, <1>3 DEF SvcInv, PendInv
<1>26. PendInv'
  <2>1. ASSUME NEW r \in Threads, pc'[r] # "idle"
        PROVE  /\ mo_trc_desc_mutex' = r
               /\ \E x \in Sites : x \notin mo_trc_descs' /\ Pending(todo'[r], x, mo_sent')
    <3>1. r = t /\ n # Len(u)
      BY ONLY <1>24, <1>25, <2>1, r \in Threads
    <3>2. s \notin mo_trc_descs' /\ Pending(todo'[r], s, mo_sent')
      <4>1. todo'[r] = SubSeq(u, n + 1, Len(u)) /\ mo_sent' = sent1
        BY ONLY <1>8, <1>24, <3>1
      <4>2. Pending(SubSeq(u, n + 1, Len(u)), s, sent1)
        BY ONLY <1>13, <3>1
      <4>3. s \notin mo_trc_descs'
        BY ONLY <1>3, <1>7, <1>8, <3>1
      <4> QED
        BY ONLY <4>1, <4>2, <4>3
    <3> QED
      BY ONLY <1>3, <1>8, <3>1, <3>2, s \in Sites
  <2> QED
    BY ONLY <2>1 DEF PendInv
<1>27. SvcTypes'
  <2>1. SubSeq(u, n + 1, Len(u)) \in Seq(Entry)
    <3>1. Len(u) \in Nat /\ Len(u) <= Len(u)
      BY ONLY <1>4
    <3>2. n \in Nat /\ n <= Len(u)
      BY ONLY <1>12, <3>1
    <3> QED
      BY ONLY <1>4, <3>1, <3>2, SubSeqSplit
  <2>2. todo' \in [Threads -> Seq(Entry)]
    BY ONLY <1>8, <1>23, <2>1
  <2>3. UNCHANGED <<ready, stop, lo_ready, lb_stop, wpc, mu_batch_index>>
    BY DEF workerVars
  <2> QED
    BY ONLY SvcInv, <1>8, <1>19, <1>24, <2>2, <2>3 DEF SvcInv, SvcTypes
<1>28. PhaseInv' /\ DataInv' /\ TagInv'
  <2>1. UNCHANGED <<ready, stop, lo_ready, lb_stop, wpc, mu_batch_index, given_data>>
    BY DEF workerVars, sinkVars, givenVars
  <2>2. mo_trc_descs \subseteq mo_trc_descs'
    BY ONLY <1>7, <1>8
  <2>3. ~stop /\ ~lb_stop
    BY ONLY SvcInv, t \in Threads, pc[t] # "idle" DEF SvcInv, PhaseInv
  <2>4. PhaseInv'
    BY ONLY SvcInv, <2>1, <2>3 DEF SvcInv, PhaseInv
  <2> QED
    BY ONLY SvcInv, <1>15, <2>1, <2>2, <2>4 DEF SvcInv, DataInv, TagInv
<1> QED
  BY ONLY <1>15, <1>17, <1>20, <1>21, <1>22, <1>26, <1>27, <1>28 DEF SvcInv

\* InstallSvc writes into a new, empty buffer.
LEMMA InstallKeeps ==
    ASSUME SvcInv, NEW t \in Threads, InstallSvc(t)
    PROVE  SvcInv'
<1>1. PICK o : o = mo_svc_buffers
  OBVIOUS
<1>2. PICK b : b = Append(o, <<>>)
  OBVIOUS
<1>3. BufsOK(o)
  BY ONLY SvcInv, <1>1 DEF SvcInv, SvcTypes
<1>4. <<>> \in Seq(Entry) /\ Len(<<>>) <= SvcEntries
  BY ServiceAssumption
<1>5. BufsOK(b) /\ FlattenSeq(b) = FlattenSeq(o) \o <<>>
  BY ONLY <1>2, <1>3, <1>4, FlatOpen
<1>6. FlattenSeq(o) \in Seq(Entry)
  BY ONLY <1>1, SvcInv, StreamParts DEF SvcInv
<1>7. FlattenSeq(b) = FlattenSeq(mo_svc_buffers)
  <2>1. PICK f \in Seq(Entry) : f = FlattenSeq(o)
    BY ONLY <1>6
  <2>2. f \o <<>> = f
    BY ONLY f \in Seq(Entry), ConcatEmptySeq
  <2> QED
    BY ONLY <1>1, <1>5, <2>1, <2>2
<1>8. /\ pc[t] # "idle" /\ WriteInto(t, b)
      /\ UNCHANGED <<sinkVars, regVars, mu_dropped_svc, ready, stop, workerVars>>
  BY <1>1, <1>2 DEF InstallSvc
<1> QED
  BY ONLY SvcInv, t \in Threads, <1>5, <1>7, <1>8, WroteKeeps

\* WriteEntries writes into the last buffer there is.
LEMMA WriteKeeps ==
    ASSUME SvcInv, NEW t \in Threads, WriteEntries(t)
    PROVE  SvcInv'
<1>1. PICK b : b = mo_svc_buffers
  OBVIOUS
<1>2. BufsOK(b)
  BY ONLY SvcInv, <1>1 DEF SvcInv, SvcTypes
<1>3. /\ pc[t] # "idle" /\ WriteInto(t, b)
      /\ UNCHANGED <<sinkVars, regVars, mu_dropped_svc, ready, stop, workerVars>>
  BY <1>1 DEF WriteEntries
<1>4. FlattenSeq(b) = FlattenSeq(mo_svc_buffers)
  BY ONLY <1>1
<1> QED
  BY ONLY SvcInv, t \in Threads, <1>2, <1>3, <1>4, WroteKeeps

\* What the worker takes under mo_svc_mutex is appended to what the sink was given.
LEMMA GiveServiceGives ==
    ASSUME SvcInv, GiveService
    PROVE  /\ SinkInv' /\ given_data' = given_data
           /\ GivenSvc' = Stream /\ GivenSvc' \in Seq(Entry)
           /\ given_svc' = EntrySeqCells(GivenSvc')
<1>1. PICK b \in Seq(Seq(Entry)) : b = mo_svc_buffers
  BY ONLY SvcInv, StreamParts DEF SvcInv
<1>2. PICK iov : iov = [i \in 1 .. Len(b) |-> EntrySeqCells(b[i])]
  OBVIOUS
<1>3. PICK g \in Seq(Entry) : g = GivenSvc
  BY ONLY SvcInv, StreamParts DEF SvcInv
<1>4. PICK f \in Seq(Entry) : f = FlattenSeq(b)
  BY ONLY SvcInv, <1>1, StreamParts DEF SvcInv
<1>5. iov \in Seq(Seq(SvcCell)) /\ FlattenSeq(iov) = EntrySeqCells(f)
  BY ONLY b \in Seq(Seq(Entry)), <1>2, <1>4, GivenOfBuffers
<1>6. given_svc = EntrySeqCells(g)
  BY ONLY SvcInv, <1>3 DEF SvcInv, GivenInv
<1>7. PICK h \in Seq(Entry) : h = g \o f
  <2>1. g \o f \in Seq(Entry)
    BY ONLY g \in Seq(Entry), f \in Seq(Entry), InjConcat
  <2> QED
    BY ONLY <2>1
<1>8. /\ SinkInv' /\ given_data' = given_data
      /\ given_svc' = EntrySeqCells(h)
  <2>1. CASE b = <<>>
    <3>1. UNCHANGED sinkVars
      BY ONLY <1>1, <2>1, GiveService DEF GiveService
    <3>2. f = <<>>
      BY ONLY <1>4, <2>1, FlatEmpty
    <3>3. h = g
      BY ONLY <1>7, <3>2, g \in Seq(Entry)
    <3>4. SinkInv'
      BY ONLY SvcInv, <3>1, SinkSame DEF SvcInv
    <3>5. given_data' = given_data /\ given_svc' = given_svc
      BY <3>1 DEF sinkVars, givenVars
    <3> QED
      BY ONLY <1>6, <3>3, <3>4, <3>5
  <2>2. CASE b # <<>>
    <3>1. WriteService(iov)
      BY ONLY <1>1, <1>2, <2>2, GiveService DEF GiveService
    <3>2. SinkInv
      BY ONLY SvcInv DEF SvcInv
    <3>3. SinkInv'
      BY ONLY <1>5, <3>1, <3>2, WriteServiceKeeps
    <3>4. given_data' = given_data /\ given_svc' = given_svc \o FlattenSeq(iov)
      BY <3>1 DEF WriteService
    <3>5. EntrySeqCells(g \o f) = EntrySeqCells(g) \o EntrySeqCells(f)
      BY ONLY g \in Seq(Entry), f \in Seq(Entry), EntryCellsAre
    <3> QED
      BY ONLY <1>5, <1>6, <1>7, <3>3, <3>4, <3>5
  <2> QED
    BY ONLY <2>1, <2>2
<1>9. GivenSvc' = h
  <2>1. PICK c : c = EntrySeqCells(h)
    OBVIOUS
  <2>2. EntriesIn(c) = h
    BY ONLY <2>1, h \in Seq(Entry), Decode
  <2>3. GivenSvc' = EntriesIn(c)
    BY ONLY <1>8, <2>1 DEF GivenSvc, EntriesIn
  <2> QED
    BY ONLY <2>2, <2>3
<1>10. Stream = h
  BY ONLY <1>1, <1>3, <1>4, <1>7 DEF Stream
<1> QED
  BY ONLY <1>8, <1>9, <1>10, h \in Seq(Entry)

\* GiveService: the worker takes the buffers and hands them to the sink.
LEMMA GiveServiceKeeps ==
    ASSUME SvcInv, GiveService
    PROVE  SvcInv'
<1>1. PICK all \in Seq(Entry) : all = Stream /\ Readable(all, mo_sent, mo_trc_descs)
  BY ONLY SvcInv, StreamParts DEF SvcInv, StreamInv
<1>2. /\ SinkInv' /\ given_data' = given_data
      /\ GivenSvc' = all /\ given_svc' = EntrySeqCells(all)
  BY ONLY SvcInv, GiveService, <1>1, GiveServiceGives
<1>3. /\ wpc = "service" /\ wpc' = "recycle" /\ mo_svc_buffers' = <<>>
      /\ UNCHANGED <<mo_attr_descs, mo_log_mods, mo_trc_descs, mo_sent, mo_trc_desc_mutex, pc, todo,
                     mu_dropped_svc, ready, stop, lb_stop, lo_ready, mu_batch_index>>
  BY DEF GiveService, regVars, trcVars
<1>4. Stream' = all
  <2>1. Stream' = all \o FlattenSeq(<<>>)
    BY ONLY <1>2, <1>3 DEF Stream
  <2>2. all \o <<>> = all
    BY ONLY all \in Seq(Entry), ConcatEmptySeq
  <2> QED
    BY ONLY <2>1, <2>2, FlatEmpty
<1>5. GivenInv'
  BY ONLY <1>2, all \in Seq(Entry) DEF GivenInv
<1>6. StreamInv'
  BY ONLY <1>1, <1>3, <1>4 DEF StreamInv
<1>7. RegInv'
  BY ONLY SvcInv, <1>1, <1>3, <1>4 DEF SvcInv, RegInv
<1>8. DropInv'
  <2>1. Wanted' = Wanted
    BY ONLY <1>3 DEF Wanted
  <2> QED
    BY ONLY SvcInv, <1>1, <1>3, <1>4, <2>1 DEF SvcInv, DropInv
<1>9. PendInv'
  BY ONLY SvcInv, <1>3 DEF SvcInv, PendInv
<1>10. SvcTypes'
  <2>1. BufsOK(mo_svc_buffers')
    <3>1. PICK A : A = Seq(Entry)
      OBVIOUS
    <3>2. <<>> \in Seq(A)
      OBVIOUS
    <3>3. BufsOK(<<>>)
      BY ONLY <3>1, <3>2 DEF BufsOK
    <3> QED
      BY ONLY <1>3, <3>3
  <2> QED
    BY ONLY SvcInv, <1>3, <2>1 DEF SvcInv, SvcTypes
<1>11. DataInv'
  <2>1. Range(GivenSvc) \subseteq Range(GivenSvc')
    BY ONLY SvcInv, <1>1, <1>2, StreamParts DEF SvcInv
  <2>2. \A s \in mo_trc_descs : TrcEntry(s) \in Range(GivenSvc')
    BY ONLY <1>1, <1>2 DEF Readable
  <2> QED
    BY ONLY SvcInv, <1>2, <1>3, <2>1, <2>2 DEF SvcInv, DataInv
<1>12. PhaseInv'
  BY ONLY SvcInv, <1>3 DEF SvcInv, PhaseInv
<1>13. TagInv'
  BY ONLY SvcInv, <1>2, <1>3 DEF SvcInv, TagInv
<1> QED
  BY ONLY <1>2, <1>5, <1>6, <1>7, <1>8, <1>9, <1>10, <1>11, <1>12, <1>13 DEF SvcInv

\* The packet of batch n and the buffers with a record of each of the sites r.
BatchOf(n, r, packet, bufs) ==
    /\ packet = Cells(<<"batch", n>>, BatchCells)
    /\ bufs = [i \in 1 .. Len(r) |-> Cells(<<"span", n, i, r[i]>>, DataCells)]

\* A batch gives no cell twice, and all of it has the batch's number.
LEMMA BatchGives ==
    ASSUME NEW n \in Nat, NEW r \in Seq(Sites), NEW packet, NEW bufs, BatchOf(n, r, packet, bufs)
    PROVE  /\ packet \in Seq(DataCell) /\ bufs \in Seq(Seq(DataCell))
           /\ \E add \in Seq(DataCell) :
                 /\ add = FlattenSeq(<<packet>> \o bufs) /\ IsInjective(add)
                 /\ \A x \in Range(add) :
                       /\ x[1][1] \in {"batch", "span"} /\ x[1][2] = n
                       /\ x[1][1] = "span" => \E i \in 1 .. Len(r) : x[1][4] = r[i]
<1>1. PICK l \in Nat : l = Len(r)
  OBVIOUS
<1>2. PICK u : u = [i \in 1 .. l |-> <<"span", n, i, r[i]>>]
  OBVIOUS
<1>3. PICK bt : bt = <<"batch", n>>
  OBVIOUS
<1>4. PICK B \in Nat \ {0}, D \in Nat \ {0} : B = BatchCells /\ D = DataCells
  BY ServiceAssumption
<1>5. bt \in DataTag
  BY ONLY <1>3, n \in Nat DEF DataTag
<1>6. \A i \in 1 .. l : u[i] \in DataTag /\ u[i][1] = "span" /\ u[i][2] = n /\ u[i][3] = i /\ u[i][4] = r[i]
  <2>1. \A i \in 1 .. l : r[i] \in Sites /\ i \in Nat
    BY ONLY <1>1, r \in Seq(Sites)
  <2> QED
    BY ONLY <1>2, <2>1, n \in Nat DEF DataTag
<1>7. u \in Seq(DataTag) /\ Len(u) = l
  <2>1. PICK T : T = DataTag
    OBVIOUS
  <2>2. u \in [1 .. l -> T]
    BY ONLY <1>2, <1>6, <2>1
  <2>3. u \in Seq(T)
    BY ONLY <2>2, l \in Nat, SeqDef
  <2>4. DOMAIN u = 1 .. l
    BY ONLY <2>2
  <2>5. Len(u) = l
    BY ONLY <2>3, <2>4, l \in Nat, LenProperties
  <2> QED
    BY ONLY <2>1, <2>3, <2>5
<1>8. IsInjective(u) /\ Range(u) = {u[i] : i \in 1 .. l}
  <2>1. u \in Seq(DataTag)
    BY ONLY <1>7
  <2>2. /\ Range(u) = {u[i] : i \in 1 .. Len(u)}
        /\ IsInjective(u) <=> \A i, j \in 1 .. Len(u) : u[i] = u[j] => i = j
    BY ONLY <2>1, InjFacts
  <2>3. \A i, j \in 1 .. l : u[i] = u[j] => i = j
    BY ONLY <1>6
  <2> QED
    BY ONLY <1>7, <2>2, <2>3
<1>9. bufs = [i \in 1 .. Len(u) |-> Cells(u[i], D)]
  <2>1. bufs = [i \in 1 .. l |-> Cells(<<"span", n, i, r[i]>>, D)]
    BY ONLY <1>1, <1>4, BatchOf(n, r, packet, bufs) DEF BatchOf
  <2>2. \A i \in 1 .. l : u[i] = <<"span", n, i, r[i]>>
    BY ONLY <1>2
  <2> QED
    BY ONLY <1>7, <2>1, <2>2
<1>10. PICK c \in Seq(DataCell) : c = FlattenSeq(bufs) /\ c = CellsOf(u, D)
  <2>1. D \in Nat /\ u \in Seq(DataTag)
    BY ONLY <1>7, D \in Nat \ {0}
  <2>2. CellsOf(u, D) \in Seq(DataTag \X Nat)
    BY ONLY <2>1, CellsOfSeq
  <2> QED
    BY ONLY <1>9, <2>2 DEF CellsOf, DataCell
<1>11. bufs \in Seq(Seq(DataCell))
  <2>1. D \in Nat /\ u \in Seq(DataTag)
    BY ONLY <1>7, D \in Nat \ {0}
  <2>2. [i \in 1 .. Len(u) |-> Cells(u[i], D)] \in Seq(Seq(DataTag \X Nat))
    BY ONLY <2>1, CellsOfSeq
  <2> QED
    BY ONLY <1>9, <2>2 DEF DataCell
<1>12. packet = Cells(bt, B) /\ packet \in Seq(DataCell) /\ Len(packet) = B
       /\ \A i \in 1 .. B : packet[i] = <<bt, i>>
  <2>1. packet = Cells(bt, B)
    BY ONLY <1>3, <1>4, BatchOf(n, r, packet, bufs) DEF BatchOf
  <2>2. B \in Nat
    OBVIOUS
  <2>3. /\ Cells(bt, B) \in Seq(DataTag \X Nat) /\ Len(Cells(bt, B)) = B
        /\ \A i \in 1 .. B : Cells(bt, B)[i] = <<bt, i>>
    BY ONLY <1>5, <2>2, CellsType
  <2> QED
    BY ONLY <2>1, <2>3 DEF DataCell
<1>13. Range(packet) = {<<bt, i>> : i \in 1 .. B} /\ IsInjective(packet)
  <2>1. packet \in Seq(DataCell)
    BY ONLY <1>12
  <2>2. /\ Range(packet) = {packet[i] : i \in 1 .. Len(packet)}
        /\ IsInjective(packet) <=> \A i, j \in 1 .. Len(packet) : packet[i] = packet[j] => i = j
    BY ONLY <2>1, InjFacts
  <2>3. \A i, j \in 1 .. B : packet[i] = packet[j] => i = j
    BY ONLY <1>12
  <2>4. {packet[i] : i \in 1 .. B} = {<<bt, i>> : i \in 1 .. B}
    BY ONLY <1>12
  <2>5. Len(packet) = B
    BY ONLY <1>12
  <2> QED
    BY ONLY <2>2, <2>3, <2>4, <2>5
<1>14. Range(c) = Range(u) \X (1 .. D) /\ IsInjective(c)
  <2>1. CellsRight(u, D)
    <3>1. u \in Seq(DataTag)
      BY ONLY <1>7
    <3> QED
      BY ONLY <3>1, D \in Nat \ {0}, CellsOfFacts
  <2> QED
    BY ONLY <1>8, <1>10, <2>1 DEF CellsRight
<1>15. bt[1] = "batch" /\ bt[2] = n /\ "batch" # "span"
  BY ONLY <1>3
<1>16. Range(packet) \cap Range(c) = {}
  <2>1. bt \notin Range(u)
    BY ONLY <1>6, <1>8, <1>15
  <2> QED
    BY ONLY <1>13, <1>14, <2>1
<1>17. PICK add : add = packet \o c
  OBVIOUS
<1>18. add \in Seq(DataCell) /\ Range(add) = Range(packet) \cup Range(c) /\ IsInjective(add)
  <2>1. packet \in Seq(DataCell)
    BY ONLY <1>12
  <2> QED
    BY ONLY <1>13, <1>14, <1>16, <1>17, <2>1, c \in Seq(DataCell), InjConcat
<1>19. add = FlattenSeq(<<packet>> \o bufs)
  <2>1. PICK A : A = Seq(DataCell)
    OBVIOUS
  <2>2. packet \in A
    BY ONLY <1>12, <2>1
  <2>3. <<packet>> \in Seq(A)
    BY ONLY <2>2
  <2>4. <<packet>> \in Seq(Seq(DataCell))
    BY ONLY <2>1, <2>3
  <2>5. FlattenSeq(<<packet>> \o bufs) = FlattenSeq(<<packet>>) \o FlattenSeq(bufs)
    BY ONLY <1>11, <2>4, FlatConcat
  <2>6. FlattenSeq(<<packet>>) = packet
    BY ONLY <1>12, FlatOne
  <2> QED
    BY ONLY <1>10, <1>17, <2>5, <2>6
<1>20. ASSUME NEW x \in Range(add)
       PROVE  /\ x[1][1] \in {"batch", "span"} /\ x[1][2] = n
              /\ x[1][1] = "span" => \E i \in 1 .. Len(r) : x[1][4] = r[i]
  <2>1. CASE x \in Range(packet)
    BY ONLY <1>13, <1>15, <2>1
  <2>2. CASE x \in Range(c)
    <3>1. x[1] \in Range(u)
      BY ONLY <1>14, <2>2
    <3>2. PICK i \in 1 .. l : x[1] = u[i]
      BY ONLY <1>8, <3>1
    <3> QED
      BY ONLY <1>1, <1>6, <3>2
  <2> QED
    BY ONLY <1>18, <2>1, <2>2
<1> QED
  BY ONLY <1>11, <1>12, <1>18, <1>19, <1>20

\* Flush, when it sends a batch.
LEMMA BatchKeeps ==
    ASSUME SvcInv, NEW packet, NEW bufs, BatchOf(mu_batch_index, lo_ready, packet, bufs),
           WriteData(packet, bufs), wpc = "recycle", wpc' = IF lb_stop THEN "ended" ELSE "wait",
           mu_batch_index' = mu_batch_index + 1, lo_ready' = <<>>,
           UNCHANGED <<poolVars, regVars, trcVars, mo_svc_buffers, mu_dropped_svc, ready, stop, lb_stop>>
    PROVE  SvcInv'
<1>1. PICK n \in Nat : n = mu_batch_index
  BY ONLY SvcInv DEF SvcInv, SvcTypes
<1>2. PICK r \in Seq(Sites) : r = lo_ready
  BY ONLY SvcInv DEF SvcInv, SvcTypes
<1>3. /\ packet \in Seq(DataCell) /\ bufs \in Seq(Seq(DataCell))
      /\ \E add \in Seq(DataCell) :
            /\ add = FlattenSeq(<<packet>> \o bufs) /\ IsInjective(add)
            /\ \A x \in Range(add) :
                  /\ x[1][1] \in {"batch", "span"} /\ x[1][2] = n
                  /\ x[1][1] = "span" => \E i \in 1 .. Len(r) : x[1][4] = r[i]
  <2>1. BatchOf(n, r, packet, bufs)
    BY ONLY <1>1, <1>2, BatchOf(mu_batch_index, lo_ready, packet, bufs)
  <2> QED
    BY ONLY <2>1, n \in Nat, r \in Seq(Sites), BatchGives
<1>4. PICK add \in Seq(DataCell) :
         /\ add = FlattenSeq(<<packet>> \o bufs) /\ IsInjective(add)
         /\ \A x \in Range(add) :
               /\ x[1][1] \in {"batch", "span"} /\ x[1][2] = n
               /\ x[1][1] = "span" => \E i \in 1 .. Len(r) : x[1][4] = r[i]
  BY ONLY <1>3
<1>5. SinkInv'
  <2>1. SinkInv
    BY ONLY SvcInv DEF SvcInv
  <2> QED
    BY ONLY <1>3, <2>1, WriteData(packet, bufs), WriteDataKeeps
<1>6. PICK g \in Seq(DataCell) : g = given_data
  BY ONLY SvcInv DEF SvcInv, SinkInv, SinkTypes
<1>7. given_data' = g \o add /\ given_svc' = given_svc
  BY ONLY <1>4, <1>6, WriteData(packet, bufs) DEF WriteData
<1>8. /\ wpc' \in {"wait", "ended"} /\ (wpc' = "ended" => lb_stop)
      /\ UNCHANGED <<given_svc, mo_attr_descs, mo_log_mods, mo_trc_descs, mo_sent, mo_trc_desc_mutex,
                     pc, todo, mo_svc_buffers, mu_dropped_svc, ready, stop, lb_stop>>
  BY <1>7 DEF regVars, trcVars
<1>9. GivenInv' /\ StreamInv' /\ RegInv' /\ DropInv' /\ GivenSvc' = GivenSvc
  BY ONLY SvcInv, <1>8, AnnouncedSame DEF SvcInv
<1>10. PendInv' /\ PhaseInv'
  <2>1. PendInv'
    BY ONLY SvcInv, <1>8 DEF SvcInv, PendInv
  <2>2. PhaseInv'
    BY ONLY SvcInv, <1>8, wpc = "recycle" DEF SvcInv, PhaseInv
  <2> QED
    BY ONLY <2>1, <2>2
<1>11. n + 1 \in Nat /\ mu_batch_index' = n + 1
  BY ONLY <1>1, mu_batch_index' = mu_batch_index + 1
<1>12. SvcTypes'
  <2>1. lo_ready' \in Seq(Sites)
    BY ONLY lo_ready' = <<>>
  <2>2. wpc' \in {"unborn", "wait", "service", "recycle", "ended"}
    BY ONLY <1>8
  <2>3. BufsOK(mo_svc_buffers')
    BY ONLY SvcInv, <1>8 DEF SvcInv, SvcTypes
  <2>4. SvcTypes
    BY ONLY SvcInv DEF SvcInv
  <2> QED
    BY ONLY <1>8, <1>11, <2>1, <2>2, <2>3, <2>4 DEF SvcTypes
<1>13. PICK d : d = g \o add
  OBVIOUS
<1>14. /\ d \in Seq(DataCell) /\ Range(d) = Range(g) \cup Range(add)
       /\ IsInjective(g) /\ Range(g) \cap Range(add) = {} => IsInjective(d)
  BY ONLY <1>4, <1>13, g \in Seq(DataCell), add \in Seq(DataCell), InjConcat
<1>15. PICK lg \in Nat, ld \in Nat : lg = Len(g) /\ ld = Len(d)
  BY ONLY <1>14, g \in Seq(DataCell)
<1>16. Range(g) = {g[i] : i \in 1 .. lg} /\ Range(d) = {d[i] : i \in 1 .. ld}
  BY ONLY <1>14, <1>15, g \in Seq(DataCell), InjFacts
<1>17. \A x \in Range(g) :
          /\ x[1] # <<"hello">> => x[1][2] < n
          /\ x[1][1] = "span" => TrcEntry(x[1][4]) \in Range(GivenSvc)
  <2>1. \A i \in 1 .. lg : /\ g[i][1] # <<"hello">> => g[i][1][2] < n
                           /\ g[i][1][1] = "span" => TrcEntry(g[i][1][4]) \in Range(GivenSvc)
    BY ONLY SvcInv, <1>1, <1>6, <1>15 DEF SvcInv, TagInv, DataInv
  <2> QED
    BY ONLY <1>16, <2>1
<1>18. IsInjective(g)
  BY ONLY SvcInv, <1>6 DEF SvcInv, TagInv
<1>19. <<"hello">>[1] = "hello"
  OBVIOUS
<1>20. \A x \in Range(add) : x[1] # <<"hello">> /\ x[1][2] = n
  BY ONLY <1>4, <1>19
<1>21. Range(g) \cap Range(add) = {}
  <2>1. ASSUME NEW x \in Range(g), x \in Range(add) PROVE FALSE
    <3>1. x[1][2] < n /\ x[1][2] = n
      BY ONLY <1>17, <1>20, <2>1
    <3> QED
      BY ONLY <3>1, n \in Nat
  <2> QED
    BY ONLY <2>1
<1>22. TagInv'
  <2>1. \A x \in Range(d) : x[1] # <<"hello">> => x[1][2] < n + 1
    <3>1. ASSUME NEW x \in Range(d), x[1] # <<"hello">> PROVE x[1][2] < n + 1
      <4>1. CASE x \in Range(add)
        BY ONLY <1>20, <4>1, n \in Nat
      <4>2. CASE x \in Range(g)
        <5>1. x[1][2] < n
          BY ONLY <1>17, <3>1, <4>2
        <5>2. x[1][2] \in Nat
          <6>1. x \in DataCell
            BY ONLY <4>2, g \in Seq(DataCell), InjFacts
          <6> QED
            BY ONLY <3>1, <6>1 DEF DataCell, DataTag
        <5> QED
          BY ONLY <5>1, <5>2, n \in Nat
      <4> QED
        BY ONLY <1>14, <3>1, <4>1, <4>2
    <3> QED
      BY ONLY <3>1
  <2>2. IsInjective(d)
    BY ONLY <1>14, <1>18, <1>21
  <2>3. \A i \in 1 .. Len(d) : d[i][1] # <<"hello">> => d[i][1][2] < n + 1
    BY ONLY <1>15, <1>16, <2>1
  <2>4. given_data' = d
    BY ONLY <1>7, <1>13
  <2> QED
    BY ONLY <1>11, <2>2, <2>3, <2>4 DEF TagInv
<1>23. DataInv'
  <2>1. \A x \in Range(add) : x[1][1] = "span" => TrcEntry(x[1][4]) \in Range(GivenSvc)
    <3>1. \A i \in 1 .. Len(r) : TrcEntry(r[i]) \in Range(GivenSvc)
      BY ONLY SvcInv, <1>2, wpc = "recycle" DEF SvcInv, DataInv
    <3> QED
      BY ONLY <1>4, <3>1
  <2>2. \A i \in 1 .. Len(d) : d[i][1][1] = "span" => TrcEntry(d[i][1][4]) \in Range(GivenSvc)
    BY ONLY <1>14, <1>15, <1>16, <1>17, <2>1
  <2>3. given_data' = d
    BY ONLY <1>7, <1>13
  <2>4. 1 .. Len(lo_ready') = {}
    BY ONLY lo_ready' = <<>>
  <2>5. \A i \in 1 .. Len(ready') : ready'[i] \in mo_trc_descs'
    BY ONLY SvcInv, <1>8 DEF SvcInv, DataInv
  <2> QED
    BY ONLY <1>9, <2>2, <2>3, <2>4, <2>5 DEF DataInv
<1> QED
  BY ONLY <1>5, <1>9, <1>10, <1>12, <1>22, <1>23 DEF SvcInv

\* Flush, when there is nothing to send.
LEMMA NoBatchKeeps ==
    ASSUME SvcInv, wpc = "recycle", wpc' = IF lb_stop THEN "ended" ELSE "wait", lo_ready' = <<>>,
           UNCHANGED <<sinkVars, mu_batch_index, poolVars, regVars, trcVars, mo_svc_buffers,
                       mu_dropped_svc, ready, stop, lb_stop>>
    PROVE  SvcInv'
<1>1. /\ wpc' \in {"wait", "ended"} /\ (wpc' = "ended" => lb_stop)
      /\ UNCHANGED <<given_svc, given_data, mo_attr_descs, mo_log_mods, mo_trc_descs, mo_sent,
                     mo_trc_desc_mutex, pc, todo, mo_svc_buffers, mu_dropped_svc, ready, stop,
                     lb_stop, mu_batch_index>>
  BY DEF regVars, trcVars, sinkVars, givenVars
<1>2. SinkInv'
  BY ONLY SvcInv, UNCHANGED sinkVars, SinkSame DEF SvcInv
<1>3. GivenInv' /\ StreamInv' /\ RegInv' /\ DropInv' /\ GivenSvc' = GivenSvc
  BY ONLY SvcInv, <1>1, AnnouncedSame DEF SvcInv
<1>4. PendInv'
  BY ONLY SvcInv, <1>1 DEF SvcInv, PendInv
<1>5. PhaseInv'
  BY ONLY SvcInv, <1>1, wpc = "recycle" DEF SvcInv, PhaseInv
<1>6. SvcTypes'
  <2>1. lo_ready' \in Seq(Sites)
    BY ONLY lo_ready' = <<>>
  <2>2. wpc' \in {"unborn", "wait", "service", "recycle", "ended"}
    BY ONLY <1>1
  <2>3. BufsOK(mo_svc_buffers')
    BY ONLY SvcInv, <1>1 DEF SvcInv, SvcTypes
  <2>4. SvcTypes
    BY ONLY SvcInv DEF SvcInv
  <2> QED
    BY ONLY <1>1, <2>1, <2>2, <2>3, <2>4 DEF SvcTypes
<1>7. DataInv' /\ TagInv'
  <2>1. 1 .. Len(lo_ready') = {}
    BY ONLY lo_ready' = <<>>
  <2>2. DataInv'
    BY ONLY SvcInv, <1>1, <1>3, <2>1 DEF SvcInv, DataInv
  <2>3. TagInv'
    BY ONLY SvcInv, <1>1 DEF SvcInv, TagInv
  <2> QED
    BY ONLY <2>2, <2>3
<1> QED
  BY ONLY <1>2, <1>3, <1>4, <1>5, <1>6, <1>7 DEF SvcInv

\* Flush.
LEMMA FlushKeeps ==
    ASSUME SvcInv, Flush
    PROVE  SvcInv'
<1>1. PICK packet, bufs :
         /\ packet = Cells(<<"batch", mu_batch_index>>, BatchCells)
         /\ bufs = [i \in 1 .. Len(lo_ready) |-> Cells(<<"span", mu_batch_index, i, lo_ready[i]>>, DataCells)]
  OBVIOUS
<1>2. BatchOf(mu_batch_index, lo_ready, packet, bufs)
  BY ONLY <1>1 DEF BatchOf
<1>3. CASE WriteData(packet, bufs) /\ mu_batch_index' = mu_batch_index + 1
  <2>1. /\ wpc = "recycle" /\ wpc' = (IF lb_stop THEN "ended" ELSE "wait") /\ lo_ready' = <<>>
        /\ UNCHANGED <<poolVars, regVars, trcVars, mo_svc_buffers, mu_dropped_svc, ready, stop, lb_stop>>
    BY ONLY Flush DEF Flush
  <2> QED
    BY ONLY SvcInv, <1>2, <1>3, <2>1, BatchKeeps
<1>4. CASE UNCHANGED <<sinkVars, mu_batch_index>>
  <2>1. /\ wpc = "recycle" /\ wpc' = (IF lb_stop THEN "ended" ELSE "wait") /\ lo_ready' = <<>>
        /\ UNCHANGED <<poolVars, regVars, trcVars, mo_svc_buffers, mu_dropped_svc, ready, stop, lb_stop>>
    BY ONLY Flush DEF Flush
  <2>2. UNCHANGED <<sinkVars, mu_batch_index, poolVars, regVars, trcVars, mo_svc_buffers,
                    mu_dropped_svc, ready, stop, lb_stop>>
    BY ONLY <1>4, <2>1
  <2> QED
    BY ONLY SvcInv, <2>1, <2>2, NoBatchKeeps
<1> QED
  BY ONLY Flush, <1>1, <1>3, <1>4 DEF Flush

\* register_module, known or not.
LEMMA ModKeeps ==
    ASSUME SvcInv, NEW t \in Threads, NEW m \in ModNames, NEW l \in Levels, register_module(t, m, l)
    PROVE  SvcInv'
<1>1. CASE /\ \A i \in 1 .. Len(mo_log_mods) : mo_log_mods[i].name # m
           /\ mo_log_mods' = Append(mo_log_mods, [name |-> m, verbosity |-> l])
           /\ SvcOrDrop(t, ModEntry(Len(mo_log_mods)))
  <2>1. Open /\ UNCHANGED <<sinkVars, mo_attr_descs, trcVars, ready, stop, workerVars>>
    BY ONLY register_module(t, m, l) DEF register_module
  <2> QED
    BY ONLY SvcInv, m \in ModNames, l \in Levels, <1>1, <2>1, ModNewKeeps
<1>2. ASSUME NEW i \in 1 .. Len(mo_log_mods),
             mo_log_mods' = [mo_log_mods EXCEPT ![i].verbosity = l],
             UNCHANGED <<poolVars, mo_svc_buffers, mu_dropped_svc>>
      PROVE  SvcInv'
  <2>1. Open /\ UNCHANGED <<sinkVars, mo_attr_descs, trcVars, ready, stop, workerVars>>
    BY ONLY register_module(t, m, l) DEF register_module
  <2>2. UNCHANGED <<sinkVars, mo_attr_descs, trcVars, ready, stop, workerVars,
                    mo_svc_buffers, mu_dropped_svc>>
    BY ONLY <1>2, <2>1
  <2> QED
    BY ONLY SvcInv, l \in Levels, i \in 1 .. Len(mo_log_mods), <1>2, <2>1, <2>2, ModAgainKeeps
<1> QED
  BY ONLY register_module(t, m, l), <1>1, <1>2 DEF register_module

\* What the steps that write no entry and register nothing leave alone.
LEMMA QuietSteps ==
    ASSUME SvcInv,
           \/ \E t \in Threads, s \in Sites : Emit(t, s)
           \/ Stop \/ Collect \/ Recycle \/ UNCHANGED vars
    PROVE  SvcInv'
<1>1. ASSUME NEW t \in Threads, NEW s \in Sites, Emit(t, s) PROVE SvcInv'
  <2>1. /\ UNCHANGED <<sinkVars, regVars, trcVars, mo_svc_buffers, mu_dropped_svc, mu_batch_index>>
        /\ s \in mo_trc_descs \cap Sites /\ ready' = Append(ready, s)
        /\ Open /\ UNCHANGED <<stop, lb_stop, wpc, lo_ready>>
    BY ONLY <1>1, s \in Sites DEF Emit, workerVars
  <2>2. \E x \in mo_trc_descs \cap Sites : ready' = Append(ready, x)
    BY ONLY <2>1
  <2> QED
    BY ONLY SvcInv, <2>1, <2>2, QuietKeeps
<1>2. CASE Stop
  <2>1. /\ UNCHANGED <<sinkVars, regVars, trcVars, mo_svc_buffers, mu_dropped_svc, mu_batch_index>>
        /\ stop' = TRUE /\ \A t \in Threads : pc[t] = "idle"
        /\ UNCHANGED <<ready, lb_stop, wpc, lo_ready>>
    BY ONLY <1>2 DEF Stop, workerVars
  <2> QED
    BY ONLY SvcInv, <2>1, QuietKeeps
<1>3. CASE Collect
  <2>1. /\ UNCHANGED <<sinkVars, regVars, trcVars, mo_svc_buffers, mu_dropped_svc, mu_batch_index>>
        /\ wpc' = "service" /\ lb_stop' = stop
        /\ lo_ready' = ready /\ ready' = <<>> /\ UNCHANGED stop
    BY ONLY <1>3 DEF Collect
  <2> QED
    BY ONLY SvcInv, <2>1, QuietKeeps
<1>4. CASE Recycle
  <2>1. /\ UNCHANGED <<sinkVars, regVars, trcVars, mo_svc_buffers, mu_dropped_svc, mu_batch_index>>
        /\ UNCHANGED <<ready, stop, lb_stop, wpc, lo_ready>>
    BY ONLY <1>4 DEF Recycle
  <2> QED
    BY ONLY SvcInv, <2>1, QuietKeeps
<1>5. CASE UNCHANGED vars
  <2>1. /\ UNCHANGED <<sinkVars, regVars, trcVars, mo_svc_buffers, mu_dropped_svc, mu_batch_index>>
        /\ UNCHANGED <<ready, stop, lb_stop, wpc, lo_ready>>
    BY ONLY <1>5 DEF vars, workerVars
  <2> QED
    BY ONLY SvcInv, <2>1, QuietKeeps
<1> QED
  BY ONLY <1>1, <1>2, <1>3, <1>4, <1>5,
          \/ \E t \in Threads, s \in Sites : Emit(t, s)
          \/ Stop \/ Collect \/ Recycle \/ UNCHANGED vars

\* Every step keeps the invariant.
LEMMA NextKeeps ==
    ASSUME SvcInv, [Next]_vars
    PROVE  SvcInv'
<1>1. ASSUME NEW t \in Threads, NEW a \in AttrNames, NEW ty \in AttrTypes, attr_register(t, a, ty)
      PROVE  SvcInv'
  BY ONLY SvcInv, <1>1, t \in Threads, a \in AttrNames, ty \in AttrTypes, AttrKeeps
<1>2. ASSUME NEW t \in Threads, NEW m \in ModNames, NEW l \in Levels, register_module(t, m, l)
      PROVE  SvcInv'
  BY ONLY SvcInv, <1>2, t \in Threads, m \in ModNames, l \in Levels, ModKeeps
<1>3. ASSUME NEW t \in Threads, NEW s \in Sites, Resolve(t, s) PROVE SvcInv'
  BY ONLY SvcInv, <1>3, t \in Threads, s \in Sites, ResolveKeeps
<1>4. ASSUME NEW t \in Threads, NEW s \in Sites, Emit(t, s) PROVE SvcInv'
  BY ONLY SvcInv, <1>4, t \in Threads, s \in Sites, QuietSteps
<1>5. ASSUME NEW t \in Threads, WriteEntries(t) PROVE SvcInv'
  BY ONLY SvcInv, <1>5, t \in Threads, WriteKeeps
<1>6. ASSUME NEW t \in Threads, AcquireSvc(t) PROVE SvcInv'
  BY ONLY SvcInv, <1>6, t \in Threads, AcquireKeeps
<1>7. ASSUME NEW t \in Threads, InstallSvc(t) PROVE SvcInv'
  BY ONLY SvcInv, <1>7, t \in Threads, InstallKeeps
<1>8. CASE StartCore
  BY ONLY SvcInv, <1>8, StartKeeps
<1>9. CASE Collect \/ Recycle \/ Stop \/ UNCHANGED vars
  BY ONLY SvcInv, <1>9, QuietSteps
<1>10. CASE GiveService
  BY ONLY SvcInv, <1>10, GiveServiceKeeps
<1>11. CASE Flush
  BY ONLY SvcInv, <1>11, FlushKeeps
<1> QED
  BY ONLY [Next]_vars, <1>1, <1>2, <1>3, <1>4, <1>5, <1>6, <1>7, <1>8, <1>9, <1>10, <1>11 DEF Next

\* The invariant holds throughout.
THEOREM SvcInvHolds == Spec => []SvcInv
<1>1. Init => SvcInv
  BY InitInv
<1>2. SvcInv /\ [Next]_vars => SvcInv'
  BY NextKeeps
<1> QED
  BY <1>1, <1>2, PTL DEF Spec
-------------------------------------------------------------------------------
\* As many members as elements when nothing comes twice.
LEMMA RangeCount ==
    ASSUME NEW S, NEW s \in Seq(S), IsInjective(s)
    PROVE  Cardinality(Range(s)) = Len(s)
<1>1. Len(s) \in Nat /\ DOMAIN s = 1 .. Len(s)
  BY LenProperties
<1>2. s \in Bijection(1 .. Len(s), Range(s))
  <2>1. s \in [1 .. Len(s) -> Range(s)]
    <3>1. s = [i \in 1 .. Len(s) |-> s[i]]
      BY LenProperties
    <3>2. \A i \in 1 .. Len(s) : s[i] \in Range(s)
      BY <1>1 DEF Range
    <3> QED
      BY <3>1, <3>2
  <2>2. \A i, j \in 1 .. Len(s) : i # j => s[i] # s[j]
    BY <1>1 DEF IsInjective
  <2>3. \A x \in Range(s) : \E i \in 1 .. Len(s) : s[i] = x
    BY <1>1 DEF Range
  <2> QED
    BY <2>1, <2>2, <2>3 DEF Bijection, Injection, Surjection
<1>3. ExistsBijection(1 .. Len(s), Range(s))
  BY <1>2 DEF ExistsBijection
<1> QED
  BY <1>1, <1>3, FS_NatBijection, FS_CountingElements

\* Every byte is in a file or counted (write_entries, drop_batch, cp8_sink_null).
THEOREM SinkAccountsCorrect == Spec => []SinkAccounts
<1>1. SvcInv => SinkAccounts
  BY DEF SvcInv, SinkInv
<1> QED
  BY <1>1, SvcInvHolds, PTL

\* What the core hands over has no cell twice.
LEMMA GivenOnce ==
    ASSUME SvcInv
    PROVE  IsInjective(given_svc) /\ IsInjective(given_data)
<1>1. PICK g \in Seq(Entry), f \in Seq(Entry), all \in Seq(Entry) :
         g = GivenSvc /\ f = FlattenSeq(mo_svc_buffers) /\ all = Stream /\ all = g \o f
  BY ONLY SvcInv, StreamParts DEF SvcInv, Stream
<1>2. IsInjective(all)
  BY ONLY SvcInv, <1>1 DEF SvcInv, StreamInv, Readable
<1>3. PICK lg \in Nat, la \in Nat : lg = Len(g) /\ la = Len(all)
  BY ONLY g \in Seq(Entry), all \in Seq(Entry)
<1>4. lg <= la /\ \A i \in 1 .. lg : all[i] = g[i]
  <2>1. PICK lf \in Nat : lf = Len(f)
    BY ONLY f \in Seq(Entry)
  <2>2. /\ Len(all) = Len(g) + Len(f)
        /\ \A i \in 1 .. Len(g) + Len(f) : all[i] = IF i <= Len(g) THEN g[i] ELSE f[i - Len(g)]
    BY ONLY <1>1, g \in Seq(Entry), f \in Seq(Entry), ConcatAt
  <2>3. la = lg + lf /\ \A i \in 1 .. lg + lf : i <= lg => all[i] = g[i]
    BY ONLY <1>3, <2>1, <2>2
  <2>4. \A i \in 1 .. lg : i \in 1 .. lg + lf /\ i <= lg
    BY ONLY lg \in Nat, lf \in Nat
  <2>5. lg <= lg + lf
    BY ONLY lg \in Nat, lf \in Nat
  <2> QED
    BY ONLY <2>3, <2>4, <2>5
<1>5. IsInjective(g)
  <2>1. \A i, j \in 1 .. la : all[i] = all[j] => i = j
    BY ONLY <1>2, <1>3, all \in Seq(Entry), InjFacts
  <2>2. \A i \in 1 .. lg : i \in 1 .. la
    BY ONLY <1>4, lg \in Nat, la \in Nat
  <2>3. \A i, j \in 1 .. lg : g[i] = g[j] => i = j
    BY ONLY <1>4, <2>1, <2>2
  <2> QED
    BY ONLY <1>3, <2>3, g \in Seq(Entry), InjFacts
<1>6. given_svc = EntrySeqCells(g)
  BY ONLY SvcInv, <1>1 DEF SvcInv, GivenInv
<1>7. IsInjective(EntrySeqCells(g))
  BY ONLY <1>5, g \in Seq(Entry), EntryCellsAre
<1> QED
  BY ONLY SvcInv, <1>6, <1>7 DEF SvcInv, TagInv

\* The files hold what was handed over, with counted holes only (write_entries, grow_iov,
\* drop_batch).
THEOREM FilesFaithfulCorrect == Spec => []FilesFaithful
<1>1. ASSUME SvcInv PROVE FilesFaithful
  <2>1. SinkInv
    BY ONLY SvcInv DEF SvcInv
  <2>2. IsInjective(given_svc) /\ IsInjective(given_data)
    BY ONLY SvcInv, GivenOnce
  <2>3. /\ svc_file \in Seq(SvcCell) /\ given_svc \in Seq(SvcCell)
        /\ data_file \in Seq(DataCell) /\ given_data \in Seq(DataCell)
    BY ONLY <2>1 DEF SinkInv, SinkTypes
  <2>4. SUFFICES ASSUME sink = "file"
                 PROVE  /\ RemainsOf(svc_file, given_svc) /\ RemainsOf(data_file, given_data)
                        /\ mu_write_errors = 0 => svc_file = given_svc /\ data_file = given_data
    BY ONLY <2>4 DEF FilesFaithful
  <2>5. /\ SubOf(svc_file, given_svc) /\ SubOf(data_file, given_data)
        /\ mu_write_errors = 0 => svc_file = given_svc /\ data_file = given_data
    BY ONLY <2>1, <2>4 DEF SinkInv, HolesInv
  <2>6. PICK a, b : a = svc_file /\ b = given_svc
    OBVIOUS
  <2>7. PICK c, d : c = data_file /\ d = given_data
    OBVIOUS
  <2>8. RemainsOf(a, b)
    <3>1. a \in Seq(SvcCell) /\ b \in Seq(SvcCell) /\ IsInjective(b) /\ SubOf(a, b)
      BY ONLY <2>2, <2>3, <2>5, <2>6
    <3> QED
      BY ONLY <3>1, SubOfRemains
  <2>9. RemainsOf(c, d)
    <3>1. c \in Seq(DataCell) /\ d \in Seq(DataCell) /\ IsInjective(d) /\ SubOf(c, d)
      BY ONLY <2>2, <2>3, <2>5, <2>7
    <3> QED
      BY ONLY <3>1, SubOfRemains
  <2> QED
    BY ONLY <2>5, <2>6, <2>7, <2>8, <2>9
<1>2. SvcInv => FilesFaithful
  BY <1>1
<1> QED
  BY <1>2, SvcInvHolds, PTL

\* The descriptor stream can be read front to back (resolve_trc_desc, serialize_str,
\* worker_main).
THEOREM ReadableInOrderCorrect == Spec => []ReadableInOrder
<1>1. ASSUME SvcInv PROVE ReadableInOrder
  <2>1. PICK all \in Seq(Entry) : all = Stream /\ all = GivenSvc \o FlattenSeq(mo_svc_buffers)
    BY ONLY SvcInv, StreamParts DEF SvcInv, Stream
  <2>2. Readable(all, mo_sent, mo_trc_descs)
    BY ONLY SvcInv, <2>1 DEF SvcInv, StreamInv
  <2>3. Cardinality(Range(all)) = Len(all)
    <3>1. IsInjective(all)
      BY ONLY <2>2 DEF Readable
    <3> QED
      BY ONLY <3>1, all \in Seq(Entry), RangeCount
  <2>4. \A i \in 1 .. Len(all) :
           all[i][1] = "trace" => \A k \in 1 .. 3 : Before(StrEntry(all[i][2], k), i, all)
    BY ONLY <2>2 DEF Readable
  <2>5. \A i \in 1 .. Len(given_data) :
           given_data[i][1][1] = "span" => TrcEntry(given_data[i][1][4]) \in Range(GivenSvc)
    BY ONLY SvcInv DEF SvcInv, DataInv
  <2> QED
    BY ONLY <2>1, <2>3, <2>4, <2>5 DEF ReadableInOrder
<1>2. SvcInv => ReadableInOrder
  BY <1>1
<1> QED
  BY <1>2, SvcInvHolds, PTL

\* Announced exactly once or counted as dropped, and nothing is pending at the end
\* (attr_register, register_module, svc_reserve, worker_main).
THEOREM AnnouncedOrCountedCorrect == Spec => []AnnouncedOrCounted
<1>1. ASSUME SvcInv PROVE AnnouncedOrCounted
  <2>1. SUFFICES ASSUME wpc = "ended"
                 PROVE  /\ mo_svc_buffers = <<>> /\ ready = <<>>
                        /\ Cardinality(Wanted \ Range(GivenSvc)) = mu_dropped_svc
                        /\ \A s \in mo_trc_descs : TrcEntry(s) \in Range(GivenSvc)
    BY ONLY <2>1 DEF AnnouncedOrCounted, Wanted
  <2>2. mo_svc_buffers = <<>> /\ ready = <<>>
    BY ONLY SvcInv, <2>1 DEF SvcInv, PhaseInv
  <2>3. PICK g \in Seq(Entry) : g = GivenSvc
    BY ONLY SvcInv, StreamParts DEF SvcInv
  <2>4. Stream = g
    <3>1. Stream = g \o FlattenSeq(<<>>)
      BY ONLY <2>2, <2>3 DEF Stream
    <3>2. g \o <<>> = g
      BY ONLY g \in Seq(Entry), ConcatEmptySeq
    <3> QED
      BY ONLY <3>1, <3>2, FlatEmpty
  <2>5. mu_dropped_svc = Cardinality(Wanted \ Range(g))
    BY ONLY SvcInv, <2>4 DEF SvcInv, DropInv
  <2>6. mo_trc_descs = {s \in Sites : TrcEntry(s) \in Range(g)}
    BY ONLY SvcInv, <2>4 DEF SvcInv, StreamInv, Readable
  <2> QED
    BY ONLY <2>2, <2>3, <2>5, <2>6
<1>2. SvcInv => AnnouncedOrCounted
  BY <1>1
<1> QED
  BY <1>2, SvcInvHolds, PTL
===============================================================================
