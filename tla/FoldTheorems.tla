----------------------------- MODULE FoldTheorems -----------------------------
(*****************************************************************************)
(* What the folds of the community modules compute: FlattenSeq, which joins a *)
(* sequence of sequences, SumFunctionOnSet, which adds the values of a       *)
(* function over a finite set, and FoldLeft, which applies a step to the     *)
(* elements of a sequence in order.  Each is defined by a recursive function *)
(* that CHOOSE picks; the lemmas show that it exists and what it is by       *)
(* induction, with the predicate given as the set of numbers or sets that    *)
(* satisfy it.                                                               *)
(*                                                                           *)
(* The step of a left fold is the constant operator FoldStep: a module that  *)
(* needs the lemmas about its own step takes them with INSTANCE ... WITH     *)
(* FoldStep <- Step, one that needs only the others leaves it open.          *)
(*****************************************************************************)
EXTENDS Integers, Sequences, SequencesExt, SequenceTheorems, FiniteSetTheorems, TLAPS

CONSTANT FoldStep(_, _) \* the step of a left fold

\* Induction over the natural numbers, with the predicate as the set of its numbers.
LEMMA NatSetInduction ==
    ASSUME NEW T, 0 \in T, \A n \in Nat : n \in T => n + 1 \in T
    PROVE  Nat \subseteq T
<1> DEFINE Bad == Nat \ T
<1> SUFFICES ASSUME Bad # {} PROVE FALSE
    OBVIOUS
<1>1. PICK x \in Bad : \A y \in Bad : ~ (<<y, x>> \in OpToRel(<, Nat))
    BY NatLessThanWellFounded, WFMin, Bad \subseteq Nat, Zenon
<1>2. x # 0 /\ x \in Nat
    OBVIOUS
<1>3. x - 1 \in Nat /\ x - 1 < x
    BY <1>2
<1>4. x - 1 \notin Bad
    BY <1>1, <1>2, <1>3 DEF OpToRel
<1> QED BY <1>2, <1>3, <1>4

\* The partial concatenations of the first sequences of seqs.
FlatFrom(f, seqs, n) == f = [i \in 1 .. n |-> IF i = 1 THEN seqs[i] ELSE f[i - 1] \o seqs[i]]

\* A partial concatenation is the one before it with one more sequence behind it.
LEMMA FlatStep ==
    ASSUME NEW f, NEW seqs, NEW n \in Nat, FlatFrom(f, seqs, n)
    PROVE  \A i \in 1 .. n : f[i] = IF i = 1 THEN seqs[i] ELSE f[i - 1] \o seqs[i]
<1> DEFINE Rhs == [i \in 1 .. n |-> IF i = 1 THEN seqs[i] ELSE f[i - 1] \o seqs[i]]
<1>1. f = Rhs
    BY DEF FlatFrom
<1>2. \A i \in 1 .. n : Rhs[i] = IF i = 1 THEN seqs[i] ELSE f[i - 1] \o seqs[i]
    OBVIOUS
<1> HIDE DEF Rhs
<1> QED BY <1>1, <1>2

\* The partial concatenations exist, up to any length.
LEMMA FlatExists ==
    ASSUME NEW seqs, NEW n \in Nat
    PROVE  \E f : FlatFrom(f, seqs, n)
<1> DEFINE T == {m \in Nat : \E f : FlatFrom(f, seqs, m)}
<1>1. 0 \in T
  <2> DEFINE f == [i \in 1 .. 0 |-> 0]
  <2>1. f = [i \in 1 .. 0 |-> IF i = 1 THEN seqs[i] ELSE f[i - 1] \o seqs[i]]
      OBVIOUS
  <2> QED BY <2>1 DEF FlatFrom
<1>2. ASSUME NEW m \in Nat, m \in T PROVE m + 1 \in T
  <2>1. PICK f : FlatFrom(f, seqs, m)
      BY <1>2
  <2>2. PICK g : g = [i \in 1 .. m + 1 |-> IF i = 1 THEN seqs[i] ELSE f[i - 1] \o seqs[i]]
      OBVIOUS
  <2>3. \A i \in 1 .. m : g[i] = f[i]
      BY <2>1, <2>2, FlatStep
  <2>4. \A i \in 1 .. m + 1 : i = 1 \/ g[i - 1] = f[i - 1]
      BY <2>3
  <2>5. g = [i \in 1 .. m + 1 |-> IF i = 1 THEN seqs[i] ELSE g[i - 1] \o seqs[i]]
      BY <2>2, <2>4
  <2>6. FlatFrom(g, seqs, m + 1)
      BY <2>5 DEF FlatFrom
  <2> QED BY <2>6
<1> QED BY <1>1, <1>2, NatSetInduction, Zenon

\* FlattenSeq is the last partial concatenation.
LEMMA FlatRec ==
    ASSUME NEW seqs, NEW n \in Nat, n = Len(seqs), n # 0
    PROVE  \E f : FlatFrom(f, seqs, n) /\ FlattenSeq(seqs) = f[n]
<1>1. \E f : f = [i \in 1 .. n |-> IF i = 1 THEN seqs[i] ELSE f[i - 1] \o seqs[i]]
    BY FlatExists DEF FlatFrom
<1> QED BY <1>1 DEF FlattenSeq, FlatFrom

\* Partial concatenations depend only on the sequences they have reached.
LEMMA FlatPrefix ==
    ASSUME NEW n \in Nat, NEW m \in Nat, NEW s, NEW t, NEW f, NEW g,
           FlatFrom(f, s, n), FlatFrom(g, t, m),
           \A i \in 1 .. n : i <= m /\ s[i] = t[i]
    PROVE  \A i \in 1 .. n : f[i] = g[i]
<1> DEFINE T == {i \in Nat : i \in 1 .. n => f[i] = g[i]}
<1>1. 0 \in T
    OBVIOUS
<1>2. ASSUME NEW k \in Nat, k \in T PROVE k + 1 \in T
  <2> SUFFICES ASSUME k + 1 \in 1 .. n PROVE f[k + 1] = g[k + 1]
      OBVIOUS
  <2>1. \A i \in 1 .. n : f[i] = IF i = 1 THEN s[i] ELSE f[i - 1] \o s[i]
      BY FlatStep
  <2>2. \A i \in 1 .. m : g[i] = IF i = 1 THEN t[i] ELSE g[i - 1] \o t[i]
      BY FlatStep
  <2>3. k + 1 \in 1 .. m /\ s[k + 1] = t[k + 1] /\ (k + 1) - 1 = k
      OBVIOUS
  <2>4. CASE k = 0
      BY <2>1, <2>2, <2>3, <2>4
  <2>5. CASE k # 0
    <3>1. f[k] = g[k] /\ k + 1 # 1
        BY <1>2, <2>5
    <3> QED BY <2>1, <2>2, <2>3, <3>1
  <2> QED BY <2>4, <2>5
<1>3. Nat \subseteq T
    BY <1>1, <1>2, NatSetInduction, Zenon
<1> QED BY <1>3

\* Flattening nothing gives nothing.
LEMMA FlatEmpty == FlattenSeq(<<>>) = <<>>
    BY DEF FlattenSeq

\* A sequence of sequences that is one longer flattens to the same, followed by the last one.
LEMMA FlatLonger ==
    ASSUME NEW n \in Nat, n # 0, NEW m \in Nat, m = n + 1,
           NEW s, NEW t, Len(s) = n, Len(t) = m, \A i \in 1 .. n : s[i] = t[i]
    PROVE  FlattenSeq(t) = FlattenSeq(s) \o t[m]
<1>1. PICK f : FlatFrom(f, s, n) /\ FlattenSeq(s) = f[n]
    BY FlatRec
<1>2. PICK g : FlatFrom(g, t, m) /\ FlattenSeq(t) = g[m]
    BY FlatRec
<1>3. n \in 1 .. n /\ m \in 1 .. m /\ m # 1 /\ m - 1 = n
    OBVIOUS
<1>4. \A i \in 1 .. n : i <= m /\ s[i] = t[i]
    OBVIOUS
<1>5. \A i \in 1 .. n : f[i] = g[i]
  <2>1. FlatFrom(f, s, n) /\ FlatFrom(g, t, m) /\ n \in Nat /\ m \in Nat
      BY <1>1, <1>2
  <2> QED BY ONLY <2>1, <1>4, FlatPrefix
<1>6. \A i \in 1 .. m : g[i] = IF i = 1 THEN t[i] ELSE g[i - 1] \o t[i]
    BY <1>2, FlatStep
<1> QED BY <1>1, <1>2, <1>3, <1>5, <1>6

\* Flattening one sequence gives it back.
LEMMA FlatOne == \A x : FlattenSeq(<<x>>) = x
<1> SUFFICES ASSUME NEW x PROVE FlattenSeq(<<x>>) = x
    OBVIOUS
<1>1. Len(<<x>>) = 1 /\ <<x>>[1] = x
    OBVIOUS
<1>2. PICK s : s = <<x>>
    OBVIOUS
<1>3. PICK f : FlatFrom(f, s, 1) /\ FlattenSeq(s) = f[1]
    BY <1>1, <1>2, FlatRec, 1 \in Nat, 1 # 0
<1>4. f[1] = s[1]
    BY <1>3, FlatStep, 1 \in 1 .. 1
<1> QED BY <1>1, <1>2, <1>3, <1>4

\* Flattening after an append, when there is a sequence already.
LEMMA FlatSnoc ==
    ASSUME NEW A, NEW ss \in Seq(A), ss # <<>>, NEW x \in A
    PROVE  FlattenSeq(Append(ss, x)) = FlattenSeq(ss) \o x
<1>1. PICK n : n = Len(ss)
    OBVIOUS
<1>2. PICK tt : tt = Append(ss, x)
    OBVIOUS
<1>3. PICK m : m = n + 1
    OBVIOUS
<1>4. n \in Nat /\ n # 0 /\ m \in Nat /\ Len(tt) = m /\ tt[m] = x
    BY <1>1, <1>2, <1>3
<1>5. \A i \in 1 .. n : ss[i] = tt[i]
    BY <1>1, <1>2
<1>6. FlattenSeq(tt) = FlattenSeq(ss) \o tt[m]
  <2>1. n \in Nat /\ m \in Nat /\ n # 0 /\ m = n + 1 /\ Len(ss) = n /\ Len(tt) = m /\ \A i \in 1 .. n : ss[i] = tt[i]
      BY <1>1, <1>3, <1>4, <1>5
  <2> QED BY ONLY <2>1, FlatLonger
<1> QED BY <1>2, <1>4, <1>6

\* Flattening after an append.
LEMMA FlatAppend ==
    ASSUME NEW S, NEW ss \in Seq(Seq(S)), NEW x \in Seq(S)
    PROVE  FlattenSeq(Append(ss, x)) = FlattenSeq(ss) \o x
<1>1. CASE ss = <<>>
  <2>1. FlattenSeq(ss) \o x = x
      BY <1>1, FlatEmpty, ConcatEmptySeq
  <2>2. Append(ss, x) = <<x>>
      BY <1>1
  <2> QED BY <2>1, <2>2, FlatOne
<1>2. CASE ss # <<>>
    BY <1>2, FlatSnoc
<1> QED BY <1>1, <1>2

\* Flattening sequences over S gives a sequence over S.
LEMMA FlatType ==
    ASSUME NEW S, NEW ss \in Seq(Seq(S))
    PROVE  FlattenSeq(ss) \in Seq(S)
<1> DEFINE T == {n \in Nat : \A u \in Seq(Seq(S)) : Len(u) = n => FlattenSeq(u) \in Seq(S)}
<1>1. 0 \in T
  <2>1. \A u \in Seq(Seq(S)) : Len(u) = 0 => u = <<>>
      OBVIOUS
  <2>2. <<>> \in Seq(S)
      OBVIOUS
  <2> QED BY <2>1, <2>2, FlatEmpty
<1>2. ASSUME NEW n \in Nat, n \in T PROVE n + 1 \in T
  <2> SUFFICES ASSUME NEW u \in Seq(Seq(S)), Len(u) = n + 1
               PROVE  FlattenSeq(u) \in Seq(S)
      OBVIOUS
  <2>1. PICK v \in Seq(Seq(S)), x \in Seq(S) : u = Append(v, x)
    <3>1. u # <<>>
        OBVIOUS
    <3> QED BY <3>1, SequenceEmptyOrAppend
  <2>2. FlattenSeq(v) \in Seq(S)
      BY <1>2, <2>1
  <2>3. FlattenSeq(u) = FlattenSeq(v) \o x
      BY <2>1, FlatAppend
  <2> QED BY <2>2, <2>3, ConcatProperties
<1>3. Nat \subseteq T
    BY <1>1, <1>2, NatSetInduction, Zenon
<1>4. Len(ss) \in Nat
    OBVIOUS
<1> QED BY <1>3, <1>4

\* Concatenation is associative.
LEMMA ConcatAssoc == \A S : \A s, t, u \in Seq(S) : (s \o t) \o u = s \o (t \o u)
    BY ConcatAssociative

\* The equation as a name, for the provers to match.
Associative(s, t, u) == (s \o t) \o u = s \o (t \o u)

\* Associativity in these terms.
LEMMA Associativity == \A S : \A s, t, u \in Seq(S) : Associative(s, t, u)
    BY ConcatAssoc DEF Associative

\* Flattening distributes over concatenation.
LEMMA FlatConcat ==
    ASSUME NEW S, NEW s \in Seq(Seq(S)), NEW t \in Seq(Seq(S))
    PROVE  FlattenSeq(s \o t) = FlattenSeq(s) \o FlattenSeq(t)
<1> DEFINE T == {n \in Nat : \A u \in Seq(Seq(S)) : Len(u) = n =>
                     FlattenSeq(s \o u) = FlattenSeq(s) \o FlattenSeq(u)}
<1>1. 0 \in T
  <2> SUFFICES ASSUME NEW u \in Seq(Seq(S)), Len(u) = 0
               PROVE  FlattenSeq(s \o u) = FlattenSeq(s) \o FlattenSeq(u)
      OBVIOUS
  <2>1. u = <<>>
      OBVIOUS
  <2>2. s \o <<>> = s /\ FlattenSeq(s) \o <<>> = FlattenSeq(s)
      BY ConcatEmptySeq, FlatType
  <2> QED BY <2>1, <2>2, FlatEmpty
<1>2. ASSUME NEW n \in Nat, n \in T PROVE n + 1 \in T
  <2> SUFFICES ASSUME NEW u \in Seq(Seq(S)), Len(u) = n + 1
               PROVE  FlattenSeq(s \o u) = FlattenSeq(s) \o FlattenSeq(u)
      OBVIOUS
  <2>1. PICK v \in Seq(Seq(S)), x \in Seq(S) : u = Append(v, x)
    <3>1. u # <<>>
        OBVIOUS
    <3> QED BY <3>1, SequenceEmptyOrAppend
  <2>2. Len(v) = n
      BY <2>1
  <2>3. s \o u = Append(s \o v, x)
    <3>1. u = v \o <<x>>
        BY <2>1, AppendIsConcat
    <3>2. <<x>> \in Seq(Seq(S)) /\ s \o v \in Seq(Seq(S))
        BY ConcatProperties
    <3>3. s \o (v \o <<x>>) = (s \o v) \o <<x>>
      <4>1. PICK A : A = Seq(S)
          OBVIOUS
      <4>2. s \in Seq(A) /\ v \in Seq(A) /\ <<x>> \in Seq(A)
          BY <2>1, <3>2, <4>1
      <4>3. Associative(s, v, <<x>>)
          BY ONLY <4>2, Associativity, Zenon
      <4> QED BY ONLY <4>3 DEF Associative
    <3>4. (s \o v) \o <<x>> = Append(s \o v, x)
        BY <3>2, AppendIsConcat
    <3> QED BY <3>1, <3>3, <3>4
  <2>4. FlattenSeq(Append(s \o v, x)) = FlattenSeq(s \o v) \o x
    <3>1. s \o v \in Seq(Seq(S))
        BY ConcatProperties
    <3> QED BY ONLY <2>1, <3>1, FlatAppend
  <2>5. FlattenSeq(s \o v) = FlattenSeq(s) \o FlattenSeq(v)
      BY <1>2, <2>2
  <2>6. (FlattenSeq(s) \o FlattenSeq(v)) \o x = FlattenSeq(s) \o (FlattenSeq(v) \o x)
    <3>1. FlattenSeq(s) \in Seq(S) /\ FlattenSeq(v) \in Seq(S) /\ x \in Seq(S)
        BY FlatType
    <3>2. Associative(FlattenSeq(s), FlattenSeq(v), x)
        BY ONLY <3>1, Associativity, Zenon
    <3> QED BY ONLY <3>2 DEF Associative
  <2>7. FlattenSeq(u) = FlattenSeq(v) \o x
      BY <2>1, FlatAppend
  <2> QED BY <2>3, <2>4, <2>5, <2>6, <2>7
<1>3. Nat \subseteq T
    BY <1>1, <1>2, NatSetInduction, Zenon
<1>4. Len(t) \in Nat
    OBVIOUS
<1> QED BY <1>3, <1>4
\* A flattened sequence holds what its parts hold.
LEMMA FlatRange ==
    ASSUME NEW S, NEW ss \in Seq(Seq(S))
    PROVE  Range(FlattenSeq(ss)) = UNION {Range(ss[i]) : i \in 1 .. Len(ss)}
<1> DEFINE T == {n \in Nat : \A u \in Seq(Seq(S)) : Len(u) = n =>
                     Range(FlattenSeq(u)) = UNION {Range(u[i]) : i \in 1 .. Len(u)}}
<1>1. 0 \in T
  <2>1. \A u \in Seq(Seq(S)) : Len(u) = 0 => u = <<>>
      OBVIOUS
  <2>2. Range(<<>>) = {}
      BY DEF Range
  <2> QED BY <2>1, <2>2, FlatEmpty
<1>2. ASSUME NEW n \in Nat, n \in T PROVE n + 1 \in T
  <2> SUFFICES ASSUME NEW u \in Seq(Seq(S)), Len(u) = n + 1
               PROVE  Range(FlattenSeq(u)) = UNION {Range(u[i]) : i \in 1 .. Len(u)}
      OBVIOUS
  <2>1. PICK v \in Seq(Seq(S)), x \in Seq(S) : u = Append(v, x)
    <3>1. u # <<>>
        OBVIOUS
    <3> QED BY <3>1, SequenceEmptyOrAppend
  <2>2. Range(FlattenSeq(v)) = UNION {Range(v[i]) : i \in 1 .. Len(v)}
      BY <1>2, <2>1
  <2>3. FlattenSeq(u) = FlattenSeq(v) \o x
      BY <2>1, FlatAppend
  <2>4. FlattenSeq(v) \in Seq(S)
      BY FlatType
  <2>5. Range(FlattenSeq(u)) = Range(FlattenSeq(v)) \cup Range(x)
      BY <2>3, <2>4, RangeConcatenation
  <2>6. /\ \A i \in 1 .. Len(v) : u[i] = v[i] /\ i \in 1 .. Len(u)
        /\ u[n + 1] = x /\ n + 1 \in 1 .. Len(u)
        /\ \A i \in 1 .. Len(u) : i \in 1 .. Len(v) \/ i = n + 1
      BY <2>1
  <2>7. UNION {Range(u[i]) : i \in 1 .. Len(u)} = (UNION {Range(v[i]) : i \in 1 .. Len(v)}) \cup Range(x)
      BY <2>6
  <2> QED BY <2>2, <2>5, <2>7
<1>3. Nat \subseteq T
    BY <1>1, <1>2, NatSetInduction, Zenon
<1>4. Len(ss) \in Nat
    OBVIOUS
<1> QED BY <1>3, <1>4
\* What a concatenation is, place by place.
LEMMA ConcatAt ==
    ASSUME NEW S, NEW a \in Seq(S), NEW b \in Seq(S)
    PROVE  /\ a \o b \in Seq(S) /\ Len(a \o b) = Len(a) + Len(b)
           /\ \A i \in 1 .. Len(a) + Len(b) : (a \o b)[i] = IF i <= Len(a) THEN a[i] ELSE b[i - Len(a)]
  BY ConcatProperties

\* An element appended to the right part is appended to the whole.
LEMMA ConcatSnoc ==
    ASSUME NEW S, NEW s \in Seq(S), NEW t \in Seq(S), NEW x \in S
    PROVE  s \o Append(t, x) = Append(s \o t, x)
<1>1. PICK u : u = s \o Append(t, x)
  OBVIOUS
<1>2. PICK v : v = Append(s \o t, x)
  OBVIOUS
<1>3. PICK st : st = s \o t
  OBVIOUS
<1>4. /\ Append(t, x) \in Seq(S) /\ Len(Append(t, x)) = Len(t) + 1 /\ Append(t, x)[Len(t) + 1] = x
      /\ \A i \in 1 .. Len(t) : Append(t, x)[i] = t[i]
  OBVIOUS
<1>5. PICK tx : tx = Append(t, x)
  OBVIOUS
<1>6. /\ tx \in Seq(S) /\ Len(tx) = Len(t) + 1 /\ tx[Len(t) + 1] = x
      /\ \A i \in 1 .. Len(t) : tx[i] = t[i]
  BY ONLY <1>4, <1>5
<1>7. /\ st \in Seq(S) /\ Len(st) = Len(s) + Len(t)
      /\ \A i \in 1 .. Len(s) + Len(t) : st[i] = IF i <= Len(s) THEN s[i] ELSE t[i - Len(s)]
  BY <1>3, ConcatAt
<1>8. /\ u \in Seq(S) /\ Len(u) = Len(s) + Len(tx)
      /\ \A i \in 1 .. Len(s) + Len(tx) : u[i] = IF i <= Len(s) THEN s[i] ELSE tx[i - Len(s)]
  BY <1>1, <1>5, <1>6, ConcatAt
<1>9. /\ v \in Seq(S) /\ Len(v) = Len(st) + 1 /\ v[Len(st) + 1] = x
      /\ \A i \in 1 .. Len(st) : v[i] = st[i]
  BY <1>2, <1>3, <1>7
<1>10. Len(s) \in Nat /\ Len(t) \in Nat
  OBVIOUS
<1>11. Len(u) = Len(v)
  BY ONLY <1>6, <1>7, <1>8, <1>9, <1>10
<1>12. ASSUME NEW i \in 1 .. Len(u) PROVE u[i] = v[i]
  <2>1. CASE i = Len(s) + Len(t) + 1
    <3>1. /\ i \in 1 .. Len(s) + Len(tx) /\ ~(i <= Len(s)) /\ i - Len(s) = Len(t) + 1 /\ i = Len(st) + 1
      BY ONLY <1>6, <1>7, <1>10, <2>1
    <3>2. u[i] = tx[i - Len(s)]
      BY ONLY <1>8, <3>1
    <3> QED BY ONLY <1>6, <1>9, <3>1, <3>2
  <2>2. CASE i <= Len(s)
    <3>1. i \in 1 .. Len(s) + Len(tx) /\ i \in 1 .. Len(st) /\ i \in 1 .. Len(s) + Len(t)
      BY ONLY <1>6, <1>7, <1>8, <1>10, <2>2, i \in 1 .. Len(u)
    <3>2. u[i] = s[i]
      BY ONLY <1>8, <2>2, <3>1
    <3>3. st[i] = s[i]
      BY ONLY <1>7, <2>2, <3>1
    <3>4. v[i] = st[i]
      BY ONLY <1>9, <3>1
    <3> QED BY ONLY <3>2, <3>3, <3>4
  <2>3. CASE i > Len(s) /\ i <= Len(s) + Len(t)
    <3>1. /\ i \in 1 .. Len(s) + Len(tx) /\ ~(i <= Len(s)) /\ i - Len(s) \in 1 .. Len(t)
          /\ i \in 1 .. Len(st) /\ i \in 1 .. Len(s) + Len(t)
      BY ONLY <1>6, <1>7, <1>10, <2>3, i \in 1 .. Len(u)
    <3>2. u[i] = tx[i - Len(s)]
      BY ONLY <1>8, <3>1
    <3>3. st[i] = t[i - Len(s)]
      BY ONLY <1>7, <3>1
    <3> QED BY ONLY <1>6, <1>9, <3>1, <3>2, <3>3
  <2> QED BY ONLY <1>6, <1>8, <1>10, <2>1, <2>2, <2>3, i \in 1 .. Len(u)
<1>13. u = v
  BY ONLY <1>8, <1>9, <1>11, <1>12, SeqEqual
<1> QED BY ONLY <1>1, <1>2, <1>13

\* Front and Last undo Append.
LEMMA FrontOfAppend ==
    ASSUME NEW S, NEW u \in Seq(S), NEW x \in S
    PROVE  Front(Append(u, x)) = u /\ Last(Append(u, x)) = x
<1>1. PICK t : t = Append(u, x)
    OBVIOUS
<1>2. /\ t \in Seq(S) /\ Len(t) = Len(u) + 1 /\ Len(u) \in Nat /\ t[Len(u) + 1] = x
      /\ \A i \in 1 .. Len(u) : t[i] = u[i]
    BY <1>1
<1>3. Last(t) = x
    BY <1>2 DEF Last
<1>4. Front(t) = SubSeq(t, 1, Len(u))
    BY <1>2 DEF Front
<1>5. PICK f : f = SubSeq(t, 1, Len(u))
    OBVIOUS
<1>6. f \in Seq(S) /\ Len(f) = Len(u) /\ \A i \in 1 .. Len(u) : f[i] = t[i]
    BY <1>2, <1>5, SubSeqProperties
<1>7. f = u
    BY <1>2, <1>6, SeqEqual
<1> QED BY <1>1, <1>3, <1>4, <1>5, <1>7

\* Appending to the last of the sequences appends to their concatenation.
LEMMA FlatGrow ==
    ASSUME NEW S, NEW ss \in Seq(Seq(S)), ss # <<>>, NEW d \in S
    PROVE  /\ Append(Front(ss), Append(Last(ss), d)) \in Seq(Seq(S))
           /\ FlattenSeq(Append(Front(ss), Append(Last(ss), d))) = Append(FlattenSeq(ss), d)
<1>1. PICK A : A = Seq(S)
    OBVIOUS
<1>2. PICK u \in Seq(A), x \in A : ss = Append(u, x)
  <2>1. ss \in Seq(A)
      BY <1>1
  <2> QED BY <2>1, SequenceEmptyOrAppend
<1>3. Front(ss) = u /\ Last(ss) = x
    BY <1>2, FrontOfAppend
<1>4. u \in Seq(Seq(S)) /\ x \in Seq(S)
    BY <1>1
<1>5. Append(x, d) \in Seq(S)
    BY <1>4
<1>6. PICK y \in Seq(S) : y = Append(x, d)
    BY ONLY <1>5
<1>7. FlattenSeq(Append(u, x)) = FlattenSeq(u) \o x /\ FlattenSeq(Append(u, y)) = FlattenSeq(u) \o y
    BY <1>4, FlatAppend
<1>8. PICK f : f = FlattenSeq(u)
    OBVIOUS
<1>9. f \in Seq(S)
    BY <1>4, <1>8, FlatType
<1>10. f \o Append(x, d) = Append(f \o x, d)
    BY <1>4, <1>9, ConcatSnoc
<1>11. Append(u, y) \in Seq(Seq(S))
  <2>1. y \in A
      BY <1>1
  <2>2. Append(u, y) \in Seq(A)
      BY <2>1
  <2> QED BY <1>1, <2>2
<1>12. FlattenSeq(Append(u, y)) = Append(FlattenSeq(ss), d)
    BY ONLY <1>2, <1>6, <1>7, <1>8, <1>10
<1> QED BY ONLY <1>3, <1>6, <1>11, <1>12

\* Opening a new sequence with one element appends it to the concatenation.
LEMMA FlatNew ==
    ASSUME NEW S, NEW ss \in Seq(Seq(S)), NEW d \in S
    PROVE  /\ Append(ss, <<d>>) \in Seq(Seq(S))
           /\ FlattenSeq(Append(ss, <<d>>)) = Append(FlattenSeq(ss), d)
<1>1. PICK y : y = <<d>>
    OBVIOUS
<1>2. y \in Seq(S)
    BY <1>1
<1>3. FlattenSeq(Append(ss, y)) = FlattenSeq(ss) \o y
    BY <1>2, FlatAppend
<1>4. PICK f : f = FlattenSeq(ss)
    OBVIOUS
<1>5. f \in Seq(S)
    BY <1>4, FlatType
<1>6. f \o <<d>> = Append(f, d)
    BY <1>5
<1>7. Append(ss, y) \in Seq(Seq(S))
  <2>1. PICK A : A = Seq(S)
      OBVIOUS
  <2>2. ss \in Seq(A) /\ y \in A
      BY <1>2, <2>1
  <2>3. Append(ss, y) \in Seq(A)
      BY <2>2
  <2> QED BY <2>1, <2>3
<1> QED BY ONLY <1>1, <1>3, <1>4, <1>6, <1>7

-------------------------------------------------------------------------------
\* The element MapThenFoldSet takes out of a set first.
Chosen(s) == CHOOSE x \in s : TRUE

SumFrom(g, f, D) == g = [s \in D |-> IF s = {} THEN 0 ELSE f[Chosen(s)] + g[s \ {Chosen(s)}]]
SumOn(g, f, S) == SumFrom(g, f, SUBSET S)
UpTo(S, n) == {s \in SUBSET S : Cardinality(s) <= n}

\* A partial sum is one value and the sum of the rest.
LEMMA SumStep ==
    ASSUME NEW g, NEW f, NEW D, SumFrom(g, f, D)
    PROVE  \A s \in D : g[s] = IF s = {} THEN 0 ELSE f[Chosen(s)] + g[s \ {Chosen(s)}]
<1> DEFINE Rhs == [s \in D |-> IF s = {} THEN 0 ELSE f[Chosen(s)] + g[s \ {Chosen(s)}]]
<1>1. g = Rhs
    BY DEF SumFrom
<1>2. \A s \in D : Rhs[s] = IF s = {} THEN 0 ELSE f[Chosen(s)] + g[s \ {Chosen(s)}]
    OBVIOUS
<1> HIDE DEF Rhs
<1> QED BY <1>1, <1>2

\* The element the fold takes out of a set is one of the set.
LEMMA ChosenIn == \A s : s # {} => Chosen(s) \in s
    BY DEF Chosen

\* Taking one element out of a set of up to n + 1 leaves a set of up to n.
LEMMA UpToNext ==
    ASSUME NEW S, IsFiniteSet(S), NEW n \in Nat
    PROVE  /\ UpTo(S, n) \subseteq UpTo(S, n + 1)
           /\ \A s \in UpTo(S, n + 1) : s = {} \/ s \ {Chosen(s)} \in UpTo(S, n)
           /\ \A s \in UpTo(S, n) : s = {} \/ s \ {Chosen(s)} \in UpTo(S, n)
<1>1. \A s \in SUBSET S : Cardinality(s) \in Nat /\ IsFiniteSet(s)
    BY FS_Subset, FS_CardinalityType
<1>2. \A s \in SUBSET S : s # {} => Cardinality(s \ {Chosen(s)}) = Cardinality(s) - 1
    BY <1>1, ChosenIn, FS_RemoveElement
<1> QED BY <1>1, <1>2 DEF UpTo

\* The partial sums exist for every subset of a finite set.
LEMMA SumExists ==
    ASSUME NEW f, NEW S, IsFiniteSet(S)
    PROVE  \E g : SumFrom(g, f, SUBSET S)
<1> DEFINE T == {n \in Nat : \E g : SumFrom(g, f, UpTo(S, n))}
<1>1. 0 \in T
  <2>1. PICK g : g = [s \in UpTo(S, 0) |-> 0]
      OBVIOUS
  <2>2. \A s \in UpTo(S, 0) : s = {}
      BY FS_Subset, FS_CardinalityType, FS_EmptySet DEF UpTo
  <2>3. g = [s \in UpTo(S, 0) |-> IF s = {} THEN 0 ELSE f[Chosen(s)] + g[s \ {Chosen(s)}]]
      BY <2>1, <2>2
  <2>4. SumFrom(g, f, UpTo(S, 0))
      BY <2>3 DEF SumFrom
  <2> QED BY <2>4
<1>2. ASSUME NEW n \in Nat, n \in T PROVE n + 1 \in T
  <2>1. PICK h : SumFrom(h, f, UpTo(S, n))
      BY <1>2
  <2>2. PICK g : g = [s \in UpTo(S, n + 1) |-> IF s = {} THEN 0 ELSE f[Chosen(s)] + h[s \ {Chosen(s)}]]
      OBVIOUS
  <2>3. \A s \in UpTo(S, n) : g[s] = h[s]
      BY <2>1, <2>2, SumStep, UpToNext
  <2>4. \A s \in UpTo(S, n + 1) : s = {} \/ g[s \ {Chosen(s)}] = h[s \ {Chosen(s)}]
      BY <2>3, UpToNext
  <2>5. g = [s \in UpTo(S, n + 1) |-> IF s = {} THEN 0 ELSE f[Chosen(s)] + g[s \ {Chosen(s)}]]
      BY <2>2, <2>4
  <2>6. SumFrom(g, f, UpTo(S, n + 1))
      BY <2>5 DEF SumFrom
  <2> QED BY <2>6
<1>3. Nat \subseteq T
    BY <1>1, <1>2, NatSetInduction, Zenon
<1>4. Cardinality(S) \in Nat /\ UpTo(S, Cardinality(S)) = SUBSET S
    BY FS_Subset, FS_CardinalityType DEF UpTo
<1>5. Cardinality(S) \in T
    BY <1>3, <1>4
<1> QED BY <1>4, <1>5

\* SumFunctionOnSet is the partial sum of the whole set.
LEMMA SumRec ==
    ASSUME NEW f, NEW S, IsFiniteSet(S)
    PROVE  \E g : SumOn(g, f, S) /\ SumFunctionOnSet(f, S) = g[S]
<1>1. \E g : SumFrom(g, f, SUBSET S)
    BY SumExists
<1>2. \E g : g = [s \in SUBSET S |-> IF s = {} THEN 0 ELSE f[Chosen(s)] + g[s \ {Chosen(s)}]]
    BY <1>1 DEF SumFrom
<1>3. \E g : g = [s \in SUBSET S |-> IF s = {} THEN 0 ELSE f[CHOOSE x \in s : TRUE] + g[s \ {CHOOSE x \in s : TRUE}]]
    BY <1>2 DEF Chosen
<1> QED BY <1>3 DEF SumFunctionOnSet, FoldFunctionOnSet, MapThenFoldSet, SumOn, SumFrom, Chosen

\* Partial sums depend only on the values at the elements they cover.
LEMMA SumAgree ==
    ASSUME NEW S, IsFiniteSet(S), NEW R, R \subseteq S, NEW f, NEW e, NEW g, NEW h,
           SumOn(g, f, S), SumOn(h, e, R), \A x \in R : f[x] = e[x]
    PROVE  g[R] = h[R]
<1> DEFINE T == {n \in Nat : \A s \in UpTo(R, n) : g[s] = h[s]}
<1>1. \A s \in SUBSET S : g[s] = IF s = {} THEN 0 ELSE f[Chosen(s)] + g[s \ {Chosen(s)}]
    BY SumStep DEF SumOn
<1>2. \A s \in SUBSET R : h[s] = IF s = {} THEN 0 ELSE e[Chosen(s)] + h[s \ {Chosen(s)}]
    BY SumStep DEF SumOn
<1>3. IsFiniteSet(R)
    BY FS_Subset
<1>4. 0 \in T
  <2>1. \A s \in UpTo(R, 0) : s = {} /\ s \in SUBSET R
      BY <1>3, FS_Subset, FS_CardinalityType, FS_EmptySet DEF UpTo
  <2>2. \A s \in UpTo(R, 0) : g[s] = h[s]
      BY <1>1, <1>2, <2>1
  <2> QED BY <2>2
<1>5. ASSUME NEW n \in Nat, n \in T PROVE n + 1 \in T
  <2> SUFFICES ASSUME NEW s \in UpTo(R, n + 1) PROVE g[s] = h[s]
      OBVIOUS
  <2>1. s \in SUBSET R /\ s \in SUBSET S
      BY DEF UpTo
  <2>2. CASE s = {}
      BY <1>1, <1>2, <2>1, <2>2
  <2>3. CASE s # {}
    <3>1. Chosen(s) \in s /\ s \ {Chosen(s)} \in UpTo(R, n)
        BY <1>3, <2>3, ChosenIn, UpToNext
    <3>2. f[Chosen(s)] = e[Chosen(s)] /\ g[s \ {Chosen(s)}] = h[s \ {Chosen(s)}]
        BY <1>5, <2>1, <3>1
    <3> QED BY <1>1, <1>2, <2>1, <2>3, <3>2
  <2> QED BY <2>2, <2>3
<1>6. Nat \subseteq T
    BY <1>4, <1>5, NatSetInduction, Zenon
<1>7. \A s \in SUBSET R : s \in UpTo(R, Cardinality(R))
    BY <1>3, FS_Subset, FS_CardinalityType DEF UpTo
<1>8. Cardinality(R) \in Nat
    BY <1>3, FS_CardinalityType
<1>9. \A s \in SUBSET R : g[s] = h[s]
    BY <1>6, <1>7, <1>8
<1> QED BY <1>9

\* Functions that agree on a finite set have the same sum there.
LEMMA SumSame ==
    ASSUME NEW S, IsFiniteSet(S), NEW f, NEW e, \A x \in S : f[x] = e[x]
    PROVE  SumFunctionOnSet(f, S) = SumFunctionOnSet(e, S)
<1>1. PICK g : SumOn(g, f, S) /\ SumFunctionOnSet(f, S) = g[S]
    BY SumRec
<1>2. PICK h : SumOn(h, e, S) /\ SumFunctionOnSet(e, S) = h[S]
    BY SumRec
<1>3. g[S] = h[S]
    BY <1>1, <1>2, SumAgree
<1> QED BY <1>1, <1>2, <1>3

\* The sum over nothing is zero.
LEMMA SumEmpty == \A f : SumFunctionOnSet(f, {}) = 0
<1> SUFFICES ASSUME NEW f PROVE SumFunctionOnSet(f, {}) = 0
    OBVIOUS
<1>1. PICK g : SumOn(g, f, {}) /\ SumFunctionOnSet(f, {}) = g[{}]
    BY FS_EmptySet, SumRec
<1>2. \A s \in SUBSET {} : g[s] = IF s = {} THEN 0 ELSE f[Chosen(s)] + g[s \ {Chosen(s)}]
    BY <1>1, SumStep DEF SumOn
<1> QED BY <1>1, <1>2

\* A sum is the value at the element taken out and the sum of the rest.
LEMMA SumFirst ==
    ASSUME NEW S, IsFiniteSet(S), S # {}, NEW f
    PROVE  SumFunctionOnSet(f, S) = f[Chosen(S)] + SumFunctionOnSet(f, S \ {Chosen(S)})
<1>1. PICK R : R = S \ {Chosen(S)}
    OBVIOUS
<1>2. R \in SUBSET S /\ IsFiniteSet(R) /\ S \in SUBSET S
    BY <1>1, FS_Subset
<1>3. PICK g : SumOn(g, f, S) /\ SumFunctionOnSet(f, S) = g[S]
    BY SumRec
<1>4. PICK h : SumOn(h, f, R) /\ SumFunctionOnSet(f, R) = h[R]
    BY <1>2, SumRec
<1>5. g[R] = h[R]
    BY <1>2, <1>3, <1>4, SumAgree
<1>6. \A s \in SUBSET S : g[s] = IF s = {} THEN 0 ELSE f[Chosen(s)] + g[s \ {Chosen(s)}]
    BY <1>3, SumStep DEF SumOn
<1>7. g[S] = f[Chosen(S)] + g[R]
    BY <1>1, <1>2, <1>6
<1> QED BY <1>1, <1>3, <1>4, <1>5, <1>7

\* Sums of integers.
LEMMA SumRemoveUpTo ==
    ASSUME NEW S, IsFiniteSet(S), NEW f, \A x \in S : f[x] \in Int
    PROVE  \A s \in SUBSET S :
              /\ SumFunctionOnSet(f, s) \in Int
              /\ \A x \in s : SumFunctionOnSet(f, s) = f[x] + SumFunctionOnSet(f, s \ {x})
<1> DEFINE Good(s) == /\ SumFunctionOnSet(f, s) \in Int
                      /\ \A x \in s : SumFunctionOnSet(f, s) = f[x] + SumFunctionOnSet(f, s \ {x})
           T == {n \in Nat : \A s \in UpTo(S, n) : Good(s)}
<1>1. 0 \in T
  <2>1. \A s \in UpTo(S, 0) : s = {}
      BY FS_Subset, FS_CardinalityType, FS_EmptySet DEF UpTo
  <2>2. Good({})
      BY SumEmpty
  <2> HIDE DEF Good
  <2> QED BY <2>1, <2>2
<1>2. ASSUME NEW n \in Nat, n \in T PROVE n + 1 \in T
  <2> SUFFICES ASSUME NEW s \in UpTo(S, n + 1), s # {} PROVE Good(s)
    <3>1. Good({})
        BY SumEmpty
    <3> HIDE DEF Good
    <3> QED BY <3>1
  <2>1. PICK c : c = Chosen(s)
      OBVIOUS
  <2>2. s \subseteq S /\ IsFiniteSet(s) /\ c \in s /\ f[c] \in Int /\ s \ {c} \in UpTo(S, n)
      BY <2>1, ChosenIn, FS_Subset, UpToNext DEF UpTo
  <2>3. SumFunctionOnSet(f, s) = f[c] + SumFunctionOnSet(f, s \ {c})
      BY <2>1, <2>2, SumFirst
  <2>4. Good(s \ {c})
      BY <1>2, <2>2
  <2>5. ASSUME NEW x \in s PROVE SumFunctionOnSet(f, s) = f[x] + SumFunctionOnSet(f, s \ {x})
    <3>1. CASE x = c
        BY <2>3, <3>1
    <3>2. CASE x # c
      <4>1. x \in s \ {c} /\ c \in s \ {x} /\ (s \ {c}) \ {x} = (s \ {x}) \ {c} /\ f[x] \in Int
          BY <2>2, <3>2
      <4>2. SumFunctionOnSet(f, s \ {c}) = f[x] + SumFunctionOnSet(f, (s \ {x}) \ {c})
          BY <2>4, <4>1
      <4>3. s \ {x} \in UpTo(S, n) /\ (s \ {x}) \ {c} \in UpTo(S, n)
        <5>1. IsFiniteSet(s \ {x}) /\ Cardinality(s \ {x}) = Cardinality(s) - 1 /\ Cardinality(s) \in Nat
            BY <2>2, FS_RemoveElement, FS_CardinalityType
        <5>2. Cardinality((s \ {x}) \ {c}) = Cardinality(s) - 2
          <6>1. PICK u : u = s \ {x}
              OBVIOUS
          <6>2. IsFiniteSet(u) /\ c \in u /\ Cardinality(u) = Cardinality(s) - 1 /\ Cardinality(s) \in Nat
              BY <4>1, <5>1, <6>1
          <6>3. Cardinality(u \ {c}) = Cardinality(u) - 1
              BY <6>2, FS_RemoveElement
          <6> QED BY <6>1, <6>2, <6>3
        <5>3. Cardinality(s) <= n + 1
            BY DEF UpTo
        <5> QED BY <2>2, <5>1, <5>2, <5>3 DEF UpTo
      <4>4. Good(s \ {x}) /\ Good((s \ {x}) \ {c})
          BY <1>2, <4>3
      <4>5. SumFunctionOnSet(f, s \ {x}) = f[c] + SumFunctionOnSet(f, (s \ {x}) \ {c})
          BY <4>1, <4>4
      <4>6. SumFunctionOnSet(f, (s \ {x}) \ {c}) \in Int
          BY <4>4
      <4> QED BY <2>2, <2>3, <4>1, <4>2, <4>5, <4>6
    <3> QED BY <3>1, <3>2
  <2>6. SumFunctionOnSet(f, s) \in Int
      BY <2>2, <2>3, <2>4
  <2> QED BY <2>5, <2>6
<1>3. Nat \subseteq T
    BY <1>1, <1>2, NatSetInduction, Zenon
<1>4. \A s \in SUBSET S : s \in UpTo(S, Cardinality(S))
    BY FS_Subset, FS_CardinalityType DEF UpTo
<1>5. Cardinality(S) \in Nat
    BY FS_CardinalityType
<1> QED BY <1>3, <1>4, <1>5

\* A sum of integers is an integer.
LEMMA SumInt ==
    ASSUME NEW S, IsFiniteSet(S), NEW f, \A x \in S : f[x] \in Int
    PROVE  SumFunctionOnSet(f, S) \in Int
<1>1. \A s \in SUBSET S : SumFunctionOnSet(f, s) \in Int
    BY SumRemoveUpTo
<1> QED BY <1>1

\* A sum is the value at any one element and the sum of the rest.
LEMMA SumRemove ==
    ASSUME NEW S, IsFiniteSet(S), NEW f, \A x \in S : f[x] \in Int, NEW x \in S
    PROVE  /\ SumFunctionOnSet(f, S) = f[x] + SumFunctionOnSet(f, S \ {x})
           /\ SumFunctionOnSet(f, S) \in Int /\ SumFunctionOnSet(f, S \ {x}) \in Int
<1>1. \A s \in SUBSET S : /\ SumFunctionOnSet(f, s) \in Int
                          /\ \A y \in s : SumFunctionOnSet(f, s) = f[y] + SumFunctionOnSet(f, s \ {y})
    BY SumRemoveUpTo
<1> QED BY <1>1

\* Changing one value changes the sum by the difference.
LEMMA SumChange ==
    ASSUME NEW S, IsFiniteSet(S), NEW f, NEW e, NEW x \in S,
           \A y \in S : f[y] \in Int /\ e[y] \in Int,
           \A y \in S : y = x \/ f[y] = e[y]
    PROVE  SumFunctionOnSet(e, S) = SumFunctionOnSet(f, S) - f[x] + e[x]
<1>1. PICK R : R = S \ {x}
    OBVIOUS
<1>2. IsFiniteSet(R) /\ \A y \in R : f[y] = e[y]
    BY <1>1, FS_RemoveElement
<1>3. SumFunctionOnSet(f, R) = SumFunctionOnSet(e, R)
    BY <1>2, SumSame
<1>4. SumFunctionOnSet(f, S) = f[x] + SumFunctionOnSet(f, R) /\ SumFunctionOnSet(f, R) \in Int
    BY <1>1, SumRemove
<1>5. SumFunctionOnSet(e, S) = e[x] + SumFunctionOnSet(e, R)
    BY <1>1, SumRemove
<1> QED BY <1>3, <1>4, <1>5

Without(f, S, P) == [x \in S |-> IF x \in P THEN 0 ELSE f[x]]

\* The sum over a part of the set, and the sum with that part set to zero, make the whole.
LEMMA SumSplit ==
    ASSUME NEW S, IsFiniteSet(S), NEW f, \A x \in S : f[x] \in Int, NEW P \in SUBSET S
    PROVE  SumFunctionOnSet(f, S) = SumFunctionOnSet(f, P) + SumFunctionOnSet(Without(f, S, P), S)
<1> DEFINE Good(s) == SumFunctionOnSet(f, S) = SumFunctionOnSet(f, s) + SumFunctionOnSet(Without(f, S, s), S)
           T == {n \in Nat : \A s \in UpTo(S, n) : Good(s)}
<1>0. Good({})
  <2>1. PICK e : e = Without(f, S, {})
      OBVIOUS
  <2>2. \A x \in S : f[x] = e[x]
      BY <2>1 DEF Without
  <2>3. SumFunctionOnSet(f, S) = SumFunctionOnSet(e, S) /\ SumFunctionOnSet(f, S) \in Int
      BY <2>2, SumSame, SumInt
  <2> QED BY <2>1, <2>3, SumEmpty
<1>1. 0 \in T
  <2>1. \A s \in UpTo(S, 0) : s = {}
      BY FS_Subset, FS_CardinalityType, FS_EmptySet DEF UpTo
  <2> HIDE DEF Good
  <2> QED BY <1>0, <2>1
<1>2. ASSUME NEW n \in Nat, n \in T PROVE n + 1 \in T
  <2> SUFFICES ASSUME NEW s \in UpTo(S, n + 1), s # {} PROVE Good(s)
    <3> HIDE DEF Good
    <3> QED BY <1>0
  <2>1. PICK c : c = Chosen(s)
      OBVIOUS
  <2>2. PICK r : r = s \ {c}
      OBVIOUS
  <2>3. s \subseteq S /\ IsFiniteSet(s) /\ c \in s /\ c \in S /\ f[c] \in Int /\ r \in UpTo(S, n)
      BY <2>1, <2>2, ChosenIn, FS_Subset, UpToNext DEF UpTo
  <2>4. PICK d : d = Without(f, S, r)
      OBVIOUS
  <2>5. PICK e : e = Without(f, S, s)
      OBVIOUS
  <2>6. SumFunctionOnSet(f, S) = SumFunctionOnSet(f, r) + SumFunctionOnSet(d, S)
      BY <1>2, <2>3, <2>4
  <2>7. \A x \in s : f[x] \in Int
      BY <2>3
  <2>8. SumFunctionOnSet(f, s) = f[c] + SumFunctionOnSet(f, r) /\ SumFunctionOnSet(f, r) \in Int
      BY <2>2, <2>3, <2>7, SumRemove
  <2>9. (\A y \in S : d[y] \in Int /\ e[y] \in Int) /\ (\A y \in S : y = c \/ d[y] = e[y]) /\ d[c] = f[c] /\ e[c] = 0
      BY <2>2, <2>3, <2>4, <2>5 DEF Without
  <2>10. SumFunctionOnSet(e, S) = SumFunctionOnSet(d, S) - d[c] + e[c] /\ SumFunctionOnSet(d, S) \in Int
    <3>1. SumFunctionOnSet(d, S) \in Int
        BY <2>9, SumInt
    <3>2. SumFunctionOnSet(e, S) = SumFunctionOnSet(d, S) - d[c] + e[c]
      <4>1. c \in S /\ (\A y \in S : d[y] \in Int /\ e[y] \in Int) /\ (\A y \in S : y = c \/ d[y] = e[y])
          BY <2>3, <2>9
      <4> HIDE DEF Good, T
      <4> QED BY <4>1, SumChange
    <3> QED BY <3>1, <3>2
  <2> QED BY <2>3, <2>5, <2>6, <2>8, <2>9, <2>10
<1>3. Nat \subseteq T
    BY <1>1, <1>2, NatSetInduction, Zenon
<1>4. P \in UpTo(S, Cardinality(S)) /\ Cardinality(S) \in Nat
    BY FS_Subset, FS_CardinalityType DEF UpTo
<1> QED BY <1>3, <1>4

\* A sum of zeros is zero.
LEMMA SumZero ==
    ASSUME NEW S, IsFiniteSet(S), NEW f, \A x \in S : f[x] = 0
    PROVE  SumFunctionOnSet(f, S) = 0
<1>1. PICK e : e = Without(f, S, S)
    OBVIOUS
<1>2. \A x \in S : f[x] \in Int
    OBVIOUS
<1>3. SumFunctionOnSet(f, S) = SumFunctionOnSet(f, S) + SumFunctionOnSet(e, S)
    BY <1>1, <1>2, SumSplit, S \in SUBSET S
<1>4. \A x \in S : f[x] = e[x]
    BY <1>1 DEF Without
<1>5. SumFunctionOnSet(f, S) = SumFunctionOnSet(e, S)
    BY <1>4, SumSame
<1>6. SumFunctionOnSet(f, S) \in Int
    BY <1>2, SumInt
<1>7. \A a, b \in Int : a = a + b /\ a = b => a = 0
    OBVIOUS
<1>8. SumFunctionOnSet(e, S) \in Int
    BY <1>5, <1>6
<1> QED BY ONLY <1>3, <1>5, <1>6, <1>7, <1>8

\* A sum of natural numbers is one.
LEMMA SumNat ==
    ASSUME NEW S, IsFiniteSet(S), NEW f, \A x \in S : f[x] \in Nat
    PROVE  SumFunctionOnSet(f, S) \in Nat
<1> DEFINE Good(s) == SumFunctionOnSet(f, s) \in Nat
           T == {n \in Nat : \A s \in UpTo(S, n) : Good(s)}
<1>0. Good({})
    BY SumEmpty
<1>1. 0 \in T
  <2>1. \A s \in UpTo(S, 0) : s = {}
      BY FS_Subset, FS_CardinalityType, FS_EmptySet DEF UpTo
  <2> HIDE DEF Good
  <2> QED BY <1>0, <2>1
<1>2. ASSUME NEW n \in Nat, n \in T PROVE n + 1 \in T
  <2> SUFFICES ASSUME NEW s \in UpTo(S, n + 1), s # {} PROVE Good(s)
    <3> HIDE DEF Good
    <3> QED BY <1>0
  <2>1. PICK c : c = Chosen(s)
      OBVIOUS
  <2>2. s \subseteq S /\ IsFiniteSet(s) /\ c \in s /\ f[c] \in Nat /\ s \ {c} \in UpTo(S, n)
      BY <2>1, ChosenIn, FS_Subset, UpToNext DEF UpTo
  <2>3. SumFunctionOnSet(f, s) = f[c] + SumFunctionOnSet(f, s \ {c})
      BY <2>1, <2>2, SumFirst
  <2>4. Good(s \ {c})
      BY <1>2, <2>2
  <2> QED BY <2>2, <2>3, <2>4
<1>3. Nat \subseteq T
    BY <1>1, <1>2, NatSetInduction, Zenon
<1>4. S \in UpTo(S, Cardinality(S)) /\ Cardinality(S) \in Nat
    BY FS_Subset, FS_CardinalityType DEF UpTo
<1> QED BY <1>3, <1>4
-------------------------------------------------------------------------------
\* A non-empty set of numbers up to n has a greatest one.
LEMMA MaxIn ==
    ASSUME NEW n \in Nat
    PROVE  \A s \in SUBSET (1 .. n) : s # {} => Max(s) \in s /\ \A y \in s : y <= Max(s)
<1> DEFINE T == {m \in Nat : \A s \in SUBSET (1 .. m) : s # {} => \E x \in s : \A y \in s : x >= y}
<1>1. 0 \in T
  <2>1. 1 .. 0 = {}
      OBVIOUS
  <2>2. \A s \in SUBSET (1 .. 0) : s = {}
      BY <2>1
  <2> QED BY <2>2
<1>2. ASSUME NEW m \in Nat, m \in T PROVE m + 1 \in T
  <2> SUFFICES ASSUME NEW s \in SUBSET (1 .. m + 1), s # {}
               PROVE  \E x \in s : \A y \in s : x >= y
      OBVIOUS
  <2>1. CASE m + 1 \in s
      BY <2>1
  <2>2. CASE m + 1 \notin s
    <3>1. s \in SUBSET (1 .. m)
        BY <2>2
    <3> QED BY <1>2, <3>1
  <2> QED BY <2>1, <2>2
<1>3. Nat \subseteq T
    BY <1>1, <1>2, NatSetInduction, Zenon
<1>4. \A s \in SUBSET (1 .. n) : s # {} => \E x \in s : \A y \in s : x >= y
    BY <1>3
<1>5. \A s \in SUBSET (1 .. n) : s # {} => Max(s) \in s /\ \A y \in s : Max(s) >= y
    BY <1>4 DEF Max
<1> QED BY <1>5

\* The greatest number up to k is k.
LEMMA MaxUpTo ==
    ASSUME NEW k \in Nat, k # 0
    PROVE  Max(1 .. k) = k /\ (1 .. k) \ {k} = 1 .. (k - 1) /\ 1 .. k # {}
<1>1. k \in 1 .. k /\ \A y \in 1 .. k : y <= k
    OBVIOUS
<1>2. Max(1 .. k) \in 1 .. k /\ \A y \in 1 .. k : y <= Max(1 .. k)
    BY <1>1, MaxIn
<1> QED BY <1>1, <1>2

FoldNext(f, base, seq, s) == IF s = {} THEN base ELSE FoldStep(f[s \ {Max(s)}], seq[Max(s)])
FoldFrom(f, base, seq, n) == f = [s \in SUBSET (1 .. n) |-> FoldNext(f, base, seq, s)]

\* A partial fold applies the step to the fold of all but the last.
LEMMA FoldFromStep ==
    ASSUME NEW f, NEW base, NEW seq, NEW n, FoldFrom(f, base, seq, n)
    PROVE  \A s \in SUBSET (1 .. n) : f[s] = FoldNext(f, base, seq, s)
<1> DEFINE Rhs == [s \in SUBSET (1 .. n) |-> FoldNext(f, base, seq, s)]
<1>1. f = Rhs
    BY DEF FoldFrom
<1>2. \A s \in SUBSET (1 .. n) : Rhs[s] = FoldNext(f, base, seq, s)
    OBVIOUS
<1> HIDE DEF Rhs
<1> QED BY <1>1, <1>2

\* The partial folds exist.
LEMMA FoldFromExists ==
    ASSUME NEW base, NEW seq, NEW n \in Nat
    PROVE  \E f : FoldFrom(f, base, seq, n)
<1> DEFINE T == {m \in Nat : \E f : FoldFrom(f, base, seq, m)}
<1>1. 0 \in T
  <2>1. PICK f : f = [s \in SUBSET (1 .. 0) |-> base]
      OBVIOUS
  <2>2. 1 .. 0 = {}
      OBVIOUS
  <2>3. \A s \in SUBSET (1 .. 0) : FoldNext(f, base, seq, s) = base
      BY <2>2 DEF FoldNext
  <2>4. f = [s \in SUBSET (1 .. 0) |-> FoldNext(f, base, seq, s)]
      BY ONLY <2>1, <2>3
  <2>5. FoldFrom(f, base, seq, 0)
      BY <2>4 DEF FoldFrom
  <2> QED BY <2>5
<1>2. ASSUME NEW m \in Nat, m \in T PROVE m + 1 \in T
  <2>1. PICK h : FoldFrom(h, base, seq, m)
      BY <1>2
  <2>2. PICK k \in Nat : k = m + 1
      OBVIOUS
  <2>3. PICK g : g = [s \in SUBSET (1 .. k) |-> FoldNext(h, base, seq, s)]
      OBVIOUS
  <2>4. \A s \in SUBSET (1 .. m) : s \in SUBSET (1 .. k)
      BY <2>2
  <2>5. \A s \in SUBSET (1 .. m) : h[s] = FoldNext(h, base, seq, s)
      BY <2>1, FoldFromStep
  <2>6. \A s \in SUBSET (1 .. m) : g[s] = h[s]
      BY ONLY <2>3, <2>4, <2>5
  <2>7. \A s \in SUBSET (1 .. k) : s # {} => s \ {Max(s)} \in SUBSET (1 .. m)
    <3> SUFFICES ASSUME NEW s \in SUBSET (1 .. k), s # {}
                 PROVE  s \ {Max(s)} \in SUBSET (1 .. m)
        OBVIOUS
    <3>1. \A r \in SUBSET (1 .. k) : r # {} => Max(r) \in r /\ \A y \in r : y <= Max(r)
        BY MaxIn
    <3>2. PICK x : x = Max(s)
        OBVIOUS
    <3>3. x \in s /\ \A y \in s : y <= x
        BY <3>1, <3>2
    <3>4. s \ {x} \in SUBSET (1 .. m)
        BY <2>2, <3>3
    <3> QED BY <3>2, <3>4
  <2>8. \A s \in SUBSET (1 .. k) : FoldNext(g, base, seq, s) = FoldNext(h, base, seq, s)
      BY ONLY <2>6, <2>7 DEF FoldNext
  <2>9. g = [s \in SUBSET (1 .. k) |-> FoldNext(g, base, seq, s)]
      BY ONLY <2>3, <2>8
  <2>10. FoldFrom(g, base, seq, k)
      BY <2>9 DEF FoldFrom
  <2> QED BY <2>2, <2>10
<1> QED BY <1>1, <1>2, NatSetInduction, Zenon

\* FoldLeft is the partial fold of the whole sequence.
LEMMA FoldLeftRec ==
    ASSUME NEW base, NEW seq, NEW n \in Nat, DOMAIN seq = 1 .. n
    PROVE  \E f : FoldFrom(f, base, seq, n) /\ FoldLeft(FoldStep, base, seq) = f[1 .. n]
<1>1. \E f : FoldFrom(f, base, seq, n)
    BY FoldFromExists
<1>2. PICK D : D = 1 .. n
    OBVIOUS
<1>3. \E f : f = [s \in SUBSET D |->
                    IF s = {} THEN base ELSE FoldStep(f[s \ {Max(s)}], seq[Max(s)])]
    BY ONLY <1>1, <1>2, Zenon DEF FoldFrom, FoldNext
<1>4. DOMAIN seq = D
    BY <1>2
<1>5. \E f : /\ f = [s \in SUBSET D |->
                        IF s = {} THEN base ELSE FoldStep(f[s \ {Max(s)}], seq[Max(s)])]
             /\ FoldLeft(FoldStep, base, seq) = f[D]
    BY ONLY <1>3, <1>4 DEF FoldLeft, MapThenFoldSet
<1> QED BY ONLY <1>2, <1>5, Zenon DEF FoldFrom, FoldNext

\* h[k] is the fold of the first k.
Steps(h, base, seq, n) == h[0] = base /\ \A k \in 1 .. n : h[k] = FoldStep(h[k - 1], seq[k])

\* A left fold step by step.
LEMMA FoldLeftSteps ==
    ASSUME NEW base, NEW seq, NEW n \in Nat, DOMAIN seq = 1 .. n
    PROVE  \E h : Steps(h, base, seq, n) /\ FoldLeft(FoldStep, base, seq) = h[n]
<1>1. PICK f : FoldFrom(f, base, seq, n) /\ FoldLeft(FoldStep, base, seq) = f[1 .. n]
    BY FoldLeftRec, Zenon
<1>0. \A s \in SUBSET (1 .. n) : f[s] = FoldNext(f, base, seq, s)
    BY <1>1, FoldFromStep
<1>2. \A s \in SUBSET (1 .. n) :
         f[s] = IF s = {} THEN base ELSE FoldStep(f[s \ {Max(s)}], seq[Max(s)])
    BY ONLY <1>0, Zenon DEF FoldNext
<1>3. PICK h : h = [k \in 0 .. n |-> f[1 .. k]]
    OBVIOUS
<1>4. h[0] = base
  <2>1. 1 .. 0 = {} /\ {} \in SUBSET (1 .. n) /\ 0 \in 0 .. n
      OBVIOUS
  <2>2. f[{}] = base
      BY ONLY <1>2, <2>1, Zenon
  <2>3. h[0] = f[1 .. 0]
      BY ONLY <1>3, <2>1, Zenon
  <2> QED BY <2>1, <2>2, <2>3
<1>5. ASSUME NEW k \in 1 .. n PROVE h[k] = FoldStep(h[k - 1], seq[k])
  <2>1. 1 .. k \in SUBSET (1 .. n) /\ k \in Nat /\ k # 0
      OBVIOUS
  <2>2. f[1 .. k] = FoldStep(f[1 .. (k - 1)], seq[k])
      BY <1>2, <2>1, MaxUpTo
  <2>3. h[k] = f[1 .. k] /\ h[k - 1] = f[1 .. (k - 1)]
      BY <1>3
  <2> QED BY <2>2, <2>3
<1>6. FoldLeft(FoldStep, base, seq) = h[n]
    BY <1>1, <1>3
<1> QED BY <1>4, <1>5, <1>6 DEF Steps

\* The fold of a sequence.
Folded(base, seq) == FoldLeft(FoldStep, base, seq)

\* The fold of a sequence that is one longer takes one step more.
LEMMA FoldLeftLonger ==
    ASSUME NEW base, NEW s, NEW t, NEW n \in Nat, NEW m \in Nat, m = n + 1, DOMAIN s = 1 .. n, DOMAIN t = 1 .. m,
           \A k \in 1 .. n : s[k] = t[k]
    PROVE  Folded(base, t) = FoldStep(Folded(base, s), t[m])
<1>1. PICK g : Steps(g, base, s, n) /\ Folded(base, s) = g[n]
    BY FoldLeftSteps, Zenon DEF Folded
<1>2. PICK h : Steps(h, base, t, m) /\ Folded(base, t) = h[m]
    BY FoldLeftSteps, Zenon DEF Folded
<1>3. g[0] = base /\ \A k \in 1 .. n : g[k] = FoldStep(g[k - 1], s[k])
    BY <1>1 DEF Steps
<1>4. h[0] = base /\ \A k \in 1 .. m : h[k] = FoldStep(h[k - 1], t[k])
    BY <1>2 DEF Steps
<1> DEFINE T == {k \in Nat : k <= n => g[k] = h[k]}
<1>5. 0 \in T
    BY <1>3, <1>4
<1>6. ASSUME NEW k \in Nat, k \in T PROVE k + 1 \in T
  <2> SUFFICES ASSUME k + 1 <= n PROVE g[k + 1] = h[k + 1]
      OBVIOUS
  <2>1. k + 1 \in 1 .. n /\ k + 1 \in 1 .. m /\ (k + 1) - 1 = k /\ g[k] = h[k] /\ s[k + 1] = t[k + 1]
      BY <1>6
  <2>2. g[k + 1] = FoldStep(g[k], s[k + 1]) /\ h[k + 1] = FoldStep(h[k], t[k + 1])
      BY <1>3, <1>4, <2>1
  <2> QED BY <2>1, <2>2
<1>7. Nat \subseteq T
    BY <1>5, <1>6, NatSetInduction, Zenon
<1>8. g[n] = h[n] /\ m \in 1 .. m /\ m - 1 = n
    BY <1>7
<1> QED BY <1>1, <1>2, <1>4, <1>8

\* The fold of nothing is the base.
LEMMA FoldLeftEmpty ==
    ASSUME NEW base, NEW seq, DOMAIN seq = 1 .. 0
    PROVE  Folded(base, seq) = base
<1>1. PICK h : Steps(h, base, seq, 0) /\ Folded(base, seq) = h[0]
    BY FoldLeftSteps, 0 \in Nat, Zenon DEF Folded
<1> QED BY <1>1 DEF Steps

\* The fold of a sequence with one more element takes one step more.
LEMMA FoldLeftSnoc ==
    ASSUME NEW base, NEW S, NEW s \in Seq(S), NEW x \in S
    PROVE  Folded(base, Append(s, x)) = FoldStep(Folded(base, s), x)
<1>1. PICK t : t = Append(s, x)
    OBVIOUS
<1>2. PICK n \in Nat : n = Len(s)
    OBVIOUS
<1>3. PICK m \in Nat : m = n + 1
    OBVIOUS
<1>4. DOMAIN s = 1 .. n /\ DOMAIN t = 1 .. m /\ t[m] = x /\ \A k \in 1 .. n : s[k] = t[k]
    BY <1>1, <1>2, <1>3
<1>5. Folded(base, t) = FoldStep(Folded(base, s), t[m])
  <2>1. n \in Nat /\ m \in Nat /\ m = n + 1
      BY <1>3
  <2>2. DOMAIN s = 1 .. n
      BY ONLY <1>4, Zenon
  <2>3. DOMAIN t = 1 .. m
      BY ONLY <1>4, Zenon
  <2>4. \A k \in 1 .. n : s[k] = t[k]
      BY ONLY <1>4, Zenon
  <2> QED BY ONLY <2>1, <2>2, <2>3, <2>4, FoldLeftLonger, SMT
<1> QED BY <1>1, <1>4, <1>5
===============================================================================
