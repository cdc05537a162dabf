-------------------------- MODULE RecordsArgs_proofs --------------------------
(*****************************************************************************)
(* The arguments of a log record: parse_format_string finds in a format of   *)
(* any directives the arguments C passes.  The scan is followed character by *)
(* character: what a length prefix is, what each character of a directive    *)
(* does, a directive, a list of directives.                                  *)
(*****************************************************************************)
EXTENDS Records_proofs

-------------------------------------------------------------------------------
(*****************************************************************************)
(* The prefixes.                                                             *)
(*****************************************************************************)

\* What begins a sequence has its elements.
LEMMA PrefixElements ==
    ASSUME NEW S, NEW rest \in Seq(S), NEW T, NEW p \in Seq(T), IsPrefix(p, rest), NEW i \in 1 .. Len(p)
    PROVE  p[i] = rest[i]
<1>1. SubSeq(p, 1, Len(p)) = SubSeq(rest, 1, Len(p)) /\ Len(p) <= Len(rest)
    BY DEF IsPrefix
<1>2. SubSeq(p, 1, Len(p))[i] = p[i] /\ SubSeq(rest, 1, Len(p))[i] = rest[i]
    BY <1>1
<1> QED BY <1>1, <1>2

\* And a sequence that has its elements begins with it.
LEMMA ElementsPrefix ==
    ASSUME NEW S, NEW rest \in Seq(S), NEW T, NEW p \in Seq(T), Len(p) <= Len(rest),
           \A i \in 1 .. Len(p) : p[i] = rest[i]
    PROVE  IsPrefix(p, rest)
<1>1. /\ SubSeq(p, 1, Len(p)) = [i \in 1 .. Len(p) |-> p[i]]
      /\ SubSeq(rest, 1, Len(p)) = [i \in 1 .. Len(p) |-> rest[i]]
    OBVIOUS
<1> QED BY <1>1 DEF IsPrefix

\* The table, entry by entry.
LEMMA PrefixTable ==
    /\ Len(gs_prefixes) = 12
    /\ gs_prefixes[1] = <<"I", "6", "4">> /\ gs_prefixes[2] = <<"I", "3", "2">>
    /\ gs_prefixes[3] = <<"l", "l">> /\ gs_prefixes[4] = <<"h", "h">> /\ gs_prefixes[5] = <<"h">>
    /\ gs_prefixes[6] = <<"l">> /\ gs_prefixes[7] = <<"L">> /\ gs_prefixes[8] = <<"I">>
    /\ gs_prefixes[9] = <<"z">> /\ gs_prefixes[10] = <<"t">> /\ gs_prefixes[11] = <<"w">>
    /\ gs_prefixes[12] = <<"j">>
    BY DEF gs_prefixes

\* The characters of the prefixes, and the first one of each.
PrefixChars == {"I", "6", "4", "3", "2", "l", "h", "L", "z", "t", "w", "j"}

FirstOf(k) == gs_prefixes[k][1]

\* Up to three characters in a row make a prefix.
Letters(p) == p \in Seq(PrefixChars) /\ Len(p) >= 1

LEMMA Words ==
    \A a, b, c \in PrefixChars : Letters(<<a>>) /\ Letters(<<a, b>>) /\ Letters(<<a, b, c>>)
<1> SUFFICES ASSUME NEW a \in PrefixChars, NEW b \in PrefixChars, NEW c \in PrefixChars
             PROVE  Letters(<<a>>) /\ Letters(<<a, b>>) /\ Letters(<<a, b, c>>)
    OBVIOUS
<1> QED BY DEF Letters

\* The shape of the entries.
LEMMA PrefixFirsts ==
    /\ \A k \in 1 .. 12 : Letters(gs_prefixes[k])
    /\ FirstOf(1) = "I" /\ FirstOf(2) = "I" /\ FirstOf(3) = "l" /\ FirstOf(4) = "h"
    /\ FirstOf(5) = "h" /\ FirstOf(6) = "l" /\ FirstOf(7) = "L" /\ FirstOf(8) = "I"
    /\ FirstOf(9) = "z" /\ FirstOf(10) = "t" /\ FirstOf(11) = "w" /\ FirstOf(12) = "j"
<1>1. \A k \in 1 .. 12 : Letters(gs_prefixes[k])
  <2>1. /\ "I" \in PrefixChars /\ "l" \in PrefixChars /\ "h" \in PrefixChars
        /\ "L" \in PrefixChars /\ "z" \in PrefixChars /\ "t" \in PrefixChars
        /\ "w" \in PrefixChars /\ "j" \in PrefixChars /\ "6" \in PrefixChars
        /\ "4" \in PrefixChars /\ "3" \in PrefixChars /\ "2" \in PrefixChars
      BY DEF PrefixChars
  <2>2. /\ Letters(gs_prefixes[1]) /\ Letters(gs_prefixes[2]) /\ Letters(gs_prefixes[3])
        /\ Letters(gs_prefixes[4]) /\ Letters(gs_prefixes[5]) /\ Letters(gs_prefixes[6])
        /\ Letters(gs_prefixes[7]) /\ Letters(gs_prefixes[8]) /\ Letters(gs_prefixes[9])
        /\ Letters(gs_prefixes[10]) /\ Letters(gs_prefixes[11]) /\ Letters(gs_prefixes[12])
      BY <2>1, Words, PrefixTable, Zenon
  <2>3. \A k \in 1 .. 12 : \/ k = 1 \/ k = 2 \/ k = 3 \/ k = 4 \/ k = 5 \/ k = 6
                           \/ k = 7 \/ k = 8 \/ k = 9 \/ k = 10 \/ k = 11 \/ k = 12
      OBVIOUS
  <2> QED BY <2>2, <2>3, Zenon
<1> QED BY <1>1, PrefixTable DEF FirstOf

\* find_prefix takes the first entry that matches.
LEMMA FirstMatch ==
    ASSUME NEW rest, NEW k \in 1 .. 12, IsPrefix(gs_prefixes[k], rest),
           \A j \in 1 .. (k - 1) : ~ IsPrefix(gs_prefixes[j], rest)
    PROVE  find_prefix(rest) = gs_prefixes[k]
<1>1. PICK m : m = SelectInSeq(gs_prefixes, LAMBDA p : IsPrefix(p, rest))
    OBVIOUS
<1>2. PICK I : I = {i \in 1 .. 12 : IsPrefix(gs_prefixes[i], rest)}
    OBVIOUS
<1>3. m = IF I # {} THEN Min(I) ELSE 0
    BY <1>1, <1>2, PrefixTable DEF SelectInSeq
<1>4. k \in I /\ \A i \in I : i \in 1 .. 12 /\ k <= i
    BY <1>2
<1>5. Min(I) = k
  <2>1. \E x \in I : \A y \in I : x <= y
      BY <1>4
  <2>2. Min(I) \in I /\ \A y \in I : Min(I) <= y
      BY <2>1 DEF Min
  <2>3. PICK x : x = Min(I)
      OBVIOUS
  <2>4. x \in 1 .. 12 /\ k <= x /\ x <= k
      BY <1>4, <2>2, <2>3
  <2> QED BY <2>3, <2>4
<1>6. m = k /\ k # 0
    BY <1>3, <1>4, <1>5
<1> QED BY <1>1, <1>6 DEF find_prefix

\* An entry that begins with another character does not match.
LEMMA OtherFirst ==
    ASSUME NEW S, NEW rest \in Seq(S), NEW k \in 1 .. 12, FirstOf(k) # rest[1]
    PROVE  ~ IsPrefix(gs_prefixes[k], rest)
<1> SUFFICES ASSUME IsPrefix(gs_prefixes[k], rest) PROVE FALSE
    OBVIOUS
<1>1. PICK p \in Seq(PrefixChars) : p = gs_prefixes[k] /\ Len(p) >= 1
    BY PrefixFirsts DEF Letters
<1>2. p[1] = rest[1]
  <2>1. 1 \in 1 .. Len(p) /\ IsPrefix(p, rest)
      BY <1>1
  <2> QED BY ONLY <1>1, <2>1, rest \in Seq(S), PrefixElements
<1> QED BY <1>1, <1>2 DEF FirstOf

\* Neither do the double prefixes when another character follows.
LEMMA OtherSecond ==
    ASSUME NEW S, NEW rest \in Seq(S), rest[2] \notin {"h", "l"}
    PROVE  ~ IsPrefix(gs_prefixes[3], rest) /\ ~ IsPrefix(gs_prefixes[4], rest)
<1>1. ASSUME NEW k \in {3, 4}, IsPrefix(gs_prefixes[k], rest) PROVE FALSE
  <2>1. PICK p \in Seq(PrefixChars) : p = gs_prefixes[k]
    <3>1. k \in 1 .. 12
        BY <1>1
    <3> QED BY ONLY <3>1, PrefixFirsts DEF Letters
  <2>2. Len(p) = 2 /\ p[2] \in {"h", "l"}
    <3>1. p = <<"l", "l">> \/ p = <<"h", "h">>
        BY <1>1, <2>1, PrefixTable, Zenon
    <3> QED BY ONLY <3>1
  <2>3. p[2] = rest[2]
    <3>1. 2 \in 1 .. Len(p) /\ IsPrefix(p, rest)
        BY <1>1, <2>1, <2>2
    <3> QED BY ONLY <2>1, <3>1, rest \in Seq(S), PrefixElements
  <2> QED BY <2>2, <2>3
<1> QED BY <1>1

\* The length prefixes of the directives.
AllLengths == {<<"h">>, <<"h", "h">>, <<"l">>, <<"l", "l">>, <<"j">>, <<"z">>, <<"t">>,
               <<"I", "6", "4">>, <<"L">>}

\* A length before a conversion character is found whole.
LEMMA PrefixFound ==
    ASSUME NEW S, NEW rest \in Seq(S), NEW q \in AllLengths, Len(q) < Len(rest),
           \A i \in 1 .. Len(q) : q[i] = rest[i], rest[Len(q) + 1] \notin {"h", "l"}
    PROVE  find_prefix(rest) = q
<1>1. \E k \in {1, 3, 4, 5, 6, 7, 9, 10, 12} : q = gs_prefixes[k]
    BY PrefixTable, Zenon DEF AllLengths
<1>2. PICK k \in 1 .. 12 : k \in {1, 3, 4, 5, 6, 7, 9, 10, 12} /\ q = gs_prefixes[k]
    BY <1>1
<1>3. q \in Seq(PrefixChars) /\ Len(q) >= 1
    BY <1>2, PrefixFirsts DEF Letters
<1>4. IsPrefix(gs_prefixes[k], rest)
  <2>1. Len(q) <= Len(rest)
      BY <1>3
  <2>2. IsPrefix(q, rest)
      BY ONLY <1>3, <2>1, rest \in Seq(S), \A i \in 1 .. Len(q) : q[i] = rest[i], ElementsPrefix
  <2> QED BY <1>2, <2>2
<1>5. rest[1] = FirstOf(k)
    BY <1>2, <1>3 DEF FirstOf
<1>6. k \in 5 .. 12 => rest[2] \notin {"h", "l"}
  <2> SUFFICES ASSUME k \in 5 .. 12 PROVE rest[2] \notin {"h", "l"}
      OBVIOUS
  <2>1. k = 5 \/ k = 6 \/ k = 7 \/ k = 9 \/ k = 10 \/ k = 12
      BY <1>2
  <2>2. \E a : q = <<a>>
      BY <1>2, <2>1, PrefixTable, Zenon
  <2>3. Len(q) = 1
      BY <2>2
  <2> QED BY <2>3
<1>7. ASSUME NEW j \in 1 .. (k - 1) PROVE ~ IsPrefix(gs_prefixes[j], rest)
  <2>1. j \in 1 .. 12
      OBVIOUS
  <2>2. CASE FirstOf(j) # rest[1]
      BY <2>1, <2>2, OtherFirst
  <2>3. CASE k \in 5 .. 12 /\ j \in {3, 4}
      BY <1>6, <2>3, OtherSecond
  <2>4. FirstOf(j) # FirstOf(k) \/ (k \in 5 .. 12 /\ j \in {3, 4})
    <3>1. k = 3 => j \in {1, 2}
        OBVIOUS
    <3>2. k = 4 => j \in {1, 2, 3}
        OBVIOUS
    <3>3. k = 5 => j \in {1, 2, 3, 4}
        OBVIOUS
    <3>4. k = 6 => j \in {1, 2, 3, 4, 5}
        OBVIOUS
    <3>5. k = 7 => j \in {1, 2, 3, 4, 5, 6}
        OBVIOUS
    <3>6. k = 9 => j \in {1, 2, 3, 4, 5, 6, 7, 8}
        OBVIOUS
    <3>7. k = 10 => j \in {1, 2, 3, 4, 5, 6, 7, 8, 9}
        OBVIOUS
    <3>8. k = 12 => j \in {1, 2, 3, 4, 5, 6, 7, 8, 9, 10, 11}
        OBVIOUS
    <3>9. k # 1
        OBVIOUS
    <3> QED BY <1>2, <3>1, <3>2, <3>3, <3>4, <3>5, <3>6, <3>7, <3>8, <3>9, PrefixFirsts
  <2> QED BY <1>5, <2>2, <2>3, <2>4
<1> QED BY ONLY <1>2, <1>4, <1>7, FirstMatch

-------------------------------------------------------------------------------
(*****************************************************************************)
(* One character of a directive.                                             *)
(*****************************************************************************)

\* A scan under way.
Is(s, percent, prefix, width, args, skip) ==
    /\ DOMAIN s = {"percent", "prefix", "width", "args", "skip", "returned"}
    /\ s.percent = percent /\ s.prefix = prefix /\ s.width = width /\ s.args = args
    /\ s.skip = skip /\ s.returned = FALSE

\* As many of the arguments as the list has room for.
FirstArgs(args) == SubSeq(args, 1, IF Len(args) < MaxArgs THEN Len(args) ELSE MaxArgs)

\* The scan has met the arguments args, or has returned when they were too many.
Stands(s, percent, prefix, width, args, skip) ==
    /\ s.args = FirstArgs(args)
    /\ Len(args) > MaxArgs => s.returned = TRUE
    /\ Len(args) <= MaxArgs => Is(s, percent, prefix, width, args, skip)

\* A list with room is taken whole.
LEMMA FirstArgsWhole ==
    ASSUME NEW args \in Seq(Arg), Len(args) <= MaxArgs
    PROVE  FirstArgs(args) = args
<1>1. MaxArgs \in Nat
    BY MaxArgsAssumption
<1>2. (IF Len(args) < MaxArgs THEN Len(args) ELSE MaxArgs) = Len(args)
    BY <1>1
<1> QED BY <1>2, PrefixWhole DEF FirstArgs

\* An argument for which there is no room changes nothing.
LEMMA FirstArgsFull ==
    ASSUME NEW args \in Seq(Arg), NEW arg \in Arg, Len(args) >= MaxArgs
    PROVE  FirstArgs(Append(args, arg)) = FirstArgs(args)
<1>1. MaxArgs \in Nat
    BY MaxArgsAssumption
<1>2. PICK more : more = Append(args, arg)
    OBVIOUS
<1>3. Len(more) = Len(args) + 1
    BY <1>2
<1>4. FirstArgs(more) = SubSeq(more, 1, MaxArgs) /\ FirstArgs(args) = SubSeq(args, 1, MaxArgs)
    BY <1>1, <1>3 DEF FirstArgs
<1>5. SubSeq(more, 1, MaxArgs) = SubSeq(args, 1, MaxArgs)
    BY <1>1, <1>2, PrefixAppend
<1> QED BY <1>2, <1>4, <1>5

\* Once the function has returned, the rest of the format is not looked at.
LEMMA StepReturned ==
    ASSUME NEW s, s.returned = TRUE, NEW rest
    PROVE  ScanStep(s, rest) = s
    BY DEF ScanStep

\* A character that brings no argument.
LEMMA StepKeeps ==
    ASSUME NEW args \in Seq(Arg), NEW percent, NEW q, NEW w, NEW k,
           NEW percent2, NEW q2, NEW w2, NEW k2,
           NEW s, Stands(s, percent, q, w, args, k), NEW rest, NEW u, u = ScanStep(s, rest),
           Is(s, percent, q, w, args, k) => Is(u, percent2, q2, w2, args, k2)
    PROVE  Stands(u, percent2, q2, w2, args, k2)
<1>1. MaxArgs \in Nat /\ Len(args) \in Nat
    BY MaxArgsAssumption
<1>2. CASE Len(args) > MaxArgs
  <2>1. s.returned = TRUE /\ s.args = FirstArgs(args)
      BY <1>2 DEF Stands
  <2>2. u = s
      BY <2>1, StepReturned
  <2> QED BY <1>1, <1>2, <2>1, <2>2 DEF Stands
<1>3. CASE Len(args) <= MaxArgs
  <2>1. Is(u, percent2, q2, w2, args, k2)
      BY <1>3 DEF Stands
  <2>2. FirstArgs(args) = args
      BY <1>3, FirstArgsWhole
  <2>3. u.args = args
      BY <2>1 DEF Is
  <2> QED BY <1>1, <1>3, <2>1, <2>2, <2>3 DEF Stands
<1> QED BY <1>1, <1>2, <1>3

\* The argument of a type behind a width.
ArgOf(type, width) == [type |-> type, size |-> SizeOf(type, width)]

LEMMA ArgOfType ==
    ASSUME NEW type \in Types, NEW width
    PROVE  ArgOf(type, width) \in Arg
<1>1. PICK size \in Nat : size = SizeOf(type, width)
    BY DEF SizeOf
<1> QED BY ONLY <1>1, type \in Types DEF Arg, ArgOf

\* A character that brings an argument.
LEMMA StepAdds ==
    ASSUME NEW args \in Seq(Arg), NEW q, NEW w, NEW percent2, NEW w2, NEW type \in Types,
           NEW s, Stands(s, TRUE, q, w, args, 0), NEW rest, NEW u, u = ScanStep(s, rest),
           NEW added, added = AddArg(s, type),
           Is(s, TRUE, q, w, args, 0) =>
               /\ u.args = added.args /\ u.returned = added.returned
               /\ \A more : Is(added, TRUE, q, w, more, 0) => Is(u, percent2, q, w2, more, 0),
           NEW more, more = Append(args, ArgOf(type, w))
    PROVE  Stands(u, percent2, q, w2, more, 0)
<1>1. MaxArgs \in Nat /\ Len(args) \in Nat
    BY MaxArgsAssumption
<1>2. PICK arg \in Arg : arg = ArgOf(type, w)
    BY ArgOfType
<1>3. more \in Seq(Arg) /\ Len(more) = Len(args) + 1
    BY <1>2
<1>4. CASE Len(args) > MaxArgs
  <2>1. s.returned = TRUE /\ s.args = FirstArgs(args)
      BY <1>4 DEF Stands
  <2>2. u = s
      BY <2>1, StepReturned
  <2>3. FirstArgs(more) = FirstArgs(args)
      BY <1>1, <1>2, <1>4, FirstArgsFull
  <2> QED BY <1>1, <1>3, <1>4, <2>1, <2>2, <2>3 DEF Stands
<1>5. CASE Len(args) <= MaxArgs
  <2>1. Is(s, TRUE, q, w, args, 0)
      BY <1>5 DEF Stands
  <2>2. s.args = args /\ s.width = w
      BY <2>1 DEF Is
  <2>3. added = IF Len(args) >= MaxArgs THEN [s EXCEPT !.returned = TRUE]
                ELSE [s EXCEPT !.args = more]
      BY <2>2 DEF AddArg, ArgOf
  <2>4. CASE Len(args) = MaxArgs
    <3>1. added.returned = TRUE /\ added.args = args
        BY <1>1, <2>1, <2>2, <2>3, <2>4 DEF Is
    <3>2. u.returned = TRUE /\ u.args = args
        BY <2>1, <3>1
    <3>3. FirstArgs(more) = args
        BY <1>2, <2>4, <1>1, FirstArgsFull, FirstArgsWhole
    <3> QED BY <1>1, <1>3, <2>4, <3>2, <3>3 DEF Stands
  <2>5. CASE Len(args) < MaxArgs
    <3>1. added = [s EXCEPT !.args = more]
        BY <1>1, <2>3, <2>5
    <3>2. Is(added, TRUE, q, w, more, 0)
        BY ONLY <2>1, <3>1 DEF Is
    <3>3. Is(u, percent2, q, w2, more, 0)
        BY <2>1, <3>2
    <3>4. u.args = more
        BY <3>3 DEF Is
    <3>5. FirstArgs(more) = more /\ Len(more) <= MaxArgs
      <4>1. Len(more) <= MaxArgs
          BY <1>1, <1>3, <2>5
      <4> QED BY <4>1, <1>3, FirstArgsWhole
    <3> QED BY <1>1, <1>3, <3>3, <3>4, <3>5 DEF Stands
  <2> QED BY <1>1, <1>5, <2>4, <2>5
<1> QED BY <1>1, <1>4, <1>5

\* What comes between two directives is passed over.
LEMMA StepPlain ==
    ASSUME NEW args \in Seq(Arg), NEW q, NEW w, NEW s, Stands(s, FALSE, q, w, args, 0),
           NEW rest, Head(rest) # "%"
    PROVE  Stands(ScanStep(s, rest), FALSE, q, w, args, 0)
<1>1. PICK u : u = ScanStep(s, rest)
    OBVIOUS
<1>2. ASSUME Is(s, FALSE, q, w, args, 0) PROVE Is(u, FALSE, q, w, args, 0)
  <2>1. ~ s.returned /\ ~ (s.skip > 0) /\ ~ s.percent
      BY <1>2 DEF Is
  <2>2. u = s
      BY <1>1, <2>1 DEF ScanStep
  <2> QED BY <1>2, <2>2
<1> QED BY <1>1, <1>2, StepKeeps

\* A directive begins.
LEMMA StepPercent ==
    ASSUME NEW args \in Seq(Arg), NEW q, NEW w, NEW s, Stands(s, FALSE, q, w, args, 0),
           NEW rest, Head(rest) = "%"
    PROVE  Stands(ScanStep(s, rest), TRUE, <<>>, FALSE, args, 0)
<1>1. PICK u : u = ScanStep(s, rest)
    OBVIOUS
<1>2. ASSUME Is(s, FALSE, q, w, args, 0) PROVE Is(u, TRUE, <<>>, FALSE, args, 0)
  <2>1. ~ s.returned /\ ~ (s.skip > 0) /\ ~ s.percent
      BY <1>2 DEF Is
  <2>2. u = [s EXCEPT !.percent = TRUE, !.prefix = <<>>, !.width = FALSE]
      BY <1>1, <2>1 DEF ScanStep
  <2> QED BY <1>2, <2>2 DEF Is
<1> QED BY <1>1, <1>2, StepKeeps

\* The rest of a long prefix is passed over.
LEMMA StepSkip ==
    ASSUME NEW args \in Seq(Arg), NEW q, NEW w, NEW k \in Nat, NEW s,
           Stands(s, TRUE, q, w, args, k + 1), NEW rest
    PROVE  Stands(ScanStep(s, rest), TRUE, q, w, args, k)
<1>1. PICK u : u = ScanStep(s, rest)
    OBVIOUS
<1>2. ASSUME Is(s, TRUE, q, w, args, k + 1) PROVE Is(u, TRUE, q, w, args, k)
  <2>1. ~ s.returned /\ s.skip > 0 /\ s.skip - 1 = k
      BY <1>2 DEF Is
  <2>2. u = [s EXCEPT !.skip = @ - 1]
      BY <1>1, <2>1 DEF ScanStep
  <2> QED BY <1>2, <2>1, <2>2 DEF Is
<1> QED BY <1>1, <1>2, StepKeeps

\* Inside a directive.
LEMMA StepInside ==
    ASSUME NEW s, s.returned = FALSE, s.skip = 0, s.percent = TRUE, NEW rest
    PROVE  ScanStep(s, rest) = DirectiveStep(s, rest)
    BY DEF ScanStep

\* What a directive has besides stars, a length and a conversion: digits, of which the flag 0
\* is one, and what the scan passes over, a point and the other flags.
Numerals   == {"5", "0"}
PassedOver == {".", "-", "+", " ", "#"}

\* They are no conversions.
LEMMA NoConversion ==
    ASSUME NEW q, NEW c \in Numerals \cup PassedOver
    PROVE  ConversionType(c, q) = NoType
    BY Zenon DEF ConversionType, Numerals, PassedOver

\* A digit leaves a width.
LEMMA StepDigit ==
    ASSUME NEW args \in Seq(Arg), NEW q, NEW w, NEW s, Stands(s, TRUE, q, w, args, 0),
           NEW rest, Head(rest) \in Numerals
    PROVE  Stands(ScanStep(s, rest), TRUE, q, TRUE, args, 0)
<1>1. PICK u : u = ScanStep(s, rest)
    OBVIOUS
<1>2. ASSUME Is(s, TRUE, q, w, args, 0) PROVE Is(u, TRUE, q, TRUE, args, 0)
  <2>1. PICK c : c = Head(rest)
      OBVIOUS
  <2>2. ConversionType(c, s.prefix) = NoType
      BY <2>1, NoConversion
  <2>3. /\ c # "*" /\ c # "%" /\ c \in Digits
        /\ c \notin {"I", "l", "h", "w", "z", "j", "t", "L"}
    <3>1. c = "5" \/ c = "0"
        BY <2>1 DEF Numerals
    <3> QED BY <3>1, Zenon DEF Digits
  <2>4. DirectiveStep(s, rest) = [s EXCEPT !.width = TRUE]
      BY ONLY <2>1, <2>2, <2>3, Zenon DEF DirectiveStep
  <2>5. u = DirectiveStep(s, rest)
    <3>1. s.returned = FALSE /\ s.skip = 0 /\ s.percent = TRUE
        BY <1>2 DEF Is
    <3> QED BY <1>1, <3>1, StepInside
  <2> QED BY <1>2, <2>4, <2>5 DEF Is
<1> QED BY <1>1, <1>2, StepKeeps

\* The point before a precision, and a flag that is no digit.
LEMMA StepPoint ==
    ASSUME NEW args \in Seq(Arg), NEW q, NEW w, NEW s, Stands(s, TRUE, q, w, args, 0),
           NEW rest, Head(rest) \in PassedOver
    PROVE  Stands(ScanStep(s, rest), TRUE, q, w, args, 0)
<1>1. PICK u : u = ScanStep(s, rest)
    OBVIOUS
<1>2. ASSUME Is(s, TRUE, q, w, args, 0) PROVE Is(u, TRUE, q, w, args, 0)
  <2>1. PICK c : c = Head(rest)
      OBVIOUS
  <2>2. ConversionType(c, s.prefix) = NoType
      BY <2>1, NoConversion
  <2>3. /\ c # "*" /\ c # "%" /\ c \notin Digits
        /\ c \notin {"I", "l", "h", "w", "z", "j", "t", "L"}
    <3>1. c = "." \/ c = "-" \/ c = "+" \/ c = " " \/ c = "#"
        BY <2>1 DEF PassedOver
    <3> QED BY <3>1, Zenon DEF Digits
  <2>4. DirectiveStep(s, rest) = s
      BY ONLY <2>1, <2>2, <2>3, Zenon DEF DirectiveStep
  <2>5. u = DirectiveStep(s, rest)
    <3>1. s.returned = FALSE /\ s.skip = 0 /\ s.percent = TRUE
        BY <1>2 DEF Is
    <3> QED BY <1>1, <3>1, StepInside
  <2> QED BY <1>2, <2>4, <2>5 DEF Is
<1> QED BY <1>1, <1>2, StepKeeps

\* The width flag behind a length: I64 ends with a digit and counts as a width.
WidthBehind(width, length) ==
    IF length = <<>> THEN width ELSE width \/ Last(length) \in Digits

\* What a length begins with.
LengthStarts == {"I", "l", "h", "w", "z", "j", "t", "L"}

\* A length prefix, found whole by find_prefix.
LEMMA StepLength ==
    ASSUME NEW args \in Seq(Arg), NEW w, NEW s, Stands(s, TRUE, <<>>, w, args, 0),
           NEW rest, Head(rest) \in LengthStarts,
           NEW p, p = find_prefix(rest), p # <<>>, NEW k, k = Len(p) - 1,
           NEW w2, w2 = WidthBehind(w, p)
    PROVE  Stands(ScanStep(s, rest), TRUE, p, w2, args, k)
<1>1. PICK u : u = ScanStep(s, rest)
    OBVIOUS
<1>2. ASSUME Is(s, TRUE, <<>>, w, args, 0) PROVE Is(u, TRUE, p, w2, args, k)
  <2>1. Head(rest) # "*"
      BY Zenon DEF LengthStarts
  <2>2. DirectiveStep(s, rest) = PrefixStep(s, rest)
      BY <2>1, Zenon DEF DirectiveStep, LengthStarts
  <2>3. s.width = w
      BY <1>2 DEF Is
  <2>4. u = PrefixStep(s, rest)
    <3>1. s.returned = FALSE /\ s.skip = 0 /\ s.percent = TRUE
        BY <1>2 DEF Is
    <3> QED BY <1>1, <2>2, <3>1, StepInside
  <2>5. u = [s EXCEPT !.prefix = p, !.skip = Len(p) - 1, !.width = @ \/ Last(p) \in Digits]
      BY <2>4, Zenon DEF PrefixStep
  <2>6. DOMAIN u = DOMAIN s /\ u.percent = s.percent /\ u.prefix = p /\ u.args = s.args
        /\ u.skip = k /\ u.returned = s.returned
      BY ONLY <1>2, <2>5, k = Len(p) - 1 DEF Is
  <2>7. u.width = w2
    <3>1. u.width = (s.width \/ Last(p) \in Digits)
        BY ONLY <1>2, <2>5 DEF Is
    <3>2. w2 = (w \/ Last(p) \in Digits)
        BY Zenon DEF WidthBehind
    <3> QED BY <2>3, <3>1, <3>2
  <2> QED BY <1>2, <2>6, <2>7 DEF Is
<1>3. Stands(u, TRUE, p, w2, args, k)
    BY ONLY <1>1, <1>2, Stands(s, TRUE, <<>>, w, args, 0), args \in Seq(Arg), StepKeeps
<1> QED BY <1>1, <1>3

\* A star takes an int and leaves a width.
LEMMA StepStar ==
    ASSUME NEW args \in Seq(Arg), NEW q, NEW w, NEW s, Stands(s, TRUE, q, w, args, 0),
           NEW rest, Head(rest) = "*"
    PROVE  Stands(ScanStep(s, rest), TRUE, q, TRUE, Append(args, ArgOf("INT32", w)), 0)
<1>1. PICK u : u = ScanStep(s, rest)
    OBVIOUS
<1>2. PICK type \in Types : type = "INT32"
    BY DEF Types
<1>3. PICK added : added = AddArg(s, type)
    OBVIOUS
<1>4. PICK more : more = Append(args, ArgOf(type, w))
    OBVIOUS
<1>5. ASSUME Is(s, TRUE, q, w, args, 0)
      PROVE  /\ u.args = added.args /\ u.returned = added.returned
             /\ \A m : Is(added, TRUE, q, w, m, 0) => Is(u, TRUE, q, TRUE, m, 0)
  <2>1. u = DirectiveStep(s, rest)
    <3>1. s.returned = FALSE /\ s.skip = 0 /\ s.percent = TRUE
        BY <1>5 DEF Is
    <3> QED BY <1>1, <3>1, StepInside
  <2>2. u = StarStep(s)
      BY <2>1, Zenon DEF DirectiveStep
  <2>3. u = [added EXCEPT !.width = TRUE]
      BY <1>2, <1>3, <2>2 DEF StarStep
  <2>4. u.args = added.args /\ u.returned = added.returned
      BY ONLY <2>3
  <2>5. \A m : Is(added, TRUE, q, w, m, 0) => Is(u, TRUE, q, TRUE, m, 0)
      BY ONLY <2>3 DEF Is
  <2> QED BY <2>4, <2>5
<1>6. Stands(u, TRUE, q, TRUE, more, 0)
    BY <1>1, <1>3, <1>4, <1>5, StepAdds
<1> QED BY <1>1, <1>2, <1>4, <1>6

\* The second of two percent signs ends the directive.
LEMMA StepLiteral ==
    ASSUME NEW args \in Seq(Arg), NEW q, NEW w, NEW s, Stands(s, TRUE, q, w, args, 0),
           NEW rest, Head(rest) = "%"
    PROVE  Stands(ScanStep(s, rest), FALSE, q, w, args, 0)
<1>1. PICK u : u = ScanStep(s, rest)
    OBVIOUS
<1>2. ASSUME Is(s, TRUE, q, w, args, 0) PROVE Is(u, FALSE, q, w, args, 0)
  <2>1. PICK c : c = Head(rest)
      OBVIOUS
  <2>2. c = "%" /\ c # "*" /\ c \notin {"I", "l", "h", "w", "z", "j", "t", "L"}
      BY <2>1
  <2>3. DirectiveStep(s, rest) = [s EXCEPT !.percent = FALSE]
      BY ONLY <2>1, <2>2, Zenon DEF DirectiveStep
  <2>4. u = DirectiveStep(s, rest)
    <3>1. s.returned = FALSE /\ s.skip = 0 /\ s.percent = TRUE
        BY <1>2 DEF Is
    <3> QED BY <1>1, <3>1, StepInside
  <2> QED BY <1>2, <2>3, <2>4 DEF Is
<1> QED BY <1>1, <1>2, StepKeeps

\* The conversion characters are no flags and no lengths, and each has a type.
LEMMA ConversionsOnly ==
    \A c \in Conversions :
        /\ c # "*" /\ c # "%" /\ c # "h" /\ c # "l" /\ c \notin LengthStarts
        /\ \A q : ConversionType(c, q) # NoType
<1> SUFFICES ASSUME NEW c \in Conversions
             PROVE  /\ c # "*" /\ c # "%" /\ c # "h" /\ c # "l" /\ c \notin LengthStarts
                    /\ \A q : ConversionType(c, q) # NoType
    OBVIOUS
<1>1. c # "*" /\ c # "%" /\ c # "h" /\ c # "l" /\ c \notin LengthStarts
    BY Zenon DEF Conversions, Integrals, Floats, LengthStarts
<1>2. ASSUME NEW q PROVE ConversionType(c, q) # NoType
  <2>1. IntType(q) # NoType
      BY Zenon DEF IntType, NoType
  <2>2. StringType(c, q) # NoType
      BY Zenon DEF StringType, NoType
  <2>3. FloatType(q) # NoType
      BY Zenon DEF FloatType, NoType
  <2>4. CharType(q) # NoType
      BY Zenon DEF CharType, NoType
  <2>5. "PVOID" # NoType
      BY Zenon DEF NoType
  <2> QED BY <2>1, <2>2, <2>3, <2>4, <2>5, Zenon DEF ConversionType, Conversions, Integrals, Floats
<1> QED BY <1>1, <1>2

\* The conversion character takes the argument and ends the directive.
LEMMA StepConvert ==
    ASSUME NEW args \in Seq(Arg), NEW q, NEW w, NEW s, Stands(s, TRUE, q, w, args, 0),
           NEW rest, NEW c \in Conversions, c = Head(rest),
           NEW type \in Types, type = ConversionType(c, q)
    PROVE  Stands(ScanStep(s, rest), FALSE, q, w, Append(args, ArgOf(type, w)), 0)
<1>1. PICK u : u = ScanStep(s, rest)
    OBVIOUS
<1>3. PICK added : added = AddArg(s, type)
    OBVIOUS
<1>4. PICK more : more = Append(args, ArgOf(type, w))
    OBVIOUS
<1>5. ASSUME Is(s, TRUE, q, w, args, 0)
      PROVE  /\ u.args = added.args /\ u.returned = added.returned
             /\ \A m : Is(added, TRUE, q, w, m, 0) => Is(u, FALSE, q, w, m, 0)
  <2>1. u = DirectiveStep(s, rest) /\ s.prefix = q
    <3>1. s.returned = FALSE /\ s.skip = 0 /\ s.percent = TRUE /\ s.prefix = q
        BY <1>5 DEF Is
    <3> QED BY <1>1, <3>1, StepInside
  <2>2. c # "*" /\ c \notin {"I", "l", "h", "w", "z", "j", "t", "L"} /\ c # "%"
      BY ConversionsOnly DEF LengthStarts
  <2>3. u = [added EXCEPT !.percent = FALSE]
      BY <1>3, <2>1, <2>2, ConversionsOnly, Zenon DEF DirectiveStep
  <2>4. u.args = added.args /\ u.returned = added.returned
      BY ONLY <2>3
  <2>5. \A m : Is(added, TRUE, q, w, m, 0) => Is(u, FALSE, q, w, m, 0)
      BY ONLY <2>3 DEF Is
  <2> QED BY <2>4, <2>5
<1>6. Stands(u, FALSE, q, w, more, 0)
    BY <1>1, <1>3, <1>4, <1>5, StepAdds
<1> QED BY <1>1, <1>4, <1>6

-------------------------------------------------------------------------------
(*****************************************************************************)
(* One directive of a format: the scan stands before it and then behind it.  *)
(*****************************************************************************)

\* h is the scan of the format.
Walk(format, h) ==
    \A k \in 1 .. Len(format) : h[k] = ScanStep(h[k - 1], SubSeq(format, k, Len(format)))

\* The word stands in the format behind p characters.
Reads(format, p, word) ==
    /\ p \in Nat /\ p + Len(word) <= Len(format)
    /\ \A i \in 1 .. Len(word) : format[p + i] = word[i]

\* A word that is read is read part by part.
LEMMA ReadsParts ==
    ASSUME NEW S, NEW format \in Seq(S), NEW p, NEW T, NEW a \in Seq(T), NEW b \in Seq(T),
           NEW c, c = a \o b, Reads(format, p, c), NEW p2, p2 = p + Len(a)
    PROVE  Reads(format, p, a) /\ Reads(format, p2, b)
<1>1. p \in Nat /\ Len(a) \in Nat /\ Len(b) \in Nat /\ p2 \in Nat /\ Len(format) \in Nat
    BY DEF Reads
<1>2. /\ Len(c) = Len(a) + Len(b)
      /\ \A i \in 1 .. Len(a) : c[i] = a[i]
      /\ \A i \in 1 .. Len(b) : c[Len(a) + i] = b[i]
    OBVIOUS
<1>3. p + Len(c) <= Len(format) /\ \A i \in 1 .. Len(c) : format[p + i] = c[i]
    BY DEF Reads
<1>4. \A i \in 1 .. Len(a) : i \in 1 .. Len(c)
    BY <1>1, <1>2
<1>5. Reads(format, p, a)
    BY <1>1, <1>2, <1>3, <1>4 DEF Reads
<1>6. ASSUME NEW i \in 1 .. Len(b) PROVE format[p2 + i] = b[i]
  <2>1. PICK j : j = Len(a) + i
      OBVIOUS
  <2>2. j \in 1 .. Len(c) /\ p + j = p2 + i /\ c[j] = b[i]
      BY <1>1, <1>2, <2>1
  <2> QED BY <1>3, <2>2
<1>7. p2 + Len(b) <= Len(format)
    BY <1>1, <1>2, <1>3
<1> QED BY <1>1, <1>5, <1>6, <1>7 DEF Reads

\* The next character, and what the scan makes of it.
Stepped(S, format, h, p, p2, rest) ==
    /\ h[p2] = ScanStep(h[p], rest) /\ p2 \in Nat /\ rest \in Seq(S)
    /\ Len(rest) = Len(format) - p /\ Head(rest) = format[p2]
    /\ \A i \in 1 .. Len(rest) : rest[i] = format[p + i]

\* The scan takes one step for one character.
LEMMA WalkStep ==
    ASSUME NEW S, NEW format \in Seq(S), NEW h, Walk(format, h), NEW p \in Nat, p < Len(format),
           NEW p2, p2 = p + 1, NEW rest, rest = SubSeq(format, p2, Len(format))
    PROVE  Stepped(S, format, h, p, p2, rest)
<1>1. p2 \in 1 .. Len(format) /\ p2 - 1 = p
    OBVIOUS
<1>2. h[p2] = ScanStep(h[p], rest)
    BY <1>1 DEF Walk
<1>3. rest \in Seq(S) /\ Len(rest) = Len(format) - p
    BY <1>1
<1>4. \A i \in 1 .. Len(rest) : rest[i] = format[p + i]
    BY <1>1, <1>3
<1>5. Head(rest) = format[p2]
  <2>1. Head(rest) = rest[1] /\ 1 \in 1 .. Len(rest)
      BY <1>3
  <2> QED BY <1>4, <2>1
<1> QED BY <1>1, <1>2, <1>3, <1>4, <1>5 DEF Stepped

\* The argument of a star.
IntArg == [type |-> "INT32", size |-> 8]

LEMMA IntArgType ==
    /\ IntArg \in Arg
    /\ \A w : ArgOf("INT32", w) = IntArg
<1>1. "INT32" \in Types /\ "INT32" \notin StringTypes /\ "INT32" # "LDOUBLE"
    BY DEF Types, StringTypes
<1>2. \A w : SizeOf("INT32", w) = 8
    BY <1>1, Zenon DEF SizeOf
<1>3. \A w : ArgOf("INT32", w) = IntArg
    BY <1>2, Zenon DEF ArgOf, IntArg
<1>4. IntArg \in Arg
  <2>1. PICK type \in Types : type = "INT32"
      BY <1>1
  <2> QED BY <2>1 DEF IntArg, Arg
<1> QED BY <1>3, <1>4

FieldArgs(field) == IF field = Star THEN <<IntArg>> ELSE <<>>

\* The width flag behind a field.
WidthAfter(width, field) == IF field = "none" THEN width ELSE TRUE

\* The scan stands inside a directive, before a word that is read and behind it.
Before(S, format, h, p, word, prefix, width, args) ==
    /\ format \in Seq(S) /\ Walk(format, h) /\ Reads(format, p, word)
    /\ args \in Seq(Arg) /\ Stands(h[p], TRUE, prefix, width, args, 0)

Behind(h, p, prefix, width, args) ==
    p \in Nat /\ args \in Seq(Arg) /\ Stands(h[p], TRUE, prefix, width, args, 0)

\* A width, or a precision behind its point.
LEMMA WalkField ==
    ASSUME NEW S, NEW format, NEW h, NEW p, NEW field \in Fields, NEW word, word = Spelled(field),
           NEW args, NEW w, Before(S, format, h, p, word, <<>>, w, args),
           NEW p2, p2 = p + Len(word), NEW more, more = args \o FieldArgs(field),
           NEW w2, w2 = WidthAfter(w, field)
    PROVE  Behind(h, p2, <<>>, w2, more)
<1> format \in Seq(S) /\ Walk(format, h) /\ Reads(format, p, word)
    /\ args \in Seq(Arg) /\ Stands(h[p], TRUE, <<>>, w, args, 0)
    BY DEF Before
<1> USE DEF Behind
<1>1. p \in Nat
    BY DEF Reads
<1>2. CASE field = "none"
  <2>1. field # Star /\ word = <<>>
      BY <1>2, Zenon DEF Star, Spelled
  <2>2. p2 = p /\ more = args
      BY <1>1, <1>2, <2>1 DEF FieldArgs
  <2>3. w2 = w
      BY <1>2, Zenon DEF WidthAfter
  <2> QED BY <1>1, <1>2, <2>1, <2>2, <2>3, Zenon
<1>3. CASE field = "digit"
  <2>1. field # Star /\ field # "none" /\ word = <<"5">>
      BY <1>3, Zenon DEF Star, Spelled
  <2>2. Len(word) = 1 /\ word[1] = "5"
      BY <2>1
  <2>3. p < Len(format) /\ p2 = p + 1 /\ format[p2] = "5"
      BY <1>1, <2>2 DEF Reads
  <2>4. PICK rest : rest = SubSeq(format, p2, Len(format))
      OBVIOUS
  <2>5. h[p2] = ScanStep(h[p], rest) /\ Head(rest) = format[p2] /\ p2 \in Nat
    <3>1. Stepped(S, format, h, p, p2, rest)
        BY <1>1, <2>3, <2>4, WalkStep
    <3> QED BY <3>1 DEF Stepped
  <2>6. Stands(h[p2], TRUE, <<>>, TRUE, args, 0)
    <3>1. Head(rest) \in Numerals
        BY <2>3, <2>5 DEF Numerals
    <3> QED BY <2>5, <3>1, StepDigit
  <2>7. more = args
      BY <2>1 DEF FieldArgs
  <2>8. w2 = TRUE
      BY <2>1, Zenon DEF WidthAfter
  <2> QED BY <2>5, <2>6, <2>7, <2>8, Zenon
<1>4. CASE field = Star
  <2>1. field # "none" /\ word = <<"*">>
      BY <1>4, Zenon DEF Star, Spelled
  <2>2. Len(word) = 1 /\ word[1] = "*"
      BY <2>1
  <2>3. p < Len(format) /\ p2 = p + 1 /\ format[p2] = "*"
      BY <1>1, <2>2 DEF Reads
  <2>4. PICK rest : rest = SubSeq(format, p2, Len(format))
      OBVIOUS
  <2>5. h[p2] = ScanStep(h[p], rest) /\ Head(rest) = format[p2] /\ p2 \in Nat
    <3>1. Stepped(S, format, h, p, p2, rest)
        BY <1>1, <2>3, <2>4, WalkStep
    <3> QED BY <3>1 DEF Stepped
  <2>6. Stands(h[p2], TRUE, <<>>, TRUE, Append(args, ArgOf("INT32", w)), 0)
      BY <2>3, <2>5, StepStar
  <2>7. w2 = TRUE
      BY <2>1, Zenon DEF WidthAfter
  <2>8. more = Append(args, ArgOf("INT32", w)) /\ more \in Seq(Arg)
    <3>1. PICK arg \in Arg : arg = IntArg
        BY IntArgType
    <3>2. FieldArgs(field) = <<arg>>
        BY <1>4, <3>1 DEF FieldArgs
    <3>3. more = Append(args, arg) /\ more \in Seq(Arg)
        BY <3>2
    <3> QED BY <3>1, <3>3, IntArgType
  <2> QED BY <2>5, <2>6, <2>7, <2>8, Zenon
<1> QED BY <1>2, <1>3, <1>4 DEF Fields

\* The lengths of short words.
LEMMA WordLengths ==
    /\ \A A : \A q \in Seq(A) : Len(q) \in {1, 2, 3} =>
           q # <<>> /\ 1 \in 1 .. Len(q) /\ Len(q) - 1 \in {0, 1, 2}
    /\ \A A : \A a \in Seq(A), b \in Seq(A) : Len(a \o b) = Len(a) + Len(b)
    OBVIOUS

\* A precision: nothing, or a point and a field.
PrecisionSpelled(field) == IF field = "none" THEN <<>> ELSE <<".">> \o Spelled(field)

LEMMA WalkPrecision ==
    ASSUME NEW S, NEW format, NEW h, NEW p, NEW field \in Fields, NEW word, word = PrecisionSpelled(field),
           NEW args, NEW w, Before(S, format, h, p, word, <<>>, w, args),
           NEW p2, p2 = p + Len(word), NEW more, more = args \o FieldArgs(field),
           NEW w2, w2 = WidthAfter(w, field)
    PROVE  Behind(h, p2, <<>>, w2, more)
<1> format \in Seq(S) /\ Walk(format, h) /\ Reads(format, p, word)
    /\ args \in Seq(Arg) /\ Stands(h[p], TRUE, <<>>, w, args, 0)
    BY DEF Before
<1> USE DEF Behind
<1>1. p \in Nat
    BY DEF Reads
<1>2. CASE field = "none"
  <2>1. field # Star /\ word = <<>>
      BY <1>2, Zenon DEF Star, PrecisionSpelled
  <2>2. p2 = p /\ more = args
      BY <1>1, <1>2, <2>1 DEF FieldArgs
  <2>3. w2 = w
      BY <1>2, Zenon DEF WidthAfter
  <2> QED BY <1>1, <1>2, <2>1, <2>2, <2>3, Zenon
<1>3. CASE field # "none"
  <2>1. PICK b : b = Spelled(field)
      OBVIOUS
  <2>2. b = <<"5">> \/ b = <<"*">>
    <3>1. field = "digit" \/ field = Star
        BY <1>3 DEF Fields
    <3>2. Star # "digit"
        BY DEF Star
    <3> QED BY <2>1, <3>1, <3>2, Zenon DEF Spelled
  <2>3. PICK T : T = {".", "5", "*"}
      OBVIOUS
  <2>4. PICK a : a = <<".">>
      OBVIOUS
  <2>5. a \in Seq(T) /\ b \in Seq(T) /\ Len(a) = 1 /\ a[1] = "."
    <3>1. "." \in T /\ "5" \in T /\ "*" \in T
        BY <2>3
    <3>2. \A x \in T : <<x>> \in Seq(T) /\ Len(<<x>>) = 1 /\ <<x>>[1] = x
        OBVIOUS
    <3> QED BY ONLY <2>2, <2>4, <3>1, <3>2, Zenon
  <2>6. word = a \o b
      BY <1>3, <2>1, <2>4 DEF PrecisionSpelled
  <2>7. PICK m : m = p + Len(a)
      OBVIOUS
  <2>8. Reads(format, p, a) /\ Reads(format, m, b)
      BY <2>5, <2>6, <2>7, ReadsParts
  <2>9. p < Len(format) /\ m = p + 1 /\ format[m] = "."
      BY <1>1, <2>5, <2>7, <2>8 DEF Reads
  <2>10. PICK rest : rest = SubSeq(format, m, Len(format))
      OBVIOUS
  <2>11. h[m] = ScanStep(h[p], rest) /\ Head(rest) = "." /\ m \in Nat
    <3>1. Stepped(S, format, h, p, m, rest)
        BY <1>1, <2>9, <2>10, WalkStep
    <3> QED BY <2>9, <3>1 DEF Stepped
  <2>12. Stands(h[m], TRUE, <<>>, w, args, 0)
    <3>1. Head(rest) \in PassedOver
        BY <2>11 DEF PassedOver
    <3> QED BY <2>11, <3>1, StepPoint
  <2>13. p2 = m + Len(b)
    <3>1. Len(word) = Len(a) + Len(b)
        BY ONLY <2>5, <2>6, WordLengths
    <3>2. Len(a) \in Nat /\ Len(b) \in Nat
        BY ONLY <2>5
    <3> QED BY <1>1, <2>7, <3>1, <3>2
  <2>14. b = Spelled(field)
      BY <2>1
  <2>15. Before(S, format, h, m, b, <<>>, w, args)
      BY <2>8, <2>12 DEF Before
  <2> QED BY <2>13, <2>14, <2>15, WalkField
<1> QED BY <1>2, <1>3

\* A length or none.
AnyLength == AllLengths \cup {<<>>}

\* A length, in front of the conversion character.
Follows(format, p) == p < Len(format) /\ format[p + 1] \notin {"h", "l"}

LEMMA WalkLength ==
    ASSUME NEW S, NEW format, NEW h, NEW p, NEW q \in AnyLength,
           NEW args, NEW w, Before(S, format, h, p, q, <<>>, w, args),
           NEW p2, p2 = p + Len(q), Follows(format, p2), NEW w2, w2 = WidthBehind(w, q)
    PROVE  Behind(h, p2, q, w2, args)
<1> format \in Seq(S) /\ Walk(format, h) /\ Reads(format, p, q)
    /\ args \in Seq(Arg) /\ Stands(h[p], TRUE, <<>>, w, args, 0)
    /\ p2 < Len(format) /\ format[p2 + 1] \notin {"h", "l"}
    BY DEF Before, Follows
<1> USE DEF Behind
<1>1. p \in Nat
    BY DEF Reads
<1>2. CASE q = <<>>
  <2>1. p2 = p
      BY <1>1, <1>2
  <2>2. w2 = w
      BY <1>2, Zenon DEF WidthBehind
  <2> QED BY <1>1, <1>2, <2>1, <2>2
<1>3. CASE q \in AllLengths
  <2>1. \E k \in {1, 3, 4, 5, 6, 7, 9, 10, 12} : q = gs_prefixes[k]
      BY <1>3, PrefixTable, Zenon DEF AllLengths
  <2>2. PICK k \in 1 .. 12 : k \in {1, 3, 4, 5, 6, 7, 9, 10, 12} /\ q = gs_prefixes[k]
      BY <2>1
  <2>3. q \in Seq(PrefixChars) /\ Len(q) \in {1, 2, 3}
    <3>1. q \in Seq(PrefixChars)
        BY <2>2, PrefixFirsts DEF Letters
    <3>2. \/ \E a : q = <<a>>
          \/ \E a, b : q = <<a, b>>
          \/ \E a, b, c : q = <<a, b, c>>
        BY <1>3, Zenon DEF AllLengths
    <3> QED BY <3>1, <3>2
  <2>4. q[1] \in {"I", "l", "h", "w", "z", "j", "t", "L"}
    <3>1. FirstOf(k) \in {"I", "l", "h", "w", "z", "j", "t", "L"}
        BY <2>2, PrefixFirsts
    <3> QED BY <2>2, <3>1 DEF FirstOf
  <2>5. PICK m : m = p + 1
      OBVIOUS
  <2>6. PICK rest : rest = SubSeq(format, m, Len(format))
      OBVIOUS
  <2>7. Stepped(S, format, h, p, m, rest)
    <3>1. p < Len(format)
        BY <1>1, <2>3
    <3> QED BY <1>1, <2>5, <2>6, <3>1, WalkStep
  <2>8. rest \in Seq(S) /\ Len(rest) = Len(format) - p /\ \A i \in 1 .. Len(rest) : rest[i] = format[p + i]
      BY <2>7 DEF Stepped
  <2>9. find_prefix(rest) = q
    <3>1. Len(q) < Len(rest)
        BY <1>1, <2>3, <2>8
    <3>2. \A i \in 1 .. Len(q) : q[i] = rest[i]
      <4>1. \A i \in 1 .. Len(q) : i \in 1 .. Len(rest)
          BY <2>3, <2>8, <3>1
      <4> QED BY <2>8, <4>1 DEF Reads
    <3>3. rest[Len(q) + 1] \notin {"h", "l"}
      <4>1. Len(q) + 1 \in 1 .. Len(rest) /\ p + (Len(q) + 1) = p2 + 1
          BY <1>1, <2>3, <2>8, <3>1
      <4> QED BY <2>8, <4>1
    <3> QED BY ONLY <1>3, <2>8, <3>1, <3>2, <3>3, PrefixFound
  <2>10. Head(rest) = q[1]
    <3>1. Head(rest) = format[m]
        BY <2>7 DEF Stepped
    <3>2. 1 \in 1 .. Len(q)
        BY ONLY <2>3, WordLengths
    <3> QED BY <2>5, <3>1, <3>2 DEF Reads
  <2>11. PICK n : n = Len(q) - 1
      OBVIOUS
  <2>12. q # <<>>
      BY ONLY <2>3, WordLengths
  <2>14. Stands(h[m], TRUE, q, w2, args, n)
    <3>1. Stands(ScanStep(h[p], rest), TRUE, q, w2, args, n)
      <4>1. Head(rest) \in LengthStarts
          BY <2>4, <2>10 DEF LengthStarts
      <4>2. q = find_prefix(rest)
          BY <2>9
      <4>3. PICK s : s = h[p]
          OBVIOUS
      <4>4. Stands(s, TRUE, <<>>, w, args, 0)
          BY <4>3
      <4> QED BY ONLY args \in Seq(Arg), w2 = WidthBehind(w, q),
                      <2>11, <2>12, <4>1, <4>2, <4>3, <4>4, StepLength
    <3> QED BY <2>7, <3>1 DEF Stepped
  <2>15. m \in Nat /\ n \in {0, 1, 2} /\ p2 = m + n
      BY <1>1, <2>3, <2>5, <2>11
  <2>16. ASSUME NEW x \in Nat, x < Len(format), NEW j \in Nat, Stands(h[x], TRUE, q, w2, args, j + 1)
         PROVE  Stands(h[x + 1], TRUE, q, w2, args, j)
    <3>1. PICK y : y = x + 1
        OBVIOUS
    <3>2. PICK r : r = SubSeq(format, y, Len(format))
        OBVIOUS
    <3>3. Stepped(S, format, h, x, y, r)
        BY <2>16, <3>1, <3>2, WalkStep
    <3>4. Stands(ScanStep(h[x], r), TRUE, q, w2, args, j)
        BY <2>16, StepSkip
    <3> QED BY <3>1, <3>3, <3>4 DEF Stepped
  <2>17. CASE n = 0
    <3>1. p2 = m
        BY <2>15, <2>17
    <3> QED BY <2>14, <2>15, <2>17, <3>1, Zenon
  <2>18. CASE n = 1
    <3>1. m < Len(format) /\ n = 0 + 1 /\ p2 = m + 1 /\ 0 \in Nat /\ p2 \in Nat
        BY <1>1, <2>15, <2>18
    <3>2. Stands(h[m], TRUE, q, w2, args, 0 + 1)
        BY <2>14, <3>1, Zenon
    <3>3. Stands(h[m + 1], TRUE, q, w2, args, 0)
        BY <2>15, <2>16, <3>1, <3>2, Zenon
    <3> QED BY <3>1, <3>3, Zenon
  <2>19. CASE n = 2
    <3>1. PICK m2 : m2 = m + 1
        OBVIOUS
    <3>2. /\ m < Len(format) /\ n = 1 + 1 /\ m2 \in Nat /\ m2 < Len(format) /\ p2 = m2 + 1
          /\ 0 \in Nat /\ 1 \in Nat /\ 1 = 0 + 1 /\ p2 \in Nat
        BY <1>1, <2>15, <2>19, <3>1
    <3>3. Stands(h[m], TRUE, q, w2, args, 1 + 1)
        BY <2>14, <3>2, Zenon
    <3>4. Stands(h[m2], TRUE, q, w2, args, 1)
        BY <2>15, <2>16, <3>1, <3>2, <3>3, Zenon
    <3>5. Stands(h[m2 + 1], TRUE, q, w2, args, 0)
        BY <2>16, <3>2, <3>4, Zenon
    <3> QED BY <3>2, <3>5, Zenon
  <2> QED BY <2>15, <2>17, <2>18, <2>19
<1> QED BY <1>2, <1>3 DEF AnyLength

\* The scan stands outside the directives.
Outside(h, p, args) ==
    p \in Nat /\ args \in Seq(Arg) /\ \E q, w : Stands(h[p], FALSE, q, w, args, 0)

\* The conversion character.
LEMMA WalkConversion ==
    ASSUME NEW S, NEW format, NEW h, NEW p, NEW c \in Conversions, NEW e, e = <<c>>,
           NEW q, NEW args, NEW w, Before(S, format, h, p, e, q, w, args),
           NEW type \in Types, type = ConversionType(c, q),
           NEW p2, p2 = p + 1, NEW more, more = Append(args, ArgOf(type, w))
    PROVE  Outside(h, p2, more)
<1>1. /\ format \in Seq(S) /\ Walk(format, h) /\ Reads(format, p, e)
      /\ args \in Seq(Arg) /\ Stands(h[p], TRUE, q, w, args, 0)
    BY DEF Before
<1>2. Len(e) = 1 /\ e[1] = c
    OBVIOUS
<1>3. p \in Nat /\ p < Len(format) /\ format[p2] = c
    BY <1>1, <1>2 DEF Reads
<1>4. PICK rest : rest = SubSeq(format, p2, Len(format))
    OBVIOUS
<1>5. Stepped(S, format, h, p, p2, rest)
    BY <1>1, <1>3, <1>4, WalkStep
<1>6. h[p2] = ScanStep(h[p], rest) /\ p2 \in Nat /\ c = Head(rest)
    BY <1>3, <1>5 DEF Stepped
<1>7. more \in Seq(Arg)
  <2>1. PICK arg \in Arg : arg = ArgOf(type, w)
      BY ArgOfType
  <2> QED BY <1>1, <2>1
<1>8. Stands(h[p2], FALSE, q, w, more, 0)
  <2>1. PICK s : s = h[p] /\ Stands(s, TRUE, q, w, args, 0)
      BY <1>1
  <2>2. Stands(ScanStep(s, rest), FALSE, q, w, Append(args, ArgOf(type, w)), 0)
      BY <1>1, <1>6, <2>1, StepConvert
  <2> QED BY <1>6, <2>1, <2>2
<1> QED BY <1>6, <1>7, <1>8, Zenon DEF Outside

\* The second percent sign, in the place of the conversion character.
LEMMA WalkLiteral ==
    ASSUME NEW S, NEW format, NEW h, NEW p, NEW e, e = <<"%">>,
           NEW q, NEW args, NEW w, Before(S, format, h, p, e, q, w, args), NEW p2, p2 = p + 1
    PROVE  Outside(h, p2, args)
<1>1. /\ format \in Seq(S) /\ Walk(format, h) /\ Reads(format, p, e)
      /\ args \in Seq(Arg) /\ Stands(h[p], TRUE, q, w, args, 0)
    BY DEF Before
<1>2. Len(e) = 1 /\ e[1] = "%"
    OBVIOUS
<1>3. p \in Nat /\ p < Len(format) /\ format[p2] = "%"
    BY <1>1, <1>2 DEF Reads
<1>4. PICK rest : rest = SubSeq(format, p2, Len(format))
    OBVIOUS
<1>5. Stepped(S, format, h, p, p2, rest)
    BY <1>1, <1>3, <1>4, WalkStep
<1>6. h[p2] = ScanStep(h[p], rest) /\ p2 \in Nat /\ Head(rest) = "%"
    BY <1>3, <1>5 DEF Stepped
<1>7. PICK s : s = h[p] /\ Stands(s, TRUE, q, w, args, 0)
    BY <1>1
<1>8. Stands(ScanStep(s, rest), FALSE, q, w, args, 0)
    BY <1>1, <1>6, <1>7, StepLiteral
<1>9. Stands(h[p2], FALSE, q, w, args, 0)
    BY <1>6, <1>7, <1>8
<1> QED BY <1>1, <1>6, <1>9, Zenon DEF Outside

\* Plain text is passed over.
LEMMA WalkText ==
    ASSUME NEW S, NEW format \in Seq(S), NEW h, Walk(format, h), NEW p,
           NEW text \in Seq(Plain), Reads(format, p, text), NEW args, Outside(h, p, args),
           NEW last, last = p + Len(text)
    PROVE  Outside(h, last, args)
<1> DEFINE T == {n \in Nat : n <= Len(text) => Outside(h, p + n, args)}
<1>1. p \in Nat /\ p + Len(text) <= Len(format) /\ \A i \in 1 .. Len(text) : format[p + i] = text[i]
    BY DEF Reads
<1>2. 0 \in T
  <2>1. p + 0 = p
      BY <1>1
  <2> QED BY <2>1
<1>3. ASSUME NEW n \in Nat, n \in T PROVE n + 1 \in T
  <2> SUFFICES ASSUME n + 1 <= Len(text) PROVE Outside(h, p + (n + 1), args)
      OBVIOUS
  <2>1. PICK m : m = p + n
      OBVIOUS
  <2>2. PICK m2 : m2 = p + (n + 1)
      OBVIOUS
  <2>3. m \in Nat /\ m2 = m + 1 /\ m < Len(format) /\ n + 1 \in 1 .. Len(text)
      BY <1>1, <2>1, <2>2
  <2>4. format[m2] = text[n + 1] /\ text[n + 1] \in Plain
      BY <1>1, <2>2, <2>3
  <2>5. Outside(h, m, args)
      BY <1>3, <2>1
  <2>6. args \in Seq(Arg)
      BY <2>5 DEF Outside
  <2>7. PICK s, q, w : s = h[m] /\ Stands(s, FALSE, q, w, args, 0)
      BY <2>5 DEF Outside
  <2>8. PICK rest : rest = SubSeq(format, m2, Len(format))
      OBVIOUS
  <2>9. Stepped(S, format, h, m, m2, rest)
      BY <2>3, <2>8, WalkStep
  <2>10. h[m2] = ScanStep(s, rest) /\ m2 \in Nat /\ Head(rest) # "%"
      BY <2>4, <2>7, <2>9, PlainAssumption DEF Stepped
  <2>11. Stands(ScanStep(s, rest), FALSE, q, w, args, 0)
      BY <2>6, <2>7, <2>10, StepPlain
  <2>12. Stands(h[m2], FALSE, q, w, args, 0)
      BY <2>10, <2>11
  <2> QED BY <2>2, <2>6, <2>10, <2>12, Zenon DEF Outside
<1>4. Nat \subseteq T
  <2> HIDE DEF T
  <2> QED BY <1>2, <1>3, NatSetInduction, Zenon
<1>5. Len(text) \in T
  <2>1. Len(text) \in Nat
      OBVIOUS
  <2> QED BY <1>4, <2>1
<1> QED BY <1>5

\* The flags; a 0 among the first n of them counts as a width.
FlagChars == {"-", "+", " ", "#", "0"}

ZeroIn(flags, n) == \E i \in 1 .. n : flags[i] = "0"

LEMMA ZeroMore ==
    ASSUME NEW flags, NEW n \in Nat
    PROVE  /\ ZeroIn(flags, 0) = FALSE
           /\ flags[n + 1] = "0" => ZeroIn(flags, n + 1) = TRUE
           /\ flags[n + 1] # "0" => ZeroIn(flags, n + 1) = ZeroIn(flags, n)
<1>1. \A i : i \in 1 .. (n + 1) <=> i \in 1 .. n \/ i = n + 1
    OBVIOUS
<1>2. \A i : i \notin 1 .. 0
    OBVIOUS
<1> QED BY ONLY <1>1, <1>2, Zenon DEF ZeroIn

\* The scan stands behind the first n flags.
FlagsWalked(h, p, flags, args, n) == Stands(h[p + n], TRUE, <<>>, ZeroIn(flags, n), args, 0)

LEMMA WalkFlags ==
    ASSUME NEW S, NEW format, NEW h, NEW p, NEW flags \in Seq(FlagChars),
           NEW args, Before(S, format, h, p, flags, <<>>, FALSE, args),
           NEW p2, p2 = p + Len(flags), NEW w, w = ZeroIn(flags, Len(flags))
    PROVE  Behind(h, p2, <<>>, w, args)
<1> DEFINE T == {n \in Nat : n <= Len(flags) => FlagsWalked(h, p, flags, args, n)}
<1>1. /\ format \in Seq(S) /\ Walk(format, h) /\ args \in Seq(Arg)
      /\ Stands(h[p], TRUE, <<>>, FALSE, args, 0)
    BY DEF Before
<1>2. p \in Nat /\ p + Len(flags) <= Len(format) /\ \A i \in 1 .. Len(flags) : format[p + i] = flags[i]
    BY DEF Before, Reads
<1>3. 0 \in T
  <2>1. p + 0 = p
      BY <1>2
  <2>2. ZeroIn(flags, 0) = FALSE
      BY ZeroMore
  <2>3. FlagsWalked(h, p, flags, args, 0)
      BY <1>1, <2>1, <2>2, Zenon DEF FlagsWalked
  <2> QED BY <2>3
<1>4. ASSUME NEW n \in Nat, n \in T PROVE n + 1 \in T
  <2> SUFFICES ASSUME n + 1 <= Len(flags) PROVE FlagsWalked(h, p, flags, args, n + 1)
      OBVIOUS
  <2>1. PICK m : m = p + n
      OBVIOUS
  <2>2. PICK m2 : m2 = p + (n + 1)
      OBVIOUS
  <2>3. m \in Nat /\ m2 = m + 1 /\ m < Len(format) /\ n + 1 \in 1 .. Len(flags)
      BY <1>2, <2>1, <2>2
  <2>4. PICK c \in FlagChars : c = flags[n + 1] /\ c = format[m2]
      BY <1>2, <2>2, <2>3
  <2>5. PICK w0 : w0 = ZeroIn(flags, n)
      OBVIOUS
  <2>6. PICK s : s = h[m]
      OBVIOUS
  <2>7. Stands(s, TRUE, <<>>, w0, args, 0)
    <3>1. FlagsWalked(h, p, flags, args, n)
        BY <1>4
    <3> QED BY <2>1, <2>5, <2>6, <3>1, Zenon DEF FlagsWalked
  <2>8. PICK rest : rest = SubSeq(format, m2, Len(format))
      OBVIOUS
  <2>9. Stepped(S, format, h, m, m2, rest)
      BY <1>1, <2>3, <2>8, WalkStep
  <2>10. h[m2] = ScanStep(s, rest) /\ Head(rest) = c
      BY <2>4, <2>6, <2>9 DEF Stepped
  <2>11. CASE c = "0"
    <3>1. Head(rest) \in Numerals
        BY <2>10, <2>11 DEF Numerals
    <3>2. Stands(ScanStep(s, rest), TRUE, <<>>, TRUE, args, 0)
        BY <1>1, <2>7, <3>1, StepDigit
    <3>3. ZeroIn(flags, n + 1) = TRUE
        BY <2>4, <2>11, ZeroMore
    <3> QED BY <2>2, <2>10, <3>2, <3>3, Zenon DEF FlagsWalked
  <2>12. CASE c # "0"
    <3>1. Head(rest) \in PassedOver
        BY <2>10, <2>12 DEF PassedOver, FlagChars
    <3>2. Stands(ScanStep(s, rest), TRUE, <<>>, w0, args, 0)
        BY <1>1, <2>7, <3>1, StepPoint
    <3>3. ZeroIn(flags, n + 1) = w0
        BY <2>4, <2>5, <2>12, ZeroMore
    <3> QED BY <2>2, <2>10, <3>2, <3>3, Zenon DEF FlagsWalked
  <2> QED BY <2>11, <2>12
<1>5. Nat \subseteq T
  <2> HIDE DEF T
  <2> QED BY <1>3, <1>4, NatSetInduction, Zenon
<1>6. Stands(h[p2], TRUE, <<>>, w, args, 0)
  <2>1. Len(flags) \in Nat
      OBVIOUS
  <2>2. Len(flags) \in T
      BY <1>5, <2>1
  <2>3. FlagsWalked(h, p, flags, args, Len(flags))
      BY <2>2
  <2> QED BY <2>3, Zenon DEF FlagsWalked
<1>7. p2 \in Nat
    BY <1>2
<1> QED BY <1>1, <1>6, <1>7, Zenon DEF Behind

\* The percent sign.
LEMMA WalkPercent ==
    ASSUME NEW S, NEW format, NEW h, NEW p, format \in Seq(S), Walk(format, h),
           NEW z, z = <<"%">>, Reads(format, p, z), NEW args, Outside(h, p, args),
           NEW p2, p2 = p + 1
    PROVE  Behind(h, p2, <<>>, FALSE, args)
<1>1. Len(z) = 1 /\ z[1] = "%"
    OBVIOUS
<1>2. p \in Nat /\ p < Len(format) /\ format[p2] = "%"
    BY <1>1 DEF Reads
<1>3. args \in Seq(Arg)
    BY DEF Outside
<1>4. PICK s, q, w : s = h[p] /\ Stands(s, FALSE, q, w, args, 0)
    BY DEF Outside
<1>5. PICK rest : rest = SubSeq(format, p2, Len(format))
    OBVIOUS
<1>6. Stepped(S, format, h, p, p2, rest)
    BY <1>2, <1>5, WalkStep
<1>7. h[p2] = ScanStep(s, rest) /\ p2 \in Nat /\ Head(rest) = "%"
    BY <1>2, <1>4, <1>6 DEF Stepped
<1>8. Stands(ScanStep(s, rest), TRUE, <<>>, FALSE, args, 0)
    BY <1>3, <1>4, <1>7, StepPercent
<1> QED BY <1>3, <1>7, <1>8 DEF Behind

\* The parts of a directive.
LEMMA DirectiveParts ==
    ASSUME NEW d \in Directive
    PROVE  /\ d.text \in Seq(Plain) /\ d.flags \in Seq(FlagChars)
           /\ d.width \in Fields /\ d.precision \in Fields /\ d.conv \in Conversions \cup {"%"}
           /\ d.length \in Lengths(d.conv) /\ d.length \in AnyLength
           /\ "0" \in Range(d.flags) => d.conv \in Integrals \cup Floats
<1>1. PICK L : L = UNION {Lengths(conv) : conv \in Conversions}
    OBVIOUS
<1>2. d \in [text : Seq(Plain), flags : Seq(FlagChars), width : Fields, precision : Fields,
              length : L, conv : Conversions \cup {"%"}]
    BY <1>1 DEF Directive, FlagChars
<1>3. d.text \in Seq(Plain) /\ d.flags \in Seq(FlagChars) /\ d.width \in Fields /\ d.precision \in Fields
      /\ d.conv \in Conversions \cup {"%"}
    BY ONLY <1>2
<1>4. d.length \in Lengths(d.conv) /\ ("0" \in Range(d.flags) => d.conv \in Integrals \cup Floats)
    BY DEF Directive
<1>5. \A c : Lengths(c) \subseteq AnyLength
    BY Zenon DEF Lengths, AnyLength, AllLengths
<1> QED BY <1>3, <1>4, <1>5, Zenon

\* The characters of formats.
Chars == {"%", "5", "*", "."} \cup FlagChars \cup PrefixChars \cup Conversions \cup Plain

LEMMA Singles == \A c \in Chars : <<c>> \in Seq(Chars)
    OBVIOUS

LEMMA WiderSequence ==
    ASSUME NEW A, NEW B, A \subseteq B, NEW s \in Seq(A)
    PROVE  s \in Seq(B)
    OBVIOUS

\* The words of a format are of these characters.
LEMMA DirectiveWords ==
    /\ <<"%">> \in Seq(Chars)
    /\ \A text \in Seq(Plain) : text \in Seq(Chars)
    /\ \A flags \in Seq(FlagChars) : flags \in Seq(Chars)
    /\ \A field \in Fields : Spelled(field) \in Seq(Chars) /\ PrecisionSpelled(field) \in Seq(Chars)
    /\ \A q \in AnyLength : q \in Seq(Chars)
    /\ \A c \in Conversions \cup {"%"} : <<c>> \in Seq(Chars)
<1>1. /\ "%" \in Chars /\ "5" \in Chars /\ "*" \in Chars /\ "." \in Chars
      /\ Conversions \subseteq Chars /\ PrefixChars \subseteq Chars
      /\ FlagChars \subseteq Chars /\ Plain \subseteq Chars
    BY Zenon DEF Chars
<1>2. <<"%">> \in Seq(Chars) /\ \A c \in Conversions \cup {"%"} : <<c>> \in Seq(Chars)
    BY <1>1, Singles, Zenon
<1>3. ASSUME NEW field \in Fields
      PROVE  Spelled(field) \in Seq(Chars) /\ PrecisionSpelled(field) \in Seq(Chars)
  <2>1. <<"5">> \in Seq(Chars) /\ <<"*">> \in Seq(Chars) /\ <<".">> \in Seq(Chars)
      BY <1>1, Singles, Zenon
  <2>2. <<>> \in Seq(Chars)
      OBVIOUS
  <2>3. PICK b : b = Spelled(field)
      OBVIOUS
  <2>4. b \in Seq(Chars)
      BY <2>1, <2>2, <2>3, Zenon DEF Spelled
  <2>5. PICK a \in Seq(Chars) : a = <<".">>
      BY <2>1
  <2>6. a \o b \in Seq(Chars)
      BY <2>4
  <2> QED BY <2>2, <2>3, <2>4, <2>5, <2>6, Zenon DEF PrecisionSpelled
<1>4. ASSUME NEW q \in AnyLength PROVE q \in Seq(Chars)
  <2>1. <<>> \in Seq(Chars)
      OBVIOUS
  <2>2. ASSUME q \in AllLengths PROVE q \in Seq(Chars)
    <3>1. \E k \in {1, 3, 4, 5, 6, 7, 9, 10, 12} : q = gs_prefixes[k]
        BY <2>2, PrefixTable, Zenon DEF AllLengths
    <3>2. PICK k \in 1 .. 12 : q = gs_prefixes[k]
        BY <3>1
    <3>3. q \in Seq(PrefixChars)
        BY <3>2, PrefixFirsts DEF Letters
    <3> QED BY ONLY <1>1, <3>3, WiderSequence
  <2> QED BY <2>1, <2>2 DEF AnyLength
<1>5. ASSUME NEW text \in Seq(Plain) PROVE text \in Seq(Chars)
    BY <1>1, WiderSequence
<1>6. ASSUME NEW flags \in Seq(FlagChars) PROVE flags \in Seq(Chars)
    BY <1>1, WiderSequence
<1> QED BY <1>2, <1>3, <1>4, <1>5, <1>6

\* Seven words make one.
LEMMA SevenJoined ==
    ASSUME NEW T, NEW t \in Seq(T), NEW z \in Seq(T), NEW f \in Seq(T), NEW a \in Seq(T),
           NEW b \in Seq(T), NEW q \in Seq(T), NEW e \in Seq(T)
    PROVE  (((((t \o z) \o f) \o a) \o b) \o q) \o e \in Seq(T)
<1>1. \A x, y \in Seq(T) : x \o y \in Seq(T)
    BY ConcatProperties, Zenon
<1>2. (t \o z) \o f \in Seq(T)
    BY <1>1, Zenon
<1>3. ((t \o z) \o f) \o a \in Seq(T)
    BY <1>1, <1>2, Zenon
<1>4. (((t \o z) \o f) \o a) \o b \in Seq(T)
    BY <1>1, <1>3, Zenon
<1>5. ((((t \o z) \o f) \o a) \o b) \o q \in Seq(T)
    BY <1>1, <1>4, Zenon
<1> QED BY <1>1, <1>5, Zenon

\* The words of a directive are read one behind the other, the last one up to its end.
SevenRead(format, p, p1, p2, p3, p4, p5, p6, t, z, f, a, b, q, e, last) ==
    /\ Reads(format, p, t) /\ Reads(format, p1, z) /\ Reads(format, p2, f) /\ Reads(format, p3, a)
    /\ Reads(format, p4, b) /\ Reads(format, p5, q) /\ Reads(format, p6, e)
    /\ last = p6 + Len(e)

LEMMA ReadsSeven ==
    ASSUME NEW S, NEW format \in Seq(S), NEW p, NEW T,
           NEW t \in Seq(T), NEW z \in Seq(T), NEW f \in Seq(T), NEW a \in Seq(T), NEW b \in Seq(T),
           NEW q \in Seq(T), NEW e \in Seq(T),
           NEW word, word = (((((t \o z) \o f) \o a) \o b) \o q) \o e, Reads(format, p, word),
           NEW p1, p1 = p + Len(t), NEW p2, p2 = p1 + Len(z), NEW p3, p3 = p2 + Len(f),
           NEW p4, p4 = p3 + Len(a), NEW p5, p5 = p4 + Len(b), NEW p6, p6 = p5 + Len(q)
    PROVE  SevenRead(format, p, p1, p2, p3, p4, p5, p6, t, z, f, a, b, q, e, p + Len(word))
<1> \A x, y \in Seq(T) : x \o y \in Seq(T)
    BY ConcatProperties, Zenon
<1>1. PICK w1 \in Seq(T) : w1 = t \o z
    BY Zenon
<1>2. PICK w2 \in Seq(T) : w2 = w1 \o f
    BY Zenon
<1>3. PICK w3 \in Seq(T) : w3 = w2 \o a
    BY Zenon
<1>4. PICK w4 \in Seq(T) : w4 = w3 \o b
    BY Zenon
<1>5. PICK w5 \in Seq(T) : w5 = w4 \o q
    BY Zenon
<1>6. word = w5 \o e
    BY <1>1, <1>2, <1>3, <1>4, <1>5
<1>7. /\ p \in Nat /\ Len(t) \in Nat /\ Len(z) \in Nat /\ Len(f) \in Nat /\ Len(a) \in Nat
      /\ Len(b) \in Nat /\ Len(q) \in Nat /\ Len(e) \in Nat
  <2>1. \A x \in Seq(T) : Len(x) \in Nat
      OBVIOUS
  <2> QED BY <2>1, Zenon DEF Reads
<1>8. /\ Len(w1) = Len(t) + Len(z) /\ Len(w2) = Len(w1) + Len(f) /\ Len(w3) = Len(w2) + Len(a)
      /\ Len(w4) = Len(w3) + Len(b) /\ Len(w5) = Len(w4) + Len(q) /\ Len(word) = Len(w5) + Len(e)
    BY <1>1, <1>2, <1>3, <1>4, <1>5, <1>6, WordLengths
<1>9. /\ p2 = p + Len(w1) /\ p3 = p + Len(w2) /\ p4 = p + Len(w3) /\ p5 = p + Len(w4)
      /\ p6 = p + Len(w5) /\ p + Len(word) = p6 + Len(e)
  <2>1. p2 = p + Len(w1)
      BY ONLY <1>7, <1>8, p1 = p + Len(t), p2 = p1 + Len(z)
  <2>2. p3 = p + Len(w2)
      BY ONLY <1>7, <1>8, <2>1, p3 = p2 + Len(f)
  <2>3. p4 = p + Len(w3)
      BY ONLY <1>7, <1>8, <2>2, p4 = p3 + Len(a)
  <2>4. p5 = p + Len(w4)
      BY ONLY <1>7, <1>8, <2>3, p5 = p4 + Len(b)
  <2>5. p6 = p + Len(w5)
      BY ONLY <1>7, <1>8, <2>4, p6 = p5 + Len(q)
  <2>6. p + Len(word) = p6 + Len(e)
      BY ONLY <1>7, <1>8, <2>5
  <2> QED BY <2>1, <2>2, <2>3, <2>4, <2>5, <2>6, Zenon
<1>10. Reads(format, p, w5) /\ Reads(format, p6, e)
    BY <1>6, <1>9, ReadsParts
<1>11. Reads(format, p, w4) /\ Reads(format, p5, q)
    BY <1>5, <1>9, <1>10, ReadsParts
<1>12. Reads(format, p, w3) /\ Reads(format, p4, b)
    BY <1>4, <1>9, <1>11, ReadsParts
<1>13. Reads(format, p, w2) /\ Reads(format, p3, a)
    BY <1>3, <1>9, <1>12, ReadsParts
<1>14. Reads(format, p, w1) /\ Reads(format, p2, f)
    BY <1>2, <1>9, <1>13, ReadsParts
<1>15. Reads(format, p, t) /\ Reads(format, p1, z)
    BY <1>1, <1>14, ReadsParts
<1> QED BY <1>9, <1>10, <1>11, <1>12, <1>13, <1>14, <1>15, Zenon DEF SevenRead

\* The arguments the scan finds in a directive.
WidthOf(d) ==
    WidthBehind(WidthAfter(WidthAfter(ZeroIn(d.flags, Len(d.flags)), d.width), d.precision), d.length)

ConvertedArgs(d) ==
    IF d.conv = "%" THEN <<>> ELSE <<ArgOf(ConversionType(d.conv, d.length), WidthOf(d))>>

FoundIn(d) == FieldArgs(d.width) \o FieldArgs(d.precision) \o ConvertedArgs(d)

LEMMA FieldArgsType ==
    ASSUME NEW field
    PROVE  FieldArgs(field) \in Seq(Arg)
<1>1. PICK arg \in Arg : arg = IntArg
    BY IntArgType
<1>2. <<arg>> \in Seq(Arg) /\ <<>> \in Seq(Arg)
    OBVIOUS
<1> QED BY <1>1, <1>2, Zenon DEF FieldArgs

LEMMA ConvertedArgsType ==
    ASSUME NEW d
    PROVE  ConvertedArgs(d) \in Seq(Arg)
<1>1. PICK type \in Types : type = ConversionType(d.conv, d.length)
    BY ConversionTypeType
<1>2. PICK w : w = WidthOf(d)
    OBVIOUS
<1>3. PICK arg \in Arg : arg = ArgOf(type, w)
    BY ArgOfType
<1>4. <<arg>> \in Seq(Arg) /\ <<>> \in Seq(Arg)
    OBVIOUS
<1> QED BY <1>1, <1>2, <1>3, <1>4, Zenon DEF ConvertedArgs

LEMMA FoundType ==
    ASSUME NEW d
    PROVE  FoundIn(d) \in Seq(Arg)
<1>1. PICK a \in Seq(Arg), b \in Seq(Arg) : a = FieldArgs(d.width) /\ b = FieldArgs(d.precision)
    BY FieldArgsType
<1>2. PICK c \in Seq(Arg) : c = ConvertedArgs(d)
    BY ConvertedArgsType
<1>3. (a \o b) \o c \in Seq(Arg)
    OBVIOUS
<1> QED BY <1>1, <1>2, <1>3, Zenon DEF FoundIn

\* Arguments appended in three portions.
Joined(s, f, g, e) == ((s \o f) \o g) \o e = s \o ((f \o g) \o e)

LEMMA ThreeJoined ==
    ASSUME NEW S, NEW s \in Seq(S), NEW f \in Seq(S), NEW g \in Seq(S), NEW e \in Seq(S)
    PROVE  Joined(s, f, g, e)
<1>1. \A t, u \in Seq(S) : t \o u \in Seq(S)
    BY ConcatProperties, Zenon
<1>2. PICK fg \in Seq(S) : fg = f \o g
    BY <1>1, Zenon
<1>3. Associative(s, f, g) /\ Associative(s, fg, e)
    BY Associativity, Zenon
<1> QED BY <1>2, <1>3, Zenon DEF Associative, Joined

\* A directive is read: the scan stands outside again and has met its arguments.
LEMMA WalkDirective ==
    ASSUME NEW S, NEW format \in Seq(S), NEW h, Walk(format, h), NEW p, NEW d \in Directive,
           NEW word, word = Spell(d), Reads(format, p, word), NEW args, Outside(h, p, args),
           NEW last, last = p + Len(word), NEW more, more = args \o FoundIn(d)
    PROVE  Outside(h, last, more)
<1>1. PICK c \in Conversions \cup {"%"} : c = d.conv
    BY DirectiveParts
<1>2. PICK q \in AnyLength : q = d.length
    BY DirectiveParts
<1>3. PICK width \in Fields, precision \in Fields : width = d.width /\ precision = d.precision
    BY DirectiveParts
<1>4. PICK t \in Seq(Plain), f \in Seq(FlagChars) : t = d.text /\ f = d.flags
    BY DirectiveParts
<1>5. PICK z \in Seq(Chars) : z = <<"%">>
    BY DirectiveWords
<1>6. PICK a \in Seq(Chars) : a = Spelled(width)
    BY DirectiveWords
<1>7. PICK b \in Seq(Chars) : b = PrecisionSpelled(precision)
    BY DirectiveWords
<1>8. PICK e \in Seq(Chars) : e = <<c>>
    BY DirectiveWords
<1>9. /\ word = (((((t \o z) \o f) \o a) \o b) \o q) \o e
      /\ t \in Seq(Chars) /\ f \in Seq(Chars) /\ q \in Seq(Chars)
  <2>1. word = (((((t \o z) \o f) \o a) \o b) \o q) \o e
      BY <1>1, <1>2, <1>3, <1>4, <1>5, <1>6, <1>7, <1>8, Zenon DEF Spell, PrecisionSpelled
  <2> QED BY <2>1, DirectiveWords
<1>10. PICK p1 : p1 = p + Len(t)
    OBVIOUS
<1>11. PICK p2 : p2 = p1 + Len(z)
    OBVIOUS
<1>12. PICK p3 : p3 = p2 + Len(f)
    OBVIOUS
<1>13. PICK p4 : p4 = p3 + Len(a)
    OBVIOUS
<1>14. PICK p5 : p5 = p4 + Len(b)
    OBVIOUS
<1>15. PICK p6 : p6 = p5 + Len(q)
    OBVIOUS
<1>16. /\ Reads(format, p, t) /\ Reads(format, p1, z) /\ Reads(format, p2, f) /\ Reads(format, p3, a)
       /\ Reads(format, p4, b) /\ Reads(format, p5, q) /\ Reads(format, p6, e)
       /\ last = p6 + Len(e)
  <2>1. SevenRead(format, p, p1, p2, p3, p4, p5, p6, t, z, f, a, b, q, e, p + Len(word))
      BY <1>9, <1>10, <1>11, <1>12, <1>13, <1>14, <1>15, ReadsSeven
  <2> QED BY ONLY <2>1, last = p + Len(word), Zenon DEF SevenRead
<1>17. Outside(h, p1, args) /\ args \in Seq(Arg)
  <2>1. Outside(h, p1, args)
      BY <1>10, <1>16, WalkText
  <2> QED BY <2>1 DEF Outside
<1>18. Behind(h, p2, <<>>, FALSE, args)
  <2>1. p2 = p1 + 1
      BY <1>5, <1>11
  <2> QED BY <1>5, <1>16, <1>17, <2>1, WalkPercent
<1>19. PICK w0 : w0 = ZeroIn(f, Len(f))
    OBVIOUS
<1>20. Behind(h, p3, <<>>, w0, args)
  <2>1. Before(S, format, h, p2, f, <<>>, FALSE, args)
      BY <1>16, <1>18 DEF Before, Behind
  <2> QED BY <1>12, <1>19, <2>1, WalkFlags
<1>21. PICK args1 : args1 = args \o FieldArgs(width)
    OBVIOUS
<1>22. PICK w1 : w1 = WidthAfter(w0, width)
    OBVIOUS
<1>23. Behind(h, p4, <<>>, w1, args1)
  <2>1. Before(S, format, h, p3, a, <<>>, w0, args)
      BY <1>16, <1>20 DEF Before, Behind
  <2> QED BY <1>6, <1>13, <1>21, <1>22, <2>1, WalkField
<1>24. PICK args2 : args2 = args1 \o FieldArgs(precision)
    OBVIOUS
<1>25. PICK w2 : w2 = WidthAfter(w1, precision)
    OBVIOUS
<1>26. Behind(h, p5, <<>>, w2, args2)
  <2>1. Before(S, format, h, p4, b, <<>>, w1, args1)
      BY <1>16, <1>23 DEF Before, Behind
  <2> QED BY <1>7, <1>14, <1>24, <1>25, <2>1, WalkPrecision
<1>27. PICK w3 : w3 = WidthBehind(w2, q)
    OBVIOUS
<1>28. Behind(h, p6, q, w3, args2)
  <2>1. Before(S, format, h, p5, q, <<>>, w2, args2)
      BY <1>16, <1>26 DEF Before, Behind
  <2>2. Follows(format, p6)
    <3>1. Len(e) = 1 /\ e[1] = c
        BY <1>8
    <3>2. p6 < Len(format) /\ format[p6 + 1] = c
        BY <1>16, <3>1 DEF Reads
    <3>3. c # "h" /\ c # "l"
        BY ConversionsOnly
    <3> QED BY <3>2, <3>3 DEF Follows
  <2> QED BY <1>15, <1>27, <2>1, <2>2, WalkLength
<1>29. Before(S, format, h, p6, e, q, w3, args2) /\ last = p6 + 1 /\ args2 \in Seq(Arg)
  <2>1. Len(e) = 1
      BY <1>8
  <2> QED BY <1>16, <1>28, <2>1 DEF Before, Behind
<1>30. PICK one \in Seq(Arg) : one = ConvertedArgs(d)
    BY ConvertedArgsType
<1>31. Outside(h, last, args2 \o one)
  <2>1. CASE c = "%"
    <3>1. one = <<>>
        BY <1>1, <1>30, <2>1, Zenon DEF ConvertedArgs
    <3>2. args2 \o one = args2
        BY <1>29, <3>1, ConcatEmptySeq
    <3>3. e = <<"%">>
        BY <1>8, <2>1
    <3>4. Outside(h, last, args2)
        BY <1>29, <3>3, WalkLiteral
    <3> QED BY <3>2, <3>4, Zenon
  <2>2. CASE c \in Conversions
    <3>1. c # "%"
        BY <2>2, ConversionsOnly
    <3>2. PICK type \in Types : type = ConversionType(c, q)
        BY ConversionTypeType
    <3>3. PICK arg \in Arg : arg = ArgOf(type, w3)
        BY ArgOfType
    <3>4. w3 = WidthOf(d)
        BY <1>2, <1>3, <1>4, <1>19, <1>22, <1>25, <1>27, Zenon DEF WidthOf
    <3>5. one = <<arg>>
        BY <1>1, <1>2, <1>30, <3>1, <3>2, <3>3, <3>4, Zenon DEF ConvertedArgs
    <3>6. PICK args3 : args3 = Append(args2, arg)
        OBVIOUS
    <3>7. args3 = args2 \o one
        BY <1>29, <3>5, <3>6, AppendIsConcat
    <3>8. Outside(h, last, args3)
        BY <1>8, <1>29, <2>2, <3>2, <3>3, <3>6, WalkConversion
    <3> QED BY <3>7, <3>8, Zenon
  <2> QED BY <2>1, <2>2
<1>32. args2 \o one = more
  <2>1. PICK x \in Seq(Arg) : x = FieldArgs(width)
      BY FieldArgsType
  <2>2. PICK y \in Seq(Arg) : y = FieldArgs(precision)
      BY FieldArgsType
  <2>3. FoundIn(d) = (x \o y) \o one
      BY <1>3, <1>30, <2>1, <2>2, Zenon DEF FoundIn
  <2>4. args2 = (args \o x) \o y
      BY <1>21, <1>24, <2>1, <2>2, Zenon
  <2>5. Joined(args, x, y, one)
      BY <1>17, ThreeJoined
  <2> QED BY <2>3, <2>4, <2>5, Zenon DEF Joined
<1> QED BY <1>31, <1>32, Zenon

-------------------------------------------------------------------------------
(*****************************************************************************)
(* A whole format.                                                           *)
(*****************************************************************************)

\* The scan of a format stands outside the directives at the beginning.
LEMMA ParseWalked ==
    ASSUME NEW S, NEW format \in Seq(S), NEW none, none = <<>>
    PROVE  \E h : /\ Walk(format, h) /\ Outside(h, 0, none)
                  /\ parse_format_string(format) = h[Len(format)].args
<1>1. PICK n \in Nat : n = Len(format)
    OBVIOUS
<1>2. PICK seq : seq = [i \in 1 .. n |-> SubSeq(format, i, n)]
    OBVIOUS
<1>3. PICK h : Scanned(h, ScanStart, seq, n) /\ FoldLeft(ScanStep, ScanStart, seq) = h[n]
  <2>1. DOMAIN seq = 1 .. n
      BY <1>2
  <2> QED BY ONLY <2>1, n \in Nat, ScanTurns
<1>4. h[0] = ScanStart /\ \A k \in 1 .. n : h[k] = ScanStep(h[k - 1], seq[k])
    BY <1>3 DEF Scanned
<1>5. Walk(format, h)
    BY <1>1, <1>2, <1>4 DEF Walk
<1>6. parse_format_string(format) = h[n].args
    BY <1>1, <1>2, <1>3 DEF parse_format_string
<1>7. none \in Seq(Arg) /\ Len(none) = 0
    OBVIOUS
<1>8. Len(none) <= MaxArgs /\ ~ (Len(none) > MaxArgs)
  <2>1. MaxArgs \in Nat
      BY MaxArgsAssumption
  <2> QED BY ONLY <1>7, <2>1
<1>9. Stands(h[0], FALSE, none, FALSE, none, 0)
  <2>1. FirstArgs(none) = none
      BY <1>7, <1>8, FirstArgsWhole
  <2>2. Is(h[0], FALSE, none, FALSE, none, 0)
      BY <1>4 DEF Is, ScanStart
  <2>3. h[0].args = none
      BY <2>2 DEF Is
  <2> QED BY <1>8, <2>1, <2>2, <2>3 DEF Stands
<1>10. Outside(h, 0, none)
    BY <1>7, <1>9, Zenon DEF Outside
<1> QED BY <1>1, <1>5, <1>6, <1>10

\* And the arguments it has met at the end are those of the format.
LEMMA OutsideArgs ==
    ASSUME NEW h, NEW n, NEW args, Outside(h, n, args)
    PROVE  h[n].args = FirstArgs(args) /\ args \in Seq(Arg)
    BY DEF Outside, Stands

-------------------------------------------------------------------------------
(*****************************************************************************)
(* What va_arg takes for the arguments found is what C passes.               *)
(*****************************************************************************)

TakenAll(args) == [i \in 1 .. Len(args) |-> Taken(args[i])]

\* What is taken, for the provers to name.
Passings == {Taken(arg) : arg \in Arg}

LEMMA TakenAllType ==
    ASSUME NEW args \in Seq(Arg)
    PROVE  TakenAll(args) \in Seq(Passings) /\ Len(TakenAll(args)) = Len(args)
<1>1. \A i \in 1 .. Len(args) : Taken(args[i]) \in Passings
    BY DEF Passings
<1>2. PICK all : all = [i \in 1 .. Len(args) |-> Taken(args[i])]
    OBVIOUS
<1>3. all \in Seq(Passings) /\ Len(all) = Len(args)
    BY <1>1, <1>2
<1> QED BY <1>2, <1>3 DEF TakenAll

\* The arguments of two parts are taken one part behind the other.
LEMMA TakenConcat ==
    ASSUME NEW f \in Seq(Arg), NEW g \in Seq(Arg)
    PROVE  TakenAll(f \o g) = TakenAll(f) \o TakenAll(g)
<1>1. PICK fg : fg = f \o g
    OBVIOUS
<1>2. /\ fg \in Seq(Arg) /\ Len(fg) = Len(f) + Len(g)
      /\ \A i \in 1 .. Len(fg) : fg[i] = IF i <= Len(f) THEN f[i] ELSE g[i - Len(f)]
    BY <1>1
<1>3. PICK a \in Seq(Passings) : a = TakenAll(f) /\ Len(a) = Len(f)
    BY TakenAllType
<1>4. PICK b \in Seq(Passings) : b = TakenAll(g) /\ Len(b) = Len(g)
    BY TakenAllType
<1>5. PICK c \in Seq(Passings) : c = TakenAll(fg) /\ Len(c) = Len(fg)
    BY <1>2, TakenAllType
<1>6. PICK ab : ab = a \o b
    OBVIOUS
<1>7. /\ ab \in Seq(Passings) /\ Len(ab) = Len(a) + Len(b)
      /\ \A i \in 1 .. Len(ab) : ab[i] = IF i <= Len(a) THEN a[i] ELSE b[i - Len(a)]
    BY <1>6
<1>8. ASSUME NEW i \in 1 .. Len(c) PROVE c[i] = ab[i]
  <2>1. c[i] = Taken(fg[i])
      BY <1>5 DEF TakenAll
  <2>2. CASE i <= Len(f)
    <3>1. fg[i] = f[i] /\ i \in 1 .. Len(f) /\ ab[i] = a[i]
        BY <1>2, <1>3, <1>4, <1>5, <1>7, <2>2
    <3>2. a[i] = Taken(f[i])
        BY <1>3, <3>1 DEF TakenAll
    <3> QED BY <2>1, <3>1, <3>2
  <2>3. CASE ~ (i <= Len(f))
    <3>1. PICK j : j = i - Len(f)
        OBVIOUS
    <3>2. i \in 1 .. Len(fg) /\ i \in 1 .. Len(ab) /\ j \in 1 .. Len(g)
        BY <1>2, <1>3, <1>4, <1>5, <1>7, <2>3, <3>1
    <3>3. fg[i] = g[j] /\ ab[i] = b[j]
        BY ONLY <1>2, <1>3, <1>7, <2>3, <3>1, <3>2
    <3>4. b[j] = Taken(g[j])
        BY <1>4, <3>2 DEF TakenAll
    <3> QED BY <2>1, <3>3, <3>4
  <2> QED BY <2>2, <2>3
<1>9. Len(c) = Len(ab)
    BY <1>2, <1>3, <1>4, <1>5, <1>7
<1>10. c = ab
    BY ONLY <1>7, <1>8, <1>9, c \in Seq(Passings)
<1> QED BY <1>1, <1>3, <1>4, <1>5, <1>6, <1>10

\* Those for which there is room.
LEMMA TakenFirst ==
    ASSUME NEW args \in Seq(Arg)
    PROVE  TakenAll(FirstArgs(args)) = FirstArgs(TakenAll(args))
<1>1. MaxArgs \in Nat
    BY MaxArgsAssumption
<1>2. PICK n \in Nat : n = (IF Len(args) < MaxArgs THEN Len(args) ELSE MaxArgs) /\ n <= Len(args)
    BY <1>1
<1>3. PICK c \in Seq(Passings) : c = TakenAll(args) /\ Len(c) = Len(args)
    BY TakenAllType
<1>4. PICK a : a = SubSeq(args, 1, n)
    OBVIOUS
<1>5. a \in Seq(Arg) /\ Len(a) = n /\ \A i \in 1 .. n : a[i] = args[i]
    BY <1>2, <1>4
<1>6. PICK b : b = SubSeq(c, 1, n)
    OBVIOUS
<1>7. b \in Seq(Passings) /\ Len(b) = n /\ \A i \in 1 .. n : b[i] = c[i]
    BY <1>2, <1>3, <1>6
<1>8. PICK e \in Seq(Passings) : e = TakenAll(a) /\ Len(e) = Len(a)
    BY <1>5, TakenAllType
<1>9. ASSUME NEW i \in 1 .. n PROVE e[i] = b[i]
  <2>1. e[i] = Taken(a[i])
      BY <1>5, <1>8 DEF TakenAll
  <2>2. i \in 1 .. Len(args)
      BY <1>2
  <2>3. c[i] = Taken(args[i])
      BY <1>3, <2>2 DEF TakenAll
  <2> QED BY <1>5, <1>7, <2>1, <2>3
<1>10. e = b
    BY ONLY <1>5, <1>7, <1>8, <1>9, e \in Seq(Passings)
<1>11. FirstArgs(args) = a /\ FirstArgs(c) = b
    BY <1>2, <1>3, <1>4, <1>6 DEF FirstArgs
<1> QED BY <1>3, <1>8, <1>10, <1>11

\* A type that is no string.
LEMMA TakenValue ==
    ASSUME NEW arg, arg.type \notin StringTypes
    PROVE  Taken(arg) = [slot |-> VaSlot(arg), bits |-> BitsOf(arg.type), text |-> FALSE, width |-> FALSE]
<1>1. (arg.type \in StringTypes) = FALSE /\ (arg.type \in StringTypes /\ arg.size = 1) = FALSE
    OBVIOUS
<1> QED BY <1>1, Zenon DEF Taken

\* A word that is no string.
LEMMA TakenWord ==
    ASSUME NEW type, type \notin StringTypes, type # "LDOUBLE", type # "DOUBLE",
           NEW w, NEW arg, arg = ArgOf(type, w)
    PROVE  Taken(arg) = Word(BitsOf(type))
<1>1. arg.type = type /\ arg.size = SizeOf(type, w)
    BY DEF ArgOf
<1>2. arg.size = 8
    BY <1>1, Zenon DEF SizeOf
<1>3. VaSlot(arg) = "word"
    BY <1>1, <1>2, Zenon DEF VaSlot
<1> QED BY <1>1, <1>3, TakenValue, Zenon DEF Word

\* A floating point number.
LEMMA TakenFloat ==
    ASSUME NEW w, NEW arg, NEW type, arg = ArgOf(type, w), type \in {"DOUBLE", "LDOUBLE"}
    PROVE  Taken(arg) = [slot |-> IF type = "LDOUBLE" THEN "long double" ELSE "double",
                         bits |-> 64, text |-> FALSE, width |-> FALSE]
<1>1. arg.type = type /\ arg.size = SizeOf(type, w)
    BY DEF ArgOf
<1>2. type \notin StringTypes
    BY Zenon DEF StringTypes
<1>3. BitsOf(type) = 64
    BY Zenon DEF BitsOf
<1>4. VaSlot(arg) = IF type = "LDOUBLE" THEN "long double" ELSE "double"
  <2>1. CASE type = "LDOUBLE"
    <3>1. arg.size = 16
        BY <1>1, <1>2, <2>1, Zenon DEF SizeOf
    <3>2. arg.size # 8
        BY ONLY <3>1
    <3> QED BY <1>1, <1>2, <2>1, <3>2, Zenon DEF VaSlot
  <2>2. CASE type = "DOUBLE"
    <3>1. type # "LDOUBLE"
        BY <2>2
    <3>2. arg.size = 8
        BY <1>1, <1>2, <3>1, Zenon DEF SizeOf
    <3> QED BY <1>1, <1>2, <2>2, <3>1, <3>2, Zenon DEF VaSlot
  <2> QED BY <2>1, <2>2
<1>5. arg.type \notin StringTypes
    BY <1>1, <1>2
<1>6. Taken(arg) = [slot |-> VaSlot(arg), bits |-> BitsOf(arg.type), text |-> FALSE, width |-> FALSE]
    BY <1>5, TakenValue
<1> QED BY <1>1, <1>3, <1>4, <1>6

\* A string, whose size says whether the directive has a width.
LEMMA TakenText ==
    ASSUME NEW type \in StringTypes, NEW w \in BOOLEAN, NEW arg, arg = ArgOf(type, w)
    PROVE  Taken(arg) = [slot |-> "word", bits |-> 64, text |-> TRUE, width |-> w]
<1>1. arg.type = type /\ arg.size = SizeOf(type, w)
    BY DEF ArgOf
<1>2. BitsOf(type) = 64
    BY Zenon DEF BitsOf, StringTypes
<1>3. VaSlot(arg) = "word"
    BY <1>1, Zenon DEF VaSlot
<1>4. (arg.type \in StringTypes) = TRUE
    BY <1>1
<1>5. arg.size = IF w THEN 1 ELSE 0
    BY <1>1, Zenon DEF SizeOf
<1>6. (arg.type \in StringTypes /\ arg.size = 1) = w
  <2>1. CASE w = TRUE
    <3>1. arg.size = 1
        BY <1>5, <2>1
    <3> QED BY <1>4, <2>1, <3>1
  <2>2. CASE w = FALSE
    <3>1. arg.size = 0
        BY <1>5, <2>2
    <3> QED BY <2>2, <3>1
  <2> QED BY <2>1, <2>2
<1> QED BY <1>1, <1>2, <1>3, <1>4, <1>6, Zenon DEF Taken

\* The lengths are different sequences.
LEMMA LengthsDiffer ==
    /\ <<"h">> # <<>> /\ <<"h", "h">> # <<>> /\ <<"h">> # <<"h", "h">> /\ <<"l">> # <<>>
    /\ <<"l">> # <<"h">> /\ <<"l">> # <<"h", "h">> /\ <<"l", "l">> # <<>> /\ <<"l", "l">> # <<"h">>
    /\ <<"l", "l">> # <<"h", "h">> /\ <<"l", "l">> # <<"l">>
    /\ <<"j">> # <<>> /\ <<"j">> # <<"h">> /\ <<"j">> # <<"h", "h">> /\ <<"j">> # <<"l">>
    /\ <<"j">> # <<"l", "l">> /\ <<"j">> # <<"z">> /\ <<"j">> # <<"t">> /\ <<"j">> # <<"I">>
    /\ <<"j">> # <<"I", "6", "4">>
    /\ <<"z">> # <<>> /\ <<"z">> # <<"h">> /\ <<"z">> # <<"h", "h">>
    /\ <<"t">> # <<>> /\ <<"t">> # <<"h">> /\ <<"t">> # <<"h", "h">>
    /\ <<"I", "6", "4">> # <<>> /\ <<"I", "6", "4">> # <<"h">> /\ <<"I", "6", "4">> # <<"h", "h">>
    /\ <<"L">> # <<>>
    /\ <<>> # <<"I">> /\ <<"h">> # <<"I">> /\ <<"h", "h">> # <<"I">>
    /\ <<"h">> # <<"z">> /\ <<"h">> # <<"t">> /\ <<"h", "h">> # <<"z">> /\ <<"h", "h">> # <<"t">>
    OBVIOUS

\* The integers: the type keeps the bits of the length.
LEMMA IntegerBits ==
    ASSUME NEW c \in Integrals, NEW q \in Lengths(c), NEW type, type = ConversionType(c, q)
    PROVE  /\ type \notin StringTypes /\ type # "LDOUBLE" /\ type # "DOUBLE"
           /\ BitsOf(type) = IntBits(q)
<1>1. type = IntType(q)
    BY Zenon DEF ConversionType, Integrals
<1>2. q \in {<<>>, <<"h">>, <<"h", "h">>, <<"l">>, <<"l", "l">>, <<"j">>, <<"z">>, <<"t">>,
             <<"I", "6", "4">>}
    BY Zenon DEF Lengths
<1>3. CASE q = <<>>
  <2>1. type = "INT32" /\ IntBits(q) = 32
      BY <1>1, <1>3, LengthsDiffer, Zenon DEF IntType, IntBits
  <2> QED BY <2>1, Zenon DEF BitsOf, StringTypes
<1>4. CASE q = <<"h">>
  <2>1. type = "INT16" /\ IntBits(q) = 16
      BY <1>1, <1>4, LengthsDiffer, Zenon DEF IntType, IntBits
  <2> QED BY <2>1, Zenon DEF BitsOf, StringTypes
<1>5. CASE q = <<"h", "h">>
  <2>1. type = "INT8" /\ IntBits(q) = 8
      BY <1>1, <1>5, LengthsDiffer, Zenon DEF IntType, IntBits
  <2> QED BY <2>1, Zenon DEF BitsOf, StringTypes
<1>6. CASE q = <<"j">>
  <2>1. type = "INTMAX" /\ IntBits(q) = 64
      BY <1>1, <1>6, LengthsDiffer, Zenon DEF IntType, IntBits
  <2> QED BY <2>1, Zenon DEF BitsOf, StringTypes
<1>7. CASE q \in {<<"l">>, <<"l", "l">>, <<"z">>, <<"t">>, <<"I", "6", "4">>}
  <2>1. type = "INT64"
      BY <1>1, <1>7, LengthsDiffer, Zenon DEF IntType
  <2>2. IntBits(q) = 64
      BY <1>7, LengthsDiffer, Zenon DEF IntBits
  <2> QED BY <2>1, <2>2, Zenon DEF BitsOf, StringTypes
<1> QED BY <1>2, <1>3, <1>4, <1>5, <1>6, <1>7, Zenon

\* The width flag of a directive with a length of letters.
TextLengths == {<<>>, <<"l">>, <<"h">>}

LEMMA PlainWidth ==
    ASSUME NEW d, d.length \in TextLengths, d.flags \in Seq(FlagChars), "0" \notin Range(d.flags)
    PROVE  WidthOf(d) = ({d.width, d.precision} # {"none"})
<1>1. PICK w : w = WidthAfter(WidthAfter(FALSE, d.width), d.precision)
    OBVIOUS
<1>2. w = ({d.width, d.precision} # {"none"})
  <2>1. CASE d.width = "none" /\ d.precision = "none"
      BY <1>1, <2>1, Zenon DEF WidthAfter
  <2>2. CASE d.width # "none" /\ d.precision = "none"
      BY <1>1, <2>2, Zenon DEF WidthAfter
  <2>3. CASE d.precision # "none"
      BY <1>1, <2>3, Zenon DEF WidthAfter
  <2> QED BY <2>1, <2>2, <2>3
<1>3. WidthBehind(w, d.length) = w
  <2>1. CASE d.length = <<>>
      BY <2>1, Zenon DEF WidthBehind
  <2>2. CASE d.length # <<>>
    <3>1. Last(d.length) = "l" \/ Last(d.length) = "h"
        BY <2>2 DEF Last, TextLengths
    <3>2. Last(d.length) \notin Digits
        BY <3>1, Zenon DEF Digits
    <3>3. WidthBehind(w, d.length) = (w \/ Last(d.length) \in Digits)
        BY <2>2, Zenon DEF WidthBehind
    <3> QED BY <1>2, <3>2, <3>3, Zenon
  <2> QED BY <2>1, <2>2
<1>4. ZeroIn(d.flags, Len(d.flags)) = FALSE
  <2>1. DOMAIN d.flags = 1 .. Len(d.flags)
      OBVIOUS
  <2> QED BY ONLY <2>1, "0" \notin Range(d.flags), Zenon DEF ZeroIn, Range
<1> QED BY <1>1, <1>2, <1>3, <1>4, Zenon DEF WidthOf

\* The value of a directive is taken as C passes it.
LEMMA ValueTaken ==
    ASSUME NEW d \in Directive, d.conv # "%", NEW type, type = ConversionType(d.conv, d.length),
           NEW w, w = WidthOf(d), NEW arg, arg = ArgOf(type, w)
    PROVE  Taken(arg) = Value(d)
<1>1. PICK c \in Conversions : c = d.conv
    BY DirectiveParts
<1>2. PICK q \in Lengths(c) : q = d.length
    BY <1>1, DirectiveParts
<1>3. CASE c \in Integrals
  <2>1. /\ type \notin StringTypes /\ type # "LDOUBLE" /\ type # "DOUBLE"
        /\ BitsOf(type) = IntBits(q)
      BY <1>1, <1>2, <1>3, IntegerBits
  <2>2. Taken(arg) = Word(IntBits(q))
      BY <2>1, TakenWord
  <2>3. c # "c" /\ c # "p" /\ c # "s"
      BY <1>3, Zenon DEF Integrals
  <2>4. Value(d) = Word(IntBits(q))
      BY <1>1, <1>2, <1>3, <2>3, Zenon DEF Value
  <2> QED BY <2>2, <2>4
<1>4. CASE c \in Floats
  <2>1. type = FloatType(q)
      BY <1>1, <1>2, <1>4, Zenon DEF ConversionType, Floats
  <2>2. type \in {"DOUBLE", "LDOUBLE"} /\ (type = "LDOUBLE" <=> q = <<"L">>)
      BY <2>1, Zenon DEF FloatType
  <2>3. Taken(arg) = [slot |-> IF type = "LDOUBLE" THEN "long double" ELSE "double",
                      bits |-> 64, text |-> FALSE, width |-> FALSE]
      BY <2>2, TakenFloat, Zenon
  <2>4. c \notin Integrals /\ c # "c" /\ c # "p" /\ c # "s"
      BY <1>4, Zenon DEF Floats, Integrals
  <2>5. Value(d) = [slot |-> IF q = <<"L">> THEN "long double" ELSE "double",
                    bits |-> 64, text |-> FALSE, width |-> FALSE]
      BY <1>1, <1>2, <2>4, Zenon DEF Value
  <2> QED BY <2>2, <2>3, <2>5, Zenon
<1>5. CASE c = "s"
  <2>1. type = StringType(c, q) /\ q \in TextLengths
    <3>1. type = StringType(c, q)
        BY <1>1, <1>2, <1>5, Zenon DEF ConversionType
    <3>2. c \notin Integrals /\ c \notin Floats
        BY <1>5, Zenon DEF Floats, Integrals
    <3> QED BY <1>5, <3>1, <3>2, Zenon DEF Lengths, TextLengths
  <2>2. type \in StringTypes
      BY <2>1, Zenon DEF StringType, StringTypes
  <2>3. w = ({d.width, d.precision} # {"none"}) /\ w \in BOOLEAN
    <3>1. c \notin Integrals /\ c \notin Floats
        BY <1>5, Zenon DEF Floats, Integrals
    <3>2. "0" \notin Range(d.flags) /\ d.flags \in Seq(FlagChars)
        BY <1>1, <3>1, DirectiveParts
    <3>3. WidthOf(d) = ({d.width, d.precision} # {"none"})
        BY <1>2, <2>1, <3>2, PlainWidth
    <3> QED BY <3>3
  <2>4. Taken(arg) = [slot |-> "word", bits |-> 64, text |-> TRUE, width |-> w]
      BY <2>2, <2>3, TakenText, Zenon
  <2>5. c \notin Integrals /\ c # "c" /\ c # "p"
      BY <1>5, Zenon DEF Integrals
  <2>6. Value(d) = [slot |-> "word", bits |-> 64, text |-> TRUE,
                    width |-> {d.width, d.precision} # {"none"}]
      BY <1>1, <1>5, <2>5, Zenon DEF Value
  <2> QED BY <2>3, <2>4, <2>6, Zenon
<1>6. CASE c = "c"
  <2>1. type = CharType(q)
      BY <1>1, <1>2, <1>6, Zenon DEF ConversionType
  <2>2. type = IF q = <<"l">> THEN "CHAR32" ELSE "CHAR"
      BY <2>1, Zenon DEF CharType
  <2>3. type \notin StringTypes /\ type # "LDOUBLE" /\ type # "DOUBLE"
      BY <2>2, Zenon DEF StringTypes
  <2>4. BitsOf(type) = IF q = <<"l">> THEN 32 ELSE 8
      BY <2>2, Zenon DEF BitsOf
  <2>5. Taken(arg) = Word(IF q = <<"l">> THEN 32 ELSE 8)
      BY <2>3, <2>4, TakenWord, Zenon
  <2>6. c \notin Integrals
      BY <1>6, Zenon DEF Integrals
  <2>7. Value(d) = Word(IF q = <<"l">> THEN 32 ELSE 8)
      BY <1>1, <1>2, <1>6, <2>6, Zenon DEF Value
  <2> QED BY <2>5, <2>7
<1>7. CASE c = "p"
  <2>1. type = "PVOID"
      BY <1>1, <1>2, <1>7, Zenon DEF ConversionType
  <2>2. type \notin StringTypes /\ type # "LDOUBLE" /\ type # "DOUBLE" /\ BitsOf(type) = 64
      BY <2>1, Zenon DEF StringTypes, BitsOf
  <2>3. Taken(arg) = Word(64)
      BY <2>2, TakenWord
  <2>4. c \notin Integrals /\ c # "c"
      BY <1>7, Zenon DEF Integrals
  <2>5. Value(d) = Word(64)
      BY <1>1, <1>7, <2>4, Zenon DEF Value
  <2> QED BY <2>3, <2>5
<1> QED BY <1>3, <1>4, <1>5, <1>6, <1>7 DEF Conversions

\* The arguments of a directive are taken as C passes them.
LEMMA FoundTaken ==
    ASSUME NEW d \in Directive
    PROVE  TakenAll(FoundIn(d)) = Passed(d)
<1>1. PICK f \in Seq(Arg) : f = FieldArgs(d.width)
    BY FieldArgsType
<1>2. PICK g \in Seq(Arg) : g = FieldArgs(d.precision)
    BY FieldArgsType
<1>3. PICK one \in Seq(Arg) : one = ConvertedArgs(d)
    BY ConvertedArgsType
<1>4. FoundIn(d) = (f \o g) \o one
    BY <1>1, <1>2, <1>3, Zenon DEF FoundIn
<1>5. \A x : TakenAll(<<x>>) = <<Taken(x)>>
  <2>1. ASSUME NEW x PROVE [i \in 1 .. Len(<<x>>) |-> Taken(<<x>>[i])] = <<Taken(x)>>
      OBVIOUS
  <2> QED BY <2>1 DEF TakenAll
<1>6. TakenAll(<<>>) = <<>>
  <2>1. [i \in 1 .. Len(<<>>) |-> Taken(<<>>[i])] = <<>>
      OBVIOUS
  <2> QED BY <2>1 DEF TakenAll
<1>7. Taken(IntArg) = Word(32)
  <2>1. PICK int : int = ArgOf("INT32", FALSE)
      OBVIOUS
  <2>2. int = IntArg
      BY <2>1, IntArgType
  <2>3. PICK t : t = "INT32"
      OBVIOUS
  <2>4. t \notin StringTypes /\ t # "LDOUBLE" /\ t # "DOUBLE" /\ BitsOf(t) = 32
      BY <2>3, Zenon DEF StringTypes, BitsOf
  <2>5. Taken(int) = Word(BitsOf(t))
      BY <2>1, <2>3, <2>4, TakenWord
  <2> QED BY <2>2, <2>4, <2>5
<1>8. ASSUME NEW field PROVE TakenAll(FieldArgs(field)) = Ints(field)
    BY <1>5, <1>6, <1>7, Zenon DEF FieldArgs, Ints
<1>9. TakenAll(one) = Converted(d)
  <2>1. CASE d.conv = "%"
      BY <1>3, <1>6, <2>1, Zenon DEF ConvertedArgs, Converted
  <2>2. CASE d.conv # "%"
    <3>1. PICK type : type = ConversionType(d.conv, d.length)
        OBVIOUS
    <3>2. PICK w : w = WidthOf(d)
        OBVIOUS
    <3>3. PICK arg : arg = ArgOf(type, w)
        OBVIOUS
    <3>4. Taken(arg) = Value(d)
        BY <2>2, <3>1, <3>2, <3>3, ValueTaken
    <3>5. one = <<arg>>
        BY <1>3, <2>2, <3>1, <3>2, <3>3, Zenon DEF ConvertedArgs
    <3>6. Converted(d) = <<Value(d)>>
        BY <2>2, Zenon DEF Converted
    <3> QED BY <1>5, <3>4, <3>5, <3>6, Zenon
  <2> QED BY <2>1, <2>2
<1>10. PICK fg \in Seq(Arg) : fg = f \o g
    BY ConcatProperties, Zenon
<1>11. TakenAll(fg \o one) = TakenAll(fg) \o TakenAll(one)
    BY TakenConcat
<1>12. TakenAll(f \o g) = TakenAll(f) \o TakenAll(g)
    BY TakenConcat
<1> QED BY <1>1, <1>2, <1>4, <1>8, <1>9, <1>10, <1>11, <1>12, Zenon DEF Passed

-------------------------------------------------------------------------------
(*****************************************************************************)
(* A format of any directives.                                               *)
(*****************************************************************************)

\* What f makes of the directives, one behind the other.
Flat(f, ds) == FlattenSeq([i \in 1 .. Len(ds) |-> f[ds[i]]])

\* The spelling, the arguments the scan finds and those C passes, as functions.
spelling == [d \in Directive |-> Spell(d)]
finding  == [d \in Directive |-> FoundIn(d)]
passing  == [d \in Directive |-> Passed(d)]

LEMMA FlatNone == \A f : Flat(f, <<>>) = <<>>
<1> SUFFICES ASSUME NEW f PROVE Flat(f, <<>>) = <<>>
    OBVIOUS
<1>1. [i \in 1 .. Len(<<>>) |-> f[<<>>[i]]] = <<>>
    OBVIOUS
<1> QED BY <1>1, FlatEmpty DEF Flat

\* One directive more.
LEMMA FlatMore ==
    ASSUME NEW S, NEW f, f \in [Directive -> Seq(S)], NEW ds \in Seq(Directive),
           NEW d \in Directive, NEW more, more = Append(ds, d)
    PROVE  Flat(f, more) = Flat(f, ds) \o f[d]
<1>1. PICK ss : ss = [i \in 1 .. Len(ds) |-> f[ds[i]]]
    OBVIOUS
<1>2. PICK tt : tt = [i \in 1 .. Len(more) |-> f[more[i]]]
    OBVIOUS
<1>3. PICK x \in Seq(S) : x = f[d]
    OBVIOUS
<1>4. ss \in Seq(Seq(S))
  <2>1. \A i \in 1 .. Len(ds) : f[ds[i]] \in Seq(S)
      OBVIOUS
  <2> QED BY <1>1, <2>1
<1>5. tt = Append(ss, x)
  <2>1. more \in Seq(Directive) /\ Len(more) = Len(ds) + 1
        /\ \A i \in 1 .. Len(more) : more[i] = IF i <= Len(ds) THEN ds[i] ELSE d
      OBVIOUS
  <2>2. PICK u : u = Append(ss, x)
      OBVIOUS
  <2>3. u \in Seq(Seq(S)) /\ Len(u) = Len(ss) + 1
        /\ \A i \in 1 .. Len(u) : u[i] = IF i <= Len(ss) THEN ss[i] ELSE x
      BY <1>3, <1>4, <2>2
  <2>4. Len(ss) = Len(ds) /\ \A i \in 1 .. Len(ds) : ss[i] = f[ds[i]]
      BY <1>1, <1>4
  <2>5. tt \in Seq(Seq(S)) /\ Len(tt) = Len(more) /\ \A i \in 1 .. Len(more) : tt[i] = f[more[i]]
    <3>1. \A i \in 1 .. Len(more) : f[more[i]] \in Seq(S)
        BY <2>1
    <3> QED BY <1>2, <2>1, <3>1
  <2>6. ASSUME NEW i \in 1 .. Len(more) PROVE tt[i] = u[i]
    <3>1. CASE i <= Len(ds)
      <4>1. i \in 1 .. Len(ds) /\ i \in 1 .. Len(u) /\ more[i] = ds[i]
          BY <2>1, <2>3, <2>4, <3>1
      <4> QED BY <2>3, <2>4, <2>5, <3>1, <4>1
    <3>2. CASE ~ (i <= Len(ds))
      <4>1. i \in 1 .. Len(u) /\ more[i] = d
          BY <2>1, <2>3, <2>4, <3>2
      <4> QED BY <1>3, <2>3, <2>4, <2>5, <3>2, <4>1
    <3> QED BY <3>1, <3>2
  <2>7. Len(tt) = Len(u)
      BY <2>1, <2>3, <2>4, <2>5
  <2>8. tt = u
      BY ONLY <2>3, <2>5, <2>6, <2>7
  <2> QED BY <2>2, <2>8
<1>6. FlattenSeq(Append(ss, x)) = FlattenSeq(ss) \o x
    BY <1>4, FlatAppend
<1> QED BY <1>1, <1>2, <1>3, <1>5, <1>6 DEF Flat

\* What the spellings, the findings and the passings are sequences of.
LEMMA DirectiveFunctions ==
    /\ spelling \in [Directive -> Seq(Chars)]
    /\ finding \in [Directive -> Seq(Arg)]
    /\ passing \in [Directive -> Seq(Passings)]
<1>1. ASSUME NEW d \in Directive PROVE Spell(d) \in Seq(Chars)
  <2>1. PICK z \in Seq(Chars) : z = <<"%">>
      BY DirectiveWords
  <2>2. PICK a \in Seq(Chars) : a = Spelled(d.width)
      BY DirectiveParts, DirectiveWords
  <2>3. PICK b \in Seq(Chars) : b = PrecisionSpelled(d.precision)
      BY DirectiveParts, DirectiveWords
  <2>4. PICK q \in Seq(Chars) : q = d.length
      BY DirectiveParts, DirectiveWords
  <2>5. PICK e \in Seq(Chars) : e = <<d.conv>>
      BY DirectiveParts, DirectiveWords
  <2>6. PICK t \in Seq(Chars), f \in Seq(Chars) : t = d.text /\ f = d.flags
      BY DirectiveParts, DirectiveWords
  <2>7. Spell(d) = (((((t \o z) \o f) \o a) \o b) \o q) \o e
      BY <2>1, <2>2, <2>3, <2>4, <2>5, <2>6, Zenon DEF Spell, PrecisionSpelled
  <2>8. (((((t \o z) \o f) \o a) \o b) \o q) \o e \in Seq(Chars)
      BY SevenJoined
  <2> QED BY <2>7, <2>8, Zenon
<1>2. ASSUME NEW d \in Directive PROVE Passed(d) \in Seq(Passings)
  <2>1. PICK f \in Seq(Arg) : f = FoundIn(d)
      BY FoundType
  <2>2. TakenAll(f) \in Seq(Passings)
      BY TakenAllType
  <2>3. TakenAll(f) = Passed(d)
      BY <2>1, FoundTaken
  <2> QED BY <2>2, <2>3
<1>3. spelling \in [Directive -> Seq(Chars)]
    BY <1>1 DEF spelling
<1>4. finding \in [Directive -> Seq(Arg)]
    BY FoundType DEF finding
<1>5. passing \in [Directive -> Seq(Passings)]
    BY <1>2 DEF passing
<1> QED BY <1>3, <1>4, <1>5

\* The sequences one behind the other are a sequence.
LEMMA FlatSequence ==
    ASSUME NEW S, NEW f, f \in [Directive -> Seq(S)], NEW ds \in Seq(Directive)
    PROVE  Flat(f, ds) \in Seq(S)
<1>1. PICK ss : ss = [i \in 1 .. Len(ds) |-> f[ds[i]]]
    OBVIOUS
<1>2. ss \in Seq(Seq(S))
  <2>1. \A i \in 1 .. Len(ds) : f[ds[i]] \in Seq(S)
      OBVIOUS
  <2> QED BY <1>1, <2>1
<1>3. FlattenSeq(ss) \in Seq(S)
    BY <1>2, FlatType
<1> QED BY <1>1, <1>3 DEF Flat

\* The scan of a list of directives.
ListWalked(format, h, ds) ==
    LET word == Flat(spelling, ds) IN
    Reads(format, 0, word) =>
        /\ Outside(h, Len(word), Flat(finding, ds))
        /\ TakenAll(Flat(finding, ds)) = Flat(passing, ds)

\* Directive by directive, the scan meets the arguments and they are those C passes.
LEMMA WalkList ==
    ASSUME NEW S, NEW format \in Seq(S), NEW h, Walk(format, h), NEW none, none = <<>>,
           Outside(h, 0, none)
    PROVE  \A ds \in Seq(Directive) : ListWalked(format, h, ds)
<1> DEFINE T == {n \in Nat : \A ds \in Seq(Directive) : Len(ds) = n => ListWalked(format, h, ds)}
<1>1. 0 \in T
  <2> SUFFICES ASSUME NEW ds \in Seq(Directive), Len(ds) = 0 PROVE ListWalked(format, h, ds)
      OBVIOUS
  <2>1. ds = none
      OBVIOUS
  <2>2. \A f : Flat(f, ds) = none
      BY <2>1, FlatNone
  <2>3. Len(none) = 0 /\ TakenAll(none) = none
    <3>1. Len(none) = 0 /\ [i \in 1 .. Len(none) |-> Taken(none[i])] = none
        OBVIOUS
    <3> QED BY <3>1 DEF TakenAll
  <2> QED BY <2>2, <2>3, Zenon DEF ListWalked
<1>2. ASSUME NEW n \in Nat, n \in T PROVE n + 1 \in T
  <2> SUFFICES ASSUME NEW more \in Seq(Directive), Len(more) = n + 1
               PROVE  ListWalked(format, h, more)
      OBVIOUS
  <2>1. PICK ds \in Seq(Directive), d \in Directive : more = Append(ds, d)
    <3>1. more # <<>>
        OBVIOUS
    <3> QED BY <3>1, SequenceEmptyOrAppend
  <2>2. Len(ds) = n
      BY <2>1
  <2>3. ListWalked(format, h, ds)
      BY <1>2, <2>2
  <2>4. PICK word0 \in Seq(Chars) : word0 = Flat(spelling, ds)
      BY DirectiveFunctions, FlatSequence
  <2>5. PICK word1 \in Seq(Chars) : word1 = Spell(d)
    <3>1. spelling[d] = Spell(d) /\ spelling[d] \in Seq(Chars)
        BY DirectiveFunctions DEF spelling
    <3> QED BY <3>1
  <2>6. PICK args \in Seq(Arg) : args = Flat(finding, ds)
      BY DirectiveFunctions, FlatSequence
  <2>7. PICK found \in Seq(Arg) : found = FoundIn(d)
      BY FoundType
  <2>8. PICK word : word = word0 \o word1
      OBVIOUS
  <2>9. Flat(spelling, more) = word
    <3>1. Flat(spelling, more) = Flat(spelling, ds) \o spelling[d]
        BY <2>1, DirectiveFunctions, FlatMore
    <3> QED BY <2>4, <2>5, <2>8, <3>1 DEF spelling
  <2>10. Flat(finding, more) = args \o FoundIn(d)
    <3>1. Flat(finding, more) = Flat(finding, ds) \o finding[d]
        BY <2>1, DirectiveFunctions, FlatMore
    <3> QED BY <2>6, <3>1 DEF finding
  <2>11. Flat(passing, more) = Flat(passing, ds) \o Passed(d)
    <3>1. Flat(passing, more) = Flat(passing, ds) \o passing[d]
        BY <2>1, DirectiveFunctions, FlatMore
    <3> QED BY <3>1 DEF passing
  <2>12. ASSUME Reads(format, 0, word)
         PROVE  /\ Outside(h, Len(word), args \o FoundIn(d))
                /\ TakenAll(args \o FoundIn(d)) = Flat(passing, ds) \o Passed(d)
    <3>1. PICK zero : zero = 0
        OBVIOUS
    <3>2. PICK p : p = zero + Len(word0)
        OBVIOUS
    <3>3. Reads(format, zero, word0) /\ Reads(format, p, word1)
        BY <2>8, <2>12, <3>1, <3>2, ReadsParts
    <3>4. Outside(h, p, args) /\ TakenAll(args) = Flat(passing, ds)
      <4>1. p = Len(word0)
          BY <3>1, <3>2
      <4> QED BY <2>3, <2>4, <2>6, <3>1, <3>3, <4>1, Zenon DEF ListWalked
    <3>5. PICK last : last = p + Len(word1)
        OBVIOUS
    <3>6. PICK all : all = args \o FoundIn(d)
        OBVIOUS
    <3>7. Outside(h, last, all)
        BY <2>5, <3>3, <3>4, <3>5, <3>6, WalkDirective
    <3>8. last = Len(word)
        BY <2>8, <3>1, <3>2, <3>5
    <3>9. TakenAll(args \o found) = TakenAll(args) \o TakenAll(found)
        BY TakenConcat
    <3>10. TakenAll(found) = Passed(d)
        BY <2>7, FoundTaken
    <3> QED BY <2>7, <3>4, <3>6, <3>7, <3>8, <3>9, <3>10, Zenon
  <2> QED BY <2>9, <2>10, <2>11, <2>12, Zenon DEF ListWalked
<1>3. Nat \subseteq T
  <2> HIDE DEF T
  <2> QED BY <1>1, <1>2, NatSetInduction, Zenon
<1>4. ASSUME NEW ds \in Seq(Directive) PROVE ListWalked(format, h, ds)
  <2>1. Len(ds) \in Nat
      OBVIOUS
  <2>2. Len(ds) \in T
      BY <1>3, <2>1
  <2> QED BY <2>2
<1> QED BY <1>4

\* What parse_format_string finds in a format of any directives, whatever their number, with
\* any text before, between and behind them, is what C passes for them, as far as the list has
\* room: send, which walks the list with va_arg at every call, takes each argument from where
\* the caller put it.
THEOREM FormatsRead ==
    ASSUME NEW ds \in Seq(Directive), NEW tail \in Seq(Plain)
    PROVE  TakenAll(parse_format_string(Flat(spelling, ds) \o tail)) = FirstArgs(Flat(passing, ds))
<1>1. PICK word \in Seq(Chars) : word = Flat(spelling, ds)
    BY DirectiveFunctions, FlatSequence
<1>2. PICK rest \in Seq(Chars) : rest = tail
    BY DirectiveWords
<1>3. PICK format \in Seq(Chars) : format = word \o rest
    BY ConcatProperties, Zenon
<1>4. PICK none : none = <<>>
    OBVIOUS
<1>5. PICK h : Walk(format, h) /\ Outside(h, 0, none) /\ parse_format_string(format) = h[Len(format)].args
    BY <1>4, ParseWalked
<1>6. ListWalked(format, h, ds)
    BY <1>4, <1>5, WalkList
<1>7. PICK zero : zero = 0
    OBVIOUS
<1>8. PICK m : m = zero + Len(word)
    OBVIOUS
<1>9. Reads(format, zero, word) /\ Reads(format, m, rest)
  <2>1. Reads(format, zero, format)
      BY <1>7 DEF Reads
  <2> QED BY <1>3, <1>8, <2>1, ReadsParts
<1>10. PICK args \in Seq(Arg) : args = Flat(finding, ds)
    BY DirectiveFunctions, FlatSequence
<1>11. Outside(h, m, args) /\ TakenAll(args) = Flat(passing, ds)
  <2>1. m = Len(word)
      BY <1>7, <1>8
  <2> QED BY <1>1, <1>6, <1>7, <1>9, <1>10, <2>1, Zenon DEF ListWalked
<1>12. PICK n : n = m + Len(rest)
    OBVIOUS
<1>13. n = Len(format)
    BY <1>3, <1>7, <1>8, <1>12
<1>14. Outside(h, n, args)
    BY <1>2, <1>5, <1>9, <1>11, <1>12, WalkText
<1>15. h[n].args = FirstArgs(args)
    BY <1>14, OutsideArgs
<1>16. TakenAll(FirstArgs(args)) = FirstArgs(TakenAll(args))
    BY TakenFirst
<1> QED BY <1>1, <1>2, <1>3, <1>5, <1>11, <1>13, <1>15, <1>16, Zenon

\* Short sequences.
LEMMA PairOf ==
    \A A : /\ <<>> \in Seq(A)
           /\ \A x, y \in A : /\ Append(<<>>, x) = <<x>> /\ Append(<<x>>, y) = <<x, y>>
                              /\ <<x>> \in Seq(A) /\ <<x, y>> \in Seq(A)
<1> SUFFICES ASSUME NEW A, NEW x \in A, NEW y \in A
             PROVE  /\ Append(<<>>, x) = <<x>> /\ Append(<<x>>, y) = <<x, y>>
                    /\ <<x>> \in Seq(A) /\ <<x, y>> \in Seq(A)
    OBVIOUS
<1>1. <<x>> \in Seq(A)
    OBVIOUS
<1>2. <<x, y>> \in Seq(A)
    OBVIOUS
<1>3. Append(<<>>, x) = <<x>>
    OBVIOUS
<1>4. Append(<<x>>, y) = <<x, y>>
  <2>1. PICK one \in Seq(A) : one = <<x>>
      BY <1>1
  <2>2. PICK s : s = Append(one, y)
      OBVIOUS
  <2>3. PICK t \in Seq(A) : t = <<x, y>>
      BY <1>2
  <2>4. s \in Seq(A) /\ Len(s) = 2 /\ s[1] = x /\ s[2] = y
      BY <2>1, <2>2
  <2>5. Len(t) = 2 /\ t[1] = x /\ t[2] = y
      BY <2>3
  <2>6. s = t
    <3>1. \A i \in 1 .. 2 : s[i] = t[i]
      <4>1. \A i \in 1 .. 2 : i = 1 \/ i = 2
          OBVIOUS
      <4> QED BY ONLY <2>4, <2>5, <4>1, Zenon
    <3> QED BY ONLY <2>4, <2>5, <3>1, t \in Seq(A)
  <2> QED BY <2>1, <2>2, <2>3, <2>6
<1> QED BY <1>1, <1>2, <1>3, <1>4

\* A format of two directives.
LEMMA FlatPair ==
    ASSUME NEW S, NEW f, f \in [Directive -> Seq(S)], NEW d \in Directive, NEW e \in Directive
    PROVE  Flat(f, <<d, e>>) = f[d] \o f[e]
<1>1. PICK none \in Seq(Directive) : none = <<>>
    BY PairOf, Zenon
<1>2. PICK one : one = Append(none, d)
    OBVIOUS
<1>3. PICK two : two = Append(one, e)
    OBVIOUS
<1>4. one \in Seq(Directive) /\ two = <<d, e>>
    BY <1>1, <1>2, <1>3, PairOf, Zenon
<1>5. Flat(f, one) = Flat(f, none) \o f[d]
    BY <1>2, FlatMore
<1>6. Flat(f, two) = Flat(f, one) \o f[e]
    BY <1>3, <1>4, FlatMore
<1>7. Flat(f, none) = <<>>
    BY <1>1, FlatNone
<1>8. f[d] \in Seq(S)
    OBVIOUS
<1>9. <<>> \o f[d] = f[d]
    BY <1>8, ConcatEmptySeq
<1> QED BY <1>4, <1>5, <1>6, <1>7, <1>9

\* The arguments of a pair of directives are those that C passes.
PairRead(d, e) ==
    LET found  == parse_format_string(Spell(d) \o Spell(e))
        passed == Passed(d) \o Passed(e)
    IN  [i \in 1 .. Len(found) |-> Taken(found[i])]
          = SubSeq(passed, 1, IF Len(passed) < MaxArgs THEN Len(passed) ELSE MaxArgs)

\* No pair of directives is misread.
LEMMA NoMisread == Misread = {}
<1>1. ASSUME NEW d \in Directive, NEW e \in Directive PROVE PairRead(d, e)
  <2>1. PICK ds \in Seq(Directive) : ds = <<d, e>>
      BY PairOf, Zenon
  <2>2. PICK format : format = Spell(d) \o Spell(e)
      OBVIOUS
  <2>3. PICK passed : passed = Passed(d) \o Passed(e)
      OBVIOUS
  <2>4. Flat(spelling, ds) = format
    <3>1. Flat(spelling, <<d, e>>) = spelling[d] \o spelling[e]
        BY DirectiveFunctions, FlatPair
    <3> QED BY <2>1, <2>2, <3>1 DEF spelling
  <2>5. Flat(passing, ds) = passed
    <3>1. Flat(passing, <<d, e>>) = passing[d] \o passing[e]
        BY DirectiveFunctions, FlatPair
    <3> QED BY <2>1, <2>3, <3>1 DEF passing
  <2>6. TakenAll(parse_format_string(format)) = FirstArgs(passed)
    <3>1. PICK none \in Seq(Plain) : none = <<>>
        BY PairOf, Zenon
    <3>2. TakenAll(parse_format_string(format \o none)) = FirstArgs(passed)
        BY <2>4, <2>5, FormatsRead
    <3>3. format \o none = format
      <4>1. format \in Seq(Chars)
          BY <2>4, DirectiveFunctions, FlatSequence
      <4> QED BY <3>1, <4>1, ConcatEmptySeq
    <3> QED BY <3>2, <3>3, Zenon
  <2> QED BY <2>2, <2>3, <2>6, Zenon DEF PairRead, TakenAll, FirstArgs
<1>2. \A d \in Directives \X Directives : PairRead(d[1], d[2])
    BY <1>1, DirectivesAssumption
<1> QED BY <1>2, Zenon DEF Misread, PairRead

\* A log record holds the arguments its caller passed: parse_format_string misreads no pair of
\* directives, whichever of those of the reference are tried and however many arguments a
\* call may have.  FormatsRead says the same of any number of directives.
THEOREM ArgsAsPassedCorrect == Spec => []ArgsAsPassed
<1>1. ArgsAsPassed
    BY NoMisread DEF ArgsAsPassed
<1> QED BY <1>1, PTL
===============================================================================
