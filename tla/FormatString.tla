----------------------------- MODULE FormatString -----------------------------
(***************************************************************************)
(* cp8_log::parse_format_string: the printf format of a call site is read  *)
(* once, one character at a time, into the list of the arguments it takes. *)
(* cp8_log::send walks that list with va_arg at every call, so an argument *)
(* missed or taken from the wrong register file shifts all the later ones. *)
(*                                                                         *)
(* A format is a sequence of one-character strings; the sizes are those of *)
(* a 64-bit build that is not Windows.                                     *)
(***************************************************************************)
EXTENDS Integers, Sequences, SequencesExt

CONSTANT MaxArgs \* P8_LOG_MAX_ARGS

ASSUME MaxArgsAssumption == MaxArgs \in Nat \ {0}

Digits == {"0", "1", "2", "3", "4", "5", "6", "7", "8", "9"}

\* Longest match first; find_prefix takes the first that matches.
gs_prefixes == << <<"I", "6", "4">>, <<"I", "3", "2">>, <<"l", "l">>, <<"h", "h">>, <<"h">>,
               <<"l">>, <<"L">>, <<"I">>, <<"z">>, <<"t">>, <<"w">>, <<"j">> >>

\* Mutated form: the table is sorted the other way.
find_prefix_ShortFirst(rest) ==
    LET k == SelectInSeq(Reverse(gs_prefixes), LAMBDA p : IsPrefix(p, rest))
    IN  IF k = 0 THEN <<>> ELSE Reverse(gs_prefixes)[k]

find_prefix(rest) ==
    LET k == SelectInSeq(gs_prefixes, LAMBDA p : IsPrefix(p, rest))
    IN  IF k = 0 THEN <<>> ELSE gs_prefixes[k]

IntType(prefix) ==
    CASE prefix \in {<<"l", "l">>, <<"I", "6", "4">>, <<"l">>} -> "INT64"
      [] prefix \in {<<"I">>, <<"z">>, <<"t">>}                -> "INT64"
      [] prefix = <<"h">>                                      -> "INT16"
      [] prefix = <<"h", "h">>                                 -> "INT8"
      [] prefix = <<"j">>                                      -> "INTMAX"
      [] OTHER                                                 -> "INT32"

StringType(c, prefix) ==
    IF prefix = <<"h">> THEN "STRA"
    ELSE IF c = "S" \/ prefix = <<"l">> THEN "USTR32" ELSE "USTR8"

FloatType(prefix) == IF prefix = <<"L">> THEN "LDOUBLE" ELSE "DOUBLE"
CharType(prefix)  == IF prefix = <<"l">> THEN "CHAR32" ELSE "CHAR"

StringTypes == {"STRA", "USTR8", "USTR32"}

NoType == ""

\* The type of a conversion character, NoType for any other.
ConversionType(c, prefix) ==
    CASE c \in {"d", "i", "o", "u", "x", "X", "b", "B"}      -> IntType(prefix)
      [] c \in {"s", "S"}                                    -> StringType(c, prefix)
      [] c = "p"                                             -> "PVOID"
      [] c \in {"e", "E", "f", "F", "g", "G", "a", "A"}      -> FloatType(prefix)
      [] c \in {"c", "C"}                                    -> CharType(prefix)
      [] OTHER                                               -> NoType

\* mu_size: bytes of the argument, and of a string whether the directive has a width.
SizeOf(type, width) ==
    IF type \in StringTypes THEN (IF width THEN 1 ELSE 0)
    ELSE IF type = "LDOUBLE" THEN 16 ELSE 8
-------------------------------------------------------------------------------
\* The scan: skip characters of a long prefix are still to be passed over; after the
\* argument that does not fit any more the function has returned.
ScanStart == [percent |-> FALSE, prefix |-> <<>>, width |-> FALSE, args |-> <<>>,
              skip |-> 0, returned |-> FALSE]

AddArg(s, type) ==
    IF Len(s.args) >= MaxArgs THEN [s EXCEPT !.returned = TRUE]
    ELSE [s EXCEPT !.args = Append(@, [type |-> type, size |-> SizeOf(type, s.width)])]

StarStep(s) == LET s1 == AddArg(s, "INT32") IN [s1 EXCEPT !.width = TRUE]

PrefixStep(s, rest) ==
    LET p == find_prefix(rest) IN
    IF p = <<>> THEN s
    ELSE [s EXCEPT !.prefix = p, !.skip = Len(p) - 1, !.width = @ \/ Last(p) \in Digits]

DirectiveStep(s, rest) ==
    LET c == Head(rest) IN
    IF c = "*" THEN StarStep(s)
    ELSE IF c \in {"I", "l", "h", "w", "z", "j", "t", "L"} THEN PrefixStep(s, rest)
    ELSE IF c = "%" THEN [s EXCEPT !.percent = FALSE]
    ELSE IF ConversionType(c, s.prefix) # NoType
         THEN [AddArg(s, ConversionType(c, s.prefix)) EXCEPT !.percent = FALSE]
    ELSE IF c \in Digits THEN [s EXCEPT !.width = TRUE] ELSE s

ScanStep(s, rest) ==
    IF s.returned THEN s
    ELSE IF s.skip > 0 THEN [s EXCEPT !.skip = @ - 1]
    ELSE IF s.percent THEN DirectiveStep(s, rest)
    ELSE IF Head(rest) = "%"
         THEN [s EXCEPT !.percent = TRUE, !.prefix = <<>>, !.width = FALSE]
    ELSE s

parse_format_string(format) ==
    FoldLeft(ScanStep, ScanStart, [i \in 1 .. Len(format) |-> SubSeq(format, i, Len(format))]).args

\* What the next va_arg of send takes for an argument of the list: a general register,
\* a floating point one, or a long double.
VaSlot(arg) ==
    IF arg.type \in StringTypes THEN "word"
    ELSE IF arg.size = 8 THEN (IF arg.type = "DOUBLE" THEN "double" ELSE "word")
    ELSE "long double"
-------------------------------------------------------------------------------
(***************************************************************************)
(* The reference: a format is plain text with directives in it, those of   *)
(* C17 except %n, and those with a length of Microsoft's (I64, hs, hc).    *)
(* For a directive C passes an int for every star and then the value to    *)
(* convert, and for %% nothing.                                            *)
(***************************************************************************)
CONSTANTS
    Plain,     \* the characters of plain text
    Directives \* the directives that are tried

Star   == "star"
Fields == {"none", "digit", Star}

Integrals   == {"d", "i", "o", "u", "x", "X"}
Floats      == {"e", "E", "f", "F", "g", "G", "a", "A"}
Conversions == Integrals \cup Floats \cup {"s", "c", "p"}

\* The length prefixes a conversion may have.
Lengths(conv) ==
    IF conv \in Integrals THEN {<<>>, <<"h">>, <<"h", "h">>, <<"l">>, <<"l", "l">>, <<"j">>,
                                <<"z">>, <<"t">>, <<"I", "6", "4">>}
    ELSE IF conv \in Floats THEN {<<>>, <<"l">>, <<"L">>}
    ELSE IF conv \in {"s", "c"} THEN {<<>>, <<"l">>, <<"h">>}
    ELSE {<<>>}

\* A directive and the text in front of it.  The flag 0 is for numbers, and %% has no parts.
Directive ==
    {d \in [text : Seq(Plain), flags : Seq({"-", "+", " ", "#", "0"}), width : Fields, precision : Fields,
            length : UNION {Lengths(conv) : conv \in Conversions}, conv : Conversions \cup {"%"}] :
        /\ d.length \in Lengths(d.conv)
        /\ "0" \in Range(d.flags) => d.conv \in Integrals \cup Floats
        /\ d.conv = "%" => d.flags = <<>> /\ d.width = "none" /\ d.precision = "none"}

ASSUME PlainAssumption      == "%" \notin Plain
ASSUME DirectivesAssumption == Directives \subseteq Directive

Spelled(field) ==
    CASE field = "digit" -> <<"5">> [] field = Star -> <<"*">> [] OTHER -> <<>>

Spell(d) ==
    d.text \o <<"%">> \o d.flags \o Spelled(d.width)
           \o (IF d.precision = "none" THEN <<>> ELSE <<".">> \o Spelled(d.precision))
           \o d.length \o <<d.conv>>

IntBits(length) ==
    CASE length = <<"h", "h">> -> 8 [] length = <<"h">> -> 16
      [] length = <<>>         -> 32 [] OTHER           -> 64

Word(bits) == [slot |-> "word", bits |-> bits, text |-> FALSE, width |-> FALSE]

Ints(field) == IF field = Star THEN <<Word(32)>> ELSE <<>>

Value(d) ==
    CASE d.conv \in Integrals -> Word(IntBits(d.length))
      [] d.conv = "c"         -> Word(IF d.length = <<"l">> THEN 32 ELSE 8)
      [] d.conv = "p"         -> Word(64)
      [] d.conv = "s"         -> [slot |-> "word", bits |-> 64, text |-> TRUE,
                                  width |-> {d.width, d.precision} # {"none"}]
      [] OTHER -> [slot |-> IF d.length = <<"L">> THEN "long double" ELSE "double",
                   bits |-> 64, text |-> FALSE, width |-> FALSE]

Converted(d) == IF d.conv = "%" THEN <<>> ELSE <<Value(d)>>

Passed(d) == Ints(d.width) \o Ints(d.precision) \o Converted(d)

BitsOf(type) ==
    CASE type \in {"INT8", "CHAR"}    -> 8 [] type = "INT16" -> 16
      [] type \in {"INT32", "CHAR32"} -> 32 [] OTHER         -> 64

Taken(arg) ==
    [slot |-> VaSlot(arg), bits |-> BitsOf(arg.type), text |-> arg.type \in StringTypes,
     width |-> arg.type \in StringTypes /\ arg.size = 1]

\* The pairs of directives of which an argument would be taken as another than C passed.
Misread ==
    {d \in Directives \X Directives :
        LET found  == parse_format_string(Spell(d[1]) \o Spell(d[2]))
            passed == Passed(d[1]) \o Passed(d[2])
        IN  [i \in 1 .. Len(found) |-> Taken(found[i])]
              # SubSeq(passed, 1, IF Len(passed) < MaxArgs THEN Len(passed) ELSE MaxArgs)}
===============================================================================
