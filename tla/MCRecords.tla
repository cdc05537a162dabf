------------------------------- MODULE MCRecords -------------------------------
(***************************************************************************)
(* Records and FormatString for TLC: calls whose records fill a buffer     *)
(* exactly, leave odd lengths, split a number or a string, need three      *)
(* buffers, and meet the 16-bit limit in an attribute; and the formats of  *)
(* two directives, each with a width and a precision or with a length.     *)
(***************************************************************************)
EXTENDS Records, TLC

\* n characters of three bytes, after one of a single byte.
Text(n) == <<"lead">> \o [i \in 1 .. 3 * n |-> IF i % 3 = 1 THEN "lead" ELSE "cont"]
Attr(text) == [known |-> TRUE, text |-> text]
Call(kind, format, strings, attrs) ==
    [kind |-> kind, format |-> format, strings |-> strings, attrs |-> attrs]

MCCallOf ==
    "fill"  :> Call("log", <<"%", "d">>, <<>>, <<Attr(NoText), Attr(Text(5)),
                                                 Attr(NoText), Attr(NoText)>>) @@
    "split" :> Call("log", <<"%", "s", "%", "L", "f">>, <<43>>, <<>>) @@
    "long"  :> Call("log", <<"%", "*", "d", "%", "s">>, <<70>>,
                       <<[known |-> FALSE, text |-> NoText], Attr(<<>>), Attr(NoText)>>) @@
    "limit" :> Call("begin", <<>>, <<>>, <<Attr(NoText), Attr(Text(60)), Attr(NoText)>>) @@
    "end"   :> Call("end", <<>>, <<>>, <<>>)

MCCalls == "log" :> {"fill", "split", "long"} @@ "trace" :> {"limit", "end"}

\* The premise of the theorems on Records holds of these calls.
ASSUME ArgsFit

\* A text of characters that mean something inside a directive.
MCPlain == {"l", "5", "d"}

\* Every width and precision without a length; every length behind a width; flags behind a
\* text; %% with and without a text.
MCDirectives ==
    [text : {<<>>}, flags : {<<>>}, width : Fields, precision : Fields, length : {<<>>},
     conv : {"d", "s", "f"}] \cup
    UNION {[text : {<<>>}, flags : {<<>>}, width : {"digit", Star}, precision : {"none"},
            length : Lengths(conv), conv : {conv}] : conv \in {"i", "s", "f", "c", "p"}} \cup
    [text : {<<"5", "l", "d">>}, flags : {<<"-">>, <<"#", "+">>}, width : {"none", Star},
     precision : {"none"}, length : {<<>>}, conv : {"X", "s"}] \cup
    [text : {<<"l">>}, flags : {<<"0">>, <<" ", "0">>}, width : {"none"}, precision : {"none", Star},
     length : {<<"l">>}, conv : {"o", "e"}] \cup
    [text : {<<>>, <<"d">>}, flags : {<<>>}, width : {"none"}, precision : {"none"},
     length : {<<>>}, conv : {"%"}]
===============================================================================
