---------------------------- MODULE MCFluxQuery ----------------------------
(***************************************************************************)
(* Answers for TLC: two tables with other columns, annotations, defaults,  *)
(* quotes, a comma and a line end within quotes, a letter of two bytes,    *)
(* both kinds of line end, a last line without one, no table at all, and   *)
(* two answers that break off the annotations of their table.              *)
(***************************************************************************)
EXTENDS FluxQuery

JoinedBy(cells) ==
    FoldLeft(LAMBDA line, cell : line \o <<"comma">> \o cell, Head(cells),
             Tail(cells))

Line(cells)   == JoinedBy(cells) \o <<"cr", "lf">>
LfLine(cells) == JoinedBy(cells) \o <<"lf">>
BlankLine     == <<"cr", "lf">>

No == <<>>
Number(t) == [as |-> "number", text |-> t]
Bool(t)   == [as |-> "boolean", text |-> t]
Text(t)   == [as |-> "text", text |-> t]

Name  == <<"na", "hi", "lo">>
NameL == <<"na", "letter">>

\* Two tables; the second one has one column, no default and a row too wide.
Tables ==
    [bytes |->
        Line(<<<<"#datatype">>, <<"string">>, <<"double">>, <<"boolean">>>>) \o
        Line(<<<<"#group">>, <<"true">>, No, No>>) \o
        Line(<<<<"#default">>, <<"wind">>, <<"9">>, No>>) \o
        Line(<<No, Name, <<"value">>, <<"ok">>>>) \o
        Line(<<No, No, <<"1">>, <<"true">>>>) \o
        Line(<<No, <<"quote", "a", "comma", "b", "quote">>, No, No>>) \o
        BlankLine \o
        LfLine(<<<<"#datatype">>, <<"long">>>>) \o
        LfLine(<<No, <<"count">>>>) \o
        LfLine(<<No, No, <<"more">>>>) \o
        BlankLine,
     rows |->
        << (NameL :> Text(<<"wind">>)) @@ (<<"value">> :> Number(<<"1">>)) @@
             (<<"ok">> :> Bool(<<"true">>)),
           (NameL :> Text(<<"a", "comma", "b">>)) @@
             (<<"value">> :> Number(<<"9">>)) @@
             (<<"ok">> :> Bool(<<"false">>)),
           <<"count">> :> Text(No) >>]

\* No annotations, a column in the first place, quotes within quotes, a line
\* end within quotes, and a last line without one.
Quotes ==
    [bytes |->
        LfLine(<<<<"k">>, <<"v">>>>) \o
        LfLine(<<<<"quote", "x", "quote", "quote", "y", "quote">>, No>>) \o
        LfLine(<<<<"quote", "x", "lf", "y", "quote">>, <<"2">>>>) \o
        JoinedBy(<<<<"z">>, <<"3">>>>),
     rows |->
        << (<<"k">> :> Text(<<"x", "quote", "y">>)) @@ (<<"v">> :> Text(No)),
           (<<"k">> :> Text(<<"x", "lf", "y">>)) @@ (<<"v">> :> Text(<<"2">>)),
           (<<"k">> :> Text(<<"z">>)) @@ (<<"v">> :> Text(<<"3">>)) >>]

Nothing == [bytes |-> BlankLine, rows |-> <<>>]

\* More names than annotations, after a row of another table.
TooWide ==
    [bytes |->
        Line(<<<<"k">>>>) \o Line(<<<<"z">>>>) \o BlankLine \o
        Line(<<<<"#datatype">>, <<"double">>>>) \o
        Line(<<No, <<"k">>, <<"v">>>>) \o Line(<<No, <<"1">>, <<"2">>>>),
     rows |-> << <<"k">> :> Text(<<"z">>) >>]

\* The same in a last line without a line end.
WideAtLast ==
    [bytes |-> LfLine(<<<<"#group">>>>) \o JoinedBy(<<No, <<"k">>>>),
     rows |-> <<>>]

MCAnswers == {Tables, Quotes, Nothing, TooWide, WideAtLast}
=============================================================================
