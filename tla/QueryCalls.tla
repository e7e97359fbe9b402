----------------------------- MODULE QueryCalls -----------------------------
(***************************************************************************)
(* What the page of the line chart presumes of a query: it is given the    *)
(* rows of the answer in their order, then told the end, once; the end is  *)
(* no error only when every row has been given.  An answer may be spoilt   *)
(* on its way: what the page has been given by then is right and stays,    *)
(* further rows are any, and the end is still told once.                   *)
(***************************************************************************)
EXTENDS Integers, SequencesExt

CONSTANT Expected    \* the sequences of rows that answers stand for

VARIABLES
    expected,        \* the rows of this query's answer
    given,           \* the rows the page has been given
    ended,           \* the calls that told it the end
    spoilt           \* whether the answer has been spoilt

Init == expected \in Expected /\ given = <<>> /\ ended = <<>> /\ ~spoilt

\* The next rows, and perhaps the end.
Give ==
    /\ ended = <<>>
    /\ ~spoilt
    /\ \E n \in Len(given) .. Len(expected) :
         /\ given' = SubSeq(expected, 1, n)
         /\ \/ ended' \in {<<>>, <<"error">>}
            \/ n = Len(expected) /\ ended' = <<"complete">>
    /\ spoilt' \in BOOLEAN
    /\ UNCHANGED expected

\* The same of a spoilt answer: rows are not taken back.
GiveSpoilt ==
    /\ ended = <<>>
    /\ spoilt /\ spoilt'
    /\ IsPrefix(given, given')
    /\ ended' \in {<<>>, <<"error">>, <<"complete">>}
    /\ UNCHANGED expected

Ask ==
    /\ ended # <<>>
    /\ expected' \in Expected /\ given' = <<>> /\ ended' = <<>>
    /\ ~spoilt'

Next == Give \/ GiveSpoilt \/ Ask

Spec == Init /\ [][Next]_<<expected, given, ended, spoilt>>
=============================================================================
