------------------------------ MODULE FluxQuery ------------------------------
(***************************************************************************)
(* One query of the client of the data base, from the answer of the server *)
(* to the calls which the page gets: the browser's transport, the splitter *)
(* of chunks into lines, of lines into cells, and the reader of annotated  *)
(* tables (the copy of influxdb-client-js kept with instrujs/timestui).    *)
(*                                                                         *)
(* The answer comes in chunks that may end anywhere, in the middle of a    *)
(* character, of a line end or of a row; the connection can break at any   *)
(* chunk.  A byte is a comma, a quote, a cr or lf, one half (hi, lo) of a  *)
(* letter of two bytes, or a run of letters no part of the code looks into.*)
(***************************************************************************)
EXTENDS Integers, SequencesExt

CONSTANTS
    Answers,       \* the answers: their bytes, and the rows they stand for
    MaxChunk       \* a chunk has at most so many bytes, or all that are left

ASSUME FluxAssumption == MaxChunk \in Nat \ {0}

VARIABLES
    answer,        \* what the server has answered
    phase,         \* where the promise of the transport is
    rest,          \* the bytes that have not been read
    state,         \* completeCommunicationObserver.ts: state
    finished,      \* ChunksToLines.ts: finished
    previous,      \* ChunksToLines.ts: previous
    table,         \* linesToTables.ts: columns, expectMeta, lastMeta
    rows,          \* idbclient.ts: what the query has collected
    ended,         \* the call that told the page the end
    rejected,      \* an exception that nobody handles
    cut            \* history: a chunk has ended within quotes

fluxVars == <<answer, phase, rest, state, finished, previous, table, rows,
              ended, rejected, cut>>

-----------------------------------------------------------------------------
(* One line.                                                               *)

\* toUtf8String: the two bytes of a letter become one letter.
ToUtf8String(bytes) ==
    FoldLeft(LAMBDA text, b : IF b = "lo" /\ text # <<>> /\ Last(text) = "hi"
                              THEN Append(Front(text), "letter")
                              ELSE Append(text, b), <<>>, bytes)

\* Two quotes within quotes stand for one.
Unescaped(cell) ==
    FoldLeft(LAMBDA r, b :
               IF b = "quote" /\ r.open
               THEN [r EXCEPT !.open = FALSE]
               ELSE [text |-> Append(r.text, b), open |-> b = "quote"],
             [text |-> <<>>, open |-> FALSE], cell).text

QuotesIn(cell) == Len(SelectSeq(cell, LAMBDA b : b = "quote"))

\* getValue
GetValue(cell) ==
    IF QuotesIn(cell) = 0 THEN cell
    ELSE IF QuotesIn(cell) = 2 THEN SubSeq(cell, 2, Len(cell) - 1)
    ELSE Unescaped(SubSeq(cell, 2, Len(cell) - 1))

\* splitLine: commas end a cell unless its quotes are still open.
SplitLine(line) ==
    LET raw == FoldLeft(LAMBDA cells, b :
                          IF b = "comma" /\ QuotesIn(Last(cells)) % 2 = 0
                          THEN Append(cells, <<>>)
                          ELSE Append(Front(cells), Append(Last(cells), b)),
                        <<<<>>>>, line)
    IN  [i \in DOMAIN raw |-> GetValue(raw[i])]

-----------------------------------------------------------------------------
(* Tables.                                                                 *)

Column == [label |-> <<>>, dataType |-> <<>>, defaultValue |-> <<>>]

NoTable == [columns |-> <<>>, expectMeta |-> TRUE, first |-> 0, meta |-> <<>>]

\* The columns of a table begin with its first line of annotations.
ColumnsFor(t, cells) ==
    IF t.columns = <<>> THEN [i \in DOMAIN cells |-> Column] ELSE t.columns

\* Whether there is a column for each cell: the handler throws otherwise.
Fits(t, cells) == Len(cells) <= Len(ColumnsFor(t, cells))

Annotation(t, cells, field) ==
    [t EXCEPT !.columns = [i \in DOMAIN ColumnsFor(t, cells) |->
        IF i \in 2 .. Len(cells)
        THEN [ColumnsFor(t, cells)[i] EXCEPT ![field] = cells[i]]
        ELSE ColumnsFor(t, cells)[i]]]

\* The names of the columns; a first cell that is empty is no column.
Names(t, cells) ==
    LET skip == IF cells[1] = <<>> THEN 1 ELSE 0
        columns == SubSeq(ColumnsFor(t, cells), skip + 1,
                          Len(ColumnsFor(t, cells)))
        named == [i \in DOMAIN columns |->
                    IF i + skip <= Len(cells)
                    THEN [columns[i] EXCEPT !.label = cells[i + skip]]
                    ELSE columns[i]]
    IN  [columns |-> named, expectMeta |-> FALSE, first |-> skip,
         meta |-> named]

\* typeSerializers: booleans and numbers become values, the rest stays text.
Serialized(type, text) ==
    CASE type = <<"boolean">> ->
           [as |-> "boolean",
            text |-> IF text = <<"true">> THEN text ELSE <<"false">>]
      [] type = <<"double">> ->
           [as |-> "number", text |-> IF text = <<>> THEN <<"0">> ELSE text]
      [] OTHER -> [as |-> "text", text |-> text]

\* toObject: cells beyond the last column are left out, an empty cell has the
\* default of its column, and of two columns of one name the later one counts.
ToObject(columns, cells) ==
    LET last == IF Len(cells) < Len(columns) THEN Len(cells) ELSE Len(columns)
        value(i) == Serialized(columns[i].dataType,
                               IF cells[i] = <<>> THEN columns[i].defaultValue
                                                  ELSE cells[i])
    IN  FoldLeft(LAMBDA o, i : (columns[i].label :> value(i)) @@ o,
                 <<>>, [i \in 1 .. last |-> i])

\* The reader of the lines: its table, the rows it has given to the page, and
\* whether a line has made it throw, after which it gets no other.
Reader(t, given) == [table |-> t, rows |-> given, thrown |-> FALSE]

\* Mistake: the columns of the last table stay.
KeepsColumns(t) == [t EXCEPT !.expectMeta = TRUE]

\* A blank line ends the table.
AfterBlank(t) == [t EXCEPT !.expectMeta = TRUE, !.columns = <<>>]

\* A line of annotations or of names; the query asks for no other annotations
\* than these three.
AfterMeta(t, cells) ==
    CASE cells[1] = <<"#datatype">> -> Annotation(t, cells, "dataType")
      [] cells[1] = <<"#default">>  -> Annotation(t, cells, "defaultValue")
      [] cells[1] = <<"#group">>    -> [t EXCEPT !.columns = ColumnsFor(t, cells)]
      [] OTHER -> Names(t, cells)

\* linesToTables.ts: next, and what the page does with a row.
NextLine(r, line) ==
    LET t == r.table
        cells == SplitLine(line)
    IN  IF line = <<>> THEN [r EXCEPT !.table = AfterBlank(t)]
        ELSE IF ~t.expectMeta THEN
          [r EXCEPT !.rows = Append(@, ToObject(t.meta,
                                         SubSeq(cells, t.first + 1, Len(cells))))]
        ELSE IF Fits(t, cells) THEN [r EXCEPT !.table = AfterMeta(t, cells)]
        ELSE [r EXCEPT !.thrown = TRUE]

-----------------------------------------------------------------------------
(* Chunks.                                                                 *)

WithoutCr(line) == IF line # <<>> /\ Last(line) = "cr" THEN Front(line) ELSE line

\* One round of the loop of bufferReceived.
Byte(r, b) ==
    IF r.reader.thrown THEN r
    ELSE IF b = "lf" /\ ~r.quoted THEN
      [r EXCEPT !.line = <<>>,
                !.reader = NextLine(@, ToUtf8String(WithoutCr(r.line)))]
    ELSE [r EXCEPT !.line = Append(@, b),
                   !.quoted = IF b = "quote" THEN ~@ ELSE @]

\* bufferReceived: a chunk is read on from what the last one has left over, but
\* never within quotes.  The quote that closes a cell which began in the last
\* chunk is taken for one that opens: line ends are cell text from there to the
\* next quote or to the end of the chunk.
BufferReceived(chunk) ==
    LET upTo[i \in 0 .. Len(chunk)] ==
          IF i = 0 THEN [line |-> previous, quoted |-> FALSE,
                         reader |-> Reader(table, rows)]
                   ELSE Byte(upTo[i - 1], chunk[i])
    IN  upTo[Len(chunk)]

\* complete: what has no line end is a line, too.
LastLine ==
    IF previous = <<>> THEN Reader(table, rows)
                       ELSE NextLine(Reader(table, rows), ToUtf8String(previous))

-----------------------------------------------------------------------------
(* The calls of the transport.                                             *)

\* Mistake: an error leaves the way to the page open.
StaysOpen == finished' = finished

\* An error or the end has been passed on.
Finish == finished' = TRUE

Keep == UNCHANGED <<state, finished, previous, table, rows, ended, rejected>>

\* observer.next, ChunksToLines.next: a line that throws is an error.
NextChunk(chunk) ==
    IF state # "open" \/ finished THEN Keep
    ELSE LET r == BufferReceived(chunk)
         IN  /\ table' = r.reader.table /\ rows' = r.reader.rows
             /\ UNCHANGED <<state, rejected>>
             /\ IF r.reader.thrown
                THEN Finish /\ ended' = Append(ended, "error")
                     /\ UNCHANGED previous
                ELSE previous' = r.line /\ UNCHANGED <<finished, ended>>

\* observer.error, ChunksToLines.error, the error of the page.  The complete
\* that follows finds the observer in another state.
Error ==
    IF state # "open" THEN Keep
    ELSE /\ state' = "failed"
         /\ UNCHANGED <<previous, table, rows, rejected>>
         /\ IF finished THEN UNCHANGED <<finished, ended>>
            ELSE Finish /\ ended' = Append(ended, "error")

\* Mistake: the end is only passed on after a last line.
PassedAfterLine == previous # <<>>

\* The end is passed on whether there was a last line or not.
PassedOn == TRUE

\* observer.complete, ChunksToLines.complete: when the last line throws, the
\* promise is rejected and the page is told nothing.
Complete ==
    IF state # "open" THEN Keep
    ELSE /\ state' = "completed"
         /\ UNCHANGED previous
         /\ IF finished THEN UNCHANGED <<finished, table, rows, ended, rejected>>
            ELSE /\ table' = LastLine.table /\ rows' = LastLine.rows
                 /\ rejected' = LastLine.thrown
                 /\ IF LastLine.thrown \/ ~PassedOn
                    THEN UNCHANGED <<finished, ended>>
                    ELSE Finish /\ ended' = Append(ended, "complete")

-----------------------------------------------------------------------------
(* FetchTransport.ts: send                                                 *)

\* Whether the bytes from the start to where n more have been read end within
\* quotes.
EndsInQuotes(n) ==
    QuotesIn(SubSeq(answer.bytes, 1, Len(answer.bytes) - Len(rest) + n)) % 2 = 1

Respond ==
    /\ phase = "fetch"
    /\ phase' \in {"reading", "errortext"}
    /\ UNCHANGED <<answer, rest, cut>> /\ Keep

FetchFails ==
    /\ phase = "fetch"
    /\ phase' = "over"
    /\ Error
    /\ UNCHANGED <<answer, rest, cut>>

\* A status of 300 or more: an error, with the text of the body or without.
ErrorText ==
    /\ phase = "errortext"
    /\ phase' = "over"
    /\ Error
    /\ UNCHANGED <<answer, rest, cut>>

ReadChunk ==
    /\ phase = "reading"
    /\ \E n \in 1 .. Len(rest) :
         /\ n <= MaxChunk \/ n = Len(rest)
         /\ cut' = (cut \/ EndsInQuotes(n))
         /\ rest' = SubSeq(rest, n + 1, Len(rest))
         /\ NextChunk(SubSeq(rest, 1, n))
    /\ UNCHANGED <<answer, phase>>

ReadFails ==
    /\ phase = "reading"
    /\ phase' = "over"
    /\ Error
    /\ UNCHANGED <<answer, rest, cut>>

ReadDone ==
    /\ phase = "reading" /\ rest = <<>>
    /\ phase' = "over"
    /\ Complete
    /\ UNCHANGED <<answer, rest, cut>>

\* queryRows: new objects for each query; the page has taken the rows of the
\* last one, or dropped them after an error.
QueryRows ==
    /\ phase = "over" /\ ended # <<>>
    /\ phase' = "fetch"
    /\ answer' \in Answers /\ rest' = answer'.bytes
    /\ state' = "open" /\ finished' = FALSE /\ previous' = <<>>
    /\ table' = NoTable
    /\ rows' = <<>> /\ ended' = <<>> /\ cut' = FALSE
    /\ UNCHANGED rejected

FluxInit ==
    /\ phase = "fetch"
    /\ answer \in Answers /\ rest = answer.bytes
    /\ state = "open" /\ finished = FALSE /\ previous = <<>>
    /\ table = NoTable
    /\ rows = <<>> /\ ended = <<>>
    /\ rejected = FALSE /\ cut = FALSE

FluxNext ==
    \/ Respond \/ FetchFails \/ ErrorText
    \/ ReadChunk \/ ReadFails \/ ReadDone
    \/ QueryRows

FluxSpec == FluxInit /\ [][FluxNext]_fluxVars

\* What the promises of the browser settle at last, one way or the other; an
\* answer need not come to its end.
FairFluxSpec ==
    /\ FluxSpec
    /\ WF_fluxVars(Respond \/ FetchFails)
    /\ WF_fluxVars(ErrorText)
    /\ WF_fluxVars(ReadFails \/ ReadDone)

-----------------------------------------------------------------------------
(* Properties.                                                             *)

\* The page is told the end of a query at most once, and from then on gets no
\* row of it: an exception in the middle of a chunk, the chunks that still
\* come, and the complete that follows every error are all kept from it
\* (ChunksToLines.ts: finished, completeCommunicationObserver.ts: state).
EndedOnce ==
    /\ Len(ended) <= 1
    /\ finished <=> ended # <<>>
    /\ state # "open" => finished \/ rejected

\* Wherever the chunks end, the page is given the rows that the answer stands
\* for, in their order, and told that the query is complete only with the last
\* one: what the chart (module TimesTUI) presumes of a query.  A chunk that
\* ends within quotes spoils the rest of the answer, since the next one begins
\* outside of them (ChunksToLines.ts:57): from then on rows may be split or
\* merged, but what the page has is right and stays, and the end comes once.
Promise == INSTANCE QueryCalls WITH
    Expected <- {a.rows : a \in Answers}, expected <- answer.rows,
    given <- rows, spoilt <- cut

ImplementsQueryCalls == Promise!Spec

\* The page is told an end, except when the last line has no line end and
\* makes the reader throw: then it waits for ever.
QueryEnds == phase = "fetch" ~> (ended # <<>> \/ rejected)
=============================================================================
