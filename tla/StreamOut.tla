----------------------------- MODULE StreamOut -----------------------------
(***************************************************************************)
(* The talking instance of the InfluxDB streamer instrument                *)
(* (TacticsInstrument_StreamoutSingle, src/src/StreamoutSingle.cpp): the   *)
(* UI thread filters the samples by schema and pushes lines into a FIFO;   *)
(* the communication thread pops them, collects batches of m_linesPerWrite *)
(* lines and writes each batch to a file or to the HTTP API of the server. *)
(*                                                                         *)
(* A line is abstracted to the number of its push, the schema it matched   *)
(* and its time stamp.  The module starts where the constructor has set    *)
(* the state READY and has let the thread run.                             *)
(***************************************************************************)
EXTENDS Integers, Sequences, FiniteSets

CONSTANTS
    Schemas,          \* vSchema: sequence of [st, bStore, iInterval, sSkpathe]
    Stamps,           \* time stamps of the samples [ms]
    FileTarget,       \* m_targetAsFilePath is given
    LinesPerWrite,    \* m_linesPerWrite
    BlockingLimit,    \* STSM_MAX_UNWRITTEN_FIFO_ELEMENTS_BLOCKING
    UnblockingLimit,  \* STSM_MAX_UNWRITTEN_FIFO_ELEMENTS_UNBLOCKING
    RegisterTicks,    \* STSM_ALLPATHS_COUNT
    MaxPushed         \* bound of the model on m_pushedInFifo

ASSUME SchemasAssumption ==
    Schemas \in Seq([st : STRING, bStore : BOOLEAN,
                     iInterval : Nat, sSkpathe : STRING])
ASSUME StampsAssumption == Stamps \subseteq Nat
ASSUME LimitsAssumption ==
    /\ FileTarget \in BOOLEAN
    /\ LinesPerWrite \in Nat \ {0}
    /\ BlockingLimit \in Nat
    /\ UnblockingLimit \in Nat
    /\ UnblockingLimit < BlockingLimit
    /\ RegisterTicks \in Nat \ {0}
    /\ MaxPushed \in Nat

VARIABLES
    lastTimeStamp,   \* vSchema[i].lastTimeStamp
    recording,       \* SkData::m_recordAllDbSchemas
    registered,      \* keys of SkData::m_dbQueryMap
    cntRegister,     \* m_cntSchemaRegisterAll
    comm,            \* m_stateComm
    overflow,        \* m_stateFifoOverFlow
    qLine,           \* the FIFO
    pushed,          \* m_pushedInFifo
    popped,          \* m_poppedFromFifo
    cmdStop,         \* m_cmdThreadStop
    panel,           \* "ready", "closing" (UI in Wait() of the thread), "closed"
    pc,              \* where the communication thread is
    batch,           \* lines in sData
    written,         \* m_writtenToOutput
    output           \* lines in the file, or acknowledged by the server

uiVars == <<lastTimeStamp, recording, registered, cntRegister>>
fifoVars == <<overflow, qLine, pushed, popped>>
threadVars == <<comm, pc, batch, written, output>>
vars == <<uiVars, fifoVars, threadVars, cmdStop, panel>>

Line == [id : Nat \ {0}, schema : DOMAIN Schemas, stamp : Stamps]

TypeOK ==
    /\ lastTimeStamp \in [DOMAIN Schemas -> Stamps \cup {0}]
    /\ recording \in BOOLEAN
    /\ registered \subseteq {Schemas[i].sSkpathe : i \in DOMAIN Schemas}
    /\ cntRegister \in 0..(RegisterTicks - 1)
    /\ comm \in {"UNKNOWN", "INIT", "ERROR", "CONNECTING", "READY"}
    /\ overflow \in {"UNKNOWN", "NOT_BLOCKING", "BLOCKING"}
    /\ qLine \in Seq(Line)
    /\ pushed \in Nat
    /\ popped \in Nat
    /\ cmdStop \in BOOLEAN
    /\ panel \in {"ready", "closing", "closed"}
    /\ pc \in {"entry", "loop", "connect", "collect", "write", "reply",
               "exit", "ended"}
    /\ batch \in Seq(Line)
    /\ written \in Nat
    /\ output \in Seq(Line)

-----------------------------------------------------------------------------
(* The constructor, from CONFIGURED to READY.                              *)

Init ==
    /\ lastTimeStamp = [i \in DOMAIN Schemas |-> 0]
    /\ recording = FALSE
    /\ registered = {}
    /\ cntRegister = 0
    /\ comm = "UNKNOWN"
    /\ overflow = "UNKNOWN"
    /\ qLine = <<>>
    /\ pushed = 0
    /\ popped = 0
    /\ cmdStop = FALSE
    /\ panel = "ready"
    /\ pc = "entry"
    /\ batch = <<>>
    /\ written = 0
    /\ output = <<>>

-----------------------------------------------------------------------------
(* UI thread: schema filter and FIFO input.                                *)

Abs(n) == IF n < 0 THEN -n ELSE n

\* Mistake: the lapse is rounded instead of truncated.
TimeLapseRounded(i, ts) == (Abs(ts - lastTimeStamp[i]) + 500) \div 1000

\* Time stamps may jump back in a VDR playback: the lapse is absolute, [s].
TimeLapse(i, ts) == Abs(ts - lastTimeStamp[i]) \div 1000

Due(i, ts) ==
    \/ Schemas[i].iInterval = 0
    \/ Schemas[i].iInterval <= TimeLapse(i, ts)

\* The schemas of sentence st at which GetSchema stops its search.
Stops(st, ts) ==
    {i \in DOMAIN Schemas :
        /\ Schemas[i].st = st
        /\ ~Schemas[i].bStore \/ Due(i, ts)}

\* GetSchema returns true with schema i: the first one that stops the
\* search is to be stored.
GetSchema(st, ts, i) ==
    /\ i \in Stops(st, ts)
    /\ \A j \in Stops(st, ts) : i <= j
    /\ Schemas[i].bStore

PushDelta == pushed - popped

\* Mistake: off by one at the blocking limit.
HasRoomOneMore ==
    \/ overflow = "NOT_BLOCKING" /\ PushDelta <= BlockingLimit + 1
    \/ overflow # "NOT_BLOCKING" /\ PushDelta <= UnblockingLimit

HasRoom ==
    \/ overflow = "NOT_BLOCKING" /\ PushDelta <= BlockingLimit
    \/ overflow # "NOT_BLOCKING" /\ PushDelta <= UnblockingLimit

\* Under m_mtxQLine: one alternative per branch of SetData().
PushLine(line) ==
    /\ comm = "READY"
    /\ HasRoom
    /\ pushed < MaxPushed
    /\ overflow' = "NOT_BLOCKING"
    /\ qLine' = Append(qLine, line)
    /\ pushed' = pushed + 1
    /\ UNCHANGED popped

StartBlocking ==
    /\ comm = "READY"
    /\ overflow = "NOT_BLOCKING"
    /\ ~HasRoom
    /\ overflow' = "BLOCKING"
    /\ UNCHANGED <<qLine, pushed, popped>>

DropLine ==
    /\ comm # "READY" \/ (overflow # "NOT_BLOCKING" /\ ~HasRoom)
    /\ UNCHANGED fifoVars

SetData(st, ts) ==
    /\ panel = "ready"
    /\ \E i \in DOMAIN Schemas :
         /\ GetSchema(st, ts, i)
         /\ lastTimeStamp' = [lastTimeStamp EXCEPT ![i] = ts]
         /\ registered' = IF recording
                          THEN registered \cup {Schemas[i].sSkpathe}
                          ELSE registered
         /\ \/ PushLine([id |-> pushed + 1, schema |-> i, stamp |-> ts])
            \/ StartBlocking
            \/ DropLine
    /\ UNCHANGED <<recording, cntRegister, threadVars, cmdStop, panel>>

\* A web instrument asks for the data base schemas ("getalldb").
CollectAllDbSchemaPaths ==
    /\ panel = "ready"
    /\ recording' = TRUE
    /\ UNCHANGED <<lastTimeStamp, registered, cntRegister, fifoVars,
                   threadVars, cmdStop, panel>>

\* The one second tick closes a forgotten registration of schemas.
CountRegister ==
    cntRegister + (IF cntRegister < RegisterTicks /\ recording THEN 1 ELSE 0)

\* Mistake: the window of the registration is counted but never closed.
TimerOnlyCounts ==
    /\ panel = "ready"
    /\ ~cmdStop
    /\ cntRegister' = CountRegister % RegisterTicks
    /\ UNCHANGED <<lastTimeStamp, recording, registered, fifoVars, threadVars,
                   cmdStop, panel>>

\* Mistake: the counter is not reset for the next registration.
TimerKeepsCount ==
    /\ panel = "ready"
    /\ ~cmdStop
    /\ recording' = (recording /\ CountRegister < RegisterTicks)
    /\ cntRegister' = CountRegister
    /\ UNCHANGED <<lastTimeStamp, registered, fifoVars, threadVars,
                   cmdStop, panel>>

OnStreamOutUpdTimer ==
    /\ panel = "ready"
    /\ ~cmdStop
    /\ IF CountRegister >= RegisterTicks
       THEN recording' = FALSE /\ cntRegister' = 0
       ELSE cntRegister' = CountRegister /\ UNCHANGED recording
    /\ UNCHANGED <<lastTimeStamp, registered, fifoVars, threadVars,
                   cmdStop, panel>>

\* The close event: the UI thread commands the stop and waits for the thread,
\* unless the thread is no longer running.
OnClose ==
    /\ panel = "ready"
    /\ IF pc # "ended"
       THEN cmdStop' = TRUE /\ panel' = "closing"
       ELSE panel' = "closed" /\ UNCHANGED cmdStop
    /\ UNCHANGED <<uiVars, fifoVars, threadVars>>

\* Wait() returns, the destructor finalises.
ThreadJoined ==
    /\ panel = "closing"
    /\ pc = "ended"
    /\ panel' = "closed"
    /\ UNCHANGED <<uiVars, fifoVars, threadVars, cmdStop>>

-----------------------------------------------------------------------------
(* Communication thread, Entry().                                          *)

\* The target is opened: the server still has to be connected, a file is
\* ready at once.
EntryOpens ==
    /\ pc = "entry"
    /\ overflow' = "NOT_BLOCKING"
    /\ written' = 0
    /\ comm' = IF FileTarget THEN "READY" ELSE "CONNECTING"
    /\ pc' = "loop"
    /\ UNCHANGED <<uiVars, qLine, pushed, popped, batch, output,
                   cmdStop, panel>>

EntryOpenFails ==
    /\ pc = "entry"
    /\ FileTarget
    /\ overflow' = "NOT_BLOCKING"
    /\ comm' = "INIT"
    /\ pc' = "ended"
    /\ UNCHANGED <<uiVars, qLine, pushed, popped, batch, written, output,
                   cmdStop, panel>>

\* Head of the outer loop.
LoopStops ==
    /\ pc = "loop"
    /\ cmdStop
    /\ pc' = "exit"
    /\ UNCHANGED <<uiVars, fifoVars, comm, batch, written, output,
                   cmdStop, panel>>

LoopContinues ==
    /\ pc = "loop"
    /\ ~cmdStop
    /\ pc' = IF comm = "READY" THEN "collect" ELSE "connect"
    /\ UNCHANGED <<uiVars, fifoVars, comm, batch, written, output,
                   cmdStop, panel>>

ConnectSucceeds ==
    /\ pc = "connect"
    /\ ~cmdStop
    /\ comm' = "READY"
    /\ pc' = "collect"
    /\ UNCHANGED <<uiVars, fifoVars, batch, written, output, cmdStop, panel>>

ConnectFails ==
    /\ pc = "connect"
    /\ ~cmdStop
    /\ comm' = "ERROR"
    /\ pc' = "loop"
    /\ UNCHANGED <<uiVars, fifoVars, batch, written, output, cmdStop, panel>>

ConnectAbandoned ==
    /\ pc = "connect"
    /\ cmdStop
    /\ pc' = "loop"
    /\ UNCHANGED <<uiVars, fifoVars, comm, batch, written, output,
                   cmdStop, panel>>

\* Under m_mtxQLine.  An empty FIFO lets the thread sleep: no step.
CollectLine ==
    /\ pc = "collect"
    /\ ~cmdStop
    /\ Len(batch) < LinesPerWrite
    /\ qLine # <<>>
    /\ batch' = Append(batch, Head(qLine))
    /\ qLine' = Tail(qLine)
    /\ popped' = popped + 1
    /\ UNCHANGED <<uiVars, overflow, pushed, comm, pc, written, output,
                   cmdStop, panel>>

\* Mistake: one line more is awaited than is ever collected.
BatchNeedsOneMore ==
    /\ pc = "collect"
    /\ ~cmdStop
    /\ Len(batch) > LinesPerWrite
    /\ pc' = "write"
    /\ UNCHANGED <<uiVars, fifoVars, comm, batch, written, output,
                   cmdStop, panel>>

BatchComplete ==
    /\ pc = "collect"
    /\ ~cmdStop
    /\ Len(batch) >= LinesPerWrite
    /\ pc' = "write"
    /\ UNCHANGED <<uiVars, fifoVars, comm, batch, written, output,
                   cmdStop, panel>>

\* Mistake: the stop only leaves the inner loop, the partial batch is written.
CollectFlushes ==
    /\ pc = "collect"
    /\ cmdStop
    /\ pc' = "write"
    /\ UNCHANGED <<uiVars, fifoVars, comm, batch, written, output,
                   cmdStop, panel>>

\* Mistake: the stop is not tested while the FIFO is empty.
CollectStopsWithData ==
    /\ pc = "collect"
    /\ cmdStop
    /\ qLine # <<>>
    /\ batch' = <<>>
    /\ pc' = "exit"
    /\ UNCHANGED <<uiVars, fifoVars, comm, written, output, cmdStop, panel>>

CollectStops ==
    /\ pc = "collect"
    /\ cmdStop
    /\ batch' = <<>>
    /\ pc' = "exit"
    /\ UNCHANGED <<uiVars, fifoVars, comm, written, output, cmdStop, panel>>

\* Mistake: sData is not reset between the batches.
WriteFileKeepsData ==
    /\ pc = "write"
    /\ FileTarget
    /\ output' = output \o batch
    /\ written' = written + 1
    /\ pc' = "loop"
    /\ UNCHANGED <<uiVars, fifoVars, comm, batch, cmdStop, panel>>

WriteFile ==
    /\ pc = "write"
    /\ FileTarget
    /\ output' = output \o batch
    /\ written' = written + 1
    /\ batch' = <<>>
    /\ pc' = "loop"
    /\ UNCHANGED <<uiVars, fifoVars, comm, cmdStop, panel>>

WriteSocket ==
    /\ pc = "write"
    /\ ~FileTarget
    /\ written' = written + 1
    /\ pc' = "reply"
    /\ UNCHANGED <<uiVars, fifoVars, comm, batch, output, cmdStop, panel>>

WriteSocketFails ==
    /\ pc = "write"
    /\ ~FileTarget
    /\ comm' = "ERROR"
    /\ batch' = <<>>
    /\ pc' = "loop"
    /\ UNCHANGED <<uiVars, fifoVars, written, output, cmdStop, panel>>

\* "HTTP/1.1 204"
ReplyAccepted ==
    /\ pc = "reply"
    /\ output' = output \o batch
    /\ batch' = <<>>
    /\ pc' = "loop"
    /\ UNCHANGED <<uiVars, fifoVars, comm, written, cmdStop, panel>>

ReplyRejected ==
    /\ pc = "reply"
    /\ batch' = <<>>
    /\ pc' = "loop"
    /\ UNCHANGED <<uiVars, fifoVars, comm, written, output, cmdStop, panel>>

\* Mistake: the time-out leaves m_stateComm as it is.
TimeOutStaysReady ==
    /\ pc = "reply"
    /\ ~cmdStop
    /\ batch' = <<>>
    /\ pc' = "exit"
    /\ UNCHANGED <<uiVars, fifoVars, comm, written, output, cmdStop, panel>>

\* No answer in time: the break leaves the outer loop, too.
ReplyTimeOut ==
    /\ pc = "reply"
    /\ ~cmdStop
    /\ comm' = "ERROR"
    /\ batch' = <<>>
    /\ pc' = "exit"
    /\ UNCHANGED <<uiVars, fifoVars, written, output, cmdStop, panel>>

ReplyStops ==
    /\ pc = "reply"
    /\ cmdStop
    /\ batch' = <<>>
    /\ pc' = "exit"
    /\ UNCHANGED <<uiVars, fifoVars, comm, written, output, cmdStop, panel>>

EntryReturns ==
    /\ pc = "exit"
    /\ pc' = "ended"
    /\ UNCHANGED <<uiVars, fifoVars, comm, batch, written, output,
                   cmdStop, panel>>

Connect == ConnectSucceeds \/ ConnectFails \/ ConnectAbandoned
Collect == CollectLine \/ BatchComplete \/ CollectStops
Write == WriteFile \/ WriteSocket \/ WriteSocketFails
Reply == ReplyAccepted \/ ReplyRejected \/ ReplyTimeOut \/ ReplyStops

Thread ==
    \/ EntryOpens \/ EntryOpenFails
    \/ LoopStops \/ LoopContinues
    \/ Connect \/ Collect \/ Write \/ Reply
    \/ EntryReturns

\* The instrument is gone: nothing happens any more.
Destroyed == panel = "closed" /\ UNCHANGED vars

Next ==
    \/ \E st \in {Schemas[i].st : i \in DOMAIN Schemas}, ts \in Stamps :
         SetData(st, ts)
    \/ CollectAllDbSchemaPaths
    \/ OnStreamOutUpdTimer
    \/ OnClose
    \/ ThreadJoined
    \/ Thread
    \/ Destroyed

Spec == Init /\ [][Next]_vars

\* The operating system schedules the thread, wxTimer fires, Wait() returns.
\* Nothing forces data to arrive or the window to be closed.
FairSpec ==
    /\ Spec
    /\ WF_vars(Thread)
    /\ WF_vars(OnStreamOutUpdTimer)
    /\ WF_vars(ThreadJoined)

-----------------------------------------------------------------------------
(* Properties.                                                             *)

\* The FIFO never holds more than one line above the blocking limit, and the
\* two counters the overflow decision is taken from tell its true length,
\* whatever the interleaving of SetData() and the popping thread.
FifoBounded ==
    /\ Len(qLine) = pushed - popped
    /\ Len(qLine) <= BlockingLimit + 1

Ids(lines) == [k \in DOMAIN lines |-> lines[k].id]

\* With a file as target no accepted line is ever lost, duplicated or
\* reordered as long as no stop is commanded: file, batch and FIFO together
\* hold all of them.
FileKeepsEveryLine ==
    FileTarget /\ ~cmdStop =>
        Ids(output \o batch \o qLine) = [k \in 1..pushed |-> k]

\* SetData() accepts lines in the belief that "the communication thread is
\* alive": there is no way for the thread to end and leave m_stateComm READY
\* behind while the panel still feeds data.
FedThreadIsAlive == panel = "ready" /\ pc = "ended" => comm # "READY"

\* When no line is dropped or abandoned, two consecutive lines of one schema with an
\* interval are at least that many seconds apart, also over a jump back of
\* the time, and the stored line is always one that was asked to be stored.
Spaced(lines) ==
    \A k, m \in DOMAIN lines :
        LET s == lines[k].schema IN
        /\ Schemas[s].bStore
        /\ (/\ k < m
            /\ lines[m].schema = s
            /\ \A j \in (k + 1)..(m - 1) : lines[j].schema # s)
           => Abs(lines[m].stamp - lines[k].stamp) \div 1000
                >= Schemas[s].iInterval

IntervalsKept ==
    FileTarget /\ BlockingLimit >= MaxPushed /\ ~cmdStop
        => Spaced(output \o batch \o qLine)

\* The lines leave the streamer as LossyBatches promises: in order, without
\* duplicates, batch by batch of m_linesPerWrite lines.
Batches ==
    INSTANCE LossyBatches WITH
        BatchSize <- LinesPerWrite,
        accepted <- pushed,
        settled <- popped - Len(batch),
        out <- Ids(output),
        open <- pc \notin {"exit", "ended"}

DeliversBatches == Batches!Spec

\* The UI thread is never blocked for good in the Wait() of OnClose(),
\* wherever the communication thread is when the stop is commanded.
CloseReturns == panel = "closing" ~> panel = "closed"

\* A registration of the data base schemas, even a forgotten one, comes to
\* its end by the timer of the streamer.
RecordingEnds == []<>(~recording \/ panel # "ready")

\* Lines accepted for a file are written once they fill a batch.
FullBatchesAreWritten ==
    \A n \in 1..MaxPushed :
        FileTarget /\ pushed >= n * LinesPerWrite
            ~> Len(output) >= n * LinesPerWrite \/ cmdStop

\* "while not to be stopped / destroyed" (StreamoutSingle.cpp:774): the
\* thread connects and writes until it is commanded to stop.
RunsUntilStopped == pc = "ended" => cmdStop
=============================================================================
