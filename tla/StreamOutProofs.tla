--------------------------- MODULE StreamOutProofs ---------------------------
(***************************************************************************)
(* Safety of the streamer for every schema list, batch size and FIFO       *)
(* limit.  MaxPushed bounds the number of pushes but is any natural.       *)
(***************************************************************************)
EXTENDS StreamOut, SequenceTheorems, TLAPS

\* The stop is only commanded by the closing panel, and a thread that leaves
\* its loop without a stop leaves m_stateComm in a state that refuses lines.
StopInv ==
    /\ panel = "ready" => ~cmdStop
    /\ pc \in {"exit", "ended"} /\ ~cmdStop => comm # "READY"

\* The inductive invariant.
IInv == TypeOK /\ FifoBounded /\ StopInv

\* The invariant holds at the start.
LEMMA InitIInv == Init => IInv
  <1> SUFFICES ASSUME Init PROVE IInv
    OBVIOUS
  <1> USE LimitsAssumption DEF Init
  <1>1. lastTimeStamp \in [DOMAIN Schemas -> Stamps \cup {0}]
    OBVIOUS
  <1>2. cntRegister \in 0..(RegisterTicks - 1)
    OBVIOUS
  <1>3. qLine \in Seq(Line) /\ batch \in Seq(Line) /\ output \in Seq(Line)
    OBVIOUS
  <1>4. TypeOK
    BY <1>1, <1>2, <1>3 DEF TypeOK
  <1>5. FifoBounded
    BY DEF FifoBounded
  <1>6. StopInv
    BY DEF StopInv
  <1>7. QED
    BY <1>4, <1>5, <1>6 DEF IInv

\* A line that SetData() makes of a sample.
LEMMA NewLine ==
    ASSUME TypeOK, NEW i \in DOMAIN Schemas, NEW ts \in Stamps
    PROVE  [id |-> pushed + 1, schema |-> i, stamp |-> ts] \in Line
  BY DEF TypeOK, Line

\* The three ways SetData() leaves the FIFO keep the counters and the bound.
LEMMA EnqueueFifo ==
    ASSUME TypeOK, FifoBounded, NEW line \in Line,
           PushLine(line) \/ StartBlocking \/ DropLine
    PROVE  /\ overflow' \in {"UNKNOWN", "NOT_BLOCKING", "BLOCKING"}
           /\ qLine' \in Seq(Line)
           /\ pushed' \in Nat
           /\ popped' \in Nat
           /\ FifoBounded'
  <1> USE LimitsAssumption DEF TypeOK, FifoBounded
  <1>1. CASE PushLine(line)
    <2>1. Len(qLine) <= BlockingLimit
      BY <1>1 DEF PushLine, HasRoom, PushDelta
    <2>2. /\ Append(qLine, line) \in Seq(Line)
          /\ Len(Append(qLine, line)) = Len(qLine) + 1
      OBVIOUS
    <2>3. /\ overflow' = "NOT_BLOCKING"
          /\ qLine' = Append(qLine, line)
          /\ pushed' = pushed + 1
          /\ popped' = popped
      BY <1>1 DEF PushLine
    <2>4. FifoBounded'
      BY <2>1, <2>2, <2>3
    <2>5. QED
      BY <2>2, <2>3, <2>4
  <1>2. CASE StartBlocking
    BY <1>2 DEF StartBlocking
  <1>3. CASE DropLine
    BY <1>3 DEF DropLine, fifoVars
  <1>4. QED
    BY <1>1, <1>2, <1>3

\* A line that is offered keeps the invariant.
LEMMA SetDataIInv ==
    ASSUME IInv, NEW st, NEW ts \in Stamps, SetData(st, ts)
    PROVE  IInv'
  <1>1. PICK i \in DOMAIN Schemas :
          /\ lastTimeStamp' = [lastTimeStamp EXCEPT ![i] = ts]
          /\ registered' = IF recording
                           THEN registered \cup {Schemas[i].sSkpathe}
                           ELSE registered
          /\ \/ PushLine([id |-> pushed + 1, schema |-> i, stamp |-> ts])
             \/ StartBlocking
             \/ DropLine
    BY DEF SetData
  <1>2. [id |-> pushed + 1, schema |-> i, stamp |-> ts] \in Line
    BY NewLine DEF IInv
  <1>3. /\ overflow' \in {"UNKNOWN", "NOT_BLOCKING", "BLOCKING"}
        /\ qLine' \in Seq(Line)
        /\ pushed' \in Nat
        /\ popped' \in Nat
        /\ FifoBounded'
    BY <1>1, <1>2, EnqueueFifo DEF IInv
  <1>4. lastTimeStamp' \in [DOMAIN Schemas -> Stamps \cup {0}]
    BY <1>1 DEF IInv, TypeOK
  <1>5. registered' \subseteq {Schemas[j].sSkpathe : j \in DOMAIN Schemas}
    BY <1>1 DEF IInv, TypeOK
  <1>6. UNCHANGED <<recording, cntRegister, comm, pc, batch, written, output,
                    cmdStop, panel>>
    BY DEF SetData, threadVars
  <1>7. TypeOK'
    BY <1>3, <1>4, <1>5, <1>6 DEF IInv, TypeOK, Line
  <1>8. StopInv'
    BY <1>6 DEF IInv, StopInv
  <1>9. QED
    BY <1>3, <1>7, <1>8 DEF IInv

\* The other actions of the UI thread leave FIFO and thread alone.
LEMMA PanelIInv ==
    ASSUME IInv,
           \/ CollectAllDbSchemaPaths
           \/ OnStreamOutUpdTimer
           \/ OnClose
           \/ ThreadJoined
           \/ UNCHANGED vars
    PROVE  IInv'
  <1> USE LimitsAssumption DEF IInv, TypeOK, FifoBounded, StopInv,
          uiVars, fifoVars, threadVars
  <1>1. CASE CollectAllDbSchemaPaths
    BY <1>1 DEF CollectAllDbSchemaPaths
  <1>2. CASE OnStreamOutUpdTimer
    <2>1. recording' \in BOOLEAN
      BY <1>2 DEF OnStreamOutUpdTimer
    <2>2. CountRegister \in Nat
      BY DEF CountRegister
    <2>3. cntRegister' \in 0..(RegisterTicks - 1)
      BY <1>2, <2>2 DEF OnStreamOutUpdTimer
    <2>4. QED
      BY <1>2, <2>1, <2>3 DEF OnStreamOutUpdTimer
  <1>3. CASE OnClose
    BY <1>3 DEF OnClose
  <1>4. CASE ThreadJoined
    BY <1>4 DEF ThreadJoined
  <1>5. CASE UNCHANGED vars
    BY <1>5 DEF vars
  <1>6. QED
    BY <1>1, <1>2, <1>3, <1>4, <1>5

\* The thread keeps the invariant.
LEMMA ThreadIInv == ASSUME IInv, Thread PROVE IInv'
  <1> USE LimitsAssumption DEF IInv, TypeOK, FifoBounded, StopInv,
          uiVars, fifoVars
  <1>1. CASE EntryOpens
    BY <1>1 DEF EntryOpens
  <1>2. CASE EntryOpenFails
    BY <1>2 DEF EntryOpenFails
  <1>3. CASE LoopStops
    BY <1>3 DEF LoopStops
  <1>4. CASE LoopContinues
    BY <1>4 DEF LoopContinues
  <1>5. CASE Connect
    BY <1>5 DEF Connect, ConnectSucceeds, ConnectFails, ConnectAbandoned
  <1>6. CASE CollectLine
    <2>1. Head(qLine) \in Line /\ Tail(qLine) \in Seq(Line)
      BY <1>6 DEF CollectLine
    <2>2. Len(Tail(qLine)) = Len(qLine) - 1
      BY <1>6 DEF CollectLine
    <2>3. batch' \in Seq(Line)
      BY <1>6, <2>1 DEF CollectLine
    <2>4. QED
      BY <1>6, <2>1, <2>2, <2>3 DEF CollectLine
  <1>7. CASE BatchComplete
    BY <1>7 DEF BatchComplete
  <1>8. CASE CollectStops
    BY <1>8 DEF CollectStops
  <1>9. CASE Write
    <2>1. CASE WriteFile
      BY <1>9, <2>1 DEF WriteFile
    <2>2. CASE WriteSocket
      BY <1>9, <2>2 DEF WriteSocket
    <2>3. CASE WriteSocketFails
      BY <1>9, <2>3 DEF WriteSocketFails
    <2>4. QED
      BY <1>9, <2>1, <2>2, <2>3 DEF Write
  <1>10. CASE Reply
    <2>1. CASE ReplyAccepted
      BY <1>10, <2>1 DEF ReplyAccepted
    <2>2. CASE ReplyRejected
      BY <1>10, <2>2 DEF ReplyRejected
    <2>3. CASE ReplyTimeOut
      BY <1>10, <2>3 DEF ReplyTimeOut
    <2>4. CASE ReplyStops
      BY <1>10, <2>4 DEF ReplyStops
    <2>5. QED
      BY <1>10, <2>1, <2>2, <2>3, <2>4 DEF Reply
  <1>11. CASE EntryReturns
    BY <1>11 DEF EntryReturns
  <1>12. QED
    BY <1>1, <1>2, <1>3, <1>4, <1>5, <1>6, <1>7, <1>8, <1>9, <1>10, <1>11
    DEF Thread, Collect

\* Every step keeps the invariant.
LEMMA StepIInv == IInv /\ [Next]_vars => IInv'
  <1> SUFFICES ASSUME IInv, [Next]_vars PROVE IInv'
    OBVIOUS
  <1>1. CASE \E st \in {Schemas[i].st : i \in DOMAIN Schemas}, ts \in Stamps :
               SetData(st, ts)
    BY <1>1, SetDataIInv
  <1>2. CASE Thread
    BY <1>2, ThreadIInv
  <1>3. CASE \/ CollectAllDbSchemaPaths \/ OnStreamOutUpdTimer
             \/ OnClose \/ ThreadJoined \/ UNCHANGED vars
    BY <1>3, PanelIInv
  <1>4. QED
    BY <1>1, <1>2, <1>3 DEF Next, Destroyed

\* The inductive invariant holds in every reachable state.
THEOREM Invariance == Spec => []IInv
  <1>1. Init => IInv
    BY InitIInv
  <1>2. IInv /\ [Next]_vars => IInv'
    BY StepIInv
  <1>3. QED
    BY <1>1, <1>2, PTL DEF Spec

\* Every variable of the streamer keeps its type, the counter of the schema
\* registration stays below its limit.
THEOREM TypeCorrect == Spec => []TypeOK
  <1>1. IInv => TypeOK
    BY DEF IInv
  <1>2. QED
    BY <1>1, Invariance, PTL

\* The FIFO between SetData() and the communication thread is bounded and
\* the counters of its two ends always tell its length.
THEOREM FifoStaysBounded == Spec => []FifoBounded
  <1>1. IInv => FifoBounded
    BY DEF IInv
  <1>2. QED
    BY <1>1, Invariance, PTL

\* SetData() never feeds a FIFO whose consumer has ended.
THEOREM NeverFeedsDeadThread == Spec => []FedThreadIsAlive
  <1>1. IInv => FedThreadIsAlive
    BY DEF IInv, StopInv, FedThreadIsAlive
  <1>2. QED
    BY <1>1, Invariance, PTL

-----------------------------------------------------------------------------
(* The lines accepted for a file.                                          *)

\* Moving the head of a sequence to the end of the one before it does not
\* change their concatenation.
LEMMA MoveHead ==
    ASSUME NEW s \in Seq(Line), NEW t \in Seq(Line), NEW u \in Seq(Line),
           u # <<>>
    PROVE  s \o Append(t, Head(u)) \o Tail(u) = s \o t \o u
  <1> DEFINE a == Append(t, Head(u))
             l == s \o a \o Tail(u)
             r == s \o t \o u
  <1>1. /\ Head(u) \in Line /\ Tail(u) \in Seq(Line)
        /\ Len(Tail(u)) = Len(u) - 1
        /\ \A i \in 1..Len(Tail(u)) : Tail(u)[i] = u[i + 1]
        /\ Head(u) = u[1]
        /\ Len(u) >= 1
    BY HeadTailProperties
  <1>2. /\ a \in Seq(Line)
        /\ Len(a) = Len(t) + 1
        /\ \A i \in 1..Len(t) : a[i] = t[i]
        /\ a[Len(t) + 1] = u[1]
    BY <1>1
  <1> HIDE DEF a
  <1>3. /\ s \o a \in Seq(Line) /\ s \o t \in Seq(Line)
        /\ Len(s \o a) = Len(s) + Len(a)
        /\ Len(s \o t) = Len(s) + Len(t)
        /\ \A i \in 1..Len(s) + Len(a) :
             (s \o a)[i] = IF i <= Len(s) THEN s[i] ELSE a[i - Len(s)]
        /\ \A i \in 1..Len(s) + Len(t) :
             (s \o t)[i] = IF i <= Len(s) THEN s[i] ELSE t[i - Len(s)]
    BY <1>2, ConcatProperties
  <1>4. l \in Seq(Line) /\ Len(l) = Len(s) + Len(t) + Len(u)
    <2>1. l \in Seq(Line) /\ Len(l) = Len(s \o a) + Len(Tail(u))
      BY <1>1, <1>3
    <2>2. QED
      BY <1>1, <1>2, <1>3, <2>1
  <1>5. r \in Seq(Line) /\ Len(r) = Len(s) + Len(t) + Len(u)
    BY <1>3, ConcatProperties
  <1>6. ASSUME NEW i \in 1..Len(l) PROVE l[i] = r[i]
    <2>1. l[i] = IF i <= Len(s) + Len(t) + 1 THEN (s \o a)[i]
                 ELSE u[i - Len(s) - Len(t)]
      BY <1>1, <1>2, <1>3, <1>4, ConcatProperties
    <2>2. r[i] = IF i <= Len(s) + Len(t) THEN (s \o t)[i]
                 ELSE u[i - Len(s) - Len(t)]
      BY <1>3, <1>4, <1>5, ConcatProperties
    <2>3. i \in Int /\ 1 <= i /\ i <= Len(s) + Len(t) + Len(u)
          /\ Len(s) \in Nat /\ Len(t) \in Nat /\ Len(u) \in Nat
      BY <1>4
    <2>4. CASE i <= Len(s) + Len(t)
      <3>1. CASE i <= Len(s)
        BY <3>1, <2>1, <2>2, <2>3, <1>2, <1>3
      <3>2. CASE i > Len(s)
        <4>1. l[i] = a[i - Len(s)] /\ r[i] = t[i - Len(s)]
          BY <3>2, <2>1, <2>2, <2>3, <2>4, <1>2, <1>3
        <4>2. i - Len(s) \in 1..Len(t)
          BY <3>2, <2>3, <2>4
        <4>3. QED
          BY <4>1, <4>2, <1>2
      <3>3. QED
        BY <3>1, <3>2, <2>3
    <2>5. CASE i = Len(s) + Len(t) + 1
      <3>1. l[i] = a[Len(t) + 1]
        BY <2>5, <2>1, <2>3, <1>2, <1>3
      <3>2. r[i] = u[1]
        BY <2>5, <2>2, <2>3
      <3>3. QED
        BY <3>1, <3>2, <1>2
    <2>6. CASE i > Len(s) + Len(t) + 1
      BY <2>6, <2>1, <2>2, <2>3
    <2>7. \/ i <= Len(s) + Len(t)
          \/ i = Len(s) + Len(t) + 1
          \/ i > Len(s) + Len(t) + 1
      BY <2>3
    <2>8. QED
      BY <2>4, <2>5, <2>6, <2>7
  <1> HIDE DEF l, r
  <1>7. l = r
    BY <1>4, <1>5, <1>6, SeqEqual
  <1>8. QED
    BY <1>7 DEF l, r, a

\* Appending at the end of a concatenation is appending to its last part.
LEMMA AppendLast ==
    ASSUME NEW s \in Seq(Line), NEW t \in Seq(Line), NEW e \in Line
    PROVE  s \o Append(t, e) = Append(s \o t, e)
  <1>1. /\ Append(t, e) \in Seq(Line)
        /\ s \o Append(t, e) \in Seq(Line)
        /\ Append(s \o t, e) \in Seq(Line)
        /\ Len(s \o Append(t, e)) = Len(Append(s \o t, e))
    BY ConcatProperties
  <1>2. ASSUME NEW i \in 1..Len(s \o Append(t, e))
        PROVE  (s \o Append(t, e))[i] = Append(s \o t, e)[i]
    <2> DEFINE a == Append(t, e)
    <2>1. a \in Seq(Line) /\ Len(a) = Len(t) + 1
          /\ \A k \in 1..Len(t) : a[k] = t[k]
          /\ a[Len(t) + 1] = e
      OBVIOUS
    <2> HIDE DEF a
    <2>2. (s \o a)[i] = IF i <= Len(s) THEN s[i] ELSE a[i - Len(s)]
      BY <1>1, <2>1, ConcatProperties DEF a
    <2>3. i \in 1..Len(s) + Len(t) + 1
      BY <1>1, ConcatProperties
    <2>4. Append(s \o t, e)[i] = IF i <= Len(s) + Len(t)
                                 THEN (s \o t)[i] ELSE e
      BY <2>3, ConcatProperties
    <2>5. CASE i <= Len(s)
      BY <2>2, <2>3, <2>4, <2>5, ConcatProperties DEF a
    <2>6. CASE i > Len(s) /\ i <= Len(s) + Len(t)
      <3>1. i - Len(s) \in 1..Len(t)
        BY <2>3, <2>6
      <3>2. (s \o t)[i] = t[i - Len(s)]
        BY <2>3, <2>6, ConcatProperties
      <3>3. QED
        BY <2>1, <2>2, <2>4, <2>6, <3>1, <3>2 DEF a
    <2>7. CASE i = Len(s) + Len(t) + 1
      BY <2>1, <2>2, <2>4, <2>7 DEF a
    <2>8. QED
      BY <2>3, <2>5, <2>6, <2>7
  <1>3. QED
    BY <1>1, <1>2, SeqEqual

\* The lines that have been accepted and neither been lost nor abandoned.
Accepted == output \o batch \o qLine

\* With a file as target the thread neither connects nor awaits a reply, and
\* the FIFO is open from the moment the file is.
FileInv ==
    FileTarget =>
        /\ pc \notin {"connect", "reply"}
        /\ pc = "entry" => comm # "READY"
        /\ pc \in {"loop", "collect", "write"} => comm = "READY"
        /\ comm # "READY" => Accepted = <<>>

\* Without blocking every line that is due is accepted.
RoomInv ==
    /\ pushed <= MaxPushed
    /\ FileTarget /\ BlockingLimit >= MaxPushed /\ comm = "READY"
         => overflow = "NOT_BLOCKING"

\* last holds the time stamp of the latest of the lines of each schema.
Latest(lines, last) ==
    \A k \in DOMAIN lines :
        (\A j \in (k + 1)..Len(lines) : lines[j].schema # lines[k].schema)
            => last[lines[k].schema] = lines[k].stamp

\* The time stamp kept for a schema is that of its latest accepted line.
LatestInv ==
    FileTarget /\ BlockingLimit >= MaxPushed /\ ~cmdStop
        => Latest(Accepted, lastTimeStamp)

\* The inductive invariant of the accepted lines.
LinesInv ==
    FileInv /\ RoomInv /\ FileKeepsEveryLine /\ IntervalsKept /\ LatestInv

\* The accepted lines are lines.
LEMMA AcceptedIsSeq == ASSUME TypeOK PROVE Accepted \in Seq(Line)
  BY ConcatProperties DEF TypeOK, Accepted

\* At the start no line has been accepted.
LEMMA InitLinesInv == Init => LinesInv
  <1> SUFFICES ASSUME Init PROVE LinesInv
    OBVIOUS
  <1>1. Accepted = <<>>
    BY ConcatEmptySeq, EmptySeq DEF Init, Accepted
  <1>2. FileInv /\ RoomInv
    BY <1>1, LimitsAssumption DEF Init, FileInv, RoomInv
  <1>3. FileKeepsEveryLine
    <2>1. Ids(<<>>) = [k \in 1..0 |-> k]
      BY DEF Ids
    <2>2. QED
      BY <1>1, <2>1 DEF Init, FileKeepsEveryLine, Accepted
  <1>4. IntervalsKept /\ LatestInv
    BY <1>1 DEF IntervalsKept, LatestInv, Spaced, Latest, Accepted
  <1>5. QED
    BY <1>2, <1>3, <1>4 DEF LinesInv

\* The members of the schemas have their types.
LEMMA SchemaTypes ==
    \A i \in DOMAIN Schemas :
        Schemas[i] \in [st : STRING, bStore : BOOLEAN,
                        iInterval : Nat, sSkpathe : STRING]
  <1> DEFINE R == [st : STRING, bStore : BOOLEAN,
                   iInterval : Nat, sSkpathe : STRING]
  <1>1. Schemas \in Seq(R)
    BY SchemasAssumption
  <1> HIDE DEF R
  <1>2. \A i \in DOMAIN Schemas : Schemas[i] \in R
    BY <1>1
  <1>3. QED
    BY <1>2 DEF R

\* Spaced(), for one pair of lines.
LEMMA SpacedPair ==
    ASSUME NEW lines, Spaced(lines),
           NEW k \in DOMAIN lines, NEW m \in DOMAIN lines
    PROVE  /\ Schemas[lines[k].schema].bStore
           /\ (/\ k < m
               /\ lines[m].schema = lines[k].schema
               /\ \A j \in (k + 1)..(m - 1) :
                    lines[j].schema # lines[k].schema)
              => Abs(lines[m].stamp - lines[k].stamp) \div 1000
                   >= Schemas[lines[k].schema].iInterval
  BY DEF Spaced

\* A line that is accepted when it is due, after the latest line of its
\* schema, is spaced from the lines before it.
LEMMA AppendSpaced ==
    ASSUME NEW lines \in Seq(Line), NEW line \in Line, NEW last,
           last \in [DOMAIN Schemas -> Stamps \cup {0}],
           Spaced(lines), Latest(lines, last),
           Schemas[line.schema].bStore,
           \/ Schemas[line.schema].iInterval = 0
           \/ Schemas[line.schema].iInterval
                <= Abs(line.stamp - last[line.schema]) \div 1000
    PROVE  /\ Spaced(Append(lines, line))
           /\ Latest(Append(lines, line),
                     [last EXCEPT ![line.schema] = line.stamp])
  <1> DEFINE more == Append(lines, line)
             n == Len(lines)
  <1>1. /\ more \in Seq(Line)
        /\ DOMAIN more = 1..(n + 1) /\ DOMAIN lines = 1..n /\ n \in Nat
        /\ \A k \in 1..n : more[k] = lines[k]
        /\ more[n + 1] = line
        /\ Len(more) = n + 1
    OBVIOUS
  <1> HIDE DEF more, n
  <1>2. ASSUME NEW k \in 1..(n + 1)
        PROVE  more[k].schema \in DOMAIN Schemas /\ more[k].stamp \in Stamps
    <2>1. more[k] \in Line
      BY <1>1
    <2>2. QED
      BY <2>1 DEF Line
  <1>3. Spaced(more)
    <2> SUFFICES ASSUME NEW k \in DOMAIN more, NEW m \in DOMAIN more
                 PROVE  /\ Schemas[more[k].schema].bStore
                        /\ (/\ k < m
                            /\ more[m].schema = more[k].schema
                            /\ \A j \in (k + 1)..(m - 1) :
                                 more[j].schema # more[k].schema)
                           => Abs(more[m].stamp - more[k].stamp) \div 1000
                                >= Schemas[more[k].schema].iInterval
      BY Zenon DEF Spaced
    <2>1. Schemas[more[k].schema].bStore
      <3>1. CASE k \in 1..n
        <4>1. k \in DOMAIN lines /\ more[k] = lines[k]
          BY <1>1, <3>1
        <4>2. QED
          BY <4>1, SpacedPair
      <3>2. CASE k = n + 1
        BY <1>1, <3>2
      <3>3. QED
        BY <1>1, <3>1, <3>2
    <2>2. ASSUME k < m, more[m].schema = more[k].schema,
                 \A j \in (k + 1)..(m - 1) : more[j].schema # more[k].schema
          PROVE  Abs(more[m].stamp - more[k].stamp) \div 1000
                   >= Schemas[more[k].schema].iInterval
      <3>1. CASE m \in 1..n
        <4>1. k \in 1..n /\ \A j \in k..m : j \in 1..n
          BY <1>1, <2>2, <3>1
        <4>2. /\ lines[m].schema = lines[k].schema
              /\ \A j \in (k + 1)..(m - 1) :
                   lines[j].schema # lines[k].schema
          BY <1>1, <2>2, <3>1, <4>1
        <4>3. QED
          <5>1. Abs(lines[m].stamp - lines[k].stamp) \div 1000
                  >= Schemas[lines[k].schema].iInterval
            <6>1. k \in DOMAIN lines /\ m \in DOMAIN lines
              BY <1>1, <3>1, <4>1
            <6>2. QED
              BY <2>2, <4>2, <6>1, SpacedPair
          <5>2. QED
            BY <1>1, <3>1, <4>1, <5>1
      <3>2. CASE m = n + 1
        <4>1. k \in 1..n /\ more[k] = lines[k] /\ more[m] = line
          BY <1>1, <2>2, <3>2
        <4>2. \A j \in (k + 1)..n : lines[j].schema # lines[k].schema
          BY <1>1, <2>2, <3>2, <4>1
        <4>3. last[line.schema] = lines[k].stamp
          BY <1>1, <2>2, <4>1, <4>2 DEF Latest, n
        <4>4. Schemas[line.schema].iInterval \in Nat
          <5>1. line.schema \in DOMAIN Schemas
            BY DEF Line
          <5>2. Schemas[line.schema] \in [st : STRING, bStore : BOOLEAN,
                                         iInterval : Nat, sSkpathe : STRING]
            BY <5>1, SchemaTypes
          <5>3. QED
            BY <5>2
        <4>5. line.stamp - lines[k].stamp \in Int
          <5>1. line.stamp \in Stamps /\ lines[k].stamp \in Stamps
            BY <1>1, <1>2, <4>1
          <5>2. line.stamp \in Nat /\ lines[k].stamp \in Nat
            BY <5>1, StampsAssumption
          <5>3. QED
            BY <5>2
        <4>6. Abs(line.stamp - lines[k].stamp) \div 1000 >= 0
          BY <4>5 DEF Abs
        <4>7. QED
          BY <2>2, <4>1, <4>3, <4>4, <4>5, <4>6 DEF Abs
      <3>3. QED
        BY <1>1, <3>1, <3>2
    <2>3. QED
      BY <2>1, <2>2
  <1>4. Latest(more, [last EXCEPT ![line.schema] = line.stamp])
    <2> DEFINE new == [last EXCEPT ![line.schema] = line.stamp]
    <2> SUFFICES ASSUME NEW k \in 1..(n + 1),
                        \A j \in (k + 1)..(n + 1) :
                            more[j].schema # more[k].schema
                 PROVE  new[more[k].schema] = more[k].stamp
      BY <1>1 DEF Latest
    <2>1. CASE k = n + 1
      BY <1>1, <1>2, <2>1
    <2>2. CASE k \in 1..n
      <3>1. line.schema # more[k].schema
        BY <1>1, <2>2
      <3>2. \A j \in (k + 1)..n : lines[j].schema # lines[k].schema
        BY <1>1, <2>2
      <3>3. last[lines[k].schema] = lines[k].stamp
        BY <1>1, <2>2, <3>2 DEF Latest, n
      <3>4. QED
        BY <1>1, <1>2, <2>2, <3>1, <3>3
    <2>3. QED
      BY <1>1, <2>1, <2>2
  <1>5. QED
    BY <1>3, <1>4 DEF more

\* What SetData() does to the accepted lines: one line is added, or nothing
\* has been accepted since the start, or nothing happens to them.
LEMMA SetDataLines ==
    ASSUME IInv, LinesInv, NEW st, NEW ts \in Stamps, SetData(st, ts)
    PROVE  LinesInv'
  <1>1. PICK i \in DOMAIN Schemas :
          /\ GetSchema(st, ts, i)
          /\ lastTimeStamp' = [lastTimeStamp EXCEPT ![i] = ts]
          /\ \/ PushLine([id |-> pushed + 1, schema |-> i, stamp |-> ts])
             \/ StartBlocking
             \/ DropLine
    BY DEF SetData
  <1> DEFINE line == [id |-> pushed + 1, schema |-> i, stamp |-> ts]
  <1>2. line \in Line /\ line.id = pushed + 1 /\ line.schema = i
        /\ line.stamp = ts
    BY NewLine DEF IInv
  <1>3. UNCHANGED <<comm, pc, batch, written, output, cmdStop, panel>>
    BY DEF SetData, threadVars
  <1>4. /\ qLine \in Seq(Line) /\ batch \in Seq(Line) /\ output \in Seq(Line)
        /\ pushed \in Nat /\ popped \in Nat
        /\ lastTimeStamp \in [DOMAIN Schemas -> Stamps \cup {0}]
        /\ pushed - popped >= 0
    BY DEF IInv, TypeOK, FifoBounded
  <1>5. CASE PushLine(line)
    <2>1. qLine' = Append(qLine, line) /\ pushed' = pushed + 1
          /\ overflow' = "NOT_BLOCKING" /\ comm = "READY"
          /\ pushed < MaxPushed
      BY <1>5 DEF PushLine
    <2>2. Accepted' = Append(Accepted, line)
      BY <1>2, <1>3, <1>4, <2>1, AppendLast, ConcatProperties DEF Accepted
    <2>3. Accepted \in Seq(Line)
      BY AcceptedIsSeq DEF IInv
    <2>4. FileInv'
      BY <1>3, <2>1 DEF LinesInv, FileInv
    <2>5. RoomInv'
      BY <1>3, <1>4, <2>1, LimitsAssumption DEF LinesInv, RoomInv
    <2>6. FileKeepsEveryLine'
      <3> SUFFICES ASSUME FileTarget, ~cmdStop
                   PROVE  Ids(Append(Accepted, line)) = [k \in 1..pushed' |-> k]
        BY <1>3, <2>2 DEF FileKeepsEveryLine, Accepted
      <3>1. Ids(Accepted) = [k \in 1..pushed |-> k]
        BY DEF LinesInv, FileKeepsEveryLine, Accepted
      <3>2. DOMAIN Accepted = 1..pushed
            /\ \A k \in 1..pushed : Accepted[k].id = k
        BY <3>1 DEF Ids
      <3>3. Len(Accepted) = pushed
        BY <1>4, <2>3, <3>2
      <3> HIDE DEF line
      <3>4. DOMAIN Append(Accepted, line) = 1..(pushed + 1)
        BY <1>2, <2>3, <3>3
      <3>5. ASSUME NEW k \in 1..(pushed + 1)
            PROVE  Append(Accepted, line)[k].id = k
        BY <1>2, <1>4, <2>3, <3>2, <3>3
      <3>6. QED
        BY <2>1, <3>4, <3>5 DEF Ids
    <2>7. IntervalsKept' /\ LatestInv'
      <3> SUFFICES ASSUME FileTarget, BlockingLimit >= MaxPushed, ~cmdStop
                   PROVE  /\ Spaced(Append(Accepted, line))
                          /\ Latest(Append(Accepted, line),
                                    [lastTimeStamp EXCEPT ![i] = ts])
        BY <1>1, <1>3, <2>2 DEF IntervalsKept, LatestInv, Accepted
      <3>1. Spaced(Accepted) /\ Latest(Accepted, lastTimeStamp)
        BY DEF LinesInv, IntervalsKept, LatestInv, Accepted
      <3>2. /\ Schemas[i].bStore
            /\ \/ Schemas[i].iInterval = 0
               \/ Schemas[i].iInterval <= Abs(ts - lastTimeStamp[i]) \div 1000
        BY <1>1 DEF GetSchema, Stops, Due, TimeLapse
      <3> HIDE DEF line
      <3>3. QED
        BY <1>2, <1>4, <2>3, <3>1, <3>2, AppendSpaced
    <2>8. QED
      BY <2>4, <2>5, <2>6, <2>7 DEF LinesInv
  <1>6. CASE StartBlocking \/ DropLine
    <2>1. UNCHANGED <<qLine, pushed, popped>>
      BY <1>6 DEF StartBlocking, DropLine, fifoVars
    <2>2. Accepted' = Accepted
      BY <1>3, <2>1 DEF Accepted
    <2>3. FileInv'
      BY <1>3, <2>2 DEF LinesInv, FileInv
    <2>4. ASSUME FileTarget, BlockingLimit >= MaxPushed
          PROVE  comm # "READY"
      <3>1. BlockingLimit \in Nat /\ MaxPushed \in Nat
            /\ PushDelta <= BlockingLimit
        BY <1>4, <2>4, LimitsAssumption DEF LinesInv, RoomInv, PushDelta
      <3>2. comm = "READY" => overflow = "NOT_BLOCKING" /\ HasRoom
        BY <2>4, <3>1 DEF LinesInv, RoomInv, HasRoom
      <3>3. QED
        BY <1>6, <3>2 DEF StartBlocking, DropLine
    <2>5. RoomInv'
      BY <1>3, <2>1, <2>4 DEF LinesInv, RoomInv
    <2>6. FileKeepsEveryLine'
      BY <1>3, <2>1, <2>2 DEF LinesInv, FileKeepsEveryLine, Accepted
    <2>7. IntervalsKept'
      BY <1>3, <2>2 DEF LinesInv, IntervalsKept, Accepted
    <2>8. LatestInv'
      <3> SUFFICES ASSUME FileTarget, BlockingLimit >= MaxPushed
                   PROVE  Latest(Accepted, lastTimeStamp')
        BY <2>2 DEF LatestInv
      <3>1. Accepted = <<>>
        BY <2>4 DEF LinesInv, FileInv
      <3>2. QED
        BY <3>1 DEF Latest
    <2>9. QED
      BY <2>3, <2>5, <2>6, <2>7, <2>8 DEF LinesInv
  <1>7. QED
    BY <1>1, <1>5, <1>6

\* Everybody else leaves the accepted lines of a file alone, and the stamps.
LEMMA OthersKeepLines ==
    ASSUME LinesInv, FileInv', RoomInv', UNCHANGED <<lastTimeStamp, pushed>>,
           cmdStop => cmdStop',
           FileTarget /\ ~cmdStop' => Accepted' = Accepted
    PROVE  LinesInv'
  <1>1. FileKeepsEveryLine'
    BY DEF LinesInv, FileKeepsEveryLine, Accepted
  <1>2. IntervalsKept'
    BY DEF LinesInv, IntervalsKept, Accepted
  <1>3. LatestInv'
    BY DEF LinesInv, LatestInv
  <1>4. QED
    BY <1>1, <1>2, <1>3 DEF LinesInv

\* The other actions of the UI thread do not touch lines or stamps.
LEMMA PanelLines ==
    ASSUME IInv, LinesInv,
           \/ CollectAllDbSchemaPaths
           \/ OnStreamOutUpdTimer
           \/ OnClose
           \/ ThreadJoined
           \/ UNCHANGED vars
    PROVE  LinesInv'
  <1>1. UNCHANGED <<lastTimeStamp, fifoVars, threadVars>>
    BY DEF CollectAllDbSchemaPaths, OnStreamOutUpdTimer, OnClose,
           ThreadJoined, vars, uiVars
  <1>2. cmdStop => cmdStop'
    BY DEF CollectAllDbSchemaPaths, OnStreamOutUpdTimer, OnClose,
           ThreadJoined, vars
  <1>3. Accepted' = Accepted /\ FileInv' /\ RoomInv'
    BY <1>1 DEF fifoVars, threadVars, Accepted, LinesInv, FileInv, RoomInv
  <1>4. QED
    BY <1>1, <1>2, <1>3, OthersKeepLines DEF fifoVars

\* For a file, the thread moves lines from FIFO to batch to file, in order.
LEMMA ThreadLines == ASSUME IInv, LinesInv, Thread PROVE LinesInv'
  <1> USE DEF uiVars, fifoVars
  <1>1. UNCHANGED <<lastTimeStamp, pushed, cmdStop>>
    BY DEF Thread, EntryOpens, EntryOpenFails, LoopStops, LoopContinues,
           Connect, ConnectSucceeds, ConnectFails, ConnectAbandoned,
           Collect, CollectLine, BatchComplete, CollectStops,
           Write, WriteFile, WriteSocket, WriteSocketFails,
           Reply, ReplyAccepted, ReplyRejected, ReplyTimeOut, ReplyStops,
           EntryReturns
  <1>2. ASSUME FileTarget
        PROVE  \/ /\ UNCHANGED <<output, batch, qLine>>
                  /\ \/ EntryOpens \/ EntryOpenFails \/ LoopStops
                     \/ LoopContinues \/ BatchComplete \/ EntryReturns
               \/ CollectLine
               \/ WriteFile
               \/ CollectStops
    BY <1>2 DEF Thread, EntryOpens, EntryOpenFails, LoopStops, LoopContinues,
           Connect, ConnectSucceeds, ConnectFails, ConnectAbandoned,
           Collect, BatchComplete, Write, WriteSocket, WriteSocketFails,
           Reply, ReplyAccepted, ReplyRejected, ReplyTimeOut, ReplyStops,
           EntryReturns, LinesInv, FileInv
  <1>3. ASSUME FileTarget, ~cmdStop
        PROVE  Accepted' = Accepted
    <2>1. CASE UNCHANGED <<output, batch, qLine>>
      BY <2>1 DEF Accepted
    <2>2. CASE CollectLine
      <3>1. /\ output' = output
            /\ batch' = Append(batch, Head(qLine))
            /\ qLine' = Tail(qLine)
            /\ qLine # <<>>
        BY <2>2 DEF CollectLine
      <3>2. /\ output \in Seq(Line) /\ batch \in Seq(Line)
            /\ qLine \in Seq(Line)
        BY DEF IInv, TypeOK
      <3>3. output \o Append(batch, Head(qLine)) \o Tail(qLine)
              = output \o batch \o qLine
        BY <3>1, <3>2, MoveHead
      <3>4. QED
        BY <3>1, <3>3 DEF Accepted
    <2>3. CASE WriteFile
      <3>1. output \o batch \in Seq(Line)
        BY DEF IInv, TypeOK
      <3>2. output' \o batch' = output \o batch
        BY <2>3, <3>1, ConcatEmptySeq DEF WriteFile
      <3>3. QED
        BY <2>3, <3>2 DEF WriteFile, Accepted
    <2>4. QED
      BY <1>2, <1>3, <2>1, <2>2, <2>3 DEF CollectStops
  <1>4. FileInv'
    <2> SUFFICES ASSUME FileTarget PROVE FileInv'
      BY DEF FileInv
    <2>1. CASE /\ UNCHANGED <<output, batch, qLine>>
              /\ \/ EntryOpens \/ EntryOpenFails \/ LoopStops
                 \/ LoopContinues \/ BatchComplete \/ EntryReturns
      <3>1. Accepted' = Accepted
        BY <2>1 DEF Accepted
      <3>2. QED
        BY <2>1, <3>1 DEF EntryOpens, EntryOpenFails, LoopStops,
           LoopContinues, BatchComplete, EntryReturns, LinesInv, FileInv
    <2>2. CASE CollectLine \/ WriteFile \/ CollectStops
      BY <2>2 DEF CollectLine, WriteFile, CollectStops, LinesInv, FileInv
    <2>3. QED
      BY <1>2, <2>1, <2>2
  <1>5. RoomInv'
    <2>1. ASSUME FileTarget, comm' = "READY"
          PROVE  \/ overflow' = "NOT_BLOCKING"
                 \/ UNCHANGED <<comm, overflow>>
      BY <1>2, <2>1 DEF EntryOpens, EntryOpenFails, LoopStops, LoopContinues,
         BatchComplete, EntryReturns, CollectLine, WriteFile, CollectStops
    <2>2. QED
      BY <1>1, <2>1 DEF LinesInv, RoomInv
  <1>6. QED
    BY <1>1, <1>3, <1>4, <1>5, OthersKeepLines

\* Every step keeps the invariant of the lines.
LEMMA StepLinesInv == IInv /\ LinesInv /\ [Next]_vars => LinesInv'
  <1> SUFFICES ASSUME IInv, LinesInv, [Next]_vars PROVE LinesInv'
    OBVIOUS
  <1>1. CASE \E st \in {Schemas[i].st : i \in DOMAIN Schemas}, ts \in Stamps :
               SetData(st, ts)
    BY <1>1, SetDataLines
  <1>2. CASE Thread
    BY <1>2, ThreadLines
  <1>3. CASE \/ CollectAllDbSchemaPaths \/ OnStreamOutUpdTimer
             \/ OnClose \/ ThreadJoined \/ UNCHANGED vars
    BY <1>3, PanelLines
  <1>4. QED
    BY <1>1, <1>2, <1>3 DEF Next, Destroyed

\* The lines of a file keep their invariant in every reachable state.
LEMMA LinesInvariance == Spec => []LinesInv
  <1>1. Init => LinesInv
    BY InitLinesInv
  <1>2. IInv /\ LinesInv /\ [Next]_vars => LinesInv'
    BY StepLinesInv
  <1>3. QED
    BY <1>1, <1>2, Invariance, PTL DEF Spec

\* Until the stop is commanded, file, batch and FIFO together hold every line
\* SetData() has accepted for a file, once and in the order of acceptance.
THEOREM FileKeepsAllLines == Spec => []FileKeepsEveryLine
  <1>1. LinesInv => FileKeepsEveryLine
    BY DEF LinesInv
  <1>2. QED
    BY <1>1, LinesInvariance, PTL

\* Two lines of one schema are at least its interval apart, as long as the
\* FIFO cannot overflow: the filter of GetSchema() does what it says for
\* every list of schemas and every sequence of time stamps.
THEOREM LinesKeepInterval == Spec => []IntervalsKept
  <1>1. LinesInv => IntervalsKept
    BY DEF LinesInv
  <1>2. QED
    BY <1>1, LinesInvariance, PTL

-----------------------------------------------------------------------------
(* The streamer implements LossyBatches.                                   *)

\* The lines are numbered in the order of acceptance; those in the batch are
\* the last ones popped, those in the FIFO the next ones to be popped.
NumberInv ==
    /\ \A k \in 1..Len(qLine) : qLine[k].id = popped + k
    /\ \A k \in 1..Len(batch) : batch[k].id = popped - Len(batch) + k
    /\ Len(batch) <= popped
    /\ Len(batch) <= LinesPerWrite
    /\ pc \in {"write", "reply"} => Len(batch) = LinesPerWrite
    /\ pc \notin {"collect", "write", "reply"} => batch = <<>>

\* Every step keeps the numbering.
LEMMA StepNumberInv == IInv /\ NumberInv /\ [Next]_vars => NumberInv'
  <1> SUFFICES ASSUME IInv, NumberInv, [Next]_vars PROVE NumberInv'
    OBVIOUS
  <1>0. /\ qLine \in Seq(Line) /\ batch \in Seq(Line)
        /\ pushed \in Nat /\ popped \in Nat
        /\ Len(qLine) = pushed - popped
        /\ LinesPerWrite \in Nat \ {0}
    BY LimitsAssumption DEF IInv, TypeOK, FifoBounded
  <1>1. CASE UNCHANGED <<popped, batch, pc>> /\ UNCHANGED qLine
    BY <1>1 DEF NumberInv
  <1>2. ASSUME NEW line \in Line, line.id = pushed + 1,
               UNCHANGED <<popped, batch, pc>>, qLine' = Append(qLine, line)
        PROVE  NumberInv'
    <2>1. /\ Len(qLine') = Len(qLine) + 1
          /\ qLine'[Len(qLine) + 1] = line
          /\ \A k \in 1..Len(qLine) : qLine'[k] = qLine[k]
      BY <1>0, <1>2
    <2>2. ASSUME NEW k \in 1..Len(qLine') PROVE qLine'[k].id = popped + k
      <3>1. k \in 1..Len(qLine) \/ k = Len(qLine) + 1
        BY <1>0, <2>1
      <3>2. CASE k \in 1..Len(qLine)
        BY <2>1, <3>2 DEF NumberInv
      <3>3. CASE k = Len(qLine) + 1
        BY <1>0, <1>2, <2>1, <3>3
      <3>4. QED
        BY <3>1, <3>2, <3>3
    <2>3. QED
      BY <1>2, <2>2 DEF NumberInv
  <1>3. CASE \E st \in {Schemas[i].st : i \in DOMAIN Schemas}, ts \in Stamps :
               SetData(st, ts)
    <2>1. PICK st \in {Schemas[i].st : i \in DOMAIN Schemas}, ts \in Stamps : SetData(st, ts)
      BY <1>3
    <2>2. PICK i \in DOMAIN Schemas :
            \/ PushLine([id |-> pushed + 1, schema |-> i, stamp |-> ts])
            \/ StartBlocking
            \/ DropLine
      BY <2>1 DEF SetData
    <2>3. UNCHANGED <<batch, pc>>
      BY <2>1 DEF SetData, threadVars
    <2>4. CASE PushLine([id |-> pushed + 1, schema |-> i, stamp |-> ts])
      BY <1>2, <2>3, <2>4, NewLine DEF PushLine, IInv
    <2>5. CASE StartBlocking \/ DropLine
      BY <1>1, <2>3, <2>5 DEF StartBlocking, DropLine, fifoVars
    <2>6. QED
      BY <2>2, <2>4, <2>5
  <1>4. CASE CollectLine
    <2>1. /\ batch' = Append(batch, Head(qLine)) /\ qLine' = Tail(qLine)
          /\ popped' = popped + 1 /\ qLine # <<>>
          /\ Len(batch) < LinesPerWrite /\ pc = "collect" /\ pc' = pc
      BY <1>4 DEF CollectLine
    <2>2. /\ Head(qLine) = qLine[1] /\ Head(qLine) \in Line
          /\ Len(qLine') = Len(qLine) - 1 /\ Len(qLine) >= 1
          /\ \A k \in 1..Len(qLine') : qLine'[k] = qLine[k + 1]
      BY <1>0, <2>1
    <2>3. /\ Len(batch') = Len(batch) + 1
          /\ batch'[Len(batch) + 1] = qLine[1]
          /\ \A k \in 1..Len(batch) : batch'[k] = batch[k]
      BY <1>0, <2>1, <2>2
    <2>4. ASSUME NEW k \in 1..Len(qLine') PROVE qLine'[k].id = popped' + k
      <3>1. qLine'[k] = qLine[k + 1] /\ k + 1 \in 1..Len(qLine)
        BY <1>0, <2>2
      <3>2. QED
        BY <1>0, <2>1, <3>1 DEF NumberInv
    <2>5. ASSUME NEW k \in 1..Len(batch')
          PROVE  batch'[k].id = popped' - Len(batch') + k
      <3>1. k \in 1..Len(batch) \/ k = Len(batch) + 1
        BY <1>0, <2>3
      <3>2. CASE k \in 1..Len(batch)
        BY <1>0, <2>1, <2>3, <3>2 DEF NumberInv
      <3>3. CASE k = Len(batch) + 1
        <4>1. qLine[1].id = popped + 1
          BY <2>2, <1>0 DEF NumberInv
        <4>2. QED
          BY <1>0, <2>1, <2>3, <3>3, <4>1
      <3>4. QED
        BY <3>1, <3>2, <3>3
    <2>6. QED
      BY <1>0, <2>1, <2>3, <2>4, <2>5 DEF NumberInv
  <1>5. CASE Thread /\ ~CollectLine
    <2>1. UNCHANGED <<qLine, popped>>
      BY <1>5 DEF Thread, EntryOpens, EntryOpenFails, LoopStops, LoopContinues,
         Connect, ConnectSucceeds, ConnectFails, ConnectAbandoned,
         Collect, BatchComplete, CollectStops, Write, WriteFile, WriteSocket,
         WriteSocketFails, Reply, ReplyAccepted, ReplyRejected, ReplyTimeOut,
         ReplyStops, EntryReturns, fifoVars
    <2>2. \/ batch' = <<>> /\ pc' \notin {"write", "reply"}
          \/ /\ batch' = batch
             /\ pc' \in {"write", "reply"} => Len(batch) = LinesPerWrite
             /\ pc' \notin {"collect", "write", "reply"} => batch = <<>>
      BY <1>0, <1>5 DEF Thread, EntryOpens, EntryOpenFails, LoopStops, LoopContinues,
         Connect, ConnectSucceeds, ConnectFails, ConnectAbandoned,
         Collect, BatchComplete, CollectStops, Write, WriteFile, WriteSocket,
         WriteSocketFails, Reply, ReplyAccepted, ReplyRejected, ReplyTimeOut,
         ReplyStops, EntryReturns, NumberInv
    <2>3. CASE batch' = <<>> /\ pc' \notin {"write", "reply"}
      <3>1. Len(batch') = 0 /\ 1..Len(batch') = {}
        BY <2>3
      <3>2. QED
        BY <1>0, <2>1, <2>3, <3>1 DEF NumberInv
    <2>4. CASE batch' = batch
      BY <1>0, <2>1, <2>2, <2>4 DEF NumberInv
    <2>5. QED
      BY <2>2, <2>3, <2>4
  <1>6. CASE \/ CollectAllDbSchemaPaths \/ OnStreamOutUpdTimer
             \/ OnClose \/ ThreadJoined \/ UNCHANGED vars
    BY <1>1, <1>6 DEF CollectAllDbSchemaPaths, OnStreamOutUpdTimer,
       OnClose, ThreadJoined, vars, fifoVars, threadVars
  <1>7. QED
    BY <1>3, <1>4, <1>5, <1>6 DEF Next, Destroyed

\* The ids of a sequence of lines, part by part.
LEMMA IdsProperties ==
    ASSUME NEW s \in Seq(Line)
    PROVE  /\ Ids(s) \in Seq(Nat)
           /\ Len(Ids(s)) = Len(s)
           /\ \A k \in 1..Len(s) : Ids(s)[k] = s[k].id
  <1>1. \A k \in 1..Len(s) : s[k].id \in Nat
    <2>1. \A k \in 1..Len(s) : s[k] \in Line
      OBVIOUS
    <2>2. QED
      BY <2>1 DEF Line
  <1>2. DOMAIN s = 1..Len(s) /\ Len(s) \in Nat
    OBVIOUS
  <1>3. QED
    BY <1>1, <1>2 DEF Ids

\* At the start nothing is numbered.
LEMMA InitNumberInv == Init => NumberInv
  BY LimitsAssumption DEF Init, NumberInv

\* A full batch at the end of the output is the next batch of LossyBatches.
LEMMA DeliveredIds ==
    ASSUME IInv, NumberInv, pc \in {"write", "reply"}
    PROVE  Ids(output \o batch) = Ids(output) \o Batches!NextBatch
  <1> DEFINE n == Batches!NextBatch
             o == Ids(output)
             b == output \o batch
             l == Ids(b)
             r == o \o n
  <1>1. /\ output \in Seq(Line) /\ batch \in Seq(Line) /\ popped \in Nat
        /\ LinesPerWrite \in Nat /\ Len(batch) = LinesPerWrite
        /\ Len(batch) <= popped
        /\ \A k \in 1..Len(batch) : batch[k].id = popped - Len(batch) + k
    BY LimitsAssumption DEF IInv, TypeOK, NumberInv
  <1>2. n = [k \in 1..LinesPerWrite |-> popped - Len(batch) + k]
    BY DEF Batches!NextBatch
  <1>3. n \in Seq(Nat) /\ Len(n) = LinesPerWrite
        /\ \A k \in 1..LinesPerWrite : n[k] = popped - Len(batch) + k
    BY <1>1, <1>2
  <1>4. /\ b \in Seq(Line)
        /\ Len(b) = Len(output) + LinesPerWrite
        /\ \A k \in 1..Len(output) + LinesPerWrite : b[k] =
             IF k <= Len(output) THEN output[k] ELSE batch[k - Len(output)]
    BY <1>1, ConcatProperties
  <1> HIDE DEF b
  <1>5. /\ l \in Seq(Nat) /\ Len(l) = Len(output) + LinesPerWrite
        /\ \A k \in 1..Len(output) + LinesPerWrite : l[k] = b[k].id
    BY <1>4, IdsProperties
  <1>6. /\ o \in Seq(Nat) /\ Len(o) = Len(output)
        /\ \A k \in 1..Len(output) : o[k] = output[k].id
    BY <1>1, IdsProperties
  <1> HIDE DEF n, o, l
  <1>7. /\ r \in Seq(Nat) /\ Len(r) = Len(o) + Len(n)
        /\ \A k \in 1..Len(o) + Len(n) : r[k] =
             IF k <= Len(o) THEN o[k] ELSE n[k - Len(o)]
    BY <1>3, <1>6, ConcatProperties
  <1> HIDE DEF r
  <1>8. ASSUME NEW k \in 1..Len(l) PROVE l[k] = r[k]
    <2>1. Len(output) \in Nat /\ k \in 1..Len(output) + LinesPerWrite
      BY <1>1, <1>5
    <2>2. CASE k <= Len(output)
      <3>1. k \in 1..Len(output)
        BY <2>1, <2>2
      <3>2. l[k] = output[k].id
        BY <1>4, <1>5, <2>1, <2>2
      <3>3. r[k] = o[k]
        BY <1>3, <1>6, <1>7, <2>1, <2>2
      <3>4. QED
        BY <1>6, <3>1, <3>2, <3>3
    <2>3. CASE k > Len(output)
      <3>1. k - Len(output) \in 1..LinesPerWrite
        BY <1>1, <2>1, <2>3
      <3>2. l[k] = batch[k - Len(output)].id
        BY <1>4, <1>5, <2>1, <2>3
      <3>3. r[k] = n[k - Len(output)]
        BY <1>3, <1>6, <1>7, <2>1, <2>3
      <3>4. QED
        BY <1>1, <1>3, <3>1, <3>2, <3>3
    <2>4. QED
      BY <2>1, <2>2, <2>3
  <1>9. l = r
    BY <1>3, <1>5, <1>6, <1>7, <1>8, SeqEqual
  <1>10. QED
    BY <1>9 DEF l, r, b, n, o

\* An initial state of the streamer is one of LossyBatches.
LEMMA BatchesInit == Init => Batches!Init
  <1> SUFFICES ASSUME Init PROVE Batches!Init
    OBVIOUS
  <1>1. Ids(output) = <<>>
    BY DEF Init, Ids
  <1>2. pushed = 0 /\ popped = 0 /\ Len(batch) = 0 /\ pc = "entry"
    BY DEF Init
  <1>3. (pc \notin {"exit", "ended"}) = TRUE
    BY <1>2
  <1>4. QED
    BY <1>1, <1>2, <1>3 DEF Batches!Init

\* Every step of the streamer is one of LossyBatches, or a stutter.
LEMMA BatchesStep ==
    IInv /\ NumberInv /\ [Next]_vars => [Batches!Next]_Batches!vars
  <1> SUFFICES ASSUME IInv, NumberInv, [Next]_vars
               PROVE  Batches!Next \/ UNCHANGED Batches!vars
    OBVIOUS
  <1> USE DEF Batches!Next, Batches!vars, uiVars, fifoVars
  <1>0. /\ batch \in Seq(Line) /\ pushed \in Nat /\ popped \in Nat
        /\ LinesPerWrite \in Nat \ {0}
        /\ popped <= pushed
        /\ Len(batch) <= popped /\ Len(batch) <= LinesPerWrite
        /\ Len(batch) \in Nat
    BY LimitsAssumption DEF IInv, TypeOK, FifoBounded, NumberInv
  <1>1. CASE UNCHANGED <<pushed, popped, batch, output, pc>>
    BY <1>1
  <1>2. CASE \E st \in {Schemas[i].st : i \in DOMAIN Schemas}, ts \in Stamps :
               SetData(st, ts)
    <2>1. PICK st \in {Schemas[i].st : i \in DOMAIN Schemas}, ts \in Stamps :
            SetData(st, ts)
      BY <1>2
    <2>2. PICK i \in DOMAIN Schemas :
            \/ PushLine([id |-> pushed + 1, schema |-> i, stamp |-> ts])
            \/ StartBlocking
            \/ DropLine
      BY <2>1 DEF SetData
    <2>3. UNCHANGED <<batch, output, pc>> /\ panel = "ready"
      BY <2>1 DEF SetData, threadVars
    <2>4. CASE PushLine([id |-> pushed + 1, schema |-> i, stamp |-> ts])
      <3>1. pushed' = pushed + 1 /\ popped' = popped /\ comm = "READY"
        BY <2>4 DEF PushLine
      <3>2. pc \notin {"exit", "ended"}
        BY <2>3, <3>1 DEF IInv, StopInv
      <3>3. QED
        BY <2>3, <3>1, <3>2 DEF Batches!Accept
    <2>5. CASE StartBlocking \/ DropLine
      BY <1>1, <2>3, <2>5 DEF StartBlocking, DropLine
    <2>6. QED
      BY <2>2, <2>4, <2>5
  <1>3. CASE CollectLine
    BY <1>0, <1>3 DEF CollectLine
  \* The batch reaches the output.
  <1>4. CASE WriteFile \/ ReplyAccepted
    <2>1. /\ pc \in {"write", "reply"} /\ pc' = "loop"
          /\ output' = output \o batch /\ batch' = <<>>
          /\ UNCHANGED <<pushed, popped>>
      BY <1>4 DEF WriteFile, ReplyAccepted
    <2>2. Ids(output') = Ids(output) \o Batches!NextBatch
      BY <2>1, DeliveredIds
    <2>3. Len(batch) = LinesPerWrite /\ Len(batch') = 0
      BY <2>1 DEF NumberInv
    <2>4. QED
      BY <1>0, <2>1, <2>2, <2>3 DEF Batches!Deliver
  \* The batch is lost and the thread goes on.
  <1>5. CASE WriteSocketFails \/ ReplyRejected
    <2>1. /\ pc \in {"write", "reply"} /\ pc' = "loop" /\ batch' = <<>>
          /\ UNCHANGED <<pushed, popped, output>>
      BY <1>5 DEF WriteSocketFails, ReplyRejected
    <2>2. Len(batch) = LinesPerWrite /\ Len(batch') = 0
      BY <2>1 DEF NumberInv
    <2>3. QED
      BY <1>0, <2>1, <2>2 DEF Batches!Lose
  \* The thread ends, with what it has in its batch.
  <1>6. CASE \/ LoopStops \/ EntryOpenFails \/ CollectStops
             \/ ReplyTimeOut \/ ReplyStops
    <2>1. /\ pc \notin {"exit", "ended"} /\ pc' \in {"exit", "ended"}
          /\ batch' = <<>>
          /\ UNCHANGED <<pushed, popped, output>>
      BY <1>6 DEF LoopStops, EntryOpenFails, CollectStops, ReplyTimeOut,
         ReplyStops, NumberInv
    <2>2. Len(batch) \in 0..LinesPerWrite /\ Len(batch') = 0
      BY <1>0, <2>1
    <2>3. QED
      BY <1>0, <2>1, <2>2 DEF Batches!Close
  <1>7. CASE Thread /\ UNCHANGED <<pushed, popped, batch, output>>
             /\ (pc \in {"exit", "ended"} <=> pc' \in {"exit", "ended"})
    BY <1>7
  <1>8. CASE Thread
    <2>1. \/ CollectLine \/ WriteFile \/ ReplyAccepted
          \/ WriteSocketFails \/ ReplyRejected
          \/ LoopStops \/ EntryOpenFails \/ CollectStops
          \/ ReplyTimeOut \/ ReplyStops
          \/ /\ UNCHANGED <<pushed, popped, batch, output>>
             /\ pc \in {"exit", "ended"} <=> pc' \in {"exit", "ended"}
      BY <1>8 DEF Thread, EntryOpens, LoopContinues,
         Connect, ConnectSucceeds, ConnectFails, ConnectAbandoned,
         Collect, BatchComplete, Write, WriteSocket, Reply, EntryReturns
    <2>2. QED
      BY <1>3, <1>4, <1>5, <1>6, <1>7, <1>8, <2>1
  <1>9. CASE \/ CollectAllDbSchemaPaths \/ OnStreamOutUpdTimer
             \/ OnClose \/ ThreadJoined \/ UNCHANGED vars
    BY <1>1, <1>9 DEF CollectAllDbSchemaPaths, OnStreamOutUpdTimer,
       OnClose, ThreadJoined, vars, threadVars
  <1>10. QED
    BY <1>2, <1>8, <1>9 DEF Next, Destroyed

\* The streamer implements LossyBatches: accepted lines leave it in order,
\* without duplicates, batch by batch, each batch wholly or not at all,
\* whatever the interleaving of SetData(), the thread, the answers of the
\* server and the closing panel.
THEOREM StreamerDeliversBatches == Spec => DeliversBatches
  <1>1. IInv /\ NumberInv /\ [Next]_vars => NumberInv'
    BY StepNumberInv
  <1>2. Spec => [](IInv /\ NumberInv)
    BY <1>1, InitNumberInv, Invariance, PTL DEF Spec
  <1>3. Init => Batches!Init
    BY BatchesInit
  <1>4. IInv /\ NumberInv /\ [Next]_vars => [Batches!Next]_Batches!vars
    BY BatchesStep
  <1>5. QED
    BY <1>2, <1>3, <1>4, PTL DEF Spec, Batches!Spec, DeliversBatches
=============================================================================
