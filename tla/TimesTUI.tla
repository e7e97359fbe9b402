------------------------------ MODULE TimesTUI ------------------------------
(***************************************************************************)
(* The line chart: the page of instrujs/timestui, which draws the history  *)
(* of one path out of the data base, the client of the data base the page  *)
(* talks to on its own (idbclient.ts), and the plug-in, which only offers  *)
(* the paths and knows their schemas (TimesTUI.cpp on top of InstruJS.cpp).*)
(* A query is asynchronous: its rows come one by one, and it ends by one   *)
(* call for the end or for an error (module FluxQuery).  When the points   *)
(* of a query are drawn, a timer of the page starts the next one.          *)
(* Left out: the statistics by which the page shortens the time span of    *)
(* its queries, and what it draws of rows that lack a time or a value.     *)
(***************************************************************************)
EXTENDS PageConf, InstruJSPaths, SequencesExt

CONSTANTS
    NofGraphPoints,  \* nofGraphPoints
    MaxTime,         \* bound of the time stamps
    MaxPolls         \* bound of the pending calls of pollshowdata

ASSUME ChartAssumption == NofGraphPoints \in Nat \ {0} /\ MaxTime \in Nat

VARIABLES
    pending,         \* a handler of the state machine has thrown
    locstate,        \* idbclient.ts: RDY, RES or ERR
    schema,          \* path.js: schema.path
    htmlTitle,       \* data.js: the path whose values are added to the title
    queries,         \* the queries on their way, by the path they ask for
    collected,       \* jsonCollectedData
    lastStamp,       \* lastDataTimestamp.stmp
    chart,           \* the points on the chart, the oldest one first
    polls,           \* the number of pending calls of pollshowdata
    now              \* the time of the youngest point in the data base

dbVars == <<locstate, schema, htmlTitle, queries, collected, lastStamp, chart,
            polls>>
jsVars == <<fsm, flag, iface, confVars, pending, dbVars>>
vars   == <<jsVars, cppVars, pathVars, now>>

\* Mistake: the path can be changed while a query is on its way.
ChangeAnytime == {"getschema", "getdata", "showdata", "nodata"}

\* The states in which the user may change the path.
ChangeStates == {"getschema", "showdata", "nodata"}

\* statemachine.js, without the transitions between loading states and those
\* from "halt" to itself, which only keep names known.
Transitions ==
    { <<"loaded",    "loading",   "initga">>,
      <<"initok",    "initga",    "getid">>,
      <<"setid",     "getid",     "hasid">>,
      <<"nocfg",     "hasid",     "getalldb">>,
      <<"hascfg",    "hasid",     "getschema">>,
      <<"setalldb",  "getalldb",  "showmenu">>,
      <<"rescan",    "showmenu",  "getalldb">>,
      <<"selected",  "showmenu",  "getschema">>,
      <<"ackschema", "getschema", "getdata">>,
      <<"getnew",    "showdata",  "getdata">>,
      <<"newdata",   "getdata",   "showdata">>,
      <<"errdata",   "getdata",   "nodata">>,
      <<"retryget",  "nodata",    "getdata">>,
      <<"closing",   "nodata",    "halt">>,
      <<"closing",   "showdata",  "halt">> } \cup
    { <<"chgconf", from, "getalldb">> : from \in ChangeStates }

States == StatesOf(Transitions)

\* index.ts: the events for which the page creates a handler, its own ones
\* for newdata and errdata included; the other ones are ignored.
PathHandlers  == {"setalldb", "rescan", "selected", "ackschema"}
DataHandlers  == {"newdata", "errdata"}
OtherHandlers == {"retryget", "chgconf", "luminsty", "closing"}
CreatedEvents == PathHandlers \cup DataHandlers \cup OtherHandlers

\* A transition that has thrown is never over: the library refuses any other.
Can(e) == e \in CreatedEvents /\ ~pending /\ CanIn(Transitions, e)

-----------------------------------------------------------------------------
(* idbclient.ts and data.js                                                *)

Point(p, t) == [of |-> p, stmp |-> t]
Blank       == Point("", 0)

\* dataQuery: nothing is asked unless the client is ready and has a schema.
\* Its callers have set both.
DataQuery(others) ==
    queries' = IF locstate' = "RDY" /\ schema' # ""
               THEN Append(others, schema') ELSE others

\* The rows from position i on, none when there is no such position.
From(rows, i) == IF i = 0 THEN <<>> ELSE SubSeq(rows, i, Len(rows))

\* Mistake: a point that was the last one is drawn again.
NotOlder(rows) ==
    From(rows, SelectInSeq(rows, LAMBDA r : r.stmp >= lastStamp))

\* showData: of the last rows, those younger than what has been drawn.  Rows
\* come the oldest one first.
Younger(rows) ==
    From(rows, SelectInSeq(rows, LAMBDA r : r.stmp > lastStamp))

LastRows(rows) ==
    IF Len(rows) > NofGraphPoints
    THEN SubSeq(rows, Len(rows) - NofGraphPoints + 1, Len(rows)) ELSE rows

NewPoints == Younger(LastRows(collected))

\* Mistake: the chart has nothing to paint, so nobody looks at it again.
PollWhenDrawn == IF NewPoints = <<>> THEN polls ELSE polls + 1

\* The call of pollshowdata at the end of the handler of newdata.
PollAfter == polls + 1

\* The chart shifts: it shows a fixed number of points.
Drawn(points) == LastRows(chart \o points)

-----------------------------------------------------------------------------
(* The handlers of the page.                                               *)

Refused(e) ==
    /\ ~Can(e)
    /\ UNCHANGED <<fsm, flag, confVars, pending, dbVars>>

\* initPaths and initData: no schema, and a chart of zeros.
InitPaths == schema' = ""
InitData  == chart' = [i \in 1 .. NofGraphPoints |-> Blank]

\* initLoad, on entering "initga".
OnInitga == InitPaths /\ InitData /\ conf' = EmptyConf

\* The load event of the window.
Loaded ==
    /\ fsm = "loading"
    /\ fsm' = "initga"
    /\ OnInitga
    /\ UNCHANGED <<flag, iface, perspath, path, allpaths, menu, title,
                   storeVars, pending, locstate, htmlTitle, queries,
                   collected, lastStamp, polls, cppVars, pathVars, now>>

\* The polling of index.ts until the window has loaded.
InitOk ==
    /\ fsm = "initga"
    /\ fsm' = "getid" /\ flag' = "getid"
    /\ UNCHANGED <<iface, confVars, pending, dbVars, cppVars, pathVars, now>>

\* setid, followed by hascfg or nocfg at once.
Setid ==
    /\ UNCHANGED iface
    /\ IF fsm # "getid" THEN UNCHANGED <<fsm, flag, confVars, pending, dbVars>>
       ELSE /\ SelfTest
            /\ store' = AfterSelfTest(store)
            /\ \E loaded \in {LoadConf(store', tested')} : conf' = GetConf(loaded)
            /\ IF conf'.path # NoPath
               THEN /\ perspath' = TRUE /\ SetMenuRunTime
                    /\ UNCHANGED path
                    /\ fsm' = "getschema" /\ flag' = PathAsked
               ELSE /\ perspath' = FALSE /\ UNCHANGED <<path, menu, title>>
                    /\ fsm' = "getalldb" /\ flag' = "getalldb"
            /\ UNCHANGED <<allpaths, policy, pending, dbVars>>

\* setalldb: getalldb() clears the message element.
Setalldb(list) ==
    /\ UNCHANGED iface
    /\ \/ Refused("setalldb")
       \/ /\ Can("setalldb")
          /\ fsm' = "showmenu" /\ flag' = NoRequest
          /\ SetMenuAllPaths(list)
          /\ UNCHANGED <<conf, perspath, path, storeVars, pending, dbVars>>

\* rescan and chgconf do the same; the object that is stored is kept.
AskAgain(e) ==
    /\ UNCHANGED iface
    /\ \/ Refused(e)
       \/ /\ Can(e)
          /\ fsm' = "getalldb" /\ flag' = "getalldb"
          /\ SetMenuBackToLoading
          /\ ClearConf
          /\ UNCHANGED <<allpaths, storeVars, pending, dbVars>>

\* selected: the entry of common.js becomes the configuration.
Selected(p) ==
    /\ iface' = Stored("setselected", p)
    /\ \/ Refused("selected")
       \/ /\ Can("selected")
          /\ fsm' = "getschema"
          /\ SetMenuRunTime
          /\ path' = iface'.selectedpath
          /\ conf' = ConfOfSelected(path')
          /\ store' = Saved(store, tested, conf')
          /\ UNCHANGED <<perspath, allpaths, browserVars, pending, dbVars>>
          /\ flag' = PathAsked

\* onWaitdataFinalCheck
OnWaitdataFinalCheck == title' = TitleShown /\ htmlTitle' = title'

\* updateTitleWithValue: the last of the new points is added to the title.
UpdateTitleWithValue == title' = IF NewPoints = <<>> THEN title ELSE htmlTitle

\* onBeforeAckschema, once the schema has been parsed: the first query.
FirstQuery ==
    /\ schema' = iface'.dbschema
    /\ OnWaitdataFinalCheck
    /\ UNCHANGED locstate
    /\ DataQuery(queries)

\* ackschema.  An empty text, for a path without a schema, is no JSON: the
\* handler throws.
Ackschema(p) ==
    /\ iface' = Stored("ackschema", p)
    /\ \/ Refused("ackschema")
       \/ /\ Can("ackschema") /\ p = ""
          /\ pending' = TRUE
          /\ UNCHANGED <<fsm, flag, confVars, dbVars>>
       \/ /\ Can("ackschema") /\ p # ""
          /\ fsm' = "getdata" /\ flag' = NoRequest
          /\ FirstQuery
          /\ UNCHANGED <<conf, perspath, path, allpaths, menu, storeVars,
                         pending, collected, lastStamp, chart, polls>>

\* newdata: the rows are taken from the client, which is ready again; new
\* points are drawn.  The handler then calls pollshowdata, which makes the
\* next query at once when the chart has nothing to paint.
Newdata ==
    /\ UNCHANGED iface
    /\ \/ Refused("newdata")
       \/ /\ Can("newdata")
          /\ locstate' = "RDY"
          /\ chart' = Drawn(NewPoints)
          /\ lastStamp' = IF NewPoints = <<>> THEN lastStamp
                                              ELSE Last(NewPoints).stmp
          /\ collected' = <<>>
          /\ queries' = Tail(queries)
          /\ fsm' = "showdata"
          /\ polls' = PollAfter
          /\ UpdateTitleWithValue
          /\ UNCHANGED <<flag, conf, perspath, path, allpaths, menu, storeVars,
                         pending, schema, htmlTitle>>

\* setIdbClientForRetry: what has been collected is dropped.
ForRetry == locstate' = "RDY" /\ collected' = <<>>

\* errdata, nodata and retryget, one after the other: the client is ready
\* again, the menu is that of a page that loads, and the next query is made.
RetryAfterError ==
    /\ ForRetry
    /\ SetMenuBackToLoading
    /\ UNCHANGED <<schema, htmlTitle>>
    /\ DataQuery(Tail(queries))

\* errdata: the handler of index.ts then finds "nodata" and goes on at once
\* with retryget.
Errdata ==
    /\ UNCHANGED iface
    /\ \/ Refused("errdata")
       \/ /\ Can("errdata")
          /\ RetryAfterError
          /\ UNCHANGED <<fsm, flag, conf, perspath, path, allpaths, storeVars,
                         pending, lastStamp, chart, polls>>

\* pollshowdata, by its timer: the next query, or another round.  What the
\* chart says of the points it still has to paint is left open.
PollShowdata ==
    /\ polls > 0
    /\ fsm = "showdata" /\ ~pending
    /\ polls' = polls - 1
    /\ fsm' = "getdata"
    /\ UNCHANGED <<locstate, schema, htmlTitle>>
    /\ DataQuery(queries)
    /\ UNCHANGED <<flag, iface, confVars, pending, collected, lastStamp,
                   chart, cppVars, pathVars, now>>

\* closing
Closing ==
    /\ UNCHANGED iface
    /\ \/ Refused("closing")
       \/ /\ Can("closing")
          /\ fsm' = "halt"
          /\ PrepareConfHalt
          /\ UNCHANGED <<flag, conf, perspath, path, allpaths, menu, title,
                         browserVars, pending, dbVars>>

-----------------------------------------------------------------------------
(* The data base.                                                          *)

\* A row of the oldest query on its way, younger than the rows before it.
Row ==
    /\ queries # <<>>
    /\ \E t \in 1 .. now :
         /\ collected # <<>> => t > Last(collected).stmp
         /\ collected' = Append(collected, Point(Head(queries), t))
    /\ UNCHANGED <<fsm, flag, iface, confVars, pending, locstate, schema,
                   htmlTitle, queries, lastStamp, chart, polls, cppVars,
                   pathVars, now>>

EndOfQuery ==
    /\ queries # <<>>
    /\ Newdata
    /\ UNCHANGED <<cppVars, pathVars, now>>

Fail ==
    /\ queries # <<>>
    /\ Errdata
    /\ UNCHANGED <<cppVars, pathVars, now>>

\* The streamer writes another point.
Write ==
    /\ now < MaxTime
    /\ now' = now + 1
    /\ UNCHANGED <<jsVars, cppVars, pathVars>>

-----------------------------------------------------------------------------
(* The tick of the plug-in and the user.                                   *)

Poll == ReadPage(flag) /\ UNCHANGED <<jsVars, pathVars, now>>

KeepPath == UNCHANGED <<graceCount, hasSchema, subscribedPath>>

\* The schemas of the paths that the streamers have found so far.
SchemaOf(p) == IF p \in discovered THEN p ELSE ""

Serve ==
    /\ UNCHANGED <<data, lastOut, outCnt, pushing, discovered, now>>
    /\ \/ NothingToServe /\ KeepPath /\ UNCHANGED jsVars
       \/ request = "getid" /\ Answered("GETID", source) /\ KeepPath /\ Setid
       \/ ServeGetalldb /\ UNCHANGED subscribedPath /\ Setalldb(discovered)
       \/ CollectPaths /\ UNCHANGED <<subscribedPath, jsVars>>
       \/ CollectSchemas(Paths) /\ UNCHANGED jsVars
       \/ GiveSchema(Paths) /\ Ackschema(SchemaOf(request))

\* The mouse.
Click ==
    /\ ~closing
    /\ \E call \in MenuCalls :
         \/ call[1] = "setselected" /\ Selected(call[2])
         \/ call[1] = "setchgconf" /\ polls < MaxPolls /\ AskAgain("chgconf")
         \/ call[1] = "setrescan" /\ AskAgain("rescan")
    /\ UNCHANGED <<cppVars, pathVars, now>>

TurnsUp == PathTurnsUp(Paths) /\ UNCHANGED <<jsVars, now>>

\* OnClose of both classes: a page that shows data is told to close.
Close ==
    /\ CloseInstruJS
    /\ IF istate = "SHOWDATA" THEN Closing ELSE UNCHANGED jsVars
    /\ UNCHANGED <<pathVars, now>>

PageInit ==
    /\ pending = FALSE /\ locstate = "RDY" /\ schema = "" /\ htmlTitle = NoPath
    /\ queries = <<>> /\ collected = <<>>
    /\ lastStamp = 0
    /\ chart = <<>>
    /\ polls = 0

\* The program ends, orderly or not, and is started again.
Restart ==
    /\ fsm' = "loading" /\ flag' = NoRequest
    /\ iface' = [selectedpath |-> NoPath, dbschema |-> ""]
    /\ pending' = FALSE /\ locstate' = "RDY" /\ schema' = ""
    /\ htmlTitle' = NoPath
    /\ queries' = <<>> /\ collected' = <<>>
    /\ lastStamp' = 0
    /\ chart' = <<>>
    /\ polls' = 0
    /\ ConfRestart
    /\ PathsRestart
    /\ UNCHANGED now

Init ==
    /\ fsm = "loading" /\ flag = NoRequest
    /\ iface = [selectedpath |-> NoPath, dbschema |-> ""]
    /\ PageInit
    /\ ConfInit
    /\ PathsInit
    /\ now = 0

Next ==
    \/ Loaded \/ InitOk \/ Poll \/ Serve
    \/ Row \/ EndOfQuery \/ Fail \/ PollShowdata \/ Write
    \/ Click \/ TurnsUp \/ Close \/ Restart

Spec == Init /\ [][Next]_vars

\* The browser loads the page, the timers of page and plug-in run, and a query
\* ends, by an error at the latest when the browser gives up.
Fairness ==
    /\ WF_vars(Loaded) /\ WF_vars(InitOk)
    /\ WF_vars(Poll) /\ WF_vars(Serve)
    /\ WF_vars(PollShowdata) /\ WF_vars(EndOfQuery \/ Fail)

FairSpec == Spec /\ Fairness

-----------------------------------------------------------------------------
(* Properties.                                                             *)

TypeOK ==
    /\ fsm \in States \ {"hasid", "nodata"}
    /\ flag \in {NoRequest, "getid", "getalldb"} \cup Paths
    /\ iface \in [selectedpath : Paths \cup {NoPath},
                  dbschema : Paths \cup {""}]
    /\ pending \in BOOLEAN /\ locstate \in {"RDY", "RES", "ERR"}
    /\ schema \in Paths \cup {""} /\ htmlTitle \in Paths \cup {NoPath}
    /\ queries \in Seq(Paths)
    /\ Range(collected) \subseteq [of : Paths, stmp : 1 .. MaxTime]
    /\ lastStamp \in 0 .. MaxTime
    /\ Len(chart) \in {0, NofGraphPoints}
    /\ Range(chart) \subseteq [of : Paths \cup {""}, stmp : 0 .. MaxTime]
    /\ polls \in 0 .. MaxPolls
    /\ now \in 0 .. MaxTime
    /\ ConfTypeOK
    /\ PathsTypeOK(Paths)

\* The rows of all queries go into one list and the page cannot tell whose
\* they are.  It works because there is never more than one query on its way,
\* for the path the user has picked, exactly while the page is in "getdata"; the
\* title, which errors and new points replace, never names another path
\* (idbclient.ts: dataQuery, statemachine.js: chgconf, retryget).
OneQuery ==
    /\ Len(queries) = IF fsm = "getdata" THEN 1 ELSE 0
    /\ fsm = "getdata" => Head(queries) = conf.path
    /\ \A r \in Range(collected) : fsm = "getdata" /\ r.of = conf.path
    /\ title \in {NoPath, conf.path}

\* Time runs from left to right on the chart, through answers that repeat
\* themselves, errors, and changes of the path under a timer that still waits,
\* and no point is drawn twice.
ChartInOrder ==
    \A i, j \in DOMAIN chart :
      i < j /\ chart[i] # Blank => chart[i].stmp < chart[j].stmp

\* A page that shows data goes on asking for more, through errors, until the
\* user or the plug-in puts an end to it: neither the client that is not ready
\* nor the loss of the polling timer stops it.  And a question to the plug-in
\* is answered, unless it is a rescan that comes so soon after the last answer
\* that the plug-in takes it for the same question.
KeepsAsking ==
    /\ fsm = "showdata" ~> (fsm \in {"getdata", "getalldb", "halt", "loading"})
    /\ (fsm = "getid") ~> (fsm # "getid" \/ closing)
    /\ (fsm = "getschema" /\ discovered # {})
         ~> (fsm # "getschema" \/ closing \/ pending)
    /\ (fsm = "getalldb" /\ discovered # {} /\ requestServed # "getalldb")
         ~> (fsm # "getalldb" \/ closing)
=============================================================================
