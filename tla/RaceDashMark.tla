---------------------------- MODULE RaceDashMark ----------------------------
(***************************************************************************)
(* The page of the race mark instrument, instrujs/racedashmark: it asks    *)
(* once for the data of the race course, waits for an active route, shows  *)
(* the table of the marks while there is one, and lets the user hide the   *)
(* overlay on the chart.  The table and the standby text replace each      *)
(* other after an animation of one second, during which data arrive.       *)
(***************************************************************************)
EXTENDS Iface, Sequences, Integers

CONSTANT MaxFades    \* bound of the animations that wait for each other

VARIABLES
    accepted,   \* conf.wrnmsg: the licence has been accepted, in the store too
    panel,      \* what the page shows
    fades,      \* the panels whose animation runs, in the order of their start
    muted       \* btnChartMuted

pageVars == <<fsm, flag, iface, accepted, panel, fades, muted>>

Panels == {"empty", "license", "wait", "table", "data"}

\* statemachine.js
Transitions ==
    { <<"loaded",     "loading", "initga">>,
      <<"initok",     "initga",  "getid">>,
      <<"setid",      "getid",   "hasid">>,
      <<"nocfg",      "hasid",   "getack">>,
      <<"hascfg",     "hasid",   "getack">>,
      <<"mrkdataack", "getack",  "waiting">>,
      <<"actvrte",    "waiting", "running">>,
      <<"newmrkdata", "running", "running">>,
      <<"noroute",    "running", "waiting">>,
      <<"closing",    "getack",  "halt">>,
      <<"closing",    "waiting", "halt">>,
      <<"closing",    "running", "halt">> }

States == StatesOf(Transitions)

\* index.ts: the events for which the page creates a handler, those of the race
\* mark and those that all pages have; it ignores the other ones.
MarkHandlers   == {"mrkdataack", "newmrkdata", "mrkmteaack", "mrkumteack"}
CommonHandlers == {"luminsty", "closing"}
CreatedEvents  == MarkHandlers \cup CommonHandlers

Can(e) == e \in CreatedEvents /\ CanIn(Transitions, e)

\* The handlers use the fields of iface only while they are called.
NoFields == <<>>

PageInit ==
    /\ fsm = "loading" /\ flag = NoRequest
    /\ iface = NoFields
    /\ panel = "empty" /\ fades = <<>>
    /\ muted = FALSE

PageRestart ==
    /\ fsm' = "loading" /\ flag' = NoRequest
    /\ iface' = NoFields
    /\ panel' = "empty" /\ fades' = <<>>
    /\ muted' = FALSE
    /\ UNCHANGED accepted

\* The load event of the window.  What initInit sets is not changed before.
Loaded ==
    /\ fsm = "loading"
    /\ fsm' = TargetIn(Transitions, "loaded")
    /\ UNCHANGED <<flag, iface, accepted, panel, fades, muted>>

\* pollinitga: the window has loaded.
InitOk ==
    /\ fsm = "initga"
    /\ fsm' = "getid" /\ flag' = "getid"
    /\ UNCHANGED <<iface, accepted, panel, fades, muted>>

\* initButtons: who has accepted the licence is not asked again.
InitButtons ==
    IF accepted THEN panel' = "wait" /\ flag' = "getmrkdata"
                ELSE panel' = "license" /\ flag' = NoRequest

\* setid, followed by hascfg or nocfg, which both lead to "getack".
Setid ==
    IF fsm # "getid" THEN UNCHANGED pageVars
    ELSE /\ fsm' = "getack"
         /\ InitButtons
         /\ UNCHANGED <<iface, accepted, fades, muted>>

\* The acceptance of the licence; the button is there until then.
ClickArm ==
    /\ panel = "license"
    /\ panel' = "wait" /\ flag' = "getmrkdata"
    /\ accepted' = TRUE
    /\ UNCHANGED <<fsm, iface, fades, muted>>

Mrkdataack ==
    IF ~Can("mrkdataack") THEN UNCHANGED pageVars
    ELSE /\ fsm' = "waiting" /\ flag' = NoRequest
         /\ UNCHANGED <<iface, accepted, panel, fades, muted>>

\* The old panel fades, then the new one is built.
Fade(next) == fades' = Append(fades, next)

StartMarkData == Fade("table")
StartWaitData == Fade("wait")

\* newMarkData fills a table that has been built.
Filled == IF panel = "table" THEN "data" ELSE panel

\* The end of the display: there is no active route any more.
NoRoute(d) == ~d.active

\* The handler of newmrkdata in index.ts.  The ticks are not faster than the
\* animation, so the queue stays short.
Newmrkdata(d) ==
    /\ Len(fades) < MaxFades
    /\ UNCHANGED <<flag, iface, accepted, muted>>
    /\ \/ /\ fsm = "running" /\ d.active /\ d.ready
          /\ panel' = Filled
          /\ UNCHANGED <<fsm, fades>>
       \/ /\ fsm = "waiting" /\ d.active
          /\ fsm' = TargetIn(Transitions, "actvrte")
          /\ StartMarkData /\ UNCHANGED panel
       \/ /\ fsm = "running" /\ NoRoute(d)
          /\ fsm' = TargetIn(Transitions, "noroute")
          /\ StartWaitData /\ UNCHANGED panel
       \/ /\ ~(fsm = "running" /\ d.active /\ d.ready)
          /\ ~(fsm = "waiting" /\ d.active)
          /\ ~(fsm = "running" /\ NoRoute(d))
          /\ UNCHANGED <<fsm, panel, fades>>

\* Mistake: each animation is taken for the only one.
FirstBuilt == fades[1]

LastBuilt == fades[Len(fades)]

\* The animations of one element run one after the other; both panels are
\* built when the queue is empty, in the order of the calls: the last stays.
FadeOver ==
    /\ fades # <<>>
    /\ panel' = LastBuilt
    /\ fades' = <<>>
    /\ UNCHANGED <<fsm, flag, iface, accepted, muted>>

\* The chart button posts its request and does not wait for the answer.
ClickChart ==
    /\ panel \in {"table", "data"}
    /\ flag' = IF muted THEN "resumechart" ELSE "mutechart"
    /\ muted' = ~muted
    /\ UNCHANGED <<fsm, iface, accepted, panel, fades>>

\* mrkmteaack and mrkumteack: whatever is requested is cleared.
ChartAck ==
    /\ flag' = NoRequest
    /\ UNCHANGED <<fsm, iface, accepted, panel, fades, muted>>

PageClosing ==
    IF ~Can("closing") THEN UNCHANGED pageVars
    ELSE /\ fsm' = "halt"
         /\ UNCHANGED <<flag, iface, accepted, panel, fades, muted>>

PageTypeOK ==
    /\ fsm \in States \ {"hasid"}
    /\ flag \in {NoRequest, "getid", "getmrkdata", "mutechart", "resumechart"}
    /\ iface = NoFields
    /\ accepted \in BOOLEAN
    /\ panel \in Panels
    /\ fades \in Seq({"wait", "table"})
    /\ muted \in BOOLEAN
=============================================================================
