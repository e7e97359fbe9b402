----------------------------- MODULE RaceStart -----------------------------
(***************************************************************************)
(* The race start instrument: RaceStart.cpp, which keeps the start line    *)
(* and answers the requests of the page, on top of the polling of InstruJS *)
(* and together with the page of RaceDashStart.                            *)
(* A start line is a pair of marks.  The plug-in holds a pointer to each   *)
(* of them (portWp, stbdWp) beside the waypoints that the chart plotter    *)
(* keeps under two fixed names; a route the user activates takes           *)
(* precedence.  Positions are left out: only the presence of marks counts, *)
(* so the dialog about moved marks, which never adds or removes one, is    *)
(* not modelled.                                                           *)
(***************************************************************************)
EXTENDS RaceDashStart, InstruJS

CONSTANT
    UserRoutes       \* what the user does with a route named as start line

ASSUME UserRoutesAssumption ==
    /\ "none" \in UserRoutes
    /\ UserRoutes \subseteq {"none", "idle", "active", "malformed"}

VARIABLES
    portWp, stbdWp,          \* m_startPortWp, m_startStbdWp are not null
    startLineAsRoute,        \* m_startLineAsRoute is not null
    dataRequestOn,           \* m_dataRequestOn: the overlay is drawn
    userDropsMarks,          \* m_userDropsMarks
    suggestedOldMarks,       \* m_suggestedOldMarks
    jsCallBackAsHeartBeat,   \* m_jsCallBackAsHeartBeat
    dialog,                  \* the modal question about old marks is shown
    dataValid,               \* IsAllMeasurementDataValid()
    oldPort, oldStbd,        \* the chart plotter knows the fixed waypoints
    userRoute                \* that route in the route manager

lineVars == <<portWp, stbdWp, startLineAsRoute>>
flagVars == <<dataRequestOn, userDropsMarks, suggestedOldMarks,
              jsCallBackAsHeartBeat>>
ocpnVars == <<oldPort, oldStbd>>
envVars  == <<dataValid, userRoute>>
vars == <<jsVars, cppVars, lineVars, flagVars, dialog, ocpnVars, envVars>>

Init ==
    /\ JSInit
    /\ CppInit
    /\ portWp = FALSE /\ stbdWp = FALSE /\ startLineAsRoute = FALSE
    /\ dataRequestOn = FALSE
    /\ userDropsMarks = FALSE
    /\ suggestedOldMarks = FALSE
    /\ jsCallBackAsHeartBeat = FALSE
    /\ dialog = FALSE
    /\ dataValid = FALSE
    /\ oldPort \in BOOLEAN /\ oldStbd \in BOOLEAN
    /\ userRoute = "none"

-----------------------------------------------------------------------------
(* InstruJS::OnThreadTimerTick with the answers of this instrument.        *)

PollPage ==
    /\ ReadPage(flag)
    /\ UNCHANGED <<jsVars, lineVars, flagVars, dialog, ocpnVars, envVars>>

PollEnds ==
    /\ NothingToServe
    /\ UNCHANGED <<jsVars, lineVars, flagVars, dialog, ocpnVars, envVars>>

AnswerGetid ==
    /\ request = "getid"
    /\ Answered("GETID", source)
    /\ Fire("setid") /\ KeepMarks
    /\ UNCHANGED <<lineVars, flagVars, dialog, ocpnVars, envVars>>

AnswerGetdisf ==
    /\ request = "getdisf"
    /\ Answered(Relaxed, source)
    /\ \E feet \in BOOLEAN : Fire(IF feet THEN "getfeet" ELSE "nogetfeet")
    /\ KeepMarks
    /\ UNCHANGED <<lineVars, flagVars, dialog, ocpnVars, envVars>>

\* instruIsReady
AnswerGetrdy ==
    /\ request = "getrdy"
    /\ Answered(Relaxed, source)
    /\ Fire(IF dataValid THEN "chkrdy" ELSE "nochkrdy") /\ KeepMarks
    /\ UNCHANGED <<lineVars, flagVars, dialog, ocpnVars, envVars>>

\* userHasStartline
AnswerGetusrsl ==
    /\ request = "getusrsl"
    /\ Answered(Relaxed, source)
    /\ FireUserLine(stbdWp /\ portWp)
    /\ UNCHANGED <<lineVars, flagVars, dialog, ocpnVars, envVars>>

\* dropStarboardMark
AnswerDropstbd ==
    /\ request = "dropstbd"
    /\ Answered(Relaxed, source)
    /\ stbdWp' = (stbdWp \/ dataValid)
    /\ oldStbd' = (oldStbd \/ dataValid)
    /\ userDropsMarks' = (userDropsMarks \/ dataValid)
    /\ FireMarkAck(dataValid)
    /\ UNCHANGED <<portWp, startLineAsRoute, dataRequestOn, suggestedOldMarks,
                   jsCallBackAsHeartBeat, dialog, oldPort, envVars>>

\* Mistake: dropping the port mark does not note that marks are being dropped.
DropportUnnoted ==
    /\ request = "dropport"
    /\ Answered(Relaxed, source)
    /\ portWp' = (portWp \/ dataValid)
    /\ oldPort' = (oldPort \/ dataValid)
    /\ FireMarkAck(dataValid)
    /\ UNCHANGED <<stbdWp, startLineAsRoute, flagVars, dialog, oldStbd, envVars>>

\* dropPortMark
AnswerDropport ==
    /\ request = "dropport"
    /\ Answered(Relaxed, source)
    /\ portWp' = (portWp \/ dataValid)
    /\ oldPort' = (oldPort \/ dataValid)
    /\ userDropsMarks' = (userDropsMarks \/ dataValid)
    /\ FireMarkAck(dataValid)
    /\ UNCHANGED <<stbdWp, startLineAsRoute, dataRequestOn, suggestedOldMarks,
                   jsCallBackAsHeartBeat, dialog, oldStbd, envVars>>

\* sendSlData; the same tick already pushes the first newsldata, which does
\* not change any state of the page.
AnswerGetsldata ==
    /\ request = "getsldata"
    /\ Answered("SHOWDATA", "RACESTART_STARTLINE")
    /\ dataRequestOn' = TRUE
    /\ Fire("sldataack") /\ KeepMarks
    /\ UNCHANGED <<lineVars, userDropsMarks, suggestedOldMarks,
                   jsCallBackAsHeartBeat, dialog, ocpnVars, envVars>>

\* stopSlData
AnswerStopsldata ==
    /\ request = "stopsldata"
    /\ Answered("NO_REQUEST", "UNDEFINED")
    /\ dataRequestOn' = FALSE
    /\ userDropsMarks' = FALSE
    /\ suggestedOldMarks' = FALSE
    /\ jsCallBackAsHeartBeat' = TRUE
    /\ Fire("sldstopack") /\ KeepMarks
    /\ UNCHANGED <<lineVars, dialog, ocpnVars, envVars>>

ServePage ==
    \/ PollEnds
    \/ AnswerGetid    \/ AnswerGetdisf   \/ AnswerGetrdy    \/ AnswerGetusrsl
    \/ AnswerDropstbd \/ AnswerDropport  \/ AnswerGetsldata \/ AnswerStopsldata

-----------------------------------------------------------------------------
(* DashboardInstrument_RaceStart::OnThreadTimerTick.                       *)

\* CheckForValidUserSetStartLine adopts an active, well-formed route.
AdoptRoute ==
    /\ ~startLineAsRoute /\ userRoute = "active"
    /\ startLineAsRoute' = TRUE /\ portWp' = TRUE /\ stbdWp' = TRUE
    /\ UNCHANGED <<suggestedOldMarks, dialog>>

\* A route of the right name that is no start line clears everything before
\* the question about old marks is considered.
MayAskOldMarks ==
    /\ jsCallBackAsHeartBeat
    /\ ~userDropsMarks
    /\ ~suggestedOldMarks

\* CheckForPreviouslyDroppedStartLine: the pointers are set before the modal
\* dialog is shown, or dropped again when a waypoint is missing.
AskOldMarks ==
    /\ ~startLineAsRoute /\ userRoute # "active"
    /\ MayAskOldMarks
    /\ portWp' = (oldPort /\ oldStbd)
    /\ stbdWp' = (oldPort /\ oldStbd)
    /\ dialog' = (oldPort /\ oldStbd)
    /\ UNCHANGED <<startLineAsRoute, suggestedOldMarks>>

LeaveMarks ==
    /\ ~startLineAsRoute /\ userRoute # "active"
    /\ ~MayAskOldMarks
    /\ portWp' = (portWp /\ userRoute # "malformed")
    /\ stbdWp' = (stbdWp /\ userRoute # "malformed")
    /\ UNCHANGED <<startLineAsRoute, suggestedOldMarks, dialog>>

\* CheckStartLineStillValid: the route has been deleted in the route manager.
CheckRoute ==
    /\ startLineAsRoute
    /\ LET still == userRoute # "none"
       IN  startLineAsRoute' = still /\ portWp' = (still /\ portWp)
                                     /\ stbdWp' = (still /\ stbdWp)
    /\ UNCHANGED <<suggestedOldMarks, dialog>>

RaceStartTick ==
    /\ ~closing /\ ~inTick /\ ~dialog
    /\ AdoptRoute \/ AskOldMarks \/ LeaveMarks \/ CheckRoute
    /\ UNCHANGED <<jsVars, cppVars, dataRequestOn, userDropsMarks,
                   jsCallBackAsHeartBeat, ocpnVars, envVars>>

\* The answer to the dialog.  Timers keep running while it is shown.
AnswerDialog(keep) ==
    /\ dialog /\ ~inTick
    /\ dialog' = FALSE
    /\ suggestedOldMarks' = TRUE
    /\ IF keep
       THEN UNCHANGED <<lineVars, ocpnVars>>
       ELSE /\ portWp' = FALSE /\ stbdWp' = FALSE /\ startLineAsRoute' = FALSE
            /\ oldPort' = FALSE /\ oldStbd' = FALSE
    /\ UNCHANGED <<jsVars, cppVars, dataRequestOn, userDropsMarks,
                   jsCallBackAsHeartBeat, envVars>>

-----------------------------------------------------------------------------
(* The user, the data and the chart plotter.                               *)

\* The modal dialog keeps the user away from the page.
CanClick == ~closing /\ ~dialog

Click ==
    /\ CanClick
    /\ ClickArm \/ ClickDropPort \/ ClickDropStarboard \/ ClickArmedQuit
    /\ UNCHANGED <<cppVars, lineVars, flagVars, dialog, ocpnVars, envVars>>

PageTimer ==
    /\ ~closing
    /\ Loaded \/ InitOk \/ Faded
    /\ UNCHANGED <<cppVars, lineVars, flagVars, dialog, ocpnVars, envVars>>

\* All five values have arrived, or derivedTimeoutEvent has wiped them.
DataChanges ==
    /\ ~closing /\ ~inTick
    /\ dataValid' = ~dataValid
    /\ UNCHANGED <<jsVars, cppVars, lineVars, flagVars, dialog, ocpnVars,
                   userRoute>>

RouteManager ==
    /\ ~closing /\ ~inTick
    /\ userRoute' \in UserRoutes \ {userRoute}
    /\ UNCHANGED <<jsVars, cppVars, lineVars, flagVars, dialog, ocpnVars,
                   dataValid>>

\* OnClose of both classes: a page that shows data is told to close.
Close ==
    /\ ~dialog
    /\ CloseInstruJS
    /\ IF istate = "SHOWDATA" THEN Fire("closing")
                              ELSE UNCHANGED <<fsm, flag>>
    /\ KeepMarks
    /\ UNCHANGED <<lineVars, flagVars, dialog, ocpnVars, envVars>>

Next ==
    \/ PollPage \/ ServePage \/ RaceStartTick
    \/ \E keep \in BOOLEAN : AnswerDialog(keep)
    \/ Click \/ PageTimer \/ DataChanges \/ RouteManager \/ Close

Spec == Init /\ [][Next]_vars

\* The timers of both sides run; users, data and dialogs owe nothing.
Fairness ==
    /\ WF_vars(PollPage) /\ WF_vars(ServePage)
    /\ WF_vars(RaceStartTick) /\ WF_vars(PageTimer)

FairSpec == Spec /\ Fairness

-----------------------------------------------------------------------------
(* Properties.                                                             *)

TypeOK ==
    /\ JSTypeOK
    /\ CppTypeOK
    /\ requestServed \in Requests \cup {wxEmptyString}
    /\ request \in Requests \cup {wxEmptyString}
    /\ {portWp, stbdWp, startLineAsRoute, dialog, dataValid, oldPort, oldStbd}
         \subseteq BOOLEAN
    /\ {dataRequestOn, userDropsMarks, suggestedOldMarks,
        jsCallBackAsHeartBeat} \subseteq BOOLEAN
    /\ userRoute \in UserRoutes

\* What the page waits for in the states it can leave only by an answer.
AsksIn == [getid |-> "getid", getdisf |-> "getdisf", isready |-> "getrdy",
           getusrs |-> "getusrsl", oneport |-> "dropport",
           twoport |-> "dropport", onestbd |-> "dropstbd",
           twostbd |-> "dropstbd"]

\* A page that waits for an answer still shows its question: the late answer
\* to an older request, whose script runs after a click has moved the state
\* machine on, never wipes it (clearFlagById in cppStartline.ts).
QuestionKept == fsm \in DOMAIN AsksIn => flag = AsksIn[fsm]

\* An acknowledged mark is a mark the plug-in holds: the answer does not name
\* the mark, the page concludes it from its own state (onBeforeMarkack), so
\* the answers must not be taken for those of another button.
AckNamesTheMark ==
    [][/\ (portmark' /\ ~portmark) => portWp'
       /\ (stbdmark' /\ ~stbdmark) => stbdWp']_vars

\* The question about the marks of an earlier race does not come up once the
\* user has dropped a mark for this one (RaceStart.cpp: "we can be dropping
\* them right now"), whatever requests to stop were lost before.
AsksBeforeDropping ==
    [][~dialog /\ dialog' =>
         ~(fsm \in {"onemark", "twoport", "twostbd"}
           /\ (portmark \/ stbdmark))]_vars

\* The requests that the page posts on its own are served.  A page at rest ends
\* up with the overlay and the data off, even when its request to stop was
\* replaced by another one in an earlier session; an armed page gets its data;
\* and the question that follows the answer to another one, within the same
\* tick, is never taken for the request served before (InstruJS.cpp:477).
RequestsReachPlugin ==
    /\ fsm = "waiting" ~> (~dataRequestOn \/ fsm # "waiting" \/ closing)
    /\ fsm = "armed"   ~> (dataRequestOn \/ fsm # "armed" \/ closing)
    /\ fsm = "getusrs" ~> (fsm # "getusrs" \/ closing)
=============================================================================
