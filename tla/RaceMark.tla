------------------------------ MODULE RaceMark ------------------------------
(***************************************************************************)
(* The race mark instrument: RaceMark.cpp, which follows the active route  *)
(* by the messages of the chart plotter that dashboard_pi.cpp has kept,    *)
(* on top of the polling of InstruJS and together with its page.           *)
(* A course is a sequence of marks, each with a name of its own, as the    *)
(* manual asks for: mark, GUID and name are one here.  A timer compares    *)
(* the messages with the marks of the present leg; positions are left out. *)
(* Two pointers to one waypoint, which a failed change of the target may   *)
(* leave behind and which are both deleted, end the program or do not: the *)
(* program can be restarted at any moment.                                 *)
(***************************************************************************)
EXTENDS RaceDashMark, InstruJS, SequencesExt

CONSTANTS
    Courses,     \* the routes, as sequences of marks
    Deletable    \* the marks that the user deletes now and then

ASSUME CoursesAssumption ==
    \A r \in DOMAIN Courses :
      /\ r # ""
      /\ Courses[r] \in Seq(Range(Courses[r])) /\ Len(Courses[r]) > 1
      /\ IsInjective(Courses[r]) /\ "" \notin Range(Courses[r])

ASSUME DeletableAssumption ==
    Deletable \subseteq UNION {Range(Courses[r]) : r \in DOMAIN Courses}

NoMark  == ""        \* wxEmptyString, nullptr
NoCourse == ""

VARIABLES
    dataOn,          \* m_dataRequestOn
    paused,          \* m_overlayPauseRequestOn
    marks,           \* the route and the marks of the present and next legs
    dialog,          \* the modal message about a lost mark is shown
    rte,             \* mRouteActivatedGUID
    act,             \* mWpActivatedGUID
    arrived,         \* mWpArrivedName
    arrivedNext,     \* mWpArrivedNextGUID
    point,           \* the active mark in the route manager
    regular          \* the route goes from mark to mark, not too fast

msgVars  == <<rte, act, arrived, arrivedNext>>
ocpnVars == <<msgVars, point, regular>>
markVars == <<dataOn, paused, marks, dialog>>
vars     == <<pageVars, cppVars, markVars, ocpnVars>>

Marks == UNION {Range(Courses[r]) : r \in DOMAIN Courses}

\* ClearRoutesAndWPs
Cleared == [race |-> NoCourse, previous |-> NoMark, target |-> NoMark,
            next |-> NoMark, nextNext |-> NoMark]

-----------------------------------------------------------------------------
(* The route manager.                                                      *)

\* Not all marks can be found: the user may delete a mark, and put it back.
Lost == {{}} \cup {{w} : w \in Deletable}

Found(r, gone) == {i \in DOMAIN Courses[r] : Courses[r][i] \notin gone}

\* The neighbours of a mark on a route, if it has any.
Successor(r, w, gone) ==
    LET n == {j \in Found(r, gone) :
                \E i \in Found(r, gone) : i < j /\ Courses[r][i] = w}
    IN  IF n = {} THEN NoMark ELSE Courses[r][Min(n)]

Predecessor(r, w, gone) ==
    LET n == {i \in Found(r, gone) :
                \E j \in Found(r, gone) : i < j /\ Courses[r][j] = w}
    IN  IF n = {} THEN NoMark ELSE Courses[r][Max(n)]

\* They are tables, which TLC makes once.
After ==
    [r \in DOMAIN Courses |-> [w \in Marks \cup {NoMark} |->
        [gone \in Lost |-> Successor(r, w, gone)]]]

Before ==
    [r \in DOMAIN Courses |-> [w \in Marks \cup {NoMark} |->
        [gone \in Lost |-> Predecessor(r, w, gone)]]]

\* ClearActiveRouteMessages
ClearActiveRouteMessages ==
    /\ rte' = NoCourse /\ act' = NoMark
    /\ arrived' = NoMark /\ arrivedNext' = NoMark

\* The messages come in the same thread as the timers of the plug-in; after the
\* end of the instrument they do not matter.
KeepOthers == ~inTick /\ ~closing /\ UNCHANGED <<pageVars, cppVars, markVars>>

\* OCPN_RTE_ACTIVATED and OCPN_WPT_ACTIVATED: a route starts at the mark that
\* the route manager chooses.
ActivateRoute ==
    /\ rte = NoCourse
    /\ \E r \in DOMAIN Courses : \E w \in Range(Courses[r]) :
         rte' = r /\ act' = w /\ point' = w
    /\ regular' = (marks = Cleared)
    /\ UNCHANGED <<arrived, arrivedNext>>
    /\ KeepOthers

\* OCPN_WPT_ACTIVATED alone: the user chooses another mark.
ActivateMark ==
    /\ rte # NoCourse
    /\ \E w \in Range(Courses[rte]) \ {point} : act' = w /\ point' = w
    /\ regular' = FALSE
    /\ UNCHANGED <<rte, arrived, arrivedNext>>
    /\ KeepOthers

\* OCPN_WPT_ARRIVED, when there is a next mark.
Arrive ==
    /\ rte # NoCourse /\ After[rte][point][{}] # NoMark
    /\ arrived' = point
    /\ arrivedNext' = After[rte][point][{}]
    /\ point' = arrivedNext'
    /\ regular' = (regular /\ marks.target = point)
    /\ UNCHANGED <<rte, act>>
    /\ KeepOthers

\* OCPN_RTE_DEACTIVATED, or OCPN_RTE_ENDED right after the arrival at the
\* last mark.
Deactivate ==
    /\ rte # NoCourse
    /\ ClearActiveRouteMessages
    /\ point' = NoMark
    /\ UNCHANGED regular
    /\ KeepOthers

-----------------------------------------------------------------------------
(* DashboardInstrument_RaceMark::OnThreadTimerTick, as functions of the    *)
(* marks it starts from.                                                   *)

\* CheckForValidActiveRoute
Adopted(m) == IF m.race = NoCourse THEN [m EXCEPT !.race = rte] ELSE m

\* CheckForActivatedWp, UpdatePreviousWpFromNewTarget
Targeted(m, gone) ==
    IF m.target # NoMark \/ act \in gone \cup {NoMark} THEN m
    ELSE [m EXCEPT !.target = act, !.previous = Before[m.race][act][gone]]

\* The target has been deleted: the marks are cleared, the tick goes on.
WpChecked(m, gone) == IF m.target \in gone THEN Cleared ELSE m

\* Mistake: the mark that has been left counts as a new arrival.
PollWithoutPrevious(m) ==
    IF arrived = NoMark THEN "under way"
    ELSE IF arrived = m.target THEN "arrived"
    ELSE "elsewhere"

\* PollForNextActiveRouteWp, by names; its case of an arrival without a next
\* mark does not occur, the end of the route clears the messages.
PollForNextActiveRouteWp(m) ==
    IF arrived = NoMark THEN "under way"
    ELSE IF arrived = m.target THEN "arrived"
    ELSE IF arrived = m.previous THEN "under way"
    ELSE "elsewhere"

\* ChangeToNextTargetMark fails.
ChangeFails(m, gone) == arrivedNext = m.target \/ arrivedNext \in gone

\* ChangeNextAndNextNextMarks
WithNextLegs(m, gone) ==
    IF m.race = NoCourse THEN m
    ELSE LET n == After[m.race][m.target][gone]
         IN  [m EXCEPT !.next = n,
                       !.nextNext = IF n = NoMark THEN NoMark
                                    ELSE After[m.race][n][gone]]

\* Mistake: the marks behind the new target are looked up from the old one.
ChangedFromOld(m, gone) ==
    [WithNextLegs(m, gone) EXCEPT !.previous = m.target, !.target = arrivedNext]

\* The target becomes the previous mark.
Changed(m, gone) ==
    WithNextLegs([m EXCEPT !.previous = m.target, !.target = arrivedNext], gone)

\* The part of the tick for a route that is still there: what becomes of the
\* marks, and whether the user is told that the next mark is lost.
Followed(m, gone) ==
    LET c == WpChecked(m, gone)
    IN  IF m.target = NoMark THEN [to |-> m, lost |-> FALSE]
        ELSE IF PollForNextActiveRouteWp(c) = "under way"
        THEN [to |-> c, lost |-> FALSE]
        ELSE IF ChangeFails(c, gone) THEN [to |-> Cleared, lost |-> TRUE]
        ELSE [to |-> Changed(c, gone), lost |-> FALSE]

\* Mistake: the route is looked for among all routes, active or not.
RouteExists(m) == m.race \in DOMAIN Courses

\* CheckRouteStillValid
CheckRouteStillValid(m) == m.race = rte

RaceMarkTick ==
    /\ ~closing /\ ~dialog /\ ~inTick
    /\ \E gone \in Lost :
         LET a == Adopted(marks)
             f == IF a.race = NoCourse THEN [to |-> a, lost |-> FALSE]
                  ELSE IF CheckRouteStillValid(a)
                  THEN Followed(Targeted(a, gone), gone)
                  ELSE [to |-> Cleared, lost |-> FALSE]
         IN  /\ marks' = f.to /\ dialog' = f.lost
             /\ regular' = (regular /\ gone = {})
    /\ UNCHANGED <<pageVars, cppVars, dataOn, paused, msgVars, point>>

\* The message is confirmed; the timer of the instrument has waited for it.
DialogOver ==
    /\ dialog
    /\ dialog' = FALSE
    /\ UNCHANGED <<pageVars, cppVars, dataOn, paused, marks, ocpnVars>>

-----------------------------------------------------------------------------
(* InstruJS::OnThreadTimerTick with the answers of this instrument.        *)

Poll == ReadPage(flag) /\ UNCHANGED <<pageVars, markVars, ocpnVars>>

Serve ==
    /\ UNCHANGED <<marks, dialog, ocpnVars>>
    /\ \/ NothingToServe /\ UNCHANGED <<pageVars, dataOn, paused>>
       \/ /\ request = "getid" /\ Answered("GETID", source)
          /\ Setid /\ UNCHANGED <<dataOn, paused>>
       \/ /\ request = "getmrkdata" /\ Answered("SHOWDATA", "RACESTART_MARK")
          /\ dataOn' = TRUE /\ UNCHANGED paused
          /\ Mrkdataack
       \/ /\ request = "mutechart" /\ Answered(Relaxed, source)
          /\ paused' = TRUE /\ UNCHANGED dataOn
          /\ ChartAck
       \/ /\ request = "resumechart" /\ Answered(Relaxed, source)
          /\ paused' = FALSE /\ UNCHANGED dataOn
          /\ ChartAck

\* The data of the course, once they have been asked for.  The measurements
\* they need come and go.
Push ==
    /\ ~closing /\ ~inTick
    /\ istate = "SHOWDATA" /\ source = "RACESTART_MARK"
    /\ \E ready \in BOOLEAN :
         Newmrkdata([active |-> marks.race # NoCourse, ready |-> ready])
    /\ UNCHANGED <<cppVars, markVars, ocpnVars>>

\* The timers of the page: loading and animation.
PageTimers ==
    /\ ~closing
    /\ Loaded \/ InitOk \/ FadeOver
    /\ UNCHANGED <<cppVars, markVars, ocpnVars>>

\* The mouse, when no modal message is in front of the page.
Click ==
    /\ ~closing /\ ~dialog
    /\ ClickArm \/ ClickChart
    /\ UNCHANGED <<cppVars, markVars, ocpnVars>>

\* OnClose of both classes.
Close ==
    /\ ~dialog
    /\ CloseInstruJS
    /\ IF istate = "SHOWDATA" THEN PageClosing ELSE UNCHANGED pageVars
    /\ UNCHANGED <<markVars, ocpnVars>>

MarkInit ==
    /\ dataOn = FALSE /\ paused = FALSE
    /\ marks = Cleared /\ dialog = FALSE
    /\ rte = NoCourse /\ act = NoMark
    /\ arrived = NoMark /\ arrivedNext = NoMark
    /\ point = NoMark /\ regular = TRUE

Init ==
    /\ PageInit /\ accepted = FALSE
    /\ CppInit
    /\ MarkInit

\* The chart plotter ends, orderly or not, and is started again.
Restart ==
    /\ PageRestart
    /\ handshake' = "NO_REQUEST" /\ requestServed' = wxEmptyString
    /\ istate' = "NO_REQUEST" /\ source' = "UNDEFINED"
    /\ request' = wxEmptyString /\ inTick' = FALSE /\ closing' = FALSE
    /\ dataOn' = FALSE /\ paused' = FALSE
    /\ marks' = Cleared /\ dialog' = FALSE
    /\ ClearActiveRouteMessages
    /\ point' = NoMark /\ regular' = TRUE

RouteManager ==
    ActivateRoute \/ ActivateMark \/ Arrive \/ Deactivate

Next ==
    \/ RouteManager \/ RaceMarkTick \/ DialogOver
    \/ Poll \/ Serve \/ Push \/ PageTimers \/ Click \/ Close \/ Restart

Spec == Init /\ [][Next]_vars

\* The timers of page and plug-in, and the user who confirms a message.  The
\* other timers wait for the end of a tick of InstruJS, but get their turn.
Fairness ==
    /\ SF_vars(RaceMarkTick) /\ WF_vars(DialogOver)
    /\ WF_vars(Serve) /\ SF_vars(Push) /\ WF_vars(PageTimers)

FairSpec == Spec /\ Fairness

-----------------------------------------------------------------------------
(* Properties.                                                             *)

Position(w) == CHOOSE i \in DOMAIN Courses[marks.race] :
                 Courses[marks.race][i] = w

\* The legs on the display follow each other on the course, after arrivals,
\* changes of the route manager and deleted marks.
LegsInOrder ==
    marks.race # NoCourse =>
      /\ marks.next # NoMark => Position(marks.target) < Position(marks.next)
      /\ marks.nextNext # NoMark =>
           Position(marks.next) < Position(marks.nextNext)

\* When the route is sailed from mark to mark, and not so fast that two marks
\* lie between two ticks, the present leg ends at the mark the route manager
\* has activated, or at the one just reached, and begins at the mark before.
LegIsSailed ==
    regular /\ marks.target # NoMark /\ marks.race = rte =>
      /\ marks.target \in {point, arrived}
      /\ marks.previous = Before[rte][marks.target][{}]

\* What the page shows goes with its state, however fast routes come and go:
\* the marks while a route is active, else the standby text.
PanelMatchesState ==
    fades = <<>> => (fsm = "running" => panel \in {"table", "data"})
                 /\ (fsm = "waiting" => panel = "wait")

\* When the route has come to its end the page goes to standby, whatever the
\* marks it showed (racemark.ipynb: "will put itself in a standby state").
StandsBy ==
    (fsm = "running" /\ rte = NoCourse)
      ~> (fsm # "running" \/ rte # NoCourse \/ closing)
=============================================================================
