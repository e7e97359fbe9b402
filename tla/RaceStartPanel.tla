--------------------------- MODULE RaceStartPanel ---------------------------
(***************************************************************************)
(* What the page of the race start instrument shows: the button in the     *)
(* middle, the ones for the two marks, the panels of the line's data, and  *)
(* the message, which the count-down replaces (buttons.ts, linedata.ts).   *)
(* Panels leave the page by a fade of about a second, and only the         *)
(* callback at its end builds what comes next, while clicks, answers of    *)
(* the plug-in and other fades go on.                                      *)
(*                                                                         *)
(* The plug-in is any that reads the message element and answers each      *)
(* request once, however late; RaceStart models the one there is.  Left    *)
(* out: the looks of buttons (a class "disabled" keeps no click away).     *)
(***************************************************************************)
EXTENDS RaceDashStart, Naturals, SequencesExt

CONSTANT MaxFades     \* bound of the fades on their way

ASSUME MaxFadesAssumption == MaxFades \in Nat \ {0}

VARIABLES
    center,      \* the element grdCenter
    label,       \* the text of btnArm
    sides,       \* the elements grdPort and grdStarboard
    lines,       \* the elements grdDistLine and grdDistAbs
    body,        \* the texts of the panels in sides and lines
    message,     \* the element pnlMsgClockBdy
    clock,       \* showTimeLeft
    timeUp,      \* minutes < 0
    fades,       \* the fades on their way, by what started them
    asked        \* the request the plug-in has read

panelVars == <<center, label, sides, lines, body, message, clock, timeUp>>
pageVars  == <<jsVars, panelVars, fades, asked>>

MarkingStates == {"marking", "oneport", "onestbd", "onemark", "twoport",
                  "twostbd"}

\* The answers to a request; setid comes from the polling for the id.
AnswersTo == [getid |-> {"setid"}, getdisf |-> {"getfeet", "nogetfeet"},
              getrdy |-> {"chkrdy", "nochkrdy"},
              getusrsl |-> {"usersl", "nousersl"},
              dropport |-> {"markack"}, dropstbd |-> {"markack"},
              getsldata |-> {"sldataack"}, stopsldata |-> {"sldstopack"}]

-----------------------------------------------------------------------------
(* The panels, as a record that the handlers work on.                      *)

Panel == [center |-> center, label |-> label, sides |-> sides,
          lines |-> lines, message |-> message]

Shows(p) ==
    /\ center' = p.center /\ label' = p.label /\ sides' = p.sides
    /\ lines' = p.lines /\ message' = p.message

\* initButtons
InitButtons(p) ==
    [p EXCEPT !.center = "arm",
              !.label = IF wrnmsg THEN "start" ELSE "accept",
              !.message = IF wrnmsg THEN "init" ELSE "license"]

\* btmarmwButtons
DropButtons(p) ==
    [p EXCEPT !.message = "drop", !.sides = "drop", !.label = "cancel"]

\* armedLineData: the panels of the line's data, with dashes.
ArmedLineData(p) == [p EXCEPT !.sides = "data", !.lines = "data"]

\* btmarmcButtons: the fade after Cancel is over.
CancelFaded(p) == InitButtons([p EXCEPT !.sides = "empty"])

\* btmarmedButtons: the fade before the armed page is over.
ArmedFaded(p) ==
    [p EXCEPT !.center = "armed", !.sides = "empty", !.message = "marked"]

\* Mistake: the panels of the line's data are left behind.
QuitKeepsLines(p) == InitButtons([p EXCEPT !.sides = "empty"])

\* btmarmaButtons and quitLineData: the fades after Quit are over.
QuitFaded(p) == InitButtons([p EXCEPT !.sides = "empty", !.lines = "empty"])

\* Mistake: a fade that meets another one on its way is forgotten.
NotQueued(kind) == IF fades = <<>> THEN <<kind>> ELSE fades

\* Animations of one element queue up, and every promise waits for the end of
\* the queue.
Queued(kind) == Append(fades, kind)

AfterFade(p, kind) ==
    CASE kind = "cancel" -> CancelFaded(p)
      [] kind = "armed"  -> ArmedFaded(p)
      [] kind = "quit"   -> QuitFaded(p)

\* The callbacks run in the order of the fades.  Each sets the center, the sides
\* and the message, so that those before the last one matter only to the label
\* and the line's data.
AllFaded(p) ==
    LET before == Front(fades)
        q == IF Contains(before, "quit") THEN QuitFaded(p)
             ELSE IF Contains(before, "cancel") THEN CancelFaded(p)
             ELSE p
    IN  AfterFade(q, Last(fades))

KeepPanels == UNCHANGED <<panelVars, fades>>

-----------------------------------------------------------------------------
(* The answers of the plug-in.                                             *)

\* The plug-in reads the message element.
Read ==
    /\ asked = NoRequest /\ flag # NoRequest
    /\ asked' = flag
    /\ UNCHANGED <<jsVars, panelVars, fades>>

\* What a transition into getdisf or with one of these names shows.
AnswerShows(t) ==
    CASE t \in {"setid", "getfeet"} /\ Can(t) -> Shows(InitButtons(Panel))
      [] t = "nousersl" /\ Can(t) -> Shows(DropButtons(Panel))
      [] OTHER -> UNCHANGED <<center, label, sides, lines, message>>

\* btmarmedButtons starts its fade on entering btnfade.
AnswerFades(t) ==
    fades' = IF Can(t) /\ To(t) = "btnfade" THEN Queued("armed") ELSE fades

Answer ==
    /\ asked # NoRequest
    /\ asked' = NoRequest
    /\ \E t \in AnswersTo[asked] :
         /\ AnswerShows(t) /\ AnswerFades(t)
         /\ IF t = "markack" THEN \E dropped \in BOOLEAN : FireMarkAck(dropped)
            ELSE IF t \in {"usersl", "nousersl"} THEN FireUserLine(t = "usersl")
            ELSE Fire(t) /\ KeepMarks
    /\ UNCHANGED <<body, clock, timeUp>>

\* newLineData: the plug-in pushes four numbers, or a value that stands for
\* none; only an armed page shows them.
Newsldata ==
    /\ body' \in IF fsm = "armed" THEN [DOMAIN body -> {"dashes", "number"}]
                 ELSE {body}
    /\ UNCHANGED <<jsVars, center, label, sides, lines, message, clock, timeUp,
                   fades, asked>>

Closing ==
    /\ Fire("closing") /\ KeepMarks
    /\ UNCHANGED asked /\ KeepPanels

-----------------------------------------------------------------------------
(* Fades and the clock.                                                    *)

Dashes == [p \in {"line", "abs", "bias", "adv"} |-> "dashes"]

\* The sides, which fade faster, are empty before the rest.
SidesFaded ==
    /\ fades # <<>>
    /\ sides' = "empty"
    /\ UNCHANGED <<jsVars, center, label, lines, body, message, clock, timeUp,
                   fades, asked>>

\* The promises of all fades are kept.  The one before the armed page fires
\* btnfaded, and entering "armed" shows the line's data.
FadeOver ==
    /\ fades # <<>>
    /\ fades' = <<>>
    /\ LET p == AllFaded(Panel)
           arms == Contains(fades, "armed") /\ fsm = "btnfade"
       IN  IF arms
           THEN /\ Shows(ArmedLineData(p)) /\ body' = Dashes
                /\ Fire("btnfaded")
           ELSE Shows(p) /\ UNCHANGED <<body, fsm, flag>>
    /\ KeepMarks
    /\ UNCHANGED <<clock, timeUp, asked>>

\* makeTimer
MakeTimer ==
    /\ clock
    /\ message' = "clock"
    /\ timeUp' \in {timeUp, TRUE}
    /\ UNCHANGED <<jsVars, center, label, sides, lines, body, clock, fades,
                   asked>>

PageStarts ==
    /\ Loaded \/ InitOk
    /\ UNCHANGED asked /\ KeepPanels

-----------------------------------------------------------------------------
(* Clicks, on what the page shows.                                         *)

ClickOnArm ==
    /\ center = "arm" /\ Len(fades) < MaxFades
    /\ ClickArm
    /\ IF fsm \in {"waiting", "getdisf"}
       THEN IF wrnmsg THEN UNCHANGED <<label, message>>
            ELSE label' = "start" /\ message' = "init"
       ELSE UNCHANGED <<label, message>>
    /\ fades' = IF fsm' = "waiting" /\ fsm # "waiting" THEN Queued("cancel")
                                                       ELSE fades
    /\ UNCHANGED <<center, sides, lines, body, clock, timeUp, asked>>

ClickOnSide ==
    /\ sides = "drop"
    /\ ClickDropPort \/ ClickDropStarboard
    /\ UNCHANGED asked /\ KeepPanels

\* Quit: the clock stops, and everything fades.
ClickOnQuit ==
    /\ center = "armed" /\ Len(fades) < MaxFades
    /\ ClickArmedQuit
    /\ clock' = FALSE
    /\ fades' = Queued("quit")
    /\ UNCHANGED <<center, label, sides, lines, body, message, timeUp, asked>>

\* Five or four minutes.
ClickOnMinutes ==
    /\ center = "armed"
    /\ clock' = TRUE /\ timeUp' = FALSE
    /\ UNCHANGED <<jsVars, center, label, sides, lines, body, message, fades,
                   asked>>

PanelInit ==
    /\ JSInit
    /\ center = "empty" /\ label = "start" /\ sides = "empty"
    /\ lines = "empty" /\ body = Dashes
    /\ message = "empty" /\ clock = FALSE /\ timeUp = FALSE
    /\ fades = <<>> /\ asked = NoRequest

PanelNext ==
    \/ PageStarts \/ Read \/ Answer \/ Newsldata \/ Closing
    \/ SidesFaded \/ FadeOver \/ MakeTimer
    \/ ClickOnArm \/ ClickOnSide \/ ClickOnQuit \/ ClickOnMinutes

PanelSpec == PanelInit /\ [][PanelNext]_pageVars

\* Animations end, and the plug-in reads and answers.
FairPanelSpec ==
    /\ PanelSpec
    /\ WF_pageVars(FadeOver) /\ WF_pageVars(Read) /\ WF_pageVars(Answer)

-----------------------------------------------------------------------------
(* Properties.                                                             *)

\* Once the fades are over, the panels fit each other and the state, though
\* fades overlap each other, clicks and answers, and their callbacks rebuild
\* the page from what they know of it.  The panels of an armed page are there
\* just when it is armed; the button asks for the license just until it has
\* been accepted; it says Cancel just when the buttons to drop a mark stand
\* beside it, and these are only shown while marks are dropped.
\* It is not promised that a page where marks are dropped has them: the late
\* end of a fade of Cancel or Quit takes them away, and leaves a button that
\* says Start and cancels.
ButtonsMatchState ==
    fades = <<>> /\ fsm # "halt" =>
      /\ center = "armed" <=> fsm = "armed"
      /\ sides = "data" <=> fsm = "armed"
      /\ lines = "data" <=> fsm = "armed"
      /\ center = "arm" =>
           /\ label = "accept" <=> ~wrnmsg
           /\ label = "cancel" <=> sides = "drop"
      /\ sides = "drop" => center = "arm" /\ fsm \in MarkingStates

\* A page whose line is complete gets armed: the callback it waits for is not
\* lost among those of other fades.
FadeArms == fsm = "btnfade" ~> fsm # "btnfade"
=============================================================================
