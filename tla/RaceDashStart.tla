--------------------------- MODULE RaceDashStart ---------------------------
(***************************************************************************)
(* The JavaScript page of the race start instrument: the finite state      *)
(* machine of instrujs/racedashstart/src/statemachine.js, the buttons that *)
(* drive it (buttons.ts) and the message element by which it asks the      *)
(* plug-in for something (cppStartline.ts, iface.js setFlag, clearFlag).   *)
(* The page holds at most one request: posting another one replaces it.    *)
(* The events that answer a request come from RaceStart, which EXTENDS     *)
(* this module.                                                            *)
(***************************************************************************)
VARIABLES
    fsm,        \* fsm.state
    flag,       \* what element 'bottom' shows between "instrujs:" and "!"
    portmark,   \* fsm.portmark
    stbdmark,   \* fsm.stbdmark
    wrnmsg      \* fsm.conf.wrnmsg: the license has been accepted

NoRequest == ""           \* the message element is empty

jsVars == <<fsm, flag, portmark, stbdmark, wrnmsg>>

\* The transitions as (name, from, to).  hascfg and nocfg follow setid in the
\* same event handler and both lead to getdisf, so setid stands for the pair.
\* luminsty and newsldata are self-transitions without any effect modelled.
Transitions ==
    { <<"loaded",     "loading", "initga">>,
      <<"initok",     "initga",  "getid">>,
      <<"setid",      "getid",   "getdisf">>,
      <<"getfeet",    "getdisf", "waiting">>,
      <<"nogetfeet",  "getdisf", "waiting">>,
      <<"sldstopack", "waiting", "waiting">>,
      <<"btnarmw",    "waiting", "isready">>,
      <<"chkrdy",     "isready", "getusrs">>,
      <<"nochkrdy",   "isready", "waiting">>,
      <<"nousersl",   "getusrs", "marking">>,
      <<"usersl",     "getusrs", "btnfade">>,
      <<"btnportd1",  "marking", "oneport">>,
      <<"btnstbdd1",  "marking", "onestbd">>,
      <<"markack",    "oneport", "onemark">>,
      <<"markack",    "onestbd", "onemark">>,
      <<"btnportd2",  "onemark", "twoport">>,
      <<"btnstbdd2",  "onemark", "twostbd">>,
      <<"markack",    "twoport", "btnfade">>,
      <<"markack",    "twostbd", "btnfade">>,
      <<"btnfaded",   "btnfade", "armed">>,
      <<"sldataack",  "armed",   "armed">>,
      <<"btnarmc",    "marking", "waiting">>,
      <<"btnarmc",    "onemark", "waiting">>,
      <<"btnarma",    "btnfade", "waiting">>,
      <<"btnarma",    "armed",   "waiting">> }
    \cup { <<"closing", s, "halt">> :
             s \in {"waiting", "isready", "getusrs", "marking", "oneport",
                    "onestbd", "onemark", "twoport", "twostbd", "btnfade",
                    "armed"} }

States == {t[2] : t \in Transitions} \cup {"halt"}

\* Mistake: the handler that follows the ready answer posts it again.
PostedBeforeCopied == [btnarmw |-> "getrdy", chkrdy |-> "getrdy",
                       btnportd1 |-> "dropport", btnportd2 |-> "dropport",
                       btnstbdd1 |-> "dropstbd", btnstbdd2 |-> "dropstbd"]

\* Requests posted by the onBefore... handlers of a transition.
PostedBefore == [btnarmw |-> "getrdy", chkrdy |-> "getusrsl",
                 btnportd1 |-> "dropport", btnportd2 |-> "dropport",
                 btnstbdd1 |-> "dropstbd", btnstbdd2 |-> "dropstbd"]

\* Requests posted on entering a state from another one.
PostedOnEnter == [getid |-> "getid", getdisf |-> "getdisf",
                  waiting |-> "stopsldata", armed |-> "getsldata"]

\* Transitions whose handler empties the message element.
Clearing == {"setid", "getfeet", "nogetfeet", "sldstopack", "nochkrdy",
             "nousersl", "usersl", "markack", "sldataack"}

Requests == {PostedBefore[t] : t \in DOMAIN PostedBefore} \cup
            {PostedOnEnter[s] : s \in DOMAIN PostedOnEnter}

Can(t) == \E x \in Transitions : x[1] = t /\ x[2] = fsm
To(t)  == (CHOOSE x \in Transitions : x[1] = t /\ x[2] = fsm)[3]

FlagAfter(t) ==
    IF To(t) # fsm /\ To(t) \in DOMAIN PostedOnEnter
    THEN PostedOnEnter[To(t)]
    ELSE IF t \in DOMAIN PostedBefore THEN PostedBefore[t]
    ELSE IF t \in Clearing THEN NoRequest ELSE flag

\* Mistake: the handler empties the element before it asks the machine.
FireClearsFirst(t) ==
    IF Can(t) THEN fsm' = To(t) /\ flag' = FlagAfter(t)
    ELSE /\ UNCHANGED fsm
         /\ flag' = IF t \in Clearing THEN NoRequest ELSE flag

\* A transition that the current state does not have throws, and every caller
\* catches or ignores the exception: nothing changes.
Fire(t) ==
    IF Can(t) THEN fsm' = To(t) /\ flag' = FlagAfter(t)
              ELSE UNCHANGED <<fsm, flag>>

KeepMarks == UNCHANGED <<portmark, stbdmark, wrnmsg>>

\* cppUserStartline and cppNoUserStartline.
FireUserLine(has) ==
    /\ Fire(IF has THEN "usersl" ELSE "nousersl")
    /\ IF fsm = "getusrs"
       THEN portmark' = has /\ stbdmark' = has
       ELSE UNCHANGED <<portmark, stbdmark>>
    /\ UNCHANGED wrnmsg

\* Mistake: only the first drop knows the starboard mark.
FireMarkAckFirst(dropped) ==
    /\ Fire("markack")
    /\ stbdmark' = IF fsm = "onestbd" THEN dropped ELSE stbdmark
    /\ portmark' = IF fsm \in {"oneport", "twoport", "twostbd"} THEN dropped
                   ELSE portmark
    /\ UNCHANGED wrnmsg

\* The state names, not the answer, say which of the two marks was dropped.
FireMarkAck(dropped) ==
    /\ Fire("markack")
    /\ stbdmark' = IF fsm \in {"onestbd", "twostbd"} THEN dropped ELSE stbdmark
    /\ portmark' = IF fsm \in {"oneport", "twoport"} THEN dropped ELSE portmark
    /\ UNCHANGED wrnmsg

-----------------------------------------------------------------------------
(* The buttons and the page's own timers.                                  *)

\* The load event of the window.
Loaded == fsm = "loading" /\ Fire("loaded") /\ KeepMarks

\* The polling of index.ts until the window has loaded.
InitOk == fsm = "initga" /\ Fire("initok") /\ KeepMarks

\* Click on btnArm: the first one only accepts the license.
ClickArm ==
    \/ /\ fsm \in {"marking", "onestbd", "oneport", "onemark"}
       /\ Fire("btnarmc")
       /\ KeepMarks
    \/ /\ fsm = "waiting" /\ wrnmsg
       /\ Fire("btnarmw")
       /\ KeepMarks
    \/ /\ fsm \in {"getdisf", "waiting"} /\ ~wrnmsg
       /\ wrnmsg' = TRUE
       /\ UNCHANGED <<fsm, flag, portmark, stbdmark>>

\* The first click gives a button the class "disabled", which is not the
\* property .css('disabled') that the handler tests: it can be clicked again.
ClickDropPort ==
    /\ fsm \in {"marking", "onemark"}
    /\ Fire(IF fsm = "marking" THEN "btnportd1" ELSE "btnportd2")
    /\ KeepMarks

ClickDropStarboard ==
    /\ fsm \in {"marking", "onemark"}
    /\ Fire(IF fsm = "marking" THEN "btnstbdd1" ELSE "btnstbdd2")
    /\ KeepMarks

\* btmarmedButtons: the panels have faded away.
Faded == fsm = "btnfade" /\ Fire("btnfaded") /\ KeepMarks

ClickArmedQuit == fsm = "armed" /\ Fire("btnarma") /\ KeepMarks

JSInit ==
    /\ fsm = "loading"
    /\ flag = NoRequest
    /\ portmark = FALSE
    /\ stbdmark = FALSE
    /\ wrnmsg \in BOOLEAN

JSTypeOK ==
    /\ fsm \in States
    /\ flag \in Requests \cup {NoRequest}
    /\ portmark \in BOOLEAN
    /\ stbdmark \in BOOLEAN
    /\ wrnmsg \in BOOLEAN
=============================================================================
