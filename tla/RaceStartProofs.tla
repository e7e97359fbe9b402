--------------------------- MODULE RaceStartProofs ---------------------------
(***************************************************************************)
(* Safety of the race start instrument, for every set of things the user   *)
(* may do with a route: the state machine of the page, the message element *)
(* and the polling of the plug-in, in any interleaving.  The last part is  *)
(* about RaceStartPanel, whose state machine is the same, for any number   *)
(* of fades on their way.                                                  *)
(***************************************************************************)
EXTENDS RaceStart, RaceStartPanel, SequenceTheorems, TLAPS

\* The message element asks for a mark, or for the data to be stopped, only
\* as long as the page is in the state that posted it.
FlagInv ==
    /\ flag = "dropport" => fsm \in {"oneport", "twoport", "halt"}
    /\ flag = "dropstbd" => fsm \in {"onestbd", "twostbd", "halt"}
    /\ flag = "stopsldata" => fsm \in {"waiting", "halt"}

\* So it is with the request the plug-in has read, except that the race may
\* have been started between the two halves of a tick.
RequestInv ==
    /\ request = "dropport" => fsm \in {"oneport", "twoport", "halt"}
    /\ request = "dropstbd" => fsm \in {"onestbd", "twostbd", "halt"}
    /\ request = "stopsldata" => fsm \in {"waiting", "isready", "halt"}

\* A marking page starts without marks, and the plug-in knows that the ones
\* it has were dropped for this race.
MarksInv ==
    /\ fsm \in {"marking", "oneport", "onestbd"} => ~portmark /\ ~stbdmark
    /\ fsm \in {"onemark", "twoport", "twostbd"} /\ (portmark \/ stbdmark)
         => userDropsMarks

\* The inductive invariant.
IInv == TypeOK /\ QuestionKept /\ FlagInv /\ RequestInv /\ MarksInv

-----------------------------------------------------------------------------
(* The state machine of the page.                                          *)

\* The states in which the page lets the user close it.
Closable == {"waiting", "isready", "getusrs", "marking", "oneport",
             "onestbd", "onemark", "twoport", "twostbd", "btnfade", "armed"}

\* The edges of the state machine, one by one.
LEMMA Edges ==
    ASSUME NEW x \in Transitions
    PROVE  \/ x = <<"loaded",     "loading", "initga">>
           \/ x = <<"initok",     "initga",  "getid">>
           \/ x = <<"setid",      "getid",   "getdisf">>
           \/ x = <<"getfeet",    "getdisf", "waiting">>
           \/ x = <<"nogetfeet",  "getdisf", "waiting">>
           \/ x = <<"sldstopack", "waiting", "waiting">>
           \/ x = <<"btnarmw",    "waiting", "isready">>
           \/ x = <<"chkrdy",     "isready", "getusrs">>
           \/ x = <<"nochkrdy",   "isready", "waiting">>
           \/ x = <<"nousersl",   "getusrs", "marking">>
           \/ x = <<"usersl",     "getusrs", "btnfade">>
           \/ x = <<"btnportd1",  "marking", "oneport">>
           \/ x = <<"btnstbdd1",  "marking", "onestbd">>
           \/ x = <<"markack",    "oneport", "onemark">>
           \/ x = <<"markack",    "onestbd", "onemark">>
           \/ x = <<"btnportd2",  "onemark", "twoport">>
           \/ x = <<"btnstbdd2",  "onemark", "twostbd">>
           \/ x = <<"markack",    "twoport", "btnfade">>
           \/ x = <<"markack",    "twostbd", "btnfade">>
           \/ x = <<"btnfaded",   "btnfade", "armed">>
           \/ x = <<"sldataack",  "armed",   "armed">>
           \/ x = <<"btnarmc",    "marking", "waiting">>
           \/ x = <<"btnarmc",    "onemark", "waiting">>
           \/ x = <<"btnarma",    "btnfade", "waiting">>
           \/ x = <<"btnarma",    "armed",   "waiting">>
           \/ \E s \in Closable : x = <<"closing", s, "halt">>
  BY Zenon DEF Transitions, Closable

\* An event that fires takes one of them.
LEMMA FiredEdge ==
    ASSUME NEW t, Can(t), Fire(t)
    PROVE  /\ <<t, fsm, fsm'>> \in Transitions
           /\ fsm' = To(t)
           /\ flag' = FlagAfter(t)
  <1>1. PICK x \in Transitions : x[1] = t /\ x[2] = fsm
    BY DEF Can
  <1> DEFINE y == CHOOSE z \in Transitions : z[1] = t /\ z[2] = fsm
  <1>2. y \in Transitions /\ y[1] = t /\ y[2] = fsm
    BY <1>1
  <1>3. fsm' = To(t) /\ flag' = FlagAfter(t) /\ To(t) = y[3]
    BY DEF Fire, To
  <1> HIDE DEF y
  <1>4. y = <<y[1], y[2], y[3]>>
    BY <1>2, Edges
  <1>5. QED
    BY <1>2, <1>3, <1>4

\* Where an edge leads to the states of the marking, and where it comes from.
LEMMA EdgeFacts ==
    ASSUME NEW t, NEW s, NEW r, <<t, s, r>> \in Transitions
    PROVE  /\ r \in {"oneport", "onestbd"} => s = "marking"
           /\ r \in {"twoport", "twostbd"} => s = "onemark"
           /\ r = "marking" => t = "nousersl" /\ s = "getusrs"
           /\ r = "onemark" => t = "markack" /\ s \in {"oneport", "onestbd"}
           /\ s = "isready" => r \in {"getusrs", "waiting", "halt"}
           /\ s = "waiting" => r \in {"waiting", "isready", "halt"}
           /\ s \in {"oneport", "onestbd"} => r \in {"onemark", "halt"}
           /\ s \in {"twoport", "twostbd"} => r \in {"btnfade", "halt"}
           /\ s \in {"oneport", "onestbd", "twoport", "twostbd"} =>
                r = "halt" \/ t = "markack"
           /\ s # "halt"
           /\ r \in {"getid", "getdisf"} => s # r
           /\ t = "usersl" => s = "getusrs" /\ r = "btnfade"
           /\ t = "nousersl" => s = "getusrs"
           /\ t = "markack" => s \in {"oneport", "onestbd", "twoport", "twostbd"}
           /\ r = "getusrs" => t = "chkrdy"
           /\ t = "sldstopack" => s = r
  BY Edges DEF Closable

\* The requests that follow an edge into a state.
LEMMA EdgePosts ==
    ASSUME NEW t, NEW s, NEW r, <<t, s, r>> \in Transitions
    PROVE  /\ r \in {"oneport", "twoport"} <=>
                t \in DOMAIN PostedBefore /\ PostedBefore[t] = "dropport"
           /\ r \in {"onestbd", "twostbd"} <=>
                t \in DOMAIN PostedBefore /\ PostedBefore[t] = "dropstbd"
           /\ r = "isready" <=>
                t \in DOMAIN PostedBefore /\ PostedBefore[t] = "getrdy"
           /\ r = "getusrs" <=>
                t \in DOMAIN PostedBefore /\ PostedBefore[t] = "getusrsl"
           /\ r \notin {"oneport", "twoport", "onestbd", "twostbd",
                        "isready", "getusrs"} => t \notin DOMAIN PostedBefore
  BY Edges DEF Closable, PostedBefore

\* The requests a state posts when it is entered, one by one.
LEMMA OnEnter ==
    /\ DOMAIN PostedOnEnter = {"getid", "getdisf", "waiting", "armed"}
    /\ PostedOnEnter["getid"] = "getid"
    /\ PostedOnEnter["getdisf"] = "getdisf"
    /\ PostedOnEnter["waiting"] = "stopsldata"
    /\ PostedOnEnter["armed"] = "getsldata"
  BY DEF PostedOnEnter

\* The question each state waits with, one by one.
LEMMA Asking ==
    /\ DOMAIN AsksIn = {"getid", "getdisf", "isready", "getusrs", "oneport",
                        "twoport", "onestbd", "twostbd"}
    /\ AsksIn["getid"] = "getid" /\ AsksIn["getdisf"] = "getdisf"
    /\ AsksIn["isready"] = "getrdy" /\ AsksIn["getusrs"] = "getusrsl"
    /\ AsksIn["oneport"] = "dropport" /\ AsksIn["twoport"] = "dropport"
    /\ AsksIn["onestbd"] = "dropstbd" /\ AsksIn["twostbd"] = "dropstbd"
  BY DEF AsksIn

\* A state is one of these.
LEMMA StateNames ==
    States = {"loading", "initga", "getid", "getdisf", "halt"} \cup Closable
  <1> DEFINE S == {"loading", "initga", "getid", "getdisf", "halt"} \cup Closable
  <1>1. ASSUME NEW x \in Transitions PROVE x[2] \in S
    BY Edges DEF Closable
  <1>2. ASSUME NEW s \in S, s # "halt"
        PROVE  \E x \in Transitions : x[2] = s
    <2>1. CASE s \in Closable
      <3>1. <<"closing", s, "halt">> \in Transitions
        BY <2>1 DEF Transitions, Closable
      <3>2. QED
        BY <3>1
    <2>2. CASE s \in {"loading", "initga", "getid", "getdisf"}
      <3>1. /\ <<"loaded", "loading", "initga">> \in Transitions
            /\ <<"initok", "initga", "getid">> \in Transitions
            /\ <<"setid", "getid", "getdisf">> \in Transitions
            /\ <<"getfeet", "getdisf", "waiting">> \in Transitions
        BY DEF Transitions
      <3>2. QED
        BY <2>2, <3>1
    <2>3. QED
      BY <1>2, <2>1, <2>2
  <1>3. QED
    BY <1>1, <1>2 DEF States

\* An edge leads from a state to a state.
LEMMA EdgeStates ==
    ASSUME NEW t, NEW s, NEW r, <<t, s, r>> \in Transitions
    PROVE  s \in States /\ r \in States
  BY Edges, StateNames DEF Closable

\* What an event leaves in the message element.
LEMMA FlagLeft ==
    ASSUME NEW t, Can(t), Fire(t), flag \in Requests \cup {NoRequest}
    PROVE  /\ flag' \in Requests \cup {NoRequest}
           /\ \/ /\ fsm' # fsm /\ fsm' \in DOMAIN PostedOnEnter
                 /\ flag' = PostedOnEnter[fsm']
              \/ /\ t \in DOMAIN PostedBefore /\ flag' = PostedBefore[t]
                 /\ ~(fsm' # fsm /\ fsm' \in DOMAIN PostedOnEnter)
              \/ /\ t \notin DOMAIN PostedBefore /\ t \in Clearing
                 /\ flag' = NoRequest
                 /\ ~(fsm' # fsm /\ fsm' \in DOMAIN PostedOnEnter)
              \/ /\ t \notin DOMAIN PostedBefore /\ t \notin Clearing
                 /\ flag' = flag
                 /\ ~(fsm' # fsm /\ fsm' \in DOMAIN PostedOnEnter)
  <1> DEFINE Enters == fsm' # fsm /\ fsm' \in DOMAIN PostedOnEnter
  <1>1. flag' = IF Enters THEN PostedOnEnter[fsm']
                ELSE IF t \in DOMAIN PostedBefore THEN PostedBefore[t]
                ELSE IF t \in Clearing THEN NoRequest ELSE flag
    BY FiredEdge DEF FlagAfter
  <1>2. CASE Enters
    <2>1. PostedOnEnter[fsm'] \in Requests
      BY <1>2 DEF Requests
    <2>2. QED
      BY <1>1, <1>2, <2>1
  <1>3. CASE ~Enters /\ t \in DOMAIN PostedBefore
    <2>1. PostedBefore[t] \in Requests
      BY <1>3 DEF Requests
    <2>2. QED
      BY <1>1, <1>3, <2>1
  <1>4. CASE ~Enters /\ t \notin DOMAIN PostedBefore
    BY <1>1, <1>4
  <1>5. QED
    BY <1>2, <1>3, <1>4

\* Whatever event fires, from wherever and however late, the page goes on
\* showing the question of its state, and no question of another one.
LEMMA FireKeeps ==
    ASSUME NEW t, Fire(t), fsm \in States,
           flag \in Requests \cup {NoRequest}, QuestionKept, FlagInv
    PROVE  /\ fsm' \in States
           /\ flag' \in Requests \cup {NoRequest}
           /\ QuestionKept'
           /\ FlagInv'
  <1>1. CASE ~Can(t)
    BY <1>1 DEF Fire, QuestionKept, FlagInv
  <1>2. CASE Can(t)
    <2>1. <<t, fsm, fsm'>> \in Transitions
      BY <1>2, FiredEdge
    <2>2. fsm' \in States
      BY <2>1, EdgeStates
    <2>3. QuestionKept'
      <3>1. CASE fsm' \in {"getid", "getdisf"}
        BY <1>2, <2>1, <3>1, FlagLeft, EdgeFacts, OnEnter, Asking DEF QuestionKept
      <3>2. CASE fsm' \in {"isready", "getusrs", "oneport", "twoport",
                           "onestbd", "twostbd"}
        BY <1>2, <2>1, <3>2, FlagLeft, EdgePosts, OnEnter, Asking DEF QuestionKept
      <3>3. QED
        BY <3>1, <3>2, Asking DEF QuestionKept
    <2>4. FlagInv'
      <3>1. CASE fsm' # fsm /\ fsm' \in DOMAIN PostedOnEnter
        <4>1. flag' = PostedOnEnter[fsm']
          BY <1>2, <3>1, FlagLeft
        <4>2. QED
          BY <3>1, <4>1, OnEnter DEF FlagInv
      <3>2. CASE t \in DOMAIN PostedBefore /\ flag' = PostedBefore[t]
        <4>1. flag' \in {"dropport", "dropstbd", "getrdy", "getusrsl"}
          BY <3>2 DEF PostedBefore
        <4>2. QED
          BY <2>1, <3>2, <4>1, EdgePosts DEF FlagInv
      <3>3. CASE flag' = NoRequest
        BY <3>3 DEF FlagInv, NoRequest
      <3>4. CASE flag' = flag /\ t \notin DOMAIN PostedBefore /\ t \notin Clearing
        <4>1. t # "markack"
          BY <3>4 DEF Clearing
        <4>2. fsm' # "isready"
          BY <2>1, <3>4, EdgePosts
        <4>3. QED
          BY <2>1, <3>4, <4>1, <4>2, EdgeFacts DEF FlagInv
      <3>5. QED
        BY <1>2, <3>1, <3>2, <3>3, <3>4, FlagLeft
    <2>5. QED
      BY <1>2, <2>2, <2>3, <2>4, FlagLeft
  <1>3. QED
    BY <1>1, <1>2

\* The request of the tick in progress keeps its meaning whatever the page
\* does on its own.
LEMMA FireRequest ==
    ASSUME NEW t, t \notin {"markack", "chkrdy"}, Fire(t), RequestInv,
           request' = request
    PROVE  RequestInv'
  <1>1. CASE ~Can(t)
    BY <1>1 DEF Fire, RequestInv
  <1>2. CASE Can(t)
    <2>1. <<t, fsm, fsm'>> \in Transitions
      BY <1>2, FiredEdge
    <2>2. QED
      BY <2>1, EdgeFacts DEF RequestInv
  <1>3. QED
    BY <1>1, <1>2

\* The marks of a race keep their meaning under all other events.
LEMMA FireMarks ==
    ASSUME NEW t, t \notin {"markack", "nousersl"}, Fire(t), MarksInv,
           UNCHANGED <<portmark, stbdmark>>,
           userDropsMarks => userDropsMarks'
    PROVE  MarksInv'
  <1>1. CASE ~Can(t)
    BY <1>1 DEF Fire, MarksInv
  <1>2. CASE Can(t)
    <2>1. <<t, fsm, fsm'>> \in Transitions
      BY <1>2, FiredEdge
    <2>2. QED
      BY <2>1, EdgeFacts DEF MarksInv
  <1>3. QED
    BY <1>1, <1>2

\* The answer to the drop of a mark.
LEMMA AckMarks ==
    ASSUME NEW dropped \in BOOLEAN, FireMarkAck(dropped), MarksInv, JSTypeOK,
           userDropsMarks' = (userDropsMarks \/ dropped)
    PROVE  MarksInv' /\ portmark' \in BOOLEAN /\ stbdmark' \in BOOLEAN
  <1>1. portmark' \in BOOLEAN /\ stbdmark' \in BOOLEAN
    BY DEF FireMarkAck, JSTypeOK
  <1>2. CASE ~Can("markack")
    <2>1. fsm' = fsm
      BY <1>2 DEF FireMarkAck, Fire
    <2>2. fsm \notin {"oneport", "onestbd", "twoport", "twostbd"}
      <3>1. /\ <<"markack", "oneport", "onemark">> \in Transitions
            /\ <<"markack", "onestbd", "onemark">> \in Transitions
            /\ <<"markack", "twoport", "btnfade">> \in Transitions
            /\ <<"markack", "twostbd", "btnfade">> \in Transitions
        BY DEF Transitions
      <3>2. QED
        BY <1>2, <3>1 DEF Can
    <2>3. portmark' = portmark /\ stbdmark' = stbdmark
      BY <2>2 DEF FireMarkAck
    <2>4. MarksInv'
      BY <2>1, <2>3 DEF MarksInv
    <2>5. QED
      BY <1>1, <2>4
  <1>3. CASE Can("markack")
    <2>1. <<"markack", fsm, fsm'>> \in Transitions
      BY <1>3, FiredEdge DEF FireMarkAck
    <2>2. /\ fsm \in {"oneport", "onestbd", "twoport", "twostbd"}
          /\ fsm' \in {"onemark", "btnfade", "halt"}
          /\ fsm' = "onemark" => fsm \in {"oneport", "onestbd"}
      BY <2>1, EdgeFacts
    <2>3. CASE fsm' = "onemark"
      BY <1>1, <2>2, <2>3 DEF FireMarkAck, MarksInv
    <2>4. CASE fsm' # "onemark"
      BY <1>1, <2>2, <2>4 DEF MarksInv
    <2>5. QED
      BY <1>1, <2>3, <2>4
  <1>4. QED
    BY <1>2, <1>3

\* The answer to the question for a start line.
LEMMA UserLineMarks ==
    ASSUME NEW has \in BOOLEAN, FireUserLine(has), MarksInv, JSTypeOK,
           userDropsMarks' = userDropsMarks
    PROVE  MarksInv' /\ portmark' \in BOOLEAN /\ stbdmark' \in BOOLEAN
  <1> DEFINE t == IF has THEN "usersl" ELSE "nousersl"
  <1>1. portmark' \in BOOLEAN /\ stbdmark' \in BOOLEAN
    BY DEF FireUserLine, JSTypeOK
  <1>2. Fire(t) /\ t \in {"usersl", "nousersl"}
    BY DEF FireUserLine
  <1>3. CASE fsm # "getusrs"
    <2>1. ~Can(t)
      <3>1. ASSUME NEW x \in Transitions, x[1] = t, x[2] = fsm PROVE FALSE
        BY <1>2, <1>3, <3>1, Edges DEF Closable
      <3>2. QED
        BY <3>1 DEF Can
    <2>2. fsm' = fsm /\ portmark' = portmark /\ stbdmark' = stbdmark
      BY <1>2, <1>3, <2>1 DEF Fire, FireUserLine
    <2>3. QED
      BY <1>1, <2>2 DEF MarksInv
  <1>4. CASE fsm = "getusrs"
    <2>1. portmark' = has /\ stbdmark' = has
      BY <1>4 DEF FireUserLine
    <2>2. CASE has
      <3>1. fsm' \in {"getusrs", "btnfade"}
        <4>1. CASE Can(t)
          <5>1. <<t, fsm, fsm'>> \in Transitions
            BY <1>2, <4>1, FiredEdge
          <5>2. QED
            BY <2>2, <5>1, EdgeFacts
        <4>2. CASE ~Can(t)
          BY <1>2, <1>4, <4>2 DEF Fire
        <4>3. QED
          BY <4>1, <4>2
      <3>2. QED
        BY <1>1, <3>1 DEF MarksInv
    <2>3. CASE ~has
      BY <1>1, <2>1, <2>3 DEF MarksInv
    <2>4. QED
      BY <2>2, <2>3
  <1>5. QED
    BY <1>3, <1>4

-----------------------------------------------------------------------------
(* The polling of the plug-in.                                             *)

\* The hand-shake of a tick keeps the types of InstruJS and leaves no request.
LEMMA TickTypes ==
    ASSUME TypeOK,
           \/ NothingToServe
           \/ \E i \in IStates, src \in Sources : Answered(i, src)
    PROVE  /\ CppTypeOK'
           /\ requestServed' \in Requests \cup {wxEmptyString}
           /\ request' = wxEmptyString
  <1> USE DEF TypeOK, CppTypeOK, EndTick
  <1>1. CASE NothingToServe
    <2>1. AfterEmpty[handshake] \in HandShakes
      BY DEF AfterEmpty, HandShakes
    <2>2. Relaxed \in IStates
      BY DEF Relaxed, IStates
    <2>3. QED
      BY <1>1, <2>1, <2>2 DEF NothingToServe, HandShakes, IStates
  <1>2. CASE \E i \in IStates, src \in Sources : Answered(i, src)
    BY <1>2 DEF Answered, HandShakes
  <1>3. QED
    BY <1>1, <1>2

\* What the plug-in answers with.
LEMMA AnswerTypes ==
    ASSUME TypeOK
    PROVE  /\ Relaxed \in IStates /\ source \in Sources
           /\ {"GETID", "SHOWDATA", "NO_REQUEST"} \subseteq IStates
           /\ {"RACESTART_STARTLINE", "UNDEFINED"} \subseteq Sources
  BY DEF TypeOK, CppTypeOK, Relaxed, IStates, Sources

\* An answer that fires an event without a meaning for the marks.
LEMMA FireAnswer ==
    ASSUME IInv, NEW t, t \notin {"markack", "nousersl"}, Fire(t), KeepMarks,
           NEW i \in IStates, NEW src \in Sources, Answered(i, src),
           UNCHANGED <<lineVars, dialog, ocpnVars, envVars>>,
           {dataRequestOn', userDropsMarks', suggestedOldMarks',
            jsCallBackAsHeartBeat'} \subseteq BOOLEAN,
           userDropsMarks' = userDropsMarks
    PROVE  IInv'
  <1>1. /\ fsm' \in States /\ flag' \in Requests \cup {NoRequest}
        /\ QuestionKept' /\ FlagInv'
    BY FireKeeps DEF IInv, TypeOK, JSTypeOK
  <1>2. /\ CppTypeOK' /\ requestServed' \in Requests \cup {wxEmptyString}
        /\ request' = wxEmptyString
    BY TickTypes DEF IInv
  <1>3. MarksInv'
    BY FireMarks DEF IInv, KeepMarks
  <1>4. RequestInv'
    BY <1>2 DEF RequestInv, wxEmptyString
  <1>5. TypeOK'
    BY <1>1, <1>2 DEF IInv, TypeOK, JSTypeOK, KeepMarks, lineVars, ocpnVars,
       envVars
  <1>6. QED
    BY <1>1, <1>3, <1>4, <1>5 DEF IInv

\* An answer about marks.
LEMMA MarkAnswer ==
    ASSUME IInv, NEW t, Fire(t), NEW i \in IStates, NEW src \in Sources,
           Answered(i, src), UNCHANGED <<wrnmsg, dialog, envVars>>,
           MarksInv', portmark' \in BOOLEAN, stbdmark' \in BOOLEAN,
           {portWp', stbdWp', startLineAsRoute', oldPort', oldStbd'}
             \subseteq BOOLEAN,
           {dataRequestOn', userDropsMarks', suggestedOldMarks',
            jsCallBackAsHeartBeat'} \subseteq BOOLEAN
    PROVE  IInv'
  <1>1. /\ fsm' \in States /\ flag' \in Requests \cup {NoRequest}
        /\ QuestionKept' /\ FlagInv'
    BY FireKeeps DEF IInv, TypeOK, JSTypeOK
  <1>2. /\ CppTypeOK' /\ requestServed' \in Requests \cup {wxEmptyString}
        /\ request' = wxEmptyString
    BY TickTypes DEF IInv
  <1>3. RequestInv'
    BY <1>2 DEF RequestInv, wxEmptyString
  <1>4. TypeOK'
    BY <1>1, <1>2 DEF IInv, TypeOK, JSTypeOK, envVars
  <1>5. QED
    BY <1>1, <1>3, <1>4 DEF IInv

\* The tick of the instrument that answers the page keeps the invariant.
LEMMA ServePageIInv == ASSUME IInv, ServePage PROVE IInv'
  <1> USE DEF flagVars
  <1>1. CASE PollEnds
    <2>1. /\ CppTypeOK' /\ requestServed' \in Requests \cup {wxEmptyString}
          /\ request' = wxEmptyString
      BY <1>1, TickTypes DEF IInv, PollEnds
    <2>2. UNCHANGED <<jsVars, lineVars, flagVars, dialog, ocpnVars, envVars>>
      BY <1>1 DEF PollEnds
    <2>3. RequestInv'
      BY <2>1 DEF RequestInv, wxEmptyString
    <2>4. QED
      BY <2>1, <2>2, <2>3 DEF IInv, TypeOK, JSTypeOK, QuestionKept, FlagInv,
         MarksInv, jsVars, lineVars, ocpnVars, envVars
  <1>2. CASE AnswerGetid
    BY <1>2, FireAnswer, AnswerTypes DEF AnswerGetid, IInv, TypeOK
  <1>3. CASE AnswerGetdisf
    <2>1. PICK feet \in BOOLEAN : Fire(IF feet THEN "getfeet" ELSE "nogetfeet")
      BY <1>3 DEF AnswerGetdisf
    <2>2. \E t \in {"getfeet", "nogetfeet"} : Fire(t)
      BY <2>1
    <2>3. QED
      BY <1>3, <2>2, FireAnswer, AnswerTypes DEF AnswerGetdisf, IInv, TypeOK
  <1>4. CASE AnswerGetrdy
    <2>1. \E t \in {"chkrdy", "nochkrdy"} : Fire(t)
      BY <1>4 DEF AnswerGetrdy
    <2>2. QED
      BY <1>4, <2>1, FireAnswer, AnswerTypes DEF AnswerGetrdy, IInv, TypeOK
  <1>5. CASE AnswerGetusrsl
    <2>1. (stbdWp /\ portWp) \in BOOLEAN
      BY DEF IInv, TypeOK
    <2>2. FireUserLine(stbdWp /\ portWp) /\ userDropsMarks' = userDropsMarks
      BY <1>5 DEF AnswerGetusrsl
    <2>3. MarksInv' /\ portmark' \in BOOLEAN /\ stbdmark' \in BOOLEAN
      BY <2>1, <2>2, UserLineMarks DEF IInv, TypeOK
    <2>4. \E t \in {"usersl", "nousersl"} : Fire(t)
      BY <2>2 DEF FireUserLine
    <2>5. QED
      BY <1>5, <2>2, <2>3, <2>4, MarkAnswer, AnswerTypes
      DEF AnswerGetusrsl, FireUserLine, lineVars, ocpnVars, IInv, TypeOK
  <1>6. CASE AnswerDropstbd \/ AnswerDropport
    <2>1. /\ FireMarkAck(dataValid) /\ dataValid \in BOOLEAN
          /\ userDropsMarks' = (userDropsMarks \/ dataValid)
          /\ Answered(Relaxed, source)
          /\ UNCHANGED <<startLineAsRoute, dataRequestOn, suggestedOldMarks,
                         jsCallBackAsHeartBeat, dialog, envVars>>
      BY <1>6 DEF AnswerDropstbd, AnswerDropport, IInv, TypeOK
    <2>2. MarksInv' /\ portmark' \in BOOLEAN /\ stbdmark' \in BOOLEAN
      BY <2>1, AckMarks DEF IInv, TypeOK
    <2>3. Fire("markack") /\ UNCHANGED wrnmsg
      BY <2>1 DEF FireMarkAck
    <2>4. {portWp', stbdWp', startLineAsRoute', oldPort', oldStbd'}
            \subseteq BOOLEAN
      BY <1>6 DEF AnswerDropstbd, AnswerDropport, IInv, TypeOK
    <2>5. {dataRequestOn', userDropsMarks', suggestedOldMarks',
           jsCallBackAsHeartBeat'} \subseteq BOOLEAN
      BY <2>1 DEF IInv, TypeOK
    <2>6. QED
      BY <2>1, <2>2, <2>3, <2>4, <2>5, MarkAnswer, AnswerTypes DEF IInv
  <1>7. CASE AnswerGetsldata
    BY <1>7, FireAnswer, AnswerTypes DEF AnswerGetsldata, IInv, TypeOK
  <1>8. CASE AnswerStopsldata
    <2>1. fsm \in {"waiting", "isready", "halt"}
      BY <1>8 DEF AnswerStopsldata, IInv, RequestInv
    <2>2. /\ Fire("sldstopack") /\ KeepMarks
          /\ Answered("NO_REQUEST", "UNDEFINED")
          /\ UNCHANGED <<lineVars, dialog, ocpnVars, envVars>>
      BY <1>8 DEF AnswerStopsldata
    <2>3. fsm' = fsm
      <3>1. CASE Can("sldstopack")
        <4>1. <<"sldstopack", fsm, fsm'>> \in Transitions
          BY <2>2, <3>1, FiredEdge
        <4>2. QED
          BY <4>1, EdgeFacts
      <3>2. CASE ~Can("sldstopack")
        BY <2>2, <3>2 DEF Fire
      <3>3. QED
        BY <3>1, <3>2
    <2>4. MarksInv'
      BY <2>1, <2>3 DEF MarksInv
    <2>5. {dataRequestOn', userDropsMarks', suggestedOldMarks',
           jsCallBackAsHeartBeat'} \subseteq BOOLEAN
      BY <1>8 DEF AnswerStopsldata
    <2>6. QED
      BY <2>2, <2>4, <2>5, MarkAnswer, AnswerTypes
      DEF IInv, TypeOK, JSTypeOK, KeepMarks, lineVars, ocpnVars
  <1>9. QED
    BY <1>1, <1>2, <1>3, <1>4, <1>5, <1>6, <1>7, <1>8 DEF ServePage

-----------------------------------------------------------------------------
(* The other actions.                                                      *)

\* The plug-in reads what the page asks for.
LEMMA PollPageIInv == ASSUME IInv, PollPage PROVE IInv'
  <1>1. /\ request' = flag /\ inTick' = TRUE
        /\ UNCHANGED <<handshake, requestServed, istate, source, closing>>
        /\ UNCHANGED <<jsVars, lineVars, flagVars, dialog, ocpnVars, envVars>>
    BY DEF PollPage, ReadPage
  <1>2. request' \in Requests \cup {wxEmptyString}
    BY <1>1 DEF IInv, TypeOK, JSTypeOK, NoRequest, wxEmptyString
  <1>3. QED
    BY <1>1, <1>2 DEF IInv, TypeOK, JSTypeOK, CppTypeOK, QuestionKept, FlagInv,
       RequestInv, MarksInv, jsVars, lineVars, flagVars, ocpnVars, envVars

\* Events of the page itself: a click, a timer, the end of the window.
LEMMA PageEvent ==
    ASSUME IInv, NEW t, t \notin {"markack", "nousersl", "chkrdy"}, Fire(t),
           KeepMarks, request' = request, CppTypeOK',
           UNCHANGED <<requestServed, lineVars, flagVars, dialog, ocpnVars,
                       envVars>>
    PROVE  IInv'
  <1>1. /\ fsm' \in States /\ flag' \in Requests \cup {NoRequest}
        /\ QuestionKept' /\ FlagInv'
    BY FireKeeps DEF IInv, TypeOK, JSTypeOK
  <1>2. RequestInv'
    BY FireRequest DEF IInv
  <1>3. MarksInv'
    BY FireMarks DEF IInv, KeepMarks, flagVars
  <1>4. QED
    BY <1>1, <1>2, <1>3 DEF IInv, TypeOK, JSTypeOK, KeepMarks, lineVars,
       flagVars, ocpnVars, envVars

\* The user, the timers of the page and its end keep the invariant.
LEMMA PageIInv == ASSUME IInv, Click \/ PageTimer \/ Close PROVE IInv'
  <1>1. CASE Click \/ PageTimer
    <2>1. /\ UNCHANGED <<cppVars, lineVars, flagVars, dialog, ocpnVars, envVars>>
      BY <1>1 DEF Click, PageTimer
    <2>2. CppTypeOK' /\ request' = request /\ requestServed' = requestServed
      BY <2>1 DEF cppVars, IInv, TypeOK, CppTypeOK
    <2>3. \/ /\ KeepMarks
             /\ \E t \in {"loaded", "initok", "btnfaded", "btnarmc", "btnarmw",
                          "btnportd1", "btnportd2", "btnstbdd1", "btnstbdd2",
                          "btnarma"} : Fire(t)
          \/ wrnmsg' = TRUE /\ UNCHANGED <<fsm, flag, portmark, stbdmark>>
      BY <1>1 DEF Click, PageTimer, ClickArm, ClickDropPort,
         ClickDropStarboard, ClickArmedQuit, Loaded, InitOk, Faded
    <2>4. CASE /\ KeepMarks
               /\ \E t \in {"loaded", "initok", "btnfaded", "btnarmc",
                            "btnarmw", "btnportd1", "btnportd2", "btnstbdd1",
                            "btnstbdd2", "btnarma"} : Fire(t)
      BY <2>1, <2>2, <2>4, PageEvent
    <2>5. CASE wrnmsg' = TRUE /\ UNCHANGED <<fsm, flag, portmark, stbdmark>>
      BY <2>1, <2>2, <2>5 DEF IInv, TypeOK, JSTypeOK, QuestionKept, FlagInv,
         RequestInv, MarksInv, lineVars, flagVars, ocpnVars, envVars
    <2>6. QED
      BY <2>3, <2>4, <2>5
  <1>2. CASE Close
    <2>1. /\ CloseInstruJS /\ KeepMarks
          /\ UNCHANGED <<lineVars, flagVars, dialog, ocpnVars, envVars>>
          /\ Fire("closing") \/ UNCHANGED <<fsm, flag>>
      BY <1>2 DEF Close
    <2>2. CppTypeOK' /\ request' = request /\ requestServed' = requestServed
      BY <2>1 DEF CloseInstruJS, IInv, TypeOK, CppTypeOK
    <2>3. CASE Fire("closing")
      BY <2>1, <2>2, <2>3, PageEvent
    <2>4. CASE UNCHANGED <<fsm, flag>>
      BY <2>1, <2>2, <2>4 DEF KeepMarks, IInv, TypeOK, JSTypeOK, QuestionKept,
         FlagInv, RequestInv, MarksInv, lineVars, flagVars, ocpnVars, envVars
    <2>5. QED
      BY <2>1, <2>3, <2>4
  <1>3. QED
    BY <1>1, <1>2

\* The tick of the race start, the dialog, the data, the route manager.
LEMMA LineIInv ==
    ASSUME IInv,
           \/ RaceStartTick
           \/ \E keep \in BOOLEAN : AnswerDialog(keep)
           \/ DataChanges \/ RouteManager
           \/ UNCHANGED vars
    PROVE  IInv'
  <1>1. /\ UNCHANGED <<jsVars, cppVars>>
        /\ userDropsMarks' = userDropsMarks
        /\ dataRequestOn' = dataRequestOn
        /\ jsCallBackAsHeartBeat' = jsCallBackAsHeartBeat
    BY DEF RaceStartTick, AnswerDialog, DataChanges, RouteManager, vars,
       flagVars
  <1>2. /\ QuestionKept' /\ FlagInv' /\ RequestInv' /\ MarksInv'
        /\ JSTypeOK' /\ CppTypeOK'
        /\ requestServed' = requestServed /\ request' = request
    BY <1>1 DEF IInv, TypeOK, QuestionKept, FlagInv, RequestInv, MarksInv,
       JSTypeOK, CppTypeOK, jsVars, cppVars
  <1>3. /\ {portWp', stbdWp', startLineAsRoute', dialog', dataValid',
            oldPort', oldStbd', suggestedOldMarks'} \subseteq BOOLEAN
        /\ userRoute' \in UserRoutes
    <2> USE DEF IInv, TypeOK, lineVars, flagVars, ocpnVars, envVars
    <2>1. CASE RaceStartTick
      BY <2>1 DEF RaceStartTick, AdoptRoute, AskOldMarks, LeaveMarks, CheckRoute
    <2>2. CASE \E keep \in BOOLEAN : AnswerDialog(keep)
      BY <2>2 DEF AnswerDialog
    <2>3. CASE DataChanges \/ RouteManager \/ UNCHANGED vars
      BY <2>3 DEF DataChanges, RouteManager, vars
    <2>4. QED
      BY <2>1, <2>2, <2>3
  <1>4. QED
    BY <1>1, <1>2, <1>3 DEF IInv, TypeOK

\* The invariant holds at the start.
LEMMA InitIInv == Init => IInv
  <1> SUFFICES ASSUME Init PROVE IInv
    OBVIOUS
  <1>1. JSTypeOK
    BY StateNames DEF Init, JSInit, JSTypeOK
  <1>2. CppTypeOK
    BY DEF Init, CppInit, CppTypeOK, HandShakes, IStates, Sources
  <1>3. TypeOK
    BY <1>1, <1>2, UserRoutesAssumption DEF Init, CppInit, TypeOK
  <1>4. QuestionKept
    BY Asking DEF Init, JSInit, QuestionKept
  <1>5. FlagInv /\ RequestInv /\ MarksInv
    BY DEF Init, JSInit, CppInit, FlagInv, RequestInv, MarksInv, NoRequest,
       wxEmptyString
  <1>6. QED
    BY <1>3, <1>4, <1>5 DEF IInv

\* Every step keeps the invariant.
LEMMA StepIInv == IInv /\ [Next]_vars => IInv'
  BY ServePageIInv, PollPageIInv, PageIInv, LineIInv DEF Next

\* The inductive invariant holds in every reachable state.
THEOREM Invariance == Spec => []IInv
  <1>1. Init => IInv
    BY InitIInv
  <1>2. IInv /\ [Next]_vars => IInv'
    BY StepIInv
  <1>3. QED
    BY <1>1, <1>2, PTL DEF Spec

\* Every variable of page and plug-in keeps its type; in particular the page
\* never asks for anything that is not among its requests.
THEOREM TypeCorrect == Spec => []TypeOK
  <1>1. IInv => TypeOK
    BY DEF IInv
  <1>2. QED
    BY <1>1, Invariance, PTL

\* A page that waits for an answer goes on showing its question.
THEOREM QuestionStays == Spec => []QuestionKept
  <1>1. IInv => QuestionKept
    BY DEF IInv
  <1>2. QED
    BY <1>1, Invariance, PTL

-----------------------------------------------------------------------------
(* The marks.                                                              *)

\* Only the answers about marks and lines change what the page believes.
LEMMA MarksChange ==
    ASSUME [Next]_vars
    PROVE  \/ AnswerGetusrsl
           \/ AnswerDropstbd
           \/ AnswerDropport
           \/ UNCHANGED <<portmark, stbdmark>>
  <1>1. CASE ServePage
    BY <1>1 DEF ServePage, PollEnds, AnswerGetid, AnswerGetdisf, AnswerGetrdy,
       AnswerGetsldata, AnswerStopsldata, KeepMarks, jsVars
  <1>2. CASE Click \/ PageTimer \/ Close
    BY <1>2 DEF Click, PageTimer, Close, ClickArm, ClickDropPort,
       ClickDropStarboard, ClickArmedQuit, Loaded, InitOk, Faded, KeepMarks
  <1>3. CASE \/ PollPage \/ RaceStartTick
             \/ \E keep \in BOOLEAN : AnswerDialog(keep)
             \/ DataChanges \/ RouteManager \/ UNCHANGED vars
    BY <1>3 DEF PollPage, RaceStartTick, AnswerDialog, DataChanges,
       RouteManager, vars, jsVars
  <1>4. QED
    BY <1>1, <1>2, <1>3 DEF Next

\* A mark the page takes for dropped is a mark the plug-in holds.
LEMMA AckStep ==
    IInv /\ [Next]_vars => /\ (portmark' /\ ~portmark) => portWp'
                           /\ (stbdmark' /\ ~stbdmark) => stbdWp'
  <1> SUFFICES ASSUME IInv, [Next]_vars
               PROVE  /\ (portmark' /\ ~portmark) => portWp'
                      /\ (stbdmark' /\ ~stbdmark) => stbdWp'
    OBVIOUS
  <1>1. CASE AnswerGetusrsl
    BY <1>1 DEF AnswerGetusrsl, FireUserLine, lineVars
  <1>2. CASE AnswerDropstbd
    <2>1. fsm \in {"onestbd", "twostbd", "halt"}
      BY <1>2 DEF AnswerDropstbd, IInv, RequestInv
    <2>2. QED
      BY <1>2, <2>1 DEF AnswerDropstbd, FireMarkAck
  <1>3. CASE AnswerDropport
    <2>1. fsm \in {"oneport", "twoport", "halt"}
      BY <1>3 DEF AnswerDropport, IInv, RequestInv
    <2>2. QED
      BY <1>3, <2>1 DEF AnswerDropport, FireMarkAck
  <1>4. QED
    BY <1>1, <1>2, <1>3, MarksChange

\* The question about old marks meets no mark of this race.
LEMMA AskStep ==
    IInv /\ [Next]_vars =>
        (~dialog /\ dialog' => ~(/\ fsm \in {"onemark", "twoport", "twostbd"}
                                 /\ portmark \/ stbdmark))
  <1> SUFFICES ASSUME IInv, [Next]_vars, ~dialog, dialog'
               PROVE  ~(/\ fsm \in {"onemark", "twoport", "twostbd"}
                        /\ portmark \/ stbdmark)
    OBVIOUS
  <1>1. ~userDropsMarks
    <2>1. CASE RaceStartTick
      BY <2>1 DEF RaceStartTick, AdoptRoute, AskOldMarks, LeaveMarks,
         CheckRoute, MayAskOldMarks
    <2>2. ~ServePage
      BY DEF ServePage, PollEnds, AnswerGetid, AnswerGetdisf, AnswerGetrdy,
         AnswerGetusrsl, AnswerDropstbd, AnswerDropport, AnswerGetsldata,
         AnswerStopsldata
    <2>3. ~(Click \/ PageTimer \/ Close \/ PollPage)
      BY DEF Click, PageTimer, Close, PollPage
    <2>4. ~(\/ \E keep \in BOOLEAN : AnswerDialog(keep)
            \/ DataChanges \/ RouteManager \/ UNCHANGED vars)
      BY DEF AnswerDialog, DataChanges, RouteManager, vars
    <2>5. QED
      BY <2>1, <2>2, <2>3, <2>4 DEF Next
  <1>2. QED
    BY <1>1 DEF IInv, MarksInv

\* The page concludes from its own state which mark an answer is about, and
\* is right: the answer to an older request never meets a newer button.
THEOREM AckIsForTheMark == Spec => AckNamesTheMark
  <1>1. IInv /\ [Next]_vars => [/\ (portmark' /\ ~portmark) => portWp'
                                /\ (stbdmark' /\ ~stbdmark) => stbdWp']_vars
    BY AckStep
  <1>2. QED
    BY <1>1, Invariance, PTL DEF Spec, AckNamesTheMark

\* Whatever requests to stop were replaced before the plug-in read them, it
\* does not ask for the marks of an earlier race once one of this is dropped.
THEOREM AsksNotWhileDropping == Spec => AsksBeforeDropping
  <1>1. IInv /\ [Next]_vars =>
          [~dialog /\ dialog' => ~(fsm \in {"onemark", "twoport", "twostbd"}
                                   /\ (portmark \/ stbdmark))]_vars
    BY AskStep
  <1>2. QED
    BY <1>1, Invariance, PTL DEF Spec, AsksBeforeDropping

-----------------------------------------------------------------------------
(* The panels of the page.                                                 *)

\* A fade before the armed page is the last one for as long as the page waits
\* for it, and none is on its way once the page is armed.
FadesInv ==
    /\ fades \in Seq({"cancel", "armed", "quit"})
    /\ fsm = "btnfade" => fades # <<>> /\ Last(fades) = "armed"
    /\ fsm = "armed" => fades = <<>>
    /\ fades # <<>> /\ fsm \notin {"btnfade", "halt"} => Last(fades) # "armed"

\* The line's data outlive the armed page only as long as Quit fades.
LinesInv ==
    lines = "data" /\ fsm \notin {"armed", "halt"} => Contains(fades, "quit")

\* Something is in the middle of the page from the first answer on.
CenterInv ==
    /\ center \in {"empty", "arm", "armed"}
    /\ center = "empty" => fsm \in {"loading", "initga", "getid", "halt"}

\* Where a page may be whose license has not been accepted; nothing fades there.
EarlyStates == {"loading", "initga", "getid", "getdisf", "waiting"}

LicenseInv ==
    ~wrnmsg /\ fsm # "halt" => fsm \in EarlyStates /\ fades = <<>>

\* The inductive invariant of the page.
PanelInv ==
    /\ JSTypeOK /\ asked \in Requests \cup {NoRequest}
    /\ FadesInv /\ LinesInv /\ CenterInv /\ LicenseInv
    /\ ButtonsMatchState

\* Where the edges lead to and from the states the panels tell apart.
LEMMA PanelEdges ==
    ASSUME NEW t, NEW s, NEW r, <<t, s, r>> \in Transitions
    PROVE  /\ r = "armed" /\ s # "armed" => t = "btnfaded"
           /\ s = "armed" /\ r # "armed" => t \in {"btnarma", "closing"}
           /\ s = "btnfade" => t \in {"btnfaded", "btnarma", "closing"}
           /\ r = "btnfade" => t \in {"usersl", "markack"} /\ s \notin EarlyStates
           /\ s \in EarlyStates /\ t # "btnarmw" => r \in EarlyStates \cup {"halt"}
           /\ s \in {"loading", "initga", "getid"} /\ t # "setid" =>
                r \in {"loading", "initga", "getid"}
           /\ s \in MarkingStates =>
                r \in MarkingStates \cup {"btnfade", "halt"} \/ t = "btnarmc"
           /\ s # "halt"
           /\ t = "closing" => r = "halt"
           /\ t = "btnfaded" => r = "armed"
           /\ t \in {"btnarma", "btnarmc"} => r = "waiting"
           /\ t = "btnarmw" => s = "waiting" /\ r = "isready"
           /\ t \in {"setid", "getfeet"} =>
                s \in {"getid", "getdisf"} /\ r \in {"getdisf", "waiting"}
           /\ t = "nousersl" => s = "getusrs" /\ r = "marking"
  BY Edges DEF Closable, MarkingStates, EarlyStates

\* Whatever event fires, state and message element keep their types.
LEMMA FireTypes ==
    ASSUME NEW t, Fire(t), JSTypeOK
    PROVE  fsm' \in States /\ flag' \in Requests \cup {NoRequest}
  <1>1. CASE ~Can(t)
    BY <1>1 DEF Fire, JSTypeOK
  <1>2. CASE Can(t)
    BY <1>2, FiredEdge, FlagLeft, EdgeStates DEF JSTypeOK
  <1>3. QED
    BY <1>1, <1>2

\* One more fade at the end of the queue.
LEMMA OneMoreFade ==
    ASSUME NEW S, NEW s \in Seq(S), NEW e \in S
    PROVE  /\ Append(s, e) \in Seq(S)
           /\ Append(s, e) # <<>>
           /\ Last(Append(s, e)) = e
           /\ Contains(Append(s, e), e)
           /\ \A x : Contains(s, x) => Contains(Append(s, e), x)
  <1>1. /\ Append(s, e) \in Seq(S)
        /\ Len(Append(s, e)) = Len(s) + 1
        /\ Append(s, e)[Len(s) + 1] = e
        /\ \A i \in 1 .. Len(s) : Append(s, e)[i] = s[i]
        /\ Len(s) \in Nat
    OBVIOUS
  <1>2. Append(s, e) # <<>>
    BY <1>1
  <1>3. QED
    BY <1>1, <1>2 DEF Last, Contains

\* A fade is one of those before the last one, or the last one.
LEMMA FrontAndLast ==
    ASSUME NEW S, NEW s \in Seq(S), s # <<>>
    PROVE  /\ Last(s) \in S
           /\ \A x : Contains(s, x) <=> Contains(Front(s), x) \/ Last(s) = x
  <1>1. Len(s) \in Nat \ {0}
    OBVIOUS
  <1>2. /\ Len(Front(s)) = Len(s) - 1
        /\ \A i \in 1 .. Len(s) - 1 : Front(s)[i] = s[i]
    <2> DEFINE n == Len(s) - 1
               f == SubSeq(s, 1, n)
    <2>1. /\ n \in Nat /\ \A i \in 1 .. n : s[i] \in S
          /\ Front(s) = f
      BY <1>1 DEF Front
    <2> HIDE DEF n
    <2>2. /\ Len(f) = IF 1 <= n THEN n - 1 + 1 ELSE 0
          /\ \A i \in 1 .. n - 1 + 1 : f[i] = s[1 + i - 1]
      <3>1. 1 \in Int /\ n \in Int
        BY <2>1
      <3>2. QED
        BY <2>1, <3>1, SubSeqProperties
    <2> HIDE DEF f
    <2>3. Len(f) = n
      BY <2>1, <2>2
    <2>4. ASSUME NEW i \in 1 .. n PROVE f[i] = s[i]
      <3>1. i \in 1 .. n - 1 + 1 /\ 1 + i - 1 = i
        BY <2>1
      <3>2. QED
        BY <2>2, <3>1
    <2>5. QED
      BY <2>1, <2>3, <2>4 DEF n
  <1>3. QED
    BY <1>1, <1>2 DEF Last, Contains

\* What is on the page after all fades but the one before the armed page.
LEMMA PanelAfterFades ==
    ASSUME FadesInv, fades # <<>>, NEW p, p = AllFaded(Panel)
    PROVE  /\ Last(fades) = "armed" => p.center = "armed"
           /\ Last(fades) # "armed" =>
                /\ p.center = "arm"
                /\ p.label = IF wrnmsg THEN "start" ELSE "accept"
           /\ p.sides = "empty"
           /\ p.lines = IF Contains(fades, "quit") THEN "empty" ELSE lines
           /\ p = [center |-> p.center, label |-> p.label, sides |-> p.sides,
                   lines |-> p.lines, message |-> p.message]
  <1> DEFINE before == Front(fades)
             q == IF Contains(before, "quit") THEN QuitFaded(Panel)
                  ELSE IF Contains(before, "cancel") THEN CancelFaded(Panel)
                  ELSE Panel
  <1>1. p = AfterFade(q, Last(fades))
    BY DEF AllFaded
  <1>2. Last(fades) \in {"cancel", "armed", "quit"}
    BY FrontAndLast DEF FadesInv
  <1>3. Contains(fades, "quit") <=>
          Contains(before, "quit") \/ Last(fades) = "quit"
    BY FrontAndLast DEF FadesInv
  <1>4. /\ q = [center |-> q.center, label |-> q.label, sides |-> q.sides,
                lines |-> q.lines, message |-> q.message]
        /\ q.lines = IF Contains(before, "quit") THEN "empty" ELSE lines
    <2>1. CASE Contains(before, "quit")
      BY <2>1 DEF QuitFaded, InitButtons, Panel
    <2>2. CASE ~Contains(before, "quit") /\ Contains(before, "cancel")
      BY <2>2 DEF CancelFaded, InitButtons, Panel
    <2>3. CASE ~Contains(before, "quit") /\ ~Contains(before, "cancel")
      BY <2>3 DEF Panel
    <2>4. QED
      BY <2>1, <2>2, <2>3
  <1> HIDE DEF q
  <1>5. CASE Last(fades) = "armed"
    BY <1>1, <1>3, <1>4, <1>5 DEF AfterFade, ArmedFaded
  <1>6. CASE Last(fades) = "cancel"
    BY <1>1, <1>3, <1>4, <1>6 DEF AfterFade, CancelFaded, InitButtons
  <1>7. CASE Last(fades) = "quit"
    BY <1>1, <1>3, <1>4, <1>7 DEF AfterFade, QuitFaded, InitButtons
  <1>8. QED
    BY <1>2, <1>5, <1>6, <1>7

\* An event that neither fades nor shows anything.
LEMMA PanelsStay ==
    ASSUME PanelInv, NEW t, t \notin {"btnfaded", "btnarma", "btnarmc"},
           t = "setid" => ~Can(t), t = "btnarmw" => wrnmsg,
           Fire(t), fsm' = "btnfade" => fsm' = fsm, JSTypeOK',
           asked' \in Requests \cup {NoRequest},
           UNCHANGED <<wrnmsg, center, label, sides, lines, fades>>
    PROVE  PanelInv'
  <1>1. CASE ~Can(t)
    BY <1>1 DEF Fire, PanelInv, FadesInv, LinesInv, CenterInv, LicenseInv,
       ButtonsMatchState
  <1>2. CASE Can(t)
    <2>1. <<t, fsm, fsm'>> \in Transitions
      BY <1>2, FiredEdge
    <2>2. /\ fsm' = "armed" <=> fsm = "armed" /\ fsm' # "halt"
          /\ fsm = "btnfade" => fsm' = "halt"
          /\ fsm' # "btnfade"
          /\ fsm \in MarkingStates => fsm' \in MarkingStates \cup {"halt"}
          /\ fsm # "halt"
      BY <2>1, PanelEdges DEF MarkingStates
    <2>3. FadesInv' /\ LinesInv' /\ ButtonsMatchState'
      BY <2>2 DEF PanelInv, FadesInv, LinesInv, ButtonsMatchState
    <2>4. CenterInv' /\ LicenseInv'
      <3>1. /\ fsm \in {"loading", "initga", "getid"} =>
                 fsm' \in {"loading", "initga", "getid"}
            /\ ~wrnmsg /\ fsm \in EarlyStates => fsm' \in EarlyStates \cup {"halt"}
        BY <1>2, <2>1, PanelEdges
      <3>2. QED
        BY <2>2, <3>1 DEF PanelInv, CenterInv, LicenseInv
    <2>5. QED
      BY <2>3, <2>4 DEF PanelInv
  <1>3. QED
    BY <1>1, <1>2

\* A transition that starts a fade.
LEMMA FadeStarts ==
    ASSUME PanelInv, NEW kind \in {"cancel", "armed", "quit"},
           fades' = Queued(kind), kind = "armed" <=> fsm' = "btnfade",
           fsm' \notin {"armed", "halt"},
           UNCHANGED <<wrnmsg, center, lines>>,
           fsm = "armed" => kind = "quit", fsm \notin EarlyStates \cup {"halt"},
           JSTypeOK', asked' \in Requests \cup {NoRequest}
    PROVE  PanelInv'
  <1>1. /\ fades' \in Seq({"cancel", "armed", "quit"})
        /\ fades' # <<>> /\ Last(fades') = kind /\ Contains(fades', kind)
        /\ Contains(fades, "quit") => Contains(fades', "quit")
    BY OneMoreFade DEF Queued, PanelInv, FadesInv
  <1>2. FadesInv'
    BY <1>1 DEF FadesInv
  <1>3. LinesInv'
    BY <1>1 DEF PanelInv, LinesInv
  <1>4. CenterInv' /\ LicenseInv'
    BY DEF PanelInv, CenterInv, LicenseInv, EarlyStates
  <1>5. ButtonsMatchState'
    BY <1>1 DEF ButtonsMatchState
  <1>6. QED
    BY <1>2, <1>3, <1>4, <1>5 DEF PanelInv

\* The answers there are to a request the page makes.
LEMMA AnswerNames ==
    ASSUME NEW r \in Requests
    PROVE  AnswersTo[r] \subseteq
             {"setid", "getfeet", "nogetfeet", "chkrdy", "nochkrdy", "usersl",
              "nousersl", "markack", "sldataack", "sldstopack"}
  <1>1. r \in {"getrdy", "getusrsl", "dropport", "dropstbd", "getid",
               "getdisf", "stopsldata", "getsldata"}
    BY DEF Requests, PostedBefore, PostedOnEnter
  <1>2. QED
    BY <1>1 DEF AnswersTo

\* An answer keeps the invariant, whichever state it finds.
LEMMA AnswerPanelInv == ASSUME PanelInv, Answer PROVE PanelInv'
  <1>1. PICK t \in AnswersTo[asked] :
          /\ AnswerShows(t) /\ AnswerFades(t)
          /\ IF t = "markack" THEN \E dropped \in BOOLEAN : FireMarkAck(dropped)
             ELSE IF t \in {"usersl", "nousersl"}
                  THEN FireUserLine(t = "usersl")
             ELSE Fire(t) /\ KeepMarks
    BY DEF Answer
  <1>2. t \in {"setid", "getfeet", "nogetfeet", "chkrdy", "nochkrdy", "usersl",
               "nousersl", "markack", "sldataack", "sldstopack"}
    BY AnswerNames DEF Answer, PanelInv
  <1>3. Fire(t)
    BY <1>1, <1>2 DEF FireMarkAck, FireUserLine
  <1>4. JSTypeOK'
    <2>1. fsm' \in States /\ flag' \in Requests \cup {NoRequest}
      BY <1>3, FireTypes DEF PanelInv
    <2>2. {portmark', stbdmark', wrnmsg'} \subseteq BOOLEAN
      BY <1>1 DEF FireMarkAck, FireUserLine, KeepMarks, PanelInv, JSTypeOK
    <2>3. QED
      BY <2>1, <2>2 DEF JSTypeOK
  <1>5. asked' \in Requests \cup {NoRequest} /\ wrnmsg' = wrnmsg
    BY <1>1 DEF Answer, FireMarkAck, FireUserLine, KeepMarks
  <1>6. CASE ~Can(t)
    BY <1>1, <1>2, <1>3, <1>4, <1>5, <1>6, PanelsStay
    DEF AnswerShows, AnswerFades, Fire
  <1>7. CASE Can(t)
    <2>1. <<t, fsm, fsm'>> \in Transitions /\ fsm' = To(t)
      BY <1>3, <1>7, FiredEdge
    <2>2. CASE fsm' = "btnfade"
      <3>1. /\ t \in {"usersl", "markack"}
            /\ fsm \notin EarlyStates \cup {"armed", "halt"}
        BY <2>1, <2>2, PanelEdges
      <3>2. UNCHANGED <<center, lines>> /\ fades' = Queued("armed")
        BY <1>1, <1>7, <2>1, <2>2, <3>1 DEF AnswerShows, AnswerFades
      <3>3. QED
        BY <1>4, <1>5, <2>2, <3>1, <3>2, FadeStarts
    <2>3. CASE t \in {"setid", "getfeet"}
      <3>1. fsm \in {"getid", "getdisf"} /\ fsm' \in {"getdisf", "waiting"}
        BY <2>1, <2>3, PanelEdges
      <3>2. /\ fades' = fades /\ sides' = sides /\ lines' = lines
            /\ center' = "arm"
            /\ label' = IF wrnmsg THEN "start" ELSE "accept"
        BY <1>1, <1>7, <2>1, <2>3, <3>1
        DEF AnswerShows, AnswerFades, Shows, InitButtons, Panel
      <3>3. FadesInv' /\ LinesInv'
        BY <3>1, <3>2 DEF PanelInv, FadesInv, LinesInv
      <3>4. ButtonsMatchState'
        BY <1>5, <3>1, <3>2 DEF PanelInv, ButtonsMatchState, MarkingStates
      <3>5. CenterInv' /\ LicenseInv'
        BY <1>5, <3>1, <3>2 DEF PanelInv, CenterInv, LicenseInv, EarlyStates
      <3>6. QED
        BY <1>4, <1>5, <3>3, <3>4, <3>5 DEF PanelInv
    <2>4. CASE t = "nousersl"
      <3>1. fsm = "getusrs" /\ fsm' = "marking"
        BY <2>1, <2>4, PanelEdges
      <3>2. /\ fades' = fades /\ center' = center /\ lines' = lines
            /\ sides' = "drop" /\ label' = "cancel"
        BY <1>1, <1>7, <2>1, <2>4, <3>1
        DEF AnswerShows, AnswerFades, Shows, DropButtons, Panel
      <3>3. FadesInv' /\ LinesInv'
        BY <3>1, <3>2 DEF PanelInv, FadesInv, LinesInv
      <3>4. CenterInv' /\ LicenseInv' /\ wrnmsg
        BY <1>5, <3>1, <3>2 DEF PanelInv, CenterInv, LicenseInv, EarlyStates
      <3>5. ButtonsMatchState'
        BY <1>5, <3>1, <3>2, <3>4
        DEF PanelInv, CenterInv, ButtonsMatchState, MarkingStates
      <3>6. QED
        BY <1>4, <1>5, <3>3, <3>4, <3>5 DEF PanelInv
    <2>5. CASE fsm' # "btnfade" /\ t \notin {"setid", "getfeet", "nousersl"}
      <3>1. UNCHANGED <<center, label, sides, lines, fades>>
        BY <1>1, <2>1, <2>5 DEF AnswerShows, AnswerFades
      <3>2. QED
        BY <1>2, <1>3, <1>4, <1>5, <2>5, <3>1, PanelsStay
    <2>6. QED
      BY <2>2, <2>3, <2>4, <2>5
  <1>8. QED
    BY <1>6, <1>7

\* The end of the fades shows what the state asks for.
LEMMA FadeOverPanelInv == ASSUME PanelInv, FadeOver PROVE PanelInv'
  <1> DEFINE p == AllFaded(Panel)
  <1>1. /\ fades # <<>> /\ fades' = <<>> /\ KeepMarks
        /\ asked' \in Requests \cup {NoRequest}
        /\ IF Contains(fades, "armed") /\ fsm = "btnfade"
           THEN Shows(ArmedLineData(p)) /\ Fire("btnfaded")
           ELSE Shows(p) /\ UNCHANGED <<fsm, flag>>
    BY DEF FadeOver, PanelInv
  <1>2. /\ Last(fades) = "armed" => p.center = "armed"
        /\ Last(fades) # "armed" =>
             /\ p.center = "arm"
             /\ p.label = IF wrnmsg THEN "start" ELSE "accept"
        /\ p.sides = "empty"
        /\ p.lines = IF Contains(fades, "quit") THEN "empty" ELSE lines
        /\ p = [center |-> p.center, label |-> p.label, sides |-> p.sides,
                lines |-> p.lines, message |-> p.message]
    BY <1>1, PanelAfterFades DEF PanelInv
  <1>3. Contains(fades, "armed") <=>
          Contains(Front(fades), "armed") \/ Last(fades) = "armed"
    BY <1>1, FrontAndLast DEF PanelInv, FadesInv
  <1> HIDE DEF p
  <1>4. <<>> \in Seq({"cancel", "armed", "quit"})
    OBVIOUS
  <1>5. CASE fsm = "btnfade"
    <2>1. Last(fades) = "armed" /\ Contains(fades, "armed")
      BY <1>3, <1>5 DEF PanelInv, FadesInv
    <2>2. Shows(ArmedLineData(p)) /\ Fire("btnfaded")
      BY <1>1, <1>5, <2>1
    <2>3. center' = "armed" /\ sides' = "data" /\ lines' = "data"
      BY <1>2, <2>1, <2>2 DEF Shows, ArmedLineData
    <2>4. fsm' = "armed"
      <3>1. <<"btnfaded", "btnfade", "armed">> \in Transitions
        BY DEF Transitions
      <3>2. Can("btnfaded")
        BY <1>5, <3>1 DEF Can
      <3>3. <<"btnfaded", fsm, fsm'>> \in Transitions
        BY <2>2, <3>2, FiredEdge
      <3>4. QED
        BY <3>3, PanelEdges
    <2>5. JSTypeOK'
      BY <1>1, <2>2, FireTypes DEF PanelInv, JSTypeOK, KeepMarks
    <2>6. FadesInv' /\ LinesInv' /\ ButtonsMatchState'
      BY <1>1, <1>4, <2>3, <2>4 DEF FadesInv, LinesInv, ButtonsMatchState,
         MarkingStates
    <2>7. CenterInv' /\ LicenseInv'
      BY <1>1, <1>5, <2>3
      DEF PanelInv, CenterInv, LicenseInv, EarlyStates, KeepMarks
    <2>8. QED
      BY <1>1, <2>5, <2>6, <2>7 DEF PanelInv
  <1>6. CASE fsm # "btnfade"
    <2>1. Shows(p) /\ UNCHANGED <<fsm, flag>>
      BY <1>1, <1>6
    <2>2. /\ center' = p.center /\ label' = p.label
          /\ sides' = p.sides /\ lines' = p.lines
      BY <2>1 DEF Shows
    <2>3. JSTypeOK'
      BY <1>1, <2>1 DEF PanelInv, JSTypeOK, KeepMarks
    <2>4. fsm # "armed" /\ (fsm # "halt" => Last(fades) # "armed")
      BY <1>1, <1>6 DEF PanelInv, FadesInv
    <2>5. fsm # "halt" => lines' # "data"
      BY <1>2, <2>2, <2>4 DEF PanelInv, LinesInv
    <2>6. /\ center' \in {"arm", "armed"} /\ wrnmsg' = wrnmsg
          /\ fsm # "halt" => wrnmsg
      BY <1>1, <1>2, <2>2 DEF PanelInv, LicenseInv, KeepMarks
    <2>7. FadesInv' /\ LinesInv' /\ ButtonsMatchState'
      BY <1>1, <1>2, <1>4, <1>6, <2>1, <2>2, <2>4, <2>5, <2>6
      DEF FadesInv, LinesInv, ButtonsMatchState
    <2>8. CenterInv' /\ LicenseInv'
      BY <2>1, <2>6 DEF CenterInv, LicenseInv
    <2>9. QED
      BY <1>1, <2>3, <2>7, <2>8 DEF PanelInv
  <1>7. QED
    BY <1>5, <1>6

\* A click keeps the invariant.
LEMMA ClickPanelInv ==
    ASSUME PanelInv, ClickOnArm \/ ClickOnSide \/ ClickOnQuit \/ ClickOnMinutes
    PROVE  PanelInv'
  <1>1. CASE ClickOnArm
    <2>1. /\ sides' = sides /\ lines' = lines /\ center' = center
          /\ center = "arm"
          /\ asked' \in Requests \cup {NoRequest}
          /\ UNCHANGED <<portmark, stbdmark>> /\ wrnmsg' \in BOOLEAN
      BY <1>1 DEF ClickOnArm, ClickArm, KeepMarks, PanelInv, JSTypeOK
    <2>2. CASE /\ Fire("btnarmc")
               /\ fsm \in {"marking", "onestbd", "oneport", "onemark"}
      <3>1. JSTypeOK'
        BY <2>1, <2>2, FireTypes DEF PanelInv, JSTypeOK
      <3>2. CASE Can("btnarmc")
        <4>1. <<"btnarmc", fsm, fsm'>> \in Transitions
          BY <2>2, <3>2, FiredEdge
        <4>2. fsm' = "waiting"
          BY <4>1, PanelEdges
        <4>3. fades' = Queued("cancel")
          BY <1>1, <2>2, <4>2 DEF ClickOnArm
        <4>4. wrnmsg' = wrnmsg /\ fsm \notin EarlyStates \cup {"halt"}
          BY <1>1, <2>2 DEF ClickOnArm, ClickArm, KeepMarks, EarlyStates
        <4>5. QED
          BY <2>1, <2>2, <3>1, <4>2, <4>3, <4>4, FadeStarts
      <3>3. CASE ~Can("btnarmc")
        <4>1. fsm' = fsm
          BY <2>2, <3>3 DEF Fire
        <4>2. UNCHANGED <<wrnmsg, label, fades>>
          BY <1>1, <2>2, <4>1 DEF ClickOnArm, ClickArm, KeepMarks
        <4>3. QED
          BY <2>1, <3>1, <4>1, <4>2
          DEF PanelInv, FadesInv, LinesInv, CenterInv, LicenseInv,
              ButtonsMatchState
      <3>4. QED
        BY <3>2, <3>3
    <2>3. CASE fsm = "waiting" /\ wrnmsg /\ Fire("btnarmw")
      <3>1. JSTypeOK'
        BY <2>1, <2>3, FireTypes DEF PanelInv, JSTypeOK
      <3>2. fsm' \in {"waiting", "isready"}
        <4>1. CASE Can("btnarmw")
          <5>1. <<"btnarmw", fsm, fsm'>> \in Transitions
            BY <2>3, <4>1, FiredEdge
          <5>2. QED
            BY <5>1, PanelEdges
        <4>2. CASE ~Can("btnarmw")
          BY <2>3, <4>2 DEF Fire
        <4>3. QED
          BY <4>1, <4>2
      <3>3. UNCHANGED <<wrnmsg, label, fades>>
        BY <1>1, <2>3 DEF ClickOnArm, ClickArm, KeepMarks
      <3>4. QED
        BY <2>1, <2>3, <3>1, <3>2, <3>3, PanelsStay
    <2>4. CASE /\ fsm \in {"getdisf", "waiting"} /\ ~wrnmsg
               /\ UNCHANGED <<fsm, flag>>
      <3>1. JSTypeOK'
        BY <2>1, <2>4 DEF PanelInv, JSTypeOK
      <3>2. label' = "start" /\ fades' = fades /\ wrnmsg'
        BY <1>1, <2>4 DEF ClickOnArm, ClickArm
      <3>3. QED
        BY <2>1, <2>4, <3>1, <3>2
        DEF PanelInv, FadesInv, LinesInv, CenterInv, LicenseInv,
            ButtonsMatchState, MarkingStates
    <2>5. QED
      BY <1>1, <2>2, <2>3, <2>4 DEF ClickOnArm, ClickArm
  <1>2. CASE ClickOnSide
    <2>1. PICK t \in {"btnportd1", "btnportd2", "btnstbdd1", "btnstbdd2"} :
            Fire(t)
      BY <1>2 DEF ClickOnSide, ClickDropPort, ClickDropStarboard
    <2>2. /\ KeepMarks /\ UNCHANGED <<center, label, sides, lines, fades>>
          /\ asked' \in Requests \cup {NoRequest}
      BY <1>2 DEF ClickOnSide, ClickDropPort, ClickDropStarboard, KeepPanels,
         panelVars, PanelInv
    <2>3. JSTypeOK'
      BY <2>1, <2>2, FireTypes DEF PanelInv, JSTypeOK, KeepMarks
    <2>4. fsm' = "btnfade" => fsm' = fsm
      <3>1. CASE Can(t)
        BY <2>1, <3>1, FiredEdge, PanelEdges
      <3>2. CASE ~Can(t)
        BY <2>1, <3>2 DEF Fire
      <3>3. QED
        BY <3>1, <3>2
    <2>5. QED
      BY <2>1, <2>2, <2>3, <2>4, PanelsStay DEF KeepMarks
  <1>3. CASE ClickOnQuit
    <2>1. /\ fsm = "armed" /\ Fire("btnarma") /\ KeepMarks
          /\ fades' = Queued("quit") /\ UNCHANGED <<center, lines>>
          /\ asked' \in Requests \cup {NoRequest}
      BY <1>3 DEF ClickOnQuit, ClickArmedQuit, PanelInv
    <2>2. <<"btnarma", "armed", "waiting">> \in Transitions
      BY DEF Transitions
    <2>3. Can("btnarma")
      BY <2>1, <2>2 DEF Can
    <2>4. fsm' = "waiting"
      <3>1. <<"btnarma", fsm, fsm'>> \in Transitions
        BY <2>1, <2>3, FiredEdge
      <3>2. QED
        BY <3>1, PanelEdges
    <2>5. JSTypeOK'
      BY <2>1, FireTypes DEF PanelInv, JSTypeOK, KeepMarks
    <2>6. QED
      BY <2>1, <2>4, <2>5, FadeStarts DEF EarlyStates, KeepMarks
  <1>4. CASE ClickOnMinutes
    BY <1>4 DEF ClickOnMinutes, PanelInv, FadesInv, LinesInv, CenterInv,
       LicenseInv, ButtonsMatchState, jsVars, JSTypeOK
  <1>5. QED
    BY <1>1, <1>2, <1>3, <1>4

\* What the page does on its own, and what leaves its panels alone.
LEMMA OwnPanelInv ==
    ASSUME PanelInv,
           \/ PageStarts \/ Read \/ Newsldata \/ Closing \/ SidesFaded
           \/ MakeTimer \/ UNCHANGED pageVars
    PROVE  PanelInv'
  <1>1. CASE PageStarts \/ Closing
    <2>1. PICK t \in {"loaded", "initok", "closing"} : Fire(t)
      BY <1>1 DEF PageStarts, Closing, Loaded, InitOk
    <2>2. /\ KeepMarks /\ UNCHANGED <<center, label, sides, lines, fades>>
          /\ asked' \in Requests \cup {NoRequest}
      BY <1>1 DEF PageStarts, Closing, Loaded, InitOk, KeepPanels, panelVars,
         PanelInv
    <2>3. JSTypeOK'
      BY <2>1, <2>2, FireTypes DEF PanelInv, JSTypeOK, KeepMarks
    <2>4. fsm' = "btnfade" => fsm' = fsm
      <3>1. CASE Can(t)
        BY <2>1, <3>1, FiredEdge, PanelEdges
      <3>2. CASE ~Can(t)
        BY <2>1, <3>2 DEF Fire
      <3>3. QED
        BY <3>1, <3>2
    <2>5. QED
      BY <2>1, <2>2, <2>3, <2>4, PanelsStay DEF KeepMarks
  <1>2. CASE Read
    BY <1>2 DEF Read, PanelInv, FadesInv, LinesInv, CenterInv, LicenseInv,
       ButtonsMatchState, jsVars, panelVars, JSTypeOK
  <1>3. CASE SidesFaded
    BY <1>3 DEF SidesFaded, PanelInv, FadesInv, LinesInv, CenterInv,
       LicenseInv, ButtonsMatchState, jsVars, JSTypeOK
  <1>4. CASE Newsldata \/ MakeTimer \/ UNCHANGED pageVars
    <2>1. /\ UNCHANGED <<fsm, flag, portmark, stbdmark, wrnmsg>>
          /\ UNCHANGED <<center, label, sides, lines, fades, asked>>
      BY <1>4 DEF Newsldata, MakeTimer, pageVars, panelVars, jsVars
    <2>2. QED
      BY <2>1 DEF PanelInv, FadesInv, LinesInv, CenterInv, LicenseInv,
         ButtonsMatchState, JSTypeOK
  <1>5. QED
    BY <1>1, <1>2, <1>3, <1>4

\* Whatever overlaps with whatever, once the fades of the race start page are
\* over its panels fit the state and each other: Cancel is shown with the
\* buttons to drop a mark and only while marks are dropped, the panels of the
\* armed page with it, the question of the license until it is answered.
THEOREM ButtonsAreOfTheState == PanelSpec => []ButtonsMatchState
  <1>1. PanelInit => PanelInv
    <2> SUFFICES ASSUME PanelInit PROVE PanelInv
      OBVIOUS
    <2>1. JSTypeOK
      BY StateNames DEF PanelInit, JSInit, JSTypeOK
    <2>2. <<>> \in Seq({"cancel", "armed", "quit"})
      OBVIOUS
    <2>3. FadesInv
      BY <2>2 DEF PanelInit, JSInit, FadesInv
    <2>4. LinesInv /\ CenterInv /\ LicenseInv /\ ButtonsMatchState
      BY DEF PanelInit, JSInit, LinesInv, CenterInv, LicenseInv, EarlyStates,
         ButtonsMatchState
    <2>5. QED
      BY <2>1, <2>3, <2>4 DEF PanelInit, PanelInv
  <1>2. PanelInv /\ [PanelNext]_pageVars => PanelInv'
    BY AnswerPanelInv, FadeOverPanelInv, ClickPanelInv, OwnPanelInv
    DEF PanelNext
  <1>3. PanelInv => ButtonsMatchState
    BY DEF PanelInv
  <1>4. QED
    BY <1>1, <1>2, <1>3, PTL DEF PanelSpec
=============================================================================
