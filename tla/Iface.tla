-------------------------------- MODULE Iface --------------------------------
(***************************************************************************)
(* What the JavaScript pages share (instrujs/src): the object window.iface *)
(* by which plug-in, menu, keyboard and data base client call a page       *)
(* (iface.js), the events these calls raise and the transition each of     *)
(* them asks of the page's state machine (ifaceops.ts), and the message    *)
(* element by which the page asks the plug-in for something.               *)
(* A page that EXTENDS this module says in Deliver what an event does.     *)
(* Registering is left out: every event is registered while the page       *)
(* loads, before the plug-in calls it the first time.                      *)
(***************************************************************************)

VARIABLES
    fsm,        \* fsm.state
    flag,       \* what element 'bottom' shows between "instrujs:" and "!"
    iface       \* the fields of window.iface which the page reads

NoRequest == ""           \* the message element is empty

\* A call stores its argument in a field and raises an event; some raise one
\* of two events, by a Boolean argument.
Plain(field, event)   == [field |-> field, yes |-> event, no |-> event]
YesNo(field, yes, no) == [field |-> field, yes |-> yes, no |-> no]

\* The identity of the instrument and the path it shows.
PathCalls ==
    [ setid       |-> Plain("uid",          "setid"),
      setall      |-> Plain("allpaths",     "setall"),
      setalldb    |-> Plain("allpathsdb",   "setalldb"),
      setrescan   |-> Plain("none",         "rescan"),
      setselected |-> Plain("selectedpath", "selected"),
      acksubs     |-> Plain("acksubspath",  "acksubs") ]

SchemaCalls == [ ackschema |-> Plain("dbschema", "ackschema") ]

\* The data of a path.
DataCalls ==
    [ setgetnew   |-> Plain("none",        "getnew"),
      newdata     |-> Plain("value",       "newdata"),
      seterrdata  |-> Plain("none",        "errdata"),
      setchgconf  |-> Plain("chgconfpath", "chgconf"),
      setretryget |-> Plain("none",        "retryget") ]

\* The answers to the questions of the race start page.
ReadyCalls ==
    [ setgetfeet |-> YesNo("getfeet", "getfeet", "nogetfeet"),
      setchkrdy  |-> YesNo("chkrdy",  "chkrdy",  "nochkrdy"),
      setusersl  |-> YesNo("usersl",  "usersl",  "nousersl") ]

StartLineCalls ==
    [ setmarkack    |-> Plain("markacknowledged",    "markack"),
      setsldataack  |-> Plain("sldataacknowledged",  "sldataack"),
      newsldata     |-> Plain("sldata",              "newsldata"),
      setsldstopack |-> Plain("sldstopacknowledged", "sldstopack") ]

\* The race mark page, and the button on it for the chart overlay.
RaceMarkCalls ==
    [ setmrkdataack |-> Plain("mrkdataacknowledged", "mrkdataack"),
      newmrkdata    |-> Plain("mrkdata",             "newmrkdata") ]

MuteCalls ==
    [ setmrkmteaack |-> Plain("mrkmteaacknowledged", "mrkmteaack"),
      setmrkumteack |-> Plain("mrkumteacknowledged", "mrkumteack") ]

CommonCalls ==
    [ setluminsty |-> Plain("luminsty",      "luminsty"),
      setswapdisp |-> Plain("swapdirection", "swapdisp"),
      setclosing  |-> Plain("none",          "closing") ]

CallTables == {PathCalls, SchemaCalls, DataCalls, ReadyCalls, StartLineCalls,
               RaceMarkCalls, MuteCalls, CommonCalls}

Calls == [c \in UNION {DOMAIN t : t \in CallTables} |->
            (CHOOSE t \in CallTables : c \in DOMAIN t)[c]]

\* The argument is stored before the event is raised, so that the handlers
\* read it; fields the page never reads are left out of iface.
Stored(c, v) ==
    IF Calls[c].field \in DOMAIN iface
    THEN [iface EXCEPT ![Calls[c].field] = v] ELSE iface

EventOf(c, yes) == IF yes THEN Calls[c].yes ELSE Calls[c].no

-----------------------------------------------------------------------------
(* ifaceops.ts: the transition an event asks for, when the page creates a  *)
(* handler for it.  setid is followed by hascfg or nocfg at once.          *)

\* The name of the transition is the name of the event ...
PathEvents    == {"setid", "setall", "setalldb", "rescan", "selected",
                  "acksubs", "ackschema"}
ReadyEvents   == {"getfeet", "nogetfeet", "chkrdy", "nochkrdy", "usersl",
                  "nousersl"}
LineEvents    == {"markack", "sldataack", "newsldata", "sldstopack"}
MarkEvents    == {"mrkdataack", "newmrkdata", "mrkmteaack", "mrkumteack"}
CommonEvents  == {"luminsty", "swapdisp", "closing"}

\* ... but for the handler of data base errors, a copy of the one of newdata.
DataTransition ==
    [ getnew |-> "getnew", newdata |-> "newdata", errdata |-> "newdata",
      chgconf |-> "chgconf", retryget |-> "retryget" ]

TransitionOf(e) ==
    IF e \in DOMAIN DataTransition THEN DataTransition[e] ELSE e

Events == PathEvents \cup DOMAIN DataTransition \cup ReadyEvents \cup
          LineEvents \cup MarkEvents \cup CommonEvents

\* ifaceopsJS.js: the same handlers for the pages written in JavaScript, a copy
\* of what the compiler makes of ifaceops.ts.
PathEventsJS   == {"setid", "setall", "setalldb", "rescan", "selected",
                   "acksubs", "ackschema"}
DataTransitionJS ==
    [ getnew |-> "getnew", newdata |-> "newdata", errdata |-> "newdata",
      chgconf |-> "chgconf", retryget |-> "retryget" ]
ReadyEventsJS  == {"getfeet", "nogetfeet", "chkrdy", "nochkrdy", "usersl",
                   "nousersl"}
LineEventsJS   == {"markack", "sldataack", "newsldata", "sldstopack"}
MarkEventsJS   == {"mrkdataack", "newmrkdata", "mrkmteaack", "mrkumteack"}
CommonEventsJS == {"luminsty", "swapdisp", "closing"}

TransitionOfJS(e) ==
    IF e \in DOMAIN DataTransitionJS THEN DataTransitionJS[e] ELSE e

EventsJS == PathEventsJS \cup DOMAIN DataTransitionJS \cup ReadyEventsJS \cup
            LineEventsJS \cup MarkEventsJS \cup CommonEventsJS

-----------------------------------------------------------------------------
(* The state machine of a page, as a set of triples (name, from, to).  A   *)
(* transition that the state does not have throws, and every caller        *)
(* catches the exception.                                                  *)

CanIn(T, t)    == \E x \in T : x[1] = t /\ x[2] = fsm
TargetIn(T, t) == (CHOOSE x \in T : x[1] = t /\ x[2] = fsm)[3]
StatesOf(T)    == {x[2] : x \in T} \cup {x[3] : x \in T}
=============================================================================
