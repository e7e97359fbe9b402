--------------------------- MODULE InstruJSPaths ---------------------------
(***************************************************************************)
(* The part of InstruJS.cpp that serves the pages which show one data      *)
(* path: the lists of paths, which are collected for a while before they   *)
(* are answered, the subscription to a path, and the data the tick pushes  *)
(* into the page when their text has changed.                              *)
(* Values are tagged with the path they belong to; the code compares and   *)
(* sends only their text.                                                  *)
(***************************************************************************)
EXTENDS InstruJS, Integers

CONSTANTS
    GetallGrace,     \* JSI_GETALL_GRACETIME
    GetalldbGrace,   \* JSI_GETALLDB_GRACETIME
    SlowPaths,       \* paths of values that change in the last digit
    SlowTicks,       \* the changes of their text until one is sent
    Readings         \* the texts of values that Signal K may deliver

ASSUME GraceAssumption ==
    GetallGrace \in Nat \ {0} /\ GetalldbGrace \in Nat \ {0}
ASSUME SlowAssumption == SlowTicks \in Nat \ {0}

VARIABLES
    graceCount,      \* m_setAllPathGraceCount
    hasSchema,       \* m_hasSchemDataCollected
    subscribedPath,  \* m_subscribedPath
    data,            \* m_data
    lastOut,         \* m_lastdataout
    outCnt,          \* m_dataOutTickCnt
    pushing,         \* the tick has served the request, not yet pushed data
    discovered       \* paths that SkData and the streamers know of

pathVars == <<graceCount, hasSchema, subscribedPath, data, lastOut, outCnt,
              pushing, discovered>>

Texts == Readings \cup {"0.00e+00", "0.0", "9.90e+00"}

\* A text that belongs to a path, or to none.
Value(p, text) == [of |-> p, text |-> text]
NoValue == Value("", "")

PathsInit ==
    /\ CppInit
    /\ graceCount = -1
    /\ hasSchema = FALSE
    /\ subscribedPath = ""
    /\ data = Value("", "0.00e+00")
    /\ lastOut = "9.90e+00"
    /\ outCnt = -1
    /\ pushing = FALSE
    /\ discovered = {}

\* A new instance of the plug-in; what others have found is kept.
PathsRestart ==
    /\ handshake' = "NO_REQUEST" /\ requestServed' = wxEmptyString
    /\ istate' = "NO_REQUEST" /\ source' = "UNDEFINED"
    /\ request' = wxEmptyString /\ inTick' = FALSE /\ closing' = FALSE
    /\ graceCount' = -1 /\ hasSchema' = FALSE
    /\ subscribedPath' = "" /\ data' = Value("", "0.00e+00")
    /\ lastOut' = "9.90e+00" /\ outCnt' = -1
    /\ pushing' = FALSE
    /\ UNCHANGED discovered

-----------------------------------------------------------------------------
(* The service of a request.                                               *)

\* The first request starts the collection and the count, the one at zero is
\* answered; an empty list starts the collection again.
Grace(grace) ==
    IF graceCount = -1 THEN grace - 1 ELSE graceCount - 1

ListReady == graceCount = 0 /\ discovered # {}

\* getall: what the page gets is called by the module that EXTENDS this one.
ServeGetall ==
    /\ request = "getall"
    /\ ListReady
    /\ Answered("GETALL", source)
    /\ graceCount' = Grace(GetallGrace)
    /\ UNCHANGED hasSchema

ServeGetalldb ==
    /\ request = "getalldb"
    /\ ListReady
    /\ Answered("GETDBOUT", source)
    /\ graceCount' = Grace(GetalldbGrace)
    /\ hasSchema' = TRUE

CollectPaths ==
    /\ request \in {"getall", "getalldb"}
    /\ ~ListReady
    /\ Unanswered
    /\ graceCount' = Grace(IF request = "getall" THEN GetallGrace
                                                 ELSE GetalldbGrace)
    /\ UNCHANGED hasSchema

\* Mistake: the value of the old path is still there when the new one is
\* acknowledged.
SubscribeKeepsData(paths) ==
    /\ request \in paths
    /\ Answered("SHOWDATA", "INSTRUJS_DATA_SUBSCRIPTION")
    /\ subscribedPath' = request
    /\ UNCHANGED data

\* A path, for an instrument that subscribes: the old subscription ends
\* before the value is reset, so nothing of the old path comes any more.
Subscribe(paths) ==
    /\ request \in paths
    /\ Answered("SHOWDATA", "INSTRUJS_DATA_SUBSCRIPTION")
    /\ subscribedPath' = request
    /\ data' = Value(request, "0.00e+00")

\* A path, for an instrument that reads the data base itself.  It may be the
\* first thing it asks for: then the schemas have to be collected.
CollectSchemas(paths) ==
    /\ request \in paths
    /\ ~hasSchema /\ ~ListReady
    /\ Unanswered
    /\ graceCount' = Grace(GetalldbGrace)
    /\ UNCHANGED <<hasSchema, subscribedPath>>

GiveSchema(paths) ==
    /\ request \in paths
    /\ hasSchema \/ ListReady
    /\ Answered("SHOWDATA", source)
    /\ graceCount' = IF hasSchema THEN graceCount ELSE Grace(GetalldbGrace)
    /\ hasSchema' = TRUE
    /\ subscribedPath' = request

-----------------------------------------------------------------------------
(* The second half of the tick: data for a page that shows them.           *)

Pushes == istate = "SHOWDATA" /\ source = "INSTRUJS_DATA_SUBSCRIPTION"

\* m_dataOutTickCnt, when it starts or goes on.
WaitTicks == IF outCnt # -1 THEN outCnt
             ELSE IF subscribedPath \in SlowPaths THEN SlowTicks ELSE 1

TextChanged == data.text # lastOut

IsPushed == Pushes /\ TextChanged /\ WaitTicks = 1

PushNothing ==
    /\ pushing /\ ~IsPushed
    /\ pushing' = FALSE
    /\ outCnt' = IF ~Pushes THEN outCnt
                 ELSE IF TextChanged THEN WaitTicks - 1 ELSE WaitTicks
    /\ UNCHANGED <<cppVars, graceCount, hasSchema, subscribedPath, data,
                   lastOut, discovered>>

\* window.iface.newdata(data) is called by the module that EXTENDS this one.
PushNewdata ==
    /\ pushing /\ IsPushed
    /\ pushing' = FALSE
    /\ lastOut' = data.text
    /\ outCnt' = -1
    /\ UNCHANGED <<cppVars, graceCount, hasSchema, subscribedPath, data,
                   discovered>>

\* PushData, from the communication thread at any time, and the watchdog of
\* the instrument (derivedTimeoutEvent).
DataArrives ==
    /\ subscribedPath # "" /\ ~closing
    /\ \E text \in Readings \cup {"0.0"} : data' = Value(subscribedPath, text)
    /\ UNCHANGED <<cppVars, graceCount, hasSchema, subscribedPath, lastOut,
                   outCnt, pushing, discovered>>

\* Another path turns up in a delta message or in a schema.
PathTurnsUp(paths) ==
    /\ \E p \in paths \ discovered : discovered' = discovered \cup {p}
    /\ UNCHANGED <<cppVars, graceCount, hasSchema, subscribedPath, data,
                   lastOut, outCnt, pushing>>

PathsTypeOK(paths) ==
    /\ CppTypeOK
    /\ graceCount \in -1 .. (GetallGrace + GetalldbGrace)
    /\ hasSchema \in BOOLEAN
    /\ subscribedPath \in paths \cup {""}
    /\ data \in [of : paths \cup {""}, text : Texts]
    /\ lastOut \in Texts
    /\ outCnt \in -1 .. SlowTicks
    /\ pushing \in BOOLEAN
    /\ discovered \subseteq paths
=============================================================================
