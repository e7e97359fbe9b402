------------------------------ MODULE InstruJS ------------------------------
(***************************************************************************)
(* The plug-in side of a JavaScript instrument: InstruJS.cpp once the page *)
(* is loaded.  A timer polls the page for a request and answers it by      *)
(* running a script in the page.  The page text and the script are two     *)
(* calls into the web engine, which lets the page run in between; all      *)
(* other handlers of the plug-in wait for the end of the tick.             *)
(* The answers themselves belong to the instrument that EXTENDS this       *)
(* module, as the virtual functions of the class do.                       *)
(***************************************************************************)

wxEmptyString == ""

VARIABLES
    handshake,       \* m_handshake
    requestServed,   \* m_requestServed
    istate,          \* m_istate, from JSI_NO_REQUEST on
    source,          \* m_dsRequestedInSource
    request,         \* local variable request of the tick
    inTick,          \* between GetPageText and the end of the tick
    closing          \* m_closing

cppVars == <<handshake, requestServed, istate, source, request, inTick, closing>>

HandShakes == {"NO_REQUEST", "REQUEST", "SERVING", "SERVED", "ACKNOWLEDGED"}
IStates    == {"NO_REQUEST", "GETID", "GETALL", "GETDBOUT", "SHOWDATA"}
Sources    == {"UNDEFINED", "RACESTART_STARTLINE", "RACESTART_MARK",
               "INSTRUJS_DATA_SUBSCRIPTION"}

CppInit ==
    /\ handshake = "NO_REQUEST"
    /\ requestServed = wxEmptyString
    /\ istate = "NO_REQUEST"
    /\ source = "UNDEFINED"
    /\ request = wxEmptyString
    /\ inTick = FALSE
    /\ closing = FALSE

\* The first half of the tick: read the message element of the page.
ReadPage(text) ==
    /\ ~closing /\ ~inTick
    /\ inTick' = TRUE
    /\ request' = text
    /\ UNCHANGED <<handshake, requestServed, istate, source, closing>>

\* The cases of the switch fall through to the service of the request unless
\* it is the one served last.  A request that could not be answered yet
\* leaves the hand-shake in SERVING and is tried again.
IsServed ==
    request # wxEmptyString /\ (handshake = "SERVING" \/ request # requestServed)

\* m_istate after passing the cases NO_REQUEST and SERVED.
Relaxed ==
    IF istate # "SHOWDATA" /\ handshake \in {"NO_REQUEST", "SERVED"}
    THEN "NO_REQUEST" ELSE istate

AfterEmpty == [NO_REQUEST |-> "NO_REQUEST", SERVED |-> "ACKNOWLEDGED",
               ACKNOWLEDGED |-> "NO_REQUEST", REQUEST |-> "NO_REQUEST",
               SERVING |-> "ACKNOWLEDGED"]

EndTick == inTick' = FALSE /\ request' = wxEmptyString

\* The rest of a tick that finds no request, or the one it has served.
NothingToServe ==
    /\ inTick /\ ~IsServed
    /\ IF request = wxEmptyString
       THEN /\ requestServed' = wxEmptyString
            /\ handshake' = AfterEmpty[handshake]
            /\ istate' = IF handshake = "ACKNOWLEDGED" /\ istate # "SHOWDATA"
                         THEN "NO_REQUEST" ELSE Relaxed
       ELSE /\ handshake' = IF handshake = "NO_REQUEST" THEN "SERVED"
                                                        ELSE handshake
            /\ UNCHANGED <<requestServed, istate>>
    /\ EndTick
    /\ UNCHANGED <<source, closing>>

\* What the service of a request that gets its answer leaves behind.
Answered(newIstate, newSource) ==
    /\ inTick /\ IsServed
    /\ requestServed' = request
    /\ handshake' = "SERVED"
    /\ istate' = newIstate
    /\ source' = newSource
    /\ EndTick
    /\ UNCHANGED closing

\* Mistake: what could not be answered counts as served.
UnansweredIsServed ==
    /\ inTick /\ IsServed
    /\ requestServed' = request
    /\ handshake' = "SERVED"
    /\ istate' = Relaxed
    /\ EndTick
    /\ UNCHANGED <<source, closing>>

\* A request whose answer is not there yet, or a text that is none: the
\* hand-shake stays in SERVING and the next tick tries again.
Unanswered ==
    /\ inTick /\ IsServed
    /\ requestServed' = request
    /\ handshake' = "SERVING"
    /\ istate' = Relaxed
    /\ EndTick
    /\ UNCHANGED <<source, closing>>

\* OnClose: no tick does anything any more.
CloseInstruJS ==
    /\ ~closing /\ ~inTick
    /\ closing' = TRUE
    /\ UNCHANGED <<handshake, requestServed, istate, source, request, inTick>>

CppTypeOK ==
    /\ handshake \in HandShakes
    /\ istate \in IStates
    /\ source \in Sources
    /\ inTick \in BOOLEAN
    /\ closing \in BOOLEAN
=============================================================================
