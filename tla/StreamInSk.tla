----------------------------- MODULE StreamInSk -----------------------------
(***************************************************************************)
(* The talking instance of the Signal K input streamer                     *)
(* (TacticsInstrument_StreamInSkSingle): how the list of the paths the     *)
(* instruments want reaches the Signal K server.                           *)
(*                                                                         *)
(* The instruments add their paths to SkData, or ask for a window of time  *)
(* in which all paths are subscribed.  The one second timer of the UI      *)
(* thread notices it, rewrites the subscription message and raises a flag. *)
(* The communication thread polls the flags between two delta messages,    *)
(* closes the connection when one is raised, and sends the subscription    *)
(* that the flags ask for after it has connected again.  There is no lock  *)
(* between the two threads.  Delta messages themselves are not modelled.   *)
(***************************************************************************)
EXTENDS Naturals, FiniteSets

CONSTANTS
    Paths,        \* Signal K paths an instrument may subscribe to
    DefaultPaths, \* SkData::pushDefaultSubscriptions()
    OnTheFly,     \* skOnTheFlySubscriptions: the server takes subscriptions
    AllTicks,     \* SSKM_ALLPATHS_COUNT
    MaxFaults     \* bound of the model on the failures of the connection

ASSUME PathsAssumption == DefaultPaths \subseteq Paths
ASSUME TicksAssumption == AllTicks \in Nat \ {0}
ASSUME ServerAssumption == OnTheFly \in BOOLEAN /\ MaxFaults \in Nat

VARIABLES
    subscriptions, \* SkData::m_subscriptionlist
    allPaths,      \* SkData::m_subscribedToAllPaths
    subscribeTo,   \* m_subscribeTo, the paths in the JSON message
    subscribeToJS, \* m_subscribeToJS, the list the message was made from
    toPending,     \* m_subscribeToPending
    allPending,    \* m_subscribeAllPending
    allCount,      \* m_subscribeAllCount
    timer,         \* OnStreamInSkUpdTimer() is "idle" or "rewrites"
    panel,         \* "ready", "closing" (UI in Wait() of the thread), "closed"
    cmdStop,       \* m_cmdThreadStop
    comm,          \* m_stateComm
    pc,            \* where the communication thread is
    sData,         \* the subscription message to be written
    server,        \* what this connection is subscribed to
    faults         \* failures so far

skVars == <<subscriptions, allPaths>>
flagVars == <<subscribeTo, subscribeToJS, toPending, allPending, allCount>>
panelVars == <<timer, panel, cmdStop>>
threadVars == <<comm, pc, sData, server, faults>>
vars == <<skVars, flagVars, panelVars, threadVars>>

\* A subscription message: a list of paths, all paths ("*"), or none at all.
Message == [kind : {"list", "all", "none"}, paths : SUBSET Paths]
List(ps) == [kind |-> "list", paths |-> ps]
All == [kind |-> "all", paths |-> {}]
None == [kind |-> "none", paths |-> {}]

TypeOK ==
    /\ subscriptions \subseteq Paths
    /\ subscribeTo \subseteq Paths
    /\ subscribeToJS \subseteq Paths
    /\ {allPaths, toPending, allPending, cmdStop} \subseteq BOOLEAN
    /\ allCount \in 0..AllTicks
    /\ timer \in {"idle", "rewrites"}
    /\ panel \in {"ready", "closing", "closed"}
    /\ comm \in {"ERROR", "CONNECTING", "WAITING", "READY"}
    /\ pc \in {"loop", "connect", "hello", "choose", "clearTo", "clearAll",
               "write", "wait", "poll", "parse", "ended"}
    /\ sData \in Message
    /\ server \in Message
    /\ faults \in 0..MaxFaults

Init ==
    /\ subscriptions = DefaultPaths
    /\ allPaths = FALSE
    /\ subscribeTo = DefaultPaths
    /\ subscribeToJS = DefaultPaths
    /\ toPending = FALSE
    /\ allPending = FALSE
    /\ allCount = 0
    /\ timer = "idle"
    /\ panel = "ready"
    /\ cmdStop = FALSE
    /\ comm = "CONNECTING"
    /\ pc = "loop"
    /\ sData = None
    /\ server = None
    /\ faults = 0

-----------------------------------------------------------------------------
(* UI thread.                                                              *)

UiFree == panel = "ready" /\ timer = "idle"

\* An instrument subscribes to a path; unsubscribing does not shrink the list.
SubscribeTo(p) ==
    /\ UiFree
    /\ subscriptions' = subscriptions \cup {p}
    /\ UNCHANGED <<allPaths, flagVars, panelVars, threadVars>>

\* A web instrument asks for all the paths there are ("getall").
CollectAllSignalKDeltaPaths ==
    /\ UiFree
    /\ allPaths' = TRUE
    /\ UNCHANGED <<subscriptions, flagVars, panelVars, threadVars>>

\* Mistake: the window is opened again in the tick that ends it.
AllPathsWindowReopens(raised) ==
    \/ /\ ~allPaths
       /\ toPending' = raised
       /\ UNCHANGED <<allPaths, allPending, allCount>>
    \/ /\ allPaths
       /\ allCount' = IF allCount = 0 THEN AllTicks ELSE allCount - 1
       /\ allPending' = (allPending \/ allCount = 0)
       /\ toPending' = (raised \/ allCount' = 0)
       /\ UNCHANGED allPaths

\* The timer's window of a subscription to all paths.  It is opened, counted
\* down, and closed by a subscription to the list; `raised` tells whether
\* the list has to be sent anyway.
AllPathsWindow(raised) ==
    \/ /\ ~allPaths
       /\ toPending' = raised
       /\ UNCHANGED <<allPaths, allPending, allCount>>
    \/ /\ allPaths
       /\ allCount = 0
       /\ allCount' = AllTicks
       /\ allPending' = TRUE
       /\ toPending' = raised
       /\ UNCHANGED allPaths
    \/ /\ allPaths
       /\ allCount > 0
       /\ allCount' = allCount - 1
       /\ allPaths' = (allCount' # 0)
       /\ toPending' = (raised \/ allCount' = 0)
       /\ UNCHANGED allPending

\* A tick that finds the list as it was.
TimerTick ==
    /\ UiFree
    /\ ~cmdStop
    /\ subscriptions = subscribeToJS
    /\ AllPathsWindow(toPending)
    /\ UNCHANGED <<subscriptions, subscribeTo, subscribeToJS, panelVars,
                   threadVars>>

\* A tick that finds new paths rewrites the message in place, path by path:
\* the communication thread may read it half done.
TimerRewrites ==
    /\ UiFree
    /\ ~cmdStop
    /\ subscriptions # subscribeToJS
    /\ timer' = "rewrites"
    /\ subscribeTo' \in SUBSET subscriptions
    /\ UNCHANGED <<skVars, subscribeToJS, toPending, allPending, allCount,
                   panel, cmdStop, threadVars>>

\* Mistake: nobody is told of the new message.
RewrittenSilently ==
    /\ timer = "rewrites"
    /\ timer' = "idle"
    /\ subscribeTo' = subscriptions
    /\ subscribeToJS' = subscriptions
    /\ AllPathsWindow(toPending)
    /\ UNCHANGED <<subscriptions, panel, cmdStop, threadVars>>

TimerRewritten ==
    /\ timer = "rewrites"
    /\ timer' = "idle"
    /\ subscribeTo' = subscriptions
    /\ subscribeToJS' = subscriptions
    /\ AllPathsWindow(TRUE)
    /\ UNCHANGED <<subscriptions, panel, cmdStop, threadVars>>

Timer == TimerTick \/ TimerRewrites \/ TimerRewritten

OnClose ==
    /\ UiFree
    /\ cmdStop' = TRUE
    /\ panel' = "closing"
    /\ UNCHANGED <<skVars, flagVars, timer, threadVars>>

ThreadJoined ==
    /\ panel = "closing"
    /\ pc = "ended"
    /\ panel' = "closed"
    /\ UNCHANGED <<skVars, flagVars, timer, cmdStop, threadVars>>

-----------------------------------------------------------------------------
(* Communication thread, Entry().                                          *)

uiVars == <<skVars, subscribeTo, subscribeToJS, allCount, panelVars>>
flags == <<toPending, allPending>>

\* The connection fails: the state is ERROR, the socket is closed (or is
\* shut down by the next connection) and the outer loop starts again.
Fault ==
    /\ faults < MaxFaults
    /\ faults' = faults + 1
    /\ comm' = "ERROR"
    /\ server' = None
    /\ pc' = "loop"
    /\ UNCHANGED <<uiVars, flags, sData>>

LoopContinues ==
    /\ pc = "loop"
    /\ ~cmdStop
    /\ pc' = "connect"
    /\ UNCHANGED <<uiVars, flags, comm, sData, server, faults>>

\* Mistake: a reconnection goes on reading without a new subscription.
ReconnectResumes ==
    /\ pc = "connect"
    /\ ~cmdStop
    /\ comm' = "WAITING"
    /\ pc' = IF comm = "ERROR" THEN "wait" ELSE "hello"
    /\ UNCHANGED <<uiVars, flags, sData, server, faults>>

ConnectSucceeds ==
    /\ pc = "connect"
    /\ ~cmdStop
    /\ comm' = "WAITING"
    /\ pc' = IF OnTheFly THEN "hello" ELSE "write"
    /\ UNCHANGED <<uiVars, flags, sData, server, faults>>

ConnectFails ==
    /\ pc = "connect"
    /\ ~cmdStop
    /\ Fault

\* The Hello message of the server.
HelloRead ==
    /\ pc = "hello"
    /\ pc' = "choose"
    /\ UNCHANGED <<uiVars, flags, comm, sData, server, faults>>

HelloFails ==
    /\ pc = "hello"
    /\ Fault

\* The flags are read and the message is made; what was asked for first is
\* not remembered, the list goes before all paths.
ChooseSubscription ==
    /\ pc = "choose"
    /\ \/ /\ toPending
          /\ sData' = List(subscribeTo)
          /\ pc' = "clearTo"
       \/ /\ ~toPending /\ allPending
          /\ sData' = All
          /\ pc' = "clearAll"
       \/ /\ ~toPending /\ ~allPending
          /\ sData' = List(subscribeTo)
          /\ pc' = "write"
    /\ UNCHANGED <<uiVars, flags, comm, server, faults>>

\* Mistake: both requests are taken to be served.
ClearToBoth ==
    /\ pc = "clearTo"
    /\ toPending' = FALSE
    /\ allPending' = FALSE
    /\ pc' = "write"
    /\ UNCHANGED <<uiVars, comm, sData, server, faults>>

\* Only then the flag is cleared.
ClearTo ==
    /\ pc = "clearTo"
    /\ toPending' = FALSE
    /\ pc' = "write"
    /\ UNCHANGED <<uiVars, allPending, comm, sData, server, faults>>

ClearAll ==
    /\ pc = "clearAll"
    /\ allPending' = FALSE
    /\ pc' = "write"
    /\ UNCHANGED <<uiVars, toPending, comm, sData, server, faults>>

\* A server without subscriptions sends all it has.
WriteSocket ==
    /\ pc = "write"
    /\ server' = IF OnTheFly THEN sData ELSE All
    /\ pc' = "wait"
    /\ UNCHANGED <<uiVars, flags, comm, sData, faults>>

WriteSocketFails ==
    /\ pc = "write"
    /\ Fault

DeltaAvailable ==
    /\ pc = "wait"
    /\ ~cmdStop
    /\ comm' = "READY"
    /\ pc' = "poll"
    /\ UNCHANGED <<uiVars, flags, sData, server, faults>>

WaitTimeOut ==
    /\ pc = "wait"
    /\ ~cmdStop
    /\ Fault

\* "Poll the controlling thread if it has detected change in path
\* subscriptions"
Resubscription == OnTheFly /\ (toPending \/ allPending)

PollCloses ==
    /\ pc = "poll"
    /\ ~cmdStop
    /\ Resubscription
    /\ comm' = "ERROR"
    /\ server' = None
    /\ pc' = "loop"
    /\ UNCHANGED <<uiVars, flags, sData, faults>>

PollContinues ==
    /\ pc = "poll"
    /\ ~cmdStop
    /\ ~Resubscription
    /\ pc' = "parse"
    /\ UNCHANGED <<uiVars, flags, comm, sData, server, faults>>

DeltaParsed ==
    /\ pc = "parse"
    /\ pc' = "poll"
    /\ UNCHANGED <<uiVars, flags, comm, sData, server, faults>>

SyncLost ==
    /\ pc = "parse"
    /\ Fault

\* Mistake: the loop over the delta messages does not test the stop.
EntryReturnsNotReading ==
    /\ pc \in {"loop", "connect", "wait"}
    /\ cmdStop
    /\ pc' = "ended"
    /\ server' = None
    /\ UNCHANGED <<uiVars, flags, comm, sData, faults>>

\* Wherever a loop condition is tested.
EntryReturns ==
    /\ pc \in {"loop", "connect", "wait", "poll"}
    /\ cmdStop
    /\ pc' = "ended"
    /\ server' = None
    /\ UNCHANGED <<uiVars, flags, comm, sData, faults>>

Connect == LoopContinues \/ ConnectSucceeds \/ ConnectFails
Handshake == HelloRead \/ HelloFails \/ ChooseSubscription
Clear == ClearTo \/ ClearAll
Subscribe == WriteSocket \/ WriteSocketFails
Read ==
    \/ DeltaAvailable \/ WaitTimeOut
    \/ PollCloses \/ PollContinues
    \/ DeltaParsed \/ SyncLost

Thread == Connect \/ Handshake \/ Clear \/ Subscribe \/ Read \/ EntryReturns

Destroyed == panel = "closed" /\ UNCHANGED vars

Next ==
    \/ \E p \in Paths : SubscribeTo(p)
    \/ CollectAllSignalKDeltaPaths
    \/ Timer
    \/ OnClose
    \/ ThreadJoined
    \/ Thread
    \/ Destroyed

Spec == Init /\ [][Next]_vars

\* The thread is scheduled and its blocking calls return, the timer fires.
\* Since the failures are bounded, the server is reachable in the end.
FairSpec ==
    /\ Spec
    /\ WF_vars(Thread)
    /\ WF_vars(Timer)
    /\ WF_vars(ThreadJoined)

-----------------------------------------------------------------------------
(* Properties.                                                             *)

Reading == pc \in {"poll", "parse"}

\* Every connection whose messages are read has been told a subscription
\* first, and it is never told a path that no instrument has asked for.
SubscribedBeforeReading ==
    /\ Reading => server # None
    /\ server.paths \subseteq subscriptions

\* What the server of this connection has been told.
Told(p) == p \in server.paths \/ server.kind = "all"

\* The flag that is about to be cleared stands for a newer list, which has p
\* in it, than the message that has been made: nothing will ask for p again.
Overtaken(p) ==
    /\ pc = "clearTo" /\ timer = "idle"
    /\ p \in subscribeTo \ sData.paths

\* A request for all paths that has been cleared and could not be written.
AllDropped == pc = "loop" /\ sData.kind = "all" /\ ~allPending

\* Over failures of the connection, rewritten messages and windows of all
\* paths, the server is told every path of the list, and told again after
\* each loss of the connection, unless the list overtakes a message in the
\* moment between making it and clearing its flag.
PathsReachServer ==
    \A p \in Paths :
        []~Overtaken(p) => (p \in subscriptions ~> Told(p) \/ cmdStop)

\* The same of all paths, once they are not asked for again and again (every
\* end of a window asks for the list first): a request reaches the server,
\* unless the connection fails between clearing its flag and writing, and the
\* server is left with the paths of the instruments, as the manual has it
\* (signalk.ipynb:427), unless both flags are raised at once: when a window
\* begins and ends without a connection, the list that ends it is sent first.
AllPathsComeAndGo ==
    <>[]~allPaths =>
        /\ allPending ~> server.kind = "all" \/ AllDropped \/ cmdStop
        /\ []~(toPending /\ allPending) => []<>(server.kind # "all")

\* A window of all paths comes to its end, however often it is asked for.
AllPathsWindowEnds == []<>(~allPaths \/ panel # "ready")

\* The UI thread never waits for good in OnClose().
CloseReturns == panel = "closing" ~> panel = "closed"
=============================================================================
