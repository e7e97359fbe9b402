-------------------------- MODULE StreamInSkProofs --------------------------
(***************************************************************************)
(* Safety of the Signal K input streamer for every set of paths, length    *)
(* of the window and number of failures, whatever the interleaving of the  *)
(* timer of the UI thread and the communication thread.                    *)
(***************************************************************************)
EXTENDS StreamInSk, TLAPS

\* What the connection has been told is traced back to the list in SkData:
\* the message text, even a half rewritten one, and the copy the thread has
\* made of it hold nothing but paths of the list, which never shrinks.
SubscriptionInv ==
    /\ subscribeTo \subseteq subscriptions
    /\ sData.paths \subseteq subscriptions
    /\ server.paths \subseteq subscriptions

\* From the moment the message is made until the connection is given up
\* there is a subscription.
ToldInv ==
    /\ pc \in {"clearTo", "clearAll", "write"} /\ OnTheFly => sData # None
    /\ pc \in {"wait", "poll", "parse"} => server # None

\* The inductive invariant.
IInv == TypeOK /\ SubscriptionInv /\ ToldInv

\* The messages are messages, and no list and no star is the absent one.
LEMMA Messages ==
    /\ None \in Message /\ All \in Message /\ All # None
    /\ None.paths = {} /\ All.paths = {}
    /\ \A ps \in SUBSET Paths :
         List(ps) \in Message /\ List(ps) # None /\ List(ps).paths = ps
  BY DEF Message, None, All, List

\* The constructor establishes the invariant.
LEMMA InitIInv == Init => IInv
  <1> SUFFICES ASSUME Init PROVE IInv
    OBVIOUS
  <1>1. TypeOK
    <2>1. /\ sData \in Message /\ server \in Message
          /\ DefaultPaths \subseteq Paths
      BY PathsAssumption, Messages DEF Init
    <2>2. allCount \in 0..AllTicks /\ faults \in 0..MaxFaults
      BY TicksAssumption, ServerAssumption DEF Init
    <2>3. QED
      BY <2>1, <2>2 DEF Init, TypeOK
  <1>2. SubscriptionInv /\ ToldInv
    BY Messages DEF Init, SubscriptionInv, ToldInv
  <1>3. QED
    BY <1>1, <1>2 DEF IInv

\* The window of all paths leaves its flags and its counter well-typed.
LEMMA WindowTypes ==
    ASSUME TypeOK, NEW raised \in BOOLEAN, AllPathsWindow(raised)
    PROVE  /\ {allPaths', toPending', allPending'} \subseteq BOOLEAN
           /\ allCount' \in 0..AllTicks
  <1> USE TicksAssumption DEF TypeOK
  <1>1. CASE ~allPaths /\ UNCHANGED <<allPaths, allPending, allCount>>
             /\ toPending' = raised
    BY <1>1
  <1>2. CASE /\ allCount = 0 /\ allCount' = AllTicks /\ allPending' = TRUE
             /\ toPending' = raised /\ UNCHANGED allPaths
    BY <1>2
  <1>3. CASE /\ allCount > 0 /\ allCount' = allCount - 1
             /\ allPaths' = (allCount' # 0)
             /\ toPending' = (raised \/ allCount' = 0)
             /\ UNCHANGED allPending
    BY <1>3
  <1>4. QED
    BY <1>1, <1>2, <1>3 DEF AllPathsWindow

\* The actions of the UI thread.
LEMMA PanelIInv ==
    ASSUME IInv,
           \/ \E p \in Paths : SubscribeTo(p)
           \/ CollectAllSignalKDeltaPaths
           \/ Timer
           \/ OnClose
           \/ ThreadJoined
           \/ UNCHANGED vars
    PROVE  IInv'
  <1> USE DEF IInv, skVars, flagVars, panelVars, threadVars
  <1>1. CASE \E p \in Paths : SubscribeTo(p)
    <2>1. /\ subscriptions \subseteq subscriptions'
          /\ subscriptions' \subseteq Paths
      BY <1>1 DEF SubscribeTo, TypeOK
    <2>2. UNCHANGED <<allPaths, flagVars, panelVars, threadVars>>
      BY <1>1 DEF SubscribeTo
    <2>3. QED
      BY <2>1, <2>2 DEF TypeOK, SubscriptionInv, ToldInv
  <1>2. CASE CollectAllSignalKDeltaPaths
    BY <1>2 DEF CollectAllSignalKDeltaPaths, TypeOK, SubscriptionInv, ToldInv
  <1>3. CASE TimerTick
    <2>1. /\ {allPaths', toPending', allPending'} \subseteq BOOLEAN
          /\ allCount' \in 0..AllTicks
      BY <1>3, WindowTypes DEF TimerTick, TypeOK
    <2>2. UNCHANGED <<subscriptions, subscribeTo, subscribeToJS, panelVars,
                      threadVars>>
      BY <1>3 DEF TimerTick
    <2>3. QED
      BY <2>1, <2>2 DEF TypeOK, SubscriptionInv, ToldInv
  <1>4. CASE TimerRewrites
    BY <1>4 DEF TimerRewrites, TypeOK, SubscriptionInv, ToldInv
  <1>5. CASE TimerRewritten
    <2>1. /\ {allPaths', toPending', allPending'} \subseteq BOOLEAN
          /\ allCount' \in 0..AllTicks
      BY <1>5, WindowTypes DEF TimerRewritten
    <2>2. /\ subscribeTo' = subscriptions /\ subscribeToJS' = subscriptions
          /\ timer' = "idle"
          /\ UNCHANGED <<subscriptions, panel, cmdStop, threadVars>>
      BY <1>5 DEF TimerRewritten
    <2>3. QED
      BY <2>1, <2>2 DEF TypeOK, SubscriptionInv, ToldInv
  <1>6. CASE OnClose
    BY <1>6 DEF OnClose, TypeOK, SubscriptionInv, ToldInv
  <1>7. CASE ThreadJoined
    BY <1>7 DEF ThreadJoined, TypeOK, SubscriptionInv, ToldInv
  <1>8. CASE UNCHANGED vars
    BY <1>8 DEF vars, TypeOK, SubscriptionInv, ToldInv
  <1>9. QED
    BY <1>1, <1>2, <1>3, <1>4, <1>5, <1>6, <1>7, <1>8 DEF Timer

\* A failed connection is told nothing any more.
LEMMA FaultIInv ==
    ASSUME IInv, Fault, UNCHANGED sData
    PROVE  IInv'
  <1>1. faults' \in 0..MaxFaults
    BY ServerAssumption DEF IInv, TypeOK, Fault
  <1>2. QED
    BY <1>1, Messages DEF IInv, TypeOK, SubscriptionInv, ToldInv, Fault,
       uiVars, flags, skVars, panelVars

\* The actions of the communication thread.
LEMMA ThreadIInv == ASSUME IInv, Thread PROVE IInv'
  <1> USE DEF IInv, SubscriptionInv, ToldInv, uiVars, flags, skVars, panelVars
  <1>1. CASE Connect
    <2>1. CASE LoopContinues
      BY <1>1, <2>1 DEF LoopContinues, TypeOK
    <2>2. CASE ConnectSucceeds
      BY <1>1, <2>2 DEF ConnectSucceeds, TypeOK
    <2>3. CASE ConnectFails
      BY <1>1, <2>3, FaultIInv DEF ConnectFails, Fault
    <2>4. QED
      BY <1>1, <2>1, <2>2, <2>3 DEF Connect
  <1>2. CASE Handshake
    <2>1. CASE HelloRead
      BY <1>2, <2>1 DEF HelloRead, TypeOK
    <2>2. CASE HelloFails
      BY <1>2, <2>2, FaultIInv DEF HelloFails, Fault
    <2>3. CASE ChooseSubscription
      <3>1. subscribeTo \in SUBSET Paths
        BY DEF TypeOK
      <3>2. /\ sData' \in {List(subscribeTo), All}
            /\ pc' \in {"clearTo", "clearAll", "write"}
            /\ UNCHANGED <<uiVars, flags, comm, server, faults>>
        BY <2>3 DEF ChooseSubscription
      <3>3. /\ sData' \in Message /\ sData' # None
            /\ sData'.paths \subseteq subscriptions
        BY <3>1, <3>2, Messages
      <3>4. QED
        BY <3>2, <3>3 DEF TypeOK
    <2>4. QED
      BY <1>2, <2>1, <2>2, <2>3 DEF Handshake
  <1>3. CASE Clear
    BY <1>3 DEF Clear, ClearTo, ClearAll, TypeOK
  <1>4. CASE Subscribe
    <2>1. CASE WriteSocket
      <3>1. pc = "write" /\ pc' = "wait"
            /\ \/ OnTheFly /\ server' = sData
               \/ ~OnTheFly /\ server' = All
            /\ UNCHANGED <<uiVars, flags, comm, sData, faults>>
        BY <2>1, ServerAssumption DEF WriteSocket
      <3>2. server' \in Message /\ server' # None
            /\ server'.paths \subseteq subscriptions
        BY <3>1, ServerAssumption, Messages DEF TypeOK
      <3>3. QED
        BY <3>1, <3>2 DEF TypeOK
    <2>2. CASE WriteSocketFails
      BY <1>4, <2>2, FaultIInv DEF WriteSocketFails, Fault
    <2>3. QED
      BY <1>4, <2>1, <2>2 DEF Subscribe
  <1>5. CASE Read
    <2>1. CASE DeltaAvailable
      BY <1>5, <2>1 DEF DeltaAvailable, TypeOK
    <2>2. CASE WaitTimeOut \/ SyncLost
      BY <1>5, <2>2, FaultIInv DEF WaitTimeOut, SyncLost, Fault
    <2>3. CASE PollCloses
      BY <1>5, <2>3, Messages DEF PollCloses, TypeOK
    <2>4. CASE PollContinues
      BY <1>5, <2>4 DEF PollContinues, TypeOK
    <2>5. CASE DeltaParsed
      BY <1>5, <2>5 DEF DeltaParsed, TypeOK
    <2>6. QED
      BY <1>5, <2>1, <2>2, <2>3, <2>4, <2>5 DEF Read
  <1>6. CASE EntryReturns
    BY <1>6, Messages DEF EntryReturns, TypeOK
  <1>7. QED
    BY <1>1, <1>2, <1>3, <1>4, <1>5, <1>6 DEF Thread

\* The inductive invariant holds in every reachable state.
THEOREM Invariance == Spec => []IInv
  <1>1. Init => IInv
    BY InitIInv
  <1>2. IInv /\ [Next]_vars => IInv'
    BY PanelIInv, ThreadIInv DEF Next, Destroyed
  <1>3. QED
    BY <1>1, <1>2, PTL DEF Spec

\* Every variable of the input streamer keeps its type; the window of all
\* paths never counts beyond its length.
THEOREM TypeCorrect == Spec => []TypeOK
  <1>1. IInv => TypeOK
    BY DEF IInv
  <1>2. QED
    BY <1>1, Invariance, PTL

\* No connection is read before it has been told a subscription, and none is
\* told a path that no instrument has asked for.
THEOREM ReadsWhatWasAskedFor == Spec => []SubscribedBeforeReading
  <1>1. IInv => SubscribedBeforeReading
    BY DEF IInv, SubscriptionInv, ToldInv, SubscribedBeforeReading, Reading
  <1>2. QED
    BY <1>1, Invariance, PTL
=============================================================================
