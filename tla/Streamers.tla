----------------------------- MODULE Streamers -----------------------------
(***************************************************************************)
(* The instances of one streamer instrument (InfluxDB Out, or Signal K In) *)
(* over the dashboard windows of the plug-in.  Any number may be shown,    *)
(* "but only the first one is actually doing any streaming": the instances *)
(* share a counter and an echoed status text, and each constructor decides *)
(* from them what the instance is going to be.                             *)
(*                                                                         *)
(* dashboard_pi::ApplyConfig() replaces a window by a new one with the new *)
(* list of instruments: it constructs the new instances first and closes   *)
(* the old window after that.  All of it runs in the UI thread, but the    *)
(* communication threads of the living instances write the echo meanwhile. *)
(***************************************************************************)
EXTENDS Integers, FiniteSets

CONSTANTS
    Kind,       \* "StreamOut" or "StreamInSk"
    Windows,    \* dashboard windows
    Instances   \* identities of streamer instruments, a bound of the model

ASSUME KindAssumption == Kind \in {"StreamOut", "StreamInSk"}
ASSUME InstancesAssumption == IsFiniteSet(Instances)

VARIABLES
    nof,     \* m_nofStreamOut, m_nofStreamInSk
    echo,    \* m_echoStreamerShow: empty, the HALT text, or anything else
    role,    \* what each instance has become, "none" if it does not exist
    window,  \* the window it was made for
    phase,   \* ApplyConfig() is "idle", it builds or closes a window
    target,  \* the window it works on
    fresh    \* the instances of the new window, not yet in place

vars == <<nof, echo, role, window, phase, target, fresh>>

\* "unconfigured" runs its thread without having read a configuration,
\* "failed" could not read it and has no thread.
Roles == {"relay", "talker", "unconfigured", "failed"}

Live == {i \in Instances : role[i] # "none"}
Speakers == {i \in Live : role[i] # "relay"}

TypeOK ==
    /\ nof \in Int
    /\ echo \in {"empty", "text", "HALT"}
    /\ role \in [Instances -> Roles \cup {"none"}]
    /\ window \in [Instances -> Windows]
    /\ phase \in {"idle", "build", "close"}
    /\ target \in Windows
    /\ fresh \subseteq Live

Init ==
    /\ nof = 0
    /\ echo = "empty"
    /\ role = [i \in Instances |-> "none"]
    /\ window \in [Instances -> Windows]
    /\ phase = "idle"
    /\ target \in Windows
    /\ fresh = {}

-----------------------------------------------------------------------------
(* Constructors.                                                           *)

\* Mistake: the counter is tested before it is incremented.
RelayTestedFirst(n) == n > 2 /\ (Kind = "StreamOut" => echo # "HALT")

\* With n instances, this one included, it only relays what others show.
\* The InfluxDB streamer makes an exception when the others are halted; the
\* Signal K streamer does not.
IsRelay(n) == n > 1 /\ (Kind = "StreamOut" => echo # "HALT")

\* LoadConfig() reads nothing unless this is the only instance, and says
\* that all is well.
LoadConfig(n) == IF n > 1 THEN {"unconfigured"} ELSE {"talker", "failed"}

Construct(i) ==
    /\ phase = "build"
    /\ role[i] = "none"
    /\ nof' = nof + 1
    /\ \E r \in Roles :
         /\ role' = [role EXCEPT ![i] = r]
         /\ IF IsRelay(nof + 1)
            THEN r = "relay" /\ UNCHANGED echo
            ELSE r \in LoadConfig(nof + 1) /\ echo' = "text"
    /\ window' = [window EXCEPT ![i] = target]
    /\ fresh' = fresh \cup {i}
    /\ UNCHANGED <<phase, target>>

-----------------------------------------------------------------------------
(* ApplyConfig().                                                          *)

\* The instances of the window that is replaced or deleted.
Old == {i \in Live \ fresh : window[i] = target}

\* A window is opened, or replaced, or deleted: a deleted one builds nothing.
StartWindow(w) ==
    /\ phase = "idle"
    /\ target' = w
    /\ phase' = "build"
    /\ UNCHANGED <<nof, echo, role, window, fresh>>

BuildDone ==
    /\ phase = "build"
    /\ phase' = "close"
    /\ UNCHANGED <<nof, echo, role, window, target, fresh>>

\* Mistake: a relay, too, tells everybody HALT when it goes.
CloseTellsAll(i) ==
    /\ phase = "close"
    /\ i \in Old
    /\ nof' = nof - 1
    /\ echo' = "HALT"
    /\ role' = [role EXCEPT ![i] = "none"]
    /\ UNCHANGED <<window, phase, target, fresh>>

\* Close() and Destroy() of an instrument of the old window: whatever it
\* is, it is counted off; unless a relay, its thread is stopped and
\* everybody is told HALT.
CloseInstrument(i) ==
    /\ phase = "close"
    /\ i \in Old
    /\ nof' = nof - 1
    /\ echo' = IF role[i] = "relay" THEN echo ELSE "HALT"
    /\ role' = [role EXCEPT ![i] = "none"]
    /\ UNCHANGED <<window, phase, target, fresh>>

CloseDone ==
    /\ phase = "close"
    /\ Old = {}
    /\ phase' = "idle"
    /\ fresh' = {}
    /\ UNCHANGED <<nof, echo, role, window, target>>

\* Thread of a speaking instance: progress of the connection, line count.
EchoWritten ==
    /\ \E i \in Speakers : role[i] # "failed"
    /\ echo' = "text"
    /\ UNCHANGED <<nof, role, window, phase, target, fresh>>

Next ==
    \/ \E w \in Windows : StartWindow(w)
    \/ \E i \in Instances : Construct(i) \/ CloseInstrument(i)
    \/ BuildDone
    \/ CloseDone
    \/ EchoWritten

Spec == Init /\ [][Next]_vars

-----------------------------------------------------------------------------
(* Properties.                                                             *)

\* Through all constructions and destructions, also in the middle of a
\* replacement, the shared counter tells the number of living instances.
CountsInstances == nof = Cardinality(Live)

\* "Albeit you can have many InfluxDB Out instruments, only the first one is
\* actually doing any streaming" (idbout.ipynb:93, signalk.ipynb:40): no two
\* instances ever hold a communication thread, even while the windows are
\* replaced and although a halted state lets a new instance pass.
OneSpeaker == Cardinality(Speakers) <= 1

\* Everybody is told HALT only when nobody speaks.
HaltIsTrue == echo = "HALT" => Speakers = {}
=============================================================================
