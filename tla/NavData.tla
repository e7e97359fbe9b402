------------------------------ MODULE NavData ------------------------------
(***************************************************************************)
(* Which source of navigation data is heard (dashboard_pi): sentences of   *)
(* NMEA 0183 that the chart plotter distributes, delta messages of a       *)
(* Signal K server, the position fix and the variation of the magnetic     *)
(* model all feed the same instruments.  Every datum has a priority: an    *)
(* input that ranks below the one that claimed the datum is ignored, until *)
(* a watchdog of the timer Notify releases the claims.  A heading is       *)
(* calculated from a magnetic one and the variation when nothing better is *)
(* there.                                                                  *)
(*                                                                         *)
(* Values are left out: a number is known or it is not.  A handler is one  *)
(* step, although delta messages are handled by the communication thread.  *)
(***************************************************************************)
EXTENDS Integers

CONSTANTS
    Timeout, \* gps_watchdog_timeout_ticks
    Boats    \* sets of inputs, one of which is aboard in each behaviour

ASSUME TimeoutAssumption == Timeout \in Nat /\ Timeout >= 2

VARIABLES
    nav,    \* the members of dashboard_pi, see TypeOK
    since,  \* history: ticks since an input, at most Timeout
    aboard  \* the inputs of this behaviour

vars == <<nav, since, aboard>>

Data == {"Position", "COGSOG", "HeadingT", "HeadingM", "Var", "DateTime",
         "AWA", "TWA", "Depth"}

Free == 99 \* the priority of a datum that nobody has claimed

Watchdogs == {"Src", "SiK", "HDx", "HDT", "Var"}

\* What the instruments show, as far as a watchdog takes it back.
Shown == {"HDM", "HDT", "HMV"}

Channels == {"none", "ocpn", "sk", "fix", "wmm"}

(***************************************************************************)
(* Inputs.  x is the content that makes a difference: for a variation      *)
(* "known", "zero" or "empty" (a missing field reads as 999), for a true   *)
(* heading "known" or "empty", for the others "-".                         *)
(***************************************************************************)
Input(ch, id, x) == [ch |-> ch, id |-> id, x |-> x]

\* Sentences of the chart plotter that do nothing but claim one datum, with
\* the rank they claim it at.
NmeaPosition ==
    [DBT |-> <<"Depth", 2>>,    DPT |-> <<"Depth", 1>>,
     GGA |-> <<"Position", 3>>, GLL |-> <<"Position", 1>>]

NmeaWind == [MWVR |-> <<"AWA", 1>>, MWVT |-> <<"TWA", 1>>]

NmeaOther ==
    [VTG |-> <<"COGSOG", 2>>, VWR |-> <<"AWA", 2>>, VWT |-> <<"TWA", 2>>,
     ZDA |-> <<"DateTime", 2>>]

\* Delta messages that were such sentences, named by sentence and path.
SkPositions == [DBT |-> <<"Depth", 2>>, GLL |-> <<"Position", 2>>]

SkWind ==
    [MWV_angleApparent |-> <<"AWA", 1>>, MWV_angleTrueWater |-> <<"TWA", 1>>]

SkRMC ==
    [RMC_position |-> <<"Position", 4>>, RMC_courseSpeed |-> <<"COGSOG", 3>>,
     RMC_datetime |-> <<"DateTime", 3>>]

SkOther == [VTG |-> <<"COGSOG", 2>>, VWR |-> <<"AWA", 2>>]

\* Delta messages of another origin, named by the path.
N2kWind == [windApparent |-> <<"AWA", 1>>, windTrue |-> <<"TWA", 1>>]

N2kOther == [courseSpeed |-> <<"COGSOG", 2>>, datetime |-> <<"DateTime", 3>>]

\* Sentences that are heard beside Signal K, which does not have them:
\* XDR stands for the ones that claim nothing.
NotInSignalK == {"XDR", "VWT", "ZDA"}

-----------------------------------------------------------------------------
(***************************************************************************)
(* Steps of the handlers, from one value n of nav to the next.             *)
(***************************************************************************)
Arm(n, w) == [n EXCEPT !.wd[w] = Timeout]

Show(n, q) == [n EXCEPT !.shown[q] = "number"]

Claimable(n, d, p) == n.pri[d] >= p

\* if ( mPri... >= p ) { mPri... = p; ... }, the value coming from ch.
Claim(n, d, p, ch) ==
    IF Claimable(n, d, p)
    THEN [n EXCEPT !.pri[d] = p, !.by[d] = ch]
    ELSE n

\* A variation x of rank p.  Zero is no variation; an empty field takes the
\* claim without a direction, so that mVar stays as it is.
Variation(n, x, p, ch) ==
    IF Claimable(n, "Var", p) /\ x # "zero"
    THEN LET m == Arm(Claim(n, "Var", p, ch), "Var")
             v == IF x = "known" THEN "number" ELSE n.mVar
         IN  [m EXCEPT !.mVar = v, !.shown["HMV"] = v]
    ELSE n

\* mHdm from a compass of rank p.
Magnetic(n, p, ch) ==
    IF Claimable(n, "HeadingM", p)
    THEN [Show(Claim(n, "HeadingM", p, ch), "HDM") EXCEPT !.mHdm = "number"]
    ELSE n

\* The heading from mHdm and mVar, of rank p, if no heading is better.
Calculated(n, p, ch) ==
    IF n.mVar = "number" /\ Claimable(n, "HeadingT", p)
    THEN [Arm(Claim(n, "HeadingT", p, ch), "HDT") EXCEPT
             !.shown["HDT"] = n.mHdm]
    ELSE n

\* After a delta message only with a heading.
SkCalculated(n) == IF n.mHdm = "number" THEN Calculated(n, 4, "sk") ELSE n

-----------------------------------------------------------------------------
Initially ==
    [pri   |-> [d \in Data |-> Free],
     by    |-> [d \in Data |-> "none"],
     mVar  |-> "nan",
     mHdm  |-> "number",
     wd    |-> [w \in Watchdogs |-> IF w = "SiK" THEN 0 ELSE 2],
     keel  |-> FALSE,
     fixOk |-> FALSE,
     shown |-> [q \in Shown |-> "nan"]]

Events == {"any", "sentence", "sk", "true"}

Init ==
    /\ nav = Initially
    /\ since = [e \in Events |-> Timeout]
    /\ aboard \in Boats

\* Inputs with the true heading of a compass.
CarriesTrue(i) ==
    i.id \in {"HDT", "VHW", "VHW_headingTrue", "headingTrue"} /\ i.x = "known"

EventsOf(i) ==
    {"any"} \cup (IF i.ch \in {"ocpn", "sk"} THEN {"sentence"} ELSE {})
            \cup (IF i.ch = "sk" THEN {"sk"} ELSE {})
            \cup (IF CarriesTrue(i) THEN {"true"} ELSE {})

\* The handler of the input i leaves n.
Done(i, n) ==
    /\ nav' = n
    /\ since' = [e \in Events |-> IF e \in EventsOf(i) THEN 0 ELSE since[e]]
    /\ UNCHANGED aboard

\* Inputs aboard of that name that get past the choice of the channel.
Nmea(id) ==
    {i \in aboard : i.ch = "ocpn" /\ i.id = id
                    /\ (nav.wd["SiK"] > 0 => id \in NotInSignalK)}

Delta(id) == {i \in aboard : i.ch = "sk" /\ i.id = id}

\* Mistake: only Signal K keeps the claims alive.
NmeaHeardUnarmed == nav

\* A sentence and a delta message re-arm the watchdog of all claims, the
\* latter also the one that keeps the other channel out.
NmeaHeard == Arm(nav, "Src")

\* Mistake: the other channel is shut out once, and not again with each delta.
DeltaHeardOnce ==
    Arm(IF nav.wd["SiK"] = 0 THEN Arm(nav, "SiK") ELSE nav, "Src")

DeltaHeard == Arm(Arm(nav, "SiK"), "Src")

-----------------------------------------------------------------------------
(***************************************************************************)
(* SetNMEASentence() with a sentence of the chart plotter.                 *)
(***************************************************************************)
NmeaClaim ==
    \E t \in {NmeaPosition, NmeaWind, NmeaOther} :
        \E id \in DOMAIN t : \E i \in Nmea(id) :
            Done(i, Claim(NmeaHeard, t[id][1], t[id][2], "ocpn"))

\* Sentences without a claim: XDR, MTA, GSV, MWD, and MTW, VLW, RMB, ...
NmeaPlain == \E id \in {"XDR", "MTW"} : \E i \in Nmea(id) : Done(i, NmeaHeard)

HDG ==
    \E i \in Nmea("HDG") :
        LET n == Magnetic(Variation(NmeaHeard, i.x, 2, "ocpn"), 1, "ocpn")
        IN  Done(i, Calculated(Arm(n, "HDx"), 4, "ocpn"))

HDM ==
    \E i \in Nmea("HDM") :
        LET n == Magnetic(NmeaHeard, 2, "ocpn")
        IN  Done(i, Calculated(Arm(n, "HDx"), 3, "ocpn"))

\* Mistake: the true heading takes the claim of the magnetic one.
HDTClaimsMagnetic ==
    \E i \in Nmea("HDT") :
        LET n == Arm(Claim(NmeaHeard, "HeadingM", 1, "ocpn"), "HDT")
        IN  Done(i, IF i.x = "known" THEN Show(n, "HDT") ELSE n)

HDT ==
    \E i \in Nmea("HDT") :
        LET n == Arm(Claim(NmeaHeard, "HeadingT", 1, "ocpn"), "HDT")
        IN  Done(i, IF i.x = "known" THEN Show(n, "HDT") ELSE n)

\* The water speed sentence has both headings, and does not set mHdm.
VHW ==
    \E i \in Nmea("VHW") :
        LET m == NmeaHeard
            t == IF i.x = "known" /\ Claimable(m, "HeadingT", 2)
                 THEN Show(Claim(m, "HeadingT", 2, "ocpn"), "HDT") ELSE m
            n == IF Claimable(t, "HeadingM", 3)
                 THEN Show(Claim(t, "HeadingM", 3, "ocpn"), "HDM") ELSE t
        IN  Done(i, Arm(Arm(n, "HDx"), "HDT"))

RMC ==
    \E i \in Nmea("RMC") :
        LET n == Claim(Claim(NmeaHeard, "Position", 4, "ocpn"),
                       "COGSOG", 3, "ocpn")
        IN  Done(i, Claim(Variation(n, i.x, 3, "ocpn"), "DateTime", 3, "ocpn"))

\* The own vessel's AIS message is shown whatever has been claimed.
AIVDO ==
    \E i \in Nmea("AIVDO") :
        LET n == [NmeaHeard EXCEPT !.by["Position"] = "ocpn",
                                   !.by["COGSOG"] = "ocpn"]
        IN  Done(i, IF i.x = "known"
                    THEN Arm(Show([n EXCEPT !.by["HeadingT"] = "ocpn"], "HDT"),
                             "HDT")
                    ELSE n)

-----------------------------------------------------------------------------
(***************************************************************************)
(* SetNMEASentence() with a value of a Signal K delta message.             *)
(***************************************************************************)
SkClaim ==
    \E t \in {SkPositions, SkWind, SkRMC, SkOther, N2kWind, N2kOther} :
        \E id \in DOMAIN t : \E i \in Delta(id) :
            Done(i, Claim(DeltaHeard, t[id][1], t[id][2], "sk"))

\* Values without a claim.
SkPlain == \E i \in Delta("rudderAngle") : Done(i, DeltaHeard)

SkHDG_headingMagnetic ==
    \E i \in Delta("HDG_headingMagnetic") :
        Done(i, SkCalculated(Arm(Magnetic(DeltaHeard, 1, "sk"), "HDx")))

\* Variation, of HDG or of another source, and the heading with it.
SkVariation ==
    \E id \in {"HDG_magneticVariation", "magneticVariation"} :
        \E i \in Delta(id) :
            Done(i, SkCalculated(Variation(DeltaHeard, i.x, 2, "sk")))

\* Magnetic heading of HDM or of another source than NMEA 0183.
SkMagnetic ==
    \E r \in {<<"HDM_headingMagnetic", 2>>, <<"headingMagnetic", 1>>} :
        \E i \in Delta(r[1]) :
            Done(i, IF Claimable(DeltaHeard, "HeadingM", r[2])
                    THEN Arm(Magnetic(DeltaHeard, r[2], "sk"), "HDx")
                    ELSE DeltaHeard)

\* True heading of HDT or of another source: mHdm and its priority are set.
SkTrue ==
    \E id \in {"HDT", "headingTrue"} : \E i \in Delta(id) :
        LET n == [DeltaHeard EXCEPT !.pri["HeadingM"] = 1, !.mHdm = "number",
                                    !.by["HeadingT"] = "sk"]
        IN  /\ Claimable(nav, "HeadingM", 1)
            /\ Done(i, Arm(Show(n, "HDT"), "HDT"))

SkVHW ==
    \E r \in {<<"VHW_headingTrue", "HeadingT", 2, "HDT", "HDT">>,
              <<"VHW_headingMagnetic", "HeadingM", 3, "HDM", "HDx">>} :
        \E i \in Delta(r[1]) :
            LET n == Claim(DeltaHeard, r[2], r[3], "sk")
            IN  Done(i, IF Claimable(nav, r[2], r[3])
                        THEN Arm(Show(n, r[4]), r[5]) ELSE n)

\* navigation.gnss.methodQuality, then the position if there is a fix.
SkQuality ==
    \E i \in Delta("methodQuality") :
        Done(i, [DeltaHeard EXCEPT !.fixOk = (i.x = "known")])

SkPosition ==
    \E i \in Delta("position") :
        Done(i, IF nav.fixOk THEN Claim(DeltaHeard, "Position", 3, "sk")
                             ELSE DeltaHeard)

\* Depth below the keel, once it has been seen, is the only one taken.  A
\* depth that was no NMEA 0183 sentence has no priority.
SkDepth ==
    \E id \in {"DPT_belowKeel", "DPT_belowTransducer",
               "belowKeel", "belowTransducer"} :
        \E i \in Delta(id) :
            LET keel == id \in {"DPT_belowKeel", "belowKeel"}
                n == [DeltaHeard EXCEPT !.keel = @ \/ keel]
            IN  Done(i, IF nav.keel /\ ~keel THEN n
                        ELSE IF id \in {"DPT_belowKeel", "DPT_belowTransducer"}
                        THEN Claim(n, "Depth", 1, "sk")
                        ELSE [n EXCEPT !.by["Depth"] = "sk"])

\* The magnetic course sets the priority of course and speed and no value.
SkCourseMagnetic ==
    \E i \in Delta("courseOverGroundMagnetic") :
        Done(i, [DeltaHeard EXCEPT !.pri["COGSOG"] = 3])

-----------------------------------------------------------------------------
\* A position fix of the chart plotter, with or without variation, course
\* and speed.
SetPositionFix ==
    \E i \in {j \in aboard : j.ch = "fix"}, moving \in BOOLEAN :
        LET n == Claim(nav, "Position", 1, "fix")
            p == IF moving THEN Claim(n, "COGSOG", 1, "fix") ELSE n
            v == IF i.x = "known" THEN Variation(p, "known", 1, "fix") ELSE p
        IN  Done(i, Claim(v, "DateTime", 6, "fix"))

\* The variation of the World Magnetic Model plug-in.
SetPluginMessage ==
    \E i \in {j \in aboard : j.ch = "wmm"} :
        Done(i, Variation(nav, "known", 4, "wmm"))

\* Mistake: an off-by-one in the test for expiry.
ExpiredLate(w) == nav.wd[w] <= 0

Expired(w) == nav.wd[w] <= 1

CountDown(w) ==
    IF ~Expired(w) THEN nav.wd[w] - 1 ELSE IF w = "SiK" THEN 0 ELSE Timeout

\* Mistake: the variation has no watchdog for its claim.
ReleasedWithAll(d) == Expired("Src")

Released(d) == Expired("Src") \/ (d = "Var" /\ Expired("Var"))

\* The timer of one second: every watchdog counts down, and what is not
\* heard any more is taken back.
Notify ==
    LET Forget(q, w) == IF Expired(w) THEN "nan" ELSE nav.shown[q]
    IN
    /\ nav' = [nav EXCEPT
         !.wd = [w \in Watchdogs |-> CountDown(w)],
         !.pri = [d \in Data |-> IF Released(d) THEN Free ELSE @[d]],
         !.mVar = IF Expired("Src") \/ Expired("Var") THEN "nan" ELSE @,
         !.mHdm = IF Expired("HDx") THEN "nan"
                  ELSE IF Expired("Src") THEN "number" ELSE @,
         !.shown = [HDM |-> Forget("HDM", "HDx"), HDT |-> Forget("HDT", "HDT"),
                    HMV |-> Forget("HMV", "Var")]]
    /\ since' = [e \in Events |-> IF since[e] < Timeout THEN since[e] + 1
                                  ELSE Timeout]
    /\ UNCHANGED aboard

OpenCPN == NmeaClaim \/ NmeaPlain \/ HDG \/ HDM \/ HDT \/ VHW \/ RMC \/ AIVDO

SignalK ==
    \/ SkClaim \/ SkPlain \/ SkHDG_headingMagnetic \/ SkVariation
    \/ SkMagnetic \/ SkTrue \/ SkVHW \/ SkQuality \/ SkPosition \/ SkDepth
    \/ SkCourseMagnetic

Next == OpenCPN \/ SignalK \/ SetPositionFix \/ SetPluginMessage \/ Notify

\* The timer runs as long as the plug-in; nobody has to send anything.
Spec == Init /\ [][Next]_vars /\ WF_vars(Notify)
-----------------------------------------------------------------------------
(***************************************************************************)
(* Properties.                                                             *)
(***************************************************************************)

\* Type invariant: the priorities, channels, numbers and watchdogs of
\* dashboard_pi stay in their ranges; no watchdog but SiK is left expired.
TypeOK ==
    /\ aboard \in Boats
    /\ since \in [Events -> 0..Timeout]
    /\ nav \in [pri   : [Data -> 1..6 \cup {Free}],
                by    : [Data -> Channels],
                mVar  : {"nan", "number"},
                mHdm  : {"nan", "number"},
                wd    : [Watchdogs -> 0..Timeout],
                keel  : BOOLEAN,
                fixOk : BOOLEAN,
                shown : [Shown -> {"nan", "number"}]]
    /\ \A w \in Watchdogs \ {"SiK"} : nav.wd[w] > 0

\* A datum that Signal K delivered is not taken over by a sentence of the
\* chart plotter before Signal K has been silent for the whole time-out.
\* (docs/readthedocs/source/nmea0183data.ipynb:87.)  VWT and ZDA, which
\* Signal K is not expected to have, are let through.
SignalKFirst ==
    [][\A d \in Data \ {"TWA", "DateTime"} :
          nav.by[d] = "sk" /\ nav'.by[d] = "ocpn" => since["sk"] >= Timeout]_vars

\* While sentences or deltas keep coming within the time-out, nothing but a
\* better source takes a datum from the one that has claimed it, and claims
\* are not dropped; only the variation has a watchdog of its own, and the
\* magnetic course of Signal K degrades course and speed.
ClaimsHold ==
    [][\A d \in Data \ {"Var", "COGSOG"} :
          nav'.pri[d] > nav.pri[d] => since'["sentence"] >= Timeout]_vars

\* When nothing has been received for the whole time-out, by whichever way,
\* every claim is gone and every number the watchdogs guard is taken back
\* from the instruments, whatever the order in which the watchdogs expire.
SilenceIsShown ==
    since["any"] >= Timeout =>
        /\ \A d \in Data : nav.pri[d] = Free
        /\ \A q \in Shown : nav.shown[q] = "nan"

\* A boat on which nothing tells the variation.
NoVariation(b) ==
    \A i \in b :
        /\ i.ch # "wmm"
        /\ i.x = "known" =>
              /\ i.ch # "fix"
              /\ i.id \notin {"HDG", "RMC", "HDG_magneticVariation",
                              "magneticVariation"}

\* A boat on which every true heading of a compass claims the heading: the
\* one of Signal K that was no water speed sentence does not.
TrueClaimed(b) ==
    \A i \in b : CarriesTrue(i) =>
        <<i.ch, i.id>> \in {<<"ocpn", "HDT">>, <<"ocpn", "VHW">>,
                            <<"sk", "VHW_headingTrue">>}

\* While the true heading of a compass has been received within the
\* time-out, the heading is not the calculated one, on boats of one of these
\* two kinds.
CompassTrueStands ==
    since["true"] < Timeout => nav.pri["HeadingT"] \notin {3, 4}

\* The inputs that carry a variation, except the magnetic model.
BetterVariation == HDG \/ RMC \/ SkVariation \/ SetPositionFix

\* When the better sources of the variation fall silent while others keep
\* talking, the variation of the magnetic model gets through to the
\* instruments again and again.
WmmTakesOver ==
    (<>[][~BetterVariation]_vars /\ []<><<SetPluginMessage>>_vars)
        => []<>(nav.by["Var"] = "wmm" /\ nav.shown["HMV"] = "number")
=============================================================================
