------------------------------ MODULE MCNavData ------------------------------
(* Small boats for NavData: sets of inputs that compete for the same data. *)
EXTENDS NavData

Wmm == Input("wmm", "variation", "known")

\* Compasses and a GPS on the chart plotter's own connections.
HeadingBoat ==
    {Input("ocpn", "HDG", x) : x \in {"known", "zero", "empty"}}
    \cup {Input("ocpn", "HDM", "-"), Input("ocpn", "RMC", "known"), Wmm}
    \cup {Input("ocpn", id, x) : id \in {"HDT", "VHW"}, x \in {"known", "empty"}}

\* The same headings on both channels.
BothBoat ==
    {Input("ocpn", "HDG", "known"), Input("ocpn", "VHW", "known"),
     Input("sk", "HDG_headingMagnetic", "-"), Input("sk", "HDM_headingMagnetic", "-"),
     Input("sk", "HDG_magneticVariation", "known"),
     Input("sk", "VHW_headingTrue", "known"), Input("sk", "VHW_headingMagnetic", "-"),
     Wmm}

\* Position, course and speed, and variation of the fix.
PositionBoat ==
    {Input("ocpn", id, "-") : id \in {"GLL", "VTG", "ZDA"}}
    \cup {Input("ocpn", "RMC", "empty"), Input("fix", "fix", "known"),
          Input("sk", "position", "-")}
    \cup {Input("sk", "methodQuality", x) : x \in {"known", "empty"}}

\* Wind and depth.
WindBoat ==
    {Input("ocpn", id, "-") : id \in {"MWVR", "VWR", "MWVT", "VWT", "DBT", "DPT"}}
    \cup {Input("sk", id, "-") : id \in {"VWR", "windTrue", "DBT", "belowKeel",
                                        "DPT_belowTransducer"}}

\* Inputs that follow the rules of priority only in part.
RoughBoat ==
    {Input("ocpn", "AIVDO", "known"), Input("ocpn", "GGA", "-"),
     Input("ocpn", "MTW", "-"), Input("sk", "courseSpeed", "-"),
     Input("sk", "courseOverGroundMagnetic", "-"), Input("sk", "HDT", "known")}

\* NMEA 2000 behind Signal K, without a compass for the true heading.
Nmea2000 ==
    {Input("sk", id, "-") : id \in {"headingMagnetic", "rudderAngle"}}
    \cup {Input("sk", "magneticVariation", x) : x \in {"known", "zero"}}
    \cup {Input("ocpn", "XDR", "-")}

Fleet == {HeadingBoat, BothBoat, PositionBoat, WindBoat, RoughBoat, Nmea2000}

\* What CompassTrueStands asks of the boats.
ASSUME FleetAssumption == \A b \in Fleet : NoVariation(b) \/ TrueClaimed(b)
=============================================================================
