------------------------------ MODULE CommonJs ------------------------------
(***************************************************************************)
(* common.js (data/instrujs/www): the data paths an instrument can show    *)
(* and what it starts from when the user selects one.  A path is the       *)
(* sequence of its elements; "*" in the table stands for any element.  Of  *)
(* the 17 fields of an entry the table keeps the path and the display      *)
(* style; the others are scales and texts.  An entry that has been commented*)
(* out is left out.                                                        *)
(***************************************************************************)
EXTENDS Sequences, SequencesExt

Entry(display, path) == [path |-> path, display |-> display]

Energy(item) == Entry("dial", <<"electrical", "batteries", "*", item>>)

EnergyPaths ==
    << Energy("current"), Energy("temperature"), Energy("voltage") >>

Engine(item) == Entry("dial", <<"propulsion", "*", item>>)

EnginePaths1 ==
    << Engine("alternatorVoltage"), Engine("boostPressure"),
       Engine("coolantPressure"),
       Entry("dial", <<"propulsion", "*", "drive", "trimState">>),
       Engine("coolantTemperature"), Engine("engineLoad"),
       Engine("engineTorque") >>

EnginePaths2 ==
    << Engine("exhaustTemperature"),
       Entry("dial", <<"propulsion", "*", "fuel", "pressure">>),
       Entry("dial", <<"propulsion", "*", "fuel", "rate">>),
       Engine("oilPressure"), Engine("oilTemperature"),
       Engine("revolutions"),
       Engine("temperature"),
       Entry("dial", <<"tanks", "fuel", "*", "currentLevel">>) >>

Chart(path) == Entry("chart", path)

SailingPaths ==
    << Chart(<<"environment", "wind", "speedTrueGround">>),
       Chart(<<"environment", "wind", "angleTrue">>),
       Chart(<<"environment", "wind", "speedApparent">>),
       Chart(<<"environment", "wind", "angleApparent">>),
       Chart(<<"navigation", "speedThroughWater">>),
       Chart(<<"navigation", "speedOverGround">>) >>

PolarPaths ==
    << Chart(<<"performance", "polar", "actual", "velocityMadeGood">>),
       Chart(<<"performance", "polar", "target", "velocityMadeGood">>),
       Chart(<<"performance", "polar", "polarSpeedRatio">>),
       Chart(<<"performance", "polar", "polarSpeed">>) >>

KnownPaths == EnergyPaths \o EnginePaths1 \o EnginePaths2 \o
              SailingPaths \o PolarPaths

\* Mistake: a shorter path matches as well.
MatchesPrefix(pattern, path) ==
    /\ Len(path) <= Len(pattern)
    /\ \A i \in DOMAIN path : pattern[i] \in {"*", path[i]}

\* Element by element, with as many elements.
Matches(pattern, path) ==
    /\ Len(path) = Len(pattern)
    /\ \A i \in DOMAIN path : pattern[i] \in {"*", path[i]}

\* hasPathEntry: the place of the first entry that matches, 0 if there is none.
PathEntry(path) ==
    LET IsMatch(entry) == Matches(entry.path, path)
    IN  SelectInSeq(KnownPaths, IsMatch)

\* skpathlookup, for a path that has an entry: a copy, so that what a page
\* changes in it is not seen by the next lookup.
SkPathLookup(path) == KnownPaths[PathEntry(path)]
=============================================================================
