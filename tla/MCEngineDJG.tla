---------------------------- MODULE MCEngineDJG ----------------------------
(* An instance of EngineDJG for TLC: a path whose last digits change often *)
(* and is shown as a dial, and one that common.js describes as a chart,    *)
(* which this instrument does not have.                                    *)
EXTENDS EngineDJG

PathElements ==
    ("engine temperature" :> <<"propulsion", "port", "temperature">>) @@
    ("boat speed" :> <<"navigation", "speedThroughWater">>)

DialAndChart == DOMAIN PathElements
=============================================================================
