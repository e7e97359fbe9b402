----------------------------- MODULE MCTimesTUI -----------------------------
(* An instance of TimesTUI for TLC: a path that common.js describes and one *)
(* it does not know, which lets the user ask for a rescan.                  *)
EXTENDS TimesTUI

PathElements ==
    ("boat speed" :> <<"navigation", "speedThroughWater">>) @@
    ("wind" :> <<"environment", "wind", "angleTrueGround">>)

MCPaths == DOMAIN PathElements
=============================================================================
