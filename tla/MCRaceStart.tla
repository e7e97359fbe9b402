---------------------------- MODULE MCRaceStart ----------------------------
(* An instance of RaceStart for TLC: the user may also sail a route that    *)
(* starts at a line, or one whose name only looks like it.                  *)
EXTENDS RaceStart

AllRoutes == {"none", "idle", "active", "malformed"}
=============================================================================
