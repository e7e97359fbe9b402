----------------------------- MODULE MCRaceMark -----------------------------
(* Instances of RaceMark for TLC: a course of three legs, the least in which *)
(* there is a leg after the next one, and one of one leg, which is sailed    *)
(* the other way round.                                                      *)
EXTENDS RaceMark

MCCourses == ("up" :> <<"start", "windward", "leeward", "finish">>) @@
             ("down" :> <<"finish", "start">>)
=============================================================================
