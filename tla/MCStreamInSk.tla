---------------------------- MODULE MCStreamInSk ----------------------------
(* Small instances of StreamInSk for TLC. *)
EXTENDS StreamInSk

CONSTANTS p1, p2

TwoPaths == {p1, p2}
OneDefault == {p1}
=============================================================================
