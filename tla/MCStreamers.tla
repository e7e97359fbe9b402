----------------------------- MODULE MCStreamers -----------------------------
(* Small instances of Streamers for TLC. *)
EXTENDS Streamers, TLC

CONSTANTS w1, w2, i1, i2, i3, i4

TwoWindows == {w1, w2}
FourInstances == {i1, i2, i3, i4}

\* Instances are interchangeable, and so are windows.
Symmetry == Permutations(TwoWindows) \cup Permutations(FourInstances)
=============================================================================
