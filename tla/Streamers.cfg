SPECIFICATION Spec
CONSTANTS
    Kind = "StreamOut"
    w1 = w1
    w2 = w2
    i1 = i1
    i2 = i2
    i3 = i3
    i4 = i4
    Windows <- TwoWindows
    Instances <- FourInstances
SYMMETRY Symmetry
INVARIANTS
    OneSpeaker
    HaltIsTrue
