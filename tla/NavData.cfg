SPECIFICATION Spec
CONSTANTS
    Timeout = 3
    Boats <- Fleet
INVARIANTS
    SilenceIsShown
    CompassTrueStands
PROPERTIES
    SignalKFirst
    ClaimsHold
    WmmTakesOver
