SPECIFICATION FairPanelSpec
CONSTANT MaxFades = 3
INVARIANT ButtonsMatchState
PROPERTY FadeArms
CHECK_DEADLOCK FALSE
