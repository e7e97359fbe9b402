SPECIFICATION FairSpec
CONSTANTS
  Courses <- MCCourses
  MaxFades = 2
  Deletable = {"leeward"}
INVARIANTS LegsInOrder LegIsSailed PanelMatchesState
PROPERTY StandsBy
