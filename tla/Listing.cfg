CONSTANTS
  Jobs = {j1, j2, j3}
  PerPage = 1
  MaxClock = 2
SPECIFICATION Spec
SYMMETRY Symmetry
INVARIANTS TypeOK PagesAreFull RepeatsAreEntries MissesAreLeaves WindowIsFrozen
CHECK_DEADLOCK FALSE
