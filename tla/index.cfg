CONSTANTS
  Files = {f1, f2, f3}
  Pages = 2
  Limit = 2
  MaxVersions = 2
  MaxCommands = 4
  MaxFaults = 1
SPECIFICATION Spec
INVARIANTS  BarredTextIsGone NothingLeftOut ResultsLeadHome
SYMMETRY AnyFile
CHECK_DEADLOCK FALSE
