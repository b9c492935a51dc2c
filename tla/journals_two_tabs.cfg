SPECIFICATION Spec
CONSTANTS
  t1 = t1
  t2 = t2
  f = f
  g = g
  Tabs <- TwoTabs
  Files = {f}
  JournalIds = {1, 2}
  MaxJournals = 64
  MaxEdits = 1
  Protected = TRUE
  Clears = FALSE
  None = none
SYMMETRY Alike
INVARIANT OneTab
