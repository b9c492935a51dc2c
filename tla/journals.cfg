SPECIFICATION Spec
CONSTANTS
  t1 = t1
  t2 = t2
  f = f
  g = g
  Tabs <- TwoTabs
  Files = {f, g}
  JournalIds = {1, 2}
  MaxJournals = 64
  MaxEdits = 2
  Protected = FALSE
  Clears = FALSE
  None = none
SYMMETRY AlikeToo
INVARIANTS
  TypeOK
  OneTab
  EditsAreOnDisk
  NothingLeftBehind
