SPECIFICATION Spec
CONSTANTS
  a = a
  b = b
  small = small
  large = large
  Files = {a, b}
  Bases <- LargeBase
  BasePages <- TwoPages
  Edits = {cut}
  Inserts = {}
  Deletes = {cut}
  Mark = mark
  Half = half
  None = none
  JournalIds = {1, 2}
  MaxUndo = 1
  MaxPages = 2
  JournalRoom = 2
  MaxVersions = 3
  Protected = TRUE
  DiskFails = TRUE
PROPERTIES
  UnlockBringsBackEdits
