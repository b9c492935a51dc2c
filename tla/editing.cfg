SPECIFICATION Spec
CONSTANTS
  a = a
  b = b
  small = small
  large = large
  Files = {a}
  Bases <- TwoBases
  BasePages <- PagesOf
  Edits = {ink, take}
  Inserts = {take}
  Deletes = {}
  Mark = mark
  Half = half
  None = none
  JournalIds = {1, 2}
  MaxUndo = 3
  MaxPages = 2
  JournalRoom = 2
  MaxVersions = 3
  Protected = FALSE
  DiskFails = FALSE
INVARIANTS
  TypeOK
  WorkerAgrees
  StandsOnFile
  JournalInStep
  JournalsReadable
  OfferIsForThisFile
PROPERTIES
  SaveWritesWhatIsShown
  NoJournalLeftBehind
  TakenOverOnItsVersion
  KeepsPromise
