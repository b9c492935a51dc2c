CONSTANTS
  Scans = {p1}
  Texts = {q}
  Broken = {}
  QueueRoom = 2
  Turns = {upright, turned}
  NoJob = NoJob
  OcrAuto = FALSE
  StepPages = 2
  MaxLayouts = 3
  MaxWorkers = 2
  QuietPolls = 2
  Focuses = {1}
SPECIFICATION Spec
INVARIANTS WaitingIsInHand TextIsOfThisPage DoneMeansRead
PROPERTY ReadingEnds
CHECK_DEADLOCK FALSE
