CONSTANTS
  Threads = {t1, t2}
  Changes = {c1, c2}
  Typed = {c1}
  Batches = {b1}
  MaxDocs = 3
  MaxCloses = 1
SPECIFICATION Spec
INVARIANTS EventFollowsDocument LostOnlyWhenRacing NeverOutOfReach HiddenForBatch
SYMMETRY Symmetry
CHECK_DEADLOCK FALSE
