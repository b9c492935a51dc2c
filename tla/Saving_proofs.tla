--------------------------- MODULE Saving_proofs ---------------------------
(***************************************************************************)
(* Saving for any number of tabs, files and versions: types, that a         *)
(* document's remembered identity stands for what its worker has, that a    *)
(* tab knows the version it wrote itself, that a save replaces what its     *)
(* document was made from, and that saving implements FileStore.            *)
(***************************************************************************)
EXTENDS Saving, FiniteSetTheorems, TLAPS

-----------------------------------------------------------------------------
(* The parts of the inductive invariant.                                    *)

\* A document has a path, a save a target, and a version is aside only while
\* the save that moved it is at it.
Shape ==
  \A t \in Tabs :
    /\ pc[t] # "closed" => path[t] \in Files
    /\ pc[t] \in Saves => target[t] \in Files
    /\ pc[t] \in BeforePlaced => temp[t] \in Forms
    /\ pc[t] \in {"aside", "putBack", "moved"} => aside[t] \in Versions
    /\ pc[t] \notin {"aside", "putBack", "moved"} => aside[t] = None
    /\ pc[t] \in {"closed", "loading"} => base[t] = None
    /\ pc[t] \in {"writing", "written", "checked"} => base[t] # None

\* A stamp is left for every save that is still to give one.
Reserved == clock + Cardinality(Unplaced) <= MaxStamp

\* Only a temporary file that passed the check is on its way to a name.
Checked ==
  \A t \in Tabs : pc[t] \in {"checked", "aside"} => temp[t] \in Forms \ {"cut"}

\* OwnVersionIsKnown, up to the steps of a save too: not from the replacement
\* until the identity is taken again.
Known ==
  \A t \in Tabs :
    pc[t] \notin {"closed", "moved", "placed"} /\ path[t] \notin restored
    /\ disk[path[t]] # None /\ writer[path[t]] = t
      => identity[t] = disk[path[t]].stamp

\* Stamps are given in order, and the original is older than what replaced it.
InOrder ==
  /\ \A t \in Tabs : identity[t] # None => identity[t] <= clock
  /\ \A f \in Files :
       /\ newest[f] <= clock
       /\ disk[f] # None => disk[f].stamp <= newest[f]
  /\ \A t \in Tabs :
       aside[t] # None =>
         /\ aside[t].stamp <= newest[target[t]]
         /\ pc[t] = "moved" => aside[t].stamp < newest[target[t]]

\* IdentityIsOfBase, between the steps of a save too.
Stands ==
  \A t \in Tabs :
    /\ pc[t] \notin {"closed", "loading", "identified"}
    /\ base[t] # None /\ UnchangedOnDisk(t) /\ path[t] \notin restored
    => base[t] = disk[path[t]]

\* What a save to its own file found there is there until the name changes.
Found ==
  \A t \in Tabs :
    pc[t] \in {"preparing", "writing", "written", "checked"}
    /\ kind[t] # "saveAs" /\ t \notin raced
    => target[t] = path[t] /\ UnchangedOnDisk(t)

Typed == TypeOK /\ Shape /\ Reserved
Inv   == Typed /\ Checked /\ InOrder /\ Stands /\ Known /\ Found

-----------------------------------------------------------------------------
(* Types, and the stamps reserved.                                          *)

\* The tabs whose save has yet to give its stamp can be counted.
LEMMA UnplacedFacts ==
  ASSUME TypeOK
  PROVE  /\ IsFiniteSet(Unplaced) /\ Cardinality(Unplaced) \in Nat
         /\ \A t \in Tabs : pc[t] \in BeforePlaced =>
              Cardinality(Unplaced) >= 1
<1>1. IsFiniteSet(Unplaced) /\ Cardinality(Unplaced) \in Nat
  BY SavingAssumption, FS_Subset, FS_CardinalityType DEF Unplaced
<1>2. ASSUME NEW t \in Tabs, pc[t] \in BeforePlaced
      PROVE  Cardinality(Unplaced) >= 1
  <2>1. Unplaced # {}
    BY <1>2 DEF Unplaced
  <2>. QED  BY <1>1, <2>1, FS_EmptySet
<1>. QED  BY <1>1, <1>2

\* A step of one tab counts it in, out, or not at all.
LEMMA UnplacedSteps ==
  ASSUME TypeOK, NEW t \in Tabs, NEW stage, pc' = [pc EXCEPT ![t] = stage]
  PROVE  LET before == pc[t] \in BeforePlaced
             after  == stage \in BeforePlaced
             n      == Cardinality(Unplaced)
         IN  /\ (after <=> before) => Cardinality(Unplaced') = n
             /\ ~before /\ after => Cardinality(Unplaced') = n + 1
             /\ before /\ ~after => Cardinality(Unplaced') = n - 1
<1>1. IsFiniteSet(Unplaced)
  BY UnplacedFacts
<1>2. /\ pc'[t] = stage
      /\ \A u \in Tabs : u # t => pc'[u] = pc[u]
  BY DEF TypeOK
<1>3. t \in Unplaced <=> pc[t] \in BeforePlaced
  BY DEF Unplaced
<1>4. CASE stage \in BeforePlaced
  <2>1. Unplaced' = Unplaced \cup {t}
    BY <1>2, <1>4 DEF Unplaced
  <2>. QED  BY <1>1, <1>3, <1>4, <2>1, FS_AddElement
<1>5. CASE stage \notin BeforePlaced
  <2>1. Unplaced' = Unplaced \ {t}
    BY <1>2, <1>5 DEF Unplaced
  <2>. QED  BY <1>1, <1>3, <1>5, <2>1, FS_RemoveElement
<1>. QED  BY <1>4, <1>5

\* The start has no document and one version of each file.
LEMMA TypedAtStart == Init => Typed
<1> SUFFICES ASSUME Init PROVE Typed
  OBVIOUS
<1>1. TypeOK
  BY SavingAssumption DEF Init, NothingOpen, TypeOK, Stamps, Versions, Forms
<1>2. Shape
  BY DEF Init, NothingOpen, Shape, Saves, BeforePlaced
<1>3. Reserved
  <2>1. Unplaced = {}
    BY DEF Init, NothingOpen, Unplaced, BeforePlaced
  <2>2. clock = 1 /\ MaxStamp \in Nat \ {0}
    BY SavingAssumption DEF Init
  <2>. QED  BY <2>1, <2>2, FS_EmptySet DEF Reserved
<1>. QED  BY <1>1, <1>2, <1>3 DEF Typed

\* A step that gives no stamp, and starts no save, leaves enough of them.
LEMMA ReservedKept ==
  ASSUME Typed, Unplaced' \subseteq Unplaced, clock' = clock
  PROVE  Reserved'
<1>1. /\ Cardinality(Unplaced) \in Nat /\ clock \in Nat /\ MaxStamp \in Nat
      /\ clock + Cardinality(Unplaced) <= MaxStamp
  BY UnplacedFacts, SavingAssumption DEF Typed, TypeOK, Stamps, Reserved
<1>2. /\ Cardinality(Unplaced') \in Nat
      /\ Cardinality(Unplaced') <= Cardinality(Unplaced)
  BY UnplacedFacts, FS_Subset, FS_CardinalityType DEF Typed
<1>. QED  BY <1>1, <1>2 DEF Reserved

\* A save that gives its stamp uses the one reserved for it.
LEMMA PlacedKeeps ==
  ASSUME Typed, NEW t \in Tabs, pc[t] \in {"checked", "aside"},
         NEW next \in {"placed", "moved"}, Placed(t, next)
  PROVE  clock' = clock + 1 /\ clock' \in Stamps /\ Reserved'
<1>1. /\ Cardinality(Unplaced) \in Nat /\ clock \in Nat \ {0}
      /\ MaxStamp \in Nat /\ clock + Cardinality(Unplaced) <= MaxStamp
      /\ Cardinality(Unplaced) >= 1
  BY UnplacedFacts, SavingAssumption
     DEF Typed, TypeOK, Stamps, Reserved, BeforePlaced
<1>2. clock' = clock + 1 /\ pc' = [pc EXCEPT ![t] = next]
  BY DEF Placed, Arrives
<1>3. Cardinality(Unplaced') = Cardinality(Unplaced) - 1
  <2>1. pc[t] \in BeforePlaced /\ next \notin BeforePlaced
    BY DEF BeforePlaced
  <2>. QED  BY <1>2, <2>1, UnplacedSteps DEF Typed
<1>. QED  BY <1>1, <1>2, <1>3 DEF Reserved, Stamps

\* Every step leaves the types and the shape right.
LEMMA TypeKeeps ==
  ASSUME Typed, [Next]_vars
  PROVE  TypeOK' /\ Shape'
<1> USE SavingAssumption
    DEF Typed, TypeOK, Shape, Saves, BeforePlaced, Versions, Forms, Stamps, StampOf,
        document, saveVars, ghosts
<1>1. ASSUME NEW t \in Tabs, NEW f \in Files, StartLoad(t, f)
      PROVE  TypeOK' /\ Shape'
  <2>1. disk[f].stamp \in 1 .. MaxStamp
    BY <1>1 DEF StartLoad
  <2>. QED  BY <1>1, <2>1 DEF StartLoad
<1>2. ASSUME NEW t \in Tabs, WorkerReads(t)
      PROVE  TypeOK' /\ Shape'
  BY <1>2 DEF WorkerReads
<1>3. ASSUME NEW t \in Tabs, LoadFails(t)
      PROVE  TypeOK' /\ Shape'
  BY <1>3 DEF LoadFails, NoDocument
<1>4. ASSUME NEW t \in Tabs, Edit(t)
      PROVE  TypeOK' /\ Shape'
  BY <1>4 DEF Edit
<1>5. ASSUME NEW t \in Tabs, WorkerDies(t)
      PROVE  TypeOK' /\ Shape'
  BY <1>5 DEF WorkerDies
<1>6. ASSUME NEW t \in Tabs, Reopen(t)
      PROVE  TypeOK' /\ Shape'
  BY <1>6 DEF Reopen
<1>7. ASSUME NEW t \in Tabs, Close(t)
      PROVE  TypeOK' /\ Shape'
  BY <1>7 DEF Close, NoDocument
<1>8. ASSUME NEW t \in Tabs, NEW f \in Files,
             NEW how \in {"save", "saveAs", "mark"}, Begin(t, how, f)
      PROVE  TypeOK' /\ Shape'
  BY <1>8 DEF Begin
<1>9. ASSUME NEW t \in Tabs, AskWorker(t)
      PROVE  TypeOK' /\ Shape'
  BY <1>9 DEF AskWorker
<1>10. ASSUME NEW t \in Tabs, NoWorker(t)
      PROVE  TypeOK' /\ Shape'
  BY <1>10 DEF NoWorker, Over
<1>11. ASSUME NEW t \in Tabs, WorkerWrites(t)
      PROVE  TypeOK' /\ Shape'
  BY <1>11 DEF WorkerWrites
<1>12. ASSUME NEW t \in Tabs, WorkerRefuses(t)
      PROVE  TypeOK' /\ Shape'
  BY <1>12 DEF WorkerRefuses, Over
<1>13. ASSUME NEW t \in Tabs, WorkerLost(t)
      PROVE  TypeOK' /\ Shape'
  BY <1>13 DEF WorkerLost, Over
<1>14. ASSUME NEW t \in Tabs, CheckPasses(t)
      PROVE  TypeOK' /\ Shape'
  BY <1>14 DEF CheckPasses
<1>15. ASSUME NEW t \in Tabs, CheckFails(t)
      PROVE  TypeOK' /\ Shape'
  BY <1>15 DEF CheckFails, Over
<1>16. ASSUME NEW t \in Tabs, MoveNew(t)
      PROVE  TypeOK' /\ Shape'
  <2>1. clock' = clock + 1 /\ clock' \in Stamps
    BY <1>16, PlacedKeeps DEF MoveNew
  <2>. QED  BY <1>16, <2>1 DEF MoveNew, Placed, Arrives, Renamed
<1>17. ASSUME NEW t \in Tabs, MoveAside(t)
      PROVE  TypeOK' /\ Shape'
  BY <1>17 DEF MoveAside, Renamed
<1>18. ASSUME NEW t \in Tabs, MoveIn(t)
      PROVE  TypeOK' /\ Shape'
  <2>1. clock' = clock + 1 /\ clock' \in Stamps
    BY <1>18, PlacedKeeps DEF MoveIn
  <2>. QED  BY <1>18, <2>1 DEF MoveIn, Placed, Arrives, Renamed
<1>19. ASSUME NEW t \in Tabs, ReplaceFails(t)
      PROVE  TypeOK' /\ Shape'
  BY <1>19 DEF ReplaceFails, Over
<1>20. ASSUME NEW t \in Tabs, MoveInFails(t)
      PROVE  TypeOK' /\ Shape'
  BY <1>20 DEF MoveInFails
<1>21. ASSUME NEW t \in Tabs, PutBack(t)
      PROVE  TypeOK' /\ Shape'
  BY <1>21 DEF PutBack, Over, Renamed
<1>22. ASSUME NEW t \in Tabs, PutBackFails(t)
      PROVE  TypeOK' /\ Shape'
  BY <1>22 DEF PutBackFails, Over
<1>23. ASSUME NEW t \in Tabs, RemoveBackup(t)
      PROVE  TypeOK' /\ Shape'
  BY <1>23 DEF RemoveBackup
<1>24. ASSUME NEW t \in Tabs, Identify(t)
      PROVE  TypeOK' /\ Shape'
  BY <1>24 DEF Identify
<1>25. ASSUME NEW t \in Tabs, Rebase(t)
      PROVE  TypeOK' /\ Shape'
  BY <1>25 DEF Rebase, Over
<1>26. ASSUME NEW f \in Files, OtherWrites(f)
      PROVE  TypeOK' /\ Shape'
  BY <1>26, UnplacedFacts DEF OtherWrites, Arrives, Renamed, Room
<1>27. ASSUME NEW f \in Files, OtherDeletes(f)
      PROVE  TypeOK' /\ Shape'
  BY <1>27 DEF OtherDeletes, Renamed
<1>28. CASE Crash
  BY <1>28 DEF Crash
<1>29. CASE UNCHANGED vars
  BY <1>29 DEF vars
<1> HIDE DEF Typed, TypeOK, Shape
<1>. QED
  BY <1>1, <1>2, <1>3, <1>4, <1>5, <1>6, <1>7, <1>8, <1>9, <1>10, <1>11, <1>12,
     <1>13, <1>14, <1>15, <1>16, <1>17, <1>18, <1>19, <1>20, <1>21, <1>22,
     <1>23, <1>24, <1>25, <1>26, <1>27, <1>28, <1>29
     DEF Next, Step, Proceed

\* Every step leaves a stamp for each save that is still to give one.
LEMMA ReserveKeeps ==
  ASSUME Typed, [Next]_vars
  PROVE  Reserved'
<1> DEFINE Fewer == Unplaced' \subseteq Unplaced /\ clock' = clock
<1>0. /\ Cardinality(Unplaced) \in Nat /\ clock \in Nat /\ MaxStamp \in Nat
      /\ clock + Cardinality(Unplaced) <= MaxStamp
  BY UnplacedFacts, SavingAssumption DEF Typed, TypeOK, Stamps, Reserved
<1>1. ASSUME NEW t \in Tabs, NEW f \in Files, StartLoad(t, f)
      PROVE  Fewer
  BY <1>1 DEF StartLoad, Typed, TypeOK, Unplaced, BeforePlaced
<1>2. ASSUME NEW t \in Tabs, WorkerReads(t)
      PROVE  Fewer
  BY <1>2 DEF WorkerReads, Typed, TypeOK, Unplaced, BeforePlaced
<1>3. ASSUME NEW t \in Tabs, LoadFails(t)
      PROVE  Fewer
  BY <1>3 DEF LoadFails, NoDocument, Typed, TypeOK, Unplaced, BeforePlaced
<1>4. ASSUME NEW t \in Tabs, Edit(t)
      PROVE  Fewer
  BY <1>4 DEF Edit, Typed, TypeOK, Unplaced, BeforePlaced
<1>5. ASSUME NEW t \in Tabs, WorkerDies(t)
      PROVE  Fewer
  BY <1>5 DEF WorkerDies, Typed, TypeOK, Unplaced, BeforePlaced
<1>6. ASSUME NEW t \in Tabs, Reopen(t)
      PROVE  Fewer
  BY <1>6 DEF Reopen, Typed, TypeOK, Unplaced, BeforePlaced
<1>7. ASSUME NEW t \in Tabs, Close(t)
      PROVE  Fewer
  BY <1>7 DEF Close, NoDocument, Typed, TypeOK, Unplaced, BeforePlaced
<1>8. ASSUME NEW t \in Tabs, NEW f \in Files,
             NEW how \in {"save", "saveAs", "mark"}, Begin(t, how, f)
      PROVE  Reserved'
  <2>1. /\ pc[t] = "open" /\ clock' = clock
        /\ clock + Cardinality(Unplaced) < MaxStamp
        /\ pc' = [pc EXCEPT ![t] = "preparing"]
    BY <1>8 DEF Begin, Room
  <2>2. Cardinality(Unplaced') = Cardinality(Unplaced) + 1
    <3>1. pc[t] \notin BeforePlaced /\ "preparing" \in BeforePlaced
      BY <2>1 DEF BeforePlaced
    <3>. QED  BY <2>1, <3>1, UnplacedSteps DEF Typed
  <2>. QED  BY <1>0, <2>1, <2>2 DEF Reserved
<1>9. ASSUME NEW t \in Tabs, AskWorker(t)
      PROVE  Fewer
  BY <1>9 DEF AskWorker, Typed, TypeOK, Unplaced, BeforePlaced
<1>10. ASSUME NEW t \in Tabs, NoWorker(t)
      PROVE  Fewer
  BY <1>10 DEF NoWorker, Over, Typed, TypeOK, Unplaced, BeforePlaced
<1>11. ASSUME NEW t \in Tabs, WorkerWrites(t)
      PROVE  Fewer
  BY <1>11 DEF WorkerWrites, Typed, TypeOK, Unplaced, BeforePlaced
<1>12. ASSUME NEW t \in Tabs, WorkerRefuses(t)
      PROVE  Fewer
  BY <1>12 DEF WorkerRefuses, Over, Typed, TypeOK, Unplaced, BeforePlaced
<1>13. ASSUME NEW t \in Tabs, WorkerLost(t)
      PROVE  Fewer
  BY <1>13 DEF WorkerLost, Over, Typed, TypeOK, Unplaced, BeforePlaced
<1>14. ASSUME NEW t \in Tabs, CheckPasses(t)
      PROVE  Fewer
  BY <1>14 DEF CheckPasses, Typed, TypeOK, Unplaced, BeforePlaced
<1>15. ASSUME NEW t \in Tabs, CheckFails(t)
      PROVE  Fewer
  BY <1>15 DEF CheckFails, Over, Typed, TypeOK, Unplaced, BeforePlaced
<1>16. ASSUME NEW t \in Tabs, MoveNew(t)
      PROVE  Reserved'
  BY <1>16, PlacedKeeps DEF MoveNew
<1>17. ASSUME NEW t \in Tabs, MoveAside(t)
      PROVE  Fewer
  BY <1>17 DEF MoveAside, Typed, TypeOK, Unplaced, BeforePlaced
<1>18. ASSUME NEW t \in Tabs, MoveIn(t)
      PROVE  Reserved'
  BY <1>18, PlacedKeeps DEF MoveIn
<1>19. ASSUME NEW t \in Tabs, ReplaceFails(t)
      PROVE  Fewer
  BY <1>19 DEF ReplaceFails, Over, Typed, TypeOK, Unplaced, BeforePlaced
<1>20. ASSUME NEW t \in Tabs, MoveInFails(t)
      PROVE  Fewer
  BY <1>20 DEF MoveInFails, Typed, TypeOK, Unplaced, BeforePlaced
<1>21. ASSUME NEW t \in Tabs, PutBack(t)
      PROVE  Fewer
  BY <1>21 DEF PutBack, Over, Typed, TypeOK, Unplaced, BeforePlaced
<1>22. ASSUME NEW t \in Tabs, PutBackFails(t)
      PROVE  Fewer
  BY <1>22 DEF PutBackFails, Over, Typed, TypeOK, Unplaced, BeforePlaced
<1>23. ASSUME NEW t \in Tabs, RemoveBackup(t)
      PROVE  Fewer
  BY <1>23 DEF RemoveBackup, Typed, TypeOK, Unplaced, BeforePlaced
<1>24. ASSUME NEW t \in Tabs, Identify(t)
      PROVE  Fewer
  BY <1>24 DEF Identify, Typed, TypeOK, Unplaced, BeforePlaced
<1>25. ASSUME NEW t \in Tabs, Rebase(t)
      PROVE  Fewer
  BY <1>25 DEF Rebase, Over, Typed, TypeOK, Unplaced, BeforePlaced
<1>26. ASSUME NEW f \in Files, OtherWrites(f)
      PROVE  Reserved'
  <2>1. Unplaced' = Unplaced /\ clock' = clock + 1
    BY <1>26 DEF OtherWrites, Arrives, Unplaced
  <2>. QED  BY <1>0, <1>26, <2>1 DEF Reserved, OtherWrites, Room
<1>27. ASSUME NEW f \in Files, OtherDeletes(f)
      PROVE  Fewer
  BY <1>27 DEF OtherDeletes, Typed, TypeOK, Unplaced, BeforePlaced
<1>28. ASSUME Crash
      PROVE  Fewer
  BY <1>28 DEF Crash, Typed, TypeOK, Unplaced, BeforePlaced
<1>29. ASSUME UNCHANGED vars
      PROVE  Fewer
  BY <1>29 DEF vars, Typed, TypeOK, Unplaced, BeforePlaced
<1>30. Fewer => Reserved'
  BY ReservedKept
<1> HIDE DEF Fewer
<1>. QED
  BY <1>1, <1>2, <1>3, <1>4, <1>5, <1>6, <1>7, <1>8, <1>9, <1>10, <1>11, <1>12,
     <1>13, <1>14, <1>15, <1>16, <1>17, <1>18, <1>19, <1>20, <1>21, <1>22,
     <1>23, <1>24, <1>25, <1>26, <1>27, <1>28, <1>29, <1>30
     DEF Next, Step, Proceed

\* Every step leaves only checked files on their way.
LEMMA CheckedKeeps ==
  ASSUME Inv, [Next]_vars
  PROVE  Checked'
<1> USE
    DEF Inv, Typed, TypeOK, Shape, Saves, BeforePlaced, StampOf,
        document, saveVars, ghosts, Checked, Forms
<1>1. ASSUME NEW t \in Tabs, NEW f \in Files, StartLoad(t, f)
      PROVE  Checked'
  BY <1>1 DEF StartLoad
<1>2. ASSUME NEW t \in Tabs, WorkerReads(t)
      PROVE  Checked'
  BY <1>2 DEF WorkerReads
<1>3. ASSUME NEW t \in Tabs, LoadFails(t)
      PROVE  Checked'
  BY <1>3 DEF LoadFails, NoDocument
<1>4. ASSUME NEW t \in Tabs, Edit(t)
      PROVE  Checked'
  BY <1>4 DEF Edit
<1>5. ASSUME NEW t \in Tabs, WorkerDies(t)
      PROVE  Checked'
  BY <1>5 DEF WorkerDies
<1>6. ASSUME NEW t \in Tabs, Reopen(t)
      PROVE  Checked'
  BY <1>6 DEF Reopen
<1>7. ASSUME NEW t \in Tabs, Close(t)
      PROVE  Checked'
  BY <1>7 DEF Close, NoDocument
<1>8. ASSUME NEW t \in Tabs, NEW f \in Files,
             NEW how \in {"save", "saveAs", "mark"}, Begin(t, how, f)
      PROVE  Checked'
  BY <1>8 DEF Begin
<1>9. ASSUME NEW t \in Tabs, AskWorker(t)
      PROVE  Checked'
  BY <1>9 DEF AskWorker
<1>10. ASSUME NEW t \in Tabs, NoWorker(t)
      PROVE  Checked'
  BY <1>10 DEF NoWorker, Over
<1>11. ASSUME NEW t \in Tabs, WorkerWrites(t)
      PROVE  Checked'
  BY <1>11 DEF WorkerWrites, Complete
<1>12. ASSUME NEW t \in Tabs, WorkerRefuses(t)
      PROVE  Checked'
  BY <1>12 DEF WorkerRefuses, Over
<1>13. ASSUME NEW t \in Tabs, WorkerLost(t)
      PROVE  Checked'
  BY <1>13 DEF WorkerLost, Over
<1>14. ASSUME NEW t \in Tabs, CheckPasses(t)
      PROVE  Checked'
  BY <1>14 DEF CheckPasses, Complete
<1>15. ASSUME NEW t \in Tabs, CheckFails(t)
      PROVE  Checked'
  BY <1>15 DEF CheckFails, Over, Complete
<1>16. ASSUME NEW t \in Tabs, MoveNew(t)
      PROVE  Checked'
  BY <1>16 DEF MoveNew, Placed, Arrives, Renamed
<1>17. ASSUME NEW t \in Tabs, MoveAside(t)
      PROVE  Checked'
  BY <1>17 DEF MoveAside, Renamed
<1>18. ASSUME NEW t \in Tabs, MoveIn(t)
      PROVE  Checked'
  BY <1>18 DEF MoveIn, Placed, Arrives, Renamed
<1>19. ASSUME NEW t \in Tabs, ReplaceFails(t)
      PROVE  Checked'
  BY <1>19 DEF ReplaceFails, Over
<1>20. ASSUME NEW t \in Tabs, MoveInFails(t)
      PROVE  Checked'
  BY <1>20 DEF MoveInFails
<1>21. ASSUME NEW t \in Tabs, PutBack(t)
      PROVE  Checked'
  BY <1>21 DEF PutBack, Over, Renamed
<1>22. ASSUME NEW t \in Tabs, PutBackFails(t)
      PROVE  Checked'
  BY <1>22 DEF PutBackFails, Over
<1>23. ASSUME NEW t \in Tabs, RemoveBackup(t)
      PROVE  Checked'
  BY <1>23 DEF RemoveBackup
<1>24. ASSUME NEW t \in Tabs, Identify(t)
      PROVE  Checked'
  BY <1>24 DEF Identify
<1>25. ASSUME NEW t \in Tabs, Rebase(t)
      PROVE  Checked'
  BY <1>25 DEF Rebase, Over
<1>26. ASSUME NEW f \in Files, OtherWrites(f)
      PROVE  Checked'
  BY <1>26 DEF OtherWrites, Arrives, Renamed
<1>27. ASSUME NEW f \in Files, OtherDeletes(f)
      PROVE  Checked'
  BY <1>27 DEF OtherDeletes, Renamed
<1>28. CASE Crash
  BY <1>28 DEF Crash
<1>29. CASE UNCHANGED vars
  BY <1>29 DEF vars
<1> HIDE DEF Inv, Typed, TypeOK, Shape, Checked, Forms
<1>. QED
  BY <1>1, <1>2, <1>3, <1>4, <1>5, <1>6, <1>7, <1>8, <1>9, <1>10, <1>11, <1>12,
     <1>13, <1>14, <1>15, <1>16, <1>17, <1>18, <1>19, <1>20, <1>21, <1>22,
     <1>23, <1>24, <1>25, <1>26, <1>27, <1>28, <1>29
     DEF Next, Step, Proceed

\* Every step leaves the stamps in order.
LEMMA InOrderKeeps ==
  ASSUME Inv, [Next]_vars
  PROVE  InOrder'
<1> USE SavingAssumption
    DEF Inv, Typed, TypeOK, Shape, Saves, BeforePlaced, StampOf,
        document, saveVars, ghosts, InOrder, Stamps, Versions, Forms
<1>1. ASSUME NEW t \in Tabs, NEW f \in Files, StartLoad(t, f)
      PROVE  InOrder'
  BY <1>1 DEF StartLoad
<1>2. ASSUME NEW t \in Tabs, WorkerReads(t)
      PROVE  InOrder'
  BY <1>2 DEF WorkerReads
<1>3. ASSUME NEW t \in Tabs, LoadFails(t)
      PROVE  InOrder'
  BY <1>3 DEF LoadFails, NoDocument
<1>4. ASSUME NEW t \in Tabs, Edit(t)
      PROVE  InOrder'
  BY <1>4 DEF Edit
<1>5. ASSUME NEW t \in Tabs, WorkerDies(t)
      PROVE  InOrder'
  BY <1>5 DEF WorkerDies
<1>6. ASSUME NEW t \in Tabs, Reopen(t)
      PROVE  InOrder'
  BY <1>6 DEF Reopen
<1>7. ASSUME NEW t \in Tabs, Close(t)
      PROVE  InOrder'
  BY <1>7 DEF Close, NoDocument
<1>8. ASSUME NEW t \in Tabs, NEW f \in Files,
             NEW how \in {"save", "saveAs", "mark"}, Begin(t, how, f)
      PROVE  InOrder'
  BY <1>8 DEF Begin
<1>9. ASSUME NEW t \in Tabs, AskWorker(t)
      PROVE  InOrder'
  BY <1>9 DEF AskWorker
<1>10. ASSUME NEW t \in Tabs, NoWorker(t)
      PROVE  InOrder'
  BY <1>10 DEF NoWorker, Over
<1>11. ASSUME NEW t \in Tabs, WorkerWrites(t)
      PROVE  InOrder'
  BY <1>11 DEF WorkerWrites
<1>12. ASSUME NEW t \in Tabs, WorkerRefuses(t)
      PROVE  InOrder'
  BY <1>12 DEF WorkerRefuses, Over
<1>13. ASSUME NEW t \in Tabs, WorkerLost(t)
      PROVE  InOrder'
  BY <1>13 DEF WorkerLost, Over
<1>14. ASSUME NEW t \in Tabs, CheckPasses(t)
      PROVE  InOrder'
  BY <1>14 DEF CheckPasses
<1>15. ASSUME NEW t \in Tabs, CheckFails(t)
      PROVE  InOrder'
  BY <1>15 DEF CheckFails, Over
<1>16. ASSUME NEW t \in Tabs, MoveNew(t)
      PROVE  InOrder'
  BY <1>16 DEF MoveNew, Placed, Arrives, Renamed
<1>17. ASSUME NEW t \in Tabs, MoveAside(t)
      PROVE  InOrder'
  BY <1>17 DEF MoveAside, Renamed
<1>18. ASSUME NEW t \in Tabs, MoveIn(t)
      PROVE  InOrder'
  BY <1>18 DEF MoveIn, Placed, Arrives, Renamed
<1>19. ASSUME NEW t \in Tabs, ReplaceFails(t)
      PROVE  InOrder'
  BY <1>19 DEF ReplaceFails, Over
<1>20. ASSUME NEW t \in Tabs, MoveInFails(t)
      PROVE  InOrder'
  BY <1>20 DEF MoveInFails
<1>21. ASSUME NEW t \in Tabs, PutBack(t)
      PROVE  InOrder'
  BY <1>21 DEF PutBack, Over, Renamed
<1>22. ASSUME NEW t \in Tabs, PutBackFails(t)
      PROVE  InOrder'
  BY <1>22 DEF PutBackFails, Over
<1>23. ASSUME NEW t \in Tabs, RemoveBackup(t)
      PROVE  InOrder'
  BY <1>23 DEF RemoveBackup
<1>24. ASSUME NEW t \in Tabs, Identify(t)
      PROVE  InOrder'
  BY <1>24 DEF Identify
<1>25. ASSUME NEW t \in Tabs, Rebase(t)
      PROVE  InOrder'
  BY <1>25 DEF Rebase, Over
<1>26. ASSUME NEW f \in Files, OtherWrites(f)
      PROVE  InOrder'
  BY <1>26 DEF OtherWrites, Arrives, Renamed
<1>27. ASSUME NEW f \in Files, OtherDeletes(f)
      PROVE  InOrder'
  BY <1>27 DEF OtherDeletes, Renamed
<1>28. CASE Crash
  BY <1>28 DEF Crash
<1>29. CASE UNCHANGED vars
  BY <1>29 DEF vars
<1> HIDE DEF Inv, Typed, TypeOK, Shape, InOrder
<1>. QED
  BY <1>1, <1>2, <1>3, <1>4, <1>5, <1>6, <1>7, <1>8, <1>9, <1>10, <1>11, <1>12,
     <1>13, <1>14, <1>15, <1>16, <1>17, <1>18, <1>19, <1>20, <1>21, <1>22,
     <1>23, <1>24, <1>25, <1>26, <1>27, <1>28, <1>29
     DEF Next, Step, Proceed

\* Every step leaves identities standing for what the worker has.
LEMMA StandsKeeps ==
  ASSUME Inv, [Next]_vars
  PROVE  Stands'
<1> USE SavingAssumption
    DEF Inv, Typed, TypeOK, Shape, Saves, BeforePlaced, StampOf,
        document, saveVars, ghosts, Stands, UnchangedOnDisk
<1>1. ASSUME NEW t \in Tabs, NEW f \in Files, StartLoad(t, f)
      PROVE  Stands'
  BY <1>1 DEF StartLoad
<1>2. ASSUME NEW t \in Tabs, WorkerReads(t)
      PROVE  Stands'
  BY <1>2 DEF WorkerReads
<1>3. ASSUME NEW t \in Tabs, LoadFails(t)
      PROVE  Stands'
  BY <1>3 DEF LoadFails, NoDocument
<1>4. ASSUME NEW t \in Tabs, Edit(t)
      PROVE  Stands'
  BY <1>4 DEF Edit
<1>5. ASSUME NEW t \in Tabs, WorkerDies(t)
      PROVE  Stands'
  BY <1>5 DEF WorkerDies
<1>6. ASSUME NEW t \in Tabs, Reopen(t)
      PROVE  Stands'
  BY <1>6 DEF Reopen
<1>7. ASSUME NEW t \in Tabs, Close(t)
      PROVE  Stands'
  BY <1>7 DEF Close, NoDocument
<1>8. ASSUME NEW t \in Tabs, NEW f \in Files,
             NEW how \in {"save", "saveAs", "mark"}, Begin(t, how, f)
      PROVE  Stands'
  BY <1>8 DEF Begin
<1>9. ASSUME NEW t \in Tabs, AskWorker(t)
      PROVE  Stands'
  BY <1>9 DEF AskWorker
<1>10. ASSUME NEW t \in Tabs, NoWorker(t)
      PROVE  Stands'
  BY <1>10 DEF NoWorker, Over
<1>11. ASSUME NEW t \in Tabs, WorkerWrites(t)
      PROVE  Stands'
  BY <1>11 DEF WorkerWrites
<1>12. ASSUME NEW t \in Tabs, WorkerRefuses(t)
      PROVE  Stands'
  BY <1>12 DEF WorkerRefuses, Over
<1>13. ASSUME NEW t \in Tabs, WorkerLost(t)
      PROVE  Stands'
  BY <1>13 DEF WorkerLost, Over
<1>14. ASSUME NEW t \in Tabs, CheckPasses(t)
      PROVE  Stands'
  BY <1>14 DEF CheckPasses
<1>15. ASSUME NEW t \in Tabs, CheckFails(t)
      PROVE  Stands'
  BY <1>15 DEF CheckFails, Over
<1>16. ASSUME NEW t \in Tabs, MoveNew(t)
      PROVE  Stands'
  BY <1>16 DEF MoveNew, Placed, Arrives, Renamed, InOrder, Stamps, Versions, Forms
<1>17. ASSUME NEW t \in Tabs, MoveAside(t)
      PROVE  Stands'
  BY <1>17 DEF MoveAside, Renamed
<1>18. ASSUME NEW t \in Tabs, MoveIn(t)
      PROVE  Stands'
  BY <1>18 DEF MoveIn, Placed, Arrives, Renamed, InOrder, Stamps, Versions, Forms
<1>19. ASSUME NEW t \in Tabs, ReplaceFails(t)
      PROVE  Stands'
  BY <1>19 DEF ReplaceFails, Over
<1>20. ASSUME NEW t \in Tabs, MoveInFails(t)
      PROVE  Stands'
  BY <1>20 DEF MoveInFails
<1>21. ASSUME NEW t \in Tabs, PutBack(t)
      PROVE  Stands'
  BY <1>21 DEF PutBack, Over, Renamed
<1>22. ASSUME NEW t \in Tabs, PutBackFails(t)
      PROVE  Stands'
  BY <1>22 DEF PutBackFails, Over
<1>23. ASSUME NEW t \in Tabs, RemoveBackup(t)
      PROVE  Stands'
  BY <1>23 DEF RemoveBackup
<1>24. ASSUME NEW t \in Tabs, Identify(t)
      PROVE  Stands'
  BY <1>24 DEF Identify
<1>25. ASSUME NEW t \in Tabs, Rebase(t)
      PROVE  Stands'
  BY <1>25 DEF Rebase, Over
<1>26. ASSUME NEW f \in Files, OtherWrites(f)
      PROVE  Stands'
  BY <1>26 DEF OtherWrites, Arrives, Renamed, InOrder, Stamps, Versions, Forms
<1>27. ASSUME NEW f \in Files, OtherDeletes(f)
      PROVE  Stands'
  BY <1>27 DEF OtherDeletes, Renamed
<1>28. CASE Crash
  BY <1>28 DEF Crash
<1>29. CASE UNCHANGED vars
  BY <1>29 DEF vars
<1> HIDE DEF Inv, Typed, TypeOK, Shape, Stands
<1>. QED
  BY <1>1, <1>2, <1>3, <1>4, <1>5, <1>6, <1>7, <1>8, <1>9, <1>10, <1>11, <1>12,
     <1>13, <1>14, <1>15, <1>16, <1>17, <1>18, <1>19, <1>20, <1>21, <1>22,
     <1>23, <1>24, <1>25, <1>26, <1>27, <1>28, <1>29
     DEF Next, Step, Proceed

\* Every step leaves every tab knowing the version it wrote.
LEMMA KnownKeeps ==
  ASSUME Inv, [Next]_vars
  PROVE  Known'
<1> USE SavingAssumption
    DEF Inv, Typed, TypeOK, Shape, Saves, BeforePlaced, StampOf,
        document, saveVars, ghosts, Known
<1>1. ASSUME NEW t \in Tabs, NEW f \in Files, StartLoad(t, f)
      PROVE  Known'
  BY <1>1 DEF StartLoad
<1>2. ASSUME NEW t \in Tabs, WorkerReads(t)
      PROVE  Known'
  BY <1>2 DEF WorkerReads
<1>3. ASSUME NEW t \in Tabs, LoadFails(t)
      PROVE  Known'
  BY <1>3 DEF LoadFails, NoDocument
<1>4. ASSUME NEW t \in Tabs, Edit(t)
      PROVE  Known'
  BY <1>4 DEF Edit
<1>5. ASSUME NEW t \in Tabs, WorkerDies(t)
      PROVE  Known'
  BY <1>5 DEF WorkerDies
<1>6. ASSUME NEW t \in Tabs, Reopen(t)
      PROVE  Known'
  BY <1>6 DEF Reopen
<1>7. ASSUME NEW t \in Tabs, Close(t)
      PROVE  Known'
  BY <1>7 DEF Close, NoDocument
<1>8. ASSUME NEW t \in Tabs, NEW f \in Files,
             NEW how \in {"save", "saveAs", "mark"}, Begin(t, how, f)
      PROVE  Known'
  BY <1>8 DEF Begin
<1>9. ASSUME NEW t \in Tabs, AskWorker(t)
      PROVE  Known'
  BY <1>9 DEF AskWorker
<1>10. ASSUME NEW t \in Tabs, NoWorker(t)
      PROVE  Known'
  BY <1>10 DEF NoWorker, Over
<1>11. ASSUME NEW t \in Tabs, WorkerWrites(t)
      PROVE  Known'
  BY <1>11 DEF WorkerWrites
<1>12. ASSUME NEW t \in Tabs, WorkerRefuses(t)
      PROVE  Known'
  BY <1>12 DEF WorkerRefuses, Over
<1>13. ASSUME NEW t \in Tabs, WorkerLost(t)
      PROVE  Known'
  BY <1>13 DEF WorkerLost, Over
<1>14. ASSUME NEW t \in Tabs, CheckPasses(t)
      PROVE  Known'
  BY <1>14 DEF CheckPasses
<1>15. ASSUME NEW t \in Tabs, CheckFails(t)
      PROVE  Known'
  BY <1>15 DEF CheckFails, Over
<1>16. ASSUME NEW t \in Tabs, MoveNew(t)
      PROVE  Known'
  BY <1>16 DEF MoveNew, Placed, Arrives, Renamed
<1>17. ASSUME NEW t \in Tabs, MoveAside(t)
      PROVE  Known'
  BY <1>17 DEF MoveAside, Renamed
<1>18. ASSUME NEW t \in Tabs, MoveIn(t)
      PROVE  Known'
  BY <1>18 DEF MoveIn, Placed, Arrives, Renamed
<1>19. ASSUME NEW t \in Tabs, ReplaceFails(t)
      PROVE  Known'
  BY <1>19 DEF ReplaceFails, Over
<1>20. ASSUME NEW t \in Tabs, MoveInFails(t)
      PROVE  Known'
  BY <1>20 DEF MoveInFails
<1>21. ASSUME NEW t \in Tabs, PutBack(t)
      PROVE  Known'
  BY <1>21 DEF PutBack, Over, Renamed
<1>22. ASSUME NEW t \in Tabs, PutBackFails(t)
      PROVE  Known'
  BY <1>22 DEF PutBackFails, Over
<1>23. ASSUME NEW t \in Tabs, RemoveBackup(t)
      PROVE  Known'
  BY <1>23 DEF RemoveBackup
<1>24. ASSUME NEW t \in Tabs, Identify(t)
      PROVE  Known'
  BY <1>24 DEF Identify
<1>25. ASSUME NEW t \in Tabs, Rebase(t)
      PROVE  Known'
  BY <1>25 DEF Rebase, Over
<1>26. ASSUME NEW f \in Files, OtherWrites(f)
      PROVE  Known'
  BY <1>26 DEF OtherWrites, Arrives, Renamed
<1>27. ASSUME NEW f \in Files, OtherDeletes(f)
      PROVE  Known'
  BY <1>27 DEF OtherDeletes, Renamed
<1>28. CASE Crash
  BY <1>28 DEF Crash
<1>29. CASE UNCHANGED vars
  BY <1>29 DEF vars
<1> HIDE DEF Inv, Typed, TypeOK, Shape, Known
<1>. QED
  BY <1>1, <1>2, <1>3, <1>4, <1>5, <1>6, <1>7, <1>8, <1>9, <1>10, <1>11, <1>12,
     <1>13, <1>14, <1>15, <1>16, <1>17, <1>18, <1>19, <1>20, <1>21, <1>22,
     <1>23, <1>24, <1>25, <1>26, <1>27, <1>28, <1>29
     DEF Next, Step, Proceed

\* Every step leaves a save with what it found, or with the name changed.
LEMMA FoundKeeps ==
  ASSUME Inv, [Next]_vars
  PROVE  Found'
<1> USE SavingAssumption
    DEF Inv, Typed, TypeOK, Shape, Saves, BeforePlaced, StampOf,
        document, saveVars, ghosts, Found, UnchangedOnDisk
<1>1. ASSUME NEW t \in Tabs, NEW f \in Files, StartLoad(t, f)
      PROVE  Found'
  BY <1>1 DEF StartLoad
<1>2. ASSUME NEW t \in Tabs, WorkerReads(t)
      PROVE  Found'
  BY <1>2 DEF WorkerReads
<1>3. ASSUME NEW t \in Tabs, LoadFails(t)
      PROVE  Found'
  BY <1>3 DEF LoadFails, NoDocument
<1>4. ASSUME NEW t \in Tabs, Edit(t)
      PROVE  Found'
  BY <1>4 DEF Edit
<1>5. ASSUME NEW t \in Tabs, WorkerDies(t)
      PROVE  Found'
  BY <1>5 DEF WorkerDies
<1>6. ASSUME NEW t \in Tabs, Reopen(t)
      PROVE  Found'
  BY <1>6 DEF Reopen
<1>7. ASSUME NEW t \in Tabs, Close(t)
      PROVE  Found'
  BY <1>7 DEF Close, NoDocument
<1>8. ASSUME NEW t \in Tabs, NEW f \in Files,
             NEW how \in {"save", "saveAs", "mark"}, Begin(t, how, f)
      PROVE  Found'
  BY <1>8 DEF Begin, MayWrite
<1>9. ASSUME NEW t \in Tabs, AskWorker(t)
      PROVE  Found'
  BY <1>9 DEF AskWorker
<1>10. ASSUME NEW t \in Tabs, NoWorker(t)
      PROVE  Found'
  BY <1>10 DEF NoWorker, Over
<1>11. ASSUME NEW t \in Tabs, WorkerWrites(t)
      PROVE  Found'
  BY <1>11 DEF WorkerWrites
<1>12. ASSUME NEW t \in Tabs, WorkerRefuses(t)
      PROVE  Found'
  BY <1>12 DEF WorkerRefuses, Over
<1>13. ASSUME NEW t \in Tabs, WorkerLost(t)
      PROVE  Found'
  BY <1>13 DEF WorkerLost, Over
<1>14. ASSUME NEW t \in Tabs, CheckPasses(t)
      PROVE  Found'
  BY <1>14 DEF CheckPasses
<1>15. ASSUME NEW t \in Tabs, CheckFails(t)
      PROVE  Found'
  BY <1>15 DEF CheckFails, Over
<1>16. ASSUME NEW t \in Tabs, MoveNew(t)
      PROVE  Found'
  BY <1>16 DEF MoveNew, Placed, Arrives, Renamed
<1>17. ASSUME NEW t \in Tabs, MoveAside(t)
      PROVE  Found'
  BY <1>17 DEF MoveAside, Renamed
<1>18. ASSUME NEW t \in Tabs, MoveIn(t)
      PROVE  Found'
  BY <1>18 DEF MoveIn, Placed, Arrives, Renamed
<1>19. ASSUME NEW t \in Tabs, ReplaceFails(t)
      PROVE  Found'
  BY <1>19 DEF ReplaceFails, Over
<1>20. ASSUME NEW t \in Tabs, MoveInFails(t)
      PROVE  Found'
  BY <1>20 DEF MoveInFails
<1>21. ASSUME NEW t \in Tabs, PutBack(t)
      PROVE  Found'
  BY <1>21 DEF PutBack, Over, Renamed
<1>22. ASSUME NEW t \in Tabs, PutBackFails(t)
      PROVE  Found'
  BY <1>22 DEF PutBackFails, Over
<1>23. ASSUME NEW t \in Tabs, RemoveBackup(t)
      PROVE  Found'
  BY <1>23 DEF RemoveBackup
<1>24. ASSUME NEW t \in Tabs, Identify(t)
      PROVE  Found'
  BY <1>24 DEF Identify
<1>25. ASSUME NEW t \in Tabs, Rebase(t)
      PROVE  Found'
  BY <1>25 DEF Rebase, Over
<1>26. ASSUME NEW f \in Files, OtherWrites(f)
      PROVE  Found'
  BY <1>26 DEF OtherWrites, Arrives, Renamed
<1>27. ASSUME NEW f \in Files, OtherDeletes(f)
      PROVE  Found'
  BY <1>27 DEF OtherDeletes, Renamed
<1>28. CASE Crash
  BY <1>28 DEF Crash
<1>29. CASE UNCHANGED vars
  BY <1>29 DEF vars
<1> HIDE DEF Inv, Typed, TypeOK, Shape, Found
<1>. QED
  BY <1>1, <1>2, <1>3, <1>4, <1>5, <1>6, <1>7, <1>8, <1>9, <1>10, <1>11, <1>12,
     <1>13, <1>14, <1>15, <1>16, <1>17, <1>18, <1>19, <1>20, <1>21, <1>22,
     <1>23, <1>24, <1>25, <1>26, <1>27, <1>28, <1>29
     DEF Next, Step, Proceed

-----------------------------------------------------------------------------
(* The theorems.                                                            *)

\* The app starts with the invariant.
LEMMA InvAtStart == Init => Inv
<1> SUFFICES ASSUME Init PROVE Inv
  OBVIOUS
<1>1. Typed
  BY TypedAtStart
<1>2. Checked /\ InOrder /\ Stands /\ Known /\ Found
  BY DEF Init, NothingOpen, Checked, InOrder, Stands, Known, Found
<1>. QED  BY <1>1, <1>2 DEF Inv

\* The invariant is inductive.
LEMMA InvKept == Inv /\ [Next]_vars => Inv'
<1> SUFFICES ASSUME Inv, [Next]_vars PROVE Inv'
  OBVIOUS
<1>1. Typed'
  BY TypeKeeps, ReserveKeeps DEF Inv, Typed
<1>2. Checked' /\ InOrder' /\ Stands' /\ Known' /\ Found'
  BY CheckedKeeps, InOrderKeeps, StandsKeeps, KnownKeeps, FoundKeeps
<1>. QED  BY <1>1, <1>2 DEF Inv

\* And so it always holds.
LEMMA Invariance == Spec => []Inv
BY InvAtStart, InvKept, PTL DEF Spec

\* Every variable always has its type; no save runs out of stamps.
THEOREM TypeCorrect == Spec => []TypeOK
<1>1. Inv => TypeOK
  BY DEF Inv, Typed
<1>. QED  BY <1>1, Invariance, PTL

\* However saves, other programs' writes and crashes interleave, a tab whose file
\* has the version it wrote itself remembers that very version.
THEOREM OwnVersionsAreKnown == Spec => []OwnVersionIsKnown
<1>1. Inv => OwnVersionIsKnown
  BY DEF Inv, Known, OwnVersionIsKnown
<1>. QED  BY <1>1, Invariance, PTL

\* While the file is the one an open document remembers, its worker has that
\* very version.
THEOREM IdentityStandsForBase == Spec => []IdentityIsOfBase
<1>1. Inv => IdentityIsOfBase
  BY DEF Inv, Stands, IdentityIsOfBase
<1>. QED  BY <1>1, Invariance, PTL

\* A save to the document's own file replaces what the document was made from,
\* unless the file changed between the look at it and the replacement.
THEOREM SavesReplaceTheirBase == Spec => ReplacesItsBase
<1>1. ASSUME Inv, NEW t \in Tabs, pc[t] = "checked", kind[t] # "saveAs",
             t \notin raced, target[t] \notin restored
      PROVE  disk[target[t]] = base[t]
  <2>1. target[t] = path[t] /\ UnchangedOnDisk(t)
    BY <1>1 DEF Inv, Found
  <2>2. base[t] # None
    BY <1>1 DEF Inv, Typed, Shape
  <2>. QED  BY <1>1, <2>1, <2>2 DEF Inv, Stands
<1>2. Inv /\ [Next]_vars =>
        [\A t \in Tabs :
           pc[t] = "checked" /\ pc'[t] = "aside" /\ kind[t] # "saveAs"
           /\ t \notin raced /\ target[t] \notin restored
           => disk[target[t]] = base[t]]_vars
  BY <1>1
<1>. QED  BY <1>2, Invariance, PTL DEF Spec, ReplacesItsBase

\* The kept versions of a file are those under its name, aside or left behind.
LEMMA KeptFacts ==
  ASSUME TypeOK, TypeOK', NEW f \in Files
  PROVE  /\ \A v : v \in Kept(f) <=>
              /\ v \in Versions
              /\ \/ v = disk[f]
                 \/ \E t \in Tabs : target[t] = f /\ v = aside[t]
                 \/ [file |-> f, version |-> v] \in strays
         /\ \A v : v \in Kept(f)' <=>
              /\ v \in Versions
              /\ \/ v = disk'[f]
                 \/ \E t \in Tabs : target'[t] = f /\ v = aside'[t]
                 \/ [file |-> f, version |-> v] \in strays'
<1>1. None \notin Versions
  BY SavingAssumption DEF Versions, Forms, Stamps
<1>2. ASSUME NEW left, left \subseteq [file : Files, version : Versions], NEW v
      PROVE  v \in {s.version : s \in {r \in left : r.file = f}} <=>
               v \in Versions /\ [file |-> f, version |-> v] \in left
  <2>1. ASSUME NEW s \in left, s.file = f, v = s.version
        PROVE  v \in Versions /\ [file |-> f, version |-> v] \in left
    <3>1. s \in [file : Files, version : Versions]
      BY <1>2
    <3>2. s = [file |-> f, version |-> v]
      BY <2>1, <3>1
    <3>. QED  BY <2>1, <3>1, <3>2
  <2>2. ASSUME v \in Versions, [file |-> f, version |-> v] \in left
        PROVE  \E s \in left : s.file = f /\ v = s.version
    BY <2>2
  <2>. QED  BY <2>1, <2>2
<1>3. \A t \in Tabs : aside[t] \in Versions \cup {None}
                   /\ aside'[t] \in Versions \cup {None}
  BY DEF TypeOK
<1>4. disk[f] \in Versions \cup {None} /\ disk'[f] \in Versions \cup {None}
  BY DEF TypeOK
<1>5. ASSUME NEW v
      PROVE  v \in {s.version : s \in {r \in strays : r.file = f}} <=>
               v \in Versions /\ [file |-> f, version |-> v] \in strays
  BY <1>2 DEF TypeOK
<1>6. ASSUME NEW v
      PROVE  v \in {s.version : s \in {r \in strays' : r.file = f}} <=>
               v \in Versions /\ [file |-> f, version |-> v] \in strays'
  BY <1>2 DEF TypeOK
<1> DEFINE Left     == {s.version : s \in {r \in strays : r.file = f}}
           LeftThen == {s.version : s \in {r \in strays' : r.file = f}}
<1>7. Kept(f) = ({disk[f]} \ {None})
        \cup {aside[t] : t \in {u \in Tabs : target[u] = f /\ aside[u] # None}}
        \cup Left
  BY DEF Kept
<1>8. Kept(f)' = ({disk'[f]} \ {None})
        \cup {aside'[t] : t \in {u \in Tabs :
                                  target'[u] = f /\ aside'[u] # None}}
        \cup LeftThen
  BY DEF Kept
<1>9. /\ \A v : v \in Left <=>
           v \in Versions /\ [file |-> f, version |-> v] \in strays
      /\ \A v : v \in LeftThen <=>
           v \in Versions /\ [file |-> f, version |-> v] \in strays'
  BY <1>5, <1>6
<1> HIDE DEF Left, LeftThen
<1>. QED  BY <1>1, <1>3, <1>4, <1>7, <1>8, <1>9

\* Only placing a file, removing a backup and other programs change which
\* versions of a file are kept; moving one to another name does not.
LEMMA KeptSteps ==
  ASSUME Inv, [Next]_vars
  PROVE  \/ UNCHANGED Store!vars
         \/ \E t \in Tabs : MoveNew(t) \/ MoveIn(t) \/ RemoveBackup(t)
         \/ \E f \in Files : OtherWrites(f) \/ OtherDeletes(f)
<1> DEFINE Same ==
      (\A f \in Files : Kept(f)' = Kept(f)) /\ UNCHANGED <<newest, others>>
<1>0. Same => UNCHANGED Store!vars
  BY DEF Store!vars
<1>0a. TypeOK /\ TypeOK'
  BY TypeKeeps DEF Inv, Typed
<1> USE SavingAssumption
    DEF Inv, Typed, TypeOK, Shape, Saves, BeforePlaced, Versions, Forms, Stamps,
        document, saveVars, ghosts, Kept
<1>1. ASSUME NEW t \in Tabs, NEW f \in Files, StartLoad(t, f)
      PROVE  Same
  BY <1>1 DEF StartLoad
<1>2. ASSUME NEW t \in Tabs, WorkerReads(t)
      PROVE  Same
  BY <1>2 DEF WorkerReads
<1>3. ASSUME NEW t \in Tabs, LoadFails(t)
      PROVE  Same
  BY <1>3 DEF LoadFails, NoDocument
<1>4. ASSUME NEW t \in Tabs, Edit(t)
      PROVE  Same
  BY <1>4 DEF Edit
<1>5. ASSUME NEW t \in Tabs, WorkerDies(t)
      PROVE  Same
  BY <1>5 DEF WorkerDies
<1>6. ASSUME NEW t \in Tabs, Reopen(t)
      PROVE  Same
  BY <1>6 DEF Reopen
<1>7. ASSUME NEW t \in Tabs, Close(t)
      PROVE  Same
  BY <1>7 DEF Close, NoDocument
<1>8. ASSUME NEW t \in Tabs, NEW f \in Files,
             NEW how \in {"save", "saveAs", "mark"}, Begin(t, how, f)
      PROVE  Same
  BY <1>8 DEF Begin
<1>9. ASSUME NEW t \in Tabs, AskWorker(t)
      PROVE  Same
  BY <1>9 DEF AskWorker
<1>10. ASSUME NEW t \in Tabs, NoWorker(t)
      PROVE  Same
  BY <1>10 DEF NoWorker, Over
<1>11. ASSUME NEW t \in Tabs, WorkerWrites(t)
      PROVE  Same
  BY <1>11 DEF WorkerWrites
<1>12. ASSUME NEW t \in Tabs, WorkerRefuses(t)
      PROVE  Same
  BY <1>12 DEF WorkerRefuses, Over
<1>13. ASSUME NEW t \in Tabs, WorkerLost(t)
      PROVE  Same
  BY <1>13 DEF WorkerLost, Over
<1>14. ASSUME NEW t \in Tabs, CheckPasses(t)
      PROVE  Same
  BY <1>14 DEF CheckPasses
<1>15. ASSUME NEW t \in Tabs, CheckFails(t)
      PROVE  Same
  BY <1>15 DEF CheckFails, Over
<1>16. ASSUME NEW t \in Tabs, MoveAside(t)
      PROVE  Same
  BY <1>16 DEF MoveAside, Renamed
<1>17. ASSUME NEW t \in Tabs, ReplaceFails(t)
      PROVE  Same
  BY <1>17 DEF ReplaceFails, Over
<1>18. ASSUME NEW t \in Tabs, MoveInFails(t)
      PROVE  Same
  BY <1>18 DEF MoveInFails
<1>19. ASSUME NEW t \in Tabs, PutBack(t)
      PROVE  Same
  BY <1>19 DEF PutBack, Over, Renamed
<1>20. ASSUME NEW t \in Tabs, PutBackFails(t)
      PROVE  Same
  <2>1. /\ disk' = disk /\ newest' = newest /\ others' = others
        /\ aside' = [aside EXCEPT ![t] = None]
        /\ target' = [target EXCEPT ![t] = None]
        /\ strays' = strays \cup {[file |-> target[t], version |-> aside[t]]}
    BY <1>20 DEF PutBackFails, Over
  <2>2. aside[t] \in Versions /\ target[t] \in Files /\ None \notin Files
    BY <1>20 DEF PutBackFails
  <2>3. ASSUME NEW f \in Files, NEW v \in Versions
        PROVE  [file |-> f, version |-> v] \in strays' <=>
                 \/ [file |-> f, version |-> v] \in strays
                 \/ f = target[t] /\ v = aside[t]
    BY <2>1
  <2>4. ASSUME NEW f \in Files, NEW v \in Versions
        PROVE  (\E u \in Tabs : target[u] = f /\ v = aside[u]) <=>
                 \/ \E u \in Tabs : target'[u] = f /\ v = aside'[u]
                 \/ f = target[t] /\ v = aside[t]
    <3>1. v # None
      OBVIOUS
    <3>2. \A u \in Tabs : u # t => aside'[u] = aside[u] /\ target'[u] = target[u]
      BY <2>1
    <3>3. aside'[t] = None
      BY <2>1
    <3>. QED  BY ONLY <3>1, <3>2, <3>3, t \in Tabs
  <2>. HIDE DEF Typed, TypeOK, Shape, Versions, Kept
  <2>5. ASSUME NEW f \in Files
        PROVE  Kept(f)' = Kept(f)
    <3>1. ASSUME NEW v
          PROVE  v \in Kept(f)' <=> v \in Kept(f)
      <4>1. CASE v \notin Versions
        BY <1>0a, <4>1, KeptFacts
      <4>2. CASE v \in Versions
        <5>1. [file |-> f, version |-> v] \in strays' <=>
                \/ [file |-> f, version |-> v] \in strays
                \/ f = target[t] /\ v = aside[t]
          BY <2>3, <4>2
        <5>2. (\E u \in Tabs : target[u] = f /\ v = aside[u]) <=>
                \/ \E u \in Tabs : target'[u] = f /\ v = aside'[u]
                \/ f = target[t] /\ v = aside[t]
          BY <2>4, <4>2
        <5>3. /\ v \in Kept(f) <=>
                   \/ v = disk[f]
                   \/ \E u \in Tabs : target[u] = f /\ v = aside[u]
                   \/ [file |-> f, version |-> v] \in strays
              /\ v \in Kept(f)' <=>
                   \/ v = disk'[f]
                   \/ \E u \in Tabs : target'[u] = f /\ v = aside'[u]
                   \/ [file |-> f, version |-> v] \in strays'
          BY <1>0a, <4>2, KeptFacts
        <5>. QED  BY ONLY <2>1, <5>1, <5>2, <5>3
      <4>. QED  BY <4>1, <4>2
    <3>. QED  BY <3>1
  <2>. QED  BY <2>1, <2>5
<1>21. ASSUME NEW t \in Tabs, Identify(t)
      PROVE  Same
  BY <1>21 DEF Identify
<1>22. ASSUME NEW t \in Tabs, Rebase(t)
      PROVE  Same
  BY <1>22 DEF Rebase, Over
<1>23. ASSUME Crash
      PROVE  Same
  <2>1. disk' = disk /\ newest' = newest /\ others' = others
        /\ aside' = [t \in Tabs |-> None]
    BY <1>23 DEF Crash
  <2>2. ASSUME NEW f \in Files, NEW v \in Versions
        PROVE  [file |-> f, version |-> v] \in strays' <=>
                 \/ [file |-> f, version |-> v] \in strays
                 \/ \E t \in Tabs : target[t] = f /\ aside[t] = v
    <3>1. v # None
      OBVIOUS
    <3>2. strays' = strays \cup
            {[file |-> target[t], version |-> aside[t]]
              : t \in {u \in Tabs : aside[u] # None}}
      BY <1>23 DEF Crash
    <3>3. \A g, w : [file |-> f, version |-> v] = [file |-> g, version |-> w]
                   <=> f = g /\ v = w
      <4>1. ASSUME NEW g, NEW w,
                   [file |-> f, version |-> v] = [file |-> g, version |-> w]
            PROVE  f = g /\ v = w
        <5> DEFINE r == [file |-> f, version |-> v]
        <5>1. r.file = f /\ r.version = v /\ r.file = g /\ r.version = w
          BY <4>1
        <5>. QED  BY <5>1
      <4>. QED  BY <4>1
    <3>4. [file |-> f, version |-> v] \in strays' <=>
            \/ [file |-> f, version |-> v] \in strays
            \/ \E t \in Tabs :
                 /\ aside[t] # None
                 /\ [file |-> f, version |-> v]
                      = [file |-> target[t], version |-> aside[t]]
      BY ONLY <3>2
    <3>. QED  BY ONLY <3>1, <3>3, <3>4
  <2>3. \A f \in Files, v \in Versions, t \in Tabs : v # aside'[t]
    BY <2>1
  <2>. HIDE DEF Typed, TypeOK, Shape, Versions, Kept
  <2>4. ASSUME NEW f \in Files
        PROVE  Kept(f)' = Kept(f)
    <3>1. ASSUME NEW v
          PROVE  v \in Kept(f)' <=> v \in Kept(f)
      <4>1. CASE v \notin Versions
        BY <1>0a, <4>1, KeptFacts
      <4>2. CASE v \in Versions
        <5>1. [file |-> f, version |-> v] \in strays' <=>
                \/ [file |-> f, version |-> v] \in strays
                \/ \E u \in Tabs : target[u] = f /\ aside[u] = v
          BY <2>2, <4>2
        <5>2. \A u \in Tabs : v # aside'[u]
          BY <2>3, <4>2
        <5>3. /\ v \in Kept(f) <=>
                   \/ v = disk[f]
                   \/ \E u \in Tabs : target[u] = f /\ v = aside[u]
                   \/ [file |-> f, version |-> v] \in strays
              /\ v \in Kept(f)' <=>
                   \/ v = disk'[f]
                   \/ \E u \in Tabs : target'[u] = f /\ v = aside'[u]
                   \/ [file |-> f, version |-> v] \in strays'
          BY <1>0a, <4>2, KeptFacts
        <5>. QED  BY ONLY <2>1, <5>1, <5>2, <5>3
      <4>. QED  BY <4>1, <4>2
    <3>. QED  BY <3>1
  <2>. QED  BY <2>1, <2>4
<1>24. ASSUME UNCHANGED vars
      PROVE  Same
  BY <1>24 DEF vars
<1> HIDE DEF Same, Inv
<1>. QED
  BY <1>0, <1>1, <1>2, <1>3, <1>4, <1>5, <1>6, <1>7, <1>8, <1>9, <1>10, <1>11,
     <1>12, <1>13, <1>14, <1>15, <1>16, <1>17, <1>18, <1>19, <1>20, <1>21,
     <1>22, <1>23, <1>24
     DEF Next, Step, Proceed

\* A file placed under a name passed the check, and is newer than any before.
LEMMA PlacedPuts ==
  ASSUME Inv, NEW t \in Tabs, MoveNew(t) \/ MoveIn(t)
  PROVE  Store!Put(target[t])
<1> DEFINE v == [stamp |-> clock + 1, form |-> temp[t]]
<1>1. PICK next \in {"placed", "moved"} :
        pc[t] \in {"checked", "aside"} /\ Placed(t, next)
  BY DEF MoveNew, MoveIn
<1>2. target[t] \in Files /\ temp[t] \in Forms \ {"cut"}
  BY <1>1 DEF Inv, Typed, Shape, Saves, BeforePlaced, Checked
<1>2a. PICK f \in Files : f = target[t]
  BY <1>2
<1>3. clock' = clock + 1 /\ clock' \in Stamps
  BY <1>1, PlacedKeeps DEF Inv
<1>4. v \in Versions /\ v.form # "cut"
  BY <1>2, <1>3 DEF Versions
<1>5. newest' = [newest EXCEPT ![f] = v.stamp] /\ others' = others
  BY <1>1, <1>2a DEF Placed, Arrives
<1>6. v.stamp > newest[f]
  BY <1>2 DEF Inv, Typed, TypeOK, InOrder, Stamps
<1>7. /\ disk[f] = None /\ disk' = [disk EXCEPT ![f] = v]
      /\ aside' = aside /\ target' = target /\ strays' = strays
  BY <1>1, <1>2, <1>2a DEF Placed, Arrives, Renamed
<1>8. None \notin Versions
  BY SavingAssumption DEF Versions, Forms, Stamps
<1>9. \A g \in Files : Kept(g)' = IF g = f THEN Kept(f) \cup {v} ELSE Kept(g)
  <2>1. \A g \in Files \ {f} : disk'[g] = disk[g]
    BY <1>2, <1>7 DEF Inv, Typed, TypeOK
  <2>2. \A g \in Files \ {f} : Kept(g)' = Kept(g)
    BY <1>7, <2>1 DEF Kept
  <2>3. disk'[f] = v
    BY <1>2, <1>7 DEF Inv, Typed, TypeOK
  <2>4. Kept(f)' = Kept(f) \cup {v}
    BY <1>4, <1>7, <1>8, <2>3 DEF Kept
  <2>. QED  BY <2>2, <2>4
<1>10. [g \in Files |-> Kept(g)]'
         = [[g \in Files |-> Kept(g)] EXCEPT ![f] = @ \cup {v}]
  BY <1>2, <1>9
<1>. QED  BY <1>2a, <1>4, <1>5, <1>6, <1>10 DEF Store!Put

\* A backup that is removed has been replaced.
LEMMA RemovesOlder ==
  ASSUME Inv, NEW t \in Tabs, RemoveBackup(t)
  PROVE  Store!Remove(target[t]) \/ UNCHANGED Store!vars
<1>0. /\ pc[t] = "moved" /\ target[t] \in Files /\ aside[t] \in Versions
      /\ aside[t].stamp < newest[target[t]]
  <2>1. pc[t] = "moved"
    BY DEF RemoveBackup
  <2>2. None \notin Versions
    BY SavingAssumption DEF Versions, Forms, Stamps
  <2>. QED
    BY <2>1, <2>2 DEF Inv, Typed, Shape, Saves, BeforePlaced, InOrder
<1>1. PICK f \in Files, v \in Versions :
        f = target[t] /\ v = aside[t] /\ v.stamp < newest[f]
  BY <1>0
<1>2. /\ disk' = disk /\ aside' = [aside EXCEPT ![t] = None]
      /\ target' = target /\ newest' = newest /\ others' = others
      /\ strays' = strays \/ strays' = strays \cup {[file |-> f, version |-> v]}
  BY <1>1 DEF RemoveBackup, document, saveVars, ghosts
<1>3. \A g \in Files : g # f => Kept(g)' = Kept(g)
  BY <1>1, <1>2, SavingAssumption
     DEF Inv, Typed, TypeOK, Kept, Versions, Forms, Stamps
<1>2a. TypeOK /\ TypeOK'
  BY TypeKeeps DEF Inv, Typed, Next, Step, Proceed
<1>4. v \in Kept(f)
  BY <1>1, <1>2a, KeptFacts
<1>5. Kept(f)' = Kept(f) \/ Kept(f)' = Kept(f) \ {v}
  <2>1. \A w \in Versions : w # v => (w \in Kept(f)' <=> w \in Kept(f))
    BY <1>1, <1>2, SavingAssumption
       DEF Inv, Typed, TypeOK, Kept, Versions, Forms, Stamps
  <2>2. Kept(f) \subseteq Versions /\ Kept(f)' \subseteq Versions
    BY <1>2a, KeptFacts
  <2>. QED  BY <1>4, <2>1, <2>2
<1>6. CASE Kept(f)' = Kept(f)
  BY <1>2, <1>3, <1>6 DEF Store!vars
<1>7. CASE Kept(f)' = Kept(f) \ {v}
  <2>1. [g \in Files |-> Kept(g)]'
          = [[g \in Files |-> Kept(g)] EXCEPT ![f] = @ \ {v}]
    <3>1. \A g \in Files :
            Kept(g)' = IF g = f THEN Kept(f) \ {v} ELSE Kept(g)
      BY <1>3, <1>7
    <3>. QED  BY ONLY <1>1, <3>1
  <2>. QED  BY <1>1, <1>2, <1>4, <2>1 DEF Store!Remove
<1>. QED  BY <1>5, <1>6, <1>7

\* Another program changes one file's name only.
LEMMA OthersMap ==
  ASSUME Inv, NEW f \in Files, OtherWrites(f) \/ OtherDeletes(f)
  PROVE  Store!Other(f)
<1>1. /\ \A g \in Files : g # f => disk'[g] = disk[g] /\ newest'[g] = newest[g]
      /\ aside' = aside /\ target' = target /\ strays' = strays
      /\ others' = others + 1
  BY DEF Inv, Typed, TypeOK, OtherWrites, OtherDeletes, Arrives, Renamed,
         saveVars
<1>2. newest' \in [Files -> Nat] /\ newest'[f] >= newest[f]
  BY SavingAssumption
     DEF Inv, Typed, TypeOK, InOrder, Stamps, OtherWrites, OtherDeletes,
         Arrives, Renamed
<1>3. \A g \in Files : g # f => Kept(g)' = Kept(g)
  BY <1>1 DEF Kept
<1>4. \A g \in Files : Kept(g)' \in SUBSET Versions
  <2>1. TypeOK /\ TypeOK'
    BY TypeKeeps DEF Inv, Typed, Next
  <2>. QED  BY <2>1, KeptFacts
<1>. QED  BY <1>1, <1>2, <1>3, <1>4 DEF Store!Other

\* Saving implements FileStore: nothing cut short is put under a file's name, and
\* a version is removed only once a newer one has taken the name,
\* whatever fails and wherever the app dies.
THEOREM SavingKeepsVersions == Spec => KeepsVersions
<1>1. Init => Store!Init
  <2> SUFFICES ASSUME Init PROVE Store!Init
    OBVIOUS
  <2> DEFINE first == [stamp |-> 1, form |-> "whole"]
  <2>1. first \in Versions /\ None \notin Versions
    BY SavingAssumption DEF Versions, Forms, Stamps
  <2>2. \A f \in Files : Kept(f) = {first}
    BY <2>1 DEF Init, NothingOpen, Kept
  <2>3. (CHOOSE v \in {first} : TRUE).stamp = 1
    <3>1. (CHOOSE v \in {first} : TRUE) \in {first}
      <4>1. \E v : v \in {first} /\ TRUE
        OBVIOUS
      <4>. QED  BY <4>1, Zenon
    <3>. QED  BY <3>1
  <2>4. /\ [f \in Files |-> Kept(f)] \in [Files -> {{v} : v \in Versions}]
        /\ \A f \in Files : [g \in Files |-> Kept(g)][f] = {first}
    BY <2>1, <2>2
  <2>. QED  BY <2>3, <2>4 DEF Init, Store!Init
<1>2. Inv /\ [Next]_vars => [Store!Next]_(Store!vars)
  <2> SUFFICES ASSUME Inv, [Next]_vars
               PROVE  Store!Next \/ UNCHANGED Store!vars
    OBVIOUS
  <2>1. ASSUME NEW t \in Tabs, MoveNew(t) \/ MoveIn(t) \/ RemoveBackup(t)
        PROVE  target[t] \in Files
    BY <2>1 DEF Inv, Typed, Shape, Saves, BeforePlaced, MoveNew, MoveIn,
                RemoveBackup
  <2>. QED  BY <2>1, KeptSteps, PlacedPuts, RemovesOlder, OthersMap
            DEF Store!Next
<1>. QED  BY <1>1, <1>2, Invariance, PTL DEF Spec, KeepsVersions, Store!Spec
=============================================================================
