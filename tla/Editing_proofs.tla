--------------------------- MODULE Editing_proofs ---------------------------
(***************************************************************************)
(* What Editing guarantees for all values of its constants, proved: its     *)
(* type invariant, that a save to the document's own file writes what the   *)
(* page was shown over the version it was opened from, that the worker and  *)
(* the recovery journal follow the history, and the inductive invariants    *)
(* these rest on.                                                           *)
(***************************************************************************)
EXTENDS Editing, SequenceTheorems, FiniteSetTheorems, WellFoundedInduction,
        TLAPS

Histories == {h \in [edits : Seq(Edits), applied : Nat] :
                h.applied <= Len(h.edits)}

-----------------------------------------------------------------------------
(* Lemmas about the operators of the model.                                 *)

\* Changes made one after the other are the changes together.
LEMMA ApplyFacts ==
  ASSUME NEW c \in Content, NEW s \in Seq(Changes), NEW t \in Seq(Changes)
  PROVE  /\ Apply(c, s) \in Content
         /\ Apply(Apply(c, s), t) = Apply(c, s \o t)
         /\ Apply(c, <<>>) = c
<1>1. /\ c.edits \in Seq(Changes) /\ c.base \in Bases
      /\ c = [base |-> c.base, edits |-> c.edits]
  BY DEF Content
<1>2. \A u : Apply(c, u) = [base |-> c.base, edits |-> c.edits \o u]
  BY DEF Apply
<1>3. c.edits \o s \in Seq(Changes) /\ s \o t \in Seq(Changes)
  BY <1>1, ConcatProperties
<1>4. Apply(c, s) \in Content
  <2>1. \A b \in Bases, u \in Seq(Changes) : [base |-> b, edits |-> u] \in Content
    BY DEF Content
  <2>. QED  BY <1>1, <1>2, <1>3, <2>1, Zenon
<1>5. Apply(Apply(c, s), t) = Apply(c, s \o t)
  <2>1. Apply(Apply(c, s), t)
          = [base |-> c.base, edits |-> (c.edits \o s) \o t]
    BY DEF Apply
  <2>2. (c.edits \o s) \o t = c.edits \o (s \o t)
    BY <1>1, ConcatAssociative
  <2>. QED  BY <1>2, <1>3, <2>1, <2>2
<1>6. Apply(c, <<>>) = c
  <2>1. <<>> \in Seq(Changes) /\ c.edits \o <<>> = c.edits
    BY <1>1, EmptySeq, ConcatEmptySeq
  <2>. QED  BY <1>1, <1>2, <2>1
<1>. QED  BY <1>4, <1>5, <1>6

\* What a history has applied is its first edits.
LEMMA AppliedOf ==
  \A s, n : Applied([edits |-> s, applied |-> n]) = SubSeq(s, 1, n)
BY Zenon DEF Applied

\* The edits of a history are changes, as many as it has applied.
LEMMA AppliedFacts ==
  ASSUME NEW h \in Histories
  PROVE  /\ Applied(h) \in Seq(Edits) /\ Applied(h) \in Seq(Changes)
         /\ Len(Applied(h)) = h.applied
         /\ ~Unsaved(h) => Applied(h) = <<>>
<1>1. /\ h.edits \in Seq(Edits) /\ h.applied \in Nat
      /\ h.applied <= Len(h.edits)
  BY DEF Histories
<1>2. \A i \in 1..h.applied : h.edits[i] \in Edits
  BY <1>1, ElementOfSeq, LenProperties
<1>3. Applied(h) \in Seq(Edits) /\ Len(Applied(h)) = h.applied
  <2>1. /\ SubSeq(h.edits, 1, h.applied) \in Seq(Edits)
        /\ Len(SubSeq(h.edits, 1, h.applied))
             = IF 1 <= h.applied THEN h.applied - 1 + 1 ELSE 0
    BY <1>1, <1>2, SubSeqProperties
  <2>. QED  BY <1>1, <2>1 DEF Applied
<1>4. Applied(h) \in Seq(Changes)
  BY <1>3, SeqMonotonic DEF Changes
<1>5. ~Unsaved(h) => Applied(h) = <<>>
  BY <1>1, SubSeqEmpty DEF Unsaved, Applied
<1>. QED  BY <1>3, <1>4, <1>5

\* Whatever a history becomes is a history, and its edits are those the worker
\* is asked to make.
LEMMA PushedFacts ==
  ASSUME NEW h \in Histories, NEW e \in Edits
  PROVE  /\ Pushed(h, e) \in Histories
         /\ Applied(Pushed(h, e)) = Applied(h) \o <<e>>
<1>1. /\ Applied(h) \in Seq(Edits) /\ Len(Applied(h)) = h.applied
      /\ h.applied \in Nat
  BY AppliedFacts DEF Histories
<1> DEFINE edits == Append(Applied(h), e)
<1>2. /\ edits \in Seq(Edits) /\ Len(edits) = h.applied + 1
      /\ edits = Applied(h) \o <<e>>
  BY <1>1, AppendProperties, AppendIsConcat
<1>3. SubSeq(edits, 1, h.applied + 1) = edits
  BY <1>2, SubSeqFull
<1>4. Pushed(h, e) = [edits |-> edits, applied |-> h.applied + 1]
  BY DEF Pushed
<1>5. Pushed(h, e) \in Histories
  BY <1>1, <1>2, <1>4 DEF Histories
<1>6. Applied(Pushed(h, e)) = SubSeq(edits, 1, h.applied + 1)
  BY <1>4, AppliedOf, Zenon
<1>. QED  BY <1>2, <1>3, <1>5, <1>6

\* Undo takes the last applied edit off, and keeps it to redo.
LEMMA UndoneFacts ==
  ASSUME NEW h \in Histories, Unsaved(h)
  PROVE  /\ Undone(h) \in Histories
         /\ Applied(Undone(h)) = BeforeLast(h)
BY DEF Undone, Histories, Applied, BeforeLast, Unsaved

\* Redo applies the next edit of the history again.
LEMMA RedoneFacts ==
  ASSUME NEW h \in Histories, CanRedo(h)
  PROVE  /\ Redone(h) \in Histories
         /\ h.edits[h.applied + 1] \in Edits
         /\ Applied(Redone(h)) = Applied(h) \o <<h.edits[h.applied + 1]>>
<1>1. /\ h.edits \in Seq(Edits) /\ h.applied \in Nat
      /\ h.applied < Len(h.edits) /\ Len(h.edits) \in Nat
  BY LenProperties DEF Histories, CanRedo
<1>2. Redone(h) = [edits |-> h.edits, applied |-> h.applied + 1]
  BY <1>1 DEF Redone, Histories
<1>3. h.edits[h.applied + 1] \in Edits
  BY <1>1, ElementOfSeq
<1>4. SubSeq(h.edits, 1, h.applied + 1)
        = SubSeq(h.edits, 1, h.applied) \o <<h.edits[h.applied + 1]>>
  <2>2. /\ 1 \in 1..Len(h.edits)
        /\ h.applied + 1 \in 1..Len(h.edits)
        /\ h.applied + 1 - 1 = h.applied
    BY <1>1
  <2>3. \A n \in 1..Len(h.edits) :
          SubSeq(h.edits, 1, n) = SubSeq(h.edits, 1, n - 1) \o <<h.edits[n]>>
    BY <1>1, SubSeqRecursiveSecond
  <2> DEFINE n == h.applied + 1
  <2>4. SubSeq(h.edits, 1, n) = SubSeq(h.edits, 1, n - 1) \o <<h.edits[n]>>
    BY <2>2, <2>3, Zenon
  <2>5. n - 1 = h.applied
    BY <1>1
  <2>. QED  BY <2>4, <2>5, Zenon
<1>5. Redone(h) \in Histories
  BY <1>1, <1>2 DEF Histories
<1>6. Applied(Redone(h)) = SubSeq(h.edits, 1, h.applied + 1)
  BY <1>2, AppliedOf, Zenon
<1>7. Applied(h) = SubSeq(h.edits, 1, h.applied)
  BY Zenon DEF Applied
<1>. QED  BY <1>3, <1>4, <1>5, <1>6, <1>7, Zenon

\* Edits made again from a journal are all of the new history.
LEMMA ReplayedFacts ==
  ASSUME NEW edits \in Seq(Edits)
  PROVE  LET h == [edits |-> edits, applied |-> Len(edits)]
         IN  h \in Histories /\ Applied(h) = edits
BY LenProperties, SubSeqFull DEF Histories, Applied

\* The history of a document just opened or saved has nothing applied.
LEMMA EmptyFacts ==
  EmptyHistory \in Histories /\ ~Unsaved(EmptyHistory)
    /\ Applied(EmptyHistory) = <<>>
BY EmptySeq, SubSeqEmpty DEF EmptyHistory, Histories, Unsaved, Applied

-----------------------------------------------------------------------------
(* Journals and page counts.                                                *)

\* A non-empty set of numbers has a least one (the first journal found).
LEMMA Minimum ==
  ASSUME NEW S \in SUBSET Nat, S # {}
  PROVE  \E x \in S : \A y \in S : x <= y
<1>1. \E x \in S : \A y \in S : ~ (<<y, x>> \in OpToRel(<, Nat))
  BY NatLessThanWellFounded, WFMin
<1>2. PICK x \in S : \A y \in S : ~ (<<y, x>> \in OpToRel(<, Nat))
  BY <1>1
<1>3. \A y \in S : ~(y < x)
  BY <1>2 DEF OpToRel
<1>4. \A y \in S : x <= y
  BY <1>3
<1>. QED  BY <1>4

\* A journal an opening finds is one for the file.
LEMMA FoundForFacts ==
  ASSUME NEW f, FoundFor(f) # None
  PROVE  /\ FoundFor(f) \in JournalIds
         /\ journals[FoundFor(f)] # None
         /\ journals[FoundFor(f)].path = f
<1>1. CASE released \in Offers(f)
  BY <1>1 DEF FoundFor, Offers
<1>2. CASE released \notin Offers(f)
  <2>1. FoundFor(f) = FirstOffer(f) /\ Offers(f) # {}
    BY <1>2 DEF FoundFor, FirstOffer
  <2>2. Offers(f) \in SUBSET Nat
    BY EditingAssumption DEF Offers
  <2>3. \E id \in Offers(f) : \A other \in Offers(f) : id <= other
    BY <2>1, <2>2, Minimum
  <2>4. FirstOffer(f) \in Offers(f)
    BY <2>1, <2>3 DEF FirstOffer
  <2>. QED  BY <2>1, <2>4 DEF Offers
<1>. QED  BY <1>1, <1>2

\* A journal keeps some of the edits of a history, from the first on.
LEMMA JournalledFacts ==
  ASSUME NEW edits \in Seq(Edits)
  PROVE  /\ Journalled(edits) \in Seq(Edits)
         /\ Len(Journalled(edits)) <= Len(edits)
<1>1. Len(edits) \in Nat /\ DOMAIN edits = 1..Len(edits)
  BY LenProperties
<1>2. CASE ~ \E i \in DOMAIN edits : edits[i] \in Inserts
  BY <1>1, <1>2 DEF Journalled
<1>3. CASE \E i \in DOMAIN edits : edits[i] \in Inserts
  <2> DEFINE Takes == {i \in DOMAIN edits : edits[i] \in Inserts}
             IsFirst(i) == /\ edits[i] \in Inserts
                           /\ \A j \in 1..(i - 1) : edits[j] \notin Inserts
             first == CHOOSE i \in DOMAIN edits : IsFirst(i)
  <2>1. PICK m \in Takes : \A i \in Takes : m <= i
    <3>1. Takes \in SUBSET Nat /\ Takes # {}
      BY <1>1, <1>3
    <3>. QED  BY <3>1, Minimum
  <2>2. \E i \in DOMAIN edits : IsFirst(i)
    <3>1. \A j \in 1..(m - 1) : edits[j] \notin Inserts
      BY <1>1, <2>1
    <3>. QED  BY <2>1, <3>1
  <2>3. first \in 1..Len(edits)
    BY <1>1, <2>2
  <2>4. Journalled(edits) = SubSeq(edits, 1, first - 1)
    BY <1>3, Zenon DEF Journalled
  <2>5. \A i \in 1..(first - 1) : edits[i] \in Edits
    BY <1>1, <2>3, ElementOfSeq
  <2>6. /\ SubSeq(edits, 1, first - 1) \in Seq(Edits)
        /\ Len(SubSeq(edits, 1, first - 1))
             = IF 1 <= first - 1 THEN first - 1 - 1 + 1 ELSE 0
    <3> HIDE DEF first
    <3>1. first - 1 \in Int
      BY <2>3
    <3>. QED  BY <2>5, <3>1, SubSeqProperties
  <2>. QED
    <3> HIDE DEF first
    <3>. QED  BY <1>1, <2>3, <2>4, <2>6
<1>. QED  BY <1>2, <1>3

\* What keep_journal writes is a journal.
LEMMA JournalOfFacts ==
  ASSUME NEW h \in Histories, NEW f \in Files, NEW v \in Nat
  PROVE  JournalOf(h, f, v) \in Record
<1>1. Applied(h) \in Seq(Edits)
  BY AppliedFacts
<1>2. /\ Journalled(Applied(h)) \in Seq(Edits)
      /\ Len(Journalled(Applied(h))) <= Len(Applied(h))
  BY <1>1, JournalledFacts
<1>3. Len(Applied(h)) - Len(Journalled(Applied(h))) \in Nat
  BY <1>1, <1>2, LenProperties
<1>. QED  BY <1>1, <1>2, <1>3 DEF JournalOf, Record

Disks == [JournalIds -> Record \cup {None}]

\* The journals without one are journals.
LEMMA WithoutFacts ==
  ASSUME journals \in Disks, NEW id
  PROVE  Without(id) \in Disks
BY DEF Without, Disks

\* keep_journal leaves a journal only for unsaved edits.
LEMMA KeepJournalFacts ==
  ASSUME journals \in Disks, NEW h \in Histories, NEW f \in Files, NEW v \in Nat,
         NEW own \in JournalIds \cup {None}, KeepJournal(h, f, v, own)
  PROVE  /\ journals' \in Disks
         /\ journal' \in JournalIds \cup {None}
         /\ ~Unsaved(h) => journal' = None
<1>1. CASE Unsaved(h)
  <2>1. PICK id \in JournalIds :
          journal' = id /\ DiskBecomes(Written(id, h, f, v))
    BY <1>1 DEF KeepJournal, FreeIds
  <2>2. Written(id, h, f, v) \in Disks
    BY JournalOfFacts DEF Written, Disks
  <2>. QED  BY <1>1, <2>1, <2>2 DEF DiskBecomes
<1>2. CASE ~Unsaved(h)
  BY <1>2, WithoutFacts DEF KeepJournal, DiskBecomes
<1>. QED  BY <1>1, <1>2

\* A content has a whole number of pages.
LEMMA PagesFacts ==
  ASSUME NEW c \in Content
  PROVE  Pages(c) \in Int
<1>1. c.base \in Bases /\ c.edits \in Seq(Changes)
  BY DEF Content
<1>2. \A kind : Count(c.edits, kind) \in Nat
  <2>1. DOMAIN c.edits = 1..Len(c.edits) /\ Len(c.edits) \in Nat
    BY <1>1, LenProperties
  <2>2. IsFiniteSet(DOMAIN c.edits)
    BY <2>1, FS_Interval
  <2>3. ASSUME NEW kind
        PROVE  Count(c.edits, kind) \in Nat
    <3>1. {i \in DOMAIN c.edits : c.edits[i] \in kind} \in SUBSET DOMAIN c.edits
      OBVIOUS
    <3>. QED  BY <2>2, <3>1, FS_Subset, FS_CardinalityType DEF Count
  <2>. QED  BY <2>3
<1>3. BasePages[c.base] \in Nat
  BY <1>1, EditingAssumption
<1>4. Count(c.edits, Inserts) \in Nat /\ Count(c.edits, Deletes) \in Nat
  BY <1>2
<1>. QED  BY <1>3, <1>4 DEF Pages, PageDelta

-----------------------------------------------------------------------------
(* The invariant: types, and the file the work stands on.                   *)

Inv == TypeOK /\ StandsOnFile

\* A file always has a content: that of its last version.
LEMMA NowFacts ==
  ASSUME TypeOK, NEW f \in Files
  PROVE  /\ Now(f) \in Content
         /\ Len(files[f]) \in Nat \ {0}
<1>1. files[f] \in Seq(Content) /\ files[f] # <<>>
  BY DEF TypeOK
<1>2. Len(files[f]) \in Nat \ {0}
  BY <1>1, EmptySeq
<1>. QED  BY <1>1, <1>2, ElementOfSeq DEF Now

\* The edits of the open document's history are changes to a content.
LEMMA HistoryFacts ==
  ASSUME TypeOK
  PROVE  /\ history \in Histories /\ Applied(history) \in Seq(Changes)
         /\ ~Unsaved(history) => Applied(history) = <<>>
<1>1. history \in Histories
  BY DEF TypeOK, Histories
<1>. QED  BY <1>1, AppliedFacts

\* A worker a request runs on has the file's content with the edits, if no
\* other program changed the file.
LEMMA LiveWorkerFacts ==
  ASSUME Inv, tab = "open", NEW w \in LiveWorkers
  PROVE  /\ w.memory \in Content /\ w.original \in Content
         /\ w.memory = Apply(w.original, Applied(history))
         /\ identity = Len(files[path]) => w.original = Now(path)
<1>1. CASE ~lost
  <2>1. w = [memory |-> memory, original |-> original]
    BY <1>1 DEF LiveWorkers
  <2>2. memory \in Content /\ original \in Content
    BY DEF Inv, TypeOK
  <2>. QED  BY <1>1, <2>1, <2>2 DEF Inv, StandsOnFile
<1>2. CASE lost
  <2>1. w = [memory   |-> Apply(Now(path), Applied(history)),
             original |-> Now(path)]
    BY <1>2 DEF LiveWorkers
  <2>2. path \in Files
    BY DEF Inv, TypeOK
  <2>3. Now(path) \in Content /\ Apply(Now(path), Applied(history)) \in Content
    <3>1. <<>> \in Seq(Changes)
      BY EmptySeq
    <3>. QED  BY <2>2, <3>1, NowFacts, HistoryFacts, ApplyFacts DEF Inv
  <2>. QED  BY <2>1, <2>3
<1>. QED
  <2>1. lost \in BOOLEAN
    BY DEF Inv, TypeOK
  <2>. QED  BY <1>1, <1>2, <2>1

\* A written file has one version more.
LEMMA ReplacedFacts ==
  ASSUME TypeOK, NEW f \in Files, NEW content \in Content, Replaced(f, content)
  PROVE  /\ files' \in [Files -> Seq(Content)]
         /\ \A g \in Files : files'[g] # <<>>
         /\ Len(files'[f]) = Len(files[f]) + 1
         /\ files'[f][Len(files'[f])] = content
         /\ \A g \in Files \ {f} : files'[g] = files[g]
<1>1. /\ files \in [Files -> Seq(Content)]
      /\ \A g \in Files : files[g] # <<>>
      /\ files[f] \in Seq(Content)
  BY DEF TypeOK
<1>2. files' = [files EXCEPT ![f] = Append(files[f], content)]
  BY DEF Replaced
<1>3. files'[f] = Append(files[f], content)
  BY <1>1, <1>2
<1>4. /\ Append(files[f], content) \in Seq(Content)
      /\ Append(files[f], content) # <<>>
      /\ Len(Append(files[f], content)) = Len(files[f]) + 1
      /\ Append(files[f], content)[Len(files[f]) + 1] = content
  BY <1>1, AppendProperties
<1> HIDE DEF Replaced
<1>5. \A g \in Files \ {f} : files'[g] = files[g]
  BY <1>1, <1>2
<1>6. files' \in [Files -> Seq(Content)]
  BY <1>1, <1>2, <1>4
<1>. QED  BY <1>1, <1>3, <1>4, <1>5, <1>6

-----------------------------------------------------------------------------
(* Every step keeps the invariant.                                          *)

Replies == {"none", "saved", "savedAs", "error"}

\* Without a document only the disk and the tab have to be right.
LEMMA NoDocumentKeeps ==
  ASSUME NoDocument, tab' \in {"closed", "asking"},
         released' \in JournalIds \cup {None}, path' \in Files,
         reply' \in Replies, journals' \in Disks,
         files' \in [Files -> Seq(Content)], \A g \in Files : files'[g] # <<>>
  PROVE  Inv'
<1>1. /\ history' \in [edits : Seq(Edits), applied : Nat]
      /\ history'.applied <= Len(history'.edits)
  BY EmptyFacts, LenProperties DEF NoDocument, Histories
<1>2. TypeOK'
  <2>1. /\ identity' = 0 /\ history' = EmptyHistory /\ pages' = 0
        /\ lost' = FALSE /\ journal' = None /\ recovered' = None
        /\ recovery' = "none" /\ tab' # "open"
    BY DEF NoDocument
  <2>2. journals' \in [JournalIds -> Record \cup {None}]
    BY DEF Disks
  <2>3. reply' \in {"none", "saved", "savedAs", "error"}
    BY DEF Replies
  <2>4. /\ identity' \in Nat /\ pages' \in Int
        /\ lost' \in BOOLEAN
        /\ journal' \in JournalIds \cup {None}
        /\ recovered' \in Found \cup {None}
        /\ recovery' \in Recoveries
    <3>1. identity' \in Nat /\ pages' \in Int
      BY <2>1
    <3>2. lost' \in BOOLEAN
      BY <2>1
    <3>3. journal' \in JournalIds \cup {None}
      BY <2>1
    <3>4. recovered' \in Found \cup {None}
      BY <2>1
    <3>5. recovery' \in Recoveries
      BY <2>1 DEF Recoveries
    <3>. QED  BY <3>1, <3>2, <3>3, <3>4, <3>5
  <2>5. tab' \in {"closed", "opening", "failed", "asking", "open"}
    OBVIOUS
  <2>. QED  BY <1>1, <2>1, <2>2, <2>3, <2>4, <2>5, Zenon DEF TypeOK
<1>3. StandsOnFile'
  BY DEF StandsOnFile, UnsavedIsFileWithEdits
<1>. QED  BY <1>2, <1>3 DEF Inv

\* A worker left with whatever content is one to open again: the document
\* keeps its promise because it is marked lost.
LEMMA DropKeeps ==
  ASSUME Inv, tab = "open", NEW left \in Content, Drop(left), Quiet,
         UNCHANGED <<diskVars, path>>
  PROVE  Inv'
<1>1. TypeOK'
  BY DEF Inv, TypeOK, Drop, Quiet, diskVars, Record
<1>2. StandsOnFile'
  BY DEF Inv, StandsOnFile, UnsavedIsFileWithEdits, Drop, diskVars, Now
<1>. QED  BY <1>1, <1>2 DEF Inv

\* Forgetting a protected document (lose) leaves no document.
LEMMA LoseKeeps ==
  ASSUME Inv, NEW own \in JournalIds \cup {None}, Lose(own), path' \in Files,
         reply' \in Replies, journals' \in Disks,
         files' \in [Files -> Seq(Content)], \A g \in Files : files'[g] # <<>>
  PROVE  Inv'
BY NoDocumentKeeps DEF Lose

\* The files, the journals and the document's path have their types.
LEMMA DiskFacts ==
  ASSUME TypeOK
  PROVE  /\ journals \in Disks /\ journal \in JournalIds \cup {None}
         /\ files \in [Files -> Seq(Content)] /\ \A g \in Files : files[g] # <<>>
         /\ path \in Files /\ identity \in Nat
BY DEF TypeOK, Disks

\* Opening notes the file's identity and nothing else.
LEMMA StartLoadKeeps ==
  ASSUME Inv, NEW f \in Files, StartLoad(f)
  PROVE  Inv'
<1>1. path' \in Files /\ Len(files[path']) \in Nat
  BY NowFacts DEF StartLoad, Inv, TypeOK
<1>2. TypeOK'
  BY <1>1 DEF StartLoad, Inv, TypeOK, Quiet
<1>3. StandsOnFile'
  BY <1>1 DEF StartLoad, StandsOnFile, UnsavedIsFileWithEdits
<1>. QED  BY <1>2, <1>3 DEF Inv

\* An opening that fails leaves no document.
LEMMA LoadFailsKeeps ==
  ASSUME Inv, LoadFails
  PROVE  Inv'
<1>1. TypeOK'
  BY DEF LoadFails, Inv, TypeOK, Quiet, diskVars
<1>2. StandsOnFile'
  BY DEF LoadFails, StandsOnFile, UnsavedIsFileWithEdits
<1>. QED  BY <1>1, <1>2 DEF Inv

\* What an opening offers the user is what it found.
LEMMA OfferFacts ==
  ASSUME TypeOK, FoundFor(path) # None, Offer(FoundFor(path))
  PROVE  recovered' \in Found /\ recovery' \in Recoveries
<1> DEFINE id == FoundFor(path)
<1>1. id \in JournalIds /\ journals[id] # None
  BY FoundForFacts
<1>2. journals[id] \in Record
  BY <1>1 DEF TypeOK
<1>3. journals[id].edits \in Seq(Edits) /\ journals[id].version \in Nat
  BY <1>2 DEF Record
<1> HIDE DEF id
<1>4. Offer(id)
  BY DEF id
<1>. QED  BY <1>1, <1>3, <1>4 DEF Offer, Answer, Found, Recoveries

\* A file opened without edits is shown as the worker read it.
LEMMA LoadPlainKeeps ==
  ASSUME Inv, LoadPlain
  PROVE  Inv'
<1>1. TypeOK /\ path \in Files /\ Now(path) \in Content
  BY NowFacts DEF Inv, TypeOK
<1>2. /\ recovered' \in Found \cup {None}
      /\ recovery' \in Recoveries
      /\ recovery' # "none" => recovered' \in Found
  BY <1>1, OfferFacts DEF LoadPlain, Recoveries
<1>3. /\ history' \in [edits : Seq(Edits), applied : Nat]
      /\ history'.applied <= Len(history'.edits)
      /\ ~Unsaved(history') /\ Applied(history') = <<>>
  BY EmptyFacts DEF LoadPlain, OpenAsRead, Histories
<1>4. Pages(Now(path)) \in Int
  BY <1>1, PagesFacts
<1>5. TypeOK'
  <2>1. /\ tab' = "open" /\ released' = None /\ original' = Now(path)
        /\ reply' = "none" /\ lost' = FALSE /\ journal' = None
        /\ memory' = Now(path) /\ shown' = Now(path)
        /\ pages' \in Int
        /\ files' = files /\ path' = path /\ identity' = identity
        /\ journals' = journals
    BY <1>4 DEF LoadPlain, Opened, OpenAsRead, Quiet
  <2>. QED  BY <1>1, <1>2, <1>3, <2>1 DEF TypeOK
<1>6. memory' = Apply(original', Applied(history'))
  <2>1. <<>> \in Seq(Changes)
    BY EmptySeq
  <2>. QED  BY <1>1, <1>3, <2>1, ApplyFacts DEF LoadPlain, Opened, OpenAsRead
<1>7. StandsOnFile'
  BY <1>3, <1>6
     DEF StandsOnFile, UnsavedIsFileWithEdits, Inv, LoadPlain, Opened,
         OpenAsRead, Now
<1>. QED  BY <1>5, <1>7 DEF Inv

\* A file reopened with its password has its kept edits made on it again.
LEMMA LoadReplaysKeeps ==
  ASSUME Inv, LoadReplays
  PROVE  Inv'
<1> DEFINE id    == FoundFor(path)
           edits == journals[id].edits
           made  == [edits |-> edits, applied |-> Len(edits)]
<1>1. TypeOK /\ path \in Files /\ Now(path) \in Content /\ identity \in Nat
  BY NowFacts DEF Inv, TypeOK
<1>2. id \in JournalIds /\ journals[id] # None
  BY FoundForFacts DEF LoadReplays, Replays
<1>3. edits \in Seq(Edits)
  BY <1>1, <1>2 DEF TypeOK, Record
<1>4. made \in Histories /\ Applied(made) = edits /\ edits \in Seq(Changes)
  BY <1>3, ReplayedFacts, SeqMonotonic DEF Changes
<1>5. /\ tab = "opening" /\ Opened(Now(path)) /\ lost' = FALSE
      /\ history' = made
      /\ memory' = Apply(Now(path), edits) /\ shown' = memory'
      /\ pages' = Pages(memory')
      /\ KeepJournal(made, path, identity, id)
      /\ recovered' = None /\ recovery' = "none"
  BY DEF LoadReplays
<1> HIDE DEF id, edits, made
<1>6. journals' \in Disks /\ journal' \in JournalIds \cup {None}
  BY <1>1, <1>2, <1>4, <1>5, KeepJournalFacts, DiskFacts
<1>7. memory' \in Content /\ pages' \in Int
  <2>1. <<>> \in Seq(Changes)
    BY EmptySeq
  <2>. QED  BY <1>1, <1>4, <1>5, <2>1, ApplyFacts, PagesFacts
<1>8. TypeOK'
  BY <1>1, <1>4, <1>5, <1>6, <1>7
     DEF TypeOK, Opened, Quiet, Disks, Histories, Recoveries
<1>9. StandsOnFile'
  BY <1>1, <1>4, <1>5
     DEF StandsOnFile, UnsavedIsFileWithEdits, Inv, Opened, Now
<1>. QED  BY <1>8, <1>9 DEF Inv

\* When those cannot be made, the document starts again without them.
LEMMA LoadReplayFailsKeeps ==
  ASSUME Inv, LoadReplayFails, Half \in Changes
  PROVE  Inv'
<1>1. TypeOK /\ path \in Files /\ Now(path) \in Content
  BY NowFacts DEF Inv, TypeOK
<1>2. recovered' \in Found /\ recovery' \in Recoveries
  BY <1>1, OfferFacts DEF LoadReplayFails, Replays
<1>3. /\ history' \in [edits : Seq(Edits), applied : Nat]
      /\ history'.applied <= Len(history'.edits)
      /\ ~Unsaved(history')
  BY EmptyFacts DEF LoadReplayFails, Histories
<1>4. memory' \in Content /\ pages' \in Int
  <2>1. <<Half>> \in Seq(Changes)
    OBVIOUS
  <2>. QED  BY <1>1, <2>1, ApplyFacts, PagesFacts DEF LoadReplayFails
<1>5. TypeOK'
  BY <1>1, <1>2, <1>3, <1>4 DEF TypeOK, LoadReplayFails, Opened, Quiet
<1>6. StandsOnFile'
  BY <1>3
     DEF StandsOnFile, UnsavedIsFileWithEdits, Inv, LoadReplayFails, Opened, Now
<1>. QED  BY <1>5, <1>6 DEF Inv

\* A read request on a lost document opens the file again with the edits.
LEMMA ReadReopensKeeps ==
  ASSUME Inv, ReadReopens
  PROVE  Inv'
<1>1. PICK w \in LiveWorkers : memory' = w.memory /\ original' = w.original
  BY DEF ReadReopens
<1>2. /\ w.memory \in Content /\ w.original \in Content
      /\ w.memory = Apply(w.original, Applied(history))
      /\ identity = Len(files[path]) => w.original = Now(path)
  BY LiveWorkerFacts DEF ReadReopens
<1>3. TypeOK'
  BY <1>1, <1>2 DEF Inv, TypeOK, ReadReopens, Quiet, diskVars, tabVars, offerVars
<1>4. StandsOnFile'
  BY <1>1, <1>2
     DEF Inv, StandsOnFile, UnsavedIsFileWithEdits, ReadReopens, diskVars,
         tabVars, Now
<1>. QED  BY <1>3, <1>4 DEF Inv

\* A worker that fails a read is dropped, or the document forgotten.
LEMMA WorkerFailsKeeps ==
  ASSUME Inv, WorkerFails
  PROVE  Inv'
<1>1. CASE Drop(memory)
  <2>1. memory \in Content
    BY DEF Inv, TypeOK, WorkerFails
  <2>. QED  BY <1>1, <2>1, DropKeeps DEF WorkerFails
<1>2. CASE Lose(journal)
  <2>1. /\ journals' = journals /\ files' = files /\ path' = path
        /\ reply' \in Replies
    BY DEF WorkerFails, diskVars, Quiet, Replies
  <2>. QED  BY <1>2, <2>1, LoseKeeps, DiskFacts DEF Inv
<1>. QED  BY <1>1, <1>2 DEF WorkerFails

\* A change that fails half made leaves a worker that is not used again.
LEMMA PartwayKeeps ==
  ASSUME Inv, Partway, Half \in Changes
  PROVE  Inv'
<1>1. PICK w \in LiveWorkers :
        Drop(Apply(w.memory, <<Half>>)) \/ Lose(journal)
  BY DEF Partway
<1>2. CASE Drop(Apply(w.memory, <<Half>>))
  <2>1. w.memory \in Content /\ <<Half>> \in Seq(Changes)
    BY LiveWorkerFacts DEF Partway
  <2>2. Apply(w.memory, <<Half>>) \in Content
    BY <2>1, ApplyFacts
  <2>. QED  BY <1>2, <2>2, DropKeeps DEF Partway
<1>3. CASE Lose(journal)
  <2>1. /\ journals' = journals /\ files' = files /\ path' = path
        /\ reply' \in Replies
    BY DEF Partway, diskVars, Quiet, Replies
  <2>. QED  BY <1>3, <2>1, LoseKeeps, DiskFacts DEF Inv
<1>. QED  BY <1>1, <1>2, <1>3

\* Discarding the offered edits touches neither file nor document.
LEMMA DiscardRecoveredKeeps ==
  ASSUME Inv, DiscardRecovered
  PROVE  Inv'
<1>1. /\ journals' \in Disks /\ files' = files /\ path' = path
      /\ reply' \in Replies
  BY DiskFacts, WithoutFacts
     DEF DiscardRecovered, DiskBecomes, Quiet, Replies, Inv
<1>2. CASE lost /\ Lose(journal)
  BY <1>1, <1>2, LoseKeeps, DiskFacts DEF Inv
<1>3. CASE /\ recovered' = None /\ recovery' = "none"
           /\ UNCHANGED <<tab, released, identity, history, pages, lost, journal,
                          memory, original, shown>>
  <2>1. TypeOK'
    BY <1>1, <1>3 DEF Inv, TypeOK, Disks, Replies, Recoveries
  <2>2. StandsOnFile'
    BY <1>1, <1>3 DEF Inv, StandsOnFile, UnsavedIsFileWithEdits, Now
  <2>. QED  BY <2>1, <2>2 DEF Inv
<1>. QED  BY <1>2, <1>3 DEF DiscardRecovered

\* The worker made a change whose result is what the new history says.
LEMMA ChangedKeeps ==
  ASSUME Inv, tab = "open", NEW w \in LiveWorkers, NEW h \in Histories,
         Changed(h, w, Apply(w.original, Applied(h))),
         journals' \in Disks, journal' \in JournalIds \cup {None},
         recovered' \in Found \cup {None}, recovery' \in Recoveries,
         recovery' # "none" => recovered' \in Found
  PROVE  Inv'
<1>1. /\ w.original \in Content
      /\ identity = Len(files[path]) => w.original = Now(path)
  BY LiveWorkerFacts
<1>2. Applied(h) \in Seq(Changes) /\ <<>> \in Seq(Changes)
  BY AppliedFacts, EmptySeq
<1> DEFINE content == Apply(w.original, Applied(h))
<1>3. content \in Content /\ Pages(content) \in Int
  BY <1>1, <1>2, ApplyFacts, PagesFacts
<1>4. /\ history' = h /\ memory' = content /\ original' = w.original
      /\ lost' = FALSE /\ pages' = Pages(content) /\ shown' = content
      /\ reply' = "none" /\ files' = files /\ path' = path /\ tab' = tab
      /\ released' = released /\ identity' = identity
  BY DEF Changed, Quiet, tabVars
<1>5. StandsOnFile'
  <2>1. memory' = Apply(original', Applied(history'))
    BY <1>4
  <2>. QED  BY <1>1, <1>4, <2>1
         DEF Inv, StandsOnFile, UnsavedIsFileWithEdits, Now
<1> HIDE DEF content
<1>6. TypeOK'
  BY <1>1, <1>3, <1>4 DEF Inv, TypeOK, Disks, Histories
<1>. QED  BY <1>5, <1>6 DEF Inv

\* A new edit is on top of the applied ones, in worker and history alike.
LEMMA ApplyEditKeeps ==
  ASSUME Inv, NEW e \in Edits, ApplyEdit(e)
  PROVE  Inv'
<1>1. /\ history \in Histories /\ tab = "open"
      /\ recovered \in Found \cup {None} /\ recovery \in Recoveries
      /\ recovery # "none" => recovered \in Found
      /\ recovered' = recovered /\ recovery' = recovery
  BY HistoryFacts DEF Inv, TypeOK, ApplyEdit, CanEdit, offerVars
<1> DEFINE h == Pushed(history, e)
<1>2. h \in Histories /\ Applied(h) = Applied(history) \o <<e>>
  BY <1>1, PushedFacts
<1>3. PICK w \in LiveWorkers : Changed(h, w, Apply(w.memory, <<e>>))
  BY DEF ApplyEdit
<1>4. KeepJournal(h, path, identity, journal)
  BY DEF ApplyEdit
<1> HIDE DEF h
<1>5. Apply(w.memory, <<e>>) = Apply(w.original, Applied(h))
  <2>1. /\ w.original \in Content
        /\ w.memory = Apply(w.original, Applied(history))
    BY <1>1, LiveWorkerFacts
  <2>2. Applied(history) \in Seq(Changes) /\ <<e>> \in Seq(Changes)
    BY HistoryFacts DEF Changes, Inv
  <2>3. Apply(Apply(w.original, Applied(history)), <<e>>)
          = Apply(w.original, Applied(history) \o <<e>>)
    BY <2>1, <2>2, ApplyFacts
  <2>. QED  BY <1>2, <2>1, <2>3
<1>6. journals' \in Disks /\ journal' \in JournalIds \cup {None}
  BY <1>2, <1>4, KeepJournalFacts, DiskFacts DEF Inv
<1>7. Changed(h, w, Apply(w.original, Applied(h)))
  BY <1>3, <1>5
<1>. QED  BY <1>1, <1>2, <1>6, <1>7, ChangedKeeps

\* Undo reverts the worker to the file and makes the remaining edits again.
LEMMA UndoKeeps ==
  ASSUME Inv, Undo
  PROVE  Inv'
<1>1. /\ history \in Histories /\ tab = "open" /\ Unsaved(history)
      /\ recovered \in Found \cup {None} /\ recovery \in Recoveries
      /\ recovery # "none" => recovered \in Found
      /\ recovered' = recovered /\ recovery' = recovery
  BY HistoryFacts DEF Inv, TypeOK, Undo, offerVars
<1> DEFINE h == Undone(history)
<1>2. h \in Histories /\ Applied(h) = BeforeLast(history)
  BY <1>1, UndoneFacts
<1>3. PICK w \in LiveWorkers :
        Changed(h, w, Apply(w.original, BeforeLast(history)))
  BY DEF Undo
<1>4. KeepJournal(h, path, identity, journal)
  BY DEF Undo
<1> HIDE DEF h
<1>5. Changed(h, w, Apply(w.original, Applied(h)))
  BY <1>2, <1>3
<1>6. journals' \in Disks /\ journal' \in JournalIds \cup {None}
  BY <1>2, <1>4, KeepJournalFacts, DiskFacts DEF Inv
<1>. QED  BY <1>1, <1>2, <1>5, <1>6, ChangedKeeps

\* Redo makes the next edit in the worker and moves the history.
LEMMA RedoKeeps ==
  ASSUME Inv, Redo
  PROVE  Inv'
<1>1. /\ history \in Histories /\ tab = "open" /\ CanRedo(history)
      /\ recovered \in Found \cup {None} /\ recovery \in Recoveries
      /\ recovery # "none" => recovered \in Found
      /\ recovered' = recovered /\ recovery' = recovery
  BY HistoryFacts DEF Inv, TypeOK, Redo, offerVars
<1> DEFINE h == Redone(history)
           e == history.edits[history.applied + 1]
<1>2. h \in Histories /\ e \in Edits /\ Applied(h) = Applied(history) \o <<e>>
  BY <1>1, RedoneFacts
<1>3. PICK w \in LiveWorkers : Changed(h, w, Apply(w.memory, <<e>>))
  BY DEF Redo
<1>4. KeepJournal(h, path, identity, journal)
  BY DEF Redo
<1> HIDE DEF h, e
<1>5. Apply(w.memory, <<e>>) = Apply(w.original, Applied(h))
  <2>1. /\ w.original \in Content
        /\ w.memory = Apply(w.original, Applied(history))
    BY <1>1, LiveWorkerFacts
  <2>2. Applied(history) \in Seq(Changes) /\ <<e>> \in Seq(Changes)
    BY <1>2, HistoryFacts DEF Changes, Inv
  <2>3. Apply(Apply(w.original, Applied(history)), <<e>>)
          = Apply(w.original, Applied(history) \o <<e>>)
    BY <2>1, <2>2, ApplyFacts
  <2>. QED  BY <1>2, <2>1, <2>3
<1>6. journals' \in Disks /\ journal' \in JournalIds \cup {None}
  BY <1>2, <1>4, KeepJournalFacts, DiskFacts DEF Inv
<1>7. Changed(h, w, Apply(w.original, Applied(h)))
  BY <1>3, <1>5
<1>. QED  BY <1>1, <1>2, <1>6, <1>7, ChangedKeeps

\* Recovering makes the offered edits on the file as it was opened.
LEMMA RecoverKeeps ==
  ASSUME Inv, Recover
  PROVE  Inv'
<1>1. /\ history \in Histories /\ tab = "open" /\ ~Unsaved(history)
      /\ Applied(history) = <<>>
  BY HistoryFacts DEF Inv, Recover, CanRecover
<1>2. recovered \in Found
  BY DEF Inv, TypeOK, Recover, CanRecover
<1> DEFINE edits == recovered.edits
           h     == [edits |-> edits, applied |-> Len(edits)]
<1>3. edits \in Seq(Edits) /\ recovered.id \in JournalIds
  BY <1>2 DEF Found
<1>4. h \in Histories /\ Applied(h) = edits
  BY <1>3, ReplayedFacts
<1>5. PICK w \in LiveWorkers : Changed(h, w, Apply(w.memory, edits))
  BY DEF Recover
<1>6. /\ KeepJournal(h, path, identity, recovered.id)
      /\ recovered' = None /\ recovery' = "none"
  BY DEF Recover
<1> HIDE DEF h, edits
<1>7. w.memory = w.original
  <2>1. w.original \in Content /\ w.memory = Apply(w.original, <<>>)
    BY <1>1, LiveWorkerFacts
  <2>2. <<>> \in Seq(Changes)
    BY EmptySeq
  <2>. QED  BY <2>1, <2>2, ApplyFacts
<1>8. journals' \in Disks /\ journal' \in JournalIds \cup {None}
  BY <1>3, <1>4, <1>6, KeepJournalFacts, DiskFacts DEF Inv
<1>9. Changed(h, w, Apply(w.original, Applied(h)))
  BY <1>4, <1>5, <1>7
<1>10. recovered' \in Found \cup {None} /\ recovery' \in Recoveries
  BY <1>6 DEF Recoveries
<1>. QED  BY <1>1, <1>4, <1>6, <1>8, <1>9, <1>10, ChangedKeeps

\* What is known once the file is replaced, whatever becomes of the worker.
LEMMA SavedFacts ==
  ASSUME Inv, tab = "open", NEW f \in Files, NEW content \in Content,
         Replaced(f, content), Saved(f)
  PROVE  /\ files' \in [Files -> Seq(Content)]
         /\ \A g \in Files : files'[g] # <<>>
         /\ path' = f /\ identity' \in Nat /\ identity' = Len(files'[path'])
         /\ Now(path)' = content
         /\ history' \in Histories /\ ~Unsaved(history')
         /\ Applied(history') = <<>>
         /\ journals' \in Disks /\ journal' \in JournalIds \cup {None}
         /\ recovered' \in Found \cup {None} /\ recovery' \in Recoveries
         /\ recovery' # "none" => recovered' \in Found
<1>1. /\ files' \in [Files -> Seq(Content)]
      /\ \A g \in Files : files'[g] # <<>>
      /\ files'[f][Len(files'[f])] = content
  BY ReplacedFacts DEF Inv
<1>2. /\ path' = f /\ identity' = Len(files'[f]) /\ history' = EmptyHistory
      /\ KeepJournal(EmptyHistory, f, identity', journal)
  BY DEF Saved
<1>3. Len(files'[f]) \in Nat
  BY <1>1, LenProperties
<1>4. journals' \in Disks /\ journal' \in JournalIds \cup {None}
  BY <1>2, <1>3, EmptyFacts, KeepJournalFacts, DiskFacts DEF Inv
<1>5. /\ recovered' \in Found \cup {None} /\ recovery' \in Recoveries
      /\ recovery' # "none" => recovered' \in Found
  <2>1. CASE f # path
    BY <2>1 DEF Saved, Recoveries
  <2>2. CASE f = path
    BY <2>2 DEF Saved, Recoveries, Inv, TypeOK
  <2>. QED  BY <2>1, <2>2
<1>. QED  BY <1>1, <1>2, <1>3, <1>4, <1>5, EmptyFacts DEF Now

\* A save makes the file what was shown; the document stands on it, is
\* dropped or is forgotten.
LEMMA SaveKeeps ==
  ASSUME Inv, Save
  PROVE  Inv'
<1>1. PICK target \in SaveTargets, w \in LiveWorkers :
        \/ /\ \/ SaveKept(target[2], w.memory)
              \/ SaveDropped(target[2], w.memory)
           /\ reply' = target[1]
        \/ /\ SaveLost(target[2], w.memory)
           /\ reply' = "error"
  BY DEF Save
<1> DEFINE f == target[2]
           content == w.memory
<1>2. /\ f \in Files /\ target[1] \in Replies /\ tab = "open"
      /\ path \in Files
  BY DEF SaveTargets, OwnFileFree, Replies, Inv, TypeOK
<1>3. content \in Content
  BY <1>2, LiveWorkerFacts
<1> HIDE DEF f, content
<1>4. CASE SaveKept(f, content) /\ reply' \in Replies
  <2>1. /\ memory' = content /\ original' = content /\ lost' = FALSE
        /\ tab' = "open" /\ released' = released /\ pages' = pages
        /\ shown' = shown
    BY <1>2, <1>4 DEF SaveKept
  <2>2. Replaced(f, content) /\ Saved(f)
    BY <1>4 DEF SaveKept
  <2>3. /\ files' \in [Files -> Seq(Content)]
        /\ \A g \in Files : files'[g] # <<>>
        /\ path' = f /\ identity' \in Nat /\ identity' = Len(files'[path'])
        /\ Now(path)' = content
        /\ history' \in Histories /\ ~Unsaved(history')
        /\ Applied(history') = <<>>
        /\ journals' \in Disks /\ journal' \in JournalIds \cup {None}
        /\ recovered' \in Found \cup {None} /\ recovery' \in Recoveries
        /\ recovery' # "none" => recovered' \in Found
    BY <1>2, <1>3, <2>2, SavedFacts
  <2>4. TypeOK'
    BY <1>2, <1>3, <1>4, <2>1, <2>3
       DEF Inv, TypeOK, Disks, Histories, Replies
  <2>5. memory' = Apply(original', Applied(history'))
    <3>1. <<>> \in Seq(Changes)
      BY EmptySeq
    <3>. QED  BY <1>3, <2>1, <2>3, <3>1, ApplyFacts
  <2>6. identity' <= Len(files'[path']) /\ original' = Now(path)'
    BY <2>1, <2>3
  <2>7. StandsOnFile'
    BY <2>1, <2>3, <2>5, <2>6 DEF StandsOnFile, UnsavedIsFileWithEdits
  <2>. QED  BY <2>4, <2>7 DEF Inv
<1>5. CASE SaveDropped(f, content) /\ reply' \in Replies
  <2>1. /\ memory' = content /\ original' = original /\ lost' = TRUE
        /\ tab' = "open" /\ released' = released /\ pages' = pages
        /\ shown' = shown
    BY <1>2, <1>5 DEF SaveDropped
  <2>2. Replaced(f, content) /\ Saved(f)
    BY <1>5 DEF SaveDropped
  <2>3. /\ files' \in [Files -> Seq(Content)]
        /\ \A g \in Files : files'[g] # <<>>
        /\ path' = f /\ identity' \in Nat /\ identity' = Len(files'[path'])
        /\ history' \in Histories /\ ~Unsaved(history')
        /\ journals' \in Disks /\ journal' \in JournalIds \cup {None}
        /\ recovered' \in Found \cup {None} /\ recovery' \in Recoveries
        /\ recovery' # "none" => recovered' \in Found
    BY <1>2, <1>3, <2>2, SavedFacts
  <2>4. TypeOK'
    BY <1>2, <1>3, <1>5, <2>1, <2>3
       DEF Inv, TypeOK, Disks, Histories, Replies
  <2>5. identity' <= Len(files'[path'])
    BY <2>3
  <2>6. StandsOnFile'
    BY <2>1, <2>3, <2>5 DEF StandsOnFile, UnsavedIsFileWithEdits
  <2>. QED  BY <2>4, <2>6 DEF Inv
<1>6. CASE SaveLost(f, content) /\ reply' \in Replies
  <2>1. /\ Replaced(f, content) /\ path' = path
        /\ DiskBecomes(Without(journal)) /\ Lose(None)
    BY <1>6 DEF SaveLost
  <2>2. journals' \in Disks
    BY <2>1, WithoutFacts, DiskFacts DEF DiskBecomes, Inv
  <2>3. /\ files' \in [Files -> Seq(Content)]
        /\ \A g \in Files : files'[g] # <<>>
    BY <1>2, <1>3, <2>1, ReplacedFacts DEF Inv
  <2>. QED  BY <1>2, <1>6, <2>1, <2>2, <2>3, LoseKeeps
<1>7. "error" \in Replies
  BY DEF Replies
<1>. QED  BY <1>1, <1>2, <1>4, <1>5, <1>6, <1>7 DEF f, content

\* The app dies once the file is replaced: no document is left.
LEMMA SaveThenCrashKeeps ==
  ASSUME Inv, SaveThenCrash
  PROVE  Inv'
<1>1. PICK target \in SaveTargets, w \in LiveWorkers :
        Replaced(target[2], w.memory)
  BY DEF SaveThenCrash
<1>2. target[2] \in Files /\ tab = "open" /\ path \in Files
  BY DEF SaveTargets, OwnFileFree, Inv, TypeOK
<1>3. w.memory \in Content
  BY <1>2, LiveWorkerFacts
<1>4. /\ files' \in [Files -> Seq(Content)]
      /\ \A g \in Files : files'[g] # <<>>
  BY <1>1, <1>2, <1>3, ReplacedFacts DEF Inv
<1>5. /\ NoDocument /\ tab' = "closed" /\ released' = None
      /\ journals' \in Disks /\ path' \in Files /\ reply' \in Replies
  BY <1>2, DiskFacts DEF SaveThenCrash, Quiet, Replies, Inv
<1>. QED  BY <1>4, <1>5, NoDocumentKeeps

\* Marking the file does the same as saving, with the mark as the change.
LEMMA SetSensitiveKeeps ==
  ASSUME Inv, SetSensitive, Mark \in Changes
  PROVE  Inv'
<1> DEFINE marked(w) == Apply(w.original, <<Mark>>)
<1>1. PICK w \in LiveWorkers :
        /\ Replaced(path, marked(w))
        /\ \/ /\ memory' = marked(w) /\ original' = marked(w) /\ lost' = FALSE
              /\ shown' = marked(w) /\ identity' = Len(files'[path])
              /\ UNCHANGED <<tab, released, history, pages, journal, offerVars>>
           \/ /\ memory' = w.memory /\ original' = w.original /\ lost' = TRUE
              /\ shown' = marked(w) /\ identity' = Len(files'[path])
              /\ UNCHANGED <<tab, released, history, pages, journal, offerVars>>
           \/ Lose(journal)
  BY DEF SetSensitive
<1> DEFINE content == marked(w)
<1>2. /\ tab = "open" /\ path \in Files /\ path' = path /\ journals' = journals
      /\ reply' \in Replies /\ ~Unsaved(history) /\ Applied(history) = <<>>
  BY HistoryFacts DEF SetSensitive, CanMark, Inv, TypeOK, Replies
<1>3. w.original \in Content /\ w.memory \in Content
  BY <1>2, LiveWorkerFacts
<1>4. content \in Content
  <2>1. <<Mark>> \in Seq(Changes)
    OBVIOUS
  <2>. QED  BY <1>3, <2>1, ApplyFacts
<1>5. Replaced(path, content)
  BY <1>1
<1> HIDE DEF marked, content
<1>6. /\ files' \in [Files -> Seq(Content)]
      /\ \A g \in Files : files'[g] # <<>>
      /\ files'[path][Len(files'[path])] = content
  BY <1>2, <1>4, <1>5, ReplacedFacts DEF Inv
<1>7. Len(files'[path]) \in Nat
  BY <1>2, <1>6, LenProperties
<1>8. CASE Lose(journal)
  BY <1>2, <1>6, <1>8, LoseKeeps, DiskFacts DEF Inv
<1>9. CASE /\ \/ memory' = content /\ original' = content /\ lost' = FALSE
              \/ memory' = w.memory /\ original' = w.original /\ lost' = TRUE
           /\ shown' = content /\ identity' = Len(files'[path])
           /\ UNCHANGED <<tab, released, history, pages, journal, offerVars>>
  <2>1. TypeOK'
    BY <1>2, <1>3, <1>4, <1>6, <1>7, <1>9
       DEF Inv, TypeOK, Replies, offerVars
  <2>2. Apply(content, Applied(history)) = content
    <3>1. <<>> \in Seq(Changes)
      BY EmptySeq
    <3>. QED  BY <1>2, <1>4, <3>1, ApplyFacts
  <2>3. StandsOnFile'
    <3>1. history' = history /\ path' = path /\ identity' <= Len(files'[path'])
      BY <1>2, <1>7, <1>9
    <3>2. ~lost' => /\ memory' = Apply(original', Applied(history'))
                    /\ original' = Now(path)'
      BY <1>2, <1>6, <1>9, <2>2, <3>1 DEF Now
    <3>3. ~Unsaved(history')
      BY <1>2, <3>1
    <3>. QED  BY <3>1, <3>2, <3>3 DEF StandsOnFile, UnsavedIsFileWithEdits
  <2>. QED  BY <2>1, <2>3 DEF Inv
<1>. QED  BY <1>1, <1>8, <1>9 DEF content

\* Closing leaves no document.
LEMMA CloseKeeps ==
  ASSUME Inv, Close \/ AppCrash
  PROVE  Inv'
<1>1. journals' \in Disks
  BY DiskFacts, WithoutFacts DEF Close, AppCrash, DiskBecomes, diskVars, Inv
<1>2. /\ NoDocument /\ tab' = "closed" /\ released' = None
      /\ files' = files /\ path' = path /\ reply' \in Replies
  BY DEF Close, AppCrash, Quiet, Replies, diskVars
<1>. QED  BY <1>1, <1>2, NoDocumentKeeps, DiskFacts DEF Inv

\* Another program's write makes a new version, with another identity.
LEMMA ExternalKeeps ==
  ASSUME Inv, NEW f \in Files, NEW b \in Bases, External(f, b)
  PROVE  Inv'
<1> DEFINE content == [base |-> b, edits |-> <<>>]
<1>1. content \in Content
  BY EmptySeq DEF Content
<1>2. Replaced(f, content)
  BY DEF External
<1> HIDE DEF content
<1>3. /\ files' \in [Files -> Seq(Content)]
      /\ \A g \in Files : files'[g] # <<>>
      /\ Len(files'[f]) = Len(files[f]) + 1
      /\ \A g \in Files \ {f} : files'[g] = files[g]
  BY <1>1, <1>2, ReplacedFacts DEF Inv
<1>4. /\ UNCHANGED <<journals, tab, path, released, identity, history, pages,
                     lost, journal, recovered, recovery, memory, original, shown>>
      /\ reply' = "none"
  BY DEF External, Quiet, tabVars, docVars
<1>5. TypeOK'
  BY <1>3, <1>4 DEF Inv, TypeOK
<1>6. StandsOnFile'
  <2>1. /\ path \in Files /\ identity \in Nat /\ Len(files[path]) \in Nat
    BY NowFacts DEF Inv, TypeOK
  <2>2. CASE path = f
    <3>1. tab \in {"opening", "open"} =>
            identity <= Len(files'[path]) /\ identity # Len(files'[path])
      BY <1>3, <2>1, <2>2 DEF Inv, StandsOnFile
    <3>. QED  BY <1>4, <3>1
           DEF Inv, StandsOnFile, UnsavedIsFileWithEdits
  <2>3. CASE path # f
    <3>1. files'[path] = files[path]
      BY <1>3, <2>1, <2>3
    <3>. QED  BY <1>4, <3>1
           DEF Inv, StandsOnFile, UnsavedIsFileWithEdits, Now
  <2>. QED  BY <2>2, <2>3
<1>. QED  BY <1>5, <1>6 DEF Inv

\* Every step keeps the invariant.
LEMMA StepKeeps ==
  ASSUME Inv, [Next]_vars
  PROVE  Inv'
<1>1. Half \in Changes /\ Mark \in Changes
  BY DEF Changes
<1>2. CASE UNCHANGED vars
  <2>1. TypeOK'
    BY <1>2 DEF Inv, TypeOK, vars
  <2>2. StandsOnFile'
    BY <1>2 DEF Inv, StandsOnFile, UnsavedIsFileWithEdits, Now, vars
  <2>. QED  BY <2>1, <2>2 DEF Inv
<1>3. CASE Next
  BY <1>1, <1>3, StartLoadKeeps, LoadFailsKeeps, LoadPlainKeeps,
     LoadReplaysKeeps, LoadReplayFailsKeeps, ReadReopensKeeps,
     WorkerFailsKeeps, ApplyEditKeeps, UndoKeeps, RedoKeeps, RecoverKeeps,
     PartwayKeeps, DiscardRecoveredKeeps, SaveKeeps, SaveThenCrashKeeps,
     SetSensitiveKeeps, CloseKeeps, ExternalKeeps
     DEF Next
<1>. QED  BY <1>2, <1>3

\* The app starts with no document and files other programs made.
LEMMA InitHolds == Init => Inv
<1> SUFFICES ASSUME Init PROVE Inv
  OBVIOUS
<1>1. files \in [Files -> Seq(Content)] /\ \A f \in Files : files[f] # <<>>
  <2> DEFINE first(b) == <<[base |-> b, edits |-> <<>>]>>
  <2>1. ASSUME NEW b \in Bases
        PROVE  first(b) \in Seq(Content) /\ first(b) # <<>>
    <3>1. [base |-> b, edits |-> <<>>] \in Content
      BY EmptySeq DEF Content
    <3>. QED  BY <3>1
  <2>2. files \in [Files -> {first(b) : b \in Bases}]
    BY DEF Init
  <2> HIDE DEF first
  <2>3. \A f \in Files : \E b \in Bases : files[f] = first(b)
    BY <2>2
  <2>. QED  BY <2>1, <2>2, <2>3
<1>2. /\ history \in [edits : Seq(Edits), applied : Nat]
      /\ history.applied <= Len(history.edits)
  BY EmptyFacts DEF Init, Histories
<1>3. journals \in [JournalIds -> Record \cup {None}]
  BY DEF Init
<1>4. TypeOK
  <2>1. /\ identity \in Nat /\ pages \in Int
    BY DEF Init
  <2>2. /\ lost \in BOOLEAN /\ journal \in JournalIds \cup {None}
        /\ released \in JournalIds \cup {None} /\ path \in Files
    BY DEF Init
  <2>3. /\ recovered \in Found \cup {None} /\ recovery \in Recoveries
        /\ recovery = "none"
    BY DEF Init, Recoveries
  <2>4. /\ tab \in {"closed", "opening", "failed", "asking", "open"}
        /\ tab # "open" /\ history = EmptyHistory /\ journal = None
        /\ recovered = None
        /\ reply \in {"none", "saved", "savedAs", "error"}
    BY DEF Init
  <2>. QED  BY <1>1, <1>2, <1>3, <2>1, <2>2, <2>3, <2>4, Zenon DEF TypeOK
<1>5. StandsOnFile
  BY DEF Init, StandsOnFile, UnsavedIsFileWithEdits
<1>. QED  BY <1>4, <1>5 DEF Inv

-----------------------------------------------------------------------------
(* Theorems.                                                                *)

\* Every variable always has its type.
THEOREM TypeCorrect == Spec => []TypeOK
<1>1. Inv => TypeOK
  BY DEF Inv
<1>. QED  BY <1>1, InitHolds, StepKeeps, PTL DEF Spec

\* A document always stands on a version its file has had, and while no other
\* program writes the file, what the page was shown of unsaved work is that file
\* with the edits, whatever workers died, however often the app crashed.
THEOREM WorkStandsOnItsFile == Spec => [](StandsOnFile /\ UnsavedIsFileWithEdits)
<1>1. Inv => StandsOnFile /\ UnsavedIsFileWithEdits
  BY DEF Inv, StandsOnFile
<1>. QED  BY <1>1, InitHolds, StepKeeps, PTL DEF Spec

\* Each step that saves to the document's own file writes what was shown.
LEMMA SavedIsShown ==
  ASSUME Inv, Next, reply' = "saved"
  PROVE  /\ files' = [files EXCEPT ![path] = Append(@, shown)]
         /\ identity = Len(files[path])
<1>1. Save
  BY DEF Next, StartLoad, LoadFails, LoadPlain, LoadReplays, LoadReplayFails,
         Opened, ReadReopens, WorkerFails, ApplyEdit, Changed, Undo, Redo,
         Recover, Partway, DiscardRecovered, SaveThenCrash, SetSensitive, Close,
         AppCrash, External, Quiet
<1>2. PICK target \in SaveTargets, w \in LiveWorkers :
        /\ SaveKept(target[2], w.memory) \/ SaveDropped(target[2], w.memory)
        /\ target[1] = "saved"
  BY <1>1 DEF Save
<1>3. target[2] = path /\ OwnFileFree
  BY <1>2 DEF SaveTargets
<1>4. Replaced(path, w.memory)
  BY <1>2, <1>3 DEF SaveKept, SaveDropped
<1>5. /\ w.memory = Apply(w.original, Applied(history))
      /\ w.original = Now(path)
      /\ shown = Apply(Now(path), Applied(history))
  BY <1>3, LiveWorkerFacts
     DEF OwnFileFree, Inv, StandsOnFile, UnsavedIsFileWithEdits
<1>. QED  BY <1>3, <1>4, <1>5 DEF Replaced, OwnFileFree

\* A save to the document's own file writes exactly what the page was shown, and
\* never over a version of the file another program wrote.
THEOREM SavesWhatIsShown == Spec => SaveWritesWhatIsShown
<1>1. ASSUME Inv, [Next]_vars
      PROVE  [reply' = "saved" =>
                /\ files' = [files EXCEPT ![path] = Append(@, shown)]
                /\ identity = Len(files[path])]_vars
  BY <1>1, SavedIsShown
<1>. QED  BY <1>1, InitHolds, StepKeeps, PTL DEF Spec, SaveWritesWhatIsShown

-----------------------------------------------------------------------------
(* The journal.                                                             *)

\* What a journal keeps: the edits up to the first that takes another file's pages.
LEMMA JournalledIs ==
  ASSUME NEW edits \in Seq(Edits)
  PROVE  \E k \in 0..Len(edits) :
           /\ Journalled(edits) = SubSeq(edits, 1, k)
           /\ Len(Journalled(edits)) = k /\ Journalled(edits) \in Seq(Edits)
           /\ \A i \in 1..k : edits[i] \notin Inserts /\ Journalled(edits)[i] = edits[i]
           /\ k < Len(edits) => edits[k + 1] \in Inserts
<1>1. /\ Len(edits) \in Nat /\ DOMAIN edits = 1..Len(edits)
      /\ \A i \in 1..Len(edits) : edits[i] \in Edits
  BY LenProperties, ElementOfSeq
<1>2. ASSUME NEW k \in 0..Len(edits)
      PROVE  /\ SubSeq(edits, 1, k) \in Seq(Edits) /\ Len(SubSeq(edits, 1, k)) = k
             /\ \A i \in 1..k : SubSeq(edits, 1, k)[i] = edits[i]
  <2>1. \A i \in 1..k : edits[i] \in Edits
    BY <1>1
  <2>2. /\ SubSeq(edits, 1, k) \in Seq(Edits)
        /\ Len(SubSeq(edits, 1, k)) = IF 1 <= k THEN k - 1 + 1 ELSE 0
        /\ \A i \in 1..(k - 1 + 1) : SubSeq(edits, 1, k)[i] = edits[1 + i - 1]
    BY <2>1, SubSeqProperties
  <2>. QED  BY <1>1, <2>2
<1>3. CASE ~ \E i \in DOMAIN edits : edits[i] \in Inserts
  <2>1. Journalled(edits) = edits
    BY <1>3 DEF Journalled
  <2>2. Len(edits) \in 0..Len(edits) /\ SubSeq(edits, 1, Len(edits)) = edits
    BY <1>1, SubSeqFull
  <2>3. \A i \in 1..Len(edits) :
          edits[i] \notin Inserts /\ Journalled(edits)[i] = edits[i]
    BY <1>1, <1>3, <2>1
  <2> DEFINE n == Len(edits)
  <2>4. /\ n \in 0..Len(edits) /\ Journalled(edits) = SubSeq(edits, 1, n)
        /\ Len(Journalled(edits)) = n /\ Journalled(edits) \in Seq(Edits)
        /\ \A i \in 1..n :
             edits[i] \notin Inserts /\ Journalled(edits)[i] = edits[i]
        /\ ~(n < Len(edits))
    BY <1>1, <2>1, <2>2, <2>3
  <2> HIDE DEF n
  <2>. QED  BY <2>4
<1>4. CASE \E i \in DOMAIN edits : edits[i] \in Inserts
  <2> DEFINE Takes == {i \in DOMAIN edits : edits[i] \in Inserts}
             IsFirst(i) == /\ edits[i] \in Inserts
                           /\ \A j \in 1..(i - 1) : edits[j] \notin Inserts
             first == CHOOSE i \in DOMAIN edits : IsFirst(i)
  <2>1. PICK m \in Takes : \A i \in Takes : m <= i
    <3>1. Takes \in SUBSET Nat /\ Takes # {}
      BY <1>1, <1>4
    <3>. QED  BY <3>1, Minimum
  <2>2. \E i \in DOMAIN edits : IsFirst(i)
    <3>1. \A j \in 1..(m - 1) : edits[j] \notin Inserts
      BY <1>1, <2>1
    <3>. QED  BY <2>1, <3>1
  <2>3. first \in 1..Len(edits) /\ IsFirst(first)
    BY <1>1, <2>2
  <2>4. Journalled(edits) = SubSeq(edits, 1, first - 1)
    BY <1>4, Zenon DEF Journalled
  <2> HIDE DEF first
  <2> DEFINE k == first - 1
  <2>5. /\ k \in 0..Len(edits) /\ k + 1 = first
        /\ \A i \in 1..k : edits[i] \notin Inserts
    BY <1>1, <2>3
  <2> HIDE DEF k
  <2>6. Journalled(edits) = SubSeq(edits, 1, k)
    BY <2>4 DEF k
  <2>. QED  BY <1>2, <2>3, <2>5, <2>6
<1>. QED  BY <1>3, <1>4

\* Fewer edits need no more room.
LEMMA FewerFit ==
  ASSUME NEW h \in Histories, Fits(h.edits)
  PROVE  Fits(Applied(h))
<1> DEFINE s == h.edits
           n == h.applied
           p == Applied(h)
<1>1. s \in Seq(Edits) /\ n \in Nat /\ n <= Len(s) /\ Len(s) \in Nat
  BY LenProperties DEF Histories
<1>2. p \in Seq(Edits) /\ Len(p) = n /\ \A i \in 1..n : p[i] = s[i]
  <2>1. \A i \in 1..n : s[i] \in Edits
    BY <1>1, ElementOfSeq
  <2>2. \A i \in 1..(n - 1 + 1) : SubSeq(s, 1, n)[i] = s[1 + i - 1]
    BY <1>1, <2>1, SubSeqProperties
  <2>. QED  BY <1>1, <2>2, AppliedFacts DEF Applied
<1> HIDE DEF s, n, p
<1>3. PICK k \in 0..Len(s) :
        /\ Len(Journalled(s)) = k
        /\ k < Len(s) => s[k + 1] \in Inserts
  BY <1>1, JournalledIs
<1>4. PICK j \in 0..Len(p) :
        /\ Len(Journalled(p)) = j
        /\ \A i \in 1..j : p[i] \notin Inserts
  BY <1>2, JournalledIs
<1>5. j <= k
  <2> SUFFICES ASSUME k < j PROVE FALSE
    BY <1>1, <1>2
  <2>1. k + 1 \in 1..j /\ k < Len(s) /\ k + 1 \in 1..n
    BY <1>1, <1>2
  <2>. QED  BY <1>2, <1>3, <1>4, <2>1
<1>6. k <= JournalRoom
  BY <1>3 DEF Fits, s
<1>. QED  BY <1>1, <1>2, <1>3, <1>4, <1>5, <1>6, EditingAssumption DEF Fits, p

\* Edits without another file's pages are kept whole.
LEMMA KeptWhole ==
  ASSUME NEW edits \in Seq(Edits), \A i \in DOMAIN edits : edits[i] \notin Inserts,
         Len(edits) <= JournalRoom
  PROVE  Fits(edits)
BY DEF Fits, Journalled

\* A journal recovery.rs read() accepts, and that was not too large to write.
Good(stored) == Readable(stored) /\ Len(stored.edits) <= JournalRoom

\* A history that can be journalled however much of it is applied.
CanBeKept(h) == Len(h.edits) <= MaxUndo /\ Fits(h.edits)

LEMMA EmptyCanBeKept == CanBeKept(EmptyHistory)
<1>1. <<>> \in Seq(Edits) /\ Len(<<>>) = 0
  BY EmptySeq
<1>2. EmptyHistory.edits = <<>>
  BY DEF EmptyHistory
<1>3. DOMAIN <<>> = {}
  OBVIOUS
<1>4. Fits(<<>>)
  <2>1. Journalled(<<>>) = <<>>
    BY <1>3 DEF Journalled
  <2>. QED  BY <1>1, <2>1, EditingAssumption DEF Fits
<1>. QED  BY <1>1, <1>2, <1>4, EditingAssumption DEF CanBeKept

\* What keep_journal writes of it is such a journal.
LEMMA JournalOfIsGood ==
  ASSUME NEW h \in Histories, CanBeKept(h), Unsaved(h), NEW f, NEW v
  PROVE  Good(JournalOf(h, f, v)) /\ Fits(Applied(h))
<1>1. /\ Applied(h) \in Seq(Edits) /\ Len(Applied(h)) = h.applied
      /\ h.applied \in Nat /\ h.applied > 0 /\ h.applied <= MaxUndo
  BY AppliedFacts, LenProperties, EditingAssumption DEF Histories, CanBeKept, Unsaved
<1>2. Fits(Applied(h))
  BY FewerFit DEF CanBeKept
<1>3. PICK k \in 0..Len(Applied(h)) :
        /\ Len(Journalled(Applied(h))) = k /\ Journalled(Applied(h)) \in Seq(Edits)
        /\ \A i \in 1..k : /\ Applied(h)[i] \notin Inserts
                           /\ Journalled(Applied(h))[i] = Applied(h)[i]
  BY <1>1, JournalledIs
<1> DEFINE stored == JournalOf(h, f, v)
<1>4. /\ stored.edits = Journalled(Applied(h)) /\ stored.lost = h.applied - k
  BY <1>1, <1>3 DEF JournalOf
<1> HIDE DEF stored
<1>5. /\ Len(stored.edits) = k /\ DOMAIN stored.edits = 1..k
      /\ \A i \in 1..k : stored.edits[i] \notin Inserts
  BY <1>3, <1>4, LenProperties
<1>6. stored.edits # <<>> \/ stored.lost > 0
  <2>1. CASE k = 0
    BY <1>1, <1>4, <2>1
  <2>2. CASE k # 0
    BY <1>3, <1>5, <2>2
  <2>. QED  BY <2>1, <2>2
<1>7. Len(stored.edits) + stored.lost <= MaxUndo
  BY <1>1, <1>3, <1>4, <1>5
<1>8. Len(stored.edits) <= JournalRoom
  BY <1>2, <1>4 DEF Fits
<1>. QED  BY <1>2, <1>5, <1>6, <1>7, <1>8 DEF Good, Readable, stored

\* Edits out of a good journal, made again, can be journalled.
LEMMA ReplayCanBeKept ==
  ASSUME NEW edits \in Seq(Edits), Len(edits) <= MaxUndo,
         Len(edits) <= JournalRoom,
         \A i \in DOMAIN edits : edits[i] \notin Inserts
  PROVE  CanBeKept([edits |-> edits, applied |-> Len(edits)])
BY KeptWhole DEF CanBeKept

\* Every journal on disk is a good one.
AllGood ==
  \A id \in JournalIds : journals[id] # None => Good(journals[id])

\* What the user is offered came out of a good journal, which is not the
\* document's own; while it may be taken it is for the document's version.
OfferHolds ==
  recovered # None =>
    /\ recovered.id # journal
    /\ Len(recovered.edits) <= MaxUndo /\ Len(recovered.edits) <= JournalRoom
    /\ \A i \in DOMAIN recovered.edits : recovered.edits[i] \notin Inserts
    /\ journals[recovered.id] # None =>
         journals[recovered.id].version = recovered.version
    /\ recovery \in {"available", "partial"} => recovered.version = identity

\* The worker that is used has as many pages as the page was told.
PagesHold == tab = "open" /\ ~lost => pages = Pages(memory)

JournalInv ==
  /\ AllGood
  /\ CanBeKept(history)
  /\ OfferHolds
  /\ ~DiskFails => JournalInStep

\* What keep_journal does to the folder: it writes the document's own journal or
\* a new one, and takes its own away.
LEMMA KeptFacts ==
  ASSUME TypeOK, AllGood, NEW h \in Histories, CanBeKept(h), NEW f, NEW v,
         NEW own \in JournalIds \cup {None}, KeepJournal(h, f, v, own)
  PROVE  /\ AllGood'
         /\ journal' \in FreeIds \cup {own, None}
         /\ own # None => journal' \in {own, None}
         /\ \A id \in JournalIds :
              id # own /\ id \notin FreeIds => journals'[id] = journals[id]
         /\ Unsaved(h) => journal' # None
         /\ ~Unsaved(h) => journal' = None
         /\ ~DiskFails /\ Unsaved(h) => journals'[journal'] = JournalOf(h, f, v)
         /\ ~DiskFails /\ own # None /\ journal' # own => journals'[own] = None
<1>1. journals \in Disks /\ None \notin JournalIds
  BY DiskFacts, EditingAssumption
<1>2. CASE Unsaved(h)
  <2> DEFINE stored == JournalOf(h, f, v)
  <2>1. Good(stored) /\ Fits(Applied(h))
    BY <1>2, JournalOfIsGood
  <2>2. PICK id \in (IF own = None THEN FreeIds ELSE {own}) :
          journal' = id /\ DiskBecomes(Written(id, h, f, v))
    BY <1>2 DEF KeepJournal
  <2> HIDE DEF stored
  <2>3. Written(id, h, f, v) = [journals EXCEPT ![id] = stored]
    BY <2>1 DEF Written, stored
  <2>4. /\ journals' = [journals EXCEPT ![id] = stored] \/ journals' = journals
        /\ ~DiskFails => journals' = [journals EXCEPT ![id] = stored]
    BY <2>2, <2>3 DEF DiskBecomes
  <2>5. id \in JournalIds /\ id # None
    BY <1>1, <2>2 DEF FreeIds
  <2>6. AllGood'
    <3>1. SUFFICES ASSUME NEW x \in JournalIds, journals'[x] # None
                   PROVE  Good(journals'[x])
      BY DEF AllGood
    <3>2. journals'[x] \in {stored, journals[x]}
      BY <1>1, <2>4, <2>5 DEF Disks
    <3>. QED  BY <2>1, <3>1, <3>2 DEF AllGood
  <2>7. \A x \in JournalIds :
          x # own /\ x \notin FreeIds => journals'[x] = journals[x]
    BY <1>1, <2>2, <2>4 DEF Disks
  <2>8. ~DiskFails => journals'[journal'] = stored
    BY <1>1, <2>2, <2>4, <2>5 DEF Disks
  <2>. QED  BY <1>2, <2>2, <2>5, <2>6, <2>7, <2>8 DEF stored
<1>3. CASE ~Unsaved(h)
  <2>1. journal' = None /\ DiskBecomes(Without(own))
    BY <1>3 DEF KeepJournal
  <2>2. /\ journals' = Without(own) \/ journals' = journals
        /\ ~DiskFails => journals' = Without(own)
    BY <2>1 DEF DiskBecomes
  <2>3. AllGood'
    BY <1>1, <2>2 DEF AllGood, Without, Disks
  <2>4. \A x \in JournalIds : x # own => journals'[x] = journals[x]
    BY <1>1, <2>2 DEF Without, Disks
  <2>5. ~DiskFails /\ own # None => journals'[own] = None
    BY <1>1, <2>2 DEF Without, Disks
  <2>. QED  BY <1>3, <2>1, <2>3, <2>4, <2>5
<1>. QED  BY <1>2, <1>3

\* Without a document only the folder has to be right.
LEMMA NoDocumentKeepsJournals ==
  ASSUME NoDocument, AllGood', tab' # "open"
  PROVE  JournalInv'
BY EmptyCanBeKept
   DEF NoDocument, JournalInv, OfferHolds, JournalInStep

\* Journals that go take nothing good away.
LEMMA FewerAreGood ==
  ASSUME TypeOK, AllGood, NEW id, journals' = journals \/ DiskBecomes(Without(id))
  PROVE  AllGood'
BY DiskFacts DEF AllGood, DiskBecomes, Without, Disks

\* Nothing of the document changed, or only its worker did.
LEMMA SameDocumentKeepsJournals ==
  ASSUME JournalInv,
         UNCHANGED <<journals, tab, path, identity, history, journal, recovered,
                     recovery>>
  PROVE  JournalInv'
BY DEF JournalInv, AllGood, OfferHolds, JournalInStep

\* A document that is not open, and has none.
LEMMA NotOpenKeepsJournals ==
  ASSUME TypeOK, JournalInv, tab # "open", tab' # "open",
         UNCHANGED <<journals, history, journal, recovered, recovery>>
  PROVE  JournalInv'
BY DEF TypeOK, JournalInv, AllGood, OfferHolds, JournalInStep

\* A step from a document that is open to the one after it, or to none.
JournalStep ==
  /\ journal # None /\ journal' # journal /\ tab' = "open" /\ ~DiskFails =>
       journals'[journal] = None
  /\ journal' # journal /\ journal' # None /\ journals[journal'] # None =>
       journals[journal'].version = identity'

\* The document's own journal goes when it is no longer the document's.
LEMMA KeepJournalSteps ==
  ASSUME TypeOK, AllGood, NEW h \in Histories, CanBeKept(h), NEW f, NEW v,
         KeepJournal(h, f, v, journal)
  PROVE  JournalStep
<1>1. journal \in JournalIds \cup {None}
  BY DEF TypeOK
<1>2. /\ journal' \in FreeIds \cup {journal, None}
      /\ journal # None => journal' \in {journal, None}
      /\ ~DiskFails /\ journal # None /\ journal' # journal =>
           journals'[journal] = None
  BY <1>1, KeptFacts
<1>. QED  BY <1>2 DEF JournalStep, FreeIds

\* An edit, undo or redo keeps the journal in step with the history.
LEMMA ChangeKeepsJournals ==
  ASSUME TypeOK, JournalInv, tab = "open", NEW h \in Histories, CanBeKept(h),
         KeepJournal(h, path, identity, journal), history' = h,
         UNCHANGED <<tab, path, identity, recovered, recovery>>
  PROVE  JournalInv'
<1>1. journal \in JournalIds \cup {None}
  BY DEF TypeOK
<1>2. /\ AllGood'
      /\ journal' \in FreeIds \cup {journal, None}
      /\ \A id \in JournalIds :
           id # journal /\ id \notin FreeIds => journals'[id] = journals[id]
      /\ Unsaved(h) => journal' # None
      /\ ~Unsaved(h) => journal' = None
      /\ ~DiskFails /\ Unsaved(h) =>
           journals'[journal'] = JournalOf(h, path, identity)
  BY <1>1, KeptFacts DEF JournalInv
<1>3. OfferHolds'
  <2> SUFFICES ASSUME recovered # None PROVE OfferHolds'
    BY DEF OfferHolds
  <2>1. recovered \in Found /\ recovered.id \in JournalIds
    BY DEF TypeOK, Found
  <2>2. recovered.id \notin FreeIds
    BY DEF FreeIds, FoundId
  <2>3. recovered.id # journal
    BY DEF JournalInv, OfferHolds
  <2>4. journals'[recovered.id] = journals[recovered.id]
    BY <1>2, <2>1, <2>2, <2>3
  <2>5. recovered.id # journal'
    BY <1>2, <2>1, <2>2, <2>3, EditingAssumption
  <2>. QED  BY <2>4, <2>5 DEF JournalInv, OfferHolds
<1>4. ~DiskFails => JournalInStep'
  BY <1>2 DEF JournalInStep
<1>. QED  BY <1>2, <1>3, <1>4 DEF JournalInv

\* Opening a file: what it offers is a good journal's, which it leaves alone.
LEMMA OfferedIsGood ==
  ASSUME TypeOK, JournalInv, FoundFor(path) # None, Offer(FoundFor(path)),
         journal' = None, UNCHANGED <<journals, identity>>,
         history' = EmptyHistory
  PROVE  JournalInv'
<1> DEFINE id == FoundFor(path)
<1>1. id \in JournalIds /\ journals[id] # None
  BY FoundForFacts
<1>2. journals[id] \in Record /\ Good(journals[id])
  BY <1>1 DEF TypeOK, JournalInv, AllGood
<1>3. /\ recovered' = [id |-> id, edits |-> journals[id].edits,
                       version |-> journals[id].version]
      /\ recovery' = Answer(id)
  BY DEF Offer
<1> HIDE DEF id
<1>4. /\ journals[id].edits \in Seq(Edits) /\ journals[id].lost \in Nat
      /\ Len(journals[id].edits) \in Nat
  BY <1>2, LenProperties DEF Record
<1>5. recovery' \in {"available", "partial"} => journals[id].version = identity
  BY <1>3 DEF Answer, Applicable, SameFile
<1>6. OfferHolds'
  BY <1>1, <1>2, <1>3, <1>4, <1>5, EditingAssumption
     DEF OfferHolds, Good, Readable
<1>7. AllGood' /\ JournalInStep'
  BY EmptyFacts DEF JournalInv, AllGood, JournalInStep
<1>. QED  BY <1>6, <1>7, EmptyCanBeKept DEF JournalInv

LEMMA LoadPlainKeepsJournals ==
  ASSUME TypeOK, JournalInv, LoadPlain
  PROVE  JournalInv'
<1>1. /\ journal' = None /\ UNCHANGED <<journals, identity>>
      /\ history' = EmptyHistory
  BY DEF LoadPlain, OpenAsRead, Opened
<1>2. CASE FoundFor(path) = None
  <2>1. recovered' = None
    BY <1>2 DEF LoadPlain
  <2>. QED  BY <1>1, <2>1, EmptyFacts, EmptyCanBeKept
         DEF JournalInv, AllGood, OfferHolds, JournalInStep
<1>3. CASE FoundFor(path) # None
  <2>1. Offer(FoundFor(path))
    BY <1>3 DEF LoadPlain
  <2>. QED  BY <1>1, <1>3, <2>1, OfferedIsGood
<1>. QED  BY <1>2, <1>3

LEMMA LoadReplayFailsKeepsJournals ==
  ASSUME TypeOK, JournalInv, LoadReplayFails
  PROVE  JournalInv'
BY OfferedIsGood DEF LoadReplayFails, Opened, Replays

\* The tab's own journal, replayed, is the document's own again.
LEMMA LoadReplaysKeepsJournals ==
  ASSUME TypeOK, JournalInv, LoadReplays
  PROVE  /\ JournalInv'
         /\ journal' \in {None, FoundFor(path)}
         /\ journals[FoundFor(path)].version = identity
<1> DEFINE id    == FoundFor(path)
           edits == journals[id].edits
           h     == [edits |-> edits, applied |-> Len(edits)]
<1>1. /\ id \in JournalIds /\ journals[id] # None
      /\ journals[id].version = identity
  BY FoundForFacts DEF LoadReplays, Replays, Applicable, SameFile
<1>2. journals[id] \in Record /\ Good(journals[id])
  BY <1>1 DEF TypeOK, JournalInv, AllGood
<1>3. /\ edits \in Seq(Edits) /\ journals[id].lost \in Nat /\ Len(edits) \in Nat
      /\ Len(edits) <= MaxUndo /\ Len(edits) <= JournalRoom
      /\ \A i \in DOMAIN edits : edits[i] \notin Inserts
  <2>1. /\ edits \in Seq(Edits) /\ journals[id].lost \in Nat
        /\ Len(edits) \in Nat
    BY <1>2, LenProperties DEF Record
  <2>. QED  BY <1>2, <2>1, EditingAssumption DEF Good, Readable
<1>4. h \in Histories
  BY <1>3, ReplayedFacts
<1>5. CanBeKept(h)
  BY <1>3, ReplayCanBeKept
<1>6. /\ history' = h /\ KeepJournal(h, path, identity, id)
      /\ recovered' = None /\ UNCHANGED <<path, identity>>
  BY DEF LoadReplays, Opened
<1> HIDE DEF h, edits, id
<1>7. /\ AllGood' /\ journal' \in {None, id}
      /\ Unsaved(h) => journal' # None
      /\ ~Unsaved(h) => journal' = None
      /\ ~DiskFails /\ Unsaved(h) =>
           journals'[journal'] = JournalOf(h, path, identity)
  <2>1. id # None
    BY <1>1, EditingAssumption
  <2>. QED  BY <1>1, <1>4, <1>5, <1>6, <2>1, KeptFacts DEF JournalInv
<1>8. OfferHolds' /\ (~DiskFails => JournalInStep')
  BY <1>6, <1>7 DEF OfferHolds, JournalInStep
<1>. QED  BY <1>1, <1>5, <1>6, <1>7, <1>8 DEF JournalInv, id

\* What the user takes over becomes the document's own, and its journal with it.
LEMMA RecoverKeepsJournals ==
  ASSUME TypeOK, JournalInv, Recover
  PROVE  /\ JournalInv'
         /\ journal' \in {None, recovered.id}
         /\ journals[recovered.id] # None =>
              journals[recovered.id].version = identity
<1> DEFINE edits == recovered.edits
           h     == [edits |-> edits, applied |-> Len(edits)]
<1>1. /\ recovered \in Found /\ recovered # None
      /\ recovered.id \in JournalIds /\ recovered.id # None
      /\ edits \in Seq(Edits)
  <2>1. recovered \in Found /\ recovered # None
    BY EditingAssumption DEF TypeOK, Recover, CanRecover, Found
  <2>. QED  BY <2>1, EditingAssumption DEF Found
<1>2. /\ Len(edits) <= MaxUndo /\ Len(edits) <= JournalRoom
      /\ \A i \in DOMAIN edits : edits[i] \notin Inserts
      /\ journals[recovered.id] # None =>
           journals[recovered.id].version = identity
  BY <1>1 DEF JournalInv, OfferHolds, Recover, CanRecover
<1>3. h \in Histories
  BY <1>1, ReplayedFacts
<1>4. CanBeKept(h)
  BY <1>1, <1>2, ReplayCanBeKept
<1>5. /\ history' = h /\ KeepJournal(h, path, identity, recovered.id)
      /\ recovered' = None /\ UNCHANGED <<path, identity>>
  BY DEF Recover, Changed, tabVars
<1> HIDE DEF h, edits
<1>6. /\ AllGood' /\ journal' \in {None, recovered.id}
      /\ Unsaved(h) => journal' # None
      /\ ~Unsaved(h) => journal' = None
      /\ ~DiskFails /\ Unsaved(h) =>
           journals'[journal'] = JournalOf(h, path, identity)
  BY <1>1, <1>3, <1>4, <1>5, KeptFacts DEF JournalInv
<1>7. OfferHolds' /\ (~DiskFails => JournalInStep')
  BY <1>5, <1>6 DEF OfferHolds, JournalInStep
<1>. QED  BY <1>2, <1>4, <1>5, <1>6, <1>7 DEF JournalInv

LEMMA ApplyEditKeepsJournals ==
  ASSUME TypeOK, JournalInv, NEW e \in Edits, ApplyEdit(e)
  PROVE  JournalInv' /\ JournalStep
<1> DEFINE h == Pushed(history, e)
<1>1. /\ history \in Histories /\ history.applied \in Nat
      /\ Applied(history) \in Seq(Edits)
      /\ Len(Applied(history)) = history.applied
  BY HistoryFacts, AppliedFacts DEF Histories
<1>2. h \in Histories /\ h.edits = Append(Applied(history), e)
  BY <1>1, PushedFacts DEF Pushed
<1>3. CanBeKept(h)
  <2>1. Len(Append(Applied(history), e)) = history.applied + 1
    BY <1>1, AppendProperties
  <2>. QED  BY <1>1, <1>2, <2>1, EditingAssumption
         DEF ApplyEdit, CanEdit, HasRoom, CanBeKept
<1>4. /\ KeepJournal(h, path, identity, journal) /\ history' = h
      /\ tab = "open"
      /\ UNCHANGED <<tab, path, identity, recovered, recovery>>
  BY DEF ApplyEdit, CanEdit, Changed, tabVars, offerVars
<1> HIDE DEF h
<1>. QED  BY <1>2, <1>3, <1>4, ChangeKeepsJournals, KeepJournalSteps
         DEF JournalInv

LEMMA UndoKeepsJournals ==
  ASSUME TypeOK, JournalInv, Undo
  PROVE  JournalInv' /\ JournalStep
<1> DEFINE h == Undone(history)
<1>1. /\ h \in Histories /\ CanBeKept(h)
  <2>1. history \in Histories /\ Unsaved(history)
    BY HistoryFacts DEF Undo
  <2>2. h.edits = history.edits
    BY <2>1 DEF Undone, Histories
  <2>. QED  BY <2>1, <2>2, UndoneFacts DEF CanBeKept, JournalInv
<1>2. /\ KeepJournal(h, path, identity, journal) /\ history' = h
      /\ tab = "open"
      /\ UNCHANGED <<tab, path, identity, recovered, recovery>>
  BY DEF Undo, Changed, tabVars, offerVars
<1> HIDE DEF h
<1>. QED  BY <1>1, <1>2, ChangeKeepsJournals, KeepJournalSteps DEF JournalInv

LEMMA RedoKeepsJournals ==
  ASSUME TypeOK, JournalInv, Redo
  PROVE  JournalInv' /\ JournalStep
<1> DEFINE h == Redone(history)
<1>1. /\ h \in Histories /\ CanBeKept(h)
  <2>1. history \in Histories /\ CanRedo(history)
    BY HistoryFacts DEF Redo
  <2>2. h.edits = history.edits
    BY <2>1 DEF Redone, Histories
  <2>. QED  BY <2>1, <2>2, RedoneFacts DEF CanBeKept, JournalInv
<1>2. /\ KeepJournal(h, path, identity, journal) /\ history' = h
      /\ tab = "open"
      /\ UNCHANGED <<tab, path, identity, recovered, recovery>>
  BY DEF Redo, Changed, tabVars, offerVars
<1> HIDE DEF h
<1>. QED  BY <1>1, <1>2, ChangeKeepsJournals, KeepJournalSteps DEF JournalInv

\* Once saved, nothing is unsaved: the journal goes, and what is still offered is
\* for an older file.
LEMMA SavedKeepsJournals ==
  ASSUME TypeOK, JournalInv, tab = "open", NEW f \in Files, Saved(f)
  PROVE  JournalInv' /\ JournalStep
<1>1. journal \in JournalIds \cup {None}
  BY DEF TypeOK
<1>2. /\ history' = EmptyHistory
      /\ KeepJournal(EmptyHistory, f, identity', journal)
  BY DEF Saved
<1>3. /\ AllGood' /\ journal' = None
      /\ \A id \in JournalIds :
           id # journal /\ id \notin FreeIds => journals'[id] = journals[id]
  BY <1>1, <1>2, EmptyFacts, EmptyCanBeKept, KeptFacts DEF JournalInv
<1>4. OfferHolds'
  <2> SUFFICES ASSUME recovered' # None PROVE OfferHolds'
    BY DEF OfferHolds
  <2>1. recovered' = recovered /\ recovery' = "stale"
    BY DEF Saved
  <2>2. recovered \in Found /\ recovered.id \in JournalIds
    BY <2>1 DEF TypeOK, Found
  <2>3. recovered.id \notin FreeIds
    BY <2>1 DEF FreeIds, FoundId
  <2>4. recovered.id # journal
    BY <2>1 DEF JournalInv, OfferHolds
  <2>5. journals'[recovered.id] = journals[recovered.id]
    BY <1>3, <2>2, <2>3, <2>4
  <2>6. recovered.id # None
    BY <2>2, EditingAssumption
  <2>. QED  BY <1>3, <2>1, <2>5, <2>6 DEF JournalInv, OfferHolds
<1>5. JournalStep
  BY <1>2, EmptyFacts, EmptyCanBeKept, KeepJournalSteps DEF JournalInv
<1>. QED  BY <1>2, <1>3, <1>4, <1>5, EmptyFacts, EmptyCanBeKept
         DEF JournalInv, JournalInStep

LEMMA SaveKeepsJournals ==
  ASSUME TypeOK, JournalInv, Save
  PROVE  JournalInv' /\ JournalStep
<1>1. PICK target \in SaveTargets, w \in LiveWorkers :
        \/ SaveKept(target[2], w.memory)
        \/ SaveDropped(target[2], w.memory)
        \/ SaveLost(target[2], w.memory)
  BY DEF Save
<1>2. target[2] \in Files /\ tab = "open"
  BY DEF SaveTargets, OwnFileFree, TypeOK
<1>3. CASE SaveKept(target[2], w.memory) \/ SaveDropped(target[2], w.memory)
  <2>1. Saved(target[2])
    BY <1>3 DEF SaveKept, SaveDropped
  <2>. QED  BY <1>2, <2>1, SavedKeepsJournals
<1>4. CASE SaveLost(target[2], w.memory)
  <2>1. /\ NoDocument /\ tab' # "open" /\ DiskBecomes(Without(journal))
    BY <1>4 DEF SaveLost, Lose
  <2>2. AllGood'
    BY <2>1, FewerAreGood DEF JournalInv
  <2>3. journal' = None
    BY <2>1 DEF NoDocument
  <2>. QED  BY <2>1, <2>2, <2>3, NoDocumentKeepsJournals DEF JournalStep
<1>. QED  BY <1>1, <1>3, <1>4

\* The document goes, with or without its journal.
LEMMA GoneKeepsJournals ==
  ASSUME TypeOK, JournalInv, NoDocument, tab' # "open", NEW id,
         journals' = journals \/ DiskBecomes(Without(id))
  PROVE  JournalInv' /\ JournalStep
<1>1. AllGood' /\ journal' = None
  BY FewerAreGood DEF JournalInv, NoDocument
<1>. QED  BY <1>1, NoDocumentKeepsJournals DEF JournalStep

LEMMA SetSensitiveKeepsJournals ==
  ASSUME TypeOK, JournalInv, SetSensitive
  PROVE  JournalInv' /\ JournalStep
<1>1. /\ CanMark /\ UNCHANGED <<journals, path>>
      /\ \/ UNCHANGED <<tab, history, journal, recovered, recovery>>
         \/ Lose(journal)
  BY DEF SetSensitive, offerVars
<1>2. CASE UNCHANGED <<tab, history, journal, recovered, recovery>>
  <2>1. OfferHolds'
    BY <1>1, <1>2 DEF JournalInv, OfferHolds, CanMark
  <2>2. ~DiskFails => JournalInStep'
    BY <1>1, <1>2 DEF JournalInv, JournalInStep, CanMark
  <2>. QED  BY <1>1, <1>2, <2>1, <2>2 DEF JournalInv, AllGood, JournalStep
<1>3. CASE Lose(journal)
  BY <1>1, <1>3, GoneKeepsJournals DEF Lose
<1>. QED  BY <1>1, <1>2, <1>3

LEMMA DiscardRecoveredKeepsJournals ==
  ASSUME TypeOK, JournalInv, DiscardRecovered
  PROVE  JournalInv' /\ JournalStep
<1>1. /\ tab = "open" /\ recovered # None /\ path' = path
      /\ DiskBecomes(Without(recovered.id))
  BY DEF DiscardRecovered
<1>2. AllGood'
  BY <1>1, FewerAreGood DEF JournalInv
<1>3. CASE /\ recovered' = None
           /\ UNCHANGED <<tab, identity, history, journal>>
  <2>1. recovered.id # journal
    BY <1>1 DEF JournalInv, OfferHolds
  <2>2. journal # None => journals'[journal] = journals[journal]
    BY <1>1, <2>1, DiskFacts DEF DiskBecomes, Without, Disks
  <2>3. ~DiskFails => JournalInStep'
    BY <1>1, <1>3, <2>2 DEF JournalInv, JournalInStep
  <2>4. OfferHolds'
    BY <1>3 DEF OfferHolds
  <2>. QED  BY <1>2, <1>3, <2>3, <2>4 DEF JournalInv, JournalStep
<1>4. CASE Lose(journal)
  BY <1>1, <1>4, GoneKeepsJournals DEF Lose
<1>. QED  BY <1>3, <1>4 DEF DiscardRecovered

\* One step of the document, its tab or another program.
LEMMA StepKeepsJournals ==
  ASSUME TypeOK, JournalInv, [Next]_vars
  PROVE  JournalInv' /\ JournalStep
<1>1. CASE UNCHANGED vars
  BY <1>1, SameDocumentKeepsJournals DEF vars, JournalStep
<1>2. CASE (\E f \in Files : StartLoad(f)) \/ LoadFails
  <2>1. /\ tab # "open" /\ tab' # "open"
        /\ UNCHANGED <<journals, history, journal, recovered, recovery>>
    BY <1>2 DEF StartLoad, LoadFails, diskVars
  <2>. QED  BY <2>1, NotOpenKeepsJournals DEF JournalStep
<1>3. CASE LoadPlain \/ LoadReplayFails
  <2>1. journal' = None
    BY <1>3 DEF LoadPlain, OpenAsRead, LoadReplayFails
  <2>2. tab = "opening" /\ journal = None
    BY <1>3 DEF LoadPlain, LoadReplayFails, TypeOK
  <2>. QED  BY <1>3, <2>1, <2>2, LoadPlainKeepsJournals,
         LoadReplayFailsKeepsJournals DEF JournalStep
<1>4. CASE LoadReplays
  <2>1. /\ tab = "opening" /\ journal = None /\ identity' = identity
    BY <1>4 DEF LoadReplays, Opened, TypeOK
  <2>. QED  BY <1>4, <2>1, LoadReplaysKeepsJournals DEF JournalStep
<1>5. CASE ReadReopens \/ (\E f \in Files, b \in Bases : External(f, b))
  <2>1. UNCHANGED <<journals, tab, path, identity, history, journal, recovered,
                    recovery>>
    BY <1>5 DEF ReadReopens, External, diskVars, tabVars, docVars, offerVars
  <2>. QED  BY <2>1, SameDocumentKeepsJournals DEF JournalStep
<1>6. CASE WorkerFails \/ Partway
  <2>1. /\ UNCHANGED <<journals, path>>
        /\ \/ UNCHANGED <<tab, identity, history, journal, recovered, recovery>>
           \/ Lose(journal)
    BY <1>6 DEF WorkerFails, Partway, Drop, diskVars
  <2>2. CASE Lose(journal)
    BY <2>1, <2>2, GoneKeepsJournals DEF Lose
  <2>. QED  BY <2>1, <2>2, SameDocumentKeepsJournals DEF JournalStep
<1>7. CASE Recover
  <2>1. /\ ~Unsaved(history) /\ tab = "open" /\ identity' = identity
    BY <1>7 DEF Recover, CanRecover, Changed
  <2>2. ~DiskFails => journal = None
    BY <2>1 DEF JournalInv, JournalInStep
  <2>. QED  BY <1>7, <2>1, <2>2, RecoverKeepsJournals DEF JournalStep
<1>8. CASE SaveThenCrash \/ Close \/ AppCrash
  <2>1. /\ NoDocument /\ tab' # "open"
        /\ journals' = journals \/ DiskBecomes(Without(journal))
    BY <1>8 DEF SaveThenCrash, Close, AppCrash, diskVars
  <2>. QED  BY <2>1, GoneKeepsJournals
<1>9. CASE \E e \in Edits : ApplyEdit(e)
  BY <1>9, ApplyEditKeepsJournals
<1>10. CASE Undo \/ Redo \/ DiscardRecovered \/ Save \/ SetSensitive
  BY <1>10, UndoKeepsJournals, RedoKeepsJournals, DiscardRecoveredKeepsJournals,
     SaveKeepsJournals, SetSensitiveKeepsJournals
<1>. QED  BY <1>1, <1>2, <1>3, <1>4, <1>5, <1>6, <1>7, <1>8, <1>9, <1>10
       DEF Next

LEMMA InitKeepsJournals == Init => JournalInv
BY EmptyCanBeKept
   DEF Init, JournalInv, AllGood, OfferHolds, JournalInStep

-----------------------------------------------------------------------------
(* Pages.                                                                   *)

\* The sensitive mark is not a page.
LEMMA MarkedPages ==
  ASSUME NEW c \in Content
  PROVE  Pages(Apply(c, <<Mark>>)) = Pages(c)
<1> DEFINE s == c.edits
           t == c.edits \o <<Mark>>
<1>1. /\ s \in Seq(Changes) /\ Len(s) \in Nat /\ DOMAIN s = 1..Len(s)
      /\ <<Mark>> \in Seq(Changes) /\ Len(<<Mark>>) = 1
  BY LenProperties DEF Content, Changes
<1>2. /\ DOMAIN t = 1..(Len(s) + 1)
      /\ \A i \in 1..Len(s) : t[i] = s[i]
      /\ t[Len(s) + 1] = Mark
  <2>1. /\ t \in Seq(Changes) /\ Len(t) = Len(s) + 1
        /\ \A i \in 1..(Len(s) + Len(<<Mark>>)) :
             t[i] = IF i <= Len(s) THEN s[i] ELSE <<Mark>>[i - Len(s)]
    BY <1>1, ConcatProperties
  <2>. QED  BY <1>1, <2>1, LenProperties
<1>3. Mark \notin Inserts /\ Mark \notin Deletes
  BY EditingAssumption
<1> HIDE DEF t
<1>4. ASSUME NEW kind, Mark \notin kind
      PROVE  Count(t, kind) = Count(s, kind)
  <2>1. {i \in DOMAIN t : t[i] \in kind} = {i \in DOMAIN s : s[i] \in kind}
    BY <1>1, <1>2, <1>4
  <2>. QED  BY <2>1 DEF Count
<1>5. PageDelta(t) = PageDelta(s)
  BY <1>3, <1>4 DEF PageDelta
<1>. QED  BY <1>5 DEF Pages, Apply, t

\* A request changes the worker and the count of pages together.
LEMMA ChangedPages ==
  ASSUME NEW h, NEW w, NEW content, Changed(h, w, content)
  PROVE  PagesHold'
BY DEF Changed, PagesHold

\* A worker a request runs on has the pages the page was told.
LEMMA LiveWorkerPages ==
  ASSUME TypeOK, PagesHold, tab = "open", NEW w \in LiveWorkers
  PROVE  Pages(w.memory) = pages
BY DEF TypeOK, PagesHold, LiveWorkers

LEMMA StepKeepsPages ==
  ASSUME Inv, PagesHold, [Next]_vars
  PROVE  PagesHold'
<1>1. CASE UNCHANGED vars
  BY <1>1 DEF vars, PagesHold
<1>2. CASE \/ \E f \in Files : StartLoad(f)
           \/ LoadFails \/ SaveThenCrash \/ Close \/ AppCrash
  BY <1>2 DEF StartLoad, LoadFails, SaveThenCrash, Close, AppCrash, PagesHold
<1>3. CASE LoadPlain \/ LoadReplays \/ LoadReplayFails
  BY <1>3 DEF LoadPlain, OpenAsRead, LoadReplays, LoadReplayFails, PagesHold
<1>4. CASE ReadReopens
  BY <1>4, LiveWorkerPages DEF ReadReopens, PagesHold, Inv
<1>5. CASE WorkerFails \/ Partway
  BY <1>5 DEF WorkerFails, Partway, Drop, Lose, PagesHold
<1>6. CASE (\E e \in Edits : ApplyEdit(e)) \/ Undo \/ Redo \/ Recover
  BY <1>6, ChangedPages DEF ApplyEdit, Undo, Redo, Recover
<1>7. CASE DiscardRecovered
  BY <1>7 DEF DiscardRecovered, Lose, PagesHold
<1>8. CASE Save
  <2>1. PICK target \in SaveTargets, w \in LiveWorkers :
          \/ SaveKept(target[2], w.memory)
          \/ SaveDropped(target[2], w.memory)
          \/ SaveLost(target[2], w.memory)
    BY <1>8 DEF Save
  <2>2. tab = "open"
    BY DEF SaveTargets, OwnFileFree
  <2>3. Pages(w.memory) = pages
    BY <2>2, LiveWorkerPages DEF Inv
  <2>. QED  BY <2>1, <2>3 DEF SaveKept, SaveDropped, SaveLost, Lose, PagesHold
<1>9. CASE SetSensitive
  <2>1. tab = "open" /\ ~Unsaved(history)
    BY <1>9 DEF SetSensitive, CanMark
  <2>2. PICK w \in LiveWorkers :
          \/ memory' = Apply(w.original, <<Mark>>) /\ pages' = pages
          \/ lost' = TRUE
          \/ tab' = "asking"
    BY <1>9 DEF SetSensitive, Lose
  <2>3. w.memory = w.original /\ w.original \in Content
    <3>1. w.original \in Content /\ w.memory = Apply(w.original, <<>>)
      BY <2>1, LiveWorkerFacts, HistoryFacts DEF Inv
    <3>2. <<>> \in Seq(Changes)
      BY EmptySeq
    <3>. QED  BY <3>1, <3>2, ApplyFacts
  <2>4. Pages(Apply(w.original, <<Mark>>)) = pages
    BY <2>1, <2>3, LiveWorkerPages, MarkedPages DEF Inv
  <2>. QED  BY <2>2, <2>4 DEF PagesHold
<1>10. CASE \E f \in Files, b \in Bases : External(f, b)
  BY <1>10 DEF External, tabVars, docVars, PagesHold
<1>. QED  BY <1>1, <1>2, <1>3, <1>4, <1>5, <1>6, <1>7, <1>8, <1>9, <1>10
       DEF Next

-----------------------------------------------------------------------------
(* Theorems about workers and journals.                                     *)

\* What a worker that is used has is the bytes it undoes from with the edits of
\* the history, page for page, after any failure, reopening, save or mark.
THEOREM WorkersAgree == Spec => []WorkerAgrees
<1>1. Init => PagesHold
  BY DEF Init, PagesHold
<1>2. Inv /\ PagesHold => WorkerAgrees
  BY DEF Inv, StandsOnFile, PagesHold, WorkerAgrees
<1>. QED  BY <1>1, <1>2, InitHolds, StepKeeps, StepKeepsPages, PTL DEF Spec

\* Whatever fails, the app leaves no journal that recovery.rs read() rejects.
THEOREM JournalsAreReadable == Spec => []JournalsReadable
<1>1. Inv => TypeOK
  BY DEF Inv
<1>2. JournalInv => JournalsReadable
  BY DEF JournalInv, AllGood, Good, JournalsReadable
<1>. QED  BY <1>1, <1>2, InitHolds, StepKeeps, InitKeepsJournals,
            StepKeepsJournals, PTL DEF Spec

\* While the disk works, the journal is the unsaved edits of the open document,
\* on the version of the file they were made on.
THEOREM JournalFollowsHistory ==
  ASSUME ~DiskFails
  PROVE  Spec => []JournalInStep
<1>1. Inv => TypeOK
  BY DEF Inv
<1>2. JournalInv => JournalInStep
  BY DEF JournalInv
<1>. QED  BY <1>1, <1>2, InitHolds, StepKeeps, InitKeepsJournals,
            StepKeepsJournals, PTL DEF Spec

\* While the disk works, a document that stays open without its journal has left
\* no file of it.
THEOREM LeavesNoJournal ==
  ASSUME ~DiskFails
  PROVE  Spec => NoJournalLeftBehind
<1>1. Inv => TypeOK
  BY DEF Inv
<1>2. ASSUME TypeOK, JournalInv, [Next]_vars
      PROVE  [journal # None /\ journal' # journal /\ tab' = "open" =>
                journals'[journal] = None]_vars
  BY <1>2, StepKeepsJournals DEF JournalStep
<1>. QED  BY <1>1, <1>2, InitHolds, StepKeeps, InitKeepsJournals,
            StepKeepsJournals, PTL DEF Spec, NoJournalLeftBehind

\* Edits a crash left behind a finished save are never made a second time: a
\* journal becomes the document's own only for the version it was made on.
THEOREM TakesOverOnItsVersion == Spec => TakenOverOnItsVersion
<1>1. Inv => TypeOK
  BY DEF Inv
<1>2. ASSUME TypeOK, JournalInv, [Next]_vars
      PROVE  [journal' # journal /\ journal' # None
                /\ journals[journal'] # None =>
                journals[journal'].version = identity']_vars
  BY <1>2, StepKeepsJournals DEF JournalStep
<1>. QED  BY <1>1, <1>2, InitHolds, StepKeeps, InitKeepsJournals,
            StepKeepsJournals, PTL DEF Spec, TakenOverOnItsVersion

\* Edits offered to be made again start from the file as it is.
THEOREM OffersAreForThisFile == Spec => []OfferIsForThisFile
<1>1. Inv => TypeOK
  BY DEF Inv
<1>2. ASSUME Inv, JournalInv
      PROVE  OfferIsForThisFile
  <2> SUFFICES ASSUME tab = "open", ~lost, recovery \in {"available", "partial"},
                      identity = Len(files[path])
               PROVE  original = files[path][recovered.version]
    BY DEF OfferIsForThisFile
  <2>1. recovered # None
    BY <1>2, EditingAssumption DEF Inv, TypeOK, Found
  <2>2. recovered.version = identity
    BY <1>2, <2>1 DEF JournalInv, OfferHolds
  <2>. QED  BY <1>2, <2>2 DEF Inv, StandsOnFile, Now
<1>. QED  BY <1>1, <1>2, InitHolds, StepKeeps, InitKeepsJournals,
            StepKeepsJournals, PTL DEF Spec

\* Opening again finds the journal the tab kept: it is replayed or offered.
LEMMA UnlockedHasEdits ==
  ASSUME TypeOK, JournalInv, Next, tab = "opening", tab' = "open",
         released \in Offers(path)
  PROVE  \/ journal' = released /\ history'.edits = journals[released].edits
         \/ recovered' # None /\ recovered'.id = released
<1>1. released \in JournalIds /\ released # None /\ FoundFor(path) = released
  BY EditingAssumption DEF Offers, FoundFor
<1>2. LoadPlain \/ LoadReplays \/ LoadReplayFails
  BY DEF Next, StartLoad, LoadFails, ReadReopens, WorkerFails, ApplyEdit, CanEdit,
         Undo, Redo, Recover, CanRecover, Partway, DiscardRecovered, Save,
         SaveTargets, OwnFileFree, SaveThenCrash, SetSensitive, CanMark, Close,
         AppCrash, External, tabVars
<1>3. CASE Offer(released)
  <2> DEFINE offer == [id |-> released, edits |-> journals[released].edits,
                       version |-> journals[released].version]
  <2>1. recovered' = offer
    BY <1>3 DEF Offer
  <2>2. journals[released] \in Record
    BY <1>1 DEF TypeOK, Offers
  <2>3. offer \in [id : JournalIds, edits : Seq(Edits), version : Nat]
    BY <1>1, <2>2 DEF Record
  <2>. QED  BY <2>1, <2>3, EditingAssumption
<1>4. CASE LoadReplays
  <2> DEFINE edits == journals[released].edits
             h     == [edits |-> edits, applied |-> Len(edits)]
  <2>1. /\ history' = h /\ KeepJournal(h, path, identity, released)
        /\ journals[released] # None /\ journals[released].lost = 0
    BY <1>1, <1>4, FoundForFacts DEF LoadReplays, Replays
  <2>2. journals[released] \in Record /\ Good(journals[released])
    BY <1>1, <2>1 DEF TypeOK, JournalInv, AllGood
  <2>3. edits \in Seq(Edits) /\ edits # <<>>
    BY <2>1, <2>2 DEF Record, Good, Readable
  <2>4. Len(edits) > 0
    BY <2>3, EmptySeq, LenProperties
  <2>5. journal' = released
    BY <1>1, <2>1, <2>4 DEF KeepJournal, Unsaved
  <2>. QED  BY <2>1, <2>5
<1>. QED  BY <1>1, <1>2, <1>3, <1>4 DEF LoadPlain, LoadReplayFails

\* A tab that lost its document with its password has the edits it kept, or is
\* offered them, once it is open again.
THEOREM UnlockGivesEditsBack == Spec => UnlockBringsBackEdits
<1>1. Inv => TypeOK
  BY DEF Inv
<1>2. ASSUME TypeOK, JournalInv, [Next]_vars
      PROVE  [tab = "opening" /\ tab' = "open" /\ released \in Offers(path) =>
                \/ /\ journal' = released
                   /\ history'.edits = journals[released].edits
                \/ recovered' # None /\ recovered'.id = released]_vars
  BY <1>2, UnlockedHasEdits
<1>. QED  BY <1>1, <1>2, InitHolds, StepKeeps, InitKeepsJournals,
            StepKeepsJournals, PTL DEF Spec, UnlockBringsBackEdits

-----------------------------------------------------------------------------
(***************************************************************************)
(* Editing implements Editor: whatever workers, journals and crashes do,    *)
(* the user sees files and one view of edits done and undone.  Every step   *)
(* of the document is a step of the editor or none, by the invariant above. *)
(***************************************************************************)

Stored == [f \in Files |-> Now(f)]

\* What was undone and can be made again.
Rest(h) == SubSeq(h.edits, h.applied + 1, Len(h.edits))

Current == identity = Len(files[path])

\* A step of the editor, or none.
EditorStep == [Promise!Next]_(Promise!vars)

-----------------------------------------------------------------------------
(* Histories as the user sees them.                                         *)

\* The rest of a sequence from one of its places on.
LEMMA FromHere ==
  ASSUME NEW s \in Seq(Edits), NEW m \in 1..Len(s)
  PROVE  /\ SubSeq(s, m, Len(s)) = <<s[m]>> \o SubSeq(s, m + 1, Len(s))
         /\ Head(SubSeq(s, m, Len(s))) = s[m]
         /\ Tail(SubSeq(s, m, Len(s))) = SubSeq(s, m + 1, Len(s))
<1>1. Len(s) \in m..Len(s)
  BY LenProperties
<1>2. \A n \in m..Len(s) : SubSeq(s, m, n) = <<s[m]>> \o SubSeq(s, m + 1, n)
  BY SubSeqRecursiveFirst, Zenon
<1>3. \A n \in m..Len(s) : /\ Head(SubSeq(s, m, n)) = s[m]
                           /\ Tail(SubSeq(s, m, n)) = SubSeq(s, m + 1, n)
  BY HeadTailOfSubSeq, Zenon
<1>. QED  BY <1>1, <1>2, <1>3, Zenon

\* What can be made again are edits.
LEMMA RestFacts ==
  ASSUME NEW h \in Histories
  PROVE  /\ Rest(h) \in Seq(Edits)
         /\ h.applied = Len(h.edits) => Rest(h) = <<>>
<1>1. /\ h.edits \in Seq(Edits) /\ h.applied \in Nat /\ Len(h.edits) \in Nat
      /\ h.applied <= Len(h.edits)
  BY LenProperties DEF Histories
<1>2. \A i \in (h.applied + 1)..Len(h.edits) : h.edits[i] \in Edits
  BY <1>1, ElementOfSeq
<1>. QED  BY <1>1, <1>2, SubSeqProperties, SubSeqEmpty DEF Rest

\* Nothing was done and nothing undone.
LEMMA NothingYet == Applied(EmptyHistory) = <<>> /\ Rest(EmptyHistory) = <<>>
<1>1. EmptyHistory.applied = Len(EmptyHistory.edits)
  BY DEF EmptyHistory
<1>. QED  BY <1>1, EmptyFacts, RestFacts

\* A new edit is one more, and nothing can be made again after it.
LEMMA PushedShows ==
  ASSUME NEW h \in Histories, NEW e \in Edits
  PROVE  /\ Applied(Pushed(h, e)) = Append(Applied(h), e)
         /\ Rest(Pushed(h, e)) = <<>>
<1>1. Applied(h) \in Seq(Edits) /\ Len(Applied(h)) = h.applied
  BY AppliedFacts
<1>2. Applied(Pushed(h, e)) = Append(Applied(h), e)
  <2>1. Append(Applied(h), e) = Applied(h) \o <<e>>
    BY <1>1, AppendIsConcat
  <2>2. Applied(Pushed(h, e)) = Applied(h) \o <<e>>
    BY PushedFacts
  <2>. QED  BY <2>1, <2>2
<1>3. Pushed(h, e).applied = Len(Pushed(h, e).edits)
  BY <1>1, AppendProperties DEF Pushed
<1>. QED  BY <1>2, <1>3, PushedFacts, RestFacts

\* Undo moves the last edit done to the front of those that can be made again.
LEMMA UndoneShows ==
  ASSUME NEW h \in Histories, Unsaved(h)
  PROVE  LET done == Applied(h)
         IN  /\ done # <<>>
             /\ Applied(Undone(h)) = SubSeq(done, 1, Len(done) - 1)
             /\ Rest(Undone(h)) = <<done[Len(done)]>> \o Rest(h)
<1> DEFINE done == Applied(h)
           n == h.applied
<1>1. /\ h.edits \in Seq(Edits) /\ n \in 1..Len(h.edits) /\ Len(h.edits) \in Nat
  BY LenProperties DEF Histories, Unsaved
<1>2. done \in Seq(Edits) /\ Len(done) = n
  BY AppliedFacts
<1>3. \A i \in 1..n : h.edits[i] \in Edits /\ done[i] = h.edits[i]
  <2>1. \A i \in 1..n : h.edits[i] \in Edits
    BY <1>1, ElementOfSeq
  <2>2. \A i \in 1..(n - 1 + 1) : SubSeq(h.edits, 1, n)[i] = h.edits[1 + i - 1]
    BY <1>1, <2>1, SubSeqProperties
  <2>. QED  BY <1>1, <2>1, <2>2 DEF Applied
<1>4. Undone(h) \in Histories /\ Undone(h) = [edits |-> h.edits, applied |-> n - 1]
  BY <1>1, UndoneFacts DEF Undone, Histories
<1>5. Applied(Undone(h)) = SubSeq(done, 1, Len(done) - 1)
  <2> HIDE DEF done, n
  <2>1. \A i \in 1..(n - 1) : h.edits[i] \in Edits /\ done[i] \in Edits
    BY <1>1, <1>3
  <2>2. /\ SubSeq(h.edits, 1, n - 1) \in Seq(Edits)
        /\ Len(SubSeq(h.edits, 1, n - 1)) = IF 1 <= n - 1 THEN n - 1 - 1 + 1 ELSE 0
        /\ \A i \in 1..(n - 1 - 1 + 1) : SubSeq(h.edits, 1, n - 1)[i] = h.edits[1 + i - 1]
    BY <1>1, <2>1, SubSeqProperties
  <2>3. /\ SubSeq(done, 1, n - 1) \in Seq(Edits)
        /\ Len(SubSeq(done, 1, n - 1)) = IF 1 <= n - 1 THEN n - 1 - 1 + 1 ELSE 0
        /\ \A i \in 1..(n - 1 - 1 + 1) : SubSeq(done, 1, n - 1)[i] = done[1 + i - 1]
    BY <1>1, <2>1, SubSeqProperties
  <2>4. SubSeq(h.edits, 1, n - 1) = SubSeq(done, 1, n - 1)
    BY <1>1, <1>3, <2>2, <2>3, SeqEqual
  <2>5. Applied(Undone(h)) = SubSeq(h.edits, 1, n - 1)
    BY <1>4, AppliedOf
  <2>. QED  BY <1>2, <2>4, <2>5
<1>6. Rest(Undone(h)) = <<done[Len(done)]>> \o Rest(h)
  <2>1. Rest(Undone(h)) = SubSeq(h.edits, n, Len(h.edits))
    BY <1>1, <1>4 DEF Rest
  <2>2. SubSeq(h.edits, n, Len(h.edits))
          = <<h.edits[n]>> \o SubSeq(h.edits, n + 1, Len(h.edits))
    BY <1>1, FromHere
  <2>3. done[Len(done)] = h.edits[n]
    BY <1>1, <1>2, <1>3
  <2>. QED  BY <2>1, <2>2, <2>3 DEF Rest
<1>7. done # <<>>
  BY <1>1, <1>2
<1>. QED  BY <1>5, <1>6, <1>7

\* Redo moves it back.
LEMMA RedoneShows ==
  ASSUME NEW h \in Histories, CanRedo(h)
  PROVE  /\ Rest(h) # <<>>
         /\ Applied(Redone(h)) = Append(Applied(h), Head(Rest(h)))
         /\ Rest(Redone(h)) = Tail(Rest(h))
<1> DEFINE n == h.applied
<1>1. /\ h.edits \in Seq(Edits) /\ n \in Nat /\ n + 1 \in 1..Len(h.edits)
      /\ Len(h.edits) \in Nat
  BY LenProperties DEF Histories, CanRedo
<1>2. Redone(h) = [edits |-> h.edits, applied |-> n + 1]
  BY <1>1 DEF Redone, Histories, CanRedo
<1>3. /\ Head(Rest(h)) = h.edits[n + 1]
      /\ Tail(Rest(h)) = SubSeq(h.edits, n + 1 + 1, Len(h.edits))
  BY <1>1, FromHere DEF Rest
<1>4. Rest(Redone(h)) = Tail(Rest(h))
  <2>1. Redone(h).edits = h.edits /\ Redone(h).applied = n + 1
    BY <1>2
  <2>. QED  BY <1>3, <2>1, Zenon DEF Rest
<1>5. Applied(Redone(h)) = Append(Applied(h), Head(Rest(h)))
  <2>1. /\ h.edits[n + 1] \in Edits
        /\ Applied(Redone(h)) = Applied(h) \o <<h.edits[n + 1]>>
    BY RedoneFacts
  <2>2. Append(Applied(h), h.edits[n + 1]) = Applied(h) \o <<h.edits[n + 1]>>
    BY <2>1, AppliedFacts, AppendIsConcat
  <2>. QED  BY <1>3, <2>1, <2>2
<1>6. Rest(h) # <<>>
  <2>1. \A i \in (n + 1)..Len(h.edits) : h.edits[i] \in Edits
    BY <1>1, ElementOfSeq
  <2>2. Len(Rest(h)) = IF n + 1 <= Len(h.edits) THEN Len(h.edits) - (n + 1) + 1 ELSE 0
    BY <1>1, <2>1, SubSeqProperties DEF Rest
  <2>. QED  BY <1>1, <2>2
<1>. QED  BY <1>4, <1>5, <1>6

-----------------------------------------------------------------------------
(* What the user sees.                                                      *)

\* An open document is a view, and no other state is one.
LEMMA ViewFacts ==
  ASSUME TypeOK
  PROVE  /\ tab = "open" =>
              /\ View = [file |-> path, current |-> Current,
                         done |-> Applied(history), undone |-> Rest(history)]
              /\ View \in Promise!View /\ View # None
         /\ tab # "open" => View = None
<1>1. tab # "open" => View = None
  BY DEF View
<1>2. ASSUME tab = "open"
      PROVE  View = [file |-> path, current |-> Current,
                     done |-> Applied(history), undone |-> Rest(history)]
  BY <1>2 DEF View, Current, Rest
<1>3. /\ path \in Files /\ Current \in BOOLEAN /\ Applied(history) \in Seq(Edits)
      /\ Rest(history) \in Seq(Edits)
  BY HistoryFacts, AppliedFacts, RestFacts DEF TypeOK, Current
<1>4. [file |-> path, current |-> Current, done |-> Applied(history),
       undone |-> Rest(history)] \in Promise!View
  BY <1>3 DEF Promise!View
<1>5. None \notin Promise!View
  BY EditingAssumption DEF Promise!View
<1>. QED  BY <1>1, <1>2, <1>4, <1>5

\* ... after a step, too.
LEMMA NextViewFacts ==
  ASSUME TypeOK', tab' = "open"
  PROVE  /\ View' = [file |-> path', current |-> Current', done |-> Applied(history'),
                     undone |-> Rest(history')]
         /\ View' \in Promise!View
<1>1. View' = [file |-> path', current |-> Current', done |-> Applied(history'),
               undone |-> Rest(history')]
  BY DEF View, Current, Rest, Applied
<1>2. history' \in Histories /\ path' \in Files /\ Current' \in BOOLEAN
  BY DEF TypeOK, Histories, Current
<1>3. Applied(history') \in Seq(Edits) /\ Rest(history') \in Seq(Edits)
  BY <1>2, AppliedFacts, RestFacts
<1>. QED  BY <1>1, <1>2, <1>3 DEF Promise!View

\* A view with other edits done and undone.
LEMMA OtherEdits ==
  ASSUME NEW d, NEW u, NEW done, NEW undone,
         View = [file |-> path, current |-> Current, done |-> d, undone |-> u],
         View' = [file |-> path, current |-> Current, done |-> done, undone |-> undone]
  PROVE  /\ View' = [View EXCEPT !.done = done, !.undone = undone]
         /\ View.done = d /\ View.undone = u /\ View'.done = done
<1> DEFINE w == [View EXCEPT !.done = done]
<1>1. w = [file |-> path, current |-> Current, done |-> done, undone |-> u]
  OBVIOUS
<1>2. [View EXCEPT !.done = done, !.undone = undone] = [w EXCEPT !.undone = undone]
  OBVIOUS
<1> HIDE DEF w
<1>3. [w EXCEPT !.undone = undone]
      = [file |-> path, current |-> Current, done |-> done, undone |-> undone]
  BY <1>1
<1>. QED  BY <1>2, <1>3

\* A view of which only that is other, whether it is current.
LEMMA NoLongerCurrent ==
  ASSUME NEW d, NEW u, NEW now,
         View = [file |-> path, current |-> Current, done |-> d, undone |-> u],
         View' = [file |-> path, current |-> now, done |-> d, undone |-> u]
  PROVE  View' = [View EXCEPT !.current = now]
OBVIOUS

\* What the user is told belongs to what is seen: a save is told while nothing is
\* unsaved, an error when there is no document.
Answered ==
  /\ reply \in {"saved", "savedAs"} => tab = "open" /\ history = EmptyHistory
  /\ reply = "error" => tab # "open"

\* The files with one of them written.
LEMMA StoredFacts ==
  ASSUME TypeOK, NEW f \in Files, NEW content \in Content, Replaced(f, content)
  PROVE  /\ Stored' = [Stored EXCEPT ![f] = content]
         /\ Stored' \in [Files -> Content] /\ Stored'[f] = content
<1>1. /\ files'[f][Len(files'[f])] = content
      /\ \A g \in Files \ {f} : files'[g] = files[g]
  BY ReplacedFacts
<1>2. \A g \in Files : Now(g) \in Content
  BY NowFacts
<1>. QED  BY <1>1, <1>2 DEF Stored, Now

-----------------------------------------------------------------------------
(* Steps the user does not see, or sees as the end of the view.             *)

\* The view and the files stay: the last answer is forgotten, which a view with
\* nothing done, or no view, may do in any case.
LEMMA UnseenSteps ==
  ASSUME TypeOK, Answered, reply \in Replies, Stored' = Stored, View' = View, Quiet
  PROVE  EditorStep
<1>1. CASE reply = "none"
  BY <1>1 DEF EditorStep, Promise!vars, Stored, Quiet
<1>2. CASE reply \in {"saved", "savedAs"}
  <2>1. tab = "open" /\ history = EmptyHistory
    BY <1>2 DEF Answered
  <2>2. /\ View = [file |-> path, current |-> Current, done |-> <<>>, undone |-> <<>>]
        /\ View \in Promise!View /\ View # None
    BY <2>1, ViewFacts, NothingYet
  <2>3. View' = [View EXCEPT !.done = View'.done, !.undone = <<>>] /\ View.done = <<>>
    <3>1. View.done = <<>> /\ View.undone = <<>>
      BY <2>2
    <3>2. View = [View EXCEPT !.done = View.done, !.undone = View.undone]
      BY <2>2 DEF Promise!View
    <3>. QED  BY <3>1, <3>2
  <2>4. Promise!Recover
    BY <2>2, <2>3 DEF Promise!Recover, Quiet, Stored
  <2>. QED  BY <2>4 DEF EditorStep, Promise!Next
<1>3. CASE reply = "error"
  <2>1. View = None
    BY <1>3 DEF Answered, View
  <2>2. PICK f \in Files : TRUE
    BY EditingAssumption
  <2>3. Stored \in [Files -> Content]
    BY NowFacts DEF Stored
  <2>4. Promise!Foreign(f)
    <3>1. Stored' = [Stored EXCEPT ![f] = Stored'[f]] /\ Stored' \in [Files -> Content]
      BY <2>3
    <3>. QED  BY <2>1, <3>1 DEF Promise!Foreign, Quiet, Stored
  <2>. QED  BY <2>4 DEF EditorStep, Promise!Next
<1>. QED  BY <1>1, <1>2, <1>3 DEF Replies

\* The tab has no document any more, and the user is not told otherwise.
LEMMA LeavingSteps ==
  ASSUME TypeOK, Answered, reply \in Replies, Stored' = Stored, tab' # "open", Quiet
  PROVE  EditorStep
<1>1. View' = None
  BY DEF View
<1>2. CASE tab = "open"
  <2>1. View # None
    BY <1>2, ViewFacts
  <2>2. Promise!Leave
    BY <1>1, <2>1 DEF Promise!Leave, Quiet, Stored
  <2>. QED  BY <2>2 DEF EditorStep, Promise!Next
<1>3. CASE tab # "open"
  BY <1>1, <1>3, UnseenSteps DEF View
<1>. QED  BY <1>2, <1>3

\* Nothing of what is seen changes.
LEMMA SameView ==
  ASSUME UNCHANGED <<files, tab, path, identity, history>>
  PROVE  Stored' = Stored /\ View' = View
BY DEF Stored, Now, View

\* A file is opened, or the password is asked for.
LEMMA OpeningIsAStep ==
  ASSUME Inv, Answered, Inv',
         (\E f \in Files : StartLoad(f)) \/ LoadFails
           \/ LoadPlain \/ LoadReplays \/ LoadReplayFails
  PROVE  EditorStep
<1>1. TypeOK /\ TypeOK' /\ reply \in Replies /\ tab # "open"
  BY DEF Inv, TypeOK, Replies, StartLoad, LoadFails, LoadPlain, LoadReplays,
         LoadReplayFails
<1>2. CASE (\E f \in Files : StartLoad(f)) \/ LoadFails
  <2>1. UNCHANGED files /\ tab' # "open" /\ Quiet
    BY <1>2 DEF StartLoad, LoadFails, diskVars
  <2>2. Stored' = Stored
    BY <2>1 DEF Stored, Now
  <2>. QED  BY <1>1, <2>1, <2>2, LeavingSteps
<1>3. CASE LoadPlain \/ LoadReplays \/ LoadReplayFails
  <2>1. /\ UNCHANGED files /\ tab' = "open" /\ Quiet
        /\ history'.applied = Len(history'.edits)
    BY <1>3 DEF LoadPlain, LoadReplays, LoadReplayFails, OpenAsRead, Opened, EmptyHistory
  <2>2. Stored' = Stored
    BY <2>1 DEF Stored, Now
  <2>3. history' \in Histories
    BY <1>1 DEF TypeOK, Histories
  <2>4. Rest(history') = <<>>
    BY <2>1, <2>3, RestFacts
  <2>5. View = None /\ View' \in Promise!View /\ View'.undone = <<>>
    <3>1. /\ View' = [file |-> path', current |-> Current', done |-> Applied(history'),
                      undone |-> Rest(history')]
          /\ View' \in Promise!View
      BY <1>1, <2>1, NextViewFacts
    <3>2. View = None
      BY <1>1 DEF View
    <3>. QED  BY <2>4, <3>1, <3>2
  <2>6. Promise!Open
    BY <2>1, <2>2, <2>5 DEF Promise!Open, Quiet, Stored
  <2>. QED  BY <2>6 DEF EditorStep, Promise!Next
<1>. QED  BY <1>2, <1>3

\* Workers die, are replaced and fail; offers are dropped; the tab closes.
LEMMA RestIsUnseen ==
  ASSUME Inv, Answered,
         ReadReopens \/ WorkerFails \/ Partway \/ DiscardRecovered \/ Close \/ AppCrash
  PROVE  EditorStep
<1>1. TypeOK /\ reply \in Replies /\ Quiet /\ UNCHANGED files
  BY DEF Inv, TypeOK, Replies, ReadReopens, WorkerFails, Partway, DiscardRecovered,
         Close, AppCrash, diskVars
<1>2. Stored' = Stored
  BY <1>1 DEF Stored, Now
<1>3. CASE tab' # "open"
  BY <1>1, <1>2, <1>3, LeavingSteps
<1>4. CASE tab' = "open"
  <2>1. UNCHANGED <<files, tab, path, identity, history>>
    BY <1>1, <1>4 DEF ReadReopens, WorkerFails, Partway, DiscardRecovered, Close,
       AppCrash, diskVars, tabVars, Drop, Lose
  <2>. QED  BY <1>1, <2>1, SameView, UnseenSteps
<1>. QED  BY <1>3, <1>4

-----------------------------------------------------------------------------
(* Changes.                                                                 *)

\* A change of the document is one of what was done and undone.
LEMMA ChangesShow ==
  ASSUME Inv, Inv', tab = "open",
         NEW h, NEW w, NEW content, Changed(h, w, content)
  PROVE  /\ View = [file |-> path, current |-> Current,
                    done |-> Applied(history), undone |-> Rest(history)]
         /\ View' = [file |-> path, current |-> Current,
                     done |-> Applied(h), undone |-> Rest(h)]
         /\ View # None /\ View' \in Promise!View
         /\ Stored' = Stored /\ reply' = "none"
<1>1. tab' = "open" /\ reply' = "none" /\ UNCHANGED <<files, path, identity>> /\ history' = h
  BY DEF Changed, tabVars, Quiet
<1>2. Stored' = Stored /\ Current' = Current
  BY <1>1 DEF Stored, Now, Current
<1>3. /\ View' = [file |-> path', current |-> Current', done |-> Applied(history'),
                  undone |-> Rest(history')]
      /\ View' \in Promise!View
  BY <1>1, NextViewFacts DEF Inv
<1>. QED  BY <1>1, <1>2, <1>3, ViewFacts DEF Inv

LEMMA ApplyEditIsAStep ==
  ASSUME Inv, Inv', NEW e \in Edits, ApplyEdit(e)
  PROVE  EditorStep
<1>1. PICK w \in LiveWorkers :
        Changed(Pushed(history, e), w, Apply(w.memory, <<e>>))
  BY DEF ApplyEdit
<1>2. tab = "open" /\ history \in Histories
  BY HistoryFacts DEF ApplyEdit, CanEdit, Inv
<1>3. /\ View = [file |-> path, current |-> Current,
                 done |-> Applied(history), undone |-> Rest(history)]
      /\ View' = [file |-> path, current |-> Current,
                  done |-> Append(Applied(history), e), undone |-> <<>>]
      /\ View # None /\ Stored' = Stored /\ reply' = "none"
  BY <1>1, <1>2, ChangesShow, PushedShows
<1>4. /\ View' = [View EXCEPT !.done = Append(Applied(history), e), !.undone = <<>>]
      /\ View.done = Applied(history)
  BY <1>3, OtherEdits
<1>5. Promise!Do(e)
  BY <1>3, <1>4 DEF Promise!Do, Stored
<1>. QED  BY <1>5 DEF EditorStep, Promise!Next

LEMMA UndoIsAStep ==
  ASSUME Inv, Inv', Undo
  PROVE  EditorStep
<1>1. PICK w \in LiveWorkers :
        Changed(Undone(history), w, Apply(w.original, BeforeLast(history)))
  BY DEF Undo
<1>2. tab = "open" /\ history \in Histories /\ Unsaved(history)
  BY HistoryFacts DEF Undo, Inv
<1> DEFINE done == Applied(history)
<1>3. /\ done # <<>>
      /\ Applied(Undone(history)) = SubSeq(done, 1, Len(done) - 1)
      /\ Rest(Undone(history)) = <<done[Len(done)]>> \o Rest(history)
  BY <1>2, UndoneShows
<1>4. /\ View = [file |-> path, current |-> Current,
                 done |-> done, undone |-> Rest(history)]
      /\ View' = [file |-> path, current |-> Current,
                  done |-> SubSeq(done, 1, Len(done) - 1),
                  undone |-> <<done[Len(done)]>> \o Rest(history)]
      /\ View # None /\ Stored' = Stored /\ reply' = "none"
  BY <1>1, <1>2, <1>3, ChangesShow
<1> HIDE DEF done
<1>5. /\ View' = [View EXCEPT !.done = SubSeq(done, 1, Len(done) - 1),
                              !.undone = <<done[Len(done)]>> \o Rest(history)]
      /\ View.done = done /\ View.undone = Rest(history)
  BY <1>4, OtherEdits
<1>6. Promise!Undo
  BY <1>3, <1>4, <1>5 DEF Promise!Undo, Stored
<1>. QED  BY <1>6 DEF EditorStep, Promise!Next

LEMMA RedoIsAStep ==
  ASSUME Inv, Inv', Redo
  PROVE  EditorStep
<1>1. PICK w \in LiveWorkers :
        Changed(Redone(history), w,
                Apply(w.memory, <<history.edits[history.applied + 1]>>))
  BY DEF Redo
<1>2. tab = "open" /\ history \in Histories /\ CanRedo(history)
  BY HistoryFacts DEF Redo, Inv
<1> DEFINE done == Applied(history)
           rest == Rest(history)
<1>3. /\ rest # <<>>
      /\ Applied(Redone(history)) = Append(done, Head(rest))
      /\ Rest(Redone(history)) = Tail(rest)
  BY <1>2, RedoneShows
<1>4. /\ View = [file |-> path, current |-> Current, done |-> done, undone |-> rest]
      /\ View' = [file |-> path, current |-> Current,
                  done |-> Append(done, Head(rest)), undone |-> Tail(rest)]
      /\ View # None /\ Stored' = Stored /\ reply' = "none"
  BY <1>1, <1>2, <1>3, ChangesShow
<1> HIDE DEF done, rest
<1>5. /\ View' = [View EXCEPT !.done = Append(done, Head(rest)), !.undone = Tail(rest)]
      /\ View.done = done /\ View.undone = rest
  BY <1>4, OtherEdits
<1>6. Promise!Redo
  BY <1>3, <1>4, <1>5 DEF Promise!Redo, Stored
<1>. QED  BY <1>6 DEF EditorStep, Promise!Next

LEMMA RecoverIsAStep ==
  ASSUME Inv, Inv', Recover
  PROVE  EditorStep
<1> DEFINE edits == recovered.edits
           h     == [edits |-> edits, applied |-> Len(edits)]
<1>1. PICK w \in LiveWorkers : Changed(h, w, Apply(w.memory, edits))
  BY DEF Recover
<1>2. tab = "open" /\ Applied(history) = <<>>
  BY HistoryFacts DEF Recover, CanRecover, Inv
<1>3. h \in Histories /\ Rest(h) = <<>>
  <2>1. edits \in Seq(Edits)
    BY DEF Inv, TypeOK, Recover, CanRecover, Found
  <2>2. h \in Histories
    BY <2>1, ReplayedFacts
  <2>. QED  BY <2>2, RestFacts
<1> HIDE DEF h
<1>4. /\ View = [file |-> path, current |-> Current,
                 done |-> <<>>, undone |-> Rest(history)]
      /\ View' = [file |-> path, current |-> Current, done |-> Applied(h), undone |-> <<>>]
      /\ View # None /\ View' \in Promise!View /\ Stored' = Stored /\ reply' = "none"
  BY <1>1, <1>2, <1>3, ChangesShow
<1>5. /\ View' = [View EXCEPT !.done = Applied(h), !.undone = <<>>]
      /\ View.done = <<>> /\ View'.done = Applied(h)
  BY <1>4, OtherEdits
<1>6. Promise!Recover
  BY <1>4, <1>5 DEF Promise!Recover, Stored
<1>. QED  BY <1>6 DEF EditorStep, Promise!Next

-----------------------------------------------------------------------------
(* Writes.                                                                  *)

\* What a worker has of a document that stands for the file is what a save of the
\* view writes.
LEMMA WorkerShows ==
  ASSUME Inv, tab = "open", NEW w \in LiveWorkers
  PROVE  /\ View # None /\ View.file = path /\ View.current = Current
         /\ View.done = Applied(history) /\ View.undone = Rest(history)
         /\ w.memory \in Content /\ w.original \in Content
         /\ Current => w.memory = Promise!Shown /\ w.original = Stored[path]
<1>1. /\ View = [file |-> path, current |-> Current,
                 done |-> Applied(history), undone |-> Rest(history)]
      /\ View # None
  BY ViewFacts DEF Inv
<1>2. View.file = path /\ View.done = Applied(history)
  BY <1>1
<1>3. /\ w.memory \in Content /\ w.original \in Content
      /\ w.memory = Apply(w.original, Applied(history))
      /\ Current => w.original = Now(path)
  BY LiveWorkerFacts DEF Current
<1>4. path \in Files /\ Stored[path] = Now(path)
  BY DEF Inv, TypeOK, Stored
<1>5. Promise!Shown = Apply(Stored[path], Applied(history))
  BY <1>2 DEF Promise!Shown, Stored
<1>. QED  BY <1>1, <1>3, <1>4, <1>5

\* The view or its saved copy goes to a file, and no view is left.
LEMMA WritingAndLeaving ==
  ASSUME Inv, tab = "open", NEW f \in Files, NEW w \in LiveWorkers,
         Replaced(f, w.memory), tab' # "open", reply' \in {"none", "error"}
  PROVE  EditorStep
<1>1. /\ View # None /\ View' = None /\ w.memory \in Content
      /\ View.current => w.memory = Promise!Shown
  BY WorkerShows DEF View
<1>2. /\ Stored' = [Stored EXCEPT ![f] = Stored'[f]]
      /\ Stored' \in [Files -> Content] /\ Stored'[f] = w.memory
  BY <1>1, StoredFacts DEF Inv
<1>3. Promise!SaveAs(f)
  BY <1>1, <1>2 DEF Promise!SaveAs, Promise!Ends, Stored
<1>. QED  BY <1>3 DEF EditorStep, Promise!Next

LEMMA SaveIsAStep ==
  ASSUME Inv, Inv', Save
  PROVE  EditorStep
<1>1. PICK target \in SaveTargets, w \in LiveWorkers :
        \/ /\ \/ SaveKept(target[2], w.memory)
              \/ SaveDropped(target[2], w.memory)
           /\ reply' = target[1]
        \/ /\ SaveLost(target[2], w.memory)
           /\ reply' = "error"
  BY DEF Save
<1>2. /\ target[2] \in Files /\ tab = "open"
      /\ \/ target[1] = "savedAs"
         \/ target[1] = "saved" /\ target[2] = path /\ OwnFileFree
  BY DEF SaveTargets, OwnFileFree, Inv, TypeOK
<1> DEFINE f == target[2]
<1>3. CASE SaveLost(f, w.memory) /\ reply' = "error"
  <2>1. Replaced(f, w.memory) /\ tab' # "open"
    BY <1>3 DEF SaveLost, Lose
  <2>. QED  BY <1>2, <1>3, <2>1, WritingAndLeaving
<1>4. CASE /\ SaveKept(f, w.memory) \/ SaveDropped(f, w.memory)
           /\ reply' = target[1]
  <2>1. /\ Replaced(f, w.memory) /\ tab' = "open" /\ path' = f
        /\ identity' = Len(files'[f]) /\ history' = EmptyHistory
    BY <1>2, <1>4 DEF SaveKept, SaveDropped, Saved
  <2>2. View' = [file |-> f, current |-> TRUE, done |-> <<>>, undone |-> <<>>]
    <3>1. Current' = TRUE
      BY <2>1 DEF Current
    <3>. QED  BY <2>1, <3>1, NextViewFacts, NothingYet DEF Inv
  <2>3. /\ View # None /\ w.memory \in Content
        /\ Current => w.memory = Promise!Shown
        /\ View.file = path /\ View.current = Current /\ View.done = Applied(history)
    BY <1>2, WorkerShows
  <2>4. /\ Stored' = [Stored EXCEPT ![f] = w.memory]
        /\ Stored' \in [Files -> Content] /\ Stored'[f] = w.memory
    BY <1>2, <2>1, <2>3, StoredFacts DEF Inv
  <2>5. CASE target[1] = "savedAs"
    <3>1. Stored' = [Stored EXCEPT ![f] = Stored'[f]]
      BY <2>4
    <3>2. View.current => Stored'[f] = Promise!Shown
      BY <2>3, <2>4
    <3>3. Promise!SaveAs(f)
      BY <1>4, <2>2, <2>3, <2>4, <2>5, <3>1, <3>2
         DEF Promise!SaveAs, Promise!Ends, Stored
    <3>. QED  BY <1>2, <3>3 DEF EditorStep, Promise!Next
  <2>6. CASE target[1] = "saved" /\ f = path /\ OwnFileFree
    <3>1. Current = TRUE /\ Unsaved(history)
      BY <2>6 DEF OwnFileFree, Current
    <3>2. View' = [View EXCEPT !.done = <<>>, !.undone = <<>>]
      <4>1. View' = [file |-> path, current |-> Current, done |-> <<>>, undone |-> <<>>]
        BY <2>2, <2>6, <3>1
      <4>2. View = [file |-> path, current |-> Current,
                    done |-> Applied(history), undone |-> Rest(history)]
        BY <1>2, ViewFacts DEF Inv
      <4>. QED  BY <4>1, <4>2, OtherEdits
    <3>3. View.done # <<>>
      BY <2>3, <3>1, HistoryFacts, UndoneShows DEF Inv
    <3>4. Promise!Save
      <4>1. Stored' = [Stored EXCEPT ![View.file] = Promise!Shown]
        BY <2>3, <2>4, <2>6, <3>1
      <4>. QED
        BY <1>4, <2>3, <2>6, <3>1, <3>2, <3>3, <4>1
           DEF Promise!Save, Promise!Ends, Stored
    <3>. QED  BY <3>4 DEF EditorStep, Promise!Next
  <2>. QED  BY <1>2, <2>5, <2>6
<1>. QED  BY <1>1, <1>3, <1>4

LEMMA SaveThenCrashIsAStep ==
  ASSUME Inv, SaveThenCrash
  PROVE  EditorStep
<1>1. PICK target \in SaveTargets, w \in LiveWorkers : Replaced(target[2], w.memory)
  BY DEF SaveThenCrash
<1>2. target[2] \in Files /\ tab = "open"
  BY DEF SaveTargets, OwnFileFree, Inv, TypeOK
<1>3. tab' # "open" /\ reply' = "none"
  BY DEF SaveThenCrash, Quiet
<1>. QED  BY <1>1, <1>2, <1>3, WritingAndLeaving

LEMMA SetSensitiveIsAStep ==
  ASSUME Inv, Inv', SetSensitive
  PROVE  EditorStep
<1>1. PICK w \in LiveWorkers :
        /\ Replaced(path, Apply(w.original, <<Mark>>))
        /\ \/ /\ identity' = Len(files'[path]) /\ UNCHANGED <<tab, history>>
           \/ Lose(journal)
  BY DEF SetSensitive
<1>2. /\ tab = "open" /\ path \in Files /\ path' = path /\ Current = TRUE
      /\ ~Unsaved(history) /\ Applied(history) = <<>>
      /\ reply' = IF tab' = "open" THEN "none" ELSE "error"
  BY HistoryFacts DEF SetSensitive, CanMark, Inv, TypeOK, Current
<1>3. /\ View # None /\ View.file = path /\ View.current = TRUE /\ View.done = <<>>
      /\ w.original \in Content /\ w.original = Stored[path]
  BY <1>2, WorkerShows
<1>4. Apply(w.original, <<Mark>>) \in Content
  <2>1. <<Mark>> \in Seq(Changes)
    BY DEF Changes
  <2>. QED  BY <1>3, <2>1, ApplyFacts
<1>5. Stored' = [Stored EXCEPT ![View.file] = Apply(Stored[path], <<Mark>>)]
  BY <1>1, <1>2, <1>3, <1>4, StoredFacts DEF Inv
<1>6. \/ View' = View /\ reply' = "none"
      \/ View' = None /\ reply' \in {"none", "error"}
  <2>1. CASE Lose(journal)
    BY <1>2, <2>1 DEF Lose, View
  <2>2. CASE identity' = Len(files'[path]) /\ UNCHANGED <<tab, history>>
    <3>1. Current' = TRUE
      BY <1>2, <2>2 DEF Current
    <3>2. /\ View' = [file |-> path, current |-> TRUE, done |-> Applied(history),
                      undone |-> Rest(history)]
      BY <1>2, <2>2, <3>1, NextViewFacts DEF Inv
    <3>3. View = [file |-> path, current |-> TRUE, done |-> Applied(history),
                  undone |-> Rest(history)]
      BY <1>2, ViewFacts DEF Inv
    <3>. QED  BY <1>2, <2>2, <3>2, <3>3
  <2>. QED  BY <1>1, <2>1, <2>2
<1>7. Promise!SetMark
  BY <1>3, <1>5, <1>6 DEF Promise!SetMark, Promise!Ends, Stored
<1>. QED  BY <1>7 DEF EditorStep, Promise!Next

\* Another program's write ends what is current of a view of that file.
LEMMA ExternalIsAStep ==
  ASSUME Inv, Inv', NEW f \in Files, NEW b \in Bases, External(f, b)
  PROVE  EditorStep
<1> DEFINE content == [base |-> b, edits |-> <<>>]
<1>1. content \in Content
  BY EmptySeq DEF Content
<1>2. Replaced(f, content) /\ reply' = "none" /\ UNCHANGED <<tab, path, identity, history>>
  BY DEF External, Quiet, tabVars, docVars
<1>3. /\ Stored' = [Stored EXCEPT ![f] = Stored'[f]] /\ Stored' \in [Files -> Content]
      /\ Len(files'[f]) = Len(files[f]) + 1
      /\ \A g \in Files \ {f} : files'[g] = files[g]
  BY <1>1, <1>2, StoredFacts, ReplacedFacts DEF Inv
<1> HIDE DEF content
<1>4. CASE tab # "open"
  <2>1. View = None /\ View' = None
    BY <1>2, <1>4 DEF View
  <2>2. Promise!Foreign(f)
    BY <1>2, <1>3, <2>1 DEF Promise!Foreign, Stored
  <2>. QED  BY <2>2 DEF EditorStep, Promise!Next
<1>5. CASE tab = "open"
  <2>1. /\ View = [file |-> path, current |-> Current, done |-> Applied(history),
                   undone |-> Rest(history)]
        /\ View' = [file |-> path, current |-> Current', done |-> Applied(history),
                    undone |-> Rest(history)]
        /\ View # None /\ View.file = path
    BY <1>2, <1>5, ViewFacts, NextViewFacts DEF Inv
  <2>2. CASE path = f
    <3>1. identity <= Len(files[path]) /\ Len(files[path]) \in Nat /\ identity \in Nat
      BY <1>5, <2>2, NowFacts DEF Inv, TypeOK, StandsOnFile
    <3>2. Current' = FALSE
      BY <1>2, <1>3, <2>2, <3>1 DEF Current
    <3>3. View' = [View EXCEPT !.current = FALSE]
      BY <2>1, <3>2, NoLongerCurrent
    <3>4. Promise!Foreign(f)
      BY <1>2, <1>3, <2>1, <2>2, <3>3 DEF Promise!Foreign, Stored
    <3>. QED  BY <3>4 DEF EditorStep, Promise!Next
  <2>3. CASE path # f
    <3>1. Current' = Current
      BY <1>2, <1>3, <2>3 DEF Current, Inv, TypeOK
    <3>2. View' = View
      BY <2>1, <3>1
    <3>3. Promise!Foreign(f)
      BY <1>2, <1>3, <2>1, <2>3, <3>2 DEF Promise!Foreign, Stored
    <3>. QED  BY <3>3 DEF EditorStep, Promise!Next
  <2>. QED  BY <2>2, <2>3
<1>. QED  BY <1>4, <1>5

-----------------------------------------------------------------------------
(* The theorem.                                                             *)

\* Only a save and the mark have an answer.
LEMMA AnswersFit ==
  ASSUME Inv, Answered, [Next]_vars
  PROVE  Answered'
<1>1. CASE Quiet
  BY <1>1 DEF Quiet, Answered
<1>2. CASE Save
  <2>1. tab = "open"
    BY <1>2 DEF Save, SaveTargets, OwnFileFree
  <2>2. \/ tab' = "open" /\ history' = EmptyHistory /\ reply' \in {"saved", "savedAs"}
        \/ tab' # "open" /\ reply' = "error"
    BY <1>2, <2>1 DEF Save, SaveKept, SaveDropped, SaveLost, Saved, Lose, SaveTargets
  <2>. QED  BY <2>2 DEF Answered
<1>3. CASE SetSensitive
  BY <1>3 DEF SetSensitive, Answered
<1>4. CASE UNCHANGED vars
  BY <1>4 DEF vars, Answered
<1>5. Quiet \/ Save \/ SetSensitive \/ UNCHANGED vars
  BY DEF Next, StartLoad, LoadFails, LoadPlain, LoadReplays, LoadReplayFails,
         Opened, ReadReopens, WorkerFails, ApplyEdit, Changed, Undo, Redo,
         Recover, Partway, DiscardRecovered, SaveThenCrash, Close,
         AppCrash, External
<1>. QED  BY <1>1, <1>2, <1>3, <1>4, <1>5

\* Every step of the document is one of the editor, or none.
LEMMA StepsAreSteps ==
  ASSUME Inv, Answered, Inv', [Next]_vars
  PROVE  EditorStep
<1>1. CASE UNCHANGED vars
  <2>1. Stored' = Stored /\ View' = View /\ reply' = reply
    BY <1>1, SameView DEF vars
  <2>. QED  BY <2>1 DEF EditorStep, Promise!vars, Stored
<1>2. CASE Next
  BY <1>2, OpeningIsAStep, RestIsUnseen, ApplyEditIsAStep, UndoIsAStep, RedoIsAStep,
     RecoverIsAStep, SaveIsAStep, SaveThenCrashIsAStep, SetSensitiveIsAStep,
     ExternalIsAStep DEF Next
<1>. QED  BY <1>1, <1>2

\* Workers, journals, crashes and reopened files can never be seen: the document is
\* an editor on files, which saves over a file only what it was opened from with the
\* edits made (documents.rs, whole).
THEOREM KeepsItsPromise == Spec => KeepsPromise
<1>1. Init => Inv /\ Answered /\ Promise!Init
  <2> SUFFICES ASSUME Init PROVE Inv /\ Answered /\ Promise!Init
    OBVIOUS
  <2>1. Inv
    BY InitHolds
  <2>2. View = None /\ reply = "none"
    BY DEF Init, View
  <2>3. Stored \in [Files -> Content]
    BY <2>1, NowFacts DEF Stored, Inv
  <2>. QED  BY <2>1, <2>2, <2>3 DEF Answered, Promise!Init, Stored
<1>2. Inv /\ Answered /\ [Next]_vars => (Inv /\ Answered)'
  BY StepKeeps, AnswersFit
<1>3. Inv /\ Answered /\ Inv' /\ [Next]_vars => [Promise!Next]_(Promise!vars)
  BY StepsAreSteps DEF EditorStep
<1>. QED  BY <1>1, <1>2, <1>3, PTL DEF Spec, KeepsPromise, Promise!Spec

=============================================================================
