------------------------------ MODULE Editing ------------------------------
(***************************************************************************)
(* One open document of the PDF reader: the history of its edits in the    *)
(* main process, the copy its worker process has in memory, the file it    *)
(* was read from and its crash recovery journal                            *)
(* (src-tauri/src/documents.rs, history.rs, recovery.rs).                  *)
(*                                                                         *)
(* A command holds the document's lock from its first check to its last    *)
(* assignment, so a command is one step here, with one disjunct per way    *)
(* its worker requests can end.  What runs beside it does interleave: the  *)
(* worker dies or hangs, another program writes the file, the app crashes  *)
(* (also between replacing the file and removing the journal), and a file  *)
(* changes between the two reads an opening makes of it.  Several tabs on  *)
(* one file, and the steps inside a save, are modelled in Saving.          *)
(***************************************************************************)
EXTENDS Integers, Sequences, FiniteSets

CONSTANTS
  Files,        \* files a document can be opened from or saved to
  Bases,        \* contents other programs write
  BasePages,    \* how many pages each of those has
  Edits,        \* edit commands (ipc_contract Edit)
  Inserts,      \* those that take the pages of another file (InsertPages)
  Deletes,      \* those that take a page out (DeletePages)
  Mark,         \* the sensitive mark, as a change of the file's content
  Half,         \* what an edit that failed partway leaves in the worker
  None,         \* the absent value
  JournalIds,   \* names of journal files, numbered in the order of names
  MaxUndo,      \* MAX_UNDO_EDITS
  MaxPages,     \* MAX_PAGE_COUNT
  JournalRoom,  \* MAX_JOURNAL_BYTES, counted in edits
  MaxVersions,  \* bound: versions of one file
  Protected,    \* the files open with a password, which is not kept
  DiskFails     \* writing or deleting a journal file may fail

ASSUME EditingAssumption ==
  /\ Files # {} /\ Bases # {} /\ JournalIds # {}
  /\ BasePages \in [Bases -> Nat \ {0}]
  /\ Inserts \subseteq Edits /\ Deletes \subseteq Edits
  /\ Inserts \cap Deletes = {}
  /\ Mark \notin Edits /\ Half \notin Edits /\ Mark # Half
  /\ JournalIds \subseteq Nat /\ IsFiniteSet(JournalIds)
  /\ None \notin JournalIds
  /\ None \notin [id : JournalIds, edits : Seq(Edits), version : Nat]
  /\ None \notin [file : Files, current : BOOLEAN,
                   done : Seq(Edits), undone : Seq(Edits)]
  /\ MaxUndo \in Nat /\ MaxPages \in Nat /\ JournalRoom \in Nat
  /\ MaxVersions \in Nat
  /\ Protected \in BOOLEAN /\ DiskFails \in BOOLEAN

VARIABLES
  files,      \* every version each file has had, the present one last
  journals,   \* the journal files in the recovery folder
  tab,        \* what the tab shows
  path,       \* Tab::path
  released,   \* Tab::released: the journal of a document lost with its password
  identity,   \* OpenDocument::identity: the version of the file it stands for
  history,    \* OpenDocument::history
  pages,      \* OpenDocument::info.pages, as a count
  lost,       \* OpenDocument::lost
  journal,    \* OpenDocument::journal
  recovered,  \* OpenDocument::recovered
  recovery,   \* OpenDocument::info.recovery
  memory,     \* the worker's copy of the document (serve.rs documents)
  original,   \* the bytes the worker keeps to undo from (serve.rs originals)
  shown,      \* the content the page was given document id info.doc for
  reply       \* how the last save ended

diskVars  == <<files, journals>>
tabVars   == <<tab, path, released>>
offerVars == <<recovered, recovery>>
docVars   == <<identity, history, pages, lost, journal, recovered, recovery,
               memory, original, shown>>
vars      == <<files, journals, tab, path, released, identity, history, pages,
               lost, journal, recovered, recovery, memory, original, shown,
               reply>>

-----------------------------------------------------------------------------
(* Contents: what some program wrote, and the changes made to it since.     *)

Changes  == Edits \cup {Mark, Half}
Content  == [base : Bases, edits : Seq(Changes)]

Apply(content, edits) ==
  [base |-> content.base, edits |-> content.edits \o edits]

Count(edits, kind) == Cardinality({i \in DOMAIN edits : edits[i] \in kind})

PageDelta(edits) == Count(edits, Inserts) - Count(edits, Deletes)

Pages(content) == BasePages[content.base] + PageDelta(content.edits)

\* pages_after for `edits` in turn: no step leaves a document without pages or
\* with too many.
PagesAfterAll(edits, count) ==
  \A k \in 1..Len(edits) :
    count + PageDelta(SubSeq(edits, 1, k)) \in 1..MaxPages

Now(f) == files[f][Len(files[f])]

-----------------------------------------------------------------------------
(* History (history.rs): the first `applied` of `edits` are in the document, *)
(* the others were undone.                                                   *)

EmptyHistory == [edits |-> <<>>, applied |-> 0]

Applied(h)    == SubSeq(h.edits, 1, h.applied)
Unsaved(h)    == h.applied > 0
HasRoom(h)    == h.applied < MaxUndo
CanRedo(h)    == h.applied < Len(h.edits)
BeforeLast(h) == SubSeq(h.edits, 1, h.applied - 1)

PushedBesideUndone(h, edit) ==      \* mutant: keeps what was undone
  [edits |-> Append(h.edits, edit), applied |-> h.applied + 1]

Pushed(h, edit) ==
  [edits |-> Append(Applied(h), edit), applied |-> h.applied + 1]

Undone(h) == [h EXCEPT !.applied = IF @ > 0 THEN @ - 1 ELSE 0]
Redone(h) ==
  [h EXCEPT !.applied = IF @ < Len(h.edits) THEN @ + 1 ELSE Len(h.edits)]

-----------------------------------------------------------------------------
(* Journals (recovery.rs).                                                  *)

JournalledWhole(edits) == edits     \* mutant: keeps the pages of other files

\* The edits before the first that takes the pages of another file.
Journalled(edits) ==
  IF \E i \in DOMAIN edits : edits[i] \in Inserts
  THEN LET first == CHOOSE i \in DOMAIN edits :
                      /\ edits[i] \in Inserts
                      /\ \A j \in 1..(i - 1) : edits[j] \notin Inserts
       IN  SubSeq(edits, 1, first - 1)
  ELSE edits

JournalOf(h, f, version) ==
  [path    |-> f,
   version |-> version,
   edits   |-> Journalled(Applied(h)),
   lost    |-> Len(Applied(h)) - Len(Journalled(Applied(h)))]

\* Journals::check, before an edit is made.
Fits(edits) == Len(Journalled(edits)) <= JournalRoom

\* The part of recovery.rs read() about the edits.
Readable(stored) ==
  /\ stored.edits # <<>> \/ stored.lost > 0
  /\ Len(stored.edits) + stored.lost <= MaxUndo
  /\ \A i \in DOMAIN stored.edits : stored.edits[i] \notin Inserts

\* Best effort: a failed write or delete is not noticed.
DiskBecomes(disk) ==
  \/ journals' = disk
  \/ DiskFails /\ journals' = journals

Without(id) == IF id = None THEN journals ELSE [journals EXCEPT ![id] = None]

FoundId == IF recovered = None THEN None ELSE recovered.id

\* Journals::create: a random name, so never one that is there or in use.
FreeIds == {id \in JournalIds : journals[id] = None /\ id # FoundId}

\* Journals::write, which leaves a journal as it was if it would be too large.
Written(id, h, f, version) ==
  IF Fits(Applied(h)) THEN [journals EXCEPT ![id] = JournalOf(h, f, version)]
  ELSE journals

KeepJournalWhileUnsaved(h, f, version, own) ==   \* mutant: keeps the file
  IF Unsaved(h)
  THEN \E id \in IF own = None THEN FreeIds ELSE {own} :
         journal' = id /\ DiskBecomes(Written(id, h, f, version))
  ELSE journal' = None /\ UNCHANGED journals

\* The journal has the edits the document has and its file does not, or is gone.
KeepJournal(h, f, version, own) ==
  IF Unsaved(h)
  THEN \E id \in IF own = None THEN FreeIds ELSE {own} :
         journal' = id /\ DiskBecomes(Written(id, h, f, version))
  ELSE /\ journal' = None
       /\ DiskBecomes(Without(own))

-----------------------------------------------------------------------------
(* The document and its worker.                                             *)

Quiet == reply' = "none"

\* No document: the tab closed, the app ended or the password is needed again.
NoDocument ==
  /\ identity' = 0 /\ history' = EmptyHistory /\ pages' = 0 /\ lost' = FALSE
  /\ journal' = None /\ recovered' = None /\ recovery' = "none"
  /\ memory' = None /\ original' = None /\ shown' = None

\* The worker copies a request can run on: the one there is, or, once that one
\* is lost, the file read again with the edits not yet saved.  None if the file
\* now has other pages, or needs a password that was not kept.
LiveWorkersUnchecked ==                          \* mutant: any pages will do
  IF ~lost THEN {[memory |-> memory, original |-> original]}
  ELSE IF Protected THEN {}
  ELSE {[memory |-> Apply(Now(path), Applied(history)), original |-> Now(path)]}

LiveWorkers ==
  IF ~lost THEN {[memory |-> memory, original |-> original]}
  ELSE IF Protected THEN {}
  ELSE {w \in {[memory   |-> Apply(Now(path), Applied(history)),
                original |-> Now(path)]} : Pages(w.memory) = pages}

\* The document was opened with a password, and its worker can no longer be
\* used: the tab asks for the password.  `own`, its journal, stays on disk.
Lose(own) ==
  /\ Protected
  /\ tab' = "asking" /\ released' = own
  /\ NoDocument

\* The worker can no longer be used; `left` is what it has.
Drop(left) ==
  /\ ~Protected
  /\ lost' = TRUE /\ memory' = left
  /\ UNCHANGED <<tab, released, identity, history, pages, journal, recovered,
                 recovery, original, shown>>

-----------------------------------------------------------------------------
(* Opening: identity first, then the worker reads the file.                 *)

\* load, retry and unlock.
StartLoad(f) ==
  /\ \/ tab = "closed" /\ path' = f
     \/ tab \in {"failed", "asking"} /\ UNCHANGED path
  /\ tab' = "opening"
  /\ identity' = Len(files[path'])
  /\ Quiet
  /\ UNCHANGED <<files, journals, released, history, pages, lost, journal,
                 recovered, recovery, memory, original, shown>>

LoadFails ==
  /\ tab = "opening"
  /\ \/ tab' = "failed"
     \/ Protected /\ tab' = "asking"
  /\ identity' = 0
  /\ Quiet
  /\ UNCHANGED <<diskVars, path, released, history, pages, lost, journal,
                 recovered, recovery, memory, original, shown>>

Offers(f) == {id \in JournalIds : journals[id] # None /\ journals[id].path = f}

FirstOffer(f) ==
  IF Offers(f) = {} THEN None
  ELSE CHOOSE id \in Offers(f) : \A other \in Offers(f) : id <= other

FoundAnyhow(f) == FirstOffer(f)     \* mutant: the tab's own is not looked for

\* The tab's own journal before any other one for the file.
FoundFor(f) == IF released \in Offers(f) THEN released ELSE FirstOffer(f)

SameFileAlways(stored, version) == TRUE        \* mutant: replays on any file

SameFile(stored, version) == stored.version = version

Applicable(id) ==
  /\ SameFile(journals[id], identity)
  /\ PagesAfterAll(journals[id].edits, Pages(Now(path)))

\* The edits are made again unasked: the tab had them, and all of them are there.
Replays(id) ==
  /\ id # None /\ id = released
  /\ Applicable(id)
  /\ journals[id].lost = 0

Answer(id) ==
  IF ~Applicable(id) THEN "stale"
  ELSE IF journals[id].lost = 0 THEN "available"
  ELSE IF journals[id].edits = <<>> THEN "lost" ELSE "partial"

Offer(id) ==
  /\ recovered' = [id |-> id, edits |-> journals[id].edits,
                   version |-> journals[id].version]
  /\ recovery' = Answer(id)

Opened(content) ==
  /\ tab' = "open" /\ released' = None
  /\ original' = content
  /\ Quiet
  /\ UNCHANGED <<files, path, identity>>

OpenAsRead ==
  /\ lost' = FALSE /\ history' = EmptyHistory /\ pages' = Pages(Now(path))
  /\ memory' = Now(path) /\ shown' = memory'
  /\ journal' = None
  /\ UNCHANGED journals

\* recover_on_open: nothing is found, or something the user is asked about.
LoadPlain ==
  /\ tab = "opening"
  /\ Opened(Now(path))
  /\ OpenAsRead
  /\ ~Replays(FoundFor(path))
  /\ IF FoundFor(path) = None
     THEN recovered' = None /\ recovery' = "none"
     ELSE Offer(FoundFor(path))

\* recover_on_open: the tab's own edits are made again ...
LoadReplays ==
  LET id     == FoundFor(path)
      edits  == journals[id].edits
      redone == [edits |-> edits, applied |-> Len(edits)]
  IN  /\ tab = "opening"
      /\ Replays(id)
      /\ Opened(Now(path))
      /\ lost' = FALSE /\ history' = redone
      /\ memory' = Apply(Now(path), edits) /\ shown' = memory'
      /\ pages' = Pages(memory')
      /\ KeepJournal(redone, path, identity, id)
      /\ recovered' = None /\ recovery' = "none"

\* ... or the worker fails partway, and the document is there all the same.
LoadReplayFails ==
  /\ tab = "opening"
  /\ Replays(FoundFor(path))
  /\ Opened(Now(path))
  /\ Offer(FoundFor(path))
  /\ lost' = TRUE /\ history' = EmptyHistory /\ pages' = Pages(Now(path))
  /\ memory' = Apply(Now(path), <<Half>>) /\ shown' = Now(path)
  /\ journal' = None
  /\ UNCHANGED journals

-----------------------------------------------------------------------------
(* Requests that only read, and workers that fail.                          *)

\* Any request opens the file again if the worker was lost; the page keeps the
\* document id it has.
ReadReopens ==
  /\ tab = "open" /\ lost
  /\ \E w \in LiveWorkers : memory' = w.memory /\ original' = w.original
  /\ lost' = FALSE
  /\ Quiet
  /\ UNCHANGED <<diskVars, tabVars, identity, history, pages, journal, offerVars,
                 shown>>

\* Crashed, Timeout, ProtocolViolation: lost_on, unexpected_on.
WorkerFails ==
  /\ tab = "open"
  /\ ~lost \/ Protected
  /\ Drop(memory) \/ Lose(journal)
  /\ Quiet
  /\ UNCHANGED <<diskVars, path>>

-----------------------------------------------------------------------------
(* Changes.                                                                 *)

CanEdit(e) ==
  /\ tab = "open"
  /\ pages + PageDelta(<<e>>) \in 1..MaxPages
  /\ HasRoom(history)
  /\ Fits(Append(Applied(history), e))

CanRecover ==
  /\ tab = "open"
  /\ recovery \in {"available", "partial"}
  /\ ~Unsaved(history)
  /\ PagesAfterAll(recovered.edits, pages)

\* The worker made the change, whose result has the new history `h`.
Changed(h, w, content) ==
  /\ history' = h
  /\ memory' = content /\ original' = w.original /\ lost' = FALSE
  /\ pages' = Pages(content)
  /\ shown' = content
  /\ Quiet
  /\ UNCHANGED <<files, tabVars, identity>>

ApplyEdit(e) ==
  /\ CanEdit(e)
  /\ \E w \in LiveWorkers :
       Changed(Pushed(history, e), w, Apply(w.memory, <<e>>))
  /\ KeepJournal(Pushed(history, e), path, identity, journal)
  /\ UNCHANGED offerVars

UndoWithoutJournal ==               \* mutant: no keep_journal
  /\ tab = "open" /\ Unsaved(history)
  /\ \E w \in LiveWorkers :
       Changed(Undone(history), w, Apply(w.original, BeforeLast(history)))
  /\ UNCHANGED <<journal, journals, offerVars>>

Undo ==
  /\ tab = "open" /\ Unsaved(history)
  /\ \E w \in LiveWorkers :
       Changed(Undone(history), w, Apply(w.original, BeforeLast(history)))
  /\ KeepJournal(Undone(history), path, identity, journal)
  /\ UNCHANGED offerVars

Redo ==
  /\ tab = "open" /\ CanRedo(history)
  /\ \E w \in LiveWorkers :
       Changed(Redone(history), w,
               Apply(w.memory, <<history.edits[history.applied + 1]>>))
  /\ KeepJournal(Redone(history), path, identity, journal)
  /\ UNCHANGED offerVars

\* The edits an earlier run left become the document's own, and so does their
\* journal.
Recover ==
  /\ CanRecover
  /\ LET edits == recovered.edits
         h     == [edits |-> edits, applied |-> Len(edits)]
     IN  /\ \E w \in LiveWorkers : Changed(h, w, Apply(w.memory, edits))
         /\ KeepJournal(h, path, identity, recovered.id)
  /\ recovered' = None /\ recovery' = "none"

PartwayKeepsWorker ==               \* mutant: the half edited copy stays
  /\ tab = "open"
  /\ (\E e \in Edits : CanEdit(e)) \/ CanRedo(history) \/ CanRecover
  /\ \E w \in LiveWorkers : memory' = Apply(w.memory, <<Half>>)
  /\ Quiet
  /\ UNCHANGED <<diskVars, tabVars, identity, history, pages, lost, journal,
                 offerVars, original, shown>>

\* The worker answers that it failed in the middle of an edit, a redo or a
\* replay: its copy is not used again, the history stays.
Partway ==
  /\ tab = "open"
  /\ (\E e \in Edits : CanEdit(e)) \/ CanRedo(history) \/ CanRecover
  /\ \E w \in LiveWorkers : Drop(Apply(w.memory, <<Half>>)) \/ Lose(journal)
  /\ Quiet
  /\ UNCHANGED <<diskVars, path>>

DiscardRecovered ==
  /\ tab = "open" /\ recovered # None
  /\ DiskBecomes(Without(recovered.id))
  /\ \/ ~(lost /\ Protected)
        /\ recovered' = None /\ recovery' = "none"
        /\ UNCHANGED <<tab, released, identity, history, pages, lost, journal,
                       memory, original, shown>>
     \/ lost /\ Lose(journal)
  /\ Quiet
  /\ UNCHANGED <<files, path>>

-----------------------------------------------------------------------------
(* Saving.                                                                  *)

\* The temporary file takes the place of `f`.
Replaced(f, content) ==
  /\ Len(files[f]) < MaxVersions
  /\ files' = [files EXCEPT ![f] = Append(@, content)]

OwnFileUnchecked ==                 \* mutant: no look at the file on disk
  tab = "open" /\ Unsaved(history)

\* Save to the document's own file: only if no other program changed it.
OwnFileFree ==
  /\ tab = "open" /\ Unsaved(history)
  /\ identity = Len(files[path])

\* How saves may start: <<reply, destination>>.
SaveTargets ==
  (IF OwnFileFree THEN {<<"saved", path>>} ELSE {})
    \cup (IF tab = "open" THEN {"savedAs"} \X Files ELSE {})

SavedKeepsHistory(f) ==             \* mutant: the history is not emptied
  /\ path' = f /\ identity' = Len(files'[f])
  /\ UNCHANGED <<history, journals, journal>>
  /\ IF f # path THEN recovered' = None /\ recovery' = "none"
     ELSE /\ recovered' = recovered
          /\ recovery' = IF recovered = None THEN recovery ELSE "stale"

SavedKeepsCount(f) ==               \* mutant: only the edits are dropped
  /\ path' = f /\ identity' = Len(files'[f])
  /\ history' = [history EXCEPT !.edits = <<>>]
  /\ KeepJournal(EmptyHistory, f, identity', journal)
  /\ UNCHANGED offerVars

\* What the main process knows once the file is replaced.
Saved(f) ==
  /\ path' = f /\ identity' = Len(files'[f])
  /\ history' = EmptyHistory
  /\ KeepJournal(EmptyHistory, f, identity', journal)
  /\ IF f # path THEN recovered' = None /\ recovery' = "none"
     ELSE /\ recovered' = recovered
          /\ recovery' = IF recovered = None THEN recovery ELSE "stale"

\* The worker keeps the bytes of the file just written.
SaveKept(f, content) ==
  /\ Replaced(f, content)
  /\ Saved(f)
  /\ memory' = content /\ original' = content /\ lost' = FALSE
  /\ UNCHANGED <<tab, released, pages, shown>>

\* It could not (rebase): the file is written, the worker lost.
SaveDropped(f, content) ==
  /\ Replaced(f, content)
  /\ Saved(f)
  /\ ~Protected
  /\ lost' = TRUE /\ memory' = content
  /\ UNCHANGED <<tab, released, pages, original, shown>>

\* With a password, the document is gone too and the answer is an error: the
\* tab asks for the file it had before, though `f` was written.
SaveLost(f, content) ==
  /\ Replaced(f, content)
  /\ UNCHANGED path
  /\ DiskBecomes(Without(journal))
  /\ Lose(None)

Save ==
  \E target \in SaveTargets, w \in LiveWorkers :
    \/ /\ SaveKept(target[2], w.memory) \/ SaveDropped(target[2], w.memory)
       /\ reply' = target[1]
    \/ /\ SaveLost(target[2], w.memory)
       /\ reply' = "error"

\* The app ends after the file is replaced, before the journal is removed.
SaveThenCrash ==
  /\ \E target \in SaveTargets, w \in LiveWorkers :
       Replaced(target[2], w.memory)
  /\ tab' = "closed" /\ released' = None
  /\ NoDocument
  /\ Quiet
  /\ UNCHANGED <<journals, path>>

CanMark ==
  /\ tab = "open"
  /\ ~Unsaved(history) /\ recovery \notin {"available", "partial"}
  /\ identity = Len(files[path])

\* The mark is appended to the bytes the worker keeps; the worker then keeps
\* the new file and opens the document from it, or is lost.
SetSensitive ==
  /\ CanMark
  /\ \E w \in LiveWorkers :
       LET marked == Apply(w.original, <<Mark>>) IN
       /\ Replaced(path, marked)
       /\ \/ /\ memory' = marked /\ original' = marked /\ lost' = FALSE
             /\ shown' = marked /\ identity' = Len(files'[path])
             /\ UNCHANGED <<tab, released, history, pages, journal, offerVars>>
          \/ /\ ~Protected
             /\ memory' = w.memory /\ original' = w.original /\ lost' = TRUE
             /\ shown' = marked /\ identity' = Len(files'[path])
             /\ UNCHANGED <<tab, released, history, pages, journal, offerVars>>
          \/ Lose(journal)
  /\ reply' = IF tab' = "open" THEN "none" ELSE "error"
  /\ UNCHANGED <<journals, path>>

-----------------------------------------------------------------------------
(* The tab, the app and other programs.                                     *)

\* The user closed the tab, having been asked: its changes are discarded.
Close ==
  /\ tab # "closed"
  /\ tab' = "closed" /\ released' = None
  /\ DiskBecomes(Without(journal))
  /\ NoDocument
  /\ Quiet
  /\ UNCHANGED <<files, path>>

AppCrash ==
  /\ tab # "closed"
  /\ tab' = "closed" /\ released' = None
  /\ NoDocument
  /\ Quiet
  /\ UNCHANGED <<diskVars, path>>

External(f, b) ==
  /\ Replaced(f, [base |-> b, edits |-> <<>>])
  /\ Quiet
  /\ UNCHANGED <<journals, tabVars, docVars>>

Init ==
  /\ files \in [Files -> {<<[base |-> b, edits |-> <<>>]>> : b \in Bases}]
  /\ journals = [id \in JournalIds |-> None]
  /\ tab = "closed" /\ path \in Files /\ released = None
  /\ identity = 0 /\ history = EmptyHistory /\ pages = 0 /\ lost = FALSE
  /\ journal = None /\ recovered = None /\ recovery = "none"
  /\ memory = None /\ original = None /\ shown = None
  /\ reply = "none"

Next ==
  \/ \E f \in Files : StartLoad(f)
  \/ LoadFails \/ LoadPlain \/ LoadReplays \/ LoadReplayFails
  \/ ReadReopens \/ WorkerFails
  \/ \E e \in Edits : ApplyEdit(e)
  \/ Undo \/ Redo \/ Recover \/ Partway \/ DiscardRecovered
  \/ Save \/ SaveThenCrash \/ SetSensitive
  \/ Close \/ AppCrash
  \/ \E f \in Files, b \in Bases : External(f, b)

Spec == Init /\ [][Next]_vars

-----------------------------------------------------------------------------
(* Properties.                                                              *)

Recoveries == {"none", "stale", "available", "partial", "lost"}

Record == [path : Files, version : Nat, edits : Seq(Edits), lost : Nat]
Found  == [id : JournalIds, edits : Seq(Edits), version : Nat]

\* Every variable has its type, a document is only there in an open tab, and
\* its history never claims more edits than it has (documents.rs OpenDocument).
TypeOK ==
  /\ files \in [Files -> Seq(Content)] /\ \A f \in Files : files[f] # <<>>
  /\ journals \in [JournalIds -> Record \cup {None}]
  /\ tab \in {"closed", "opening", "failed", "asking", "open"}
  /\ path \in Files /\ released \in JournalIds \cup {None}
  /\ identity \in Nat /\ pages \in Int
  /\ history \in [edits : Seq(Edits), applied : Nat]
  /\ history.applied <= Len(history.edits)
  /\ lost \in BOOLEAN
  /\ journal \in JournalIds \cup {None}
  /\ recovered \in Found \cup {None} /\ recovery \in Recoveries
  /\ recovery # "none" => recovered \in Found
  /\ tab = "open" => {memory, original, shown} \subseteq Content
  /\ tab # "open" => history = EmptyHistory /\ journal = None /\ recovered = None
  /\ reply \in {"none", "saved", "savedAs", "error"}

\* What a worker that is still used has is the bytes it undoes from with the
\* edits of the history, page for page: an edit that failed partway, a reopened
\* file or a save never leaves the two apart (edit_in_worker, reopen, rebase).
WorkerAgrees ==
  tab = "open" /\ ~lost =>
    /\ memory = Apply(original, Applied(history))
    /\ pages = Pages(memory)

\* While no other program changed the file, what the page was shown of a
\* document with unsaved edits is that file with those edits, whatever died, was
\* reopened, recovered or undone in between (identity, reopen, replay).
UnsavedIsFileWithEdits ==
  tab = "open" /\ identity = Len(files[path]) /\ Unsaved(history) =>
    shown = Apply(Now(path), Applied(history))

\* What the above rests on: a document stands for a version its file has had,
\* and a worker that is used has that version with the edits, unless the file
\* changed since (load_with, live_worker, rebase, revert_in_worker).
StandsOnFile ==
  /\ tab \in {"opening", "open"} => identity <= Len(files[path])
  /\ tab = "open" /\ ~lost => memory = Apply(original, Applied(history))
  /\ tab = "open" /\ ~lost /\ identity = Len(files[path]) =>
       original = Now(path)
  /\ UnsavedIsFileWithEdits

\* A save to the document's own file writes what the page was shown, over the
\* version of the file it was opened from: no other program's change is
\* overwritten and no edit is left out (save).
SaveWritesWhatIsShown ==
  [][reply' = "saved" =>
       /\ files' = [files EXCEPT ![path] = Append(@, shown)]
       /\ identity = Len(files[path])]_vars

\* The journal on disk is the document's unsaved edits, on the version of the
\* file they were made on; with nothing unsaved there is none (keep_journal).
JournalInStep ==
  tab = "open" =>
    IF Unsaved(history)
    THEN /\ journal # None
         /\ journals[journal] = JournalOf(history, path, identity)
    ELSE journal = None

\* A document that stays open without its journal has left no file of it for a
\* later run to offer: neither a save nor undoing everything does (keep_journal).
NoJournalLeftBehind ==
  [][journal # None /\ journal' # journal /\ tab' = "open" =>
       journals'[journal] = None]_vars

\* Every journal the app leaves is one recovery.rs read() accepts, so that none
\* is left alone when its file opens (journalled, Journals::check).
JournalsReadable ==
  \A id \in JournalIds : journals[id] # None => Readable(journals[id])

\* A journal is taken over as the document's own, unasked or by the user, only
\* for the version of the file its edits were made on: edits a crash left
\* behind a finished save are never made a second time (recover_on_open,
\* Journals::take).
TakenOverOnItsVersion ==
  [][journal' # journal /\ journal' # None /\ journals[journal'] # None =>
       journals[journal'].version = identity']_vars

\* Edits offered to be made again start from the file as it is, unless another
\* program changed it since it was opened (recover, Recovery::Available).
OfferIsForThisFile ==
  /\ tab = "open" /\ ~lost /\ recovery \in {"available", "partial"}
  /\ identity = Len(files[path])
  => original = files[path][recovered.version]

\* A tab that lost its document with its password and opens again has the edits
\* of the journal it kept, or offers them, and never those of another journal
\* for the file (lose, recover_on_open).
UnlockBringsBackEdits ==
  [][tab = "opening" /\ tab' = "open"
     /\ released \in Offers(path) =>
       \/ journal' = released /\ history'.edits = journals[released].edits
       \/ recovered' # None /\ recovered'.id = released]_vars

-----------------------------------------------------------------------------
(* What the comments and documents say and the code does not do.            *)

\* docs/architecture/saving.md: a document id stands for one content, so what
\* the worker answers for an id is what the page was shown under it.
IdStandsForContent == tab = "open" /\ ~lost => memory = shown

\* documents.rs recover: edits are made again only on the file as it was when
\* they were made.
RecoverOnlyOnSameFile ==
  [][journal' # journal /\ journal' # None /\ journals[journal'] # None =>
       original' = files[path][journals[journal'].version]]_vars

\* documents.rs live_worker: a document opened with a password is never found
\* lost by a request, it was forgotten at once.
ProtectedNeverLost == tab = "open" /\ Protected => ~lost

\* documents.rs save and set_sensitive: whatever fails, the file stays as it was.
ErrorChangesNoFile == [][reply' = "error" => UNCHANGED files]_vars

\* recovery.rs write: if a journal cannot be written, a crash loses the changes,
\* nothing else; so what is on disk is never more than the document's edits.
FailedWriteOnlyLoses ==
  tab = "open" /\ journal # None /\ journals[journal] # None =>
    LET kept == journals[journal].edits
        had  == Applied(history)
    IN  Len(kept) <= Len(had) /\ kept = SubSeq(had, 1, Len(kept))

-----------------------------------------------------------------------------
(* The promise.                                                             *)

\* The document as the user sees it.
View ==
  IF tab # "open" THEN None
  ELSE [file    |-> path,
        current |-> identity = Len(files[path]),
        done    |-> Applied(history),
        undone  |-> SubSeq(history.edits, history.applied + 1,
                           Len(history.edits))]

Promise == INSTANCE Editor WITH
  stored   <- [f \in Files |-> Now(f)],
  view     <- View,
  Contents <- Content,
  answer   <- reply,
  NoView   <- None,
  Made     <- Apply

\* Workers, journals, crashes and reopened files can never be seen: the document
\* is an editor on files, which saves over a file only what it was opened from
\* with the edits made (documents.rs, whole).
KeepsPromise == Promise!Spec

=============================================================================
