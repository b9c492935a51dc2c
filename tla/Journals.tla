------------------------------ MODULE Journals ------------------------------
(***************************************************************************)
(* The crash recovery journals of all tabs (src-tauri/src/recovery.rs and   *)
(* its callers in documents.rs): the files in the recovery folder, which    *)
(* outlive the app, and `in_use`, the names this run has taken, which do    *)
(* not.                                                                     *)
(*                                                                          *)
(* What a tab does with an open document is one step, as it holds that      *)
(* document's lock.  The folder is shared, and no lock spans the two steps  *)
(* of taking a journal (read it, then enter it in `in_use`) or the many of  *)
(* clearing the unused ones, so these are steps of their own.  Editing has  *)
(* what one document does with its journal; here the edits only say who     *)
(* made them.                                                               *)
(***************************************************************************)
EXTENDS Integers, Sequences, FiniteSets

CONSTANTS
  Tabs,         \* tabs of a run
  Files,        \* files they open
  JournalIds,   \* names of journals, in the order of names
  MaxJournals,  \* MAX_JOURNALS, the names looked at when a file opens
  MaxEdits,     \* bound: edits not saved of one document
  Protected,    \* files need a password, which is not kept
  Clears,       \* the user clears the recent files list
  None          \* the absent value

ASSUME JournalsAssumption ==
  /\ JournalIds \subseteq Nat /\ IsFiniteSet(JournalIds)
  /\ None \notin JournalIds \cup Files \cup [file : Files, edits : Seq(Tabs)]
  /\ MaxJournals \in Nat /\ MaxEdits \in Nat
  /\ Protected \in BOOLEAN /\ Clears \in BOOLEAN

VARIABLES
  disk,       \* the journal files: the file they are for and its edits
  named,      \* names given since the first run; a random name is never reused
  inUse,      \* Journals::in_use
  tab,        \* what each tab is doing
  file,       \* the file each tab is for
  work,       \* the unsaved edits of its document (history)
  own,        \* OpenDocument::journal
  found,      \* OpenDocument::recovered, with the edits as they were read
  usable,     \* the offer can be taken (Recovery::Available)
  released,   \* Tab::released
  toTry,      \* an opening's names of journals still to look at
  seen,       \* the journal it has read and not yet entered in in_use
  clearing,   \* clear_unused goes through the folder
  toClear,    \* the names it still has to remove
  mine,       \* the names of documents' own journals in this run
  exposed     \* names a tab has that others may have too, or are about to clear

foundVars == <<found, usable>>
loadVars  == <<toTry, seen>>
docVars   == <<work, own, found, usable>>
tabVars   == <<tab, file, released>>
clearVars == <<clearing, toClear>>
ghosts    == <<mine, exposed>>
vars == <<disk, named, inUse, tab, file, work, own, found, usable, released,
          toTry, seen, clearing, toClear, mine, exposed>>

Work  == Seq(Tabs)
Found == [id : named, edits : Work]

OnDisk == {id \in JournalIds : disk[id] # None}

\* A tab's document has no journal, no edits and no offer any more.
NoDocument(t) ==
  /\ work' = [work EXCEPT ![t] = <<>>]
  /\ own' = [own EXCEPT ![t] = None]
  /\ found' = [found EXCEPT ![t] = None]
  /\ usable' = [usable EXCEPT ![t] = FALSE]

FoundId(t) == IF found[t] = None THEN None ELSE found[t].id

\* The journals a tab's document uses: its own, and the one offered.
Uses(t) == {own[t], FoundId(t)} \ {None}

-----------------------------------------------------------------------------
(* Opening a file (load_with, recover_on_open).                             *)

\* The names a listing of the folder gives: the first in the order of names.
Listed ==
  {id \in OnDisk : Cardinality({other \in OnDisk : other < id}) < MaxJournals}

\* load, retry and unlock: the worker reads the file.
StartLoad(t) ==
  /\ \/ tab[t] = "closed" /\ \E f \in Files : file' = [file EXCEPT ![t] = f]
     \/ tab[t] \in {"failed", "asking"} /\ UNCHANGED file
  /\ tab' = [tab EXCEPT ![t] = "loading"]
  /\ UNCHANGED <<disk, named, inUse, docVars, released, loadVars, clearVars,
                 ghosts>>

LoadFails(t) ==
  /\ tab[t] \in {"loading", "abandoned"}
  /\ tab' = [tab EXCEPT ![t] =
       IF @ = "abandoned" THEN "closed"
       ELSE IF Protected THEN "asking" ELSE "failed"]
  /\ UNCHANGED <<disk, named, inUse, file, docVars, released, loadVars,
                 clearVars, ghosts>>

\* It has: the tab's own journal is tried first.
LookForOwn(t) ==
  /\ tab[t] = "loading" /\ released[t] # None
  /\ tab' = [tab EXCEPT ![t] = "taking"]
  /\ toTry' = [toTry EXCEPT ![t] = {released[t]}]
  /\ released' = [released EXCEPT ![t] = None]
  /\ UNCHANGED <<disk, named, inUse, file, docVars, seen, clearVars, ghosts>>

Looking(t) ==
  tab[t] \in {"taking", "finding", "takingAbandoned", "findingAbandoned"}

Searched(t) == Looking(t) /\ seen[t] = None /\ toTry[t] = {}

\* Then, or if it has none, those in the folder.
LookInFolder(t) ==
  /\ \/ tab[t] \in {"loading", "abandoned"} /\ released[t] = None
     \/ tab[t] \in {"taking", "takingAbandoned"} /\ Searched(t)
        /\ found[t] = None
  /\ tab' = [tab EXCEPT ![t] = IF @ \in {"loading", "taking"} THEN "finding"
                               ELSE "findingAbandoned"]
  /\ toTry' = [toTry EXCEPT ![t] = Listed]
  /\ UNCHANGED <<disk, named, inUse, file, docVars, released, seen, clearVars,
                 ghosts>>

ReadableFor(t, id) == disk[id] # None /\ disk[id].file = file[t]

\* take, first half: a journal for the file that no tab uses is read.
ReadJournal(t) ==
  /\ Looking(t) /\ seen[t] = None /\ toTry[t] # {}
  /\ \E id \in toTry[t] :
       /\ \A other \in toTry[t] : id <= other
       /\ toTry' = [toTry EXCEPT ![t] = @ \ {id}]
       /\ seen' = IF id \notin inUse /\ ReadableFor(t, id)
                  THEN [seen EXCEPT ![t] = [id |-> id, edits |-> disk[id].edits]]
                  ELSE seen
  /\ UNCHANGED <<disk, named, inUse, tab, file, docVars, released, clearVars,
                 ghosts>>

\* The journal `t` has read is not what it read any more, or is being cleared.
Overtaken(t) ==
  LET id == seen[t].id IN
    id \in toClear \/ disk[id] # [file |-> file[t], edits |-> seen[t].edits]

\* take, second half: it is this tab's, unless another took it meanwhile.
EnterUnchecked(t) ==                \* mutant: the insert's answer is ignored
  /\ seen[t] # None
  /\ inUse' = inUse \cup {seen[t].id}
  /\ found' = [found EXCEPT ![t] = seen[t]]
  /\ seen' = [seen EXCEPT ![t] = None]
  /\ toTry' = [toTry EXCEPT ![t] = {}]
  /\ UNCHANGED <<disk, named, tabVars, work, own, usable, clearVars, ghosts>>

Enter(t) ==
  /\ seen[t] # None
  /\ IF seen[t].id \in inUse
     THEN UNCHANGED <<inUse, found, toTry, exposed>>
     ELSE /\ inUse' = inUse \cup {seen[t].id}
          /\ found' = [found EXCEPT ![t] = seen[t]]
          /\ toTry' = [toTry EXCEPT ![t] = {}]
          /\ exposed' = exposed \cup (IF Overtaken(t) THEN {seen[t].id} ELSE {})
  /\ seen' = [seen EXCEPT ![t] = None]
  /\ UNCHANGED <<disk, named, tabVars, work, own, usable, clearVars, mine>>

\* A journal is no offer if it is the tab's own: its edits are made again.
TakesOver(t) == tab[t] \in {"taking", "takingAbandoned"} /\ found[t] # None

\* The document is there, with an offer that can be taken or is stale ...
LoadOffers(t) ==
  /\ Searched(t)
  /\ tab[t] \in {"taking", "takingAbandoned"} => found[t] # None
  /\ IF tab[t] \in {"takingAbandoned", "findingAbandoned"}
     THEN tab' = [tab EXCEPT ![t] = "closed"] /\ NoDocument(t)
     ELSE /\ tab' = [tab EXCEPT ![t] = "open"]
          /\ usable' \in {[usable EXCEPT ![t] = u] :
                            u \in IF found[t] = None THEN {FALSE} ELSE BOOLEAN}
          /\ UNCHANGED <<work, own, found>>
  /\ UNCHANGED <<disk, named, inUse, file, released, loadVars, clearVars,
                 ghosts>>

\* ... or with its own edits again, in the journal they were in.
LoadReplays(t) ==
  /\ Searched(t) /\ TakesOver(t)
  /\ disk' = [disk EXCEPT ![found[t].id] =
                [file |-> file[t], edits |-> found[t].edits]]
  /\ IF tab[t] = "takingAbandoned"
     THEN tab' = [tab EXCEPT ![t] = "closed"] /\ NoDocument(t)
     ELSE /\ tab' = [tab EXCEPT ![t] = "open"]
          /\ work' = [work EXCEPT ![t] = found[t].edits]
          /\ own' = [own EXCEPT ![t] = found[t].id]
          /\ found' = [found EXCEPT ![t] = None]
          /\ UNCHANGED usable
  /\ mine' = mine \cup {found[t].id}
  /\ UNCHANGED <<named, inUse, file, released, loadVars, clearVars, exposed>>

-----------------------------------------------------------------------------
(* What an open document does (keep_journal).                               *)

\* The journal of tab `t` becomes one of `edits`, under the name it has or a new
\* one; with nothing unsaved there is none.
KeepJournalAlways(t, edits) ==      \* mutant: only saving removes it
  \E id \in IF own[t] = None THEN JournalIds \ named ELSE {own[t]} :
    /\ own' = [own EXCEPT ![t] = id]
    /\ disk' = [disk EXCEPT ![id] = [file |-> file[t], edits |-> edits]]
    /\ named' = named \cup {id} /\ inUse' = inUse \cup {id}
    /\ mine' = mine \cup {id}
    /\ UNCHANGED exposed

KeepJournal(t, edits) ==
  IF edits # <<>>
  THEN \E id \in IF own[t] = None THEN JournalIds \ named ELSE {own[t]} :
         /\ own' = [own EXCEPT ![t] = id]
         /\ disk' = [disk EXCEPT ![id] = [file |-> file[t], edits |-> edits]]
         /\ named' = named \cup {id} /\ inUse' = inUse \cup {id}
         /\ mine' = mine \cup {id}
         /\ UNCHANGED exposed
  ELSE /\ own' = [own EXCEPT ![t] = None]
       /\ disk' = [id \in JournalIds |-> IF id = own[t] THEN None ELSE disk[id]]
       /\ inUse' = inUse \ {own[t]}
       /\ UNCHANGED <<named, ghosts>>

\* apply_edit and redo.
Edit(t) ==
  /\ tab[t] = "open" /\ Len(work[t]) < MaxEdits
  /\ work' = [work EXCEPT ![t] = Append(@, t)]
  /\ KeepJournal(t, work'[t])
  /\ UNCHANGED <<tabVars, foundVars, loadVars, clearVars>>

Undo(t) ==
  /\ tab[t] = "open" /\ work[t] # <<>>
  /\ work' = [work EXCEPT ![t] = SubSeq(@, 1, Len(@) - 1)]
  /\ KeepJournal(t, work'[t])
  /\ UNCHANGED <<tabVars, foundVars, loadVars, clearVars>>

\* The journal `t` has found becomes its own.
Recover(t) ==
  /\ tab[t] = "open" /\ usable[t] /\ work[t] = <<>>
  /\ work' = [work EXCEPT ![t] = found[t].edits]
  /\ own' = [own EXCEPT ![t] = found[t].id]
  /\ disk' = [disk EXCEPT ![found[t].id] =
                [file |-> file[t], edits |-> found[t].edits]]
  /\ found' = [found EXCEPT ![t] = None]
  /\ usable' = [usable EXCEPT ![t] = FALSE]
  /\ mine' = mine \cup {found[t].id}
  /\ UNCHANGED <<named, inUse, tabVars, loadVars, clearVars, exposed>>

DiscardRecovered(t) ==
  /\ tab[t] = "open" /\ found[t] # None
  /\ disk' = [disk EXCEPT ![found[t].id] = None]
  /\ inUse' = inUse \ {found[t].id}
  /\ found' = [found EXCEPT ![t] = None]
  /\ usable' = [usable EXCEPT ![t] = FALSE]
  /\ UNCHANGED <<named, tabVars, work, own, loadVars, clearVars, ghosts>>

SaveKeepingRecovery(t, f) ==        \* mutant: info.recovery is not reset
  /\ tab[t] = "open" /\ f # file[t]
  /\ file' = [file EXCEPT ![t] = f]
  /\ work' = [work EXCEPT ![t] = <<>>]
  /\ own' = [own EXCEPT ![t] = None]
  /\ disk' = [id \in JournalIds |-> IF id = own[t] THEN None ELSE disk[id]]
  /\ inUse' = inUse \ {own[t], FoundId(t)}
  /\ found' = [found EXCEPT ![t] = None]
  /\ UNCHANGED <<named, tab, usable, released, loadVars, clearVars, ghosts>>

\* Saved to its own file, an offer is stale; saved to another one, the offer is
\* left for the file it is of.
Save(t, f) ==
  /\ tab[t] = "open" /\ (work[t] # <<>> \/ f # file[t] \/ found[t] # None)
  /\ file' = [file EXCEPT ![t] = f]
  /\ work' = [work EXCEPT ![t] = <<>>]
  /\ own' = [own EXCEPT ![t] = None]
  /\ disk' = [id \in JournalIds |-> IF id = own[t] THEN None ELSE disk[id]]
  /\ usable' = [usable EXCEPT ![t] = FALSE]
  /\ IF f = file[t]
     THEN inUse' = inUse \ {own[t]} /\ UNCHANGED found
     ELSE /\ inUse' = inUse \ {own[t], FoundId(t)}
          /\ found' = [found EXCEPT ![t] = None]
  /\ UNCHANGED <<named, tab, released, loadVars, clearVars, ghosts>>

LoseDeleting(t) ==                  \* mutant: the journal is not kept
  /\ Protected /\ tab[t] = "open"
  /\ tab' = [tab EXCEPT ![t] = "asking"]
  /\ disk' = [id \in JournalIds |-> IF id = own[t] THEN None ELSE disk[id]]
  /\ inUse' = inUse \ {own[t], FoundId(t)}
  /\ NoDocument(t)
  /\ UNCHANGED <<named, file, released, loadVars, clearVars, ghosts>>

\* lose: the document is gone with its worker and its password; its journals are
\* left for the next opening of the file.
Lose(t) ==
  /\ Protected /\ tab[t] = "open"
  /\ tab' = [tab EXCEPT ![t] = "asking"]
  /\ inUse' = inUse \ {own[t], FoundId(t)}
  /\ released' = [released EXCEPT ![t] = own[t]]
  /\ NoDocument(t)
  /\ UNCHANGED <<disk, named, file, loadVars, clearVars, ghosts>>

\* What tab `t` released and another one has taken meanwhile.
TakenFrom(t) == {released[t]} \cap UNION {Uses(u) : u \in Tabs \ {t}}

CloseKeepingJournal(t) ==           \* mutant: the changes stay on disk
  /\ tab[t] \in {"open", "failed", "asking"}
  /\ tab' = [tab EXCEPT ![t] = "closed"]
  /\ inUse' = inUse \ {own[t], FoundId(t), released[t]}
  /\ released' = [released EXCEPT ![t] = None]
  /\ exposed' = exposed \cup TakenFrom(t)
  /\ NoDocument(t)
  /\ UNCHANGED <<disk, named, file, loadVars, clearVars, mine>>

\* The changes are discarded; an offer not answered stays for the next time.
Close(t) ==
  /\ tab[t] \in {"open", "failed", "asking"}
  /\ tab' = [tab EXCEPT ![t] = "closed"]
  /\ disk' = [id \in JournalIds |-> IF id = own[t] THEN None ELSE disk[id]]
  /\ inUse' = inUse \ {own[t], FoundId(t), released[t]}
  /\ released' = [released EXCEPT ![t] = None]
  /\ exposed' = exposed \cup TakenFrom(t)
  /\ NoDocument(t)
  /\ UNCHANGED <<named, file, loadVars, clearVars, mine>>

\* Closed while its file opens: there is no document yet, and the opening goes on.
CloseLoading(t) ==
  /\ tab[t] \in {"loading", "taking", "finding"}
  /\ tab' = [tab EXCEPT ![t] =
       CASE @ = "loading" -> "abandoned"
         [] @ = "taking"  -> "takingAbandoned"
         [] @ = "finding" -> "findingAbandoned"]
  /\ inUse' = IF tab[t] = "loading" THEN inUse \ {released[t]} ELSE inUse
  /\ exposed' = exposed \cup TakenFrom(t)
  /\ released' = [released EXCEPT ![t] = None]
  /\ UNCHANGED <<disk, named, file, docVars, loadVars, clearVars, mine>>

-----------------------------------------------------------------------------
(* The recent files list is cleared; the app ends.                          *)

ClearStartsAll ==                   \* mutant: in_use is not left out
  /\ Clears /\ ~clearing
  /\ clearing' = TRUE /\ toClear' = OnDisk
  /\ UNCHANGED <<disk, named, inUse, tabVars, docVars, loadVars, ghosts>>

\* The folder is listed, then in_use is copied.
ClearStarts ==
  /\ Clears /\ ~clearing
  /\ clearing' = TRUE /\ toClear' = OnDisk \ inUse
  /\ UNCHANGED <<disk, named, inUse, tabVars, docVars, loadVars, ghosts>>

\* Names taken meanwhile go with the others.
ClearRemoves(id) ==
  /\ clearing /\ id \in toClear
  /\ disk' = [disk EXCEPT ![id] = None]
  /\ toClear' = toClear \ {id}
  /\ UNCHANGED <<named, inUse, tabVars, docVars, loadVars, clearing, ghosts>>

ClearEnds ==
  /\ clearing /\ toClear = {}
  /\ clearing' = FALSE
  /\ UNCHANGED <<disk, named, inUse, tabVars, docVars, loadVars, toClear, ghosts>>

\* The value of every tab of a run that has just begun.
Nowhere(value) == [t \in Tabs |-> value]

\* A crash or the end of the app, and its next start: only the folder is left.
Restart ==
  /\ tab' = Nowhere("closed") /\ released' = Nowhere(None)
  /\ work' = Nowhere(<<>>) /\ own' = Nowhere(None)
  /\ found' = Nowhere(None) /\ usable' = Nowhere(FALSE)
  /\ toTry' = Nowhere({}) /\ seen' = Nowhere(None)
  /\ inUse' = {} /\ clearing' = FALSE /\ toClear' = {}
  /\ mine' = {} /\ exposed' = {}
  /\ UNCHANGED <<disk, named, file>>

Init ==
  /\ disk = [id \in JournalIds |-> None] /\ named = {}
  /\ file \in [Tabs -> Files]
  /\ tab = Nowhere("closed") /\ released = Nowhere(None)
  /\ work = Nowhere(<<>>) /\ own = Nowhere(None)
  /\ found = Nowhere(None) /\ usable = Nowhere(FALSE)
  /\ toTry = Nowhere({}) /\ seen = Nowhere(None)
  /\ inUse = {} /\ clearing = FALSE /\ toClear = {}
  /\ mine = {} /\ exposed = {}

OpeningStep(t) ==
  \/ StartLoad(t) \/ LoadFails(t) \/ LookForOwn(t) \/ LookInFolder(t)
  \/ ReadJournal(t) \/ Enter(t) \/ LoadOffers(t) \/ LoadReplays(t)

DocumentStep(t) ==
  \/ Edit(t) \/ Undo(t) \/ Recover(t) \/ DiscardRecovered(t)
  \/ \E f \in Files : Save(t, f)
  \/ Lose(t) \/ Close(t) \/ CloseLoading(t)

Clearing == ClearStarts \/ (\E id \in JournalIds : ClearRemoves(id)) \/ ClearEnds

Next == (\E t \in Tabs : OpeningStep(t) \/ DocumentStep(t)) \/ Clearing \/ Restart

Spec == Init /\ [][Next]_vars

-----------------------------------------------------------------------------
(* Properties.                                                              *)

Stages == {"closed", "failed", "asking", "loading", "taking", "finding",
           "abandoned", "takingAbandoned", "findingAbandoned", "open"}

\* Every variable has its type, a name on disk or in use was given before, and
\* what the page is told can be made again is there (Journals, info.recovery).
TypeOK ==
  /\ disk \in [JournalIds -> [file : Files, edits : Work] \cup {None}]
  /\ named \subseteq JournalIds /\ inUse \subseteq named /\ OnDisk \subseteq named
  /\ tab \in [Tabs -> Stages] /\ file \in [Tabs -> Files]
  /\ work \in [Tabs -> Work] /\ own \in [Tabs -> named \cup {None}]
  /\ found \in [Tabs -> Found \cup {None}] /\ usable \in [Tabs -> BOOLEAN]
  /\ \A t \in Tabs : usable[t] => tab[t] = "open" /\ found[t] # None
  /\ released \in [Tabs -> named \cup {None}]
  /\ toTry \in [Tabs -> SUBSET named] /\ seen \in [Tabs -> Found \cup {None}]
  /\ clearing \in BOOLEAN /\ toClear \subseteq named
  /\ mine \subseteq named /\ exposed \subseteq named

\* A journal is never that of two tabs, or offered to two (take, create, remove
\* and release keep in_use right, whatever opens, closes and saves meanwhile).
OneTab == \A t, u \in Tabs : t # u => Uses(t) \cap Uses(u) = {}

\* Every journal a tab uses is in in_use: what clear_unused leaves, and no other
\* tab is offered.
UsedIsInUse == \A t \in Tabs : Uses(t) \subseteq inUse

\* The unsaved edits of every open document are in a journal on disk, and a
\* document with none has no journal, whatever the other tabs do (keep_journal).
EditsAreOnDisk ==
  \A t \in Tabs : tab[t] = "open" =>
    IF work[t] = <<>> THEN own[t] = None
    ELSE own[t] # None /\ disk[own[t]] = [file |-> file[t], edits |-> work[t]]

\* Tab `t` alone has journal `id`, and this step makes it follow the document's
\* edits, discards it with the document, or answers that it is not wanted.
Answers(t, id) ==
  /\ \A u \in Tabs \ {t} : id \notin Uses(u)
  /\ \/ own[t] = id /\ tab'[t] = "open"
        /\ disk'[id] = IF work'[t] = <<>> THEN None
                       ELSE [file |-> file[t], edits |-> work'[t]]
     \/ own[t] = id /\ tab'[t] = "closed" /\ disk'[id] = None
     \/ FoundId(t) = id /\ tab[t] = "open" /\ found'[t] = None /\ disk'[id] = None

\* Or it is cleared with the recent files, and no tab has it.
MayChange(id) ==
  \/ \E t \in Tabs : Answers(t, id)
  \/ id \in toClear /\ disk'[id] = None /\ \A t \in Tabs : id \notin Uses(t)

\* The edits in a journal change or go only with the document of the one tab that
\* has it, by the answer to its offer, or by a clearing while no tab has it: not
\* by a lost worker, an opening, another tab or a crash.  The exceptions are the
\* journals of `exposed` (forget_journals, keep_journal, release, clear_unused).
OnlyByItsTab ==
  [][\A id \in JournalIds \ exposed :
       disk[id] # None /\ disk'[id] # disk[id] => MayChange(id)]_vars

\* When all tabs are closed, the folder has no journal of a document of this run:
\* only a run that ends without closing them leaves one (close, keep_journal).
NothingLeftBehind ==
  (\A t \in Tabs : tab[t] = "closed") => mine \cap OnDisk = {}

-----------------------------------------------------------------------------
(* What the comments and documents say and the code does not do.            *)

\* recovery.rs in_use: it has the tabs' own journals and those offered to a tab,
\* so that any other is offered when its file opens again.
InUseIsUsed ==
  inUse \subseteq UNION {Uses(t) : t \in Tabs}

\* recovery.rs take: what a tab is offered is in a journal on disk, which no
\* other tab has answered, saved or discarded.
OfferIsOnDisk ==
  \A t \in Tabs :
    tab[t] = "open" /\ found[t] # None => disk[found[t].id] # None

\* crash-recovery.md: once the password is entered again, the edits are made
\* again unasked, or offered if the file has changed.
ReleasedComesBack ==
  [][\A t \in Tabs :
       tab[t] = "taking" /\ tab'[t] # "taking" => tab'[t] # "finding"]_vars

\* recovery.rs MAX_JOURNALS: the app itself never leaves more journals than an
\* opening looks at.
AllLookedAt == Cardinality(OnDisk) <= MaxJournals

=============================================================================
