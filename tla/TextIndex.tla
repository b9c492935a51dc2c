------------------------------- MODULE TextIndex -------------------------------
(***************************************************************************)
(* The text index (src-tauri/src/text_index.rs): the text of the documents *)
(* the user opened, a page at a time, in a folder of its own, for files    *)
(* the user did not keep out of it.                                        *)
(*                                                                         *)
(* Commands of the user run on threads of their own: each first changes    *)
(* what is allowed (the settings, the file's mark) and then brings the     *)
(* index up to date, a document at a time (`consider`, `forget`, `clear`). *)
(* One thread takes the texts; a search reads them.  What is done under    *)
(* the index's lock is one step, but the app may end between any two       *)
(* changes such a step makes to the folder.                                *)
(*                                                                         *)
(* A text is named by the command that made it; a file is the texts it has *)
(* had, its version (size and time) how many.  A key stands for the        *)
(* encryption: what was written under another key does not open.           *)
(***************************************************************************)
EXTENDS Naturals, FiniteSets, Sequences, FiniteSetsExt, SequencesExt

CONSTANTS
  Files,       \* files of the user, each opened in one tab at most
  Pages,       \* pages of every document
  Limit,       \* MAX_INDEX_DOCUMENTS
  MaxVersions, \* bound: versions a file gets
  MaxCommands, \* bound: commands of the user
  MaxFaults    \* bound: damaged files and ends of the app

ASSUME FilesAssumption == IsFiniteSet(Files)
ASSUME PagesAssumption == Pages \in Nat \ {0}
ASSUME LimitAssumption == Limit \in Nat \ {0}

VARIABLES
  texts,    \* the texts each file has had, a version each
  tab,      \* the documents that are open
  enabled,  \* the user has the index on
  barred,   \* files marked as sensitive, and files not to record
  folder,   \* the index's folder: its key, its catalog, the documents' files
  index,    \* State: what was loaded of it, and how often it was deleted
  queue,    \* the documents whose text is to be taken
  reconsider, \* the index was lost and starts again with the open documents
  listed,   \* the results of the last search
  taker,    \* the thread that takes the texts
  calls,    \* what the running commands still have to do
  search,
  nextKey, commands, faults,
  torn,     \* the app ended between deleting a document's file and saying so
  cutShort  \* what the properties look back to: files whose text was not taken to the end,
            \* or passed over, for an edit or a page that failed, since it was last begun

vars == <<texts, tab, enabled, barred, folder, index, queue, reconsider, listed,
          taker, calls, search, nextKey, commands, faults, torn, cutShort>>
userVars == <<texts, tab, enabled, barred, commands>>
stateVars == <<folder, index, queue, reconsider, listed>>

Closed == [open |-> FALSE]
NoIndex == [key |-> 0, entries |-> {}, nextId |-> 0, clock |-> 0]
Nothing == [key |-> 0, catalog |-> NoIndex, docs |-> <<>>]
Idle == [at |-> "idle"]
Kinds == {"sensitive", "unrecorded"}

Version(f) == Len(texts[f])
Barred(f) == \E k \in Kinds : f \in barred[k]
Loaded == index.loaded.key # 0
EntriesOf(cat, f) == {e \in cat.entries : e.file = f}
-----------------------------------------------------------------------------
(* What is done under the lock: the folder and the catalog in memory it    *)
(* leaves, and every folder on the way there.                              *)

Effect(dir, cat, passed) == [dir |-> dir, cat |-> cat, passed |-> passed]
Before(cat) == Effect(folder, cat, {})
Then(effect, dir, cat) == Effect(dir, cat, effect.passed \cup {dir})

\* local_data::remove of the documents' files in `ids`.
RemoveFiles(dir, ids) ==
  [dir EXCEPT !.docs = [id \in DOMAIN @ \ ids |-> @[id]]]

\* remove_entries: the files first.
RemoveEntries(effect, gone) ==
  IF gone = {} THEN effect
  ELSE Then(effect, RemoveFiles(effect.dir, {e.id : e \in gone}),
            [effect.cat EXCEPT !.entries = @ \ gone])

WriteCatalog(effect) == Then(effect, [effect.dir EXCEPT !.catalog = effect.cat], effect.cat)

\* make: the key, then an empty catalog.
Made ==
  IF Loaded THEN Before(index.loaded)
  ELSE WriteCatalog(Then(Before(NoIndex), [folder EXCEPT !.key = nextKey],
                         [NoIndex EXCEPT !.key = nextKey]))

\* over_limits: those opened longest ago, never `keep`.
OverLimits(cat, keep) ==
  LET older(e) == {x \in cat.entries : x.opened < e.opened /\ x.id \notin keep}
  IN {e \in cat.entries : e.id \notin keep
        /\ Cardinality(cat.entries) - Cardinality(older(e)) > Limit}

KeepWithinLimits(effect, keep) == RemoveEntries(effect, OverLimits(effect.cat, keep))

SameFileAlways(e, version) == TRUE    \* mutant: a file is known by its path alone

\* Entry::same_file
SameFile(e, version) == e.version = version

NewIdInUse(cat) == Cardinality(cat.entries)   \* mutant: as many as there are documents

\* Never used twice, in one index.
NewId(cat) == cat.nextId

\* The second half of consider: the document is in the catalog, opened last.
Put(f, version) ==
  LET fresh == RemoveEntries(Made, {e \in EntriesOf(Made.cat, f) : ~SameFile(e, version)})
      cat   == fresh.cat
      now   == cat.clock + 1
      known == EntriesOf(cat, f)
      new   == [id |-> NewId(cat), file |-> f, version |-> version, opened |-> now, done |-> 0]
      named == IF known # {}
               THEN [cat EXCEPT !.clock = now,
                                !.entries = (@ \ known) \cup {[e EXCEPT !.opened = now] : e \in known}]
               ELSE [cat EXCEPT !.clock = now, !.nextId = @ + 1, !.entries = @ \cup {new}]
  IN WriteCatalog(KeepWithinLimits([fresh EXCEPT !.cat = named], {}))

\* forget, and still_there for a file that changed.
Drop(gone) ==
  IF gone = {} THEN Before(index.loaded)
  ELSE WriteCatalog(RemoveEntries(Before(index.loaded), gone))

\* wipe: the key first.
Wiped == Then(Then(Before(NoIndex), [folder EXCEPT !.key = 0], NoIndex), Nothing, NoIndex)

KeepAnyEntry(entry, gen) ==           \* mutant: the document may have left the index
  index.generation = gen /\ Loaded

\* keep goes on only when the index and the document's entry are still those.
MayKeep(entry, gen) ==
  /\ index.generation = gen /\ Loaded
  /\ \E e \in index.loaded.entries : e.id = entry.id

TextDone(entry, text) ==
  [index.loaded EXCEPT !.entries =
     {IF e.id = entry.id THEN [e EXCEPT !.done = Len(text)] ELSE e : e \in @}]

WithText(dir, entry, key, text) ==
  LET file == [key |-> key, file |-> entry.file, text |-> text]
  IN [dir EXCEPT !.docs = [id \in DOMAIN @ \cup {entry.id} |->
                             IF id = entry.id THEN file ELSE @[id]]]

KeptCatalogFirst(entry, key, text) ==   \* mutant: the catalog, then the text
  LET counted == WriteCatalog(Before(TextDone(entry, text)))
  IN Then(counted, WithText(counted.dir, entry, key, text), counted.cat)

\* keep: the text, then the catalog.
Kept(entry, key, text) ==
  WriteCatalog(KeepWithinLimits(
    Then(Before(index.loaded), WithText(folder, entry, key, text), TextDone(entry, text)),
    {entry.id}))

\* The folder and the memory after what was done under the lock.
Does(effect) ==
  /\ folder' = effect.dir
  /\ index' = [index EXCEPT !.loaded = effect.cat]
  /\ nextKey' = IF effect.cat.key = nextKey THEN nextKey + 1 ELSE nextKey

\* clear, and what lost and a folder that cannot be read come to.
Wipes ==
  /\ folder' = Nothing
  /\ index' = [loaded |-> NoIndex, looked |-> TRUE, generation |-> index.generation + 1]
  /\ queue' = <<>> /\ listed' = {}

\* read: what is in the folder opens with its key.
Readable == folder.catalog.key \in {0, folder.key}

\* The index is read when it is first needed, if only for its status.
Looks ==
  /\ ~index.looked
  /\ IF folder.key = 0 /\ folder = Nothing
     THEN index' = [index EXCEPT !.looked = TRUE] /\ UNCHANGED <<folder, queue, listed>>
     ELSE IF folder.key = 0 \/ ~Readable THEN Wipes
     ELSE LET cat == IF folder.catalog.key = 0 THEN [NoIndex EXCEPT !.key = folder.key]
                     ELSE folder.catalog
              named == {e.id : e \in cat.entries}
          IN /\ index' = [index EXCEPT !.looked = TRUE, !.loaded = cat]
             /\ folder' = RemoveFiles(folder, DOMAIN folder.docs \ named)
             /\ UNCHANGED <<queue, listed>>
  /\ UNCHANGED <<userVars, reconsider, taker, calls, search, nextKey, faults, torn, cutShort>>
-----------------------------------------------------------------------------
(* Commands of the user.                                                   *)

Look(f) == [op |-> "look", file |-> f]
Forget(f) == [op |-> "forget", file |-> f]
Clear == [op |-> "clear"]

\* consider_all, one document after the other, in any order.
LookAtAll == SetToSeqs({Look(f) : f \in {g \in Files : tab[g].open}})

Command(todo) ==
  /\ commands < MaxCommands
  /\ commands' = commands + 1
  /\ calls' = IF todo = <<>> THEN calls ELSE calls \cup {todo}
  /\ UNCHANGED <<stateVars, taker, search, nextKey, faults, torn, cutShort>>

\* `text` is what the document says.
Opened(f) == [open |-> TRUE, doc |-> commands, version |-> Version(f), text |-> Last(texts[f]),
              unsaved |-> FALSE]

Opens(f) ==
  /\ ~tab[f].open /\ Command(<<Look(f)>>)
  /\ tab' = [tab EXCEPT ![f] = Opened(f)]
  /\ UNCHANGED <<texts, enabled, barred>>

Closes(f) ==
  /\ tab[f].open /\ Command(<<>>)
  /\ tab' = [tab EXCEPT ![f] = Closed]
  /\ UNCHANGED <<texts, enabled, barred>>

\* apply_edit, and undo_edit and redo_edit where they leave changes.  Every edit makes
\* another document id, and the index is not told.
Edits(f) ==
  /\ tab[f].open /\ Command(<<>>)
  /\ tab' = [tab EXCEPT ![f].doc = commands, ![f].text = commands + 1,
                         ![f].unsaved = TRUE]
  /\ UNCHANGED <<texts, enabled, barred>>

\* undo_edit and redo_edit back to what is saved: the document has another id still.
Undoes(f) ==
  /\ tab[f].open /\ tab[f].unsaved /\ Command(<<>>)
  /\ tab' = [tab EXCEPT ![f].doc = commands, ![f].text = texts[f][tab[f].version],
                         ![f].unsaved = FALSE]
  /\ UNCHANGED <<texts, enabled, barred>>

\* The document goes into its file, which nobody else changed.
IntoFile(f) ==
  /\ tab[f].open /\ Version(f) = tab[f].version /\ Version(f) < MaxVersions
  /\ texts' = [texts EXCEPT ![f] = Append(@, tab[f].text)]

Saves(f) ==
  /\ IntoFile(f) /\ Command(<<Look(f)>>)
  /\ tab' = [tab EXCEPT ![f].version = @ + 1, ![f].unsaved = FALSE]
  /\ UNCHANGED <<enabled, barred>>

\* set_sensitive: the mark is in the file, which is written for it.
Marks(f) ==
  /\ IntoFile(f) /\ ~tab[f].unsaved /\ Command(<<Look(f)>>)
  /\ tab' = [tab EXCEPT ![f].version = @ + 1, ![f].doc = commands]
  /\ barred' = [barred EXCEPT !["sensitive"] = IF f \in @ THEN @ \ {f} ELSE @ \cup {f}]
  /\ UNCHANGED enabled

\* set_file_recording
Records(f) ==
  /\ tab[f].open
  /\ barred' = [barred EXCEPT !["unrecorded"] = IF f \in @ THEN @ \ {f} ELSE @ \cup {f}]
  /\ Command(IF f \in barred["unrecorded"] THEN <<Look(f)>> ELSE <<Forget(f)>>)
  /\ UNCHANGED <<texts, tab, enabled>>

\* set_settings
Switches ==
  /\ enabled' = ~enabled
  /\ \E todo \in IF enabled THEN {<<Clear>>} ELSE LookAtAll : Command(todo)
  /\ UNCHANGED <<texts, tab, barred>>

\* clear_text_index, clear_recent_files
Clears == Command(<<Clear>>) /\ UNCHANGED <<texts, tab, enabled, barred>>

\* Another program writes the file.
Writes(f) ==
  /\ Version(f) < MaxVersions /\ Command(<<>>)
  /\ texts' = [texts EXCEPT ![f] = Append(@, commands + 1)]
  /\ UNCHANGED <<tab, enabled, barred>>

\* The first half of consider: what is to be done with the tab's document.
Considered(f) ==
  IF ~tab[f].open THEN <<>>
  ELSE IF f \in barred["sensitive"] THEN <<Forget(f)>>
  ELSE IF ~enabled THEN <<>>
  ELSE IF f \in barred["unrecorded"] THEN <<Forget(f)>>
  ELSE IF tab[f].unsaved THEN <<>>
  ELSE <<[op |-> "put", file |-> f, version |-> tab[f].version]>>

Goes(todo) == calls' = (calls \ {todo}) \cup (IF Tail(todo) = <<>> THEN {} ELSE {Tail(todo)})

Allowed(f) == tab[f].open /\ enabled /\ ~Barred(f)
HasEdits(f) == Allowed(f) /\ tab[f].unsaved

Considers(todo) ==
  /\ Head(todo).op = "look"
  /\ LET f == Head(todo).file
         rest == Considered(f) \o Tail(todo)
     IN /\ calls' = (calls \ {todo}) \cup (IF rest = <<>> THEN {} ELSE {rest})
        /\ cutShort' = IF HasEdits(f) THEN cutShort \cup {f} ELSE cutShort
  /\ UNCHANGED <<userVars, stateVars, taker, search, nextKey, faults, torn>>

\* A document waits in the queue once.
Without(q, f) == IF \E i \in DOMAIN q : q[i] = f
                 THEN RemoveAt(q, CHOOSE i \in DOMAIN q : q[i] = f) ELSE q

Puts(todo) ==
  /\ Head(todo).op = "put" /\ index.looked
  /\ Does(Put(Head(todo).file, Head(todo).version))
  /\ queue' = Append(Without(queue, Head(todo).file), Head(todo).file)
  /\ Goes(todo)
  /\ UNCHANGED <<userVars, reconsider, listed, taker, search, faults, torn, cutShort>>

Forgets(todo) ==
  /\ Head(todo).op = "forget" /\ index.looked
  /\ Does(Drop(EntriesOf(index.loaded, Head(todo).file)))
  /\ Goes(todo)
  /\ UNCHANGED <<userVars, queue, reconsider, listed, taker, search, faults, torn, cutShort>>

ClearsAll(todo) ==
  /\ Head(todo).op = "clear" /\ Wipes /\ Goes(todo)
  /\ UNCHANGED <<userVars, reconsider, taker, search, nextKey, faults, torn, cutShort>>
-----------------------------------------------------------------------------
(* The thread that takes the texts.                                        *)

MayTake(f) == Allowed(f) /\ ~tab[f].unsaved

\* next_tab, and the first half of take_text: what the index has of the document.
TakesTab ==
  /\ taker = Idle /\ ~reconsider /\ index.looked /\ queue # <<>>
  /\ queue' = Tail(queue)
  /\ LET f == Head(queue)
         known == IF MayTake(f)
                  THEN {e \in EntriesOf(index.loaded, f) : SameFile(e, tab[f].version)} ELSE {}
     IN /\ taker' = IF \E e \in known : e.done < Pages
                    THEN [at |-> "reading", doc |-> tab[f].doc, entry |-> CHOOSE e \in known : TRUE,
                          key |-> index.loaded.key, gen |-> index.generation, text |-> <<>>,
                          changed |-> FALSE]
                    ELSE Idle
        /\ cutShort' = IF HasEdits(f) THEN cutShort \cup {f} ELSE cutShort \ {f}
  /\ UNCHANGED <<userVars, folder, index, reconsider, listed, calls, search, nextKey, faults, torn>>

\* The open documents, again.
Reconsiders ==
  /\ taker = Idle /\ reconsider
  /\ reconsider' = FALSE
  /\ \E todo \in LookAtAll : calls' = IF todo = <<>> THEN calls ELSE calls \cup {todo}
  /\ UNCHANGED <<userVars, folder, index, queue, listed, taker, search, nextKey, faults, torn, cutShort>>

Has(id) == id \in DOMAIN folder.docs
OpensWith(id, key) == folder.docs[id].key = key

\* read_document: what was taken before; a file that is not there is taken again.
ReadsTaken ==
  /\ taker.at = "reading"
  /\ LET id == taker.entry.id
     IN taker' = IF taker.entry.done = 0 \/ ~Has(id) THEN [taker EXCEPT !.at = "taking"]
                 ELSE IF OpensWith(id, taker.key)
                 THEN [taker EXCEPT !.at = "taking", !.text = folder.docs[id].text]
                 ELSE [taker EXCEPT !.at = "losing"]
  /\ UNCHANGED <<userVars, stateVars, calls, search, nextKey, faults, torn, cutShort>>

\* page_text, and the look at the document that follows it.
StillSame(f) == tab[f].open /\ tab[f].doc = taker.doc /\ MayTake(f)

\* A page, and now and then what was taken is kept; or the end of it, which is also
\* where a page fails (it stays as it is: the document is not put in the queue again).
TakesPage ==
  /\ taker.at = "taking"
  /\ LET f == taker.entry.file
         more == [taker EXCEPT !.text = Append(@, tab[f].text), !.changed = TRUE]
         end == IF taker.changed THEN [taker EXCEPT !.at = "ending"] ELSE Idle
     IN \/ /\ IF Len(taker.text) = Pages THEN taker' = end
              ELSE IF ~enabled THEN taker' = Idle
              ELSE StillSame(f) /\ taker' \in {more, [more EXCEPT !.at = "keeping"]}
           /\ UNCHANGED cutShort
        \/ /\ Len(taker.text) # Pages /\ enabled
           /\ taker' = end /\ cutShort' = cutShort \cup {f}
  /\ UNCHANGED <<userVars, stateVars, calls, search, nextKey, faults, torn>>

\* keep
Keeps ==
  /\ taker.at \in {"keeping", "ending"} /\ index.looked
  /\ IF MayKeep(taker.entry, taker.gen)
     THEN /\ Does(Kept(taker.entry, taker.key, taker.text))
          /\ taker' = IF taker.at = "ending" THEN Idle
                      ELSE [taker EXCEPT !.at = "taking", !.changed = FALSE]
     ELSE taker' = Idle /\ UNCHANGED <<folder, index, nextKey>>
  /\ UNCHANGED <<userVars, queue, reconsider, listed, calls, search, faults, torn, cutShort>>

\* lost: only the index it was found in is deleted.
LosesIt(gen) ==
  IF index.generation = gen
  THEN Wipes /\ reconsider' = TRUE
  ELSE UNCHANGED <<folder, index, queue, reconsider, listed>>

TakerLoses ==
  /\ taker.at = "losing" /\ LosesIt(taker.gen)
  /\ taker' = Idle
  /\ UNCHANGED <<userVars, calls, search, nextKey, faults, torn, cutShort>>
-----------------------------------------------------------------------------
(* A search, and opening what it found.                                    *)

\* Opened last, first: no two were opened at the same time.
ByOpened(entries) ==
  {s \in SetToSeqs(entries) : \A i, j \in DOMAIN s : i < j => s[i].opened >= s[j].opened}

\* The entries that have text; results listed before stand for nothing any more.
SearchStarts ==
  /\ search = Idle /\ index.looked
  /\ commands < MaxCommands /\ commands' = commands + 1
  /\ listed' = {}
  /\ \E entries \in ByOpened({e \in index.loaded.entries : e.done > 0}) :
        search' = IF ~Loaded \/ ~enabled \/ entries = <<>> THEN Idle
                  ELSE [at |-> "looking", entries |-> entries, due |-> 1,
                        read |-> [i \in DOMAIN entries |-> "unread"],
                        key |-> index.loaded.key, gen |-> index.generation]
  /\ UNCHANGED <<texts, tab, enabled, barred, folder, index, queue, reconsider, taker, calls,
                 nextKey, faults, torn, cutShort>>

Tampered == \E i \in DOMAIN search.read : search.read[i] = "tampered"

\* One of the threads that read and search the documents; it may be past the look at
\* whether one did not open.
SearchReads(i) ==
  /\ search.at # "idle"
  /\ i \in DOMAIN search.read /\ search.read[i] = "unread"
  /\ LET id == search.entries[i].id
     IN search' = [search EXCEPT !.read[i] =
                     IF ~Has(id) THEN "none"
                     ELSE IF OpensWith(id, search.key) THEN "hits" ELSE "tampered"]
  /\ UNCHANGED <<userVars, stateVars, taker, calls, nextKey, faults, torn, cutShort>>

Due == search.entries[search.due]
IsDue(what) ==
  /\ search.at = "looking" /\ search.due <= Len(search.entries)
  /\ search.read[search.due] \in what

HasChanged(e) == ~SameFile(e, Version(e.file))

\* What leaves the index with the result that is due.
GoneWithDue == {e \in index.loaded.entries : e.id = Due.id}

\* still_there: a file that changed leaves the index and is not shown.
SearchChecks ==
  /\ IsDue({"hits", "none", "tampered"}) /\ index.looked
  /\ IF search.read[search.due] # "hits"
     THEN search' = [search EXCEPT !.due = @ + 1] /\ UNCHANGED <<folder, index, nextKey>>
     ELSE IF ~HasChanged(Due)
     THEN search' = [search EXCEPT !.at = "listing"] /\ UNCHANGED <<folder, index, nextKey>>
     ELSE search' = [search EXCEPT !.due = @ + 1] /\ Does(Drop(GoneWithDue))
  /\ UNCHANGED <<userVars, queue, reconsider, listed, taker, calls, faults, torn, cutShort>>

\* list: the result stands for the entry by its id.  `of` and `gen` are what the user
\* is shown, and the index it was found in.
Lists ==
  /\ search.at = "listing"
  /\ listed' = listed \cup {[id |-> Due.id, of |-> Due.file, gen |-> search.gen]}
  /\ search' = [search EXCEPT !.at = "looking", !.due = @ + 1]
  /\ UNCHANGED <<userVars, folder, index, queue, reconsider, taker, calls, nextKey, faults, torn, cutShort>>

\* Every document was looked at, or one did not open with the key.
SearchEnds ==
  /\ search.at = "looking"
  /\ \/ search.due > Len(search.entries)
     \/ IsDue({"unread"}) /\ Tampered
  /\ search' = Idle
  /\ IF Tampered THEN LosesIt(search.gen)
     ELSE UNCHANGED <<folder, index, queue, reconsider, listed>>
  /\ UNCHANGED <<userVars, taker, calls, nextKey, faults, torn, cutShort>>

ResultOf(r) == {e \in index.loaded.entries : e.id = r.id}

\* file_of, and the opening of the file in a new tab.
OpensResult(r) ==
  /\ enabled /\ ResultOf(r) # {}
  /\ LET e == CHOOSE x \in ResultOf(r) : TRUE
     IN IF ~HasChanged(e)
        THEN Opens(e.file)
        ELSE /\ Does(Drop({e}))
             /\ UNCHANGED <<userVars, queue, reconsider, listed, taker, calls, search, faults, torn, cutShort>>
-----------------------------------------------------------------------------
(* What goes wrong.                                                        *)

\* A document's file no longer opens with the key.
Damages(id) ==
  /\ faults < MaxFaults /\ faults' = faults + 1
  /\ Has(id) /\ folder.docs[id].key # 0
  /\ folder' = [folder EXCEPT !.docs[id].key = 0]
  /\ UNCHANGED <<userVars, index, queue, reconsider, listed, taker, calls, search, nextKey, torn, cutShort>>

\* A text that does not open was found, and the index is still the one it was found in.
FoundLost ==
  \/ taker.at = "losing" /\ taker.gen = index.generation
  \/ search.at = "looking" /\ Tampered /\ search.gen = index.generation

\* What the steps that may be running do.
Running ==
  {Put(c[1].file, c[1].version) : c \in {d \in calls : Head(d).op = "put"}}
    \cup {Drop(EntriesOf(index.loaded, c[1].file)) : c \in {d \in calls : Head(d).op = "forget"}}
    \cup (IF FoundLost \/ \E c \in calls : Head(c).op = "clear" THEN {Wiped} ELSE {})
    \cup (IF IsDue({"hits"}) /\ HasChanged(Due) THEN {Drop(GoneWithDue)} ELSE {})
    \cup {Drop({e}) : e \in {x \in UNION {ResultOf(r) : r \in listed} : enabled /\ HasChanged(x)}}
    \cup (IF taker.at \in {"keeping", "ending"} /\ MayKeep(taker.entry, taker.gen)
          THEN {Kept(taker.entry, taker.key, taker.text)} ELSE {})

\* A document's file was deleted that the catalog still counts.
LostFile(dir) ==
  \E e \in dir.catalog.entries : e.done > 0 /\ e.id \in DOMAIN folder.docs \ DOMAIN dir.docs

\* The app ends, between two steps or in the middle of one, and is started again: an
\* index that is off is deleted, another one read when it is needed.
Restarts ==
  /\ faults < MaxFaults /\ faults' = faults + 1
  /\ \E dir \in {folder} \cup (IF index.looked THEN UNION {r.passed : r \in Running} ELSE {}) :
       /\ folder' = IF enabled THEN dir ELSE Nothing
       /\ torn' = (torn \/ LostFile(folder'))
  /\ index' = [loaded |-> NoIndex, looked |-> ~enabled, generation |-> 0]
  /\ tab' = [f \in Files |-> Closed]
  /\ queue' = <<>> /\ reconsider' = FALSE /\ listed' = {} /\ cutShort' = {}
  /\ taker' = Idle /\ calls' = {} /\ search' = Idle
  /\ nextKey' = IF folder'.key = nextKey THEN nextKey + 1 ELSE nextKey
  /\ UNCHANGED <<texts, enabled, barred, commands>>
-----------------------------------------------------------------------------
Init ==
  /\ texts = [f \in Files |-> <<0>>]
  /\ tab = [f \in Files |-> Closed]
  /\ enabled = TRUE
  /\ barred = [k \in Kinds |-> {}]
  /\ folder = Nothing
  /\ index = [loaded |-> NoIndex, looked |-> FALSE, generation |-> 0]
  /\ queue = <<>> /\ reconsider = FALSE /\ listed = {}
  /\ taker = Idle /\ calls = {} /\ search = Idle
  /\ nextKey = 1 /\ commands = 0 /\ faults = 0 /\ torn = FALSE /\ cutShort = {}

User ==
  \/ \E f \in Files :
       \/ Opens(f) \/ Closes(f) \/ Edits(f) \/ Undoes(f) \/ Saves(f) \/ Marks(f)
       \/ Records(f) \/ Writes(f)
  \/ Switches \/ Clears \/ SearchStarts \/ \E r \in listed : OpensResult(r)

Commands == \E c \in calls : Considers(c) \/ Puts(c) \/ Forgets(c) \/ ClearsAll(c)
Taker == TakesTab \/ Reconsiders \/ ReadsTaken \/ TakesPage \/ Keeps \/ TakerLoses
Search == (\E i \in 1..Cardinality(Files) : SearchReads(i)) \/ SearchChecks \/ Lists \/ SearchEnds
Faults == Restarts \/ \E id \in DOMAIN folder.docs : Damages(id)

Next == User \/ Looks \/ Commands \/ Taker \/ Search \/ Faults
Spec == Init /\ [][Next]_vars
-----------------------------------------------------------------------------
Quiet == calls = {} /\ taker = Idle /\ queue = <<>> /\ ~reconsider /\ index.looked

\* What opens with the index's key as an entry's text is that entry's file's, every
\* page of the one version; and not less than the entry counts, unless the app once ended
\* between deleting a file and taking it out of the catalog, and again before the catalog
\* counted what was taken anew.
TextIsOfItsFile ==
  \A e \in index.loaded.entries :
    Has(e.id) /\ OpensWith(e.id, index.loaded.key) =>
      LET d == folder.docs[e.id]
      IN d.file = e.file /\ (~torn => Len(d.text) >= e.done) /\ \A i \in DOMAIN d.text : d.text[i] = texts[e.file][e.version]

\* Once the command that barred a file or turned the index off is over, and whatever was
\* under way then, nothing of the text is left that can be read.
ReadableText == {d \in Range(folder.docs) : d.key # 0 /\ d.key = folder.key}
BarredTextIsGone ==
  calls = {} => \A d \in ReadableText : enabled /\ ~(Barred(d.file) /\ tab[d.file].open)

\* With nothing left to do, a document that is open, allowed and in the catalog has its
\* whole text where a search looks for it (the catalog may count less of it), through
\* clearing, losing, restarting and damage; but not what the taker came upon with edits, or
\* ended at an edit or at a page that failed: undone, or gone well the next time, it is in
\* no queue until it is opened, saved or allowed again; and not if the app once ended
\* between deleting a document's file and taking it out of the catalog.
TextIsWhole(excepted) ==
  \A e \in index.loaded.entries :
    MayTake(e.file) /\ SameFile(e, tab[e.file].version) /\ e.file \notin excepted =>
      e.done > 0 /\ Has(e.id) /\ Len(folder.docs[e.id].text) = Pages
NothingLeftOut == Quiet /\ ~torn => TextIsWhole(cutShort)

\* ... and with nothing excepted.
NothingEverLeftOut == Quiet => TextIsWhole({})

\* A result of a search leads to the document it was shown for, unless the index was
\* deleted since it was found: the ids of the new one start over.
LeadsHome(r) == \A e \in ResultOf(r) : e.file = r.of
ResultsLeadHome == \A r \in listed : r.gen = index.generation => LeadsHome(r)

\* ... and with nothing excepted.
ResultsAlwaysLeadHome == \A r \in listed : LeadsHome(r)

\* Off, nothing of it stays.
OffLeavesNothing == calls = {} /\ ~enabled => folder = Nothing
=============================================================================
