# Verification of the PDF reader

TLA+ modules, TLC runs and TLAPS proofs for the PDF reader of this repository: a
desktop program whose main process (Rust, Tauri) keeps the documents, and whose
worker processes (PDFium behind a pipe) parse and change them. Everything here is
about the main process and what it has to get right when workers die, when two
tabs have one file, when another program writes it, and when the program itself
ends between two steps.

Paths below are relative to the repository. `documents.rs`, `saving.rs` and the
like are in `src-tauri/src/`.

- [The system](#the-system): its parts, their state, how they interact
- [The modules](#the-modules): what is modelled and how it corresponds to the code
- [The runs](#the-runs): what is checked, in which bounds, and what it shows
- [The proofs](#the-proofs): what is proved, and why it holds
- [Where the code and its documents differ](#where-the-code-and-its-documents-differ)
- [What is left out](#what-is-left-out)
- [The plan](#the-plan)

## The system

### Parts

| Part | State it keeps | Operations | What makes it correct |
| --- | --- | --- | --- |
| Documents (`documents.rs`) | tabs in order, the active tab; per tab its path, what it shows, its document behind a lock of its own: identity of the file, history, journal, offered recovery, whether its worker was lost | open, retry, unlock, close, edit, undo, redo, recover, discard, save, save as, mark as sensitive, every request that reads | the page shows the file with the edits made; a save writes exactly that over exactly the version it was opened from; a worker that dies is not noticed |
| Edit history (`history.rs`) | edits, how many of them are applied | push, undo, redo, saved | at most `MAX_UNDO_EDITS`; what was undone is forgotten at the next edit |
| Recovery journals (`recovery.rs`, `local_data.rs`) | a folder of files, which outlives the program; `in_use`, which does not | check, write, remove, release, take, clear_unused | the unsaved edits of every document are on the disk; no journal has two owners; none is lost unanswered, none is left behind when answered |
| Saving (`saving.rs`) | temporary files, backups, the file itself | Temporary, completeness check, ReplaceFileW and its putting back, place_new | nothing cut short gets a file's name; another program's version is not overwritten; whatever fails, the file is as it was |
| Worker (`crates/pdf_worker/src/serve.rs`) | open documents, the bytes to undo from, queue of commands, cancellations | open, edit, reset, save, rebase, read requests | its copy is the bytes it keeps with the edits of the history; a cancelled request answers once |
| Worker host (`crates/worker_host/src/lib.rs`) | the process, a table of requests, a reader thread | start, request, deadline, kill | every request is answered once or fails once; a dead worker is not asked again |
| Closing and background (`commands.rs`, `background.rs`, `batch.rs`) | mode of the window (open, hidden, closing), running batches | close, hide, discard unsaved, run a batch, cancel it | no unsaved edit is dropped unasked; the program ends when nothing keeps it |
| Text recognition (`ocr.rs`, `ocr_worker.rs`) | session: pages to do, in what order, generation, worker | set pages, prioritise, cancel, answer, retry | a page is recognised once for one content; late results are not kept |
| Text index (`text_index.rs`) | entries of files, generation, what is being read | consider, take, keep, wipe, search | what was wiped does not come back; the index is of the file's present version |
| Rendering, search, comparison (`render.rs`, `search.rs`, `compare/`) | one place per document, a queue, a cache | ask, replace, cancel, answer | nothing is shown of another content than the one asked for; nobody waits for ever |
| Lists (`recent.rs`, `sensitive.rs`, `credentials.rs`, `settings.rs`) | files in the program's data folder | read, change, write | two changes at once lose none; a sensitive file is in none of them |
| Page (`src/`, React) | tab store, requests under way | events and answers, in the order they come | applies them so that the store ends as the main process is |
| Engine, sandbox, IPC types | documents as PDFium has them; the process's rights; none | | outside these modules, see below |

### How they interact

The page calls commands; each command that changes a document takes that
document's lock, asks its worker over a pipe and holds the lock until it has the
answer and has written what follows from it. Registry, `in_use`, the recent
files and the window's mode have locks of their own that are held for a few
lines. So the interleavings are not inside one document but between

- a document and its worker: any request can end in an answer, in an error, in a
  timeout or in the worker's death, and an edit can fail when half of it is done;
- two documents: they share the recovery folder, `in_use`, and, with one file in
  two tabs, the file;
- a document and the registry: a tab can be closed while its file opens;
- the program and others: they write a file between any two looks at it;
- this run and the next: only the disk is left when the program ends, in between
  any two of its writes.

### What is hard to test

`PROJECT.json` lists the hazards, each at its line, with the properties that
cover it or a note on why none does. The ones that shaped the modules below:

- **A worker lost between two edits** is started again and reads the file, which
  may be another by now, then replays the history. Undo, save and the mark all
  start from such a copy.
- **A password that is not kept** means a lost worker takes the document with it,
  in the middle of whatever the command was doing, after the file was replaced
  as well as before.
- **Journals are owned twice over**: by name in `in_use`, and by the fields
  `journal`, `recovered` and `released` of documents and tabs, and they move
  between them in eight operations, two of which are not under any lock.
- **A save looks at the file, has a worker write another and renames it**, with
  nothing held in between; and the rename is two renames that can fail in
  between and be put back, or fail at that too.
- **A crash after a save** leaves a journal of edits the file already has.
- **A worker may hang, die or answer what it was not asked**, in the middle of
  opening a document again; ids of requests start over.
- **A tab's event is written after its document's lock was given back**, and the
  page hears of it later still: a command of the page can be about a document
  that is another by now, and closing asks about what the page knew.
- **The window is hidden while a batch runs**, and what the user chose when they
  closed it is carried out later, unless they brought it back meanwhile.
- **Recognised text comes back for a document that was edited, turned, undone or
  opened again** since the page was queued, from a queue nobody may collect from.
- **The text index is read page by page beside everything the user does**, and what
  the user takes out of it must not come back by a step that was under way; its
  folder is several files, and the app may end between any two writes.

## The modules

```
Editor ......... abstract: an editor of files, nothing that can fail
  ^ implements (Editing!KeepsPromise)
Editing ........ one document: history, worker, file, journal, crash
  ^ Editing_proofs, MCEditing

Journals ....... all tabs' journals: the folder and in_use
  ^ Journals_proofs, MCJournals

FileStore ...... abstract: versions of files, none cut short, none lost
  ^ implements (Saving!KeepsVersions)
Saving ......... all tabs' saves, one file operation at a time
  ^ Saving_proofs, MCSaving

Requests ....... one document's requests: host, pipes, worker
  ^ Requests_proofs, MCRequests

Tabs ........... one tab: document, event, page, journal
  ^ extends
Closing ........ the window, its main thread and batches, around the tab
  ^ Closing_proofs, MCClosing

OcrReader ...... a worker's recognising: pages known, queue, thread
  ^ extends
Ocr ............ the tab's session that asks it, and the document it is about
  ^ Ocr_proofs, MCOcr

TextIndex ...... the index, who puts into it, takes out of it and searches it
  ^ TextIndex_proofs, MCTextIndex

Rendering ...... the render thread: its queue and cache, and a search behind it
  ^ Rendering_proofs, MCRendering
```

They overlap on purpose. `Editing` has the whole content of one document and one
save as one step; `Journals` has many tabs, and of the edits only who made them;
`Saving` has many tabs and of the content only its version; `Requests` takes one
command of `Editing` apart into what goes over the pipe; `Tabs` takes it apart
into what happens before and after the document's lock. What one takes as a step
another takes apart.

### Editing

One document from opening to closing and over restarts. Each action is one
command with every way it can end.

| Action | Code |
| --- | --- |
| `StartLoad`, `LoadFails`, `LoadPlain`, `LoadReplays`, `LoadReplayFails` | `load_with`, `recover_on_open`: the identity is taken in the first step, the file is read in the second |
| `ApplyEdit`, `Undo`, `Redo`, `Recover`, `DiscardRecovered` | the commands of these names, each with `keep_journal` |
| `Partway` | an edit, redo or replay that fails when part of it is done |
| `ReadReopens`, `WorkerFails` | any request that reads: `live_worker`/`reopen`; a crash, timeout or protocol violation |
| `Save`, `SaveThenCrash` | `save`, `rebase`, and the program ending before the journal is removed |
| `SetSensitive` | `set_sensitive`, to mark or to unmark (the same change of content here) |
| `Close`, `AppCrash`, `External` | the tab closed, the program ended, another program writes a file |

State: `history`, `pages`, `lost`, `journal`, `recovered`, `recovery` are the
fields of `OpenDocument` (and of its `info`); `path`, `released` those of `Tab`;
`memory` and `original` are `documents` and `originals` of `serve.rs`. A save that loses a
document with its password leaves `path` as it was (`SaveLost`): after a save to another
file the tab asks for the password of the old one, as `change_document` returns before it
writes the new path (`documents.rs:2694`). `shown` is
no variable of the code: it is the content for which the page was given the
present document id, and the properties compare it with what is saved. A content
is what some program wrote with the sequence of changes made to it. A file keeps
all its versions, and the identity (size and time of change in the code) is the
number of one, so that going back to an old size and time cannot happen.

Passwords and failing disks are constants (`Protected`, `DiskFails`), because
they change which ways an operation can end.

`Editor` is what a user may rely on: files, and a view of one with the edits made
and undone. The mapping shows the last version of each file, the history split
at `applied`, and whether the file is still the one that was opened.

### Journals

All tabs of a run, the recovery folder and `in_use`. What an open document does
is one step (its lock is held); opening is as many steps as the code makes
without a lock: the tab's own journal, the listing, reading each journal (`take`
looks at `in_use`, reads the file) and entering it in `in_use`. Clearing copies
`in_use`, then deletes name after name. Tabs are closed during any of these, and
the opening goes on (`...Abandoned`). The edits of a document are a sequence of
the tabs that made them, so that a property can tell whose they are. Whether an
offer can be taken (`usable`) is left open: `Editing` has what decides it. `mine` and
`exposed` are history variables for the properties only. `exposed` has the names that
more than one actor has at once, and there are three ways to get there: closing a tab
whose lost document left a journal another tab has taken since (`TakenFrom`,
`documents.rs:504`), entering a journal that changed or went after it was read
(`Overtaken`, `recovery.rs:231`), and entering one that is already on the list of a
clearing (`Overtaken`, `recovery.rs:262`).

### Saving

All tabs and the files they share: `disk` has the version under each name, `temp`
a save's temporary file, `aside` its backup and `strays` the backups nobody deletes
any more. `pc` takes each save through the steps the code makes: the look at the
identity (`Begin`), a live worker (`Reopen`, `AskWorker`), its writing, which may be
wrong or not all although it says it is done (`WorkerWrites`), or its refusal, timeout or death, the
completeness check, the two renames of `ReplaceFileW` (`MoveAside`, `MoveIn`), each of
which can fail, the putting back (`PutBack`, `PutBackFails`), the deletion of the backup, the
new identity (`Identify`) and `rebase`. Other programs write or delete the file and
the program ends between any two of them. A version is numbered by a stamp when
it is put under a name, and has one of three forms. The check of the code looks at the
length the worker told, the head and the end of the file (`saving.rs:156`): what lacks one of these is
`cut`, what has them and is wrong inside is `torn`, and both `torn` and `whole` pass
(`Complete`). `newest`, `writer`, `raced`, `restored` and `others` are history variables.

`FileStore` says only: nothing cut short gets the name, and a version is removed
only when a newer one has the name.

### Requests

One document, the `WorkerHost` of its tab, the two pipes and the worker's loop.

| Action | Code |
| --- | --- |
| `Edit`, `Undo`, `Query`, `Save` | the tab's operations: `live_worker` (with `reopen`, the file and every unsaved edit again, if the document was lost), then the operation's own requests |
| `Starts` | `ensure_running`, `start` |
| `Sends`, `Writes` | `request_within` and the first half of `exchange`; a request larger than the pipe is written as the worker reads it |
| `Accepts`, `Rejects` | the checks of `exchange` on the answer: id, then `is_expected_response` |
| `TimesOut`, `FindsCrash` | the deadline, and the closed pipe or channel; the connection is dropped, which kills the worker |
| `Serves` | one turn of the loop of `serve`: the request is carried out whole and answered |
| `Dies`, `Hangs`, `Repeats`, `Misspeaks` | what a worker that is not to be trusted may do |

`tab` is `OpenDocument`, `host` the `WorkerHost`. An edit is a name, so that two
edits made twice or in another order can be told apart. The `serial` of a request
is not in the code: it says which request an answer really was to, which the id
cannot once it has started over. `TimesOut` is possible as soon as nothing has been
answered: a deadline is longer than a request takes or it is not, and both happen.

### Tabs and Closing

`Tabs` is one tab of the registry between three views of its document: the
document behind its lock, `Tab::event` and the page. Every command is as many
steps as the code takes locks: it finds the tab by the document's id in the event
(`Call`), works under the document's lock (`Works`), records the new event
(`Records`) and answers the page (`Sends`); `Loses` is a document that went with its
password, `Unlocks` and `Loads` its return, `ClosesTab` and `Forgets` the two halves of
`close`. `asked`, `lost`, `racing` and `overlapped` are history variables. `ClosesTab` has the page's
look, the user's answer and the removal in one step: a change that becomes visible while
the question is open is not a case of its own, and changes are under way at this step
all the same.

`Closing` has the window around it: `UserCloses` is `on_window_event`, `PageSettles`,
`PageDiscards`, `PageSaves`, `PageSaved` and `PageCancels` what `App.tsx` and its dialog
answer, `ClosesWindow` and `Leaves` the two halves of `close_window` with the main thread in
between, `TimerEnds` the thread of `close_if_unanswered`. The main thread takes what it is
sent in order: `Hides`, `Shows`, `EndedOnMain`, `ClosesOnMain`. `Starts`, `Ends`, `Tells` are a
batch, which is taken off `Batches` before the main thread hears that it ended.

### OcrReader and Ocr

`OcrReader` is what the worker knows of a document's pages (`OcrPages`) and its
reading thread, as functions from a worker to a worker; each request about
recognising is one of them. `Ocr` is the session of a tab. One tick of the
scheduler (`StopStep`, `WorkStep`) is one step, as in the code, where the session and
the document are locked for it; it is composed of `Takes`, `Collect`, `Ask`,
`EnsureLanguage` and `Ended`, which follow the functions of those names. `Turn`, `Delete` and
`Undo` change the document and tell the worker; `FindsLost` and `OpensAgain` give it a
new one; `Takes1` and `Reads1` are the thread, `Hangs` and `Dies` its end; `Start`, `Stop` and
`SetFocus` the page's commands. A text stands for the picture it was read from: the way
round the page was then.

### TextIndex

The index's folder (`folder`: key, catalog, a file for each document), what was
loaded of it (`index`), the queue, and three kinds of actors: commands of the user,
which first change what is allowed and then bring the index up to date (`Considers`,
`Puts`, `Forgets`, `ClearsAll`); the thread that takes texts (`TakesTab`, `ReadsTaken`,
`TakesPage`, `Keeps`, `TakerLoses`, `Reconsiders`); and a search with its readers
(`SearchStarts`, `SearchReads`, `SearchChecks`, `Lists`, `SearchEnds`, `OpensResult`). What is
done under the index's lock is one step, and is written as changes of the folder, one
`Then` the other (`Effect`: the folder and catalog they end in, and every folder passed on
the way), so that `Restarts` can end the app after any of them.
A text is named by the command that made it; a file is the sequence of the texts
it has had, and its version (size and time) is how many. `torn` and `cutShort` are history
variables.

Of a document's edits the index hears only when they are saved: `Edits` and `Undoes` (undo and redo,
back to what is saved or not) give it another id and tell nobody. So a document that has
edits when `consider` or the taker comes to it is passed over, and a taking that meets
another id, or a page that fails (`page_text`, a worker that died or took too long), ends
and keeps what it has (`TakesPage`). None of these puts the document into the queue again.
`cutShort` has the files this happened to since their taking was last begun: undone, or with
a page that would go well the next time, they stay as they are until their document is
opened, saved or allowed again, as the header of `text_index.rs` (21-23),
`docs/architecture/text-index.md:42` and a test (`text_index.rs:1539`) say.

`Running` is what steps under way may be in the middle of when the app ends: a `put`, a
`forget`, a clearing, the deletion of a lost index by the taker or at the end of a search
(`FoundLost`), the dropping of a changed file by a search or by opening a result, and a `keep`.

### Rendering

The render thread, which draws a page when one waits and does background work when
none does; a search in a document is the background work here.

| Action | Code |
| --- | --- |
| `Asks`, `Cancels` | `Renderer::render` (a whole page may be in the cache) and `cancel` |
| `Pops`, `LooksUp`, `Renders`, `Keeps` | one turn of `serve`: the next request, the cache once more, `Documents::render`, and what is put into the cache and answered |
| `Lists`, `Retains` | `after_tabs_changed`: the list of open documents, then `retain_documents` with that list |
| `Searching`, `Begins`, `Walks`, `SearchesPage`, `Tallies`, `CancelsSearch` | `run` and `walk` of `search.rs`: each page is put behind all renders, and a search is stopped between pages |
| `Edits`, `Records`, `Sends`, `Opens`, `Closes` | a tab's commands, in the steps of `Tabs` |

`made` has the content each document id was given for and is not in the code. An entry
of the cache has the clock of its last use in `used`, as `RasterCache` does, and
`Inserts` lets the oldest go. A search's `page` is how many pages were handed to the
render thread, so that a document without pages ends its search at once, as the loop of
`walk` does. `open_documents` reads the tabs under one lock after
another and is one step here.

## The runs

| Run | Instance | Distinct states |
| --- | --- | --- |
| `editing` | one file, contents of one and of two pages, an edit and one that takes a page in (not journalled); `MaxUndo` 3, two pages at most, room for two edits in a journal, three versions | 616,059 |
| `editing_protected` | two files, one content of two pages, an edit that takes a page out, `MaxUndo` 1, a password, a disk that may fail | 237,400 |
| `journals` | two tabs, two files, two journals, two edits each | 273,156 |
| `journals_clear` | two tabs, one file, two journals, one edit each, passwords, clearing | 736,265 |
| `saving` | two tabs on one file, three stamps, one change by others, fairness | 874,926 |
| `requests` | five operations, three faults, ids that start over after three, edits and undos larger than the pipe, fairness | 2,162,125 |
| `closing` | two threads, two changes of which one is a typed value, one batch, the window closed once, a document opened up to three times | 3,494,890 |
| `ocr` | a scanned page and one with text, room for two pages, three layouts of the document, two workers, two quiet polls, fairness | 494,588 |
| `index` | three files of two pages, an index of two documents, two versions, four commands, one fault | 4,070,014 |
| `rendering` | one tab, two threads, one search, two contents, two pages of sizes 1 and 2 in a cache of 2, room for one page's text, two document ids, two things asked for, fairness | 699,226 |

**Why these bounds.** Editing: three edits reach the undo limit with more than one
undone; the one that is not journalled gives the partial and the lost-only
journals; two edits fill a journal, so the third is refused when it would be kept
in it and made when it would not. Two pages reach both ends of the page limit, the
upper in `editing` and the lower in `editing_protected`. Three versions are the one
opened, one written by another program or by a crash that came after a save, and
one more save. Two tabs are enough for every pairwise race, and the proofs lift the
main properties to any number. `MaxOthers` and `MaxStamp` bound only what other
programs do and how often is saved. `journals_clear` was also run with two edits
of a document, where a journal can change between two readings of it (7,375,746 states, no
error).

Requests: five operations are an opening, two edits and two more after a loss, so
that a document with several edits is opened again and can be lost once more while
it is, and again after that (three faults); with three ids, an opening again of two edits goes once
round. Closing: two threads are every pair of a command and a closing, and `MaxDocs`
3 lets the tab be lost and unlocked once and edited after it. Two batches, two
closings and one change without unlocking (`MaxDocs` 1) have 3,016,445 states and no
error either; both together are past what a run should take.
Ocr: with room for two pages, a second job of one page (from another layout) fills
the queue; three layouts are an edit and its undo; two workers are one loss. Two
quiet polls instead of three (`QuietPolls`) only shorten what is waited for. Index:
three files are one more than it may have; four commands open a file, change what is
allowed, change it back and search; one fault ends the app once, or damages a file. Rendering: two threads are what a
list of open documents that is old when it is used needs; two things asked for
are the same page twice (found in the cache), two that do not fit together (the
older goes), a page beside a search, or a search before and after an edit. Three
document ids with one thread (520,518 states) and three things asked for with one
thread (695,526) were also run, without an error.

Deadlock is checked in the runs of Editing, Journals and Saving: also with all
versions and names used up, a tab can still be closed and opened again. The others
end where the system does: the window is gone (`closing`), or nobody asks for
anything any more (`requests`, `ocr`, `index`, `rendering`), so there it is not.

**What they show.**

`editing`: the worker's copy is always its original with the history, page for
page (`WorkerAgrees`); the document stands for a version its file had, and while no
other program writes the file, worker and page are that version with the unsaved
edits (`StandsOnFile`), whatever died or was reopened; saving writes exactly that over
exactly that version (`SaveWritesWhatIsShown`); the journal is the unsaved edits
(`JournalInStep`), is one `read` accepts (`JournalsReadable`), is gone when there is nothing to
keep (`NoJournalLeftBehind`) and is taken over on its own version only
(`TakenOverOnItsVersion`): a crash right after a save does not make the edits twice. An
offer starts from the file it was made on (`OfferIsForThisFile`). All of it together
implements `Editor` (`KeepsPromise`).

`editing_protected`: with a password, a worker's loss forgets the document; the next
unlocking makes the edits of its journal again, or offers them, and never those of
another journal (`UnlockBringsBackEdits`).

`journals`: two tabs never have one journal (`OneTab`), the unsaved edits of every open
document are on the disk (`EditsAreOnDisk`), and what was answered is gone
(`NothingLeftBehind`).
`journals_clear`: with passwords and clearing the others do not hold, see below. What does
(`OnlyByItsTab`): what a journal holds changes only with the document of the tab that has it,
when that tab is the only one, and is then exactly that document's unsaved edits; it goes
with that tab's save, undo, closing or answer to its offer; or it is cleared while no
tab has it. So no opening, lost worker, crash, other tab or clearing takes the edits of a
tab's document away. Two things are not in it. A journal that becomes `exposed` is excepted from then
on: with any of the three causes above left out TLC refutes the property (for the second of
them it takes two edits), and these are losses of edits the code really has. And a journal `lose` left behind is no tab's: clearing the
recent files before the password comes deletes it.

`saving`: what a document takes for its file is what its worker has
(`IdentityIsOfBase`), a tab whose file still has the version it wrote knows it for its own, so
that its next save is not refused as another program's change (`OwnVersionIsKnown`), a save in
place replaces the version it was made from unless the file changed after the
save looked (`ReplacesItsBase`), nothing cut short gets a name and no version goes before a newer one has it
(`KeepsVersions`), and every save ends (`SavesEnd`) but one that waits for its file to be
opened again. What `KeepsVersions` says of a new file is what the code's check can tell: a file torn inside, with the
right length, head and end, gets the name.

`requests`: an answer a caller is given is the one to what it asked, although ids
start over and a worker may answer twice (`AnswerIsItsOwn`); a tab that takes its
document for usable has a worker with exactly its edits, and the right bytes to
undo from, however the last operation ended (`CallerKnowsWorker`); nothing a caller
gave up waits to be carried out (`GivenUpIsStopped`); and every request ends
(`RequestsEnd`), except that one larger than the pipe can be stuck in the writing to a
worker that hangs: `exchange` looks at its deadline only afterwards.

`closing`: when no command runs, the event and the page say of the document what is
so (`EventFollowsDocument`), else its changes would be closed without a question: only
a command that leaves the document's id as it is, a save, can be overtaken by
another and record its older state over the newer one. What closing deletes unasked
was under way when it was looked for (`LostOnlyWhenRacing`). A hidden window has its icon
or the message that ends the app (`NeverOutOfReach`), and is hidden no longer than
batches run (`HiddenForBatch`), also when one ends while the window is being hidden.

`ocr`: a page the worker says is waiting is in its thread's hands (`WaitingIsInHand`),
text is that of the page as it is turned now (`TextIsOfThisPage`), a session that is
done has left no scanned page unread (`DoneMeansRead`), and reading comes to an end
(`ReadingEnds`) whatever hangs, dies or is edited, but for the case of `ReadsAgain` below.

`index`: the text of an entry is its file's, all of one version (`TextIsOfItsFile`); once
the command that barred a file or turned the index off is over, nothing of its text
can be read, whatever was under way then (`BarredTextIsGone`); what is open, allowed and
in the catalog is taken whole, through clearing, damage and restarts
(`NothingLeftOut`), unless an edit or a page that failed cut the taking short, or the app ended
between deleting a file and the catalog; and a
result leads to the document it was shown for (`ResultsLeadHome`), unless the index was
deleted since.

`rendering`: a picture, from the cache or from the worker, is of the version whose id it
was asked for (`PictureIsOfItsVersion`); a search that ends unbroken has the hits of one
version, though others edit and the worker keeps texts (`SearchIsOfOneVersion`); and
every page asked for is answered and every search ends (`RequestsAnswered`): no
wake-up is lost, what leaves the queue undrawn is told so, and neither kind of work
starves the other.

**Fairness.** `saving` has weak fairness of `Proceed(t)`, what the main process does next
in a save it has begun: that is a thread that runs, and each of these waits has an
end: the worker's answer is *not* fair, its deadline (`SAVE_TIMEOUT`, after which the
worker is killed) is. The requests of a save itself (write to this handle, open this file) are
smaller than the pipe, so writing them does not wait. Opening the file again before the
save (`Reopen`, `NoWorker`) is not among the fair steps: it makes the edits again, by
requests that may be larger than the pipe, and their writing has no deadline
(`worker_host/src/lib.rs:716`, `DeadlinesHold` below). `SavesEnd` excepts a save as long as it waits for that
(`Reopening`). `requests` has the same of `Host`, and nothing of the worker. `ocr`
has it of the scheduler's ticks, with the documents before this one coming to
their end (`WorkStep(TRUE)`); of the reading thread while its process lives; and of
`Overdue`, which is time passing while a page hangs. Its `ReadingEnds` is about a user
who stops giving commands (`UserRests`): one who restarts the reading for ever has it
never end. `rendering` has it of the render thread and of each search's own steps, and nothing of
the page or of commands. The other modules are driven by the user, who owes nothing, and state
safety only.

Every property of these runs was also broken on purpose: the operators marked
`mutant` in the modules change one definition the way a likely bug would (a check
dropped, a reset forgotten, a wrong order), and `PROJECT.json` says which property
finds it.

## The proofs

For every value of the constants that meets the module's `ASSUME`, so for any
number of tabs, files, journals, edits and versions, of threads, batches, searches and
pages, of texts, entries and faults of the index, and of request ids from two up. The
assumptions are the code's: sets of pages and files are finite, limits (`QueueRoom`, `Limit`,
`Pages` of an indexed file) are at least one, sizes and numbers of hits are numbers.

| Theorem | Says |
| --- | --- |
| `Editing_proofs!TypeCorrect` | types, and that a tab without a document has no history or journal |
| `Editing_proofs!WorkStandsOnItsFile` | `StandsOnFile`, and with it `UnsavedIsFileWithEdits` |
| `Editing_proofs!SavesWhatIsShown` | `SaveWritesWhatIsShown` |
| `Editing_proofs!WorkersAgree` | `WorkerAgrees` |
| `Editing_proofs!JournalsAreReadable` | `JournalsReadable` |
| `Editing_proofs!JournalFollowsHistory` | `JournalInStep` while the folder can be written (`~DiskFails`) |
| `Editing_proofs!LeavesNoJournal` | `NoJournalLeftBehind` while the folder can be written |
| `Editing_proofs!TakesOverOnItsVersion` | `TakenOverOnItsVersion` |
| `Editing_proofs!OffersAreForThisFile` | `OfferIsForThisFile` |
| `Editing_proofs!UnlockGivesEditsBack` | `UnlockBringsBackEdits` |
| `Editing_proofs!KeepsItsPromise` | `Editing` implements `Editor` |
| `Journals_proofs!TypeCorrect` | types; names in `in_use` and in the folder were given |
| `Journals_proofs!OneTabForEachJournal` | `OneTab` when no document is lost with its password |
| `Journals_proofs!JournalsChangeByTheirTab` | `OnlyByItsTab`, with lost passwords and clearing too |
| `Journals_proofs!DiskFollowsDocuments` | `EditsAreOnDisk` without lost passwords and clearing |
| `Journals_proofs!ClosedTabsLeaveNothing` | `NothingLeftBehind` without lost passwords and clearing |
| `Saving_proofs!TypeCorrect` | types |
| `Saving_proofs!OwnVersionsAreKnown` | `OwnVersionIsKnown` |
| `Saving_proofs!IdentityStandsForBase` | `IdentityIsOfBase` |
| `Saving_proofs!SavesReplaceTheirBase` | `ReplacesItsBase` |
| `Saving_proofs!SavingKeepsVersions` | `Saving` implements `FileStore` |
| `Requests_proofs!TypeCorrect` | types |
| `Requests_proofs!AnswersAreTheirOwn` | `AnswerIsItsOwn` |
| `Requests_proofs!GivenUpStops` | `GivenUpIsStopped` |
| `Requests_proofs!CallersKnowTheirWorker` | `CallerKnowsWorker` |
| `Rendering_proofs!PicturesAreOfTheirVersion` | `PictureIsOfItsVersion` |
| `Rendering_proofs!SearchesAreOfOneVersion` | `SearchIsOfOneVersion` |
| `Ocr_proofs!WaitingStaysInHand` | `WaitingIsInHand` |
| `Ocr_proofs!TextStaysOfThisPage` | `TextIsOfThisPage` |
| `Ocr_proofs!DoneStaysRead` | `DoneMeansRead` |
| `TextIndex_proofs!TextStaysOfItsFile` | `TextIsOfItsFile` |
| `TextIndex_proofs!BarredTextLeaves` | `BarredTextIsGone` |
| `TextIndex_proofs!NothingIsLeftOut` | `NothingLeftOut` |
| `TextIndex_proofs!ResultsLeadToTheirDocument` | `ResultsLeadHome` |
| `Closing_proofs!AlwaysInReach` | `NeverOutOfReach` |
| `Closing_proofs!HiddenOnlyForBatches` | `HiddenForBatch` |
| `Closing_proofs!OnlyRacingIsLost` | `LostOnlyWhenRacing` |
| `Closing_proofs!EventsFollow` | `EventFollowsDocument` |

**Editing.** What the page shows is no invariant by itself: undo goes back to the
worker's original, so the proof has to know where that came from. `StandsOnFile` adds
it: a worker that is used has its original with the edits applied, and, while
the identity is the file's last version, that original *is* that version. Every
action that sets `original` takes it from the file or from what was just written
to it. With it, a save in place (`OwnFileFree` requires the identity to be the last
version) writes `Apply(Now, Applied(history))`, which is `shown`.

The journal's properties rest on a second invariant, `JournalInv`: every file of the folder is one
`read` accepts (`AllGood`: readable, no more edits than fit, which a history meets because
`record` keeps it within `MaxUndo` and the size, `CanBeKept`), an offer is not the document's own
journal and, while it may be taken, for the document's version (`OfferHolds`), and while the disk
works the journal is the history
(`JournalInStep`). What an action may do to history and journal is collected in one lemma
(`JournalStep`), so the theorems that are action properties need no second pass over the actions.
`WorkerAgrees` needs, beside `StandsOnFile`, that the pages the tab remembers are those of its
memory (`PagesHold`).

`KeepsItsPromise` shows the refinement: opening, editing, undoing, saving, closing and crashing are
the editor's steps of those names; a worker that dies, a journal written and a reopening
that finds the same file are none. The quiet steps that only forget the last answer are the editor's
`Recover` and `Foreign` with nothing to recover and nothing changed, which needs that a save is
told only while nothing is unsaved and an error only without a document (`Answered`).

**Journals.** `OneTab` needs that whatever a tab uses is in `in_use` (`UsedIsInUse`), so that
the second half of `take` cannot enter it again; that a name given by `create` is new;
and that `released` is empty. The last holds only when nothing is lost with its
password: the run `journals_two_tabs` shows that the assumption is needed. `OnlyByItsTab` asks
for no assumption: its invariant `TabInv` says of every journal that is not `exposed` that at
most one tab has it (`Sole`), that it is in `in_use` (`Held`) and not on the list of a clearing
(`Spared`), and that an offer's file is as it was read (`OfferIsThere`). A step that changes a
journal is then its tab's or the clearing's (`StepAnswers`). `DiskInv` adds to `OneTab` that a
tab with unsaved edits has its own journal with just these (`OnItsDisk`), that journals are never
empty (`SomeEdits`) and that what documents of this run left in the folder they still own
(`OwnedOrGone`); it needs that nobody clears the folder, because with clearing `EditsAreOnDisk`
is not so (below).

**Saving.** The inductive invariant has six parts, checked with TLC before they were
proved: `Typed` (with the shape of each save's state and that stamps given out
are below the next one), `Checked` (a temporary file on its way to a name passed the
check), `InOrder` (stamps are in order, and a backup whose place was taken is older than
what took it), `Stands` (a worker that
holds a version, and its tab's identity, agree), `Known` (`OwnVersionIsKnown` at every step
but those between the replacement and the new identity) and `Found` (what a save looked at is
what its worker has). `FileStore` follows from `Checked` and `InOrder`: a rename onto the name is a
`Put`, the deletion of a backup is a `Remove`.

**Requests.** The serial of an answer is not looked at by the code, so the proof has to
follow the ids: every frame the host may still read is of the current request or has
another id; what a worker repeats belongs to the request before, whose id is the one
before; the first frame that is not accepted ends the worker, and with it what else is
in the pipe; and the pipe holds at most the one request waited for. So two ids are
enough (`MaxId >= 2` is the only assumption).

`CallerKnowsWorker` is about the moments between operations and needs to know what is so within
one (`KInv`): the requests still to be sent tell how many edits the worker's document has
(`Plan(k)`: it is opened, `k` of the edits are made again, or the operation's own request is
next), and an answer, from when it is given until it is accepted, tells what carrying out its
request made of the document (`LeftBy`). A refusal changes nothing; whatever may have changed
something without saying so (an edit that failed partway, a rebase) makes the tab take its
document for lost (`LosesIt`): with either half of that taken out of the module, the proof fails at
`RefusedKnows`.

**Rendering.** Ids are given once and `made` only grows. A tab's document, an entry of the
cache and the picture in the render thread's hands each stand for `made` of their id;
a command that changes the content takes a new id in the same step. What documents are
open plays no part: the list a command made may be as old as it likes.

A search adds what it has counted: `UpTo(c)`, the hits on the first pages of content `c`,
at the page it is at, or the limit if that is less (`CountsOf`). Three things around it
have to be so. What a worker keeps of a page's text is the document's own version
(`TextsAreOwn`), which is where the clearing of the text cache with every edit is needed. The id a
search began with was given (`Numbered`). And a search waits in one place, once: its thread does
not go on before the render thread has told it (`WaitsOnce`), so no page is counted
twice. `UpTo` is a recursive function; that it has the values its equation says is shown
without induction, by the least number of pages for which it would not (`SumsExist`).

**Ocr.** One invariant, `Sound`, of session, document and worker. Of the worker: every page it
says is waiting is in the queue, being read by a thread that is not told to drop it,
or among the finished (`InHand`); a picture of the present epoch is of the page as it is
turned, and so is a text (`PicturesAreOfPages`, `TextsAreOfPages`): turning and undoing start
an epoch, and every job carries the one it was drawn in. Each request to the worker is
a lemma of its own that keeps this and forgets no text it need not (`Keeps`). Of the
session: while it is in step with its document and worker, a page it has asked about and does
not wait for was read, failed or is no scan, and its progress lacks only the pages it waits
for (`Walked`). In one tick it asks about page after page: that this recursive function has
a value for every turn (`TurnsExist`), and that every turn keeps the invariant, is again shown by the
least turn at which it would not.

**TextIndex.** Folder and memory say the same (`IndexSound`), and every folder a step passes on
the way is one the next run can start from (`FolderSound`): whoever shortens the catalog
has deleted the files before, whoever deletes the index deletes its key first, a new one
begins in an empty folder, and an index gives no id twice (`CatalogSound`). So `Restarts` may end the
app at any of them. `TakerSound` is what the reader knows of an entry that is still in the same
index (`generation`): the file, the version and the pages it has so far; of an
index made anew it knows nothing and `MayKeep` lets it keep nothing. `BarredIsClean` and `OffIsClean` say
who still has to act while a barred text can be read: a command not yet over; `WillBeTaken`
says the same of a text that is missing and was not cut short (`Awaited`): a command, the queue,
the taker, or the reconsidering of all tabs. Each of the three places that mark a file
(`Considers`, `TakesTab`, `TakesPage`) is needed: with one of them left out TLC refutes `NothingLeftOut`. The proof goes action by action and, within one, through
the `Effect`s it is made of. With `MayKeep` not looking at the generation, or ids numbered by how
many entries there are, the proof fails where it should.

It also found what the run had not: after *two* ends of the app, one between deleting
a file and the catalog and one after the file was begun anew and before it was counted, an
entry counts more pages than its file has. One file of three pages, five commands and two faults
show it to TLC; `TextIsOfItsFile` now says so (`torn`), and the file's text is of its version
all the same.

**Closing.** A mode and a window fit together (`Modes`): hidden has the icon, waiting for
the message has no batch running, because a batch starts only from a shown window. And
while the window is hidden a batch runs, or its end is still to be told, or the message
that tells it is in the main thread's queue (`EndIsTold`); the last of them finds no batch
left.

**Tabs and Closing.** That a close deletes nothing unasked needs to know what every thread
has still to say. The first part of `Closing_proofs` sorts them: a *fresh* thread has the document under an id
nobody has heard of yet (an edit, an unlocking) or has taken it away; there is one at
most, because a command can reach the document only by an id it heard (`FreshIs`,
`Unheard`, `OneFresh`). A *late* one, a save, left the id as it was and can be overtaken; while there is one,
everything in the journal is `racing` (`LateIs`). So a change in the journal is
racing, is being made or made again, or both the event and the page have it
(`ChangesTold`), which is what the question before closing is about.
Its second part carries that from the moment somebody looks to the moment the journal is
deleted: whoever waits for the main thread, for a lock or for a batch keeps what it may
delete `Accounted`, since a thread that goes on puts nothing into the journal that was not
on its way (`GoingOn`), and commands begun meanwhile are racing. A close that waits
with the window hidden meets no new commands: shown again, it is called off (`Modes`).

**Only model-checked.** Liveness under fairness is outside what TLAPS proves: `SavesEnd`,
`RequestsEnd`, `ReadingEnds`, `RequestsAnswered`. Every other property the passing runs check is
also a theorem; `JournalInStep`, `NoJournalLeftBehind`, `EditsAreOnDisk` and `NothingLeftBehind` only
under the assumptions in the table, and the runs decide where those do not hold.

## Where the code and its documents differ

Each of these two runs checks one sentence of a comment or a document and ends in
a counterexample; the quotations are in `PROJECT.json` under `findings`.

| Run | What happens |
| --- | --- |
| `journals_two_tabs` | Closing a tab that asks for its password releases a journal another tab has taken since: a third opening takes it as well, and two tabs write one file. |
| `closing_unasked` | A change waits for the document's lock when the tab or the window is closed: nothing is unsaved yet, so nothing is asked; the change is then made, and deleted with its journal. |

Seen on the way and stated in the modules, without a run of their own (TLC refutes
each when it is added to a cfg with the constants it needs):

| Statement | What the code does instead |
| --- | --- |
| `Editing!RecoverOnlyOnSameFile` | The identity is taken before the file is read: a change in between lets old edits be made on the newer bytes (`documents.rs:321`). |
| `Editing!ErrorChangesNoFile` | The file was replaced and the document then lost with its password: the answer is an error though the save is done (`documents.rs:2697`). |
| `Editing!IdStandsForContent` | A reopened document keeps its id though the file changed (`docs/architecture/saving.md:15`). |
| `Editing!ProtectedNeverLost` | A replay that fails on opening marks a protected document lost (comment of `live_worker`). |
| `Editing!FailedWriteOnlyLoses` | A journal that could not be written after an undo still has the undone edit (comment of `write`). |
| `Journals!InUseIsUsed` | A tab closed while its file opens: the journal that opening took stays in `in_use` for the rest of the run (`documents.rs:417`). |
| `Journals!EditsAreOnDisk`, with clearing | `clear_unused` copies `in_use`, then deletes: a journal taken in between is deleted under its document (`recovery.rs:262`). |
| `Journals!OnlyByItsTab`, without `exposed` | The same, and two tabs that came to share a journal (run `journals_two_tabs`): one's undo, closing or answer deletes the other's edits. |
| `Journals!OfferIsOnDisk` | A second opening had read a journal when the first tab answered it: what it is offered is on the disk no more (comment of `take`). |
| `Journals!ReleasedComesBack` | The journal a tab kept when its document was lost is another tab's when the password comes (`docs/architecture/crash-recovery.md`). |
| `Journals!AllLookedAt` | The program can leave more journals than the `MAX_JOURNALS` names an opening looks at. |
| `Saving!TabsDoNotOverwrite` | Two tabs look at the file before either replaces it: the second overwrites the first's save without being told. |
| `Saving!FailureLeavesFile` | The second rename and the putting back both fail: the user is told that nothing changed, and the file's name is gone (its content is under the backup's). |
| `Requests!DeadlinesHold` | The writing of a request has no deadline: a worker that hangs with a full pipe blocks the document (`worker_host/src/lib.rs:716`, `docs/architecture/worker-sandbox.md:84`). |
| `Tabs!EventIsLastTold` | Two commands of one document record and answer in different orders: `Tab::event` is not what the page was told last (`documents.rs:97`). |
| `Ocr!ReadsAgain` | An undo drops what is known of the pages but not the thread's queue: pages nobody collects fill it (`QueueRoom` 1), every request is answered `Full`, and the document is never read again (`ocr_worker.rs`). |
| `TextIndex!OffLeavesNothing` | A `consider` that looked at the setting before the index was turned off makes the folder anew after the deletion, with the document's name (`lib.rs:237`). |
| `TextIndex!ResultsAlwaysLeadHome` | Ids start over in a new index: a result listed by a search that went on during a deletion can lead to another document. |
| `TextIndex!NothingEverLeftOut` | The app ended after deleting a document's file and before the catalog: the entry counts pages no file has, and they are not taken again. (It is also refuted by a taking cut short, which the documents say: see TextIndex above.) |
| `Rendering!UnknownIsClosed` | A list of open documents made before an edit or an opening is used after it: a page that waits is answered `unknownDocument` though its document is open (`commands.rs:2410`, `docs/architecture/ipc-contract.md:310`). |
| `Rendering!CacheIsOfOpen` | A page that was being drawn when its document was closed or edited is put into the cache afterwards and stays there until tabs change again (`render.rs:311`, comment at `commands.rs:2407`). |

## What is left out

Inside the modules:

- Editing: passwords kept in the credential store (`recalled`), permissions, sizes of
  pages (only their number), signed documents, the check before marking that the
  folder can be written and that the mark is not there yet, files deleted by
  others (`LoadFails` stands for it), an identity that cannot be read, a data folder
  that is not there.
- Journals: names come in the order of numbers and are never given twice; redo is
  `Edit`; leftover `.tmp` files, failing deletes and two runs at once are left out, as is
  a listing that changes while it is read (`clear_unused` lists at its start).
- Saving: the checks before a save that the folder is writable; temporary files
  and `.tmp` a crash leaves; a document protected by a password is in Editing. When a
  replacement is put back, the file has its old identity again;
  `IdentityIsOfBase` and `ReplacesItsBase` leave such a file out (`restored`).
- Requests: passwords; an opening again that finds another number of pages; handles
  passed to the worker; a spawned process that cannot be given its pipes; requests
  without an answer (`notify`) and what they cancel; a greeting that says the wrong
  thing is a start that failed.
- Tabs: a document without a password (it does the same and is never lost), passwords
  the app remembers, `discard_recovered` and the forgetting of passwords (they keep the
  id, as a save does), several tabs. Closing: what a batch does to its files, several
  reports at once, a typed value sent to a page that stopped answering, main thread and
  page that do not run.
- Ocr: several sessions (`MAX_ACTIVE`: `mayStart` is any), a change of the language in the
  settings, pages that come in. OcrReader: memory and time limits of a page, whose
  outcome is a page that failed.
- TextIndex: pages without text (`blank`) and the waiting for their recognition, limits of
  bytes, writes that fail, a damaged catalog, removable drives, links to one file, how
  many results a search gives; a file marked as sensitive whose tab is closed before
  `consider` runs keeps its text until it is opened again, so `BarredTextIsGone` is about open
  ones; a search that is cancelled.
- Rendering: the end of the renderer (`Drop`), background work other than a search
  (exports, the text of a page), what a query matches (a number of hits on each page),
  documents with passwords, recognised text among the texts the worker keeps, a page
  that stopped listening, other programs writing the file meanwhile.

Whole parts, with the reason in `PROJECT.json`: the comparison cache, the lists in the data folder and the request frames
(not modelled yet, see the plan); the PDF engine (what an edit does to bytes and
pixels), the sandbox (calls to the operating system), IPC types and their
validation (values without state), export, creating, attachments, signing, fonts,
dialogs, links, the update check, and the page's components.

## The plan

1. **Editing, Journals, Saving** with their abstract specifications and proofs: done.
2. **Requests**, **Tabs** and **Closing**, **OcrReader** and **Ocr**, **TextIndex**,
   **Rendering** with the search in a document: modelled and checked; the proofs above.
3. **Compare**: what is kept for two documents and when an edit makes it stale; the turns
   of several sessions in **Ocr**.
4. **Frame** (pure: reading frames from a pipe cut anywhere, against a reference
   definition), **Batch** with `place_new`, **LocalLists**.

Theorems to prove next: with clearing, what of `EditsAreOnDisk` is left for a journal nobody
takes meanwhile; that an index that was turned off stays empty but for a `consider` under way
(`OffLeavesNothing`); bounds of the queues (`QueueRoom` of Ocr, `CacheBytes` of Rendering).
