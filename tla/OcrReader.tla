------------------------------ MODULE OcrReader ------------------------------
(***************************************************************************)
(* The worker's side of recognising scanned pages: the thread that reads   *)
(* one page after another (crates/pdf_worker/src/ocr_worker.rs) and what   *)
(* is known of a document's pages (engine/ocr.rs), behind the requests     *)
(* OcrLoad, OcrPage, OcrPoll and OcrStop of serve.rs.  Each document has a *)
(* worker process of its own, so there is one document here.               *)
(*                                                                         *)
(* A page is named by its object, which stays its own through edits.  What *)
(* the recogniser is given is a picture of the page: here the way round    *)
(* the page was when it was drawn, which is all that can make a picture    *)
(* wrong.  The text read from a picture stands for itself.                 *)
(***************************************************************************)
EXTENDS Naturals, Sequences, FiniteSets, Functions, SequencesExt

CONSTANTS
  Scans,     \* pages that are only a picture
  Texts,     \* pages with text of their own
  Broken,    \* pages that cannot be looked at: every request about one fails
  QueueRoom, \* MAX_OCR_QUEUE
  Turns,     \* ways round a page can be
  NoJob      \* the recogniser has no page

Pages == Scans \cup Texts \cup Broken

\* A page to read, and the picture of it.
Jobs == [page : Pages, epoch : Nat, picture : Turns]

ASSUME TurnsAssumption == Turns # {}
ASSUME NoJobAssumption == NoJob \notin Jobs
ASSUME QueueRoomAssumption == QueueRoom \in Nat \ {0}
ASSUME PagesAssumption == /\ IsFiniteSet(Pages)
                          /\ Scans \cap Texts = {}
                          /\ Scans \cap Broken = {}
                          /\ Texts \cap Broken = {}

\* A worker just started for the document: no language, nothing known.
FreshWorker ==
  [alive |-> TRUE, hung |-> FALSE, language |-> FALSE, queue |-> <<>>,
   running |-> NoJob, cancel |-> FALSE, finished |-> <<>>,
   text |-> <<>>, notScan |-> {}, failed |-> {}, waiting |-> {}, epoch |-> 0]

\* A process that ended: what it had is gone with it.
DeadWorker == [FreshWorker EXCEPT !.alive = FALSE]

-----------------------------------------------------------------------------
\* What is known of the document's pages (OcrPages).

Known(w, page) ==
  IF page \in DOMAIN w.text THEN "recognised"
  ELSE IF page \in w.notScan THEN "notScan"
  ELSE IF page \in w.waiting THEN "queued"
  ELSE IF page \in w.failed THEN "failed" ELSE "unknown"

Forget(w, pages) ==
  [w EXCEPT !.text = Restrict(w.text, DOMAIN w.text \ pages),
            !.notScan = @ \ pages, !.failed = @ \ pages, !.waiting = @ \ pages]

OcrTurnedOnly(w, pages) == Forget(w, pages)   \* mutant: no new epoch

\* Turned pages: what was read of them, and whatever is being read, is dropped.
OcrTurned(w, pages) == [Forget(w, pages) EXCEPT !.epoch = @ + 1]

\* Revert opens the document again: nothing is known.  The thread, its queue
\* and what it finished belong to the process and stay.
OcrReverted(w) == [Forget(w, Pages) EXCEPT !.epoch = @ + 1]

\* What the recogniser made of the pages `done`: dropped when the epoch is
\* another one or the page is gone.
OcrFinish(w, done, inDocument) ==
  LET about == {f \in done : f.job.epoch = w.epoch /\ f.job.page \in inDocument}
      read  == {f \in about : f.ok}
  IN [w EXCEPT
       !.waiting = @ \ {f.job.page : f \in done},
       !.text = [page \in DOMAIN @ \cup {f.job.page : f \in read} |->
                   IF \E f \in read : f.job.page = page
                   THEN (CHOOSE f \in read : f.job.page = page).job.picture ELSE @[page]],
       !.failed = @ \cup {f.job.page : f \in about \ read}]

OcrReported(w, done, inDocument) ==
  {f.job.page : f \in {g \in done : g.job.epoch = w.epoch /\ g.job.page \in inDocument}}

-----------------------------------------------------------------------------
\* The queue of the thread.

Busy(w) == IF w.running = NoJob THEN 0 ELSE 1

HasRoom(w) == Len(w.queue) + Busy(w) + Len(w.finished) < QueueRoom

StopReaderWaiting(w) ==               \* mutant: the document is not told
  [w EXCEPT !.queue = <<>>, !.cancel = (w.running # NoJob)]

\* Drops the pages waiting and stops the one being read; what is finished stays.
StopReader(w) ==
  [w EXCEPT !.queue = <<>>, !.cancel = (w.running # NoJob), !.waiting = {}]

\* OcrLoad: pages waiting are dropped; `ok` is how the recogniser took the data.
Loaded(w, ok) == [StopReader(w) EXCEPT !.language = ok]

\* OcrPage: what it answers, and what it leaves.
CheckAnswer(w, page) ==
  IF page \in Broken THEN "error"
  ELSE IF Known(w, page) # "unknown" THEN Known(w, page)
  ELSE IF page \notin Scans THEN "notScan"
  ELSE IF ~w.language THEN "noLanguage"
  ELSE IF ~HasRoom(w) THEN "full" ELSE "queued"

CheckPage(w, page, turn) ==
  IF page \in Broken \/ Known(w, page) # "unknown" THEN w
  ELSE IF page \notin Scans THEN [w EXCEPT !.notScan = @ \cup {page}]
  ELSE IF ~w.language \/ ~HasRoom(w) THEN w
  ELSE [w EXCEPT !.queue = Append(@, [page |-> page, epoch |-> w.epoch, picture |-> turn]),
                 !.waiting = @ \cup {page}]

\* OcrPoll takes everything finished.
Polled(w, inDocument) ==
  [OcrFinish(w, Range(w.finished), inDocument) EXCEPT !.finished = <<>>]

Waiting(w) == Len(w.queue) + Busy(w)

-----------------------------------------------------------------------------
\* The thread: takes the next page, and puts what it made of it with the
\* finished ones.  A page told to stop may still come to its end.
TakesJob(w) == [w EXCEPT !.queue = Tail(@), !.running = Head(w.queue), !.cancel = FALSE]

EndsJob(w, ok) ==
  [w EXCEPT !.running = NoJob, !.cancel = FALSE,
            !.finished = Append(@, [job |-> w.running, ok |-> ok])]

GivesUpJob(w) == [w EXCEPT !.running = NoJob, !.cancel = FALSE]
=============================================================================
