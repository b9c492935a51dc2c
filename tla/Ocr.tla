--------------------------------- MODULE Ocr ---------------------------------
(***************************************************************************)
(* Recognising the text of scanned pages: the session of a tab             *)
(* (src-tauri/src/ocr.rs) walks over the pages of its document, asks the   *)
(* worker about each and polls for what its thread has read, while the     *)
(* user edits, undoes, stops and starts, and the worker hangs or dies.     *)
(*                                                                         *)
(* One tick of the scheduler's thread on the tab is one step: the session  *)
(* and the document are locked, so no other request comes between.  The    *)
(* reading thread only moves a page from one place of the queue to the     *)
(* next meanwhile, which no answer of a tick depends on.                   *)
(***************************************************************************)
EXTENDS OcrReader

CONSTANTS
  OcrAuto,    \* Settings::ocr_auto
  StepPages,  \* STEP_PAGES
  MaxLayouts, \* bound: edits, undos and redos
  MaxWorkers, \* bound: workers the document had
  QuietPolls, \* polls with nothing before all is asked again: 3 in `collect`
  Focuses     \* bound: pages the user goes to look at

VARIABLES
  s,         \* the tab's Session
  doc,       \* its OpenDocument, as far as recognising sees it
  w,         \* the document's worker
  installed  \* a language is installed

vars == <<s, doc, w, installed>>


FreshSession ==
  [run |-> "idle", manual |-> FALSE, needsStop |-> FALSE,
   worker |-> 0, layout |-> 0, loaded |-> FALSE, needsLanguage |-> FALSE,
   asked |-> {}, cursor |-> 1, focus |-> 1, queued |-> {}, late |-> FALSE,
   quiet |-> 0, scans |-> 0, answered |-> 0]

PageOf(d, index) == d.pages[index]
IndexOf(d, page) == CHOOSE i \in DOMAIN d.pages : d.pages[i] = page
InDocument(d) == Range(d.pages)

Remaining(d, t) == DOMAIN d.pages \ t.asked

\* A session with nothing to do until the user does something.
IsDormant(t) == t.run \in {"stopped", "failed"} /\ ~t.needsStop

\* It has pages to ask about, or waits for some.
IsReading == s.run = "running" /\ (Remaining(doc, s) # {} \/ s.queued # {})

ResetWalk(d, t) ==
  [t EXCEPT !.asked = {}, !.queued = {}, !.late = FALSE, !.quiet = 0,
            !.scans = 0, !.answered = 0,
            !.cursor = IF t.focus \in DOMAIN d.pages THEN t.focus ELSE Len(d.pages)]

\* The next page to ask about, from the cursor on and round to the start.
NextPage(d, t) ==
  LET left == Remaining(d, t)
      on   == {i \in left : i >= t.cursor}
      from == IF on # {} THEN on ELSE left
  IN CHOOSE i \in from : \A j \in from : i <= j
-----------------------------------------------------------------------------
\* What one tick does, as functions of the tick's state
\* [s |-> session, w |-> worker, d |-> document, go |-> the loop goes on].

Lose(st) == [st EXCEPT !.d.lost = TRUE, !.s.run = "failed"]

Mark(t, index) == [t EXCEPT !.asked = @ \cup {index}, !.cursor = index]

\* One turn of the loop in `ask`.
AskOne(st) ==
  IF ~st.go \/ Remaining(st.d, st.s) = {} THEN [st EXCEPT !.go = FALSE]
  ELSE
    LET index  == NextPage(st.d, st.s)
        page   == PageOf(st.d, index)
        answer == CheckAnswer(st.w, page)
        marked == Mark(st.s, index)
        next   == [st EXCEPT !.w = CheckPage(st.w, page, st.d.turn[page]),
                             !.s.cursor = index]
    IN IF ~st.w.alive THEN [Lose(st) EXCEPT !.go = FALSE]
       ELSE CASE answer = "notScan" -> [next EXCEPT !.s = marked]
         [] answer \in {"recognised", "failed", "error"} ->
              [next EXCEPT !.s = [marked EXCEPT !.scans = @ + 1, !.answered = @ + 1]]
         [] answer = "queued" ->
              [next EXCEPT !.go = FALSE,
                 !.s = [marked EXCEPT !.scans = @ + 1, !.queued = @ \cup {index},
                          !.late = IF st.s.queued = {} THEN FALSE ELSE @]]
         [] answer = "full" -> [next EXCEPT !.go = FALSE]
         [] answer = "noLanguage" ->
              [next EXCEPT !.go = FALSE, !.s.loaded = FALSE, !.s.needsLanguage = TRUE]

\* What `n` turns of it come to: a step takes as many as its time allows.
Ask(st, n) ==
  LET after[i \in 0..n] ==
        IF i = 0 THEN {[st EXCEPT !.go = TRUE]} ELSE {AskOne(x) : x \in after[i - 1]}
  IN after[n]

CollectQuiet(st) ==                   \* mutant: never asks again
  LET reported == {IndexOf(st.d, p) : p \in
                     OcrReported(st.w, Range(st.w.finished), InDocument(st.d))}
  IN IF ~st.w.alive THEN [Lose(st) EXCEPT !.s.queued = {}]
     ELSE [st EXCEPT !.w = Polled(st.w, InDocument(st.d)), !.s.queued = @ \ reported,
             !.s.answered = @ + Cardinality(st.s.queued \cap reported)]

\* Takes what the worker finished.  Three polls with nothing finished and nothing
\* waiting: its queue was dropped, and every page is asked about again.  Nothing
\* for longer than STALL: the worker is given up.
Collect(st) ==
  LET t        == st.s
      reported == {IndexOf(st.d, p) : p \in
                     OcrReported(st.w, Range(st.w.finished), InDocument(st.d))}
      quiet    == reported = {}
      queued   == t.queued \ reported
      polled   == [st EXCEPT
                    !.w = Polled(st.w, InDocument(st.d)),
                    !.s.quiet = IF ~quiet THEN 0 ELSE IF @ < QuietPolls THEN @ + 1 ELSE @,
                    !.s.late = @ /\ quiet /\ queued # {},
                    !.s.queued = queued,
                    !.s.answered = @ + Cardinality(t.queued \cap reported)]
  IN IF ~st.w.alive THEN [Lose(st) EXCEPT !.s.queued = {}]
     ELSE IF queued # {} /\ Waiting(st.w) = 0 /\ polled.s.quiet = QuietPolls
     THEN [polled EXCEPT !.s = ResetWalk(st.d, polled.s)]
     ELSE IF queued # {} /\ polled.s.late
     THEN [Lose(polled) EXCEPT !.s.queued = {}, !.w = DeadWorker]
     ELSE polled

\* ensure_language: `readable` is whether the data read is a language's, and
\* `takes` whether the recogniser takes it (never, once it hangs).
EnsureLanguage(st, readable, takes) ==
  CASE ~installed -> [st EXCEPT !.s.run = "noLanguage"]
    [] installed /\ st.s.loaded -> [st EXCEPT !.s.needsLanguage = FALSE]
    [] installed /\ ~st.s.loaded /\ ~readable -> [st EXCEPT !.s.run = "failed"]
    [] installed /\ ~st.s.loaded /\ readable ->
         IF ~st.w.alive THEN Lose(st)
         ELSE LET w1 == Loaded(st.w, takes /\ ~st.w.hung)
              IN IF ~w1.language THEN [st EXCEPT !.s.run = "failed", !.w = w1]
                 ELSE LET t == [st.s EXCEPT !.loaded = TRUE, !.needsLanguage = FALSE]
                      IN [st EXCEPT !.w = w1,
                            !.s = IF t.queued = {} THEN t ELSE ResetWalk(st.d, t)]

\* The walk starts or goes on, over the document as it is now.
Takes(d, t) ==
  LET run    == [t EXCEPT !.run = "running"]
      worker == IF run.worker = d.worker THEN run
                ELSE [run EXCEPT !.worker = d.worker, !.loaded = FALSE, !.layout = 0]
  IN IF worker.layout = d.layout THEN worker
     ELSE ResetWalk(d, [worker EXCEPT !.layout = d.layout])

EndedAsked(st) ==                     \* mutant: pages still being read do not count
  IF st.s.run = "running" /\ Remaining(st.d, st.s) = {}
  THEN [st EXCEPT !.s.run = "done"] ELSE st

Ended(st) ==
  IF st.s.run = "running" /\ Remaining(st.d, st.s) = {} /\ st.s.queued = {}
  THEN [st EXCEPT !.s.run = "done"] ELSE st
-----------------------------------------------------------------------------
\* A tick on the tab, when its document can be had at once.

\* The user stopped it: the worker is told.
StopStep ==
  /\ ~doc.lost /\ s.needsStop
  /\ IF w.alive
     THEN /\ s' = [s EXCEPT !.needsStop = FALSE, !.queued = {}]
          /\ w' = StopReader(w)
          /\ UNCHANGED doc
     ELSE /\ s' = [s EXCEPT !.needsStop = FALSE, !.queued = {}, !.run = "failed"]
          /\ doc' = [doc EXCEPT !.lost = TRUE]
          /\ UNCHANGED w
  /\ UNCHANGED installed

GoesOn ==
  CASE s.run \in {"stopped", "failed"} -> FALSE
    [] s.run \in {"idle", "noLanguage"} -> OcrAuto \/ s.manual
    [] s.run = "done" -> (s.layout # doc.layout \/ s.worker # doc.worker) /\ (OcrAuto \/ s.manual)
    [] s.run = "running" -> TRUE

Keep(st) == s' = st.s /\ w' = st.w /\ doc' = st.d

\* A scan, and the worker has no language: it is given one and asked again.
Language(asked) ==
  IF asked.s.run = "running" /\ asked.s.needsLanguage
  THEN \E readable, takes \in BOOLEAN :
         \E given \in {EnsureLanguage(asked, readable, takes)} :
           IF given.s.run = "running"
           THEN \E n \in 1..StepPages : \E again \in Ask(given, n) : Keep(Ended(again))
           ELSE Keep(given)
  ELSE Keep(Ended(asked))

\* mayStart: fewer than MAX_ACTIVE documents before this one are being read.
WorkStep(mayStart) ==
  /\ ~doc.lost /\ ~s.needsStop /\ GoesOn
  /\ \E start \in {[s |-> Takes(doc, s), w |-> w, d |-> doc, go |-> TRUE]} :
     IF ~mayStart /\ start.s.queued = {} THEN Keep(start)
     ELSE \E collected \in {IF start.s.queued = {} THEN start ELSE Collect(start)} :
            IF collected.s.run = "running" /\ mayStart
            THEN \E n \in 1..StepPages : \E asked \in Ask(collected, n) : Language(asked)
            ELSE Keep(Ended(collected))
  /\ UNCHANGED installed

\* STALL has passed since the worker last finished a page, while it hangs.
Overdue ==
  /\ s.queued # {} /\ ~s.late /\ w.hung
  /\ s' = [s EXCEPT !.late = TRUE]
  /\ UNCHANGED <<doc, w, installed>>
-----------------------------------------------------------------------------
\* The user.

Start ==
  /\ s' = [s EXCEPT !.manual = TRUE, !.needsStop = FALSE, !.run = "running", !.layout = 0]
  /\ UNCHANGED <<doc, w, installed>>

Stop ==
  /\ s.run = "running"
  /\ s' = [s EXCEPT !.run = "stopped", !.needsStop = TRUE]
  /\ UNCHANGED <<doc, w, installed>>

SetFocus(index) ==
  /\ index \in DOMAIN doc.pages
  /\ s' = [s EXCEPT !.focus = index, !.cursor = index]
  /\ UNCHANGED <<doc, w, installed>>

Commands == Start \/ Stop \/ \E index \in Focuses : SetFocus(index)

\* Edits reach the worker one at a time, under the document's lock.
Edits(d, pages, turn) ==
  [d EXCEPT !.pages = pages, !.turn = turn, !.layout = @ + 1,
            !.before = Append(@, [pages |-> d.pages, turn |-> d.turn])]

CanEdit == ~doc.lost /\ w.alive /\ doc.layout < MaxLayouts

Turn(page, turn) ==
  /\ CanEdit /\ page \in InDocument(doc) /\ turn # doc.turn[page]
  /\ doc' = Edits(doc, doc.pages, [doc.turn EXCEPT ![page] = turn])
  /\ w' = OcrTurned(w, {page})
  /\ UNCHANGED <<s, installed>>

Delete(page) ==
  /\ CanEdit /\ page \in InDocument(doc) /\ Len(doc.pages) > 1
  /\ doc' = Edits(doc, RemoveAt(doc.pages, IndexOf(doc, page)), doc.turn)
  /\ w' = Forget(w, {page})
  /\ UNCHANGED <<s, installed>>

Undo ==
  /\ CanEdit /\ doc.before # <<>>
  /\ doc' = [doc EXCEPT !.pages = Last(doc.before).pages, !.turn = Last(doc.before).turn,
                        !.before = Front(@), !.layout = @ + 1]
  /\ w' = OcrReverted(w)
  /\ UNCHANGED <<s, installed>>

\* A request of the user's finds the worker dead; the next one opens the
\* document in a new worker, with its edits.
FindsLost ==
  /\ ~doc.lost /\ ~w.alive
  /\ doc' = [doc EXCEPT !.lost = TRUE]
  /\ UNCHANGED <<s, w, installed>>

OpensAgain ==
  /\ doc.lost /\ doc.worker < MaxWorkers
  /\ doc' = [doc EXCEPT !.lost = FALSE, !.worker = @ + 1]
  /\ w' = FreshWorker
  /\ UNCHANGED <<s, installed>>

\* A language is imported, or the last one removed.
Imports ==
  /\ installed' = ~installed
  /\ UNCHANGED <<s, doc, w>>
-----------------------------------------------------------------------------
\* The worker's thread, and its process.

Takes1 ==
  /\ w.alive /\ w.running = NoJob /\ w.queue # <<>>
  /\ w' = TakesJob(w)
  /\ UNCHANGED <<s, doc, installed>>

Reads1 ==
  /\ w.alive /\ w.running # NoJob /\ ~w.hung
  /\ \/ \E ok \in BOOLEAN : w' = EndsJob(w, ok)
     \/ w.cancel /\ w' = GivesUpJob(w)
  /\ UNCHANGED <<s, doc, installed>>

Thread == Takes1 \/ Reads1

Hangs ==
  /\ w.alive /\ w.running # NoJob /\ ~w.hung /\ doc.worker < MaxWorkers
  /\ w' = [w EXCEPT !.hung = TRUE]
  /\ UNCHANGED <<s, doc, installed>>

Dies ==
  /\ w.alive /\ doc.worker < MaxWorkers
  /\ w' = DeadWorker
  /\ UNCHANGED <<s, doc, installed>>
-----------------------------------------------------------------------------
Init ==
  /\ s = FreshSession
  /\ doc = [pages |-> SetToSeq(Pages), turn |-> [p \in Pages |-> CHOOSE t \in Turns : TRUE],
            layout |-> 1, worker |-> 1, lost |-> FALSE, before |-> <<>>]
  /\ w = FreshWorker
  /\ installed \in BOOLEAN

Next ==
  \/ StopStep
  \/ \E mayStart \in BOOLEAN : WorkStep(mayStart)
  \/ Overdue
  \/ Commands
  \/ \E page \in Pages : Delete(page) \/ \E turn \in Turns : Turn(page, turn)
  \/ Undo \/ FindsLost \/ OpensAgain \/ Imports
  \/ Thread \/ Hangs \/ Dies

\* The scheduler's thread ticks for ever and the documents before this one
\* come to their end; the reading thread runs while its process does; time
\* passes.  The user need not do anything.
Fairness ==
  /\ WF_vars(StopStep) /\ WF_vars(WorkStep(TRUE))
  /\ WF_vars(Thread) /\ WF_vars(Overdue)

Spec == Init /\ [][Next]_vars /\ Fairness
-----------------------------------------------------------------------------
\* A page the worker says is waiting is in its thread's hands, finished pages
\* included: otherwise it is told to wait for what never comes.
WaitingIsInHand ==
  w.waiting \subseteq {f.job.page : f \in Range(w.finished)}
                        \cup {j.page : j \in Range(w.queue)}
                        \cup (IF w.running = NoJob THEN {} ELSE {w.running.page})

\* Text is that of the page as it is turned now: never of a picture drawn
\* before it was turned, or before an undo turned it back.
TextIsOfThisPage ==
  \A page \in DOMAIN w.text \cap InDocument(doc) : w.text[page] = doc.turn[page]

\* A session that is done with the document as it is has left no scanned page
\* unread: each was read or failed, and the progress told counts every one.
DoneMeansRead ==
  s.run = "done" /\ s.layout = doc.layout /\ s.worker = doc.worker /\ w.alive =>
    /\ InDocument(doc) \cap Scans \subseteq DOMAIN w.text \cup w.failed
    /\ s.answered = s.scans

\* Reading comes to an end however the worker hangs or dies and whatever is
\* edited, unless the queue is full of pages nobody collects (see HeldUp).
UserRests == <>[][~Commands]_vars
HeldUp == IsReading /\ s.queued = {} /\ ~HasRoom(w)
ReadingEnds == UserRests => []<>(~IsReading \/ doc.lost) \/ <>[]HeldUp

\* ... and with nothing excepted: after every edit and undo the pages are looked
\* at again, and scanned ones read.  The code does not keep this.
ReadsAgain == UserRests => []<>(~IsReading \/ doc.lost)
=============================================================================
