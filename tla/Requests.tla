------------------------------- MODULE Requests -------------------------------
(***************************************************************************)
(* A tab's document, its WorkerHost (crates/worker_host/src/lib.rs), the   *)
(* two pipes and the worker's request loop (pdf_worker/src/serve.rs).      *)
(*                                                                         *)
(* The tab does one operation at a time: it opens the document again in a  *)
(* new worker if the old one was lost, makes its unsaved edits again, and  *)
(* sends its own request.  The host writes a request, waits for the answer *)
(* until its deadline, checks the answer's id and kind, and stops a worker *)
(* that crashed, was late or said anything it should not have.  The worker *)
(* reads one request, carries it out and answers it before it reads the    *)
(* next.                                                                   *)
(*                                                                         *)
(* A document in the worker stands for the sequence of edits in it; the    *)
(* edits differ by their names.  The `serial` of a request is only in the  *)
(* model: what the real id, which wraps, has to stand for.                 *)
(***************************************************************************)
EXTENDS Naturals, Sequences

CONSTANTS
  Large,    \* kinds whose frame does not fit the pipe while nobody reads it
  MaxId,    \* request ids are 1..MaxId and start over (2^32 - 1 in the code)
  MaxOps,   \* bound: operations of the user
  MaxFaults \* bound: deaths, hangs and wrong answers of workers

Queries == {"query"}
Kinds == {"open", "edit", "revert", "save", "rebase"} \cup Queries

ASSUME LargeAssumption == Large \subseteq Kinds
ASSUME MaxIdAssumption == MaxId \in Nat /\ MaxId >= 2

VARIABLES
  tab,      \* OpenDocument: its id in the worker, lost, what is saved, unsaved edits
  file,     \* the edits in the file on disk
  temp,     \* ... and in the temporary file a worker wrote
  todo,     \* the requests the operation still has to send
  host,     \* WorkerHost: what it does, its counters, the request it is about
  worker,   \* the worker process and its documents
  said,     \* its last answer
  pipe,     \* requests written, not yet read by the worker
  answers,  \* frames the reader thread has forwarded
  ops, faults,
  accepted  \* the request asked and the one its accepted answer answered

vars == <<tab, file, temp, todo, host, worker, said, pipe, answers,
          ops, faults, accepted>>
bounds == <<ops, faults>>

Half == 0   \* what a failed edit may leave in a document
NoDoc == 0
NoRequest == [kind |-> "none"]

\* is_expected_response: the kind of answer a request may have.
Expected == [open |-> "opened", edit |-> "edited", revert |-> "edited",
             save |-> "saved", rebase |-> "rebased", query |-> "told"]

NextId(id) == IF id = MaxId THEN 1 ELSE id + 1

NoWorker == [alive |-> FALSE, hung |-> FALSE, docs |-> <<>>, originals |-> <<>>]
-----------------------------------------------------------------------------
(* The worker: every request is carried out whole and answered. *)

Knows(doc) == doc \in DOMAIN worker.docs

With(f, doc, value) == [d \in DOMAIN f \cup {doc} |-> IF d = doc THEN value ELSE f[d]]

\* What carrying out r may leave in the worker and in the temporary file, and what
\* is answered: "ok", an error that leaves the documents as they were, or one from
\* partway through.
Outcomes(r) ==
  LET says(answer, w, t) == [answer |-> answer, worker |-> w, temp |-> t]
      same    == says("refused", worker, temp)
      done(w) == says("ok", w, temp)
      cur     == worker.docs[r.doc]
  IN IF r.kind # "open" /\ ~Knows(r.doc) THEN {same}
     ELSE {same} \cup
       CASE r.kind = "open" ->
              {done([worker EXCEPT !.docs = With(@, r.doc, file),
                                   !.originals = With(@, r.doc, file)])}
         [] r.kind = "edit" ->
              {done([worker EXCEPT !.docs = With(@, r.doc, Append(cur, r.arg))]),
               says("partway", [worker EXCEPT !.docs = With(@, r.doc, Append(cur, Half))], temp)}
         [] r.kind = "revert" ->
              {done([worker EXCEPT !.docs = With(@, r.doc, worker.originals[r.doc] \o r.arg)]),
               says("partway", worker, temp)}
         [] r.kind = "save"   -> {says("ok", worker, cur)}
         [] r.kind = "rebase" ->
              {done([worker EXCEPT !.originals = With(@, r.doc, file)])}
         [] r.kind \in Queries -> {done(worker)}

AnswerTo(r, answer) ==
  [id |-> r.id, serial |-> r.serial,
   kind |-> IF answer = "ok" THEN Expected[r.kind] ELSE answer]

Reads(frames) ==
  /\ worker.alive /\ ~worker.hung
  /\ frames # <<>>

\* One turn of the loop in `serve`.  A large request is read while it is written.
Serves ==
  /\ Reads(pipe)
  /\ \E o \in Outcomes(Head(pipe)) :
       LET a == AnswerTo(Head(pipe), o.answer)
       IN /\ worker' = o.worker
          /\ said' = a
          /\ answers' = Append(answers, a)
          /\ temp' = o.temp
  /\ pipe' = Tail(pipe)
  /\ UNCHANGED <<tab, file, todo, host, bounds, accepted>>

\* Faults of a worker: it ends, it stops answering, it answers twice, or says
\* something that is no answer to what it was asked.
Faulty(w) ==
  /\ faults < MaxFaults /\ worker.alive
  /\ faults' = faults + 1 /\ worker' = w
  /\ UNCHANGED <<tab, file, temp, todo, host, ops, accepted>>

Dies == Faulty(NoWorker) /\ said' = NoRequest /\ pipe' = <<>> /\ UNCHANGED answers

Hangs ==
  /\ ~worker.hung /\ Faulty([worker EXCEPT !.hung = TRUE])
  /\ UNCHANGED <<said, pipe, answers>>

Repeats ==
  /\ ~worker.hung /\ said # NoRequest /\ Faulty(worker)
  /\ answers' = Append(answers, said)
  /\ UNCHANGED <<said, pipe>>

Misspeaks ==
  /\ Reads(pipe) /\ Faulty(worker)
  /\ answers' = Append(answers, [AnswerTo(Head(pipe), "ok") EXCEPT !.kind = "nonsense"])
  /\ pipe' = Tail(pipe)
  /\ UNCHANGED said
-----------------------------------------------------------------------------
(* The host. *)

\* What the next request of the operation is, with the document's id as it is
\* now: an open takes the next one.
RequestFor(t, r) ==
  [kind |-> r.kind, arg |-> r.arg, id |-> host.nextId, serial |-> host.serial + 1,
   doc |-> IF r.kind = "open" THEN host.nextDoc ELSE t]

\* The operation is over.
Over(t) == tab' = t /\ todo' = <<>>

\* start: a new process, whose greeting has to come in time.
Starts ==
  /\ host.at = "sending" /\ ~host.connected
  /\ \/ /\ host' = [host EXCEPT !.connected = TRUE]
        /\ worker' = [NoWorker EXCEPT !.alive = TRUE]
        /\ said' = NoRequest /\ pipe' = <<>> /\ answers' = <<>>
        /\ UNCHANGED <<tab, todo>>
     \/ /\ Over(tab) /\ host' = [host EXCEPT !.at = "idle"]
        /\ UNCHANGED <<worker, said, pipe, answers>>
  /\ UNCHANGED <<file, temp, bounds, accepted>>

\* exchange, first half: small requests are in the pipe at once.
Sends ==
  /\ host.at = "sending" /\ host.connected
  /\ LET r == RequestFor(host.doc, Head(todo))
         h == [host EXCEPT !.request = r, !.nextId = NextId(@), !.serial = @ + 1,
                           !.nextDoc = IF r.kind = "open" THEN @ + 1 ELSE @,
                           !.doc = r.doc]
     IN IF r.kind \in Large
        THEN host' = [h EXCEPT !.at = "writing"] /\ UNCHANGED pipe
        ELSE host' = [h EXCEPT !.at = "waiting"] /\ pipe' = Append(pipe, r)
  /\ UNCHANGED <<tab, file, temp, todo, worker, said, answers, bounds, accepted>>

\* The rest of a large request goes into the pipe as the worker reads it.
Writes ==
  /\ host.at = "writing" /\ worker.alive /\ ~worker.hung
  /\ pipe' = Append(pipe, host.request)
  /\ host' = [host EXCEPT !.at = "waiting"]
  /\ UNCHANGED <<tab, file, temp, todo, worker, said, answers, bounds, accepted>>

\* Crashed, Timeout and ProtocolViolation: the connection is dropped, which
\* kills the worker, and the document is marked lost.
Drops ==
  /\ worker' = NoWorker /\ said' = NoRequest /\ pipe' = <<>> /\ answers' = <<>>
  /\ host' = [host EXCEPT !.at = "idle", !.connected = FALSE]
  /\ Over([tab EXCEPT !.lost = TRUE])
  /\ UNCHANGED <<file, temp, bounds>>

\* The pipe or the reader's channel is closed.
FindsCrash ==
  /\ ~worker.alive
  /\ \/ host.at = "writing"
     \/ host.at = "waiting" /\ answers = <<>>
  /\ Drops /\ UNCHANGED accepted

\* The deadline passed with no answer there, or while a large request was written.
LateAnswer ==
  /\ host.at = "waiting" /\ worker.alive
  /\ answers = <<>> \/ host.request.kind \in Large

TimesOutKeeping ==                    \* mutant: the worker is not stopped
  /\ LateAnswer
  /\ host' = [host EXCEPT !.at = "idle"]
  /\ Over([tab EXCEPT !.lost = TRUE])
  /\ UNCHANGED <<file, temp, worker, said, pipe, answers, bounds, accepted>>

TimesOutNever ==                      \* mutant: only a crash ends the wait
  /\ LateAnswer /\ ~worker.alive
  /\ Drops /\ UNCHANGED accepted

TimesOut == LateAnswer /\ Drops /\ UNCHANGED accepted

Answers(a) == a.kind \in {"refused", "partway", Expected[host.request.kind]}

AcceptableKind(a) == Answers(a)       \* mutant: the id is not looked at

\* The checks of `exchange` on an answer.
Acceptable(a) == a.id = host.request.id /\ Answers(a)

Rejects ==
  /\ host.at = "waiting" /\ answers # <<>> /\ ~Acceptable(Head(answers))
  /\ Drops /\ UNCHANGED accepted

LosesSilently(r, answer) == FALSE     \* mutant: the document is taken to be as it was

\* An answer that leaves the document in the worker unlike what the tab has.
LosesIt(r, answer) == answer = "partway" \/ r.kind = "rebase"

\* The last request of opening the document again was answered.
LiveNow(rest) == rest # <<>> /\ ~Head(rest).again

\* What an operation's own request made of the tab's document.
Done(r) ==
  CASE r.kind = "edit"   -> [tab EXCEPT !.edits = Append(@, r.arg)]
    [] r.kind = "revert" -> [tab EXCEPT !.edits = r.arg]
    [] r.kind = "save"   -> [tab EXCEPT !.saved = @ \o tab.edits, !.edits = <<>>]
    [] OTHER             -> tab

Accepts ==
  /\ host.at = "waiting" /\ answers # <<>> /\ Acceptable(Head(answers))
  /\ LET a    == Head(answers)
         r    == host.request
         rest == Tail(todo)
     IN /\ IF a.kind \in {"refused", "partway"}
           THEN Over([tab EXCEPT !.lost = @ \/ LosesIt(r, a.kind)])
           ELSE /\ todo' = rest
                /\ tab' = IF ~Head(todo).again THEN Done(r)
                          ELSE IF LiveNow(rest) THEN [tab EXCEPT !.doc = host.doc, !.lost = FALSE]
                          ELSE tab
        /\ host' = [host EXCEPT !.at = IF todo' = <<>> THEN "idle" ELSE "sending"]
        /\ accepted' = [asked |-> r.serial, answered |-> a.serial]
        /\ file' = IF a.kind = "saved" THEN temp ELSE file
  /\ answers' = Tail(answers)
  /\ UNCHANGED <<temp, worker, said, pipe, bounds>>
-----------------------------------------------------------------------------
(* The tab's operations: live_worker, then the operation's own requests. *)

Request(kind, arg, again) == [kind |-> kind, arg |-> arg, again |-> again]

\* reopen: the file, and the unsaved edits on it.
Reopening ==
  IF ~tab.lost THEN <<>>
  ELSE <<Request("open", <<>>, TRUE)>>
         \o [i \in DOMAIN tab.edits |-> Request("edit", tab.edits[i], TRUE)]

Begins(requests) ==
  /\ host.at = "idle" /\ ops < MaxOps
  /\ ops' = ops + 1
  /\ todo' = Reopening \o requests
  /\ host' = [host EXCEPT !.at = "sending", !.doc = tab.doc]
  /\ UNCHANGED <<tab, file, temp, worker, said, pipe, answers, faults, accepted>>

One(kind, arg) == <<Request(kind, arg, FALSE)>>

Edit   == Begins(One("edit", ops + 1))
Undo   == tab.edits # <<>> /\ Begins(One("revert", SubSeq(tab.edits, 1, Len(tab.edits) - 1)))
Query  == Begins(One("query", <<>>))
Save   == Begins(One("save", <<>>) \o One("rebase", <<>>))
-----------------------------------------------------------------------------
Init ==
  /\ tab = [doc |-> NoDoc, lost |-> TRUE, saved |-> <<>>, edits |-> <<>>]
  /\ file = <<>> /\ temp = <<>>
  /\ todo = <<>>
  /\ host = [at |-> "idle", connected |-> FALSE, nextId |-> 1, nextDoc |-> 1,
             serial |-> 0, doc |-> NoDoc, request |-> NoRequest]
  /\ worker = NoWorker /\ said = NoRequest
  /\ pipe = <<>> /\ answers = <<>>
  /\ ops = 0 /\ faults = 0
  /\ accepted = [asked |-> 0, answered |-> 0]

User == Edit \/ Undo \/ Query \/ Save
Host == Starts \/ Sends \/ Writes \/ FindsCrash \/ TimesOut \/ Rejects \/ Accepts
Next == User \/ Host \/ Serves \/ Dies \/ Hangs \/ Repeats \/ Misspeaks

\* The app's thread runs and deadlines pass; a worker need not answer.
Spec == Init /\ [][Next]_vars /\ WF_vars(Host)
-----------------------------------------------------------------------------
\* Ids and kinds: the answer a caller gets is the one to what it asked, although
\* ids start over and a worker may answer twice.
AnswerIsItsOwn == accepted.asked = accepted.answered

\* Whenever the tab is not in the middle of an operation and does not take its
\* document for lost, a living worker has exactly the edits the tab has, and the
\* bytes to undo from are those of the tab's last save, however requests ended.
CallerKnowsWorker ==
  host.at = "idle" /\ ~tab.lost /\ worker.alive =>
    /\ Knows(tab.doc)
    /\ worker.docs[tab.doc] = tab.saved \o tab.edits
    /\ worker.originals[tab.doc] = tab.saved

\* A caller that was told its request failed leaves no worker behind that may
\* still carry it out: nothing it sent is unread, nor in a temporary file.
GivenUpIsStopped == host.at = "idle" => pipe = <<>>

\* Every request comes to an end, however the worker hangs, dies or misspeaks,
\* unless it hangs while a request larger than the pipe is written to it.
BlockedOnWrite == host.at = "writing" /\ worker.hung
RequestsEnd == []<>(host.at = "idle") \/ <>[]BlockedOnWrite

\* ... and with nothing excepted: every request has a deadline.
DeadlinesHold == []<>(host.at = "idle")
=============================================================================
