------------------------------ MODULE Ocr_proofs ------------------------------
(***************************************************************************)
(* Recognising, for any document, queue and number of edits, workers and    *)
(* languages: a page that waits is in the thread's hands, text is that of   *)
(* the page as it is turned, and a session that is done left nothing.       *)
(***************************************************************************)
EXTENDS Ocr, SequenceTheorems, FiniteSetTheorems, WellFoundedInduction, TLAPS

-----------------------------------------------------------------------------
(* The worker.                                                              *)

Done == [job : Jobs, ok : BOOLEAN]
TextsRead == UNION {[P -> Turns] : P \in SUBSET Pages}

Workers ==
  [alive : BOOLEAN, hung : BOOLEAN, language : BOOLEAN, queue : Seq(Jobs),
   running : Jobs \cup {NoJob}, cancel : BOOLEAN, finished : Seq(Done),
   text : TextsRead, notScan : SUBSET (Pages \ Scans), failed : SUBSET Pages,
   waiting : SUBSET Pages, epoch : Nat]

\* The pages of the jobs a worker has: one told to stop may never be finished.
InQueue(v, page) == \E i \in DOMAIN v.queue : v.queue[i].page = page
InFinished(v, page) == \E i \in DOMAIN v.finished : v.finished[i].job.page = page
IsRead(v, page) == v.running # NoJob /\ v.running.page = page /\ ~v.cancel

InHand(v) ==
  \A page \in v.waiting : InQueue(v, page) \/ InFinished(v, page) \/ IsRead(v, page)

\* A picture that is not out of date is of the page as it is turned.
IsOfPage(job, v, turn) ==
  job.epoch <= v.epoch /\ (job.epoch = v.epoch => job.picture = turn[job.page])

PicturesAreOfPages(v, turn) ==
  /\ \A i \in DOMAIN v.queue : IsOfPage(v.queue[i], v, turn)
  /\ \A i \in DOMAIN v.finished : IsOfPage(v.finished[i].job, v, turn)
  /\ v.running # NoJob => IsOfPage(v.running, v, turn)

TextsAreOfPages(v, turn) == \A page \in DOMAIN v.text : v.text[page] = turn[page]

WorkerSound(v, turn) ==
  v \in Workers /\ InHand(v) /\ PicturesAreOfPages(v, turn) /\ TextsAreOfPages(v, turn)

Ways == [Pages -> Turns]

\* What was read of a document's pages is not lost while it stays as it is.
Keeps(v, u) == DOMAIN v.text \subseteq DOMAIN u.text /\ v.failed \subseteq u.failed

LEMMA FreshWorkerSound ==
  /\ \A turn \in Ways : WorkerSound(FreshWorker, turn) /\ WorkerSound(DeadWorker, turn)
  /\ FreshWorker.alive /\ ~DeadWorker.alive
<1>1. <<>> \in TextsRead
  BY DEF TextsRead
<1>2. FreshWorker \in Workers
  BY <1>1, EmptySeq DEF FreshWorker, Workers
<1>3. DeadWorker \in Workers
  BY <1>2 DEF Workers, FreshWorker, DeadWorker
<1>. QED
  BY <1>2, <1>3 DEF FreshWorker, DeadWorker, WorkerSound, InHand, PicturesAreOfPages,
     TextsAreOfPages

LEMMA StopSound ==
  ASSUME NEW turn \in Ways, NEW v, WorkerSound(v, turn)
  PROVE  /\ WorkerSound(StopReader(v), turn)
         /\ StopReader(v).alive = v.alive /\ Keeps(v, StopReader(v))
<1>1. StopReader(v) \in Workers
  BY EmptySeq DEF StopReader, WorkerSound, Workers
<1>. QED
  BY <1>1 DEF StopReader, WorkerSound, Workers, InHand, PicturesAreOfPages,
     TextsAreOfPages, IsOfPage, Keeps

LEMMA LoadedSound ==
  ASSUME NEW turn \in Ways, NEW v, WorkerSound(v, turn), NEW ok \in BOOLEAN
  PROVE  /\ WorkerSound(Loaded(v, ok), turn)
         /\ Loaded(v, ok).alive = v.alive /\ Keeps(v, Loaded(v, ok))
<1>. DEFINE u == StopReader(v)
<1>1. WorkerSound(u, turn) /\ u.alive = v.alive /\ Keeps(v, u)
  BY StopSound
<1>2. Loaded(v, ok) = [u EXCEPT !.language = ok]
  BY DEF Loaded
<1>. DEFINE l == [u EXCEPT !.language = ok]
<1>. HIDE DEF u
<1>3. /\ l \in Workers /\ l.queue = u.queue /\ l.running = u.running /\ l.cancel = u.cancel
      /\ l.finished = u.finished /\ l.text = u.text /\ l.failed = u.failed
      /\ l.waiting = u.waiting /\ l.epoch = u.epoch /\ l.alive = u.alive
  BY <1>1 DEF WorkerSound, Workers
<1>. HIDE DEF l
<1>4. WorkerSound(l, turn)
  BY <1>1, <1>3 DEF WorkerSound, InHand, InQueue, InFinished, IsRead, PicturesAreOfPages,
     TextsAreOfPages, IsOfPage
<1>. QED  BY <1>1, <1>2, <1>3, <1>4 DEF Keeps, l

\* What OcrPage leaves and answers.
LEMMA CheckSound ==
  ASSUME NEW turn \in Ways, NEW v, WorkerSound(v, turn), NEW page \in Pages
  PROVE  /\ WorkerSound(CheckPage(v, page, turn[page]), turn)
         /\ CheckPage(v, page, turn[page]).alive = v.alive
         /\ CheckPage(v, page, turn[page]).text = v.text
         /\ CheckPage(v, page, turn[page]).failed = v.failed
         /\ page \in Scans =>
              /\ CheckAnswer(v, page) # "notScan"
              /\ CheckAnswer(v, page) \in {"recognised", "failed", "error"} =>
                   page \in DOMAIN v.text \cup v.failed
<1>. DEFINE job == [page |-> page, epoch |-> v.epoch, picture |-> turn[page]]
            u   == [v EXCEPT !.queue = Append(@, job), !.waiting = @ \cup {page}]
            n   == [v EXCEPT !.notScan = @ \cup {page}]
<1>1. job \in Jobs /\ IsOfPage(job, v, turn) /\ job.page = page
  BY DEF Jobs, WorkerSound, Workers, IsOfPage, Ways
<1>2. page \notin Scans => WorkerSound(n, turn) /\ n.alive = v.alive /\ n.text = v.text /\ n.failed = v.failed
  BY DEF WorkerSound, Workers, InHand, InQueue, InFinished, IsRead, PicturesAreOfPages,
     TextsAreOfPages, IsOfPage
<1>3. WorkerSound(u, turn) /\ u.alive = v.alive /\ u.text = v.text /\ u.failed = v.failed
  <2>. HIDE DEF job
  <2>1. v \in Workers /\ v.queue \in Seq(Jobs) /\ v.waiting \in SUBSET Pages
    BY DEF WorkerSound, Workers
  <2>2. /\ Append(v.queue, job) \in Seq(Jobs)
        /\ Len(Append(v.queue, job)) = Len(v.queue) + 1
        /\ \A i \in DOMAIN v.queue : i \in DOMAIN Append(v.queue, job) /\ Append(v.queue, job)[i] = v.queue[i]
        /\ Len(v.queue) + 1 \in DOMAIN Append(v.queue, job)
        /\ Append(v.queue, job)[Len(v.queue) + 1] = job
        /\ \A i \in DOMAIN Append(v.queue, job) : i \in DOMAIN v.queue \/ i = Len(v.queue) + 1
    BY <1>1, <2>1
  <2>. DEFINE q == Append(v.queue, job)
  <2>. HIDE DEF q
  <2>3. u = [v EXCEPT !.queue = q, !.waiting = v.waiting \cup {page}]
    BY <2>1 DEF Workers, q
  <2>4. u \in Workers /\ u.queue = q /\ u.waiting = v.waiting \cup {page}
        /\ u.running = v.running /\ u.finished = v.finished /\ u.cancel = v.cancel
        /\ u.epoch = v.epoch /\ u.text = v.text /\ u.alive = v.alive /\ u.failed = v.failed
    BY <2>1, <2>2, <2>3 DEF Workers, q
  <2>. HIDE DEF u
  <2>5. \A i \in DOMAIN v.queue : i \in DOMAIN q /\ q[i] = v.queue[i]
    BY <2>2 DEF q
  <2>6. \E i \in DOMAIN q : q[i].page = page
    BY <2>2, <1>1 DEF q
  <2>7. \A i \in DOMAIN q : q[i] = job \/ (i \in DOMAIN v.queue /\ q[i] = v.queue[i])
    BY <2>2 DEF q
  <2>8. InHand(u)
    <3>1. ASSUME NEW p \in u.waiting PROVE InQueue(u, p) \/ InFinished(u, p) \/ IsRead(u, p)
      <4>1. CASE p = page
        BY <4>1, <2>6, <2>4 DEF InQueue
      <4>2. CASE p \in v.waiting
        <5>1. InQueue(v, p) \/ InFinished(v, p) \/ IsRead(v, p)
          BY <4>2 DEF WorkerSound, InHand
        <5>. QED  BY <5>1, <2>4, <2>5 DEF InQueue, InFinished, IsRead
      <4>. QED  BY <4>1, <4>2, <2>4
    <3>. QED  BY <3>1 DEF InHand
  <2>9. PicturesAreOfPages(u, turn)
    BY <2>4, <2>7, <1>1 DEF PicturesAreOfPages, IsOfPage, WorkerSound
  <2>. QED  BY <2>4, <2>8, <2>9 DEF WorkerSound, TextsAreOfPages
<1>4. \/ CheckPage(v, page, turn[page]) = v
      \/ page \notin Scans /\ CheckPage(v, page, turn[page]) = n
      \/ CheckPage(v, page, turn[page]) = u
  BY Zenon DEF CheckPage
<1>5. page \in Scans => page \notin v.notScan /\ page \notin Broken
  BY PagesAssumption DEF WorkerSound, Workers
<1>6. page \in Scans =>
        /\ CheckAnswer(v, page) # "notScan"
        /\ CheckAnswer(v, page) \in {"recognised", "failed", "error"} =>
             page \in DOMAIN v.text \cup v.failed
  BY <1>5 DEF CheckAnswer, Known
<1>. HIDE DEF u, n
<1>. QED  BY <1>2, <1>3, <1>4, <1>6

\* Pages that are turned or leave the document.
LEMMA ForgetSound ==
  ASSUME NEW turn \in Ways, NEW v, WorkerSound(v, turn), NEW pages \in SUBSET Pages
  PROVE  /\ WorkerSound(Forget(v, pages), turn) /\ Forget(v, pages).alive = v.alive
         /\ DOMAIN Forget(v, pages).text = DOMAIN v.text \ pages
<1>. DEFINE u == Forget(v, pages)
            text == Restrict(v.text, DOMAIN v.text \ pages)
<1>1. v \in Workers
  BY DEF WorkerSound
<1>2. PICK P \in SUBSET Pages : v.text \in [P -> Turns]
  BY <1>1 DEF Workers, TextsRead
<1>3. /\ DOMAIN text = DOMAIN v.text \ pages /\ text \in TextsRead
      /\ \A page \in DOMAIN text : text[page] = v.text[page]
  <2>1. text \in [P \ pages -> Turns]
    BY <1>2 DEF Restrict
  <2>. QED  BY <1>2, <2>1 DEF Restrict, TextsRead
<1>. HIDE DEF text
<1>4. u = [v EXCEPT !.text = text, !.notScan = v.notScan \ pages,
                    !.failed = v.failed \ pages, !.waiting = v.waiting \ pages]
  BY <1>1 DEF Forget, Workers, text
<1>5. /\ u \in Workers /\ u.queue = v.queue /\ u.running = v.running /\ u.cancel = v.cancel
      /\ u.finished = v.finished /\ u.text = text /\ u.alive = v.alive
      /\ u.waiting = v.waiting \ pages /\ u.epoch = v.epoch
  BY <1>1, <1>3, <1>4 DEF Workers
<1>. HIDE DEF u
<1>6. WorkerSound(u, turn)
  BY <1>3, <1>5 DEF WorkerSound, InHand, InQueue, InFinished, IsRead, PicturesAreOfPages,
     TextsAreOfPages, IsOfPage
<1>. QED  BY <1>3, <1>5, <1>6 DEF u

\* A new epoch: the pages forgotten may be turned, the others not.
LEMMA NewEpochSound ==
  ASSUME NEW turn \in Ways, NEW new \in Ways, NEW v, WorkerSound(v, turn),
         NEW pages \in SUBSET Pages, \A page \in Pages \ pages : new[page] = turn[page],
         NEW u, u = [Forget(v, pages) EXCEPT !.epoch = @ + 1]
  PROVE  WorkerSound(u, new) /\ u.alive = v.alive
<1>. DEFINE f == Forget(v, pages)
<1>1. WorkerSound(f, turn) /\ f.alive = v.alive /\ DOMAIN f.text = DOMAIN v.text \ pages
  BY ForgetSound
<1>. HIDE DEF f
<1>2. f \in Workers
  BY <1>1 DEF WorkerSound
<1>3. u = [f EXCEPT !.epoch = f.epoch + 1]
  BY <1>2 DEF f, Workers
<1>n. f.epoch + 1 \in Nat
  BY <1>2 DEF Workers
<1>4. /\ u \in Workers /\ u.queue = f.queue /\ u.running = f.running /\ u.cancel = f.cancel
      /\ u.finished = f.finished /\ u.text = f.text /\ u.alive = f.alive
      /\ u.waiting = f.waiting /\ u.epoch = f.epoch + 1
  BY <1>2, <1>3, <1>n DEF Workers
<1>5. ASSUME NEW job \in Jobs, IsOfPage(job, f, turn) PROVE IsOfPage(job, u, new)
  <2>1. f.epoch \in Nat /\ job.epoch \in Nat
    BY <1>2 DEF Workers, Jobs
  <2>. QED  BY <1>4, <1>5, <2>1 DEF IsOfPage
<1>6. PicturesAreOfPages(u, new)
  <2>1. /\ \A i \in DOMAIN f.queue : f.queue[i] \in Jobs
        /\ \A i \in DOMAIN f.finished : f.finished[i].job \in Jobs
        /\ f.running # NoJob => f.running \in Jobs
    <3>1. f.queue \in Seq(Jobs) /\ f.finished \in Seq(Done) /\ f.running \in Jobs \cup {NoJob}
      BY <1>2 DEF Workers
    <3>2. \A i \in DOMAIN f.finished : f.finished[i] \in Done
      BY <3>1
    <3>. QED  BY <3>1, <3>2 DEF Done
  <2>. QED  BY <1>1, <1>4, <1>5, <2>1 DEF WorkerSound, PicturesAreOfPages
<1>7. TextsAreOfPages(u, new)
  <2>1. DOMAIN f.text \in SUBSET Pages
    BY <1>2 DEF Workers, TextsRead
  <2>. QED  BY <1>1, <1>4, <2>1 DEF WorkerSound, TextsAreOfPages
<1>8. InHand(u)
  BY <1>1, <1>4 DEF WorkerSound, InHand, InQueue, InFinished, IsRead
<1>. QED  BY <1>1, <1>4, <1>6, <1>7, <1>8 DEF WorkerSound

\* The thread takes the next page ...
LEMMA TakesSound ==
  ASSUME NEW turn \in Ways, NEW v, WorkerSound(v, turn), v.queue # <<>>, v.running = NoJob
  PROVE  LET u == TakesJob(v) IN WorkerSound(u, turn) /\ u.alive = v.alive /\ Keeps(v, u)
<1>. DEFINE u == TakesJob(v)
<1>1. v \in Workers
  BY DEF WorkerSound
<1>2. v.queue \in Seq(Jobs)
  BY <1>1 DEF Workers
<1>3. /\ Head(v.queue) \in Jobs /\ Tail(v.queue) \in Seq(Jobs)
      /\ 1 \in DOMAIN v.queue /\ Head(v.queue) = v.queue[1]
      /\ \A i \in DOMAIN Tail(v.queue) : i + 1 \in DOMAIN v.queue /\ Tail(v.queue)[i] = v.queue[i + 1]
      /\ \A i \in DOMAIN v.queue : i = 1 \/ (i - 1 \in DOMAIN Tail(v.queue) /\ Tail(v.queue)[i - 1] = v.queue[i])
  BY <1>2
<1>. DEFINE q == Tail(v.queue)
            h == Head(v.queue)
<1>4. /\ h \in Jobs /\ q \in Seq(Jobs) /\ \E i \in DOMAIN v.queue : h = v.queue[i]
      /\ \A i \in DOMAIN q : \E k \in DOMAIN v.queue : q[i] = v.queue[k]
      /\ \A i \in DOMAIN v.queue : v.queue[i] = h \/ \E k \in DOMAIN q : q[k] = v.queue[i]
  BY <1>3
<1>. HIDE DEF q, h
<1>5. u = [v EXCEPT !.queue = q, !.running = h, !.cancel = FALSE]
  BY <1>1 DEF TakesJob, Workers, q, h
<1>6. /\ u \in Workers /\ u.queue = q /\ u.running = h /\ u.cancel = FALSE
      /\ u.finished = v.finished /\ u.text = v.text /\ u.alive = v.alive
      /\ u.failed = v.failed /\ u.waiting = v.waiting /\ u.epoch = v.epoch
  BY <1>1, <1>4, <1>5 DEF Workers
<1>. HIDE DEF u
<1>7. h # NoJob
  BY <1>4, NoJobAssumption
<1>8. InHand(u)
  <2>1. ASSUME NEW p \in u.waiting PROVE InQueue(u, p) \/ InFinished(u, p) \/ IsRead(u, p)
    <3>1. InQueue(v, p) \/ InFinished(v, p)
      BY <1>6, <2>1 DEF WorkerSound, InHand, IsRead
    <3>2. CASE InQueue(v, p)
      BY <3>2, <1>4, <1>6, <1>7 DEF InQueue, IsRead
    <3>3. CASE InFinished(v, p)
      BY <3>3, <1>6 DEF InFinished
    <3>. QED  BY <3>1, <3>2, <3>3
  <2>. QED  BY <2>1 DEF InHand
<1>9. PicturesAreOfPages(u, turn)
  BY <1>4, <1>6 DEF PicturesAreOfPages, IsOfPage, WorkerSound
<1>. QED  BY <1>6, <1>8, <1>9 DEF WorkerSound, TextsAreOfPages, Keeps, u

\* ... puts it with the finished ones ...
LEMMA EndsSound ==
  ASSUME NEW turn \in Ways, NEW v, WorkerSound(v, turn), v.running # NoJob, NEW ok \in BOOLEAN
  PROVE  LET u == EndsJob(v, ok) IN WorkerSound(u, turn) /\ u.alive = v.alive /\ Keeps(v, u)
<1>. DEFINE u == EndsJob(v, ok)
            done == [job |-> v.running, ok |-> ok]
            q == Append(v.finished, done)
<1>1. v \in Workers
  BY DEF WorkerSound
<1>2. v.finished \in Seq(Done) /\ done \in Done /\ done.job = v.running
  BY <1>1 DEF Workers, Done
<1>. HIDE DEF done
<1>3. /\ q \in Seq(Done)
      /\ \A i \in DOMAIN v.finished : i \in DOMAIN q /\ q[i] = v.finished[i]
      /\ Len(v.finished) + 1 \in DOMAIN q /\ q[Len(v.finished) + 1] = done
      /\ \A i \in DOMAIN q : i \in DOMAIN v.finished \/ i = Len(v.finished) + 1
  BY <1>2
<1>4. /\ \E i \in DOMAIN q : q[i] = done
      /\ \A i \in DOMAIN q : q[i] = done \/ (i \in DOMAIN v.finished /\ q[i] = v.finished[i])
  BY <1>3
<1>5. u = [v EXCEPT !.running = NoJob, !.cancel = FALSE, !.finished = q]
  BY <1>1 DEF EndsJob, Workers, q, done
<1>. HIDE DEF q
<1>6. /\ u \in Workers /\ u.queue = v.queue /\ u.running = NoJob /\ u.cancel = FALSE
      /\ u.finished = q /\ u.text = v.text /\ u.alive = v.alive
      /\ u.failed = v.failed /\ u.waiting = v.waiting /\ u.epoch = v.epoch
  BY <1>1, <1>3, <1>5 DEF Workers
<1>. HIDE DEF u
<1>7. InHand(u)
  <2>1. ASSUME NEW p \in u.waiting PROVE InQueue(u, p) \/ InFinished(u, p) \/ IsRead(u, p)
    <3>1. InQueue(v, p) \/ InFinished(v, p) \/ IsRead(v, p)
      BY <1>6, <2>1 DEF WorkerSound, InHand
    <3>2. InQueue(v, p) => InQueue(u, p)
      BY <1>6 DEF InQueue
    <3>3. InFinished(v, p) => InFinished(u, p)
      BY <1>3, <1>6 DEF InFinished
    <3>4. IsRead(v, p) => InFinished(u, p)
      BY <1>2, <1>4, <1>6 DEF InFinished, IsRead
    <3>. QED  BY <3>1, <3>2, <3>3, <3>4
  <2>. QED  BY <2>1 DEF InHand
<1>8. PicturesAreOfPages(u, turn)
  BY <1>2, <1>4, <1>6 DEF PicturesAreOfPages, IsOfPage, WorkerSound
<1>. QED  BY <1>6, <1>7, <1>8 DEF WorkerSound, TextsAreOfPages, Keeps, u

\* ... or gives it up, told to stop.
LEMMA GivesUpSound ==
  ASSUME NEW turn \in Ways, NEW v, WorkerSound(v, turn), v.cancel
  PROVE  LET u == GivesUpJob(v) IN WorkerSound(u, turn) /\ u.alive = v.alive /\ Keeps(v, u)
<1>. DEFINE u == GivesUpJob(v)
<1>1. v \in Workers
  BY DEF WorkerSound
<1>2. /\ u \in Workers /\ u.queue = v.queue /\ u.running = NoJob /\ u.cancel = FALSE
      /\ u.finished = v.finished /\ u.text = v.text /\ u.alive = v.alive
      /\ u.failed = v.failed /\ u.waiting = v.waiting /\ u.epoch = v.epoch
  BY <1>1 DEF Workers, GivesUpJob
<1>. HIDE DEF u
<1>3. InHand(u)
  BY <1>2 DEF WorkerSound, InHand, InQueue, InFinished, IsRead
<1>. QED
  BY <1>2, <1>3 DEF WorkerSound, TextsAreOfPages, PicturesAreOfPages, IsOfPage, Keeps, u

\* OcrPoll: what is finished is known, unless it is out of date.
LEMMA PolledSound ==
  ASSUME NEW turn \in Ways, NEW v, WorkerSound(v, turn), NEW inDocument
  PROVE  LET u == Polled(v, inDocument)
         IN /\ WorkerSound(u, turn) /\ u.alive = v.alive /\ Keeps(v, u)
            /\ \A page \in OcrReported(v, Range(v.finished), inDocument) :
                 page \in inDocument /\ page \in DOMAIN u.text \cup u.failed
<1>. DEFINE done  == Range(v.finished)
            about == {f \in done : f.job.epoch = v.epoch /\ f.job.page \in inDocument}
            read  == {f \in about : f.ok}
            text  == [page \in DOMAIN v.text \cup {f.job.page : f \in read} |->
                        IF \E f \in read : f.job.page = page
                        THEN (CHOOSE f \in read : f.job.page = page).job.picture
                        ELSE v.text[page]]
            u     == Polled(v, inDocument)
<1>1. v \in Workers
  BY DEF WorkerSound
<1>2. /\ \A f \in done : f \in Done /\ f.job \in Jobs /\ IsOfPage(f.job, v, turn)
      /\ \A f \in done : \E i \in DOMAIN v.finished : f = v.finished[i]
      /\ \A i \in DOMAIN v.finished : v.finished[i] \in done
  <2>1. v.finished \in Seq(Done)
    BY <1>1 DEF Workers
  <2>2. done = {v.finished[i] : i \in DOMAIN v.finished}
    BY DEF Range
  <2>3. \A i \in DOMAIN v.finished : v.finished[i] \in Done
    BY <2>1
  <2>. HIDE DEF done
  <2>. QED  BY <2>2, <2>3 DEF WorkerSound, PicturesAreOfPages, Done
<1>. HIDE DEF done
<1>3. ASSUME NEW page \in {f.job.page : f \in read}
      PROVE  page \in Pages /\ text[page] \in Turns /\ text[page] = turn[page]
  <2>1. PICK f \in read : f.job.page = page
    BY <1>3
  <2>. DEFINE g == CHOOSE f1 \in read : f1.job.page = page
  <2>2. g \in read /\ g.job.page = page
    BY <2>1
  <2>3. text[page] = g.job.picture
    BY <2>1
  <2>. HIDE DEF g, text
  <2>4. g \in done /\ g.job.epoch = v.epoch
    BY <2>2
  <2>. QED  BY <2>2, <2>3, <2>4, <1>2 DEF IsOfPage, Jobs
<1>4. /\ DOMAIN text = {f.job.page : f \in read} \cup DOMAIN v.text
      /\ \A page \in DOMAIN text : page \notin {f.job.page : f \in read} => text[page] = v.text[page]
      /\ text = [page \in DOMAIN text |-> text[page]]
  OBVIOUS
<1>. HIDE DEF text
<1>5. text \in TextsRead
  <2>1. PICK P \in SUBSET Pages : v.text \in [P -> Turns]
    BY <1>1 DEF Workers, TextsRead
  <2>2. text \in [P \cup {f.job.page : f \in read} -> Turns]
    BY <2>1, <1>3, <1>4
  <2>3. P \cup {f.job.page : f \in read} \in SUBSET Pages
    BY <1>3
  <2>. QED  BY <2>2, <2>3 DEF TextsRead
<1>6. {f.job.page : f \in about \ read} \in SUBSET Pages
  BY <1>2 DEF Jobs
<1>7. u = [v EXCEPT !.waiting = v.waiting \ {f.job.page : f \in done}, !.text = text,
                    !.failed = v.failed \cup {f.job.page : f \in about \ read},
                    !.finished = <<>>]
  BY <1>1 DEF Polled, OcrFinish, Workers, text, done
<1>. DEFINE gone == {f.job.page : f \in done}
            bad  == {f.job.page : f \in about \ read}
<1>8. \A page \in OcrReported(v, done, inDocument) :
        page \in inDocument /\ page \in {f.job.page : f \in read} \cup bad
  BY DEF OcrReported
<1>9. \A i \in DOMAIN v.finished : v.finished[i].job.page \in gone
  BY <1>2
<1>. HIDE DEF gone, bad, about, read
<1>10. /\ u \in Workers /\ u.queue = v.queue /\ u.running = v.running /\ u.cancel = v.cancel
       /\ u.finished = <<>> /\ u.text = text /\ u.alive = v.alive
       /\ u.failed = v.failed \cup bad /\ u.waiting = v.waiting \ gone /\ u.epoch = v.epoch
  BY <1>1, <1>5, <1>6, <1>7, EmptySeq DEF Workers, gone, bad
<1>. HIDE DEF u
<1>11. InHand(u)
  BY <1>9, <1>10 DEF WorkerSound, InHand, InQueue, InFinished, IsRead
<1>12. PicturesAreOfPages(u, turn)
  BY <1>10 DEF WorkerSound, PicturesAreOfPages, IsOfPage
<1>13. TextsAreOfPages(u, turn)
  BY <1>3, <1>4, <1>10 DEF WorkerSound, TextsAreOfPages
<1>. QED
  BY <1>4, <1>8, <1>10, <1>11, <1>12, <1>13 DEF WorkerSound, Keeps, u, done
-----------------------------------------------------------------------------
(* The session and the document.                                            *)

Runs == {"idle", "running", "done", "stopped", "failed", "noLanguage"}
Indices == {q \in SUBSET Nat : IsFiniteSet(q)}

Sessions ==
  [run : Runs, manual : BOOLEAN, needsStop : BOOLEAN, worker : Nat, layout : Nat,
   loaded : BOOLEAN, needsLanguage : BOOLEAN, asked : SUBSET Nat, cursor : Nat,
   focus : Nat, queued : Indices, late : BOOLEAN, quiet : Nat, scans : Nat,
   answered : Nat]

Documents ==
  [pages : Seq(Pages), turn : Ways, layout : Nat, worker : Nat, lost : BOOLEAN,
   before : Seq([pages : Seq(Pages), turn : Ways])]

\* The session walks over the document as it is, with the worker it has.
InStep(t, d, v) ==
  t.layout = d.layout /\ t.worker = d.worker /\ v.alive /\ t.run \notin {"stopped", "failed"}

\* A page asked about and not waited for was read, failed or is no scan, and the
\* progress lacks the pages waited for.
IsKnown(page, v) == page \in Scans => page \in DOMAIN v.text \cup v.failed

Walked(t, d, v) ==
  /\ t.queued \subseteq t.asked /\ t.asked \subseteq DOMAIN d.pages
  /\ t.scans = t.answered + Cardinality(t.queued)
  /\ \A i \in t.asked \ t.queued : IsKnown(d.pages[i], v)
  /\ t.run = "done" => t.asked = DOMAIN d.pages /\ t.queued = {}

\* Neither layouts nor workers come back.
Counted(t, d) == t.layout <= d.layout /\ t.worker <= d.worker /\ d.layout >= 1

Sound(t, d, v) ==
  /\ t \in Sessions /\ d \in Documents /\ WorkerSound(v, d.turn)
  /\ Counted(t, d)
  /\ t.needsStop => t.run = "stopped"
  /\ InStep(t, d, v) => Walked(t, d, v)

\* The state in the middle of a tick.
Ticks == [s : Sessions, w : Workers, d : Documents, go : BOOLEAN]

TickSound(st) ==
  /\ st \in Ticks /\ Sound(st.s, st.d, st.w)
  /\ ~st.s.needsStop /\ st.s.run # "done"

\* What of a session the walk does not change.
SameWalk(t, r) ==
  r.run = t.run /\ r.layout = t.layout /\ r.worker = t.worker /\ r.needsStop = t.needsStop
SameAsked(t, r) ==
  r.asked = t.asked /\ r.queued = t.queued /\ r.scans = t.scans /\ r.answered = t.answered

\* The worker may know more than it did.
LEMMA KnowsMore ==
  ASSUME NEW t, NEW r, NEW d, NEW v, NEW u, Sound(t, d, v), r \in Sessions,
         SameWalk(t, r), SameAsked(t, r),
         WorkerSound(u, d.turn), u.alive = v.alive, Keeps(v, u)
  PROVE  Sound(r, d, u)
<1>1. InStep(r, d, u) => InStep(t, d, v)
  BY DEF InStep, SameWalk
<1>2. Walked(t, d, v) => Walked(r, d, u)
  BY DEF Walked, SameWalk, SameAsked, IsKnown, Keeps
<1>. QED  BY <1>1, <1>2 DEF Sound, Counted, SameWalk

\* One more page was asked about, and the worker knows it ...
LEMMA KnownIsAsked ==
  ASSUME NEW t, NEW r, NEW d, NEW v, NEW u, Sound(t, d, v), r \in Sessions,
         SameWalk(t, r), NEW i \in DOMAIN d.pages \ t.asked,
         WorkerSound(u, d.turn), u.alive = v.alive, Keeps(v, u),
         IsKnown(d.pages[i], u), r.asked = t.asked \cup {i}, r.queued = t.queued,
         \/ r.scans = t.scans + 1 /\ r.answered = t.answered + 1
         \/ r.scans = t.scans /\ r.answered = t.answered
  PROVE  Sound(r, d, u)
<1>1. InStep(r, d, u) => InStep(t, d, v)
  BY DEF InStep, SameWalk
<1>2. Walked(t, d, v) => Walked(r, d, u)
  <2>1. IsFiniteSet(t.queued) /\ Cardinality(t.queued) \in Nat
    BY FS_CardinalityType DEF Sound, Sessions, Indices
  <2>2. t.scans \in Nat /\ t.answered \in Nat
    BY DEF Sound, Sessions
  <2>. QED  BY <2>1, <2>2 DEF Walked, SameWalk, IsKnown, Keeps
<1>. QED  BY <1>1, <1>2 DEF Sound, Counted, SameWalk

\* ... or put it in its queue.
LEMMA QueuedIsAsked ==
  ASSUME NEW t, NEW r, NEW d, NEW v, NEW u, Sound(t, d, v), r \in Sessions,
         SameWalk(t, r), NEW i \in DOMAIN d.pages \ t.asked,
         WorkerSound(u, d.turn), u.alive = v.alive, Keeps(v, u),
         r.asked = t.asked \cup {i}, r.queued = t.queued \cup {i},
         r.scans = t.scans + 1, r.answered = t.answered
  PROVE  Sound(r, d, u)
<1>1. InStep(r, d, u) => InStep(t, d, v)
  BY DEF InStep, SameWalk
<1>2. Walked(t, d, v) => Walked(r, d, u)
  <2>. SUFFICES ASSUME Walked(t, d, v) PROVE Walked(r, d, u)
    OBVIOUS
  <2>1. IsFiniteSet(t.queued) /\ Cardinality(t.queued) \in Nat
    BY FS_CardinalityType DEF Sound, Sessions, Indices
  <2>2. t.scans \in Nat /\ t.answered \in Nat
    BY DEF Sound, Sessions
  <2>3. Cardinality(r.queued) = Cardinality(t.queued) + 1
    BY <2>1, FS_AddElement DEF Walked
  <2>. QED  BY <2>1, <2>2, <2>3 DEF Walked, SameWalk, IsKnown, Keeps
<1>. QED  BY <1>1, <1>2 DEF Sound, Counted, SameWalk

\* The worker was lost.
LEMMA LostSound ==
  ASSUME NEW t, NEW d, NEW v, NEW turn, t \in Sessions, d \in Documents,
         WorkerSound(v, d.turn), Counted(t, d), ~t.needsStop, t.run = "failed"
  PROVE  Sound(t, [d EXCEPT !.lost = TRUE], v)
<1>. DEFINE l == [d EXCEPT !.lost = TRUE]
<1>1. l \in Documents /\ l.turn = d.turn /\ l.layout = d.layout /\ l.worker = d.worker
  BY DEF Documents
<1>. HIDE DEF l
<1>. QED  BY <1>1 DEF Sound, InStep, Counted, l

\* The walk starts again.
LEMMA ResetSound ==
  ASSUME NEW t, NEW d, NEW v, t \in Sessions, d \in Documents,
         WorkerSound(v, d.turn), Counted(t, d), ~t.needsStop, t.run # "done"
  PROVE  LET r == ResetWalk(d, t)
         IN Sound(r, d, v) /\ r \in Sessions /\ SameWalk(t, r)
<1>. DEFINE r == ResetWalk(d, t)
            cursor == IF t.focus \in DOMAIN d.pages THEN t.focus ELSE Len(d.pages)
<1>1. cursor \in Nat
  BY DEF Documents, Sessions
<1>. HIDE DEF cursor
<1>2. {} \in Indices
  BY FS_EmptySet DEF Indices
<1>3. r = [t EXCEPT !.asked = {}, !.queued = {}, !.late = FALSE, !.quiet = 0,
                    !.scans = 0, !.answered = 0, !.cursor = cursor]
  BY DEF ResetWalk, cursor
<1>. HIDE DEF r
<1>4. /\ r \in Sessions /\ SameWalk(t, r) /\ r.asked = {} /\ r.queued = {}
      /\ r.scans = 0 /\ r.answered = 0
  BY <1>1, <1>2, <1>3 DEF Sessions, SameWalk
<1>5. Walked(r, d, v)
  <2>1. Cardinality({}) = 0
    BY FS_EmptySet
  <2>. QED  BY <1>4, <2>1 DEF Walked, SameWalk
<1>. QED  BY <1>4, <1>5 DEF Sound, Counted, SameWalk, r

-----------------------------------------------------------------------------
(* What one tick does.                                                      *)

\* A non-empty set of numbers has a least one.
LEMMA Minimum ==
  ASSUME NEW S \in SUBSET Nat, S # {}
  PROVE  \E x \in S : \A y \in S : x <= y
<1>1. PICK x \in S : \A y \in S : ~ (<<y, x>> \in OpToRel(<, Nat))
  BY NatLessThanWellFounded, WFMin
<1>2. \A y \in S : ~(y < x)
  BY <1>1 DEF OpToRel
<1>. QED  BY <1>2

LEMMA NextPageFacts ==
  ASSUME NEW d \in Documents, NEW t, Remaining(d, t) # {}
  PROVE  NextPage(d, t) \in DOMAIN d.pages \ t.asked
<1>. DEFINE left == Remaining(d, t)
            on   == {i \in left : i >= t.cursor}
            from == IF on # {} THEN on ELSE left
<1>1. from # {} /\ from \subseteq left
  OBVIOUS
<1>2. left \in SUBSET Nat /\ left = DOMAIN d.pages \ t.asked
  BY DEF Remaining, Documents
<1>. HIDE DEF from, left
<1>3. \E i \in from : \A j \in from : i <= j
  BY <1>1, <1>2, Minimum
<1>4. (CHOOSE i \in from : \A j \in from : i <= j) \in from
  BY <1>3
<1>5. NextPage(d, t) = CHOOSE i \in from : \A j \in from : i <= j
  BY DEF NextPage, from, left
<1>. QED  BY <1>1, <1>2, <1>4, <1>5

\* One page asked about leaves the tick sound.
LEMMA AskOneSound ==
  ASSUME NEW st, TickSound(st)
  PROVE  TickSound(AskOne(st))
<1>. DEFINE t == st.s
            v == st.w
            d == st.d
            index == NextPage(d, t)
            page == PageOf(d, index)
            answer == CheckAnswer(v, page)
            u == CheckPage(v, page, d.turn[page])
            marked == Mark(t, index)
            next == [st EXCEPT !.w = u, !.s.cursor = index]
<1>1. /\ st \in Ticks /\ Sound(t, d, v) /\ ~t.needsStop /\ t.run # "done"
      /\ t \in Sessions /\ d \in Documents /\ WorkerSound(v, d.turn) /\ d.turn \in Ways
      /\ Counted(t, d)
  BY DEF TickSound, Sound, Documents
<1>2. CASE ~st.go \/ Remaining(d, t) = {}
  <2>1. AskOne(st) = [st EXCEPT !.go = FALSE]
    BY <1>2 DEF AskOne
  <2>2. /\ [st EXCEPT !.go = FALSE] \in Ticks
        /\ [st EXCEPT !.go = FALSE].s = t /\ [st EXCEPT !.go = FALSE].w = v
        /\ [st EXCEPT !.go = FALSE].d = d
    BY <1>1 DEF Ticks
  <2>. QED  BY <1>1, <2>1, <2>2 DEF TickSound
<1>3. CASE st.go /\ Remaining(d, t) # {}
  <2>1. index \in DOMAIN d.pages \ t.asked /\ index \in Nat /\ page = d.pages[index] /\ page \in Pages
    <3>1. index \in DOMAIN d.pages \ t.asked
      BY <1>1, <1>3, NextPageFacts
    <3>2. d.pages \in Seq(Pages)
      BY <1>1 DEF Documents
    <3>. QED  BY <3>1, <3>2 DEF PageOf
  <2>2. /\ WorkerSound(u, d.turn) /\ u.alive = v.alive /\ Keeps(v, u)
        /\ page \in Scans =>
              /\ answer # "notScan"
              /\ answer \in {"recognised", "failed", "error"} => page \in DOMAIN v.text \cup v.failed
    BY <1>1, <2>1, CheckSound DEF Keeps
  <2>3. AskOne(st) =
          IF ~v.alive THEN [Lose(st) EXCEPT !.go = FALSE]
          ELSE CASE answer = "notScan" -> [next EXCEPT !.s = marked]
                 [] answer \in {"recognised", "failed", "error"} ->
                      [next EXCEPT !.s = [marked EXCEPT !.scans = @ + 1, !.answered = @ + 1]]
                 [] answer = "queued" ->
                      [next EXCEPT !.go = FALSE,
                         !.s = [marked EXCEPT !.scans = @ + 1, !.queued = @ \cup {index},
                                  !.late = IF st.s.queued = {} THEN FALSE ELSE @]]
                 [] answer = "full" -> [next EXCEPT !.go = FALSE]
                 [] answer = "noLanguage" ->
                      [next EXCEPT !.go = FALSE, !.s.loaded = FALSE, !.s.needsLanguage = TRUE]
    BY <1>3, Zenon DEF AskOne
  <2>4. answer \in {"notScan", "recognised", "failed", "error", "queued", "full", "noLanguage"}
    BY DEF CheckAnswer, Known
  <2>. HIDE DEF index, page, answer, u
  <2>5. CASE ~v.alive
    <3>. DEFINE l == [d EXCEPT !.lost = TRUE]
                r == [t EXCEPT !.run = "failed"]
    <3>1. AskOne(st) = [st EXCEPT !.d = l, !.s = r, !.go = FALSE]
      BY <1>1, <2>3, <2>5 DEF Lose, Ticks
    <3>2. /\ r \in Sessions /\ r.run = "failed" /\ Counted(r, d) /\ ~r.needsStop
          /\ l \in Documents
      BY <1>1 DEF Sessions, Documents, Counted, Runs
    <3>3. Sound(r, l, v)
      BY <1>1, <3>2, LostSound
    <3>. HIDE DEF l, r
    <3>. QED  BY <1>1, <3>1, <3>2, <3>3 DEF Ticks, TickSound
  <2>6. /\ marked \in Sessions /\ SameWalk(t, marked) /\ marked.asked = t.asked \cup {index}
        /\ marked.queued = t.queued /\ marked.scans = t.scans /\ marked.answered = t.answered
        /\ marked.late = t.late
    BY <1>1, <2>1 DEF Sessions, Mark, SameWalk
  <2>7. t.scans + 1 \in Nat /\ t.answered + 1 \in Nat /\ t.queued \cup {index} \in Indices
        /\ (IF st.s.queued = {} THEN FALSE ELSE marked.late) \in BOOLEAN
    <3>1. IsFiniteSet(t.queued \cup {index})
      BY <1>1, FS_AddElement DEF Sessions, Indices
    <3>2. t.scans \in Nat /\ t.answered \in Nat /\ t.late \in BOOLEAN /\ t.queued \in SUBSET Nat
      BY <1>1 DEF Sessions, Indices
    <3>3. t.queued \cup {index} \in Indices
      BY <2>1, <3>1, <3>2 DEF Indices
    <3>. HIDE DEF marked
    <3>4. t.scans + 1 \in Nat /\ t.answered + 1 \in Nat
      BY <3>2
    <3>5. (IF st.s.queued = {} THEN FALSE ELSE marked.late) \in BOOLEAN
      BY <2>6, <3>2, Zenon
    <3>. QED  BY <3>3, <3>4, <3>5, Zenon
  <2>. DEFINE cur == [t EXCEPT !.cursor = index]
              known == [marked EXCEPT !.scans = @ + 1, !.answered = @ + 1]
              queued == [marked EXCEPT !.scans = @ + 1, !.queued = @ \cup {index},
                                  !.late = IF st.s.queued = {} THEN FALSE ELSE @]
              lang == [cur EXCEPT !.loaded = FALSE, !.needsLanguage = TRUE]
  <2>8. /\ cur \in Sessions /\ SameWalk(t, cur) /\ SameAsked(t, cur)
    BY <1>1, <2>1 DEF Sessions, SameWalk, SameAsked
  <2>. HIDE DEF marked, cur
  <2>9. /\ known \in Sessions /\ SameWalk(t, known) /\ known.asked = t.asked \cup {index}
        /\ known.queued = t.queued /\ known.scans = t.scans + 1 /\ known.answered = t.answered + 1
    BY <2>6, <2>7 DEF Sessions, SameWalk
  <2>10. /\ queued \in Sessions /\ SameWalk(t, queued) /\ queued.asked = t.asked \cup {index}
        /\ queued.queued = t.queued \cup {index} /\ queued.scans = t.scans + 1
        /\ queued.answered = t.answered
    BY <2>6, <2>7 DEF Sessions, SameWalk
  <2>11. /\ lang \in Sessions /\ SameWalk(t, lang) /\ SameAsked(t, lang)
    BY <2>8 DEF Sessions, SameWalk, SameAsked
  <2>. HIDE DEF known, queued, lang
  <2>12. ASSUME NEW r, Sound(r, d, u), r \in Sessions, SameWalk(t, r), NEW go \in BOOLEAN,
                AskOne(st) = [s |-> r, w |-> u, d |-> d, go |-> go]
         PROVE  TickSound(AskOne(st))
    BY <1>1, <2>2, <2>12 DEF TickSound, Ticks, SameWalk, WorkerSound
  <2>13. /\ next = [s |-> cur, w |-> u, d |-> d, go |-> st.go]
         /\ st.go \in BOOLEAN
    <3>1. next = [st EXCEPT !.w = u, !.s = cur]
      BY <1>1 DEF Ticks, cur
    <3>. HIDE DEF next
    <3>. QED  BY <1>1, <3>1 DEF Ticks
  <2>14. CASE v.alive /\ answer = "notScan"
    <3>1. AskOne(st) = [s |-> marked, w |-> u, d |-> d, go |-> st.go]
      BY <2>3, <2>13, <2>14
    <3>2. Sound(marked, d, u)
      BY <1>1, <2>1, <2>2, <2>6, <2>14, KnownIsAsked DEF IsKnown
    <3>. QED  BY <2>6, <2>12, <2>13, <3>1, <3>2
  <2>15. CASE v.alive /\ answer \in {"recognised", "failed", "error"}
    <3>1. AskOne(st) = [s |-> known, w |-> u, d |-> d, go |-> st.go]
      BY <2>3, <2>13, <2>15 DEF known
    <3>2. Sound(known, d, u)
      BY <1>1, <2>1, <2>2, <2>9, <2>15, KnownIsAsked DEF IsKnown, Keeps
    <3>. QED  BY <2>9, <2>12, <2>13, <3>1, <3>2
  <2>16. CASE v.alive /\ answer = "queued"
    <3>1. AskOne(st) = [s |-> queued, w |-> u, d |-> d, go |-> FALSE]
      BY <2>3, <2>13, <2>16 DEF queued
    <3>2. Sound(queued, d, u)
      BY <1>1, <2>1, <2>2, <2>10, <2>16, QueuedIsAsked
    <3>. QED  BY <2>10, <2>12, <3>1, <3>2
  <2>17. CASE v.alive /\ answer = "full"
    <3>1. AskOne(st) = [s |-> cur, w |-> u, d |-> d, go |-> FALSE]
      BY <2>3, <2>13, <2>17
    <3>2. Sound(cur, d, u)
      BY <1>1, <2>2, <2>8, KnowsMore
    <3>. QED  BY <2>8, <2>12, <3>1, <3>2
  <2>18. CASE v.alive /\ answer = "noLanguage"
    <3>1. AskOne(st) = [s |-> lang, w |-> u, d |-> d, go |-> FALSE]
      BY <2>3, <2>13, <2>18 DEF lang
    <3>2. Sound(lang, d, u)
      BY <1>1, <2>2, <2>11, KnowsMore
    <3>. QED  BY <2>11, <2>12, <3>1, <3>2
  <2>. QED  BY <2>4, <2>5, <2>14, <2>15, <2>16, <2>17, <2>18
<1>. QED  BY <1>2, <1>3, <1>1 DEF Ticks

\* The turns of the loop, one after the other.
Turned(st, k, f) ==
  f = [i \in 0..k |-> IF i = 0 THEN {[st EXCEPT !.go = TRUE]} ELSE {AskOne(x) : x \in f[i - 1]}]

LEMMA TurnsExist ==
  ASSUME NEW st, NEW n \in Nat
  PROVE  \E f : Turned(st, n, f)
<1>. DEFINE S == {k \in Nat : ~ \E f : Turned(st, k, f)}
<1>. SUFFICES ASSUME S # {} PROVE FALSE
  OBVIOUS
<1>1. PICK k \in S : \A j \in S : k <= j
  BY Minimum
<1>2. CASE k = 0
  <2>. DEFINE f == [i \in 0..0 |-> {[st EXCEPT !.go = TRUE]}]
  <2>1. f = [i \in 0..0 |-> IF i = 0 THEN {[st EXCEPT !.go = TRUE]} ELSE {AskOne(x) : x \in f[i - 1]}]
    OBVIOUS
  <2>2. Turned(st, 0, f)
    BY <2>1 DEF Turned
  <2>. QED  BY <1>2, <2>2
<1>3. CASE k # 0
  <2>1. k \in Nat /\ k - 1 \in Nat /\ k - 1 \notin S
    BY <1>1, <1>3
  <2>2. PICK f : Turned(st, k - 1, f)
    BY <2>1
  <2>3. f = [i \in 0..k - 1 |-> IF i = 0 THEN {[st EXCEPT !.go = TRUE]} ELSE {AskOne(x) : x \in f[i - 1]}]
    BY <2>2 DEF Turned
  <2>. DEFINE g == [i \in 0..k |-> IF i < k THEN f[i] ELSE {AskOne(x) : x \in f[k - 1]}]
  <2>4. /\ \A i \in 0..k : i # k => g[i] = f[i] /\ i \in 0..k - 1
        /\ g[k] = {AskOne(x) : x \in f[k - 1]}
        /\ DOMAIN g = 0..k /\ g = [i \in 0..k |-> g[i]]
    BY <2>1
  <2>. HIDE DEF g
  <2>5. ASSUME NEW i \in 0..k
        PROVE  g[i] = IF i = 0 THEN {[st EXCEPT !.go = TRUE]} ELSE {AskOne(x) : x \in g[i - 1]}
    <3>1. CASE i = k
      <4>1. g[k - 1] = f[k - 1]
        BY <2>1, <2>4
      <4>. QED  BY <1>3, <2>4, <3>1, <4>1
    <3>2. CASE i # k /\ i # 0
      <4>1. i \in 0..k - 1 /\ i - 1 \in 0..k /\ i - 1 # k
        BY <2>1, <3>2
      <4>2. g[i] = f[i] /\ g[i - 1] = f[i - 1]
        BY <2>4, <3>2, <4>1
      <4>3. f[i] = {AskOne(x) : x \in f[i - 1]}
        BY <2>3, <3>2, <4>1
      <4>. QED  BY <3>2, <4>2, <4>3
    <3>3. CASE i # k /\ i = 0
      <4>1. f[0] = {[st EXCEPT !.go = TRUE]}
        BY <2>1, <2>3
      <4>. QED  BY <2>4, <3>3, <4>1
    <3>. QED  BY <3>1, <3>2, <3>3
  <2>6. Turned(st, k, g)
    BY <2>4, <2>5 DEF Turned
  <2>. QED  BY <1>1, <2>6
<1>. QED  BY <1>2, <1>3

LEMMA AskSound ==
  ASSUME NEW st, TickSound(st), NEW n \in Nat
  PROVE  \A x \in Ask(st, n) : TickSound(x)
<1>. DEFINE after == CHOOSE f : Turned(st, n, f)
<1>1. Turned(st, n, after)
  BY TurnsExist
<1>2. Ask(st, n) = after[n]
  BY DEF Ask, Turned
<1>. HIDE DEF after
<1>3. \A i \in 0..n : after[i] = IF i = 0 THEN {[st EXCEPT !.go = TRUE]}
                                 ELSE {AskOne(x) : x \in after[i - 1]}
  BY <1>1 DEF Turned
<1>. DEFINE S == {i \in 0..n : \E x \in after[i] : ~TickSound(x)}
<1>4. S = {}
  <2>. SUFFICES ASSUME S # {} PROVE FALSE
    OBVIOUS
  <2>1. S \in SUBSET Nat
    OBVIOUS
  <2>2. PICK i \in S : \A j \in S : i <= j
    BY <2>1, Minimum
  <2>3. PICK x \in after[i] : ~TickSound(x)
    BY <2>2
  <2>4. CASE i = 0
    <3>1. x = [st EXCEPT !.go = TRUE]
      BY <1>3, <2>3, <2>4
    <3>2. x \in Ticks /\ x.s = st.s /\ x.w = st.w /\ x.d = st.d
      BY <3>1 DEF TickSound, Ticks
    <3>. QED  BY <2>3, <3>2 DEF TickSound
  <2>5. CASE i # 0
    <3>1. i - 1 \in 0..n /\ i - 1 \notin S /\ i \in 0..n
      BY <2>2, <2>5
    <3>2. PICK y \in after[i - 1] : x = AskOne(y)
      <4>1. after[i] = {AskOne(y) : y \in after[i - 1]}
        BY <1>3, <2>5, <3>1
      <4>. QED  BY <2>3, <4>1, Zenon
    <3>3. TickSound(y)
      BY <3>1, <3>2
    <3>. QED  BY <2>3, <3>2, <3>3, AskOneSound
  <2>. QED  BY <2>4, <2>5
<1>. QED  BY <1>2, <1>4

LEMMA LoseIs ==
  ASSUME NEW t, NEW v, NEW d, NEW go
  PROVE  Lose([s |-> t, w |-> v, d |-> d, go |-> go]) =
           [s |-> [t EXCEPT !.run = "failed"], w |-> v, d |-> [d EXCEPT !.lost = TRUE], go |-> go]
<1>. DEFINE l == [d EXCEPT !.lost = TRUE]
            r == [t EXCEPT !.run = "failed"]
            st == [s |-> t, w |-> v, d |-> d, go |-> go]
<1>1. Lose(st) = [st EXCEPT !.d = l, !.s = r]
  BY DEF Lose
<1>. HIDE DEF l, r
<1>2. Lose(st) = [s |-> r, w |-> v, d |-> l, go |-> go]
  BY <1>1
<1>. QED  BY <1>2 DEF l, r

\* What is collected is known, and what is lost is asked for again.
LEMMA CollectSound ==
  ASSUME NEW st, TickSound(st)
  PROVE  TickSound(Collect(st))
<1>. DEFINE t == st.s
            v == st.w
            d == st.d
            pages == OcrReported(v, Range(v.finished), InDocument(d))
            reported == {IndexOf(d, p) : p \in pages}
            quiet == reported = {}
            queued == t.queued \ reported
            u == Polled(v, InDocument(d))
            passed == IF ~quiet THEN 0 ELSE IF t.quiet < QuietPolls THEN t.quiet + 1 ELSE t.quiet
            late == t.late /\ quiet /\ queued # {}
            more == t.answered + Cardinality(t.queued \cap reported)
            polled == [st EXCEPT
                        !.w = u,
                        !.s.quiet = IF ~quiet THEN 0 ELSE IF @ < QuietPolls THEN @ + 1 ELSE @,
                        !.s.late = @ /\ quiet /\ queued # {},
                        !.s.queued = queued,
                        !.s.answered = @ + Cardinality(t.queued \cap reported)]
            r == [t EXCEPT !.quiet = passed, !.late = late, !.queued = queued, !.answered = more]
            l == [d EXCEPT !.lost = TRUE]
<1>1. /\ st \in Ticks /\ Sound(t, d, v) /\ ~t.needsStop /\ t.run # "done"
      /\ t \in Sessions /\ d \in Documents /\ WorkerSound(v, d.turn) /\ d.turn \in Ways
      /\ Counted(t, d)
  BY DEF TickSound, Sound, Documents
<1>2. Collect(st) =
        IF ~v.alive THEN [Lose(st) EXCEPT !.s.queued = {}]
        ELSE IF queued # {} /\ Waiting(v) = 0 /\ polled.s.quiet = QuietPolls
        THEN [polled EXCEPT !.s = ResetWalk(d, polled.s)]
        ELSE IF queued # {} /\ polled.s.late
        THEN [Lose(polled) EXCEPT !.s.queued = {}, !.w = DeadWorker]
        ELSE polled
  BY DEF Collect
<1>3. /\ WorkerSound(u, d.turn) /\ u.alive = v.alive /\ Keeps(v, u)
      /\ \A page \in pages : page \in InDocument(d) /\ page \in DOMAIN u.text \cup u.failed
  BY <1>1, PolledSound
<1>4. ASSUME NEW i \in reported PROVE IsKnown(d.pages[i], u)
  <2>1. PICK p \in pages : i = IndexOf(d, p)
    BY <1>4
  <2>2. p \in InDocument(d) /\ p \in DOMAIN u.text \cup u.failed
    BY <1>3
  <2>3. \E k \in DOMAIN d.pages : d.pages[k] = p
    BY <2>2 DEF InDocument, Range
  <2>4. d.pages[i] = p
    BY <2>1, <2>3 DEF IndexOf
  <2>. QED  BY <2>2, <2>4 DEF IsKnown
<1>. HIDE DEF reported, u, pages
<1>5. /\ t.queued \in SUBSET Nat /\ IsFiniteSet(t.queued) /\ queued \in Indices
      /\ Cardinality(t.queued) \in Nat /\ Cardinality(queued) \in Nat
      /\ Cardinality(t.queued \cap reported) \in Nat
      /\ Cardinality(queued) + Cardinality(t.queued \cap reported) = Cardinality(t.queued)
  <2>1. t.queued \in SUBSET Nat /\ IsFiniteSet(t.queued)
    BY <1>1 DEF Sessions, Indices
  <2>2. IsFiniteSet(queued) /\ IsFiniteSet(t.queued \cap reported)
    BY <2>1, FS_Subset
  <2>3. Cardinality(t.queued \ reported) = Cardinality(t.queued) - Cardinality(t.queued \cap reported)
    BY <2>1, FS_Difference
  <2>. QED  BY <2>1, <2>2, <2>3, FS_CardinalityType DEF Indices
<1>6. /\ passed \in Nat /\ late \in BOOLEAN /\ more \in Nat
      /\ t.scans \in Nat /\ t.answered \in Nat
  BY <1>1, <1>5 DEF Sessions
<1>. HIDE DEF passed, late, more
<1>7. /\ r \in Sessions /\ SameWalk(t, r) /\ r.asked = t.asked /\ r.queued = queued
      /\ r.scans = t.scans /\ r.answered = more /\ r.late = late /\ r.quiet = passed
  BY <1>1, <1>5, <1>6 DEF Sessions, SameWalk
<1>8. polled = [s |-> r, w |-> u, d |-> d, go |-> st.go] /\ st.go \in BOOLEAN
  <2>1. polled = [st EXCEPT !.w = u, !.s = r]
    BY <1>1 DEF Ticks, Sessions, passed, late, more
  <2>. HIDE DEF polled, r
  <2>. QED  BY <1>1, <2>1 DEF Ticks
<1>. HIDE DEF polled, r
<1>9. Sound(r, d, u)
  <2>1. InStep(r, d, u) => InStep(t, d, v)
    BY <1>3, <1>7 DEF InStep, SameWalk
  <2>2. Walked(t, d, v) => Walked(r, d, u)
    <3>. SUFFICES ASSUME Walked(t, d, v) PROVE Walked(r, d, u)
      OBVIOUS
    <3>1. r.scans = r.answered + Cardinality(r.queued)
      BY <1>5, <1>6, <1>7 DEF Walked, more
    <3>2. ASSUME NEW i \in r.asked \ r.queued PROVE IsKnown(d.pages[i], u)
      <4>1. CASE i \in reported
        BY <4>1, <1>4
      <4>2. CASE i \notin reported
        BY <4>2, <3>2, <1>3, <1>7 DEF Walked, IsKnown, Keeps
      <4>. QED  BY <4>1, <4>2
    <3>. QED  BY <1>1, <1>7, <3>1, <3>2 DEF Walked, SameWalk
  <2>. QED  BY <1>1, <1>3, <1>7, <2>1, <2>2 DEF Sound, Counted, SameWalk
<1>10. u \in Workers /\ v \in Workers /\ DeadWorker \in Workers /\ WorkerSound(DeadWorker, d.turn)
  BY <1>1, <1>3, FreshWorkerSound DEF WorkerSound
<1>11. TickSound(polled)
  BY <1>1, <1>7, <1>8, <1>9, <1>10 DEF TickSound, Ticks, SameWalk
<1>12. ASSUME NEW q \in Sessions, SameWalk(t, q), NEW b, WorkerSound(b, d.turn), NEW x,
              x = [s |-> [q EXCEPT !.run = "failed", !.queued = {}], w |-> b, d |-> l, go |-> st.go]
       PROVE  TickSound(x)
  <2>. DEFINE f == [q EXCEPT !.run = "failed", !.queued = {}]
  <2>0. {} \in Indices
    BY FS_EmptySet DEF Indices
  <2>1. /\ f \in Sessions /\ f.run = "failed" /\ f.layout = q.layout /\ f.worker = q.worker
        /\ ~f.needsStop
    BY <1>1, <1>12, <2>0 DEF Sessions, Runs, SameWalk
  <2>2. l \in Documents
    BY <1>1 DEF Documents
  <2>. HIDE DEF f
  <2>3. Sound(f, l, b)
    BY <1>1, <1>12, <2>1, LostSound DEF Counted, SameWalk
  <2>. HIDE DEF l
  <2>. QED  BY <1>8, <1>12, <2>1, <2>2, <2>3 DEF TickSound, Ticks, f, WorkerSound
<1>13. CASE ~v.alive
  <2>1. Collect(st) = [Lose(st) EXCEPT !.s.queued = {}]
    BY <1>2, <1>13
  <2>2. Collect(st) = [st EXCEPT !.d = l, !.s = [t EXCEPT !.run = "failed", !.queued = {}]]
    BY <1>1, <2>1 DEF Lose, Ticks, Sessions
  <2>3. Collect(st) = [s |-> [t EXCEPT !.run = "failed", !.queued = {}], w |-> v, d |-> l, go |-> st.go]
    <3>. DEFINE f == [t EXCEPT !.run = "failed", !.queued = {}]
    <3>. HIDE DEF f, l
    <3>1. Collect(st) = [st EXCEPT !.d = l, !.s = f]
      BY <2>2 DEF f
    <3>2. Collect(st) = [s |-> f, w |-> v, d |-> l, go |-> st.go]
      BY <1>1, <3>1 DEF Ticks
    <3>. QED  BY <3>2 DEF f
  <2>4. SameWalk(t, t)
    BY DEF SameWalk
  <2>. QED  BY <1>1, <1>12, <2>3, <2>4
<1>14. CASE v.alive /\ queued # {} /\ Waiting(v) = 0 /\ polled.s.quiet = QuietPolls
  <2>. DEFINE x == ResetWalk(d, r)
  <2>1. Collect(st) = [polled EXCEPT !.s = ResetWalk(d, polled.s)]
    BY <1>2, <1>14
  <2>2. Sound(x, d, u) /\ x \in Sessions /\ SameWalk(r, x)
    BY <1>1, <1>3, <1>7, ResetSound DEF Counted, SameWalk
  <2>. HIDE DEF x
  <2>3. Collect(st) = [s |-> x, w |-> u, d |-> d, go |-> st.go]
    BY <1>8, <2>1 DEF x
  <2>. QED  BY <1>1, <1>7, <1>8, <1>10, <2>2, <2>3 DEF TickSound, Ticks, SameWalk
<1>15. CASE v.alive /\ Collect(st) = [Lose(polled) EXCEPT !.s.queued = {}, !.w = DeadWorker]
  <2>. DEFINE f == [r EXCEPT !.run = "failed", !.queued = {}]
  <2>1. Lose(polled) = [s |-> [r EXCEPT !.run = "failed"], w |-> u, d |-> l, go |-> st.go]
    BY <1>8, LoseIs DEF l
  <2>2. Collect(st) = [s |-> f, w |-> DeadWorker, d |-> l, go |-> st.go]
    <3>. DEFINE g == [r EXCEPT !.run = "failed"]
    <3>1. f = [g EXCEPT !.queued = {}]
      BY <1>7 DEF Sessions
    <3>2. Lose(polled) = [s |-> g, w |-> u, d |-> l, go |-> st.go]
      BY <2>1 DEF g
    <3>. HIDE DEF f, g, l
    <3>3. Collect(st) = [Lose(polled) EXCEPT !.s = [g EXCEPT !.queued = {}], !.w = DeadWorker]
      BY <1>15, <3>2
    <3>4. Collect(st) = [[s |-> g, w |-> u, d |-> l, go |-> st.go] EXCEPT !.s = f, !.w = DeadWorker]
      BY <3>1, <3>2, <3>3, Zenon
    <3>. QED  BY <3>4
  <2>. HIDE DEF l
  <2>. QED  BY <1>7, <1>10, <1>12, <2>2
<1>. QED  BY <1>2, <1>11, <1>13, <1>14, <1>15

LEMMA LanguageSound ==
  ASSUME NEW st, TickSound(st), st.s.run = "running",
         NEW readable \in BOOLEAN, NEW takes \in BOOLEAN
  PROVE  TickSound(EnsureLanguage(st, readable, takes))
<1>. DEFINE t == st.s
            v == st.w
            d == st.d
            e == EnsureLanguage(st, readable, takes)
            w1 == Loaded(v, takes /\ ~v.hung)
            loaded == [t EXCEPT !.loaded = TRUE, !.needsLanguage = FALSE]
<1>1. /\ st \in Ticks /\ Sound(t, d, v) /\ ~t.needsStop /\ t.run # "done" /\ st.go \in BOOLEAN
      /\ t \in Sessions /\ d \in Documents /\ WorkerSound(v, d.turn) /\ d.turn \in Ways
      /\ Counted(t, d) /\ v \in Workers /\ st = [s |-> t, w |-> v, d |-> d, go |-> st.go]
  BY DEF TickSound, Sound, Documents, WorkerSound, Ticks
<1>2. /\ WorkerSound(w1, d.turn) /\ w1.alive = v.alive /\ Keeps(v, w1) /\ w1 \in Workers
  <2>1. (takes /\ ~v.hung) \in BOOLEAN
    OBVIOUS
  <2>. QED  BY <1>1, <2>1, LoadedSound DEF WorkerSound
<1>3. ASSUME NEW r \in Sessions, NEW b \in Workers, Sound(r, d, b), r.run # "done", ~r.needsStop,
             e = [s |-> r, w |-> b, d |-> d, go |-> st.go]
      PROVE  TickSound(e)
  <2>. HIDE DEF e
  <2>. QED  BY <1>1, <1>3 DEF TickSound, Ticks
\* A session that cannot go on, with the worker as it is.
<1>4. ASSUME NEW run \in {"noLanguage", "failed"}, NEW b, b = v \/ b = w1,
             run = "noLanguage" => b = v,
             e = [s |-> [t EXCEPT !.run = run], w |-> b, d |-> d, go |-> st.go]
      PROVE  TickSound(e)
  <2>. DEFINE r == [t EXCEPT !.run = run]
  <2>1. /\ r \in Sessions /\ r.run = run /\ r.layout = t.layout /\ r.worker = t.worker
        /\ ~r.needsStop /\ r.asked = t.asked /\ r.queued = t.queued /\ r.scans = t.scans
        /\ r.answered = t.answered
    BY <1>1 DEF Sessions, Runs
  <2>. HIDE DEF r
  <2>2. InStep(r, d, b) => Walked(r, d, b)
    <3>. SUFFICES ASSUME InStep(r, d, b) PROVE Walked(r, d, b)
      OBVIOUS
    <3>1. run = "noLanguage" /\ b = v
      BY <1>4, <2>1 DEF InStep
    <3>. QED  BY <3>1, <1>1, <2>1 DEF InStep, Walked, Sound
  <2>3. Sound(r, d, b)
    BY <1>1, <1>2, <1>4, <2>1, <2>2 DEF Sound, Counted
  <2>. QED  BY <1>1, <1>2, <1>3, <1>4, <2>1, <2>3 DEF r
<1>. HIDE DEF w1
<1>5. CASE ~installed
  <2>1. e = [st EXCEPT !.s.run = "noLanguage"]
    BY <1>5 DEF EnsureLanguage
  <2>2. e = [s |-> [t EXCEPT !.run = "noLanguage"], w |-> v, d |-> d, go |-> st.go]
    <3>. DEFINE r == [t EXCEPT !.run = "noLanguage"]
    <3>1. e = [st EXCEPT !.s = r]
      BY <2>1
    <3>. HIDE DEF r, e
    <3>2. e = [s |-> r, w |-> v, d |-> d, go |-> st.go]
      BY <1>1, <3>1 DEF Ticks
    <3>. QED  BY <3>2 DEF r
  <2>. QED  BY <1>4, <2>2
<1>6. CASE installed /\ t.loaded
  <2>. DEFINE r == [t EXCEPT !.needsLanguage = FALSE]
  <2>1. e = [st EXCEPT !.s = r]
    BY <1>6 DEF EnsureLanguage
  <2>2. r \in Sessions /\ SameWalk(t, r) /\ SameAsked(t, r)
    BY <1>1 DEF Sessions, SameWalk, SameAsked
  <2>. HIDE DEF r
  <2>3. e = [s |-> r, w |-> v, d |-> d, go |-> st.go]
    BY <1>1, <2>1 DEF Ticks
  <2>4. Keeps(v, v)
    BY DEF Keeps
  <2>5. Sound(r, d, v)
    BY <1>1, <2>2, <2>4, KnowsMore
  <2>. QED  BY <1>1, <1>3, <2>2, <2>3, <2>5 DEF SameWalk
<1>7. CASE installed /\ ~t.loaded /\ ~readable
  <2>1. e = [st EXCEPT !.s.run = "failed"]
    BY <1>7 DEF EnsureLanguage
  <2>2. e = [s |-> [t EXCEPT !.run = "failed"], w |-> v, d |-> d, go |-> st.go]
    <3>. DEFINE r == [t EXCEPT !.run = "failed"]
    <3>1. e = [st EXCEPT !.s = r]
      BY <2>1
    <3>. HIDE DEF r, e
    <3>2. e = [s |-> r, w |-> v, d |-> d, go |-> st.go]
      BY <1>1, <3>1 DEF Ticks
    <3>. QED  BY <3>2 DEF r
  <2>. QED  BY <1>4, <2>2
<1>8. CASE installed /\ ~t.loaded /\ readable /\ ~v.alive
  <2>1. e = Lose(st)
    BY <1>8 DEF EnsureLanguage
  <2>. DEFINE r == [t EXCEPT !.run = "failed"]
              l == [d EXCEPT !.lost = TRUE]
  <2>2. e = [st EXCEPT !.d = l, !.s = r]
    BY <1>1, <2>1 DEF Lose, Ticks
  <2>3. r \in Sessions /\ r.run = "failed" /\ Counted(r, d) /\ ~r.needsStop /\ l \in Documents
    BY <1>1 DEF Sessions, Documents, Counted, Runs
  <2>4. Sound(r, l, v)
    BY <1>1, <2>3, LostSound
  <2>. HIDE DEF r, l
  <2>5. e = [s |-> r, w |-> v, d |-> l, go |-> st.go]
    BY <1>1, <2>2 DEF Ticks
  <2>. HIDE DEF e
  <2>6. TickSound(e)
    BY <1>1, <2>3, <2>4, <2>5 DEF TickSound, Ticks
  <2>. QED  BY <2>6 DEF e
<1>9. CASE installed /\ ~t.loaded /\ readable /\ v.alive /\ ~w1.language
  <2>1. e = [st EXCEPT !.s.run = "failed", !.w = w1]
    BY <1>9 DEF EnsureLanguage, w1
  <2>2. e = [s |-> [t EXCEPT !.run = "failed"], w |-> w1, d |-> d, go |-> st.go]
    <3>. DEFINE r == [t EXCEPT !.run = "failed"]
    <3>1. e = [st EXCEPT !.s = r, !.w = w1]
      BY <2>1
    <3>. HIDE DEF r, e
    <3>2. e = [s |-> r, w |-> w1, d |-> d, go |-> st.go]
      BY <1>1, <3>1 DEF Ticks
    <3>. QED  BY <3>2 DEF r
  <2>. QED  BY <1>4, <2>2
<1>10. CASE installed /\ ~t.loaded /\ readable /\ v.alive /\ w1.language
  <2>. DEFINE r == IF loaded.queued = {} THEN loaded ELSE ResetWalk(d, loaded)
  <2>1. e = [st EXCEPT !.w = w1, !.s = r]
    BY <1>10 DEF EnsureLanguage, w1
  <2>2. loaded \in Sessions /\ SameWalk(t, loaded) /\ SameAsked(t, loaded)
    BY <1>1 DEF Sessions, SameWalk, SameAsked
  <2>. HIDE DEF loaded
  <2>3. Sound(loaded, d, w1)
    BY <1>1, <1>2, <2>2, KnowsMore
  <2>4. Sound(r, d, w1) /\ r \in Sessions /\ SameWalk(t, r)
    <3>1. Counted(loaded, d) /\ ~loaded.needsStop /\ loaded.run # "done"
      BY <1>1, <2>2 DEF Counted, SameWalk
    <3>2. LET x == ResetWalk(d, loaded)
          IN Sound(x, d, w1) /\ x \in Sessions /\ SameWalk(loaded, x)
      BY <1>1, <1>2, <2>2, <3>1, ResetSound
    <3>. QED  BY <2>2, <2>3, <3>2 DEF SameWalk
  <2>. HIDE DEF r
  <2>5. e = [s |-> r, w |-> w1, d |-> d, go |-> st.go]
    BY <1>1, <2>1 DEF Ticks
  <2>. QED  BY <1>1, <1>2, <1>3, <2>4, <2>5 DEF SameWalk
<1>. QED  BY <1>5, <1>6, <1>7, <1>8, <1>9, <1>10

\* A walk starts over the document as it is, unless it goes on.
LEMMA TakesUpSound ==
  ASSUME Sound(s, doc, w), ~s.needsStop, GoesOn
  PROVE  TickSound([s |-> Takes(doc, s), w |-> w, d |-> doc, go |-> TRUE])
<1>. DEFINE run == [s EXCEPT !.run = "running"]
            other == [run EXCEPT !.worker = doc.worker, !.loaded = FALSE, !.layout = 0]
            worker == IF run.worker = doc.worker THEN run ELSE other
            start == [worker EXCEPT !.layout = doc.layout]
            t == Takes(doc, s)
<1>1. /\ s \in Sessions /\ doc \in Documents /\ WorkerSound(w, doc.turn) /\ Counted(s, doc)
      /\ doc.layout \in Nat /\ doc.worker \in Nat
  BY DEF Sound, Documents
<1>2. t = IF worker.layout = doc.layout THEN worker ELSE ResetWalk(doc, start)
  BY DEF Takes
<1>3. /\ run \in Sessions /\ run.run = "running" /\ run.layout = s.layout /\ run.worker = s.worker
      /\ ~run.needsStop /\ SameAsked(s, run)
  BY <1>1 DEF Sessions, Runs, SameAsked
<1>. HIDE DEF run
<1>4. /\ other \in Sessions /\ other.run = "running" /\ other.layout = 0 /\ other.worker = doc.worker
      /\ ~other.needsStop
  BY <1>1, <1>3 DEF Sessions
<1>. HIDE DEF other
<1>5. worker \in Sessions /\ worker.run = "running" /\ ~worker.needsStop /\ Counted(worker, doc)
      /\ worker.worker = doc.worker
  BY <1>1, <1>3, <1>4 DEF Counted
<1>6. CASE worker.layout = doc.layout
  <2>1. t = run /\ s.worker = doc.worker /\ s.layout = doc.layout
    BY <1>1, <1>2, <1>3, <1>4, <1>6 DEF Counted
  <2>2. s.run \notin {"stopped", "failed", "done"}
    BY <2>1 DEF GoesOn
  <2>3. Walked(s, doc, w) => Walked(run, doc, w)
    BY <1>3 DEF Walked, SameAsked
  <2>4. Sound(run, doc, w)
    BY <1>1, <1>3, <2>1, <2>2, <2>3 DEF Sound, InStep, Counted
  <2>. HIDE DEF t
  <2>5. TickSound([s |-> t, w |-> w, d |-> doc, go |-> TRUE])
    BY <1>1, <1>3, <2>1, <2>4 DEF TickSound, Ticks, WorkerSound
  <2>. QED  BY <2>5 DEF t
<1>7. CASE worker.layout # doc.layout
  <2>. HIDE DEF worker
  <2>1. /\ start \in Sessions /\ start.run = "running" /\ ~start.needsStop
        /\ start.layout = doc.layout /\ start.worker = doc.worker
    BY <1>1, <1>5 DEF Sessions
  <2>2. Counted(start, doc)
    BY <1>1, <2>1 DEF Counted
  <2>. HIDE DEF start
  <2>. DEFINE x == ResetWalk(doc, start)
  <2>3. Sound(x, doc, w) /\ x \in Sessions /\ SameWalk(start, x)
    BY <1>1, <2>1, <2>2, ResetSound
  <2>4. t = x
    BY <1>2, <1>7
  <2>. HIDE DEF x, t
  <2>5. TickSound([s |-> t, w |-> w, d |-> doc, go |-> TRUE])
    BY <1>1, <2>1, <2>3, <2>4 DEF TickSound, Ticks, WorkerSound, SameWalk
  <2>. QED  BY <2>5 DEF t
<1>. QED  BY <1>6, <1>7

\* A session that has nothing left to ask and waits for nothing is done.
LEMMA EndedSound ==
  ASSUME NEW st, TickSound(st)
  PROVE  LET e == Ended(st) IN Sound(e.s, e.d, e.w)
<1>. DEFINE t == st.s
            r == [t EXCEPT !.run = "done"]
<1>1. /\ st \in Ticks /\ Sound(t, st.d, st.w) /\ ~t.needsStop /\ t \in Sessions /\ st.d \in Documents
  BY DEF TickSound, Sound
<1>2. CASE t.run = "running" /\ Remaining(st.d, t) = {} /\ t.queued = {}
  <2>1. Ended(st) = [st EXCEPT !.s = r]
    BY <1>2 DEF Ended
  <2>2. /\ r \in Sessions /\ r.run = "done" /\ r.layout = t.layout /\ r.worker = t.worker
        /\ ~r.needsStop /\ SameAsked(t, r)
    BY <1>1 DEF Sessions, Runs, SameAsked
  <2>. HIDE DEF r
  <2>3. Ended(st).s = r /\ Ended(st).d = st.d /\ Ended(st).w = st.w
    BY <1>1, <2>1 DEF Ticks
  <2>4. InStep(r, st.d, st.w) => InStep(t, st.d, st.w)
    BY <1>2, <2>2 DEF InStep
  <2>5. Walked(t, st.d, st.w) => Walked(r, st.d, st.w)
    BY <1>2, <2>2 DEF Walked, SameAsked, Remaining
  <2>. QED  BY <1>1, <2>2, <2>3, <2>4, <2>5 DEF Sound, Counted
<1>3. CASE ~(t.run = "running" /\ Remaining(st.d, t) = {} /\ t.queued = {})
  <2>1. Ended(st) = st
    BY <1>3 DEF Ended
  <2>. QED  BY <1>1, <2>1
<1>. QED  BY <1>2, <1>3

-----------------------------------------------------------------------------
(* The steps.                                                               *)

\* The inductive invariant.
IInv == Sound(s, doc, w)

LEMMA KeepSound ==
  ASSUME NEW st, TickSound(st), Keep(st) \/ Keep(Ended(st))
  PROVE  IInv'
<1>1. CASE Keep(st)
  BY <1>1 DEF Keep, IInv, TickSound
<1>2. CASE Keep(Ended(st))
  BY <1>2, EndedSound DEF Keep, IInv
<1>. QED  BY <1>1, <1>2

LEMMA WorkStepSound ==
  ASSUME IInv, NEW mayStart \in BOOLEAN, WorkStep(mayStart)
  PROVE  IInv'
<1>. DEFINE start == [s |-> Takes(doc, s), w |-> w, d |-> doc, go |-> TRUE]
            collected == IF start.s.queued = {} THEN start ELSE Collect(start)
<1>1. TickSound(start)
  BY TakesUpSound DEF IInv, WorkStep
<1>2. TickSound(collected)
  BY <1>1, CollectSound
<1>3. \/ Keep(start) \/ Keep(Ended(collected))
      \/ \E n \in 1..StepPages : \E asked \in Ask(collected, n) : Language(asked)
  BY DEF WorkStep
<1>. HIDE DEF start, collected
<1>4. CASE Keep(start) \/ Keep(Ended(collected))
  BY <1>1, <1>2, <1>4, KeepSound
<1>5. ASSUME NEW n \in 1..StepPages, NEW asked \in Ask(collected, n), Language(asked)
      PROVE  IInv'
  <2>1. TickSound(asked)
    <3>1. n \in Nat
      OBVIOUS
    <3>. QED  BY <1>2, <3>1, AskSound
  <2>2. CASE ~(asked.s.run = "running" /\ asked.s.needsLanguage)
    BY <1>5, <2>1, <2>2, KeepSound DEF Language
  <2>3. ASSUME asked.s.run = "running", NEW readable \in BOOLEAN, NEW takes \in BOOLEAN,
               IF EnsureLanguage(asked, readable, takes).s.run = "running"
               THEN \E k \in 1..StepPages :
                      \E again \in Ask(EnsureLanguage(asked, readable, takes), k) : Keep(Ended(again))
               ELSE Keep(EnsureLanguage(asked, readable, takes))
        PROVE  IInv'
    <3>. DEFINE given == EnsureLanguage(asked, readable, takes)
    <3>1. TickSound(given)
      BY <2>1, <2>3, LanguageSound
    <3>2. CASE Keep(given)
      BY <3>1, <3>2, KeepSound
    <3>3. ASSUME NEW k \in 1..StepPages, NEW again \in Ask(given, k), Keep(Ended(again))
          PROVE  IInv'
      <4>1. k \in Nat
        OBVIOUS
      <4>2. TickSound(again)
        BY <3>1, <4>1, AskSound
      <4>. QED  BY <3>3, <4>2, KeepSound
    <3>. QED  BY <2>3, <3>2, <3>3
  <2>. QED  BY <1>5, <2>2, <2>3 DEF Language
<1>. QED  BY <1>3, <1>4, <1>5

LEMMA StopStepSound == ASSUME IInv, StopStep PROVE IInv'
<1>1. /\ s \in Sessions /\ doc \in Documents /\ WorkerSound(w, doc.turn) /\ Counted(s, doc)
      /\ s.run = "stopped" /\ doc.turn \in Ways
  BY DEF IInv, Sound, StopStep, Documents
<1>2. {} \in Indices
  BY FS_EmptySet DEF Indices
<1>3. CASE w.alive
  <2>1. s' = [s EXCEPT !.needsStop = FALSE, !.queued = {}] /\ w' = StopReader(w) /\ doc' = doc
    BY <1>3 DEF StopStep
  <2>2. s' \in Sessions /\ s'.run = "stopped" /\ Counted(s', doc)
    BY <1>1, <1>2, <2>1 DEF Sessions, Counted
  <2>3. WorkerSound(w', doc.turn)
    BY <1>1, <2>1, StopSound
  <2>. QED  BY <1>1, <2>1, <2>2, <2>3 DEF IInv, Sound, InStep
<1>4. CASE ~w.alive
  <2>1. /\ s' = [s EXCEPT !.needsStop = FALSE, !.queued = {}, !.run = "failed"] /\ w' = w
        /\ doc' = [doc EXCEPT !.lost = TRUE]
    BY <1>4 DEF StopStep
  <2>2. s' \in Sessions /\ s'.run = "failed" /\ Counted(s', doc) /\ ~s'.needsStop
    BY <1>1, <1>2, <2>1 DEF Sessions, Counted, Runs
  <2>. QED  BY <1>1, <2>1, <2>2, LostSound DEF IInv
<1>. QED  BY <1>3, <1>4

LEMMA OverdueSound == ASSUME IInv, Overdue PROVE IInv'
<1>1. s \in Sessions /\ s' = [s EXCEPT !.late = TRUE] /\ doc' = doc /\ w' = w
  BY DEF IInv, Sound, Overdue
<1>2. s' \in Sessions /\ SameWalk(s, s') /\ SameAsked(s, s') /\ Keeps(w, w)
  BY <1>1 DEF Sessions, SameWalk, SameAsked, Keeps
<1>. QED  BY <1>1, <1>2, KnowsMore DEF IInv, Sound

LEMMA CommandsSound == ASSUME IInv, Commands PROVE IInv'
<1>1. /\ s \in Sessions /\ doc \in Documents /\ WorkerSound(w, doc.turn) /\ Counted(s, doc)
      /\ doc' = doc /\ w' = w
  BY DEF IInv, Sound, Commands, Start, Stop, SetFocus
<1>2. CASE Start
  <2>1. /\ s' \in Sessions /\ s'.layout = 0 /\ s'.worker = s.worker /\ ~s'.needsStop
    BY <1>1, <1>2 DEF Start, Sessions, Runs
  <2>2. doc.layout \in Nat
    BY <1>1 DEF Documents
  <2>3. Counted(s', doc) /\ s'.layout # doc.layout
    BY <1>1, <2>1, <2>2 DEF Counted
  <2>. QED  BY <1>1, <2>1, <2>3 DEF IInv, Sound, InStep
<1>3. CASE Stop
  <2>1. /\ s' \in Sessions /\ s'.layout = s.layout /\ s'.worker = s.worker /\ s'.run = "stopped"
    BY <1>1, <1>3 DEF Stop, Sessions, Runs
  <2>. QED  BY <1>1, <2>1 DEF IInv, Sound, InStep, Counted
<1>4. ASSUME NEW index \in Focuses, SetFocus(index) PROVE IInv'
  <2>1. index \in Nat
    BY <1>1, <1>4 DEF SetFocus, Documents
  <2>2. s' \in Sessions /\ SameWalk(s, s') /\ SameAsked(s, s') /\ Keeps(w, w)
    BY <1>1, <1>4, <2>1 DEF SetFocus, Sessions, SameWalk, SameAsked, Keeps
  <2>. QED  BY <1>1, <2>2, KnowsMore DEF IInv
<1>. QED  BY <1>2, <1>3, <1>4 DEF Commands

\* After an edit the session is a layout behind.
LEMMA EditSound ==
  ASSUME IInv, s' = s, doc' \in Documents, doc'.layout = doc.layout + 1,
         doc'.worker = doc.worker, WorkerSound(w', doc'.turn)
  PROVE  IInv'
<1>1. s \in Sessions /\ Counted(s, doc) /\ doc \in Documents
  BY DEF IInv, Sound
<1>2. s.layout \in Nat /\ doc.layout \in Nat /\ s.worker \in Nat /\ doc.worker \in Nat
  BY <1>1 DEF Sessions, Documents
<1>. QED  BY <1>1, <1>2 DEF IInv, Sound, InStep, Counted

LEMMA LastFront ==
  ASSUME NEW S, NEW q \in Seq(S), q # <<>>
  PROVE  Last(q) \in S /\ Front(q) \in Seq(S)
<1>1. Len(q) \in Nat /\ Len(q) # 0
  OBVIOUS
<1>2. q[Len(q)] \in S
  BY <1>1
<1>3. SubSeq(q, 1, Len(q) - 1) \in Seq(S)
  BY <1>1
<1>. QED  BY <1>2, <1>3 DEF Last, Front

LEMMA EditsSound ==
  ASSUME IInv,
         Undo \/ \E page \in Pages : Delete(page) \/ \E turn \in Turns : Turn(page, turn)
  PROVE  IInv'
<1>. DEFINE Old == [pages : Seq(Pages), turn : Ways]
<1>1. /\ s \in Sessions /\ doc \in Documents /\ WorkerSound(w, doc.turn)
      /\ doc.pages \in Seq(Pages) /\ doc.turn \in Ways /\ doc.layout + 1 \in Nat
      /\ doc.before \in Seq(Old)
  BY DEF IInv, Sound, Documents
<1>2. ASSUME NEW pages \in Seq(Pages), NEW turn \in Ways, doc' = Edits(doc, pages, turn)
      PROVE  /\ doc' \in Documents /\ doc'.layout = doc.layout + 1 /\ doc'.worker = doc.worker
             /\ doc'.turn = turn
  <2>1. Append(doc.before, [pages |-> doc.pages, turn |-> doc.turn]) \in Seq(Old)
    BY <1>1
  <2>. QED  BY <1>1, <1>2, <2>1 DEF Edits, Documents
<1>3. ASSUME NEW page \in Pages, Delete(page) PROVE IInv'
  <2>1. IndexOf(doc, page) \in DOMAIN doc.pages
    BY <1>3 DEF Delete, InDocument, Range, IndexOf
  <2>2. RemoveAt(doc.pages, IndexOf(doc, page)) \in Seq(Pages)
    <3>. DEFINE k == IndexOf(doc, page)
    <3>1. k \in 1..Len(doc.pages) /\ Len(doc.pages) \in Nat
      BY <1>1, <2>1
    <3>. HIDE DEF k
    <3>2. SubSeq(doc.pages, 1, k - 1) \in Seq(Pages) /\ SubSeq(doc.pages, k + 1, Len(doc.pages)) \in Seq(Pages)
      BY <1>1, <3>1, SubSeqProperties
    <3>. QED  BY <3>2, ConcatProperties DEF RemoveAt, k
  <2>3. doc' = Edits(doc, RemoveAt(doc.pages, IndexOf(doc, page)), doc.turn) /\ w' = Forget(w, {page}) /\ s' = s
    BY <1>3 DEF Delete
  <2>4. WorkerSound(w', doc.turn)
    BY <1>1, <2>3, ForgetSound
  <2>. QED  BY <1>1, <1>2, <2>2, <2>3, <2>4, EditSound
<1>4. ASSUME NEW page \in Pages, NEW turn \in Turns, Turn(page, turn) PROVE IInv'
  <2>. DEFINE new == [doc.turn EXCEPT ![page] = turn]
  <2>1. doc' = Edits(doc, doc.pages, new) /\ w' = OcrTurned(w, {page}) /\ s' = s
    BY <1>4 DEF Turn
  <2>2. new \in Ways /\ \A p \in Pages \ {page} : new[p] = doc.turn[p]
    BY <1>1 DEF Ways
  <2>. HIDE DEF new
  <2>3. WorkerSound(w', new)
    BY <1>1, <2>1, <2>2, NewEpochSound DEF OcrTurned
  <2>. QED  BY <1>1, <1>2, <2>1, <2>2, <2>3, EditSound
<1>5. CASE Undo
  <2>. DEFINE last == Last(doc.before)
              rest == Front(doc.before)
  <2>1. /\ doc' = [doc EXCEPT !.pages = last.pages, !.turn = last.turn,
                              !.before = rest, !.layout = @ + 1]
        /\ w' = OcrReverted(w) /\ s' = s
    BY <1>5 DEF Undo
  <2>2. last \in Old /\ rest \in Seq(Old)
    <3>. HIDE DEF Old
    <3>. QED  BY <1>1, <1>5, LastFront DEF Undo
  <2>. HIDE DEF last, rest
  <2>3. /\ doc' \in Documents /\ doc'.layout = doc.layout + 1 /\ doc'.worker = doc.worker
        /\ doc'.turn = last.turn /\ last.turn \in Ways
    BY <1>1, <2>1, <2>2 DEF Documents
  <2>4. WorkerSound(w', doc'.turn)
    BY <1>1, <2>1, <2>3, NewEpochSound DEF OcrReverted
  <2>. QED  BY <2>1, <2>3, <2>4, EditSound
<1>. QED  BY <1>3, <1>4, <1>5

\* The worker goes on by itself, or is gone; a new one was not seen before.
LEMMA WorkerStepSound ==
  ASSUME IInv, Thread \/ Hangs \/ Dies \/ FindsLost \/ OpensAgain \/ Imports
  PROVE  IInv'
<1>1. /\ s \in Sessions /\ doc \in Documents /\ WorkerSound(w, doc.turn) /\ Counted(s, doc)
      /\ doc.turn \in Ways /\ w \in Workers /\ Keeps(w, w) /\ SameWalk(s, s) /\ SameAsked(s, s)
      /\ Sound(s, doc, w)
  BY DEF IInv, Sound, Documents, WorkerSound, Keeps, SameWalk, SameAsked
<1>2. ASSUME WorkerSound(w', doc.turn), w'.alive = w.alive, Keeps(w, w'), UNCHANGED <<s, doc>>
      PROVE  IInv'
  BY <1>1, <1>2, KnowsMore DEF IInv
<1>3. CASE Thread
  <2>1. UNCHANGED <<s, doc>>
    BY <1>3 DEF Thread, Takes1, Reads1
  <2>2. CASE Takes1
    BY <1>1, <1>2, <2>1, <2>2, TakesSound DEF Takes1
  <2>3. ASSUME NEW ok \in BOOLEAN, w.running # NoJob, w' = EndsJob(w, ok) PROVE IInv'
    BY <1>1, <1>2, <2>1, <2>3, EndsSound
  <2>4. ASSUME w.cancel, w' = GivesUpJob(w) PROVE IInv'
    BY <1>1, <1>2, <2>1, <2>4, GivesUpSound
  <2>. QED  BY <1>3, <2>2, <2>3, <2>4 DEF Thread, Reads1
<1>4. CASE Hangs
  <2>1. w' = [w EXCEPT !.hung = TRUE] /\ UNCHANGED <<s, doc>>
    BY <1>4 DEF Hangs
  <2>2. /\ w' \in Workers /\ w'.queue = w.queue /\ w'.running = w.running /\ w'.cancel = w.cancel
        /\ w'.finished = w.finished /\ w'.text = w.text /\ w'.failed = w.failed
        /\ w'.waiting = w.waiting /\ w'.epoch = w.epoch /\ w'.alive = w.alive
    BY <1>1, <2>1 DEF Workers
  <2>3. WorkerSound(w', doc.turn)
    BY <1>1, <2>2 DEF WorkerSound, InHand, InQueue, InFinished, IsRead, PicturesAreOfPages,
       TextsAreOfPages, IsOfPage
  <2>. QED  BY <1>2, <2>1, <2>2, <2>3 DEF Keeps
<1>5. CASE Dies
  <2>1. w' = DeadWorker /\ UNCHANGED <<s, doc>>
    BY <1>5 DEF Dies
  <2>2. WorkerSound(w', doc.turn) /\ ~w'.alive
    BY <1>1, <2>1, FreshWorkerSound
  <2>. QED  BY <1>1, <2>1, <2>2 DEF IInv, Sound, InStep
<1>6. CASE FindsLost
  <2>1. doc' = [doc EXCEPT !.lost = TRUE] /\ UNCHANGED <<s, w>> /\ ~w.alive
    BY <1>6 DEF FindsLost
  <2>2. doc' \in Documents /\ doc'.turn = doc.turn /\ Counted(s, doc')
    BY <1>1, <2>1 DEF Documents, Counted
  <2>. QED  BY <1>1, <2>1, <2>2 DEF IInv, Sound, InStep
<1>7. CASE OpensAgain
  <2>1. doc' = [doc EXCEPT !.lost = FALSE, !.worker = @ + 1] /\ w' = FreshWorker /\ s' = s
    BY <1>7 DEF OpensAgain
  <2>2. s.worker \in Nat /\ doc.worker \in Nat /\ doc.worker + 1 \in Nat
    BY <1>1 DEF Sessions, Documents
  <2>3. /\ doc' \in Documents /\ doc'.turn = doc.turn /\ doc'.worker = doc.worker + 1
        /\ doc'.layout = doc.layout
    BY <1>1, <2>1, <2>2 DEF Documents
  <2>4. WorkerSound(w', doc'.turn)
    BY <1>1, <2>1, <2>3, FreshWorkerSound
  <2>. QED  BY <1>1, <2>1, <2>2, <2>3, <2>4 DEF IInv, Sound, InStep, Counted
<1>8. CASE Imports
  BY <1>1, <1>8 DEF Imports, IInv
<1>. QED  BY <1>3, <1>4, <1>5, <1>6, <1>7, <1>8

LEMMA StepKeeps == ASSUME IInv, [Next]_vars PROVE IInv'
<1>1. CASE UNCHANGED vars
  BY <1>1 DEF vars, IInv
<1>. QED
  BY <1>1, StopStepSound, WorkStepSound, OverdueSound, CommandsSound, EditsSound,
     WorkerStepSound DEF Next

LEMMA InitSound == ASSUME Init PROVE IInv
<1>1. s = FreshSession /\ w = FreshWorker
      /\ doc = [pages |-> SetToSeq(Pages), turn |-> [p \in Pages |-> CHOOSE t \in Turns : TRUE],
                layout |-> 1, worker |-> 1, lost |-> FALSE, before |-> <<>>]
  BY DEF Init
<1>2. {} \in Indices
  BY FS_EmptySet DEF Indices
<1>3. s \in Sessions /\ s.layout = 0 /\ s.worker = 0 /\ ~s.needsStop
  BY <1>1, <1>2 DEF Sessions, FreshSession, Runs
<1>4. SetToSeq(Pages) \in Seq(Pages)
  <2>1. IsFiniteSet(Pages)
    BY PagesAssumption
  <2>2. Cardinality(Pages) \in Nat /\ ExistsBijection(1..Cardinality(Pages), Pages)
    BY <2>1, FS_CardinalityType
  <2>3. \E f \in [1..Cardinality(Pages) -> Pages] : IsInjective(f)
    BY <2>2 DEF ExistsBijection, Bijection, Injection, IsInjective
  <2>4. SetToSeq(Pages) \in [1..Cardinality(Pages) -> Pages]
    BY <2>3 DEF SetToSeq
  <2>. QED  BY <2>2, <2>4
<1>5. [p \in Pages |-> CHOOSE t \in Turns : TRUE] \in Ways
  BY TurnsAssumption DEF Ways
<1>6. doc \in Documents /\ doc.layout = 1 /\ doc.worker = 1 /\ doc.turn \in Ways
  BY <1>1, <1>4, <1>5, EmptySeq DEF Documents
<1>7. WorkerSound(w, doc.turn)
  BY <1>1, <1>6, FreshWorkerSound
<1>. QED  BY <1>3, <1>6, <1>7 DEF IInv, Sound, InStep, Counted

LEMMA IInvHolds == Spec => []IInv
<1>. QED  BY InitSound, StepKeeps, PTL DEF Spec

-----------------------------------------------------------------------------
(* What follows from it.                                                    *)

\* A page said to be waiting is in the thread's hands, or in what it finished
\* (OcrPages, Reader), however it is stopped, turned, reverted and asked about
\* again: an answer "queued" is always followed by one.
THEOREM WaitingStaysInHand == Spec => []WaitingIsInHand
<1>1. IInv => WaitingIsInHand
  <2>. SUFFICES ASSUME IInv, NEW page \in w.waiting
                PROVE  \/ page \in {f.job.page : f \in Range(w.finished)}
                       \/ page \in {j.page : j \in Range(w.queue)}
                       \/ page \in IF w.running = NoJob THEN {} ELSE {w.running.page}
    BY DEF WaitingIsInHand
  <2>1. InQueue(w, page) \/ InFinished(w, page) \/ IsRead(w, page)
    BY DEF IInv, Sound, WorkerSound, InHand
  <2>2. InQueue(w, page) => page \in {j.page : j \in Range(w.queue)}
    BY DEF InQueue, Range
  <2>3. InFinished(w, page) => page \in {f.job.page : f \in Range(w.finished)}
    BY DEF InFinished, Range
  <2>4. IsRead(w, page) => page \in IF w.running = NoJob THEN {} ELSE {w.running.page}
    BY DEF IsRead
  <2>. QED  BY <2>1, <2>2, <2>3, <2>4
<1>. QED  BY <1>1, IInvHolds, PTL

\* The text of a page is that of the page as it is turned now, whatever was being
\* read of it when it was turned, deleted or turned back (ocr_turned, ocr_finish).
THEOREM TextStaysOfThisPage == Spec => []TextIsOfThisPage
<1>1. IInv => TextIsOfThisPage
  BY DEF IInv, Sound, WorkerSound, TextsAreOfPages, TextIsOfThisPage
<1>. QED  BY <1>1, IInvHolds, PTL

\* A session that is done with the document as it is has left no scanned page unread
\* and its progress counts every one (collect, ask, take), however often the queue
\* was dropped, a language loaded or the worker lost in between.
THEOREM DoneStaysRead == Spec => []DoneMeansRead
<1>1. IInv => DoneMeansRead
  <2>. SUFFICES ASSUME IInv, s.run = "done", s.layout = doc.layout, s.worker = doc.worker, w.alive
                PROVE  /\ InDocument(doc) \cap Scans \subseteq DOMAIN w.text \cup w.failed
                       /\ s.answered = s.scans
    BY DEF DoneMeansRead
  <2>1. Walked(s, doc, w) /\ s \in Sessions
    BY DEF IInv, Sound, InStep
  <2>2. s.asked = DOMAIN doc.pages /\ s.queued = {}
    BY <2>1 DEF Walked
  <2>3. s.answered = s.scans
    <3>1. Cardinality({}) = 0 /\ s.answered \in Nat
      BY <2>1, FS_EmptySet DEF Sessions
    <3>. QED  BY <2>1, <2>2, <3>1 DEF Walked
  <2>4. ASSUME NEW page \in InDocument(doc) \cap Scans PROVE page \in DOMAIN w.text \cup w.failed
    <3>1. PICK i \in DOMAIN doc.pages : doc.pages[i] = page
      BY <2>4 DEF InDocument, Range
    <3>. QED  BY <2>1, <2>2, <2>4, <3>1 DEF Walked, IsKnown
  <2>. QED  BY <2>3, <2>4
<1>. QED  BY <1>1, IInvHolds, PTL
=============================================================================
