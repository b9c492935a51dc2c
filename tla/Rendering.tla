------------------------------ MODULE Rendering ------------------------------
(***************************************************************************)
(* The render thread (src-tauri/src/render.rs): its queue of pages, its    *)
(* cache of rendered pages, and the background work it does when no page   *)
(* waits, of which a search in a document (src-tauri/src/search.rs) is the *)
(* one here.                                                               *)
(*                                                                         *)
(* Around it, reduced to what touches it: tabs whose documents get another *)
(* id with every edit, commands on threads of their own that afterwards    *)
(* tell the renderer which documents are open (`after_tabs_changed`), and  *)
(* the worker's own cache of the text of pages it searched.  What is done  *)
(* under a document's lock is one step.  No other program writes the file  *)
(* meanwhile, so that a worker that ends is replaced by one with the same  *)
(* pages: Editing has what else can happen then.                           *)
(***************************************************************************)
EXTENDS Naturals, FiniteSets, FiniteSetsExt, SequencesExt

CONSTANTS
  Tabs, Threads,  \* tabs, and threads commands run on
  Searches,       \* searches that may be under way at once
  Contents,       \* what a document may have on its pages
  Hits,           \* ... and of it, the hits of the query, per page
  Bytes,          \* the size of a rendered page, per page
  CacheBytes,     \* the cache's budget
  MaxSearchHits,  \* a search ends there
  TextRoom,       \* pages whose text the worker keeps
  MaxDocs,        \* bound: document ids
  MaxAsked        \* bound: renders and searches the page asks for

Pages == DOMAIN Bytes

ASSUME HitsAssumption == Hits \in [Contents -> [Pages -> Nat]]
ASSUME BytesAssumption == Bytes \in Seq(Nat)
ASSUME MaxSearchHitsAssumption == MaxSearchHits \in Nat

VARIABLES
  documents, \* Tab::document: id, content, and the pages whose text its worker keeps
  events,    \* the id in Tab::event
  heard,     \* the id the page has heard
  made,      \* the content of each id given so far
  commands,  \* what each thread is doing
  queue,     \* State::queue, of requests: a document, a page, and whether all of it
  background,\* State::background, of searches
  cache,     \* State::cache, of entries: a key, what was drawn, and when it was used
  thread,    \* the render thread
  asked,     \* renders and searches asked for so far
  waiting,   \* callers that still wait for a render's answer
  searches   \* what each search is doing

docVars == <<documents, events, heard, made, commands>>
queueVars == <<queue, cache, asked, waiting>>
vars == <<docVars, queueVars, background, thread, searches>>

NoDocument == [id |-> 0]
NoText == [p \in {} |-> 0]
Idle == [at |-> "idle"]
-----------------------------------------------------------------------------
(* The documents. *)

NewId == Len(made) + 1
OpenIds == {events[t] : t \in Tabs} \ {0}

\* with_document: the tab is found by the id in its event, and has that document.
Found(id, t) == id # 0 /\ events[t] = id /\ documents[t].id = id
Known(id) == \E t \in Tabs : Found(id, t)

Starts(th, t, next) == commands' = [commands EXCEPT ![th] = [at |-> next, tab |-> t]]
Continues(th, next) == commands' = [commands EXCEPT ![th].at = next]

EditedSameId(d, content) ==           \* mutant: the document keeps its id
  [d EXCEPT !.content = content, !.texts = NoText]
EditedKeepingTexts(d, content) ==     \* mutant: the worker's texts stay
  [d EXCEPT !.id = NewId, !.content = content]

\* apply_edit, undo, redo, recover: other pages under another id; the worker's
\* text cache is cleared.
Edited(d, content) == [id |-> NewId, content |-> content, texts |-> NoText]

\* The work of change_document under the document's lock, for the id the page has.
Edits(th, t) ==
  /\ commands[th] = Idle /\ Found(heard[t], t) /\ Len(made) < MaxDocs
  /\ \E content \in Contents :
       /\ documents' = [documents EXCEPT ![t] = Edited(@, content)]
       /\ made' = Append(made, content)
  /\ Starts(th, t, "recording")
  /\ UNCHANGED <<events, heard>>

\* ... and the new state in the tab, without that lock.
Records(th) ==
  /\ commands[th].at = "recording"
  /\ LET t == commands[th].tab
     IN events' = [events EXCEPT ![t] = IF events[t] = 0 THEN 0 ELSE documents[t].id]
  /\ Continues(th, "sending")
  /\ UNCHANGED <<documents, heard, made>>

\* load_with: the tab has its document before anyone is told.
Opens(th, t) ==
  /\ commands[th] = Idle /\ events[t] = 0 /\ Len(made) < MaxDocs
  /\ \A u \in Threads : commands[u] # Idle => commands[u].tab # t
  /\ \E content \in Contents :
       /\ documents' = [documents EXCEPT ![t] =
                          [id |-> NewId, content |-> content, texts |-> NoText]]
       /\ made' = Append(made, content)
  /\ events' = [events EXCEPT ![t] = NewId]
  /\ Starts(th, t, "sending")
  /\ UNCHANGED heard

\* The event reaches the page.
Sends(th) ==
  /\ commands[th].at = "sending"
  /\ heard' = [heard EXCEPT ![commands[th].tab] = events[commands[th].tab]]
  /\ Continues(th, "listing")
  /\ UNCHANGED <<documents, events, made>>

\* close: out of the registry, and the document is dropped.
Closes(th, t) ==
  /\ commands[th] = Idle /\ heard[t] # 0 /\ events[t] # 0
  /\ documents' = [documents EXCEPT ![t] = NoDocument]
  /\ events' = [events EXCEPT ![t] = 0]
  /\ heard' = [heard EXCEPT ![t] = 0]
  /\ Starts(th, t, "listing")
  /\ UNCHANGED made

\* after_tabs_changed, first half: open_documents.
Lists(th) ==
  /\ commands[th].at = "listing"
  /\ commands' = [commands EXCEPT ![th] = [at |-> "retaining", tab |-> commands[th].tab,
                                           open |-> OpenIds]]
  /\ UNCHANGED <<documents, events, heard, made>>

DocumentsStep ==
  /\ \E th \in Threads :
       Records(th) \/ Sends(th) \/ Lists(th)
         \/ \E t \in Tabs : Edits(th, t) \/ Opens(th, t) \/ Closes(th, t)
  /\ UNCHANGED <<queueVars, background, thread, searches>>
-----------------------------------------------------------------------------
(* The cache. *)

KeyOf(r) == <<r.doc, r.page>>

\* RasterCache::clock: entries are told apart by when they were used last.
Clock == 1 + IF cache = {} THEN 0 ELSE Max({e.used : e \in cache})
Used(key, content) == [key |-> key, content |-> content, used |-> Clock]

Others(key) == {e \in cache : e.key # key}
Entry(key) == CHOOSE e \in cache : e.key = key

\* get: a region is never there.
Hit(r) == r.whole /\ \E e \in cache : e.key = KeyOf(r)
Touched(key) == Others(key) \cup {Used(key, Entry(key).content)}

Bulk(entries) == MapThenSumSet(LAMBDA e : Bytes[e.key[2]], entries)

\* insert: the oldest go until it fits; what is larger than all of it is not kept.
Inserts(key, content) ==
  LET fits(entries) == Bulk(entries) + Bytes[key[2]] <= CacheBytes
      since(old) == {e \in Others(key) : e.used >= old.used}
  IN IF Bytes[key[2]] > CacheBytes THEN UNCHANGED cache
     ELSE \E kept \in SUBSET Others(key) :
            /\ \A old \in Others(key) \ kept :
                 ~fits(since(old)) /\ \A e \in kept : old.used < e.used
            /\ fits(kept)
            /\ cache' = kept \cup {Used(key, content)}
-----------------------------------------------------------------------------
(* What the page asks for. *)

\* notify_one: only a thread that sleeps is woken.
Woken == IF thread.at = "asleep" THEN Idle ELSE thread

\* Renderer::render.
Asks(t, page, whole) ==
  /\ heard[t] # 0 /\ asked < MaxAsked
  /\ asked' = asked + 1
  /\ LET r == [doc |-> heard[t], page |-> page, whole |-> whole]
     IN IF Hit(r)
        THEN /\ cache' = Touched(KeyOf(r))
             /\ UNCHANGED <<queue, thread, waiting>>
        ELSE /\ queue' = Append(queue, r)
             /\ waiting' = waiting + 1
             /\ thread' = Woken
             /\ UNCHANGED cache
  /\ UNCHANGED <<docVars, background, searches>>

StaysUnanswered(kept) ==              \* mutant: who asked for the others is not told
  queue' = kept /\ UNCHANGED waiting

\* Of the queue only these stay; the others are answered.
Stays(kept) ==
  /\ queue' = kept
  /\ waiting' = waiting - (Len(queue) - Len(kept))

\* Renderer::cancel, of the request in that place.
Cancels(i) ==
  /\ Stays(RemoveAt(queue, i))
  /\ UNCHANGED <<docVars, background, cache, thread, asked, searches>>

\* Renderer::retain_documents, with the list a command made before.
Retains(th) ==
  /\ commands[th].at = "retaining"
  /\ LET open == commands[th].open
     IN /\ cache' = {e \in cache : e.key[1] \in open}
        /\ Stays(SelectSeq(queue, LAMBDA r : r.doc \in open))
  /\ commands' = [commands EXCEPT ![th] = Idle]
  /\ UNCHANGED <<documents, events, heard, made, background, thread, asked, searches>>

PageStep ==
  \/ \E t \in Tabs, page \in Pages, whole \in BOOLEAN : Asks(t, page, whole)
  \/ \E i \in DOMAIN queue : Cancels(i)
-----------------------------------------------------------------------------
(* The render thread. *)

\* serve: a page before any background work, and sleep when there is neither.
Pops ==
  /\ thread = Idle
  /\ \/ /\ queue # <<>>
        /\ thread' = [at |-> "looking", request |-> Head(queue)] /\ queue' = Tail(queue)
        /\ UNCHANGED background
     \/ /\ queue = <<>> /\ background # <<>>
        /\ thread' = [at |-> "searching", search |-> Head(background)]
        /\ background' = Tail(background)
        /\ UNCHANGED queue
     \/ /\ queue = <<>> /\ background = <<>>
        /\ thread' = [at |-> "asleep"]
        /\ UNCHANGED <<queue, background>>
  /\ UNCHANGED <<docVars, cache, asked, waiting, searches>>

Draws(r, result) == [at |-> "keeping", request |-> r, result |-> result]

\* The same page may have been drawn while this one waited.
LooksUp ==
  /\ thread.at = "looking"
  /\ LET r == thread.request
     IN IF Hit(r)
        THEN /\ cache' = Touched(KeyOf(r))
             /\ thread' = Draws(r, [kind |-> "ok", content |-> Entry(KeyOf(r)).content])
        ELSE /\ thread' = [at |-> "drawing", request |-> r]
             /\ UNCHANGED cache
  /\ UNCHANGED <<docVars, queue, background, asked, waiting, searches>>

\* A request to the worker that fails takes the worker with it: the document is
\* opened again in another, whose text cache is empty.
WorkerFails(t) == documents' = [documents EXCEPT ![t].texts = NoText]

\* Documents::render.
Renders ==
  /\ thread.at = "drawing"
  /\ LET r == thread.request
         doc == r.doc
     IN \/ /\ ~Known(doc)
           /\ thread' = Draws(r, [kind |-> "unknownDocument"])
           /\ UNCHANGED documents
        \/ \E t \in Tabs :
             /\ Found(doc, t)
             /\ \/ /\ thread' = Draws(r, [kind |-> "ok", content |-> documents[t].content])
                   /\ UNCHANGED documents
                \/ /\ thread' = Draws(r, [kind |-> "failed"])
                   /\ WorkerFails(t)
  /\ UNCHANGED <<events, heard, made, commands, queueVars, background, searches>>

\* A page is kept, a region is not, and the request is answered.
Keeps ==
  /\ thread.at = "keeping"
  /\ LET r == thread.request
     IN IF thread.result.kind = "ok" /\ r.whole
        THEN Inserts(KeyOf(r), thread.result.content)
        ELSE UNCHANGED cache
  /\ waiting' = waiting - 1
  /\ thread' = Idle
  /\ UNCHANGED <<docVars, queue, background, asked, searches>>
-----------------------------------------------------------------------------
(* A search. *)

Becomes(s, state) == searches' = [searches EXCEPT ![s] = state]
Ends(s, how) == [searches[s] EXCEPT !.at = "over", !.how = how]
NoSearch == [at |-> "none"]

\* The page's command; `run` has not started yet.
Searching(s, t) ==
  /\ searches[s].at \in {"none", "over"} /\ heard[t] # 0 /\ asked < MaxAsked
  /\ Becomes(s, [at |-> "starting", doc |-> heard[t], page |-> 0, total |-> 0,
                 stop |-> FALSE, how |-> "none"])
  /\ asked' = asked + 1
  /\ UNCHANGED <<docVars, queue, cache, waiting, background, thread>>

\* page_count, then Searches::start; until then it cannot be cancelled.
Begins(s) ==
  /\ searches[s].at = "starting"
  /\ Becomes(s, IF searches[s].doc \in OpenIds
                THEN [searches[s] EXCEPT !.at = "walking"]
                ELSE Ends(s, "unknownDocument"))
  /\ UNCHANGED <<docVars, queueVars, background, thread>>

\* Searches::cancel.
CancelsSearch(s) ==
  /\ searches[s].at \in {"walking", "waiting", "told"} /\ ~searches[s].stop
  /\ Becomes(s, [searches[s] EXCEPT !.stop = TRUE])
  /\ UNCHANGED <<docVars, queueVars, background, thread>>

\* walk, before a page, which is put behind all renders; `page` of them were searched.
Walks(s) ==
  /\ searches[s].at = "walking"
  /\ IF searches[s].page = Len(Bytes)
     THEN Becomes(s, Ends(s, "done")) /\ UNCHANGED <<background, thread>>
     ELSE IF searches[s].stop
     THEN Becomes(s, Ends(s, "cancelled")) /\ UNCHANGED <<background, thread>>
     ELSE /\ background' = Append(background, s)
          /\ thread' = Woken
          /\ Becomes(s, [searches[s] EXCEPT !.at = "waiting", !.page = @ + 1])
  /\ UNCHANGED <<docVars, queueVars>>

\* The text of a page: what the worker keeps of it, or what is there.
TextOf(d, page) == IF page \in DOMAIN d.texts THEN d.texts[page] ELSE d.content

Kept(d, page) ==
  IF page \in DOMAIN d.texts \/ Cardinality(DOMAIN d.texts) >= TextRoom THEN d.texts
  ELSE [p \in DOMAIN d.texts \cup {page} |-> TextOf(d, p)]

Smaller(m, n) == IF m < n THEN m ELSE n

\* search_page on the render thread: at most as many hits as are still allowed.
SearchesPage ==
  /\ thread.at = "searching"
  /\ LET s == thread.search
         doc == searches[s].doc
         page == searches[s].page
         tells(how, hits) == Becomes(s, [searches[s] EXCEPT !.at = "told", !.how = how,
                                                            !.total = @ + hits])
     IN \/ ~Known(doc) /\ tells("unknownDocument", 0) /\ UNCHANGED documents
        \/ \E t \in Tabs :
             /\ Found(doc, t)
             /\ LET d == documents[t]
                    hits == Smaller(Hits[TextOf(d, page)][page],
                                    MaxSearchHits - searches[s].total)
                IN \/ /\ tells("ok", hits)
                      /\ documents' = [documents EXCEPT ![t].texts = Kept(d, page)]
                   \/ /\ tells("failed", 0)
                      /\ WorkerFails(t)
  /\ thread' = Idle
  /\ UNCHANGED <<events, heard, made, commands, queueVars, background>>

\* walk, after a page: what it found is sent, unless the search was stopped.
Tallies(s) ==
  /\ searches[s].at = "told"
  /\ Becomes(s,
       IF searches[s].how # "ok" THEN Ends(s, searches[s].how)
       ELSE IF searches[s].stop THEN Ends(s, "cancelled")
       ELSE IF searches[s].total >= MaxSearchHits THEN Ends(s, "truncated")
       ELSE [searches[s] EXCEPT !.at = "walking"])
  /\ UNCHANGED <<docVars, queueVars, background, thread>>

SearchStep(s) == Begins(s) \/ Walks(s) \/ Tallies(s)
-----------------------------------------------------------------------------
Init ==
  /\ documents = [t \in Tabs |-> NoDocument]
  /\ events = [t \in Tabs |-> 0] /\ heard = [t \in Tabs |-> 0]
  /\ made = <<>>
  /\ commands = [th \in Threads |-> Idle]
  /\ queue = <<>> /\ background = <<>> /\ cache = {}
  /\ thread = Idle
  /\ asked = 0 /\ waiting = 0
  /\ searches = [s \in Searches |-> NoSearch]

RenderThread == Pops \/ LooksUp \/ Renders \/ Keeps \/ SearchesPage

Next ==
  \/ DocumentsStep \/ PageStep \/ RenderThread
  \/ \E th \in Threads : Retains(th)
  \/ \E s \in Searches :
       SearchStep(s) \/ CancelsSearch(s) \/ \E t \in Tabs : Searching(s, t)

\* The render thread and a search's thread go on; nothing is promised of the page.
Fairness ==
  /\ WF_vars(RenderThread)
  /\ \A s \in Searches : WF_vars(SearchStep(s))

Spec == Init /\ [][Next]_vars /\ Fairness
-----------------------------------------------------------------------------
\* A page is never shown a picture of another version of the document than the one
\* whose id it asked for, from the cache or the worker, whatever was edited, closed
\* or opened while it waited: an id stands for one content (CacheKey, next_id).
PictureIsOfItsVersion ==
  /\ \A e \in cache : e.content = made[e.key[1]]
  /\ thread.at = "keeping" /\ thread.result.kind = "ok" =>
       thread.result.content = made[thread.request.doc]

\* A search that ends unbroken has what the one version it began with has, page by
\* page up to the limit, though others edit and the worker keeps texts (walk,
\* TextCache), and says so if there may be more.
SearchIsOfOneVersion ==
  \A s \in Searches : LET q == searches[s] IN
    q.at = "over" /\ q.how \in {"done", "truncated"} =>
      LET upTo[p \in 0..Len(Bytes)] ==
            IF p = 0 THEN 0 ELSE upTo[p - 1] + Hits[made[q.doc]][p]
      IN /\ q.total = Smaller(upTo[q.page], MaxSearchHits)
         /\ q.how = "done" => q.page = Len(Bytes) /\ q.total = upTo[Len(Bytes)]

\* Every page asked for is answered and every search ends: no wake-up is lost, what
\* leaves the queue unrendered is told so, and searches do not keep renders waiting.
RequestsAnswered ==
  /\ waiting > 0 ~> waiting = 0
  /\ \A s \in Searches : searches[s].at = "starting" ~> searches[s].at = "over"
-----------------------------------------------------------------------------
(* What the documents say and the code does not do. *)

\* docs/architecture/ipc-contract.md:310: unknownDocument is the answer for an id
\* that was never given or whose document was closed.
UnknownIsClosed ==
  \A th \in Threads : commands[th].at = "retaining" =>
    \A i \in DOMAIN queue : Known(queue[i].doc) => queue[i].doc \in commands[th].open

\* after_tabs_changed: the cache has no pages of documents that are no longer open,
\* once nobody has anything left to do.
CacheIsOfOpen ==
  (\A th \in Threads : commands[th] = Idle) /\ thread.at = "asleep" =>
    \A e \in cache : e.key[1] \in OpenIds
=============================================================================
