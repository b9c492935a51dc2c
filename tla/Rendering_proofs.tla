-------------------------- MODULE Rendering_proofs --------------------------
(***************************************************************************)
(* For any number of tabs, threads, searches, pages and sizes:              *)
(*   - a page is never shown a picture of another version than the one it   *)
(*     asked for: neither the cache nor the render thread ever has one;     *)
(*   - a search has what one version has, whatever is edited meanwhile.     *)
(***************************************************************************)
EXTENDS Rendering, SequenceTheorems, WellFoundedInduction, TLAPS

-----------------------------------------------------------------------------
(* The inductive invariant.                                                 *)

\* What a document is: the content its id was given for.
IsVersion(d) ==
  /\ d.id \in DOMAIN made
  /\ d = [id |-> d.id, content |-> made[d.id], texts |-> d.texts]

Documented ==
  /\ made \in Seq(Contents)
  /\ documents = [t \in Tabs |-> documents[t]]
  /\ \A t \in Tabs : documents[t] = NoDocument \/ IsVersion(documents[t])

\* What stands for the document with that id.
Pictures(doc, content) == doc \in DOMAIN made /\ content = made[doc]

Cached == \A e \in cache : Pictures(e.key[1], e.content)

Drawn ==
  thread.at = "keeping" /\ thread.result.kind = "ok" =>
    Pictures(thread.request.doc, thread.result.content)

IInv == Documented /\ Cached /\ Drawn

\* Initially there is nothing at all.
LEMMA InitIsSound == Init => IInv
BY DEF Init, IInv, Documented, Cached, Drawn, NoDocument, Idle

-----------------------------------------------------------------------------
(* Versions are only added: what was drawn stays right.                     *)

LEMMA MadeOnlyGrows ==
  ASSUME IInv, NEW content \in Contents, made' = Append(made, content)
  PROVE  /\ made' \in Seq(Contents) /\ NewId \in DOMAIN made' /\ made'[NewId] = content
         /\ \A i \in DOMAIN made : i \in DOMAIN made' /\ made'[i] = made[i]
BY DEF IInv, Documented, NewId

\* A document that becomes another version of what is made with it.
LEMMA AddingKeeps ==
  ASSUME IInv, NEW content \in Contents, made' = Append(made, content),
         NEW t \in Tabs,
         documents' = [documents EXCEPT ![t] =
                         [id |-> NewId, content |-> content, texts |-> NoText]],
         UNCHANGED <<cache, thread>>
  PROVE  IInv'
<1>1. /\ made' \in Seq(Contents) /\ NewId \in DOMAIN made' /\ made'[NewId] = content
      /\ \A i \in DOMAIN made : i \in DOMAIN made' /\ made'[i] = made[i]
  BY MadeOnlyGrows
<1>2. documents' = [u \in Tabs |-> documents'[u]]
  BY DEF IInv, Documented
<1>3. ASSUME NEW u \in Tabs
      PROVE  documents'[u] = NoDocument \/ IsVersion(documents[u])'
  <2>1. CASE u = t
    <3>1. documents'[u] = [id |-> NewId, content |-> content, texts |-> NoText]
      BY <2>1 DEF IInv, Documented
    <3>. QED  BY <1>1, <3>1 DEF IsVersion
  <2>2. CASE u # t
    <3>1. documents'[u] = documents[u]
      BY <2>2 DEF IInv, Documented
    <3>. QED  BY <1>1, <3>1 DEF IInv, Documented, IsVersion
  <2>. QED  BY <2>1, <2>2
<1>4. Cached'
  BY <1>1 DEF IInv, Cached, Pictures
<1>5. Drawn'
  BY <1>1 DEF IInv, Drawn, Pictures
<1>. QED  BY <1>1, <1>2, <1>3, <1>4, <1>5 DEF IInv, Documented

\* The texts a worker keeps are no part of what a page shows.
LEMMA TextsDoNotMatter ==
  ASSUME IInv, NEW t \in Tabs, documents[t].id # 0, NEW texts,
         documents' = [documents EXCEPT ![t].texts = texts], UNCHANGED made
  PROVE  Documented'
<1>1. IsVersion(documents[t])
  BY DEF IInv, Documented, NoDocument
<1>2. documents'[t] = [id |-> documents[t].id, content |-> made[documents[t].id],
                       texts |-> texts]
  BY <1>1 DEF IInv, Documented, IsVersion
<1>3. IsVersion(documents[t])'
  BY <1>1, <1>2 DEF IsVersion
<1>4. \A u \in Tabs : u # t => documents'[u] = documents[u]
  BY DEF IInv, Documented
<1>. QED  BY <1>3, <1>4 DEF IInv, Documented, IsVersion

\* What a tab that has the document would draw is the document's version.
LEMMA FoundIsVersion ==
  ASSUME IInv, NEW t \in Tabs, NEW doc, Found(doc, t)
  PROVE  documents[t].id # 0 /\ Pictures(doc, documents[t].content)
<1>1. IsVersion(documents[t])
  BY DEF IInv, Documented, NoDocument, Found
<1>. QED  BY <1>1 DEF Found, Pictures, IsVersion

-----------------------------------------------------------------------------
(* Commands.                                                                *)

LEMMA DocumentsKeep == ASSUME IInv, DocumentsStep PROVE IInv'
<1>1. UNCHANGED <<cache, thread>>
  BY DEF DocumentsStep, queueVars
<1>. PICK th \in Threads :
       Records(th) \/ Sends(th) \/ Lists(th)
         \/ \E t \in Tabs : Edits(th, t) \/ Opens(th, t) \/ Closes(th, t)
  BY DEF DocumentsStep
<1>2. ASSUME UNCHANGED <<documents, made>> PROVE IInv'
  BY <1>1, <1>2 DEF IInv, Documented, IsVersion, Cached, Drawn, Pictures
<1>3. CASE Records(th) \/ Sends(th) \/ Lists(th)
  BY <1>2, <1>3 DEF Records, Sends, Lists
<1>4. ASSUME NEW t \in Tabs, Edits(th, t) PROVE IInv'
  BY <1>1, <1>4, AddingKeeps DEF Edits, Edited
<1>5. ASSUME NEW t \in Tabs, Opens(th, t) PROVE IInv'
  BY <1>1, <1>5, AddingKeeps DEF Opens
<1>6. ASSUME NEW t \in Tabs, Closes(th, t) PROVE IInv'
  <2>1. /\ documents' = [documents EXCEPT ![t] = NoDocument]
        /\ UNCHANGED made
    BY <1>6 DEF Closes
  <2>2. documents' = [u \in Tabs |-> documents'[u]]
    BY <2>1 DEF IInv, Documented
  <2>3. \A u \in Tabs : documents'[u] = IF u = t THEN NoDocument ELSE documents[u]
    BY <2>1 DEF IInv, Documented
  <2>. QED
    BY <1>1, <2>1, <2>2, <2>3 DEF IInv, Documented, IsVersion, Cached, Drawn, Pictures
<1>. QED  BY <1>3, <1>4, <1>5, <1>6

-----------------------------------------------------------------------------
(* The cache.                                                               *)

\* A hit is a picture of what was asked for, and using it changes no picture.
LEMMA HitsAreRight ==
  ASSUME IInv, NEW r, Hit(r)
  PROVE  /\ Pictures(r.doc, Entry(KeyOf(r)).content)
         /\ \A e \in Touched(KeyOf(r)) : Pictures(e.key[1], e.content)
<1>1. Entry(KeyOf(r)) \in cache /\ Entry(KeyOf(r)).key = KeyOf(r)
  BY DEF Hit, Entry
<1>2. Pictures(r.doc, Entry(KeyOf(r)).content)
  BY <1>1 DEF IInv, Cached, KeyOf
<1>. QED  BY <1>1, <1>2 DEF Touched, Others, Used, KeyOf, IInv, Cached

\* Room is made by removing entries, and one is added.
LEMMA InsertingKeeps ==
  ASSUME IInv, NEW r, NEW content, Pictures(r.doc, content),
         Inserts(KeyOf(r), content), UNCHANGED made
  PROVE  Cached'
<1>1. cache' \subseteq cache \cup {Used(KeyOf(r), content)}
  BY DEF Inserts, Others
<1>. QED  BY <1>1 DEF Used, KeyOf, IInv, Cached, Pictures

-----------------------------------------------------------------------------
(* The renderer, its thread and the searches.                               *)

LEMMA AskingKeeps ==
  ASSUME IInv, NEW t \in Tabs, NEW page \in Pages, NEW whole \in BOOLEAN,
         Asks(t, page, whole)
  PROVE  IInv'
<1> DEFINE r == [doc |-> heard[t], page |-> page, whole |-> whole]
<1>1. UNCHANGED <<documents, made>>
  BY DEF Asks, docVars
<1>2. Documented'
  BY <1>1 DEF IInv, Documented, IsVersion
<1>3. CASE Hit(r)
  <2>1. cache' = Touched(KeyOf(r)) /\ UNCHANGED thread
    BY <1>3 DEF Asks
  <2>. QED  BY <1>1, <1>2, <1>3, <2>1, HitsAreRight DEF IInv, Cached, Drawn, Pictures
<1>4. CASE ~Hit(r)
  <2>1. UNCHANGED cache /\ thread' \in {thread, Idle}
    BY <1>4 DEF Asks, Woken
  <2>. QED  BY <1>1, <1>2, <2>1 DEF IInv, Cached, Drawn, Pictures, Idle
<1>. QED  BY <1>3, <1>4

\* The render thread draws for the document that has the id asked for.
LEMMA RenderThreadKeeps == ASSUME IInv, RenderThread PROVE IInv'
<1>1. CASE Pops
  <2>1. UNCHANGED <<documents, made, cache>> /\ thread'.at # "keeping"
    BY <1>1 DEF Pops, docVars
  <2>. QED  BY <2>1 DEF IInv, Documented, IsVersion, Cached, Drawn, Pictures
<1>2. CASE LooksUp
  <2> DEFINE r == thread.request
  <2>1. UNCHANGED <<documents, made>>
    BY <1>2 DEF LooksUp, docVars
  <2>2. CASE Hit(r)
    <3>1. /\ cache' = Touched(KeyOf(r))
          /\ thread' = Draws(r, [kind |-> "ok", content |-> Entry(KeyOf(r)).content])
      BY <1>2, <2>2 DEF LooksUp
    <3>. QED
      BY <2>1, <2>2, <3>1, HitsAreRight
         DEF Draws, IInv, Documented, IsVersion, Cached, Drawn, Pictures
  <2>3. CASE ~Hit(r)
    <3>1. UNCHANGED cache /\ thread'.at # "keeping"
      BY <1>2, <2>3 DEF LooksUp
    <3>. QED  BY <2>1, <3>1 DEF IInv, Documented, IsVersion, Cached, Drawn, Pictures
  <2>. QED  BY <2>2, <2>3
<1>3. CASE Renders
  <2> DEFINE r == thread.request
  <2>1. UNCHANGED <<made, cache>>
    BY <1>3 DEF Renders, queueVars
  <2>2. CASE thread' = Draws(r, [kind |-> "unknownDocument"]) /\ UNCHANGED documents
    BY <2>1, <2>2 DEF Draws, IInv, Documented, IsVersion, Cached, Drawn, Pictures
  <2>3. ASSUME NEW t \in Tabs, Found(r.doc, t), UNCHANGED documents,
               thread' = Draws(r, [kind |-> "ok", content |-> documents[t].content])
        PROVE  IInv'
    <3>1. Pictures(r.doc, documents[t].content)
      BY <2>3, FoundIsVersion
    <3>. QED
      BY <2>1, <2>3, <3>1
         DEF Draws, IInv, Documented, IsVersion, Cached, Drawn, Pictures
  <2>4. ASSUME NEW t \in Tabs, Found(r.doc, t), WorkerFails(t),
               thread' = Draws(r, [kind |-> "failed"])
        PROVE  IInv'
    <3>1. Documented'
      BY <2>1, <2>4, FoundIsVersion, TextsDoNotMatter DEF WorkerFails
    <3>. QED  BY <2>1, <2>4, <3>1 DEF Draws, IInv, Cached, Drawn, Pictures
  <2>. QED  BY <1>3, <2>2, <2>3, <2>4 DEF Renders
<1>4. CASE Keeps
  <2>1. UNCHANGED <<documents, made>> /\ thread' = Idle
    BY <1>4 DEF Keeps, docVars
  <2>2. CASE thread.result.kind = "ok" /\ thread.request.whole
    <3>1. /\ Inserts(KeyOf(thread.request), thread.result.content)
          /\ Pictures(thread.request.doc, thread.result.content)
      BY <1>4, <2>2 DEF Keeps, IInv, Drawn
    <3>2. Cached'
      BY <2>1, <3>1, InsertingKeeps
    <3>. QED  BY <2>1, <3>2 DEF IInv, Documented, IsVersion, Drawn, Idle
  <2>3. CASE ~(thread.result.kind = "ok" /\ thread.request.whole)
    <3>1. UNCHANGED cache
      BY <1>4, <2>3 DEF Keeps
    <3>. QED
      BY <2>1, <3>1 DEF IInv, Documented, IsVersion, Cached, Drawn, Pictures, Idle
  <2>. QED  BY <2>2, <2>3
<1>5. CASE SearchesPage
  <2>1. UNCHANGED <<made, cache>> /\ thread' = Idle
    BY <1>5 DEF SearchesPage, queueVars
  <2>2. Documented'
    <3>1. CASE UNCHANGED documents
      BY <2>1, <3>1 DEF IInv, Documented, IsVersion
    <3>2. ASSUME NEW t \in Tabs, Found(searches[thread.search].doc, t), NEW texts,
                 documents' = [documents EXCEPT ![t].texts = texts]
          PROVE  Documented'
      BY <2>1, <3>2, FoundIsVersion, TextsDoNotMatter
    <3>. QED  BY <1>5, <3>1, <3>2 DEF SearchesPage, WorkerFails
  <2>. QED  BY <2>1, <2>2 DEF IInv, Cached, Drawn, Pictures, Idle
<1>. QED  BY <1>1, <1>2, <1>3, <1>4, <1>5 DEF RenderThread

\* What else waits, is cancelled or dropped touches no picture, or removes some.
LEMMA StepKeeps == ASSUME IInv, [Next]_vars PROVE IInv'
<1>1. ASSUME UNCHANGED <<documents, made>>, cache' \subseteq cache,
             thread' \in {thread, Idle}
      PROVE  IInv'
  BY <1>1 DEF IInv, Documented, IsVersion, Cached, Drawn, Pictures, Idle
<1>2. CASE PageStep
  <2>1. ASSUME NEW i \in DOMAIN queue, Cancels(i) PROVE IInv'
    BY <1>1, <2>1 DEF Cancels, docVars
  <2>. QED  BY <1>2, <2>1, AskingKeeps DEF PageStep
<1>3. ASSUME NEW th \in Threads, Retains(th) PROVE IInv'
  BY <1>1, <1>3 DEF Retains
<1>4. ASSUME NEW s \in Searches,
             SearchStep(s) \/ CancelsSearch(s) \/ \E t \in Tabs : Searching(s, t)
      PROVE  IInv'
  BY <1>1, <1>4 DEF SearchStep, Begins, Walks, Tallies, CancelsSearch, Searching,
                    Woken, docVars, queueVars
<1>5. CASE UNCHANGED vars
  BY <1>1, <1>5 DEF vars, docVars, queueVars
<1>. QED
  BY <1>2, <1>3, <1>4, <1>5, DocumentsKeep, RenderThreadKeeps DEF Next

-----------------------------------------------------------------------------
(* The searches: what they have counted is what the one version they began  *)
(* with has, because a search waits in one place at most, and the texts a   *)
(* worker keeps are those of the document it has.                           *)

\* The hits on the first pages, which is what a search must have counted.
UpTo(c) ==
  LET upTo[p \in 0..Len(Bytes)] == IF p = 0 THEN 0 ELSE upTo[p - 1] + Hits[c][p]
  IN upTo

Numbers == {0} \cup DOMAIN made
Numbered == events \in [Tabs -> Numbers] /\ heard \in [Tabs -> Numbers]

TextsAreOwn ==
  \A t \in Tabs : documents[t].id # 0 =>
    \A p \in DOMAIN documents[t].texts : documents[t].texts[p] = documents[t].content

\* A search that waits is in the background queue once, or the thread has it.
WaitsOnce ==
  /\ background \in Seq(Searches)
  /\ \A i \in DOMAIN background : searches[background[i]].at = "waiting"
  /\ \A i, j \in DOMAIN background : background[i] = background[j] => i = j
  /\ thread.at = "searching" =>
       /\ thread.search \in Searches /\ searches[thread.search].at = "waiting"
       /\ \A i \in DOMAIN background : background[i] # thread.search

Search == [at : {"starting", "walking", "waiting", "told", "over"}, doc : Nat, page : Nat,
           total : Nat, stop : BOOLEAN,
           how : {"none", "ok", "unknownDocument", "failed", "cancelled", "truncated", "done"}]

\* What a search has counted of the version it began with.
CountsOf(q, upTo) ==
  /\ q.page \in 0..Len(Bytes)
  /\ q.at \in {"starting", "walking"} => q.total = upTo[q.page] /\ q.total <= MaxSearchHits
  /\ q.at = "waiting" =>
       q.page > 0 /\ q.total = upTo[q.page - 1] /\ q.total <= MaxSearchHits
  /\ q.at = "told" => /\ q.how \in {"ok", "unknownDocument", "failed"}
                      /\ q.how = "ok" => q.total = Smaller(upTo[q.page], MaxSearchHits)
  /\ q.at = "over" /\ q.how \in {"done", "truncated"} =>
       /\ q.total = Smaller(upTo[q.page], MaxSearchHits)
       /\ q.how = "done" => q.page = Len(Bytes) /\ q.total = upTo[Len(Bytes)]

Counts(q) == q \in Search /\ q.doc \in DOMAIN made /\ CountsOf(q, UpTo(made[q.doc]))

SearchesCount ==
  /\ searches = [s \in Searches |-> searches[s]]
  /\ \A s \in Searches : searches[s] = NoSearch \/ Counts(searches[s])

SInv == IInv /\ Numbered /\ TextsAreOwn /\ WaitsOnce /\ SearchesCount

\* A set of numbers has a least one.
LEMMA Minimum ==
  ASSUME NEW S \in SUBSET Nat, S # {}
  PROVE  \E x \in S : \A y \in S : x <= y
<1>1. PICK x \in S : \A y \in S : ~ (<<y, x>> \in OpToRel(<, Nat))
  BY NatLessThanWellFounded, WFMin
<1>2. \A y \in S : ~(y < x)
  BY <1>1 DEF OpToRel
<1>. QED  BY <1>2

\* The sums exist: else there is a least number of pages for which they do not.
Sums(c, n, f) == f = [p \in 0..n |-> IF p = 0 THEN 0 ELSE f[p - 1] + Hits[c][p]]

LEMMA SumsExist ==
  ASSUME NEW c, NEW n \in Nat
  PROVE  \E f : Sums(c, n, f)
<1>. DEFINE S == {k \in Nat : ~ \E f : Sums(c, k, f)}
<1>. SUFFICES ASSUME S # {} PROVE FALSE
  OBVIOUS
<1>1. PICK k \in S : \A j \in S : k <= j
  BY Minimum
<1>2. CASE k = 0
  <2>. DEFINE f == [p \in 0..0 |-> 0]
  <2>1. f = [p \in 0..0 |-> IF p = 0 THEN 0 ELSE f[p - 1] + Hits[c][p]]
    OBVIOUS
  <2>2. Sums(c, 0, f)
    BY <2>1 DEF Sums
  <2>. QED  BY <1>2, <2>2
<1>3. CASE k # 0
  <2>1. k \in Nat /\ k - 1 \in Nat /\ k - 1 \notin S
    BY <1>1, <1>3
  <2>2. PICK f : Sums(c, k - 1, f)
    BY <2>1
  <2>3. f = [p \in 0..k - 1 |-> IF p = 0 THEN 0 ELSE f[p - 1] + Hits[c][p]]
    BY <2>2 DEF Sums
  <2>. DEFINE g == [p \in 0..k |-> IF p < k THEN f[p] ELSE f[k - 1] + Hits[c][k]]
  <2>4. /\ \A p \in 0..k : p # k => g[p] = f[p] /\ p \in 0..k - 1
        /\ g[k] = f[k - 1] + Hits[c][k]
        /\ DOMAIN g = 0..k /\ g = [p \in 0..k |-> g[p]]
    BY <2>1
  <2>. HIDE DEF g
  <2>5. ASSUME NEW p \in 0..k
        PROVE  g[p] = IF p = 0 THEN 0 ELSE g[p - 1] + Hits[c][p]
    <3>1. CASE p = k
      <4>1. g[k - 1] = f[k - 1]
        BY <2>1, <2>4
      <4>. QED  BY <1>3, <2>4, <3>1, <4>1
    <3>2. CASE p # k /\ p # 0
      <4>1. p \in 0..k - 1 /\ p - 1 \in 0..k /\ p - 1 # k
        BY <2>1, <3>2
      <4>2. g[p] = f[p] /\ g[p - 1] = f[p - 1]
        BY <2>4, <3>2, <4>1
      <4>3. f[p] = f[p - 1] + Hits[c][p]
        BY <2>3, <3>2, <4>1
      <4>. QED  BY <3>2, <4>2, <4>3
    <3>3. CASE p # k /\ p = 0
      <4>1. f[0] = 0
        BY <2>1, <2>3
      <4>. QED  BY <2>4, <3>3, <4>1
    <3>. QED  BY <3>1, <3>2, <3>3
  <2>6. Sums(c, k, g)
    BY <2>4, <2>5 DEF Sums
  <2>. QED  BY <1>1, <2>6
<1>. QED  BY <1>2, <1>3

LEMMA UpToFacts ==
  ASSUME NEW c \in Contents
  PROVE  /\ UpTo(c)[0] = 0
         /\ \A p \in 1..Len(Bytes) : UpTo(c)[p] = UpTo(c)[p - 1] + Hits[c][p]
         /\ \A p \in 0..Len(Bytes) : UpTo(c)[p] \in Nat
         /\ \A p \in 1..Len(Bytes) : Hits[c][p] \in Nat
<1>. DEFINE f == UpTo(c)
<1>0. Len(Bytes) \in Nat /\ DOMAIN Bytes = 1..Len(Bytes)
  BY BytesAssumption
<1>1. PICK g : Sums(c, Len(Bytes), g)
  BY <1>0, SumsExist
<1>2. f = CHOOSE h : Sums(c, Len(Bytes), h)
  BY DEF UpTo, Sums
<1>3. Sums(c, Len(Bytes), f)
  BY <1>1, <1>2
<1>. HIDE DEF f
<1>4. /\ f[0] = 0
      /\ \A p \in 1..Len(Bytes) : f[p] = f[p - 1] + Hits[c][p]
  <2>1. \A p \in 0..Len(Bytes) : f[p] = IF p = 0 THEN 0 ELSE f[p - 1] + Hits[c][p]
    BY <1>3 DEF Sums
  <2>. QED  BY <1>0, <2>1
<1>5. \A p \in 1..Len(Bytes) : Hits[c][p] \in Nat
  BY <1>0, HitsAssumption DEF Pages
<1>6. \A p \in 0..Len(Bytes) : f[p] \in Nat
  <2>. DEFINE S == {p \in 0..Len(Bytes) : f[p] \notin Nat}
  <2>. SUFFICES ASSUME S # {} PROVE FALSE
    OBVIOUS
  <2>1. S \in SUBSET Nat
    BY <1>0
  <2>2. PICK p \in S : \A j \in S : p <= j
    BY <2>1, Minimum
  <2>3. p # 0 /\ p \in 1..Len(Bytes) /\ p - 1 \in 0..Len(Bytes) /\ p - 1 \notin S
    BY <1>0, <1>4, <2>2
  <2>4. f[p - 1] \in Nat /\ Hits[c][p] \in Nat
    BY <1>5, <2>3
  <2>. QED  BY <1>4, <2>2, <2>3, <2>4
<1>. QED  BY <1>4, <1>5, <1>6 DEF f

\* What a search counted stays right when versions are added.
LEMMA CountsStay ==
  ASSUME NEW q, Counts(q), \A i \in DOMAIN made : i \in DOMAIN made' /\ made'[i] = made[i]
  PROVE  Counts(q)'
<1>1. q \in Search /\ q.doc \in DOMAIN made' /\ made'[q.doc] = made[q.doc]
  BY DEF Counts
<1>2. UpTo(made'[q.doc]) = UpTo(made[q.doc])
  BY <1>1
<1>. QED  BY <1>1, <1>2 DEF Counts, CountsOf

LEMMA SearchesStay ==
  ASSUME SearchesCount, searches' = searches,
         \A i \in DOMAIN made : i \in DOMAIN made' /\ made'[i] = made[i]
  PROVE  SearchesCount'
<1>1. ASSUME NEW s \in Searches PROVE (searches[s] = NoSearch \/ Counts(searches[s]))'
  <2>1. PICK q : q = searches[s]
    OBVIOUS
  <2>2. q = NoSearch \/ Counts(q)
    BY <2>1 DEF SearchesCount
  <2>3. q = NoSearch \/ Counts(q)'
    BY <2>2, CountsStay
  <2>4. searches'[s] = q
    BY <2>1
  <2>. QED  BY <2>1, <2>3, <2>4 DEF Counts, CountsOf
<1>. QED  BY <1>1 DEF SearchesCount

\* One search goes on.
LEMMA SearchGoesOn ==
  ASSUME SearchesCount, NEW s \in Searches, NEW q, searches' = [searches EXCEPT ![s] = q],
         made' = made, Counts(q)
  PROVE  SearchesCount'
<1>1. searches' = [u \in Searches |-> searches'[u]]
  BY DEF SearchesCount
<1>2. \A u \in Searches : searches'[u] = IF u = s THEN q ELSE searches[u]
  BY DEF SearchesCount
<1>3. ASSUME NEW u \in Searches PROVE searches'[u] = NoSearch \/ Counts(searches'[u])
  BY <1>2 DEF SearchesCount
<1>4. ASSUME NEW x, Counts(x) PROVE Counts(x)'
  BY <1>4, CountsStay
<1>5. ASSUME NEW u \in Searches PROVE (searches[u] = NoSearch \/ Counts(searches[u]))'
  <2>1. PICK x : x = searches'[u]
    OBVIOUS
  <2>. QED  BY <1>3, <1>4, <2>1 DEF Counts, CountsOf
<1>. QED  BY <1>1, <1>5 DEF SearchesCount

LEMMA WaitsStay ==
  ASSUME WaitsOnce, background' = background, thread' = thread \/ thread'.at # "searching",
         \A s \in Searches : searches[s].at = "waiting" => searches'[s].at = "waiting"
  PROVE  WaitsOnce'
<1>1. \A i \in DOMAIN background : background[i] \in Searches
  BY DEF WaitsOnce
<1>. QED  BY <1>1 DEF WaitsOnce

\* A document's id is one that was given.
LEMMA IdsAreGiven ==
  ASSUME SInv, NEW t \in Tabs
  PROVE  documents[t].id \in Numbers /\ (documents[t].id # 0 => IsVersion(documents[t]))
BY DEF SInv, IInv, Documented, IsVersion, NoDocument, Numbers

\* No document changes.
LEMMA DocumentsSame ==
  ASSUME SInv, UNCHANGED <<documents, made, events, heard>>
  PROVE  Numbered' /\ TextsAreOwn'
BY DEF SInv, Numbered, Numbers, TextsAreOwn

LEMMA DocumentsCount == ASSUME SInv, DocumentsStep PROVE SInv'
<1>1. UNCHANGED <<background, thread, searches>>
  BY DEF DocumentsStep
<1>2. IInv'
  BY DocumentsKeep DEF SInv
<1>3. WaitsOnce'
  BY <1>1, WaitsStay DEF SInv
<1>. PICK th \in Threads :
       Records(th) \/ Sends(th) \/ Lists(th)
         \/ \E t \in Tabs : Edits(th, t) \/ Opens(th, t) \/ Closes(th, t)
  BY DEF DocumentsStep
<1>4. /\ events \in [Tabs -> Numbers] /\ heard \in [Tabs -> Numbers]
      /\ \A t \in Tabs : documents[t].id \in Numbers
      /\ documents = [t \in Tabs |-> documents[t]]
  BY IdsAreGiven DEF SInv, Numbered, IInv, Documented
<1>5. ASSUME \A i \in DOMAIN made : i \in DOMAIN made' /\ made'[i] = made[i],
             Numbered', TextsAreOwn'
      PROVE  SInv'
  <2>1. SearchesCount'
    BY <1>1, <1>5, SearchesStay DEF SInv
  <2>. QED  BY <1>2, <1>3, <1>5, <2>1 DEF SInv
<1>6. ASSUME NEW content \in Contents, made' = Append(made, content), NEW t \in Tabs,
             documents' = [documents EXCEPT ![t] =
                             [id |-> NewId, content |-> content, texts |-> NoText]],
             UNCHANGED heard,
             events' = events \/ events' = [events EXCEPT ![t] = NewId]
      PROVE  SInv'
  <2>1. /\ NewId \in DOMAIN made'
        /\ \A i \in DOMAIN made : i \in DOMAIN made' /\ made'[i] = made[i]
    BY <1>6, MadeOnlyGrows DEF SInv
  <2>2. Numbered'
    BY <1>4, <1>6, <2>1 DEF Numbered, Numbers
  <2>3. TextsAreOwn'
    <3>1. \A u \in Tabs : documents'[u] =
            IF u = t THEN [id |-> NewId, content |-> content, texts |-> NoText] ELSE documents[u]
      BY <1>4, <1>6
    <3>2. DOMAIN NoText = {}
      BY DEF NoText
    <3>. QED  BY <3>1, <3>2 DEF SInv, TextsAreOwn
  <2>. QED  BY <1>5, <2>1, <2>2, <2>3
<1>7. CASE Records(th)
  <2>1. PICK x : x = commands[th].tab
    OBVIOUS
  <2>2. /\ events' = [events EXCEPT ![x] = IF events[x] = 0 THEN 0 ELSE documents[x].id]
        /\ UNCHANGED <<documents, heard, made>>
    BY <1>7, <2>1 DEF Records
  <2>3. Numbered'
    <3>1. \A u \in Tabs : events'[u] \in Numbers
      BY <1>4, <2>2 DEF Numbers
    <3>. QED  BY <1>4, <2>2, <3>1 DEF Numbered, Numbers
  <2>4. TextsAreOwn'
    BY <2>2 DEF SInv, TextsAreOwn
  <2>. QED  BY <1>5, <2>2, <2>3, <2>4
<1>8. CASE Sends(th)
  <2>1. PICK x : x = commands[th].tab
    OBVIOUS
  <2>2. heard' = [heard EXCEPT ![x] = events[x]] /\ UNCHANGED <<documents, events, made>>
    BY <1>8, <2>1 DEF Sends
  <2>3. Numbered'
    <3>1. \A u \in Tabs : heard'[u] \in Numbers
      BY <1>4, <2>2
    <3>. QED  BY <1>4, <2>2, <3>1 DEF Numbered, Numbers
  <2>4. TextsAreOwn'
    BY <2>2 DEF SInv, TextsAreOwn
  <2>. QED  BY <1>5, <2>2, <2>3, <2>4
<1>9. CASE Lists(th)
  <2>1. UNCHANGED <<documents, events, heard, made>>
    BY <1>9 DEF Lists
  <2>. QED  BY <1>5, <2>1, DocumentsSame
<1>10. ASSUME NEW t \in Tabs, Edits(th, t) PROVE SInv'
  BY <1>6, <1>10 DEF Edits, Edited
<1>11. ASSUME NEW t \in Tabs, Opens(th, t) PROVE SInv'
  BY <1>6, <1>11 DEF Opens
<1>12. ASSUME NEW t \in Tabs, Closes(th, t) PROVE SInv'
  <2>1. /\ documents' = [documents EXCEPT ![t] = NoDocument]
        /\ events' = [events EXCEPT ![t] = 0] /\ heard' = [heard EXCEPT ![t] = 0]
        /\ UNCHANGED made
    BY <1>12 DEF Closes
  <2>2. Numbered'
    BY <1>4, <2>1 DEF Numbered, Numbers
  <2>3. TextsAreOwn'
    <3>1. \A u \in Tabs : documents'[u] = IF u = t THEN NoDocument ELSE documents[u]
      BY <1>4, <2>1
    <3>. QED  BY <3>1 DEF SInv, TextsAreOwn, NoDocument
  <2>. QED  BY <1>5, <2>1, <2>2, <2>3
<1>. QED  BY <1>7, <1>8, <1>9, <1>10, <1>11, <1>12

\* The renderer's queue and cache are no part of a search.
LEMMA PagesCount ==
  ASSUME SInv, IInv', UNCHANGED <<documents, made, events, heard, searches, background>>,
         thread' = thread \/ thread'.at # "searching"
  PROVE  SInv'
<1>1. WaitsOnce'
  BY WaitsStay DEF SInv
<1>2. SearchesCount'
  BY SearchesStay DEF SInv
<1>. QED  BY <1>1, <1>2, DocumentsSame DEF SInv

\* A worker that fails keeps no text.
LEMMA FailingKeepsTexts ==
  ASSUME SInv, NEW t \in Tabs, WorkerFails(t)
  PROVE  TextsAreOwn'
<1>1. documents = [u \in Tabs |-> documents[u]]
  BY DEF SInv, IInv, Documented
<1>2. PICK d : d = documents[t]
  OBVIOUS
<1>3. documents' = [documents EXCEPT ![t] = [d EXCEPT !.texts = NoText]]
  BY <1>2 DEF WorkerFails
<1>4. \A u \in Tabs : documents'[u] = IF u = t THEN [d EXCEPT !.texts = NoText] ELSE documents[u]
  BY <1>1, <1>3
<1>5. CASE d.id = 0
  <2>1. d = NoDocument
    BY <1>2, <1>5 DEF SInv, IInv, Documented, IsVersion
  <2>. QED  BY <1>4, <1>5, <2>1 DEF SInv, TextsAreOwn, NoDocument
<1>6. CASE d.id # 0
  <2>1. IsVersion(d)
    BY <1>2, <1>6, IdsAreGiven
  <2>2. [d EXCEPT !.texts = NoText].texts = NoText
    BY <2>1 DEF IsVersion
  <2>3. DOMAIN NoText = {}
    BY DEF NoText
  <2>. QED  BY <1>4, <2>2, <2>3 DEF SInv, TextsAreOwn
<1>. QED  BY <1>5, <1>6

\* What the worker of a document searches is the document's version.
LEMMA TextsFound ==
  ASSUME SInv, NEW t \in Tabs, NEW doc, Found(doc, t), NEW page,
         NEW d, d = documents[t]
  PROVE  /\ IsVersion(d) /\ d.id = doc /\ d.id # 0
         /\ TextOf(d, page) = made[doc]
         /\ \A p \in DOMAIN Kept(d, page) : Kept(d, page)[p] = d.content
<1>1. d.id = doc /\ d.id # 0
  BY DEF Found
<1>2. IsVersion(d)
  BY <1>1, IdsAreGiven
<1>3. \A p \in DOMAIN d.texts : d.texts[p] = d.content
  BY <1>1 DEF SInv, TextsAreOwn
<1>4. \A p : TextOf(d, p) = d.content
  BY <1>3 DEF TextOf
<1>5. d.content = made[doc]
  BY <1>1, <1>2 DEF IsVersion
<1>. QED  BY <1>1, <1>2, <1>3, <1>4, <1>5 DEF Kept

LEMMA SearchedCounts ==
  ASSUME NEW q, Counts(q), made \in Seq(Contents), q.at = "waiting",
         NEW how \in {"ok", "unknownDocument", "failed"}, NEW hits \in Nat,
         how = "ok" => hits = Smaller(Hits[made[q.doc]][q.page], MaxSearchHits - q.total),
         NEW r, r = [q EXCEPT !.at = "told", !.how = how, !.total = q.total + hits]
  PROVE  Counts(r)
<1>1. q \in Search /\ q.doc \in DOMAIN made /\ made[q.doc] \in Contents
  BY DEF Counts
<1>2. /\ q.page \in 0..Len(Bytes) /\ q.page > 0 /\ q.total = UpTo(made[q.doc])[q.page - 1]
      /\ q.total <= MaxSearchHits /\ q.total \in Nat
  BY <1>1 DEF Counts, CountsOf, Search
<1>3. /\ r \in Search /\ r.doc = q.doc /\ r.page = q.page /\ r.at = "told" /\ r.how = how
      /\ r.total = q.total + hits
  <2>1. q.total + hits \in Nat
    BY <1>2
  <2>2. PICK told : told = q.total + hits
    OBVIOUS
  <2>3. r = [q EXCEPT !.at = "told", !.how = how, !.total = told]
    BY <2>2
  <2>4. r = [at |-> "told", doc |-> q.doc, page |-> q.page, total |-> told, stop |-> q.stop,
             how |-> how]
    BY <1>1, <2>3 DEF Search
  <2>5. q.doc \in Nat /\ q.page \in Nat /\ q.stop \in BOOLEAN
    BY <1>1 DEF Search
  <2>. QED  BY <2>1, <2>2, <2>4, <2>5 DEF Search
<1>4. PICK n : n = UpTo(made[q.doc])
  OBVIOUS
<1>5. /\ n[q.page] = n[q.page - 1] + Hits[made[q.doc]][q.page]
      /\ n[q.page - 1] \in Nat /\ Hits[made[q.doc]][q.page] \in Nat
  <2>1. Len(Bytes) \in Nat
    BY BytesAssumption
  <2>2. q.page \in 1..Len(Bytes) /\ q.page - 1 \in 0..Len(Bytes)
    BY <1>2, <2>1
  <2>. QED  BY <1>1, <1>4, <2>2, UpToFacts
<1>6. how = "ok" => r.total = Smaller(n[q.page], MaxSearchHits)
  BY <1>2, <1>3, <1>4, <1>5, MaxSearchHitsAssumption DEF Smaller
<1>. QED  BY <1>1, <1>2, <1>3, <1>4, <1>6 DEF Counts, CountsOf

LEMMA SearchingCounts == ASSUME SInv, SearchesPage PROVE SInv'
<1>1. /\ thread.at = "searching" /\ thread' = Idle
      /\ UNCHANGED <<events, heard, made, commands, queue, cache, background>>
  BY DEF SearchesPage, queueVars
<1>2. PICK s : s = thread.search
  OBVIOUS
<1>3. /\ s \in Searches /\ searches[s].at = "waiting"
      /\ \A i \in DOMAIN background : background[i] # s /\ background[i] \in Searches
  BY <1>1, <1>2 DEF SInv, WaitsOnce
<1>4. PICK q : q = searches[s]
  OBVIOUS
<1>5. Counts(q) /\ q.at = "waiting" /\ made \in Seq(Contents)
  BY <1>3, <1>4 DEF SInv, SearchesCount, NoSearch, IInv, Documented
<1>6. IInv'
  BY RenderThreadKeeps DEF SInv, RenderThread
<1>7. Numbered'
  BY <1>1 DEF SInv, Numbered, Numbers
<1>8. ASSUME NEW how \in {"ok", "unknownDocument", "failed"}, NEW hits \in Nat,
             how = "ok" => hits = Smaller(Hits[made[q.doc]][q.page], MaxSearchHits - q.total),
             Becomes(s, [searches[s] EXCEPT !.at = "told", !.how = how, !.total = @ + hits]),
             TextsAreOwn'
      PROVE  SInv'
  <2>1. PICK r : r = [q EXCEPT !.at = "told", !.how = how, !.total = q.total + hits]
    OBVIOUS
  <2>2. Counts(r)
    BY <1>5, <1>8, <2>1, SearchedCounts
  <2>3. searches' = [searches EXCEPT ![s] = r]
    BY <1>4, <1>8, <2>1 DEF Becomes
  <2>4. SearchesCount'
    BY <1>1, <1>3, <2>2, <2>3, SearchGoesOn DEF SInv
  <2>5. \A i \in DOMAIN background : searches'[background[i]] = searches[background[i]]
    BY <1>3, <2>3 DEF SInv, SearchesCount
  <2>6. WaitsOnce'
    BY <1>1, <2>5 DEF SInv, WaitsOnce, Idle
  <2>. QED  BY <1>6, <1>7, <1>8, <2>4, <2>6 DEF SInv
<1>9. ASSUME Becomes(s, [searches[s] EXCEPT !.at = "told", !.how = "unknownDocument", !.total = @ + 0]),
             UNCHANGED documents
      PROVE  SInv'
  <2>1. TextsAreOwn'
    BY <1>9 DEF SInv, TextsAreOwn
  <2>2. PICK how \in {"ok", "unknownDocument", "failed"} : how = "unknownDocument"
    OBVIOUS
  <2>3. Becomes(s, [searches[s] EXCEPT !.at = "told", !.how = how, !.total = @ + 0])
    BY <1>9, <2>2
  <2>. QED  BY <1>8, <2>1, <2>2, <2>3
<1>10. ASSUME NEW t \in Tabs, Found(q.doc, t), WorkerFails(t),
              Becomes(s, [searches[s] EXCEPT !.at = "told", !.how = "failed", !.total = @ + 0])
       PROVE  SInv'
  <2>1. TextsAreOwn'
    BY <1>10, FailingKeepsTexts
  <2>2. PICK how \in {"ok", "unknownDocument", "failed"} : how = "failed"
    OBVIOUS
  <2>3. Becomes(s, [searches[s] EXCEPT !.at = "told", !.how = how, !.total = @ + 0])
    BY <1>10, <2>2
  <2>. QED  BY <1>8, <2>1, <2>2, <2>3
<1>11. ASSUME NEW t \in Tabs, Found(q.doc, t), NEW d, d = documents[t],
              NEW hits,
              hits = Smaller(Hits[TextOf(d, q.page)][q.page], MaxSearchHits - q.total),
              documents' = [documents EXCEPT ![t].texts = Kept(d, q.page)],
              Becomes(s, [searches[s] EXCEPT !.at = "told", !.how = "ok", !.total = @ + hits])
       PROVE  SInv'
  <2>0. PICK doc, page : doc = q.doc /\ page = q.page
    OBVIOUS
  <2>1. /\ IsVersion(d) /\ d.id = doc /\ d.id # 0
        /\ TextOf(d, page) = made[doc]
        /\ \A p \in DOMAIN Kept(d, page) : Kept(d, page)[p] = d.content
    <3>1. Found(doc, t)
      BY <1>11, <2>0
    <3>. QED  BY <1>11, <3>1, TextsFound
  <2>2. PICK kept : kept = Kept(d, page)
    OBVIOUS
  <2>3. TextsAreOwn'
    <3>1. documents' = [documents EXCEPT ![t] = [d EXCEPT !.texts = kept]]
      BY <1>11, <2>0, <2>2
    <3>2. \A u \in Tabs : documents'[u] = IF u = t THEN [d EXCEPT !.texts = kept] ELSE documents[u]
      BY <3>1 DEF SInv, IInv, Documented
    <3>3. /\ [d EXCEPT !.texts = kept].texts = kept
          /\ [d EXCEPT !.texts = kept].content = d.content
      BY <2>1 DEF IsVersion
    <3>4. ASSUME NEW u \in Tabs, documents'[u].id # 0, NEW p \in DOMAIN documents'[u].texts
          PROVE  documents'[u].texts[p] = documents'[u].content
      <4>1. CASE u = t
        <5>1. documents'[u].texts = kept /\ documents'[u].content = d.content
          BY <3>2, <3>3, <4>1
        <5>. QED  BY <2>1, <2>2, <3>4, <5>1
      <4>2. CASE u # t
        <5>1. documents'[u] = documents[u]
          BY <3>2, <4>2
        <5>. QED  BY <3>4, <5>1 DEF SInv, TextsAreOwn
      <4>. QED  BY <4>1, <4>2
    <3>. QED  BY <3>4 DEF TextsAreOwn
  <2>4. hits \in Nat /\ hits = Smaller(Hits[made[q.doc]][q.page], MaxSearchHits - q.total)
    <3>1. hits = Smaller(Hits[made[q.doc]][q.page], MaxSearchHits - q.total)
      BY <1>11, <2>0, <2>1
    <3>2. made[q.doc] \in Contents /\ q \in Search
      BY <1>5 DEF Counts
    <3>3. q.page \in 1..Len(Bytes) /\ q.total \in Nat /\ q.total <= MaxSearchHits
      BY <1>5, <3>2, BytesAssumption DEF Counts, CountsOf, Search
    <3>4. Hits[made[q.doc]][q.page] \in Nat
      BY <3>2, <3>3, UpToFacts
    <3>. QED  BY <3>1, <3>3, <3>4, MaxSearchHitsAssumption DEF Smaller
  <2>5. PICK how \in {"ok", "unknownDocument", "failed"} : how = "ok"
    OBVIOUS
  <2>6. Becomes(s, [searches[s] EXCEPT !.at = "told", !.how = how, !.total = @ + hits])
    BY <1>11, <2>5
  <2>. QED  BY <1>8, <2>3, <2>4, <2>5, <2>6
<1>12. \/ /\ UNCHANGED documents
          /\ Becomes(s, [searches[s] EXCEPT !.at = "told", !.how = "unknownDocument", !.total = @ + 0])
       \/ \E t \in Tabs :
            /\ Found(q.doc, t)
            /\ \/ /\ Becomes(s, [searches[s] EXCEPT !.at = "told", !.how = "ok",
                       !.total = @ + Smaller(Hits[TextOf(documents[t], q.page)][q.page],
                                             MaxSearchHits - q.total)])
                  /\ documents' = [documents EXCEPT ![t].texts = Kept(documents[t], q.page)]
               \/ /\ Becomes(s, [searches[s] EXCEPT !.at = "told", !.how = "failed", !.total = @ + 0])
                  /\ WorkerFails(t)
  BY <1>2, <1>4 DEF SearchesPage
<1>. QED  BY <1>9, <1>10, <1>11, <1>12

\* Background work begins when no page waits: it leaves the queue for the thread.
LEMMA PoppingWaits ==
  ASSUME SInv, thread = Idle, background # <<>>,
         thread' = [at |-> "searching", search |-> Head(background)],
         background' = Tail(background), UNCHANGED searches
  PROVE  WaitsOnce'
<1>1. /\ background \in Seq(Searches)
      /\ \A i \in DOMAIN background : searches[background[i]].at = "waiting"
      /\ \A i, j \in DOMAIN background : background[i] = background[j] => i = j
  BY DEF SInv, WaitsOnce
<1>2. PICK s, rest : s = Head(background) /\ rest = Tail(background)
  OBVIOUS
<1>3. /\ rest \in Seq(Searches) /\ s = background[1] /\ 1 \in DOMAIN background
      /\ s \in Searches
      /\ \A i \in DOMAIN rest :
           rest[i] = background[i + 1] /\ i + 1 \in DOMAIN background /\ i \in Nat /\ i > 0
  BY <1>1, <1>2
<1>4. \A i \in DOMAIN rest : searches[rest[i]].at = "waiting" /\ rest[i] # s
  BY <1>1, <1>3
<1>5. \A i, j \in DOMAIN rest : rest[i] = rest[j] => i = j
  <2>1. ASSUME NEW i \in DOMAIN rest, NEW j \in DOMAIN rest, rest[i] = rest[j]
        PROVE  i = j
    <3>1. i + 1 = j + 1
      BY <1>1, <1>3, <2>1
    <3>. QED  BY <1>3, <3>1
  <2>. QED  BY <2>1
<1>6. background' = rest /\ thread' = [at |-> "searching", search |-> s]
  BY <1>2
<1>. QED  BY <1>1, <1>3, <1>4, <1>5, <1>6 DEF WaitsOnce

LEMMA RenderThreadCounts == ASSUME SInv, RenderThread PROVE SInv'
<1>1. IInv'
  BY RenderThreadKeeps DEF SInv
<1>2. CASE Pops
  <2>1. UNCHANGED <<documents, made, events, heard, searches>>
    BY <1>2 DEF Pops, docVars
  <2>2. CASE background' = background /\ thread'.at # "searching"
    BY <1>1, <2>1, <2>2, PagesCount
  <2>3. CASE /\ thread = Idle /\ background # <<>>
             /\ thread' = [at |-> "searching", search |-> Head(background)]
             /\ background' = Tail(background)
    <3>1. WaitsOnce'
      BY <2>1, <2>3, PoppingWaits
    <3>2. SearchesCount'
      BY <2>1, SearchesStay DEF SInv
    <3>. QED  BY <1>1, <2>1, <3>1, <3>2, DocumentsSame DEF SInv
  <2>. QED  BY <1>2, <2>2, <2>3 DEF Pops
<1>3. CASE LooksUp \/ Keeps
  <2>1. UNCHANGED <<documents, made, events, heard, searches, background>>
    BY <1>3 DEF LooksUp, Keeps, docVars
  <2>2. thread'.at # "searching"
    BY <1>3 DEF LooksUp, Keeps, Draws, Idle
  <2>. QED  BY <1>1, <2>1, <2>2, PagesCount
<1>4. CASE Renders
  <2>1. UNCHANGED <<made, events, heard, searches, background>>
    BY <1>4 DEF Renders
  <2>2. thread'.at # "searching"
    BY <1>4 DEF Renders, Draws
  <2>3. CASE UNCHANGED documents
    BY <1>1, <2>1, <2>2, <2>3, PagesCount
  <2>4. ASSUME NEW t \in Tabs, WorkerFails(t) PROVE SInv'
    <3>1. TextsAreOwn'
      BY <2>4, FailingKeepsTexts
    <3>2. Numbered'
      BY <2>1 DEF SInv, Numbered, Numbers
    <3>3. WaitsOnce'
      BY <2>1, <2>2, WaitsStay DEF SInv
    <3>4. SearchesCount'
      BY <2>1, SearchesStay DEF SInv
    <3>. QED  BY <1>1, <3>1, <3>2, <3>3, <3>4 DEF SInv
  <2>. QED  BY <1>4, <2>3, <2>4 DEF Renders
<1>. QED  BY <1>2, <1>3, <1>4, SearchingCounts DEF RenderThread

\* One search goes on, and stays where it waits.
LEMMA GoingOnCounts ==
  ASSUME SInv, IInv', NEW s \in Searches, NEW q, Counts(q),
         searches' = [searches EXCEPT ![s] = q],
         searches[s].at = "waiting" => q.at = "waiting",
         UNCHANGED <<documents, made, events, heard, background, thread>>
  PROVE  SInv'
<1>1. SearchesCount'
  BY SearchGoesOn DEF SInv
<1>2. \A u \in Searches : searches'[u] = IF u = s THEN q ELSE searches[u]
  BY DEF SInv, SearchesCount
<1>3. WaitsOnce'
  BY <1>2, WaitsStay DEF SInv
<1>. QED  BY <1>1, <1>3, DocumentsSame DEF SInv

\* A search is put behind the renders once, for it was walking.
LEMMA WaitingOnce ==
  ASSUME SInv, NEW s \in Searches, searches[s].at = "walking", NEW q, q.at = "waiting",
         searches' = [searches EXCEPT ![s] = q], background' = Append(background, s),
         thread' = thread \/ thread'.at # "searching"
  PROVE  WaitsOnce'
<1>1. /\ background \in Seq(Searches)
      /\ \A i \in DOMAIN background : searches[background[i]].at = "waiting"
      /\ \A i, j \in DOMAIN background : background[i] = background[j] => i = j
      /\ thread.at = "searching" =>
           /\ thread.search \in Searches /\ searches[thread.search].at = "waiting"
           /\ \A i \in DOMAIN background : background[i] # thread.search
  BY DEF SInv, WaitsOnce
<1>2. \A u \in Searches : searches'[u] = IF u = s THEN q ELSE searches[u]
  BY DEF SInv, SearchesCount
<1>3. PICK all : all = background'
  OBVIOUS
<1>4. PICK n : n = Len(background) + 1
  OBVIOUS
<1>5. /\ all \in Seq(Searches) /\ n \notin DOMAIN background
      /\ \A i \in DOMAIN all : \/ i \in DOMAIN background /\ all[i] = background[i]
                               \/ i = n /\ all[i] = s
  BY <1>1, <1>3, <1>4
<1>6. \A i \in DOMAIN background : background[i] # s /\ background[i] \in Searches
  BY <1>1
<1>7. \A i \in DOMAIN all : searches'[all[i]].at = "waiting"
  BY <1>1, <1>2, <1>5, <1>6
<1>8. \A i, j \in DOMAIN all : all[i] = all[j] => i = j
  BY <1>1, <1>5, <1>6
<1>9. thread'.at = "searching" =>
        /\ thread'.search \in Searches /\ searches'[thread'.search].at = "waiting"
        /\ \A i \in DOMAIN all : all[i] # thread'.search
  BY <1>1, <1>2, <1>5
<1>. QED  BY <1>3, <1>5, <1>7, <1>8, <1>9 DEF WaitsOnce

\* What a search that is under way counts.
LEMMA SearchHasCounted ==
  ASSUME SInv, NEW s \in Searches, searches[s].at # "none"
  PROVE  Counts(searches[s])
BY DEF SInv, SearchesCount, NoSearch

LEMMA VersionsHaveSums ==
  ASSUME made \in Seq(Contents), NEW q, Counts(q)
  PROVE  /\ Len(Bytes) \in Nat /\ q.page \in 0..Len(Bytes)
         /\ UpTo(made[q.doc])[0] = 0
         /\ UpTo(made[q.doc])[q.page] \in Nat
<1>1. q.page \in 0..Len(Bytes) /\ made[q.doc] \in Contents /\ Len(Bytes) \in Nat
  BY BytesAssumption DEF Counts, CountsOf
<1>. QED  BY <1>1, UpToFacts

LEMMA BeginningCounts ==
  ASSUME SInv, IInv', NEW s \in Searches, NEW t \in Tabs, Searching(s, t)
  PROVE  SInv'
<1>1. PICK doc : doc = heard[t]
  OBVIOUS
<1>2. doc \in DOMAIN made /\ doc \in Nat /\ made[doc] \in Contents
  BY <1>1 DEF Searching, SInv, Numbered, Numbers, IInv, Documented
<1>3. PICK q : q = [at |-> "starting", doc |-> doc, page |-> 0, total |-> 0,
                    stop |-> FALSE, how |-> "none"]
  OBVIOUS
<1>4. UpTo(made[doc])[0] = 0 /\ Len(Bytes) \in Nat
  BY <1>2, UpToFacts, BytesAssumption
<1>5. Counts(q)
  BY <1>2, <1>3, <1>4, MaxSearchHitsAssumption DEF Counts, CountsOf, Search
<1>6. /\ searches' = [searches EXCEPT ![s] = q] /\ searches[s].at # "waiting"
      /\ UNCHANGED <<documents, made, events, heard, background, thread>>
  BY <1>1, <1>3 DEF Searching, Becomes, docVars
<1>. QED  BY <1>5, <1>6, GoingOnCounts

\* What a search makes of itself when a page is not being searched for it.
LEMMA EndingCounts ==
  ASSUME made \in Seq(Contents), NEW q, Counts(q), q.at \notin {"waiting", "none"},
         NEW how \in {"unknownDocument", "failed", "cancelled", "truncated", "done"},
         how = "done" => q.at = "walking" /\ q.page = Len(Bytes),
         how = "truncated" =>
           q.at = "told" /\ q.how = "ok" /\ q.total >= MaxSearchHits,
         NEW r, r = [q EXCEPT !.at = "over", !.how = how]
  PROVE  Counts(r)
<1>1. q \in Search /\ q.doc \in DOMAIN made /\ CountsOf(q, UpTo(made[q.doc]))
  BY DEF Counts
<1>2. r = [at |-> "over", doc |-> q.doc, page |-> q.page, total |-> q.total,
           stop |-> q.stop, how |-> how]
  BY <1>1 DEF Search
<1>3. r \in Search
  BY <1>1, <1>2 DEF Search
<1>4. PICK n : n = UpTo(made[q.doc])
  OBVIOUS
<1>5. n[q.page] \in Nat /\ q.page \in 0..Len(Bytes) /\ q.total \in Nat
  BY <1>1, <1>4, VersionsHaveSums DEF Search
<1>6. how = "done" => q.total = n[Len(Bytes)] /\ q.total <= MaxSearchHits
  BY <1>1, <1>4 DEF CountsOf
<1>7. how = "truncated" => q.total = Smaller(n[q.page], MaxSearchHits)
  BY <1>1, <1>4 DEF CountsOf
<1>8. how = "done" => q.total = Smaller(n[q.page], MaxSearchHits)
  BY <1>5, <1>6, MaxSearchHitsAssumption DEF Smaller
<1>9. CountsOf(r, n)
  BY <1>2, <1>5, <1>6, <1>7, <1>8 DEF CountsOf
<1>. QED  BY <1>1, <1>2, <1>3, <1>4, <1>9 DEF Counts

LEMMA SearchStepCounts ==
  ASSUME SInv, IInv', NEW s \in Searches, Begins(s) \/ Tallies(s) \/ CancelsSearch(s)
  PROVE  SInv'
<1>1. UNCHANGED <<documents, made, events, heard, background, thread>>
  BY DEF Begins, Tallies, CancelsSearch, docVars
<1>2. PICK q : q = searches[s]
  OBVIOUS
<1>3. Counts(q) /\ made \in Seq(Contents)
  BY <1>2, SearchHasCounted DEF Begins, Tallies, CancelsSearch, SInv, IInv, Documented
<1>4. /\ q \in Search /\ q.doc \in DOMAIN made /\ CountsOf(q, UpTo(made[q.doc]))
      /\ UpTo(made[q.doc])[q.page] \in Nat /\ q.page \in 0..Len(Bytes) /\ q.total \in Nat
  BY <1>3, VersionsHaveSums DEF Counts, Search
<1>5. ASSUME NEW r, Counts(r), Becomes(s, r), q.at = "waiting" => r.at = "waiting"
      PROVE  SInv'
  BY <1>1, <1>2, <1>5, GoingOnCounts DEF Becomes
<1>6. ASSUME NEW how \in {"unknownDocument", "failed", "cancelled", "truncated", "done"},
             q.at \notin {"waiting", "none"}, how # "done",
             how = "truncated" =>
               q.at = "told" /\ q.how = "ok" /\ q.total >= MaxSearchHits,
             Becomes(s, Ends(s, how))
      PROVE  SInv'
  <2>1. PICK r : r = [q EXCEPT !.at = "over", !.how = how]
    OBVIOUS
  <2>2. Counts(r)
    BY <1>3, <1>6, <2>1, EndingCounts
  <2>. QED  BY <1>2, <1>5, <1>6, <2>1, <2>2 DEF Ends
<1>7. ASSUME q.at = "starting" \/ (/\ q.at = "told" /\ q.how = "ok"
                                   /\ ~(q.total >= MaxSearchHits)),
             Becomes(s, [searches[s] EXCEPT !.at = "walking"])
      PROVE  SInv'
  <2>1. PICK r : r = [q EXCEPT !.at = "walking"]
    OBVIOUS
  <2>2. r = [at |-> "walking", doc |-> q.doc, page |-> q.page, total |-> q.total,
             stop |-> q.stop, how |-> q.how]
    BY <1>4, <2>1 DEF Search
  <2>3. r \in Search
    BY <1>4, <2>2 DEF Search
  <2>4. PICK n : n = UpTo(made[q.doc])
    OBVIOUS
  <2>5. q.total = n[q.page] /\ q.total <= MaxSearchHits
    BY <1>4, <1>7, <2>4, MaxSearchHitsAssumption DEF CountsOf, Smaller
  <2>6. CountsOf(r, n)
    BY <1>4, <2>2, <2>5 DEF CountsOf
  <2>7. Counts(r)
    BY <1>4, <2>2, <2>3, <2>4, <2>6 DEF Counts
  <2>. QED  BY <1>2, <1>5, <1>7, <2>1, <2>7
<1>8. CASE Begins(s)
  <2>1. /\ q.at = "starting"
        /\ \/ Becomes(s, [searches[s] EXCEPT !.at = "walking"])
           \/ Becomes(s, Ends(s, "unknownDocument"))
    BY <1>2, <1>8 DEF Begins
  <2>. QED  BY <1>6, <1>7, <2>1
<1>9. CASE Tallies(s)
  <2>1. q.at = "told" /\ q.how \in {"ok", "unknownDocument", "failed"}
    BY <1>2, <1>4, <1>9 DEF Tallies, CountsOf
  <2>2. CASE q.how # "ok"
    <3>1. PICK how \in {"unknownDocument", "failed", "cancelled", "truncated", "done"} :
            how = q.how
      BY <2>1, <2>2
    <3>2. Becomes(s, Ends(s, how)) /\ how # "done" /\ how # "truncated"
      BY <1>2, <1>9, <2>1, <2>2, <3>1 DEF Tallies
    <3>. QED  BY <1>6, <2>1, <3>2
  <2>3. CASE q.how = "ok"
    <3>1. \/ Becomes(s, Ends(s, "cancelled"))
          \/ q.total >= MaxSearchHits /\ Becomes(s, Ends(s, "truncated"))
          \/ /\ ~(q.total >= MaxSearchHits)
             /\ Becomes(s, [searches[s] EXCEPT !.at = "walking"])
      BY <1>2, <1>9, <2>3 DEF Tallies
    <3>. QED  BY <1>6, <1>7, <2>1, <2>3, <3>1
  <2>. QED  BY <2>2, <2>3
<1>10. CASE CancelsSearch(s)
  <2>1. PICK r : r = [q EXCEPT !.stop = TRUE]
    OBVIOUS
  <2>2. /\ r = [at |-> q.at, doc |-> q.doc, page |-> q.page, total |-> q.total,
                stop |-> TRUE, how |-> q.how]
        /\ r \in Search
    BY <1>4, <2>1 DEF Search
  <2>3. Counts(r)
    BY <1>4, <2>2 DEF Counts, CountsOf
  <2>. QED  BY <1>2, <1>5, <1>10, <2>1, <2>2, <2>3 DEF CancelsSearch
<1>. QED  BY <1>8, <1>9, <1>10

LEMMA WalkingCounts ==
  ASSUME SInv, IInv', NEW s \in Searches, Walks(s)
  PROVE  SInv'
<1>1. UNCHANGED <<documents, made, events, heard>>
  BY DEF Walks, docVars
<1>2. PICK q : q = searches[s]
  OBVIOUS
<1>3. Counts(q) /\ made \in Seq(Contents) /\ q.at = "walking"
  BY <1>2, SearchHasCounted DEF Walks, SInv, IInv, Documented
<1>4. /\ q \in Search /\ q.doc \in DOMAIN made /\ CountsOf(q, UpTo(made[q.doc]))
      /\ q.page \in 0..Len(Bytes) /\ Len(Bytes) \in Nat
  BY <1>3, VersionsHaveSums DEF Counts
<1>5. ASSUME NEW how \in {"unknownDocument", "failed", "cancelled", "truncated", "done"},
             how = "done" => q.page = Len(Bytes), how # "truncated",
             Becomes(s, Ends(s, how)), UNCHANGED <<background, thread>>
      PROVE  SInv'
  <2>1. PICK r : r = [q EXCEPT !.at = "over", !.how = how]
    OBVIOUS
  <2>2. Counts(r)
    BY <1>3, <1>5, <2>1, EndingCounts
  <2>3. searches' = [searches EXCEPT ![s] = r] /\ searches[s].at # "waiting"
    BY <1>2, <1>3, <1>5, <2>1 DEF Becomes, Ends
  <2>. QED  BY <1>1, <1>5, <2>2, <2>3, GoingOnCounts
<1>6. ASSUME q.page # Len(Bytes), background' = Append(background, s), thread' = Woken,
             Becomes(s, [searches[s] EXCEPT !.at = "waiting", !.page = @ + 1])
      PROVE  SInv'
  <2>1. PICK page : page = q.page + 1
    OBVIOUS
  <2>2. PICK r : r = [q EXCEPT !.at = "waiting", !.page = page]
    OBVIOUS
  <2>3. /\ r = [at |-> "waiting", doc |-> q.doc, page |-> page, total |-> q.total,
                stop |-> q.stop, how |-> q.how]
        /\ page \in Nat /\ page > 0 /\ page \in 0..Len(Bytes) /\ page - 1 = q.page
    <3>1. page \in Nat /\ page > 0 /\ page \in 0..Len(Bytes) /\ page - 1 = q.page
      BY <1>4, <1>6, <2>1
    <3>. QED  BY <1>4, <2>2, <3>1 DEF Search
  <2>4. r \in Search
    BY <1>4, <2>3 DEF Search
  <2>5. Counts(r)
    BY <1>3, <1>4, <2>3, <2>4 DEF Counts, CountsOf
  <2>6. searches' = [searches EXCEPT ![s] = r]
    BY <1>2, <1>6, <2>1, <2>2 DEF Becomes
  <2>7. SearchesCount'
    BY <1>1, <2>5, <2>6, SearchGoesOn DEF SInv
  <2>8. thread' = thread \/ thread'.at # "searching"
    BY <1>6 DEF Woken, Idle
  <2>9. WaitsOnce'
    <3>1. searches[s].at = "walking" /\ r.at = "waiting"
      BY <1>2, <1>3, <2>3
    <3>. QED  BY <1>6, <2>6, <2>8, <3>1, WaitingOnce
  <2>. QED  BY <1>1, <2>7, <2>9, DocumentsSame DEF SInv
<1>7. \/ q.page = Len(Bytes) /\ Becomes(s, Ends(s, "done")) /\ UNCHANGED <<background, thread>>
      \/ Becomes(s, Ends(s, "cancelled")) /\ UNCHANGED <<background, thread>>
      \/ /\ q.page # Len(Bytes) /\ background' = Append(background, s) /\ thread' = Woken
         /\ Becomes(s, [searches[s] EXCEPT !.at = "waiting", !.page = @ + 1])
  BY <1>2 DEF Walks
<1>. QED  BY <1>5, <1>6, <1>7

LEMMA StepCounts == ASSUME SInv, [Next]_vars PROVE SInv'
<1>1. IInv'
  BY StepKeeps DEF SInv
<1>2. CASE PageStep
  <2>1. /\ UNCHANGED <<documents, made, events, heard, searches, background>>
        /\ thread' = thread \/ thread'.at # "searching"
    <3>1. ASSUME NEW t \in Tabs, NEW page \in Pages, NEW whole \in BOOLEAN,
                 Asks(t, page, whole)
          PROVE  /\ UNCHANGED <<docVars, searches, background>>
                 /\ thread' = thread \/ thread' = Woken
      BY <3>1 DEF Asks
    <3>2. ASSUME NEW i \in DOMAIN queue, Cancels(i)
          PROVE  UNCHANGED <<docVars, searches, background, thread>>
      BY <3>2 DEF Cancels
    <3>3. Woken = thread \/ Woken.at # "searching"
      BY DEF Woken, Idle
    <3>. QED  BY <1>2, <3>1, <3>2, <3>3 DEF PageStep, docVars
  <2>. QED  BY <1>1, <2>1, PagesCount
<1>3. ASSUME NEW th \in Threads, Retains(th) PROVE SInv'
  BY <1>1, <1>3, PagesCount DEF Retains
<1>4. ASSUME NEW s \in Searches,
             SearchStep(s) \/ CancelsSearch(s) \/ \E t \in Tabs : Searching(s, t)
      PROVE  SInv'
  BY <1>1, <1>4, SearchStepCounts, WalkingCounts, BeginningCounts DEF SearchStep
<1>5. CASE UNCHANGED vars
  BY <1>1, <1>5, PagesCount DEF vars, docVars, queueVars
<1>. QED
  BY <1>2, <1>3, <1>4, <1>5, DocumentsCount, RenderThreadCounts DEF Next

LEMMA InitCounts == Init => SInv
<1>. SUFFICES ASSUME Init PROVE SInv
  OBVIOUS
<1>1. IInv
  BY InitIsSound
<1>2. Numbered
  BY DEF Init, Numbered, Numbers
<1>3. TextsAreOwn
  BY DEF Init, TextsAreOwn, NoDocument
<1>4. WaitsOnce
  <2>1. background = <<>> /\ thread.at # "searching"
    BY DEF Init, Idle
  <2>2. background \in Seq(Searches) /\ DOMAIN background = {}
    BY <2>1
  <2>. QED  BY <2>1, <2>2 DEF WaitsOnce
<1>5. SearchesCount
  BY DEF Init, SearchesCount
<1>. QED  BY <1>1, <1>2, <1>3, <1>4, <1>5 DEF SInv
-----------------------------------------------------------------------------
(* The theorems.                                                            *)

\* Documents, cache and render thread agree on what each id stands for.
THEOREM VersionsAreSound == Spec => []IInv
<1>1. Init => IInv
  BY InitIsSound
<1>2. IInv /\ [Next]_vars => IInv'
  BY StepKeeps
<1>. QED  BY <1>1, <1>2, PTL DEF Spec

\* A page is never shown a picture of another version of the document than the one
\* whose id it asked for, from the cache or the worker (CacheKey, next_id, serve).
THEOREM PicturesAreOfTheirVersion == Spec => []PictureIsOfItsVersion
<1>1. IInv => PictureIsOfItsVersion
  BY DEF IInv, Cached, Drawn, Pictures, PictureIsOfItsVersion
<1>. QED  BY <1>1, VersionsAreSound, PTL

\* A search that ends unbroken has what the one version it began with has, page by
\* page up to the limit, and says so if there may be more (walk, TextCache).
THEOREM SearchesAreOfOneVersion == Spec => []SearchIsOfOneVersion
<1>1. Init => SInv
  BY InitCounts
<1>2. SInv /\ [Next]_vars => SInv'
  BY StepCounts
<1>3. SInv => SearchIsOfOneVersion
  <2>. SUFFICES ASSUME SInv, NEW s \in Searches, searches[s].at = "over",
                       searches[s].how \in {"done", "truncated"},
                       NEW n, n = UpTo(made[searches[s].doc])
                PROVE  /\ searches[s].total = Smaller(n[searches[s].page], MaxSearchHits)
                       /\ searches[s].how = "done" =>
                            searches[s].page = Len(Bytes) /\ searches[s].total = n[Len(Bytes)]
    BY DEF SearchIsOfOneVersion, UpTo
  <2>1. Counts(searches[s])
    BY SearchHasCounted
  <2>. QED  BY <2>1 DEF Counts, CountsOf
<1>. QED  BY <1>1, <1>2, <1>3, PTL DEF Spec
=============================================================================
