---------------------------- MODULE TextIndex_proofs ----------------------------
(***************************************************************************)
(* The text index, for any files, pages, limit and number of commands and  *)
(* faults: what opens as a document's text is that document's, nothing of  *)
(* a barred file is left, results lead home and nothing is left out.       *)
(***************************************************************************)
EXTENDS TextIndex, SequenceTheorems, FiniteSetTheorems, TLAPS

(***************************************************************************)
(* The inductive invariant.                                                *)
(***************************************************************************)
Entry == [id : Nat, file : Files, version : Nat, opened : Nat, done : Nat]
Catalog == [key : Nat, entries : SUBSET Entry, nextId : Nat, clock : Nat]
TextFile == [key : Nat, file : Files, text : Seq(Nat)]
OpenTab == [open : {TRUE}, doc : Nat, version : Nat, text : Nat, unsaved : BOOLEAN]
Reader == [at : {"reading", "taking", "keeping", "ending", "losing"}, doc : Nat, entry : Entry,
           key : Nat, gen : Nat, text : Seq(Nat), changed : BOOLEAN]
Searching == [at : {"looking", "listing"}, entries : Seq(Entry), due : Nat \ {0},
              read : Seq({"unread", "none", "hits", "tampered"}), key : Nat, gen : Nat]
Result == [id : Nat, of : Files, gen : Nat]
PutOf(f, v) == [op |-> "put", file |-> f, version |-> v]
Steps == {Look(f) : f \in Files} \cup {Forget(f) : f \in Files} \cup {Clear}
           \cup {PutOf(f, v) : f \in Files, v \in Nat}

\* A folder of the index.
IsFolder(d) ==
  /\ d = [key |-> d.key, catalog |-> d.catalog, docs |-> d.docs]
  /\ d.key \in Nat /\ d.catalog \in Catalog
  /\ DOMAIN d.docs \subseteq Nat
  /\ \A id \in DOMAIN d.docs : d.docs[id] \in TextFile /\ Len(d.docs[id].text) <= Pages

\* Every variable has its type.
TypeOK ==
  /\ texts \in [Files -> Seq(Nat) \ {<<>>}]
  /\ tab \in [Files -> {Closed} \cup OpenTab]
  /\ enabled \in BOOLEAN
  /\ barred \in [Kinds -> SUBSET Files]
  /\ IsFolder(folder)
  /\ index \in [loaded : Catalog, looked : BOOLEAN, generation : Nat]
  /\ queue \in Seq(Files)
  /\ reconsider \in BOOLEAN
  /\ listed \subseteq Result
  /\ taker \in {Idle} \cup Reader
  /\ calls \subseteq Seq(Steps) \ {<<>>}
  /\ search \in {Idle} \cup Searching
  /\ nextKey \in Nat \ {0} /\ commands \in Nat /\ faults \in Nat
  /\ torn \in BOOLEAN /\ cutShort \subseteq Files

\* Ids and files name one entry each, and its version is one the file had.
CatalogSound(cat, had) ==
  /\ \A e \in cat.entries : e.id < cat.nextId /\ e.version \in 1..Len(had[e.file])
  /\ \A e, x \in cat.entries : e.id = x.id \/ e.file = x.file => e = x

\* What opens with `key` as the text of a document in the catalog is that document's.
TextsSound(cat, docs, key, had) ==
  \A e \in cat.entries : e.id \in DOMAIN docs /\ docs[e.id].key = key =>
    /\ docs[e.id].file = e.file
    /\ \A i \in DOMAIN docs[e.id].text : docs[e.id].text[i] = had[e.file][e.version]

\* The catalog counts no page that is not in the document's file.
Counted(cat, docs) ==
  \A e \in cat.entries : e.done > 0 => e.id \in DOMAIN docs /\ Len(docs[e.id].text) >= e.done

\* A folder that the next run can start from.
FolderSound(d, had) ==
  /\ CatalogSound(d.catalog, had)
  /\ d.catalog.key = 0 => d.catalog.entries = {}
  /\ d.key # 0 /\ d.catalog.key = d.key => TextsSound(d.catalog, d.docs, d.key, had)

IdsOf(cat) == {e.id : e \in cat.entries}

\* A tab stands on a version its file had, with its text until it is edited.
TabsSound ==
  \A f \in Files : tab[f].open =>
    /\ tab[f].doc < commands
    /\ tab[f].version \in 1..Len(texts[f])
    /\ ~tab[f].unsaved => tab[f].text = texts[f][tab[f].version]

\* The folder is what memory says of it, once it was read.
IndexSound ==
  IF index.looked
  THEN /\ CatalogSound(index.loaded, texts)
       /\ folder.key = index.loaded.key
       /\ folder.catalog.entries \subseteq index.loaded.entries
       /\ IF Loaded
          THEN /\ DOMAIN folder.docs \subseteq IdsOf(index.loaded)
               /\ TextsSound(index.loaded, folder.docs, folder.key, texts)
          ELSE folder = Nothing /\ index.loaded = NoIndex
  ELSE index.loaded = NoIndex /\ taker = Idle /\ search = Idle /\ listed = {}

\* Deleting a document's file in the middle of a step is all that makes the catalog count too much.
CountedUnlessTorn ==
  ~torn => Counted(folder.catalog, folder.docs) /\ Counted(index.loaded, folder.docs)

\* What the taker has of an entry that is still the index's.
TakerOf(e) ==
  /\ e.file = taker.entry.file /\ e.version = taker.entry.version
  /\ taker.at \in {"reading", "losing"} => e.done = taker.entry.done
  /\ taker.at \in {"taking", "keeping", "ending"} =>
       /\ \A i \in DOMAIN taker.text : taker.text[i] = texts[e.file][e.version]
       /\ e.done > 0 /\ Has(e.id) => Len(taker.text) >= Len(folder.docs[e.id].text)
  /\ taker.at = "taking" /\ ~taker.changed /\ taker.text # <<>> =>
       e.done > 0 /\ Has(e.id) /\ Len(folder.docs[e.id].text) = Len(taker.text)

TakerSound ==
  taker # Idle =>
    /\ taker.gen <= index.generation /\ taker.doc < commands
    /\ taker.entry.version \in 1..Len(texts[taker.entry.file])
    /\ taker.entry.done < Pages /\ Len(taker.text) <= Pages
    /\ LET t == tab[taker.entry.file]
       IN t.open /\ t.doc = taker.doc => t.text = texts[taker.entry.file][taker.entry.version]
    /\ taker.changed \/ taker.at \in {"keeping", "ending"} => taker.text # <<>>
    /\ taker.at \in {"reading", "losing"} => taker.text = <<>> /\ ~taker.changed
    /\ taker.gen = index.generation =>
         /\ Loaded /\ taker.key = index.loaded.key
         /\ taker.entry.id < index.loaded.nextId
         /\ \A e \in index.loaded.entries : e.id = taker.entry.id => TakerOf(e)

\* A search's entries and results stand for the same files while the index is the same.
StandsFor(id, f) ==
  id < index.loaded.nextId /\ \A e \in index.loaded.entries : e.id = id => e.file = f

SearchSound ==
  /\ search # Idle =>
       /\ search.gen <= index.generation
       /\ search.at = "listing" => search.due \in DOMAIN search.entries
       /\ search.gen = index.generation =>
            \A i \in DOMAIN search.entries : StandsFor(search.entries[i].id, search.entries[i].file)
  /\ \A r \in listed : r.gen = index.generation => StandsFor(r.id, r.of)

\* A command still has to do `step`.
Pending(step, cs) == \E c \in cs : \E i \in DOMAIN c : c[i] = step

CallsSound ==
  \A f \in Files, v \in Nat : Pending(PutOf(f, v), calls) => v \in 1..Len(texts[f])

\* Nothing of a file's text can be read, and the taker will not write any.
Clean(f) ==
  /\ \A id \in DOMAIN folder.docs :
       folder.docs[id].key # 0 /\ folder.docs[id].key = folder.key => folder.docs[id].file # f
  /\ taker # Idle /\ taker.gen = index.generation /\ taker.entry.file = f =>
       taker.entry.id \notin IdsOf(index.loaded)

BarredIsClean ==
  \A f \in Files :
    tab[f].open /\ (f \in barred["sensitive"] \/ (enabled /\ f \in barred["unrecorded"])) =>
      \/ Pending(Look(f), calls) \/ Pending(Forget(f), calls) \/ Pending(Clear, calls)
      \/ Clean(f)

OffIsClean ==
  ~enabled => \/ Pending(Clear, calls)
              \/ DOMAIN folder.docs = {} /\ (taker # Idle => taker.gen # index.generation)

\* The taker is at an entry's text, and will have all of it.
Progress(e) ==
  /\ taker # Idle /\ taker.gen = index.generation /\ taker.entry.id = e.id
  /\ taker.at = "ending" => Len(taker.text) = Pages

IsWhole(e) == e.done > 0 /\ Has(e.id) /\ Len(folder.docs[e.id].text) = Pages

\* An allowed document, with edits or without, has its text or something is under way
\* that takes it, unless the taking was cut short.
Awaited(f) == Allowed(f) /\ f \notin cutShort

WillBeTaken ==
  ~torn => \A f \in Files : Awaited(f) =>
    \/ Pending(Look(f), calls) \/ Pending(PutOf(f, tab[f].version), calls)
    \/ /\ index.looked
       /\ \/ reconsider
          \/ f \in Range(queue)
          \/ \A e \in index.loaded.entries : e.file = f /\ e.version = tab[f].version =>
               IsWhole(e) \/ Progress(e)

IInv ==
  /\ TypeOK
  /\ TabsSound
  /\ CallsSound
  /\ FolderSound(folder, texts)
  /\ IndexSound
  /\ CountedUnlessTorn
  /\ TakerSound
  /\ SearchSound
  /\ BarredIsClean
  /\ OffIsClean
  /\ WillBeTaken
-----------------------------------------------------------------------------
(* What commands still have to do.                                          *)

LEMMA StepKinds ==
  ASSUME NEW s \in Steps
  PROVE  /\ s.op = "look" => s.file \in Files /\ s = Look(s.file)
         /\ s.op = "forget" => s.file \in Files /\ s = Forget(s.file)
         /\ s.op = "put" => s.file \in Files /\ s.version \in Nat /\ s = PutOf(s.file, s.version)
         /\ s.op = "clear" => s = Clear
  BY DEF Steps, Look, Forget, Clear, PutOf

LEMMA StepsDiffer ==
  ASSUME NEW f, NEW g, NEW v, NEW w
  PROVE  /\ Look(f).op = "look" /\ Forget(f).op = "forget" /\ PutOf(f, v).op = "put"
         /\ Clear.op = "clear"
         /\ Look(f).file = f /\ Forget(f).file = f /\ PutOf(f, v).file = f
         /\ PutOf(f, v).version = v
  BY DEF Look, Forget, Clear, PutOf

LEMMA StepsAre ==
  /\ Clear \in Steps
  /\ \A f \in Files : Look(f) \in Steps /\ Forget(f) \in Steps /\ \A v \in Nat : PutOf(f, v) \in Steps
  BY DEF Steps

LEMMA PendingMore ==
  ASSUME NEW cs, NEW more, cs \subseteq more, NEW s, Pending(s, cs)
  PROVE  Pending(s, more)
  BY DEF Pending

LEMMA PendingIn ==
  ASSUME NEW cs, NEW c \in cs, NEW i \in DOMAIN c
  PROVE  Pending(c[i], cs)
  BY DEF Pending

\* A command goes on with `rest`.
GoesOnWith(cs, todo, rest) == (cs \ {todo}) \cup (IF rest = <<>> THEN {} ELSE {rest})

LEMMA GoesOnType ==
  ASSUME NEW cs, cs \subseteq Seq(Steps) \ {<<>>}, NEW todo \in cs, NEW rest \in Seq(Steps)
  PROVE  GoesOnWith(cs, todo, rest) \subseteq Seq(Steps) \ {<<>>}
  BY DEF GoesOnWith

LEMMA GoesOnKeeps ==
  ASSUME NEW cs, cs \subseteq Seq(Steps) \ {<<>>}, NEW todo \in cs, NEW rest \in Seq(Steps),
         \A i \in DOMAIN Tail(todo) : \E j \in DOMAIN rest : rest[j] = Tail(todo)[i],
         NEW s, s # Head(todo), Pending(s, cs)
  PROVE  Pending(s, GoesOnWith(cs, todo, rest))
  <1>1. PICK c \in cs : \E i \in DOMAIN c : c[i] = s  BY DEF Pending
  <1>2. CASE c # todo
    <2>1. c \in GoesOnWith(cs, todo, rest)  BY <1>2 DEF GoesOnWith
    <2>. QED  BY <1>1, <2>1 DEF Pending
  <1>3. CASE c = todo
    <2>1. PICK i \in DOMAIN todo : todo[i] = s  BY <1>1, <1>3
    <2>2. todo \in Seq(Steps) /\ todo # <<>>  OBVIOUS
    <2>3. i \in 1..Len(todo) /\ Head(todo) = todo[1]  BY <2>1, <2>2
    <2>4. i # 1  BY <2>1, <2>3
    <2>5. Tail(todo) \in Seq(Steps) /\ Len(Tail(todo)) = Len(todo) - 1
            /\ \A k \in 1..Len(Tail(todo)) : Tail(todo)[k] = todo[k + 1]
      BY <2>2, HeadTailProperties
    <2>6. i - 1 \in DOMAIN Tail(todo) /\ Tail(todo)[i - 1] = s
      BY <2>1, <2>2, <2>3, <2>4, <2>5
    <2>7. PICK j \in DOMAIN rest : rest[j] = s  BY <2>6
    <2>8. rest # <<>>  BY <2>7
    <2>9. rest \in GoesOnWith(cs, todo, rest)  BY <2>8 DEF GoesOnWith
    <2>. QED  BY <2>7, <2>9 DEF Pending
  <1>. QED  BY <1>2, <1>3

LEMMA GoesOnIsOf ==
  ASSUME NEW cs, NEW todo \in cs, NEW rest, NEW s, Pending(s, GoesOnWith(cs, todo, rest))
  PROVE  Pending(s, cs) \/ \E j \in DOMAIN rest : rest[j] = s
  <1>1. PICK c \in GoesOnWith(cs, todo, rest) : \E i \in DOMAIN c : c[i] = s  BY DEF Pending
  <1>2. c \in cs \/ c = rest  BY DEF GoesOnWith
  <1>. QED  BY <1>1, <1>2 DEF Pending

LEMMA TailFacts ==
  ASSUME NEW todo \in Seq(Steps), todo # <<>>
  PROVE  /\ Tail(todo) \in Seq(Steps) /\ Head(todo) \in Steps
         /\ 1 \in DOMAIN todo /\ Head(todo) = todo[1]
         /\ \A i \in DOMAIN Tail(todo) : \E j \in DOMAIN todo : todo[j] = Tail(todo)[i]
  <1>1. Tail(todo) \in Seq(Steps) /\ Head(todo) \in Steps /\ Len(Tail(todo)) = Len(todo) - 1
          /\ \A k \in 1..Len(Tail(todo)) : Tail(todo)[k] = todo[k + 1]
    BY HeadTailProperties
  <1>2. 1 \in DOMAIN todo /\ Head(todo) = todo[1]  OBVIOUS
  <1>3. \A i \in DOMAIN Tail(todo) : i + 1 \in DOMAIN todo /\ todo[i + 1] = Tail(todo)[i]  BY <1>1
  <1>. QED  BY <1>1, <1>2, <1>3

\* One command after the other.
Joined(s, t) == s \o t

LEMMA ConcatFacts ==
  ASSUME NEW s \in Seq(Steps), NEW t \in Seq(Steps), NEW r, r = Joined(s, t)
  PROVE  /\ r \in Seq(Steps)
         /\ \A i \in DOMAIN s : \E j \in DOMAIN r : r[j] = s[i]
         /\ \A i \in DOMAIN t : \E j \in DOMAIN r : r[j] = t[i]
         /\ \A j \in DOMAIN r : \/ \E i \in DOMAIN s : r[j] = s[i]
                                \/ \E i \in DOMAIN t : r[j] = t[i]
  <1>1. r \in Seq(Steps) /\ Len(r) = Len(s) + Len(t)
          /\ \A i \in 1..Len(s) + Len(t) : r[i] = IF i <= Len(s) THEN s[i] ELSE t[i - Len(s)]
    BY ConcatProperties DEF Joined
  <1>2. \A i \in DOMAIN s : i \in DOMAIN r /\ r[i] = s[i]  BY <1>1
  <1>3. \A i \in DOMAIN t : i + Len(s) \in DOMAIN r /\ r[i + Len(s)] = t[i]  BY <1>1
  <1>4. ASSUME NEW j \in DOMAIN r
        PROVE  (\E i \in DOMAIN s : r[j] = s[i]) \/ (\E i \in DOMAIN t : r[j] = t[i])
    <2>1. j \in 1..Len(s) + Len(t)  BY <1>1
    <2>2. CASE j <= Len(s)  BY <1>1, <2>1, <2>2
    <2>3. CASE ~(j <= Len(s))
      <3>1. j - Len(s) \in DOMAIN t  BY <2>1, <2>3
      <3>. QED  BY <1>1, <2>1, <2>3, <3>1
    <2>. QED  BY <2>2, <2>3
  <1>. QED  BY <1>1, <1>2, <1>3, <1>4

\* consider_all is a command that looks at every open document.
LEMMA LooksAtAll ==
  ASSUME NEW todo \in LookAtAll
  PROVE  /\ todo \in Seq(Steps)
         /\ \A f \in Files : tab[f].open => \E i \in DOMAIN todo : todo[i] = Look(f)
         /\ \A i \in DOMAIN todo : todo[i].op = "look"
  <1>. DEFINE S == {f \in Files : tab[f].open}
              L == {Look(f) : f \in S}
              F == [f \in S |-> Look(f)]
  <1>1. IsFiniteSet(S)  BY FilesAssumption, FS_Subset
  <1>2. F \in Surjection(S, L)  BY DEF Surjection
  <1>3. IsFiniteSet(L)  BY <1>1, <1>2, FS_Surjection
  <1>4. Cardinality(L) \in Nat  BY <1>3, FS_CardinalityType
  <1>5. L = {Look(f) : f \in {g \in Files : tab[g].open}}  OBVIOUS
  <1>6. todo \in SetToSeqs(L)  BY <1>5 DEF LookAtAll
  <1>. HIDE DEF L
  <1>7. todo \in [1..Cardinality(L) -> L] /\ \A i, j \in 1..Cardinality(L) : i # j => todo[i] # todo[j]
    BY <1>6 DEF SetToSeqs
  <1>8. todo \in Seq(L)  BY <1>4, <1>7
  <1>9. L \subseteq Steps  BY <1>5, StepsAre
  <1>10. todo \in Seq(Steps)  BY <1>8, <1>9
  <1>11. ASSUME NEW x \in L PROVE \E i \in DOMAIN todo : todo[i] = x
    <2>1. todo \in Injection(1..Cardinality(L), L)  BY <1>7 DEF Injection, IsInjective
    <2>2. IsFiniteSet(1..Cardinality(L)) /\ Cardinality(1..Cardinality(L)) = Cardinality(L)
      BY <1>4, FS_Interval
    <2>3. todo \in Surjection(1..Cardinality(L), L)
      BY <1>3, <2>1, <2>2, FS_Injection
    <2>. QED  BY <2>3, <1>7 DEF Surjection
  <1>12. \A f \in Files : tab[f].open => Look(f) \in L  BY <1>5
  <1>13. \A i \in DOMAIN todo : todo[i] \in L  BY <1>7
  <1>14. \A x \in L : x.op = "look"  BY <1>5 DEF Look
  <1>. QED  BY <1>10, <1>11, <1>12, <1>13, <1>14
-----------------------------------------------------------------------------
(* What is done under the lock.                                             *)

\* The folder is what memory says, and memory is sound.
MemorySound(d, cat) ==
  /\ cat \in Catalog /\ CatalogSound(cat, texts)
  /\ cat.key = d.key /\ cat.key # 0
  /\ DOMAIN d.docs \subseteq IdsOf(cat)
  /\ TextsSound(cat, d.docs, d.key, texts)
  /\ ~torn => Counted(cat, d.docs)

\* A folder in which the app may end.
GoodEnd(d) ==
  /\ IsFolder(d) /\ FolderSound(d, texts)
  /\ ~torn => LostFile(d) \/ Counted(d.catalog, d.docs)

IsEffect(E) ==
  /\ E = [dir |-> E.dir, cat |-> E.cat, passed |-> E.passed]
  /\ IsFolder(E.dir) /\ FolderSound(E.dir, texts)
  /\ MemorySound(E.dir, E.cat)
  /\ \A d \in E.passed : GoodEnd(d)

\* The catalog is still to be written: it may count a file that was deleted.
Midway(E) ==
  /\ IsEffect(E)
  /\ ~torn => \A e \in E.dir.catalog.entries : e.done > 0 =>
       /\ e.id \in DOMAIN folder.docs
       /\ e.id \in DOMAIN E.dir.docs => Len(E.dir.docs[e.id].text) >= e.done

Final(E) ==
  /\ IsEffect(E)
  /\ E.dir.catalog.entries \subseteq E.cat.entries
  /\ ~torn => Counted(E.dir.catalog, E.dir.docs)

SameDocument(e, o) == e.id = o.id /\ e.file = o.file /\ e.version = o.version /\ e.done = o.done

\* Nothing is new but entries of files in `news`, with new ids.
Continues(E, cat, docs, news) ==
  /\ cat.nextId <= E.cat.nextId
  /\ cat.key # 0 => E.cat.key = cat.key
  /\ \A e \in E.cat.entries :
       (e.id >= cat.nextId /\ e.done = 0 /\ e.file \in news) \/ \E o \in cat.entries : SameDocument(e, o)
  /\ \A id \in DOMAIN E.dir.docs : id \in DOMAIN docs /\ E.dir.docs[id] = docs[id]
  /\ \A e \in E.cat.entries : e.id \in DOMAIN docs => e.id \in DOMAIN E.dir.docs

Ready ==
  /\ TypeOK /\ FolderSound(folder, texts) /\ IndexSound /\ CountedUnlessTorn /\ index.looked

LEMMA RemoveFilesFacts ==
  ASSUME NEW d, IsFolder(d), NEW ids
  PROVE  /\ IsFolder(RemoveFiles(d, ids))
         /\ RemoveFiles(d, ids).key = d.key /\ RemoveFiles(d, ids).catalog = d.catalog
         /\ DOMAIN RemoveFiles(d, ids).docs = DOMAIN d.docs \ ids
         /\ \A id \in DOMAIN d.docs \ ids : RemoveFiles(d, ids).docs[id] = d.docs[id]
  <1>. DEFINE docs == [id \in DOMAIN d.docs \ ids |-> d.docs[id]]
  <1>1. RemoveFiles(d, ids) = [key |-> d.key, catalog |-> d.catalog, docs |-> docs]
    BY DEF RemoveFiles, IsFolder
  <1>2. DOMAIN docs = DOMAIN d.docs \ ids /\ \A id \in DOMAIN d.docs \ ids : docs[id] = d.docs[id]
    OBVIOUS
  <1>. HIDE DEF docs
  <1>3. \A id \in DOMAIN docs : docs[id] \in TextFile /\ Len(docs[id].text) <= Pages
    BY <1>2 DEF IsFolder
  <1>4. DOMAIN docs \subseteq Nat  BY <1>2 DEF IsFolder
  <1>5. IsFolder(RemoveFiles(d, ids))  BY <1>1, <1>3, <1>4 DEF IsFolder
  <1>. QED  BY <1>1, <1>2, <1>5

\* Fewer entries and fewer files are as sound.
LEMMA FewerSound ==
  ASSUME NEW cat \in Catalog, NEW less \in Catalog, NEW docs, NEW fewer, NEW key,
         less.entries \subseteq cat.entries,
         \A id \in DOMAIN fewer : id \in DOMAIN docs /\ fewer[id] = docs[id]
  PROVE  /\ CatalogSound(cat, texts) /\ cat.nextId = less.nextId => CatalogSound(less, texts)
         /\ TextsSound(cat, docs, key, texts) => TextsSound(less, fewer, key, texts)
  <1>1. ASSUME CatalogSound(cat, texts), cat.nextId = less.nextId PROVE CatalogSound(less, texts)
    BY <1>1 DEF CatalogSound
  <1>2. ASSUME TextsSound(cat, docs, key, texts) PROVE TextsSound(less, fewer, key, texts)
    <2>. SUFFICES ASSUME NEW e \in less.entries, e.id \in DOMAIN fewer, fewer[e.id].key = key
                  PROVE  /\ fewer[e.id].file = e.file
                         /\ \A i \in DOMAIN fewer[e.id].text :
                              fewer[e.id].text[i] = texts[e.file][e.version]
      BY DEF TextsSound
    <2>1. e \in cat.entries /\ e.id \in DOMAIN docs /\ fewer[e.id] = docs[e.id]  OBVIOUS
    <2>. QED  BY <1>2, <2>1 DEF TextsSound
  <1>. QED  BY <1>1, <1>2

LEMMA RemoveEntriesSound ==
  ASSUME NEW E, Midway(E), NEW gone, gone \subseteq E.cat.entries,
         NEW R, R = RemoveEntries(E, gone)
  PROVE  /\ Midway(R)
         /\ R.cat = [E.cat EXCEPT !.entries = E.cat.entries \ gone]
         /\ R.dir.key = E.dir.key /\ R.dir.catalog = E.dir.catalog
         /\ DOMAIN R.dir.docs = DOMAIN E.dir.docs \ {e.id : e \in gone}
         /\ \A id \in DOMAIN R.dir.docs : R.dir.docs[id] = E.dir.docs[id]
  <1>. DEFINE ids == {e.id : e \in gone}
  <1>e. /\ E = [dir |-> E.dir, cat |-> E.cat, passed |-> E.passed]
        /\ IsFolder(E.dir) /\ FolderSound(E.dir, texts) /\ MemorySound(E.dir, E.cat)
        /\ \A d \in E.passed : GoodEnd(d)
    BY DEF Midway, IsEffect
  <1>c. E.cat \in Catalog  BY <1>e DEF MemorySound
  <1>1. CASE gone = {}
    <2>1. R = E  BY <1>1 DEF RemoveEntries
    <2>2. E.cat = [E.cat EXCEPT !.entries = E.cat.entries \ gone]  BY <1>1, <1>c DEF Catalog
    <2>3. DOMAIN E.dir.docs = DOMAIN E.dir.docs \ ids  BY <1>1
    <2>. QED  BY <2>1, <2>2, <2>3
  <1>2. CASE gone # {}
    <2>. DEFINE less == [E.cat EXCEPT !.entries = E.cat.entries \ gone]
                dir == RemoveFiles(E.dir, ids)
    <2>1. R = [dir |-> dir, cat |-> less, passed |-> E.passed \cup {dir}]
      BY <1>2 DEF RemoveEntries, Then, Effect
    <2>2. /\ less \in Catalog /\ less.entries = E.cat.entries \ gone
          /\ less.nextId = E.cat.nextId /\ less.key = E.cat.key
      BY <1>c DEF Catalog
    <2>3. /\ IsFolder(dir) /\ dir.key = E.dir.key /\ dir.catalog = E.dir.catalog
          /\ DOMAIN dir.docs = DOMAIN E.dir.docs \ ids
          /\ \A id \in DOMAIN E.dir.docs \ ids : dir.docs[id] = E.dir.docs[id]
      BY <1>e, RemoveFilesFacts
    <2>. HIDE DEF dir
    <2>r. less = [E.cat EXCEPT !.entries = E.cat.entries \ gone]  OBVIOUS
    <2>. HIDE DEF less
    <2>4. \A id \in DOMAIN dir.docs : id \in DOMAIN E.dir.docs /\ dir.docs[id] = E.dir.docs[id]
      BY <2>3
    <2>5. FolderSound(dir, texts)
      <3>1. dir.catalog \in Catalog  BY <2>3 DEF IsFolder
      <3>2. TextsSound(E.dir.catalog, E.dir.docs, E.dir.key, texts)
              => TextsSound(dir.catalog, dir.docs, E.dir.key, texts)
        BY <3>1, <2>3, <2>4, FewerSound
      <3>. QED  BY <1>e, <2>3, <3>2 DEF FolderSound
    <2>6. MemorySound(dir, less)
      <3>1. CatalogSound(less, texts) /\ TextsSound(less, dir.docs, dir.key, texts)
        BY <1>c, <1>e, <2>2, <2>3, <2>4, FewerSound DEF MemorySound
      <3>2. DOMAIN dir.docs \subseteq IdsOf(less)
        <4>. SUFFICES ASSUME NEW id \in DOMAIN dir.docs PROVE id \in IdsOf(less)  OBVIOUS
        <4>1. PICK e \in E.cat.entries : e.id = id  BY <1>e, <2>4 DEF MemorySound, IdsOf
        <4>2. e \notin gone  BY <4>1, <2>3
        <4>. QED  BY <4>1, <4>2, <2>2 DEF IdsOf
      <3>3. ASSUME ~torn PROVE Counted(less, dir.docs)
        <4>. SUFFICES ASSUME NEW e \in less.entries, e.done > 0
                      PROVE  e.id \in DOMAIN dir.docs /\ Len(dir.docs[e.id].text) >= e.done
          BY DEF Counted
        <4>1. e \in E.cat.entries /\ e \notin gone  BY <2>2
        <4>2. e.id \in DOMAIN E.dir.docs /\ Len(E.dir.docs[e.id].text) >= e.done
          BY <3>3, <4>1, <1>e DEF MemorySound, Counted
        <4>3. e.id \notin ids  BY <4>1, <1>e DEF MemorySound, CatalogSound
        <4>. QED  BY <4>2, <4>3, <2>3
      <3>. QED  BY <1>e, <2>2, <2>3, <3>1, <3>2, <3>3 DEF MemorySound
    <2>7. ~torn => \A e \in dir.catalog.entries : e.done > 0 =>
            /\ e.id \in DOMAIN folder.docs
            /\ e.id \in DOMAIN dir.docs => Len(dir.docs[e.id].text) >= e.done
      BY <2>3, <2>4 DEF Midway
    <2>8. GoodEnd(dir)
      <3>1. ~torn /\ ~LostFile(dir) => Counted(dir.catalog, dir.docs)
        BY <2>7 DEF LostFile, Counted
      <3>. QED  BY <2>3, <2>5, <3>1 DEF GoodEnd
    <2>9. R.dir = dir /\ R.cat = less /\ R.passed = E.passed \cup {dir}
            /\ R = [dir |-> R.dir, cat |-> R.cat, passed |-> R.passed]
      BY <2>1
    <2>10. \A d \in R.passed : GoodEnd(d)  BY <1>e, <2>8, <2>9
    <2>11. IsEffect(R)  BY <2>3, <2>5, <2>6, <2>9, <2>10 DEF IsEffect
    <2>12. Midway(R)  BY <2>7, <2>9, <2>11 DEF Midway
    <2>13. /\ R.cat = [E.cat EXCEPT !.entries = E.cat.entries \ gone]
           /\ R.dir.key = E.dir.key /\ R.dir.catalog = E.dir.catalog
           /\ DOMAIN R.dir.docs = DOMAIN E.dir.docs \ ids
           /\ \A id \in DOMAIN R.dir.docs : R.dir.docs[id] = E.dir.docs[id]
      BY <2>3, <2>9, <2>r
    <2>. QED  BY <2>12, <2>13
  <1>. QED  BY <1>1, <1>2

LEMMA WriteCatalogSound ==
  ASSUME NEW E, Midway(E), NEW W, W = WriteCatalog(E)
  PROVE  /\ Final(W) /\ W.cat = E.cat
         /\ W.dir = [key |-> E.dir.key, catalog |-> E.cat, docs |-> E.dir.docs]
  <1>. DEFINE dir == [E.dir EXCEPT !.catalog = E.cat]
  <1>e. /\ E = [dir |-> E.dir, cat |-> E.cat, passed |-> E.passed]
        /\ IsFolder(E.dir) /\ FolderSound(E.dir, texts) /\ MemorySound(E.dir, E.cat)
        /\ \A d \in E.passed : GoodEnd(d)
    BY DEF Midway, IsEffect
  <1>c. E.cat \in Catalog  BY <1>e DEF MemorySound
  <1>1. W = [dir |-> dir, cat |-> E.cat, passed |-> E.passed \cup {dir}]
    BY DEF WriteCatalog, Then, Effect
  <1>2. dir = [key |-> E.dir.key, catalog |-> E.cat, docs |-> E.dir.docs]
    BY <1>e DEF IsFolder
  <1>. HIDE DEF dir
  <1>3. dir.key = E.dir.key /\ dir.catalog = E.cat /\ dir.docs = E.dir.docs
          /\ dir = [key |-> dir.key, catalog |-> dir.catalog, docs |-> dir.docs]
    BY <1>2
  <1>4. IsFolder(dir)  BY <1>3, <1>e, <1>c DEF IsFolder
  <1>5. FolderSound(dir, texts)  BY <1>3, <1>e DEF FolderSound, MemorySound
  <1>6. MemorySound(dir, E.cat)  BY <1>3, <1>e DEF MemorySound
  <1>7. ~torn => Counted(dir.catalog, dir.docs)  BY <1>3, <1>e DEF MemorySound
  <1>8. GoodEnd(dir)  BY <1>4, <1>5, <1>7 DEF GoodEnd
  <1>9. W.dir = dir /\ W.cat = E.cat /\ W.passed = E.passed \cup {dir}
          /\ W = [dir |-> W.dir, cat |-> W.cat, passed |-> W.passed]
    BY <1>1
  <1>10. \A d \in W.passed : GoodEnd(d)  BY <1>e, <1>8, <1>9
  <1>11. IsEffect(W)  BY <1>4, <1>5, <1>6, <1>9, <1>10 DEF IsEffect
  <1>12. Final(W)  BY <1>3, <1>7, <1>9, <1>11 DEF Final
  <1>. QED  BY <1>12, <1>9, <1>2

LEMMA LimitsAre ==
  ASSUME NEW E, NEW keep
  PROVE  \E gone \in SUBSET E.cat.entries :
           /\ \A e \in gone : e.id \notin keep
           /\ KeepWithinLimits(E, keep) = RemoveEntries(E, gone)
  <1>1. OverLimits(E.cat, keep) \in SUBSET E.cat.entries
          /\ \A e \in OverLimits(E.cat, keep) : e.id \notin keep
    BY DEF OverLimits
  <1>2. KeepWithinLimits(E, keep) = RemoveEntries(E, OverLimits(E.cat, keep))
    BY DEF KeepWithinLimits
  <1>. QED  BY <1>1, <1>2

LEMMA CatalogFacts ==
  ASSUME NEW cat \in Catalog
  PROVE  /\ cat.key \in Nat /\ cat.nextId \in Nat /\ cat.clock \in Nat
         /\ \A e \in cat.entries : e \in Entry /\ e.id \in Nat /\ e.done \in Nat /\ e.file \in Files
  BY DEF Catalog, Entry

LEMMA ContinuesOn ==
  ASSUME NEW E, NEW R, NEW cat \in Catalog, NEW docs, NEW news,
         E.cat \in Catalog, R.cat \in Catalog,
         \A id \in DOMAIN docs : id < cat.nextId,
         Continues(E, cat, docs, news), Continues(R, E.cat, E.dir.docs, news)
  PROVE  Continues(R, cat, docs, news)
  <1>1. cat.nextId <= R.cat.nextId  BY CatalogFacts DEF Continues
  <1>2. cat.key # 0 => R.cat.key = cat.key  BY DEF Continues
  <1>3. \A id \in DOMAIN R.dir.docs : id \in DOMAIN docs /\ R.dir.docs[id] = docs[id]
    BY DEF Continues
  <1>4. ASSUME NEW e \in R.cat.entries
        PROVE  /\ (e.id >= cat.nextId /\ e.done = 0 /\ e.file \in news) \/ \E o \in cat.entries : SameDocument(e, o)
               /\ e.id \in DOMAIN docs => e.id \in DOMAIN R.dir.docs
    <2>0. e.id \in Nat /\ cat.nextId \in Nat /\ E.cat.nextId \in Nat  BY CatalogFacts
    <2>1. CASE e.id >= E.cat.nextId /\ e.done = 0 /\ e.file \in news
      <3>1. e.id >= cat.nextId  BY <2>0, <2>1 DEF Continues
      <3>2. e.id \notin DOMAIN docs  BY <3>1, <2>0
      <3>. QED  BY <2>1, <3>1, <3>2
    <2>2. CASE \E o \in E.cat.entries : SameDocument(e, o)
      <3>1. PICK o \in E.cat.entries : SameDocument(e, o)  BY <2>2
      <3>2. o.id = e.id /\ o.done = e.done /\ o.file = e.file /\ o.version = e.version
        BY <3>1 DEF SameDocument
      <3>3. (o.id >= cat.nextId /\ o.done = 0 /\ o.file \in news) \/ \E x \in cat.entries : SameDocument(o, x)
        BY DEF Continues
      <3>4. (e.id >= cat.nextId /\ e.done = 0 /\ e.file \in news) \/ \E x \in cat.entries : SameDocument(e, x)
        BY <3>2, <3>3 DEF SameDocument
      <3>5. e.id \in DOMAIN docs => e.id \in DOMAIN E.dir.docs  BY <3>2 DEF Continues
      <3>6. e.id \in DOMAIN E.dir.docs => e.id \in DOMAIN R.dir.docs  BY DEF Continues
      <3>. QED  BY <3>4, <3>5, <3>6
    <2>. QED  BY <2>1, <2>2 DEF Continues
  <1>. QED  BY <1>1, <1>2, <1>3, <1>4 DEF Continues

\* The documents with files are named by ids given out.
LEMMA IdsGiven ==
  ASSUME NEW d, NEW cat, MemorySound(d, cat)
  PROVE  /\ cat \in Catalog /\ CatalogSound(cat, texts)
         /\ \A id \in DOMAIN d.docs : id < cat.nextId
  BY DEF MemorySound, IdsOf, CatalogSound

LEMMA RemoveEntriesContinues ==
  ASSUME NEW E, Midway(E), NEW gone, gone \subseteq E.cat.entries,
         NEW R, R = RemoveEntries(E, gone), NEW news
  PROVE  Midway(R) /\ Continues(R, E.cat, E.dir.docs, news)
  <1>1. /\ Midway(R)
        /\ R.cat = [E.cat EXCEPT !.entries = E.cat.entries \ gone]
        /\ DOMAIN R.dir.docs = DOMAIN E.dir.docs \ {e.id : e \in gone}
        /\ \A id \in DOMAIN R.dir.docs : R.dir.docs[id] = E.dir.docs[id]
    BY RemoveEntriesSound
  <1>2. E.cat \in Catalog /\ CatalogSound(E.cat, texts)  BY DEF Midway, IsEffect, MemorySound
  <1>3. R.cat.nextId = E.cat.nextId /\ R.cat.key = E.cat.key /\ R.cat.entries = E.cat.entries \ gone
    BY <1>1, <1>2 DEF Catalog
  <1>4. E.cat.nextId <= R.cat.nextId  BY <1>2, <1>3, CatalogFacts
  <1>5. \A e \in R.cat.entries : \E o \in E.cat.entries : SameDocument(e, o)
    BY <1>3 DEF SameDocument
  <1>6. ASSUME NEW e \in R.cat.entries, e.id \in DOMAIN E.dir.docs PROVE e.id \in DOMAIN R.dir.docs
    <2>1. \A x \in gone : x.id # e.id  BY <1>2, <1>3 DEF CatalogSound
    <2>. QED  BY <1>1, <1>6, <2>1
  <1>. QED  BY <1>1, <1>3, <1>4, <1>5, <1>6 DEF Continues

LEMMA ReadyFacts ==
  ASSUME Ready
  PROVE  /\ IsFolder(folder) /\ index.loaded \in Catalog
         /\ Loaded => MemorySound(folder, index.loaded)
         /\ ~Loaded => folder = Nothing /\ index.loaded = NoIndex
         /\ \A id \in DOMAIN folder.docs : id < index.loaded.nextId
  <1>1. IsFolder(folder) /\ index.loaded \in Catalog  BY DEF Ready, TypeOK
  <1>2. Loaded => MemorySound(folder, index.loaded)
    BY <1>1 DEF Ready, IndexSound, MemorySound, Loaded, CountedUnlessTorn
  <1>3. ~Loaded => folder = Nothing /\ index.loaded = NoIndex  BY DEF Ready, IndexSound
  <1>4. ~Loaded => DOMAIN folder.docs = {}  BY <1>3 DEF Nothing
  <1>. QED  BY <1>1, <1>2, <1>3, <1>4, IdsGiven

LEMMA BeforeSound ==
  ASSUME Ready, Loaded, NEW B, B = Before(index.loaded)
  PROVE  Midway(B) /\ B.cat = index.loaded /\ B.dir = folder
  <1>1. B = [dir |-> folder, cat |-> index.loaded, passed |-> {}]  BY DEF Before, Effect
  <1>2. B.dir = folder /\ B.cat = index.loaded /\ B.passed = {}
          /\ B = [dir |-> B.dir, cat |-> B.cat, passed |-> B.passed]
    BY <1>1
  <1>3. IsFolder(folder) /\ FolderSound(folder, texts) /\ MemorySound(folder, index.loaded)
    BY ReadyFacts DEF Ready
  <1>4. IsEffect(B)  BY <1>2, <1>3 DEF IsEffect
  <1>5. ~torn => Counted(folder.catalog, folder.docs)  BY DEF Ready, CountedUnlessTorn
  <1>6. ~torn => \A e \in B.dir.catalog.entries : e.done > 0 =>
          /\ e.id \in DOMAIN folder.docs
          /\ e.id \in DOMAIN B.dir.docs => Len(B.dir.docs[e.id].text) >= e.done
    BY <1>2, <1>5 DEF Counted
  <1>. QED  BY <1>2, <1>4, <1>6 DEF Midway

\* A folder whose catalog names nothing.
LEMMA EmptySound ==
  ASSUME NEW k \in Nat, NEW cat \in Catalog, cat.entries = {},
         NEW d, d = [key |-> k, catalog |-> cat, docs |-> <<>>]
  PROVE  IsFolder(d) /\ FolderSound(d, texts) /\ GoodEnd(d) /\ Counted(d.catalog, d.docs)
  <1>1. d.key = k /\ d.catalog = cat /\ d.docs = <<>> /\ DOMAIN d.docs = {}  OBVIOUS
  <1>2. IsFolder(d)  BY <1>1 DEF IsFolder
  <1>3. FolderSound(d, texts)  BY <1>1 DEF FolderSound, CatalogSound, TextsSound
  <1>4. Counted(d.catalog, d.docs)  BY <1>1 DEF Counted
  <1>. QED  BY <1>2, <1>3, <1>4 DEF GoodEnd

LEMMA NoIndexFacts ==
  ASSUME NEW k \in Nat
  PROVE  /\ NoIndex \in Catalog /\ NoIndex.entries = {} /\ NoIndex.key = 0 /\ NoIndex.nextId = 0
         /\ [NoIndex EXCEPT !.key = k] \in Catalog /\ [NoIndex EXCEPT !.key = k].entries = {}
         /\ [NoIndex EXCEPT !.key = k].key = k /\ [NoIndex EXCEPT !.key = k].nextId = 0
  BY DEF NoIndex, Catalog

LEMMA MadeSound ==
  ASSUME Ready, NEW M, M = Made, NEW news
  PROVE  Midway(M) /\ Continues(M, index.loaded, folder.docs, news)
  <1>1. CASE Loaded
    <2>1. M = Before(index.loaded)  BY <1>1 DEF Made
    <2>2. Midway(M) /\ M.cat = index.loaded /\ M.dir = folder  BY <1>1, <2>1, BeforeSound
    <2>3. Continues(M, index.loaded, folder.docs, news)
      BY <2>2, ReadyFacts, CatalogFacts DEF Continues, SameDocument
    <2>. QED  BY <2>2, <2>3
  <1>2. CASE ~Loaded
    <2>1. folder = Nothing /\ index.loaded = NoIndex  BY <1>2, ReadyFacts
    <2>2. nextKey \in Nat /\ nextKey # 0  BY DEF Ready, TypeOK
    <2>. DEFINE cat == [NoIndex EXCEPT !.key = nextKey]
                keyed == [folder EXCEPT !.key = nextKey]
                dir == [keyed EXCEPT !.catalog = cat]
    <2>3. keyed = [key |-> nextKey, catalog |-> NoIndex, docs |-> <<>>]
      BY <2>1 DEF Nothing
    <2>5. M = [dir |-> dir, cat |-> cat, passed |-> {keyed} \cup {dir}]
      BY <1>2 DEF Made, WriteCatalog, Then, Effect, Before
    <2>6. /\ cat \in Catalog /\ cat.entries = {} /\ cat.key = nextKey /\ cat.nextId = 0
          /\ NoIndex \in Catalog /\ NoIndex.entries = {} /\ NoIndex.key = 0 /\ NoIndex.nextId = 0
      BY <2>2, NoIndexFacts
    <2>. HIDE DEF cat, keyed
    <2>4. dir = [key |-> nextKey, catalog |-> cat, docs |-> <<>>]
      BY <2>3
    <2>. HIDE DEF dir
    <2>7. GoodEnd(keyed)  BY <2>2, <2>3, <2>6, EmptySound
    <2>8. IsFolder(dir) /\ FolderSound(dir, texts) /\ GoodEnd(dir)
      BY <2>2, <2>4, <2>6, EmptySound
    <2>9. M.dir = dir /\ M.cat = cat /\ M.passed = {keyed} \cup {dir}
            /\ M = [dir |-> M.dir, cat |-> M.cat, passed |-> M.passed]
      BY <2>5
    <2>10. dir.docs = <<>> /\ DOMAIN dir.docs = {} /\ dir.key = nextKey /\ dir.catalog = cat
      BY <2>4
    <2>11. MemorySound(dir, cat)
      BY <2>2, <2>6, <2>10 DEF MemorySound, CatalogSound, TextsSound, Counted
    <2>12. \A d \in M.passed : GoodEnd(d)  BY <2>7, <2>8, <2>9
    <2>13. IsEffect(M)  BY <2>8, <2>9, <2>11, <2>12 DEF IsEffect
    <2>14. M.dir.catalog.entries = {}  BY <2>6, <2>9, <2>10
    <2>15. Midway(M)  BY <2>13, <2>14 DEF Midway
    <2>16. Continues(M, index.loaded, folder.docs, news)
      BY <2>1, <2>6, <2>9, <2>10 DEF Continues
    <2>. QED  BY <2>15, <2>16
  <1>. QED  BY <1>1, <1>2

LEMMA DropSound ==
  ASSUME Ready, NEW gone, gone \subseteq index.loaded.entries, NEW D, D = Drop(gone)
  PROVE  IF gone = {} THEN D.dir = folder /\ D.cat = index.loaded /\ D.passed = {}
         ELSE Final(D) /\ Continues(D, index.loaded, folder.docs, {})
                /\ D.cat.entries = index.loaded.entries \ gone
  <1>1. CASE gone = {}
    <2>1. D = [dir |-> folder, cat |-> index.loaded, passed |-> {}]
      BY <1>1 DEF Drop, Before, Effect
    <2>. QED  BY <1>1, <2>1
  <1>2. CASE gone # {}
    <2>0. Loaded  BY <1>2, ReadyFacts, NoIndexFacts
    <2>1. PICK B : B = Before(index.loaded)  OBVIOUS
    <2>2. Midway(B) /\ B.cat = index.loaded /\ B.dir = folder  BY <2>0, <2>1, BeforeSound
    <2>3. PICK R : R = RemoveEntries(B, gone)  OBVIOUS
    <2>4. Midway(R) /\ Continues(R, B.cat, B.dir.docs, {})  BY <2>2, <2>3, RemoveEntriesContinues
    <2>5. R.cat = [B.cat EXCEPT !.entries = B.cat.entries \ gone]
      BY <2>2, <2>3, RemoveEntriesSound
    <2>6. D = WriteCatalog(R)  BY <1>2, <2>1, <2>3 DEF Drop
    <2>7. Final(D) /\ D.cat = R.cat /\ D.dir = [key |-> R.dir.key, catalog |-> R.cat, docs |-> R.dir.docs]
      BY <2>4, <2>6, WriteCatalogSound
    <2>8. D.dir.docs = R.dir.docs  BY <2>7
    <2>9. Continues(D, index.loaded, folder.docs, {})  BY <2>2, <2>4, <2>7, <2>8 DEF Continues
    <2>10. D.cat.entries = index.loaded.entries \ gone  BY <2>2, <2>5, <2>7, ReadyFacts DEF Catalog
    <2>. QED  BY <1>2, <2>7, <2>9, <2>10
  <1>. QED  BY <1>1, <1>2

\* The catalog of consider: the document is in it, opened last.
Named(cat, f, version) ==
  LET known == EntriesOf(cat, f)
      now == cat.clock + 1
      new == [id |-> NewId(cat), file |-> f, version |-> version, opened |-> now, done |-> 0]
  IN IF known # {}
     THEN [cat EXCEPT !.clock = now,
                      !.entries = (@ \ known) \cup {[e EXCEPT !.opened = now] : e \in known}]
     ELSE [cat EXCEPT !.clock = now, !.nextId = @ + 1, !.entries = @ \cup {new}]

LEMMA NamedAgain ==
  ASSUME NEW cat \in Catalog, CatalogSound(cat, texts), NEW f \in Files, NEW version,
         NEW known, known = EntriesOf(cat, f), known # {}, NEW named, named = Named(cat, f, version)
  PROVE  /\ named \in Catalog /\ CatalogSound(named, texts)
         /\ named.key = cat.key /\ named.nextId = cat.nextId
         /\ \A e \in named.entries : \E o \in cat.entries : SameDocument(e, o)
         /\ \A o \in cat.entries : \E e \in named.entries : SameDocument(e, o)
  <1>. DEFINE now == cat.clock + 1
              again == {[e EXCEPT !.opened = now] : e \in known}
  <1>1. known \subseteq cat.entries  BY DEF EntriesOf
  <1>2. now \in Nat  BY CatalogFacts
  <1>3. ASSUME NEW e \in known
        PROVE  [e EXCEPT !.opened = now] \in Entry /\ SameDocument([e EXCEPT !.opened = now], e)
    BY <1>1, <1>2, CatalogFacts DEF Entry, SameDocument
  <1>. HIDE DEF now
  <1>4. named = [cat EXCEPT !.clock = now, !.entries = (cat.entries \ known) \cup again]
    BY Zenon DEF Named, now, again
  <1>5. again \subseteq Entry
          /\ \A x \in again : \E e \in known : SameDocument(x, e)
    BY <1>3
  <1>6. \A e \in known : \E x \in again : SameDocument(x, e)  BY <1>3
  <1>. HIDE DEF again
  <1>7. cat.entries \subseteq Entry  BY DEF Catalog
  <1>8. named \in Catalog /\ named.key = cat.key /\ named.nextId = cat.nextId
          /\ named.entries = (cat.entries \ known) \cup again
    BY <1>2, <1>4, <1>5, <1>7 DEF Catalog
  <1>9. \A e \in named.entries : \E o \in cat.entries : SameDocument(e, o)
    BY <1>1, <1>5, <1>8 DEF SameDocument
  <1>10. \A o \in cat.entries : \E e \in named.entries : SameDocument(e, o)
    BY <1>6, <1>8 DEF SameDocument
  <1>11. \A e \in named.entries : e.id < named.nextId /\ e.version \in 1..Len(texts[e.file])
    BY <1>8, <1>9 DEF CatalogSound, SameDocument
  <1>12. ASSUME NEW e \in named.entries, NEW x \in named.entries, e.id = x.id \/ e.file = x.file
         PROVE  e = x
    <2>1. PICK o \in cat.entries : SameDocument(e, o)  BY <1>9
    <2>2. PICK p \in cat.entries : SameDocument(x, p)  BY <1>9
    <2>3. o = p  BY <1>12, <2>1, <2>2 DEF SameDocument, CatalogSound
    <2>4. e \in again <=> o \in known
      <3>1. \A k \in known : k.file = f  BY DEF EntriesOf
      <3>2. e \in again => o.file = f
        BY <1>5, <2>1, <3>1 DEF SameDocument
      <3>3. e \notin again => e \in cat.entries \ known  BY <1>8
      <3>4. e \notin again => e.file # f  BY <3>3 DEF EntriesOf
      <3>. QED  BY <2>1, <3>2, <3>4 DEF SameDocument, EntriesOf
    <2>5. x \in again <=> p \in known
      <3>1. \A k \in known : k.file = f  BY DEF EntriesOf
      <3>2. x \in again => p.file = f
        BY <1>5, <2>2, <3>1 DEF SameDocument
      <3>3. x \notin again => x \in cat.entries \ known  BY <1>8
      <3>4. x \notin again => x.file # f  BY <3>3 DEF EntriesOf
      <3>. QED  BY <2>2, <3>2, <3>4 DEF SameDocument, EntriesOf
    <2>6. CASE o \in known
      <3>1. PICK k \in known : e = [k EXCEPT !.opened = now]  BY <2>4, <2>6 DEF again
      <3>2. PICK m \in known : x = [m EXCEPT !.opened = now]  BY <2>3, <2>5, <2>6 DEF again
      <3>3. k = m  BY <1>1 DEF EntriesOf, CatalogSound
      <3>. QED  BY <3>1, <3>2, <3>3
    <2>7. CASE o \notin known
      <3>1. e \in cat.entries /\ x \in cat.entries  BY <1>8, <2>3, <2>4, <2>5, <2>7
      <3>. QED  BY <1>12, <3>1 DEF CatalogSound
    <2>. QED  BY <2>6, <2>7
  <1>13. CatalogSound(named, texts)  BY <1>11, <1>12 DEF CatalogSound
  <1>. QED  BY <1>8, <1>9, <1>10, <1>13

LEMMA NamedNew ==
  ASSUME NEW cat \in Catalog, CatalogSound(cat, texts), NEW f \in Files,
         NEW version \in 1..Len(texts[f]), texts[f] \in Seq(Nat),
         EntriesOf(cat, f) = {}, NEW named, named = Named(cat, f, version)
  PROVE  /\ named \in Catalog /\ CatalogSound(named, texts)
         /\ named.key = cat.key /\ named.nextId = cat.nextId + 1
         /\ cat.entries \subseteq named.entries
         /\ \A e \in named.entries : e \in cat.entries \/ (e.id = cat.nextId /\ e.done = 0 /\ e.file = f)
  <1>. DEFINE now == cat.clock + 1
              new == [id |-> cat.nextId, file |-> f, version |-> version, opened |-> now, done |-> 0]
  <1>1. cat.nextId \in Nat /\ now \in Nat /\ version \in Nat  BY CatalogFacts
  <1>2. new \in Entry /\ new.id = cat.nextId /\ new.file = f /\ new.version = version /\ new.done = 0
    BY <1>1 DEF Entry
  <1>3. named = [cat EXCEPT !.clock = now, !.nextId = cat.nextId + 1,
                            !.entries = cat.entries \cup {new}]
    BY Zenon DEF Named, NewId
  <1>. HIDE DEF new, now
  <1>m. cat.entries \cup {new} \subseteq Entry /\ cat.nextId + 1 \in Nat  BY <1>1, <1>2 DEF Catalog
  <1>4. named \in Catalog /\ named.key = cat.key /\ named.nextId = cat.nextId + 1
          /\ named.entries = cat.entries \cup {new}
    BY <1>1, <1>3, <1>m DEF Catalog
  <1>5. \A e \in cat.entries : e.id \in Nat /\ e.id < cat.nextId /\ e.file # f
    BY CatalogFacts DEF CatalogSound, EntriesOf
  <1>6. \A e \in named.entries : e.id < named.nextId /\ e.version \in 1..Len(texts[e.file])
    BY <1>1, <1>2, <1>4, <1>5 DEF CatalogSound
  <1>7. \A e, x \in named.entries : e.id = x.id \/ e.file = x.file => e = x
    BY <1>1, <1>2, <1>4, <1>5 DEF CatalogSound
  <1>8. CatalogSound(named, texts)  BY <1>6, <1>7 DEF CatalogSound
  <1>9. \A e \in named.entries : e \in cat.entries \/ (e.id = cat.nextId /\ e.done = 0 /\ e.file = f)
    BY <1>2, <1>4
  <1>. QED  BY <1>4, <1>8, <1>9

LEMMA NamedSound ==
  ASSUME NEW F, Midway(F), NEW f \in Files, NEW version \in 1..Len(texts[f]), texts[f] \in Seq(Nat),
         \A e \in EntriesOf(F.cat, f) : e.version = version,
         NEW N, N = [F EXCEPT !.cat = Named(F.cat, f, version)]
  PROVE  Midway(N) /\ Continues(N, F.cat, F.dir.docs, {f})
  <1>. DEFINE named == Named(F.cat, f, version)
  <1>f. /\ F = [dir |-> F.dir, cat |-> F.cat, passed |-> F.passed]
        /\ IsFolder(F.dir) /\ FolderSound(F.dir, texts) /\ MemorySound(F.dir, F.cat)
        /\ \A d \in F.passed : GoodEnd(d)
    BY DEF Midway, IsEffect
  <1>1. F.cat \in Catalog /\ CatalogSound(F.cat, texts) /\ \A id \in DOMAIN F.dir.docs : id < F.cat.nextId
    BY <1>f, IdsGiven
  <1>2. N = [dir |-> F.dir, cat |-> named, passed |-> F.passed]
    <2>. HIDE DEF named
    <2>1. N = [F EXCEPT !.cat = named]  BY DEF named
    <2>. QED  BY <1>f, <2>1
  <1>3. /\ named \in Catalog /\ CatalogSound(named, texts)
        /\ named.key = F.cat.key /\ F.cat.nextId <= named.nextId
        /\ \A e \in named.entries :
             (e.id = F.cat.nextId /\ e.done = 0 /\ e.file = f) \/ \E o \in F.cat.entries : SameDocument(e, o)
        /\ \A o \in F.cat.entries : \E e \in named.entries : SameDocument(e, o)
    <2>1. CASE EntriesOf(F.cat, f) = {}
      <3>1. PICK n : n = named  OBVIOUS
      <3>. HIDE DEF named
      <3>2. /\ n \in Catalog /\ CatalogSound(n, texts)
            /\ n.key = F.cat.key /\ n.nextId = F.cat.nextId + 1
            /\ F.cat.entries \subseteq n.entries
            /\ \A e \in n.entries : e \in F.cat.entries \/ (e.id = F.cat.nextId /\ e.done = 0 /\ e.file = f)
        BY <1>1, <2>1, <3>1, NamedNew DEF named
      <3>3. F.cat.nextId <= n.nextId  BY <1>1, <3>2, CatalogFacts
      <3>. QED  BY <3>1, <3>2, <3>3 DEF SameDocument
    <2>2. CASE EntriesOf(F.cat, f) # {}
      <3>1. PICK n : n = named  OBVIOUS
      <3>. HIDE DEF named
      <3>2. /\ n \in Catalog /\ CatalogSound(n, texts)
            /\ n.key = F.cat.key /\ n.nextId = F.cat.nextId
            /\ \A e \in n.entries : \E o \in F.cat.entries : SameDocument(e, o)
            /\ \A o \in F.cat.entries : \E e \in n.entries : SameDocument(e, o)
        BY <1>1, <2>2, <3>1, NamedAgain DEF named
      <3>3. F.cat.nextId <= n.nextId  BY <1>1, <3>2, CatalogFacts
      <3>. QED  BY <3>1, <3>2, <3>3
    <2>. QED  BY <2>1, <2>2
  <1>. HIDE DEF named
  <1>4. N.dir = F.dir /\ N.cat = named /\ N.passed = F.passed
          /\ N = [dir |-> N.dir, cat |-> N.cat, passed |-> N.passed]
    BY ONLY <1>2
  <1>5. MemorySound(F.dir, named)
    <2>0. F.cat.nextId \in Nat  BY <1>1, CatalogFacts
    <2>1. DOMAIN F.dir.docs \subseteq IdsOf(named)
      <3>. SUFFICES ASSUME NEW id \in DOMAIN F.dir.docs PROVE id \in IdsOf(named)  OBVIOUS
      <3>1. PICK o \in F.cat.entries : o.id = id  BY <1>f DEF MemorySound, IdsOf
      <3>2. PICK e \in named.entries : SameDocument(e, o)  BY <1>3
      <3>. QED  BY <3>1, <3>2 DEF SameDocument, IdsOf
    <2>2. TextsSound(named, F.dir.docs, F.dir.key, texts)
      <3>. SUFFICES ASSUME NEW e \in named.entries, e.id \in DOMAIN F.dir.docs,
                           F.dir.docs[e.id].key = F.dir.key
                    PROVE  /\ F.dir.docs[e.id].file = e.file
                           /\ \A i \in DOMAIN F.dir.docs[e.id].text :
                                F.dir.docs[e.id].text[i] = texts[e.file][e.version]
        BY DEF TextsSound
      <3>1. e.id # F.cat.nextId  BY <1>1, <2>0
      <3>2. PICK o \in F.cat.entries : SameDocument(e, o)  BY <1>3, <3>1
      <3>3. TextsSound(F.cat, F.dir.docs, F.dir.key, texts)  BY <1>f DEF MemorySound
      <3>. QED  BY <3>2, <3>3 DEF TextsSound, SameDocument
    <2>3. ASSUME ~torn PROVE Counted(named, F.dir.docs)
      <3>. SUFFICES ASSUME NEW e \in named.entries, e.done > 0
                    PROVE  e.id \in DOMAIN F.dir.docs /\ Len(F.dir.docs[e.id].text) >= e.done
        BY DEF Counted
      <3>1. PICK o \in F.cat.entries : SameDocument(e, o)  BY <1>3
      <3>2. Counted(F.cat, F.dir.docs)  BY <1>f, <2>3 DEF MemorySound
      <3>. QED  BY <3>1, <3>2 DEF Counted, SameDocument
    <2>. QED  BY <1>f, <1>3, <2>1, <2>2, <2>3 DEF MemorySound
  <1>6. IsEffect(N)  BY <1>f, <1>4, <1>5 DEF IsEffect
  <1>7. Midway(N)  BY <1>4, <1>6 DEF Midway
  <1>8. Continues(N, F.cat, F.dir.docs, {f})
    <2>0. F.cat.nextId \in Nat  BY <1>1, CatalogFacts
    <2>1. \A e \in N.cat.entries :
            (e.id >= F.cat.nextId /\ e.done = 0 /\ e.file \in {f}) \/ \E o \in F.cat.entries : SameDocument(e, o)
      BY <1>3, <1>4, <2>0
    <2>. QED  BY <1>3, <1>4, <2>1 DEF Continues
  <1>. QED  BY <1>7, <1>8

LEMMA PutIs ==
  ASSUME NEW f, NEW version, NEW M, M = Made,
         NEW F, F = RemoveEntries(M, {e \in EntriesOf(M.cat, f) : ~SameFile(e, version)}),
         NEW N, N = [F EXCEPT !.cat = Named(F.cat, f, version)]
  PROVE  Put(f, version) = WriteCatalog(KeepWithinLimits(N, {}))
  BY DEF Put, Named

\* consider, for a tab's version of its file.
LEMMA PutSound ==
  ASSUME Ready, NEW f \in Files, NEW version \in 1..Len(texts[f]), NEW P, P = Put(f, version)
  PROVE  Final(P) /\ Continues(P, index.loaded, folder.docs, {f})
  <1>0. texts[f] \in Seq(Nat)  BY DEF Ready, TypeOK
  <1>r. index.loaded \in Catalog /\ \A id \in DOMAIN folder.docs : id < index.loaded.nextId
    BY ReadyFacts
  <1>1. PICK M : M = Made  OBVIOUS
  <1>2. Midway(M) /\ Continues(M, index.loaded, folder.docs, {f})  BY <1>1, MadeSound
  <1>3. PICK gone : gone = {e \in EntriesOf(M.cat, f) : ~SameFile(e, version)}  OBVIOUS
  <1>4. gone \subseteq M.cat.entries  BY <1>3 DEF EntriesOf
  <1>5. PICK F : F = RemoveEntries(M, gone)  OBVIOUS
  <1>6. /\ Midway(F) /\ Continues(F, M.cat, M.dir.docs, {f})
        /\ F.cat = [M.cat EXCEPT !.entries = M.cat.entries \ gone]
    BY <1>2, <1>4, <1>5, RemoveEntriesSound, RemoveEntriesContinues
  <1>c. M.cat \in Catalog /\ F.cat \in Catalog
    BY <1>2, <1>6 DEF Midway, IsEffect, MemorySound
  <1>7. F.cat.entries = M.cat.entries \ gone  BY <1>6, <1>c DEF Catalog
  <1>8. \A e \in EntriesOf(F.cat, f) : e.version = version
    BY <1>3, <1>7 DEF EntriesOf, SameFile
  <1>9. PICK N : N = [F EXCEPT !.cat = Named(F.cat, f, version)]  OBVIOUS
  <1>10. Midway(N) /\ Continues(N, F.cat, F.dir.docs, {f})  BY <1>0, <1>6, <1>8, <1>9, NamedSound
  <1>11. PICK out \in SUBSET N.cat.entries : KeepWithinLimits(N, {}) = RemoveEntries(N, out)
    BY LimitsAre
  <1>12. PICK L : L = RemoveEntries(N, out)  OBVIOUS
  <1>13. Midway(L) /\ Continues(L, N.cat, N.dir.docs, {f})  BY <1>10, <1>12, RemoveEntriesContinues
  <1>14. P = WriteCatalog(L)
    <2>1. F = RemoveEntries(M, {e \in EntriesOf(M.cat, f) : ~SameFile(e, version)})
      BY <1>3, <1>5
    <2>2. Put(f, version) = WriteCatalog(KeepWithinLimits(N, {}))  BY <1>1, <1>9, <2>1, PutIs
    <2>. QED  BY <1>11, <1>12, <2>2
  <1>15. Final(P) /\ P.cat = L.cat /\ P.dir = [key |-> L.dir.key, catalog |-> L.cat, docs |-> L.dir.docs]
    BY <1>13, <1>14, WriteCatalogSound
  <1>16. P.dir.docs = L.dir.docs  BY <1>15
  <1>17. N.cat \in Catalog /\ L.cat \in Catalog
    BY <1>10, <1>13 DEF Midway, IsEffect, MemorySound
  <1>18. Continues(F, index.loaded, folder.docs, {f})
    BY <1>2, <1>6, <1>c, <1>r, ContinuesOn
  <1>19. Continues(N, index.loaded, folder.docs, {f})
    BY <1>10, <1>17, <1>18, <1>c, <1>r, ContinuesOn
  <1>20. Continues(L, index.loaded, folder.docs, {f})
    BY <1>13, <1>17, <1>19, <1>r, ContinuesOn
  <1>21. Continues(P, index.loaded, folder.docs, {f})  BY <1>15, <1>16, <1>20 DEF Continues
  <1>. QED  BY <1>15, <1>21

\* keep writes its document's text and count, and nothing of another's.
KeptOnly(E, id, text) ==
  /\ E.cat.nextId = index.loaded.nextId /\ E.cat.key = index.loaded.key
  /\ \A e \in E.cat.entries : \E o \in index.loaded.entries :
       /\ e.id = o.id /\ e.file = o.file /\ e.version = o.version
       /\ e.done = IF o.id = id THEN Len(text) ELSE o.done
  /\ \A x \in DOMAIN E.dir.docs : x # id => x \in DOMAIN folder.docs /\ E.dir.docs[x] = folder.docs[x]
  /\ \A e \in E.cat.entries :
       e.id = id \/ e.id \in DOMAIN folder.docs => e.id \in DOMAIN E.dir.docs
  /\ id \in IdsOf(E.cat)

LEMMA WithTextFacts ==
  ASSUME NEW d, IsFolder(d), NEW entry, entry.id \in Nat, entry.file \in Files, NEW key \in Nat,
         NEW text \in Seq(Nat), Len(text) <= Pages, NEW w, w = WithText(d, entry, key, text)
  PROVE  /\ IsFolder(w) /\ w.key = d.key /\ w.catalog = d.catalog
         /\ DOMAIN w.docs = DOMAIN d.docs \cup {entry.id}
         /\ w.docs[entry.id] = [key |-> key, file |-> entry.file, text |-> text]
         /\ \A id \in DOMAIN d.docs : id # entry.id => w.docs[id] = d.docs[id]
  <1>. DEFINE file == [key |-> key, file |-> entry.file, text |-> text]
              docs == [id \in DOMAIN d.docs \cup {entry.id} |->
                         IF id = entry.id THEN file ELSE d.docs[id]]
  <1>1. file \in TextFile /\ file.text = text  BY DEF TextFile
  <1>f. file = [key |-> key, file |-> entry.file, text |-> text]  OBVIOUS
  <1>. HIDE DEF file
  <1>2. w = [key |-> d.key, catalog |-> d.catalog, docs |-> docs]
    BY DEF WithText, IsFolder, file
  <1>3. /\ DOMAIN docs = DOMAIN d.docs \cup {entry.id}
        /\ docs[entry.id] = file
        /\ \A id \in DOMAIN d.docs : id # entry.id => docs[id] = d.docs[id]
    OBVIOUS
  <1>. HIDE DEF docs
  <1>4. \A id \in DOMAIN docs : docs[id] \in TextFile /\ Len(docs[id].text) <= Pages
    BY <1>1, <1>3 DEF IsFolder
  <1>5. DOMAIN docs \subseteq Nat  BY <1>3 DEF IsFolder
  <1>6. IsFolder(w)  BY <1>2, <1>4, <1>5 DEF IsFolder
  <1>. QED  BY <1>2, <1>3, <1>6, <1>f

LEMMA TextDoneFacts ==
  ASSUME index.loaded \in Catalog, NEW entry, NEW text \in Seq(Nat),
         CatalogSound(index.loaded, texts), NEW t, t = TextDone(entry, text)
  PROVE  /\ t \in Catalog /\ CatalogSound(t, texts)
         /\ t.key = index.loaded.key /\ t.nextId = index.loaded.nextId
         /\ \A e \in t.entries : \E o \in index.loaded.entries :
              /\ e.id = o.id /\ e.file = o.file /\ e.version = o.version
              /\ e.done = IF o.id = entry.id THEN Len(text) ELSE o.done
         /\ \A o \in index.loaded.entries : \E e \in t.entries : e.id = o.id
  <1>. DEFINE D(e) == IF e.id = entry.id THEN [e EXCEPT !.done = Len(text)] ELSE e
              ds == {D(e) : e \in index.loaded.entries}
  <1>1. t = [index.loaded EXCEPT !.entries = ds]  BY DEF TextDone
  <1>2. index.loaded.entries \subseteq Entry  BY DEF Catalog
  <1>3. \A e \in Entry : /\ D(e) \in Entry /\ D(e).id = e.id /\ D(e).file = e.file
                         /\ D(e).version = e.version
                         /\ D(e).done = IF e.id = entry.id THEN Len(text) ELSE e.done
    BY DEF Entry
  <1>. HIDE DEF D
  <1>4. ds \subseteq Entry  BY <1>2, <1>3
  <1>5. /\ \A e \in ds : \E o \in index.loaded.entries : e = D(o)
        /\ \A o \in index.loaded.entries : D(o) \in ds
    OBVIOUS
  <1>. HIDE DEF ds
  <1>6. /\ t \in Catalog /\ t.entries = ds
        /\ t.key = index.loaded.key /\ t.nextId = index.loaded.nextId
    BY <1>1, <1>4 DEF Catalog
  <1>7. \A e \in t.entries : \E o \in index.loaded.entries :
          /\ e.id = o.id /\ e.file = o.file /\ e.version = o.version
          /\ e.done = IF o.id = entry.id THEN Len(text) ELSE o.done
    BY <1>2, <1>3, <1>5, <1>6
  <1>8. \A o \in index.loaded.entries : \E e \in t.entries : e.id = o.id
    BY <1>2, <1>3, <1>5, <1>6
  <1>9. \A e \in t.entries : e.id < t.nextId /\ e.version \in 1..Len(texts[e.file])
    BY <1>6, <1>7 DEF CatalogSound
  <1>10. ASSUME NEW e \in t.entries, NEW x \in t.entries, e.id = x.id \/ e.file = x.file PROVE e = x
    <2>1. PICK o \in index.loaded.entries : e = D(o)  BY <1>5, <1>6
    <2>2. PICK p \in index.loaded.entries : x = D(p)  BY <1>5, <1>6
    <2>3. e.id = o.id /\ e.file = o.file /\ x.id = p.id /\ x.file = p.file
      BY <1>2, <1>3, <2>1, <2>2
    <2>4. o = p  BY <1>10, <2>3 DEF CatalogSound
    <2>. QED  BY <2>1, <2>2, <2>4
  <1>11. CatalogSound(t, texts)  BY <1>9, <1>10 DEF CatalogSound
  <1>. QED  BY <1>6, <1>7, <1>8, <1>11

LEMMA KeptSound ==
  ASSUME Ready, TakerSound, taker.at \in {"keeping", "ending"}, MayKeep(taker.entry, taker.gen),
         NEW K, K = Kept(taker.entry, taker.key, taker.text)
  PROVE  /\ Final(K) /\ KeptOnly(K, taker.entry.id, taker.text)
         /\ K.dir.docs[taker.entry.id] =
              [key |-> taker.key, file |-> taker.entry.file, text |-> taker.text]
  <1>. DEFINE entry == taker.entry
              text == taker.text
  <1>1. /\ taker \in Reader /\ taker # Idle
    BY DEF Ready, TypeOK, Idle, Reader
  <1>2. entry \in Entry /\ entry.id \in Nat /\ entry.file \in Files /\ text \in Seq(Nat) /\ taker.key \in Nat
    BY <1>1 DEF Reader, Entry
  <1>3. Loaded /\ taker.gen = index.generation  BY DEF MayKeep
  <1>4. /\ Len(text) <= Pages /\ taker.key = index.loaded.key
        /\ \A e \in index.loaded.entries : e.id = entry.id => TakerOf(e)
    BY <1>1, <1>3 DEF TakerSound
  <1>5. PICK own \in index.loaded.entries : own.id = entry.id  BY DEF MayKeep
  <1>6. MemorySound(folder, index.loaded) /\ IsFolder(folder)  BY <1>3, ReadyFacts
  <1>7. index.loaded \in Catalog /\ CatalogSound(index.loaded, texts)  BY <1>6, IdsGiven
  <1>8. \A e \in index.loaded.entries : e.id = entry.id =>
          /\ e.file = entry.file /\ e.version = entry.version
          /\ \A i \in DOMAIN text : text[i] = texts[e.file][e.version]
          /\ e.done > 0 /\ e.id \in DOMAIN folder.docs => Len(text) >= Len(folder.docs[e.id].text)
    BY <1>4 DEF TakerOf, Has
  <1>9. PICK w : w = WithText(folder, entry, taker.key, text)  OBVIOUS
  <1>10. PICK t : t = TextDone(entry, text)  OBVIOUS
  <1>11. /\ IsFolder(w) /\ w.key = folder.key /\ w.catalog = folder.catalog
         /\ DOMAIN w.docs = DOMAIN folder.docs \cup {entry.id}
         /\ w.docs[entry.id] = [key |-> taker.key, file |-> entry.file, text |-> text]
         /\ \A id \in DOMAIN folder.docs : id # entry.id => w.docs[id] = folder.docs[id]
    BY <1>2, <1>4, <1>6, <1>9, WithTextFacts
  <1>12. /\ t \in Catalog /\ CatalogSound(t, texts)
         /\ t.key = index.loaded.key /\ t.nextId = index.loaded.nextId
         /\ \A e \in t.entries : \E o \in index.loaded.entries :
              /\ e.id = o.id /\ e.file = o.file /\ e.version = o.version
              /\ e.done = IF o.id = entry.id THEN Len(text) ELSE o.done
         /\ \A o \in index.loaded.entries : \E e \in t.entries : e.id = o.id
    BY <1>2, <1>7, <1>10, TextDoneFacts
  <1>x. /\ w.docs[entry.id].key = taker.key /\ w.docs[entry.id].file = entry.file
        /\ w.docs[entry.id].text = text
    BY <1>11
  <1>d. /\ folder.key = index.loaded.key
        /\ folder.catalog.entries \subseteq index.loaded.entries
        /\ TextsSound(index.loaded, folder.docs, folder.key, texts)
    BY <1>3 DEF Ready, IndexSound
  <1>. HIDE DEF entry, text
  <1>13. TextsSound(index.loaded, w.docs, folder.key, texts)
    <2>. SUFFICES ASSUME NEW e \in index.loaded.entries, e.id \in DOMAIN w.docs,
                         w.docs[e.id].key = folder.key
                  PROVE  /\ w.docs[e.id].file = e.file
                         /\ \A i \in DOMAIN w.docs[e.id].text :
                              w.docs[e.id].text[i] = texts[e.file][e.version]
      BY DEF TextsSound
    <2>1. CASE e.id = entry.id  BY <1>8, <1>x, <2>1
    <2>2. CASE e.id # entry.id
      <3>1. e.id \in DOMAIN folder.docs /\ w.docs[e.id] = folder.docs[e.id]  BY <1>11, <2>2
      <3>. QED  BY <1>d, <3>1 DEF TextsSound
    <2>. QED  BY <2>1, <2>2
  <1>14. FolderSound(w, texts)
    <2>1. FolderSound(folder, texts)  BY DEF Ready
    <2>2. TextsSound(folder.catalog, w.docs, folder.key, texts)  BY <1>13, <1>d DEF TextsSound
    <2>. QED  BY <1>11, <2>1, <2>2 DEF FolderSound
  <1>15. ASSUME ~torn PROVE Counted(folder.catalog, w.docs)
    <2>. SUFFICES ASSUME NEW e \in folder.catalog.entries, e.done > 0
                  PROVE  e.id \in DOMAIN w.docs /\ Len(w.docs[e.id].text) >= e.done
      BY DEF Counted
    <2>0. e \in index.loaded.entries /\ e.id \in DOMAIN folder.docs
            /\ Len(folder.docs[e.id].text) >= e.done
      BY <1>15, <1>d DEF Ready, CountedUnlessTorn, Counted
    <2>1. CASE e.id = entry.id
      <3>1. Len(text) >= Len(folder.docs[e.id].text)  BY <1>8, <2>0, <2>1
      <3>2. Len(text) \in Nat /\ Len(folder.docs[e.id].text) \in Nat /\ e.done \in Nat
        <4>1. folder.docs[e.id].text \in Seq(Nat)  BY <1>6, <2>0 DEF IsFolder, TextFile
        <4>2. text \in Seq(Nat) BY <1>2
        <4>. QED  BY <1>7, <2>0, <4>1, <4>2, CatalogFacts
      <3>3. Len(text) >= e.done  BY <2>0, <3>1, <3>2
      <3>. QED  BY <1>11, <1>x, <2>1, <3>3
    <2>2. CASE e.id # entry.id  BY <1>11, <2>0, <2>2
    <2>. QED  BY <2>1, <2>2
  <1>16. MemorySound(w, t)
    <2>1. DOMAIN w.docs \subseteq IdsOf(t)
      <3>. SUFFICES ASSUME NEW id \in DOMAIN w.docs PROVE \E e \in t.entries : e.id = id
        BY DEF IdsOf
      <3>1. \E o \in index.loaded.entries : o.id = id
        BY <1>5, <1>6, <1>11 DEF MemorySound, IdsOf
      <3>. QED  BY <1>12, <3>1
    <2>2. TextsSound(t, w.docs, w.key, texts)
      <3>. SUFFICES ASSUME NEW e \in t.entries, e.id \in DOMAIN w.docs,
                           w.docs[e.id].key = folder.key
                    PROVE  /\ w.docs[e.id].file = e.file
                           /\ \A i \in DOMAIN w.docs[e.id].text :
                                w.docs[e.id].text[i] = texts[e.file][e.version]
        BY <1>11 DEF TextsSound
      <3>1. PICK o \in index.loaded.entries : e.id = o.id /\ e.file = o.file /\ e.version = o.version
        BY <1>12
      <3>. QED  BY <1>13, <3>1 DEF TextsSound
    <2>3. ASSUME ~torn PROVE Counted(t, w.docs)
      <3>. SUFFICES ASSUME NEW e \in t.entries, e.done > 0
                    PROVE  e.id \in DOMAIN w.docs /\ Len(w.docs[e.id].text) >= e.done
        BY DEF Counted
      <3>1. PICK o \in index.loaded.entries :
              e.id = o.id /\ e.done = IF o.id = entry.id THEN Len(text) ELSE o.done
        BY <1>12
      <3>2. CASE o.id = entry.id
        <4>1. Len(text) \in Nat  BY <1>2
        <4>. QED  BY <1>11, <1>x, <3>1, <3>2, <4>1
      <3>3. CASE o.id # entry.id
        <4>1. o.id \in DOMAIN folder.docs /\ Len(folder.docs[o.id].text) >= o.done
          BY <2>3, <3>1, <3>3 DEF Ready, CountedUnlessTorn, Counted
        <4>. QED  BY <1>11, <3>1, <3>3, <4>1
      <3>. QED  BY <3>2, <3>3
    <2>4. w.key = t.key /\ t.key # 0  BY <1>3, <1>11, <1>12, <1>d DEF Loaded
    <2>. QED  BY <1>12, <2>1, <2>2, <2>3, <2>4 DEF MemorySound
  <1>17. PICK T : T = Then(Before(index.loaded), w, t)  OBVIOUS
  <1>18. T = [dir |-> w, cat |-> t, passed |-> {} \cup {w}]  BY <1>17 DEF Then, Before, Effect
  <1>19. T.dir = w /\ T.cat = t /\ T.passed = {w}
           /\ T = [dir |-> T.dir, cat |-> T.cat, passed |-> T.passed]
    BY ONLY <1>18
  <1>20. GoodEnd(w)  BY <1>11, <1>14, <1>15 DEF GoodEnd
  <1>21. IsEffect(T)  BY <1>11, <1>14, <1>16, <1>19, <1>20 DEF IsEffect
  <1>22. Midway(T)
    <2>1. ASSUME ~torn, NEW e \in w.catalog.entries, e.done > 0
          PROVE  /\ e.id \in DOMAIN folder.docs
                 /\ e.id \in DOMAIN w.docs => Len(w.docs[e.id].text) >= e.done
      BY <1>11, <1>15, <2>1 DEF Counted, Ready, CountedUnlessTorn
    <2>. QED  BY <1>19, <1>21, <2>1 DEF Midway
  <1>23. PICK out \in SUBSET T.cat.entries :
           /\ \A e \in out : e.id \notin {entry.id}
           /\ KeepWithinLimits(T, {entry.id}) = RemoveEntries(T, out)
    BY LimitsAre
  <1>24. PICK L : L = RemoveEntries(T, out)  OBVIOUS
  <1>25. /\ Midway(L) /\ L.cat = [T.cat EXCEPT !.entries = T.cat.entries \ out]
         /\ DOMAIN L.dir.docs = DOMAIN T.dir.docs \ {e.id : e \in out}
         /\ \A id \in DOMAIN L.dir.docs : L.dir.docs[id] = T.dir.docs[id]
    BY <1>22, <1>23, <1>24, RemoveEntriesSound
  <1>26. Continues(L, T.cat, T.dir.docs, {})  BY <1>22, <1>23, <1>24, RemoveEntriesContinues
  <1>27. K = WriteCatalog(L)  BY <1>9, <1>10, <1>17, <1>23, <1>24 DEF Kept, entry, text
  <1>28. Final(K) /\ K.cat = L.cat /\ K.dir = [key |-> L.dir.key, catalog |-> L.cat, docs |-> L.dir.docs]
    BY <1>25, <1>27, WriteCatalogSound
  <1>29. K.dir.docs = L.dir.docs  BY <1>28
  <1>30. /\ L.cat.nextId = t.nextId /\ L.cat.key = t.key /\ L.cat.entries = t.entries \ out
    BY <1>12, <1>19, <1>25 DEF Catalog
  <1>31. \A x \in DOMAIN K.dir.docs : x # entry.id =>
           x \in DOMAIN folder.docs /\ K.dir.docs[x] = folder.docs[x]
    BY <1>11, <1>19, <1>25, <1>29
  <1>32. \A e \in K.cat.entries :
           e.id = entry.id \/ e.id \in DOMAIN folder.docs => e.id \in DOMAIN K.dir.docs
    BY <1>11, <1>19, <1>26, <1>28, <1>29 DEF Continues
  <1>33. PICK mine \in t.entries : mine.id = entry.id  BY <1>5, <1>12
  <1>34. mine \in K.cat.entries  BY <1>23, <1>28, <1>30, <1>33
  <1>35. K.dir.docs[entry.id] = [key |-> taker.key, file |-> entry.file, text |-> text]
    <2>1. entry.id \in DOMAIN K.dir.docs  BY <1>32, <1>33, <1>34
    <2>. QED  BY <1>11, <1>19, <1>25, <1>29, <2>1
  <1>36. KeptOnly(K, entry.id, text)
    BY <1>12, <1>28, <1>30, <1>31, <1>32, <1>33, <1>34 DEF KeptOnly, IdsOf
  <1>. QED  BY <1>28, <1>35, <1>36 DEF entry, text
-----------------------------------------------------------------------------
(* What a step leaves as it was.                                            *)

\* Files have every text they had.
Grown(had, more) ==
  \A f \in Files :
    /\ Len(had[f]) \in Nat /\ Len(more[f]) \in Nat /\ Len(had[f]) <= Len(more[f])
    /\ \A i \in 1..Len(had[f]) : more[f][i] = had[f][i]

LEMMA GrownSound ==
  ASSUME NEW had, NEW more, Grown(had, more), NEW cat \in Catalog, CatalogSound(cat, had)
  PROVE  /\ CatalogSound(cat, more)
         /\ \A docs, key : TextsSound(cat, docs, key, had) => TextsSound(cat, docs, key, more)
  <1>1. \A e \in cat.entries : /\ e.version \in 1..Len(more[e.file])
                               /\ more[e.file][e.version] = had[e.file][e.version]
    BY CatalogFacts DEF Grown, CatalogSound
  <1>2. CatalogSound(cat, more)  BY <1>1 DEF CatalogSound
  <1>3. \A docs, key : TextsSound(cat, docs, key, had) => TextsSound(cat, docs, key, more)
    BY <1>1 DEF TextsSound
  <1>. QED  BY <1>2, <1>3

LEMMA GrownSame ==
  ASSUME TypeOK
  PROVE  Grown(texts, texts)
  BY DEF TypeOK, Grown

\* The document's file has the text it had, if it was there.
SameText(id) ==
  /\ id \in DOMAIN folder'.docs <=> id \in DOMAIN folder.docs
  /\ id \in DOMAIN folder.docs => folder'.docs[id].text = folder.docs[id].text

LEMMA TakerOfKept ==
  ASSUME NEW e, NEW o, SameDocument(e, o), taker' = taker,
         o.file \in Files, o.version \in 1..Len(texts[o.file]), Grown(texts, texts'), SameText(o.id),
         TakerOf(o)
  PROVE  TakerOf(e)'
  <1>1. e.id = o.id /\ e.file = o.file /\ e.version = o.version /\ e.done = o.done
    BY DEF SameDocument
  <1>2. texts'[e.file][e.version] = texts[o.file][o.version]  BY <1>1 DEF Grown
  <1>3. e.id \in DOMAIN folder'.docs <=> o.id \in DOMAIN folder.docs  BY <1>1 DEF SameText
  <1>4. o.id \in DOMAIN folder.docs => folder'.docs[e.id].text = folder.docs[o.id].text
    BY <1>1 DEF SameText
  <1>5. e.file = taker'.entry.file /\ e.version = taker'.entry.version
    BY <1>1 DEF TakerOf
  <1>6. taker'.at \in {"reading", "losing"} => e.done = taker'.entry.done  BY <1>1 DEF TakerOf
  <1>7. taker'.at \in {"taking", "keeping", "ending"} =>
          /\ \A i \in DOMAIN taker'.text : taker'.text[i] = texts'[e.file][e.version]
          /\ e.done > 0 /\ e.id \in DOMAIN folder'.docs =>
               Len(taker'.text) >= Len(folder'.docs[e.id].text)
    BY <1>1, <1>2, <1>3, <1>4 DEF TakerOf, Has
  <1>8. taker'.at = "taking" /\ ~taker'.changed /\ taker'.text # <<>> =>
          e.done > 0 /\ e.id \in DOMAIN folder'.docs /\ Len(folder'.docs[e.id].text) = Len(taker'.text)
    BY <1>1, <1>3, <1>4 DEF TakerOf, Has
  <1>. QED  BY <1>5, <1>6, <1>7, <1>8 DEF TakerOf, Has

LEMMA WholeKept ==
  ASSUME NEW e, NEW o, SameDocument(e, o), SameText(o.id), IsWhole(o)
  PROVE  IsWhole(e)'
  BY DEF SameDocument, SameText, IsWhole, Has

LEMMA ProgressKept ==
  ASSUME NEW e, NEW o, SameDocument(e, o), taker' = taker,
         index'.generation = index.generation, Progress(o)
  PROVE  Progress(e)'
  BY DEF SameDocument, Progress, Idle

\* The taker and the search, when the same index has fewer documents or more.
LEMMA TakerKept ==
  ASSUME IInv, taker' = taker, Grown(texts, texts'), index'.generation = index.generation,
         commands <= commands', commands' \in Nat,
         \A f \in Files : tab'[f].open =>
           \/ tab[f].open /\ tab'[f].doc = tab[f].doc /\ tab'[f].text = tab[f].text
           \/ tab'[f].doc >= commands,
         taker # Idle /\ taker.gen = index.generation =>
           /\ Loaded' /\ index'.loaded.key = index.loaded.key
           /\ index'.loaded.nextId >= index.loaded.nextId /\ index'.loaded.nextId \in Nat
           /\ \A e \in index'.loaded.entries : e.id = taker.entry.id => TakerOf(e)'
  PROVE  TakerSound'
  <1>. SUFFICES ASSUME taker # Idle
                PROVE  TakerSound'
    BY DEF TakerSound
  <1>1. taker \in Reader /\ taker.entry \in Entry /\ taker.entry.file \in Files
    BY DEF IInv, TypeOK, Reader, Entry
  <1>2. taker.doc \in Nat /\ taker.gen \in Nat /\ taker.entry.id \in Nat /\ commands \in Nat
          /\ index.loaded.nextId \in Nat
    BY <1>1, CatalogFacts DEF Reader, Entry, IInv, TypeOK
  <1>3. /\ taker.gen <= index.generation /\ taker.doc < commands
        /\ taker.entry.version \in 1..Len(texts[taker.entry.file])
        /\ taker.entry.done < Pages /\ Len(taker.text) <= Pages
        /\ tab[taker.entry.file].open /\ tab[taker.entry.file].doc = taker.doc =>
             tab[taker.entry.file].text = texts[taker.entry.file][taker.entry.version]
        /\ taker.changed \/ taker.at \in {"keeping", "ending"} => taker.text # <<>>
        /\ taker.at \in {"reading", "losing"} => taker.text = <<>> /\ ~taker.changed
        /\ taker.gen = index.generation =>
             /\ Loaded /\ taker.key = index.loaded.key
             /\ taker.entry.id < index.loaded.nextId
    BY DEF IInv, TakerSound
  <1>4. taker.doc < commands'  BY <1>2, <1>3
  <1>5. /\ taker.entry.version \in 1..Len(texts'[taker.entry.file])
        /\ texts'[taker.entry.file][taker.entry.version] = texts[taker.entry.file][taker.entry.version]
    BY <1>1, <1>3 DEF Grown
  <1>6. tab'[taker.entry.file].open /\ tab'[taker.entry.file].doc = taker.doc =>
          tab'[taker.entry.file].text = texts'[taker.entry.file][taker.entry.version]
    BY <1>1, <1>2, <1>3, <1>5
  <1>7. taker.gen = index'.generation =>
          /\ Loaded' /\ taker.key = index'.loaded.key
          /\ taker.entry.id < index'.loaded.nextId
          /\ \A e \in index'.loaded.entries : e.id = taker.entry.id => TakerOf(e)'
    BY <1>2, <1>3
  <1>. QED  BY <1>3, <1>4, <1>5, <1>6, <1>7 DEF TakerSound
-----------------------------------------------------------------------------
(* The user.                                                                *)

MustBeClean(f) ==
  tab[f].open /\ (f \in barred["sensitive"] \/ (enabled /\ f \in barred["unrecorded"]))

\* What the user may do leaves the index, and has its documents looked at again.
LEMMA UserStep ==
  ASSUME IInv, TypeOK', TabsSound', CallsSound',
         UNCHANGED <<folder, index, queue, reconsider, taker, torn, cutShort>>,
         SearchSound',
         (~index.looked => search' = Idle /\ listed' = {}),
         Grown(texts, texts'), commands <= commands',
         \A f \in Files : tab'[f].open =>
           \/ tab[f].open /\ tab'[f].doc = tab[f].doc /\ tab'[f].text = tab[f].text
           \/ tab'[f].doc >= commands,
         \A s : Pending(s, calls) => Pending(s, calls'),
         \A f \in Files : \/ Pending(Look(f), calls')
                          \/ /\ MustBeClean(f)' => MustBeClean(f) \/ Pending(Forget(f), calls')
                             /\ Allowed(f)' => Allowed(f) /\ tab'[f].version = tab[f].version,
         ~enabled' => ~enabled \/ Pending(Clear, calls')
  PROVE  IInv'
  <1>1. index.loaded \in Catalog /\ folder.catalog \in Catalog /\ folder' = folder /\ index' = index
          /\ taker' = taker /\ queue' = queue /\ reconsider' = reconsider /\ torn' = torn
          /\ cutShort' = cutShort
    BY DEF IInv, TypeOK, IsFolder
  <1>s. \A id : SameText(id)  BY <1>1 DEF SameText
  <1>2. FolderSound(folder', texts')
    <2>1. FolderSound(folder, texts)  BY DEF IInv
    <2>2. CatalogSound(folder.catalog, texts')  BY <1>1, <2>1, GrownSound DEF FolderSound
    <2>3. \A docs, key : TextsSound(folder.catalog, docs, key, texts)
                           => TextsSound(folder.catalog, docs, key, texts')
      BY <1>1, <2>1, GrownSound DEF FolderSound
    <2>. QED  BY <1>1, <2>1, <2>2, <2>3 DEF FolderSound
  <1>3. IndexSound'
    <2>1. CASE index.looked
      <3>1. CatalogSound(index.loaded, texts)  BY <2>1 DEF IInv, IndexSound
      <3>2. CatalogSound(index.loaded, texts')  BY <1>1, <3>1, GrownSound
      <3>3. \A docs, key : TextsSound(index.loaded, docs, key, texts)
                             => TextsSound(index.loaded, docs, key, texts')
        BY <1>1, <3>1, GrownSound
      <3>. QED  BY <1>1, <2>1, <3>2, <3>3 DEF IInv, IndexSound, Loaded
    <2>2. CASE ~index.looked  BY <1>1, <2>2 DEF IInv, IndexSound, Idle
    <2>. QED  BY <2>1, <2>2
  <1>4. CountedUnlessTorn'  BY <1>1 DEF IInv, CountedUnlessTorn
  <1>5. TakerSound'
    <2>1. ASSUME NEW e \in index.loaded.entries, taker # Idle, taker.gen = index.generation,
                 e.id = taker.entry.id
          PROVE  TakerOf(e)'
      <3>1. TakerOf(e)  BY <2>1 DEF IInv, TakerSound
      <3>2. e.file \in Files  BY <1>1, CatalogFacts
      <3>3. e.version \in 1..Len(texts[e.file])
        <4>1. index.looked  BY <2>1 DEF IInv, IndexSound
        <4>. QED  BY <4>1, <2>1 DEF IInv, IndexSound, CatalogSound
      <3>. QED  BY <1>1, <1>s, <3>1, <3>2, <3>3, TakerOfKept DEF SameDocument
    <2>2. commands' \in Nat  BY DEF TypeOK
    <2>3. taker # Idle /\ taker.gen = index.generation =>
            Loaded' /\ index'.loaded.nextId >= index.loaded.nextId /\ index'.loaded.nextId \in Nat
      BY <1>1, CatalogFacts DEF IInv, TakerSound, Loaded
    <2>. QED  BY <1>1, <2>1, <2>2, <2>3, TakerKept
  <1>6. BarredIsClean'
    <2>. SUFFICES ASSUME NEW f \in Files, MustBeClean(f)'
                  PROVE  \/ Pending(Look(f), calls') \/ Pending(Forget(f), calls')
                         \/ Pending(Clear, calls')
                         \/ Clean(f)'
      BY DEF BarredIsClean, MustBeClean, Look, Forget, Clear
    <2>1. Clean(f) => Clean(f)'  BY <1>1 DEF Clean, IdsOf, Idle
    <2>2. MustBeClean(f) => \/ Pending(Look(f), calls) \/ Pending(Forget(f), calls)
                            \/ Pending(Clear, calls) \/ Clean(f)
      BY DEF IInv, BarredIsClean, MustBeClean
    <2>. QED  BY <2>1, <2>2
  <1>7. OffIsClean'
    <2>1. ~enabled => \/ Pending(Clear, calls)
                      \/ DOMAIN folder.docs = {} /\ (taker # Idle => taker.gen # index.generation)
      BY DEF IInv, OffIsClean
    <2>2. Pending(Clear, calls) => Pending(Clear, calls')  OBVIOUS
    <2>. QED  BY <1>1, <2>1, <2>2 DEF OffIsClean, Clear, Idle
  <1>8. WillBeTaken'
    <2>. SUFFICES ASSUME ~torn', NEW f \in Files, Awaited(f)'
                  PROVE  \/ Pending(Look(f), calls') \/ Pending(PutOf(f, tab'[f].version), calls')
                         \/ /\ index'.looked
                            /\ \/ reconsider'
                               \/ f \in Range(queue')
                               \/ \A e \in index'.loaded.entries :
                                    e.file = f /\ e.version = tab'[f].version =>
                                      IsWhole(e)' \/ Progress(e)'
      BY DEF WillBeTaken, Look, PutOf, Range
    <2>1. SUFFICES ASSUME ~Pending(Look(f), calls')
                   PROVE  \/ Pending(PutOf(f, tab[f].version), calls')
                          \/ /\ index.looked
                             /\ \/ reconsider
                                \/ f \in Range(queue)
                                \/ \A e \in index.loaded.entries :
                                     e.file = f /\ e.version = tab[f].version =>
                                       IsWhole(e)' \/ Progress(e)'
      BY <1>1 DEF Awaited
    <2>2. Awaited(f) /\ tab'[f].version = tab[f].version  BY <1>1, <2>1 DEF Awaited
    <2>3. \/ Pending(Look(f), calls) \/ Pending(PutOf(f, tab[f].version), calls)
          \/ /\ index.looked
             /\ \/ reconsider
                \/ f \in Range(queue)
                \/ \A e \in index.loaded.entries : e.file = f /\ e.version = tab[f].version =>
                     IsWhole(e) \/ Progress(e)
      BY <1>1, <2>2 DEF IInv, WillBeTaken
    <2>4. ASSUME NEW e \in index.loaded.entries, e.file = f
          PROVE  (IsWhole(e) => IsWhole(e)') /\ (Progress(e) => Progress(e)')
      <3>1. SameDocument(e, e)  BY DEF SameDocument
      <3>. QED  BY <1>1, <1>s, <2>2, <2>4, <3>1, WholeKept, ProgressKept
    <2>. QED  BY <2>1, <2>3, <2>4
  <1>. QED  BY <1>2, <1>3, <1>4, <1>5, <1>6, <1>7, <1>8 DEF IInv

LEMMA UserCommand ==
  ASSUME IInv, NEW todo \in Seq(Steps), \A i \in DOMAIN todo : todo[i].op # "put", Command(todo),
         texts' \in [Files -> Seq(Nat) \ {<<>>}], tab' \in [Files -> {Closed} \cup OpenTab],
         enabled' \in BOOLEAN, barred' \in [Kinds -> SUBSET Files],
         TabsSound', Grown(texts, texts'),
         \A f \in Files : tab'[f].open =>
           \/ tab[f].open /\ tab'[f].doc = tab[f].doc /\ tab'[f].text = tab[f].text
           \/ tab'[f].doc >= commands,
         \A f \in Files :
           \/ \E i \in DOMAIN todo : todo[i] = Look(f)
           \/ /\ MustBeClean(f)' => MustBeClean(f) \/ \E i \in DOMAIN todo : todo[i] = Forget(f)
              /\ Allowed(f)' => Allowed(f) /\ tab'[f].version = tab[f].version,
         ~enabled' => ~enabled \/ \E i \in DOMAIN todo : todo[i] = Clear
  PROVE  IInv'
  <1>1. /\ commands' = commands + 1
        /\ calls' = IF todo = <<>> THEN calls ELSE calls \cup {todo}
        /\ UNCHANGED <<folder, index, queue, reconsider, listed, taker, search, nextKey, faults, torn, cutShort>>
    BY DEF Command, stateVars
  <1>2. TypeOK  BY DEF IInv
  <1>3. calls \subseteq Seq(Steps) \ {<<>>} /\ calls' \subseteq Seq(Steps) \ {<<>>}
    BY <1>1, <1>2 DEF TypeOK
  <1>4. commands \in Nat /\ commands' \in Nat /\ commands <= commands'  BY <1>1, <1>2 DEF TypeOK
  <1>5. TypeOK'  BY <1>1, <1>2, <1>3, <1>4 DEF TypeOK, IsFolder
  <1>6. \A s : Pending(s, calls) => Pending(s, calls')
    BY <1>1, PendingMore
  <1>7. \A i \in DOMAIN todo : Pending(todo[i], calls')
    <2>. SUFFICES ASSUME NEW i \in DOMAIN todo PROVE Pending(todo[i], calls')  OBVIOUS
    <2>1. todo # <<>>  OBVIOUS
    <2>2. todo \in calls'  BY <1>1, <2>1
    <2>. QED  BY <2>2, PendingIn
  <1>8. \A s : Pending(s, calls') => Pending(s, calls) \/ \E i \in DOMAIN todo : todo[i] = s
    <2>1. \A c \in calls' : c \in calls \/ c = todo  BY <1>1
    <2>. QED  BY <2>1 DEF Pending
  <1>9. CallsSound'
    <2>. SUFFICES ASSUME NEW f \in Files, NEW v \in Nat, Pending(PutOf(f, v), calls')
                  PROVE  v \in 1..Len(texts'[f])
      BY DEF CallsSound, PutOf
    <2>1. Pending(PutOf(f, v), calls)  BY <1>8, StepsDiffer
    <2>2. v \in 1..Len(texts[f])  BY <2>1 DEF IInv, CallsSound
    <2>. QED  BY <2>2 DEF Grown
  <1>10. SearchSound'  BY <1>1 DEF IInv, SearchSound, StandsFor, Idle
  <1>11. ~index.looked => search' = Idle /\ listed' = {}  BY <1>1 DEF IInv, IndexSound
  <1>12. \A f \in Files : \/ Pending(Look(f), calls')
                          \/ /\ MustBeClean(f)' => MustBeClean(f) \/ Pending(Forget(f), calls')
                             /\ Allowed(f)' => Allowed(f) /\ tab'[f].version = tab[f].version
    BY <1>7
  <1>13. ~enabled' => ~enabled \/ Pending(Clear, calls')  BY <1>7
  <1>. QED  BY <1>1, <1>4, <1>5, <1>6, <1>9, <1>10, <1>11, <1>12, <1>13, UserStep

LEMMA OneStep ==
  ASSUME NEW s \in Steps
  PROVE  /\ <<s>> \in Seq(Steps) /\ <<s>> # <<>> /\ \A i \in DOMAIN <<s>> : <<s>>[i] = s
         /\ \E i \in DOMAIN <<s>> : <<s>>[i] = s
  <1>1. <<s>> \in Seq(Steps) /\ DOMAIN <<s>> = {1} /\ <<s>>[1] = s  OBVIOUS
  <1>. QED  BY <1>1

LEMMA NoStep == <<>> \in Seq(Steps) /\ DOMAIN <<>> = {}
  OBVIOUS

LEMMA TabFacts ==
  ASSUME IInv, NEW f \in Files
  PROVE  /\ texts[f] \in Seq(Nat) /\ texts[f] # <<>> /\ commands \in Nat
         /\ tab[f].open \in BOOLEAN
         /\ tab[f].open => /\ tab[f] \in OpenTab
                           /\ tab[f].doc \in Nat /\ tab[f].version \in Nat /\ tab[f].text \in Nat
                           /\ tab[f].unsaved \in BOOLEAN
                           /\ tab[f].version \in 1..Len(texts[f])
                           /\ tab[f].doc < commands
                           /\ ~tab[f].unsaved => tab[f].text = texts[f][tab[f].version]
  <1>1. texts[f] \in Seq(Nat) /\ texts[f] # <<>> /\ commands \in Nat  BY DEF IInv, TypeOK
  <1>2. tab[f] = Closed \/ tab[f] \in OpenTab  BY DEF IInv, TypeOK
  <1>3. CASE tab[f] = Closed  BY <1>1, <1>3 DEF Closed
  <1>4. CASE tab[f] \in OpenTab
    <2>1. tab[f].open /\ tab[f].doc \in Nat /\ tab[f].version \in Nat /\ tab[f].text \in Nat
            /\ tab[f].unsaved \in BOOLEAN
      BY <1>4 DEF OpenTab
    <2>. QED  BY <1>1, <1>4, <2>1 DEF IInv, TabsSound
  <1>. QED  BY <1>2, <1>3, <1>4

LEMMA OpensSound ==
  ASSUME IInv, NEW f \in Files, Opens(f)
  PROVE  IInv'
  <1>1. /\ Command(<<Look(f)>>) /\ tab' = [tab EXCEPT ![f] = Opened(f)]
        /\ UNCHANGED <<texts, enabled, barred>>
    BY DEF Opens
  <1>2. texts[f] \in Seq(Nat) /\ texts[f] # <<>> /\ commands \in Nat  BY TabFacts
  <1>3. PICK o : o = Opened(f)  OBVIOUS
  <1>4. /\ o \in OpenTab /\ o.doc = commands /\ o.version = Len(texts[f])
        /\ o.text = texts[f][Len(texts[f])] /\ ~o.unsaved
    <2>1. Last(texts[f]) = texts[f][Len(texts[f])] /\ Last(texts[f]) \in Nat  BY <1>2 DEF Last
    <2>2. Len(texts[f]) \in Nat  BY <1>2
    <2>. QED  BY <1>2, <1>3, <2>1, <2>2 DEF Opened, OpenTab, Version
  <1>5. tab \in [Files -> {Closed} \cup OpenTab]  BY DEF IInv, TypeOK
  <1>6. /\ tab' \in [Files -> {Closed} \cup OpenTab] /\ tab'[f] = o
        /\ \A g \in Files : g # f => tab'[g] = tab[g]
    BY <1>1, <1>3, <1>4, <1>5
  <1>7. commands' = commands + 1  BY <1>1 DEF Command
  <1>8. TabsSound'
    <2>. SUFFICES ASSUME NEW g \in Files, tab'[g].open
                  PROVE  /\ tab'[g].doc < commands'
                         /\ tab'[g].version \in 1..Len(texts'[g])
                         /\ ~tab'[g].unsaved => tab'[g].text = texts'[g][tab'[g].version]
      BY DEF TabsSound
    <2>1. CASE g = f  BY <1>1, <1>2, <1>4, <1>6, <1>7, <2>1
    <2>2. CASE g # f  BY <1>1, <1>6, <1>7, <2>2, TabFacts
    <2>. QED  BY <2>1, <2>2
  <1>9. \A g \in Files : tab'[g].open =>
          \/ tab[g].open /\ tab'[g].doc = tab[g].doc /\ tab'[g].text = tab[g].text
          \/ tab'[g].doc >= commands
    BY <1>2, <1>4, <1>6
  <1>10. \A g \in Files :
           \/ \E i \in DOMAIN <<Look(f)>> : <<Look(f)>>[i] = Look(g)
           \/ /\ MustBeClean(g)' => MustBeClean(g) \/ \E i \in DOMAIN <<Look(f)>> : <<Look(f)>>[i] = Forget(g)
              /\ Allowed(g)' => Allowed(g) /\ tab'[g].version = tab[g].version
    <2>. SUFFICES ASSUME NEW g \in Files, g # f
                  PROVE  /\ MustBeClean(g)' => MustBeClean(g)
                         /\ Allowed(g)' => Allowed(g) /\ tab'[g].version = tab[g].version
      BY OneStep, StepsAre
    <2>. QED  BY <1>1, <1>6 DEF MustBeClean, Allowed, Barred
  <1>11. <<Look(f)>> \in Seq(Steps) /\ \A i \in DOMAIN <<Look(f)>> : <<Look(f)>>[i].op # "put"
    BY OneStep, StepsAre, StepsDiffer
  <1>12. /\ texts' \in [Files -> Seq(Nat) \ {<<>>}] /\ enabled' \in BOOLEAN /\ barred' \in [Kinds -> SUBSET Files]
         /\ Grown(texts, texts') /\ (~enabled' => ~enabled)
    BY <1>1, GrownSame DEF IInv, TypeOK
  <1>. QED  BY <1>1, <1>6, <1>8, <1>9, <1>10, <1>11, <1>12, UserCommand

LEMMA ClosesSound ==
  ASSUME IInv, NEW f \in Files, Closes(f)
  PROVE  IInv'
  <1>1. /\ Command(<<>>) /\ tab' = [tab EXCEPT ![f] = Closed]
        /\ UNCHANGED <<texts, enabled, barred>>
    BY DEF Closes
  <1>2. tab \in [Files -> {Closed} \cup OpenTab]  BY DEF IInv, TypeOK
  <1>3. /\ tab' \in [Files -> {Closed} \cup OpenTab] /\ ~tab'[f].open
        /\ \A g \in Files : g # f => tab'[g] = tab[g]
    BY <1>1, <1>2 DEF Closed
  <1>4. commands' = commands + 1  BY <1>1 DEF Command
  <1>5. TabsSound'
    <2>. SUFFICES ASSUME NEW g \in Files, tab'[g].open
                  PROVE  /\ tab'[g].doc < commands'
                         /\ tab'[g].version \in 1..Len(texts'[g])
                         /\ ~tab'[g].unsaved => tab'[g].text = texts'[g][tab'[g].version]
      BY DEF TabsSound
    <2>. QED  BY <1>1, <1>3, <1>4, TabFacts
  <1>6. \A g \in Files : tab'[g].open => tab'[g] = tab[g]  BY <1>3
  <1>7. \A g \in Files : /\ MustBeClean(g)' => MustBeClean(g)
                         /\ Allowed(g)' => Allowed(g) /\ tab'[g].version = tab[g].version
    BY <1>1, <1>6 DEF MustBeClean, Allowed, Barred
  <1>8. /\ texts' \in [Files -> Seq(Nat) \ {<<>>}] /\ enabled' \in BOOLEAN /\ barred' \in [Kinds -> SUBSET Files]
        /\ Grown(texts, texts') /\ (~enabled' => ~enabled)
    BY <1>1, GrownSame DEF IInv, TypeOK
  <1>. QED  BY <1>1, <1>3, <1>5, <1>6, <1>7, <1>8, NoStep, UserCommand

LEMMA EditsSound ==
  ASSUME IInv, NEW f \in Files, Edits(f)
  PROVE  IInv'
  <1>1. /\ tab[f].open /\ Command(<<>>)
        /\ tab' = [tab EXCEPT ![f].doc = commands, ![f].text = commands + 1, ![f].unsaved = TRUE]
        /\ UNCHANGED <<texts, enabled, barred>>
    BY DEF Edits
  <1>2. tab \in [Files -> {Closed} \cup OpenTab]  BY DEF IInv, TypeOK
  <1>3. tab[f] \in OpenTab /\ commands \in Nat /\ tab[f].version \in 1..Len(texts[f])  BY <1>1, TabFacts
  <1>4. PICK o : o = [tab[f] EXCEPT !.doc = commands, !.text = commands + 1, !.unsaved = TRUE]
    OBVIOUS
  <1>5. o \in OpenTab /\ o.doc = commands /\ o.unsaved /\ o.version = tab[f].version /\ o.open
    <2>1. tab[f].version \in Nat  BY <1>1, TabFacts
    <2>2. tab[f] \in [open : {TRUE}, doc : Nat, version : Nat, text : Nat, unsaved : BOOLEAN]
      BY <1>3 DEF OpenTab
    <2>3. o = [open |-> TRUE, doc |-> commands, version |-> tab[f].version, text |-> commands + 1,
               unsaved |-> TRUE]
      BY <1>4, <2>2
    <2>. QED  BY <1>3, <2>1, <2>3 DEF OpenTab
  <1>6. tab' = [tab EXCEPT ![f] = o]  BY <1>1, <1>2, <1>4
  <1>7. /\ tab' \in [Files -> {Closed} \cup OpenTab] /\ tab'[f] = o
        /\ \A g \in Files : g # f => tab'[g] = tab[g]
    BY <1>2, <1>5, <1>6
  <1>8. commands' = commands + 1  BY <1>1 DEF Command
  <1>9. TabsSound'
    <2>. SUFFICES ASSUME NEW g \in Files, tab'[g].open
                  PROVE  /\ tab'[g].doc < commands'
                         /\ tab'[g].version \in 1..Len(texts'[g])
                         /\ ~tab'[g].unsaved => tab'[g].text = texts'[g][tab'[g].version]
      BY DEF TabsSound
    <2>1. CASE g = f  BY <1>1, <1>3, <1>5, <1>7, <1>8, <2>1
    <2>2. CASE g # f  BY <1>1, <1>7, <1>8, <2>2, TabFacts
    <2>. QED  BY <2>1, <2>2
  <1>10. \A g \in Files : tab'[g].open =>
          \/ tab[g].open /\ tab'[g].doc = tab[g].doc /\ tab'[g].text = tab[g].text
          \/ tab'[g].doc >= commands
    BY <1>3, <1>5, <1>7
  <1>11. \A g \in Files : /\ MustBeClean(g)' => MustBeClean(g)
                          /\ Allowed(g)' => Allowed(g) /\ tab'[g].version = tab[g].version
    BY <1>1, <1>5, <1>7 DEF MustBeClean, Allowed, Barred
  <1>12. /\ texts' \in [Files -> Seq(Nat) \ {<<>>}] /\ enabled' \in BOOLEAN /\ barred' \in [Kinds -> SUBSET Files]
         /\ Grown(texts, texts') /\ (~enabled' => ~enabled)
    BY <1>1, GrownSame DEF IInv, TypeOK
  <1>. QED  BY <1>1, <1>7, <1>9, <1>10, <1>11, <1>12, NoStep, UserCommand

LEMMA UndoesSound ==
  ASSUME IInv, NEW f \in Files, Undoes(f)
  PROVE  IInv'
  <1>1. /\ tab[f].open /\ Command(<<>>)
        /\ tab' = [tab EXCEPT ![f].doc = commands, ![f].text = texts[f][tab[f].version],
                             ![f].unsaved = FALSE]
        /\ UNCHANGED <<texts, enabled, barred>>
    BY DEF Undoes
  <1>2. tab \in [Files -> {Closed} \cup OpenTab]  BY DEF IInv, TypeOK
  <1>3. tab[f] \in OpenTab /\ commands \in Nat /\ tab[f].version \in 1..Len(texts[f])  BY <1>1, TabFacts
  <1>t. PICK own : own = texts[f][tab[f].version]  OBVIOUS
  <1>v. own \in Nat  BY <1>3, <1>t DEF IInv, TypeOK
  <1>4. PICK o : o = [tab[f] EXCEPT !.doc = commands, !.text = own, !.unsaved = FALSE]
    OBVIOUS
  <1>5. o \in OpenTab /\ o.doc = commands /\ o.text = own /\ o.version = tab[f].version /\ o.open
    <2>1. tab[f].version \in Nat  BY <1>1, TabFacts
    <2>2. tab[f] \in [open : {TRUE}, doc : Nat, version : Nat, text : Nat, unsaved : BOOLEAN]
      BY <1>3 DEF OpenTab
    <2>3. o = [open |-> TRUE, doc |-> commands, version |-> tab[f].version, text |-> own,
               unsaved |-> FALSE]
      BY <1>4, <2>2
    <2>. QED  BY <1>3, <1>v, <2>1, <2>3 DEF OpenTab
  <1>6. tab' = [tab EXCEPT ![f] = o]  BY <1>1, <1>2, <1>4, <1>t
  <1>7. /\ tab' \in [Files -> {Closed} \cup OpenTab] /\ tab'[f] = o
        /\ \A g \in Files : g # f => tab'[g] = tab[g]
    BY <1>2, <1>5, <1>6
  <1>8. commands' = commands + 1  BY <1>1 DEF Command
  <1>9. TabsSound'
    <2>. SUFFICES ASSUME NEW g \in Files, tab'[g].open
                  PROVE  /\ tab'[g].doc < commands'
                         /\ tab'[g].version \in 1..Len(texts'[g])
                         /\ ~tab'[g].unsaved => tab'[g].text = texts'[g][tab'[g].version]
      BY DEF TabsSound
    <2>o. texts' = texts  BY <1>1
    <2>1. CASE g = f  BY <1>1, <1>3, <1>t, <1>5, <1>7, <1>8, <2>1
    <2>2. CASE g # f  BY <1>7, <1>8, <2>o, <2>2, TabFacts
    <2>. QED  BY <2>1, <2>2
  <1>10. \A g \in Files : tab'[g].open =>
          \/ tab[g].open /\ tab'[g].doc = tab[g].doc /\ tab'[g].text = tab[g].text
          \/ tab'[g].doc >= commands
    BY <1>3, <1>5, <1>7
  <1>11. \A g \in Files : /\ MustBeClean(g)' => MustBeClean(g)
                          /\ Allowed(g)' => Allowed(g) /\ tab'[g].version = tab[g].version
    BY <1>1, <1>5, <1>7 DEF MustBeClean, Allowed, Barred
  <1>12. /\ texts' \in [Files -> Seq(Nat) \ {<<>>}] /\ enabled' \in BOOLEAN /\ barred' \in [Kinds -> SUBSET Files]
         /\ Grown(texts, texts') /\ (~enabled' => ~enabled)
    BY <1>1, GrownSame DEF IInv, TypeOK
  <1>. QED  BY <1>1, <1>7, <1>9, <1>10, <1>11, <1>12, NoStep, UserCommand

\* A tab nothing was done to.
LEMMA TabStays ==
  ASSUME IInv, NEW g \in Files, tab'[g] = tab[g], tab'[g].open, Grown(texts, texts'),
         commands' = commands + 1
  PROVE  /\ tab'[g].doc < commands'
         /\ tab'[g].version \in 1..Len(texts'[g])
         /\ ~tab'[g].unsaved => tab'[g].text = texts'[g][tab'[g].version]
  <1>1. /\ tab[g].doc \in Nat /\ commands \in Nat /\ tab[g].doc < commands
        /\ tab[g].version \in 1..Len(texts[g])
        /\ ~tab[g].unsaved => tab[g].text = texts[g][tab[g].version]
    BY TabFacts
  <1>2. /\ Len(texts[g]) \in Nat /\ Len(texts'[g]) \in Nat /\ Len(texts[g]) <= Len(texts'[g])
        /\ texts'[g][tab[g].version] = texts[g][tab[g].version]
    BY <1>1 DEF Grown
  <1>3. tab[g].doc < commands'  BY <1>1
  <1>4. tab[g].version \in 1..Len(texts'[g])  BY <1>1, <1>2
  <1>. QED  BY <1>1, <1>2, <1>3, <1>4

LEMMA TabIs ==
  ASSUME IInv, NEW f \in Files, tab[f].open
  PROVE  \E d \in Nat, v \in Nat, x \in Nat, u \in BOOLEAN :
           tab[f] = [open |-> TRUE, doc |-> d, version |-> v, text |-> x, unsaved |-> u]
  <1>1. tab[f] \in [open : {TRUE}, doc : Nat, version : Nat, text : Nat, unsaved : BOOLEAN]
    BY TabFacts DEF OpenTab
  <1>. QED  BY <1>1

LEMMA IntoFileFacts ==
  ASSUME IInv, NEW f \in Files, IntoFile(f)
  PROVE  /\ texts' \in [Files -> Seq(Nat) \ {<<>>}] /\ Grown(texts, texts')
         /\ tab[f].open /\ tab[f].version = Len(texts[f])
         /\ tab[f].version + 1 \in 1..Len(texts'[f])
         /\ texts'[f][tab[f].version + 1] = tab[f].text
         /\ \A g \in Files : g # f => texts'[g] = texts[g]
  <1>1. /\ tab[f].open /\ tab[f].version = Len(texts[f])
        /\ texts' = [texts EXCEPT ![f] = Append(texts[f], tab[f].text)]
    BY DEF IntoFile, Version
  <1>2. texts[f] \in Seq(Nat) /\ tab[f].text \in Nat  BY <1>1, TabFacts
  <1>3. PICK s : s = Append(texts[f], tab[f].text)  OBVIOUS
  <1>4. /\ s \in Seq(Nat) /\ s # <<>> /\ Len(s) = Len(texts[f]) + 1
        /\ \A i \in 1..Len(texts[f]) : s[i] = texts[f][i]
        /\ s[Len(texts[f]) + 1] = tab[f].text
    BY <1>2, <1>3, AppendProperties
  <1>5. texts \in [Files -> Seq(Nat) \ {<<>>}]  BY DEF IInv, TypeOK
  <1>6. /\ texts' \in [Files -> Seq(Nat) \ {<<>>}] /\ texts'[f] = s
        /\ \A g \in Files : g # f => texts'[g] = texts[g]
    BY <1>1, <1>3, <1>4, <1>5
  <1>7. Grown(texts, texts')
    <2>. SUFFICES ASSUME NEW g \in Files
                  PROVE  /\ Len(texts[g]) \in Nat /\ Len(texts'[g]) \in Nat
                         /\ Len(texts[g]) <= Len(texts'[g])
                         /\ \A i \in 1..Len(texts[g]) : texts'[g][i] = texts[g][i]
      BY DEF Grown
    <2>0. texts[g] \in Seq(Nat) /\ texts'[g] \in Seq(Nat)  BY <1>5, <1>6
    <2>1. CASE g = f  BY <1>4, <1>6, <2>0, <2>1
    <2>2. CASE g # f  BY <1>6, <2>0, <2>2
    <2>. QED  BY <2>1, <2>2
  <1>8. Len(texts[f]) \in Nat /\ Len(texts'[f]) = Len(texts[f]) + 1  BY <1>2, <1>4, <1>6
  <1>. QED  BY <1>1, <1>4, <1>6, <1>7, <1>8

LEMMA SavesSound ==
  ASSUME IInv, NEW f \in Files, Saves(f)
  PROVE  IInv'
  <1>1. /\ IntoFile(f) /\ Command(<<Look(f)>>)
        /\ tab' = [tab EXCEPT ![f].version = tab[f].version + 1, ![f].unsaved = FALSE]
        /\ UNCHANGED <<enabled, barred>>
    BY DEF Saves
  <1>2. /\ texts' \in [Files -> Seq(Nat) \ {<<>>}] /\ Grown(texts, texts')
        /\ tab[f].open /\ tab[f].version + 1 \in 1..Len(texts'[f])
        /\ texts'[f][tab[f].version + 1] = tab[f].text
        /\ \A g \in Files : g # f => texts'[g] = texts[g]
    BY <1>1, IntoFileFacts
  <1>3. tab \in [Files -> {Closed} \cup OpenTab]  BY DEF IInv, TypeOK
  <1>4. tab[f] \in OpenTab /\ tab[f].version \in Nat /\ tab[f].doc < commands /\ tab[f].doc \in Nat
          /\ commands \in Nat
    BY <1>2, TabFacts
  <1>5. PICK o : o = [tab[f] EXCEPT !.version = tab[f].version + 1, !.unsaved = FALSE]  OBVIOUS
  <1>6. /\ o \in OpenTab /\ o.doc = tab[f].doc /\ o.text = tab[f].text
        /\ o.version = tab[f].version + 1
    <2>1. PICK d \in Nat, v \in Nat, x \in Nat, u \in BOOLEAN :
            tab[f] = [open |-> TRUE, doc |-> d, version |-> v, text |-> x, unsaved |-> u]
      BY <1>2, TabIs
    <2>2. tab[f].doc = d /\ tab[f].version = v /\ tab[f].text = x  BY <2>1
    <2>x. o = [tab[f] EXCEPT !.version = v + 1, !.unsaved = FALSE]  BY <1>5, <2>2
    <2>q. PICK r : r = tab[f]  OBVIOUS
    <2>p. r = [open |-> TRUE, doc |-> d, version |-> v, text |-> x, unsaved |-> u]  BY <2>1, <2>q
    <2>z. PICK t : t = [r EXCEPT !.version = v + 1]  OBVIOUS
    <2>w. o = [t EXCEPT !.unsaved = FALSE]  BY ONLY <2>q, <2>x, <2>z, Zenon
    <2>t. t = [open |-> TRUE, doc |-> d, version |-> v + 1, text |-> x, unsaved |-> u]
      BY ONLY <2>p, <2>z
    <2>3. o = [open |-> TRUE, doc |-> d, version |-> v + 1, text |-> x, unsaved |-> FALSE]
      BY ONLY <2>t, <2>w
    <2>4. o \in OpenTab  BY <1>4, <2>3 DEF OpenTab
    <2>5. o.doc = d /\ o.text = x /\ o.version = v + 1  BY <2>3
    <2>. QED  BY <2>2, <2>4, <2>5
  <1>7. tab' = [tab EXCEPT ![f] = o]  BY <1>1, <1>3, <1>5
  <1>8. /\ tab' \in [Files -> {Closed} \cup OpenTab] /\ tab'[f] = o
        /\ \A g \in Files : g # f => tab'[g] = tab[g]
    BY <1>3, <1>6, <1>7
  <1>9. commands' = commands + 1  BY <1>1 DEF Command
  <1>10. TabsSound'
    <2>. SUFFICES ASSUME NEW g \in Files, tab'[g].open
                  PROVE  /\ tab'[g].doc < commands'
                         /\ tab'[g].version \in 1..Len(texts'[g])
                         /\ ~tab'[g].unsaved => tab'[g].text = texts'[g][tab'[g].version]
      BY DEF TabsSound
    <2>1. CASE g = f  BY <1>2, <1>4, <1>6, <1>8, <1>9, <2>1
    <2>2. CASE g # f  BY <1>2, <1>8, <1>9, <2>2, TabStays
    <2>. QED  BY <2>1, <2>2
  <1>11. \A g \in Files : tab'[g].open =>
           tab[g].open /\ tab'[g].doc = tab[g].doc /\ tab'[g].text = tab[g].text
    BY <1>2, <1>6, <1>8
  <1>12. \A g \in Files :
           \/ \E i \in DOMAIN <<Look(f)>> : <<Look(f)>>[i] = Look(g)
           \/ /\ MustBeClean(g)' => MustBeClean(g)
              /\ Allowed(g)' => Allowed(g) /\ tab'[g].version = tab[g].version
    <2>. SUFFICES ASSUME NEW g \in Files, g # f
                  PROVE  /\ MustBeClean(g)' => MustBeClean(g)
                         /\ Allowed(g)' => Allowed(g) /\ tab'[g].version = tab[g].version
      BY OneStep, StepsAre
    <2>. QED  BY <1>1, <1>8 DEF MustBeClean, Allowed, Barred
  <1>13. <<Look(f)>> \in Seq(Steps) /\ \A i \in DOMAIN <<Look(f)>> : <<Look(f)>>[i].op # "put"
    BY OneStep, StepsAre, StepsDiffer
  <1>14. enabled' \in BOOLEAN /\ barred' \in [Kinds -> SUBSET Files] /\ (~enabled' => ~enabled)
    BY <1>1 DEF IInv, TypeOK
  <1>. QED  BY <1>1, <1>2, <1>8, <1>10, <1>11, <1>12, <1>13, <1>14, UserCommand

LEMMA BarredToggled ==
  ASSUME barred \in [Kinds -> SUBSET Files], NEW f \in Files, NEW k \in Kinds,
         barred' = [barred EXCEPT ![k] = IF f \in @ THEN @ \ {f} ELSE @ \cup {f}]
  PROVE  /\ barred' \in [Kinds -> SUBSET Files]
         /\ f \in barred'[k] <=> f \notin barred[k]
         /\ \A j \in Kinds : j # k => barred'[j] = barred[j]
         /\ \A g \in Files, j \in Kinds : g # f => (g \in barred'[j] <=> g \in barred[j])
  <1>. DEFINE t == IF f \in barred[k] THEN barred[k] \ {f} ELSE barred[k] \cup {f}
  <1>1. barred' = [barred EXCEPT ![k] = t]  OBVIOUS
  <1>2. t \in SUBSET Files /\ (f \in t <=> f \notin barred[k])
          /\ \A g \in Files : g # f => (g \in t <=> g \in barred[k])
    OBVIOUS
  <1>. HIDE DEF t
  <1>. QED  BY <1>1, <1>2

LEMMA MarksSound ==
  ASSUME IInv, NEW f \in Files, Marks(f)
  PROVE  IInv'
  <1>1. /\ IntoFile(f) /\ ~tab[f].unsaved /\ Command(<<Look(f)>>)
        /\ tab' = [tab EXCEPT ![f].version = tab[f].version + 1, ![f].doc = commands]
        /\ barred' = [barred EXCEPT !["sensitive"] = IF f \in @ THEN @ \ {f} ELSE @ \cup {f}]
        /\ UNCHANGED enabled
    BY DEF Marks
  <1>2. /\ texts' \in [Files -> Seq(Nat) \ {<<>>}] /\ Grown(texts, texts')
        /\ tab[f].open /\ tab[f].version + 1 \in 1..Len(texts'[f])
        /\ texts'[f][tab[f].version + 1] = tab[f].text
        /\ \A g \in Files : g # f => texts'[g] = texts[g]
    BY <1>1, IntoFileFacts
  <1>3. tab \in [Files -> {Closed} \cup OpenTab] /\ barred \in [Kinds -> SUBSET Files]
    BY DEF IInv, TypeOK
  <1>4. tab[f] \in OpenTab /\ tab[f].version \in Nat /\ commands \in Nat
    BY <1>2, TabFacts
  <1>5. PICK o : o = [tab[f] EXCEPT !.version = tab[f].version + 1, !.doc = commands]  OBVIOUS
  <1>6. /\ o \in OpenTab /\ o.doc = commands /\ o.text = tab[f].text
        /\ o.version = tab[f].version + 1
    <2>1. PICK d \in Nat, v \in Nat, x \in Nat, u \in BOOLEAN :
            tab[f] = [open |-> TRUE, doc |-> d, version |-> v, text |-> x, unsaved |-> u]
      BY <1>2, TabIs
    <2>2. tab[f].doc = d /\ tab[f].version = v /\ tab[f].text = x  BY <2>1
    <2>x. o = [tab[f] EXCEPT !.version = v + 1, !.doc = commands]  BY <1>5, <2>2
    <2>q. PICK r : r = tab[f]  OBVIOUS
    <2>p. r = [open |-> TRUE, doc |-> d, version |-> v, text |-> x, unsaved |-> u]  BY <2>1, <2>q
    <2>z. PICK t : t = [r EXCEPT !.version = v + 1]  OBVIOUS
    <2>w. o = [t EXCEPT !.doc = commands]  BY ONLY <2>q, <2>x, <2>z, Zenon
    <2>t. t = [open |-> TRUE, doc |-> d, version |-> v + 1, text |-> x, unsaved |-> u]
      BY ONLY <2>p, <2>z
    <2>3. o = [open |-> TRUE, doc |-> commands, version |-> v + 1, text |-> x, unsaved |-> u]
      BY ONLY <2>t, <2>w
    <2>4. o \in OpenTab  BY <1>4, <2>3 DEF OpenTab
    <2>5. o.doc = commands /\ o.text = x /\ o.version = v + 1  BY <2>3
    <2>. QED  BY <2>2, <2>4, <2>5
  <1>7. tab' = [tab EXCEPT ![f] = o]  BY <1>1, <1>3, <1>5
  <1>8. /\ tab' \in [Files -> {Closed} \cup OpenTab] /\ tab'[f] = o
        /\ \A g \in Files : g # f => tab'[g] = tab[g]
    BY <1>3, <1>6, <1>7
  <1>9. commands' = commands + 1  BY <1>1 DEF Command
  <1>10. TabsSound'
    <2>. SUFFICES ASSUME NEW g \in Files, tab'[g].open
                  PROVE  /\ tab'[g].doc < commands'
                         /\ tab'[g].version \in 1..Len(texts'[g])
                         /\ ~tab'[g].unsaved => tab'[g].text = texts'[g][tab'[g].version]
      BY DEF TabsSound
    <2>1. CASE g = f  BY <1>2, <1>4, <1>6, <1>8, <1>9, <2>1
    <2>2. CASE g # f  BY <1>2, <1>8, <1>9, <2>2, TabStays
    <2>. QED  BY <2>1, <2>2
  <1>11. \A g \in Files : tab'[g].open =>
           \/ tab[g].open /\ tab'[g].doc = tab[g].doc /\ tab'[g].text = tab[g].text
           \/ tab'[g].doc >= commands
    BY <1>4, <1>6, <1>8
  <1>b. barred' \in [Kinds -> SUBSET Files]
          /\ \A g \in Files, j \in Kinds : g # f => (g \in barred'[j] <=> g \in barred[j])
    BY <1>1, <1>3, BarredToggled DEF Kinds
  <1>12. \A g \in Files :
           \/ \E i \in DOMAIN <<Look(f)>> : <<Look(f)>>[i] = Look(g)
           \/ /\ MustBeClean(g)' => MustBeClean(g)
              /\ Allowed(g)' => Allowed(g) /\ tab'[g].version = tab[g].version
    <2>. SUFFICES ASSUME NEW g \in Files, g # f
                  PROVE  /\ MustBeClean(g)' => MustBeClean(g)
                         /\ Allowed(g)' => Allowed(g) /\ tab'[g].version = tab[g].version
      BY OneStep, StepsAre
    <2>1. "sensitive" \in Kinds /\ "unrecorded" \in Kinds  BY DEF Kinds
    <2>. QED  BY <1>1, <1>8, <1>b, <2>1 DEF MustBeClean, Allowed, Barred
  <1>13. <<Look(f)>> \in Seq(Steps) /\ \A i \in DOMAIN <<Look(f)>> : <<Look(f)>>[i].op # "put"
    BY OneStep, StepsAre, StepsDiffer
  <1>14. enabled' \in BOOLEAN /\ (~enabled' => ~enabled)
    BY <1>1 DEF IInv, TypeOK
  <1>. QED  BY <1>1, <1>2, <1>8, <1>10, <1>11, <1>b, <1>12, <1>13, <1>14, UserCommand

\* Tabs whose files only grew.
LEMMA SameTabs ==
  ASSUME IInv, tab' = tab, Grown(texts, texts'), commands' = commands + 1
  PROVE  /\ tab' \in [Files -> {Closed} \cup OpenTab]
         /\ TabsSound'
         /\ \A g \in Files : tab'[g].open =>
              tab[g].open /\ tab'[g].doc = tab[g].doc /\ tab'[g].text = tab[g].text
  <1>1. tab' \in [Files -> {Closed} \cup OpenTab]  BY DEF IInv, TypeOK
  <1>2. TabsSound'
    <2>. SUFFICES ASSUME NEW g \in Files, tab[g].open
                  PROVE  /\ tab[g].doc < commands + 1
                         /\ tab[g].version \in 1..Len(texts'[g])
                         /\ ~tab[g].unsaved => tab[g].text = texts'[g][tab[g].version]
      BY DEF TabsSound
    <2>. QED  BY TabStays
  <1>. QED  BY <1>1, <1>2

LEMMA RecordsSound ==
  ASSUME IInv, NEW f \in Files, Records(f)
  PROVE  IInv'
  <1>. DEFINE todo == IF f \in barred["unrecorded"] THEN <<Look(f)>> ELSE <<Forget(f)>>
  <1>1. /\ Command(todo)
        /\ barred' = [barred EXCEPT !["unrecorded"] = IF f \in @ THEN @ \ {f} ELSE @ \cup {f}]
        /\ UNCHANGED <<texts, tab, enabled>>
    BY DEF Records
  <1>2. commands' = commands + 1  BY <1>1 DEF Command
  <1>3. "sensitive" \in Kinds /\ "unrecorded" \in Kinds  BY DEF Kinds
  <1>4. /\ barred' \in [Kinds -> SUBSET Files]
        /\ f \in barred'["unrecorded"] <=> f \notin barred["unrecorded"]
        /\ \A g \in Files, j \in Kinds : g # f => (g \in barred'[j] <=> g \in barred[j])
    BY <1>1, <1>3, BarredToggled DEF IInv, TypeOK
  <1>5. /\ todo \in Seq(Steps) /\ \A i \in DOMAIN todo : todo[i].op # "put"
        /\ f \in barred["unrecorded"] => \E i \in DOMAIN todo : todo[i] = Look(f)
        /\ f \notin barred["unrecorded"] => \E i \in DOMAIN todo : todo[i] = Forget(f)
    BY OneStep, StepsAre, StepsDiffer
  <1>. HIDE DEF todo
  <1>6. \A g \in Files :
           \/ \E i \in DOMAIN todo : todo[i] = Look(g)
           \/ /\ MustBeClean(g)' => MustBeClean(g) \/ \E i \in DOMAIN todo : todo[i] = Forget(g)
              /\ Allowed(g)' => Allowed(g) /\ tab'[g].version = tab[g].version
    <2>. SUFFICES ASSUME NEW g \in Files, ~\E i \in DOMAIN todo : todo[i] = Look(g)
                  PROVE  /\ MustBeClean(g)' => MustBeClean(g) \/ \E i \in DOMAIN todo : todo[i] = Forget(g)
                         /\ Allowed(g)' => Allowed(g) /\ tab'[g].version = tab[g].version
      OBVIOUS
    <2>1. CASE g = f
      <3>1. f \in barred'["unrecorded"] /\ \E i \in DOMAIN todo : todo[i] = Forget(f)
        BY <1>4, <1>5, <2>1
      <3>2. ~Allowed(f)'  BY <1>3, <3>1 DEF Allowed, Barred
      <3>. QED  BY <2>1, <3>1, <3>2
    <2>2. CASE g # f  BY <1>1, <1>3, <1>4, <2>2 DEF MustBeClean, Allowed, Barred
    <2>. QED  BY <2>1, <2>2
  <1>7. /\ texts' \in [Files -> Seq(Nat) \ {<<>>}] /\ enabled' \in BOOLEAN
        /\ Grown(texts, texts') /\ (~enabled' => ~enabled)
    BY <1>1, GrownSame DEF IInv, TypeOK
  <1>8. /\ tab' \in [Files -> {Closed} \cup OpenTab] /\ TabsSound'
        /\ \A g \in Files : tab'[g].open =>
             tab[g].open /\ tab'[g].doc = tab[g].doc /\ tab'[g].text = tab[g].text
    BY <1>1, <1>2, <1>7, SameTabs
  <1>. QED  BY <1>1, <1>4, <1>5, <1>6, <1>7, <1>8, UserCommand

LEMMA SwitchesSound ==
  ASSUME IInv, Switches
  PROVE  IInv'
  <1>1. /\ enabled' = ~enabled /\ UNCHANGED <<texts, tab, barred>>
        /\ \E todo \in IF enabled THEN {<<Clear>>} ELSE LookAtAll : Command(todo)
    BY DEF Switches
  <1>2. PICK todo \in IF enabled THEN {<<Clear>>} ELSE LookAtAll : Command(todo)  BY <1>1
  <1>e. enabled \in BOOLEAN  BY DEF IInv, TypeOK
  <1>3. /\ todo \in Seq(Steps) /\ \A i \in DOMAIN todo : todo[i].op # "put"
        /\ enabled => \E i \in DOMAIN todo : todo[i] = Clear
        /\ ~enabled => \A g \in Files : tab[g].open => \E i \in DOMAIN todo : todo[i] = Look(g)
    <2>1. CASE enabled
      <3>1. todo = <<Clear>>  BY <1>2, <2>1
      <3>. QED  BY <2>1, <3>1, OneStep, StepsAre, StepsDiffer
    <2>2. CASE ~enabled
      <3>1. todo \in LookAtAll  BY <1>2, <2>2
      <3>2. \A i \in DOMAIN todo : todo[i].op # "put"  BY <3>1, LooksAtAll
      <3>. QED  BY <2>2, <3>1, <3>2, LooksAtAll
    <2>. QED  BY <2>1, <2>2
  <1>4. commands' = commands + 1  BY <1>2 DEF Command
  <1>5. \A g \in Files :
           \/ \E i \in DOMAIN todo : todo[i] = Look(g)
           \/ /\ MustBeClean(g)' => MustBeClean(g)
              /\ Allowed(g)' => Allowed(g) /\ tab'[g].version = tab[g].version
    <2>. SUFFICES ASSUME NEW g \in Files, ~\E i \in DOMAIN todo : todo[i] = Look(g)
                  PROVE  /\ MustBeClean(g)' => MustBeClean(g)
                         /\ Allowed(g)' => Allowed(g) /\ tab'[g].version = tab[g].version
      OBVIOUS
    <2>1. enabled \/ ~tab[g].open  BY <1>3
    <2>. QED  BY <1>1, <1>e, <2>1 DEF MustBeClean, Allowed
  <1>6. /\ texts' \in [Files -> Seq(Nat) \ {<<>>}] /\ enabled' \in BOOLEAN
        /\ barred' \in [Kinds -> SUBSET Files] /\ Grown(texts, texts')
    BY <1>1, <1>e, GrownSame DEF IInv, TypeOK
  <1>7. ~enabled' => ~enabled \/ \E i \in DOMAIN todo : todo[i] = Clear  BY <1>1, <1>3
  <1>8. /\ tab' \in [Files -> {Closed} \cup OpenTab] /\ TabsSound'
        /\ \A g \in Files : tab'[g].open =>
             tab[g].open /\ tab'[g].doc = tab[g].doc /\ tab'[g].text = tab[g].text
    BY <1>1, <1>4, <1>6, SameTabs
  <1>. QED  BY <1>2, <1>3, <1>5, <1>6, <1>7, <1>8, UserCommand

LEMMA ClearsSound ==
  ASSUME IInv, Clears
  PROVE  IInv'
  <1>1. Command(<<Clear>>) /\ UNCHANGED <<texts, tab, enabled, barred>>  BY DEF Clears
  <1>2. commands' = commands + 1  BY <1>1 DEF Command
  <1>3. /\ texts' \in [Files -> Seq(Nat) \ {<<>>}] /\ enabled' \in BOOLEAN
        /\ barred' \in [Kinds -> SUBSET Files] /\ Grown(texts, texts') /\ (~enabled' => ~enabled)
    BY <1>1, GrownSame DEF IInv, TypeOK
  <1>4. /\ tab' \in [Files -> {Closed} \cup OpenTab] /\ TabsSound'
        /\ \A g \in Files : tab'[g].open =>
             tab[g].open /\ tab'[g].doc = tab[g].doc /\ tab'[g].text = tab[g].text
    BY <1>1, <1>2, <1>3, SameTabs
  <1>5. \A g \in Files : /\ MustBeClean(g)' => MustBeClean(g)
                         /\ Allowed(g)' => Allowed(g) /\ tab'[g].version = tab[g].version
    BY <1>1 DEF MustBeClean, Allowed, Barred
  <1>6. <<Clear>> \in Seq(Steps) /\ \A i \in DOMAIN <<Clear>> : <<Clear>>[i].op # "put"
    BY OneStep, StepsAre, StepsDiffer
  <1>. QED  BY <1>1, <1>3, <1>4, <1>5, <1>6, UserCommand

LEMMA WritesSound ==
  ASSUME IInv, NEW f \in Files, Writes(f)
  PROVE  IInv'
  <1>1. /\ Command(<<>>) /\ UNCHANGED <<tab, enabled, barred>>
        /\ texts' = [texts EXCEPT ![f] = Append(texts[f], commands + 1)]
    BY DEF Writes
  <1>2. commands' = commands + 1  BY <1>1 DEF Command
  <1>3. texts[f] \in Seq(Nat) /\ commands + 1 \in Nat  BY TabFacts
  <1>4. PICK s : s = Append(texts[f], commands + 1)  OBVIOUS
  <1>5. /\ s \in Seq(Nat) /\ s # <<>> /\ Len(s) = Len(texts[f]) + 1
        /\ \A i \in 1..Len(texts[f]) : s[i] = texts[f][i]
    BY <1>3, <1>4, AppendProperties
  <1>6. texts \in [Files -> Seq(Nat) \ {<<>>}]  BY DEF IInv, TypeOK
  <1>7. /\ texts' \in [Files -> Seq(Nat) \ {<<>>}] /\ texts'[f] = s
        /\ \A g \in Files : g # f => texts'[g] = texts[g]
    BY <1>1, <1>4, <1>5, <1>6
  <1>8. Grown(texts, texts')
    <2>. SUFFICES ASSUME NEW g \in Files
                  PROVE  /\ Len(texts[g]) \in Nat /\ Len(texts'[g]) \in Nat
                         /\ Len(texts[g]) <= Len(texts'[g])
                         /\ \A i \in 1..Len(texts[g]) : texts'[g][i] = texts[g][i]
      BY DEF Grown
    <2>0. texts[g] \in Seq(Nat) /\ texts'[g] \in Seq(Nat)  BY <1>6, <1>7
    <2>1. CASE g = f  BY <1>5, <1>7, <2>0, <2>1
    <2>2. CASE g # f  BY <1>7, <2>0, <2>2
    <2>. QED  BY <2>1, <2>2
  <1>9. /\ tab' \in [Files -> {Closed} \cup OpenTab] /\ TabsSound'
        /\ \A g \in Files : tab'[g].open =>
             tab[g].open /\ tab'[g].doc = tab[g].doc /\ tab'[g].text = tab[g].text
    BY <1>1, <1>2, <1>8, SameTabs
  <1>10. \A g \in Files : /\ MustBeClean(g)' => MustBeClean(g)
                          /\ Allowed(g)' => Allowed(g) /\ tab'[g].version = tab[g].version
    BY <1>1 DEF MustBeClean, Allowed, Barred
  <1>11. enabled' \in BOOLEAN /\ barred' \in [Kinds -> SUBSET Files] /\ (~enabled' => ~enabled)
    BY <1>1 DEF IInv, TypeOK
  <1>. QED  BY <1>1, <1>7, <1>8, <1>9, <1>10, <1>11, NoStep, UserCommand
-----------------------------------------------------------------------------
(* What is done to the index.                                               *)

\* Nothing is in the folder, and the taker has nothing to put there.
Emptied ==
  DOMAIN folder.docs = {} /\ (taker # Idle => taker.gen # index.generation)

\* A document whose text was there or on its way still has it so.
GoesOnBeing(e, o) ==
  /\ e.file = o.file /\ e.version = o.version
  /\ ~torn /\ Allowed(o.file) /\ o.file \notin cutShort' /\ tab[o.file].version = o.version
        /\ (IsWhole(o) \/ Progress(o))
       => IsWhole(e)' \/ Progress(e)'

\* A step leaves a sound index, with new documents of the files in `news` only.
StillGood(news) ==
  /\ IsFolder(folder') /\ nextKey' \in Nat \ {0} /\ taker' \in {Idle} \cup Reader
  /\ index' \in [loaded : Catalog, looked : BOOLEAN, generation : Nat]
  /\ FolderSound(folder', texts)
  /\ IndexSound' /\ CountedUnlessTorn' /\ TakerSound'
  /\ index.looked => index'.looked
  /\ \A f \in Files : MustBeClean(f) /\ Clean(f) => Clean(f)'
  /\ ~enabled /\ Emptied => Emptied'
  /\ index.looked => \A e \in index'.loaded.entries :
       e.file \in news \/ \E o \in index.loaded.entries : GoesOnBeing(e, o)

LEMMA IndexStep ==
  ASSUME IInv, NEW news, StillGood(news), UNCHANGED <<userVars, torn>>, faults' \in Nat,
         calls' \subseteq Seq(Steps) \ {<<>>}, CallsSound', SearchSound',
         queue' \in Seq(Files), reconsider' \in BOOLEAN, listed' \subseteq Result,
         search' \in {Idle} \cup Searching,
         \A f \in Files : Pending(Look(f), calls) =>
           \/ Pending(Look(f), calls')
           \/ /\ MustBeClean(f) => Pending(Forget(f), calls')
              /\ Allowed(f) /\ f \notin cutShort' => Pending(PutOf(f, tab[f].version), calls'),
         Pending(Clear, calls) => Pending(Clear, calls') \/ Emptied',
         \A f \in Files : Pending(Forget(f), calls) => Pending(Forget(f), calls') \/ Clean(f)',
         \A f \in Files, v \in Nat : Pending(PutOf(f, v), calls) =>
           Pending(PutOf(f, v), calls') \/ (index'.looked /\ f \in Range(queue')),
         \A f \in news : f \in Range(queue'),
         reconsider => reconsider' \/ (\A f \in Files : tab[f].open => Pending(Look(f), calls'))
                         \/ index'.loaded.entries = {},
         cutShort' \subseteq cutShort \cup Files,
         \A f \in cutShort : f \in cutShort' \/ (index.looked /\ f \in Range(queue)),
         \A f \in Range(queue) : Allowed(f) /\ f \notin cutShort' /\ ~torn =>
           \/ f \in Range(queue')
           \/ \A e \in index'.loaded.entries :
                e.file = f /\ e.version = tab[f].version => IsWhole(e)' \/ Progress(e)'
  PROVE  IInv'
  <1>1. TypeOK'
    BY DEF IInv, TypeOK, StillGood, userVars
  <1>2. /\ texts' = texts /\ tab' = tab /\ enabled' = enabled /\ barred' = barred /\ commands' = commands
        /\ torn' = torn
    BY DEF userVars
  <1>3. TabsSound'  BY <1>2 DEF IInv, TabsSound
  <1>4. FolderSound(folder', texts')  BY <1>2 DEF StillGood
  <1>5. IndexSound' /\ CountedUnlessTorn' /\ TakerSound'  BY DEF StillGood
  <1>e. Emptied' => \A f \in Files : Clean(f)'  BY DEF Emptied, Clean
  <1>6. BarredIsClean'
    <2>. SUFFICES ASSUME NEW f \in Files, MustBeClean(f)
                  PROVE  \/ Pending(Look(f), calls') \/ Pending(Forget(f), calls')
                         \/ Pending(Clear, calls')
                         \/ Clean(f)'
      BY <1>2 DEF BarredIsClean, MustBeClean, Look, Forget, Clear
    <2>1. \/ Pending(Look(f), calls) \/ Pending(Forget(f), calls)
          \/ Pending(Clear, calls) \/ Clean(f)
      BY DEF IInv, BarredIsClean, MustBeClean
    <2>2. Clean(f) => Clean(f)'  BY DEF StillGood
    <2>3. Pending(Clear, calls) => Pending(Clear, calls') \/ Clean(f)'  BY <1>e
    <2>. QED  BY <2>1, <2>2, <2>3
  <1>7. OffIsClean'
    <2>. SUFFICES ASSUME ~enabled PROVE Pending(Clear, calls') \/ Emptied'
      BY <1>2 DEF OffIsClean, Emptied, Clear
    <2>1. Pending(Clear, calls) \/ Emptied  BY DEF IInv, OffIsClean, Emptied
    <2>. QED  BY <2>1 DEF StillGood
  <1>8. WillBeTaken'
    <2>. SUFFICES ASSUME ~torn, NEW f \in Files, Allowed(f), f \notin cutShort'
                  PROVE  \/ Pending(Look(f), calls') \/ Pending(PutOf(f, tab[f].version), calls')
                         \/ /\ index'.looked
                            /\ \/ reconsider'
                               \/ f \in Range(queue')
                               \/ \A e \in index'.loaded.entries :
                                    e.file = f /\ e.version = tab[f].version =>
                                      IsWhole(e)' \/ Progress(e)'
      BY <1>2 DEF WillBeTaken, Look, PutOf, Range, Awaited, Allowed, Barred
    <2>1. \/ Pending(Look(f), calls) \/ Pending(PutOf(f, tab[f].version), calls)
          \/ /\ index.looked
             /\ \/ reconsider
                \/ f \in Range(queue)
                \/ \A e \in index.loaded.entries : e.file = f /\ e.version = tab[f].version =>
                     IsWhole(e) \/ Progress(e)
      <3>1. CASE f \in cutShort  BY <3>1
      <3>2. CASE f \notin cutShort
        <4>1. Awaited(f)  BY <3>2 DEF Awaited
        <4>. QED  BY <4>1 DEF IInv, WillBeTaken
      <3>. QED  BY <3>1, <3>2
    <2>o. tab[f].open /\ tab[f].version \in Nat  BY TabIs, TabFacts DEF Allowed
    <2>2. CASE Pending(Look(f), calls)  BY <2>2
    <2>3. CASE Pending(PutOf(f, tab[f].version), calls)  BY <2>3, <2>o
    <2>4. CASE index.looked /\ reconsider  BY <2>4, <2>o DEF StillGood
    <2>5. CASE index.looked /\ f \in Range(queue)  BY <2>5 DEF StillGood
    <2>6. CASE /\ index.looked
               /\ \A e \in index.loaded.entries : e.file = f /\ e.version = tab[f].version =>
                    IsWhole(e) \/ Progress(e)
      <3>1. index'.looked  BY <2>6 DEF StillGood
      <3>2. CASE f \in news  BY <3>1, <3>2
      <3>3. CASE f \notin news
        <4>. SUFFICES ASSUME NEW e \in index'.loaded.entries, e.file = f, e.version = tab[f].version
                      PROVE  IsWhole(e)' \/ Progress(e)'
          BY <3>1
        <4>1. PICK o \in index.loaded.entries : GoesOnBeing(e, o)  BY <2>6, <3>3 DEF StillGood
        <4>2. e.file = o.file /\ e.version = o.version  BY <4>1 DEF GoesOnBeing
        <4>3. IsWhole(o) \/ Progress(o)  BY <2>6, <4>2
        <4>. QED  BY <4>1, <4>2, <4>3 DEF GoesOnBeing
      <3>. QED  BY <3>2, <3>3
    <2>. QED  BY <2>1, <2>2, <2>3, <2>4, <2>5, <2>6
  <1>. QED  BY <1>1, <1>3, <1>4, <1>5, <1>6, <1>7, <1>8 DEF IInv

\* Nothing is done to it, and the taker does nothing.
LEMMA StaysGood ==
  ASSUME IInv, UNCHANGED <<userVars, torn, folder, index, taker>>, nextKey' \in Nat \ {0},
         index.looked \/ UNCHANGED <<search, listed>>
  PROVE  StillGood({})
  <1>1. /\ texts' = texts /\ tab' = tab /\ enabled' = enabled /\ commands' = commands
        /\ torn' = torn /\ folder' = folder /\ index' = index /\ taker' = taker
    BY DEF userVars
  <1>2. IsFolder(folder') /\ taker' \in {Idle} \cup Reader
          /\ index' \in [loaded : Catalog, looked : BOOLEAN, generation : Nat]
    BY <1>1 DEF IInv, TypeOK
  <1>3. FolderSound(folder', texts)  BY <1>1 DEF IInv
  <1>4. IndexSound'  BY <1>1 DEF IInv, IndexSound, Loaded, Idle
  <1>5. CountedUnlessTorn'  BY <1>1 DEF IInv, CountedUnlessTorn
  <1>s. \A id : SameText(id)  BY <1>1 DEF SameText
  <1>6. TakerSound'
    <2>1. ASSUME NEW e \in index.loaded.entries, TakerOf(e) PROVE TakerOf(e)'
      BY <1>1, <2>1 DEF TakerOf, Has
    <2>2. taker = Idle => taker' = Idle  BY <1>1 DEF Idle
    <2>3. TakerSound  BY DEF IInv
    <2>4. CASE taker = Idle  BY <2>2, <2>4 DEF TakerSound, Idle
    <2>5. CASE taker # Idle
      <3>1. Loaded <=> Loaded'  BY <1>1 DEF Loaded
      <3>. QED  BY <1>1, <2>1, <2>3, <2>5, <3>1 DEF TakerSound
    <2>. QED  BY <2>4, <2>5
  <1>7. \A f \in Files : Clean(f) => Clean(f)'  BY <1>1 DEF Clean, IdsOf, Idle
  <1>8. Emptied => Emptied'  BY <1>1 DEF Emptied, Idle
  <1>9. \A e \in index'.loaded.entries : \E o \in index.loaded.entries : GoesOnBeing(e, o)
    <2>. SUFFICES ASSUME NEW e \in index.loaded.entries PROVE GoesOnBeing(e, e)  BY <1>1
    <2>1. SameDocument(e, e)  BY DEF SameDocument
    <2>2. IsWhole(e) => IsWhole(e)'  BY <1>s, <2>1, WholeKept
    <2>3. Progress(e) => Progress(e)'  BY <1>1, <2>1, ProgressKept
    <2>. QED  BY <2>2, <2>3 DEF GoesOnBeing
  <1>. QED  BY <1>1, <1>2, <1>3, <1>4, <1>5, <1>6, <1>7, <1>8, <1>9 DEF StillGood

LEMMA DoesLeaves ==
  ASSUME IInv, index.looked, NEW E, Does(E), Final(E), UNCHANGED <<userVars, torn>>
  PROVE  /\ folder' = E.dir /\ index'.loaded = E.cat /\ index'.looked /\ Loaded'
         /\ index'.generation = index.generation
         /\ index' \in [loaded : Catalog, looked : BOOLEAN, generation : Nat]
         /\ nextKey' \in Nat \ {0} /\ IsFolder(folder')
         /\ FolderSound(folder', texts) /\ IndexSound' /\ CountedUnlessTorn'
  <1>1. texts' = texts /\ torn' = torn  BY DEF userVars
  <1>2. TypeOK  BY DEF IInv
  <1>3. IsEffect(E) /\ MemorySound(E.dir, E.cat) /\ IsFolder(E.dir) /\ E.cat \in Catalog
    BY DEF Final, IsEffect, MemorySound
  <1>4. folder' = E.dir /\ index'.loaded = E.cat /\ index'.looked /\ index'.generation = index.generation
          /\ index' \in [loaded : Catalog, looked : BOOLEAN, generation : Nat]
    BY <1>2, <1>3 DEF Does, TypeOK
  <1>5. nextKey' \in Nat \ {0}  BY <1>2 DEF Does, TypeOK
  <1>6. FolderSound(folder', texts)  BY <1>3, <1>4 DEF IsEffect
  <1>7. Loaded'  BY <1>3, <1>4 DEF Loaded, MemorySound
  <1>8. IndexSound'  BY <1>1, <1>3, <1>4, <1>7 DEF IndexSound, Final, MemorySound
  <1>9. CountedUnlessTorn'  BY <1>1, <1>3, <1>4 DEF CountedUnlessTorn, Final, MemorySound
  <1>. QED  BY <1>3, <1>4, <1>5, <1>6, <1>7, <1>8, <1>9

\* What was done under the lock.
LEMMA DoesGood ==
  ASSUME IInv, index.looked, NEW E, Does(E), NEW news, Final(E),
         Continues(E, index.loaded, folder.docs, news), UNCHANGED <<userVars, torn, taker>>
  PROVE  /\ StillGood(news)
         /\ index'.loaded = E.cat /\ index'.generation = index.generation /\ folder' = E.dir
         /\ \A id \in Nat : \A f : StandsFor(id, f) => StandsFor(id, f)'
  <1>1. /\ texts' = texts /\ tab' = tab /\ enabled' = enabled /\ commands' = commands
        /\ torn' = torn /\ taker' = taker
    BY DEF userVars
  <1>2. TypeOK  BY DEF IInv
  <1>3. IsEffect(E) /\ MemorySound(E.dir, E.cat) /\ IsFolder(E.dir) /\ E.cat \in Catalog
    BY DEF Final, IsEffect, MemorySound
  <1>4. folder' = E.dir /\ index'.loaded = E.cat /\ index'.looked /\ index'.generation = index.generation
          /\ index' \in [loaded : Catalog, looked : BOOLEAN, generation : Nat]
    BY DoesLeaves
  <1>5. nextKey' \in Nat \ {0}  BY DoesLeaves
  <1>6. FolderSound(folder', texts)  BY DoesLeaves
  <1>7. IndexSound'  BY DoesLeaves
  <1>8. CountedUnlessTorn'  BY DoesLeaves
  <1>9. /\ index.loaded \in Catalog /\ CatalogSound(index.loaded, texts)
        /\ index.loaded.nextId \in Nat /\ E.cat.nextId \in Nat
        /\ \A e \in index.loaded.entries : e.file \in Files /\ e.id \in Nat
        /\ \A e \in E.cat.entries : e.id \in Nat
    BY <1>2, <1>3, CatalogFacts DEF TypeOK, IInv, IndexSound
  <1>10. ASSUME NEW e \in E.cat.entries
         PROVE  \/ e.file \in news /\ e.id >= index.loaded.nextId
                \/ \E o \in index.loaded.entries : SameDocument(e, o) /\ SameText(o.id)
    <2>1. CASE e.id >= index.loaded.nextId /\ e.done = 0 /\ e.file \in news  BY <2>1
    <2>2. CASE \E o \in index.loaded.entries : SameDocument(e, o)
      <3>1. PICK o \in index.loaded.entries : SameDocument(e, o)  BY <2>2
      <3>2. SameText(o.id)
        <4>1. o.id = e.id  BY <3>1 DEF SameDocument
        <4>2. o.id \in DOMAIN folder.docs => o.id \in DOMAIN folder'.docs
          BY <1>4, <4>1 DEF Continues
        <4>3. o.id \in DOMAIN folder'.docs =>
                o.id \in DOMAIN folder.docs /\ folder'.docs[o.id] = folder.docs[o.id]
          BY <1>4 DEF Continues
        <4>. QED  BY <4>2, <4>3 DEF SameText
      <3>. QED  BY <3>1, <3>2
    <2>. QED  BY <2>1, <2>2 DEF Continues
  <1>g. Grown(texts, texts')  BY <1>1, <1>2, GrownSame
  <1>t. ASSUME taker # Idle, taker.gen = index.generation
        PROVE  /\ Loaded /\ Loaded' /\ taker.entry.id < index.loaded.nextId
               /\ index'.loaded.key = index.loaded.key
               /\ taker.entry.id \in Nat
    <2>1. Loaded /\ taker.entry.id < index.loaded.nextId  BY <1>t DEF IInv, TakerSound
    <2>2. E.cat.key = index.loaded.key  BY <2>1 DEF Continues, Loaded
    <2>3. taker.entry.id \in Nat  BY <1>2, <1>t DEF TypeOK, Reader, Entry
    <2>. QED  BY <1>4, <2>1, <2>2, <2>3 DEF Loaded
  <1>11. TakerSound'
    <2>1. ASSUME taker # Idle, taker.gen = index.generation,
                 NEW e \in E.cat.entries, e.id = taker.entry.id
          PROVE  TakerOf(e)'
      <3>1. taker.entry.id < index.loaded.nextId /\ taker.entry.id \in Nat  BY <1>t, <2>1
      <3>2. ~(e.id >= index.loaded.nextId)  BY <1>9, <2>1, <3>1
      <3>3. PICK o \in index.loaded.entries : SameDocument(e, o) /\ SameText(o.id)
        BY <1>10, <3>2
      <3>4. o.id = taker.entry.id  BY <2>1, <3>3 DEF SameDocument
      <3>5. TakerOf(o)  BY <2>1, <3>4 DEF IInv, TakerSound
      <3>6. o.file \in Files /\ o.version \in 1..Len(texts[o.file])  BY <1>9 DEF CatalogSound
      <3>. QED  BY <1>1, <1>g, <3>3, <3>5, <3>6, TakerOfKept
    <2>2. index'.loaded.nextId >= index.loaded.nextId /\ index'.loaded.nextId \in Nat
      BY <1>4, <1>9 DEF Continues
    <2>3. commands' \in Nat /\ commands <= commands'  BY <1>1, <1>2 DEF TypeOK
    <2>4. \A f \in Files : tab'[f].open =>
            tab[f].open /\ tab'[f].doc = tab[f].doc /\ tab'[f].text = tab[f].text
      BY <1>1
    <2>. QED  BY <1>1, <1>4, <1>g, <1>t, <2>1, <2>2, <2>3, <2>4, TakerKept
  <1>12. \A f \in Files : Clean(f) => Clean(f)'
    <2>. SUFFICES ASSUME NEW f \in Files, Clean(f) PROVE Clean(f)'  OBVIOUS
    <2>1. ASSUME NEW id \in DOMAIN E.dir.docs, E.dir.docs[id].key # 0,
                 E.dir.docs[id].key = E.dir.key
          PROVE  E.dir.docs[id].file # f
      <3>1. id \in DOMAIN folder.docs /\ E.dir.docs[id] = folder.docs[id]  BY DEF Continues
      <3>2. Loaded
        <4>1. CASE ~Loaded  BY <3>1, <4>1 DEF IInv, IndexSound, Nothing
        <4>. QED  BY <4>1
      <3>3. folder.key = E.dir.key
        <4>1. folder.key = index.loaded.key /\ E.cat.key = E.dir.key
          BY <1>3 DEF IInv, IndexSound, MemorySound
        <4>. QED  BY <3>2, <4>1 DEF Continues, Loaded
      <3>. QED  BY <2>1, <3>1, <3>3 DEF Clean
    <2>2. ASSUME taker # Idle, taker.gen = index.generation, taker.entry.file = f
          PROVE  taker.entry.id \notin IdsOf(E.cat)
      <3>. SUFFICES ASSUME NEW e \in E.cat.entries, e.id = taker.entry.id PROVE FALSE
        BY DEF IdsOf
      <3>1. taker.entry.id < index.loaded.nextId /\ taker.entry.id \in Nat  BY <1>t, <2>2
      <3>2. PICK o \in index.loaded.entries : SameDocument(e, o)
        BY <1>9, <1>10, <3>1
      <3>. QED  BY <2>2, <3>2 DEF Clean, IdsOf, SameDocument
    <2>. QED  BY <1>1, <1>4, <2>1, <2>2 DEF Clean, Idle, IdsOf
  <1>13. Emptied => Emptied'
    <2>1. DOMAIN folder.docs = {} => DOMAIN E.dir.docs = {}  BY DEF Continues
    <2>. QED  BY <1>1, <1>4, <2>1 DEF Emptied, Idle
  <1>14. \A e \in E.cat.entries :
           e.file \in news \/ \E o \in index.loaded.entries : GoesOnBeing(e, o)
    <2>. SUFFICES ASSUME NEW e \in E.cat.entries, NEW o \in index.loaded.entries,
                         SameDocument(e, o), SameText(o.id)
                  PROVE  GoesOnBeing(e, o)
      BY <1>10
    <2>1. IsWhole(o) => IsWhole(e)'  BY WholeKept
    <2>2. Progress(o) => Progress(e)'  BY <1>1, <1>4, ProgressKept
    <2>. QED  BY <2>1, <2>2 DEF GoesOnBeing, SameDocument
  <1>15. \A id \in Nat : \A f : StandsFor(id, f) => StandsFor(id, f)'
    <2>. SUFFICES ASSUME NEW id \in Nat, NEW f, StandsFor(id, f)
                  PROVE  id < E.cat.nextId /\ \A e \in E.cat.entries : e.id = id => e.file = f
      BY <1>4 DEF StandsFor
    <2>1. id < index.loaded.nextId  BY DEF StandsFor
    <2>2. id < E.cat.nextId  BY <1>9, <2>1 DEF Continues
    <2>3. ASSUME NEW e \in E.cat.entries, e.id = id PROVE e.file = f
      <3>1. ~(e.id >= index.loaded.nextId)  BY <1>9, <2>1, <2>3
      <3>2. PICK o \in index.loaded.entries : SameDocument(e, o)  BY <1>10, <3>1
      <3>. QED  BY <2>3, <3>2 DEF StandsFor, SameDocument
    <2>. QED  BY <2>2, <2>3
  <1>16. StillGood(news)
    <2>1. taker' \in {Idle} \cup Reader /\ IsFolder(folder')  BY <1>1, <1>2, <1>3, <1>4 DEF TypeOK
    <2>. QED  BY <1>4, <1>5, <1>6, <1>7, <1>8, <1>11, <1>12, <1>13, <1>14, <2>1 DEF StillGood
  <1>. QED  BY <1>4, <1>15, <1>16
-----------------------------------------------------------------------------
(* The commands.                                                            *)

LEMMA SearchKept ==
  ASSUME IInv, \A id \in Nat : \A f : StandsFor(id, f) => StandsFor(id, f)',
         index'.generation = index.generation, listed' \subseteq listed,
         search' \in {Idle} \cup Searching,
         search' # Idle =>
           /\ search # Idle /\ search'.gen = search.gen /\ search'.entries = search.entries
           /\ search'.at = "listing" => search'.due \in DOMAIN search'.entries
  PROVE  SearchSound'
  <1>0. ASSUME NEW id \in Nat, NEW f, StandsFor(id, f)
        PROVE  /\ id < index'.loaded.nextId
               /\ \A e \in index'.loaded.entries : e.id = id => e.file = f
    <2>1. StandsFor(id, f)'  BY <1>0
    <2>. QED  BY <2>1 DEF StandsFor
  <1>1. ASSUME search' # Idle
        PROVE  /\ search'.gen <= index'.generation
               /\ search'.at = "listing" => search'.due \in DOMAIN search'.entries
               /\ search'.gen = index'.generation =>
                    \A i \in DOMAIN search'.entries :
                      /\ search'.entries[i].id < index'.loaded.nextId
                      /\ \A e \in index'.loaded.entries :
                           e.id = search'.entries[i].id => e.file = search'.entries[i].file
    <2>1. search # Idle /\ search \in Searching  BY <1>1 DEF IInv, TypeOK
    <2>2. search.gen <= index.generation  BY <2>1 DEF IInv, SearchSound
    <2>3. ASSUME search.gen = index.generation, NEW i \in DOMAIN search.entries
          PROVE  /\ search.entries[i].id < index'.loaded.nextId
                 /\ \A e \in index'.loaded.entries :
                      e.id = search.entries[i].id => e.file = search.entries[i].file
      <3>1. search.entries[i] \in Entry  BY <2>1, <2>3 DEF Searching
      <3>2. search.entries[i].id \in Nat  BY <3>1 DEF Entry
      <3>3. StandsFor(search.entries[i].id, search.entries[i].file)
        BY <2>1, <2>3 DEF IInv, SearchSound
      <3>. QED  BY <1>0, <3>2, <3>3
    <2>. QED  BY <1>1, <2>1, <2>2, <2>3
  <1>2. ASSUME NEW r \in listed', r.gen = index'.generation
        PROVE  /\ r.id < index'.loaded.nextId
               /\ \A e \in index'.loaded.entries : e.id = r.id => e.file = r.of
    <2>1. r \in listed /\ r \in Result  BY <1>2 DEF IInv, TypeOK
    <2>2. r.id \in Nat  BY <2>1 DEF Result
    <2>3. StandsFor(r.id, r.of)  BY <1>2, <2>1 DEF IInv, SearchSound
    <2>. QED  BY <1>0, <2>2, <2>3
  <1>. QED  BY <1>1, <1>2 DEF SearchSound, StandsFor, Idle

LEMMA SameStands ==
  ASSUME index' = index
  PROVE  \A id \in Nat : \A f : StandsFor(id, f) => StandsFor(id, f)'
  BY DEF StandsFor

\* Nothing of the search changes.
LEMMA SearchSame ==
  ASSUME IInv, \A id \in Nat : \A f : StandsFor(id, f) => StandsFor(id, f)',
         index'.generation = index.generation, UNCHANGED <<search, listed>>
  PROVE  SearchSound'
  <1>1. search' \in {Idle} \cup Searching  BY DEF IInv, TypeOK
  <1>2. search' # Idle => (search'.at = "listing" => search'.due \in DOMAIN search'.entries)
    BY DEF IInv, SearchSound
  <1>. QED  BY <1>1, <1>2, SearchKept

LEMMA CallsSame ==
  ASSUME IInv, UNCHANGED <<texts, calls>>
  PROVE  calls' \subseteq Seq(Steps) \ {<<>>} /\ CallsSound'
  <1>1. calls' \subseteq Seq(Steps) \ {<<>>}  BY DEF IInv, TypeOK
  <1>2. CallsSound'  BY DEF IInv, CallsSound, Pending, PutOf
  <1>. QED  BY <1>1, <1>2

LEMMA GoesFacts ==
  ASSUME IInv, NEW todo \in calls, Goes(todo), texts' = texts
  PROVE  /\ calls' \subseteq Seq(Steps) \ {<<>>} /\ CallsSound'
         /\ Head(todo) \in Steps /\ Pending(Head(todo), calls)
         /\ \A s : s # Head(todo) /\ Pending(s, calls) => Pending(s, calls')
  <1>1. calls \subseteq Seq(Steps) \ {<<>>}  BY DEF IInv, TypeOK
  <1>2. todo \in Seq(Steps) /\ todo # <<>>  BY <1>1
  <1>3. /\ Tail(todo) \in Seq(Steps) /\ Head(todo) \in Steps
        /\ 1 \in DOMAIN todo /\ Head(todo) = todo[1]
        /\ \A i \in DOMAIN Tail(todo) : \E j \in DOMAIN todo : todo[j] = Tail(todo)[i]
    BY <1>2, TailFacts
  <1>4. calls' = GoesOnWith(calls, todo, Tail(todo))  BY DEF Goes, GoesOnWith
  <1>5. calls' \subseteq Seq(Steps) \ {<<>>}  BY <1>1, <1>3, <1>4, GoesOnType
  <1>6. \A s : s # Head(todo) /\ Pending(s, calls) => Pending(s, calls')
    <2>1. \A i \in DOMAIN Tail(todo) : \E j \in DOMAIN Tail(todo) : Tail(todo)[j] = Tail(todo)[i]
      OBVIOUS
    <2>. QED  BY <1>1, <1>3, <1>4, <2>1, GoesOnKeeps
  <1>7. ASSUME NEW s, Pending(s, calls') PROVE Pending(s, calls)
    <2>r. PICK rest : rest = Tail(todo)  OBVIOUS
    <2>0. Pending(s, GoesOnWith(calls, todo, rest))  BY <1>4, <1>7, <2>r
    <2>1. Pending(s, calls) \/ \E j \in DOMAIN rest : rest[j] = s
      BY <2>0, GoesOnIsOf
    <2>2. ASSUME NEW j \in DOMAIN rest, rest[j] = s PROVE Pending(s, calls)
      BY <1>3, <2>r, <2>2 DEF Pending
    <2>. QED  BY <2>1, <2>2
  <1>8. CallsSound'
    <2>. SUFFICES ASSUME NEW f \in Files, NEW v \in Nat, Pending(PutOf(f, v), calls')
                  PROVE  v \in 1..Len(texts[f])
      BY DEF CallsSound, PutOf
    <2>. QED  BY <1>7 DEF IInv, CallsSound
  <1>9. Pending(Head(todo), calls)  BY <1>3, PendingIn
  <1>. QED  BY <1>3, <1>5, <1>6, <1>8, <1>9

LEMMA ConsidersSound ==
  ASSUME IInv, NEW todo \in calls, Considers(todo)
  PROVE  IInv'
  <1>. DEFINE f == Head(todo).file
              first == Considered(f)
              rest == first \o Tail(todo)
  <1>1. /\ Head(todo).op = "look"
        /\ calls' = GoesOnWith(calls, todo, rest)
        /\ cutShort' = IF HasEdits(f) THEN cutShort \cup {f} ELSE cutShort
        /\ UNCHANGED <<userVars, stateVars, taker, search, nextKey, faults, torn>>
    BY DEF Considers, GoesOnWith
  <1>2. /\ texts' = texts /\ index' = index /\ queue' = queue /\ reconsider' = reconsider
        /\ listed' = listed /\ search' = search /\ faults' = faults
    BY <1>1 DEF userVars, stateVars
  <1>3. calls \subseteq Seq(Steps) \ {<<>>} /\ TypeOK  BY DEF IInv, TypeOK
  <1>4. todo \in Seq(Steps) /\ todo # <<>>  BY <1>3
  <1>5. /\ Tail(todo) \in Seq(Steps) /\ Head(todo) \in Steps
        /\ \A i \in DOMAIN Tail(todo) : \E j \in DOMAIN todo : todo[j] = Tail(todo)[i]
    BY <1>4, TailFacts
  <1>6. Head(todo) = Look(f) /\ f \in Files  BY <1>1, <1>5, StepKinds
  <1>. HIDE DEF f
  <1>7. /\ first \in Seq(Steps)
        /\ MustBeClean(f) => \E i \in DOMAIN first : first[i] = Forget(f)
        /\ Allowed(f) /\ ~tab[f].unsaved => \E i \in DOMAIN first : first[i] = PutOf(f, tab[f].version)
        /\ \A i \in DOMAIN first : first[i] = Forget(f) \/
             (tab[f].open /\ ~tab[f].unsaved /\ first[i] = PutOf(f, tab[f].version))
    <2>k. Kinds = {"sensitive", "unrecorded"}  BY DEF Kinds
    <2>1. CASE ~tab[f].open
      <3>1. first = <<>>  BY <2>1 DEF Considered
      <3>. QED  BY <2>1, <3>1, NoStep DEF MustBeClean, Allowed
    <2>2. CASE tab[f].open /\ (f \in barred["sensitive"] \/ (enabled /\ f \in barred["unrecorded"]))
      <3>1. first = <<Forget(f)>>  BY <2>2 DEF Considered
      <3>2. ~Allowed(f)  BY <2>2, <2>k DEF Allowed, Barred
      <3>. QED  BY <1>6, <3>1, <3>2, OneStep, StepsAre
    <2>3. CASE /\ tab[f].open /\ f \notin barred["sensitive"]
               /\ ~enabled \/ (f \notin barred["unrecorded"] /\ tab[f].unsaved)
      <3>1. first = <<>>  BY <2>3 DEF Considered
      <3>. QED  BY <2>3, <3>1, NoStep DEF MustBeClean, Allowed
    <2>4. CASE /\ tab[f].open /\ f \notin barred["sensitive"] /\ enabled
               /\ f \notin barred["unrecorded"] /\ ~tab[f].unsaved
      <3>1. first = <<PutOf(f, tab[f].version)>>  BY <2>4 DEF Considered, PutOf
      <3>2. PutOf(f, tab[f].version) \in Steps  BY <1>6, <2>4, StepsAre, TabFacts
      <3>3. ~MustBeClean(f)  BY <2>4 DEF MustBeClean
      <3>. QED  BY <2>4, <3>1, <3>2, <3>3, OneStep
    <2>. QED  BY <2>1, <2>2, <2>3, <2>4
  <1>. HIDE DEF first
  <1>r. rest = first \o Tail(todo)  OBVIOUS
  <1>. HIDE DEF rest
  <1>8. /\ rest \in Seq(Steps)
        /\ \A i \in DOMAIN first : \E j \in DOMAIN rest : rest[j] = first[i]
        /\ \A i \in DOMAIN Tail(todo) : \E j \in DOMAIN rest : rest[j] = Tail(todo)[i]
        /\ \A j \in DOMAIN rest : \/ \E i \in DOMAIN first : rest[j] = first[i]
                                  \/ \E i \in DOMAIN Tail(todo) : rest[j] = Tail(todo)[i]
    <2>1. first \in Seq(Steps) /\ Tail(todo) \in Seq(Steps)  BY <1>5, <1>7
    <2>2. PICK one : one = first  OBVIOUS
    <2>3. PICK two : two = Tail(todo)  OBVIOUS
    <2>4. one \in Seq(Steps) /\ two \in Seq(Steps)  BY <2>1, <2>2, <2>3
    <2>5. PICK both : both = Joined(one, two)  OBVIOUS
    <2>6. /\ both \in Seq(Steps)
          /\ \A i \in DOMAIN one : \E j \in DOMAIN both : both[j] = one[i]
          /\ \A i \in DOMAIN two : \E j \in DOMAIN both : both[j] = two[i]
          /\ \A j \in DOMAIN both : \/ \E i \in DOMAIN one : both[j] = one[i]
                                    \/ \E i \in DOMAIN two : both[j] = two[i]
      BY <2>4, <2>5, ConcatFacts
    <2>7. rest = both  BY <1>r, <2>2, <2>3, <2>5 DEF Joined
    <2>. QED  BY <2>2, <2>3, <2>6, <2>7
  <1>9. calls' \subseteq Seq(Steps) \ {<<>>}  BY <1>1, <1>3, <1>8, GoesOnType
  <1>10. \A s : s # Head(todo) /\ Pending(s, calls) => Pending(s, calls')
    BY <1>1, <1>3, <1>8, GoesOnKeeps
  <1>11. \A i \in DOMAIN first : Pending(first[i], calls')
    <2>. SUFFICES ASSUME NEW i \in DOMAIN first PROVE Pending(first[i], calls')  OBVIOUS
    <2>1. PICK j \in DOMAIN rest : rest[j] = first[i]  BY <1>8
    <2>2. rest # <<>>  BY <2>1, <1>8
    <2>3. rest \in calls'  BY <1>1, <2>2 DEF GoesOnWith
    <2>. QED  BY <2>1, <2>3, PendingIn
  <1>12. /\ MustBeClean(f) => Pending(Forget(f), calls')
         /\ Allowed(f) /\ f \notin cutShort' => Pending(PutOf(f, tab[f].version), calls')
    BY <1>1, <1>7, <1>11 DEF HasEdits
  <1>13. CallsSound'
    <2>. SUFFICES ASSUME NEW g \in Files, NEW v \in Nat, Pending(PutOf(g, v), calls')
                  PROVE  v \in 1..Len(texts[g])
      BY <1>2 DEF CallsSound, PutOf
    <2>1. Pending(PutOf(g, v), calls) \/ \E j \in DOMAIN rest : rest[j] = PutOf(g, v)
      BY <1>1, GoesOnIsOf
    <2>2. CASE Pending(PutOf(g, v), calls)  BY <2>2 DEF IInv, CallsSound
    <2>3. ASSUME NEW i \in DOMAIN first, first[i] = PutOf(g, v) PROVE v \in 1..Len(texts[g])
      <3>1. first[i].op = "put" /\ first[i].file = g /\ first[i].version = v  BY <2>3, StepsDiffer
      <3>2. tab[f].open /\ first[i] = PutOf(f, tab[f].version)  BY <1>7, <3>1, StepsDiffer
      <3>3. g = f /\ v = tab[f].version  BY <3>1, <3>2, StepsDiffer
      <3>. QED  BY <1>6, <3>2, <3>3, TabFacts
    <2>4. ASSUME NEW i \in DOMAIN Tail(todo), Tail(todo)[i] = PutOf(g, v)
          PROVE  v \in 1..Len(texts[g])
      <3>1. PICK j \in DOMAIN todo : todo[j] = PutOf(g, v)  BY <1>5, <2>4
      <3>2. Pending(PutOf(g, v), calls)  BY <3>1, PendingIn
      <3>. QED  BY <3>2 DEF IInv, CallsSound
    <2>. QED  BY <1>8, <2>1, <2>2, <2>3, <2>4
  <1>14. StillGood({})
    <2>1. nextKey' \in Nat \ {0} /\ UNCHANGED <<userVars, torn, folder, index, taker, search, listed>>
      BY <1>1, <1>3 DEF TypeOK, stateVars
    <2>. QED  BY <2>1, StaysGood
  <1>15. SearchSound'  BY <1>2, SameStands, SearchSame
  <1>16. \A g \in Files : Look(g) = Head(todo) => g = f
    BY <1>6, StepsDiffer
  <1>17. /\ Head(todo) # Clear
         /\ \A g \in Files : Head(todo) # Forget(g) /\ \A v \in Nat : Head(todo) # PutOf(g, v)
    BY <1>1, StepsDiffer
  <1>18. \A g \in Files : Pending(Look(g), calls) =>
           \/ Pending(Look(g), calls')
           \/ /\ MustBeClean(g) => Pending(Forget(g), calls')
              /\ Allowed(g) /\ g \notin cutShort' => Pending(PutOf(g, tab[g].version), calls')
    BY <1>10, <1>12, <1>16
  <1>19. /\ Pending(Clear, calls) => Pending(Clear, calls')
         /\ \A g \in Files : Pending(Forget(g), calls) => Pending(Forget(g), calls')
         /\ \A g \in Files, v \in Nat : Pending(PutOf(g, v), calls) => Pending(PutOf(g, v), calls')
    BY <1>10, <1>17
  <1>20. /\ faults' \in Nat /\ queue' \in Seq(Files) /\ reconsider' \in BOOLEAN
         /\ listed' \subseteq Result /\ search' \in {Idle} \cup Searching
    BY <1>2, <1>3 DEF TypeOK
  <1>21. cutShort \subseteq cutShort' /\ cutShort' \subseteq cutShort \cup Files  BY <1>1, <1>6
  <1>. QED  BY <1>1, <1>2, <1>9, <1>13, <1>14, <1>15, <1>18, <1>19, <1>20, <1>21, IndexStep

\* A step of neither the commands nor the queue.
LEMMA QuietStep ==
  ASSUME IInv, StillGood({}), UNCHANGED <<userVars, torn, calls, queue, reconsider>>, faults' \in Nat,
         cutShort \subseteq cutShort', cutShort' \subseteq cutShort \cup Files, SearchSound', listed' \subseteq Result, search' \in {Idle} \cup Searching
  PROVE  IInv'
  <1>1. texts' = texts /\ calls' = calls /\ queue' = queue /\ reconsider' = reconsider  BY DEF userVars
  <1>2. calls' \subseteq Seq(Steps) \ {<<>>} /\ CallsSound'  BY <1>1, CallsSame
  <1>3. \A s : Pending(s, calls) => Pending(s, calls')  BY <1>1
  <1>4. queue' \in Seq(Files) /\ reconsider' \in BOOLEAN  BY <1>1 DEF IInv, TypeOK
  <1>5. /\ \A f \in Files : Pending(Look(f), calls) => Pending(Look(f), calls')
        /\ Pending(Clear, calls) => Pending(Clear, calls')
        /\ \A f \in Files : Pending(Forget(f), calls) => Pending(Forget(f), calls')
        /\ \A f \in Files, v \in Nat : Pending(PutOf(f, v), calls) => Pending(PutOf(f, v), calls')
    BY <1>3
  <1>. QED  BY <1>1, <1>2, <1>4, <1>5, IndexStep

LEMMA ReconsidersSound ==
  ASSUME IInv, Reconsiders
  PROVE  IInv'
  <1>1. PICK todo \in LookAtAll : calls' = IF todo = <<>> THEN calls ELSE calls \cup {todo}
    BY DEF Reconsiders
  <1>2. reconsider' = FALSE
          /\ UNCHANGED <<userVars, folder, index, queue, listed, taker, search, nextKey, faults, torn, cutShort>>
    BY DEF Reconsiders
  <1>3. TypeOK  BY DEF IInv
  <1>4. /\ todo \in Seq(Steps)
        /\ \A f \in Files : tab[f].open => \E i \in DOMAIN todo : todo[i] = Look(f)
        /\ \A i \in DOMAIN todo : todo[i].op = "look"
    BY LooksAtAll
  <1>5. calls' \subseteq Seq(Steps) \ {<<>>}  BY <1>1, <1>3, <1>4 DEF TypeOK
  <1>6. \A s : Pending(s, calls) => Pending(s, calls')
    BY <1>1, PendingMore
  <1>7. \A i \in DOMAIN todo : Pending(todo[i], calls')
    <2>. SUFFICES ASSUME NEW i \in DOMAIN todo PROVE Pending(todo[i], calls')  OBVIOUS
    <2>1. todo # <<>>  OBVIOUS
    <2>2. todo \in calls'  BY <1>1, <2>1
    <2>. QED  BY <2>2, PendingIn
  <1>8. CallsSound'
    <2>. SUFFICES ASSUME NEW f \in Files, NEW v \in Nat, Pending(PutOf(f, v), calls')
                  PROVE  v \in 1..Len(texts[f])
      BY <1>2 DEF CallsSound, PutOf, userVars
    <2>1. \A c \in calls' : c \in calls \/ c = todo  BY <1>1
    <2>2. \A i \in DOMAIN todo : todo[i] # PutOf(f, v)  BY <1>4, StepsDiffer
    <2>3. Pending(PutOf(f, v), calls)  BY <2>1, <2>2 DEF Pending
    <2>. QED  BY <2>3 DEF IInv, CallsSound
  <1>9. StillGood({})
    <2>1. nextKey' \in Nat \ {0} /\ UNCHANGED <<userVars, torn, folder, index, taker, search, listed>>
      BY <1>2, <1>3 DEF TypeOK
    <2>. QED  BY <2>1, StaysGood
  <1>10. SearchSound'
    <2>1. index' = index /\ UNCHANGED <<search, listed>>  BY <1>2
    <2>. QED  BY <2>1, SameStands, SearchSame
  <1>11. \A f \in Files : tab[f].open => Pending(Look(f), calls')  BY <1>4, <1>7
  <1>12. /\ \A f \in Files : Pending(Look(f), calls) => Pending(Look(f), calls')
         /\ Pending(Clear, calls) => Pending(Clear, calls')
         /\ \A f \in Files : Pending(Forget(f), calls) => Pending(Forget(f), calls')
         /\ \A f \in Files, v \in Nat : Pending(PutOf(f, v), calls) => Pending(PutOf(f, v), calls')
    BY <1>6
  <1>13. /\ faults' \in Nat /\ queue' \in Seq(Files) /\ reconsider' \in BOOLEAN /\ queue' = queue
         /\ listed' \subseteq Result /\ search' \in {Idle} \cup Searching
    BY <1>2, <1>3 DEF TypeOK
  <1>. QED  BY <1>2, <1>5, <1>8, <1>9, <1>10, <1>11, <1>12, <1>13, IndexStep

LEMMA WithoutFacts ==
  ASSUME NEW q \in Seq(Files), NEW f, NEW w, w = Without(q, f)
  PROVE  /\ w \in Seq(Files)
         /\ \A j \in DOMAIN q : q[j] = f \/ \E k \in DOMAIN w : w[k] = q[j]
  <1>1. CASE \E i \in DOMAIN q : q[i] = f
    <2>1. PICK i \in DOMAIN q : q[i] = f /\ w = RemoveAt(q, i)
      BY <1>1 DEF Without
    <2>2. i \in 1..Len(q) /\ Len(q) \in Nat  OBVIOUS
    <2>3. PICK a : a = SubSeq(q, 1, i - 1)  OBVIOUS
    <2>4. PICK b : b = SubSeq(q, i + 1, Len(q))  OBVIOUS
    <2>5. w = a \o b  BY <2>1, <2>3, <2>4 DEF RemoveAt
    <2>6. /\ a \in Seq(Files) /\ Len(a) = i - 1
          /\ \A k \in 1..i - 1 : a[k] = q[k]
      BY <2>2, <2>3
    <2>7. /\ b \in Seq(Files) /\ Len(b) = Len(q) - i
          /\ \A k \in 1..Len(q) - i : b[k] = q[i + k]
      BY <2>2, <2>4
    <2>8. /\ w \in Seq(Files) /\ Len(w) = Len(q) - 1
          /\ \A k \in 1..i - 1 : w[k] = q[k]
          /\ \A k \in i..Len(q) - 1 : w[k] = q[k + 1]
      BY <2>2, <2>5, <2>6, <2>7
    <2>9. ASSUME NEW j \in DOMAIN q, q[j] # f PROVE \E k \in DOMAIN w : w[k] = q[j]
      <3>1. CASE j < i
        <4>1. j \in DOMAIN w /\ w[j] = q[j]  BY <2>2, <2>8, <3>1
        <4>. QED  BY <4>1
      <3>2. CASE j > i
        <4>1. j - 1 \in DOMAIN w /\ w[j - 1] = q[j]  BY <2>2, <2>8, <3>2
        <4>. QED  BY <4>1
      <3>. QED  BY <2>1, <2>2, <2>9, <3>1, <3>2
    <2>. QED  BY <2>8, <2>9
  <1>2. CASE ~\E i \in DOMAIN q : q[i] = f  BY <1>2 DEF Without
  <1>. QED  BY <1>1, <1>2

LEMMA PutsSound ==
  ASSUME IInv, NEW todo \in calls, Puts(todo)
  PROVE  IInv'
  <1>. DEFINE f == Head(todo).file
              v == Head(todo).version
  <1>1. /\ Head(todo).op = "put" /\ index.looked /\ Goes(todo)
        /\ Does(Put(f, v)) /\ queue' = Append(Without(queue, f), f)
        /\ UNCHANGED <<userVars, reconsider, listed, taker, search, faults, torn, cutShort>>
    BY DEF Puts
  <1>2. TypeOK /\ texts' = texts /\ reconsider' = reconsider  BY <1>1 DEF IInv, userVars
  <1>3. /\ calls' \subseteq Seq(Steps) \ {<<>>} /\ CallsSound'
        /\ Head(todo) \in Steps /\ Pending(Head(todo), calls)
        /\ \A s : s # Head(todo) /\ Pending(s, calls) => Pending(s, calls')
    BY <1>1, <1>2, GoesFacts
  <1>4. Head(todo) = PutOf(f, v) /\ f \in Files /\ v \in Nat  BY <1>1, <1>3, StepKinds
  <1>. HIDE DEF f, v
  <1>5. v \in 1..Len(texts[f])  BY <1>3, <1>4 DEF IInv, CallsSound
  <1>6. PICK P : P = Put(f, v)  OBVIOUS
  <1>7. Ready  BY <1>1 DEF IInv, Ready
  <1>8. Final(P) /\ Continues(P, index.loaded, folder.docs, {f})  BY <1>4, <1>5, <1>6, <1>7, PutSound
  <1>9. Does(P) /\ UNCHANGED <<userVars, torn, taker>>  BY <1>1, <1>6
  <1>10. /\ StillGood({f}) /\ index'.generation = index.generation
         /\ \A id \in Nat : \A g : StandsFor(id, g) => StandsFor(id, g)'
    BY <1>1, <1>8, <1>9, DoesGood
  <1>11. SearchSound'  BY <1>1, <1>10, SearchSame
  <1>12. PICK w : w = Without(queue, f)  OBVIOUS
  <1>13. queue \in Seq(Files)  BY <1>2 DEF TypeOK
  <1>14. /\ w \in Seq(Files)
         /\ \A j \in DOMAIN queue : queue[j] = f \/ \E k \in DOMAIN w : w[k] = queue[j]
    BY <1>12, <1>13, WithoutFacts
  <1>15. /\ queue' \in Seq(Files) /\ queue'[Len(w) + 1] = f /\ Len(w) + 1 \in DOMAIN queue'
         /\ \A k \in DOMAIN w : k \in DOMAIN queue' /\ queue'[k] = w[k]
    <2>1. queue' = Append(w, f)  BY <1>1, <1>12
    <2>. QED  BY <1>4, <1>14, <2>1, AppendProperties
  <1>16. f \in Range(queue')  BY <1>15 DEF Range
  <1>17. \A g \in Range(queue) : g \in Range(queue')
    <2>. SUFFICES ASSUME NEW j \in DOMAIN queue PROVE queue[j] \in Range(queue')  BY DEF Range
    <2>1. CASE queue[j] = f  BY <1>16, <2>1
    <2>2. CASE queue[j] # f
      <3>1. PICK k \in DOMAIN w : w[k] = queue[j]  BY <1>14, <2>2
      <3>. QED  BY <1>15, <3>1 DEF Range
    <2>. QED  BY <2>1, <2>2
  <1>18. /\ \A g \in Files : Head(todo) # Look(g) /\ Head(todo) # Forget(g)
         /\ Head(todo) # Clear
    BY <1>1, StepsDiffer
  <1>19. /\ \A g \in Files : Pending(Look(g), calls) => Pending(Look(g), calls')
         /\ Pending(Clear, calls) => Pending(Clear, calls')
         /\ \A g \in Files : Pending(Forget(g), calls) => Pending(Forget(g), calls')
    BY <1>3, <1>18
  <1>20. \A g \in Files, x \in Nat : Pending(PutOf(g, x), calls) =>
           Pending(PutOf(g, x), calls') \/ (index'.looked /\ g \in Range(queue'))
    <2>. SUFFICES ASSUME NEW g \in Files, NEW x \in Nat, PutOf(g, x) = Head(todo)
                  PROVE  index'.looked /\ g \in Range(queue')
      BY <1>3
    <2>1. g = f  BY <1>4, StepsDiffer
    <2>. QED  BY <1>1, <1>10, <1>16, <2>1 DEF StillGood
  <1>21. /\ faults' \in Nat /\ reconsider' \in BOOLEAN
         /\ listed' \subseteq Result /\ search' \in {Idle} \cup Searching
    BY <1>1, <1>2 DEF TypeOK
  <1>. QED
    BY <1>1, <1>2, <1>3, <1>10, <1>11, <1>15, <1>16, <1>17, <1>19, <1>20, <1>21, IndexStep

\* The document of a file leaves the index; nobody may be about to write its text.
LEMMA ForgetsSound ==
  ASSUME IInv, NEW todo \in calls, Forgets(todo)
  PROVE  IInv'
  <1>. DEFINE f == Head(todo).file
              gone == EntriesOf(index.loaded, f)
  <1>1. /\ Head(todo).op = "forget" /\ index.looked /\ Goes(todo)
        /\ Does(Drop(gone))
        /\ UNCHANGED <<userVars, queue, reconsider, listed, taker, search, faults, torn, cutShort>>
    BY DEF Forgets
  <1>2. TypeOK /\ texts' = texts /\ reconsider' = reconsider /\ queue' = queue /\ taker' = taker
    BY <1>1 DEF IInv, userVars
  <1>3. /\ calls' \subseteq Seq(Steps) \ {<<>>} /\ CallsSound'
        /\ Head(todo) \in Steps
        /\ \A s : s # Head(todo) /\ Pending(s, calls) => Pending(s, calls')
    BY <1>1, <1>2, GoesFacts
  <1>4. Head(todo) = Forget(f) /\ f \in Files  BY <1>1, <1>3, StepKinds
  <1>. HIDE DEF f
  <1>g. gone \subseteq index.loaded.entries /\ gone = {e \in index.loaded.entries : e.file = f}
    BY DEF EntriesOf
  <1>. HIDE DEF gone
  <1>5. PICK D : D = Drop(gone)  OBVIOUS
  <1>6. Ready  BY <1>1 DEF IInv, Ready
  <1>7. IF gone = {} THEN D.dir = folder /\ D.cat = index.loaded /\ D.passed = {}
        ELSE Final(D) /\ Continues(D, index.loaded, folder.docs, {})
               /\ D.cat.entries = index.loaded.entries \ gone
    BY <1>5, <1>6, <1>g, DropSound
  <1>8. Does(D)  BY <1>1, <1>5
  <1>i. index = [loaded |-> index.loaded, looked |-> index.looked, generation |-> index.generation]
    BY <1>2 DEF TypeOK
  <1>9. /\ StillGood({}) /\ index'.generation = index.generation
        /\ \A id \in Nat : \A g : StandsFor(id, g) => StandsFor(id, g)'
        /\ index'.loaded.entries = index.loaded.entries \ gone
    <2>1. CASE gone = {}
      <3>1. folder' = folder /\ index' = [index EXCEPT !.loaded = index.loaded]
        BY <1>7, <1>8, <2>1 DEF Does
      <3>2. index' = index  BY <1>i, <3>1
      <3>3. nextKey' \in Nat \ {0}  BY <1>2, <1>8 DEF Does, TypeOK
      <3>4. StillGood({})  BY <1>1, <3>1, <3>2, <3>3, StaysGood
      <3>. QED  BY <2>1, <3>2, <3>4, SameStands
    <2>2. CASE gone # {}
      <3>1. UNCHANGED <<userVars, torn, taker>>  BY <1>1
      <3>. QED  BY <1>1, <1>7, <1>8, <2>2, <3>1, DoesGood
    <2>. QED  BY <2>1, <2>2
  <1>10. SearchSound'  BY <1>1, <1>9, SearchSame
  <1>11. \A e \in index'.loaded.entries : e.file # f  BY <1>9, <1>g
  <1>12. Clean(f)'
    <2>1. IndexSound' /\ TakerSound' /\ index'.looked  BY <1>1, <1>9 DEF StillGood
    <2>2. ASSUME NEW id \in DOMAIN folder'.docs, folder'.docs[id].key = folder'.key
          PROVE  folder'.docs[id].file # f
      <3>1. Loaded'
        <4>1. CASE ~Loaded'  BY <2>1, <2>2, <4>1 DEF IndexSound, Nothing
        <4>. QED  BY <4>1
      <3>2. PICK e \in index'.loaded.entries : e.id = id
        BY <2>1, <3>1 DEF IndexSound, IdsOf
      <3>3. folder'.docs[id].file = e.file
        BY <2>1, <2>2, <3>1, <3>2 DEF IndexSound, TextsSound
      <3>. QED  BY <1>11, <3>2, <3>3
    <2>3. ASSUME taker' # Idle, taker'.gen = index'.generation, taker'.entry.file = f,
                 NEW e \in index'.loaded.entries, e.id = taker'.entry.id
          PROVE  FALSE
      <3>1. TakerOf(e)'  BY <2>1, <2>3 DEF TakerSound, Idle
      <3>2. e.file = taker'.entry.file  BY <3>1 DEF TakerOf
      <3>. QED  BY <1>11, <2>3, <3>2
    <2>. QED  BY <2>2, <2>3 DEF Clean, IdsOf, Idle
  <1>13. /\ \A g \in Files : Head(todo) # Look(g) /\ \A x \in Nat : Head(todo) # PutOf(g, x)
         /\ Head(todo) # Clear
    BY <1>1, StepsDiffer
  <1>14. /\ \A g \in Files : Pending(Look(g), calls) => Pending(Look(g), calls')
         /\ Pending(Clear, calls) => Pending(Clear, calls')
         /\ \A g \in Files, x \in Nat : Pending(PutOf(g, x), calls) => Pending(PutOf(g, x), calls')
    BY <1>3, <1>13
  <1>15. \A g \in Files : Pending(Forget(g), calls) => Pending(Forget(g), calls') \/ Clean(g)'
    <2>. SUFFICES ASSUME NEW g \in Files, Forget(g) = Head(todo) PROVE Clean(g)'
      BY <1>3
    <2>1. g = f  BY <1>4, StepsDiffer
    <2>. QED  BY <1>12, <2>1
  <1>16. /\ faults' \in Nat /\ reconsider' \in BOOLEAN /\ queue' \in Seq(Files)
         /\ listed' \subseteq Result /\ search' \in {Idle} \cup Searching
    BY <1>1, <1>2 DEF TypeOK
  <1>. QED  BY <1>1, <1>2, <1>3, <1>9, <1>10, <1>14, <1>15, <1>16, IndexStep

\* The index is deleted.
LEMMA WipesSound ==
  ASSUME IInv, Wipes, UNCHANGED <<userVars, torn, cutShort, nextKey, faults>>,
         taker' \in {taker, Idle}, search' \in {search, Idle}, reconsider' \in BOOLEAN,
         reconsider => reconsider' \/ index'.loaded.entries = {},
         calls' \subseteq Seq(Steps) \ {<<>>}, CallsSound',
         \A s : s # Clear /\ Pending(s, calls) => Pending(s, calls')
  PROVE  IInv'
  <1>1. /\ folder' = Nothing /\ queue' = <<>> /\ listed' = {}
        /\ index' = [loaded |-> NoIndex, looked |-> TRUE, generation |-> index.generation + 1]
    BY DEF Wipes
  <1>2. TypeOK /\ texts' = texts /\ tab' = tab /\ commands' = commands /\ torn' = torn
          /\ enabled' = enabled /\ nextKey' = nextKey /\ faults' = faults
    BY DEF IInv, userVars
  <1>3. index.generation \in Nat /\ index'.generation = index.generation + 1
          /\ index'.looked /\ index'.loaded = NoIndex
    BY <1>1, <1>2 DEF TypeOK
  <1>4. /\ NoIndex \in Catalog /\ NoIndex.entries = {} /\ NoIndex.key = 0 /\ NoIndex.nextId = 0
    BY NoIndexFacts
  <1>5. /\ Nothing = [key |-> 0, catalog |-> NoIndex, docs |-> <<>>]
        /\ Nothing.key = 0 /\ Nothing.catalog = NoIndex /\ Nothing.docs = <<>>
    BY DEF Nothing
  <1>6. IsFolder(Nothing) /\ FolderSound(Nothing, texts)
    BY <1>4, <1>5, EmptySound
  <1>d. DOMAIN folder'.docs = {}  BY <1>1, <1>5
  <1>7. IndexSound'
    <2>1. CatalogSound(NoIndex, texts')  BY <1>4 DEF CatalogSound
    <2>2. ~Loaded'  BY <1>3, <1>4 DEF Loaded
    <2>. QED  BY <1>1, <1>3, <1>4, <1>5, <2>1, <2>2 DEF IndexSound
  <1>8. CountedUnlessTorn'
    BY <1>1, <1>3, <1>4, <1>5 DEF CountedUnlessTorn, Counted
  <1>9. taker' # Idle => taker' = taker /\ taker # Idle /\ taker.gen \in Nat
                           /\ taker.gen <= index.generation
    BY <1>2 DEF IInv, TakerSound, TypeOK, Reader
  <1>10. taker' # Idle => taker'.gen # index'.generation  BY <1>3, <1>9
  <1>11. TakerSound'
    <2>. SUFFICES ASSUME taker' # Idle PROVE TakerSound'  BY DEF TakerSound, Idle
    <2>1. taker' = taker /\ taker # Idle  BY <1>9
    <2>2. taker'.gen <= index'.generation  BY <1>3, <1>9, <2>1
    <2>. QED  BY <1>2, <1>10, <2>1, <2>2 DEF IInv, TakerSound
  <1>12. Emptied'  BY <1>10, <1>d DEF Emptied, Idle
  <1>13. \A f \in Files : Clean(f)'  BY <1>12 DEF Emptied, Clean
  <1>14. SearchSound'
    <2>1. ASSUME search' # Idle
          PROVE  /\ search'.gen <= index'.generation /\ search'.gen # index'.generation
                 /\ search'.at = "listing" => search'.due \in DOMAIN search'.entries
      <3>1. search' = search /\ search \in Searching  BY <1>2, <2>1 DEF TypeOK
      <3>2. search.gen \in Nat  BY <3>1 DEF Searching
      <3>3. search.gen <= index.generation  BY <2>1, <3>1 DEF IInv, SearchSound
      <3>. QED  BY <1>3, <2>1, <3>1, <3>2, <3>3 DEF IInv, SearchSound
    <2>. QED  BY <1>1, <2>1 DEF SearchSound, Idle
  <1>15. StillGood({})
    <2>1. taker' \in {Idle} \cup Reader /\ nextKey' \in Nat \ {0}  BY <1>2 DEF TypeOK
    <2>2. index' \in [loaded : Catalog, looked : BOOLEAN, generation : Nat]
      BY <1>1, <1>3, <1>4
    <2>. QED
      BY <1>1, <1>3, <1>4, <1>6, <1>7, <1>8, <1>11, <1>12, <1>13, <2>1, <2>2 DEF StillGood
  <1>16. /\ faults' \in Nat /\ queue' \in Seq(Files) /\ listed' \subseteq Result
         /\ search' \in {Idle} \cup Searching
    BY <1>1, <1>2 DEF TypeOK
  <1>17. index'.loaded.entries = {}  BY <1>3, <1>4
  <1>18. /\ \A f \in Files : Look(f) # Clear /\ Forget(f) # Clear /\ \A v \in Nat : PutOf(f, v) # Clear
    BY StepsDiffer
  <1>19. /\ \A f \in Files : Pending(Look(f), calls) => Pending(Look(f), calls')
         /\ \A f \in Files : Pending(Forget(f), calls) => Pending(Forget(f), calls')
         /\ \A f \in Files, v \in Nat : Pending(PutOf(f, v), calls) => Pending(PutOf(f, v), calls')
    BY <1>18
  <1>20. cutShort' = cutShort  OBVIOUS
  <1>. QED  BY <1>12, <1>14, <1>15, <1>16, <1>17, <1>19, <1>20, IndexStep

LEMMA ClearsAllSound ==
  ASSUME IInv, NEW todo \in calls, ClearsAll(todo)
  PROVE  IInv'
  <1>1. /\ Head(todo).op = "clear" /\ Wipes /\ Goes(todo)
        /\ UNCHANGED <<userVars, reconsider, taker, search, nextKey, faults, torn, cutShort>>
    BY DEF ClearsAll
  <1>2. texts' = texts  BY <1>1 DEF userVars
  <1>3. /\ calls' \subseteq Seq(Steps) \ {<<>>} /\ CallsSound'
        /\ Head(todo) \in Steps
        /\ \A s : s # Head(todo) /\ Pending(s, calls) => Pending(s, calls')
    BY <1>1, <1>2, GoesFacts
  <1>4. Head(todo) = Clear  BY <1>1, <1>3, StepKinds
  <1>5. reconsider' = reconsider /\ reconsider \in BOOLEAN  BY <1>1 DEF IInv, TypeOK
  <1>. QED  BY <1>1, <1>3, <1>4, <1>5, WipesSound

\* What a wiping step of the taker or of a search leaves the commands.
LEMMA CallsKept ==
  ASSUME IInv, UNCHANGED <<texts, calls>>
  PROVE  /\ calls' \subseteq Seq(Steps) \ {<<>>} /\ CallsSound'
         /\ \A s : Pending(s, calls) => Pending(s, calls')
  <1>1. calls' = calls  OBVIOUS
  <1>. QED  BY <1>1, CallsSame

LEMMA LooksSound ==
  ASSUME IInv, Looks
  PROVE  IInv'
  <1>1. ~index.looked /\ UNCHANGED <<userVars, reconsider, taker, calls, search, nextKey, faults, torn, cutShort>>
    BY DEF Looks
  <1>2. TypeOK /\ texts' = texts /\ reconsider' = reconsider /\ taker' = taker /\ search' = search
          /\ torn' = torn /\ nextKey' = nextKey /\ faults' = faults /\ enabled' = enabled
    BY <1>1 DEF IInv, userVars
  <1>3. index.loaded = NoIndex /\ taker = Idle /\ search = Idle /\ listed = {}
    BY <1>1 DEF IInv, IndexSound
  <1>4. IsFolder(folder) /\ FolderSound(folder, texts) /\ (~torn => Counted(folder.catalog, folder.docs))
    BY <1>2 DEF IInv, TypeOK, CountedUnlessTorn
  <1>n. /\ NoIndex \in Catalog /\ NoIndex.entries = {} /\ NoIndex.key = 0 /\ NoIndex.nextId = 0
    BY NoIndexFacts
  <1>c. /\ calls' \subseteq Seq(Steps) \ {<<>>} /\ CallsSound'
        /\ \A s : Pending(s, calls) => Pending(s, calls')
    BY <1>1, <1>2, CallsKept
  <1>5. CASE Wipes
    <2>1. reconsider \in BOOLEAN  BY <1>2 DEF TypeOK
    <2>. QED  BY <1>1, <1>2, <1>5, <1>c, <2>1, WipesSound
  <1>6. ASSUME ~Wipes PROVE IInv'
    <2>1. PICK cat \in Catalog :
            /\ index' = [loaded |-> cat, looked |-> TRUE, generation |-> index.generation]
            /\ IsFolder(folder') /\ folder'.key = folder.key /\ folder'.catalog = folder.catalog
            /\ \A id \in DOMAIN folder'.docs : id \in DOMAIN folder.docs /\ folder'.docs[id] = folder.docs[id]
            /\ queue' = queue /\ listed' = listed
            /\ cat.key = folder.key
            /\ folder.catalog.entries = cat.entries
            /\ CatalogSound(cat, texts) /\ (cat.key # 0 => TextsSound(cat, folder'.docs, folder.key, texts))
            /\ IF cat.key # 0 THEN DOMAIN folder'.docs \subseteq IdsOf(cat)
               ELSE folder' = Nothing /\ cat = NoIndex
            /\ (~torn => Counted(cat, folder'.docs))
      <3>i. index = [loaded |-> index.loaded, looked |-> index.looked, generation |-> index.generation]
        BY <1>2 DEF TypeOK
      <3>1. CASE folder.key = 0 /\ folder = Nothing
        <4>1. index' = [index EXCEPT !.looked = TRUE] /\ UNCHANGED <<folder, queue, listed>>
          BY <3>1 DEF Looks
        <4>2. index' = [loaded |-> NoIndex, looked |-> TRUE, generation |-> index.generation]
          BY <1>3, <3>i, <4>1
        <4>3. folder.key = 0 /\ folder.catalog = NoIndex /\ DOMAIN folder.docs = {}
          BY <3>1 DEF Nothing
        <4>4. CatalogSound(NoIndex, texts) /\ Counted(NoIndex, folder.docs)
          BY <1>n DEF CatalogSound, Counted
        <4>. QED  BY <1>n, <1>4, <3>1, <4>1, <4>2, <4>3, <4>4
      <3>2. CASE folder.key # 0
        <4>1. Readable  BY <1>6, <3>2 DEF Looks
        <4>. DEFINE c == IF folder.catalog.key = 0 THEN [NoIndex EXCEPT !.key = folder.key]
                         ELSE folder.catalog
                    named == {e.id : e \in c.entries}
        <4>2. /\ index' = [index EXCEPT !.looked = TRUE, !.loaded = c]
              /\ folder' = RemoveFiles(folder, DOMAIN folder.docs \ named)
              /\ UNCHANGED <<queue, listed>>
          BY <1>6, <3>2, <4>1 DEF Looks
        <4>k. folder.key \in Nat /\ folder.catalog \in Catalog  BY <1>4 DEF IsFolder
        <4>3. /\ c \in Catalog /\ c.key = folder.key /\ c.entries = folder.catalog.entries
              /\ CatalogSound(c, texts)
          <5>1. CASE folder.catalog.key = 0
            <6>1. folder.catalog.entries = {}  BY <1>4, <5>1 DEF FolderSound
            <6>2. /\ c = [NoIndex EXCEPT !.key = folder.key]  BY <5>1
            <6>3. c \in Catalog /\ c.key = folder.key /\ c.entries = {}
              BY <4>k, <6>2, NoIndexFacts
            <6>. QED  BY <6>1, <6>3 DEF CatalogSound
          <5>2. CASE folder.catalog.key # 0
            <6>1. c = folder.catalog /\ folder.catalog.key = folder.key
              BY <4>1, <5>2 DEF Readable
            <6>. QED  BY <1>4, <4>k, <6>1 DEF FolderSound
          <5>. QED  BY <5>1, <5>2
        <4>. HIDE DEF c
        <4>4. named = IdsOf(c)  BY DEF IdsOf
        <4>. HIDE DEF named
        <4>5. /\ IsFolder(folder') /\ folder'.key = folder.key /\ folder'.catalog = folder.catalog
              /\ DOMAIN folder'.docs = DOMAIN folder.docs \ (DOMAIN folder.docs \ named)
              /\ \A id \in DOMAIN folder.docs \ (DOMAIN folder.docs \ named) :
                   folder'.docs[id] = folder.docs[id]
          BY <1>4, <4>2, RemoveFilesFacts
        <4>6. index' = [loaded |-> c, looked |-> TRUE, generation |-> index.generation]
          BY <3>i, <4>2
        <4>7. TextsSound(c, folder.docs, folder.key, texts)
          <5>1. CASE folder.catalog.key = 0
            <6>1. c.entries = {}  BY <1>4, <4>3, <5>1 DEF FolderSound
            <6>. QED  BY <6>1 DEF TextsSound
          <5>2. CASE folder.catalog.key # 0
            <6>1. folder.catalog.key = folder.key  BY <4>1, <5>2 DEF Readable
            <6>2. TextsSound(folder.catalog, folder.docs, folder.key, texts)
              BY <1>4, <3>2, <6>1 DEF FolderSound
            <6>. QED  BY <4>3, <6>2 DEF TextsSound
          <5>. QED  BY <5>1, <5>2
        <4>8. TextsSound(c, folder'.docs, folder.key, texts)  BY <4>5, <4>7 DEF TextsSound
        <4>9. ASSUME ~torn PROVE Counted(c, folder'.docs)
          BY <1>4, <4>3, <4>4, <4>5, <4>9 DEF Counted, IdsOf
        <4>10. \A id \in DOMAIN folder'.docs : id \in DOMAIN folder.docs /\ folder'.docs[id] = folder.docs[id]
          BY <4>5
        <4>. QED  BY <3>2, <4>2, <4>3, <4>4, <4>5, <4>6, <4>8, <4>9, <4>10
      <3>3. CASE folder.key = 0 /\ folder # Nothing
        BY <1>6, <3>3 DEF Looks
      <3>. QED  BY <3>1, <3>2, <3>3
    <2>2. index'.looked /\ index'.loaded = cat /\ index'.generation = index.generation
            /\ index' \in [loaded : Catalog, looked : BOOLEAN, generation : Nat]
      <3>1. index.generation \in Nat  BY <1>2 DEF TypeOK
      <3>. QED  BY <2>1, <3>1
    <2>3. IndexSound'  BY <1>2, <2>1, <2>2 DEF IndexSound, Loaded
    <2>4. CountedUnlessTorn'  BY <1>2, <2>1, <2>2 DEF CountedUnlessTorn, Counted
    <2>5. FolderSound(folder', texts)  BY <1>4, <2>1 DEF FolderSound, TextsSound
    <2>6. TakerSound' /\ taker' = Idle  BY <1>2, <1>3 DEF TakerSound, Idle
    <2>7. \A f \in Files : Clean(f) => Clean(f)'  BY <2>1, <2>6 DEF Clean, Idle
    <2>8. Emptied => Emptied'
      <3>1. DOMAIN folder.docs = {} => DOMAIN folder'.docs = {}  BY <2>1
      <3>. QED  BY <2>6, <3>1 DEF Emptied, Idle
    <2>9. StillGood({})
      <3>1. nextKey' \in Nat \ {0}  BY <1>2 DEF TypeOK
      <3>. QED  BY <1>1, <2>1, <2>2, <2>3, <2>4, <2>5, <2>6, <2>7, <2>8, <3>1 DEF StillGood
    <2>10. SearchSound'  BY <1>2, <1>3, <2>1 DEF SearchSound, Idle
    <2>11. UNCHANGED <<userVars, torn, cutShort, calls, queue, reconsider>>  BY <1>1, <2>1
    <2>12. faults' \in Nat /\ listed' \subseteq Result /\ search' \in {Idle} \cup Searching
      BY <1>2, <2>1 DEF TypeOK
    <2>. QED  BY <2>9, <2>10, <2>11, <2>12, QuietStep
  <1>. QED  BY <1>5, <1>6
-----------------------------------------------------------------------------
(* The thread that takes the texts.                                         *)

LEMMA TakerStep ==
  ASSUME IInv, UNCHANGED <<userVars, torn, folder, index, search, listed, nextKey>>,
         taker' \in {Idle} \cup Reader, TakerSound', taker' # Idle => index.looked,
         \A f \in Files : MustBeClean(f) /\ Clean(f) => Clean(f)',
         ~enabled /\ Emptied => Emptied',
         \A e \in index.loaded.entries : GoesOnBeing(e, e)
  PROVE  StillGood({}) /\ SearchSound'
  <1>1. /\ texts' = texts /\ torn' = torn /\ folder' = folder /\ index' = index
        /\ search' = search /\ listed' = listed /\ nextKey' = nextKey
    BY DEF userVars
  <1>2. IsFolder(folder') /\ nextKey' \in Nat \ {0}
          /\ index' \in [loaded : Catalog, looked : BOOLEAN, generation : Nat]
    BY <1>1 DEF IInv, TypeOK
  <1>3. FolderSound(folder', texts)  BY <1>1 DEF IInv
  <1>4. IndexSound'  BY <1>1 DEF IInv, IndexSound, Loaded, Idle
  <1>5. CountedUnlessTorn'  BY <1>1 DEF IInv, CountedUnlessTorn
  <1>6. SearchSound'  BY <1>1, SameStands, SearchSame
  <1>7. \A e \in index'.loaded.entries : \E o \in index.loaded.entries : GoesOnBeing(e, o)
    BY <1>1
  <1>8. index.looked => index'.looked  BY <1>1
  <1>. QED  BY <1>2, <1>3, <1>4, <1>5, <1>6, <1>7, <1>8 DEF StillGood

\* The taker goes back to wait.
LEMMA TakerIdle ==
  ASSUME taker' = Idle, folder' = folder
  PROVE  /\ TakerSound' /\ taker' \in {Idle} \cup Reader
         /\ \A f \in Files : Clean(f) => Clean(f)'
         /\ Emptied => Emptied'
  BY DEF TakerSound, Clean, Emptied, Idle

LEMMA TakesTabSound ==
  ASSUME IInv, TakesTab
  PROVE  IInv'
  <1>. DEFINE f == Head(queue)
              known == IF MayTake(f)
                       THEN {e \in EntriesOf(index.loaded, f) : SameFile(e, tab[f].version)} ELSE {}
              chosen == CHOOSE e \in known : TRUE
              reads == [at |-> "reading", doc |-> tab[f].doc, entry |-> chosen,
                        key |-> index.loaded.key, gen |-> index.generation, text |-> <<>>,
                        changed |-> FALSE]
  <1>1. /\ taker = Idle /\ ~reconsider /\ index.looked /\ queue # <<>>
        /\ queue' = Tail(queue)
        /\ taker' = IF \E e \in known : e.done < Pages THEN reads ELSE Idle
        /\ cutShort' = IF HasEdits(f) THEN cutShort \cup {f} ELSE cutShort \ {f}
        /\ UNCHANGED <<userVars, folder, index, reconsider, listed, calls, search, nextKey, faults, torn>>
    BY DEF TakesTab
  <1>2. TypeOK /\ texts' = texts /\ tab' = tab /\ commands' = commands /\ folder' = folder /\ index' = index
          /\ enabled' = enabled /\ reconsider' = reconsider /\ calls' = calls /\ search' = search
          /\ listed' = listed /\ faults' = faults
    BY <1>1 DEF IInv, userVars
  <1>3. queue \in Seq(Files)  BY <1>2 DEF TypeOK
  <1>4. f \in Files /\ queue' \in Seq(Files)  BY <1>1, <1>3
  <1>5. \A g \in Range(queue) : g = f \/ g \in Range(queue')
    <2>. SUFFICES ASSUME NEW j \in DOMAIN queue, queue[j] # f PROVE queue[j] \in Range(queue')
      BY DEF Range
    <2>1. f = queue[1]  BY <1>1, <1>3
    <2>2. j \in 2..Len(queue)  BY <1>3, <2>1
    <2>3. /\ Len(queue') = Len(queue) - 1
          /\ \A k \in 1..Len(queue) - 1 : queue'[k] = queue[k + 1]
      BY <1>1, <1>3, HeadTailProperties
    <2>4. j - 1 \in DOMAIN queue' /\ queue'[j - 1] = queue[j]  BY <1>3, <1>4, <2>2, <2>3
    <2>. QED  BY <2>4 DEF Range
  <1>c. /\ cutShort' \subseteq cutShort \cup Files
        /\ \A g \in cutShort : g \in cutShort' \/ (index.looked /\ g \in Range(queue))
    <2>1. f \in Range(queue)  BY <1>1, <1>3 DEF Range
    <2>. QED  BY <1>1, <1>4, <2>1
  <1>. HIDE DEF f
  <1>6. known = IF MayTake(f) THEN {e \in index.loaded.entries : e.file = f /\ e.version = tab[f].version}
                ELSE {}
    BY DEF EntriesOf, SameFile
  <1>. HIDE DEF known
  <1>7. index.loaded \in Catalog /\ CatalogSound(index.loaded, texts)
    BY <1>1, <1>2 DEF IInv, IndexSound, TypeOK
  <1>8. \A e \in known : e \in index.loaded.entries /\ e \in Entry /\ e.done \in Nat /\ e.id \in Nat
                           /\ MayTake(f) /\ e.file = f /\ e.version = tab[f].version
    BY <1>6, <1>7, CatalogFacts
  <1>9. \A e, o \in known : e = o  BY <1>7, <1>8 DEF CatalogSound
  <1>10. known # {} => chosen \in known  OBVIOUS
  <1>. HIDE DEF chosen
  <1>o. PICK own : own = chosen  OBVIOUS
  <1>11. CASE \E e \in known : e.done < Pages
    <2>1. own \in known /\ own.done < Pages  BY <1>9, <1>10, <1>11, <1>o
    <2>2. MayTake(f) /\ Allowed(f) /\ tab[f].open  BY <1>8, <2>1 DEF MayTake, Allowed
    <2>3. /\ tab[f].doc \in Nat /\ tab[f].doc < commands /\ tab[f].version \in 1..Len(texts[f])
          /\ tab[f].text = texts[f][tab[f].version]
      BY <1>4, <2>2, TabFacts DEF MayTake
    <2>4. PICK r : r = reads  OBVIOUS
    <2>5. taker' = r  BY <1>1, <1>11, <2>4
    <2>6. /\ r.at = "reading" /\ r.doc = tab[f].doc /\ r.entry = own /\ r.key = index.loaded.key
          /\ r.gen = index.generation /\ r.text = <<>> /\ r.changed = FALSE
      BY <1>o, <2>4
    <2>7. r \in Reader
      <3>1. own \in Entry  BY <1>8, <2>1
      <3>2. index.loaded.key \in Nat /\ index.generation \in Nat  BY <1>2, <1>7 DEF TypeOK, Catalog
      <3>3. <<>> \in Seq(Nat)  OBVIOUS
      <3>. QED  BY <1>o, <2>3, <2>4, <3>1, <3>2, <3>3 DEF Reader
    <2>8. r # Idle  BY <2>6 DEF Idle
    <2>9. own \in index.loaded.entries /\ own.file = f /\ own.version = tab[f].version
      BY <1>8, <2>1
    <2>10. Loaded
      <3>1. CASE ~Loaded
        <4>1. index.loaded.entries = {}  BY <1>1, <3>1, NoIndexFacts DEF IInv, IndexSound
        <4>. QED  BY <2>9, <4>1
      <3>. QED  BY <3>1
    <2>11. \A e \in index.loaded.entries : e.id = own.id => e = own
      BY <1>7, <2>9 DEF CatalogSound
    <2>12. own.id < index.loaded.nextId  BY <1>7, <2>9 DEF CatalogSound
    <2>13. TakerOf(own)'
      <3>1. taker'.at = "reading" /\ taker'.entry = own  BY <2>5, <2>6
      <3>. QED  BY <3>1 DEF TakerOf
    <2>14. TakerSound'
      <3>1. /\ taker'.gen <= index'.generation /\ taker'.doc < commands'
            /\ taker'.entry.version \in 1..Len(texts'[taker'.entry.file])
            /\ taker'.entry.done < Pages /\ Len(taker'.text) <= Pages
            /\ tab'[taker'.entry.file].text = texts'[taker'.entry.file][taker'.entry.version]
            /\ ~(taker'.changed \/ taker'.at \in {"keeping", "ending"})
            /\ taker'.text = <<>> /\ ~taker'.changed
        <4>1. index.generation \in Nat /\ Len(<<>>) = 0 /\ 0 <= Pages
          BY <1>2, PagesAssumption DEF TypeOK
        <4>. QED  BY <1>2, <2>1, <2>3, <2>5, <2>6, <2>9, <4>1
      <3>2. Loaded' /\ taker'.key = index'.loaded.key /\ taker'.entry.id < index'.loaded.nextId
        BY <1>2, <2>5, <2>6, <2>10, <2>12 DEF Loaded
      <3>3. \A e \in index'.loaded.entries : e.id = taker'.entry.id => TakerOf(e)'
        BY <1>2, <2>5, <2>6, <2>11, <2>13
      <3>. QED  BY <3>1, <3>2, <3>3 DEF TakerSound
    <2>15. ASSUME NEW g \in Files, MustBeClean(g), Clean(g) PROVE Clean(g)'
      <3>1. g # f  BY <2>2, <2>15 DEF MustBeClean, Allowed, Barred, Kinds
      <3>2. taker'.entry.file = f  BY <2>5, <2>6, <2>9
      <3>. QED  BY <1>2, <2>15, <3>1, <3>2 DEF Clean
    <2>16. enabled  BY <2>2 DEF Allowed
    <2>17. \A e \in index.loaded.entries : ~Progress(e)  BY <1>1 DEF Progress
    <2>18. \A e \in index.loaded.entries : GoesOnBeing(e, e)
      BY <1>2, <2>17 DEF GoesOnBeing, IsWhole, Has
    <2>19. StillGood({}) /\ SearchSound'
      <3>1. taker' \in {Idle} \cup Reader  BY <2>5, <2>7
      <3>. QED  BY <1>1, <1>2, <2>14, <2>15, <2>16, <2>18, <3>1, TakerStep
    <2>20. \A e \in index'.loaded.entries : e.file = f /\ e.version = tab[f].version => Progress(e)'
      <3>. SUFFICES ASSUME NEW e \in index.loaded.entries, e.file = f PROVE Progress(e)'
        BY <1>2
      <3>1. e = own  BY <1>7, <2>9 DEF CatalogSound
      <3>2. /\ taker' # Idle /\ taker'.gen = index'.generation /\ taker'.entry.id = e.id
            /\ taker'.at # "ending"
        BY <1>2, <2>5, <2>6, <2>8, <3>1
      <3>. QED  BY <3>2 DEF Progress, Idle
    <2>21. calls' \subseteq Seq(Steps) \ {<<>>} /\ CallsSound' /\ \A s : Pending(s, calls) => Pending(s, calls')
      BY <1>2, CallsKept
    <2>22. \A g \in Range(queue) : Allowed(g) /\ g \notin cutShort' /\ ~torn =>
             \/ g \in Range(queue')
             \/ \A e \in index'.loaded.entries :
                  e.file = g /\ e.version = tab[g].version => IsWhole(e)' \/ Progress(e)'
      BY <1>5, <2>20
    <2>23. faults' \in Nat /\ reconsider' \in BOOLEAN /\ listed' \subseteq Result
             /\ search' \in {Idle} \cup Searching
      BY <1>2 DEF TypeOK
    <2>. QED  BY <1>1, <1>2, <1>4, <1>c, <2>19, <2>21, <2>22, <2>23, IndexStep
  <1>12. CASE ~\E e \in known : e.done < Pages
    <2>1. taker' = Idle  BY <1>1, <1>12
    <2>2. \A e \in index.loaded.entries : ~Progress(e)  BY <1>1 DEF Progress
    <2>3. \A e \in index.loaded.entries : GoesOnBeing(e, e)
      BY <1>2, <2>2 DEF GoesOnBeing, IsWhole, Has
    <2>4. StillGood({}) /\ SearchSound'
      BY <1>1, <1>2, <2>1, <2>3, TakerIdle, TakerStep
    <2>m. Allowed(f) /\ f \notin cutShort' => MayTake(f)  BY <1>1 DEF MayTake, HasEdits
    <2>5. ASSUME MayTake(f), ~torn, NEW e \in index.loaded.entries, e.file = f, e.version = tab[f].version
          PROVE  IsWhole(e)'
      <3>1. e \in known  BY <1>6, <2>5
      <3>2. e.done \in Nat /\ ~(e.done < Pages)  BY <1>8, <1>12, <3>1
      <3>3. e.done >= Pages /\ e.done > 0  BY <3>2, PagesAssumption
      <3>4. e.id \in DOMAIN folder.docs /\ Len(folder.docs[e.id].text) >= e.done
        BY <2>5, <3>3 DEF IInv, CountedUnlessTorn, Counted
      <3>5. /\ Len(folder.docs[e.id].text) <= Pages
            /\ folder.docs[e.id].text \in Seq(Nat)
        BY <1>2, <3>4 DEF TypeOK, IsFolder, TextFile
      <3>6. Len(folder.docs[e.id].text) \in Nat  BY <3>5
      <3>7. Len(folder.docs[e.id].text) = Pages  BY <3>2, <3>3, <3>4, <3>5, <3>6, PagesAssumption
      <3>. QED  BY <1>2, <3>3, <3>4, <3>7 DEF IsWhole, Has
    <2>6. calls' \subseteq Seq(Steps) \ {<<>>} /\ CallsSound' /\ \A s : Pending(s, calls) => Pending(s, calls')
      BY <1>2, CallsKept
    <2>7. \A g \in Range(queue) : Allowed(g) /\ g \notin cutShort' /\ ~torn =>
             \/ g \in Range(queue')
             \/ \A e \in index'.loaded.entries :
                  e.file = g /\ e.version = tab[g].version => IsWhole(e)' \/ Progress(e)'
      BY <1>2, <1>5, <2>m, <2>5
    <2>8. faults' \in Nat /\ reconsider' \in BOOLEAN /\ listed' \subseteq Result
            /\ search' \in {Idle} \cup Searching
      BY <1>2 DEF TypeOK
    <2>. QED  BY <1>1, <1>2, <1>4, <1>c, <2>4, <2>6, <2>7, <2>8, IndexStep
  <1>. QED  BY <1>11, <1>12

\* The taker goes on with its document.
LEMMA TakerGoesOn ==
  ASSUME IInv, taker # Idle, UNCHANGED <<userVars, torn, folder, index>>,
         taker' \in Reader, taker'.doc = taker.doc, taker'.entry = taker.entry,
         taker'.key = taker.key, taker'.gen = taker.gen, Len(taker'.text) <= Pages,
         taker'.changed \/ taker'.at \in {"keeping", "ending"} => taker'.text # <<>>,
         taker'.at \in {"reading", "losing"} => taker'.text = <<>> /\ ~taker'.changed,
         \A e \in index.loaded.entries :
           taker.gen = index.generation /\ e.id = taker.entry.id /\ TakerOf(e) => TakerOf(e)'
  PROVE  /\ TakerSound' /\ taker' # Idle /\ index.looked
         /\ \A f \in Files : Clean(f) => Clean(f)'
         /\ Emptied => Emptied'
         /\ \A e \in index.loaded.entries :
              (Progress(e) /\ e.file \notin cutShort' /\ Allowed(e.file) =>
                 taker'.at # "ending" \/ Len(taker'.text) = Pages)
              => GoesOnBeing(e, e)
  <1>1. /\ texts' = texts /\ tab' = tab /\ commands' = commands /\ folder' = folder /\ index' = index
        /\ torn' = torn
    BY DEF userVars
  <1>2. taker' # Idle  BY DEF Reader, Idle
  <1>3. index.looked  BY DEF IInv, IndexSound
  <1>4. TakerSound'
    <2>1. /\ taker'.gen <= index'.generation /\ taker'.doc < commands'
          /\ taker'.entry.version \in 1..Len(texts'[taker'.entry.file])
          /\ taker'.entry.done < Pages
          /\ tab'[taker'.entry.file].open /\ tab'[taker'.entry.file].doc = taker'.doc =>
               tab'[taker'.entry.file].text = texts'[taker'.entry.file][taker'.entry.version]
      BY <1>1 DEF IInv, TakerSound
    <2>2. ASSUME taker'.gen = index'.generation
          PROVE  /\ Loaded' /\ taker'.key = index'.loaded.key
                 /\ taker'.entry.id < index'.loaded.nextId
                 /\ \A e \in index'.loaded.entries : e.id = taker'.entry.id => TakerOf(e)'
      BY <1>1, <2>2 DEF IInv, TakerSound, Loaded
    <2>. QED  BY <2>1, <2>2 DEF TakerSound
  <1>5. \A f \in Files : Clean(f) => Clean(f)'
    <2>. SUFFICES ASSUME NEW f \in Files, Clean(f) PROVE Clean(f)'  OBVIOUS
    <2>1. \A id \in DOMAIN folder'.docs :
            folder'.docs[id].key # 0 /\ folder'.docs[id].key = folder'.key => folder'.docs[id].file # f
      BY <1>1 DEF Clean
    <2>2. taker'.gen = index'.generation /\ taker'.entry.file = f =>
            taker'.entry.id \notin {e.id : e \in index'.loaded.entries}
      BY <1>1 DEF Clean, IdsOf
    <2>. QED  BY <2>1, <2>2 DEF Clean, IdsOf
  <1>6. Emptied => Emptied'  BY <1>1, <1>2 DEF Emptied
  <1>7. ASSUME NEW e \in index.loaded.entries,
               Progress(e) /\ e.file \notin cutShort' /\ Allowed(e.file) =>
                 taker'.at # "ending" \/ Len(taker'.text) = Pages
        PROVE  GoesOnBeing(e, e)
    <2>1. IsWhole(e) => IsWhole(e)'  BY <1>1 DEF IsWhole, Has
    <2>2. Progress(e) /\ e.file \notin cutShort' /\ Allowed(e.file) => Progress(e)'
      BY <1>1, <1>2, <1>7 DEF Progress
    <2>. QED  BY <2>1, <2>2 DEF GoesOnBeing
  <1>. QED  BY <1>2, <1>3, <1>4, <1>5, <1>6, <1>7

LEMMA TakerIs ==
  ASSUME IInv, taker # Idle
  PROVE  /\ taker \in Reader
         /\ taker.doc \in Nat /\ taker.entry \in Entry /\ taker.key \in Nat /\ taker.gen \in Nat
         /\ taker.text \in Seq(Nat) /\ taker.changed \in BOOLEAN
         /\ taker.entry.id \in Nat /\ taker.entry.file \in Files /\ taker.entry.done \in Nat
         /\ taker.entry.version \in Nat
         /\ taker.at \in {"reading", "taking", "keeping", "ending", "losing"}
  BY DEF IInv, TypeOK, Reader, Entry

LEMMA ReadsTakenSound ==
  ASSUME IInv, ReadsTaken
  PROVE  IInv'
  <1>1. /\ taker.at = "reading"
        /\ UNCHANGED <<userVars, stateVars, calls, search, nextKey, faults, torn, cutShort>>
    BY DEF ReadsTaken
  <1>2. taker # Idle  BY <1>1 DEF Idle
  <1>3. TypeOK /\ texts' = texts /\ folder' = folder /\ index' = index /\ calls' = calls /\ queue' = queue
          /\ reconsider' = reconsider /\ search' = search /\ listed' = listed /\ faults' = faults
    BY <1>1 DEF IInv, userVars, stateVars
  <1>4. taker \in Reader  BY <1>2, TakerIs
  <1>5. /\ taker.text = <<>> /\ ~taker.changed /\ Len(taker.text) <= Pages
        /\ taker.gen = index.generation => taker.key = index.loaded.key /\ Loaded
    BY <1>1, <1>2 DEF IInv, TakerSound
  <1>. DEFINE id == taker.entry.id
  <1>e. <<>> \in Seq(Nat) /\ Len(<<>>) <= Pages  BY PagesAssumption
  <1>6. PICK at \in {"taking", "losing"}, text \in Seq(Nat) :
          /\ taker' = [taker EXCEPT !.at = at, !.text = text]
          /\ Len(text) <= Pages
          /\ at = "losing" => text = <<>>
          /\ at = "taking" =>
               IF taker.entry.done = 0 \/ ~Has(id) THEN text = <<>>
               ELSE OpensWith(id, taker.key) /\ text = folder.docs[id].text
    <2>1. CASE taker.entry.done = 0 \/ ~Has(id)
      <3>1. taker' = [taker EXCEPT !.at = "taking"]  BY <2>1 DEF ReadsTaken
      <3>2. taker' = [taker EXCEPT !.at = "taking", !.text = <<>>]  BY <1>4, <1>5, <3>1 DEF Reader
      <3>3. PICK text \in Seq(Nat) : text = <<>>  BY <1>e
      <3>. QED  BY <1>e, <2>1, <3>2, <3>3
    <2>2. CASE taker.entry.done # 0 /\ Has(id) /\ OpensWith(id, taker.key)
      <3>1. taker' = [taker EXCEPT !.at = "taking", !.text = folder.docs[id].text]
        BY <2>2 DEF ReadsTaken
      <3>2. folder.docs[id].text \in Seq(Nat) /\ Len(folder.docs[id].text) <= Pages
        BY <1>3, <2>2 DEF TypeOK, IsFolder, TextFile, Has
      <3>. QED  BY <2>2, <3>1, <3>2
    <2>3. CASE taker.entry.done # 0 /\ Has(id) /\ ~OpensWith(id, taker.key)
      <3>1. taker' = [taker EXCEPT !.at = "losing"]  BY <2>3 DEF ReadsTaken
      <3>2. taker' = [taker EXCEPT !.at = "losing", !.text = <<>>]  BY <1>4, <1>5, <3>1 DEF Reader
      <3>3. PICK text \in Seq(Nat) : text = <<>>  BY <1>e
      <3>. QED  BY <1>e, <3>2, <3>3
    <2>. QED  BY <2>1, <2>2, <2>3
  <1>7. /\ taker' \in Reader /\ taker'.at = at /\ taker'.text = text /\ taker'.doc = taker.doc
        /\ taker'.entry = taker.entry /\ taker'.key = taker.key /\ taker'.gen = taker.gen
        /\ taker'.changed = taker.changed
    BY <1>4, <1>6 DEF Reader
  <1>8. ASSUME NEW e \in index.loaded.entries, taker.gen = index.generation, e.id = id, TakerOf(e)
        PROVE  TakerOf(e)'
    <2>1. e.file = taker.entry.file /\ e.version = taker.entry.version /\ e.done = taker.entry.done
      BY <1>1, <1>8 DEF TakerOf
    <2>2. e.done \in Nat  BY <1>3, <1>8, CatalogFacts DEF TypeOK
    <2>3. CASE at = "losing"  BY <1>7, <2>1, <2>3 DEF TakerOf
    <2>4. CASE at = "taking" /\ (taker.entry.done = 0 \/ ~Has(id))
      <3>1. text = <<>> /\ DOMAIN text = {}  BY <1>6, <2>4
      <3>2. ~(e.done > 0 /\ e.id \in DOMAIN folder'.docs)  BY <1>3, <1>8, <2>1, <2>4 DEF Has
      <3>. QED  BY <1>7, <2>1, <2>4, <3>1, <3>2 DEF TakerOf, Has
    <2>5. CASE at = "taking" /\ ~(taker.entry.done = 0 \/ ~Has(id))
      <3>1. OpensWith(id, taker.key) /\ text = folder.docs[id].text /\ Has(id)  BY <1>6, <2>5
      <3>2. /\ taker.key = index.loaded.key /\ Loaded
        BY <1>5, <1>8
      <3>3. index.looked  BY <1>2 DEF IInv, IndexSound
      <3>4. \A i \in DOMAIN text : text[i] = texts[e.file][e.version]
        BY <1>8, <3>1, <3>2, <3>3 DEF IInv, IndexSound, TextsSound, OpensWith, Has
      <3>5. e.done > 0  BY <2>1, <2>2, <2>5
      <3>6. Len(text) \in Nat  OBVIOUS
      <3>. QED  BY <1>3, <1>7, <1>8, <2>1, <2>5, <3>1, <3>4, <3>5, <3>6 DEF TakerOf, Has
    <2>. QED  BY <1>6, <2>3, <2>4, <2>5
  <1>9. UNCHANGED <<userVars, torn, folder, index, search, listed, nextKey>>
    BY <1>1, <1>3
  <1>10. /\ TakerSound' /\ taker' # Idle /\ index.looked
         /\ \A f \in Files : Clean(f) => Clean(f)'
         /\ Emptied => Emptied'
         /\ \A e \in index.loaded.entries : GoesOnBeing(e, e)
    BY <1>2, <1>5, <1>6, <1>7, <1>8, <1>9, TakerGoesOn
  <1>11. StillGood({}) /\ SearchSound'  BY <1>7, <1>9, <1>10, TakerStep
  <1>12. UNCHANGED <<userVars, torn, cutShort, calls, queue, reconsider>> /\ faults' \in Nat
           /\ listed' \subseteq Result /\ search' \in {Idle} \cup Searching
    BY <1>1, <1>3 DEF TypeOK
  <1>. QED  BY <1>11, <1>12, QuietStep

LEMMA TakesPageSound ==
  ASSUME IInv, TakesPage
  PROVE  IInv'
  <1>. DEFINE f == taker.entry.file
              more == [taker EXCEPT !.text = Append(taker.text, tab[f].text), !.changed = TRUE]
              end == IF taker.changed THEN [taker EXCEPT !.at = "ending"] ELSE Idle
  <1>1. /\ taker.at = "taking"
        /\ UNCHANGED <<userVars, stateVars, calls, search, nextKey, faults, torn>>
        /\ \/ /\ IF Len(taker.text) = Pages THEN taker' = end
                 ELSE IF ~enabled THEN taker' = Idle
                 ELSE StillSame(f) /\ taker' \in {more, [more EXCEPT !.at = "keeping"]}
              /\ cutShort' = cutShort
           \/ /\ Len(taker.text) # Pages /\ enabled
              /\ taker' = end /\ cutShort' = cutShort \cup {f}
    BY DEF TakesPage
  <1>2. taker # Idle  BY <1>1 DEF Idle
  <1>3. TypeOK /\ texts' = texts /\ tab' = tab /\ folder' = folder /\ index' = index /\ calls' = calls
          /\ queue' = queue
          /\ reconsider' = reconsider /\ search' = search /\ listed' = listed /\ faults' = faults
    BY <1>1 DEF IInv, userVars, stateVars
  <1>4. taker \in Reader /\ taker.text \in Seq(Nat) /\ f \in Files  BY <1>2, TakerIs
  <1>5. /\ Len(taker.text) <= Pages
        /\ taker.changed => taker.text # <<>>
        /\ tab[f].open /\ tab[f].doc = taker.doc => tab[f].text = texts[f][taker.entry.version]
        /\ taker.gen = index.generation =>
             \A e \in index.loaded.entries : e.id = taker.entry.id => TakerOf(e)
    BY <1>1, <1>2 DEF IInv, TakerSound
  <1>6. UNCHANGED <<userVars, torn, folder, index, search, listed, nextKey>>
    BY <1>1, <1>3
  <1>7. ASSUME StillGood({}), SearchSound' PROVE IInv'
    <2>1. UNCHANGED <<userVars, torn, calls, queue, reconsider>> /\ faults' \in Nat
            /\ listed' \subseteq Result /\ search' \in {Idle} \cup Searching
      BY <1>1, <1>3 DEF TypeOK
    <2>2. cutShort \subseteq cutShort' /\ cutShort' \subseteq cutShort \cup Files  BY <1>1, <1>4
    <2>. QED  BY <1>7, <2>1, <2>2, QuietStep
  <1>8. ASSUME NEW e \in index.loaded.entries, Progress(e)
        PROVE  e.file = f /\ TakerOf(e)
    <2>1. TakerOf(e)  BY <1>5, <1>8 DEF Progress
    <2>. QED  BY <2>1 DEF TakerOf
  <1>. HIDE DEF f
  <1>9. ASSUME taker' = Idle,
               (Len(taker.text) = Pages /\ ~taker.changed) \/ ~enabled \/ f \in cutShort'
        PROVE  IInv'
    <2>1. \A e \in index.loaded.entries : GoesOnBeing(e, e)
      <3>. SUFFICES ASSUME NEW e \in index.loaded.entries PROVE GoesOnBeing(e, e)  OBVIOUS
      <3>1. IsWhole(e) => IsWhole(e)'  BY <1>3 DEF IsWhole, Has
      <3>2. Progress(e) /\ Allowed(e.file) /\ e.file \notin cutShort' => IsWhole(e)'
        <4>. SUFFICES ASSUME Progress(e), Allowed(e.file), e.file \notin cutShort' PROVE IsWhole(e)'
          OBVIOUS
        <4>1. Len(taker.text) = Pages /\ ~taker.changed /\ TakerOf(e)  BY <1>8, <1>9 DEF Allowed
        <4>2. taker.text # <<>>  BY <1>4, <4>1, PagesAssumption
        <4>3. e.done > 0 /\ Has(e.id) /\ Len(folder.docs[e.id].text) = Len(taker.text)
          BY <1>1, <4>1, <4>2 DEF TakerOf
        <4>. QED  BY <1>3, <4>1, <4>3 DEF IsWhole, Has
      <3>. QED  BY <3>1, <3>2 DEF GoesOnBeing
    <2>2. StillGood({}) /\ SearchSound'
      BY <1>3, <1>6, <1>9, <2>1, TakerIdle, TakerStep
    <2>. QED  BY <1>7, <2>2
  <1>10. ASSUME taker' = [taker EXCEPT !.at = "ending"], taker.changed,
                Len(taker.text) = Pages \/ f \in cutShort'
         PROVE  IInv'
    <2>1. /\ taker' \in Reader /\ taker'.at = "ending" /\ taker'.text = taker.text /\ taker'.doc = taker.doc
          /\ taker'.entry = taker.entry /\ taker'.key = taker.key /\ taker'.gen = taker.gen
          /\ taker'.changed = taker.changed
      BY <1>4, <1>10 DEF Reader
    <2>2. ASSUME NEW e \in index.loaded.entries, TakerOf(e) PROVE TakerOf(e)'
      BY <1>1, <1>3, <2>1, <2>2 DEF TakerOf, Has
    <2>3. ASSUME NEW e \in index.loaded.entries, Progress(e), e.file \notin cutShort'
          PROVE  Len(taker'.text) = Pages
      BY <1>8, <1>10, <2>1, <2>3
    <2>4. /\ TakerSound' /\ taker' # Idle /\ index.looked
          /\ \A g \in Files : Clean(g) => Clean(g)'
          /\ Emptied => Emptied'
          /\ \A e \in index.loaded.entries : GoesOnBeing(e, e)
      BY <1>2, <1>5, <1>6, <1>10, <2>1, <2>2, <2>3, TakerGoesOn
    <2>5. StillGood({}) /\ SearchSound'  BY <1>6, <2>1, <2>4, TakerStep
    <2>. QED  BY <1>7, <2>5
  <1>11. ASSUME Len(taker.text) # Pages, StillSame(f),
                taker' \in {more, [more EXCEPT !.at = "keeping"]}
         PROVE  IInv'
    <2>1. tab[f].open /\ tab[f].doc = taker.doc /\ tab[f].text = texts[f][taker.entry.version]
      BY <1>5, <1>11 DEF StillSame
    <2>2. tab[f].text \in Nat  BY <1>4, <2>1, TabFacts
    <2>3. PICK text : text = Append(taker.text, tab[f].text)  OBVIOUS
    <2>4. /\ text \in Seq(Nat) /\ text # <<>> /\ Len(text) = Len(taker.text) + 1
          /\ \A i \in 1..Len(taker.text) : text[i] = taker.text[i]
          /\ text[Len(taker.text) + 1] = tab[f].text
      BY <1>4, <2>2, <2>3, AppendProperties
    <2>5. Len(text) <= Pages /\ Len(taker.text) \in Nat
      BY <1>4, <1>5, <1>11, <2>4, PagesAssumption
    <2>6. PICK at \in {"taking", "keeping"} :
            taker' = [taker EXCEPT !.at = at, !.text = text, !.changed = TRUE]
      <3>1. CASE taker' = more
        <4>1. taker' = [taker EXCEPT !.at = "taking", !.text = text, !.changed = TRUE]
          BY <1>1, <1>4, <2>3, <3>1 DEF Reader
        <4>. QED  BY <4>1
      <3>2. CASE taker' = [more EXCEPT !.at = "keeping"]
        <4>1. taker' = [taker EXCEPT !.at = "keeping", !.text = text, !.changed = TRUE]
          BY <1>4, <2>3, <3>2 DEF Reader
        <4>. QED  BY <4>1
      <3>. QED  BY <1>11, <3>1, <3>2
    <2>7. /\ taker' \in Reader /\ taker'.at = at /\ taker'.text = text /\ taker'.doc = taker.doc
          /\ taker'.entry = taker.entry /\ taker'.key = taker.key /\ taker'.gen = taker.gen
          /\ taker'.changed
      BY <1>4, <2>4, <2>6 DEF Reader
    <2>8. ASSUME NEW e \in index.loaded.entries, TakerOf(e) PROVE TakerOf(e)'
      <3>1. /\ e.file = f /\ e.version = taker.entry.version
            /\ \A i \in DOMAIN taker.text : taker.text[i] = texts[e.file][e.version]
            /\ e.done > 0 /\ Has(e.id) => Len(taker.text) >= Len(folder.docs[e.id].text)
        BY <1>1, <2>8 DEF TakerOf, f
      <3>2. \A i \in DOMAIN text : text[i] = texts[e.file][e.version]
        <4>. SUFFICES ASSUME NEW i \in 1..Len(taker.text) + 1 PROVE text[i] = texts[e.file][e.version]
          BY <2>4
        <4>1. CASE i \in 1..Len(taker.text)  BY <1>4, <2>4, <3>1, <4>1
        <4>2. CASE i = Len(taker.text) + 1  BY <2>1, <2>4, <3>1, <4>2
        <4>. QED  BY <2>5, <4>1, <4>2
      <3>3. e.done > 0 /\ Has(e.id) => Len(text) >= Len(folder.docs[e.id].text)
        <4>. SUFFICES ASSUME e.done > 0, Has(e.id) PROVE Len(text) >= Len(folder.docs[e.id].text)
          OBVIOUS
        <4>1. folder.docs[e.id].text \in Seq(Nat)  BY <1>3 DEF TypeOK, IsFolder, TextFile, Has
        <4>2. Len(folder.docs[e.id].text) \in Nat  BY <4>1
        <4>. QED  BY <2>4, <2>5, <3>1, <4>2
      <3>4. /\ e.file = taker'.entry.file /\ e.version = taker'.entry.version
            /\ taker'.at \notin {"reading", "losing"}
        BY <2>7, <3>1 DEF f
      <3>. QED  BY <1>3, <2>7, <3>2, <3>3, <3>4 DEF TakerOf, Has
    <2>9. taker'.at # "ending" /\ taker'.at \notin {"reading", "losing"}  BY <2>7
    <2>10. /\ TakerSound' /\ taker' # Idle /\ index.looked
           /\ \A g \in Files : Clean(g) => Clean(g)'
           /\ Emptied => Emptied'
           /\ \A e \in index.loaded.entries : GoesOnBeing(e, e)
      BY <1>2, <1>6, <2>4, <2>5, <2>7, <2>8, <2>9, TakerGoesOn
    <2>11. StillGood({}) /\ SearchSound'  BY <1>6, <2>7, <2>10, TakerStep
    <2>. QED  BY <1>7, <2>11
  <1>12. taker.changed \in BOOLEAN  BY <1>2, TakerIs
  <1>. QED  BY <1>1, <1>9, <1>10, <1>11, <1>12

\* keep, of the entry the index still has.
LEMMA KeepsSound ==
  ASSUME IInv, Keeps
  PROVE  IInv'
  <1>1. /\ taker.at \in {"keeping", "ending"} /\ index.looked
        /\ UNCHANGED <<userVars, queue, reconsider, listed, calls, search, faults, torn, cutShort>>
    BY DEF Keeps
  <1>2. taker # Idle  BY <1>1 DEF Idle
  <1>3. TypeOK /\ texts' = texts /\ tab' = tab /\ commands' = commands /\ torn' = torn /\ enabled' = enabled
          /\ calls' = calls /\ queue' = queue
          /\ reconsider' = reconsider /\ search' = search /\ listed' = listed /\ faults' = faults
    BY <1>1 DEF IInv, userVars
  <1>4. ASSUME StillGood({}), SearchSound' PROVE IInv'
    <2>1. UNCHANGED <<userVars, torn, cutShort, calls, queue, reconsider>> /\ faults' \in Nat
            /\ listed' \subseteq Result /\ search' \in {Idle} \cup Searching
      BY <1>1, <1>3 DEF TypeOK
    <2>. QED  BY <1>4, <2>1, QuietStep
  <1>5. CASE ~MayKeep(taker.entry, taker.gen)
    <2>1. taker' = Idle /\ UNCHANGED <<folder, index, nextKey>>  BY <1>5 DEF Keeps
    <2>2. \A e \in index.loaded.entries : ~Progress(e)
      <3>. SUFFICES ASSUME NEW e \in index.loaded.entries, Progress(e) PROVE FALSE  OBVIOUS
      <3>1. taker.gen = index.generation /\ e.id = taker.entry.id  BY DEF Progress
      <3>2. Loaded  BY <1>2, <3>1 DEF IInv, TakerSound
      <3>. QED  BY <1>5, <3>1, <3>2 DEF MayKeep
    <2>3. \A e \in index.loaded.entries : GoesOnBeing(e, e)
      BY <2>1, <2>2 DEF GoesOnBeing, IsWhole, Has
    <2>4. StillGood({}) /\ SearchSound'
      BY <1>1, <2>1, <2>3, TakerIdle, TakerStep
    <2>. QED  BY <1>4, <2>4
  <1>6. CASE MayKeep(taker.entry, taker.gen)
    <2>1. PICK K : K = Kept(taker.entry, taker.key, taker.text)  OBVIOUS
    <2>2. /\ Does(K)
          /\ taker' = IF taker.at = "ending" THEN Idle
                      ELSE [taker EXCEPT !.at = "taking", !.changed = FALSE]
      BY <1>6, <2>1 DEF Keeps
    <2>3. PICK entry : entry = taker.entry  OBVIOUS
    <2>4. PICK text : text = taker.text  OBVIOUS
    <2>5. Ready /\ TakerSound  BY <1>1 DEF IInv, Ready
    <2>6. /\ Final(K) /\ KeptOnly(K, entry.id, text)
          /\ K.dir.docs[entry.id] = [key |-> taker.key, file |-> entry.file, text |-> text]
      BY <1>1, <1>6, <2>1, <2>3, <2>4, <2>5, KeptSound
    <2>7. /\ folder' = K.dir /\ index'.loaded = K.cat /\ index'.looked /\ Loaded'
          /\ index'.generation = index.generation
          /\ index' \in [loaded : Catalog, looked : BOOLEAN, generation : Nat]
          /\ nextKey' \in Nat \ {0} /\ IsFolder(folder')
          /\ FolderSound(folder', texts) /\ IndexSound' /\ CountedUnlessTorn'
      BY <1>1, <2>2, <2>6, DoesLeaves
    <2>8. /\ taker \in Reader /\ entry.id \in Nat /\ entry.file \in Files /\ text \in Seq(Nat)
          /\ taker.gen = index.generation /\ Loaded
      BY <1>2, <1>6, <2>3, <2>4, TakerIs DEF MayKeep
    <2>9. /\ Len(text) <= Pages /\ text # <<>> /\ taker.key = index.loaded.key
          /\ entry.id < index.loaded.nextId
          /\ \A e \in index.loaded.entries : e.id = entry.id => TakerOf(e)
      BY <1>1, <1>2, <2>3, <2>4, <2>8 DEF IInv, TakerSound
    <2>10. \A e \in index.loaded.entries : e.id = entry.id =>
             /\ e.file = entry.file /\ e.version = taker.entry.version
             /\ \A i \in DOMAIN text : text[i] = texts[e.file][e.version]
      BY <1>1, <2>3, <2>4, <2>9 DEF TakerOf
    <2>11. /\ K.cat.nextId = index.loaded.nextId /\ K.cat.key = index.loaded.key
           /\ \A e \in K.cat.entries : \E o \in index.loaded.entries :
                /\ e.id = o.id /\ e.file = o.file /\ e.version = o.version
                /\ e.done = IF o.id = entry.id THEN Len(text) ELSE o.done
           /\ \A x \in DOMAIN K.dir.docs : x # entry.id =>
                x \in DOMAIN folder.docs /\ K.dir.docs[x] = folder.docs[x]
           /\ \A e \in K.cat.entries :
                e.id = entry.id \/ e.id \in DOMAIN folder.docs => e.id \in DOMAIN K.dir.docs
      BY <2>6 DEF KeptOnly
    <2>12. K.dir.docs[entry.id].text = text /\ K.dir.docs[entry.id].file = entry.file
      BY <2>6
    <2>13. Len(text) \in Nat /\ Len(text) > 0  BY <2>8, <2>9
    <2>14. ASSUME NEW e \in K.cat.entries, e.id = entry.id
           PROVE  /\ e.file = taker.entry.file /\ e.version = taker.entry.version /\ e.done = Len(text)
                  /\ \A i \in DOMAIN text : text[i] = texts[e.file][e.version]
                  /\ e.done > 0 /\ e.id \in DOMAIN K.dir.docs /\ K.dir.docs[e.id].text = text
      BY <2>3, <2>10, <2>11, <2>12, <2>13, <2>14
    <2>15. ASSUME taker.at # "ending"
           PROVE  /\ taker' \in Reader /\ taker'.at = "taking" /\ taker'.text = text
                  /\ taker'.doc = taker.doc /\ taker'.entry = taker.entry /\ taker'.key = taker.key
                  /\ taker'.gen = taker.gen /\ taker'.changed = FALSE
      BY <2>2, <2>4, <2>8, <2>15 DEF Reader
    <2>16. TakerSound'
      <3>1. CASE taker.at = "ending"  BY <2>2, <3>1 DEF TakerSound, Idle
      <3>2. CASE taker.at # "ending"
        <4>1. /\ taker'.gen <= index'.generation /\ taker'.doc < commands'
              /\ taker'.entry.version \in 1..Len(texts'[taker'.entry.file])
              /\ taker'.entry.done < Pages
              /\ tab'[taker'.entry.file].open /\ tab'[taker'.entry.file].doc = taker'.doc =>
                   tab'[taker'.entry.file].text = texts'[taker'.entry.file][taker'.entry.version]
          BY <1>2, <1>3, <2>7, <2>15, <3>2 DEF IInv, TakerSound
        <4>2. taker'.key = index'.loaded.key /\ taker'.entry.id < index'.loaded.nextId
          BY <2>3, <2>7, <2>9, <2>11, <2>15, <3>2
        <4>3. ASSUME NEW e \in index'.loaded.entries, e.id = taker'.entry.id PROVE TakerOf(e)'
          <5>1. /\ e.file = taker.entry.file /\ e.version = taker.entry.version /\ e.done = Len(text)
                /\ \A i \in DOMAIN text : text[i] = texts[e.file][e.version]
                /\ e.done > 0 /\ e.id \in DOMAIN K.dir.docs /\ K.dir.docs[e.id].text = text
            BY <2>3, <2>7, <2>14, <2>15, <3>2, <4>3
          <5>2. /\ taker'.at = "taking" /\ taker'.text = text /\ taker'.changed = FALSE
                /\ taker'.entry = taker.entry /\ texts' = texts /\ folder' = K.dir
            BY <1>3, <2>7, <2>15, <3>2
          <5>3. e.file = taker'.entry.file /\ e.version = taker'.entry.version
            BY <5>1, <5>2
          <5>4. \A i \in DOMAIN taker'.text : taker'.text[i] = texts'[e.file][e.version]
            BY <5>1, <5>2
          <5>5. e.id \in DOMAIN folder'.docs /\ folder'.docs[e.id].text = taker'.text
            BY <5>1, <5>2
          <5>6. Len(taker'.text) >= Len(folder'.docs[e.id].text)
            BY <2>13, <5>2, <5>5
          <5>. QED  BY <5>1, <5>2, <5>3, <5>4, <5>5, <5>6 DEF TakerOf, Has
        <4>. QED  BY <2>7, <2>9, <2>15, <3>2, <4>1, <4>2, <4>3 DEF TakerSound
      <3>. QED  BY <3>1, <3>2
    <2>17. ASSUME NEW f \in Files, Clean(f) PROVE Clean(f)'
      <3>1. entry.file # f
        <4>1. entry.id \in IdsOf(index.loaded)  BY <1>6, <2>3 DEF MayKeep, IdsOf
        <4>. QED  BY <1>2, <2>3, <2>8, <2>17, <4>1 DEF Clean
      <3>2. folder'.key = folder.key
        BY <1>1, <2>7, <2>8, <2>11 DEF IInv, IndexSound
      <3>3. \A id \in DOMAIN folder'.docs :
              folder'.docs[id].key # 0 /\ folder'.docs[id].key = folder'.key => folder'.docs[id].file # f
        BY <2>7, <2>11, <2>12, <2>17, <3>1, <3>2 DEF Clean
      <3>4. taker' # Idle => taker'.entry.file # f  BY <2>2, <2>3, <2>15, <3>1
      <3>. QED  BY <3>3, <3>4 DEF Clean, Idle
    <2>18. ~Emptied  BY <1>2, <2>8 DEF Emptied
    <2>19. \A e \in index'.loaded.entries : \E o \in index.loaded.entries : GoesOnBeing(e, o)
      <3>. SUFFICES ASSUME NEW e \in K.cat.entries
                    PROVE  \E o \in index.loaded.entries : GoesOnBeing(e, o)
        BY <2>7
      <3>1. PICK o \in index.loaded.entries :
              /\ e.id = o.id /\ e.file = o.file /\ e.version = o.version
              /\ e.done = IF o.id = entry.id THEN Len(text) ELSE o.done
        BY <2>11
      <3>2. CASE o.id = entry.id
        <4>1. /\ e.done > 0 /\ e.id \in DOMAIN folder'.docs /\ folder'.docs[e.id].text = text
          BY <2>7, <2>14, <3>1, <3>2
        <4>2. TakerOf(o)  BY <2>9, <3>2
        <4>3. IsWhole(o) => Len(text) = Pages
          <5>. SUFFICES ASSUME IsWhole(o) PROVE Len(text) = Pages  OBVIOUS
          <5>1. Len(text) >= Len(folder.docs[o.id].text)  BY <1>1, <2>4, <4>2 DEF TakerOf, IsWhole
          <5>. QED  BY <2>9, <2>13, <5>1, PagesAssumption DEF IsWhole
        <4>4. Len(text) = Pages => IsWhole(e)'  BY <4>1 DEF IsWhole, Has
        <4>5. Progress(o) => IsWhole(e)' \/ Progress(e)'
          <5>. SUFFICES ASSUME Progress(o) PROVE IsWhole(e)' \/ Progress(e)'  OBVIOUS
          <5>1. CASE taker.at = "ending"  BY <2>4, <4>4, <5>1 DEF Progress
          <5>2. CASE taker.at # "ending"
            <6>0. taker'.at = "taking"  BY <2>15, <5>2
            <6>1. taker' # Idle  BY <6>0 DEF Idle
            <6>. QED  BY <1>3, <2>3, <2>7, <2>8, <2>15, <3>1, <3>2, <5>2, <6>1 DEF Progress
          <5>. QED  BY <5>1, <5>2
        <4>. QED  BY <3>1, <4>3, <4>4, <4>5 DEF GoesOnBeing
      <3>3. CASE o.id # entry.id
        <4>1. ~Progress(o)  BY <2>3, <3>3 DEF Progress
        <4>2. IsWhole(o) => IsWhole(e)'
          BY <2>7, <2>11, <3>1, <3>3 DEF IsWhole, Has
        <4>. QED  BY <3>1, <4>1, <4>2 DEF GoesOnBeing
      <3>. QED  BY <3>2, <3>3
    <2>20. StillGood({})
      <3>1. taker' \in {Idle} \cup Reader  BY <2>2, <2>15
      <3>. QED  BY <2>7, <2>16, <2>17, <2>18, <2>19, <3>1 DEF StillGood
    <2>21. \A id \in Nat : \A f : StandsFor(id, f) => StandsFor(id, f)'
      BY <2>7, <2>11 DEF StandsFor
    <2>22. SearchSound'  BY <1>1, <2>7, <2>21, SearchSame
    <2>. QED  BY <1>4, <2>20, <2>22
  <1>. QED  BY <1>5, <1>6

LEMMA TakerLosesSound ==
  ASSUME IInv, TakerLoses
  PROVE  IInv'
  <1>1. /\ taker.at = "losing" /\ LosesIt(taker.gen) /\ taker' = Idle
        /\ UNCHANGED <<userVars, calls, search, nextKey, faults, torn, cutShort>>
    BY DEF TakerLoses
  <1>2. texts' = texts /\ TypeOK  BY <1>1 DEF IInv, userVars
  <1>3. /\ calls' \subseteq Seq(Steps) \ {<<>>} /\ CallsSound'
        /\ \A s : Pending(s, calls) => Pending(s, calls')
    BY <1>1, <1>2, CallsKept
  <1>4. CASE index.generation = taker.gen
    <2>1. Wipes /\ reconsider' = TRUE  BY <1>1, <1>4 DEF LosesIt
    <2>. QED  BY <1>1, <1>3, <2>1, WipesSound
  <1>5. CASE index.generation # taker.gen
    <2>1. UNCHANGED <<folder, index, queue, reconsider, listed>>  BY <1>1, <1>5 DEF LosesIt
    <2>2. \A e \in index.loaded.entries : ~Progress(e)  BY <1>5 DEF Progress
    <2>3. \A e \in index.loaded.entries : GoesOnBeing(e, e)
      BY <2>1, <2>2 DEF GoesOnBeing, IsWhole, Has
    <2>4. StillGood({}) /\ SearchSound'
      BY <1>1, <2>1, <2>3, TakerIdle, TakerStep
    <2>5. UNCHANGED <<userVars, torn, cutShort, calls, queue, reconsider>> /\ faults' \in Nat
            /\ listed' \subseteq Result /\ search' \in {Idle} \cup Searching
      BY <1>1, <1>2, <2>1 DEF TypeOK
    <2>. QED  BY <2>4, <2>5, QuietStep
  <1>. QED  BY <1>4, <1>5

-----------------------------------------------------------------------------
(* The search.                                                              *)

LEMMA SearchIs ==
  ASSUME IInv, search # Idle
  PROVE  /\ search \in Searching /\ index.looked
         /\ search.at \in {"looking", "listing"} /\ search.entries \in Seq(Entry)
         /\ search.due \in Nat \ {0} /\ search.gen \in Nat /\ search.gen <= index.generation
         /\ search.read \in Seq({"unread", "none", "hits", "tampered"})
         /\ search.at = "listing" => search.due \in DOMAIN search.entries
         /\ index.generation \in Nat /\ listed \subseteq Result /\ nextKey \in Nat \ {0}
         /\ faults \in Nat
  <1>1. search \in Searching /\ index.generation \in Nat /\ listed \subseteq Result
          /\ nextKey \in Nat \ {0} /\ faults \in Nat
    BY DEF IInv, TypeOK
  <1>2. search.gen <= index.generation
          /\ (search.at = "listing" => search.due \in DOMAIN search.entries)
    BY DEF IInv, SearchSound
  <1>3. index.looked  BY DEF IInv, IndexSound
  <1>4. /\ search.at \in {"looking", "listing"} /\ search.entries \in Seq(Entry)
        /\ search.due \in Nat \ {0} /\ search.gen \in Nat
        /\ search.read \in Seq({"unread", "none", "hits", "tampered"})
    BY <1>1 DEF Searching
  <1>. QED  BY <1>1, <1>2, <1>3, <1>4

LEMMA ReadAgain ==
  ASSUME NEW s \in Searching, NEW read \in Seq({"unread", "none", "hits", "tampered"}),
         NEW r, r = [s EXCEPT !.read = read]
  PROVE  r \in Searching /\ r.gen = s.gen /\ r.entries = s.entries /\ r.at = s.at /\ r.due = s.due
  BY DEF Searching

\* The search goes on, and nothing else changes.
LEMMA SearchGoesOn ==
  ASSUME IInv, search # Idle, UNCHANGED <<userVars, stateVars, taker, calls, nextKey, torn, cutShort>>,
         faults' = faults,
         search' \in {Idle} \cup Searching,
         search' # Idle =>
           /\ search'.gen = search.gen /\ search'.entries = search.entries
           /\ search'.at = "listing" => search'.due \in DOMAIN search'.entries
  PROVE  IInv'
  <1>1. /\ index.looked /\ listed \subseteq Result /\ nextKey \in Nat \ {0} /\ faults \in Nat
    BY SearchIs
  <1>2. UNCHANGED <<folder, index, queue, reconsider, listed>>  BY DEF stateVars
  <1>3. StillGood({})  BY <1>1, <1>2, StaysGood
  <1>4. SearchSound'
    <2>1. \A id \in Nat : \A f : StandsFor(id, f) => StandsFor(id, f)'  BY <1>2, SameStands
    <2>2. index'.generation = index.generation /\ listed' \subseteq listed  BY <1>2
    <2>. QED  BY <2>1, <2>2, SearchKept
  <1>. QED  BY <1>1, <1>2, <1>3, <1>4, QuietStep

LEMMA SearchReadsSound ==
  ASSUME IInv, NEW i, SearchReads(i)
  PROVE  IInv'
  <1>1. search # Idle  BY DEF SearchReads, Idle
  <1>2. PICK s : s = search  OBVIOUS
  <1>3. s \in Searching /\ s.read \in Seq({"unread", "none", "hits", "tampered"})
          /\ (s.at = "listing" => s.due \in DOMAIN s.entries)
          /\ s.at \in {"looking", "listing"} /\ s.due \in Nat \ {0}
    BY <1>1, <1>2, SearchIs
  <1>4. PICK what \in {"none", "hits", "tampered"} : search' = [s EXCEPT !.read[i] = what]
    BY <1>2 DEF SearchReads
  <1>5. PICK read : read = [s.read EXCEPT ![i] = what]  OBVIOUS
  <1>6. read \in Seq({"unread", "none", "hits", "tampered"})
    <2>1. i \in DOMAIN s.read  BY <1>2 DEF SearchReads
    <2>. QED  BY <1>3, <1>5, <2>1
  <1>7. search' = [s EXCEPT !.read = read]  BY <1>3, <1>4, <1>5 DEF Searching
  <1>8. /\ search' \in Searching /\ search'.gen = s.gen /\ search'.entries = s.entries
        /\ search'.at = s.at /\ search'.due = s.due
    BY <1>3, <1>6, <1>7, ReadAgain
  <1>9. UNCHANGED <<userVars, stateVars, taker, calls, nextKey, torn, cutShort>> /\ faults' = faults
    BY DEF SearchReads
  <1>. QED  BY <1>1, <1>2, <1>3, <1>8, <1>9, SearchGoesOn

LEMMA NothingDone ==
  ASSUME IInv, NEW E, Does(E), E.dir = folder, E.cat = index.loaded
  PROVE  folder' = folder /\ index' = index /\ nextKey' \in Nat \ {0}
  <1>1. index \in [loaded : Catalog, looked : BOOLEAN, generation : Nat] /\ nextKey \in Nat \ {0}
    BY DEF IInv, TypeOK
  <1>2. index' = [index EXCEPT !.loaded = index.loaded]  BY DEF Does
  <1>. QED  BY <1>1, <1>2 DEF Does

\* still_there
LEMMA SearchChecksSound ==
  ASSUME IInv, SearchChecks
  PROVE  IInv'
  <1>1. /\ search.at = "looking" /\ search.due <= Len(search.entries) /\ index.looked
        /\ UNCHANGED <<userVars, queue, reconsider, listed, taker, calls, faults, torn, cutShort>>
    BY DEF SearchChecks, IsDue
  <1>2. search # Idle  BY <1>1 DEF Idle
  <1>3. PICK s : s = search  OBVIOUS
  <1>4. /\ s \in Searching /\ s.due \in Nat \ {0} /\ s.at = "looking" /\ s.entries \in Seq(Entry)
        /\ s.read \in Seq({"unread", "none", "hits", "tampered"})
        /\ s.due \in DOMAIN s.entries /\ s.due + 1 \in Nat \ {0}
    BY <1>1, <1>2, <1>3, SearchIs
  <1>5. \/ search' = [s EXCEPT !.due = s.due + 1]
        \/ search' = [s EXCEPT !.at = "listing"]
    BY <1>3 DEF SearchChecks
  <1>6. \/ search' = [s EXCEPT !.at = "looking", !.due = s.due + 1]
        \/ search' = [s EXCEPT !.at = "listing", !.due = s.due]
    BY <1>4, <1>5 DEF Searching
  <1>7. /\ search' \in Searching /\ search'.gen = s.gen /\ search'.entries = s.entries
        /\ search'.at = "listing" => search'.due \in DOMAIN search'.entries
    <2>1. CASE search' = [s EXCEPT !.at = "looking", !.due = s.due + 1]
      <3>1. /\ search' \in Searching /\ search'.gen = s.gen /\ search'.entries = s.entries
            /\ search'.at = "looking"
        BY <1>4, <2>1 DEF Searching
      <3>. QED  BY <3>1
    <2>2. CASE search' = [s EXCEPT !.at = "listing", !.due = s.due]
      <3>1. /\ search' \in Searching /\ search'.gen = s.gen /\ search'.entries = s.entries
            /\ search'.due = s.due
        BY <1>4, <2>2 DEF Searching
      <3>. QED  BY <1>4, <3>1
    <2>. QED  BY <1>6, <2>1, <2>2
  <1>8. CASE UNCHANGED <<folder, index, nextKey>>
    <2>1. UNCHANGED <<userVars, stateVars, taker, calls, nextKey, torn, cutShort>> /\ faults' = faults
      BY <1>1, <1>8 DEF stateVars
    <2>. QED  BY <1>2, <1>3, <1>7, <2>1, SearchGoesOn
  <1>9. CASE Does(Drop(GoneWithDue))
    <2>1. PICK gone : gone = GoneWithDue  OBVIOUS
    <2>2. PICK D : D = Drop(gone)  OBVIOUS
    <2>3. Does(D)  BY <1>9, <2>1, <2>2
    <2>4. Ready /\ gone \subseteq index.loaded.entries  BY <1>1, <2>1 DEF IInv, Ready, GoneWithDue
    <2>5. listed \subseteq Result /\ faults \in Nat /\ nextKey \in Nat \ {0}  BY <1>2, SearchIs
    <2>6. StillGood({}) /\ index'.generation = index.generation
            /\ \A id \in Nat : \A f : StandsFor(id, f) => StandsFor(id, f)'
      <3>1. CASE gone = {}
        <4>1. D.dir = folder /\ D.cat = index.loaded  BY <2>2, <2>4, <3>1, DropSound
        <4>2. folder' = folder /\ index' = index /\ nextKey' \in Nat \ {0}
          BY <2>3, <4>1, NothingDone
        <4>3. StillGood({})  BY <1>1, <4>2, StaysGood
        <4>. QED  BY <4>2, <4>3, SameStands
      <3>2. CASE gone # {}
        <4>1. Final(D) /\ Continues(D, index.loaded, folder.docs, {})
          BY <2>2, <2>4, <3>2, DropSound
        <4>. QED  BY <1>1, <2>3, <4>1, DoesGood
      <3>. QED  BY <3>1, <3>2
    <2>7. SearchSound'
      <3>1. listed' \subseteq listed  BY <1>1
      <3>. QED  BY <1>2, <1>3, <1>7, <2>6, <3>1, SearchKept
    <2>. QED  BY <1>1, <1>7, <2>5, <2>6, <2>7, QuietStep
  <1>. QED  BY <1>8, <1>9 DEF SearchChecks

LEMMA ListsSound ==
  ASSUME IInv, Lists
  PROVE  IInv'
  <1>1. /\ search.at = "listing"
        /\ UNCHANGED <<userVars, folder, index, queue, reconsider, taker, calls, nextKey, faults, torn, cutShort>>
    BY DEF Lists
  <1>2. search # Idle  BY <1>1 DEF Idle
  <1>3. PICK s : s = search  OBVIOUS
  <1>4. /\ s \in Searching /\ s.due \in DOMAIN s.entries /\ s.entries \in Seq(Entry) /\ s.gen \in Nat
        /\ s.due \in Nat \ {0} /\ s.due + 1 \in Nat \ {0} /\ s.gen <= index.generation
        /\ s.read \in Seq({"unread", "none", "hits", "tampered"})
        /\ index.looked /\ listed \subseteq Result /\ nextKey \in Nat \ {0} /\ faults \in Nat
    BY <1>1, <1>2, <1>3, SearchIs
  <1>5. PICK r : r = [id |-> s.entries[s.due].id, of |-> s.entries[s.due].file, gen |-> s.gen]
    OBVIOUS
  <1>6. r \in Result
    <2>1. s.entries[s.due] \in Entry  BY <1>4
    <2>. QED  BY <1>4, <1>5, <2>1 DEF Entry, Result
  <1>7. listed' = listed \cup {r} /\ search' = [s EXCEPT !.at = "looking", !.due = s.due + 1]
    BY <1>3, <1>5 DEF Lists, Due
  <1>8. /\ search' \in Searching /\ search'.gen = s.gen /\ search'.entries = s.entries
        /\ search'.at = "looking"
    BY <1>4, <1>7 DEF Searching
  <1>9. StillGood({})  BY <1>1, <1>4, StaysGood
  <1>10. ASSUME s.gen = index.generation, NEW i \in DOMAIN s.entries
         PROVE  StandsFor(s.entries[i].id, s.entries[i].file)
    BY <1>2, <1>3, <1>10 DEF IInv, SearchSound
  <1>11. ASSUME NEW x \in listed', x.gen = index.generation PROVE StandsFor(x.id, x.of)
    <2>1. CASE x \in listed  BY <1>11, <2>1 DEF IInv, SearchSound
    <2>2. CASE x = r
      <3>1. x.id = s.entries[s.due].id /\ x.of = s.entries[s.due].file /\ x.gen = s.gen
        BY <1>5, <2>2
      <3>. QED  BY <1>4, <1>10, <1>11, <3>1
    <2>. QED  BY <1>7, <2>1, <2>2
  <1>12. SearchSound'
    <2>1. index' = index  BY <1>1
    <2>2. ASSUME search'.gen = index'.generation, NEW i \in DOMAIN search'.entries
          PROVE  /\ search'.entries[i].id < index'.loaded.nextId
                 /\ \A e \in index'.loaded.entries :
                      e.id = search'.entries[i].id => e.file = search'.entries[i].file
      BY <1>8, <1>10, <2>1, <2>2 DEF StandsFor
    <2>3. ASSUME NEW x \in listed', x.gen = index'.generation
          PROVE  /\ x.id < index'.loaded.nextId
                 /\ \A e \in index'.loaded.entries : e.id = x.id => e.file = x.of
      BY <1>11, <2>1, <2>3 DEF StandsFor
    <2>4. search'.gen <= index'.generation /\ search'.at # "listing"  BY <1>4, <1>8, <2>1
    <2>. QED  BY <2>2, <2>3, <2>4 DEF SearchSound, StandsFor
  <1>13. listed' \subseteq Result /\ faults' \in Nat  BY <1>1, <1>4, <1>6, <1>7
  <1>. QED  BY <1>1, <1>8, <1>9, <1>12, <1>13, QuietStep

LEMMA SearchEndsSound ==
  ASSUME IInv, SearchEnds
  PROVE  IInv'
  <1>1. /\ search.at = "looking" /\ search' = Idle
        /\ UNCHANGED <<userVars, taker, calls, nextKey, faults, torn, cutShort>>
        /\ LosesIt(search.gen) \/ UNCHANGED <<folder, index, queue, reconsider, listed>>
    BY DEF SearchEnds
  <1>2. search # Idle  BY <1>1 DEF Idle
  <1>3. CASE UNCHANGED <<folder, index, queue, reconsider, listed>>
    <2>1. UNCHANGED <<userVars, stateVars, taker, calls, nextKey, torn, cutShort>> /\ faults' = faults
      BY <1>1, <1>3 DEF stateVars
    <2>. QED  BY <1>1, <1>2, <2>1, SearchGoesOn
  <1>4. CASE Wipes /\ reconsider' = TRUE
    <2>1. texts' = texts  BY <1>1 DEF userVars
    <2>2. /\ calls' \subseteq Seq(Steps) \ {<<>>} /\ CallsSound'
          /\ \A s : Pending(s, calls) => Pending(s, calls')
      BY <1>1, <2>1, CallsKept
    <2>. QED  BY <1>1, <1>4, <2>2, WipesSound
  <1>. QED  BY <1>1, <1>3, <1>4 DEF LosesIt

\* Ids are below the next one, and one entry's each.
LEMMA EntriesFinite ==
  ASSUME NEW cat \in Catalog, NEW had, CatalogSound(cat, had)
  PROVE  IsFiniteSet(cat.entries)
  <1>. DEFINE F == [e \in cat.entries |-> e.id]
  <1>1. cat.nextId \in Nat  BY CatalogFacts
  <1>2. \A e \in cat.entries : e.id \in 0..cat.nextId
    BY <1>1, CatalogFacts DEF CatalogSound
  <1>3. F \in Injection(cat.entries, 0..cat.nextId)
    BY <1>2 DEF CatalogSound, Injection, IsInjective
  <1>4. IsFiniteSet(0..cat.nextId)  BY <1>1, FS_Interval
  <1>. QED  BY <1>3, <1>4, FS_Injection

LEMMA SearchStartsSound ==
  ASSUME IInv, SearchStarts
  PROVE  IInv'
  <1>1. /\ search = Idle /\ index.looked /\ commands' = commands + 1 /\ listed' = {}
        /\ UNCHANGED <<texts, tab, enabled, barred, folder, index, queue, reconsider, taker, calls,
                       nextKey, faults, torn, cutShort>>
    BY DEF SearchStarts
  <1>2. TypeOK /\ CatalogSound(index.loaded, texts)  BY <1>1 DEF IInv, IndexSound
  <1>3. index.loaded \in Catalog /\ index.generation \in Nat /\ index.loaded.key \in Nat
          /\ index.loaded.entries \subseteq Entry
    BY <1>2 DEF TypeOK, Catalog
  <1>. DEFINE known == {e \in index.loaded.entries : e.done > 0}
  <1>4. PICK entries \in ByOpened(known) :
          search' = IF ~Loaded \/ ~enabled \/ entries = <<>> THEN Idle
                    ELSE [at |-> "looking", entries |-> entries, due |-> 1,
                          read |-> [i \in DOMAIN entries |-> "unread"],
                          key |-> index.loaded.key, gen |-> index.generation]
    BY DEF SearchStarts
  <1>5. IsFiniteSet(known)  BY <1>2, <1>3, EntriesFinite, FS_Subset
  <1>6. Cardinality(known) \in Nat  BY <1>5, FS_CardinalityType
  <1>7. entries \in [1..Cardinality(known) -> known]  BY <1>4 DEF ByOpened, SetToSeqs
  <1>8. /\ entries \in Seq(Entry)
        /\ \A i \in DOMAIN entries : entries[i] \in index.loaded.entries
    <2>1. PICK n \in Nat : n = Cardinality(known)  BY <1>6
    <2>2. entries \in [1..n -> known]  BY <1>7, <2>1
    <2>3. \A i \in 1..n : entries[i] \in Entry /\ entries[i] \in index.loaded.entries
      BY <1>3, <2>2
    <2>4. DOMAIN entries = 1..n /\ entries \in [1..n -> Entry]  BY <2>2, <2>3
    <2>. QED  BY <2>1, <2>3, <2>4
  <1>. HIDE DEF known
  <1>9. search' # Idle =>
          /\ search' \in Searching /\ search'.at = "looking" /\ search'.entries = entries
          /\ search'.gen = index.generation
    <2>. SUFFICES ASSUME search' # Idle
                  PROVE  /\ search' \in Searching /\ search'.at = "looking"
                         /\ search'.entries = entries /\ search'.gen = index.generation
      OBVIOUS
    <2>1. search' = [at |-> "looking", entries |-> entries, due |-> 1,
                     read |-> [i \in DOMAIN entries |-> "unread"],
                     key |-> index.loaded.key, gen |-> index.generation]
      BY <1>4
    <2>2. PICK read : read = [i \in DOMAIN entries |-> "unread"]  OBVIOUS
    <2>3. read \in Seq({"unread", "none", "hits", "tampered"})  BY <1>8, <2>2
    <2>. QED  BY <1>3, <1>8, <2>1, <2>2, <2>3 DEF Searching
  <1>10. SearchSound'
    <2>1. ASSUME NEW i \in DOMAIN entries
          PROVE  /\ entries[i].id < index'.loaded.nextId
                 /\ \A e \in index'.loaded.entries : e.id = entries[i].id => e.file = entries[i].file
      BY <1>1, <1>2, <1>8, <2>1 DEF CatalogSound
    <2>2. search' # Idle => /\ search'.gen <= index'.generation
                            /\ search'.at # "listing" /\ search'.entries = entries
      BY <1>1, <1>3, <1>9
    <2>. QED  BY <1>1, <2>1, <2>2 DEF SearchSound, StandsFor, Idle
  <1>11. commands \in Nat /\ commands' \in Nat /\ commands <= commands'
    BY <1>1, <1>2 DEF TypeOK
  <1>12. TypeOK'
    <2>1. search' \in {Idle} \cup Searching /\ listed' \subseteq Result  BY <1>1, <1>9
    <2>. QED  BY <1>1, <1>2, <1>11, <2>1 DEF TypeOK, IsFolder
  <1>13. Grown(texts, texts')  BY <1>1, <1>2, GrownSame
  <1>14. /\ TabsSound'
         /\ \A f \in Files : tab'[f].open =>
              tab[f].open /\ tab'[f].doc = tab[f].doc /\ tab'[f].text = tab[f].text
    BY <1>1, <1>13, SameTabs
  <1>15. CallsSound' /\ \A s : Pending(s, calls) => Pending(s, calls')
    BY <1>1, CallsKept
  <1>16. \A f \in Files : /\ MustBeClean(f)' => MustBeClean(f)
                          /\ Allowed(f)' => Allowed(f) /\ tab'[f].version = tab[f].version
    BY <1>1 DEF MustBeClean, Allowed, Barred
  <1>. QED
    BY <1>1, <1>10, <1>11, <1>12, <1>13, <1>14, <1>15, <1>16, UserStep

\* file_of
LEMMA OpensResultSound ==
  ASSUME IInv, NEW r \in listed, OpensResult(r)
  PROVE  IInv'
  <1>1. PICK e : e = CHOOSE x \in ResultOf(r) : TRUE  OBVIOUS
  <1>2. e \in index.loaded.entries /\ e.id = r.id
    <2>1. ResultOf(r) # {}  BY DEF OpensResult
    <2>2. e \in ResultOf(r)  BY <1>1, <2>1
    <2>. QED  BY <2>2 DEF ResultOf
  <1>3. e.file \in Files
    <2>1. index.loaded \in Catalog  BY DEF IInv, TypeOK
    <2>. QED  BY <1>2, <2>1, CatalogFacts
  <1>4. CASE Opens(e.file)  BY <1>3, <1>4, OpensSound
  <1>5. CASE /\ Does(Drop({e}))
             /\ UNCHANGED <<userVars, queue, reconsider, listed, taker, calls, search, faults, torn, cutShort>>
    <2>1. index.looked
      <3>1. NoIndex.entries = {}  BY NoIndexFacts
      <3>. QED  BY <1>2, <3>1 DEF IInv, IndexSound
    <2>2. Ready  BY <2>1 DEF IInv, Ready
    <2>3. PICK gone : gone = {e}  OBVIOUS
    <2>4. gone \subseteq index.loaded.entries /\ gone # {}  BY <1>2, <2>3
    <2>5. PICK D : D = Drop(gone)  OBVIOUS
    <2>6. Final(D) /\ Continues(D, index.loaded, folder.docs, {})
      BY <2>2, <2>4, <2>5, DropSound
    <2>7. Does(D)  BY <1>5, <2>3, <2>5
    <2>8. StillGood({}) /\ index'.generation = index.generation
            /\ \A id \in Nat : \A f : StandsFor(id, f) => StandsFor(id, f)'
      BY <1>5, <2>1, <2>6, <2>7, DoesGood
    <2>9. SearchSound'  BY <1>5, <2>8, SearchSame
    <2>10. listed' \subseteq Result /\ search' \in {Idle} \cup Searching /\ faults' \in Nat
      BY <1>5 DEF IInv, TypeOK
    <2>. QED  BY <1>5, <2>8, <2>9, <2>10, QuietStep
  <1>. QED  BY <1>1, <1>4, <1>5 DEF OpensResult
-----------------------------------------------------------------------------
(* What goes wrong.                                                         *)

LEMMA DamagesSound ==
  ASSUME IInv, NEW id \in DOMAIN folder.docs, Damages(id)
  PROVE  IInv'
  <1>1. /\ faults' = faults + 1 /\ folder.docs[id].key # 0
        /\ folder' = [folder EXCEPT !.docs[id].key = 0]
        /\ UNCHANGED <<userVars, index, queue, reconsider, listed, taker, calls, search, nextKey, torn, cutShort>>
    BY DEF Damages
  <1>2. TypeOK /\ texts' = texts /\ torn' = torn /\ commands' = commands /\ tab' = tab
    BY <1>1 DEF IInv, userVars
  <1>3. PICK d : d = folder  OBVIOUS
  <1>4. IsFolder(d) /\ FolderSound(d, texts)  BY <1>2, <1>3 DEF IInv, TypeOK
  <1>5. PICK docs : docs = [d.docs EXCEPT ![id] = [d.docs[id] EXCEPT !.key = 0]]  OBVIOUS
  <1>6. folder' = [key |-> d.key, catalog |-> d.catalog, docs |-> docs]
    <2>1. folder' = [d EXCEPT !.docs = docs]  BY <1>1, <1>3, <1>5
    <2>2. d = [key |-> d.key, catalog |-> d.catalog, docs |-> d.docs]  BY <1>4 DEF IsFolder
    <2>. QED  BY <2>1, <2>2
  <1>7. /\ DOMAIN docs = DOMAIN d.docs
        /\ \A i \in DOMAIN docs : docs[i].file = d.docs[i].file /\ docs[i].text = d.docs[i].text
             /\ docs[i].key \in {0, d.docs[i].key} /\ docs[i] \in TextFile
             /\ Len(docs[i].text) <= Pages
    <2>0. \A i \in DOMAIN d.docs : d.docs[i] \in TextFile /\ Len(d.docs[i].text) <= Pages
      BY <1>4 DEF IsFolder
    <2>1. DOMAIN docs = DOMAIN d.docs  BY <1>5
    <2>2. ASSUME NEW i \in DOMAIN docs
          PROVE  docs[i].file = d.docs[i].file /\ docs[i].text = d.docs[i].text
             /\ docs[i].key \in {0, d.docs[i].key} /\ docs[i] \in TextFile
             /\ Len(docs[i].text) <= Pages
      <3>1. d.docs[i] \in TextFile /\ Len(d.docs[i].text) <= Pages  BY <2>0, <2>1
      <3>2. CASE i # id
        <4>1. docs[i] = d.docs[i]  BY <1>5, <2>1, <3>2
        <4>. QED  BY <3>1, <4>1
      <3>3. CASE i = id
        <4>1. PICK t : t = d.docs[i]  OBVIOUS
        <4>2. docs[i] = [t EXCEPT !.key = 0]  BY <1>5, <2>1, <3>3, <4>1
        <4>. QED  BY <3>1, <4>1, <4>2 DEF TextFile
      <3>. QED  BY <3>2, <3>3
    <2>. QED  BY <2>1, <2>2
  <1>8. /\ folder'.key = d.key /\ folder'.catalog = d.catalog /\ folder'.docs = docs
    BY <1>6
  <1>9. IsFolder(folder')
    <2>1. d.key \in Nat /\ d.catalog \in Catalog /\ DOMAIN d.docs \subseteq Nat
      BY <1>4 DEF IsFolder
    <2>. QED  BY <1>6, <1>7, <1>8, <2>1 DEF IsFolder
  <1>10. ASSUME NEW cat, NEW key, key # 0, TextsSound(cat, d.docs, key, texts)
         PROVE  TextsSound(cat, docs, key, texts)
    BY <1>7, <1>10 DEF TextsSound
  <1>11. FolderSound(folder', texts)  BY <1>4, <1>8, <1>10 DEF FolderSound
  <1>12. \A i \in DOMAIN folder.docs : i \in DOMAIN docs  BY <1>3, <1>7
  <1>13. \A i : SameText(i)  BY <1>3, <1>7, <1>8 DEF SameText
  <1>14. index' = index /\ taker' = taker  BY <1>1
  <1>15. IndexSound'
    <2>1. CASE ~index.looked  BY <1>1, <2>1 DEF IInv, IndexSound, Idle
    <2>2. CASE index.looked
      <3>1. /\ CatalogSound(index.loaded, texts) /\ folder.key = index.loaded.key
            /\ folder.catalog.entries \subseteq index.loaded.entries
        BY <2>2 DEF IInv, IndexSound
      <3>2. Loaded
        <4>. SUFFICES ASSUME ~Loaded PROVE FALSE  OBVIOUS
        <4>1. folder = Nothing  BY <2>2 DEF IInv, IndexSound
        <4>. QED  BY <4>1 DEF Nothing
      <3>3. /\ DOMAIN folder.docs \subseteq IdsOf(index.loaded)
            /\ TextsSound(index.loaded, folder.docs, folder.key, texts)
        BY <2>2, <3>2 DEF IInv, IndexSound
      <3>4. DOMAIN docs \subseteq IdsOf(index.loaded)  BY <1>3, <1>7, <3>3
      <3>5. d.key # 0 /\ d.key = index.loaded.key  BY <1>3, <3>1, <3>2 DEF Loaded
      <3>6. TextsSound(index.loaded, docs, d.key, texts)  BY <1>3, <1>10, <3>3, <3>5
      <3>7. Loaded'  BY <1>14, <3>2 DEF Loaded
      <3>. QED
        BY <1>2, <1>3, <1>8, <1>14, <2>2, <3>1, <3>4, <3>5, <3>6, <3>7 DEF IndexSound, IdsOf
    <2>. QED  BY <2>1, <2>2
  <1>16. CountedUnlessTorn'
    <2>1. ASSUME NEW cat, Counted(cat, d.docs) PROVE Counted(cat, docs)
      BY <1>7, <2>1 DEF Counted
    <2>2. ASSUME ~torn PROVE Counted(d.catalog, docs) /\ Counted(index.loaded, docs)
      BY <1>3, <2>1, <2>2 DEF IInv, CountedUnlessTorn
    <2>. QED  BY <1>2, <1>8, <1>14, <2>2 DEF CountedUnlessTorn, Counted
  <1>17. Grown(texts, texts')  BY <1>2, GrownSame
  <1>18. taker # Idle => /\ taker.entry.file \in Files
                         /\ taker.entry.version \in 1..Len(texts[taker.entry.file])
    BY TakerIs DEF IInv, TakerSound
  <1>19. TakerSound'
    <2>1. ASSUME taker # Idle, taker.gen = index.generation
          PROVE  /\ Loaded' /\ index'.loaded.key = index.loaded.key
                 /\ index'.loaded.nextId >= index.loaded.nextId /\ index'.loaded.nextId \in Nat
                 /\ \A e \in index'.loaded.entries : e.id = taker.entry.id => TakerOf(e)'
      <3>1. Loaded /\ \A e \in index.loaded.entries : e.id = taker.entry.id => TakerOf(e)
        BY <2>1 DEF IInv, TakerSound
      <3>2. index.loaded \in Catalog  BY <1>2 DEF TypeOK
      <3>3. Loaded' /\ index.loaded.nextId \in Nat  BY <1>14, <3>1, <3>2, CatalogFacts DEF Loaded
      <3>4. ASSUME NEW e \in index.loaded.entries, e.id = taker.entry.id PROVE TakerOf(e)'
        <4>1. TakerOf(e)  BY <3>1, <3>4
        <4>2. e.file \in Files /\ e.version \in 1..Len(texts[e.file])
          BY <1>18, <2>1, <4>1 DEF TakerOf
        <4>3. SameDocument(e, e)  BY DEF SameDocument
        <4>. QED  BY <1>13, <1>14, <1>17, <4>1, <4>2, <4>3, TakerOfKept
      <3>. QED  BY <1>14, <3>3, <3>4
    <2>2. commands \in Nat /\ commands' \in Nat /\ commands <= commands'  BY <1>2 DEF TypeOK
    <2>. QED  BY <1>2, <1>14, <1>17, <2>1, <2>2, TakerKept
  <1>20. \A f \in Files : Clean(f) => Clean(f)'
    <2>. SUFFICES ASSUME NEW f \in Files, Clean(f) PROVE Clean(f)'  OBVIOUS
    <2>1. \A i \in DOMAIN docs : docs[i].key # 0 /\ docs[i].key = d.key => docs[i].file # f
      BY <1>3, <1>7 DEF Clean
    <2>. QED  BY <1>8, <1>14, <2>1 DEF Clean, Idle, IdsOf
  <1>21. Emptied => Emptied'  BY <1>3, <1>7, <1>8, <1>14 DEF Emptied, Idle
  <1>22. \A e \in index.loaded.entries : GoesOnBeing(e, e)
    <2>. SUFFICES ASSUME NEW e \in index.loaded.entries PROVE GoesOnBeing(e, e)  OBVIOUS
    <2>1. SameDocument(e, e)  BY DEF SameDocument
    <2>2. IsWhole(e) => IsWhole(e)'  BY <1>13, <2>1, WholeKept
    <2>3. Progress(e) => Progress(e)'  BY <1>2, <1>14, <2>1, ProgressKept
    <2>. QED  BY <2>2, <2>3 DEF GoesOnBeing
  <1>23. StillGood({})
    <2>1. /\ nextKey' \in Nat \ {0} /\ taker' \in {Idle} \cup Reader
          /\ index' \in [loaded : Catalog, looked : BOOLEAN, generation : Nat]
      BY <1>1, <1>2 DEF TypeOK
    <2>. QED
      BY <1>9, <1>11, <1>14, <1>15, <1>16, <1>19, <1>20, <1>21, <1>22, <2>1 DEF StillGood
  <1>24. SearchSound'
    <2>1. index'.generation = index.generation /\ UNCHANGED <<search, listed>>  BY <1>1
    <2>. QED  BY <1>14, <2>1, SameStands, SearchSame
  <1>25. listed' \subseteq Result /\ search' \in {Idle} \cup Searching /\ faults' \in Nat
    BY <1>1, <1>2 DEF TypeOK
  <1>. QED  BY <1>1, <1>23, <1>24, <1>25, QuietStep

\* However far a step that was running got, the next run can start from the folder.
LEMMA EndsAreGood ==
  ASSUME IInv, index.looked, NEW r \in Running, NEW dir \in r.passed
  PROVE  GoodEnd(dir)
  <1>1. Ready /\ TypeOK  BY DEF IInv, Ready
  <1>2. ASSUME NEW c \in calls
        PROVE  c \in Seq(Steps) /\ c # <<>> /\ c[1] = Head(c) /\ c[1] \in Steps /\ Pending(c[1], calls)
    <2>1. c \in Seq(Steps) /\ c # <<>>  BY <1>1, <1>2 DEF TypeOK
    <2>2. Head(c) \in Steps /\ 1 \in DOMAIN c /\ Head(c) = c[1]  BY <2>1, TailFacts
    <2>. QED  BY <1>2, <2>1, <2>2, PendingIn
  <1>3. ASSUME NEW c \in calls, Head(c).op = "put", r = Put(c[1].file, c[1].version)
        PROVE  GoodEnd(dir)
    <2>1. PICK f : f = c[1].file  OBVIOUS
    <2>2. PICK v : v = c[1].version  OBVIOUS
    <2>3. f \in Files /\ v \in Nat /\ c[1] = PutOf(f, v)
      BY <1>2, <1>3, <2>1, <2>2, StepKinds
    <2>4. v \in 1..Len(texts[f])  BY <1>2, <2>3 DEF IInv, CallsSound
    <2>5. Final(r)  BY <1>1, <1>3, <2>1, <2>2, <2>3, <2>4, PutSound
    <2>. QED  BY <2>5 DEF Final, IsEffect
  <1>4. ASSUME NEW gone, gone \subseteq index.loaded.entries, r = Drop(gone)
        PROVE  GoodEnd(dir)
    <2>1. gone # {}  BY <1>1, <1>4, DropSound
    <2>2. Final(r)  BY <1>1, <1>4, <2>1, DropSound
    <2>. QED  BY <2>2 DEF Final, IsEffect
  <1>5. ASSUME r = Wiped PROVE GoodEnd(dir)
    <2>1. PICK d : d = folder  OBVIOUS
    <2>2. dir = [d EXCEPT !.key = 0] \/ dir = Nothing  BY <1>5, <2>1 DEF Wiped, Then, Before, Effect
    <2>3. NoIndex \in Catalog /\ NoIndex.entries = {}  BY NoIndexFacts
    <2>4. CASE dir = Nothing
      <3>1. dir = [key |-> 0, catalog |-> NoIndex, docs |-> <<>>]  BY <2>4 DEF Nothing
      <3>. QED  BY <2>3, <3>1, EmptySound
    <2>5. CASE dir = [d EXCEPT !.key = 0]
      <3>1. IsFolder(d) /\ FolderSound(d, texts) /\ (~torn => Counted(d.catalog, d.docs))
        BY <2>1 DEF IInv, TypeOK, CountedUnlessTorn
      <3>2. dir = [key |-> 0, catalog |-> d.catalog, docs |-> d.docs]
        BY <2>5, <3>1 DEF IsFolder
      <3>3. dir.key = 0 /\ dir.catalog = d.catalog /\ dir.docs = d.docs  BY <3>2
      <3>4. IsFolder(dir)  BY <3>1, <3>2, <3>3 DEF IsFolder
      <3>5. FolderSound(dir, texts)  BY <3>1, <3>3 DEF FolderSound
      <3>. QED  BY <3>1, <3>3, <3>4, <3>5 DEF GoodEnd
    <2>. QED  BY <2>2, <2>4, <2>5
  <1>6. ASSUME taker.at \in {"keeping", "ending"}, MayKeep(taker.entry, taker.gen),
               r = Kept(taker.entry, taker.key, taker.text)
        PROVE  GoodEnd(dir)
    <2>1. Final(r)  BY <1>1, <1>6, KeptSound DEF IInv
    <2>. QED  BY <2>1 DEF Final, IsEffect
  <1>7. \/ \E c \in calls : Head(c).op = "put" /\ r = Put(c[1].file, c[1].version)
        \/ \E c \in calls : r = Drop(EntriesOf(index.loaded, c[1].file))
        \/ r = Wiped
        \/ r = Drop(GoneWithDue)
        \/ \E x \in UNION {ResultOf(y) : y \in listed} : r = Drop({x})
        \/ /\ taker.at \in {"keeping", "ending"} /\ MayKeep(taker.entry, taker.gen)
           /\ r = Kept(taker.entry, taker.key, taker.text)
    BY DEF Running
  <1>8. \A c \in calls : EntriesOf(index.loaded, c[1].file) \subseteq index.loaded.entries
    BY DEF EntriesOf
  <1>9. /\ GoneWithDue \subseteq index.loaded.entries
        /\ \A x \in UNION {ResultOf(y) : y \in listed} : {x} \subseteq index.loaded.entries
    BY DEF GoneWithDue, ResultOf
  <1>. QED  BY <1>3, <1>4, <1>5, <1>6, <1>7, <1>8, <1>9

LEMMA RestartsSound ==
  ASSUME IInv, Restarts
  PROVE  IInv'
  <1>1. PICK dir \in {folder} \cup (IF index.looked THEN UNION {r.passed : r \in Running} ELSE {}) :
          /\ folder' = IF enabled THEN dir ELSE Nothing
          /\ torn' = (torn \/ LostFile(folder'))
    BY DEF Restarts
  <1>2. /\ faults' = faults + 1
        /\ index' = [loaded |-> NoIndex, looked |-> ~enabled, generation |-> 0]
        /\ tab' = [f \in Files |-> Closed]
        /\ queue' = <<>> /\ reconsider' = FALSE /\ listed' = {} /\ cutShort' = {}
        /\ taker' = Idle /\ calls' = {} /\ search' = Idle
        /\ nextKey' = IF folder'.key = nextKey THEN nextKey + 1 ELSE nextKey
        /\ UNCHANGED <<texts, enabled, barred, commands>>
    BY DEF Restarts
  <1>3. TypeOK  BY DEF IInv
  <1>4. /\ NoIndex \in Catalog /\ NoIndex.entries = {} /\ NoIndex.key = 0 /\ NoIndex.nextId = 0
    BY NoIndexFacts
  <1>5. /\ Nothing = [key |-> 0, catalog |-> NoIndex, docs |-> <<>>]
        /\ Nothing.key = 0 /\ Nothing.catalog = NoIndex /\ DOMAIN Nothing.docs = {}
    BY DEF Nothing
  <1>6. GoodEnd(dir)
    <2>1. CASE dir = folder
      BY <2>1 DEF GoodEnd, IInv, TypeOK, CountedUnlessTorn
    <2>2. CASE index.looked /\ dir \in UNION {r.passed : r \in Running}
      BY <2>2, EndsAreGood
    <2>. QED  BY <1>1, <2>1, <2>2
  <1>7. GoodEnd(Nothing)  BY <1>4, <1>5, EmptySound
  <1>8. /\ IsFolder(folder') /\ FolderSound(folder', texts)
        /\ ~torn => LostFile(folder') \/ Counted(folder'.catalog, folder'.docs)
    BY <1>1, <1>6, <1>7 DEF GoodEnd
  <1>9. ~enabled => folder' = Nothing  BY <1>1
  <1>10. TypeOK'
    <2>1. tab' \in [Files -> {Closed} \cup OpenTab]  BY <1>2
    <2>2. index' \in [loaded : Catalog, looked : BOOLEAN, generation : Nat]  BY <1>2, <1>4
    <2>3. torn' \in BOOLEAN /\ cutShort' \subseteq Files  BY <1>1, <1>2
    <2>4. nextKey' \in Nat \ {0} /\ faults' \in Nat  BY <1>2, <1>3 DEF TypeOK
    <2>e. <<>> \in Seq(Files)  OBVIOUS
    <2>5. queue' \in Seq(Files) /\ reconsider' \in BOOLEAN  BY <1>2, <2>e, Zenon
    <2>6. taker' \in {Idle} \cup Reader /\ search' \in {Idle} \cup Searching  BY <1>2
    <2>7. listed' \subseteq Result /\ calls' \subseteq Seq(Steps) \ {<<>>}  BY <1>2, Zenon
    <2>. QED  BY <1>2, <1>3, <1>8, <2>1, <2>2, <2>3, <2>4, <2>5, <2>6, <2>7 DEF TypeOK, IsFolder
  <1>11. \A f \in Files : ~tab'[f].open  BY <1>2 DEF Closed
  <1>12. index'.loaded = NoIndex /\ index'.looked = ~enabled  BY <1>2
  <1>13. TabsSound'  BY <1>11 DEF TabsSound
  <1>14. CallsSound'  BY <1>2 DEF CallsSound, Pending
  <1>15. FolderSound(folder', texts')  BY <1>2, <1>8
  <1>16. IndexSound'
    <2>1. CASE enabled  BY <1>2, <1>12, <2>1 DEF IndexSound
    <2>2. CASE ~enabled
      <3>1. CatalogSound(NoIndex, texts')  BY <1>4 DEF CatalogSound
      <3>2. ~Loaded'  BY <1>4, <1>12 DEF Loaded
      <3>. QED  BY <1>4, <1>5, <1>9, <1>12, <2>2, <3>1, <3>2 DEF IndexSound
    <2>. QED  BY <2>1, <2>2
  <1>17. CountedUnlessTorn'
    <2>1. Counted(NoIndex, folder'.docs)  BY <1>4 DEF Counted
    <2>2. ~torn' => Counted(folder'.catalog, folder'.docs)  BY <1>1, <1>8
    <2>. QED  BY <1>12, <2>1, <2>2 DEF CountedUnlessTorn, Counted
  <1>18. TakerSound' /\ SearchSound'  BY <1>2 DEF TakerSound, SearchSound, Idle
  <1>19. BarredIsClean' /\ WillBeTaken'  BY <1>11 DEF BarredIsClean, WillBeTaken, Awaited, Allowed
  <1>20. OffIsClean'  BY <1>2, <1>5, <1>9 DEF OffIsClean, Idle
  <1>. QED
    BY <1>10, <1>13, <1>14, <1>15, <1>16, <1>17, <1>18, <1>19, <1>20 DEF IInv
-----------------------------------------------------------------------------
LEMMA InitSound ==
  ASSUME Init
  PROVE  IInv
  <1>1. /\ texts = [f \in Files |-> <<0>>]
        /\ tab = [f \in Files |-> Closed]
        /\ enabled = TRUE
        /\ barred = [k \in Kinds |-> {}]
        /\ folder = Nothing
        /\ index = [loaded |-> NoIndex, looked |-> FALSE, generation |-> 0]
        /\ queue = <<>> /\ reconsider = FALSE /\ listed = {}
        /\ taker = Idle /\ calls = {} /\ search = Idle
        /\ nextKey = 1 /\ commands = 0 /\ faults = 0 /\ torn = FALSE /\ cutShort = {}
    BY DEF Init
  <1>2. /\ NoIndex \in Catalog /\ NoIndex.entries = {} /\ NoIndex.key = 0 /\ NoIndex.nextId = 0
    BY NoIndexFacts
  <1>3. folder = [key |-> 0, catalog |-> NoIndex, docs |-> <<>>]  BY <1>1 DEF Nothing
  <1>4. IsFolder(folder) /\ FolderSound(folder, texts) /\ Counted(folder.catalog, folder.docs)
    BY <1>2, <1>3, EmptySound
  <1>5. TypeOK
    <2>1. texts \in [Files -> Seq(Nat) \ {<<>>}]
      <3>1. <<0>> \in Seq(Nat) /\ <<0>> # <<>>  OBVIOUS
      <3>. QED  BY <1>1, <3>1
    <2>2. /\ tab \in [Files -> {Closed} \cup OpenTab] /\ barred \in [Kinds -> SUBSET Files]
          /\ index \in [loaded : Catalog, looked : BOOLEAN, generation : Nat]
      BY <1>1, <1>2
    <2>e. <<>> \in Seq(Files)  OBVIOUS
    <2>3. queue \in Seq(Files) /\ reconsider \in BOOLEAN /\ enabled \in BOOLEAN /\ torn \in BOOLEAN
            /\ cutShort \subseteq Files
      BY <1>1, <2>e, Zenon
    <2>4. taker \in {Idle} \cup Reader /\ search \in {Idle} \cup Searching  BY <1>1
    <2>5. listed \subseteq Result /\ calls \subseteq Seq(Steps) \ {<<>>}  BY <1>1, Zenon
    <2>6. nextKey \in Nat \ {0} /\ commands \in Nat /\ faults \in Nat  BY <1>1
    <2>. QED  BY <1>4, <2>1, <2>2, <2>3, <2>4, <2>5, <2>6 DEF TypeOK
  <1>6. \A f \in Files : ~tab[f].open  BY <1>1 DEF Closed
  <1>7. TabsSound /\ BarredIsClean /\ WillBeTaken
    BY <1>6 DEF TabsSound, BarredIsClean, WillBeTaken, Awaited, Allowed
  <1>8. CallsSound  BY <1>1 DEF CallsSound, Pending
  <1>9. IndexSound  BY <1>1 DEF IndexSound
  <1>10. CountedUnlessTorn
    <2>1. index.loaded.entries = {}  BY <1>1, <1>2
    <2>. QED  BY <1>4, <2>1 DEF CountedUnlessTorn, Counted
  <1>11. TakerSound /\ SearchSound  BY <1>1 DEF TakerSound, SearchSound
  <1>12. OffIsClean  BY <1>1 DEF OffIsClean
  <1>. QED
    BY <1>4, <1>5, <1>7, <1>8, <1>9, <1>10, <1>11, <1>12 DEF IInv

LEMMA Unchanged ==
  ASSUME IInv, UNCHANGED vars
  PROVE  IInv'
  <1>1. /\ index' = index /\ listed \subseteq Result /\ search \in {Idle} \cup Searching
        /\ faults \in Nat /\ nextKey \in Nat \ {0}
    BY DEF IInv, TypeOK, vars
  <1>2. UNCHANGED <<userVars, torn, cutShort, folder, index, taker, nextKey, search, listed, calls,
                    queue, reconsider, faults>>
    BY DEF vars, userVars
  <1>3. StillGood({})  BY <1>1, <1>2, StaysGood
  <1>4. SearchSound'
    <2>1. index'.generation = index.generation  BY <1>1
    <2>. QED  BY <1>1, <1>2, <2>1, SameStands, SearchSame
  <1>. QED  BY <1>1, <1>2, <1>3, <1>4, QuietStep

LEMMA StepKeeps ==
  ASSUME IInv, [Next]_vars
  PROVE  IInv'
  <1>1. CASE User
    BY <1>1, OpensSound, ClosesSound, EditsSound, UndoesSound, SavesSound, MarksSound, RecordsSound, WritesSound,
       SwitchesSound, ClearsSound, SearchStartsSound, OpensResultSound DEF User
  <1>2. CASE Looks  BY <1>2, LooksSound
  <1>3. CASE Commands
    BY <1>3, ConsidersSound, PutsSound, ForgetsSound, ClearsAllSound DEF Commands
  <1>4. CASE Taker
    BY <1>4, TakesTabSound, ReconsidersSound, ReadsTakenSound, TakesPageSound, KeepsSound,
       TakerLosesSound DEF Taker
  <1>5. CASE Search
    BY <1>5, SearchReadsSound, SearchChecksSound, ListsSound, SearchEndsSound DEF Search
  <1>6. CASE Faults  BY <1>6, RestartsSound, DamagesSound DEF Faults
  <1>7. CASE UNCHANGED vars  BY <1>7, Unchanged
  <1>. QED  BY <1>1, <1>2, <1>3, <1>4, <1>5, <1>6, <1>7 DEF Next

LEMMA IInvHolds == Spec => []IInv
  <1>1. Init => IInv  BY InitSound
  <1>2. IInv /\ [Next]_vars => IInv'  BY StepKeeps
  <1>. QED  BY <1>1, <1>2, PTL DEF Spec
-----------------------------------------------------------------------------
\* text_index.rs: what opens as an entry's text is the text of that entry's file, every page
\* of one version, and as much of it as the catalog counts; whatever damage, restarts and
\* commands there were, but for the count after a restart in the middle of a step.
THEOREM TextStaysOfItsFile == Spec => []TextIsOfItsFile
  <1>1. IInv => TextIsOfItsFile
    <2>. SUFFICES ASSUME IInv, NEW e \in index.loaded.entries,
                         Has(e.id), OpensWith(e.id, index.loaded.key)
                  PROVE  LET d == folder.docs[e.id]
                         IN /\ d.file = e.file
                            /\ ~torn => Len(d.text) >= e.done
                            /\ \A i \in DOMAIN d.text : d.text[i] = texts[e.file][e.version]
      BY DEF TextIsOfItsFile
    <2>1. index.looked
      <3>1. NoIndex.entries = {}  BY NoIndexFacts
      <3>. QED  BY <3>1 DEF IInv, IndexSound
    <2>2. Loaded
      <3>. SUFFICES ASSUME ~Loaded PROVE FALSE  OBVIOUS
      <3>1. folder = Nothing  BY <2>1 DEF IInv, IndexSound
      <3>. QED  BY <3>1 DEF Nothing, Has
    <2>3. /\ folder.key = index.loaded.key
          /\ TextsSound(index.loaded, folder.docs, folder.key, texts)
      BY <2>1, <2>2 DEF IInv, IndexSound
    <2>4. /\ folder.docs[e.id].file = e.file
          /\ \A i \in DOMAIN folder.docs[e.id].text :
               folder.docs[e.id].text[i] = texts[e.file][e.version]
      BY <2>3 DEF TextsSound, Has, OpensWith
    <2>5. ASSUME ~torn PROVE Len(folder.docs[e.id].text) >= e.done
      <3>1. index.loaded \in Catalog /\ folder.docs[e.id] \in TextFile
        BY DEF IInv, TypeOK, IsFolder, Has
      <3>2. e.done \in Nat /\ folder.docs[e.id].text \in Seq(Nat)
        BY <3>1, CatalogFacts DEF TextFile
      <3>3. e.done > 0 => Len(folder.docs[e.id].text) >= e.done
        BY <2>5 DEF IInv, CountedUnlessTorn, Counted
      <3>. QED  BY <3>2, <3>3
    <2>. QED  BY <2>4, <2>5
  <1>. QED  BY <1>1, IInvHolds, PTL

\* consider, forget, clear: once the command that barred a file or turned the index off is
\* over, no text of it that can be read is left, and none is written by the taker that was
\* reading it or by a step that the end of the app cut short.
THEOREM BarredTextLeaves == Spec => []BarredTextIsGone
  <1>1. IInv => BarredTextIsGone
    <2>. SUFFICES ASSUME IInv, calls = {}, NEW id \in DOMAIN folder.docs,
                         folder.docs[id].key # 0, folder.docs[id].key = folder.key
                  PROVE  /\ enabled
                         /\ ~(Barred(folder.docs[id].file) /\ tab[folder.docs[id].file].open)
      BY DEF BarredTextIsGone, ReadableText, Range
    <2>1. \A s : ~Pending(s, calls)  BY DEF Pending
    <2>2. enabled  BY <2>1 DEF IInv, OffIsClean
    <2>3. folder.docs[id] \in TextFile  BY DEF IInv, TypeOK, IsFolder
    <2>4. PICK f \in Files : f = folder.docs[id].file  BY <2>3 DEF TextFile
    <2>5. ASSUME Barred(f), tab[f].open PROVE FALSE
      <3>1. f \in barred["sensitive"] \/ f \in barred["unrecorded"]  BY <2>5 DEF Barred, Kinds
      <3>2. Clean(f)  BY <2>1, <2>2, <2>5, <3>1 DEF IInv, BarredIsClean
      <3>. QED  BY <2>4, <3>2 DEF Clean
    <2>. QED  BY <2>2, <2>4, <2>5
  <1>. QED  BY <1>1, IInvHolds, PTL

\* the taker and reconsider: when everything is quiet, a document the user lets into the
\* index has its whole text there, whatever was lost or cleared before, but for those the
\* taker last came upon with edits or left at an edit or a page that failed.
THEOREM NothingIsLeftOut == Spec => []NothingLeftOut
  <1>1. IInv => NothingLeftOut
    <2>. SUFFICES ASSUME IInv, Quiet, ~torn, NEW e \in index.loaded.entries,
                         MayTake(e.file), SameFile(e, tab[e.file].version), e.file \notin cutShort
                  PROVE  e.done > 0 /\ Has(e.id) /\ Len(folder.docs[e.id].text) = Pages
      BY DEF NothingLeftOut, TextIsWhole
    <2>1. \A s : ~Pending(s, calls)  BY DEF Pending, Quiet
    <2>2. e.file \in Files
      <3>1. index.loaded \in Catalog  BY DEF IInv, TypeOK
      <3>. QED  BY <3>1, CatalogFacts
    <2>3. e.file \notin Range(queue) /\ ~reconsider  BY DEF Quiet, Range
    <2>4. ~Progress(e)  BY DEF Progress, Quiet
    <2>5. Awaited(e.file)  BY DEF Awaited, MayTake
    <2>6. IsWhole(e)  BY <2>1, <2>2, <2>3, <2>4, <2>5 DEF IInv, WillBeTaken, SameFile
    <2>. QED  BY <2>6 DEF IsWhole
  <1>. QED  BY <1>1, IInvHolds, PTL

\* search and file_of: an entry's id is never another document's while the index is the
\* same, so that a result opens the document it was shown for or nothing at all.
THEOREM ResultsLeadToTheirDocument == Spec => []ResultsLeadHome
  <1>1. IInv => ResultsLeadHome
    BY DEF IInv, SearchSound, StandsFor, ResultsLeadHome, LeadsHome, ResultOf
  <1>. QED  BY <1>1, IInvHolds, PTL
=============================================================================
