-------------------------- MODULE Journals_proofs --------------------------
(***************************************************************************)
(* Journals for any number of tabs, files and journals: its type invariant; *)
(* that the edits in a journal change or go only with the document of the   *)
(* one tab that has it, with passwords and clearing too, but for those in   *)
(* `exposed`; and, while no file needs a password, that a journal is never  *)
(* that of two tabs and that every journal a tab uses is in in_use.  (With  *)
(* passwords the last two do not hold: a journal released twice, in lose    *)
(* and again in close, is what the run journals_two_tabs shows.)            *)
(***************************************************************************)
EXTENDS Journals, SequenceTheorems, TLAPS

-----------------------------------------------------------------------------
(* Types.                                                                   *)

\* The start of a run has all types right.
LEMMA TypeAtStart == Init => TypeOK
<1> SUFFICES ASSUME Init PROVE TypeOK
  OBVIOUS
<1>1. <<>> \in Work
  BY DEF Work
<1>. QED
  BY <1>1, JournalsAssumption DEF Init, TypeOK, Nowhere, OnDisk, Stages, Found

\* An edit more, or one less, leaves a list of edits.
LEMMA WorkFacts ==
  ASSUME NEW w \in Work, NEW t \in Tabs
  PROVE  /\ Append(w, t) \in Work /\ <<>> \in Work
         /\ w # <<>> => SubSeq(w, 1, Len(w) - 1) \in Work
<1>1. Append(w, t) \in Work /\ <<>> \in Work
  BY DEF Work
<1>2. w # <<>> => SubSeq(w, 1, Len(w) - 1) \in Work
  <2> SUFFICES ASSUME w # <<>> PROVE SubSeq(w, 1, Len(w) - 1) \in Seq(Tabs)
    BY DEF Work
  <2>1. w \in Seq(Tabs) /\ Len(w) \in Nat /\ Len(w) > 0
    BY EmptySeq DEF Work
  <2>2. \A i \in 1..(Len(w) - 1) : w[i] \in Tabs
    BY <2>1
  <2>. QED  BY <2>1, <2>2, SubSeqProperties
<1>. QED  BY <1>1, <1>2

\* What is taken from a tab has a name.
LEMMA TakenIsNamed ==
  ASSUME TypeOK, NEW t \in Tabs
  PROVE  TakenFrom(t) \subseteq named
<1>1. \A u \in Tabs : None \notin Uses(u)
  BY DEF Uses
<1>. QED  BY <1>1 DEF TakenFrom, TypeOK

\* The steps of an opening keep the types.
LEMMA OpeningKeepsTypes ==
  ASSUME TypeOK, NEW t \in Tabs, OpeningStep(t)
  PROVE  TypeOK'
<1> USE JournalsAssumption
<1>1. CASE StartLoad(t)
  BY <1>1 DEF StartLoad, TypeOK, docVars, loadVars, clearVars, ghosts, Stages,
              OnDisk, Found
<1>2. CASE LoadFails(t)
  BY <1>2 DEF LoadFails, TypeOK, docVars, loadVars, clearVars, ghosts, Stages,
              OnDisk, Found
<1>3. CASE LookForOwn(t)
  BY <1>3 DEF LookForOwn, TypeOK, docVars, clearVars, ghosts, Stages, OnDisk,
              Found
<1>4. CASE LookInFolder(t)
  <2>1. Listed \subseteq named
    BY DEF Listed, TypeOK
  <2>. QED
    BY <1>4, <2>1 DEF LookInFolder, TypeOK, docVars, clearVars, ghosts, Stages,
                      OnDisk, Found
<1>5. CASE ReadJournal(t)
  <2>1. PICK id \in toTry[t] :
          /\ toTry' = [toTry EXCEPT ![t] = @ \ {id}]
          /\ seen' = IF id \notin inUse /\ ReadableFor(t, id)
                     THEN [seen EXCEPT ![t] = [id |-> id, edits |-> disk[id].edits]]
                     ELSE seen
    BY <1>5 DEF ReadJournal
  <2>2. id \in named /\ named' = named
    BY <1>5, <2>1 DEF TypeOK, ReadJournal
  <2>3. ReadableFor(t, id) => [id |-> id, edits |-> disk[id].edits] \in Found
    BY <2>2 DEF ReadableFor, TypeOK, Found
  <2>. HIDE DEF Found
  <2>4. Found' = Found
    BY <2>2 DEF Found
  <2>5. seen' \in [Tabs -> Found' \cup {None}] /\ toTry' \in [Tabs -> SUBSET named']
    BY <2>1, <2>2, <2>3, <2>4 DEF TypeOK
  <2>. QED
    BY <1>5, <2>2, <2>4, <2>5 DEF ReadJournal, TypeOK, docVars, tabVars,
       clearVars, ghosts, OnDisk
<1>6. CASE Enter(t)
  <2>1. seen[t] \in Found /\ seen[t].id \in named
    BY <1>6 DEF Enter, TypeOK, Found
  <2>2. Found' = Found /\ named' = named
    BY <1>6 DEF Enter, Found
  <2>. HIDE DEF Found
  <2>3. seen' \in [Tabs -> Found \cup {None}]
    BY <1>6 DEF Enter, TypeOK
  <2>4. CASE seen[t].id \in inUse
    BY <1>6, <2>2, <2>3, <2>4
       DEF Enter, TypeOK, tabVars, clearVars, ghosts, OnDisk
  <2>5. CASE seen[t].id \notin inUse
    <3>1. /\ inUse' = inUse \cup {seen[t].id}
          /\ found' = [found EXCEPT ![t] = seen[t]]
          /\ toTry' = [toTry EXCEPT ![t] = {}]
          /\ seen[t] # None
          /\ exposed' \subseteq exposed \cup {seen[t].id}
      BY <1>6, <2>5 DEF Enter
    <3>2. /\ inUse' \subseteq named /\ exposed' \subseteq named
          /\ found' \in [Tabs -> Found \cup {None}]
          /\ toTry' \in [Tabs -> SUBSET named]
          /\ \A u \in Tabs : found[u] # None => found'[u] # None
      BY <2>1, <3>1 DEF TypeOK
    <3>. QED
      BY <1>6, <2>2, <2>3, <3>2
         DEF Enter, TypeOK, tabVars, clearVars, ghosts, OnDisk
  <2>. QED  BY <2>4, <2>5
<1>7. CASE LoadOffers(t)
  <2>1. /\ UNCHANGED <<disk, named, inUse, file, released, loadVars, clearVars,
                       ghosts>>
        /\ Looking(t)
    BY <1>7 DEF LoadOffers, Searched
  <2>2. CASE tab[t] \in {"takingAbandoned", "findingAbandoned"}
    <3>1. tab' = [tab EXCEPT ![t] = "closed"] /\ NoDocument(t)
      BY <1>7, <2>2 DEF LoadOffers
    <3>. QED
      BY <2>1, <3>1, EmptySeq DEF NoDocument, TypeOK, loadVars, clearVars,
         ghosts, Stages, OnDisk, Found, Work
  <2>3. CASE tab[t] \notin {"takingAbandoned", "findingAbandoned"}
    <3>1. /\ tab' = [tab EXCEPT ![t] = "open"]
          /\ usable' \in {[usable EXCEPT ![t] = u] :
                            u \in IF found[t] = None THEN {FALSE} ELSE BOOLEAN}
          /\ UNCHANGED <<work, own, found>>
      BY <1>7, <2>3 DEF LoadOffers
    <3>2. PICK u \in BOOLEAN : /\ usable' = [usable EXCEPT ![t] = u]
                               /\ u => found[t] # None
      BY <3>1
    <3>. QED
      BY <2>1, <3>1, <3>2
         DEF TypeOK, loadVars, clearVars, ghosts, Stages, OnDisk, Found
  <2>. QED  BY <2>2, <2>3
<1>8. CASE LoadReplays(t)
  <2>1. /\ Looking(t) /\ found[t] # None
        /\ disk' = [disk EXCEPT ![found[t].id] =
                      [file |-> file[t], edits |-> found[t].edits]]
        /\ mine' = mine \cup {found[t].id}
        /\ UNCHANGED <<named, inUse, file, released, loadVars, clearVars, exposed>>
    BY <1>8 DEF LoadReplays, Searched, TakesOver
  <2>2. found[t].id \in named /\ found[t].edits \in Work /\ file[t] \in Files
    BY <2>1 DEF TypeOK, Found
  <2>3. /\ disk' \in [JournalIds -> [file : Files, edits : Work] \cup {None}]
        /\ OnDisk' \subseteq named /\ mine' \subseteq named
    BY <2>1, <2>2 DEF TypeOK, OnDisk
  <2>4. CASE tab[t] = "takingAbandoned"
    <3>1. tab' = [tab EXCEPT ![t] = "closed"] /\ NoDocument(t)
      BY <1>8, <2>4 DEF LoadReplays
    <3>. QED
      BY <2>1, <2>3, <3>1, EmptySeq DEF NoDocument, TypeOK, loadVars, clearVars,
         Stages, Found, Work
  <2>5. CASE tab[t] # "takingAbandoned"
    <3>1. /\ tab' = [tab EXCEPT ![t] = "open"]
          /\ work' = [work EXCEPT ![t] = found[t].edits]
          /\ own' = [own EXCEPT ![t] = found[t].id]
          /\ found' = [found EXCEPT ![t] = None]
          /\ UNCHANGED usable
      BY <1>8, <2>5 DEF LoadReplays
    <3>2. ~usable[t]
      BY <2>1 DEF TypeOK, Looking
    <3>. QED
      BY <2>1, <2>2, <2>3, <3>1, <3>2 DEF TypeOK, loadVars, clearVars, Stages, Found
  <2>. QED  BY <2>4, <2>5
<1>. QED  BY <1>1, <1>2, <1>3, <1>4, <1>5, <1>6, <1>7, <1>8 DEF OpeningStep

\* The journal kept in step with the edits has a name, or is gone.
LEMMA KeepJournalTypes ==
  ASSUME TypeOK, NEW t \in Tabs, NEW edits \in Work, KeepJournal(t, edits)
  PROVE  /\ disk' \in [JournalIds -> [file : Files, edits : Work] \cup {None}]
         /\ named' \subseteq JournalIds /\ named \subseteq named'
         /\ inUse' \subseteq named' /\ OnDisk' \subseteq named'
         /\ own' \in [Tabs -> named' \cup {None}]
         /\ mine' \subseteq named' /\ exposed' \subseteq named'
<1>1. CASE edits # <<>>
  <2>1. PICK id \in IF own[t] = None THEN JournalIds \ named ELSE {own[t]} :
          /\ own' = [own EXCEPT ![t] = id]
          /\ disk' = [disk EXCEPT ![id] = [file |-> file[t], edits |-> edits]]
          /\ named' = named \cup {id} /\ inUse' = inUse \cup {id}
          /\ mine' = mine \cup {id}
          /\ UNCHANGED exposed
    BY <1>1 DEF KeepJournal
  <2>2. id \in JournalIds /\ file[t] \in Files
    BY <2>1 DEF TypeOK
  <2>. QED  BY <2>1, <2>2 DEF TypeOK, OnDisk
<1>2. CASE edits = <<>>
  <2>1. /\ own' = [own EXCEPT ![t] = None]
        /\ disk' = [id \in JournalIds |-> IF id = own[t] THEN None ELSE disk[id]]
        /\ inUse' = inUse \ {own[t]}
        /\ UNCHANGED <<named, mine, exposed>>
    BY <1>2 DEF KeepJournal, ghosts
  <2>. QED  BY <2>1 DEF TypeOK, OnDisk
<1>. QED  BY <1>1, <1>2

\* The steps of an open document keep the types.
LEMMA DocumentKeepsTypes ==
  ASSUME TypeOK, NEW t \in Tabs, DocumentStep(t)
  PROVE  TypeOK'
<1> USE JournalsAssumption
<1>0. <<>> \in Work /\ work[t] \in Work
  BY EmptySeq DEF Work, TypeOK
<1>1. CASE Edit(t) \/ Undo(t)
  <2>1. PICK w \in Work : work' = [work EXCEPT ![t] = w] /\ KeepJournal(t, w)
    <3>1. CASE Edit(t)
      <4>1. work' = [work EXCEPT ![t] = Append(work[t], t)]
            /\ KeepJournal(t, work'[t])
        BY <3>1 DEF Edit
      <4>2. work'[t] = Append(work[t], t) /\ Append(work[t], t) \in Work
        BY <1>0, <4>1, WorkFacts DEF TypeOK
      <4>. QED  BY <4>1, <4>2, Zenon
    <3>2. CASE Undo(t)
      <4> DEFINE less == SubSeq(work[t], 1, Len(work[t]) - 1)
      <4>1. work' = [work EXCEPT ![t] = less] /\ KeepJournal(t, work'[t])
        BY <3>2 DEF Undo
      <4>2. less \in Work
        BY <1>0, <3>2, WorkFacts DEF Undo
      <4>. HIDE DEF less
      <4>3. work'[t] = less
        BY <4>1 DEF TypeOK
      <4>. QED  BY <4>1, <4>2, <4>3, Zenon
    <3>. QED  BY <1>1, <3>1, <3>2
  <2>2. UNCHANGED <<tabVars, foundVars, loadVars, clearVars>>
    BY <1>1 DEF Edit, Undo
  <2>. HIDE DEF KeepJournal
  <2>. QED
    BY <2>1, <2>2, KeepJournalTypes DEF TypeOK, tabVars, foundVars, loadVars,
       clearVars, Found
<1>2. CASE Recover(t)
  <2>1. /\ found[t] \in Found /\ found[t].id \in named
        /\ found[t].edits \in Work /\ file[t] \in Files
    BY <1>2 DEF Recover, TypeOK, Found
  <2>. QED
    BY <1>2, <2>1 DEF Recover, TypeOK, tabVars, loadVars, clearVars, OnDisk, Found
<1>3. CASE DiscardRecovered(t)
  <2>1. found[t] \in Found /\ found[t].id \in named
    BY <1>3 DEF DiscardRecovered, TypeOK, Found
  <2>. QED
    BY <1>3, <2>1 DEF DiscardRecovered, TypeOK, tabVars, loadVars, clearVars,
       ghosts,       OnDisk, Found
<1>4. ASSUME NEW f \in Files, Save(t, f) PROVE TypeOK'
  <2>1. CASE f = file[t]
    BY <1>0, <1>4, <2>1 DEF Save, TypeOK, loadVars, clearVars, ghosts, OnDisk, Found
  <2>2. CASE f # file[t]
    BY <1>0, <1>4, <2>2 DEF Save, TypeOK, loadVars, clearVars, ghosts, OnDisk, Found
  <2>. QED  BY <2>1, <2>2
<1>5. CASE Lose(t)
  BY <1>0, <1>5 DEF Lose, NoDocument, TypeOK, loadVars, clearVars, ghosts, Stages,
     OnDisk, Found
<1>6. CASE Close(t)
  <2>1. /\ disk' = [id \in JournalIds |-> IF id = own[t] THEN None ELSE disk[id]]
        /\ exposed' = exposed \cup TakenFrom(t)
        /\ inUse' \subseteq inUse /\ named' = named
    BY <1>6 DEF Close
  <2>2. /\ disk' \in [JournalIds -> [file : Files, edits : Work] \cup {None}]
        /\ OnDisk' \subseteq named' /\ exposed' \subseteq named'
        /\ inUse' \subseteq named'
    BY <2>1, TakenIsNamed DEF TypeOK, OnDisk
  <2>. QED
    BY <1>0, <1>6, <2>2 DEF Close, NoDocument, TypeOK, loadVars, clearVars,
       Stages, Found
<1>7. CASE CloseLoading(t)
  <2>1. PICK s \in Stages \ {"open"} : tab' = [tab EXCEPT ![t] = s]
    BY <1>7 DEF CloseLoading, Stages
  <2>2. tab[t] # "open" /\ inUse' \subseteq named /\ exposed' \subseteq named
    BY <1>7, TakenIsNamed DEF CloseLoading, TypeOK
  <2>. QED
    BY <1>7, <2>1, <2>2 DEF CloseLoading, TypeOK, docVars, loadVars, clearVars,
       ghosts, OnDisk, Found
<1>. QED  BY <1>1, <1>2, <1>3, <1>4, <1>5, <1>6, <1>7 DEF DocumentStep

\* Every step keeps the types.
LEMMA StepKeepsTypes ==
  ASSUME TypeOK, [Next]_vars
  PROVE  TypeOK'
<1>1. CASE Clearing
  <2>1. CASE ClearStarts
    BY <2>1 DEF ClearStarts, TypeOK, tabVars, docVars, loadVars, ghosts,
       OnDisk, Found
  <2>2. ASSUME NEW id \in JournalIds, ClearRemoves(id) PROVE TypeOK'
    <3>1. /\ disk' \in [JournalIds -> [file : Files, edits : Work] \cup {None}]
          /\ OnDisk' \subseteq OnDisk
      BY <2>2 DEF ClearRemoves, TypeOK, OnDisk
    <3>. QED
      BY <2>2, <3>1 DEF ClearRemoves, TypeOK, tabVars, docVars, loadVars, ghosts, Found
  <2>3. CASE ClearEnds
    BY <2>3 DEF ClearEnds, TypeOK, tabVars, docVars, loadVars, ghosts, OnDisk,
       Found
  <2>. QED  BY <1>1, <2>1, <2>2, <2>3 DEF Clearing
<1>2. CASE Restart
  <2>1. <<>> \in Work
    BY EmptySeq DEF Work
  <2>. QED
    BY <1>2, <2>1, JournalsAssumption DEF Restart, Nowhere, TypeOK, Stages,
       OnDisk, Found
<1>3. CASE UNCHANGED vars
  BY <1>3 DEF vars, TypeOK, OnDisk, Found
<1>. QED  BY <1>1, <1>2, <1>3, OpeningKeepsTypes, DocumentKeepsTypes DEF Next

\* Every variable always has its type, and nothing the page is offered is gone.
THEOREM TypeCorrect == Spec => []TypeOK
<1>. QED  BY TypeAtStart, StepKeepsTypes, PTL DEF Spec

-----------------------------------------------------------------------------
(* One tab for each journal.                                                *)

\* Nothing is released: that is for documents lost with their password.
NoneReleased == released = [t \in Tabs |-> None]

\* A document's own journal is not the one it is offered.
OwnIsNotOffered == \A t \in Tabs : own[t] # None => own[t] # FoundId(t)

\* The inductive invariant: in_use has what the tabs use, and each of them
\* something else.
Inv == TypeOK /\ NoneReleased /\ UsedIsInUse /\ OneTab /\ OwnIsNotOffered

\* What a tab uses is its own journal and the one it has found.
LEMMA UsesFacts ==
  ASSUME TypeOK, NEW t \in Tabs
  PROVE  /\ own[t] # None => own[t] \in Uses(t)
         /\ found[t] # None => FoundId(t) = found[t].id /\ FoundId(t) # None
                               /\ found[t].id \in Uses(t)
         /\ found[t] = None => FoundId(t) = None
         /\ None \notin Uses(t)
BY JournalsAssumption DEF TypeOK, FoundId, Found, Uses

\* A step of one tab keeps the invariant if what that tab then uses is in use,
\* is used by no other tab, and nothing the others use is given up.
LEMMA OneTabSteps ==
  ASSUME Inv, TypeOK', UNCHANGED released, NEW t \in Tabs,
         \A u \in Tabs \ {t} : /\ own'[u] = own[u] /\ found'[u] = found[u]
                               /\ Uses(u) \subseteq inUse'
                               /\ Uses(t)' \cap Uses(u) = {},
         Uses(t)' \subseteq inUse',
         own'[t] # None => own'[t] # FoundId(t)'
  PROVE  Inv'
<1>1. \A u \in Tabs \ {t} : Uses(u)' = Uses(u) /\ FoundId(u)' = FoundId(u)
  BY DEF Uses, FoundId
<1>2. NoneReleased'
  BY DEF Inv, NoneReleased
<1>3. UsedIsInUse'
  BY <1>1 DEF UsedIsInUse
<1>4. OneTab'
  BY <1>1 DEF Inv, OneTab
<1>5. OwnIsNotOffered'
  BY <1>1 DEF Inv, OwnIsNotOffered
<1>. QED  BY <1>2, <1>3, <1>4, <1>5 DEF Inv

\* A step that changes nothing of what the tabs use and what is in use.
LEMMA OtherSteps ==
  ASSUME Inv, TypeOK', UNCHANGED <<own, found, inUse, released>>
  PROVE  Inv'
BY DEF Inv, NoneReleased, UsedIsInUse, OneTab, OwnIsNotOffered, Uses, FoundId

\* What a tab may give up without another tab noticing is what it uses.
LEMMA OthersKeep ==
  ASSUME Inv, NEW t \in Tabs, inUse \ Uses(t) \subseteq inUse'
  PROVE  \A u \in Tabs \ {t} : Uses(u) \subseteq inUse'
BY DEF Inv, UsedIsInUse, OneTab

\* A tab that no longer has a document uses nothing.
LEMMA LeavingSteps ==
  ASSUME Inv, TypeOK', UNCHANGED released, NEW t \in Tabs, NoDocument(t),
         inUse \ Uses(t) \subseteq inUse'
  PROVE  Inv'
<1>1. \A u \in Tabs \ {t} : own'[u] = own[u] /\ found'[u] = found[u]
  BY DEF NoDocument, Inv, TypeOK
<1>2. own'[t] = None /\ found'[t] = None
  BY DEF NoDocument, Inv, TypeOK
<1>3. Uses(t)' = {}
  BY <1>2 DEF Uses, FoundId
<1>. QED  BY <1>1, <1>2, <1>3, OthersKeep, OneTabSteps

\* What a journal kept in step with the edits does to what its tab uses.
LEMMA KeepJournalUses ==
  ASSUME Inv, NEW t \in Tabs, NEW edits, KeepJournal(t, edits), TypeOK',
         UNCHANGED <<found, released>>
  PROVE  Inv'
<1>1. CASE edits # <<>>
  <2>1. PICK id \in IF own[t] = None THEN JournalIds \ named ELSE {own[t]} :
          own' = [own EXCEPT ![t] = id] /\ inUse' = inUse \cup {id}
    BY <1>1 DEF KeepJournal
  <2>2. own'[t] = id /\ \A u \in Tabs \ {t} : own'[u] = own[u]
    BY <2>1 DEF Inv, TypeOK
  <2>3. \A u \in Tabs \ {t} : Uses(u) \subseteq inUse /\ id \notin Uses(u)
    <3>1. CASE own[t] = None
      BY <2>1, <3>1 DEF Inv, TypeOK, UsedIsInUse
    <3>2. CASE own[t] # None
      BY <2>1, <3>2, UsesFacts DEF Inv, UsedIsInUse, OneTab
    <3>. QED  BY <3>1, <3>2
  <2>4. Uses(t)' \subseteq Uses(t) \cup {id} /\ Uses(t) \subseteq inUse
    BY <2>2 DEF Uses, FoundId, Inv, UsedIsInUse
  <2>5. id # FoundId(t)
    <3>1. CASE own[t] = None
      <4>1. FoundId(t) # None => FoundId(t) \in inUse
        BY DEF Inv, UsedIsInUse, Uses
      <4>2. id \notin inUse /\ id # None
        BY <2>1, <3>1, JournalsAssumption DEF Inv, TypeOK
      <4>. QED  BY <4>1, <4>2
    <3>2. CASE own[t] # None
      BY <2>1, <3>2 DEF Inv, OwnIsNotOffered
    <3>. QED  BY <3>1, <3>2
  <2>6. FoundId(t)' = FoundId(t)
    BY DEF FoundId
  <2>7. \A u \in Tabs \ {t} : Uses(t)' \cap Uses(u) = {}
    BY <2>3, <2>4 DEF Inv, OneTab
  <2>. QED
    BY <2>1, <2>2, <2>3, <2>4, <2>5, <2>6, <2>7, OneTabSteps
<1>2. CASE edits = <<>>
  <2>1. own' = [own EXCEPT ![t] = None] /\ inUse' = inUse \ {own[t]}
    BY <1>2 DEF KeepJournal
  <2>2. own'[t] = None /\ \A u \in Tabs \ {t} : own'[u] = own[u]
    BY <2>1 DEF Inv, TypeOK
  <2>3. inUse \ Uses(t) \subseteq inUse'
    <3>1. None \notin inUse
      BY JournalsAssumption DEF Inv, TypeOK
    <3>2. own[t] # None => own[t] \in Uses(t)
      BY UsesFacts DEF Inv
    <3>. QED  BY <2>1, <3>1, <3>2
  <2>4. /\ Uses(t)' = {FoundId(t)} \ {None} /\ Uses(t)' \subseteq Uses(t)
        /\ own[t] \notin Uses(t)'
    BY <2>2 DEF Uses, FoundId, Inv, OwnIsNotOffered
  <2>5. Uses(t)' \subseteq inUse'
    BY <2>1, <2>4 DEF Inv, UsedIsInUse
  <2>6. \A u \in Tabs \ {t} : Uses(t)' \cap Uses(u) = {}
    BY <2>4 DEF Inv, OneTab
  <2>. QED  BY <2>2, <2>3, <2>5, <2>6, OthersKeep, OneTabSteps
<1>. QED  BY <1>1, <1>2

\* A journal becomes the document's own that it had found.
LEMMA TakingOverUses ==
  ASSUME Inv, TypeOK', UNCHANGED <<released, inUse>>, NEW t \in Tabs,
         found[t] # None, own' = [own EXCEPT ![t] = found[t].id],
         found' = [found EXCEPT ![t] = None]
  PROVE  Inv'
<1>1. /\ own'[t] = found[t].id /\ found'[t] = None
      /\ \A u \in Tabs \ {t} : own'[u] = own[u] /\ found'[u] = found[u]
  BY DEF Inv, TypeOK
<1>2. Uses(t)' \subseteq Uses(t)
  BY <1>1, UsesFacts DEF Uses, FoundId, Inv
<1>3. FoundId(t)' = None
  BY <1>1 DEF FoundId
<1>4. Uses(t)' \subseteq inUse' /\ \A u \in Tabs \ {t} : Uses(u) \subseteq inUse'
  BY <1>2 DEF Inv, UsedIsInUse
<1>5. \A u \in Tabs \ {t} : Uses(t)' \cap Uses(u) = {}
  BY <1>2 DEF Inv, OneTab
<1>. QED  BY <1>1, <1>3, <1>4, <1>5, OneTabSteps

\* The steps of an opening: a journal is entered by one tab only.
LEMMA OpeningKeeps ==
  ASSUME Inv, TypeOK', NEW t \in Tabs, OpeningStep(t)
  PROVE  Inv'
<1>1. CASE StartLoad(t) \/ LoadFails(t) \/ LookInFolder(t) \/ ReadJournal(t)
  <2>1. UNCHANGED <<own, found, inUse, released>>
    BY <1>1 DEF StartLoad, LoadFails, LookInFolder, ReadJournal, docVars, tabVars
  <2>. QED  BY <2>1, OtherSteps
<1>2. CASE LookForOwn(t)
  BY <1>2 DEF LookForOwn, Inv, NoneReleased
<1>3. CASE Enter(t)
  <2>1. /\ seen[t] # None /\ UNCHANGED <<own, released>>
    BY <1>3 DEF Enter, tabVars
  <2>2. CASE seen[t].id \in inUse
    <3>1. UNCHANGED <<own, found, inUse, released>>
      BY <1>3, <2>1, <2>2 DEF Enter
    <3>. QED  BY <3>1, OtherSteps
  <2>3. CASE seen[t].id \notin inUse
    <3> DEFINE id == seen[t].id
    <3>1. /\ inUse' = inUse \cup {id} /\ found' = [found EXCEPT ![t] = seen[t]]
      BY <1>3, <2>3 DEF Enter
    <3>2. /\ found'[t] = seen[t] /\ own'[t] = own[t]
          /\ \A u \in Tabs \ {t} : own'[u] = own[u] /\ found'[u] = found[u]
      BY <2>1, <3>1 DEF Inv, TypeOK
    <3>3. FoundId(t)' = id
      BY <2>1, <3>2 DEF FoundId
    <3>4. Uses(t)' \subseteq Uses(t) \cup {id}
      BY <2>1, <3>3 DEF Uses
    <3>5. \A u \in Tabs : Uses(u) \subseteq inUse /\ id \notin Uses(u)
      BY <2>3 DEF Inv, UsedIsInUse
    <3>6. own'[t] # None => own'[t] # FoundId(t)'
      BY <3>2, <3>3, <3>5, UsesFacts DEF Inv
    <3>7. \A u \in Tabs \ {t} : Uses(t)' \cap Uses(u) = {}
      BY <3>4, <3>5 DEF Inv, OneTab
    <3> HIDE DEF id
    <3>. QED  BY <2>1, <3>1, <3>2, <3>4, <3>5, <3>6, <3>7, OneTabSteps
  <2>. QED  BY <2>2, <2>3
<1>4. CASE LoadOffers(t)
  <2>1. CASE tab[t] \in {"takingAbandoned", "findingAbandoned"}
    BY <1>4, <2>1, LeavingSteps DEF LoadOffers
  <2>2. CASE tab[t] \notin {"takingAbandoned", "findingAbandoned"}
    BY <1>4, <2>2, OtherSteps DEF LoadOffers
  <2>. QED  BY <2>1, <2>2
<1>5. CASE LoadReplays(t)
  <2>1. found[t] # None /\ UNCHANGED <<released, inUse>>
    BY <1>5 DEF LoadReplays, TakesOver
  <2>2. CASE tab[t] = "takingAbandoned"
    BY <1>5, <2>1, <2>2, LeavingSteps DEF LoadReplays
  <2>3. CASE tab[t] # "takingAbandoned"
    BY <1>5, <2>1, <2>3, TakingOverUses DEF LoadReplays
  <2>. QED  BY <2>2, <2>3
<1>. QED  BY <1>1, <1>2, <1>3, <1>4, <1>5 DEF OpeningStep

\* The steps of a document, while none is lost with its password.
LEMMA DocumentKeeps ==
  ASSUME Inv, TypeOK', ~Protected, NEW t \in Tabs, DocumentStep(t)
  PROVE  Inv'
<1>0. None \notin inUse /\ released[t] = None
  BY JournalsAssumption DEF Inv, TypeOK, NoneReleased
<1>1. CASE Edit(t) \/ Undo(t)
  BY <1>1, KeepJournalUses DEF Edit, Undo, foundVars, tabVars
<1>2. CASE Recover(t)
  BY <1>2, TakingOverUses DEF Recover, Inv, TypeOK, tabVars
<1>3. CASE DiscardRecovered(t)
  <2>1. /\ found[t] # None /\ inUse' = inUse \ {found[t].id}
        /\ found' = [found EXCEPT ![t] = None] /\ UNCHANGED <<own, released>>
    BY <1>3 DEF DiscardRecovered, tabVars
  <2>2. found'[t] = None /\ \A u \in Tabs \ {t} : found'[u] = found[u]
    BY <2>1 DEF Inv, TypeOK
  <2>3. /\ FoundId(t)' = None /\ Uses(t)' = {own[t]} \ {None}
        /\ Uses(t)' \subseteq Uses(t) /\ found[t].id \notin Uses(t)'
    BY <2>1, <2>2, UsesFacts DEF Uses, FoundId, Inv, OwnIsNotOffered
  <2>4. Uses(t)' \subseteq inUse' /\ inUse \ Uses(t) \subseteq inUse'
    BY <2>1, <2>3, UsesFacts DEF Inv, UsedIsInUse
  <2>5. \A u \in Tabs \ {t} : Uses(t)' \cap Uses(u) = {}
    BY <2>3 DEF Inv, OneTab
  <2>. QED  BY <2>1, <2>2, <2>3, <2>4, <2>5, OthersKeep, OneTabSteps
<1>4. ASSUME NEW f \in Files, Save(t, f) PROVE Inv'
  <2>1. own' = [own EXCEPT ![t] = None] /\ UNCHANGED released
    BY <1>4 DEF Save
  <2>2. own'[t] = None /\ \A u \in Tabs \ {t} : own'[u] = own[u]
    BY <2>1 DEF Inv, TypeOK
  <2>3. CASE f = file[t]
    <3>1. inUse' = inUse \ {own[t]} /\ found' = found
      BY <1>4, <2>3 DEF Save
    <3>2. /\ Uses(t)' \subseteq Uses(t)
          /\ own[t] # None => own[t] \notin Uses(t)'
      BY <2>2, <3>1 DEF Uses, FoundId, Inv, OwnIsNotOffered
    <3>3. Uses(t)' \subseteq inUse' /\ inUse \ Uses(t) \subseteq inUse'
      BY <1>0, <3>1, <3>2, UsesFacts DEF Inv, UsedIsInUse
    <3>4. \A u \in Tabs \ {t} : Uses(t)' \cap Uses(u) = {}
      BY <3>2 DEF Inv, OneTab
    <3>. QED  BY <2>1, <2>2, <3>1, <3>3, <3>4, OthersKeep, OneTabSteps
  <2>4. CASE f # file[t]
    <3>1. /\ inUse' = inUse \ {own[t], FoundId(t)}
          /\ found' = [found EXCEPT ![t] = None]
      BY <1>4, <2>4 DEF Save
    <3>2. found'[t] = None /\ \A u \in Tabs \ {t} : found'[u] = found[u]
      BY <3>1 DEF Inv, TypeOK
    <3>3. Uses(t)' = {}
      BY <2>2, <3>2 DEF Uses, FoundId
    <3>4. inUse \ Uses(t) \subseteq inUse'
      BY <1>0, <3>1 DEF Uses
    <3>. QED  BY <2>1, <2>2, <3>2, <3>3, <3>4, OthersKeep, OneTabSteps
  <2>. QED  BY <2>3, <2>4
<1>5. CASE Lose(t)
  BY <1>5 DEF Lose
<1>6. CASE Close(t)
  <2>1. /\ NoDocument(t) /\ inUse' = inUse \ {own[t], FoundId(t), released[t]}
        /\ released' = [released EXCEPT ![t] = None]
    BY <1>6 DEF Close
  <2>2. released' = released
    BY <2>1 DEF Inv, NoneReleased
  <2>3. inUse \ Uses(t) \subseteq inUse'
    BY <1>0, <2>1 DEF Uses
  <2>. QED  BY <2>1, <2>2, <2>3, LeavingSteps
<1>7. CASE CloseLoading(t)
  <2>1. /\ UNCHANGED <<own, found>> /\ released' = [released EXCEPT ![t] = None]
        /\ inUse' = IF tab[t] = "loading" THEN inUse \ {released[t]} ELSE inUse
    BY <1>7 DEF CloseLoading, docVars
  <2>2. released' = released /\ inUse' = inUse
    BY <1>0, <2>1 DEF Inv, NoneReleased
  <2>. QED  BY <2>1, <2>2, OtherSteps
<1>. QED  BY <1>1, <1>2, <1>3, <1>4, <1>5, <1>6, <1>7 DEF DocumentStep

\* Every step keeps the invariant.
LEMMA StepKeeps ==
  ASSUME Inv, ~Protected, [Next]_vars
  PROVE  Inv'
<1>0. TypeOK'
  BY StepKeepsTypes DEF Inv
<1>1. CASE Clearing \/ UNCHANGED vars
  BY <1>0, <1>1, OtherSteps DEF Clearing, ClearStarts, ClearRemoves, ClearEnds,
     tabVars, docVars, vars
<1>2. CASE Restart
  <2>1. \A t \in Tabs : own'[t] = None /\ found'[t] = None
    BY <1>2 DEF Restart, Nowhere
  <2>2. \A t \in Tabs : Uses(t)' = {}
    BY <2>1 DEF Uses, FoundId
  <2>. QED
    BY <1>0, <1>2, <2>1, <2>2 DEF Restart, Nowhere, Inv, NoneReleased,
       UsedIsInUse, OneTab, OwnIsNotOffered
<1>. QED  BY <1>0, <1>1, <1>2, OpeningKeeps, DocumentKeeps DEF Next

\* The start of a run has the invariant.
LEMMA InvAtStart == Init => Inv
<1> SUFFICES ASSUME Init PROVE Inv
  OBVIOUS
<1>1. \A t \in Tabs : own[t] = None /\ found[t] = None
  BY DEF Init, Nowhere
<1>2. \A t \in Tabs : Uses(t) = {}
  BY <1>1 DEF Uses, FoundId
<1>. QED
  BY <1>1, <1>2, TypeAtStart DEF Init, Nowhere, Inv, NoneReleased, UsedIsInUse,
     OneTab, OwnIsNotOffered

\* While no file needs a password, no journal is that of two tabs, or offered to
\* two, and clear_unused leaves every journal a tab uses when it begins.
THEOREM OneTabForEachJournal ==
  ASSUME ~Protected
  PROVE  Spec => [](OneTab /\ UsedIsInUse)
<1>1. Inv => OneTab /\ UsedIsInUse
  BY DEF Inv
<1>2. Inv /\ [Next]_vars => Inv'
  BY StepKeeps
<1>. QED  BY <1>1, <1>2, InvAtStart, PTL DEF Spec

-----------------------------------------------------------------------------
(* Whose journals change: with passwords and clearing too.                  *)

\* A tab has journals only with a document, or while it looks for them.
Placed ==
  \A t \in Tabs : /\ seen[t] # None => Looking(t)
                  /\ own[t] # None => tab[t] = "open"
                  /\ found[t] # None => tab[t] = "open" \/ Looking(t)

\* What only one tab has, what in_use has, what is not being cleared, and what
\* is on disk as it was read: all but the exposed journals.
Sole == \A t, u \in Tabs : t # u => Uses(t) \cap Uses(u) \subseteq exposed

Held == \A t \in Tabs : Uses(t) \subseteq inUse \cup exposed

Spared == \A t \in Tabs : toClear \cap Uses(t) \subseteq exposed

OfferIsThere(t) ==
  found[t] # None /\ found[t].id \notin exposed =>
    disk[found[t].id] = [file |-> file[t], edits |-> found[t].edits]

\* The inductive invariant.
TabInv ==
  /\ TypeOK /\ Placed /\ Sole /\ Held /\ Spared /\ OwnIsNotOffered
  /\ \A t \in Tabs : OfferIsThere(t)

\* A step of one tab keeps the invariant if what it newly has is its alone, and
\* what the others have stays as it is, or is exposed.
LEMMA TabSteps ==
  ASSUME TabInv, TypeOK', NEW t \in Tabs,
         \A u \in Tabs \ {t} :
           /\ own'[u] = own[u] /\ found'[u] = found[u] /\ file'[u] = file[u]
           /\ tab'[u] = tab[u] /\ seen'[u] = seen[u]
           /\ \A id \in Uses(u) : id \in inUse /\ id \notin Uses(t) =>
                                    id \in inUse' \cup exposed',
         exposed \subseteq exposed', toClear' \subseteq toClear,
         \A id \in Uses(t)' : id \notin Uses(t) /\ id \notin exposed' =>
           /\ id \notin toClear /\ id \in inUse'
           /\ \A u \in Tabs \ {t} : id \notin Uses(u),
         \A id \in Uses(t) \cap Uses(t)' : id \in inUse => id \in inUse',
         \A id \in named : id \notin Uses(t) => disk'[id] = disk[id],
         own'[t] # None => own'[t] # FoundId(t)',
         seen'[t] # None => Looking(t)', own'[t] # None => tab'[t] = "open",
         found'[t] # None => tab'[t] = "open" \/ Looking(t)',
         OfferIsThere(t)'
  PROVE  TabInv'
<1>1. \A u \in Tabs \ {t} : /\ Uses(u)' = Uses(u) /\ FoundId(u)' = FoundId(u)
                            /\ Looking(u)' <=> Looking(u)
  BY DEF Uses, FoundId, Looking
<1>2. Placed'
  BY <1>1 DEF TabInv, Placed
<1>3. Sole'
  <2>1. \A u \in Tabs \ {t} : Uses(t)' \cap Uses(u)' \subseteq exposed'
    BY <1>1 DEF TabInv, Sole
  <2>2. \A u, w \in Tabs \ {t} : u # w => Uses(u)' \cap Uses(w)' \subseteq exposed'
    BY <1>1 DEF TabInv, Sole
  <2>. QED  BY <2>1, <2>2 DEF Sole
<1>4. Held'
  <2>1. \A id \in Uses(t)' : id \in inUse' \cup exposed'
    BY DEF TabInv, Held
  <2>2. ASSUME NEW u \in Tabs \ {t}, NEW id \in Uses(u)
        PROVE  id \in inUse' \cup exposed'
    BY <2>2 DEF TabInv, Held, Sole
  <2>. QED  BY <1>1, <2>1, <2>2 DEF Held
<1>5. Spared'
  <2>1. toClear' \cap Uses(t)' \subseteq exposed'
    BY DEF TabInv, Spared
  <2>2. \A u \in Tabs \ {t} : toClear' \cap Uses(u)' \subseteq exposed'
    BY <1>1 DEF TabInv, Spared
  <2>. QED  BY <2>1, <2>2 DEF Spared
<1>6. OwnIsNotOffered'
  BY <1>1 DEF TabInv, OwnIsNotOffered
<1>7. ASSUME NEW u \in Tabs \ {t} PROVE OfferIsThere(u)'
  <2>1. SUFFICES ASSUME found[u] # None, found[u].id \notin exposed'
                 PROVE  disk'[found[u].id] =
                          [file |-> file[u], edits |-> found[u].edits]
    BY DEF OfferIsThere
  <2>2. found[u].id \in Uses(u) /\ found[u].id \in named
    BY <2>1, UsesFacts DEF TabInv, TypeOK, Found
  <2>3. found[u].id \notin Uses(t)
    BY <2>1, <2>2 DEF TabInv, Sole
  <2>4. OfferIsThere(u)
    BY DEF TabInv
  <2>. QED  BY <2>1, <2>2, <2>3, <2>4 DEF OfferIsThere
<1>. QED  BY <1>2, <1>3, <1>4, <1>5, <1>6, <1>7 DEF TabInv

\* A tab that only goes on with its opening, or fails to.
LEMMA GoingOn ==
  ASSUME TabInv, TypeOK', NEW t \in Tabs,
         UNCHANGED <<disk, own, found, inUse, toClear, exposed>>,
         \A u \in Tabs \ {t} : /\ file'[u] = file[u] /\ tab'[u] = tab[u]
                               /\ seen'[u] = seen[u],
         file'[t] = file[t] \/ found[t] = None,
         seen'[t] # None => Looking(t)', own[t] # None => tab'[t] = "open",
         found[t] # None => tab'[t] = "open" \/ Looking(t)'
  PROVE  TabInv'
<1>1. Uses(t)' = Uses(t) /\ FoundId(t)' = FoundId(t)
  BY DEF Uses, FoundId
<1>2. OfferIsThere(t)'
  BY DEF TabInv, OfferIsThere
<1>3. own'[t] # None => own'[t] # FoundId(t)'
  BY <1>1 DEF TabInv, OwnIsNotOffered
<1>. QED  BY <1>1, <1>2, <1>3, TabSteps

\* A tab that has no document any more.
LEMMA LeavingTab ==
  ASSUME TabInv, TypeOK', NEW t \in Tabs, NoDocument(t),
         UNCHANGED <<file, seen, toClear>>, exposed \subseteq exposed',
         \A u \in Tabs \ {t} :
           /\ tab'[u] = tab[u]
           /\ \A id \in Uses(u) : id \in inUse /\ id \notin Uses(t) =>
                                    id \in inUse' \cup exposed',
         \A id \in named : id \notin Uses(t) => disk'[id] = disk[id],
         seen[t] = None
  PROVE  TabInv'
<1>1. /\ own'[t] = None /\ found'[t] = None
      /\ \A u \in Tabs \ {t} : own'[u] = own[u] /\ found'[u] = found[u]
  BY DEF NoDocument, TabInv, TypeOK
<1>2. Uses(t)' = {} /\ OfferIsThere(t)'
  BY <1>1 DEF Uses, FoundId, OfferIsThere
<1>. QED  BY <1>1, <1>2, TabSteps

\* The journal it has found becomes the document's own.
LEMMA TakingTab ==
  ASSUME TabInv, TypeOK', NEW t \in Tabs, found[t] # None,
         own' = [own EXCEPT ![t] = found[t].id],
         found' = [found EXCEPT ![t] = None],
         disk' = [disk EXCEPT ![found[t].id] =
                    [file |-> file[t], edits |-> found[t].edits]],
         UNCHANGED <<inUse, file, seen, toClear, exposed>>, seen[t] = None,
         tab'[t] = "open", \A u \in Tabs \ {t} : tab'[u] = tab[u]
  PROVE  TabInv'
<1>1. /\ own'[t] = found[t].id /\ found'[t] = None
      /\ \A u \in Tabs \ {t} : own'[u] = own[u] /\ found'[u] = found[u]
  BY DEF TabInv, TypeOK
<1>2. found[t].id \in Uses(t)
  BY UsesFacts DEF TabInv
<1>3. /\ Uses(t)' \subseteq Uses(t) /\ FoundId(t)' = None
      /\ OfferIsThere(t)'
  BY <1>1, <1>2 DEF Uses, FoundId, OfferIsThere
<1>4. \A id \in named : id \notin Uses(t) => disk'[id] = disk[id]
  BY <1>2 DEF TabInv, TypeOK
<1>. QED  BY <1>1, <1>3, <1>4, TabSteps

\* The steps of an opening.
LEMMA OpeningKeepsTabs ==
  ASSUME TabInv, TypeOK', NEW t \in Tabs, OpeningStep(t)
  PROVE  TabInv'
<1>1. CASE StartLoad(t)
  <2>1. found[t] = None /\ own[t] = None /\ seen[t] = None
    BY <1>1 DEF StartLoad, TabInv, Placed, Looking
  <2>2. /\ UNCHANGED <<disk, own, found, inUse, toClear, exposed, seen>>
        /\ \A u \in Tabs \ {t} : file'[u] = file[u] /\ tab'[u] = tab[u]
    BY <1>1 DEF StartLoad, docVars, loadVars, clearVars, ghosts, TabInv, TypeOK
  <2>. QED  BY <2>1, <2>2, GoingOn
<1>2. CASE LoadFails(t)
  <2>1. found[t] = None /\ own[t] = None /\ seen[t] = None
    BY <1>2 DEF LoadFails, TabInv, Placed, Looking
  <2>2. /\ UNCHANGED <<disk, own, found, inUse, toClear, exposed, seen, file>>
        /\ \A u \in Tabs \ {t} : tab'[u] = tab[u]
    BY <1>2 DEF LoadFails, docVars, loadVars, clearVars, ghosts, TabInv, TypeOK
  <2>. QED  BY <2>1, <2>2, GoingOn
<1>3. CASE LookForOwn(t)
  <2>1. found[t] = None /\ own[t] = None /\ seen[t] = None
    BY <1>3 DEF LookForOwn, TabInv, Placed, Looking
  <2>2. /\ UNCHANGED <<disk, own, found, inUse, toClear, exposed, seen, file>>
        /\ \A u \in Tabs \ {t} : tab'[u] = tab[u]
    BY <1>3 DEF LookForOwn, docVars, clearVars, ghosts, TabInv, TypeOK
  <2>. QED  BY <2>1, <2>2, GoingOn
<1>4. CASE LookInFolder(t)
  <2>1. own[t] = None /\ found[t] = None
    BY <1>4 DEF LookInFolder, Searched, TabInv, Placed, Looking
  <2>2. seen[t] = None
    BY <1>4 DEF LookInFolder, Searched, TabInv, Placed, Looking
  <2>3. /\ UNCHANGED <<disk, own, found, inUse, toClear, exposed, seen, file>>
        /\ \A u \in Tabs \ {t} : tab'[u] = tab[u]
    BY <1>4 DEF LookInFolder, docVars, clearVars, ghosts, TabInv, TypeOK
  <2>. QED  BY <2>1, <2>2, <2>3, GoingOn
<1>5. CASE ReadJournal(t)
  <2>1. Looking(t) /\ own[t] = None
    BY <1>5 DEF ReadJournal, TabInv, Placed, Looking
  <2>2. /\ UNCHANGED <<disk, own, found, inUse, toClear, exposed, tab, file>>
        /\ \A u \in Tabs \ {t} : seen'[u] = seen[u]
    BY <1>5 DEF ReadJournal, docVars, clearVars, ghosts, TabInv, TypeOK
  <2>3. Looking(t)'
    BY <2>1, <2>2 DEF Looking
  <2>. QED  BY <2>1, <2>2, <2>3, GoingOn
<1>6. CASE Enter(t)
  <2>1. /\ seen[t] # None /\ seen' = [seen EXCEPT ![t] = None]
        /\ UNCHANGED <<disk, own, tab, file, toClear>>
    BY <1>6 DEF Enter, tabVars, clearVars
  <2>2. Looking(t) /\ own[t] = None
    BY <2>1 DEF TabInv, Placed, Looking
  <2>3. seen'[t] = None /\ \A u \in Tabs \ {t} : seen'[u] = seen[u]
    BY <2>1 DEF TabInv, TypeOK
  <2>4. Looking(t)'
    BY <2>1, <2>2 DEF Looking
  <2>5. CASE seen[t].id \in inUse
    <3>1. UNCHANGED <<inUse, found, exposed>>
      BY <1>6, <2>5 DEF Enter
    <3>. QED  BY <2>1, <2>2, <2>3, <2>4, <3>1, GoingOn
  <2>6. CASE seen[t].id \notin inUse
    <3> DEFINE s == seen[t]
    <3>1. /\ inUse' = inUse \cup {s.id} /\ found' = [found EXCEPT ![t] = s]
          /\ exposed' = exposed \cup (IF Overtaken(t) THEN {s.id} ELSE {})
      BY <1>6, <2>6 DEF Enter
    <3>2. found'[t] = s /\ \A u \in Tabs \ {t} : found'[u] = found[u]
      BY <3>1 DEF TabInv, TypeOK
    <3>3. Uses(t)' \subseteq {s.id} /\ FoundId(t)' = s.id /\ own'[t] = None
      BY <2>1, <2>2, <3>2 DEF Uses, FoundId
    <3>4. s.id \notin exposed' =>
            /\ s.id \notin toClear
            /\ disk[s.id] = [file |-> file[t], edits |-> s.edits]
      BY <3>1 DEF Overtaken
    <3>5. s.id \notin exposed' => \A u \in Tabs : s.id \notin Uses(u)
      BY <2>6, <3>1 DEF TabInv, Held
    <3>6. OfferIsThere(t)'
      BY <2>1, <3>2, <3>4 DEF OfferIsThere
    <3>7. \A id \in Uses(t)' : id = s.id
      BY <3>3
    <3> HIDE DEF s
    <3>. QED
      BY <2>1, <2>2, <2>3, <2>4, <3>1, <3>2, <3>3, <3>4, <3>5, <3>6, <3>7, TabSteps
  <2>. QED  BY <2>5, <2>6
<1>7. CASE LoadOffers(t)
  <2>1. /\ UNCHANGED <<disk, inUse, file, toClear, exposed, seen>>
        /\ Looking(t) /\ seen[t] = None
        /\ \A u \in Tabs \ {t} : tab'[u] = tab[u]
    BY <1>7 DEF LoadOffers, Searched, loadVars, clearVars, ghosts, TabInv, TypeOK
  <2>2. CASE tab[t] \in {"takingAbandoned", "findingAbandoned"}
    BY <1>7, <2>1, <2>2, LeavingTab DEF LoadOffers
  <2>3. CASE tab[t] \notin {"takingAbandoned", "findingAbandoned"}
    <3>1. UNCHANGED <<own, found>> /\ tab'[t] = "open"
      BY <1>7, <2>3 DEF LoadOffers, TabInv, TypeOK
    <3>. QED  BY <2>1, <3>1, GoingOn
  <2>. QED  BY <2>2, <2>3
<1>8. CASE LoadReplays(t)
  <2>1. /\ UNCHANGED <<inUse, file, toClear, exposed, seen>>
        /\ found[t] # None /\ seen[t] = None
        /\ disk' = [disk EXCEPT ![found[t].id] =
                      [file |-> file[t], edits |-> found[t].edits]]
        /\ \A u \in Tabs \ {t} : tab'[u] = tab[u]
    BY <1>8 DEF LoadReplays, Searched, TakesOver, loadVars, clearVars, TabInv, TypeOK
  <2>2. CASE tab[t] = "takingAbandoned"
    <3>1. \A id \in named : id \notin Uses(t) => disk'[id] = disk[id]
      BY <2>1, UsesFacts DEF TabInv, TypeOK
    <3>. QED  BY <1>8, <2>1, <2>2, <3>1, LeavingTab DEF LoadReplays
  <2>3. CASE tab[t] # "takingAbandoned"
    <3>1. /\ own' = [own EXCEPT ![t] = found[t].id]
          /\ found' = [found EXCEPT ![t] = None] /\ tab'[t] = "open"
      BY <1>8, <2>3 DEF LoadReplays, TabInv, TypeOK
    <3>. QED  BY <2>1, <3>1, TakingTab
  <2>. QED  BY <2>2, <2>3
<1>. QED  BY <1>1, <1>2, <1>3, <1>4, <1>5, <1>6, <1>7, <1>8 DEF OpeningStep

\* A document gives up journals it has: they may go from the disk and from in_use.
LEMMA GivingUp ==
  ASSUME TabInv, TypeOK', NEW t \in Tabs, tab[t] = "open",
         UNCHANGED <<tab, seen, toClear, exposed>>,
         \A u \in Tabs \ {t} :
           own'[u] = own[u] /\ found'[u] = found[u] /\ file'[u] = file[u],
         own'[t] \in {own[t], None}, found'[t] \in {found[t], None},
         file'[t] = file[t] \/ found'[t] = None,
         \A id \in named :
           id \notin Uses(t) \/ id \in Uses(t)' => disk'[id] = disk[id],
         \A id \in inUse : id \notin Uses(t) \/ id \in Uses(t)' => id \in inUse'
  PROVE  TabInv'
<1>1. FoundId(t)' \in {FoundId(t), None} /\ Uses(t)' \subseteq Uses(t)
  BY DEF FoundId, Uses
<1>2. own'[t] # None => own'[t] # FoundId(t)'
  BY <1>1 DEF TabInv, OwnIsNotOffered
<1>3. OfferIsThere(t)'
  <2>1. SUFFICES ASSUME found'[t] # None, found[t].id \notin exposed
                 PROVE  disk'[found[t].id] =
                          [file |-> file[t], edits |-> found[t].edits]
    BY DEF OfferIsThere
  <2>2. found[t] # None /\ found'[t] = found[t]
    BY <2>1
  <2>3. found[t].id \in Uses(t)' /\ found[t].id \in named
    BY <2>2, JournalsAssumption DEF TabInv, TypeOK, Found, FoundId, Uses
  <2>4. OfferIsThere(t)
    BY DEF TabInv
  <2>. QED  BY <2>1, <2>2, <2>3, <2>4 DEF OfferIsThere
<1>4. seen'[t] = None
  BY DEF TabInv, Placed, Looking
<1>. QED  BY <1>1, <1>2, <1>3, <1>4, TabSteps

\* A journal kept in step with the edits: it is new, or the tab's own.
LEMMA KeepJournalKeepsTabs ==
  ASSUME TabInv, TypeOK', NEW t \in Tabs, NEW edits \in Work,
         KeepJournal(t, edits), tab[t] = "open",
         UNCHANGED <<tab, file, found, seen, toClear>>
  PROVE  TabInv'
<1>0. seen[t] = None /\ FoundId(t)' = FoundId(t)
  BY DEF TabInv, Placed, Looking, FoundId
<1>1. CASE edits # <<>>
  <2>1. PICK id \in IF own[t] = None THEN JournalIds \ named ELSE {own[t]} :
          /\ own' = [own EXCEPT ![t] = id]
          /\ disk' = [disk EXCEPT ![id] = [file |-> file[t], edits |-> edits]]
          /\ inUse' = inUse \cup {id} /\ UNCHANGED exposed
    BY <1>1 DEF KeepJournal
  <2>2. /\ own'[t] = id /\ id # None
        /\ \A u \in Tabs \ {t} : own'[u] = own[u]
        /\ \A other \in JournalIds \ {id} : disk'[other] = disk[other]
    BY <2>1, JournalsAssumption DEF TabInv, TypeOK
  <2>3. Uses(t)' = {id, FoundId(t)} \ {None}
    BY <1>0, <2>2 DEF Uses
  <2>4. CASE own[t] = None
    <3>1. id \notin named /\ Uses(t) = {FoundId(t)} \ {None}
      BY <2>1, <2>4 DEF Uses
    <3>2. \A u \in Tabs : Uses(u) \subseteq named
      BY DEF TabInv, TypeOK, Uses, FoundId, Found
    <3>3. \A other \in Uses(t)' : other \notin Uses(t) => other = id
      BY <2>3, <3>1
    <3>4. id \notin toClear /\ id # FoundId(t)
      BY <2>2, <3>1, <3>2 DEF TabInv, TypeOK
    <3>5. OfferIsThere(t)'
      <4>1. found[t] # None => found[t].id \in named /\ found[t].id \in JournalIds
        BY DEF TabInv, TypeOK, Found
      <4>. QED  BY <2>1, <2>2, <3>1, <4>1 DEF TabInv, OfferIsThere
    <3>6. \A other \in named : disk'[other] = disk[other]
      BY <2>2, <3>1 DEF TabInv, TypeOK
    <3>. QED
      BY <1>0, <2>1, <2>2, <2>3, <3>1, <3>2, <3>3, <3>4, <3>5, <3>6, TabSteps
  <2>5. CASE own[t] # None
    <3>1. id = own[t] /\ Uses(t)' = Uses(t) /\ id \in Uses(t) /\ id # FoundId(t)
      BY <2>1, <2>2, <2>3, <2>5, <1>0 DEF Uses, TabInv, OwnIsNotOffered
    <3>2. OfferIsThere(t)'
      <4>1. found[t] # None =>
              found[t].id \in JournalIds /\ found[t].id = FoundId(t)
        BY DEF TabInv, TypeOK, Found, FoundId
      <4>. QED  BY <2>1, <2>2, <3>1, <4>1 DEF TabInv, OfferIsThere
    <3>3. \A other \in named : other \notin Uses(t) => disk'[other] = disk[other]
      BY <2>2, <3>1 DEF TabInv, TypeOK
    <3>. QED
      BY <1>0, <2>1, <2>2, <3>1, <3>2, <3>3, TabSteps
  <2>. QED  BY <2>4, <2>5
<1>2. CASE edits = <<>>
  <2>1. /\ own' = [own EXCEPT ![t] = None]
        /\ disk' = [id \in JournalIds |-> IF id = own[t] THEN None ELSE disk[id]]
        /\ inUse' = inUse \ {own[t]} /\ UNCHANGED exposed
    BY <1>2 DEF KeepJournal, ghosts
  <2>2. own'[t] = None /\ \A u \in Tabs \ {t} : own'[u] = own[u]
    BY <2>1 DEF TabInv, TypeOK
  <2>3. /\ own[t] # None => own[t] \in Uses(t)
        /\ own[t] \notin Uses(t)' /\ None \notin named /\ None \notin inUse
    BY <1>0, <2>2, JournalsAssumption DEF Uses, TabInv, OwnIsNotOffered, TypeOK
  <2>4. \A id \in named :
          id \notin Uses(t) \/ id \in Uses(t)' => disk'[id] = disk[id]
    BY <2>1, <2>3 DEF TabInv, TypeOK
  <2>5. \A id \in inUse : id \notin Uses(t) \/ id \in Uses(t)' => id \in inUse'
    BY <2>1, <2>3
  <2>. QED  BY <2>1, <2>2, <2>4, <2>5, GivingUp
<1>. QED  BY <1>1, <1>2

\* An edit or an undo keeps the journal of what is then unsaved.
LEMMA EditsAreKept ==
  ASSUME TypeOK, NEW t \in Tabs, Edit(t) \/ Undo(t)
  PROVE  /\ work'[t] \in Work /\ KeepJournal(t, work'[t])
         /\ tab[t] = "open" /\ UNCHANGED <<tab, file, found, seen, toClear>>
<1>1. CASE Edit(t)
  <2>1. Append(work[t], t) \in Work /\ work'[t] = Append(work[t], t)
    BY <1>1, WorkFacts DEF Edit, TypeOK
  <2>. QED
    BY <1>1, <2>1 DEF Edit, tabVars, foundVars, loadVars, clearVars
<1>2. CASE Undo(t)
  <2>1. /\ SubSeq(work[t], 1, Len(work[t]) - 1) \in Work
        /\ work'[t] = SubSeq(work[t], 1, Len(work[t]) - 1)
    BY <1>2, WorkFacts DEF Undo, TypeOK
  <2>. QED
    BY <1>2, <2>1 DEF Undo, tabVars, foundVars, loadVars, clearVars
<1>. QED  BY <1>1, <1>2

\* The steps of an open document, and closing one.
LEMMA DocumentKeepsTabs ==
  ASSUME TabInv, TypeOK', NEW t \in Tabs, DocumentStep(t)
  PROVE  TabInv'
<1>0. None \notin named /\ None \notin inUse
  BY JournalsAssumption DEF TabInv, TypeOK
<1>1. CASE Edit(t) \/ Undo(t)
  BY <1>1, EditsAreKept, KeepJournalKeepsTabs DEF TabInv
<1>2. CASE Recover(t)
  <2>1. /\ found[t] # None /\ tab[t] = "open"
        /\ UNCHANGED <<inUse, tab, file, seen, toClear, exposed>>
    BY <1>2 DEF Recover, TabInv, TypeOK, tabVars, loadVars, clearVars
  <2>2. seen[t] = None
    BY <2>1 DEF TabInv, Placed, Looking
  <2>. QED  BY <1>2, <2>1, <2>2, TakingTab DEF Recover
<1>3. CASE DiscardRecovered(t)
  <2>1. /\ found[t] # None /\ tab[t] = "open"
        /\ disk' = [disk EXCEPT ![found[t].id] = None]
        /\ inUse' = inUse \ {found[t].id}
        /\ found' = [found EXCEPT ![t] = None]
        /\ UNCHANGED <<own, tab, file, seen, toClear, exposed>>
    BY <1>3 DEF DiscardRecovered, tabVars, loadVars, clearVars, ghosts
  <2>2. found'[t] = None /\ \A u \in Tabs \ {t} : found'[u] = found[u]
    BY <2>1 DEF TabInv, TypeOK
  <2>3. found[t].id \in Uses(t) /\ found[t].id \notin Uses(t)'
    BY <2>1, <2>2, UsesFacts DEF Uses, FoundId, TabInv, OwnIsNotOffered
  <2>4. \A id \in named :
          id \notin Uses(t) \/ id \in Uses(t)' => disk'[id] = disk[id]
    BY <2>1, <2>3 DEF TabInv, TypeOK
  <2>5. \A id \in inUse : id \notin Uses(t) \/ id \in Uses(t)' => id \in inUse'
    BY <2>1, <2>3
  <2>. QED  BY <2>1, <2>2, <2>4, <2>5, GivingUp
<1>4. ASSUME NEW f \in Files, Save(t, f) PROVE TabInv'
  <2>1. /\ tab[t] = "open" /\ own' = [own EXCEPT ![t] = None]
        /\ file' = [file EXCEPT ![t] = f]
        /\ disk' = [id \in JournalIds |-> IF id = own[t] THEN None ELSE disk[id]]
        /\ UNCHANGED <<tab, seen, toClear, exposed>>
    BY <1>4 DEF Save, loadVars, clearVars, ghosts
  <2>2. /\ own'[t] = None /\ file'[t] = f
        /\ \A u \in Tabs \ {t} : own'[u] = own[u] /\ file'[u] = file[u]
    BY <2>1 DEF TabInv, TypeOK
  <2>3. /\ \A u \in Tabs \ {t} : found'[u] = found[u]
        /\ f = file[t] => found'[t] = found[t] /\ inUse' = inUse \ {own[t]}
        /\ f # file[t] => found'[t] = None /\ inUse' = inUse \ {own[t], FoundId(t)}
    BY <1>4 DEF Save, TabInv, TypeOK
  <2>4. own[t] # None => own[t] \in Uses(t) /\ own[t] # FoundId(t)
    BY UsesFacts DEF TabInv, OwnIsNotOffered
  <2>5. FoundId(t)' = (IF f = file[t] THEN FoundId(t) ELSE None)
    BY <2>3 DEF FoundId
  <2>6. own[t] \notin Uses(t)' /\ (f # file[t] => Uses(t)' = {})
    BY <2>2, <2>4, <2>5 DEF Uses
  <2>7. \A id \in named :
          id \notin Uses(t) \/ id \in Uses(t)' => disk'[id] = disk[id]
    BY <1>0, <2>1, <2>4, <2>6 DEF TabInv, TypeOK
  <2>8. \A id \in inUse : id \notin Uses(t) \/ id \in Uses(t)' => id \in inUse'
    BY <1>0, <2>3, <2>4, <2>6 DEF Uses
  <2>. QED  BY <2>1, <2>2, <2>3, <2>7, <2>8, GivingUp
<1>5. CASE Lose(t)
  <2>1. /\ tab[t] = "open" /\ NoDocument(t)
        /\ inUse' = inUse \ {own[t], FoundId(t)}
        /\ UNCHANGED <<disk, file, seen, toClear, exposed>>
        /\ \A u \in Tabs \ {t} : tab'[u] = tab[u]
    BY <1>5 DEF Lose, loadVars, clearVars, ghosts, TabInv, TypeOK
  <2>2. seen[t] = None
    BY <2>1 DEF TabInv, Placed, Looking
  <2>3. \A id \in inUse : id \notin Uses(t) => id \in inUse'
    BY <1>0, <2>1 DEF Uses
  <2>. QED  BY <2>1, <2>2, <2>3, LeavingTab
<1>6. CASE Close(t)
  <2>1. /\ tab[t] \in {"open", "failed", "asking"} /\ NoDocument(t)
        /\ disk' = [id \in JournalIds |-> IF id = own[t] THEN None ELSE disk[id]]
        /\ inUse' = inUse \ {own[t], FoundId(t), released[t]}
        /\ exposed' = exposed \cup TakenFrom(t)
        /\ UNCHANGED <<file, seen, toClear>>
        /\ \A u \in Tabs \ {t} : tab'[u] = tab[u]
    BY <1>6 DEF Close, loadVars, clearVars, TabInv, TypeOK
  <2>2. seen[t] = None
    BY <2>1 DEF TabInv, Placed, Looking
  <2>3. \A u \in Tabs \ {t} : \A id \in Uses(u) :
          id \in inUse /\ id \notin Uses(t) => id \in inUse' \cup exposed'
    BY <1>0, <2>1 DEF Uses, TakenFrom
  <2>4. \A id \in named : id \notin Uses(t) => disk'[id] = disk[id]
    BY <1>0, <2>1 DEF Uses, TabInv, TypeOK
  <2>. QED  BY <2>1, <2>2, <2>3, <2>4, LeavingTab
<1>7. CASE CloseLoading(t)
  <2>1. /\ inUse' = IF tab[t] = "loading" THEN inUse \ {released[t]} ELSE inUse
        /\ exposed' = exposed \cup TakenFrom(t)
        /\ UNCHANGED <<disk, own, found, file, seen, toClear>>
        /\ \A u \in Tabs \ {t} : tab'[u] = tab[u]
    BY <1>7 DEF CloseLoading, docVars, loadVars, clearVars, TabInv, TypeOK
  <2>2. own[t] = None /\ (Looking(t) => Looking(t)')
    BY <1>7 DEF CloseLoading, TabInv, Placed, TypeOK, Looking
  <2>3. found[t] # None \/ seen[t] # None => Looking(t)
    BY <1>7 DEF CloseLoading, TabInv, Placed
  <2>4. Uses(t)' = Uses(t) /\ OfferIsThere(t)'
    BY <2>1 DEF Uses, FoundId, OfferIsThere, TabInv
  <2>5. \A u \in Tabs \ {t} : \A id \in Uses(u) :
          id \in inUse => id \in inUse' \cup exposed'
    BY <2>1 DEF TakenFrom
  <2>6. \A id \in Uses(t) : id \in inUse => id \in inUse'
    <3>1. tab[t] = "loading" => Uses(t) = {}
      BY <2>2, <2>3 DEF Looking, Uses, FoundId
    <3>. QED  BY <2>1, <3>1
  <2>. QED  BY <2>1, <2>2, <2>3, <2>4, <2>5, <2>6, TabSteps
<1>. QED  BY <1>1, <1>2, <1>3, <1>4, <1>5, <1>6, <1>7 DEF DocumentStep

\* Every step keeps the invariant.
LEMMA StepKeepsTabs ==
  ASSUME TabInv, [Next]_vars
  PROVE  TabInv'
<1>0. TypeOK'
  BY StepKeepsTypes DEF TabInv
<1>1. CASE ClearStarts
  <2>1. /\ UNCHANGED <<disk, inUse, tab, file, own, found, seen, exposed>>
        /\ toClear' = OnDisk \ inUse
    BY <1>1 DEF ClearStarts, tabVars, docVars, loadVars, ghosts
  <2>2. \A t \in Tabs : Uses(t)' = Uses(t) /\ (OfferIsThere(t)' <=> OfferIsThere(t))
    BY <2>1 DEF Uses, FoundId, OfferIsThere
  <2>3. Spared'
    BY <2>1, <2>2 DEF Spared, Held, TabInv
  <2>. QED
    BY <1>0, <2>1, <2>2, <2>3 DEF TabInv, Placed, Sole, Held, OwnIsNotOffered,
       Looking, FoundId
<1>2. ASSUME NEW id \in JournalIds, ClearRemoves(id) PROVE TabInv'
  <2>1. /\ UNCHANGED <<inUse, tab, file, own, found, seen, exposed>>
        /\ id \in toClear /\ toClear' = toClear \ {id}
        /\ disk' = [disk EXCEPT ![id] = None]
    BY <1>2 DEF ClearRemoves, tabVars, docVars, loadVars, ghosts
  <2>2. \A t \in Tabs : Uses(t)' = Uses(t)
    BY <2>1 DEF Uses, FoundId
  <2>3. \A other \in JournalIds \ {id} : disk'[other] = disk[other]
    BY <2>1 DEF TabInv, TypeOK
  <2>4. ASSUME NEW t \in Tabs PROVE OfferIsThere(t)'
    <3>1. SUFFICES ASSUME found[t] # None, found[t].id \notin exposed
                   PROVE  disk'[found[t].id] =
                            [file |-> file[t], edits |-> found[t].edits]
      BY <2>1 DEF OfferIsThere
    <3>2. found[t].id \in Uses(t) /\ found[t].id \in JournalIds
      BY <3>1, UsesFacts DEF TabInv, TypeOK, Found
    <3>3. found[t].id # id
      BY <2>1, <3>1, <3>2 DEF TabInv, Spared
    <3>4. OfferIsThere(t)
      BY DEF TabInv
    <3>. QED  BY <2>3, <3>1, <3>2, <3>3, <3>4 DEF OfferIsThere
  <2>. QED
    BY <1>0, <2>1, <2>2, <2>4 DEF TabInv, Placed, Sole, Held, Spared,
       OwnIsNotOffered, Looking, FoundId
<1>3. CASE ClearEnds \/ UNCHANGED vars
  <2>1. UNCHANGED <<disk, inUse, tab, file, own, found, seen, exposed, toClear>>
    BY <1>3 DEF ClearEnds, tabVars, docVars, loadVars, ghosts, vars
  <2>2. \A t \in Tabs : Uses(t)' = Uses(t) /\ (OfferIsThere(t)' <=> OfferIsThere(t))
    BY <2>1 DEF Uses, FoundId, OfferIsThere
  <2>. QED
    BY <1>0, <2>1, <2>2 DEF TabInv, Placed, Sole, Held, Spared, OwnIsNotOffered,
       Looking, FoundId
<1>4. CASE Restart
  <2>1. /\ \A t \in Tabs : own'[t] = None /\ found'[t] = None /\ seen'[t] = None
        /\ toClear' = {}
    BY <1>4 DEF Restart, Nowhere
  <2>2. \A t \in Tabs : Uses(t)' = {} /\ OfferIsThere(t)'
    BY <2>1 DEF Uses, FoundId, OfferIsThere
  <2>. QED
    BY <1>0, <2>1, <2>2 DEF TabInv, Placed, Sole, Held, Spared, OwnIsNotOffered
<1>. QED
  BY <1>0, <1>1, <1>2, <1>3, <1>4, OpeningKeepsTabs, DocumentKeepsTabs
     DEF Next, Clearing

\* The start of a run has the invariant.
LEMMA TabsAtStart == Init => TabInv
<1> SUFFICES ASSUME Init PROVE TabInv
  OBVIOUS
<1>1. /\ \A t \in Tabs : own[t] = None /\ found[t] = None /\ seen[t] = None
      /\ toClear = {}
  BY DEF Init, Nowhere
<1>2. \A t \in Tabs : Uses(t) = {} /\ OfferIsThere(t)
  BY <1>1 DEF Uses, FoundId, OfferIsThere
<1>. QED
  BY <1>1, <1>2, TypeAtStart DEF TabInv, Placed, Sole, Held, Spared,
     OwnIsNotOffered

\* A journal of one tab, which is not exposed, is no other's.
LEMMA NobodyElse ==
  ASSUME TabInv, NEW t \in Tabs, NEW id \in Uses(t), id \notin exposed
  PROVE  \A u \in Tabs \ {t} : id \notin Uses(u)
BY DEF TabInv, Sole

\* A step that changes a journal answers it, or clears it.
LEMMA StepAnswers ==
  ASSUME TabInv, [Next]_vars, NEW id \in JournalIds, id \notin exposed,
         disk[id] # None, disk'[id] # disk[id]
  PROVE  MayChange(id)
<1>0. /\ id \in named /\ id # None
      /\ \A t \in Tabs : found[t] # None => /\ found[t].id \in JournalIds
                                            /\ FoundId(t) = found[t].id
  BY JournalsAssumption DEF TabInv, TypeOK, OnDisk, Found, FoundId
<1>1. ASSUME NEW t \in Tabs, found[t] # None,
             disk' = [disk EXCEPT ![found[t].id] =
                        [file |-> file[t], edits |-> found[t].edits]]
      PROVE  FALSE
  <2>1. id = found[t].id
    BY <1>0, <1>1 DEF TabInv, TypeOK
  <2>2. disk[id] = [file |-> file[t], edits |-> found[t].edits]
    BY <1>1, <2>1 DEF TabInv, OfferIsThere
  <2>. QED  BY <1>1, <2>1, <2>2 DEF TabInv, TypeOK
<1>2. ASSUME NEW t \in Tabs,
             disk' = [other \in JournalIds |-> IF other = own[t] THEN None
                                               ELSE disk[other]]
      PROVE  /\ id = own[t] /\ disk'[id] = None
             /\ \A u \in Tabs \ {t} : id \notin Uses(u)
  <2>1. id = own[t] /\ disk'[id] = None
    BY <1>2
  <2>. QED  BY <1>0, <2>1, UsesFacts, NobodyElse DEF TabInv
<1>3. ASSUME NEW t \in Tabs, OpeningStep(t) PROVE MayChange(id)
  <2>1. disk' # disk
    OBVIOUS
  <2>2. LoadReplays(t)
    BY <1>3, <2>1 DEF OpeningStep, StartLoad, LoadFails, LookForOwn,
       LookInFolder, ReadJournal, Enter, LoadOffers
  <2>. QED  BY <1>1, <2>2 DEF LoadReplays, TakesOver
<1>4. ASSUME NEW t \in Tabs, DocumentStep(t) PROVE MayChange(id)
  <2>1. CASE Edit(t) \/ Undo(t)
    <3>1. /\ KeepJournal(t, work'[t]) /\ tab'[t] = "open"
      BY <2>1, EditsAreKept DEF TabInv
    <3>2. CASE work'[t] # <<>>
      <4>1. PICK name \in IF own[t] = None THEN JournalIds \ named ELSE {own[t]} :
              disk' = [disk EXCEPT ![name] = [file |-> file[t], edits |-> work'[t]]]
        BY <3>1, <3>2 DEF KeepJournal
      <4>2. id = name
        BY <4>1 DEF TabInv, TypeOK
      <4>3. id = own[t] /\ disk'[id] = [file |-> file[t], edits |-> work'[t]]
        BY <1>0, <4>1, <4>2 DEF TabInv, TypeOK
      <4>4. \A u \in Tabs \ {t} : id \notin Uses(u)
        BY <1>0, <4>3, UsesFacts, NobodyElse DEF TabInv
      <4>. QED  BY <3>1, <3>2, <4>3, <4>4 DEF MayChange, Answers
    <3>3. CASE work'[t] = <<>>
      <4>1. disk' = [other \in JournalIds |-> IF other = own[t] THEN None
                                              ELSE disk[other]]
        BY <3>1, <3>3 DEF KeepJournal
      <4>. QED  BY <1>2, <3>1, <3>3, <4>1 DEF MayChange, Answers
    <3>. QED  BY <3>2, <3>3
  <2>2. CASE Recover(t)
    BY <1>1, <2>2 DEF Recover, TabInv, TypeOK
  <2>3. CASE DiscardRecovered(t)
    <3>1. /\ found[t] # None /\ tab[t] = "open"
          /\ disk' = [disk EXCEPT ![found[t].id] = None]
          /\ found' = [found EXCEPT ![t] = None]
      BY <2>3 DEF DiscardRecovered
    <3>2. id = FoundId(t) /\ disk'[id] = None /\ found'[t] = None
      BY <1>0, <3>1 DEF TabInv, TypeOK
    <3>3. \A u \in Tabs \ {t} : id \notin Uses(u)
      BY <1>0, <3>1, <3>2, UsesFacts, NobodyElse DEF TabInv
    <3>. QED  BY <3>1, <3>2, <3>3 DEF MayChange, Answers
  <2>4. ASSUME NEW f \in Files, Save(t, f) PROVE MayChange(id)
    <3>1. /\ disk' = [other \in JournalIds |-> IF other = own[t] THEN None
                                               ELSE disk[other]]
          /\ tab'[t] = "open" /\ work'[t] = <<>>
      BY <2>4 DEF Save, TabInv, TypeOK
    <3>. QED  BY <1>2, <3>1 DEF MayChange, Answers
  <2>5. CASE Close(t)
    <3>1. /\ disk' = [other \in JournalIds |-> IF other = own[t] THEN None
                                               ELSE disk[other]]
          /\ tab'[t] = "closed"
      BY <2>5 DEF Close, TabInv, TypeOK
    <3>. QED  BY <1>2, <3>1 DEF MayChange, Answers
  <2>. QED
    BY <1>4, <2>1, <2>2, <2>3, <2>4, <2>5 DEF DocumentStep, Lose, CloseLoading
<1>5. ASSUME NEW gone \in JournalIds, ClearRemoves(gone) PROVE MayChange(id)
  <2>1. id = gone /\ id \in toClear /\ disk'[id] = None
    BY <1>5 DEF ClearRemoves, TabInv, TypeOK
  <2>. QED  BY <2>1 DEF MayChange, TabInv, Spared
<1>. QED
  BY <1>3, <1>4, <1>5 DEF Next, Clearing, ClearStarts, ClearEnds, Restart, vars

\* The edits in a journal change or go only with the document of the one tab that
\* has it, by the answer to its offer, or by a clearing while no tab has it, with
\* passwords and clearing too, for every journal that is not exposed
\* (release, forget_journals, keep_journal, clear_unused).
THEOREM JournalsChangeByTheirTab == Spec => OnlyByItsTab
<1>1. TabInv /\ [Next]_vars =>
        [\A id \in JournalIds \ exposed :
           disk[id] # None /\ disk'[id] # disk[id] => MayChange(id)]_vars
  BY StepAnswers
<1>2. TabInv /\ [Next]_vars => TabInv'
  BY StepKeepsTabs
<1>. QED  BY <1>1, <1>2, TabsAtStart, PTL DEF Spec, OnlyByItsTab

-----------------------------------------------------------------------------
(* The folder and the documents, while nothing is lost or cleared.          *)

\* A document's unsaved edits, if there are any, are in its own journal.
OnItsDisk(t) ==
  IF work[t] = <<>> THEN own[t] = None
  ELSE /\ tab[t] = "open" /\ own[t] # None
       /\ disk[own[t]] = [file |-> file[t], edits |-> work[t]]

\* Nobody keeps a journal without edits.
SomeEdits ==
  /\ \A id \in JournalIds : disk[id] # None => disk[id].edits # <<>>
  /\ \A t \in Tabs : /\ seen[t] # None => seen[t].edits # <<>>
                     /\ found[t] # None => found[t].edits # <<>>

\* No tab looks for a journal of its own: none was released.
NoneTakes == \A t \in Tabs : tab[t] \notin {"taking", "takingAbandoned"}

\* The folder is not being cleared.
NotCleared == toClear = {}

\* What documents of this run left in the folder they have.
OwnedOrGone == mine \cap OnDisk \subseteq {own[t] : t \in Tabs}

\* The inductive invariant.
DiskInv ==
  /\ Inv /\ SomeEdits /\ NoneTakes /\ NotCleared /\ OwnedOrGone
  /\ \A t \in Tabs : OnItsDisk(t)

\* A step of one tab: the others keep their edits and the journals with them.
LEMMA DiskSteps ==
  ASSUME DiskInv, NEW t \in Tabs,
         \A u \in Tabs \ {t} :
           /\ work'[u] = work[u] /\ own'[u] = own[u] /\ tab'[u] = tab[u]
           /\ file'[u] = file[u]
           /\ own[u] # None => disk'[own[u]] = disk[own[u]],
         OnItsDisk(t)'
  PROVE  \A u \in Tabs : OnItsDisk(u)'
<1>1. ASSUME NEW u \in Tabs \ {t} PROVE OnItsDisk(u)'
  <2>1. OnItsDisk(u)
    BY DEF DiskInv
  <2>. QED  BY <2>1 DEF OnItsDisk
<1>. QED  BY <1>1

\* What is another tab's own journal.
LEMMA OthersOwn ==
  ASSUME Inv, NEW t \in Tabs, NEW u \in Tabs \ {t}, own[u] # None
  PROVE  /\ own[u] \in named /\ own[u] \in JournalIds
         /\ own[u] \notin Uses(t) /\ own[u] # own[t]
         /\ found[t] # None => own[u] # found[t].id
<1>1. own[u] \in Uses(u) /\ own[u] \in named /\ own[u] \in JournalIds
  BY UsesFacts DEF Inv, TypeOK
<1>2. own[u] \notin Uses(t)
  BY <1>1 DEF Inv, OneTab
<1>3. own[t] # None => own[t] \in Uses(t)
  BY UsesFacts DEF Inv
<1>4. found[t] # None => found[t].id \in Uses(t)
  BY UsesFacts DEF Inv
<1>. QED  BY <1>1, <1>2, <1>3, <1>4

\* Steps that touch neither documents nor folder.
LEMMA ElsewhereSteps ==
  ASSUME DiskInv, Inv', UNCHANGED <<disk, work, own, file, mine, toClear>>, NEW t \in Tabs,
         \A u \in Tabs \ {t} : tab'[u] = tab[u],
         \/ tab'[t] = tab[t]
         \/ tab[t] # "open" /\ tab'[t] \notin {"taking", "takingAbandoned"},
         \A u \in Tabs : /\ seen'[u] # None => seen'[u].edits # <<>>
                         /\ found'[u] # None => found'[u].edits # <<>>
  PROVE  DiskInv'
<1>1. \A u \in Tabs :
        \/ tab'[u] = tab[u]
        \/ tab[u] # "open" /\ tab'[u] \notin {"taking", "takingAbandoned"}
  OBVIOUS
<1>2. NoneTakes' /\ SomeEdits' /\ NotCleared' /\ OwnedOrGone'
  BY <1>1 DEF DiskInv, NoneTakes, SomeEdits, NotCleared, OwnedOrGone, OnDisk
<1>3. ASSUME NEW u \in Tabs PROVE OnItsDisk(u)'
  <2>1. OnItsDisk(u)
    BY DEF DiskInv
  <2>. QED  BY <1>1, <2>1 DEF OnItsDisk
<1>. QED  BY <1>2, <1>3 DEF DiskInv

\* A tab's unsaved edits become these, in this journal.
LEMMA WritesItsOwn ==
  ASSUME DiskInv, Inv', NEW t \in Tabs, NEW id \in JournalIds, NEW edits \in Work,
         edits # <<>>, tab[t] = "open", own[t] \in {None, id},
         \A u \in Tabs \ {t} : own[u] # id,
         own' = [own EXCEPT ![t] = id], work' = [work EXCEPT ![t] = edits],
         disk' = [disk EXCEPT ![id] = [file |-> file[t], edits |-> edits]],
         mine' = mine \cup {id}, UNCHANGED <<tab, file, seen, toClear>>,
         found' \in {found, [found EXCEPT ![t] = None]}
  PROVE  DiskInv'
<1>1. /\ own'[t] = id /\ work'[t] = edits
      /\ disk'[id] = [file |-> file[t], edits |-> edits]
      /\ \A u \in Tabs \ {t} : own'[u] = own[u] /\ work'[u] = work[u]
      /\ \A other \in JournalIds \ {id} : disk'[other] = disk[other]
  BY DEF DiskInv, Inv, TypeOK
<1>2. id # None
  BY JournalsAssumption
<1>3. OnItsDisk(t)'
  BY <1>1, <1>2 DEF OnItsDisk
<1>4. \A u \in Tabs : OnItsDisk(u)'
  BY <1>1, <1>3, OthersOwn, DiskSteps DEF DiskInv
<1>5. SomeEdits'
  <2>1. \A u \in Tabs : found'[u] # None => found'[u] = found[u]
    BY DEF DiskInv, Inv, TypeOK
  <2>. QED  BY <1>1, <2>1 DEF DiskInv, SomeEdits
<1>6. OwnedOrGone'
  <2>1. OnDisk' \subseteq OnDisk \cup {id}
    BY <1>1 DEF OnDisk
  <2>2. \A u \in Tabs : own[u] \in {own'[v] : v \in Tabs} \cup {None}
    BY <1>1
  <2>3. None \notin OnDisk
    BY JournalsAssumption DEF OnDisk
  <2>4. id \in {own'[v] : v \in Tabs}
    BY <1>1
  <2>. QED  BY <2>1, <2>2, <2>3, <2>4 DEF DiskInv, OwnedOrGone
<1>. QED  BY <1>4, <1>5, <1>6 DEF DiskInv, NoneTakes, NotCleared

\* A tab has no unsaved edits any more, and no journal.
LEMMA RemovesItsOwn ==
  ASSUME DiskInv, Inv', NEW t \in Tabs,
         own' = [own EXCEPT ![t] = None], work' = [work EXCEPT ![t] = <<>>],
         disk' = [id \in JournalIds |-> IF id = own[t] THEN None ELSE disk[id]],
         \A u \in Tabs \ {t} : tab'[u] = tab[u] /\ file'[u] = file[u],
         tab'[t] \notin {"taking", "takingAbandoned"},
         UNCHANGED <<mine, seen, toClear>>,
         found' \in {found, [found EXCEPT ![t] = None]}
  PROVE  DiskInv'
<1>1. /\ own'[t] = None /\ work'[t] = <<>>
      /\ \A u \in Tabs \ {t} : own'[u] = own[u] /\ work'[u] = work[u]
      /\ \A id \in JournalIds : disk'[id] = IF id = own[t] THEN None ELSE disk[id]
  BY DEF DiskInv, Inv, TypeOK
<1>2. OnItsDisk(t)'
  BY <1>1 DEF OnItsDisk
<1>3. \A u \in Tabs : OnItsDisk(u)'
  BY <1>1, <1>2, OthersOwn, DiskSteps DEF DiskInv
<1>4. SomeEdits'
  <2>1. \A u \in Tabs : found'[u] # None => found'[u] = found[u]
    BY DEF DiskInv, Inv, TypeOK
  <2>. QED  BY <1>1, <2>1 DEF DiskInv, SomeEdits
<1>5. OwnedOrGone'
  <2>1. OnDisk' \subseteq OnDisk \ {own[t]}
    BY <1>1 DEF OnDisk
  <2>2. \A u \in Tabs : own[u] \in {own'[v] : v \in Tabs} \cup {own[t]}
    BY <1>1
  <2>. QED  BY <2>1, <2>2 DEF DiskInv, OwnedOrGone
<1>6. NoneTakes'
  BY DEF DiskInv, NoneTakes
<1>. QED  BY <1>3, <1>4, <1>5, <1>6 DEF DiskInv, NotCleared

\* The steps of an opening: it ends with no edits, as it began.
LEMMA OpeningKeepsDisk ==
  ASSUME DiskInv, Inv', NEW t \in Tabs, OpeningStep(t)
  PROVE  DiskInv'
<1>1. CASE StartLoad(t)
  <2>1. /\ tab[t] \notin {"open"} /\ tab' = [tab EXCEPT ![t] = "loading"]
        /\ UNCHANGED <<disk, work, own, seen, found, mine, toClear>>
        /\ \A u \in Tabs \ {t} : file'[u] = file[u]
    BY <1>1 DEF StartLoad, docVars, loadVars, clearVars, ghosts, DiskInv, Inv, TypeOK
  <2>2. tab'[t] = "loading" /\ \A u \in Tabs \ {t} : tab'[u] = tab[u]
    BY <2>1 DEF DiskInv, Inv, TypeOK
  <2>3. OnItsDisk(t)'
    BY <2>1, <2>2 DEF DiskInv, OnItsDisk
  <2>4. \A u \in Tabs : OnItsDisk(u)'
    BY <2>1, <2>2, <2>3, DiskSteps
  <2>. QED
    BY <2>1, <2>2, <2>4 DEF DiskInv, SomeEdits, NoneTakes, NotCleared, OwnedOrGone,
       OnDisk
<1>2. CASE LoadFails(t)
  <2>1. /\ \A u \in Tabs \ {t} : tab'[u] = tab[u]
        /\ tab[t] # "open" /\ tab'[t] \notin {"taking", "takingAbandoned"}
    BY <1>2 DEF LoadFails, DiskInv, Inv, TypeOK
  <2>2. UNCHANGED <<disk, work, own, file, mine, toClear, seen, found>>
    BY <1>2 DEF LoadFails, docVars, loadVars, clearVars, ghosts
  <2>. QED  BY <2>1, <2>2, ElsewhereSteps DEF DiskInv, SomeEdits
<1>3. CASE LookForOwn(t)
  BY <1>3 DEF LookForOwn, DiskInv, Inv, NoneReleased
<1>4. CASE LookInFolder(t)
  <2>1. /\ \A u \in Tabs \ {t} : tab'[u] = tab[u]
        /\ tab[t] # "open" /\ tab'[t] \notin {"taking", "takingAbandoned"}
    BY <1>4 DEF LookInFolder, DiskInv, NoneTakes, Inv, TypeOK
  <2>2. UNCHANGED <<disk, work, own, file, mine, toClear, seen, found>>
    BY <1>4 DEF LookInFolder, docVars, clearVars, ghosts
  <2>. QED  BY <2>1, <2>2, ElsewhereSteps DEF DiskInv, SomeEdits
<1>5. CASE ReadJournal(t)
  <2>1. PICK id \in toTry[t] :
          seen' = IF id \notin inUse /\ ReadableFor(t, id)
                  THEN [seen EXCEPT ![t] = [id |-> id, edits |-> disk[id].edits]]
                  ELSE seen
    BY <1>5 DEF ReadJournal
  <2>2. id \in JournalIds
    BY DEF DiskInv, Inv, TypeOK
  <2>3. \A u \in Tabs : seen'[u] # None => seen'[u].edits # <<>>
    BY <2>1, <2>2 DEF ReadableFor, DiskInv, SomeEdits, Inv, TypeOK
  <2>4. UNCHANGED <<disk, work, own, file, mine, toClear, found, tab>>
    BY <1>5 DEF ReadJournal, docVars, clearVars, ghosts
  <2>. QED  BY <2>3, <2>4, ElsewhereSteps DEF DiskInv, SomeEdits
<1>6. CASE Enter(t)
  <2>1. UNCHANGED <<disk, work, own, file, mine, toClear, tab>>
    BY <1>6 DEF Enter, tabVars, clearVars, ghosts
  <2>2. /\ seen[t] # None /\ seen' = [seen EXCEPT ![t] = None]
        /\ found' \in {found, [found EXCEPT ![t] = seen[t]]}
    BY <1>6 DEF Enter
  <2>3. \A u \in Tabs : /\ seen'[u] # None => seen'[u].edits # <<>>
                        /\ found'[u] # None => found'[u].edits # <<>>
    BY <2>2 DEF DiskInv, SomeEdits, Inv, TypeOK
  <2>. QED  BY <2>1, <2>3, ElsewhereSteps
<1>7. CASE LoadOffers(t)
  <2>1. /\ tab[t] # "open" /\ UNCHANGED <<disk, file, mine, toClear, seen>>
    BY <1>7 DEF LoadOffers, Searched, Looking, loadVars, clearVars, ghosts
  <2>2. work[t] = <<>> /\ own[t] = None
    BY <2>1 DEF DiskInv, OnItsDisk
  <2>3. UNCHANGED <<work, own>>
    <3>1. work = [work EXCEPT ![t] = <<>>] /\ own = [own EXCEPT ![t] = None]
      BY <2>2 DEF DiskInv, Inv, TypeOK
    <3>. QED  BY <1>7, <3>1 DEF LoadOffers, NoDocument
  <2>4. /\ \A u \in Tabs \ {t} : tab'[u] = tab[u]
        /\ tab'[t] \notin {"taking", "takingAbandoned"}
    BY <1>7 DEF LoadOffers, DiskInv, Inv, TypeOK
  <2>5. \A u \in Tabs : found'[u] # None => found'[u] = found[u]
    BY <1>7 DEF LoadOffers, NoDocument, DiskInv, Inv, TypeOK
  <2>. QED  BY <2>1, <2>3, <2>4, <2>5, ElsewhereSteps DEF DiskInv, SomeEdits
<1>8. CASE LoadReplays(t)
  BY <1>8 DEF LoadReplays, TakesOver, DiskInv, NoneTakes
<1>. QED
  BY <1>1, <1>2, <1>3, <1>4, <1>5, <1>6, <1>7, <1>8 DEF OpeningStep

\* A journal kept in step with the edits is in step with them.
LEMMA KeepJournalKeepsDisk ==
  ASSUME DiskInv, Inv', NEW t \in Tabs, NEW edits \in Work, KeepJournal(t, edits),
         tab[t] = "open", work' = [work EXCEPT ![t] = edits],
         UNCHANGED <<tab, file, seen, found, toClear>>
  PROVE  DiskInv'
<1>1. CASE edits # <<>>
  <2>1. PICK id \in IF own[t] = None THEN JournalIds \ named ELSE {own[t]} :
          /\ own' = [own EXCEPT ![t] = id]
          /\ disk' = [disk EXCEPT ![id] = [file |-> file[t], edits |-> edits]]
          /\ mine' = mine \cup {id}
    BY <1>1 DEF KeepJournal
  <2>2. id \in JournalIds /\ own[t] \in {None, id}
    BY <2>1 DEF DiskInv, Inv, TypeOK
  <2>3. \A u \in Tabs \ {t} : own[u] # id
    <3>1. ASSUME NEW u \in Tabs \ {t}, own[u] # None
          PROVE  own[u] \in named /\ own[u] # own[t]
      BY <3>1, OthersOwn DEF DiskInv
    <3>2. id # None
      BY <2>2, JournalsAssumption
    <3>. QED  BY <2>1, <3>1, <3>2
  <2>. QED  BY <1>1, <2>1, <2>2, <2>3, WritesItsOwn
<1>2. CASE edits = <<>>
  <2>1. tab'[t] \notin {"taking", "takingAbandoned"}
    OBVIOUS
  <2>. QED  BY <1>2, <2>1, RemovesItsOwn DEF KeepJournal, ghosts
<1>. QED  BY <1>1, <1>2

\* The steps of a document, while none is lost with its password.
LEMMA DocumentKeepsDisk ==
  ASSUME DiskInv, Inv', ~Protected, NEW t \in Tabs, DocumentStep(t)
  PROVE  DiskInv'
<1>0. TypeOK
  BY DEF DiskInv, Inv
<1>1. CASE Edit(t)
  <2>1. Append(work[t], t) \in Work /\ work'[t] = Append(work[t], t)
    BY <1>0, <1>1, WorkFacts DEF Edit, TypeOK
  <2>. QED
    BY <1>1, <2>1, KeepJournalKeepsDisk DEF Edit, tabVars, foundVars, loadVars, clearVars
<1>2. CASE Undo(t)
  <2>1. /\ SubSeq(work[t], 1, Len(work[t]) - 1) \in Work
        /\ work'[t] = SubSeq(work[t], 1, Len(work[t]) - 1)
    BY <1>0, <1>2, WorkFacts DEF Undo, TypeOK
  <2>. QED
    BY <1>2, <2>1, KeepJournalKeepsDisk DEF Undo, tabVars, foundVars, loadVars, clearVars
<1>3. CASE Recover(t)
  <2>1. /\ found[t] # None /\ found[t].id \in JournalIds /\ found[t].edits \in Work
        /\ found[t].edits # <<>> /\ own[t] = None
    BY <1>0, <1>3 DEF Recover, TypeOK, Found, DiskInv, SomeEdits, OnItsDisk
  <2>2. \A u \in Tabs \ {t} : own[u] # found[t].id
    BY <2>1, OthersOwn, JournalsAssumption DEF DiskInv
  <2>. QED
    BY <1>3, <2>1, <2>2, WritesItsOwn DEF Recover, tabVars, loadVars, clearVars
<1>4. CASE DiscardRecovered(t)
  <2>1. /\ found[t] # None /\ found[t].id \in JournalIds
        /\ disk' = [disk EXCEPT ![found[t].id] = None]
        /\ found' = [found EXCEPT ![t] = None]
        /\ UNCHANGED <<tab, file, work, own, seen, toClear, mine>>
    BY <1>0, <1>4 DEF DiscardRecovered, TypeOK, Found, tabVars, loadVars, clearVars,
       ghosts
  <2>2. \A u \in Tabs : own[u] # None => own[u] # found[t].id /\ own[u] \in JournalIds
    BY <1>0, <2>1, OthersOwn, UsesFacts DEF DiskInv, Inv, OwnIsNotOffered, TypeOK
  <2>3. \A u \in Tabs : own[u] # None => disk'[own[u]] = disk[own[u]]
    BY <1>0, <2>1, <2>2 DEF TypeOK
  <2>4. OnItsDisk(t)'
    BY <2>1, <2>3 DEF DiskInv, OnItsDisk
  <2>5. \A u \in Tabs : OnItsDisk(u)'
    BY <2>1, <2>3, <2>4, DiskSteps
  <2>6. SomeEdits' /\ OnDisk' \subseteq OnDisk
    BY <1>0, <2>1 DEF TypeOK, DiskInv, SomeEdits, OnDisk
  <2>. QED
    BY <2>1, <2>5, <2>6 DEF DiskInv, NoneTakes, NotCleared, OwnedOrGone
<1>5. ASSUME NEW f \in Files, Save(t, f) PROVE DiskInv'
  <2>1. \A u \in Tabs \ {t} : tab'[u] = tab[u] /\ file'[u] = file[u]
    BY <1>0, <1>5 DEF Save, TypeOK
  <2>2. /\ tab'[t] \notin {"taking", "takingAbandoned"}
        /\ found' \in {found, [found EXCEPT ![t] = None]}
    BY <1>5 DEF Save
  <2>. QED  BY <1>5, <2>1, <2>2, RemovesItsOwn DEF Save, loadVars, clearVars, ghosts
<1>6. CASE Lose(t)
  BY <1>6 DEF Lose
<1>7. CASE Close(t)
  <2>1. /\ \A u \in Tabs \ {t} : tab'[u] = tab[u] /\ file'[u] = file[u]
        /\ tab'[t] = "closed"
    BY <1>0, <1>7 DEF Close, TypeOK
  <2>. QED  BY <1>7, <2>1, RemovesItsOwn DEF Close, NoDocument, loadVars, clearVars
<1>8. CASE CloseLoading(t)
  <2>1. /\ \A u \in Tabs \ {t} : tab'[u] = tab[u]
        /\ tab[t] # "open" /\ tab'[t] \notin {"taking", "takingAbandoned"}
    BY <1>8 DEF CloseLoading, DiskInv, NoneTakes, Inv, TypeOK
  <2>2. UNCHANGED <<disk, work, own, file, mine, toClear, seen, found>>
    BY <1>8 DEF CloseLoading, docVars, loadVars, clearVars, ghosts
  <2>. QED  BY <2>1, <2>2, ElsewhereSteps DEF DiskInv, SomeEdits
<1>. QED
  BY <1>1, <1>2, <1>3, <1>4, <1>5, <1>6, <1>7, <1>8 DEF DocumentStep

\* Every step.
LEMMA StepKeepsDisk ==
  ASSUME DiskInv, ~Protected, ~Clears, [Next]_vars
  PROVE  DiskInv'
<1>0. Inv'
  BY StepKeeps DEF DiskInv
<1>1. CASE Clearing
  <2>1. UNCHANGED <<disk, named, inUse, tab, file, work, own, found, toClear, seen, mine>>
    BY <1>1 DEF Clearing, ClearStarts, ClearRemoves, ClearEnds, tabVars, docVars,
       loadVars, ghosts, DiskInv, NotCleared
  <2>. QED
    BY <1>0, <2>1 DEF DiskInv, SomeEdits, NoneTakes, NotCleared, OwnedOrGone, OnDisk,
       OnItsDisk
<1>2. CASE Restart
  <2>1. \A t \in Tabs : /\ tab'[t] = "closed" /\ work'[t] = <<>> /\ own'[t] = None
                        /\ seen'[t] = None /\ found'[t] = None
    BY <1>2 DEF Restart, Nowhere
  <2>. QED
    BY <1>0, <1>2, <2>1 DEF Restart, DiskInv, SomeEdits, NoneTakes, NotCleared,
       OwnedOrGone, OnItsDisk
<1>3. CASE UNCHANGED vars
  BY <1>0, <1>3 DEF vars, DiskInv, SomeEdits, NoneTakes, NotCleared, OwnedOrGone,
     OnDisk, OnItsDisk
<1>. QED  BY <1>0, <1>1, <1>2, <1>3, OpeningKeepsDisk, DocumentKeepsDisk DEF Next

\* The start of a run.
LEMMA DiskAtStart == Init => DiskInv
<1> SUFFICES ASSUME Init PROVE DiskInv
  OBVIOUS
<1>1. \A t \in Tabs : /\ tab[t] = "closed" /\ work[t] = <<>> /\ own[t] = None
                      /\ seen[t] = None /\ found[t] = None
  BY DEF Init, Nowhere
<1>. QED
  BY <1>1, InvAtStart DEF Init, DiskInv, SomeEdits, NoneTakes, NotCleared,
     OwnedOrGone, OnDisk, OnItsDisk

\* The folder follows the documents as long as nobody loses one or clears it.
LEMMA DiskInvHolds ==
  ASSUME ~Protected, ~Clears
  PROVE  Spec => []DiskInv
<1>1. DiskInv /\ [Next]_vars => DiskInv'
  BY StepKeepsDisk
<1>. QED  BY <1>1, DiskAtStart, PTL DEF Spec

\* The unsaved edits of every open document are in a journal on disk and a document
\* with none has no journal (keep_journal): while no file needs a password and the
\* recent files list is not cleared.
THEOREM DiskFollowsDocuments ==
  ASSUME ~Protected, ~Clears
  PROVE  Spec => []EditsAreOnDisk
<1>1. DiskInv => EditsAreOnDisk
  BY DEF DiskInv, OnItsDisk, EditsAreOnDisk
<1>. QED  BY <1>1, DiskInvHolds, PTL

\* When all tabs are closed the folder has no journal of a document of this run
\* (close, keep_journal), however their edits were saved, undone, taken over or
\* discarded: while no file needs a password and the list is not cleared.
THEOREM ClosedTabsLeaveNothing ==
  ASSUME ~Protected, ~Clears
  PROVE  Spec => []NothingLeftBehind
<1>1. ASSUME DiskInv, \A t \in Tabs : tab[t] = "closed" PROVE mine \cap OnDisk = {}
  <2>1. \A t \in Tabs : own[t] = None
    BY <1>1 DEF DiskInv, OnItsDisk
  <2>2. None \notin OnDisk
    BY JournalsAssumption DEF OnDisk
  <2>. QED  BY <1>1, <2>1, <2>2 DEF DiskInv, OwnedOrGone
<1>2. DiskInv => NothingLeftBehind
  BY <1>1 DEF NothingLeftBehind
<1>. QED  BY <1>2, DiskInvHolds, PTL

=============================================================================
