--------------------------- MODULE Closing_proofs ---------------------------
(***************************************************************************)
(* The window and the tab in it, for any number of threads, batches,        *)
(* changes and closings: hidden, the window can be brought back or is about *)
(* to end, it is hidden no longer than batches run, the event and the page  *)
(* follow the document, and what closing deletes unasked was on its way.    *)
(***************************************************************************)
EXTENDS Closing, TLAPS, SequenceTheorems

-----------------------------------------------------------------------------
(***************************************************************************)
(* The tab between its document, its recorded event and its page: what a    *)
(* command that is not over has still to say.                               *)
(***************************************************************************)

-----------------------------------------------------------------------------
(* Types.                                                                   *)

Docs == [doc : Nat, unsaved : SUBSET Changes]
Events == [kind : {"opened"}, doc : Nat, unsaved : SUBSET Changes]
            \cup {PasswordNeeded, Opening}
Cmds == [kind : {"edit"}, change : Changes] \cup [kind : {"save"}]
Stages ==
  {Idle} \cup [at : {"loading"}]
    \cup [at : {"working"}, cmd : Cmds, doc : Nat]
    \cup [at : {"recording"}, cmd : Cmds, info : Docs]
    \cup [at : {"losing"}, cmd : Cmds]
    \cup [at : {"sending"}, cmd : Cmds, event : Events]
    \cup [at : {"sending"}, event : Events]
    \cup [at : {"closing"}, chosen : SUBSET Changes]
    \cup [at : {"hiding", "leaving"}, asks : BOOLEAN, chosen : SUBSET Changes]

TabTyped ==
  /\ document \in {None} \cup Docs
  /\ event \in Events /\ page \in Events
  /\ journal \in SUBSET Changes
  /\ nextDoc \in Nat
  /\ thread \in [Threads -> Stages]

-----------------------------------------------------------------------------
(* What a command that is not over has still to say.                        *)

\* An edit was made, or unlock opened the document again, and the page has not heard.
EditBehind(s) == s.at \in {"recording", "sending"} /\ IsEdit(s)
ByUnlock(s) == s.at = "sending" /\ "cmd" \notin DOMAIN s

\* There is no document, and the page has not heard.
Gone(s) == s.at \in {"losing", "loading"} \/ (s.at = "sending" /\ ~IsOpen(s.event))

\* The document has an id, or none, that nobody knows of yet.
Fresh(s) == Gone(s) \/ EditBehind(s) \/ ByUnlock(s)

\* A command that left the id as it was has still to say what it did.
Late(s) == KeepsBehind(s) /\ (s.at = "sending" => IsOpen(s.event))

\* The document id a thread has, and whether others may have heard of it.
Names(s, id) ==
  \/ s.at = "working" /\ s.doc = id
  \/ s.at = "recording" /\ s.info.doc = id
  \/ s.at = "sending" /\ IsOpen(s.event) /\ s.event.doc = id
Knows(s, id) == Names(s, id) /\ (s.at = "working" \/ Late(s))

-----------------------------------------------------------------------------
(* The inductive invariant of the tab.                                      *)

\* Ids are given in order.
Below ==
  /\ document # None => document.doc < nextDoc
  /\ IsOpen(page) => page.doc < nextDoc
  /\ \A t \in Threads, id \in Nat : Names(thread[t], id) => id < nextDoc

\* Nobody can ask for the document.
Unheard ==
  /\ ~(IsOpen(page) /\ page.doc = document.doc)
  /\ \A t \in Threads : ~Knows(thread[t], document.doc)

\* One command at a time takes the document where nobody knows of it, and it says
\* what is so.
OneFresh == \A t, u \in Threads : Fresh(thread[t]) /\ Fresh(thread[u]) => t = u

FreshIs == \A t \in Threads : LET s == thread[t] IN Fresh(s) =>
  /\ page # PasswordNeeded
  /\ IF Gone(s) THEN document = None ELSE document # None /\ Unheard
  /\ s.at = "recording" => s.info = document
  /\ s.at = "sending" =>
       /\ s.event = IF document = None THEN PasswordNeeded ELSE Opened(document)
       /\ event = s.event \/ journal \subseteq racing

\* The page asks for the password only when there is no document and none is coming.
PageAsks ==
  page = PasswordNeeded => document = None /\ \A t \in Threads : ~Fresh(thread[t])

\* A command that can be overtaken leaves nothing unaccounted for.
LateIs == \A t \in Threads : Late(thread[t]) => journal \subseteq racing

\* A change in the journal is one the tab and the page have heard of, or are about to.
ChangesTold == document # None => \A c \in journal \ racing :
  \/ \E t \in Threads : EditBehind(thread[t]) /\ thread[t].cmd.change = c
  \/ \E t \in Threads : ByUnlock(thread[t])
  \/ IsOpen(event) /\ c \in event.unsaved /\ IsOpen(page) /\ c \in page.unsaved

\* With nothing overtaken, one command at a time is behind, and then nobody.
Behind(s) == Fresh(s) \/ Late(s)
InStep == ~overlapped =>
  /\ \A t, u \in Threads : Behind(thread[t]) /\ Behind(thread[u]) => t = u
  /\ \A t \in Threads : LET s == thread[t] IN
       /\ Late(s) => document # None
       /\ Late(s) /\ s.at = "recording" => s.info = document
       /\ Late(s) /\ s.at = "sending" => s.event = Opened(document)
       /\ s.at = "sending" => s.event = event
  /\ (\A t \in Threads : ~Behind(thread[t])) =>
       IF document = None THEN ~IsOpen(event)
       ELSE event = Opened(document) /\ page = event

Followed == OneFresh /\ FreshIs /\ PageAsks /\ ChangesTold /\ InStep

\* A tab that is being closed is out of the registry.
ClosedIs == \A t \in Threads : thread[t].at = "closing" => ~listed

TabSound == TabTyped /\ Below /\ LateIs /\ ClosedIs /\ (listed => Followed)

\* The journal makes the document's changes again.
JournalIs == document # None => journal = document.unsaved

-----------------------------------------------------------------------------
(* Shapes of records.                                                       *)

LEMMA DocShape ==
  ASSUME NEW d \in Docs
  PROVE  /\ d # None /\ d.doc \in Nat /\ d.unsaved \in SUBSET Changes
         /\ Opened(d) \in Events /\ IsOpen(Opened(d))
         /\ Opened(d).doc = d.doc /\ Opened(d).unsaved = d.unsaved
         /\ Opened(d) # PasswordNeeded /\ Opened(d) # Opening
<1>1. d # None
  <2>1. DOMAIN d = {"doc", "unsaved"} /\ DOMAIN None = {"kind"}
    BY DEF Docs, None
  <2>. QED  BY <2>1
<1>. QED  BY <1>1 DEF Docs, Opened, Events, IsOpen, PasswordNeeded, Opening

LEMMA EventShape ==
  ASSUME NEW e \in Events
  PROVE  /\ IsOpen(e) => e.doc \in Nat /\ e.unsaved \in SUBSET Changes
         /\ ~IsOpen(e) => e \in {PasswordNeeded, Opening}
         /\ PasswordNeeded \in Events /\ ~IsOpen(PasswordNeeded)
         /\ Opening \in Events /\ ~IsOpen(Opening)
         /\ Opening # PasswordNeeded
BY DEF Events, IsOpen, PasswordNeeded, Opening

LEMMA CmdShape ==
  ASSUME NEW c \in Cmds
  PROVE  /\ c.kind \in {"edit", "save"}
         /\ c.kind = "edit" => c.change \in Changes
BY DEF Cmds

LEMMA AfterShape ==
  ASSUME NEW d \in Docs, NEW cmd \in Cmds, nextDoc \in Nat
  PROVE  /\ After(d, cmd) \in Docs
         /\ cmd.kind = "edit" => /\ After(d, cmd).doc = nextDoc
                                 /\ After(d, cmd).unsaved = d.unsaved \cup {cmd.change}
         /\ cmd.kind # "edit" => After(d, cmd).doc = d.doc /\ After(d, cmd).unsaved = {}
BY CmdShape DEF Docs, After, Edited

\* What a stage has, by its name.
LEMMA StageShape ==
  ASSUME NEW s \in Stages
  PROVE  /\ s.at \in {"idle", "loading", "working", "recording", "losing", "sending",
                     "closing", "hiding", "leaving"}
         /\ s.at \in {"working", "recording", "losing"} => "cmd" \in DOMAIN s
         /\ s.at \in {"idle", "loading", "closing", "hiding", "leaving"} => "cmd" \notin DOMAIN s
         /\ "cmd" \in DOMAIN s => s.cmd \in Cmds
         /\ s.at = "working" => s.doc \in Nat
         /\ s.at = "recording" => s.info \in Docs
         /\ s.at = "sending" => s.event \in Events
         /\ s.at \in {"closing", "hiding", "leaving"} => s.chosen \in SUBSET Changes
<1>1. CASE s = Idle
  BY <1>1 DEF Idle
<1>2. CASE s \in [at : {"loading"}]
  BY <1>2
<1>3. CASE s \in [at : {"working"}, cmd : Cmds, doc : Nat]
  BY <1>3
<1>4. CASE s \in [at : {"recording"}, cmd : Cmds, info : Docs]
  BY <1>4
<1>5. CASE s \in [at : {"losing"}, cmd : Cmds]
  BY <1>5
<1>6. CASE s \in [at : {"sending"}, cmd : Cmds, event : Events]
  BY <1>6
<1>7. CASE s \in [at : {"sending"}, event : Events]
  BY <1>7
<1>8. CASE s \in [at : {"closing"}, chosen : SUBSET Changes]
  BY <1>8
<1>9. CASE s \in [at : {"hiding", "leaving"}, asks : BOOLEAN, chosen : SUBSET Changes]
  BY <1>9
<1>. QED  BY <1>1, <1>2, <1>3, <1>4, <1>5, <1>6, <1>7, <1>8, <1>9 DEF Stages

\* Who is behind.
LEMMA BehindShape ==
  ASSUME NEW s \in Stages
  PROVE  /\ s.at = "sending" => Behind(s)
         /\ Behind(s) => s.at \in {"recording", "sending", "losing", "loading"}
         /\ s.at = "recording" => (EditBehind(s) <=> ~Late(s)) /\ ~Gone(s) /\ ~ByUnlock(s)
         /\ Late(s) => ~Fresh(s)
<1>1. "cmd" \in DOMAIN s => s.cmd.kind \in {"edit", "save"}
  BY StageShape, CmdShape
<1>. QED  BY <1>1, StageShape DEF Behind, Fresh, Gone, EditBehind, ByUnlock, Late, KeepsBehind, KeepsId, IsEdit

\* A thread takes a step, the others stay where they are.
LEMMA Stepping ==
  ASSUME thread \in [Threads -> Stages], NEW t \in Threads, NEW s \in Stages, Becomes(t, s)
  PROVE  /\ thread' \in [Threads -> Stages]
         /\ thread'[t] = s /\ \A u \in Threads \ {t} : thread'[u] = thread[u]
BY DEF Becomes

\* What each step makes of a thread.
LEMMA Quiet ==
  ASSUME NEW s \in Stages, s.at \in {"idle", "closing", "hiding", "leaving"}
  PROVE  /\ ~Behind(s) /\ ~Fresh(s) /\ ~Late(s) /\ ~EditBehind(s) /\ ~ByUnlock(s) /\ ~Gone(s)
         /\ \A id : ~Knows(s, id) /\ ~Names(s, id)
         /\ ~IsEdit(s) /\ ~IsUnlock(s)
BY StageShape
   DEF Behind, Fresh, Gone, EditBehind, ByUnlock, Late, KeepsBehind, Knows, Names, IsEdit, IsUnlock

LEMMA WorkingStage ==
  ASSUME NEW cmd \in Cmds, NEW i \in Nat
  PROVE  LET s == [at |-> "working", cmd |-> cmd, doc |-> i]
         IN /\ s \in Stages /\ ~Behind(s) /\ ~Fresh(s) /\ ~Late(s) /\ ~EditBehind(s) /\ ~ByUnlock(s)
            /\ \A id : (Knows(s, id) <=> id = i) /\ (Names(s, id) <=> id = i)
BY DEF Stages, Behind, Fresh, Gone, EditBehind, ByUnlock, Late, KeepsBehind, Knows, Names

LEMMA RecordingStage ==
  ASSUME NEW cmd \in Cmds, NEW d \in Docs
  PROVE  LET s == [at |-> "recording", cmd |-> cmd, info |-> d]
         IN /\ s \in Stages /\ ~Gone(s) /\ ~ByUnlock(s) /\ Behind(s)
            /\ EditBehind(s) <=> cmd.kind = "edit"
            /\ Fresh(s) <=> cmd.kind = "edit"
            /\ Late(s) <=> cmd.kind = "save"
            /\ \A id : Knows(s, id) <=> cmd.kind = "save" /\ id = d.doc
            /\ \A id : Names(s, id) <=> id = d.doc
<1> DEFINE s == [at |-> "recording", cmd |-> cmd, info |-> d]
<1>1. s \in Stages /\ s.at = "recording" /\ "cmd" \in DOMAIN s /\ s.cmd = cmd /\ s.info = d
  BY DEF Stages
<1>. QED
  BY <1>1, CmdShape DEF Behind, Fresh, Gone, EditBehind, ByUnlock, Late, KeepsBehind, KeepsId, Knows, Names, IsEdit

LEMMA LosingStage ==
  ASSUME NEW cmd \in Cmds
  PROVE  LET s == [at |-> "losing", cmd |-> cmd]
         IN /\ s \in Stages /\ Gone(s) /\ Behind(s) /\ Fresh(s)
            /\ ~Late(s) /\ ~ByUnlock(s) /\ ~EditBehind(s)
            /\ \A id : ~Knows(s, id) /\ ~Names(s, id)
BY DEF Stages, Behind, Fresh, Gone, EditBehind, ByUnlock, Late, KeepsBehind, Knows, Names

LEMMA SendingStage ==
  ASSUME NEW cmd \in Cmds, NEW e \in Events
  PROVE  LET s == [at |-> "sending", cmd |-> cmd, event |-> e]
         IN /\ s \in Stages /\ Behind(s) /\ ~ByUnlock(s)
            /\ Gone(s) <=> ~IsOpen(e)
            /\ EditBehind(s) <=> cmd.kind = "edit"
            /\ Fresh(s) <=> cmd.kind = "edit" \/ ~IsOpen(e)
            /\ Late(s) <=> cmd.kind = "save" /\ IsOpen(e)
            /\ \A id : Knows(s, id) <=> cmd.kind = "save" /\ IsOpen(e) /\ id = e.doc
            /\ \A id : Names(s, id) <=> IsOpen(e) /\ id = e.doc
<1> DEFINE s == [at |-> "sending", cmd |-> cmd, event |-> e]
<1>1. s \in Stages /\ s.at = "sending" /\ "cmd" \in DOMAIN s /\ s.cmd = cmd /\ s.event = e
  BY DEF Stages
<1>. QED
  BY <1>1, CmdShape DEF Behind, Fresh, Gone, EditBehind, ByUnlock, Late, KeepsBehind, KeepsId, Knows, Names, IsEdit

LEMMA UnlockStages ==
  ASSUME NEW e \in Events
  PROVE  LET s == [at |-> "sending", event |-> e]
             l == [at |-> "loading"]
         IN /\ s \in Stages /\ Behind(s) /\ Fresh(s) /\ ByUnlock(s) /\ ~EditBehind(s) /\ ~Late(s)
            /\ Gone(s) <=> ~IsOpen(e)
            /\ l \in Stages /\ Behind(l) /\ Fresh(l) /\ Gone(l)
            /\ ~ByUnlock(l) /\ ~EditBehind(l) /\ ~Late(l)
            /\ \A id : ~Knows(s, id) /\ ~Knows(l, id) /\ ~Names(l, id)
            /\ \A id : Names(s, id) <=> IsOpen(e) /\ id = e.doc
BY DEF Stages, Behind, Fresh, Gone, EditBehind, ByUnlock, Late, KeepsBehind, Knows, Names, IsEdit

-----------------------------------------------------------------------------
(* The steps.                                                               *)

QuietNames == {"idle", "closing", "hiding", "leaving"}

\* Steps that only begin or end waiting, with fewer changes in the journal or more
\* of them racing, or take the tab out of the registry.
LEMMA QuietSteps ==
  ASSUME TabSound, UNCHANGED <<document, event, page, nextDoc, overlapped>>,
         listed' \in {listed, FALSE}, journal' \in SUBSET journal, racing \subseteq racing',
         thread' \in [Threads -> Stages],
         \A u \in Threads : \/ thread'[u] = thread[u]
                            \/ thread[u].at \in QuietNames /\ thread'[u].at \in QuietNames,
         \A u \in Threads : thread'[u].at = "closing" => ~listed'
  PROVE  TabSound'
<1>1. thread \in [Threads -> Stages] /\ TabTyped'
  BY DEF TabSound, TabTyped
<1>2. ASSUME NEW u \in Threads
      PROVE  /\ Behind(thread[u]) \/ Behind(thread'[u]) => thread'[u] = thread[u]
             /\ Fresh(thread[u]) <=> Fresh(thread'[u])
             /\ Late(thread[u]) <=> Late(thread'[u])
             /\ ByUnlock(thread[u]) <=> ByUnlock(thread'[u])
             /\ EditBehind(thread[u]) <=> EditBehind(thread'[u])
             /\ Behind(thread[u]) <=> Behind(thread'[u])
             /\ \A id : Knows(thread[u], id) <=> Knows(thread'[u], id)
             /\ \A id : Names(thread[u], id) <=> Names(thread'[u], id)
             /\ EditBehind(thread[u]) => Behind(thread[u])
             /\ thread'[u].at \in {"sending", "recording"} => thread'[u] = thread[u]
  <2>1. thread[u] \in Stages /\ thread'[u] \in Stages
    BY <1>1
  <2>. QED  BY <2>1, Quiet DEF QuietNames, Behind, Fresh
<1>3. Below' /\ LateIs' /\ ClosedIs'
  BY <1>2 DEF TabSound, Below, LateIs, ClosedIs
<1>4. ASSUME listed' PROVE Followed'
  <2>1. Followed
    BY <1>4 DEF TabSound
  <2>2. OneFresh' /\ PageAsks'
    BY <1>2, <2>1 DEF Followed, OneFresh, PageAsks
  <2>3. FreshIs'
    BY <1>2, <2>1 DEF Followed, FreshIs, Unheard, Behind
  <2>4. ChangesTold'
    BY <1>2, <2>1 DEF Followed, ChangesTold
  <2>5. InStep'
    BY <1>2, <2>1 DEF Followed, InStep
  <2>. QED  BY <2>2, <2>3, <2>4, <2>5 DEF Followed
<1>. QED  BY <1>1, <1>3, <1>4 DEF TabSound

\* A command is called: the thread knows the id the page has.
LEMMA CallKeeps ==
  ASSUME TabSound, NEW t \in Threads, NEW cmd \in Cmds, Call(t, cmd),
         UNCHANGED <<tabVars, overlapped>>, racing \subseteq racing'
  PROVE  TabSound'
<1> DEFINE s == [at |-> "working", cmd |-> cmd, doc |-> page.doc]
<1>1. /\ thread[t] = Idle /\ listed /\ IsOpen(page) /\ Becomes(t, s)
      /\ thread \in [Threads -> Stages] /\ page \in Events
      /\ UNCHANGED <<listed, document, event, page, journal, nextDoc>>
  BY DEF Call, TabSound, TabTyped, tabVars
<1>2. page.doc \in Nat /\ page.doc < nextDoc
  BY <1>1, EventShape DEF TabSound, Below
<1>3. /\ s \in Stages /\ s.at = "working" /\ ~Behind(s) /\ ~Fresh(s) /\ ~Late(s)
      /\ ~EditBehind(s) /\ ~ByUnlock(s)
      /\ \A id : (Knows(s, id) <=> id = page.doc) /\ (Names(s, id) <=> id = page.doc)
  BY <1>2, WorkingStage
<1>4. /\ Idle.at = "idle" /\ Idle \in Stages
  BY DEF Idle, Stages
<1>5. /\ ~Behind(Idle) /\ ~Fresh(Idle) /\ ~Late(Idle) /\ ~EditBehind(Idle) /\ ~ByUnlock(Idle)
  BY <1>4, Quiet
<1>6. /\ thread' \in [Threads -> Stages]
      /\ thread'[t] = s /\ \A u \in Threads \ {t} : thread'[u] = thread[u]
  BY <1>1, <1>3, Stepping
<1> HIDE DEF s
<1>7. TabTyped' /\ Below' /\ LateIs' /\ ClosedIs'
  BY <1>1, <1>2, <1>3, <1>4, <1>6 DEF TabSound, TabTyped, Below, LateIs, ClosedIs
<1>8. Followed
  BY <1>1 DEF TabSound
<1>9. OneFresh' /\ PageAsks'
  BY <1>1, <1>3, <1>6, <1>8 DEF Followed, OneFresh, PageAsks
<1>10. FreshIs'
  BY <1>1, <1>3, <1>6, <1>8 DEF Followed, FreshIs, Unheard
<1>11. ChangesTold'
  BY <1>1, <1>3, <1>5, <1>6, <1>8 DEF Followed, ChangesTold
<1>12. InStep'
  BY <1>1, <1>3, <1>5, <1>6, <1>8 DEF Followed, InStep
<1>. QED  BY <1>7, <1>9, <1>10, <1>11, <1>12 DEF TabSound, Followed

\* A thread whose document has the id it knows is the only one that could take it
\* further: nothing is fresh.
LEMMA NothingFresh ==
  ASSUME Followed, document # None, NEW t \in Threads, Knows(thread[t], document.doc)
  PROVE  \A u \in Threads : ~Fresh(thread[u])
BY DEF Followed, FreshIs, Unheard, Fresh

LEMMA WorksKeeps ==
  ASSUME TabSound, JournalIs, NEW t \in Threads, Works(t)
  PROVE  TabSound' /\ JournalIs'
<1> DEFINE cmd == thread[t].cmd
           behind == \E u \in Threads : KeepsBehind(thread[u])
<1>1. /\ thread[t].at = "working" /\ thread[t] \in Stages /\ thread \in [Threads -> Stages]
      /\ document \in {None} \cup Docs /\ journal \in SUBSET Changes /\ nextDoc \in Nat
  BY DEF Works, TabSound, TabTyped
<1>2. /\ cmd \in Cmds /\ cmd.kind \in {"edit", "save"}
      /\ Idle \in Stages /\ Idle.at = "idle"
  BY <1>1, StageShape, CmdShape DEF Stages, Idle
<1>3. /\ ~Behind(thread[t]) /\ ~Fresh(thread[t]) /\ ~Late(thread[t]) /\ ~EditBehind(thread[t])
      /\ ~ByUnlock(thread[t]) /\ Knows(thread[t], thread[t].doc)
  BY <1>1, BehindShape DEF Behind, Fresh, Knows, Names
<1>4. \A u \in Threads : Late(thread[u]) => behind
  BY DEF Late
<1>5. /\ ~Behind(Idle) /\ ~Fresh(Idle) /\ ~Late(Idle) /\ ~EditBehind(Idle) /\ ~ByUnlock(Idle)
      /\ \A id : ~Knows(Idle, id) /\ ~Names(Idle, id)
  BY <1>2, Quiet
<1>6. CASE Becomes(t, Idle) /\ UNCHANGED <<tabVars, racing, overlapped>>
  <2>1. /\ thread' \in [Threads -> Stages]
        /\ thread'[t] = Idle /\ \A u \in Threads \ {t} : thread'[u] = thread[u]
        /\ UNCHANGED <<listed, document, event, page, journal, nextDoc, racing, overlapped>>
    BY <1>1, <1>2, <1>6, Stepping DEF tabVars
  <2>2. TabTyped' /\ Below' /\ LateIs' /\ ClosedIs' /\ JournalIs'
    BY <1>2, <1>5, <2>1 DEF TabSound, TabTyped, Below, LateIs, ClosedIs, JournalIs
  <2>3. ASSUME listed PROVE Followed'
    <3>1. Followed
      BY <2>3 DEF TabSound
    <3>2. OneFresh' /\ PageAsks' /\ ChangesTold'
      BY <1>3, <1>5, <2>1, <3>1 DEF Followed, OneFresh, PageAsks, ChangesTold
    <3>3. FreshIs'
      BY <1>3, <1>5, <2>1, <3>1 DEF Followed, FreshIs, Unheard
    <3>4. InStep'
      BY <1>2, <1>3, <1>5, <2>1, <3>1 DEF Followed, InStep
    <3>. QED  BY <3>2, <3>3, <3>4 DEF Followed
  <2>. QED  BY <2>1, <2>2, <2>3 DEF TabSound
<1>7. ASSUME document # None, document.doc = thread[t].doc, listed
      PROVE  Followed /\ \A u \in Threads : ~Fresh(thread[u])
  BY <1>3, <1>7, NothingFresh DEF TabSound
<1>8. CASE /\ document # None /\ document.doc = thread[t].doc
           /\ document' = After(document, cmd) /\ journal' = document'.unsaved
           /\ nextDoc' = IF cmd.kind = "edit" THEN nextDoc + 1 ELSE nextDoc
           /\ Overtakes(t)
           /\ Becomes(t, [at |-> "recording", cmd |-> cmd, info |-> document'])
           /\ UNCHANGED <<listed, event, page>>
  <2> DEFINE s == [at |-> "recording", cmd |-> cmd, info |-> document']
  <2>1. /\ document \in Docs /\ document' \in Docs /\ document' # None
        /\ cmd.kind = "edit" => /\ document'.doc = nextDoc
                                /\ journal' = journal \cup {cmd.change}
        /\ cmd.kind = "save" => document'.doc = document.doc /\ journal' = {}
        /\ journal' \in SUBSET Changes
    <3>1. document \in Docs /\ journal = document.unsaved
      BY <1>1, <1>8 DEF JournalIs
    <3>. QED  BY <1>1, <1>2, <1>8, <3>1, AfterShape, DocShape
  <2>2. /\ s \in Stages /\ s.at = "recording" /\ s.info = document' /\ s.cmd = cmd
        /\ ~Gone(s) /\ ~ByUnlock(s) /\ Behind(s)
        /\ EditBehind(s) <=> cmd.kind = "edit"
        /\ Fresh(s) <=> cmd.kind = "edit"
        /\ Late(s) <=> cmd.kind = "save"
        /\ \A id : Knows(s, id) <=> cmd.kind = "save" /\ id = document'.doc
        /\ \A id : Names(s, id) <=> id = document'.doc
        /\ \A u \in Threads : \A id : Knows(thread[u], id) => Names(thread[u], id)
    BY <1>2, <2>1, RecordingStage DEF Knows
  <2>3. /\ thread' \in [Threads -> Stages]
        /\ thread'[t] = s /\ \A u \in Threads \ {t} : thread'[u] = thread[u]
    BY <1>1, <1>8, <2>2, Stepping
  <2>4. /\ racing \subseteq racing'
        /\ ~overlapped' => ~overlapped /\ ~behind
        /\ behind /\ cmd.kind = "edit" => cmd.change \in racing'
    <3>1. IsEdit(thread[t]) <=> cmd.kind = "edit"
      BY <1>1, StageShape DEF IsEdit
    <3>. QED  BY <1>8, <3>1 DEF Overtakes
  <2> HIDE DEF s, behind, cmd
  <2>5. TabTyped' /\ ClosedIs' /\ JournalIs'
    BY <1>1, <1>8, <2>1, <2>2, <2>3 DEF TabSound, TabTyped, ClosedIs, JournalIs
  <2>6. Below'
    BY <1>1, <1>2, <1>8, <2>1, <2>2, <2>3, EventShape DEF TabSound, TabTyped, Below
  <2>7. LateIs'
    BY <1>2, <1>4, <2>1, <2>2, <2>3, <2>4 DEF TabSound, LateIs
  <2>8. ASSUME listed PROVE Followed'
    <3>1. Followed /\ \A u \in Threads : ~Fresh(thread[u])
      BY <1>7, <1>8, <2>8
    <3>2. page # PasswordNeeded
      BY <1>8, <3>1 DEF Followed, PageAsks
    <3>3. OneFresh' /\ PageAsks'
      BY <1>8, <2>2, <2>3, <3>1, <3>2 DEF OneFresh, PageAsks
    <3>4. cmd.kind = "edit" => Unheard'
      BY <1>1, <1>8, <2>1, <2>2, <2>3 DEF TabSound, TabTyped, Below, Unheard
    <3>5. FreshIs'
      BY <1>2, <1>8, <2>1, <2>2, <2>3, <3>1, <3>2, <3>4 DEF FreshIs
    <3>6. ChangesTold'
      BY <1>2, <1>3, <1>8, <2>1, <2>2, <2>3, <2>4, <3>1 DEF Followed, ChangesTold, Fresh
    <3>7. InStep'
      BY <1>2, <1>4, <1>8, <2>1, <2>2, <2>3, <2>4, <3>1, BehindShape DEF Followed, InStep, Behind
    <3>. QED  BY <3>3, <3>5, <3>6, <3>7 DEF Followed
  <2>. QED  BY <1>8, <2>5, <2>6, <2>7, <2>8 DEF TabSound
<1>9. CASE /\ document # None /\ document.doc = thread[t].doc
           /\ document' = None /\ Overtakes(t)
           /\ Becomes(t, [at |-> "losing", cmd |-> cmd])
           /\ UNCHANGED <<listed, event, page, journal, nextDoc>>
  <2> DEFINE s == [at |-> "losing", cmd |-> cmd]
  <2>1. /\ s \in Stages /\ s.at = "losing" /\ Gone(s) /\ Behind(s) /\ Fresh(s)
        /\ ~Late(s) /\ ~ByUnlock(s) /\ ~EditBehind(s)
        /\ \A id : ~Knows(s, id) /\ ~Names(s, id)
    BY <1>2, LosingStage
  <2>2. /\ thread' \in [Threads -> Stages]
        /\ thread'[t] = s /\ \A u \in Threads \ {t} : thread'[u] = thread[u]
    BY <1>1, <1>9, <2>1, Stepping
  <2>3. /\ racing \subseteq racing'
        /\ ~overlapped' => ~overlapped /\ ~behind
    BY <1>9 DEF Overtakes
  <2> HIDE DEF s, behind, cmd
  <2>4. TabTyped' /\ ClosedIs' /\ JournalIs' /\ Below' /\ LateIs'
    BY <1>9, <2>1, <2>2, <2>3 DEF TabSound, TabTyped, ClosedIs, JournalIs, Below, LateIs
  <2>5. ASSUME listed PROVE Followed'
    <3>1. Followed /\ \A u \in Threads : ~Fresh(thread[u])
      BY <1>7, <1>9, <2>5
    <3>2. page # PasswordNeeded
      BY <1>9, <3>1 DEF Followed, PageAsks
    <3>3. OneFresh' /\ PageAsks' /\ ChangesTold'
      BY <1>9, <2>1, <2>2, <3>1, <3>2 DEF OneFresh, PageAsks, ChangesTold
    <3>4. FreshIs'
      BY <1>9, <2>1, <2>2, <3>1, <3>2 DEF FreshIs
    <3>5. InStep'
      BY <1>4, <1>9, <2>1, <2>2, <2>3, <3>1, BehindShape DEF Followed, InStep, Behind
    <3>. QED  BY <3>3, <3>4, <3>5 DEF Followed
  <2>. QED  BY <1>9, <2>4, <2>5 DEF TabSound
<1>. QED  BY <1>6, <1>8, <1>9 DEF Works

\* A command records what it did: either nobody knows of it yet, or nothing in the
\* journal is left to account for.
LEMMA RecordsKeeps ==
  ASSUME TabSound, JournalIs, NEW t \in Threads, Records(t)
  PROVE  TabSound' /\ JournalIs'
<1> DEFINE r == thread[t]
           s == [at |-> "sending", cmd |-> r.cmd, event |-> event']
<1>1. /\ r.at = "recording" /\ r \in Stages /\ thread \in [Threads -> Stages]
      /\ document \in {None} \cup Docs
      /\ event' = Opened(r.info) /\ Becomes(t, s)
      /\ UNCHANGED <<listed, document, page, journal, nextDoc, racing, overlapped>>
  BY DEF Records, TabSound, TabTyped
<1>2. /\ r.cmd \in Cmds /\ r.cmd.kind \in {"edit", "save"} /\ r.info \in Docs
      /\ "cmd" \in DOMAIN r
      /\ event' \in Events /\ IsOpen(event') /\ event'.doc = r.info.doc
      /\ event'.unsaved = r.info.unsaved
  BY <1>1, StageShape, CmdShape, DocShape
<1>3. /\ Behind(r) /\ ~Gone(r) /\ ~ByUnlock(r)
      /\ EditBehind(r) <=> r.cmd.kind = "edit"
      /\ Fresh(r) <=> r.cmd.kind = "edit"
      /\ Late(r) <=> r.cmd.kind = "save"
      /\ Late(r) => Knows(r, r.info.doc)
      /\ Names(r, r.info.doc)
  BY <1>1, <1>2 DEF Behind, Fresh, Gone, EditBehind, ByUnlock, Late, KeepsBehind, KeepsId,
                    Knows, Names, IsEdit
<1>4. /\ s \in Stages /\ s.at = "sending" /\ s.event = event' /\ s.cmd = r.cmd
      /\ Behind(s) /\ ~ByUnlock(s) /\ ~Gone(s)
      /\ EditBehind(s) <=> r.cmd.kind = "edit"
      /\ Fresh(s) <=> r.cmd.kind = "edit"
      /\ Late(s) <=> r.cmd.kind = "save"
      /\ \A id : Knows(s, id) <=> r.cmd.kind = "save" /\ id = r.info.doc
      /\ \A id : Names(s, id) <=> id = r.info.doc
  BY <1>2, SendingStage
<1>5. /\ thread' \in [Threads -> Stages]
      /\ thread'[t] = s /\ \A u \in Threads \ {t} : thread'[u] = thread[u]
  BY <1>1, <1>4, Stepping
<1>6. \A u \in Threads : thread[u].at = "sending" => Behind(thread[u])
  BY <1>1, BehindShape
<1> HIDE DEF s
<1>7. TabTyped' /\ ClosedIs' /\ JournalIs'
  BY <1>1, <1>2, <1>4, <1>5 DEF TabSound, TabTyped, ClosedIs, JournalIs
<1>8. Below' /\ LateIs'
  BY <1>1, <1>2, <1>3, <1>4, <1>5, DocShape DEF TabSound, Below, LateIs
<1>9. ASSUME listed PROVE Followed'
  <2>1. Followed
    BY <1>9 DEF TabSound
  <2>2. Late(r) => journal \subseteq racing
    BY DEF TabSound, LateIs
  <2>3. Fresh(r) => document # None /\ r.info = document
    BY <1>1, <1>3, <2>1 DEF Followed, FreshIs
  <2>4. OneFresh' /\ PageAsks'
    BY <1>1, <1>3, <1>4, <1>5, <2>1 DEF Followed, OneFresh, PageAsks
  <2>5. ASSUME NEW u \in Threads, ~Gone(thread[u]), Fresh(thread[u])
        PROVE  Unheard'
    BY <1>1, <1>3, <1>4, <1>5, <2>1, <2>5 DEF Followed, FreshIs, Unheard
  <2>6. FreshIs'
    <3>1. CASE Fresh(r)
      <4>1. \A u \in Threads : Fresh(thread'[u]) => u = t
        BY <1>5, <2>1, <3>1 DEF Followed, OneFresh
      <4>2. page # PasswordNeeded /\ Unheard'
        BY <1>3, <2>1, <2>5, <3>1 DEF Followed, FreshIs
      <4>. QED  BY <1>1, <1>4, <1>5, <2>3, <3>1, <4>1, <4>2 DEF FreshIs
    <3>2. CASE Late(r)
      <4>1. ~Fresh(s)
        BY <1>3, <1>4, <3>2
      <4>. QED  BY <1>1, <1>5, <2>1, <2>2, <2>5, <3>2, <4>1 DEF Followed, FreshIs
    <3>. QED  BY <1>2, <1>3, <3>1, <3>2
  <2>7. ChangesTold'
    <3>1. Fresh(r) => journal = event'.unsaved
      BY <1>2, <2>3 DEF JournalIs
    <3>. QED
      BY <1>1, <1>2, <1>3, <1>4, <1>5, <2>1, <2>2, <3>1 DEF Followed, ChangesTold
  <2>8. InStep'
    <3>1. ~overlapped => \A u \in Threads : Behind(thread[u]) => u = t
      BY <1>3, <2>1 DEF Followed, InStep
    <3>2. ~overlapped /\ Late(r) => document # None /\ r.info = document
      BY <1>1, <2>1 DEF Followed, InStep
    <3>. QED
      BY <1>1, <1>2, <1>3, <1>4, <1>5, <1>6, <3>1, <3>2 DEF Behind, InStep
  <2>. QED  BY <2>4, <2>6, <2>7, <2>8 DEF Followed
<1>. QED  BY <1>1, <1>7, <1>8, <1>9 DEF TabSound

\* The page hears what the command returned.
LEMMA SendsKeeps ==
  ASSUME TabSound, JournalIs, NEW t \in Threads, Sends(t)
  PROVE  TabSound' /\ JournalIs'
<1> DEFINE r == thread[t]
<1>1. /\ r.at = "sending" /\ r \in Stages /\ thread \in [Threads -> Stages]
      /\ document \in {None} \cup Docs /\ r.event \in Events
      /\ page' = r.event /\ Becomes(t, Idle)
      /\ UNCHANGED <<listed, document, event, journal, nextDoc, racing, overlapped>>
  BY StageShape DEF Sends, TabSound, TabTyped
<1>2. Behind(r) /\ (Gone(r) <=> ~IsOpen(r.event)) /\ (Late(r) => IsOpen(r.event))
      /\ (Late(r) => Knows(r, r.event.doc))
      /\ (IsOpen(r.event) => Names(r, r.event.doc)) /\ (Gone(r) => Fresh(r)) /\ (Late(r) => ~Fresh(r))
      /\ (EditBehind(r) => Fresh(r)) /\ (ByUnlock(r) => Fresh(r))
  BY <1>1, BehindShape DEF Gone, Fresh, Late, Knows, Names
<1>3. /\ Idle \in Stages /\ Idle.at = "idle"
      /\ ~Behind(Idle) /\ ~Fresh(Idle) /\ ~Late(Idle) /\ ~EditBehind(Idle) /\ ~ByUnlock(Idle)
      /\ \A id : ~Knows(Idle, id) /\ ~Names(Idle, id)
  <2>1. Idle \in Stages /\ Idle.at = "idle"
    BY DEF Idle, Stages
  <2>. QED  BY <2>1, Quiet
<1>4. /\ thread' \in [Threads -> Stages]
      /\ thread'[t] = Idle /\ \A u \in Threads \ {t} : thread'[u] = thread[u]
  BY <1>1, <1>3, Stepping
<1>5. TabTyped' /\ ClosedIs' /\ JournalIs' /\ LateIs'
  BY <1>1, <1>3, <1>4 DEF TabSound, TabTyped, ClosedIs, JournalIs, LateIs
<1>6. IsOpen(r.event) => r.event.doc < nextDoc
  BY <1>1, <1>2, EventShape DEF TabSound, Below
<1>7. Below'
  BY <1>1, <1>3, <1>4, <1>6 DEF TabSound, Below
<1>9. ASSUME listed PROVE Followed'
  <2>1. Followed
    BY <1>9 DEF TabSound
  <2>2. Late(r) => journal \subseteq racing
    BY DEF TabSound, LateIs
  <2>3. Fresh(r) =>
          /\ Gone(r) <=> document = None
          /\ r.event = IF document = None THEN PasswordNeeded ELSE Opened(document)
          /\ event = r.event \/ journal \subseteq racing
    BY <1>1, <2>1 DEF Followed, FreshIs
  <2>4. Fresh(r) => \A u \in Threads : ~Fresh(thread'[u])
    BY <1>3, <1>4, <2>1 DEF Followed, OneFresh
  <2>5. PageAsks'
    <3>1. page' = PasswordNeeded => Gone(r)
      BY <1>1, <1>2, EventShape
    <3>. QED  BY <1>1, <1>2, <2>3, <2>4, <3>1 DEF PageAsks
  <2>6. OneFresh'
    BY <1>3, <1>4, <2>1 DEF Followed, OneFresh
  <2>7. FreshIs'
    <3>1. CASE Fresh(r)
      BY <2>4, <3>1 DEF FreshIs
    <3>2. CASE Late(r)
      <4>1. page' # PasswordNeeded /\ IsOpen(page')
        BY <1>1, <1>2, <3>2, EventShape
      <4>2. ASSUME Unheard PROVE Unheard'
        BY <1>1, <1>2, <1>3, <1>4, <3>2, <4>2 DEF Unheard
      <4>. QED  BY <1>1, <1>3, <1>4, <2>1, <4>1, <4>2 DEF Followed, FreshIs
    <3>. QED  BY <1>2, <3>1, <3>2 DEF Behind
  <2>8. ChangesTold'
    <3>1. CASE Fresh(r) /\ document # None
      <4>1. page' = Opened(document) /\ IsOpen(page') /\ page'.unsaved = journal
        BY <1>1, <2>3, <3>1, DocShape DEF JournalIs
      <4>. QED  BY <1>1, <2>3, <3>1, <4>1 DEF ChangesTold
    <3>2. CASE Late(r)
      BY <1>1, <2>2, <3>2 DEF ChangesTold
    <3>. QED  BY <1>1, <1>2, <3>1, <3>2 DEF Behind, ChangesTold
  <2>9. InStep'
    <3>1. ~overlapped => /\ \A u \in Threads : ~Behind(thread'[u])
                         /\ r.event = event
                         /\ Late(r) => document # None /\ r.event = Opened(document)
      BY <1>1, <1>2, <1>3, <1>4, <2>1 DEF Followed, InStep
    <3>2. \A u \in Threads : Late(thread'[u]) \/ thread'[u].at = "sending" => Behind(thread'[u])
      BY <1>4, BehindShape DEF Behind
    <3>3. ~IsOpen(PasswordNeeded)
      BY <1>1, EventShape
    <3>. QED  BY <1>1, <1>2, <2>3, <3>1, <3>2, <3>3 DEF InStep, Behind
  <2>. QED  BY <2>5, <2>6, <2>7, <2>8, <2>9 DEF Followed
<1>. QED  BY <1>1, <1>5, <1>7, <1>9 DEF TabSound

LEMMA LosesKeeps ==
  ASSUME TabSound, JournalIs, NEW t \in Threads, Loses(t)
  PROVE  TabSound' /\ JournalIs'
<1> DEFINE r == thread[t]
           s == [at |-> "sending", cmd |-> r.cmd, event |-> PasswordNeeded]
<1>1. /\ r.at = "losing" /\ r \in Stages /\ thread \in [Threads -> Stages]
      /\ event' = PasswordNeeded /\ Becomes(t, s) /\ event \in Events
      /\ UNCHANGED <<listed, document, page, journal, nextDoc, racing, overlapped>>
  BY DEF Loses, TabSound, TabTyped
<1>2. /\ r.cmd \in Cmds /\ PasswordNeeded \in Events /\ ~IsOpen(PasswordNeeded)
      /\ Gone(r) /\ Fresh(r) /\ Behind(r)
  BY <1>1, StageShape, EventShape DEF Gone, Fresh, Behind
<1>3. /\ s \in Stages /\ s.at = "sending" /\ s.event = PasswordNeeded /\ s.cmd = r.cmd
      /\ Behind(s) /\ Fresh(s) /\ Gone(s) /\ ~ByUnlock(s) /\ ~Late(s)
      /\ \A id : ~Knows(s, id) /\ ~Names(s, id)
  BY <1>2, SendingStage
<1>4. /\ thread' \in [Threads -> Stages]
      /\ thread'[t] = s /\ \A u \in Threads \ {t} : thread'[u] = thread[u]
  BY <1>1, <1>3, Stepping
<1>5. \A u \in Threads : thread[u].at = "sending" => Behind(thread[u])
  BY <1>1, BehindShape
<1> HIDE DEF s
<1>6. TabTyped' /\ ClosedIs' /\ JournalIs' /\ Below' /\ LateIs'
  BY <1>1, <1>2, <1>3, <1>4 DEF TabSound, TabTyped, ClosedIs, JournalIs, Below, LateIs
<1>7. ASSUME listed PROVE Followed'
  <2>1. Followed
    BY <1>7 DEF TabSound
  <2>2. /\ document = None /\ page # PasswordNeeded
        /\ \A u \in Threads : Fresh(thread[u]) => u = t
    BY <1>2, <2>1 DEF Followed, FreshIs, OneFresh
  <2>3. OneFresh' /\ PageAsks' /\ ChangesTold' /\ FreshIs'
    BY <1>1, <1>3, <1>4, <2>2 DEF OneFresh, PageAsks, ChangesTold, FreshIs
  <2>4. ~overlapped => \A u \in Threads : Behind(thread[u]) => u = t
    BY <1>2, <2>1 DEF Followed, InStep
  <2>5. InStep'
    BY <1>1, <1>3, <1>4, <1>5, <2>4 DEF InStep, Behind
  <2>. QED  BY <2>3, <2>5 DEF Followed
<1>. QED  BY <1>1, <1>6, <1>7 DEF TabSound

LEMMA UnlocksKeeps ==
  ASSUME TabSound, NEW t \in Threads, NEW closing, Unlocks(t, closing)
  PROVE  TabSound' /\ (JournalIs => JournalIs')
<1> DEFINE s == [at |-> "loading"]
<1>1. /\ thread[t] = Idle /\ listed /\ thread \in [Threads -> Stages]
      /\ page = PasswordNeeded /\ page' = Opening /\ event' = Opening /\ Becomes(t, s)
      /\ event \in Events /\ racing \subseteq racing'
      /\ UNCHANGED <<listed, document, journal, nextDoc, overlapped>>
  BY DEF Unlocks, TabSound, TabTyped
<1>2. Opening \in Events /\ ~IsOpen(Opening) /\ Opening # PasswordNeeded
  BY <1>1, EventShape
<1>3. /\ s \in Stages /\ s.at = "loading" /\ Behind(s) /\ Fresh(s) /\ Gone(s)
      /\ ~ByUnlock(s) /\ ~Late(s) /\ ~EditBehind(s)
      /\ \A id : ~Knows(s, id) /\ ~Names(s, id)
  BY <1>2, UnlockStages
<1>4. /\ thread' \in [Threads -> Stages]
      /\ thread'[t] = s /\ \A u \in Threads \ {t} : thread'[u] = thread[u]
  BY <1>1, <1>3, Stepping
<1>5. \A u \in Threads : thread[u].at = "sending" => Behind(thread[u])
  BY <1>1, BehindShape
<1> HIDE DEF s
<1>6. TabTyped' /\ ClosedIs' /\ Below' /\ LateIs' /\ (JournalIs => JournalIs')
  BY <1>1, <1>2, <1>3, <1>4 DEF TabSound, TabTyped, ClosedIs, JournalIs, Below, LateIs
<1>7. Followed
  BY <1>1 DEF TabSound
<1>8. document = None /\ \A u \in Threads : ~Fresh(thread[u])
  BY <1>1, <1>7 DEF Followed, PageAsks
<1>9. ~overlapped => \A u \in Threads : ~Behind(thread[u])
  BY <1>7, <1>8 DEF Followed, InStep, Behind
<1>10. OneFresh' /\ PageAsks' /\ ChangesTold' /\ FreshIs'
  BY <1>1, <1>2, <1>3, <1>4, <1>8 DEF OneFresh, PageAsks, ChangesTold, FreshIs
<1>11. InStep'
  BY <1>1, <1>3, <1>4, <1>5, <1>9 DEF InStep, Behind
<1>. QED  BY <1>6, <1>10, <1>11 DEF TabSound, Followed

LEMMA LoadsKeeps ==
  ASSUME TabSound, JournalIs, NEW t \in Threads, Loads(t)
  PROVE  TabSound' /\ JournalIs'
<1> DEFINE r == thread[t]
           s == [at |-> "sending", event |-> event']
           new == [doc |-> nextDoc, unsaved |-> journal]
<1>1. /\ r.at = "loading" /\ r \in Stages /\ thread \in [Threads -> Stages]
      /\ event \in Events /\ page \in Events /\ nextDoc \in Nat /\ journal \in SUBSET Changes
      /\ document \in {None} \cup Docs
      /\ UNCHANGED <<listed, page, journal, racing, overlapped>>
  BY DEF Loads, TabSound, TabTyped
<1>2. Gone(r) /\ Fresh(r) /\ Behind(r)
  BY <1>1 DEF Gone, Fresh, Behind
<1>3. \A u \in Threads : thread[u].at = "sending" => Behind(thread[u])
  BY <1>1, BehindShape
<1>4. CASE ~listed
  <2>1. Becomes(t, Idle) /\ UNCHANGED <<document, event, nextDoc>>
    BY <1>4 DEF Loads
  <2>2. /\ Idle \in Stages /\ Idle.at = "idle"
    BY DEF Idle, Stages
  <2>3. ~Late(Idle) /\ \A id : ~Names(Idle, id)
    BY <2>2, Quiet
  <2>4. /\ thread' \in [Threads -> Stages]
        /\ thread'[t] = Idle /\ \A u \in Threads \ {t} : thread'[u] = thread[u]
    BY <1>1, <2>1, <2>2, Stepping
  <2>. QED
    BY <1>1, <1>4, <2>1, <2>2, <2>3, <2>4
       DEF TabSound, TabTyped, ClosedIs, JournalIs, Below, LateIs
<1>5. CASE listed
  <2>1. Followed
    BY <1>5 DEF TabSound
  <2>2. /\ document = None /\ page # PasswordNeeded
        /\ \A u \in Threads : Fresh(thread[u]) => u = t
    BY <1>2, <2>1 DEF Followed, FreshIs, OneFresh
  <2>3. ~overlapped => \A u \in Threads : Behind(thread[u]) => u = t
    BY <1>2, <2>1 DEF Followed, InStep
  <2>4. new \in Docs /\ new.doc = nextDoc /\ new.unsaved = journal
    BY <1>1 DEF Docs
  <2>5. /\ Becomes(t, s)
        /\ \/ document' = new /\ nextDoc' = nextDoc + 1 /\ event' = Opened(document')
           \/ event' = PasswordNeeded /\ UNCHANGED <<document, nextDoc>>
    BY <1>5 DEF Loads
  <2> HIDE DEF new
  <2>6. /\ event' \in Events /\ (IsOpen(event') <=> document' # None)
        /\ document' \in {None} \cup Docs /\ nextDoc' \in Nat /\ nextDoc' >= nextDoc
        /\ event' = IF document' = None THEN PasswordNeeded ELSE Opened(document')
        /\ document' # None => /\ document'.doc = nextDoc /\ nextDoc' = nextDoc + 1
                               /\ event'.doc = nextDoc
                               /\ document'.unsaved = journal
    BY <1>1, <2>2, <2>4, <2>5, DocShape, EventShape
  <2>7. /\ s \in Stages /\ s.at = "sending" /\ s.event = event' /\ "cmd" \notin DOMAIN s
        /\ Behind(s) /\ Fresh(s) /\ ByUnlock(s) /\ ~Late(s) /\ ~EditBehind(s)
        /\ Gone(s) <=> ~IsOpen(event')
        /\ \A id : ~Knows(s, id)
        /\ \A id : Names(s, id) <=> IsOpen(event') /\ id = event'.doc
    BY <2>6, UnlockStages
  <2>8. /\ thread' \in [Threads -> Stages]
        /\ thread'[t] = s /\ \A u \in Threads \ {t} : thread'[u] = thread[u]
    BY <1>1, <2>5, <2>7, Stepping
  <2> HIDE DEF s
  <2>9. TabTyped' /\ ClosedIs' /\ JournalIs' /\ LateIs'
    BY <1>1, <2>6, <2>7, <2>8 DEF TabSound, TabTyped, ClosedIs, JournalIs, LateIs
  <2>10. Below'
    BY <1>1, <2>6, <2>7, <2>8, EventShape DEF TabSound, Below
  <2>11. document' # None => Unheard'
    BY <1>1, <2>6, <2>7, <2>8 DEF TabSound, Below, Unheard, Knows
  <2>12. OneFresh' /\ PageAsks' /\ ChangesTold' /\ FreshIs'
    BY <1>1, <2>2, <2>6, <2>7, <2>8, <2>11 DEF OneFresh, PageAsks, ChangesTold, FreshIs
  <2>13. InStep'
    BY <1>1, <1>3, <2>3, <2>7, <2>8 DEF InStep, Behind
  <2>. QED  BY <2>9, <2>10, <2>12, <2>13 DEF TabSound, Followed
<1>. QED  BY <1>4, <1>5

\* A tab that is closed is out of the registry; its document then goes.
LEMMA ClosingKeeps ==
  ASSUME TabSound, NEW t \in Threads, ClosesTab(t)
  PROVE  TabSound' /\ (JournalIs => JournalIs')
<1> DEFINE s == [at |-> "closing", chosen |-> IF IsOpen(page) THEN page.unsaved ELSE {}]
<1>1. /\ thread[t] = Idle /\ Becomes(t, s) /\ ~listed' /\ racing \subseteq racing'
      /\ thread \in [Threads -> Stages] /\ page \in Events
      /\ UNCHANGED <<document, event, page, journal, nextDoc, overlapped>>
  BY DEF ClosesTab, TabSound, TabTyped
<1>2. s \in Stages /\ s.at = "closing" /\ Idle.at = "idle"
  BY <1>1, EventShape DEF Stages, Idle
<1>3. /\ thread' \in [Threads -> Stages]
      /\ thread'[t] = s /\ \A u \in Threads \ {t} : thread'[u] = thread[u]
  BY <1>1, <1>2, Stepping
<1> HIDE DEF s
<1>4. ~Late(s) /\ \A id : ~Names(s, id)
  BY <1>2, Quiet
<1>. QED
  BY <1>1, <1>2, <1>3, <1>4 DEF TabSound, TabTyped, ClosedIs, JournalIs, Below, LateIs

LEMMA ForgetsKeeps ==
  ASSUME TabSound, NEW t \in Threads, Forgets(t)
  PROVE  TabSound' /\ JournalIs'
<1>1. /\ thread[t].at = "closing" /\ Becomes(t, Idle) /\ document' = None
      /\ ~listed /\ thread \in [Threads -> Stages] /\ journal' \in SUBSET journal
      /\ UNCHANGED <<listed, event, page, nextDoc, overlapped, racing>>
  BY DEF Forgets, Discarded, TabSound, TabTyped, ClosedIs
<1>2. Idle \in Stages /\ Idle.at = "idle"
  BY DEF Idle, Stages
<1>3. ~Late(Idle) /\ \A id : ~Names(Idle, id)
  BY <1>2, Quiet
<1>4. /\ thread' \in [Threads -> Stages]
      /\ thread'[t] = Idle /\ \A u \in Threads \ {t} : thread'[u] = thread[u]
  BY <1>1, <1>2, Stepping
<1>. QED
  BY <1>1, <1>2, <1>3, <1>4 DEF TabSound, TabTyped, ClosedIs, JournalIs, Below, LateIs

-----------------------------------------------------------------------------
(* The tab as a whole.                                                      *)

LEMMA TabBegins == TabInit => TabSound /\ JournalIs
<1> SUFFICES ASSUME TabInit PROVE TabSound /\ JournalIs
  OBVIOUS
<1> DEFINE first == [doc |-> 1, unsaved |-> {}]
<1>1. /\ document = first /\ event = Opened(document) /\ page = event
      /\ journal = {} /\ nextDoc = 2 /\ thread = [t \in Threads |-> Idle]
  BY DEF TabInit
<1>2. first \in Docs /\ first.doc = 1 /\ first.unsaved = {}
  BY DEF Docs
<1> HIDE DEF first
<1>3. Idle \in Stages /\ Idle.at = "idle"
  BY DEF Idle, Stages
<1>4. /\ ~Behind(Idle) /\ ~Fresh(Idle) /\ ~Late(Idle)
      /\ \A id : ~Names(Idle, id)
  BY <1>3, Quiet
<1>5. TabTyped /\ Below /\ LateIs /\ ClosedIs /\ JournalIs
  BY <1>1, <1>2, <1>3, <1>4, DocShape DEF TabTyped, Below, LateIs, ClosedIs, JournalIs
<1>6. Followed
  BY <1>1, <1>2, <1>3, <1>4, DocShape
     DEF Followed, OneFresh, FreshIs, PageAsks, ChangesTold, InStep
<1>. QED  BY <1>5, <1>6 DEF TabSound

LEMMA CommandsKeepTab ==
  ASSUME TabSound, NEW t \in Threads, NEW closing,
         MakesChange(t, closing) \/ Saves(t) \/ Unlocks(t, closing) \/ ClosesTab(t)
  PROVE  TabSound' /\ (JournalIs => JournalIs')
<1>1. ASSUME NEW cmd \in Cmds, Call(t, cmd), UNCHANGED <<tabVars, overlapped>>,
             racing \subseteq racing'
      PROVE  TabSound' /\ (JournalIs => JournalIs')
  BY <1>1, CallKeeps DEF tabVars, JournalIs
<1>2. CASE MakesChange(t, closing)
  <2>1. PICK c \in Changes \ asked : Call(t, [kind |-> "edit", change |-> c])
    BY <1>2 DEF MakesChange
  <2>2. [kind |-> "edit", change |-> c] \in Cmds
    BY DEF Cmds
  <2>3. UNCHANGED <<tabVars, overlapped>> /\ racing \subseteq racing'
    BY <1>2 DEF MakesChange
  <2>. QED  BY <1>1, <2>1, <2>2, <2>3
<1>3. CASE Saves(t)
  <2>1. [kind |-> "save"] \in Cmds
    BY DEF Cmds
  <2>. QED  BY <1>1, <1>3, <2>1 DEF Saves
<1>. QED  BY <1>2, <1>3, UnlocksKeeps, ClosingKeeps

LEMMA GoesKeepsTab ==
  ASSUME TabSound, JournalIs, NEW t \in Threads, Goes(t)
  PROVE  TabSound' /\ JournalIs'
BY WorksKeeps, RecordsKeeps, SendsKeeps, LosesKeeps, LoadsKeeps, ForgetsKeeps DEF Goes

\* With no command running and nothing overtaken, the event and the page say of the
\* document what is so.
LEMMA FollowingIsSound == TabSound => EventFollowsDocument
<1> SUFFICES ASSUME TabSound, Running = {}, listed, ~overlapped
             PROVE  \/ document = None /\ ~IsOpen(event)
                    \/ document # None /\ event = Opened(document) /\ page = event
  BY DEF EventFollowsDocument, IsOpen
<1>1. \A t \in Threads : thread[t].at = "idle" /\ thread[t] \in Stages
  BY DEF Running, TabSound, TabTyped
<1>2. \A t \in Threads : ~Behind(thread[t])
  BY <1>1, Quiet
<1>. QED  BY <1>2 DEF TabSound, Followed, InStep

-----------------------------------------------------------------------------
(* What a command that goes on does to the changes in the journal.          *)

\* Which changes a thread is still making.
LEMMA MakingShape ==
  ASSUME NEW s \in Stages
  PROVE  /\ IsEdit(s) => s.at \in {"working", "recording", "losing", "sending"}
         /\ IsUnlock(s) => s.at \in {"loading", "sending"}
BY StageShape DEF IsEdit, IsUnlock

\* A command that goes on makes no change it was not called for, and only Works of an
\* edit puts one into the journal.
LEMMA GoingOn ==
  ASSUME TabSound, JournalIs, NEW t \in Threads, Goes(t)
  PROVE  /\ thread' \in [Threads -> Stages]
         /\ \A u \in Threads \ {t} : thread'[u] = thread[u]
         /\ thread[t].at \notin {"idle", "hiding", "leaving"}
         /\ thread'[t].at \notin {"closing", "hiding", "leaving"}
         /\ IsEdit(thread'[t]) => IsEdit(thread[t]) /\ thread'[t].cmd = thread[t].cmd
         /\ IsUnlock(thread'[t]) => IsUnlock(thread[t])
         /\ listed' = listed /\ racing \subseteq racing'
         /\ document' # None => document # None \/ (listed /\ IsUnlock(thread[t]))
         /\ \/ journal' \subseteq journal
            \/ /\ document # None /\ IsEdit(thread[t])
               /\ journal' = journal \cup {thread[t].cmd.change}
         /\ \/ lost' = lost
            \/ /\ thread[t].at = "closing" /\ document # None
               /\ lost' = lost \cup (journal \ thread[t].chosen)
<1> DEFINE r == thread[t]
<1>1. /\ thread \in [Threads -> Stages] /\ r \in Stages /\ TabTyped'
      /\ document \in {None} \cup Docs /\ nextDoc \in Nat
  BY GoesKeepsTab DEF TabSound, TabTyped
<1>2. thread' \in [Threads -> Stages] /\ Idle.at = "idle"
  BY <1>1 DEF TabTyped, Idle
<1>3. /\ Idle \in Stages /\ ~IsEdit(Idle) /\ ~IsUnlock(Idle)
  BY Quiet DEF Idle, Stages
<1>4. ASSUME NEW s, Becomes(t, s)
      PROVE  thread'[t] = s /\ \A u \in Threads \ {t} : thread'[u] = thread[u]
  BY <1>1, <1>4 DEF Becomes
<1>5. CASE Works(t)
  <2>1. /\ r.at = "working" /\ "cmd" \in DOMAIN r /\ r.cmd \in Cmds
        /\ r.cmd.kind \in {"edit", "save"} /\ lost' = lost
        /\ IsEdit(r) <=> r.cmd.kind = "edit"
    BY <1>1, <1>5, StageShape, CmdShape DEF Works, IsEdit
  <2>2. CASE Becomes(t, Idle) /\ UNCHANGED <<tabVars, racing, overlapped>>
    BY <1>2, <1>3, <1>4, <1>5, <2>1, <2>2 DEF Works, tabVars
  <2>3. CASE /\ document # None
             /\ document' = After(document, r.cmd) /\ journal' = document'.unsaved
             /\ Overtakes(t)
             /\ Becomes(t, [at |-> "recording", cmd |-> r.cmd, info |-> document'])
             /\ listed' = listed
    <3>1. racing \subseteq racing'
      BY <2>3 DEF Overtakes
    <3>2. /\ r.cmd.kind = "edit" => journal' = journal \cup {r.cmd.change}
          /\ r.cmd.kind = "save" => journal' = {}
      BY <1>1, <2>1, <2>3, AfterShape DEF JournalIs
    <3>3. /\ thread'[t].at = "recording" /\ thread'[t].cmd = r.cmd /\ ~IsUnlock(thread'[t])
          /\ \A u \in Threads \ {t} : thread'[u] = thread[u]
      BY <1>1, <1>4, <2>3 DEF IsUnlock
    <3>4. IsEdit(thread'[t]) => IsEdit(r)
      BY <2>1, <3>3 DEF IsEdit
    <3>. QED  BY <1>2, <2>1, <2>3, <3>1, <3>2, <3>3, <3>4
  <2>4. CASE /\ document' = None /\ Overtakes(t)
             /\ Becomes(t, [at |-> "losing", cmd |-> r.cmd])
             /\ UNCHANGED <<listed, journal>>
    <3>1. racing \subseteq racing'
      BY <2>4 DEF Overtakes
    <3>2. /\ thread'[t].at = "losing" /\ thread'[t].cmd = r.cmd /\ ~IsUnlock(thread'[t])
          /\ \A u \in Threads \ {t} : thread'[u] = thread[u]
      BY <1>1, <1>4, <2>4 DEF IsUnlock
    <3>3. IsEdit(thread'[t]) => IsEdit(r)
      BY <2>1, <3>2 DEF IsEdit
    <3>. QED  BY <1>2, <2>1, <2>4, <3>1, <3>2, <3>3
  <2>. QED  BY <1>5, <2>2, <2>3, <2>4 DEF Works
<1>6. CASE Records(t) \/ Loses(t)
  <2>1. PICK e : Becomes(t, [at |-> "sending", cmd |-> r.cmd, event |-> e])
    BY <1>6 DEF Records, Loses
  <2>2. /\ thread'[t].at = "sending" /\ thread'[t].cmd = r.cmd /\ ~IsUnlock(thread'[t])
        /\ \A u \in Threads \ {t} : thread'[u] = thread[u]
    BY <1>1, <1>4, <2>1 DEF IsUnlock
  <2>3. r.at \in {"recording", "losing"} /\ "cmd" \in DOMAIN r
    BY <1>1, <1>6, StageShape DEF Records, Loses
  <2>4. IsEdit(thread'[t]) => IsEdit(r)
    BY <2>2, <2>3 DEF IsEdit
  <2>. QED  BY <1>2, <1>6, <2>2, <2>3, <2>4 DEF Records, Loses
<1>7. CASE Sends(t)
  BY <1>2, <1>3, <1>4, <1>7 DEF Sends
<1>8. CASE Loads(t)
  <2>1. r.at = "loading" /\ IsUnlock(r)
    BY <1>8 DEF Loads, IsUnlock
  <2>2. /\ ~IsEdit(thread'[t]) /\ thread'[t].at \in {"idle", "sending"}
        /\ \A u \in Threads \ {t} : thread'[u] = thread[u]
    <3>1. CASE Becomes(t, Idle)
      BY <1>2, <1>3, <1>4, <3>1
    <3>2. CASE Becomes(t, [at |-> "sending", event |-> event'])
      BY <1>4, <3>2 DEF IsEdit
    <3>. QED  BY <1>8, <3>1, <3>2 DEF Loads
  <2>. QED  BY <1>2, <1>8, <2>1, <2>2 DEF Loads
<1>9. CASE Forgets(t)
  BY <1>2, <1>3, <1>4, <1>9 DEF Forgets, Discarded
<1>. QED  BY <1>5, <1>6, <1>7, <1>8, <1>9 DEF Goes

-----------------------------------------------------------------------------
(***************************************************************************)
(* The window and the tab in it.                                            *)
(***************************************************************************)

-----------------------------------------------------------------------------
(* The inductive invariant.                                                 *)

\* What the main thread was sent is a sequence, of whatever messages.
Sent == \E S : main \in Seq(S)

Batched == batch = [b \in Batches |-> batch[b]]

\* A window that is shown waits for nothing, a hidden one waits for batches, with
\* the icon, or for the message to be read, with no batch left to end.
Modes ==
  /\ window \in {"shown", "hidden", "gone"}
  /\ mode = Open \/ mode.kind \in {"Hidden", "Closing"}
  /\ window = "shown" => mode = Open
  /\ window = "hidden" => mode.kind \in {"Hidden", "Closing"}
  /\ mode.kind = "Hidden" => icon
  /\ mode.kind = "Closing" => ~AnyRunning

\* While the window is hidden a batch runs, or the main thread has yet to hear of
\* its end.
EndIsTold ==
  mode.kind = "Hidden" =>
    \/ \E b \in Batches : batch[b] \in {"running", "ended"}
    \/ \E i \in DOMAIN main : main[i].kind = "ended"

Windowed == Sent /\ Batched /\ Modes /\ EndIsTold

LEMMA InitIsSound == Init => Windowed
<1> SUFFICES ASSUME Init PROVE Windowed
  OBVIOUS
<1>1. Sent
  <2>1. main \in Seq({})
    BY DEF Init
  <2>. QED  BY <2>1 DEF Sent
<1>. QED  BY <1>1 DEF Init, Windowed, Batched, Modes, EndIsTold, Open

-----------------------------------------------------------------------------
(* Messages.                                                                *)

\* A message more leaves those that were there.
LEMMA SendingKeeps ==
  ASSUME Sent, NEW m, main' = Append(main, m)
  PROVE  /\ Sent'
         /\ m.kind = "ended" => \E i \in DOMAIN main' : main'[i].kind = "ended"
         /\ \A i \in DOMAIN main : i \in DOMAIN main' /\ main'[i] = main[i]
<1>. PICK S : main \in Seq(S)
  BY DEF Sent
<1> DEFINE T == S \cup {m}
<1>1. main \in Seq(T) /\ m \in T
  OBVIOUS
<1>2. /\ main' \in Seq(T) /\ Len(main') = Len(main) + 1 /\ main'[Len(main) + 1] = m
      /\ \A i \in 1..Len(main) : main'[i] = main[i]
  BY <1>1
<1>3. Sent'
  BY <1>2 DEF Sent
<1>4. Len(main) \in Nat /\ DOMAIN main = 1..Len(main) /\ DOMAIN main' = 1..Len(main')
  BY <1>1, <1>2
<1>5. Len(main) + 1 \in DOMAIN main'
  BY <1>2, <1>4
<1>. QED  BY <1>2, <1>3, <1>4, <1>5

\* A turn of the main thread takes the first message, of the kind it handles.
LEMMA TakingKeeps ==
  ASSUME Sent, NEW kind, Turn(kind)
  PROVE  /\ Sent'
         /\ kind # "ended" /\ (\E i \in DOMAIN main : main[i].kind = "ended") =>
              \E i \in DOMAIN main' : main'[i].kind = "ended"
<1>. PICK S : main \in Seq(S)
  BY DEF Sent
<1>1. main # <<>> /\ Head(main).kind = kind /\ main' = Tail(main)
  BY DEF Turn
<1>2. /\ main' \in Seq(S) /\ Len(main') = Len(main) - 1
      /\ \A i \in 1..Len(main') : main'[i] = main[i + 1]
  BY <1>1, HeadTailProperties
<1>3. Head(main) = main[1]
  BY <1>1
<1>4. ASSUME kind # "ended", NEW i \in DOMAIN main, main[i].kind = "ended"
      PROVE  \E j \in DOMAIN main' : main'[j].kind = "ended"
  <2>1. i \in 1..Len(main) /\ i # 1 /\ Len(main) \in Nat
    BY <1>1, <1>3, <1>4
  <2>2. i - 1 \in 1..Len(main') /\ main'[i - 1] = main[i]
    BY <1>2, <2>1
  <2>. QED  BY <1>2, <1>4, <2>2
<1>. QED  BY <1>2, <1>4 DEF Sent

-----------------------------------------------------------------------------
(* Commands, batches and the main thread.                                   *)

\* Commands and the page at most send the main thread something.
LEMMA CommandsKeep ==
  ASSUME Windowed, UNCHANGED <<window, mode, icon, batch>>,
         UNCHANGED main \/ \E m : main' = Append(main, m)
  PROVE  Windowed'
<1>1. Batched' /\ Modes'
  BY DEF Windowed, Batched, Modes, AnyRunning
<1>2. CASE UNCHANGED main
  BY <1>1, <1>2 DEF Windowed, Sent, EndIsTold
<1>3. ASSUME NEW m, main' = Append(main, m) PROVE Windowed'
  BY <1>1, <1>3, SendingKeeps DEF Windowed, EndIsTold
<1>. QED  BY <1>2, <1>3

LEMMA BatchesKeep ==
  ASSUME Windowed, NEW b \in Batches, Starts(b) \/ Ends(b) \/ Tells(b)
  PROVE  Windowed'
<1>1. CASE Starts(b)
  <2>1. /\ window = "shown" /\ batch' = [batch EXCEPT ![b] = "running"]
        /\ UNCHANGED <<window, mode, icon, main>>
    BY <1>1 DEF Starts
  <2>2. mode = Open
    BY <2>1 DEF Windowed, Modes
  <2>3. Batched'
    BY <2>1 DEF Windowed, Batched
  <2>4. Modes' /\ EndIsTold'
    BY <2>1, <2>2 DEF Windowed, Modes, EndIsTold, Open
  <2>. QED  BY <2>1, <2>3, <2>4 DEF Windowed, Sent
<1>2. CASE Ends(b)
  <2>1. /\ batch' = [batch EXCEPT ![b] = "ended"]
        /\ UNCHANGED <<window, mode, icon, main>>
    BY <1>2 DEF Ends
  <2>2. \A a \in Batches : batch'[a] = IF a = b THEN "ended" ELSE batch[a]
    BY <2>1 DEF Windowed, Batched
  <2>3. Batched'
    BY <2>1 DEF Windowed, Batched
  <2>4. Modes'
    BY <2>1, <2>2 DEF Windowed, Modes, AnyRunning
  <2>5. EndIsTold'
    BY <2>1, <2>2 DEF Windowed, EndIsTold
  <2>. QED  BY <2>1, <2>3, <2>4, <2>5 DEF Windowed, Sent
<1>3. CASE Tells(b)
  <2>1. /\ batch' = [batch EXCEPT ![b] = "told"] /\ main' = Append(main, [kind |-> "ended"])
        /\ UNCHANGED <<window, mode, icon>>
    BY <1>3 DEF Tells
  <2>2. \A a \in Batches : batch'[a] = IF a = b THEN "told" ELSE batch[a]
    BY <2>1 DEF Windowed, Batched
  <2>3. Batched'
    BY <2>1 DEF Windowed, Batched
  <2>4. Modes'
    BY <2>1, <2>2 DEF Windowed, Modes, AnyRunning
  <2>5. Sent' /\ EndIsTold'
    BY <2>1, SendingKeeps DEF Windowed, EndIsTold
  <2>. QED  BY <2>3, <2>4, <2>5 DEF Windowed
<1>. QED  BY <1>1, <1>2, <1>3

LEMMA MainThreadKeeps == ASSUME Windowed, MainThread PROVE Windowed'
<1>1. CASE Hides
  <2> DEFINE m == Head(main)
  <2>1. Sent' /\ UNCHANGED batch
    BY <1>1, TakingKeeps DEF Hides, Windowed
  <2>2. CASE UNCHANGED <<window, mode, icon>>
    <3>1. EndIsTold'
      BY <1>1, <2>1, <2>2, TakingKeeps DEF Hides, Windowed, EndIsTold
    <3>. QED  BY <2>1, <2>2, <3>1 DEF Windowed, Batched, Modes, AnyRunning
  <2>3. CASE /\ AnyRunning /\ mode' = Hidden(m.chosen, m.discard)
             /\ IF mode = Open THEN icon' = TRUE /\ window' = "hidden"
                ELSE UNCHANGED <<icon, window>>
    <3>1. mode'.kind = "Hidden" /\ mode' # Open
      BY <2>3 DEF Hidden, Open
    <3>2. Modes'
      BY <2>1, <2>3, <3>1 DEF Windowed, Modes, AnyRunning, Open
    <3>3. EndIsTold'
      BY <2>1, <2>3 DEF EndIsTold, AnyRunning
    <3>. QED  BY <2>1, <3>2, <3>3 DEF Windowed, Batched
  <2>. QED  BY <1>1, <2>2, <2>3 DEF Hides, Stays
<1>2. CASE Shows
  <2>1. Sent' /\ UNCHANGED batch /\ mode' = Open /\ window' = "shown"
    BY <1>2, TakingKeeps DEF Shows, Windowed
  <2>. QED  BY <2>1 DEF Windowed, Batched, Modes, EndIsTold, Open
<1>3. CASE EndedOnMain
  <2>1. Sent' /\ UNCHANGED <<batch, window>>
    BY <1>3, TakingKeeps DEF EndedOnMain, Windowed
  <2>2. CASE mode.kind # "Hidden" \/ AnyRunning
    <3>1. UNCHANGED <<mode, icon>>
      BY <1>3, <2>2 DEF EndedOnMain
    <3>. QED  BY <2>1, <2>2, <3>1 DEF Windowed, Batched, Modes, EndIsTold, AnyRunning
  <2>3. CASE mode.kind = "Hidden" /\ ~AnyRunning
    <3>1. mode' = Message(mode)
      BY <1>3, <2>3 DEF EndedOnMain
    <3>. QED  BY <2>1, <2>3, <3>1 DEF Message, Windowed, Batched, Modes, EndIsTold, AnyRunning, Open
  <2>. QED  BY <2>2, <2>3
<1>4. CASE ClosesOnMain
  <2>1. /\ Sent' /\ UNCHANGED <<batch, mode, icon>> /\ window' \in {window, "gone"}
    BY <1>4, TakingKeeps DEF ClosesOnMain, Windowed
  <2>2. EndIsTold'
    BY <1>4, <2>1, TakingKeeps DEF ClosesOnMain, Windowed, EndIsTold
  <2>. QED  BY <2>1, <2>2 DEF Windowed, Batched, Modes, AnyRunning
<1>. QED  BY <1>1, <1>2, <1>3, <1>4 DEF MainThread

LEMMA StepKeeps == ASSUME Windowed, [Next]_vars PROVE Windowed'
<1>1. CASE UNCHANGED vars
  BY <1>1, CommandsKeep DEF vars, cvars
<1>2. ASSUME NEW t \in Threads, OnThread(t) PROVE Windowed'
  <2>1. CASE UNCHANGED cvars
    BY <2>1, CommandsKeep DEF cvars
  <2>2. CASE Leaves(t)
    <3>1. UNCHANGED <<mode, icon, main, batch>> /\ window' = "gone"
      BY <2>2 DEF Leaves
    <3>. QED  BY <3>1 DEF Windowed, Sent, Batched, Modes, EndIsTold, AnyRunning
  <2>3. ASSUME NEW discard, NEW chosen, ClosesWindow(t, discard, chosen) PROVE Windowed'
    BY <2>3, CommandsKeep DEF ClosesWindow
  <2>4. CASE PageSaves(t)
    BY <2>4, CommandsKeep DEF PageSaves
  <2>5. CASE TimerEnds(t)
    BY <2>5, CommandsKeep DEF TimerEnds
  <2>. QED
    BY <1>2, <2>1, <2>2, <2>3, <2>4, <2>5
       DEF OnThread, PageSettles, PageDiscards, PageSaved
<1>3. CASE UserCloses
  BY <1>3, CommandsKeep DEF UserCloses
<1>4. CASE PageCancels
  BY <1>4, CommandsKeep DEF PageCancels
<1>5. CASE ShowsAgain
  BY <1>5, CommandsKeep DEF ShowsAgain
<1>6. CASE Reads
  BY <1>6, CommandsKeep DEF Reads
<1>. QED
  BY <1>1, <1>2, <1>3, <1>4, <1>5, <1>6, BatchesKeep, MainThreadKeeps DEF Next

-----------------------------------------------------------------------------
(* What closing deletes.                                                    *)

Unlocking == \E t \in Threads : IsUnlock(thread[t])

\* Every change still being made, or made again, is one of these.
InHand(changes) ==
  /\ \A t \in Threads : IsEdit(thread[t]) => thread[t].cmd.change \in changes
  /\ Unlocking => journal \subseteq changes

\* What a close that discards `chosen` may delete later: nothing else is in the
\* journal but what was on its way.
Accounted(chosen) ==
  /\ InHand(racing)
  /\ listed /\ (document # None \/ Unlocking) => journal \subseteq chosen \cup racing

\* The threads that close the window or the tab.
ClosesAccounted == \A t \in Threads : LET s == thread[t] IN
  /\ s.at \in {"hiding", "leaving"} => InHand(racing) /\ (~s.asks => Accounted(s.chosen))
  /\ s.at = "closing" => /\ InHand(racing)
                         /\ document # None => journal \subseteq s.chosen \cup racing

\* A close that waits for batches.
ModeIs ==
  mode = Open \/ mode = [kind |-> mode.kind, chosen |-> mode.chosen, discard |-> mode.discard]
WaitsAccounted ==
  mode.kind \in {"Hidden", "Closing"} /\ mode.discard => Accounted(mode.chosen)

\* A message to hide the window is of a thread that waits for it, one for each.
IsHide(m) == m.kind = "hide"
HidesAreAsked ==
  /\ \A i \in DOMAIN main : IsHide(main[i]) => LET s == thread[main[i].thread] IN
       /\ main[i].thread \in Threads /\ s.at = "hiding"
       /\ s.chosen = main[i].chosen /\ (main[i].discard => ~s.asks)
  /\ \A i, j \in DOMAIN main :
       IsHide(main[i]) /\ IsHide(main[j]) /\ main[i].thread = main[j].thread => i = j

Closed ==
  /\ TabSound /\ ModeIs /\ lost \subseteq racing
  /\ Exists => JournalIs /\ ClosesAccounted /\ WaitsAccounted /\ HidesAreAsked

LEMMA InHandIs == ASSUME NEW changes PROVE UnderWay \subseteq changes <=> InHand(changes)
BY DEF UnderWay, BeingMade, BeingReopened, InHand, Unlocking

LEMMA ClosedAtFirst == Init => Closed
<1> SUFFICES ASSUME Init PROVE Closed
  OBVIOUS
<1>1. TabSound /\ JournalIs
  BY TabBegins DEF Init
<1>2. /\ mode = Open /\ main = <<>> /\ lost = {}
      /\ thread = [t \in Threads |-> Idle]
  BY DEF Init, TabInit
<1>3. Idle.at = "idle" /\ Open.kind = "Open" /\ DOMAIN main = {}
  BY <1>2 DEF Idle, Open
<1>4. ClosesAccounted /\ WaitsAccounted /\ HidesAreAsked /\ ModeIs
  BY <1>2, <1>3 DEF ClosesAccounted, WaitsAccounted, HidesAreAsked, ModeIs
<1>. QED  BY <1>1, <1>2, <1>4 DEF Closed

\* A message more: who waits to be hidden is the thread it names.
LEMMA OneMore ==
  ASSUME Sent, NEW m, main' = Append(main, m)
  PROVE  \E n \in Nat : /\ n \notin DOMAIN main /\ DOMAIN main' = DOMAIN main \cup {n}
                        /\ main'[n] = m /\ \A i \in DOMAIN main : main'[i] = main[i]
<1>. PICK S : main \in Seq(S)
  BY DEF Sent
<1> DEFINE T == S \cup {m}
<1>1. main \in Seq(T) /\ m \in T
  OBVIOUS
<1>2. /\ main' \in Seq(T) /\ Len(main') = Len(main) + 1 /\ main'[Len(main) + 1] = m
      /\ \A i \in 1..Len(main) : main'[i] = main[i]
  BY <1>1
<1>3. Len(main) \in Nat /\ DOMAIN main = 1..Len(main) /\ DOMAIN main' = 1..Len(main')
  BY <1>1, <1>2
<1>4. Len(main) + 1 \in Nat /\ Len(main) + 1 \notin DOMAIN main
      /\ DOMAIN main' = DOMAIN main \cup {Len(main) + 1}
  BY <1>2, <1>3
<1>. QED  BY <1>2, <1>3, <1>4

\* One message less.
LEMMA OneLess ==
  ASSUME Sent, NEW kind, Turn(kind)
  PROVE  /\ 1 \in DOMAIN main /\ main[1] = Head(main) /\ Head(main).kind = kind
         /\ \A i \in DOMAIN main' : /\ i + 1 \in DOMAIN main /\ main'[i] = main[i + 1]
                                    /\ i \in Nat /\ i >= 1
<1>. PICK S : main \in Seq(S)
  BY DEF Sent
<1>1. main # <<>> /\ Head(main).kind = kind /\ main' = Tail(main)
  BY DEF Turn
<1>2. /\ main' \in Seq(S) /\ Len(main') = Len(main) - 1 /\ Len(main) \in Nat /\ Len(main) >= 1
      /\ \A i \in 1..Len(main') : main'[i] = main[i + 1]
  BY <1>1, HeadTailProperties
<1>3. DOMAIN main = 1..Len(main) /\ DOMAIN main' = 1..Len(main') /\ Head(main) = main[1]
  BY <1>1, <1>2
<1>. QED  BY <1>1, <1>2, <1>3

\* The window's own steps leave the tab as it is.
LEMMA WindowOnly ==
  ASSUME Closed, Exists, UNCHANGED tvars, ModeIs', HidesAreAsked',
         mode'.kind \in {"Hidden", "Closing"} =>
           /\ mode.kind \in {"Hidden", "Closing"}
           /\ mode'.discard = mode.discard /\ mode'.chosen = mode.chosen
  PROVE  Closed'
<1>1. UNCHANGED <<listed, document, event, page, journal, nextDoc, thread, lost, racing,
                  overlapped>>
  BY DEF tvars
<1>2. thread \in [Threads -> Stages] /\ ClosedIs
  BY DEF Closed, TabSound, TabTyped
<1>3. TabSound'
  BY <1>1, <1>2, QuietSteps DEF Closed, ClosedIs
<1>4. JournalIs' /\ ClosesAccounted' /\ lost' \subseteq racing'
  BY <1>1 DEF Closed, JournalIs, ClosesAccounted, Accounted, InHand, Unlocking
<1>5. WaitsAccounted'
  BY <1>1 DEF Closed, WaitsAccounted, Accounted, InHand, Unlocking
<1>. QED  BY <1>3, <1>4, <1>5 DEF Closed

LEMMA MessagesKeep ==
  ASSUME Sent, HidesAreAsked, UNCHANGED thread,
         \/ UNCHANGED main
         \/ \E m : main' = Append(main, m) /\ ~IsHide(m)
         \/ \E kind : Turn(kind)
  PROVE  HidesAreAsked'
<1>1. CASE UNCHANGED main
  BY <1>1 DEF HidesAreAsked
<1>2. ASSUME NEW m, main' = Append(main, m), ~IsHide(m) PROVE HidesAreAsked'
  <2>1. PICK n \in Nat : /\ n \notin DOMAIN main /\ DOMAIN main' = DOMAIN main \cup {n}
                        /\ main'[n] = m /\ \A i \in DOMAIN main : main'[i] = main[i]
    BY <1>2, OneMore
  <2>. QED  BY <1>2, <2>1 DEF HidesAreAsked
<1>3. ASSUME NEW kind, Turn(kind) PROVE HidesAreAsked'
  <2>1. \A i \in DOMAIN main' : /\ i + 1 \in DOMAIN main /\ main'[i] = main[i + 1]
                               /\ i \in Nat
    BY <1>3, OneLess
  <2>2. \A i, j \in DOMAIN main' : i + 1 = j + 1 => i = j
    BY <2>1
  <2>. QED  BY <2>1, <2>2 DEF HidesAreAsked
<1>. QED  BY <1>1, <1>2, <1>3

\* A command that goes on adds nothing to the journal but what is on its way.
LEMMA GoesAccounts ==
  ASSUME TabSound, JournalIs, NEW t \in Threads, Goes(t)
  PROVE  /\ InHand(racing) => InHand(racing)'
         /\ \A chosen : Accounted(chosen) => Accounted(chosen)'
         /\ ~listed /\ InHand(racing) => \A chosen :
              (document # None => journal \subseteq chosen \cup racing)
                => (document' # None => journal' \subseteq chosen \cup racing')
<1>1. /\ \A u \in Threads \ {t} : thread'[u] = thread[u]
      /\ IsEdit(thread'[t]) => IsEdit(thread[t]) /\ thread'[t].cmd = thread[t].cmd
      /\ IsUnlock(thread'[t]) => IsUnlock(thread[t])
      /\ listed' = listed /\ racing \subseteq racing'
      /\ document' # None => document # None \/ (listed /\ IsUnlock(thread[t]))
      /\ \/ journal' \subseteq journal
         \/ /\ document # None /\ IsEdit(thread[t])
            /\ journal' = journal \cup {thread[t].cmd.change}
  BY GoingOn
<1>2. Unlocking' => Unlocking
  BY <1>1 DEF Unlocking
<1>3. InHand(racing) => journal' \subseteq journal \cup racing'
  BY <1>1 DEF InHand
<1>4. InHand(racing) => InHand(racing)'
  BY <1>1, <1>2, <1>3 DEF InHand
<1>5. ASSUME NEW chosen, Accounted(chosen) PROVE Accounted(chosen)'
  <2>1. listed /\ (document' # None \/ Unlocking') => journal \subseteq chosen \cup racing
    BY <1>1, <1>2, <1>5 DEF Accounted, Unlocking
  <2>. QED  BY <1>1, <1>3, <1>4, <1>5, <2>1 DEF Accounted
<1>6. ASSUME ~listed, InHand(racing), NEW chosen,
             document # None => journal \subseteq chosen \cup racing, document' # None
      PROVE  journal' \subseteq chosen \cup racing'
  BY <1>1, <1>3, <1>6
<1>. QED  BY <1>4, <1>5, <1>6

LEMMA GoesKeeps ==
  ASSUME Closed, Exists, NEW t \in Threads, Goes(t), UNCHANGED cvars
  PROVE  Closed'
<1>1. TabSound /\ JournalIs /\ ClosesAccounted /\ WaitsAccounted /\ HidesAreAsked
  BY DEF Closed
<1>2. UNCHANGED <<main, mode>>
  BY DEF cvars
<1>3. /\ \A u \in Threads \ {t} : thread'[u] = thread[u]
      /\ thread[t].at \notin {"idle", "hiding", "leaving"}
      /\ thread'[t].at \notin {"closing", "hiding", "leaving"}
      /\ racing \subseteq racing'
      /\ \/ lost' = lost
         \/ /\ thread[t].at = "closing" /\ document # None
            /\ lost' = lost \cup (journal \ thread[t].chosen)
  BY <1>1, GoingOn
<1>4. TabSound' /\ JournalIs'
  BY <1>1, GoesKeepsTab
<1>5. HidesAreAsked'
  BY <1>1, <1>2, <1>3 DEF HidesAreAsked
<1>6. ClosesAccounted'
  <2>1. ASSUME NEW u \in Threads, thread'[u].at \in {"hiding", "leaving", "closing"}
        PROVE  u # t /\ thread'[u] = thread[u]
    BY <1>3, <2>1
  <2>2. \A u \in Threads : thread[u].at = "closing" => ~listed
    BY <1>1 DEF TabSound, ClosedIs
  <2>. QED  BY <1>1, <2>1, <2>2, GoesAccounts DEF ClosesAccounted
<1>7. WaitsAccounted'
  BY <1>1, <1>2, GoesAccounts DEF WaitsAccounted
<1>8. lost' \subseteq racing'
  BY <1>1, <1>3 DEF Closed, ClosesAccounted
<1>. QED  BY <1>2, <1>4, <1>5, <1>6, <1>7, <1>8 DEF Closed, ModeIs

\* A command that is called while a close is under way is on its way to that close.
LEMMA CallsKeep ==
  ASSUME Closed, Windowed, Exists, NEW t \in Threads,
         \/ window = "shown" /\ Commands(t, UnderClosing)
         \/ Saves(t),
         UNCHANGED <<main, mode>>
  PROVE  Closed'
<1>1. TabSound /\ JournalIs /\ ClosesAccounted /\ WaitsAccounted /\ HidesAreAsked
  BY DEF Closed
<1>2. TabSound' /\ JournalIs'
  BY <1>1, CommandsKeepTab DEF Commands
<1>3. /\ thread[t] = Idle /\ thread \in [Threads -> Stages] /\ Idle.at = "idle"
      /\ Idle \in Stages /\ ~IsEdit(Idle) /\ ~IsUnlock(Idle) /\ page \in Events
  BY <1>1, Quiet
     DEF Commands, MakesChange, Saves, Call, Unlocks, ClosesTab, TabSound, TabTyped, Idle, Stages
<1>4. ASSUME NEW s, Becomes(t, s)
      PROVE  thread'[t] = s /\ \A u \in Threads \ {t} : thread'[u] = thread[u]
  BY <1>3, <1>4 DEF Becomes
<1>5. ASSUME \A u \in Threads \ {t} : thread'[u] = thread[u]
      PROVE  HidesAreAsked'
  BY <1>1, <1>3, <1>5 DEF HidesAreAsked
<1>6. window = "shown" => mode' = Open /\ WaitsAccounted'
  BY DEF Windowed, Modes, WaitsAccounted, Open
<1>7. \A u \in Threads : /\ thread[u].at = "closing" => ~listed
                         /\ thread[u].at \in {"hiding", "leaving"} => UnderClosing
  BY <1>1 DEF TabSound, ClosedIs, UnderClosing
<1>8. CASE Saves(t)
  <2> DEFINE s == [at |-> "working", cmd |-> [kind |-> "save"], doc |-> page.doc]
  <2>1. /\ Becomes(t, s)
        /\ UNCHANGED <<listed, document, journal, racing, lost>>
    BY <1>8 DEF Saves, Call, tabVars
  <2>2. thread'[t] = s /\ \A u \in Threads \ {t} : thread'[u] = thread[u]
    BY <1>4, <2>1
  <2>3. s.at = "working" /\ ~IsEdit(s) /\ ~IsUnlock(s)
    BY DEF IsEdit, IsUnlock
  <2> HIDE DEF s
  <2>4. \A X : /\ InHand(X) => InHand(X)'
               /\ Accounted(X) => Accounted(X)'
    BY <1>3, <2>1, <2>2, <2>3 DEF InHand, Accounted, Unlocking
  <2>5. InHand(racing) => InHand(racing)'
    BY <1>3, <2>1, <2>2, <2>3 DEF InHand, Unlocking
  <2>6. ClosesAccounted' /\ WaitsAccounted'
    BY <1>1, <2>1, <2>2, <2>3, <2>4, <2>5 DEF ClosesAccounted, WaitsAccounted
  <2>. QED  BY <1>2, <1>5, <2>1, <2>2, <2>6 DEF Closed, ModeIs
<1>9. CASE window = "shown" /\ MakesChange(t, UnderClosing)
  <2>1. PICK c \in Changes : Call(t, [kind |-> "edit", change |-> c]) /\
              racing' = IF UnderClosing THEN racing \cup {c} ELSE racing
    BY <1>9 DEF MakesChange
  <2> DEFINE s == [at |-> "working", cmd |-> [kind |-> "edit", change |-> c], doc |-> page.doc]
  <2>2. /\ Becomes(t, s) /\ listed
        /\ UNCHANGED <<listed, document, journal, lost>>
    BY <1>9, <2>1 DEF MakesChange, Call, tabVars
  <2>3. thread'[t] = s /\ \A u \in Threads \ {t} : thread'[u] = thread[u]
    BY <1>4, <2>2
  <2>4. s.at = "working" /\ s.cmd.change = c /\ ~IsUnlock(s)
    BY DEF IsUnlock
  <2> HIDE DEF s
  <2>5. /\ UnderClosing /\ InHand(racing) => InHand(racing)'
        /\ \A X : UnderClosing /\ Accounted(X) => Accounted(X)'
    BY <1>3, <2>1, <2>2, <2>3, <2>4 DEF InHand, Accounted, Unlocking
  <2>6. ClosesAccounted'
    BY <1>1, <1>7, <2>2, <2>3, <2>4, <2>5 DEF ClosesAccounted
  <2>7. lost' \subseteq racing'
    BY <2>1, <2>2 DEF Closed
  <2>. QED  BY <1>2, <1>5, <1>6, <1>9, <2>3, <2>6, <2>7 DEF Closed, ModeIs
<1>10. CASE window = "shown" /\ Unlocks(t, UnderClosing)
  <2> DEFINE s == [at |-> "loading"]
  <2>1. /\ Becomes(t, s) /\ listed
        /\ UNCHANGED <<listed, document, journal, lost>>
        /\ racing' = IF UnderClosing THEN racing \cup journal ELSE racing
    BY <1>10 DEF Unlocks
  <2>2. thread'[t] = s /\ \A u \in Threads \ {t} : thread'[u] = thread[u]
    BY <1>4, <2>1
  <2>3. s.at = "loading" /\ ~IsEdit(s)
    BY DEF IsEdit
  <2> HIDE DEF s
  <2>4. /\ UnderClosing /\ InHand(racing) => InHand(racing)'
        /\ \A X : UnderClosing /\ Accounted(X) => Accounted(X)'
    BY <1>3, <2>1, <2>2, <2>3 DEF InHand, Accounted, Unlocking
  <2>5. ClosesAccounted'
    BY <1>1, <1>7, <2>1, <2>2, <2>3, <2>4 DEF ClosesAccounted
  <2>6. lost' \subseteq racing'
    BY <2>1 DEF Closed
  <2>. QED  BY <1>2, <1>5, <1>6, <1>10, <2>2, <2>5, <2>6 DEF Closed, ModeIs
<1>11. CASE window = "shown" /\ ClosesTab(t)
  <2> DEFINE chosen == IF IsOpen(page) THEN page.unsaved ELSE {}
             s == [at |-> "closing", chosen |-> chosen]
  <2>1. /\ Becomes(t, s) /\ listed /\ ~listed'
        /\ UNCHANGED <<document, journal, lost>>
        /\ racing' = racing \cup UnderWay
    BY <1>11 DEF ClosesTab
  <2>2. thread'[t] = s /\ \A u \in Threads \ {t} : thread'[u] = thread[u]
    BY <1>4, <2>1
  <2>3. s.at = "closing" /\ ~IsEdit(s) /\ ~IsUnlock(s) /\ s.chosen = chosen
    BY DEF IsEdit, IsUnlock
  <2>4. InHand(racing \cup UnderWay)
    BY InHandIs
  <2>5. ASSUME document # None, NEW c \in journal PROVE c \in chosen \cup racing'
    <3>1. ChangesTold
      BY <1>1, <2>1 DEF TabSound, Followed
    <3>2. CASE c \in racing
      BY <2>1, <3>2
    <3>3. ASSUME NEW u \in Threads, EditBehind(thread[u]), thread[u].cmd.change = c
          PROVE  c \in racing'
      BY <2>1, <2>4, <3>3 DEF InHand, EditBehind
    <3>4. ASSUME NEW u \in Threads, ByUnlock(thread[u])
          PROVE  c \in racing'
      BY <2>1, <2>4, <2>5, <3>4 DEF InHand, Unlocking, ByUnlock, IsUnlock
    <3>. QED  BY <2>5, <3>1, <3>2, <3>3, <3>4 DEF ChangesTold
  <2> HIDE DEF s, chosen
  <2>6. InHand(racing)'
    BY <1>3, <2>1, <2>2, <2>3, <2>4 DEF InHand, Unlocking
  <2>7. \A X : Accounted(X)'
    BY <2>1, <2>6 DEF Accounted
  <2>8. ClosesAccounted'
    BY <1>7, <2>1, <2>2, <2>3, <2>5, <2>6, <2>7 DEF ClosesAccounted
  <2>9. lost' \subseteq racing'
    BY <2>1 DEF Closed
  <2>. QED  BY <1>2, <1>5, <1>6, <1>11, <2>2, <2>8, <2>9 DEF Closed, ModeIs
<1>. QED  BY <1>8, <1>9, <1>10, <1>11 DEF Commands

\* Changes nobody heard of are on their way, whoever closes.
LEMMA HeardOrUnderWay ==
  ASSUME TabSound, listed, document # None \/ Unlocking, NEW c \in journal,
         c \notin racing, c \notin UnderWay
  PROVE  /\ IsOpen(event) /\ c \in event.unsaved
         /\ IsOpen(page) /\ c \in page.unsaved
<1>1. InHand(UnderWay) /\ ChangesTold
  BY InHandIs DEF TabSound, Followed
<1>2. ~Unlocking
  BY <1>1 DEF InHand
<1>3. \A u \in Threads : ~ByUnlock(thread[u])
  BY <1>2 DEF Unlocking, ByUnlock, IsUnlock
<1>4. \A u \in Threads : EditBehind(thread[u]) => thread[u].cmd.change # c
  BY <1>1 DEF InHand, EditBehind
<1>. QED  BY <1>1, <1>2, <1>3, <1>4 DEF ChangesTold

\* A thread begins to close the window, by a message to the main thread.
LEMMA BeginsToClose ==
  ASSUME Closed, Windowed, Exists, NEW t \in Threads, NEW asks \in BOOLEAN, NEW discard,
         NEW chosen \in SUBSET Changes,
         thread[t] = Idle, UNCHANGED <<tabVars, lost, overlapped, mode>>,
         Becomes(t, [at |-> "hiding", asks |-> asks, chosen |-> chosen]),
         main' = Append(main, [kind |-> "hide", thread |-> t, discard |-> discard,
                               chosen |-> chosen]),
         racing' = racing \cup UnderWay,
         discard => ~asks,
         ~asks => \/ ~UnsavedTabs
                  \/ IsOpen(page) /\ chosen = page.unsaved
  PROVE  Closed'
<1> DEFINE s == [at |-> "hiding", asks |-> asks, chosen |-> chosen]
           m == [kind |-> "hide", thread |-> t, discard |-> discard, chosen |-> chosen]
<1>1. /\ TabSound /\ JournalIs /\ ClosesAccounted /\ WaitsAccounted /\ HidesAreAsked
      /\ thread \in [Threads -> Stages] /\ ClosedIs
      /\ UNCHANGED <<listed, document, event, page, journal, nextDoc, lost, overlapped, mode>>
  BY DEF Closed, TabSound, TabTyped, tabVars
<1>2. /\ Idle.at = "idle" /\ Idle \in Stages /\ ~IsEdit(Idle) /\ ~IsUnlock(Idle)
  BY Quiet DEF Idle, Stages
<1>3. /\ s \in Stages /\ s.at = "hiding" /\ s.asks = asks /\ s.chosen = chosen
      /\ ~IsEdit(s) /\ ~IsUnlock(s)
  BY DEF Stages, IsEdit, IsUnlock
<1>4. /\ thread' \in [Threads -> Stages]
      /\ thread'[t] = s /\ \A u \in Threads \ {t} : thread'[u] = thread[u]
  BY <1>1, <1>3, Stepping
<1>5. PICK n \in Nat : /\ n \notin DOMAIN main /\ DOMAIN main' = DOMAIN main \cup {n}
                      /\ main'[n] = m /\ \A i \in DOMAIN main : main'[i] = main[i]
  BY OneMore DEF Windowed
<1>6. m.thread = t /\ m.chosen = chosen /\ m.discard = discard
  OBVIOUS
<1>7. InHand(racing \cup UnderWay)
  BY InHandIs
<1> HIDE DEF s, m
<1>8. TabSound'
  BY <1>1, <1>2, <1>3, <1>4, QuietSteps DEF QuietNames, ClosedIs
<1>9. InHand(racing)' /\ JournalIs' /\ lost' \subseteq racing'
  BY <1>1, <1>2, <1>3, <1>4, <1>7 DEF InHand, Unlocking, JournalIs, Closed
<1>10. \A X : Accounted(X) => Accounted(X)'
  BY <1>1, <1>2, <1>3, <1>4, <1>9 DEF Accounted, Unlocking
<1>11. ASSUME ~asks PROVE Accounted(chosen)'
  <2>1. ASSUME listed, document # None \/ Unlocking, NEW c \in journal
        PROVE  c \in chosen \cup racing'
    BY <1>1, <1>11, <2>1, HeardOrUnderWay DEF UnsavedTabs, Unsaved
  <2>2. Unlocking' => Unlocking
    BY <1>2, <1>3, <1>4 DEF Unlocking
  <2>. QED  BY <1>1, <1>9, <2>1, <2>2 DEF Accounted
<1>12. ClosesAccounted'
  BY <1>1, <1>3, <1>4, <1>9, <1>10, <1>11 DEF ClosesAccounted
<1>13. WaitsAccounted'
  BY <1>1, <1>10 DEF WaitsAccounted
<1>14. HidesAreAsked'
  <2>1. \A i \in DOMAIN main : IsHide(main[i]) => main[i].thread # t
    BY <1>1, <1>2 DEF HidesAreAsked
  <2>. QED  BY <1>1, <1>3, <1>4, <1>5, <1>6, <2>1 DEF HidesAreAsked
<1>. QED  BY <1>1, <1>8, <1>9, <1>12, <1>13, <1>14 DEF Closed, ModeIs

\* close_window: what the page asked about, or that there was nothing to ask about.
LEMMA ClosesWindowKeeps ==
  ASSUME Closed, Windowed, Exists, NEW t \in Threads, NEW discard \in BOOLEAN, NEW chosen,
         ClosesWindow(t, discard, chosen),
         IF discard THEN IsOpen(page) /\ chosen = page.unsaved ELSE chosen = {}
  PROVE  Closed'
<1>1. UNCHANGED <<tabVars, lost, overlapped, mode, asked>> /\ thread[t] = Idle
  BY DEF ClosesWindow
<1>2. chosen \in SUBSET Changes
  BY EventShape DEF Closed, TabSound, TabTyped
<1>3. CASE MustAsk(discard)
  <2>1. UNCHANGED <<thread, main, racing>>
    BY <1>3 DEF ClosesWindow
  <2>2. HidesAreAsked' /\ ModeIs' /\ UNCHANGED tvars
    BY <1>1, <2>1 DEF Closed, HidesAreAsked, ModeIs, tvars, tabVars
  <2>. QED  BY <1>1, <2>2, WindowOnly
<1>4. CASE ~MustAsk(discard)
  <2>1. /\ Becomes(t, [at |-> "hiding", asks |-> FALSE, chosen |-> chosen])
        /\ main' = Append(main, [kind |-> "hide", thread |-> t, discard |-> discard,
                                 chosen |-> chosen])
        /\ racing' = racing \cup UnderWay
    BY <1>4 DEF ClosesWindow
  <2>2. \/ ~UnsavedTabs
        \/ IsOpen(page) /\ chosen = page.unsaved
    BY <1>4 DEF MustAsk
  <2>. QED  BY <1>1, <1>2, <2>1, <2>2, BeginsToClose
<1>. QED  BY <1>3, <1>4

LEMMA TimerKeeps ==
  ASSUME Closed, Windowed, Exists, NEW t \in Threads, TimerEnds(t)
  PROVE  Closed'
<1>1. /\ thread[t] = Idle /\ UNCHANGED <<tabVars, lost, overlapped, mode>>
      /\ Becomes(t, [at |-> "hiding", asks |-> TRUE, chosen |-> {}])
      /\ main' = Append(main, [kind |-> "hide", thread |-> t, discard |-> FALSE, chosen |-> {}])
      /\ racing' = racing \cup UnderWay
  BY DEF TimerEnds
<1>2. {} \in SUBSET Changes /\ TRUE \in BOOLEAN /\ (FALSE => ~TRUE)
  OBVIOUS
<1>. QED  BY <1>1, <1>2, BeginsToClose, Zenon

\* The window is destroyed: what is deleted then was accounted for.
LEMMA LeavesKeeps ==
  ASSUME Closed, Exists, NEW t \in Threads, Leaves(t)
  PROVE  Closed'
<1>1. /\ thread[t].at = "leaving" /\ ~Exists' /\ TabSound /\ ClosesAccounted
      /\ UNCHANGED <<listed, document, event, page, nextDoc, thread, racing, overlapped, mode>>
      /\ thread \in [Threads -> Stages] /\ ClosedIs
  BY DEF Leaves, Exists, Closed, TabSound, TabTyped
<1>2. journal' \in SUBSET journal /\ lost' \subseteq racing'
  BY <1>1 DEF Leaves, DiscardUnsaved, Discarded, Closed, ClosesAccounted, Accounted
<1>3. TabSound'
  BY <1>1, <1>2, QuietSteps DEF ClosedIs
<1>. QED  BY <1>1, <1>2, <1>3 DEF Closed, ModeIs

LEMMA HidesKeeps ==
  ASSUME Closed, Windowed, Exists, Hides
  PROVE  Closed'
<1> DEFINE m == Head(main)
           t == m.thread
           r == thread[t]
<1>1. /\ TabSound /\ JournalIs /\ ClosesAccounted /\ WaitsAccounted /\ HidesAreAsked
      /\ thread \in [Threads -> Stages] /\ ClosedIs
  BY DEF Closed, TabSound, TabTyped
<1>2. Turn("hide") /\ UNCHANGED <<tabVars, lost, racing, overlapped>>
  BY DEF Hides
<1>3. UNCHANGED <<listed, document, event, page, journal, nextDoc>>
  BY <1>2 DEF tabVars
<1>4. /\ 1 \in DOMAIN main /\ main[1] = m /\ IsHide(m)
      /\ \A i \in DOMAIN main' : /\ i + 1 \in DOMAIN main /\ main'[i] = main[i + 1]
                                 /\ i \in Nat /\ i >= 1
  BY <1>2, OneLess DEF Windowed, IsHide
<1>5. /\ t \in Threads /\ r.at = "hiding" /\ r \in Stages
      /\ r.chosen = m.chosen /\ (m.discard => ~r.asks)
  BY <1>1, <1>4 DEF HidesAreAsked
<1>6. \A i \in DOMAIN main' : IsHide(main'[i]) => main'[i].thread # t
  <2>1. \A i \in DOMAIN main' : i + 1 # 1
    BY <1>4
  <2>. QED  BY <1>1, <1>4, <2>1 DEF HidesAreAsked
<1>7. PICK s : /\ Becomes(t, s)
               /\ s \in {Idle, [r EXCEPT !.at = "leaving"]}
  BY DEF Hides, Stays, Told
<1>8. /\ s \in Stages /\ s.at \in {"idle", "leaving"}
      /\ s.at = "leaving" => s.asks = r.asks /\ s.chosen = r.chosen
  BY <1>5, <1>7 DEF Stages, Idle
<1>9. /\ thread' \in [Threads -> Stages]
      /\ thread'[t] = s /\ \A u \in Threads \ {t} : thread'[u] = thread[u]
  BY <1>1, <1>5, <1>7, <1>8, Stepping
<1>10. ~IsEdit(r) /\ ~IsUnlock(r) /\ ~IsEdit(s) /\ ~IsUnlock(s)
  BY <1>5, <1>8, Quiet
<1> HIDE DEF m, t, r
<1>11. TabSound'
  BY <1>1, <1>2, <1>3, <1>5, <1>8, <1>9, QuietSteps DEF QuietNames, ClosedIs, r
<1>12. /\ InHand(racing) => InHand(racing)'
       /\ \A X : Accounted(X) => Accounted(X)'
  BY <1>2, <1>3, <1>5, <1>9, <1>10 DEF InHand, Accounted, Unlocking, r
<1>13. ClosesAccounted'
  <2>1. s.at = "leaving" => InHand(racing)' /\ (~s.asks => Accounted(s.chosen)')
    BY <1>1, <1>5, <1>8, <1>12 DEF ClosesAccounted, r
  <2>2. ASSUME NEW u \in Threads \ {t}, thread[u].at \in {"hiding", "leaving"},
               NEW chosen, chosen = thread[u].chosen
        PROVE  InHand(racing)' /\ (~thread[u].asks => Accounted(chosen)')
    BY <1>1, <1>12, <2>2 DEF ClosesAccounted
  <2>. QED  BY <1>1, <1>2, <1>3, <1>8, <1>9, <1>12, <2>1, <2>2 DEF ClosesAccounted
<1>14. WaitsAccounted' /\ ModeIs'
  <2>1. CASE UNCHANGED mode
    BY <1>1, <1>12, <2>1 DEF WaitsAccounted, ModeIs, Closed
  <2>2. CASE mode' = Hidden(m.chosen, m.discard)
    <3>1. m.discard => Accounted(m.chosen)
      BY <1>1, <1>5 DEF ClosesAccounted, r
    <3>. QED  BY <1>12, <2>2, <3>1 DEF WaitsAccounted, ModeIs, Hidden
  <2>. QED  BY <2>1, <2>2 DEF Hides, Stays, m
<1>15. HidesAreAsked'
  <2>1. \A i, j \in DOMAIN main' : i + 1 = j + 1 => i = j
    BY <1>4
  <2>. QED  BY <1>1, <1>4, <1>6, <1>9, <2>1 DEF HidesAreAsked
<1>. QED  BY <1>1, <1>2, <1>3, <1>11, <1>13, <1>14, <1>15 DEF Closed, JournalIs

\* The close that waited for batches is carried out, unless it was called off.
LEMMA ClosesOnMainKeeps ==
  ASSUME Closed, Windowed, Exists, ClosesOnMain
  PROVE  Closed'
<1>1. /\ TabSound /\ WaitsAccounted /\ ClosedIs /\ thread \in [Threads -> Stages]
      /\ UNCHANGED <<listed, document, event, page, nextDoc, thread, racing, overlapped, mode, asked>>
      /\ Turn("close")
  BY DEF ClosesOnMain, Closed, TabSound, TabTyped
<1>2. CASE mode.kind = "Closing"
  <2>1. /\ ~Exists'
        /\ IF mode.discard THEN DiscardUnsaved(mode.chosen) ELSE UNCHANGED <<journal, lost>>
    BY <1>2 DEF ClosesOnMain, Exists
  <2>2. journal' \in SUBSET journal /\ lost' \subseteq racing'
    BY <1>1, <1>2, <2>1 DEF DiscardUnsaved, Discarded, Closed, WaitsAccounted, Accounted
  <2>3. TabSound'
    BY <1>1, <2>2, QuietSteps DEF ClosedIs
  <2>. QED  BY <1>1, <2>1, <2>2, <2>3 DEF Closed, ModeIs
<1>3. CASE mode.kind # "Closing"
  <2>1. UNCHANGED tvars
    BY <1>1, <1>3 DEF ClosesOnMain, tvars
  <2>2. HidesAreAsked' /\ ModeIs'
    BY <1>1, MessagesKeep DEF Windowed, Closed, ModeIs
  <2>. QED  BY <1>1, <2>1, <2>2, WindowOnly
<1>. QED  BY <1>2, <1>3

LEMMA MainKeeps ==
  ASSUME Closed, Windowed, Exists, MainThread
  PROVE  Closed'
<1>1. CASE Shows
  <2>1. UNCHANGED tvars /\ Turn("show") /\ mode' = Open
    BY <1>1 DEF Shows, TabsSame
  <2>2. HidesAreAsked' /\ ModeIs' /\ mode'.kind = "Open"
    BY <2>1, MessagesKeep DEF Windowed, Closed, ModeIs, Open, tvars
  <2>. QED  BY <2>1, <2>2, WindowOnly
<1>2. CASE EndedOnMain
  <2>1. UNCHANGED tvars /\ Turn("ended")
    BY <1>2 DEF EndedOnMain, TabsSame
  <2>2. HidesAreAsked'
    BY <2>1, MessagesKeep DEF Windowed, Closed, tvars
  <2>3. CASE UNCHANGED mode
    <3>1. ModeIs'
      BY <2>3 DEF Closed, ModeIs
    <3>. QED  BY <2>1, <2>2, <2>3, <3>1, WindowOnly
  <2>4. CASE mode.kind = "Hidden" /\ mode' = Message(mode)
    <3>1. mode = [kind |-> mode.kind, chosen |-> mode.chosen, discard |-> mode.discard]
      BY <2>4 DEF Closed, ModeIs, Open
    <3>2. mode' = [kind |-> "Closing", chosen |-> mode.chosen, discard |-> mode.discard]
      BY <2>4, <3>1 DEF Message
    <3>3. ModeIs' /\ mode'.discard = mode.discard /\ mode'.chosen = mode.chosen
      BY <3>2 DEF ModeIs
    <3>. QED  BY <2>1, <2>2, <2>4, <3>3, WindowOnly
  <2>. QED  BY <1>2, <2>3, <2>4 DEF EndedOnMain
<1>. QED  BY <1>1, <1>2, HidesKeeps, ClosesOnMainKeeps DEF MainThread

LEMMA StepAccounts == ASSUME Closed, Windowed, [Next]_vars PROVE Closed'
<1>1. ASSUME UNCHANGED <<tvars, mode, window>>,
             \/ UNCHANGED main
             \/ \E m : main' = Append(main, m) /\ ~IsHide(m)
      PROVE  Closed'
  <2>1. ModeIs' /\ (Exists <=> Exists')
    BY <1>1 DEF Closed, ModeIs, Exists
  <2>2. CASE Exists
    <3>1. HidesAreAsked'
      BY <1>1, <2>2, MessagesKeep DEF Windowed, Closed, tvars
    <3>. QED  BY <1>1, <2>1, <2>2, <3>1, WindowOnly
  <2>3. CASE ~Exists
    <3>1. /\ UNCHANGED <<listed, document, event, page, journal, nextDoc, thread, lost, racing,
                        overlapped>>
          /\ thread \in [Threads -> Stages] /\ ClosedIs
      BY <1>1 DEF Closed, TabSound, TabTyped, tvars
    <3>2. TabSound'
      BY <3>1, QuietSteps DEF Closed, ClosedIs
    <3>. QED  BY <2>1, <2>3, <3>1, <3>2 DEF Closed
  <2>. QED  BY <2>2, <2>3
<1>2. CASE UNCHANGED vars
  BY <1>1, <1>2 DEF vars, cvars
<1>3. CASE Next
  <2>1. Exists
    BY <1>3 DEF Next
  <2>2. ASSUME NEW t \in Threads, OnThread(t) PROVE Closed'
    <3>1. CASE window = "shown" /\ Commands(t, UnderClosing) /\ UNCHANGED cvars
      BY <2>1, <3>1, CallsKeep DEF cvars
    <3>2. CASE Goes(t) /\ UNCHANGED cvars
      BY <2>1, <3>2, GoesKeeps
    <3>3. CASE PageSettles(t) \/ PageSaved(t)
      BY <2>1, <3>3, ClosesWindowKeeps DEF PageSettles, PageSaved
    <3>4. CASE PageDiscards(t)
      BY <2>1, <3>4, ClosesWindowKeeps DEF PageDiscards, Dialog, Unsaved
    <3>5. CASE PageSaves(t)
      BY <2>1, <3>5, CallsKeep DEF PageSaves
    <3>. QED
      BY <2>1, <2>2, <3>1, <3>2, <3>3, <3>4, <3>5, TimerKeeps, LeavesKeeps DEF OnThread
  <2>3. ASSUME NEW b \in Batches, Starts(b) \/ Ends(b) \/ Tells(b) PROVE Closed'
    <3>1. UNCHANGED <<tvars, mode, window>>
      BY <2>3 DEF Starts, Ends, Tells, TabsSame
    <3>2. ~IsHide([kind |-> "ended"])
      BY DEF IsHide
    <3>. QED  BY <1>1, <2>3, <3>1, <3>2 DEF Starts, Ends, Tells
  <2>4. CASE UserCloses \/ PageCancels
    BY <1>1, <2>4 DEF UserCloses, PageCancels, TabsSame
  <2>5. CASE ShowsAgain \/ Reads
    <3>1. ~IsHide([kind |-> "show"]) /\ ~IsHide([kind |-> "close"])
      BY DEF IsHide
    <3>. QED  BY <1>1, <2>5, <3>1 DEF ShowsAgain, Reads, TabsSame
  <2>. QED  BY <1>3, <2>1, <2>2, <2>3, <2>4, <2>5, MainKeeps DEF Next
<1>. QED  BY <1>2, <1>3

-----------------------------------------------------------------------------
(* The theorems.                                                            *)

\* The window, its mode, its icon and the batches fit together in every state.
THEOREM WindowIsSound == Spec => []Windowed
<1>1. Init => Windowed
  BY InitIsSound
<1>2. Windowed /\ [Next]_vars => Windowed'
  BY StepKeeps
<1>. QED  BY <1>1, <1>2, PTL DEF Spec

\* A window that is hidden has the icon to bring it back, or the message that ends
\* the app (hide, show_window and ended_on_main of background.rs).
THEOREM AlwaysInReach == Spec => []NeverOutOfReach
<1>1. Windowed => NeverOutOfReach
  BY DEF Windowed, Modes, NeverOutOfReach
<1>. QED  BY <1>1, WindowIsSound, PTL

\* Once every batch is over and the main thread has heard of it, the window is not
\* hidden for a batch any more (batch_ended, ended_on_main).
THEOREM HiddenOnlyForBatches == Spec => []HiddenForBatch
<1>1. Windowed => HiddenForBatch
  BY DEF Windowed, EndIsTold, HiddenForBatch
<1>. QED  BY <1>1, WindowIsSound, PTL

\* The tab, and every close that is under way or waits, account for the journal.
THEOREM ClosesAreAccounted == Spec => []Closed
<1>1. Init => Closed
  BY ClosedAtFirst
<1>2. Closed /\ Windowed /\ [Next]_vars => Closed'
  BY StepAccounts
<1>. QED  BY <1>1, <1>2, WindowIsSound, PTL DEF Spec

\* What closing deletes unasked was still on its way when it was looked for: close and
\* close_window of a tab, the timer for a page that does not answer, and a close that
\* waited for batches and is carried out later.
THEOREM OnlyRacingIsLost == Spec => []LostOnlyWhenRacing
<1>1. Closed => LostOnlyWhenRacing
  BY DEF Closed, LostOnlyWhenRacing
<1>. QED  BY <1>1, ClosesAreAccounted, PTL

\* With no command running, Tab::event and the page say of the document what is so,
\* unless a command that keeps its id was overtaken (change_document, lose, load_with).
THEOREM EventsFollow == Spec => []EventFollowsDocument
<1>1. Closed => EventFollowsDocument
  BY FollowingIsSound DEF Closed
<1>. QED  BY <1>1, ClosesAreAccounted, PTL
=============================================================================
