--------------------------------- MODULE Tabs ---------------------------------
(***************************************************************************)
(* One tab of the registry (src-tauri/src/documents.rs): its document, what *)
(* the page was last told of it (`Tab::event`), and the commands of the    *)
(* page, each on a thread of its own.                                      *)
(*                                                                         *)
(* A command finds the tab by the document id in the event, does its work  *)
(* under the document's lock, and writes the new state into the tab after  *)
(* it gave that lock back.  A document stands for the set of its unsaved   *)
(* changes; the journal for the set it would make again.  The work under   *)
(* the lock is one step: nobody else sees the document meanwhile.  The      *)
(* document is one opened with a password, which can be lost with its      *)
(* worker; any other document does the same and is never lost.             *)
(***************************************************************************)
EXTENDS Naturals, FiniteSets

CONSTANTS
  Threads,  \* threads commands run on
  Changes,  \* the edits the user makes, each once
  Typed,    \* those of them that are field values: closing waits for them
  MaxDocs   \* bound: documents opened, after which no tab is unlocked again

ASSUME TypedAssumption == Typed \subseteq Changes
ASSUME MaxDocsAssumption == MaxDocs \in Nat

VARIABLES
  listed,   \* the tab is in the registry
  document, \* Tab::document
  event,    \* Tab::event
  page,     \* the last event of the tab the page has got
  journal,  \* the changes in the journal of the tab
  nextDoc,  \* the next document id
  thread,   \* what each thread is doing
  asked,    \* changes the user has made (or asked for) so far
  lost,     \* changes deleted with their journal although nobody chose that
  racing,   \* changes under way while something was being closed, or that overtook
            \* a command
  overlapped \* a command that keeps the document's id ran beside another one

tabVars == <<listed, document, event, page, journal, nextDoc>>
tvars == <<listed, document, event, page, journal, nextDoc, thread, asked, lost,
           racing, overlapped>>

None == [kind |-> "none"]
Idle == [at |-> "idle"]
PasswordNeeded == [kind |-> "passwordNeeded"]
Opening == [kind |-> "opening"]

\* The document's info, as an `Opened` event carries it.
Opened(d) == [kind |-> "opened", doc |-> d.doc, unsaved |-> d.unsaved]

IsOpen(e) == e.kind = "opened"
Unsaved(e) == IsOpen(e) /\ e.unsaved # {}
Running == {t \in Threads : thread[t].at # "idle"}
Becomes(t, s) == thread' = [thread EXCEPT ![t] = s]

\* Changes asked for whose command is not over.
IsEdit(s) == "cmd" \in DOMAIN s /\ s.cmd.kind = "edit"
BeingMade == {thread[t].cmd.change : t \in {u \in Threads : IsEdit(thread[u])}}

\* unlock runs: it makes the changes in the journal again, and the page has not heard
\* of them.
IsUnlock(s) == s.at = "loading" \/ (s.at = "sending" /\ "cmd" \notin DOMAIN s)
BeingReopened == IF \E t \in Threads : IsUnlock(thread[t]) THEN journal ELSE {}

UnderWay == BeingMade \cup BeingReopened
-----------------------------------------------------------------------------
(* The page's commands. *)

\* Commands that leave the document's id as it is.  discard_recovered and
\* forget_password, which are left out, do so too.
KeepsId(cmd) == cmd.kind = "save"

\* A command with the document id the page has; the tab is found by its event.
Call(t, cmd) ==
  /\ thread[t] = Idle
  /\ listed /\ IsOpen(page) /\ IsOpen(event) /\ event.doc = page.doc
  /\ Becomes(t, [at |-> "working", cmd |-> cmd, doc |-> page.doc])

MakesChange(t, closing) == \E c \in Changes \ asked :
  /\ Call(t, [kind |-> "edit", change |-> c])
  /\ asked' = asked \cup {c}
  /\ racing' = IF closing THEN racing \cup {c} ELSE racing
  /\ UNCHANGED <<tabVars, lost, overlapped>>

Saves(t) ==
  /\ Call(t, [kind |-> "save"])
  /\ UNCHANGED <<tabVars, asked, lost, racing, overlapped>>

EditedSameId(d, c) == [d EXCEPT !.unsaved = @ \cup {c}]  \* mutant: the id stays

\* apply_edit, undo, redo, recover: every one of them makes another id.
Edited(d, c) == [d EXCEPT !.unsaved = @ \cup {c}, !.doc = nextDoc]

After(d, cmd) ==
  IF cmd.kind = "edit" THEN Edited(d, cmd.change) ELSE [d EXCEPT !.unsaved = {}]

\* A command that keeps the id, between its work and the page hearing of it.
KeepsBehind(s) ==
  "cmd" \in DOMAIN s /\ KeepsId(s.cmd) /\ s.at \in {"recording", "sending"}

\* A command that got the document's lock while an earlier one that keeps the id
\* still has to tell what it did.
Overtakes(t) ==
  LET behind == \E u \in Threads : KeepsBehind(thread[u])
  IN /\ overlapped' = (overlapped \/ behind)
     /\ racing' = IF behind /\ IsEdit(thread[t]) THEN racing \cup {thread[t].cmd.change}
                  ELSE racing

\* The work of change_document under the document's lock, with keep_journal.
Works(t) ==
  /\ thread[t].at = "working"
  /\ IF document = None \/ document.doc # thread[t].doc
     THEN Becomes(t, Idle) /\ UNCHANGED <<tabVars, racing, overlapped>>   \* unknown_document
     ELSE \/ /\ document' = After(document, thread[t].cmd)
             /\ journal' = document'.unsaved
             /\ nextDoc' = IF thread[t].cmd.kind = "edit" THEN nextDoc + 1 ELSE nextDoc
             /\ Overtakes(t)
             /\ Becomes(t, [at |-> "recording", cmd |-> thread[t].cmd, info |-> document'])
             /\ UNCHANGED <<listed, event, page>>
          \/ Becomes(t, Idle) /\ UNCHANGED <<tabVars, racing, overlapped>>  \* it failed
          \/ /\ document' = None                  \* ... with the worker
             /\ Overtakes(t)
             /\ Becomes(t, [at |-> "losing", cmd |-> thread[t].cmd])
             /\ UNCHANGED <<listed, event, page, journal, nextDoc>>
  /\ UNCHANGED <<asked, lost>>

\* The rest of change_document, without the document's lock.  Tab::path and
\* Tab::display_name, which are written before the event, go with it.
Records(t) ==
  /\ thread[t].at = "recording"
  /\ event' = Opened(thread[t].info)
  /\ Becomes(t, [at |-> "sending", cmd |-> thread[t].cmd, event |-> event'])
  /\ UNCHANGED <<listed, document, page, journal, nextDoc, asked, lost, racing, overlapped>>

\* The command sends the event it returned to the page.
Sends(t) ==
  /\ thread[t].at = "sending"
  /\ page' = thread[t].event
  /\ Becomes(t, Idle)
  /\ UNCHANGED <<listed, document, event, journal, nextDoc, asked, lost, racing, overlapped>>

\* lose: the document is gone with its worker, its journal stays, and the tab asks
\* for the password again.
Loses(t) ==
  /\ thread[t].at = "losing"
  /\ event' = PasswordNeeded
  /\ Becomes(t, [at |-> "sending", cmd |-> thread[t].cmd, event |-> PasswordNeeded])
  /\ UNCHANGED <<listed, document, page, journal, nextDoc, asked, lost, racing, overlapped>>

\* unlock
Unlocks(t, closing) ==
  /\ thread[t] = Idle /\ listed /\ nextDoc <= MaxDocs
  /\ page = PasswordNeeded /\ event = PasswordNeeded
  /\ event' = Opening /\ page' = Opening
  /\ Becomes(t, [at |-> "loading"])
  /\ racing' = IF closing THEN racing \cup journal ELSE racing
  /\ UNCHANGED <<listed, document, journal, nextDoc, asked, lost, overlapped>>

\* load_with: the file is opened and the journal's changes are made again, or the
\* password was wrong; a tab closed meanwhile gets nothing.
Loads(t) ==
  /\ thread[t].at = "loading"
  /\ IF ~listed
     THEN Becomes(t, Idle) /\ UNCHANGED <<document, event, nextDoc>>
     ELSE /\ \/ /\ document' = [doc |-> nextDoc, unsaved |-> journal]
                /\ nextDoc' = nextDoc + 1
                /\ event' = Opened(document')
             \/ event' = PasswordNeeded /\ UNCHANGED <<document, nextDoc>>
          /\ Becomes(t, [at |-> "sending", event |-> event'])
  /\ UNCHANGED <<listed, page, journal, asked, lost, racing, overlapped>>
-----------------------------------------------------------------------------
(* Closing the tab, and what closing does to the journal. *)

\* The document's journal is deleted; `chosen` are the changes the user said to
\* discard.
Discarded(chosen) ==
  IF document = None THEN UNCHANGED <<journal, lost>>
  ELSE journal' = {} /\ lost' = lost \cup (journal \ chosen)

\* discard_unsaved: of the tabs that are listed.
DiscardUnsaved(chosen) ==
  IF listed THEN Discarded(chosen) ELSE UNCHANGED <<journal, lost>>

\* App.requestClose: a value being sent is waited for, and the user is asked about
\* the changes the page knows of.
TypedSettled == BeingMade \cap Typed = {}

\* close, first half: out of the registry.  The page's look at what is unsaved and the
\* user's answer are one step with it: a change that was under way at the look and has
\* reached the page before the tab is taken out is not told from one that arrives after.
ClosesTab(t) ==
  /\ thread[t] = Idle /\ listed /\ TypedSettled
  /\ listed' = FALSE
  /\ racing' = racing \cup UnderWay
  /\ Becomes(t, [at |-> "closing", chosen |-> IF IsOpen(page) THEN page.unsaved ELSE {}])
  /\ UNCHANGED <<document, event, page, journal, nextDoc, asked, lost, overlapped>>

\* ... and its document, once no request has it.
Forgets(t) ==
  /\ thread[t].at = "closing"
  /\ Discarded(thread[t].chosen)
  /\ document' = None
  /\ Becomes(t, Idle)
  /\ UNCHANGED <<listed, event, page, nextDoc, asked, racing, overlapped>>
-----------------------------------------------------------------------------
TabInit ==
  /\ listed = TRUE
  /\ nextDoc = 2
  /\ document = [doc |-> 1, unsaved |-> {}]
  /\ event = Opened(document) /\ page = event
  /\ journal = {} /\ asked = {} /\ lost = {} /\ racing = {}
  /\ overlapped = FALSE
  /\ thread = [t \in Threads |-> Idle]

Commands(t, closing) ==
  MakesChange(t, closing) \/ Saves(t) \/ Unlocks(t, closing) \/ ClosesTab(t)
Goes(t) == Works(t) \/ Records(t) \/ Sends(t) \/ Loses(t) \/ Loads(t)
           \/ Forgets(t)
-----------------------------------------------------------------------------
\* With no command running, the tab and the page say of the document what is so:
\* else no request finds the document any more, and its changes are closed without
\* a question.  Only a command that keeps the document's id can be overtaken, by one
\* that takes the document further before the first has said what it did.
EventFollowsDocument ==
  Running = {} /\ listed /\ ~overlapped =>
    \/ document = None /\ event.kind # "opened"
    \/ document # None /\ event = Opened(document) /\ page = event

\* ... and with nothing excepted: Tab::event is what the page was last told.
EventIsLastTold == Running = {} /\ listed => event = page
=============================================================================
