-------------------------------- MODULE Closing --------------------------------
(***************************************************************************)
(* Closing the window (commands.rs, App.tsx) while commands run on its     *)
(* tab, and batches that go on with the window hidden (background.rs,      *)
(* batch.rs).                                                              *)
(*                                                                         *)
(* The main thread carries out what it is sent in the order it comes: to   *)
(* hide the window for a batch, to show it, that a batch ended, and to     *)
(* close once the user has read how the batch went.                        *)
(***************************************************************************)
EXTENDS Tabs, Sequences

CONSTANTS
  Batches,  \* batches the user starts, each once
  MaxCloses \* bound: how often the user closes the window

VARIABLES
  window,   \* "shown", "hidden" or "gone"
  mode,     \* Background: Open, Hidden or Closing, with the user's choice
  icon,     \* the notification area icon is shown
  main,     \* what the main thread has been sent
  batch,    \* Batches: "new", "running", "ended" and "told"
  request,  \* the close request the page has not handled: "none", "settle",
            \* "ask", or "save" when the answer to that was to save
  answered, \* CLOSE_ANSWERED
  timers,   \* threads of close_if_unanswered still asleep
  closes    \* times the user closed the window

cvars == <<window, mode, icon, main, batch, request, answered, timers, closes>>
vars == <<tvars, cvars>>

Open == [kind |-> "Open"]
Hidden(chosen, discard) == [kind |-> "Hidden", chosen |-> chosen, discard |-> discard]
Message(m) == [m EXCEPT !.kind = "Closing"]

AnyStarted == \E b \in Batches : batch[b] # "new"   \* mutant: the guard is never dropped

\* Batches::any_running
AnyRunning == \E b \in Batches : batch[b] = "running"
UnsavedTabs == listed /\ Unsaved(event)
\* A close is being carried out.
UnderClosing == \E t \in Threads : thread[t].at \in {"hiding", "leaving"}

Exists == window # "gone"
TabsSame == UNCHANGED tvars
-----------------------------------------------------------------------------
(* The page and its window. *)

\* on_window_event: CloseRequested.  The page is asked, whatever is known.
UserCloses ==
  /\ window = "shown" /\ closes < MaxCloses
  /\ closes' = closes + 1
  /\ IF UnsavedTabs
     THEN request' = "ask" /\ UNCHANGED <<answered, timers>>
     ELSE request' = "settle" /\ answered' = FALSE /\ timers' = timers + 1
  /\ UNCHANGED <<window, mode, icon, main, batch>> /\ TabsSame

\* close_window does not go on when there are changes nobody was asked about.
MustAsk(discard) == ~discard /\ UnsavedTabs

\* close_window: what the main process knows of unsaved changes is looked at, and
\* the main thread is asked whether a batch runs.
ClosesWindow(t, discard, chosen) ==
  /\ thread[t] = Idle
  /\ answered' = TRUE
  /\ IF MustAsk(discard)
     THEN request' = "ask" /\ UNCHANGED <<thread, main, racing>>
     ELSE /\ request' = "none"
          /\ Becomes(t, [at |-> "hiding", asks |-> FALSE, chosen |-> chosen])
          /\ main' = Append(main, [kind |-> "hide", thread |-> t, discard |-> discard, chosen |-> chosen])
          /\ racing' = racing \cup UnderWay
  /\ UNCHANGED <<tabVars, asked, lost, overlapped, window, mode, icon, batch, timers, closes>>

\* Nothing to ask about as far as the main process knew: the page sends the value
\* being typed, waits for its answer, and closes.
PageSettles(t) ==
  request = "settle" /\ TypedSettled /\ ClosesWindow(t, FALSE, {})

\* The question about unsaved changes.  It is modal, and is shown for changes the page
\* has heard of; the answer is to discard, to save and close, or to cancel.
Dialog == request \in {"ask", "save"} /\ Unsaved(page)

PageDiscards(t) == Dialog /\ ClosesWindow(t, TRUE, page.unsaved)

PageSaves(t) ==
  /\ Dialog /\ Saves(t)
  /\ request' = "save"
  /\ UNCHANGED <<window, mode, icon, main, batch, answered, timers, closes>>

PageSaved(t) ==
  request = "save" /\ IsOpen(page) /\ ~Unsaved(page) /\ ClosesWindow(t, FALSE, {})

PageCancels ==
  /\ Dialog
  /\ request' = "none"
  /\ UNCHANGED <<window, mode, icon, main, batch, answered, timers, closes>> /\ TabsSame

\* close_if_unanswered, after CLOSE_ANSWER.  A timer that finds an answer, or changes
\* to ask about, does nothing: here it does not end.
TimerEnds(t) ==
  /\ timers > 0 /\ thread[t] = Idle
  /\ ~answered /\ ~UnsavedTabs
  /\ timers' = timers - 1
  /\ Becomes(t, [at |-> "hiding", asks |-> TRUE, chosen |-> {}])
  /\ main' = Append(main, [kind |-> "hide", thread |-> t, discard |-> FALSE, chosen |-> {}])
  /\ racing' = racing \cup UnderWay
  /\ UNCHANGED <<tabVars, asked, lost, overlapped, window, mode, icon, batch, request,
                 answered, closes>>

\* No batch: close_window deletes the journals whatever was chosen, the timer does
\* not; then the window is destroyed, and the app ends.
Leaves(t) ==
  /\ thread[t].at = "leaving"
  /\ IF thread[t].asks THEN UNCHANGED <<journal, lost>> ELSE DiscardUnsaved(thread[t].chosen)
  /\ window' = "gone"
  /\ UNCHANGED <<listed, document, event, page, nextDoc, thread, asked, racing, overlapped,
                 mode, icon, main, batch, request, answered, timers, closes>>
-----------------------------------------------------------------------------
(* Batches: run_batch. *)

Starts(b) ==
  /\ window = "shown" /\ batch[b] = "new"
  /\ batch' = [batch EXCEPT ![b] = "running"]
  /\ UNCHANGED <<window, mode, icon, main, request, answered, timers, closes>> /\ TabsSame

\* All files are done, or the batch was stopped before its next one: it is taken
\* off the list (Running is dropped) ...
Ends(b) ==
  /\ batch[b] = "running"
  /\ batch' = [batch EXCEPT ![b] = "ended"]
  /\ UNCHANGED <<window, mode, icon, main, request, answered, timers, closes>> /\ TabsSame

\* ... and the main thread is told.
Tells(b) ==
  /\ batch[b] = "ended"
  /\ batch' = [batch EXCEPT ![b] = "told"]
  /\ main' = Append(main, [kind |-> "ended"])
  /\ UNCHANGED <<window, mode, icon, request, answered, timers, closes>> /\ TabsSame
-----------------------------------------------------------------------------
(* The main thread. *)

Turn(kind) == main # <<>> /\ Head(main).kind = kind /\ main' = Tail(main)

Told(t, hid) == Becomes(t, IF hid THEN Idle ELSE [thread[t] EXCEPT !.at = "leaving"])

StaysHidden(m) ==                     \* mutant: hidden before the icon is there
  Told(m.thread, FALSE) /\ window' = "hidden" /\ UNCHANGED <<mode, icon>>

\* No batch, no icon, or a window that cannot be hidden: it is closed as any is.
Stays(m) == Told(m.thread, FALSE) /\ UNCHANGED <<window, mode, icon>>

\* hide
Hides ==
  /\ Turn("hide")
  /\ LET m == Head(main)
     IN IF ~AnyRunning THEN Stays(m)
        ELSE \/ /\ mode' = Hidden(m.chosen, m.discard)
                /\ IF mode = Open THEN icon' = TRUE /\ window' = "hidden"
                   ELSE UNCHANGED <<icon, window>>
                /\ Told(m.thread, TRUE)
             \/ mode = Open /\ Stays(m)
  /\ UNCHANGED <<tabVars, asked, lost, racing, overlapped, batch, request, answered,
                 timers, closes>>

ShowsKeeping ==                       \* mutant: the close is not called off
  /\ Turn("show")
  /\ window' = "shown" /\ icon' = FALSE
  /\ UNCHANGED <<mode, batch, request, answered, timers, closes>> /\ TabsSame

\* show_window: whatever close waited is called off.
Shows ==
  /\ Turn("show")
  /\ mode' = Open /\ icon' = FALSE /\ window' = "shown"
  /\ UNCHANGED <<batch, request, answered, timers, closes>> /\ TabsSame

\* The icon, or a second launch.
ShowsAgain ==
  /\ window = "hidden" /\ \A i \in DOMAIN main : main[i].kind # "show"
  /\ main' = Append(main, [kind |-> "show"])
  /\ UNCHANGED <<window, mode, icon, batch, request, answered, timers, closes>> /\ TabsSame

\* ended_on_main: with the window hidden and no batch left, the message comes.
EndedOnMain ==
  /\ Turn("ended")
  /\ IF mode.kind # "Hidden" \/ AnyRunning
     THEN UNCHANGED <<mode, icon>>
     ELSE mode' = Message(mode) /\ icon' = FALSE
  /\ UNCHANGED <<window, batch, request, answered, timers, closes>> /\ TabsSame

\* The user has read the message.
Reads ==
  /\ mode.kind = "Closing" /\ \A i \in DOMAIN main : main[i].kind # "close"
  /\ main' = Append(main, [kind |-> "close"])
  /\ UNCHANGED <<window, mode, icon, batch, request, answered, timers, closes>> /\ TabsSame

\* close: nothing if the window was shown again.
ClosesOnMain ==
  /\ Turn("close")
  /\ IF mode.kind = "Closing"
     THEN /\ IF mode.discard THEN DiscardUnsaved(mode.chosen) ELSE UNCHANGED <<journal, lost>>
          /\ window' = "gone"
     ELSE UNCHANGED <<journal, lost, window>>
  /\ UNCHANGED <<listed, document, event, page, nextDoc, thread, asked, racing,
                 overlapped, mode, icon, batch, request, answered, timers, closes>>

MainThread == Hides \/ Shows \/ EndedOnMain \/ ClosesOnMain
-----------------------------------------------------------------------------
Init ==
  /\ TabInit
  /\ window = "shown" /\ mode = Open /\ icon = FALSE /\ main = <<>>
  /\ batch = [b \in Batches |-> "new"]
  /\ request = "none" /\ answered = FALSE /\ timers = 0 /\ closes = 0

OnThread(t) ==
  \/ window = "shown" /\ ~Dialog /\ Commands(t, UnderClosing) /\ UNCHANGED cvars
  \/ Goes(t) /\ UNCHANGED cvars
  \/ PageSettles(t) \/ PageDiscards(t) \/ PageSaves(t) \/ PageSaved(t) \/ TimerEnds(t)
  \/ Leaves(t)

Next ==
  /\ Exists
  /\ \/ \E t \in Threads : OnThread(t)
     \/ \E b \in Batches : Starts(b) \/ Ends(b) \/ Tells(b)
     \/ UserCloses \/ PageCancels \/ ShowsAgain \/ Reads \/ MainThread

Spec == Init /\ [][Next]_vars
-----------------------------------------------------------------------------
\* What closing deletes unasked is at most what was still on its way when it was
\* looked for: changes the tab had told of are only deleted if the user said so,
\* however often the window was hidden for a batch and shown again.
LostOnlyWhenRacing == lost \subseteq racing

\* ... and with nothing excepted, as close_window says.
NothingLostUnasked == lost = {}

\* A window that is hidden has the icon to bring it back, or the message that
\* ends the app.
NeverOutOfReach == window = "hidden" => icon \/ mode.kind = "Closing"

\* A window is hidden for a batch and no longer: once every batch is over and the main
\* thread has nothing left to do, the user has the window back or the message.
HiddenForBatch ==
  main = <<>> /\ (\A b \in Batches : batch[b] \in {"new", "told"}) => mode.kind # "Hidden"
=============================================================================
