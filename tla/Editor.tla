------------------------------- MODULE Editor -------------------------------
(***************************************************************************)
(* What the reader promises to someone who edits one document: files, and  *)
(* a view of one of them with the edits made and the edits undone.  No     *)
(* worker, no journal and no temporary file; a worker that dies and is     *)
(* replaced cannot be seen.  The promise holds while the view is `current`: *)
(* no other program has changed the file since it was opened.  A view that *)
(* is not current may only be saved on request to a place the user names.  *)
(* Editing implements this specification.                                  *)
(***************************************************************************)
EXTENDS Integers, Sequences

CONSTANTS Files, Contents, Edits, Mark, NoView, Made(_, _)

VARIABLES
  stored,     \* the content of each file
  view,       \* what the tab shows: a file with edits, or NoView
  answer      \* what the user is told of a save: done where, or an error

vars == <<stored, view, answer>>

View == [file : Files, current : BOOLEAN, done : Seq(Edits), undone : Seq(Edits)]

\* What the tab shows, and a save writes.
Shown == Made(stored[view.file], view.done)

\* Opened with no edits, or with those the app has kept for the file.
Open ==
  /\ view = NoView
  /\ view' \in View /\ view'.undone = <<>>
  /\ answer' = "none"
  /\ UNCHANGED stored

Do(e) ==
  /\ view # NoView
  /\ view' = [view EXCEPT !.done = Append(@, e), !.undone = <<>>]
  /\ answer' = "none"
  /\ UNCHANGED stored

Undo ==
  /\ view # NoView /\ view.done # <<>>
  /\ view' = [view EXCEPT
       !.done   = SubSeq(@, 1, Len(@) - 1),
       !.undone = <<view.done[Len(view.done)]>> \o @]
  /\ answer' = "none"
  /\ UNCHANGED stored

Redo ==
  /\ view # NoView /\ view.undone # <<>>
  /\ view' = [view EXCEPT !.done = Append(@, Head(view.undone)),
                          !.undone = Tail(@)]
  /\ answer' = "none"
  /\ UNCHANGED stored

\* The edits an earlier run left become the document's.
Recover ==
  /\ view # NoView /\ view.done = <<>>
  /\ view' \in View
  /\ view' = [view EXCEPT !.done = view'.done, !.undone = <<>>]
  /\ answer' = "none"
  /\ UNCHANGED stored

\* A write of the view ends in a new view, or, when the worker or the app fails
\* right after it, in no view and no word of it.
Ends(how, after) ==
  \/ view' = after /\ answer' = how
  \/ view' = NoView /\ answer' \in {"none", "error"}

\* Saved: the file it was opened from, and only if nothing else changed it; the
\* history starts again.
Save ==
  /\ view # NoView /\ view.current /\ view.done # <<>>
  /\ stored' = [stored EXCEPT ![view.file] = Shown]
  /\ Ends("saved", [view EXCEPT !.done = <<>>, !.undone = <<>>])

\* Saved where the user said; a view that is not current as it can be made.
SaveAs(f) ==
  /\ view # NoView
  /\ stored' \in [Files -> Contents]
  /\ stored' = [stored EXCEPT ![f] = stored'[f]]
  /\ view.current => stored'[f] = Shown
  /\ Ends("savedAs",
          [file |-> f, current |-> TRUE, done |-> <<>>, undone |-> <<>>])

\* The sensitive mark goes into the file of a view with nothing unsaved.
SetMark ==
  /\ view # NoView /\ view.current /\ view.done = <<>>
  /\ stored' = [stored EXCEPT ![view.file] = Made(@, <<Mark>>)]
  /\ Ends("none", view)

\* Another program writes `f`.
Foreign(f) ==
  /\ stored' \in [Files -> Contents]
  /\ stored' = [stored EXCEPT ![f] = stored'[f]]
  /\ view' = IF view # NoView /\ view.file = f
             THEN [view EXCEPT !.current = FALSE] ELSE view
  /\ answer' = "none"

Leave ==
  /\ view # NoView /\ view' = NoView
  /\ answer' = "none"
  /\ UNCHANGED stored

Init == stored \in [Files -> Contents] /\ view = NoView /\ answer = "none"

Next ==
  \/ Open \/ Leave
  \/ \E e \in Edits : Do(e)
  \/ Undo \/ Redo \/ Recover
  \/ Save \/ SetMark
  \/ \E f \in Files : SaveAs(f) \/ Foreign(f)

Spec == Init /\ [][Next]_vars

=============================================================================
