---------------------------- MODULE Requests_proofs ----------------------------
(***************************************************************************)
(* Why a caller gets the answer to what it asked, although ids start over,  *)
(* and why nothing a caller gave up is left for a worker to carry out: for *)
(* any number of ids from two up, of operations and of faults.             *)
(*                                                                         *)
(* A frame the host may read is of the request it waits for, or has        *)
(* another id: what a worker says beyond one answer is of the request      *)
(* before, whose id is the one before, and the first frame that is not     *)
(* acceptable ends the worker and all it said.                             *)
(*                                                                         *)
(* Why the tab knows its document: what is still to be sent tells how far  *)
(* the document in the worker has come, and an answer, from when it is     *)
(* given until it is accepted, what carrying out its request made of it.   *)
(***************************************************************************)
EXTENDS Requests, SequenceTheorems, TLAPS

AskFor(K, A) == [kind : K, arg : A, again : BOOLEAN]
SentFor(K, A) == [kind : K, arg : A, id : 1..MaxId, serial : Nat, doc : Nat]

Todo == AskFor({"edit"}, Nat) \cup AskFor(Kinds \ {"edit"}, Seq(Nat))
Sent == SentFor({"edit"}, Nat) \cup SentFor(Kinds \ {"edit"}, Seq(Nat))
Sayings == {"opened", "edited", "saved", "rebased", "told", "refused", "partway"}
Frames == [id : 1..MaxId, serial : Nat, kind : Sayings \cup {"nonsense"}]

Hosts == [at : {"idle", "sending", "writing", "waiting"}, connected : BOOLEAN,
          nextId : 1..MaxId, nextDoc : Nat, serial : Nat, doc : Nat,
          request : Sent \cup {NoRequest}]

\* The types of what the proof is about; the worker may be anything.
Typed ==
  /\ tab \in [doc : Nat, lost : BOOLEAN, saved : Seq(Nat), edits : Seq(Nat)]
  /\ todo \in Seq(Todo)
  /\ host \in Hosts
  /\ said \in Frames \cup {NoRequest}
  /\ pipe \in Seq(Sent)
  /\ answers \in Seq(Frames)
  /\ ops \in Nat

Asking == host.at \in {"writing", "waiting"}

\* There is something to send until the operation is over, and a request while one
\* is being made; the next id comes after that of the last request.
Going ==
  /\ host.at # "idle" => todo # <<>>
  /\ Asking => host.request # NoRequest
  /\ host.request # NoRequest => host.nextId = NextId(host.request.id)

IsCurrent(f) == f.id = host.request.id /\ f.serial = host.request.serial

\* Of the request the host is about, or, while that is being made, with another id.
Placed(f) ==
  /\ host.request # NoRequest
  /\ IsCurrent(f) \/ (Asking /\ f.id # host.request.id)

AllPlaced ==
  /\ \A i \in DOMAIN answers : Placed(answers[i])
  /\ said # NoRequest => Placed(said)

\* The pipe has at most the request the host waits for.
Piped == pipe # <<>> => host.at = "waiting" /\ pipe = <<host.request>>

\* Nobody answers what was not read yet.
Unread ==
  host.at = "writing" \/ pipe # <<>> =>
    /\ \A i \in DOMAIN answers : ~IsCurrent(answers[i])
    /\ said # NoRequest => ~IsCurrent(said)

\* After the answer to the request comes nothing of an earlier one.
Answered(f) == IsCurrent(f) /\ f.kind # "nonsense"
InOrder ==
  /\ \A i, j \in DOMAIN answers : i < j /\ Answered(answers[i]) => IsCurrent(answers[j])
  /\ \A i \in DOMAIN answers :
       Answered(answers[i]) /\ said # NoRequest => IsCurrent(said)

IInv == Typed /\ Going /\ AllPlaced /\ Piped /\ Unread /\ InOrder /\ AnswerIsItsOwn
-----------------------------------------------------------------------------
(* Values.                                                                  *)

USE MaxIdAssumption

\* An id has another one after it.
LEMMA NextIdIsAnother ==
  ASSUME NEW id \in 1..MaxId
  PROVE  NextId(id) \in 1..MaxId /\ NextId(id) # id
  BY DEF NextId

\* A sequence with one more at its end.
LEMMA Appended ==
  ASSUME NEW S, NEW s \in Seq(S), NEW e \in S
  PROVE  /\ Append(s, e) \in Seq(S) /\ Append(s, e) # <<>>
         /\ DOMAIN Append(s, e) = 1..Len(s) + 1 /\ DOMAIN s = 1..Len(s) /\ Len(s) \in Nat
         /\ \A i \in 1..Len(s) : Append(s, e)[i] = s[i]
         /\ Append(s, e)[Len(s) + 1] = e
  OBVIOUS

\* A sequence of one element.
LEMMA Single == ASSUME NEW S, NEW e \in S PROVE <<e>> \in Seq(S) /\ <<e>> # <<>>
  OBVIOUS

\* Two sequences, the second not empty.
LEMMA Joined ==
  ASSUME NEW S, NEW s \in Seq(S), NEW t \in Seq(S), t # <<>>
  PROVE  s \o t \in Seq(S) /\ s \o t # <<>>
  OBVIOUS

\* A sequence without its first.
LEMMA Shortened ==
  ASSUME NEW S, NEW s \in Seq(S), s # <<>>
  PROVE  /\ Tail(s) \in Seq(S) /\ Head(s) \in S /\ Head(s) = s[1] /\ 1 \in DOMAIN s
         /\ \A i \in DOMAIN Tail(s) : i \in Nat /\ i + 1 \in DOMAIN s /\ Tail(s)[i] = s[i + 1]
  OBVIOUS

\* What an answer of the worker says.
LEMMA OutcomeSays ==
  ASSUME NEW r, r.kind \in Kinds, NEW o \in Outcomes(r)
  PROVE  o.answer \in {"ok", "refused", "partway"}
<1> DEFINE Says == {"ok", "refused", "partway"}
           Triple(x) == \E a \in Says : \E w, t : x = [answer |-> a, worker |-> w, temp |-> t]
<1>1. ASSUME NEW x, Triple(x) PROVE x.answer \in Says
  BY <1>1
<1>2. Triple(o)
  BY DEF Outcomes, Kinds, Queries
<1>. QED  BY <1>1, <1>2

\* Kinds of answers are named, and none is "nonsense".
LEMMA ExpectedIsNamed ==
  ASSUME NEW kind \in Kinds
  PROVE  Expected[kind] \in Sayings /\ Expected[kind] # "nonsense"
<1>1. kind \in {"open", "edit", "revert", "save", "rebase", "query"}
  BY DEF Kinds, Queries
<1>2. CASE kind = "open"    BY <1>2 DEF Expected, Sayings
<1>3. CASE kind = "edit"    BY <1>3 DEF Expected, Sayings
<1>4. CASE kind = "revert"  BY <1>4 DEF Expected, Sayings
<1>5. CASE kind = "save"    BY <1>5 DEF Expected, Sayings
<1>6. CASE kind = "rebase"  BY <1>6 DEF Expected, Sayings
<1>7. CASE kind = "query"   BY <1>7 DEF Expected, Sayings
<1>. QED  BY <1>1, <1>2, <1>3, <1>4, <1>5, <1>6, <1>7

\* A request in hand is typed as it was asked.
LEMMA SentIsTyped ==
  ASSUME NEW r \in Sent
  PROVE  /\ r.kind \in Kinds /\ r.id \in 1..MaxId /\ r.serial \in Nat /\ r.doc \in Nat
         /\ IF r.kind = "edit" THEN r.arg \in Nat ELSE r.arg \in Seq(Nat)
  BY DEF Sent, SentFor, Kinds

\* ... and so is one of an operation.
LEMMA TodoIsTyped ==
  ASSUME NEW r \in Todo
  PROVE  /\ r.kind \in Kinds /\ r.again \in BOOLEAN
         /\ IF r.kind = "edit" THEN r.arg \in Nat ELSE r.arg \in Seq(Nat)
  BY DEF Todo, AskFor, Kinds

\* An answer to a request is a frame about it.
LEMMA AnswerIsFrame ==
  ASSUME NEW r \in Sent, NEW answer \in {"ok", "refused", "partway"}
  PROVE  /\ AnswerTo(r, answer) \in Frames
         /\ AnswerTo(r, answer).id = r.id /\ AnswerTo(r, answer).serial = r.serial
         /\ [AnswerTo(r, answer) EXCEPT !.kind = "nonsense"] \in Frames
         /\ [AnswerTo(r, answer) EXCEPT !.kind = "nonsense"].id = r.id
         /\ [AnswerTo(r, answer) EXCEPT !.kind = "nonsense"].serial = r.serial
         /\ [AnswerTo(r, answer) EXCEPT !.kind = "nonsense"].kind = "nonsense"
<1>1. r.kind \in Kinds /\ r.id \in 1..MaxId /\ r.serial \in Nat
  BY SentIsTyped
<1> DEFINE kind == IF answer = "ok" THEN Expected[r.kind] ELSE answer
<1>2. kind \in Sayings
  BY <1>1, ExpectedIsNamed DEF Sayings
<1>3. AnswerTo(r, answer) = [id |-> r.id, serial |-> r.serial, kind |-> kind]
  BY DEF AnswerTo
<1> HIDE DEF kind
<1>. QED  BY <1>1, <1>2, <1>3 DEF Frames

\* Requests of an operation, and those of opening the document before it.
LEMMA RequestsAreTyped ==
  ASSUME NEW kind \in Kinds, NEW arg,
         IF kind = "edit" THEN arg \in Nat ELSE arg \in Seq(Nat),
         NEW again \in BOOLEAN
  PROVE  Request(kind, arg, again) \in Todo
  BY DEF Request, Todo, AskFor

\* Opening the document again, whatever the unsaved edits.
LEMMA ReopeningIsTyped == ASSUME Typed PROVE Reopening \in Seq(Todo)
<1> DEFINE first == Request("open", <<>>, TRUE)
           Remade(edit) == Request("edit", edit, TRUE)
           again == [i \in DOMAIN tab.edits |-> Remade(tab.edits[i])]
<1>1. first \in Todo
  <2>1. <<>> \in Seq(Nat) /\ "open" \in Kinds /\ "open" # "edit"
    BY DEF Kinds
  <2>. QED  BY <2>1, RequestsAreTyped
<1>2. \A edit \in Nat : Remade(edit) \in Todo
  BY RequestsAreTyped DEF Kinds
<1>3. Reopening = IF ~tab.lost THEN <<>> ELSE <<first>> \o again
  BY DEF Reopening
<1>4. tab.edits \in Seq(Nat)
  BY DEF Typed
<1> HIDE DEF first, Remade
<1>5. again \in Seq(Todo) /\ <<first>> \in Seq(Todo)
  BY <1>1, <1>2, <1>4
<1> HIDE DEF again
<1>6. <<first>> \o again \in Seq(Todo)
  BY <1>5
<1>. QED  BY <1>3, <1>6
-----------------------------------------------------------------------------
(* The invariant, action by action.                                         *)

\* An operation of the user asks for something and changes nothing else.
LEMMA BeginsKeeps ==
  ASSUME IInv, NEW reqs \in Seq(Todo), reqs # <<>>, Begins(reqs)
  PROVE  IInv'
<1>1. todo' \in Seq(Todo) /\ todo' # <<>>
  BY ReopeningIsTyped, Joined DEF Begins, IInv
<1>2. Typed'
  <2>1. /\ tab' \in [doc : Nat, lost : BOOLEAN, saved : Seq(Nat), edits : Seq(Nat)]
        /\ said' \in Frames \cup {NoRequest} /\ pipe' \in Seq(Sent) /\ answers' \in Seq(Frames)
    BY DEF IInv, Typed, Begins
  <2>2. host' \in Hosts
    BY DEF IInv, Typed, Begins, Hosts
  <2>3. ops' \in Nat
    BY DEF IInv, Typed, Begins
  <2>. QED  BY <1>1, <2>1, <2>2, <2>3 DEF Typed
<1>3. /\ UNCHANGED <<pipe, answers, said, accepted>> /\ host'.request = host.request
      /\ host'.nextId = host.nextId /\ host.at = "idle" /\ host'.at = "sending"
  BY DEF IInv, Typed, Begins, Hosts
<1>4. pipe = <<>>
  BY <1>3 DEF IInv, Piped
<1>. QED
  BY <1>1, <1>2, <1>3, <1>4
  DEF IInv, Going, Asking, IsCurrent, Placed, AllPlaced, Piped, Unread, Answered, InOrder,
      AnswerIsItsOwn

\* Editing, undoing, asking and saving each ask for well-formed requests.
LEMMA UserKeeps == ASSUME IInv, User PROVE IInv'
<1>0. tab.edits \in Seq(Nat) /\ ops + 1 \in Nat
  BY DEF IInv, Typed
<1>1. \A kind \in Kinds : \A arg :
        (IF kind = "edit" THEN arg \in Nat ELSE arg \in Seq(Nat)) =>
          One(kind, arg) \in Seq(Todo) /\ One(kind, arg) # <<>>
  <2> SUFFICES ASSUME NEW kind \in Kinds, NEW arg,
                      IF kind = "edit" THEN arg \in Nat ELSE arg \in Seq(Nat)
               PROVE  One(kind, arg) \in Seq(Todo) /\ One(kind, arg) # <<>>
    OBVIOUS
  <2>1. Request(kind, arg, FALSE) \in Todo
    BY RequestsAreTyped
  <2> DEFINE request == Request(kind, arg, FALSE)
  <2>2. One(kind, arg) = <<request>>
    BY DEF One
  <2> HIDE DEF request
  <2>. QED  BY <2>1, <2>2, Single DEF request
<1>2. CASE Edit
  <2>1. One("edit", ops + 1) \in Seq(Todo) /\ One("edit", ops + 1) # <<>>
    BY <1>0, <1>1 DEF Kinds
  <2>. QED  BY <1>2, <2>1, BeginsKeeps DEF Edit
<1>3. CASE Undo
  <2> DEFINE arg == SubSeq(tab.edits, 1, Len(tab.edits) - 1)
  <2>1. arg \in Seq(Nat)
    BY <1>0
  <2>2. One("revert", arg) \in Seq(Todo) /\ One("revert", arg) # <<>>
    BY <1>1, <2>1 DEF Kinds
  <2>. QED  BY <1>3, <2>2, BeginsKeeps DEF Undo
<1>4. <<>> \in Seq(Nat)
  OBVIOUS
<1>5. CASE Query
  <2>1. One("query", <<>>) \in Seq(Todo) /\ One("query", <<>>) # <<>>
    BY <1>1, <1>4 DEF Kinds, Queries
  <2>. QED  BY <1>5, <2>1, BeginsKeeps DEF Query
<1>6. CASE Save
  <2>1. /\ One("save", <<>>) \in Seq(Todo)
        /\ One("rebase", <<>>) \in Seq(Todo) /\ One("rebase", <<>>) # <<>>
    BY <1>1, <1>4 DEF Kinds
  <2> DEFINE both == One("save", <<>>) \o One("rebase", <<>>)
  <2>2. both \in Seq(Todo) /\ both # <<>>
    BY <2>1, Joined
  <2>. QED  BY <1>6, <2>2, BeginsKeeps DEF Save
<1>. QED  BY <1>2, <1>3, <1>5, <1>6 DEF User

\* A new worker has said nothing yet; without one the operation is over.
LEMMA StartsKeeps == ASSUME IInv, Starts PROVE IInv'
<1>1. Typed'
  <2>1. /\ tab' \in [doc : Nat, lost : BOOLEAN, saved : Seq(Nat), edits : Seq(Nat)]
        /\ said' \in Frames \cup {NoRequest} /\ pipe' \in Seq(Sent) /\ answers' \in Seq(Frames)
        /\ ops' \in Nat /\ todo' \in Seq(Todo)
    <3>1. /\ UNCHANGED tab /\ ops' = ops /\ todo' \in {todo, <<>>}
          /\ said' \in {said, NoRequest} /\ pipe' \in {pipe, <<>>} /\ answers' \in {answers, <<>>}
      BY DEF Starts, Over, bounds
    <3>2. <<>> \in Seq(Sent) /\ <<>> \in Seq(Frames) /\ <<>> \in Seq(Todo)
      OBVIOUS
    <3>3. tab' \in [doc : Nat, lost : BOOLEAN, saved : Seq(Nat), edits : Seq(Nat)]
      BY <3>1 DEF IInv, Typed
    <3>4. said' \in Frames \cup {NoRequest} /\ pipe' \in Seq(Sent) /\ answers' \in Seq(Frames)
      BY <3>1, <3>2 DEF IInv, Typed
    <3>5. ops' \in Nat /\ todo' \in Seq(Todo)
      BY <3>1, <3>2 DEF IInv, Typed
    <3>. QED  BY <3>3, <3>4, <3>5
  <2>2. CASE host' = [host EXCEPT !.connected = TRUE]
    BY <2>1, <2>2 DEF IInv, Typed, Hosts
  <2>3. CASE host' = [host EXCEPT !.at = "idle"]
    BY <2>1, <2>3 DEF IInv, Typed, Hosts
  <2>. QED  BY <2>2, <2>3 DEF Starts
<1>2. /\ UNCHANGED accepted /\ host'.request = host.request /\ host'.nextId = host.nextId
      /\ host.at = "sending" /\ host'.at \in {"sending", "idle"}
      /\ host'.at = "sending" => UNCHANGED todo
      /\ \/ pipe' = <<>> /\ answers' = <<>> /\ said' = NoRequest
         \/ UNCHANGED <<pipe, answers, said>>
  BY DEF IInv, Typed, Hosts, Starts, Over
<1>3. pipe = <<>>
  BY <1>2 DEF IInv, Piped
<1>. QED
  BY <1>1, <1>2, <1>3
  DEF IInv, Going, Asking, IsCurrent, Placed, AllPlaced, Piped, Unread, Answered, InOrder,
      AnswerIsItsOwn

\* A new request has the next id, so nothing said before has its id.
LEMMA SendsKeeps == ASSUME IInv, Sends PROVE IInv'
<1> DEFINE r == RequestFor(host.doc, Head(todo))
<1>1. /\ todo \in Seq(Todo) /\ todo # <<>> /\ host \in Hosts /\ pipe \in Seq(Sent)
      /\ host.at = "sending"
  BY DEF IInv, Typed, Going, Sends
<1>2. Head(todo) \in Todo
  BY <1>1, Shortened
<1>3. /\ host.nextId \in 1..MaxId /\ host.serial + 1 \in Nat /\ host.doc \in Nat
      /\ host.nextDoc \in Nat /\ host.nextDoc + 1 \in Nat
  BY <1>1 DEF Hosts
<1>4. r \in Sent
  <2>1. /\ Head(todo).kind \in Kinds
        /\ IF Head(todo).kind = "edit" THEN Head(todo).arg \in Nat ELSE Head(todo).arg \in Seq(Nat)
    BY <1>2, TodoIsTyped
  <2>. QED  BY <1>3, <2>1 DEF RequestFor, Sent, SentFor
<1>5. r.id = host.nextId /\ r.serial = host.serial + 1 /\ r.doc \in Nat
  BY <1>3 DEF RequestFor
<1> HIDE DEF r
<1>6. NextId(host.nextId) \in 1..MaxId /\ NextId(host.nextId) # host.nextId
  BY <1>3, NextIdIsAnother
<1>7. /\ UNCHANGED <<tab, todo, said, answers, ops, accepted>>
      /\ \/ pipe' = pipe /\ host'.at = "writing"
         \/ pipe' = Append(pipe, r) /\ host'.at = "waiting"
  BY <1>1 DEF Sends, Hosts, r, bounds
<1>8. /\ host' \in Hosts
      /\ host'.request = r /\ host'.nextId = NextId(host.nextId)
  BY <1>1, <1>3, <1>4, <1>5, <1>6 DEF Sends, Hosts, r
<1>9. pipe = <<>>
  BY <1>1 DEF IInv, Piped
<1>10. Append(pipe, r) = <<r>> /\ Append(pipe, r) \in Seq(Sent)
  BY <1>1, <1>4, <1>9
<1>11. Typed'
  BY <1>7, <1>8, <1>10 DEF IInv, Typed
<1>12. r # NoRequest
  BY <1>4 DEF Sent, SentFor, NoRequest, Kinds, Queries
<1>13. Going' /\ Piped' /\ AnswerIsItsOwn'
  BY <1>1, <1>5, <1>7, <1>8, <1>9, <1>10, <1>12 DEF IInv, Going, Piped, AnswerIsItsOwn
<1>14. ASSUME NEW f, Placed(f) PROVE f.id # r.id
  BY <1>1, <1>3, <1>5, <1>14, NextIdIsAnother DEF IInv, Going, Placed, IsCurrent, Asking, Hosts
<1>15. /\ \A i \in DOMAIN answers : answers[i].id # r.id
       /\ said # NoRequest => said.id # r.id
  BY <1>14 DEF IInv, AllPlaced
<1>16. AllPlaced' /\ Unread' /\ InOrder'
  BY <1>7, <1>8, <1>12, <1>15
  DEF AllPlaced, Placed, Asking, Unread, InOrder, Answered, IsCurrent
<1>. QED  BY <1>11, <1>13, <1>16 DEF IInv

\* What was being written is in the pipe.
LEMMA WritesKeeps == ASSUME IInv, Writes PROVE IInv'
<1>1. /\ host \in Hosts /\ host.at = "writing" /\ host.request \in Sent /\ pipe = <<>>
  BY DEF IInv, Typed, Going, Asking, Piped, Writes, Hosts
<1>2. /\ UNCHANGED <<tab, todo, said, answers, ops, accepted>>
      /\ pipe' = <<host.request>> /\ pipe' \in Seq(Sent)
  BY <1>1 DEF Writes, bounds
<1>3. /\ host' \in Hosts /\ host'.at = "waiting" /\ host'.request = host.request
      /\ host'.nextId = host.nextId
  BY <1>1 DEF Writes, Hosts
<1>4. Typed'
  BY <1>2, <1>3 DEF IInv, Typed
<1>. QED
  BY <1>1, <1>2, <1>3, <1>4
  DEF IInv, Going, Asking, IsCurrent, Placed, AllPlaced, Piped, Unread, Answered, InOrder,
      AnswerIsItsOwn

\* Dropping the connection leaves nothing said and nothing to read.
LEMMA DropsKeeps == ASSUME IInv, Drops, UNCHANGED accepted PROVE IInv'
<1>1. tab' \in [doc : Nat, lost : BOOLEAN, saved : Seq(Nat), edits : Seq(Nat)]
  BY DEF IInv, Typed, Drops, Over
<1>2. /\ host' \in Hosts /\ host'.at = "idle" /\ host'.request = host.request
      /\ host'.nextId = host.nextId
  BY DEF IInv, Typed, Hosts, Drops
<1>3. /\ said' = NoRequest /\ pipe' = <<>> /\ answers' = <<>> /\ todo' = <<>> /\ ops' = ops
  BY DEF Drops, Over, bounds
<1>4. Typed'
  BY <1>1, <1>2, <1>3 DEF IInv, Typed
<1>. QED
  BY <1>2, <1>3, <1>4
  DEF IInv, Going, Asking, IsCurrent, Placed, AllPlaced, Piped, Unread, Answered, InOrder,
      AnswerIsItsOwn

\* An acceptable answer is the one to what was asked: no other frame has its id.
LEMMA AcceptsKeeps == ASSUME IInv, Accepts PROVE IInv'
<1> DEFINE a == Head(answers)
           r == host.request
<1>1. /\ answers \in Seq(Frames) /\ answers # <<>> /\ a \in Frames /\ a = answers[1]
      /\ 1 \in DOMAIN answers /\ host \in Hosts /\ host.at = "waiting"
      /\ todo \in Seq(Todo) /\ todo # <<>> /\ r \in Sent
  BY Shortened DEF IInv, Typed, Going, Asking, Accepts, Hosts
<1>2. a.id = r.id /\ a.kind # "nonsense"
  BY <1>1, SentIsTyped, ExpectedIsNamed DEF Accepts, Acceptable, Answers
<1>3. a.serial = r.serial /\ IsCurrent(answers[1]) /\ Answered(answers[1])
  BY <1>1, <1>2 DEF IInv, AllPlaced, Placed, IsCurrent, Answered
<1>4. /\ \A i \in DOMAIN answers : IsCurrent(answers[i])
      /\ said # NoRequest => IsCurrent(said)
  BY <1>1, <1>3 DEF IInv, InOrder
<1>5. pipe = <<>>
  BY <1>1, <1>3 DEF IInv, Unread
<1>6. /\ UNCHANGED <<said, pipe, ops>> /\ answers' = Tail(answers)
      /\ accepted' = [asked |-> r.serial, answered |-> a.serial]
      /\ host' = [host EXCEPT !.at = IF todo' = <<>> THEN "idle" ELSE "sending"]
  BY DEF Accepts, bounds
<1>7. /\ host' \in Hosts /\ host'.at \in {"idle", "sending"} /\ host'.request = r
      /\ host'.nextId = host.nextId /\ host'.at # "idle" => todo' # <<>>
  BY <1>1, <1>6 DEF Hosts
<1>8. todo' \in Seq(Todo)
  <2>1. todo' = <<>> \/ todo' = Tail(todo)
    BY DEF Accepts, Over
  <2>2. Tail(todo) \in Seq(Todo) /\ <<>> \in Seq(Todo)
    BY <1>1, Shortened
  <2>. QED  BY <2>1, <2>2
<1>9. tab' \in [doc : Nat, lost : BOOLEAN, saved : Seq(Nat), edits : Seq(Nat)]
  <2>1. /\ tab \in [doc : Nat, lost : BOOLEAN, saved : Seq(Nat), edits : Seq(Nat)]
        /\ host.doc \in Nat
    BY <1>1 DEF IInv, Typed, Hosts
  <2>2. Done(r) \in [doc : Nat, lost : BOOLEAN, saved : Seq(Nat), edits : Seq(Nat)]
    <3>1. /\ r.kind = "edit" => Append(tab.edits, r.arg) \in Seq(Nat)
          /\ r.kind # "edit" => r.arg \in Seq(Nat)
          /\ tab.saved \o tab.edits \in Seq(Nat) /\ <<>> \in Seq(Nat)
      BY <1>1, <2>1, SentIsTyped
    <3>2. CASE r.kind = "edit"
      BY <2>1, <3>1, <3>2 DEF Done
    <3>3. CASE r.kind = "revert"
      BY <2>1, <3>1, <3>3 DEF Done
    <3>4. CASE r.kind = "save"
      BY <2>1, <3>1, <3>4 DEF Done
    <3>5. CASE r.kind \notin {"edit", "revert", "save"}
      BY <2>1, <3>5 DEF Done
    <3>. QED  BY <3>2, <3>3, <3>4, <3>5
  <2>3. \/ \E lost \in BOOLEAN : tab' = [tab EXCEPT !.lost = lost]
        \/ tab' \in {tab, Done(r), [tab EXCEPT !.doc = host.doc, !.lost = FALSE]}
    BY <2>1 DEF Accepts, Over, LosesIt
  <2>. QED  BY <2>1, <2>2, <2>3
<1>10. Typed'
  BY <1>6, <1>7, <1>8, <1>9, <1>1, Shortened DEF IInv, Typed
<1>11. AnswerIsItsOwn'
  BY <1>3, <1>6 DEF AnswerIsItsOwn
<1>12. \A i \in DOMAIN answers' : i + 1 \in DOMAIN answers /\ answers'[i] = answers[i + 1]
  BY <1>1, <1>6, Shortened
<1>13. /\ \A i \in DOMAIN answers' : IsCurrent(answers'[i])
       /\ said' # NoRequest => IsCurrent(said')
  BY <1>4, <1>6, <1>12
<1>14. r # NoRequest
  BY <1>1 DEF Sent, SentFor, NoRequest, Kinds, Queries
<1>. QED
  BY <1>5, <1>6, <1>7, <1>10, <1>11, <1>13, <1>14
  DEF IInv, Going, Asking, IsCurrent, Placed, AllPlaced, Piped, Unread, Answered, InOrder

\* The worker answers the request in the pipe, of which nothing was said before.
LEMMA ReadsOne ==
  ASSUME IInv, pipe # <<>>
  PROVE  /\ host.at = "waiting" /\ host.request \in Sent /\ Head(pipe) = host.request
         /\ Tail(pipe) = <<>> /\ answers \in Seq(Frames)
         /\ \A i \in DOMAIN answers : ~IsCurrent(answers[i])
         /\ said # NoRequest => ~IsCurrent(said)
<1>1. pipe = <<host.request>> /\ pipe \in Seq(Sent) /\ host.at = "waiting"
  BY DEF IInv, Piped, Typed
<1>2. host.request \in Sent
  BY <1>1 DEF IInv, Typed, Hosts, Going, Asking
<1>. QED  BY <1>1, <1>2 DEF IInv, Unread, Typed

\* The answer the worker gives is about the request that was in the pipe.
LEMMA ServesKeeps == ASSUME IInv, Serves PROVE IInv'
<1> DEFINE r == host.request
<1>1. pipe # <<>>
  BY DEF Serves, Reads
<1>2. /\ host.at = "waiting" /\ r \in Sent /\ Head(pipe) = r
      /\ Tail(pipe) = <<>> /\ answers \in Seq(Frames)
      /\ \A i \in DOMAIN answers : ~IsCurrent(answers[i])
  BY <1>1, ReadsOne
<1>3. PICK o \in Outcomes(r) :
        said' = AnswerTo(r, o.answer) /\ answers' = Append(answers, AnswerTo(r, o.answer))
  BY <1>2 DEF Serves
<1>4. o.answer \in {"ok", "refused", "partway"}
  BY <1>2, OutcomeSays, SentIsTyped
<1> DEFINE a == AnswerTo(r, o.answer)
<1>5. a \in Frames /\ a.id = r.id /\ a.serial = r.serial
  BY <1>2, <1>4, AnswerIsFrame
<1> HIDE DEF a
<1>6. said' = a /\ answers' = Append(answers, a)
  BY <1>3 DEF a
<1>7. pipe' = <<>> /\ UNCHANGED <<tab, todo, host, ops, accepted>>
  BY <1>2 DEF Serves, bounds
<1>8. Typed'
  BY <1>2, <1>5, <1>6, <1>7, Appended DEF IInv, Typed
<1>9. /\ answers' \in Seq(Frames) /\ DOMAIN answers = 1..Len(answers)
      /\ DOMAIN answers' = 1..Len(answers) + 1 /\ Len(answers) \in Nat
      /\ \A i \in 1..Len(answers) : answers'[i] = answers[i]
      /\ answers'[Len(answers) + 1] = a
  BY <1>2, <1>5, <1>6, Appended
<1>10. r # NoRequest
  BY <1>2 DEF Sent, SentFor, NoRequest, Kinds, Queries
<1>11. AllPlaced'
  BY <1>5, <1>6, <1>7, <1>9, <1>10 DEF IInv, AllPlaced, Placed, IsCurrent, Asking
<1>12. InOrder'
  BY <1>2, <1>5, <1>6, <1>7, <1>9 DEF InOrder, Answered, IsCurrent
<1>13. Going' /\ Piped' /\ Unread' /\ AnswerIsItsOwn'
  BY <1>2, <1>7 DEF IInv, Going, Asking, Piped, Unread, AnswerIsItsOwn
<1>. QED  BY <1>8, <1>11, <1>12, <1>13 DEF IInv

\* A worker that dies, hangs or answers twice says nothing about what it did not read.
LEMMA DiesKeeps == ASSUME IInv, Dies PROVE IInv'
<1>1. /\ UNCHANGED <<tab, todo, host, answers, ops, accepted>>
      /\ said' = NoRequest /\ pipe' = <<>>
  BY DEF Dies, Faulty
<1>2. Typed'
  BY <1>1 DEF IInv, Typed
<1>. QED
  BY <1>1, <1>2
  DEF IInv, Going, Asking, IsCurrent, Placed, AllPlaced, Piped, Unread, Answered, InOrder,
      AnswerIsItsOwn

\* A hang changes only the worker, and so does a step that changes nothing.
LEMMA QuietKeeps ==
  ASSUME IInv, UNCHANGED <<tab, todo, host, said, pipe, answers, ops, accepted>>
  PROVE  IInv'
  BY DEF IInv, Typed, Going, Asking, IsCurrent, Placed, AllPlaced, Piped, Unread, Answered,
         InOrder, AnswerIsItsOwn

\* What a worker says again is what it said last.
LEMMA RepeatsKeeps == ASSUME IInv, Repeats PROVE IInv'
<1>1. /\ UNCHANGED <<tab, todo, host, said, pipe, ops, accepted>>
      /\ said \in Frames /\ said # NoRequest /\ answers' = Append(answers, said)
      /\ answers \in Seq(Frames)
  BY DEF Repeats, Faulty, IInv, Typed
<1>2. /\ answers' \in Seq(Frames) /\ DOMAIN answers = 1..Len(answers)
      /\ DOMAIN answers' = 1..Len(answers) + 1 /\ Len(answers) \in Nat
      /\ \A i \in 1..Len(answers) : answers'[i] = answers[i]
      /\ answers'[Len(answers) + 1] = said
  BY <1>1, Appended
<1>3. Typed'
  BY <1>1, <1>2 DEF IInv, Typed
<1>4. AllPlaced' /\ Unread'
  BY <1>1, <1>2 DEF IInv, AllPlaced, Placed, IsCurrent, Asking, Unread
<1>5. InOrder'
  BY <1>1, <1>2 DEF IInv, InOrder, Answered, IsCurrent
<1>6. Going' /\ Piped' /\ AnswerIsItsOwn'
  BY <1>1 DEF IInv, Going, Asking, Piped, AnswerIsItsOwn
<1>. QED  BY <1>3, <1>4, <1>5, <1>6 DEF IInv

\* A wrong answer is about the request read, and no answer to it.
LEMMA MisspeaksKeeps == ASSUME IInv, Misspeaks PROVE IInv'
<1> DEFINE r == host.request
           a == [AnswerTo(r, "ok") EXCEPT !.kind = "nonsense"]
<1>1. pipe # <<>>
  BY DEF Misspeaks, Reads
<1>2. /\ host.at = "waiting" /\ r \in Sent /\ Head(pipe) = r
      /\ Tail(pipe) = <<>> /\ answers \in Seq(Frames)
      /\ \A i \in DOMAIN answers : ~IsCurrent(answers[i])
      /\ said # NoRequest => ~IsCurrent(said)
  BY <1>1, ReadsOne
<1>3. a \in Frames /\ a.id = r.id /\ a.serial = r.serial /\ a.kind = "nonsense"
  BY <1>2, AnswerIsFrame
<1>4. answers' = Append(answers, a)
  BY <1>2 DEF Misspeaks
<1> HIDE DEF a
<1>5. pipe' = <<>> /\ UNCHANGED <<tab, todo, host, said, ops, accepted>>
  BY <1>2 DEF Misspeaks, Faulty
<1>6. Typed'
  BY <1>2, <1>3, <1>4, <1>5, Appended DEF IInv, Typed
<1>7. /\ answers' \in Seq(Frames) /\ DOMAIN answers = 1..Len(answers)
      /\ DOMAIN answers' = 1..Len(answers) + 1 /\ Len(answers) \in Nat
      /\ \A i \in 1..Len(answers) : answers'[i] = answers[i]
      /\ answers'[Len(answers) + 1] = a
  BY <1>2, <1>3, <1>4, Appended
<1>8. r # NoRequest
  BY <1>2 DEF Sent, SentFor, NoRequest, Kinds, Queries
<1>9. AllPlaced'
  BY <1>3, <1>5, <1>7, <1>8 DEF IInv, AllPlaced, Placed, IsCurrent, Asking
<1>10. InOrder'
  BY <1>2, <1>3, <1>5, <1>7 DEF InOrder, Answered, IsCurrent
<1>11. Going' /\ Piped' /\ Unread' /\ AnswerIsItsOwn'
  BY <1>2, <1>5 DEF IInv, Going, Asking, Piped, Unread, AnswerIsItsOwn
<1>. QED  BY <1>6, <1>9, <1>10, <1>11 DEF IInv
-----------------------------------------------------------------------------
(* The theorems.                                                            *)

\* At first nobody has said anything.
LEMMA InitIsSound == ASSUME Init PROVE IInv
<1>1. Typed
  BY DEF Init, Typed, Hosts, NoDoc, NoWorker
<1>. QED
  BY <1>1 DEF Init, IInv, Going, Asking, Placed, AllPlaced, Piped, Unread, InOrder,
              AnswerIsItsOwn, NoRequest

\* No step of the user, the host or the worker breaks the invariant.
LEMMA StepKeeps == ASSUME IInv, [Next]_vars PROVE IInv'
<1>1. CASE User
  BY <1>1, UserKeeps
<1>2. CASE Starts
  BY <1>2, StartsKeeps
<1>3. CASE Sends
  BY <1>3, SendsKeeps
<1>4. CASE Writes
  BY <1>4, WritesKeeps
<1>5. CASE FindsCrash
  BY <1>5, DropsKeeps DEF FindsCrash
<1>6. CASE TimesOut
  BY <1>6, DropsKeeps DEF TimesOut
<1>7. CASE Rejects
  BY <1>7, DropsKeeps DEF Rejects
<1>8. CASE Accepts
  BY <1>8, AcceptsKeeps
<1>9. CASE Serves
  BY <1>9, ServesKeeps
<1>10. CASE Dies
  BY <1>10, DiesKeeps
<1>11. CASE Hangs
  BY <1>11, QuietKeeps DEF Hangs, Faulty
<1>12. CASE Repeats
  BY <1>12, RepeatsKeeps
<1>13. CASE Misspeaks
  BY <1>13, MisspeaksKeeps
<1>14. CASE UNCHANGED vars
  BY <1>14, QuietKeeps DEF vars
<1>. QED
  BY <1>1, <1>2, <1>3, <1>4, <1>5, <1>6, <1>7, <1>8, <1>9, <1>10, <1>11, <1>12, <1>13, <1>14
  DEF Next, Host

\* The invariant of every behaviour: types, and what may be in the two pipes.
THEOREM PipesAreSound == Spec => []IInv
<1>1. Init => IInv
  BY InitIsSound
<1>2. IInv /\ [Next]_vars => IInv'
  BY StepKeeps
<1>. QED  BY <1>1, <1>2, PTL DEF Spec

\* Every frame, request and counter of a document's host has its type, whatever a
\* worker did.
THEOREM TypeCorrect == Spec => []Typed
<1>1. IInv => Typed
  BY DEF IInv
<1>. QED  BY <1>1, PipesAreSound, PTL

\* The answer a caller gets is the one to what it asked, for any number of ids from
\* two up, however long ids run and however often a worker repeats itself.
THEOREM AnswersAreTheirOwn == Spec => []AnswerIsItsOwn
<1>1. IInv => AnswerIsItsOwn
  BY DEF IInv
<1>. QED  BY <1>1, PipesAreSound, PTL

\* A request that was given up is not left in a pipe for a worker to carry out.
THEOREM GivenUpStops == Spec => []GivenUpIsStopped
<1>1. IInv => GivenUpIsStopped
  BY DEF IInv, Piped, GivenUpIsStopped
<1>. QED  BY <1>1, PipesAreSound, PTL
-----------------------------------------------------------------------------
(* What the worker has.                                                     *)

\* What the tab takes its document to be, and the first k edits of that.
Target == tab.saved \o tab.edits
Part(k) == SubSeq(Target, 1, k)

\* A living worker has a document with this content and this to undo from.
Has(doc, content, original) ==
  worker.alive =>
    /\ Knows(doc) /\ worker.docs[doc] = content
    /\ worker.originals[doc] = original

WorkerIs(w) ==
  w = [alive |-> w.alive, hung |-> w.hung, docs |-> w.docs, originals |-> w.originals]

\* From n requests on, what is to be sent is the operation's own.
OwnFrom(n) ==
  /\ n + 1 \in DOMAIN todo /\ ~todo[n + 1].again
  /\ \/ /\ Len(todo) = n + 1
        /\ todo[n + 1].kind \in {"edit", "revert", "query"}
     \/ /\ Len(todo) = n + 2
        /\ todo[n + 1].kind = "save" /\ todo[n + 2].kind = "rebase"
        /\ ~todo[n + 2].again

\* The edits from the k-th on are made again, after n other requests.
Remakes(k, n) ==
  \A i \in 1..(Len(Target) - k) :
    /\ n + i \in DOMAIN todo
    /\ todo[n + i] = Request("edit", Target[k + i], TRUE)

\* How far the operation is, with k edits in the worker's document.
Opens(k) ==
  /\ tab.lost /\ k = Len(tab.saved)
  /\ 1 \in DOMAIN todo /\ todo[1] = Request("open", <<>>, TRUE)
  /\ Remakes(k, 1) /\ OwnFrom(1 + Len(Target) - k)
Remaking(k) ==
  /\ tab.lost /\ host.connected
  /\ k \in Len(tab.saved)..(Len(Target) - 1)
  /\ Remakes(k, 0) /\ OwnFrom(Len(Target) - k)
Owns(k) ==
  /\ ~tab.lost /\ tab.doc = host.doc /\ k = Len(Target)
  /\ OwnFrom(0)
Rebasing(k) ==
  /\ ~tab.lost /\ tab.doc = host.doc /\ k = Len(Target)
  /\ tab.edits = <<>>
  /\ Len(todo) = 1 /\ todo[1].kind = "rebase" /\ ~todo[1].again

Plan(k) == Opens(k) \/ Remaking(k) \/ Owns(k) \/ Rebasing(k)

\* What the worker has before and after the request that is next.
Before(k) ==
  Head(todo).kind # "open" /\ worker.alive =>
    /\ Knows(host.doc) /\ worker.docs[host.doc] = Part(k)
    /\ Head(todo).kind # "rebase" => worker.originals[host.doc] = tab.saved

Made(k) ==
  IF Head(todo).kind = "edit" THEN Append(Part(k), Head(todo).arg)
  ELSE IF Head(todo).kind = "revert" THEN tab.saved \o Head(todo).arg
  ELSE Part(k)

After(k) == Has(host.doc, Made(k), tab.saved)

\* ... after the answer f to it.
LeftBy(f, k) ==
  /\ f.kind = "refused" => Before(k)
  /\ f.kind \notin {"refused", "partway", "nonsense"} => After(k)
  /\ f.kind = "saved" => temp = Part(k)

Pending(k) ==
  /\ host.at \in {"sending", "writing"} \/ pipe # <<>> => Before(k)
  /\ host.at = "waiting" =>
       /\ \A i \in DOMAIN answers : Answered(answers[i]) => LeftBy(answers[i], k)
       /\ said # NoRequest /\ IsCurrent(said) => LeftBy(said, k)

\* The request is the one that is next, of a worker that was started.
AsksNext ==
  Asking => /\ host.connected
            /\ host.request.kind = Head(todo).kind
            /\ host.request.arg = Head(todo).arg
            /\ host.request.doc = host.doc

KInv ==
  /\ WorkerIs(worker)
  /\ file = tab.saved
  /\ ~host.connected => tab.lost
  /\ AsksNext
  /\ host.at = "idle" /\ ~tab.lost => Has(tab.doc, Target, tab.saved)
  /\ host.at # "idle" => \E k \in 0..Len(Target) : Plan(k) /\ Pending(k)
-----------------------------------------------------------------------------
(* Contents, requests and workers.                                          *)

\* The first edits of a document, one more and all of them.
LEMMA PartFacts ==
  ASSUME Typed
  PROVE  /\ Target \in Seq(Nat) /\ tab.saved \in Seq(Nat) /\ tab.edits \in Seq(Nat)
         /\ Len(tab.saved) \in Nat /\ Len(tab.edits) \in Nat
         /\ Len(Target) = Len(tab.saved) + Len(tab.edits)
         /\ Part(Len(tab.saved)) = tab.saved /\ Part(Len(Target)) = Target
         /\ \A k \in 0..(Len(Target) - 1) : Append(Part(k), Target[k + 1]) = Part(k + 1)
         /\ \A i \in 1..Len(tab.edits) : Target[Len(tab.saved) + i] = tab.edits[i]
<1> DEFINE s == tab.saved
           e == tab.edits
           t == s \o e
<1>1. s \in Seq(Nat) /\ e \in Seq(Nat)
  BY DEF Typed
<1> HIDE DEF s, e
<1>2. /\ t \in Seq(Nat) /\ Len(t) = Len(s) + Len(e)
      /\ Len(s) \in Nat /\ Len(e) \in Nat
      /\ \A i \in 1..Len(s) : t[i] = s[i]
      /\ \A i \in 1..Len(e) : t[Len(s) + i] = e[i]
  BY <1>1
<1>3. SubSeq(t, 1, Len(s)) = s
  BY <1>1, <1>2
<1> HIDE DEF t
<1>4. SubSeq(t, 1, Len(t)) = t
  BY <1>2
<1>5. \A k \in 0..(Len(t) - 1) : Append(SubSeq(t, 1, k), t[k + 1]) = SubSeq(t, 1, k + 1)
  BY <1>2
<1>6. Target = t /\ \A k : Part(k) = SubSeq(t, 1, k)
  BY Zenon DEF Target, Part, t, s, e
<1>. QED  BY <1>1, <1>2, <1>3, <1>4, <1>5, <1>6 DEF s, e

\* A function given one more value.
LEMMA WithFacts ==
  ASSUME NEW f, NEW d, NEW v
  PROVE  d \in DOMAIN With(f, d, v) /\ With(f, d, v)[d] = v
  BY DEF With

\* A worker with one document's content or original changed, or both.
GivenDoc(d, v)      == [worker EXCEPT !.docs = With(@, d, v)]
GivenOriginal(d, v) == [worker EXCEPT !.originals = With(@, d, v)]
GivenBoth(d, v)     == [worker EXCEPT !.docs = With(@, d, v), !.originals = With(@, d, v)]

\* ... has that, and what it had besides.
LEMMA WorkerWith ==
  ASSUME WorkerIs(worker), NEW d, NEW v
  PROVE  /\ WorkerIs(GivenDoc(d, v)) /\ GivenDoc(d, v).alive = worker.alive
         /\ d \in DOMAIN GivenDoc(d, v).docs /\ GivenDoc(d, v).docs[d] = v
         /\ GivenDoc(d, v).originals = worker.originals
         /\ WorkerIs(GivenOriginal(d, v)) /\ GivenOriginal(d, v).alive = worker.alive
         /\ GivenOriginal(d, v).docs = worker.docs /\ GivenOriginal(d, v).originals[d] = v
         /\ WorkerIs(GivenBoth(d, v)) /\ GivenBoth(d, v).alive = worker.alive
         /\ d \in DOMAIN GivenBoth(d, v).docs /\ GivenBoth(d, v).docs[d] = v
         /\ GivenBoth(d, v).originals[d] = v
<1> DEFINE a == worker.alive
           h == worker.hung
           D == worker.docs
           O == worker.originals
           ds == With(D, d, v)
           os == With(O, d, v)
<1>1. worker = [alive |-> a, hung |-> h, docs |-> D, originals |-> O]
  BY DEF WorkerIs
<1>2. d \in DOMAIN ds /\ ds[d] = v /\ os[d] = v
  BY WithFacts
<1> HIDE DEF a, h, D, O
<1>3. [worker EXCEPT !.docs = With(@, d, v)]
        = [alive |-> a, hung |-> h, docs |-> ds, originals |-> O]
  BY <1>1
<1>4. [worker EXCEPT !.originals = With(@, d, v)]
        = [alive |-> a, hung |-> h, docs |-> D, originals |-> os]
  BY <1>1
<1>5. [worker EXCEPT !.docs = With(@, d, v), !.originals = With(@, d, v)]
        = [alive |-> a, hung |-> h, docs |-> ds, originals |-> os]
  <2> DEFINE w == [worker EXCEPT !.docs = With(@, d, v)]
  <2>1. [worker EXCEPT !.docs = With(@, d, v), !.originals = With(@, d, v)]
          = [w EXCEPT !.originals = With(@, d, v)]
    OBVIOUS
  <2>2. w = [alive |-> a, hung |-> h, docs |-> ds, originals |-> O]
    BY <1>3
  <2> HIDE DEF w
  <2>3. [w EXCEPT !.originals = With(@, d, v)]
          = [alive |-> a, hung |-> h, docs |-> ds, originals |-> os]
    BY <2>2
  <2>. QED  BY <2>1, <2>3
<1> HIDE DEF ds, os
<1>. QED
  BY <1>1, <1>2, <1>3, <1>4, <1>5 DEF WorkerIs, GivenDoc, GivenOriginal, GivenBoth
-----------------------------------------------------------------------------
(* The knowledge of the tab, action by action.                              *)

\* What the plan is about stays.
LEMMA SamePlan ==
  ASSUME NEW k, UNCHANGED <<tab, todo>>, Plan(k),
         host'.doc = host.doc, host'.connected = host.connected
  PROVE  Plan(k)' /\ Part(k)' = Part(k) /\ Target' = Target
BY DEF Plan, Opens, Remaking, Owns, Rebasing, Remakes, OwnFrom, Part, Target

\* What is known of the worker does, with what that rests on.
LEMMA SameBefore ==
  ASSUME NEW k, UNCHANGED <<tab, todo, worker>>, host'.doc = host.doc
  PROVE  /\ Before(k)' = Before(k) /\ After(k)' = After(k)
         /\ Part(k)' = Part(k)
BY DEF Before, After, Made, Has, Knows, Part, Target

\* One in front of some in front of others.
LEMMA Queued ==
  ASSUME NEW S, NEW a \in S, NEW s \in Seq(S), NEW t \in Seq(S),
         NEW q, q = (<<a>> \o s) \o t
  PROVE  /\ q \in Seq(S) /\ Len(q) = 1 + Len(s) + Len(t)
         /\ DOMAIN q = 1..(1 + Len(s) + Len(t))
         /\ q[1] = a
         /\ \A i \in 1..Len(s) : q[1 + i] = s[i]
         /\ \A i \in 1..Len(t) : q[1 + Len(s) + i] = t[i]
<1> DEFINE p == <<a>> \o s
<1>1. /\ p \in Seq(S) /\ Len(p) = 1 + Len(s) /\ p[1] = a
      /\ \A i \in 1..Len(s) : p[1 + i] = s[i]
      /\ Len(s) \in Nat /\ Len(t) \in Nat
  OBVIOUS
<1>2. q = p \o t
  OBVIOUS
<1> HIDE DEF p
<1>3. /\ q \in Seq(S) /\ Len(q) = Len(p) + Len(t)
      /\ \A i \in 1..(Len(p) + Len(t)) :
           q[i] = IF i <= Len(p) THEN p[i] ELSE t[i - Len(p)]
  BY <1>1, <1>2, ConcatProperties
<1>4. DOMAIN q = 1..Len(q)
  BY <1>3, LenProperties
<1>5. \A i \in 1..(1 + Len(s)) : q[i] = p[i]
  BY <1>1, <1>3
<1>6. \A i \in 1..Len(t) : q[1 + Len(s) + i] = t[i]
  BY <1>1, <1>3
<1>. QED  BY <1>1, <1>3, <1>4, <1>5, <1>6

\* What is sent to a worker that has nothing, before the operation's own.
LEMMA ReopeningIs ==
  ASSUME Typed, tab.lost, NEW reqs \in Seq(Todo), todo' = Reopening \o reqs
  PROVE  /\ Len(todo') = 1 + Len(tab.edits) + Len(reqs)
         /\ DOMAIN todo' = 1..(1 + Len(tab.edits) + Len(reqs))
         /\ todo'[1] = Request("open", <<>>, TRUE)
         /\ \A i \in 1..Len(tab.edits) :
              todo'[1 + i] = Request("edit", tab.edits[i], TRUE)
         /\ \A i \in 1..Len(reqs) : todo'[1 + Len(tab.edits) + i] = reqs[i]
         /\ todo' \in Seq(Todo)
<1> DEFINE first == Request("open", <<>>, TRUE)
           Remade(edit) == Request("edit", edit, TRUE)
           e == tab.edits
           again == [i \in DOMAIN e |-> Remade(e[i])]
<1>1. first \in Todo
  <2>1. <<>> \in Seq(Nat) /\ "open" \in Kinds /\ "open" # "edit"
    BY DEF Kinds
  <2>. QED  BY <2>1, RequestsAreTyped
<1>2. \A edit \in Nat : Remade(edit) \in Todo
  BY RequestsAreTyped DEF Kinds
<1>3. todo' = (<<first>> \o again) \o reqs
  BY DEF Reopening
<1>4. e \in Seq(Nat)
  BY DEF Typed
<1> HIDE DEF first, Remade, e
<1>5. /\ again \in Seq(Todo) /\ Len(again) = Len(e)
      /\ \A i \in 1..Len(e) : again[i] = Remade(e[i])
  <2>1. /\ Len(e) \in Nat /\ DOMAIN e = 1..Len(e)
        /\ \A i \in 1..Len(e) : e[i] \in Nat
    BY <1>4
  <2>2. /\ DOMAIN again = 1..Len(e)
        /\ \A i \in 1..Len(e) : again[i] = Remade(e[i]) /\ again[i] \in Todo
    BY <1>2, <2>1
  <2>3. again \in Seq(Todo)
    BY <1>2, <2>1
  <2> HIDE DEF again
  <2>. QED  BY <2>1, <2>2, <2>3, LenProperties
<1> HIDE DEF again
<1>6. /\ todo' \in Seq(Todo) /\ Len(todo') = 1 + Len(again) + Len(reqs)
      /\ DOMAIN todo' = 1..(1 + Len(again) + Len(reqs))
      /\ todo'[1] = first
      /\ \A i \in 1..Len(again) : todo'[1 + i] = again[i]
      /\ \A i \in 1..Len(reqs) : todo'[1 + Len(again) + i] = reqs[i]
  <2> DEFINE q == (<<first>> \o again) \o reqs
  <2>1. q = (<<first>> \o again) \o reqs
    OBVIOUS
  <2> HIDE DEF q
  <2>2. /\ q \in Seq(Todo) /\ Len(q) = 1 + Len(again) + Len(reqs)
        /\ DOMAIN q = 1..(1 + Len(again) + Len(reqs))
        /\ q[1] = first
        /\ \A i \in 1..Len(again) : q[1 + i] = again[i]
        /\ \A i \in 1..Len(reqs) : q[1 + Len(again) + i] = reqs[i]
    <3>1. again \in Seq(Todo)
      BY <1>5
    <3>. QED  BY <1>1, <2>1, <3>1, Queued
  <2>. QED  BY <1>3, <2>1, <2>2
<1>7. \A i \in 1..Len(e) : todo'[1 + i] = Remade(e[i])
  BY <1>5, <1>6
<1>. QED  BY <1>5, <1>6, <1>7 DEF first, Remade, e

\* An operation's own requests.
OwnOnes(reqs) ==
  /\ reqs \in Seq(Todo) /\ reqs # <<>> /\ ~reqs[1].again
  /\ \/ Len(reqs) = 1 /\ reqs[1].kind \in {"edit", "revert", "query"}
     \/ /\ Len(reqs) = 2 /\ reqs[1].kind = "save"
        /\ reqs[2].kind = "rebase" /\ ~reqs[2].again

\* An operation begins where the last one ended.
LEMMA BeginsKnows ==
  ASSUME IInv, KInv, NEW reqs, OwnOnes(reqs), Begins(reqs)
  PROVE  KInv'
<1>1. /\ UNCHANGED <<tab, file, worker, said, pipe, answers>>
      /\ host'.at = "sending" /\ host.at = "idle" /\ host'.doc = tab.doc
      /\ host'.connected = host.connected /\ host'.request = host.request
      /\ todo' = Reopening \o reqs
  BY DEF IInv, Typed, Hosts, Begins
<1>2. Typed /\ tab.lost \in BOOLEAN /\ reqs \in Seq(Todo) /\ Len(reqs) \in Nat
  BY DEF IInv, Typed, OwnOnes
<1>3. Target' = Target /\ (\A k : Part(k)' = Part(k))
  BY <1>1 DEF Target, Part
<1>4. PICK m \in Nat, n \in Nat, l \in Nat :
        m = Len(tab.saved) /\ n = Len(tab.edits) /\ l = Len(Target)
  <2>1. Len(tab.saved) \in Nat /\ Len(tab.edits) \in Nat /\ Len(Target) \in Nat
    BY <1>2, PartFacts
  <2>. QED  BY <2>1
<1>5. /\ l = m + n /\ \A i \in 1..n : Target[m + i] = tab.edits[i]
      /\ Part(l) = Target
  BY <1>2, <1>4, PartFacts
<1>6. ASSUME NEW k \in 0..l, Plan(k)', Before(k)'
      PROVE  KInv'
  <2>1. host'.at # "waiting" /\ ~Asking'
    BY <1>1 DEF Asking
  <2>2. Pending(k)'
    BY <1>6, <2>1 DEF Pending
  <2>3. k \in 0..Len(Target')
    BY <1>3, <1>4
  <2>. QED  BY <1>1, <1>6, <2>1, <2>2, <2>3 DEF KInv, AsksNext
<1>7. CASE ~tab.lost
  <2>1. todo' = reqs
    BY <1>1, <1>2, <1>7 DEF Reopening
  <2>2. OwnFrom(0)'
    <3>1. DOMAIN reqs = 1..Len(reqs) /\ Len(reqs) \in {1, 2}
      BY <1>2 DEF OwnOnes
    <3>. QED  BY <2>1, <3>1 DEF OwnFrom, OwnOnes
  <2>3. Owns(l)'
    BY <1>1, <1>3, <1>4, <1>7, <2>2 DEF Owns
  <2>4. Before(l)'
    BY <1>1, <1>3, <1>5, <1>7 DEF KInv, Before, Has, Knows
  <2>. QED  BY <1>6, <2>3, <2>4 DEF Plan
<1>8. CASE tab.lost
  <2>1. /\ Len(todo') = 1 + n + Len(reqs)
        /\ DOMAIN todo' = 1..(1 + n + Len(reqs))
        /\ todo'[1] = Request("open", <<>>, TRUE)
        /\ \A i \in 1..n : todo'[1 + i] = Request("edit", tab.edits[i], TRUE)
        /\ \A i \in 1..Len(reqs) : todo'[1 + n + i] = reqs[i]
        /\ todo' \in Seq(Todo)
    BY <1>1, <1>2, <1>4, <1>8, ReopeningIs
  <2>2. Remakes(m, 1)'
    <3>1. ASSUME NEW i \in 1..(l - m)
          PROVE  1 + i \in DOMAIN todo' /\ todo'[1 + i] = Request("edit", Target[m + i], TRUE)
      <4>1. i \in 1..n /\ Target[m + i] = tab.edits[i]
        BY <1>5
      <4>2. 1 + i \in DOMAIN todo'
        BY <1>2, <2>1, <4>1
      <4>. QED  BY <2>1, <4>1, <4>2
    <3>. QED  BY <1>3, <1>4, <3>1 DEF Remakes
  <2>3. OwnFrom(1 + n)'
    <3>1. /\ DOMAIN reqs = 1..Len(reqs) /\ Len(reqs) \in {1, 2}
          /\ todo'[1 + n + 1] = reqs[1]
          /\ Len(reqs) = 2 => todo'[1 + n + 2] = reqs[2]
      BY <1>2, <2>1 DEF OwnOnes
    <3>2. 1 + n + 1 \in DOMAIN todo' /\ Len(todo') = 1 + n + Len(reqs)
      BY <1>2, <2>1, <3>1
    <3>. QED  BY <3>1, <3>2 DEF OwnFrom, OwnOnes
  <2>4. Opens(m)'
    <3>1. 1 + Len(Target') - m = 1 + n /\ 1 \in DOMAIN todo'
      BY <1>2, <1>3, <1>4, <1>5, <2>1
    <3>2. OwnFrom(1 + Len(Target) - m)'
      BY <2>3, <3>1
    <3>. QED  BY <1>1, <1>4, <1>8, <2>1, <2>2, <3>1, <3>2 DEF Opens
  <2>5. Head(todo').kind = "open"
    <3>1. Request("open", <<>>, TRUE).kind = "open"
      BY DEF Request
    <3>2. Head(todo') = todo'[1]
      OBVIOUS
    <3>. QED  BY <2>1, <3>1, <3>2
  <2>6. Before(m)'
    BY <2>5 DEF Before
  <2>7. m \in 0..l
    BY <1>5
  <2>. QED  BY <1>6, <2>4, <2>6, <2>7 DEF Plan
<1>. QED  BY <1>2, <1>7, <1>8

\* The user's operations ask for their own requests.
LEMMA UserKnows == ASSUME IInv, KInv, User PROVE KInv'
<1>0. tab.edits \in Seq(Nat) /\ ops + 1 \in Nat
  BY DEF IInv, Typed
<1>1. ASSUME NEW kind \in {"edit", "revert", "query"}, NEW arg,
             IF kind = "edit" THEN arg \in Nat ELSE arg \in Seq(Nat)
      PROVE  OwnOnes(One(kind, arg))
  <2> DEFINE request == Request(kind, arg, FALSE)
  <2>1. request \in Todo
    BY <1>1, RequestsAreTyped DEF Kinds, Queries
  <2>2. request.kind = kind /\ request.again = FALSE
    BY DEF Request
  <2>3. One(kind, arg) = <<request>>
    BY DEF One
  <2> HIDE DEF request
  <2>. QED  BY <2>1, <2>2, <2>3 DEF OwnOnes
<1>2. CASE Edit
  BY <1>0, <1>1, <1>2, BeginsKnows DEF Edit
<1>3. CASE Undo
  <2>1. SubSeq(tab.edits, 1, Len(tab.edits) - 1) \in Seq(Nat)
    BY <1>0
  <2>. QED  BY <1>1, <1>3, <2>1, BeginsKnows DEF Undo
<1>4. CASE Query
  <2>1. <<>> \in Seq(Nat)
    OBVIOUS
  <2>. QED  BY <1>1, <1>4, <2>1, BeginsKnows DEF Query
<1>5. CASE Save
  <2> DEFINE save   == Request("save", <<>>, FALSE)
             rebase == Request("rebase", <<>>, FALSE)
  <2>1. /\ save \in Todo /\ save.kind = "save" /\ ~save.again
        /\ rebase \in Todo /\ rebase.kind = "rebase" /\ ~rebase.again
    <3>1. <<>> \in Seq(Nat)
      OBVIOUS
    <3>2. save \in Todo /\ rebase \in Todo
      BY <3>1, RequestsAreTyped DEF Kinds
    <3>. QED  BY <3>2 DEF Request
  <2>2. One("save", <<>>) \o One("rebase", <<>>) = <<save>> \o <<rebase>>
    BY DEF One
  <2> HIDE DEF save, rebase
  <2> DEFINE both == <<save>> \o <<rebase>>
  <2>3. /\ both \in Seq(Todo) /\ both # <<>> /\ Len(both) = 2
        /\ both[1] = save /\ both[2] = rebase
    BY <2>1
  <2> HIDE DEF both
  <2>4. OwnOnes(both)
    BY <2>1, <2>3 DEF OwnOnes
  <2>. QED  BY <1>5, <2>2, <2>4, BeginsKnows DEF Save, both
<1>. QED  BY <1>2, <1>3, <1>4, <1>5 DEF User

\* What is next at every point of an operation.
LEMMA NextIs ==
  ASSUME NEW k
  PROVE  /\ Opens(k) => Head(todo) = Request("open", <<>>, TRUE)
         /\ Remaking(k) /\ k \in Nat /\ Len(Target) \in Nat =>
              Head(todo) = Request("edit", Target[k + 1], TRUE)
         /\ Owns(k) => /\ Head(todo).kind \in {"edit", "revert", "query", "save"}
                       /\ ~Head(todo).again
         /\ Rebasing(k) => Head(todo).kind = "rebase" /\ ~Head(todo).again
<1>1. Head(todo) = todo[1]
  OBVIOUS
<1>2. Remaking(k) /\ k \in Nat /\ Len(Target) \in Nat =>
        todo[1] = Request("edit", Target[k + 1], TRUE)
  <2> SUFFICES ASSUME Remaking(k), k \in Nat, Len(Target) \in Nat
               PROVE  todo[1] = Request("edit", Target[k + 1], TRUE)
    OBVIOUS
  <2>1. 1 \in 1..(Len(Target) - k)
    BY DEF Remaking
  <2>2. todo[0 + 1] = Request("edit", Target[k + 1], TRUE)
    BY <2>1 DEF Remaking, Remakes
  <2>3. 0 + 1 = 1
    OBVIOUS
  <2>. QED  BY <2>2, <2>3
<1>3. Owns(k) => todo[1].kind \in {"edit", "revert", "query", "save"} /\ ~todo[1].again
  <2> SUFFICES ASSUME Owns(k)
               PROVE  todo[1].kind \in {"edit", "revert", "query", "save"} /\ ~todo[1].again
    OBVIOUS
  <2>1. 0 + 1 = 1
    OBVIOUS
  <2>. QED  BY <2>1 DEF Owns, OwnFrom
<1>. QED  BY <1>1, <1>2, <1>3 DEF Opens, Rebasing

\* How many edits there are.
LEMMA Counts ==
  ASSUME Typed
  PROVE  Len(Target) \in Nat /\ Len(tab.saved) \in Nat
  BY PartFacts

\* A new worker has nothing, and is asked to open the file first.
LEMMA StartsKnows == ASSUME IInv, KInv, Starts PROVE KInv'
<1>1. /\ host.at = "sending" /\ ~host.connected /\ tab.lost /\ host \in Hosts
      /\ UNCHANGED <<tab, file, temp>>
  BY DEF Starts, Over, KInv, IInv, Typed
<1>2. CASE host'.at = "idle" /\ UNCHANGED worker
  BY <1>1, <1>2 DEF KInv, AsksNext, Asking
<1>3. CASE /\ host' = [host EXCEPT !.connected = TRUE] /\ UNCHANGED todo
           /\ worker' = [NoWorker EXCEPT !.alive = TRUE]
           /\ pipe' = <<>>
  <2>1. host'.at = "sending" /\ host'.connected
    BY <1>1, <1>3 DEF Hosts
  <2>2. PICK k \in 0..Len(Target) : Plan(k)
    BY <1>1 DEF KInv
  <2>3. Opens(k)
    BY <1>1, <2>2 DEF Plan, Remaking, Owns, Rebasing
  <2>4. Opens(k)' /\ Target' = Target
    BY <1>1, <1>3, <2>3 DEF Opens, Remakes, OwnFrom, Target
  <2>5. Head(todo').kind = "open"
    BY <1>3, <2>3, NextIs DEF Request
  <2>6. Plan(k)' /\ Pending(k)'
    BY <2>1, <2>4, <2>5 DEF Plan, Pending, Before
  <2>7. WorkerIs(worker')
    BY <1>3 DEF WorkerIs, NoWorker
  <2>8. k \in 0..Len(Target')
    BY <2>2, <2>4
  <2>. QED  BY <1>1, <2>1, <2>6, <2>7, <2>8 DEF KInv, AsksNext, Asking
<1>4. host' = [host EXCEPT !.at = "idle"] => host'.at = "idle"
  BY <1>1 DEF Hosts
<1>. QED  BY <1>2, <1>3, <1>4 DEF Starts, Over

\* The request sent is the next one, of the document the operation is about.
LEMMA SendsKnows == ASSUME IInv, KInv, IInv', Sends PROVE KInv'
<1> DEFINE r == RequestFor(host.doc, Head(todo))
<1>1. /\ host \in Hosts /\ host.at = "sending" /\ host.connected
      /\ UNCHANGED <<tab, file, temp, todo, worker>>
  BY DEF Sends, IInv, Typed
<1>2. /\ r.kind = Head(todo).kind /\ r.arg = Head(todo).arg
      /\ r.kind # "open" => r.doc = host.doc
  BY DEF RequestFor
<1> HIDE DEF r
<1>3. /\ host'.request = r /\ host'.doc = r.doc /\ host'.connected
      /\ host'.at \in {"writing", "waiting"}
      /\ host'.at = "waiting" => pipe' = Append(pipe, r)
  BY <1>1 DEF Sends, Hosts, r
<1>4. PICK k \in 0..Len(Target) : Plan(k) /\ Pending(k)
  BY <1>1 DEF KInv
<1>5. Typed /\ Len(Target) \in Nat
  BY Counts DEF IInv
<1>6. Plan(k)' /\ Target' = Target
  <2>1. CASE Opens(k)
    BY <1>1, <2>1 DEF Plan, Opens, Remakes, OwnFrom, Target
  <2>2. CASE Remaking(k)
    BY <1>1, <1>3, <2>2 DEF Plan, Remaking, Remakes, OwnFrom, Target
  <2>3. CASE Owns(k)
    BY <1>1, <1>2, <1>3, <2>3, NextIs DEF Plan, Owns, OwnFrom, Target
  <2>4. CASE Rebasing(k)
    BY <1>1, <1>2, <1>3, <2>4, NextIs DEF Plan, Rebasing, Target
  <2>. QED  BY <1>4, <2>1, <2>2, <2>3, <2>4 DEF Plan
<1>7. Before(k)'
  BY <1>1, <1>2, <1>3, <1>4 DEF Pending, Before, Knows, Part, Target
<1>8. host'.at = "waiting" => pipe' # <<>>
  <2>2. pipe = <<>>
    BY <1>1 DEF IInv, Piped
  <2>3. Append(<<>>, r) # <<>>
    OBVIOUS
  <2>. QED  BY <1>3, <2>2, <2>3
<1>9. Pending(k)'
  <2>1. host'.at = "waiting" =>
          /\ \A i \in DOMAIN answers' : ~IsCurrent(answers[i])'
          /\ said' # NoRequest => ~IsCurrent(said)'
    BY <1>8 DEF IInv, Unread
  <2>. QED  BY <1>7, <2>1 DEF Pending, Answered
<1>10. k \in 0..Len(Target')
  BY <1>4, <1>6
<1>. QED  BY <1>1, <1>2, <1>3, <1>6, <1>9, <1>10 DEF KInv, AsksNext

\* Written whole, it is there to be read.
LEMMA WritesKnows == ASSUME IInv, KInv, IInv', Writes PROVE KInv'
<1>1. /\ host \in Hosts /\ host.at = "writing"
      /\ UNCHANGED <<tab, file, temp, todo, worker, answers, said>>
  BY DEF Writes, IInv, Typed
<1>2. /\ host'.request = host.request /\ host'.doc = host.doc
      /\ host'.connected = host.connected /\ host'.at = "waiting"
  BY <1>1 DEF Writes, Hosts
<1>3. PICK k \in 0..Len(Target) : Plan(k) /\ Pending(k)
  BY <1>1 DEF KInv
<1>4. Plan(k)' /\ Target' = Target
  BY <1>1, <1>2, <1>3, SamePlan
<1>5. pipe' # <<>>
  <2>1. pipe = <<>>
    BY <1>1 DEF IInv, Piped
  <2>2. Append(<<>>, host.request) # <<>>
    OBVIOUS
  <2>. QED  BY <2>1, <2>2 DEF Writes
<1>6. Pending(k)'
  <2>1. /\ \A i \in DOMAIN answers' : ~IsCurrent(answers[i])'
        /\ said' # NoRequest => ~IsCurrent(said)'
    BY <1>5 DEF IInv, Unread
  <2>2. Before(k)'
    BY <1>1, <1>2, <1>3, SameBefore DEF Pending
  <2>. QED  BY <2>1, <2>2 DEF Pending, Answered
<1>7. k \in 0..Len(Target')
  BY <1>3, <1>4
<1>. QED  BY <1>1, <1>2, <1>4, <1>6, <1>7 DEF KInv, AsksNext, Asking

\* The connection dropped, the document is taken for lost.
LEMMA DropsKnows == ASSUME IInv, KInv, Drops PROVE KInv'
<1>1. tab' = [tab EXCEPT !.lost = TRUE] /\ host' = [host EXCEPT !.at = "idle", !.connected = FALSE]
      /\ worker' = NoWorker /\ file' = file
  BY DEF Drops, Over
<1>2. tab'.lost /\ tab'.saved = tab.saved /\ host'.at = "idle"
  BY <1>1 DEF IInv, Typed, Hosts
<1>3. WorkerIs(worker')
  BY <1>1 DEF WorkerIs, NoWorker
<1>. QED  BY <1>1, <1>2, <1>3 DEF KInv, AsksNext, Asking

\* What a worker did to its documents is gone with it, but not what it wrote.
LEMMA DiesKnows == ASSUME IInv, KInv, Dies PROVE KInv'
<1>1. /\ UNCHANGED <<tab, file, temp, todo, host, answers>>
      /\ worker' = NoWorker /\ said' = NoRequest /\ pipe' = <<>>
  BY DEF Dies, Faulty
<1>2. WorkerIs(worker') /\ ~worker'.alive
  BY <1>1 DEF WorkerIs, NoWorker
<1>3. ASSUME NEW k \in 0..Len(Target), Plan(k), Pending(k)
      PROVE  Plan(k)' /\ Pending(k)' /\ k \in 0..Len(Target')
  <2>1. Plan(k)' /\ Target' = Target /\ Part(k)' = Part(k)
    BY <1>1, <1>3, SamePlan
  <2>2. Before(k)' /\ After(k)'
    BY <1>2 DEF Before, After, Has
  <2>3. \A f : LeftBy(f, k) => LeftBy(f, k)'
    BY <1>1, <2>1, <2>2 DEF LeftBy
  <2>4. Pending(k)'
    BY <1>1, <1>3, <2>2, <2>3 DEF Pending, Answered, IsCurrent
  <2>. QED  BY <2>1, <2>4
<1>4. (host.at = "idle" /\ ~tab.lost => Has(tab.doc, Target, tab.saved))'
  BY <1>2 DEF Has
<1>. QED  BY <1>1, <1>2, <1>3, <1>4 DEF KInv, AsksNext, Asking

\* A worker that hangs has what it had.
LEMMA HangsKnows == ASSUME IInv, KInv, Hangs PROVE KInv'
<1>1. /\ UNCHANGED <<tab, file, temp, todo, host, answers, said, pipe>>
      /\ worker' = [worker EXCEPT !.hung = TRUE]
  BY DEF Hangs, Faulty
<1>2. /\ WorkerIs(worker') /\ worker'.alive = worker.alive
      /\ worker'.docs = worker.docs /\ worker'.originals = worker.originals
  <2> DEFINE a == worker.alive
             h == worker.hung
             D == worker.docs
             O == worker.originals
  <2>1. worker = [alive |-> a, hung |-> h, docs |-> D, originals |-> O]
    BY DEF KInv, WorkerIs
  <2> HIDE DEF a, h, D, O
  <2>2. worker' = [alive |-> a, hung |-> TRUE, docs |-> D, originals |-> O]
    BY <1>1, <2>1
  <2>. QED  BY <2>1, <2>2 DEF WorkerIs
<1>3. Target' = Target /\ \A k : Part(k)' = Part(k)
  BY <1>1 DEF Target, Part
<1>4. ASSUME NEW k \in 0..Len(Target), Plan(k), Pending(k)
      PROVE  Plan(k)' /\ Pending(k)' /\ k \in 0..Len(Target')
  <2>1. Plan(k)'
    BY <1>1, <1>4, SamePlan
  <2>2. /\ Before(k) => Before(k)'
        /\ After(k) => After(k)'
    BY <1>1, <1>2, <1>3 DEF Before, After, Made, Has, Knows
  <2>3. \A f : LeftBy(f, k) => LeftBy(f, k)'
    BY <1>1, <1>3, <2>2 DEF LeftBy
  <2>4. Pending(k)'
    BY <1>1, <1>4, <2>2, <2>3 DEF Pending, Answered, IsCurrent
  <2>. QED  BY <1>3, <2>1, <2>4
<1>5. (host.at = "idle" /\ ~tab.lost => Has(tab.doc, Target, tab.saved))'
  BY <1>1, <1>2, <1>3 DEF KInv, Has, Knows
<1>. QED  BY <1>1, <1>2, <1>4, <1>5 DEF KInv, AsksNext, Asking

\* A frame more that says nothing new of the request.
LEMMA FrameMoreKnows ==
  ASSUME IInv, KInv, UNCHANGED <<tab, file, temp, todo, host, worker, said>>,
         NEW a \in Frames, answers' = Append(answers, a), pipe' \in {pipe, <<>>},
         a = said \/ a.kind = "nonsense"
  PROVE  KInv'
<1>1. answers \in Seq(Frames) /\ a # NoRequest
  <2>1. answers \in Seq(Frames)
    BY DEF IInv, Typed
  <2>2. a.kind # "none"
    BY DEF Frames, Sayings
  <2>. QED  BY <2>1, <2>2 DEF NoRequest
<1>2. /\ DOMAIN answers = 1..Len(answers) /\ DOMAIN answers' = 1..Len(answers) + 1
      /\ \A i \in 1..Len(answers) : answers'[i] = answers[i]
      /\ answers'[Len(answers) + 1] = a /\ Len(answers) \in Nat
  BY <1>1, Appended
<1>3. Target' = Target
  BY DEF Target
<1>4. ASSUME NEW k \in 0..Len(Target), Plan(k), Pending(k)
      PROVE  Plan(k)' /\ Pending(k)' /\ k \in 0..Len(Target')
  <2>1. Plan(k)'
    BY <1>4, SamePlan
  <2>2. Before(k)' = Before(k) /\ After(k)' = After(k) /\ Part(k)' = Part(k)
    BY SameBefore
  <2>3. \A f : LeftBy(f, k) => LeftBy(f, k)'
    BY <2>2 DEF LeftBy
  <2>4. host.at = "waiting" /\ Answered(a) => LeftBy(a, k)
    BY <1>1, <1>4 DEF Pending, Answered
  <2>5. ASSUME host.at = "waiting", NEW i \in DOMAIN answers', Answered(answers'[i])
        PROVE  LeftBy(answers'[i], k)
    <3>1. CASE i = Len(answers) + 1
      BY <1>2, <2>4, <2>5, <3>1
    <3>2. CASE i \in 1..Len(answers)
      BY <1>2, <1>4, <2>5, <3>2 DEF Pending
    <3>. QED  BY <1>2, <2>5, <3>1, <3>2
  <2>6. Pending(k)'
    BY <1>4, <2>2, <2>3, <2>5 DEF Pending, Answered, IsCurrent
  <2>. QED  BY <1>3, <2>1, <2>6
<1>5. (host.at = "idle" /\ ~tab.lost => Has(tab.doc, Target, tab.saved))'
  BY <1>3 DEF KInv, Has, Knows
<1>. QED  BY <1>4, <1>5 DEF KInv, AsksNext, Asking

\* What is said again was said.
LEMMA RepeatsKnows == ASSUME IInv, KInv, Repeats PROVE KInv'
<1>1. /\ UNCHANGED <<tab, file, temp, todo, host, worker, said>>
      /\ pipe' = pipe /\ answers' = Append(answers, said) /\ said \in Frames
  BY DEF Repeats, Faulty, IInv, Typed
<1>. QED  BY <1>1, FrameMoreKnows

\* A wrong answer says nothing of the request.
LEMMA MisspeaksKnows == ASSUME IInv, KInv, Misspeaks PROVE KInv'
<1> DEFINE a == [AnswerTo(host.request, "ok") EXCEPT !.kind = "nonsense"]
<1>1. pipe # <<>>
  BY DEF Misspeaks, Reads
<1>2. host.request \in Sent /\ Head(pipe) = host.request /\ Tail(pipe) = <<>>
  BY <1>1, ReadsOne
<1>3. a \in Frames /\ a.kind = "nonsense"
  BY <1>2, AnswerIsFrame
<1>4. answers' = Append(answers, a) /\ pipe' = <<>>
  BY <1>2 DEF Misspeaks
<1>5. UNCHANGED <<tab, file, temp, todo, host, worker, said>>
  BY DEF Misspeaks, Faulty
<1> HIDE DEF a
<1>. QED  BY <1>3, <1>4, <1>5, FrameMoreKnows

\* What is answered when a request was carried out, and when it was refused.
LEMMA AnswerIs ==
  ASSUME NEW r, r.kind \in Kinds, NEW answer \in {"ok", "refused", "partway"}
  PROVE  LET a == AnswerTo(r, answer)
         IN  /\ a.kind = "refused" => answer = "refused"
             /\ a.kind \notin {"refused", "partway"} => answer = "ok"
             /\ a.kind = "saved" => r.kind = "save"
<1>1. AnswerTo(r, answer).kind = IF answer = "ok" THEN Expected[r.kind] ELSE answer
  BY DEF AnswerTo
<1>2. r.kind \in {"open", "edit", "revert", "save", "rebase", "query"}
  BY DEF Kinds, Queries
<1>3. /\ Expected[r.kind] \notin {"refused", "partway"}
      /\ Expected[r.kind] = "saved" => r.kind = "save"
  BY <1>2 DEF Expected
<1>. QED  BY <1>1, <1>3

\* What carrying out a request makes of the worker.
LEMMA CarriesOut ==
  ASSUME NEW r, r.kind \in Kinds, WorkerIs(worker), NEW o \in Outcomes(r)
  PROVE  /\ WorkerIs(o.worker) /\ o.worker.alive = worker.alive
         /\ o.answer = "refused" => o.worker = worker
         /\ o.answer = "ok" =>
              /\ r.kind # "open" => Knows(r.doc)
              /\ r.doc \in DOMAIN o.worker.docs
              /\ r.kind = "open" => o.worker.docs[r.doc] = file
              /\ r.kind = "edit" =>
                   o.worker.docs[r.doc] = Append(worker.docs[r.doc], r.arg)
              /\ r.kind = "revert" =>
                   o.worker.docs[r.doc] = worker.originals[r.doc] \o r.arg
              /\ r.kind \notin {"open", "edit", "revert"} =>
                   o.worker.docs[r.doc] = worker.docs[r.doc]
              /\ o.worker.originals[r.doc] =
                   IF r.kind \in {"open", "rebase"} THEN file ELSE worker.originals[r.doc]
              /\ r.kind = "save" => o.temp = worker.docs[r.doc]
<1> DEFINE Says(x, t) == [answer |-> x, worker |-> worker, temp |-> t]
           Does(x, w) == [answer |-> x, worker |-> w, temp |-> temp]
           Given(v)   == GivenDoc(r.doc, v)
           Opened     == GivenBoth(r.doc, file)
           Rebased    == GivenOriginal(r.doc, file)
           cur        == worker.docs[r.doc]
<1>1. /\ \A x, t : /\ Says(x, t).answer = x /\ Says(x, t).worker = worker
                   /\ Says(x, t).temp = t
      /\ \A x, w : /\ Does(x, w).answer = x /\ Does(x, w).worker = w
                   /\ Does(x, w).temp = temp
  OBVIOUS
<1>2. /\ \A v : /\ WorkerIs(Given(v)) /\ Given(v).alive = worker.alive
                /\ r.doc \in DOMAIN Given(v).docs /\ Given(v).docs[r.doc] = v
                /\ Given(v).originals = worker.originals
      /\ WorkerIs(Opened) /\ Opened.alive = worker.alive
      /\ r.doc \in DOMAIN Opened.docs /\ Opened.docs[r.doc] = file
      /\ Opened.originals[r.doc] = file
      /\ WorkerIs(Rebased) /\ Rebased.alive = worker.alive /\ Rebased.docs = worker.docs
      /\ Rebased.originals[r.doc] = file
  BY WorkerWith
<1>3. r.kind \in {"open", "edit", "revert", "save", "rebase", "query"}
  BY DEF Kinds, Queries
<1>4. \/ o = Says("refused", temp)
      \/ /\ r.kind # "open" => Knows(r.doc)
         /\ \/ r.kind = "open" /\ o = Does("ok", Opened)
            \/ r.kind = "edit" /\ o = Does("ok", Given(Append(cur, r.arg)))
            \/ r.kind = "edit" /\ o = Does("partway", Given(Append(cur, Half)))
            \/ r.kind = "revert" /\ o = Does("ok", Given(worker.originals[r.doc] \o r.arg))
            \/ r.kind = "revert" /\ o = Says("partway", temp)
            \/ r.kind = "save" /\ o = Says("ok", cur)
            \/ r.kind = "rebase" /\ o = Does("ok", Rebased)
            \/ r.kind = "query" /\ o = Says("ok", temp)
  BY <1>3 DEF Outcomes, Queries, GivenDoc, GivenOriginal, GivenBoth
<1> HIDE DEF Says, Does, Given, Opened, Rebased
<1>5. CASE o = Says("refused", temp)
  <2>1. o.answer = "refused" /\ o.worker = worker
    BY Zenon, <1>1, <1>5
  <2>. QED  BY Zenon, <2>1
<1>6. CASE r.kind = "open" /\ o = Does("ok", Opened)
  BY <1>1, <1>2, <1>6
<1>7. CASE Knows(r.doc) /\ r.kind = "edit" /\ o = Does("ok", Given(Append(cur, r.arg)))
  <2>1. PICK v : v = Append(cur, r.arg)
    OBVIOUS
  <2>2. /\ Knows(r.doc) /\ r.kind = "edit"
        /\ o.answer = "ok" /\ o.worker = Given(v)
    BY <1>1, <1>7, <2>1
  <2>. QED  BY Zenon, <1>2, <2>1, <2>2
<1>8. CASE r.kind = "edit" /\ o = Does("partway", Given(Append(cur, Half)))
  BY <1>1, <1>2, <1>8
<1>9. CASE /\ Knows(r.doc) /\ r.kind = "revert"
           /\ o = Does("ok", Given(worker.originals[r.doc] \o r.arg))
  <2>1. PICK v : v = worker.originals[r.doc] \o r.arg
    OBVIOUS
  <2>2. /\ Knows(r.doc) /\ r.kind = "revert"
        /\ o.answer = "ok" /\ o.worker = Given(v)
    BY <1>1, <1>9, <2>1
  <2>. QED  BY Zenon, <1>2, <2>1, <2>2
<1>10. CASE r.kind = "revert" /\ o = Says("partway", temp)
  BY <1>1, <1>10
<1>11. CASE Knows(r.doc) /\ r.kind = "save" /\ o = Says("ok", cur)
  BY <1>1, <1>11 DEF Knows
<1>12. CASE Knows(r.doc) /\ r.kind = "rebase" /\ o = Does("ok", Rebased)
  BY <1>1, <1>2, <1>12 DEF Knows
<1>13. CASE Knows(r.doc) /\ r.kind = "query" /\ o = Says("ok", temp)
  BY <1>1, <1>13 DEF Knows
<1>. QED
  BY <1>4, <1>5, <1>6, <1>7, <1>8, <1>9, <1>10, <1>11, <1>12, <1>13

\* Carried out, the next request has made what it was to make.
LEMMA ServesKnows == ASSUME IInv, KInv, Serves PROVE KInv'
<1> DEFINE r == host.request
<1>1. pipe # <<>>
  BY DEF Serves, Reads
<1>2. /\ host.at = "waiting" /\ r \in Sent /\ Head(pipe) = r
      /\ Tail(pipe) = <<>> /\ answers \in Seq(Frames)
      /\ \A i \in DOMAIN answers : ~IsCurrent(answers[i])
  BY <1>1, ReadsOne
<1>3. /\ UNCHANGED <<tab, file, todo, host>> /\ pipe' = <<>> /\ worker.alive
  BY <1>2 DEF Serves, Reads
<1>4. PICK o \in Outcomes(r) :
        /\ worker' = o.worker /\ said' = AnswerTo(r, o.answer)
        /\ answers' = Append(answers, AnswerTo(r, o.answer)) /\ temp' = o.temp
  BY <1>2 DEF Serves
<1>5. r.kind \in Kinds /\ o.answer \in {"ok", "refused", "partway"}
  BY <1>2, OutcomeSays, SentIsTyped
<1>7. PICK a : a = AnswerTo(r, o.answer)
  OBVIOUS
<1>6. /\ a \in Frames
      /\ a.kind = "refused" => o.answer = "refused"
      /\ a.kind \notin {"refused", "partway"} => o.answer = "ok"
      /\ a.kind = "saved" => r.kind = "save"
  <2>1. AnswerTo(r, o.answer) \in Frames
    BY <1>2, <1>5, AnswerIsFrame
  <2>. QED  BY <1>5, <1>7, <2>1, AnswerIs
<1>19. said' = a /\ answers' = Append(answers, a)
  BY <1>4, <1>7
<1>8. /\ DOMAIN answers = 1..Len(answers) /\ DOMAIN answers' = 1..Len(answers) + 1
      /\ \A i \in 1..Len(answers) : answers'[i] = answers[i]
      /\ answers'[Len(answers) + 1] = a /\ Len(answers) \in Nat
  BY <1>2, <1>6, <1>19, Appended
<1>9. PICK k \in 0..Len(Target) : Plan(k) /\ Pending(k)
  BY <1>2 DEF KInv
<1>10. Before(k)
  BY <1>1, <1>9 DEF Pending
<1>11. Plan(k)' /\ Target' = Target /\ Part(k)' = Part(k)
  BY <1>3, <1>9, SamePlan
<1>12. r.kind = Head(todo).kind /\ r.arg = Head(todo).arg /\ r.doc = host.doc
  BY <1>2 DEF KInv, AsksNext, Asking
<1>13. WorkerIs(worker')
  BY <1>4, <1>5, CarriesOut DEF KInv
<1>14. o.answer = "refused" => Before(k)'
  <2> SUFFICES ASSUME o.answer = "refused" PROVE Before(k)'
    OBVIOUS
  <2>1. worker' = worker
    BY <1>4, <1>5, CarriesOut DEF KInv
  <2>. QED  BY <1>3, <1>10, <2>1, SameBefore
<1>15. o.answer = "ok" => After(k)' /\ (r.kind = "save" => temp' = Part(k)')
  <2> SUFFICES ASSUME o.answer = "ok"
               PROVE  After(k)' /\ (r.kind = "save" => temp' = Part(k)')
    OBVIOUS
  <2>1. /\ r.doc \in DOMAIN worker'.docs
        /\ r.kind = "open" => worker'.docs[r.doc] = file
        /\ r.kind = "edit" => worker'.docs[r.doc] = Append(worker.docs[r.doc], r.arg)
        /\ r.kind = "revert" => worker'.docs[r.doc] = worker.originals[r.doc] \o r.arg
        /\ r.kind \notin {"open", "edit", "revert"} =>
             worker'.docs[r.doc] = worker.docs[r.doc]
        /\ worker'.originals[r.doc] =
             IF r.kind \in {"open", "rebase"} THEN file ELSE worker.originals[r.doc]
        /\ r.kind = "save" => temp' = worker.docs[r.doc]
    BY <1>4, <1>5, CarriesOut DEF KInv
  <2>2. file = tab.saved
    BY DEF KInv
  <2>3. /\ r.kind # "open" => worker.docs[r.doc] = Part(k)
        /\ r.kind \notin {"open", "rebase"} => worker.originals[r.doc] = tab.saved
    BY <1>3, <1>10, <1>12 DEF Before
  <2>4. r.kind = "open" => Part(k) = tab.saved
    <3>1. Head(todo).kind = "open" => Opens(k)
      <4>1. Len(Target) \in Nat
        BY Counts DEF IInv
      <4>. QED  BY <1>9, <4>1, NextIs DEF Plan, Request
    <3>2. Part(Len(tab.saved)) = tab.saved
      BY PartFacts DEF IInv
    <3>. QED  BY <1>12, <3>1, <3>2 DEF Opens
  <2>5. worker'.docs[r.doc] = Made(k)
    BY <1>5, <1>12, <2>1, <2>2, <2>3, <2>4 DEF Made, Kinds, Queries
  <2>6. worker'.originals[r.doc] = tab.saved
    BY <2>1, <2>2, <2>3
  <2>7. Made(k)' = Made(k)
    BY <1>3, <1>11 DEF Made
  <2>8. After(k)'
    BY <1>3, <1>12, <2>1, <2>5, <2>6, <2>7 DEF After, Has, Knows
  <2>. QED  BY <1>11, <2>1, <2>3, <2>8
<1>16. LeftBy(a, k)'
  BY <1>6, <1>14, <1>15 DEF LeftBy
<1>17. Pending(k)'
  <2>1. \A f : IsCurrent(f)' = IsCurrent(f)
    BY <1>3 DEF IsCurrent
  <2>2. ASSUME NEW i \in DOMAIN answers', (Answered(answers[i]))'
        PROVE  (LeftBy(answers[i], k))'
    <3>1. IsCurrent(answers'[i])
      BY <2>1, <2>2 DEF Answered
    <3>2. answers'[i] = a
      BY <1>2, <1>8, <2>2, <3>1
    <3>. QED  BY <1>16, <3>2 DEF LeftBy
  <2>3. LeftBy(said, k)'
    BY <1>19, <1>16 DEF LeftBy
  <2>. QED  BY <1>2, <1>3, <2>2, <2>3 DEF Pending
<1>18. k \in 0..Len(Target')
  BY <1>9, <1>11
<1>. QED  BY <1>2, <1>3, <1>11, <1>13, <1>17, <1>18 DEF KInv, AsksNext, Asking

\* The requests after the first, where the first one was.
LEMMA Onward ==
  ASSUME Typed, todo # <<>>, todo' = Tail(todo)
  PROVE  /\ Len(todo) \in Nat /\ Len(todo') = Len(todo) - 1
         /\ \A n \in Nat : n + 1 \in DOMAIN todo' <=> n + 2 \in DOMAIN todo
         /\ \A n \in Nat : n + 1 \in DOMAIN todo' => todo'[n + 1] = todo[n + 2]
         /\ Len(todo) = 1 => todo' = <<>>
         /\ Len(todo) # 1 => todo' # <<>> /\ Head(todo') = todo[2]
<1> DEFINE t == todo
           u == Tail(t)
<1>1. t \in Seq(Todo) /\ t # <<>>
  BY DEF Typed
<1> HIDE DEF t
<1>2. /\ Len(t) \in Nat /\ Len(u) = Len(t) - 1 /\ u \in Seq(Todo)
      /\ DOMAIN t = 1..Len(t) /\ DOMAIN u = 1..(Len(t) - 1)
      /\ \A n \in 1..(Len(t) - 1) : u[n] = t[n + 1]
  BY <1>1
<1>3. Len(t) = 1 => u = <<>>
  BY <1>2
<1> HIDE DEF u
<1>4. Len(t) # 1 => u # <<>> /\ Head(u) = t[2]
  <2>1. Len(t) # 0
    BY <1>1, <1>2
  <2>2. Len(t) # 1 => 1 \in 1..(Len(t) - 1) /\ u[1] = t[2]
    BY <1>2, <2>1
  <2>3. Len(t) # 1 => Len(u) # 0
    BY <1>2
  <2>4. Head(u) = u[1]
    OBVIOUS
  <2>. QED  BY <2>2, <2>3, <2>4
<1>5. \A n \in Nat : n + 1 \in DOMAIN u <=> n + 2 \in DOMAIN t
  BY <1>2
<1>6. \A n \in Nat : n + 1 \in DOMAIN u => u[n + 1] = t[n + 2]
  <2> SUFFICES ASSUME NEW n \in Nat, n + 1 \in DOMAIN u PROVE u[n + 1] = t[n + 2]
    OBVIOUS
  <2>1. n + 1 \in 1..(Len(t) - 1) /\ (n + 1) + 1 = n + 2
    BY <1>2
  <2>. QED  BY <1>2, <2>1
<1>7. todo' = u /\ todo = t
  BY DEF u, t
<1>. QED  BY <1>2, <1>3, <1>4, <1>5, <1>6, <1>7

\* ... the operation's own ones closer.
LEMMA OwnOnward ==
  ASSUME Typed, todo # <<>>, todo' = Tail(todo), NEW n \in Nat, OwnFrom(n + 1)
  PROVE  OwnFrom(n)' /\ Len(todo) # 1
<1>1. /\ Len(todo) \in Nat /\ Len(todo') = Len(todo) - 1
      /\ n + 1 \in DOMAIN todo' <=> n + 2 \in DOMAIN todo
      /\ n + 1 \in DOMAIN todo' => todo'[n + 1] = todo[n + 2]
      /\ (n + 1) + 1 \in DOMAIN todo' => todo'[(n + 1) + 1] = todo[(n + 1) + 2]
      /\ (n + 1) + 1 \in DOMAIN todo' <=> (n + 1) + 2 \in DOMAIN todo
  <2>1. n + 1 \in Nat
    OBVIOUS
  <2>. QED  BY <2>1, Onward
<1>2. (n + 1) + 1 = n + 2 /\ (n + 1) + 2 = n + 3
  OBVIOUS
<1>3. DOMAIN todo = 1..Len(todo)
  BY DEF Typed
<1>4. /\ n + 2 \in DOMAIN todo /\ ~todo[n + 2].again
      /\ \/ /\ Len(todo) = n + 2
            /\ todo[n + 2].kind \in {"edit", "revert", "query"}
         \/ /\ Len(todo) = n + 3
            /\ todo[n + 2].kind = "save" /\ todo[n + 3].kind = "rebase"
            /\ ~todo[n + 3].again
  BY <1>2 DEF OwnFrom
<1>5. Len(todo) = n + 3 => n + 2 \in DOMAIN todo' /\ todo'[n + 2] = todo[n + 3]
  BY <1>1, <1>2, <1>3
<1>6. n + 1 \in DOMAIN todo' /\ todo'[n + 1] = todo[n + 2]
  BY <1>1, <1>4
<1>7. (Len(todo) = n + 2 => Len(todo') = n + 1) /\ (Len(todo) = n + 3 => Len(todo') = n + 2)
  <2>1. PICK l, m : l \in Nat /\ l = Len(todo) /\ m = Len(todo') /\ m = l - 1
    BY Zenon, <1>1
  <2>2. (l = n + 2 => m = n + 1) /\ (l = n + 3 => m = n + 2)
    BY <2>1
  <2>. QED  BY Zenon, <2>1, <2>2
<1>8. Len(todo) # 1
  BY <1>4
<1>. QED  BY Zenon, <1>4, <1>5, <1>6, <1>7, <1>8 DEF OwnFrom

\* ... and what is to be made again.
LEMMA RemakesOnward ==
  ASSUME Typed, todo # <<>>, todo' = Tail(todo), Target' = Target, NEW k \in Nat
  PROVE  /\ Remakes(k, 1) => Remakes(k, 0)'
         /\ Remakes(k, 0) => Remakes(k + 1, 0)'
         /\ Remakes(k, 1) /\ k < Len(Target) => Len(todo) # 1 /\ todo[2].again
         /\ Remakes(k, 0) /\ k + 1 < Len(Target) => Len(todo) # 1 /\ todo[2].again
<1>1. PICK l \in Nat : l = Len(Target)
  BY Counts
<1>2. DOMAIN todo = 1..Len(todo)
  BY DEF Typed
<1>3. \A i \in 1..(l - k) : /\ 0 + i \in DOMAIN todo' <=> 1 + i \in DOMAIN todo
                            /\ 0 + i \in DOMAIN todo' => todo'[0 + i] = todo[1 + i]
  <2> SUFFICES ASSUME NEW i \in 1..(l - k)
               PROVE  /\ 0 + i \in DOMAIN todo' <=> 1 + i \in DOMAIN todo
                      /\ 0 + i \in DOMAIN todo' => todo'[0 + i] = todo[1 + i]
    OBVIOUS
  <2>1. PICK n \in Nat : n = i - 1 /\ n + 1 = 0 + i /\ n + 2 = 1 + i
    OBVIOUS
  <2>2. /\ n + 1 \in DOMAIN todo' <=> n + 2 \in DOMAIN todo
        /\ n + 1 \in DOMAIN todo' => todo'[n + 1] = todo[n + 2]
    BY Onward
  <2>. QED  BY <2>1, <2>2
<1>4. Remakes(k, 1) => Remakes(k, 0)'
  BY Zenon, <1>1, <1>3 DEF Remakes
<1>5. Remakes(k, 0) => Remakes(k + 1, 0)'
  <2> SUFFICES ASSUME Remakes(k, 0), NEW i \in 1..(l - (k + 1))
               PROVE  /\ 0 + i \in DOMAIN todo'
                      /\ todo'[0 + i] = Request("edit", Target[(k + 1) + i], TRUE)
    BY Zenon, <1>1 DEF Remakes
  <2>1. /\ i \in 1..(l - k) /\ 1 + i \in 1..(l - k)
        /\ 0 + (1 + i) = 1 + i /\ k + (1 + i) = (k + 1) + i
    OBVIOUS
  <2>2. 0 + (1 + i) \in DOMAIN todo /\ todo[0 + (1 + i)] = Request("edit", Target[k + (1 + i)], TRUE)
    BY Zenon, <1>1, <2>1 DEF Remakes
  <2>3. 1 + i \in DOMAIN todo /\ todo[1 + i] = Request("edit", Target[(k + 1) + i], TRUE)
    BY Zenon, <2>1, <2>2
  <2>. QED  BY Zenon, <1>3, <2>1, <2>3
<1>6. ASSUME NEW x, 2 \in DOMAIN todo, todo[2] = Request("edit", x, TRUE)
      PROVE  Len(todo) # 1 /\ todo[2].again
  BY <1>2, <1>6 DEF Request
<1>7. Remakes(k, 1) /\ k < l => Len(todo) # 1 /\ todo[2].again
  <2> SUFFICES ASSUME Remakes(k, 1), k < l PROVE Len(todo) # 1 /\ todo[2].again
    OBVIOUS
  <2>1. 1 \in 1..(l - k) /\ 1 + 1 = 2
    OBVIOUS
  <2>2. 2 \in DOMAIN todo /\ todo[2] = Request("edit", Target[k + 1], TRUE)
    BY Zenon, <1>1, <2>1 DEF Remakes
  <2>. QED  BY <1>6, <2>2
<1>8. Remakes(k, 0) /\ k + 1 < l => Len(todo) # 1 /\ todo[2].again
  <2> SUFFICES ASSUME Remakes(k, 0), k + 1 < l PROVE Len(todo) # 1 /\ todo[2].again
    OBVIOUS
  <2>1. 2 \in 1..(l - k) /\ 0 + 2 = 2
    OBVIOUS
  <2>2. 2 \in DOMAIN todo /\ todo[2] = Request("edit", Target[k + 2], TRUE)
    BY Zenon, <1>1, <2>1 DEF Remakes
  <2>. QED  BY <1>6, <2>2
<1>. QED  BY <1>1, <1>4, <1>5, <1>7, <1>8

\* What an answer that was accepted tells.
LEMMA AcceptedTells ==
  ASSUME IInv, KInv, Accepts
  PROVE  \E k \in 0..Len(Target), a \in Frames :
           /\ a = Head(answers) /\ Plan(k) /\ LeftBy(a, k)
           /\ a.kind \in {"refused", "partway", Expected[Head(todo).kind]}
           /\ host.request.kind = Head(todo).kind /\ host.request.arg = Head(todo).arg
           /\ Head(todo).kind \in {"open", "edit", "revert", "save", "rebase", "query"}
<1> DEFINE r == host.request
<1>1. /\ answers \in Seq(Frames) /\ answers # <<>> /\ Head(answers) \in Frames
      /\ Head(answers) = answers[1] /\ 1 \in DOMAIN answers /\ host \in Hosts
      /\ host.at = "waiting" /\ r \in Sent
  BY Shortened DEF IInv, Typed, Going, Asking, Accepts, Hosts
<1>2. PICK a \in Frames : a = Head(answers)
  BY <1>1
<1>3. a.id = r.id /\ a.kind \in {"refused", "partway", Expected[r.kind]} /\ a.kind # "nonsense"
  BY <1>1, <1>2, SentIsTyped, ExpectedIsNamed DEF Accepts, Acceptable, Answers
<1>4. Answered(answers[1])
  BY <1>1, <1>2, <1>3 DEF IInv, AllPlaced, Placed, IsCurrent, Answered
<1>5. PICK k \in 0..Len(Target) : Plan(k) /\ Pending(k)
  BY <1>1 DEF KInv
<1>6. LeftBy(a, k)
  BY <1>1, <1>2, <1>4, <1>5 DEF Pending
<1>7. r.kind = Head(todo).kind /\ r.arg = Head(todo).arg
  BY <1>1 DEF KInv, AsksNext, Asking
<1>8. r.kind \in {"open", "edit", "revert", "save", "rebase", "query"}
  BY <1>1, SentIsTyped DEF Kinds, Queries
<1>. QED  BY <1>2, <1>3, <1>5, <1>6, <1>7, <1>8

\* A refused request left the document as it was, one that failed partway lost it.
LEMMA RefusedKnows ==
  ASSUME IInv, KInv, Accepts, Head(answers).kind \in {"refused", "partway"}
  PROVE  KInv'
<1>1. PICK k \in 0..Len(Target), a \in Frames :
        /\ a = Head(answers) /\ Plan(k) /\ LeftBy(a, k)
        /\ host.request.kind = Head(todo).kind
  BY AcceptedTells
<1>2. /\ tab' = [tab EXCEPT !.lost = @ \/ LosesIt(host.request, a.kind)]
      /\ todo' = <<>> /\ host' = [host EXCEPT !.at = IF todo' = <<>> THEN "idle" ELSE "sending"]
      /\ UNCHANGED <<file, worker>>
  BY <1>1 DEF Accepts, Over
<1>3. /\ tab'.saved = tab.saved /\ tab'.edits = tab.edits /\ tab'.doc = tab.doc
      /\ ~tab'.lost => ~tab.lost /\ ~LosesIt(host.request, a.kind)
      /\ tab.lost => tab'.lost
  BY <1>2 DEF IInv, Typed
<1>4. host'.at = "idle" /\ host'.connected = host.connected
  BY <1>2 DEF IInv, Typed, Hosts
<1>5. ~tab'.lost => Has(tab'.doc, Target, tab.saved)
  <2> SUFFICES ASSUME ~tab'.lost PROVE Has(tab'.doc, Target, tab.saved)
    OBVIOUS
  <2>1. ~tab.lost /\ a.kind = "refused" /\ Head(todo).kind # "rebase"
    BY <1>1, <1>3 DEF LosesIt
  <2>2. Owns(k)
    BY <1>1, <2>1, NextIs DEF Plan, Opens, Remaking
  <2>3. Before(k) /\ Head(todo).kind # "open"
    BY <1>1, <2>1, <2>2, NextIs DEF LeftBy
  <2>4. Part(k) = Target /\ tab'.doc = host.doc
    BY <1>3, <2>2, PartFacts DEF IInv, Owns
  <2>. QED  BY <2>1, <2>3, <2>4 DEF Before, Has
<1>6. Target' = Target
  BY <1>3 DEF Target
<1>7. (host.at = "idle" /\ ~tab.lost => Has(tab.doc, Target, tab.saved))'
  BY <1>2, <1>3, <1>5, <1>6 DEF Has, Knows
<1>. QED  BY <1>2, <1>3, <1>4, <1>7 DEF KInv, AsksNext, Asking

\* The document is opened and the edits made again, until it has all of them.
LEMMA RemadeKnows ==
  ASSUME IInv, KInv, Accepts, NEW k \in 0..Len(Target), Opens(k) \/ Remaking(k),
         After(k), Head(answers).kind \notin {"refused", "partway", "saved"}
  PROVE  KInv'
<1>1. /\ todo' = Tail(todo) /\ UNCHANGED <<file, worker>>
      /\ Head(todo).again =>
           tab' = IF LiveNow(Tail(todo)) THEN [tab EXCEPT !.doc = host.doc, !.lost = FALSE] ELSE tab
      /\ host' = [host EXCEPT !.at = IF todo' = <<>> THEN "idle" ELSE "sending"]
      /\ host.at = "waiting"
  BY DEF Accepts
<1>2. PICK l \in Nat, m \in Nat : l = Len(Target) /\ m = Len(tab.saved)
  BY Counts DEF IInv
<1>3. Typed /\ todo # <<>> /\ host.connected /\ k \in Nat /\ k \in 0..l
  BY <1>1, <1>2 DEF IInv, Going, KInv, AsksNext, Asking
<1>4. Head(todo).again /\ tab.lost
  BY <1>2, <1>3, NextIs DEF Opens, Remaking, Request
<1>5. /\ tab'.saved = tab.saved /\ tab'.edits = tab.edits
      /\ LiveNow(Tail(todo)) => tab'.doc = host.doc /\ ~tab'.lost
      /\ ~LiveNow(Tail(todo)) => tab'.lost
  BY <1>1, <1>3, <1>4 DEF Typed
<1>6. /\ host'.connected /\ host'.doc = host.doc
      /\ host'.at = IF todo' = <<>> THEN "idle" ELSE "sending"
  BY <1>1, <1>3 DEF Typed, Hosts
<1>7. Target' = Target /\ \A j : Part(j)' = Part(j)
  BY <1>5 DEF Target, Part
<1>8. ASSUME NEW j \in 0..l, todo' # <<>>, Plan(j)', worker.alive =>
               /\ Knows(host.doc) /\ worker.docs[host.doc] = Part(j)
               /\ worker.originals[host.doc] = tab.saved
      PROVE  KInv'
  <2>1. host'.at = "sending"
    BY <1>6, <1>8
  <2>2. Before(j)'
    BY <1>1, <1>5, <1>6, <1>7, <1>8 DEF Before, Knows
  <2>3. Pending(j)'
    BY <2>1, <2>2 DEF Pending
  <2>4. j \in 0..Len(Target')
    BY <1>2, <1>7
  <2>5. WorkerIs(worker') /\ file' = tab'.saved
    BY <1>1, <1>5 DEF KInv
  <2>. QED  BY <1>6, <1>8, <2>1, <2>3, <2>4, <2>5 DEF KInv, AsksNext, Asking
<1>9. ASSUME NEW j \in 0..l, OwnFrom(l - j + 1), j = l,
             worker.alive =>
               /\ Knows(host.doc) /\ worker.docs[host.doc] = Part(j)
               /\ worker.originals[host.doc] = tab.saved
      PROVE  KInv'
  <2>1. OwnFrom(0 + 1)
    <3>1. l - j + 1 = 0 + 1
      BY <1>9
    <3>. QED  BY <1>9, <3>1
  <2>2. OwnFrom(0)' /\ Len(todo) # 1
    BY <1>1, <1>3, <2>1, OwnOnward
  <2>3. todo' # <<>> /\ Head(todo') = todo[2]
    BY <1>1, <1>3, <2>2, Onward
  <2>4. ~Head(todo').again
    <3>1. ~todo'[0 + 1].again /\ 0 + 1 = 1
      BY <2>2 DEF OwnFrom
    <3>2. Head(todo') = todo'[1]
      OBVIOUS
    <3>. QED  BY <3>1, <3>2
  <2>5. LiveNow(Tail(todo))
    BY <1>1, <2>3, <2>4 DEF LiveNow
  <2>6. Owns(j)'
    BY <1>2, <1>5, <1>6, <1>7, <1>9, <2>2, <2>5 DEF Owns
  <2>. QED  BY <1>8, <1>9, <2>3, <2>6 DEF Plan
<1>10. ASSUME NEW j \in 0..l, OwnFrom(l - j + 1), j < l, m <= j, Remakes(j, 0)',
              Len(todo) # 1, todo[2].again,
              worker.alive =>
                /\ Knows(host.doc) /\ worker.docs[host.doc] = Part(j)
                /\ worker.originals[host.doc] = tab.saved
       PROVE  KInv'
  <2>1. OwnFrom(l - j)'
    <3>1. l - j \in Nat
      BY <1>10
    <3>. QED  BY <1>1, <1>3, <1>10, <3>1, OwnOnward
  <2>2. todo' # <<>> /\ Head(todo') = todo[2]
    BY <1>1, <1>3, <1>10, Onward
  <2>3. ~LiveNow(Tail(todo))
    BY <1>1, <1>10, <2>2 DEF LiveNow
  <2>4. j \in m..(l - 1)
    BY <1>10
  <2>5. Remaking(j)'
    BY <1>2, <1>5, <1>6, <1>7, <1>10, <2>1, <2>3, <2>4 DEF Remaking
  <2>. QED  BY <1>8, <1>10, <2>2, <2>5 DEF Plan
<1>11. /\ Part(m) = tab.saved
       /\ \A j \in 0..(l - 1) : Append(Part(j), Target[j + 1]) = Part(j + 1)
  BY Zenon, <1>2, <1>3, PartFacts
<1>12. CASE Opens(k)
  <2>1. Head(todo).kind = "open" /\ k = m
    BY <1>2, <1>12, NextIs DEF Opens, Request
  <2>2. worker.alive => /\ Knows(host.doc) /\ worker.docs[host.doc] = Part(k)
                        /\ worker.originals[host.doc] = tab.saved
    BY <2>1 DEF After, Has, Made
  <2>3. OwnFrom(l - k + 1)
    <3>1. 1 + l - k = l - k + 1
      BY <1>3
    <3>2. OwnFrom(1 + l - k)
      BY Zenon, <1>2, <1>12 DEF Opens
    <3>. QED  BY Zenon, <3>1, <3>2
  <2>4. CASE k = l
    BY <1>3, <1>9, <2>2, <2>3, <2>4
  <2>5. CASE k < l
    <3>1. Remakes(k, 0)' /\ Len(todo) # 1 /\ todo[2].again
      BY <1>1, <1>2, <1>3, <1>7, <1>12, <2>5, RemakesOnward DEF Opens
    <3>. QED  BY <1>3, <1>10, <2>1, <2>2, <2>3, <2>5, <3>1
  <2>. QED  BY <1>3, <2>4, <2>5
<1>13. CASE Remaking(k)
  <2>1. Head(todo) = Request("edit", Target[k + 1], TRUE)
    BY <1>2, <1>3, <1>13, NextIs
  <2>2. m <= k /\ k < l /\ k + 1 \in 0..l /\ k \in 0..(l - 1)
    BY <1>2, <1>3, <1>13 DEF Remaking
  <2>3. Made(k) = Part(k + 1)
    <3>1. Head(todo).kind = "edit" /\ Head(todo).arg = Target[k + 1]
      BY <2>1 DEF Request
    <3>. QED  BY Zenon, <1>11, <2>2, <3>1 DEF Made
  <2>4. worker.alive => /\ Knows(host.doc) /\ worker.docs[host.doc] = Part(k + 1)
                        /\ worker.originals[host.doc] = tab.saved
    BY <2>3 DEF After, Has
  <2>5. OwnFrom(l - (k + 1) + 1)
    <3>1. l - (k + 1) + 1 = l - k
      BY <1>3
    <3>2. OwnFrom(l - k)
      BY Zenon, <1>2, <1>13 DEF Remaking
    <3>. QED  BY Zenon, <3>1, <3>2
  <2>6. CASE k + 1 = l
    BY <1>9, <2>2, <2>4, <2>5, <2>6
  <2>7. CASE k + 1 < l
    <3>1. Remakes(k + 1, 0)' /\ Len(todo) # 1 /\ todo[2].again
      BY <1>1, <1>2, <1>3, <1>7, <1>13, <2>7, RemakesOnward DEF Remaking
    <3>2. m <= k + 1
      BY <1>3, <2>2
    <3>. QED  BY <1>10, <2>2, <2>4, <2>5, <2>7, <3>1, <3>2
  <2>. QED  BY <1>3, <2>2, <2>6, <2>7
<1>. QED  BY <1>12, <1>13

\* The operation's own request makes the tab's document what the worker's is.
LEMMA OwnKnows ==
  ASSUME IInv, KInv, Accepts, NEW k \in 0..Len(Target), Owns(k) \/ Rebasing(k),
         After(k), Len(todo) = 1, Head(todo).kind \in {"edit", "revert", "query", "rebase"},
         Head(answers).kind \notin {"refused", "partway", "saved"},
         host.request.kind = Head(todo).kind, host.request.arg = Head(todo).arg
  PROVE  KInv'
<1> DEFINE r == host.request
<1>1. /\ todo' = Tail(todo) /\ UNCHANGED <<file, worker>>
      /\ ~Head(todo).again => tab' = Done(r)
      /\ host' = [host EXCEPT !.at = IF todo' = <<>> THEN "idle" ELSE "sending"]
      /\ host.at = "waiting"
  BY DEF Accepts
<1>2. Typed /\ todo # <<>> /\ host.connected /\ r \in Sent
  BY <1>1 DEF IInv, Typed, Hosts, Going, KInv, AsksNext, Asking
<1>3. ~Head(todo).again /\ ~tab.lost /\ tab.doc = host.doc /\ k = Len(Target)
  BY NextIs DEF Owns, Rebasing
<1>4. todo' = <<>>
  BY <1>1, <1>2, Onward
<1>5. host'.at = "idle" /\ host'.connected
  BY <1>1, <1>2, <1>4 DEF Typed, Hosts
<1>6. /\ Part(k) = Target /\ Target \in Seq(Nat)
      /\ tab.saved \in Seq(Nat) /\ tab.edits \in Seq(Nat)
  BY <1>2, <1>3, PartFacts
<1>7. /\ tab'.saved = tab.saved /\ tab'.doc = tab.doc /\ tab'.lost = tab.lost
      /\ tab.saved \o tab'.edits = Made(k)
  <2>1. CASE r.kind = "edit"
    <3>1. PICK x \in Nat : x = r.arg
      BY <1>2, <2>1, SentIsTyped
    <3>2. tab' = [tab EXCEPT !.edits = Append(tab.edits, x)]
      BY <1>1, <1>3, <2>1, <3>1 DEF Done
    <3>3. /\ tab'.saved = tab.saved /\ tab'.doc = tab.doc /\ tab'.lost = tab.lost
          /\ tab'.edits = Append(tab.edits, x)
      BY <1>2, <3>2 DEF Typed
    <3>4. tab.saved \o Append(tab.edits, x) = Append(tab.saved \o tab.edits, x)
      <4>1. \A s \in Seq(Nat), e \in Seq(Nat) : s \o Append(e, x) = Append(s \o e, x)
        OBVIOUS
      <4>. QED  BY <1>6, <4>1
    <3>5. Made(k) = Append(tab.saved \o tab.edits, x)
      BY Zenon, <1>6, <2>1, <3>1 DEF Made, Target
    <3>. QED  BY Zenon, <3>3, <3>4, <3>5
  <2>2. CASE r.kind = "revert"
    <3>1. tab' = [tab EXCEPT !.edits = r.arg]
      BY <1>1, <1>3, <2>2 DEF Done
    <3>2. /\ tab'.saved = tab.saved /\ tab'.doc = tab.doc /\ tab'.lost = tab.lost
          /\ tab'.edits = r.arg
      BY <1>2, <3>1 DEF Typed
    <3>. QED  BY Zenon, <2>2, <3>2 DEF Made
  <2>3. CASE r.kind \in {"query", "rebase"}
    <3>1. tab' = tab
      BY <1>1, <1>3, <2>3 DEF Done
    <3>2. Made(k) = tab.saved \o tab.edits
      BY <1>6, <2>3 DEF Made, Target
    <3>. QED  BY <3>1, <3>2
  <2>. QED  BY <2>1, <2>2, <2>3
<1>8. Target' = Made(k)
  BY <1>7 DEF Target
<1>9. (host.at = "idle" /\ ~tab.lost => Has(tab.doc, Target, tab.saved))'
  BY <1>1, <1>3, <1>7, <1>8 DEF After, Has, Knows
<1>10. WorkerIs(worker') /\ file' = tab'.saved
  BY <1>1, <1>7 DEF KInv
<1>. QED  BY <1>5, <1>9, <1>10 DEF KInv, AsksNext, Asking

\* Saved, the file is what the worker wrote, which is what the tab has.
LEMMA SavedKnows ==
  ASSUME IInv, KInv, Accepts, NEW k \in 0..Len(Target), Owns(k), After(k),
         Head(todo).kind = "save", Len(todo) # 1, temp = Part(k),
         Head(answers).kind = "saved", host.request.kind = Head(todo).kind
  PROVE  KInv'
<1>1. /\ todo' = Tail(todo) /\ worker' = worker /\ file' = temp
      /\ ~Head(todo).again => tab' = Done(host.request)
      /\ host' = [host EXCEPT !.at = IF todo' = <<>> THEN "idle" ELSE "sending"]
      /\ host.at = "waiting"
  BY DEF Accepts
<1>2. Typed /\ todo # <<>> /\ host.connected
  BY <1>1 DEF IInv, Going, KInv, AsksNext, Asking
<1>3. ~Head(todo).again /\ ~tab.lost /\ tab.doc = host.doc /\ k = Len(Target)
  BY NextIs DEF Owns
<1>4. Part(k) = Target
  BY <1>2, <1>3, PartFacts
<1>5. tab' = [tab EXCEPT !.saved = @ \o tab.edits, !.edits = <<>>]
  BY <1>1, <1>3 DEF Done
<1>6. tab'.saved = Target /\ tab'.edits = <<>> /\ ~tab'.lost /\ tab'.doc = tab.doc
  <2>1. PICK t : t = tab.saved \o tab.edits
    OBVIOUS
  <2>2. tab' = [tab EXCEPT !.saved = t, !.edits = <<>>]
    BY <1>5, <2>1
  <2>3. tab'.saved = t /\ tab'.edits = <<>> /\ tab'.lost = tab.lost /\ tab'.doc = tab.doc
    BY <1>2, <2>2 DEF Typed
  <2>. QED  BY Zenon, <1>3, <2>1, <2>3 DEF Target
<1>7. Target' = Target
  <2>1. PICK t \in Seq(Nat) : t = Target
    BY <1>2, PartFacts
  <2>2. t \o <<>> = t
    OBVIOUS
  <2>. QED  BY Zenon, <1>6, <2>1, <2>2 DEF Target
<1>8. Part(k)' = Part(k)
  BY <1>7 DEF Part
<1>9. /\ Len(todo') = 1 /\ todo' # <<>> /\ todo'[1].kind = "rebase" /\ ~todo'[1].again
  <2>1. Len(todo) = 0 + 2 /\ todo[0 + 2].kind = "rebase" /\ ~todo[0 + 2].again
    <3>1. Head(todo) = todo[0 + 1]
      OBVIOUS
    <3>2. 0 + 1 = 1 /\ Head(todo) = todo[1]
      OBVIOUS
    <3>3. todo[0 + 1].kind = "save"
      BY <3>2
    <3>. QED  BY <3>3 DEF Owns, OwnFrom
  <2>2. Len(todo) = 2 /\ todo[2].kind = "rebase" /\ ~todo[2].again
    BY <2>1
  <2>3. todo' # <<>> /\ Head(todo') = todo[2] /\ Len(todo') = Len(todo) - 1
    BY <1>1, <1>2, <2>2, Onward
  <2>4. Head(todo') = todo'[1]
    OBVIOUS
  <2>. QED  BY <2>2, <2>3, <2>4
<1>10. /\ host'.at = "sending" /\ host'.connected /\ host'.doc = host.doc
  BY <1>1, <1>2, <1>9 DEF Typed, Hosts
<1>11. Rebasing(k)'
  BY <1>3, <1>6, <1>7, <1>9, <1>10 DEF Rebasing
<1>12. Before(k)'
  <2>1. Head(todo').kind = "rebase"
    <3>1. Head(todo') = todo'[1]
      OBVIOUS
    <3>. QED  BY <1>9, <3>1
  <2>2. worker.alive => Knows(host.doc) /\ worker.docs[host.doc] = Part(k)
    BY DEF After, Has, Made
  <2>. QED  BY <1>1, <1>8, <1>10, <2>1, <2>2 DEF Before, Knows
<1>13. Pending(k)' /\ Plan(k)' /\ k \in 0..Len(Target')
  BY <1>7, <1>10, <1>11, <1>12 DEF Pending, Plan
<1>14. WorkerIs(worker') /\ file' = tab'.saved
  BY <1>1, <1>4, <1>6 DEF KInv
<1>. QED  BY <1>10, <1>13, <1>14 DEF KInv, AsksNext, Asking

\* What an accepted answer says is what the worker has.
LEMMA AcceptsKnows == ASSUME IInv, KInv, Accepts PROVE KInv'
<1> DEFINE next == Head(todo).kind
<1>1. PICK k \in 0..Len(Target), a \in Frames :
        /\ a = Head(answers) /\ Plan(k) /\ LeftBy(a, k)
        /\ a.kind \in {"refused", "partway", Expected[next]}
        /\ host.request.kind = next /\ host.request.arg = Head(todo).arg
        /\ next \in {"open", "edit", "revert", "save", "rebase", "query"}
  BY AcceptedTells
<1>2. CASE a.kind \in {"refused", "partway"}
  BY <1>1, <1>2, RefusedKnows
<1>3. CASE a.kind \notin {"refused", "partway"}
  <2>1. a.kind = Expected[next]
    BY <1>1, <1>3
  <2>2. a.kind = IF next = "save" THEN "saved" ELSE Expected[next]
    BY <2>1 DEF Expected
  <2>3. a.kind # "nonsense" /\ (next # "save" => a.kind # "saved")
    BY <1>1, <2>1 DEF Expected
  <2>4. After(k) /\ (next = "save" => temp = Part(k))
    BY <1>1, <1>3, <2>2, <2>3 DEF LeftBy
  <2>5. Len(Target) \in Nat
    BY Counts DEF IInv
  <2>6. CASE Opens(k) \/ Remaking(k)
    <3>1. next # "save"
      BY <2>5, <2>6, NextIs DEF Request
    <3>. QED  BY <1>1, <1>3, <2>3, <2>4, <2>6, <3>1, RemadeKnows
  <2>7. CASE Owns(k) /\ next = "save"
    <3>1. Len(todo) # 1
      <4>1. Head(todo) = todo[0 + 1]
        <5>1. 0 + 1 = 1 /\ Head(todo) = todo[1]
          OBVIOUS
        <5>. QED  BY <5>1
      <4>2. todo[0 + 1].kind = "save"
        BY <2>7, <4>1
      <4>3. Len(todo) = 0 + 2
        BY <2>7, <4>2 DEF Owns, OwnFrom
      <4>. QED  BY <4>3
    <3>. QED  BY <1>1, <2>2, <2>4, <2>7, <3>1, SavedKnows
  <2>8. CASE Owns(k) /\ next # "save"
    <3>1. Len(todo) = 1 /\ next \in {"edit", "revert", "query"}
      <4>1. Head(todo) = todo[0 + 1]
        <5>1. 0 + 1 = 1 /\ Head(todo) = todo[1]
          OBVIOUS
        <5>. QED  BY <5>1
      <4>2. todo[0 + 1].kind # "save"
        BY <2>8, <4>1
      <4>3. Len(todo) = 0 + 1 /\ todo[0 + 1].kind \in {"edit", "revert", "query"}
        BY <2>8, <4>2 DEF Owns, OwnFrom
      <4>. QED  BY <4>1, <4>3
    <3>. QED  BY <1>1, <1>3, <2>3, <2>4, <2>8, <3>1, OwnKnows
  <2>9. CASE Rebasing(k)
    <3>1. Len(todo) = 1 /\ next = "rebase"
      BY <2>9, NextIs DEF Rebasing
    <3>. QED  BY <1>1, <1>3, <2>3, <2>4, <2>9, <3>1, OwnKnows
  <2>. QED  BY <1>1, <2>6, <2>7, <2>8, <2>9 DEF Plan
<1>. QED  BY <1>2, <1>3

\* At first there is no worker.
LEMMA InitKnows == ASSUME Init PROVE KInv
  BY DEF Init, KInv, WorkerIs, NoWorker, AsksNext, Asking

\* A step that changes nothing.
LEMMA QuietKnows == ASSUME IInv, KInv, UNCHANGED vars PROVE KInv'
<1>1. UNCHANGED <<tab, file, temp, todo, host, worker, said, pipe, answers>>
  BY DEF vars
<1>2. Target' = Target
  BY <1>1 DEF Target
<1>3. ASSUME NEW k \in 0..Len(Target), Plan(k), Pending(k)
      PROVE  Plan(k)' /\ Pending(k)' /\ k \in 0..Len(Target')
  <2>1. Plan(k)'
    BY <1>1, <1>3, SamePlan
  <2>2. Before(k)' = Before(k) /\ After(k)' = After(k) /\ Part(k)' = Part(k)
    BY <1>1, SameBefore
  <2>3. \A f : LeftBy(f, k) => LeftBy(f, k)'
    BY <1>1, <2>2 DEF LeftBy
  <2>4. Pending(k)'
    BY <1>1, <1>3, <2>2, <2>3 DEF Pending, Answered, IsCurrent
  <2>. QED  BY <1>2, <2>1, <2>4
<1>4. (host.at = "idle" /\ ~tab.lost => Has(tab.doc, Target, tab.saved))'
  BY <1>1, <1>2 DEF KInv, Has, Knows
<1>. QED  BY <1>1, <1>3, <1>4 DEF KInv, WorkerIs, AsksNext, Asking

\* No step lets the tab and its worker come apart.
LEMMA StepKnows == ASSUME IInv, IInv', KInv, [Next]_vars PROVE KInv'
<1>1. CASE User
  BY <1>1, UserKnows
<1>2. CASE Starts
  BY <1>2, StartsKnows
<1>3. CASE Sends
  BY <1>3, SendsKnows
<1>4. CASE Writes
  BY <1>4, WritesKnows
<1>5. CASE FindsCrash \/ TimesOut \/ Rejects
  BY <1>5, DropsKnows DEF FindsCrash, TimesOut, Rejects
<1>6. CASE Accepts
  BY <1>6, AcceptsKnows
<1>7. CASE Serves
  BY <1>7, ServesKnows
<1>8. CASE Dies
  BY <1>8, DiesKnows
<1>9. CASE Hangs
  BY <1>9, HangsKnows
<1>10. CASE Repeats
  BY <1>10, RepeatsKnows
<1>11. CASE Misspeaks
  BY <1>11, MisspeaksKnows
<1>12. CASE UNCHANGED vars
  BY <1>12, QuietKnows DEF vars
<1>. QED
  BY <1>1, <1>2, <1>3, <1>4, <1>5, <1>6, <1>7, <1>8, <1>9, <1>10, <1>11, <1>12
  DEF Next, Host

\* Between operations a living worker has exactly what the tab has, and undoes to
\* what the tab last saved, for any number of requests and faults.
THEOREM CallersKnowTheirWorker == Spec => []CallerKnowsWorker
<1>1. Init => IInv /\ KInv
  BY InitIsSound, InitKnows
<1>2. IInv /\ KInv /\ [Next]_vars => IInv' /\ KInv'
  BY StepKeeps, StepKnows
<1>3. KInv => CallerKnowsWorker
  BY DEF KInv, CallerKnowsWorker, Has, Target
<1>. QED  BY <1>1, <1>2, <1>3, PTL DEF Spec
=============================================================================
