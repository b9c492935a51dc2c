------------------------------- MODULE Saving -------------------------------
(***************************************************************************)
(* How a document's file is written (src-tauri/src/saving.rs and its callers*)
(* in documents.rs): one step for each thing that happens to the disk.      *)
(* Tabs save at the same time, each under its own document's lock, and no   *)
(* lock covers a file; other programs write and delete the same files, and  *)
(* the app can die between any two steps.                                   *)
(*                                                                          *)
(* A version of a file is what one write left there.  Its stamp stands for  *)
(* the size and modification time, which are taken to tell versions apart.  *)
(* What was written is a whole document; or "torn", wrong inside but of the *)
(* length that was told and with the head and the end of a PDF; or "cut",   *)
(* without one of these three, which is all that Temporary::check looks at. *)
(***************************************************************************)
EXTENDS Integers, FiniteSets

CONSTANTS
  Tabs,        \* tabs of a run
  Files,       \* the files they open and save to
  MaxStamp,    \* bound: versions of all files
  MaxOthers,   \* bound: writes and deletions by other programs
  None         \* the absent value

ASSUME SavingAssumption ==
  /\ Files # {} /\ IsFiniteSet(Tabs)
  /\ MaxStamp \in Nat \ {0} /\ MaxOthers \in Nat
  /\ None \notin Files \cup Tabs \cup Int
  /\ None \notin [stamp : Nat, form : {"cut", "torn", "whole"}]

VARIABLES
  disk,       \* the version under each file's name
  strays,     \* versions left under the name of a backup
  pc,         \* how far each tab's load or save is
  path,       \* OpenDocument::path
  identity,   \* OpenDocument::identity
  base,       \* the version its worker has; None: `lost`
  unsaved,    \* history.unsaved()
  kind,       \* what is being saved: "save", "saveAs" or "mark"
  target,     \* where to
  temp,       \* the temporary file: "cut" (or empty yet), "torn" or "whole"
  aside,      \* the version under its backup's name
  clock,      \* the last stamp given
  newest,     \* the stamp of the last version that got each name
  writer,     \* the tab whose version that is
  raced,      \* the tabs whose target changed since their save began
  restored,   \* the files a save has put an earlier version back in
  others      \* what other programs have done, counted

\* The document, the save under way, and what only the properties read.
document == <<path, identity, base, unsaved>>
saveVars == <<kind, target, temp>>
ghosts   == <<newest, writer, raced, restored, others>>
vars == <<disk, strays, pc, document, saveVars, aside, clock, ghosts>>

Stamps   == 1 .. MaxStamp
Forms    == {"cut", "torn", "whole"}
Versions == [stamp : Stamps, form : Forms]

StampOf(version) == IF version = None THEN None ELSE version.stamp

BeforePlaced == {"preparing", "writing", "written", "checked", "aside"}
Saves == BeforePlaced \cup {"putBack", "moved", "placed", "identified"}

\* Bound: a save that began can still be given its stamp.
Unplaced == {t \in Tabs : pc[t] \in BeforePlaced}
Room     == clock + Cardinality(Unplaced) < MaxStamp

\* The name `f` has another version now, or none.
Renamed(f, version) ==
  /\ disk' = [disk EXCEPT ![f] = version]
  /\ raced' = raced \cup {t \in Tabs : target[t] = f}

\* A new version, which tab `t` or another program wrote, gets the name `f`.
Arrives(f, form, t) ==
  /\ clock' = clock + 1
  /\ Renamed(f, [stamp |-> clock + 1, form |-> form])
  /\ newest' = [newest EXCEPT ![f] = clock + 1]
  /\ writer' = [writer EXCEPT ![f] = t]

-----------------------------------------------------------------------------
(* Opening (load_with, reopen) and editing.                                 *)

\* The file's identity is taken, and then the worker reads the file.
StartLoad(t, f) ==
  /\ pc[t] = "closed" /\ disk[f] # None
  /\ path' = [path EXCEPT ![t] = f]
  /\ identity' = [identity EXCEPT ![t] = disk[f].stamp]
  /\ pc' = [pc EXCEPT ![t] = "loading"]
  /\ UNCHANGED <<disk, strays, base, unsaved, saveVars, aside, clock, ghosts>>

WorkerReads(t) ==
  /\ pc[t] = "loading" /\ disk[path[t]] # None
  /\ base' = [base EXCEPT ![t] = disk[path[t]]]
  /\ pc' = [pc EXCEPT ![t] = "open"]
  /\ UNCHANGED <<disk, strays, path, identity, unsaved, saveVars, aside,
                 clock, ghosts>>

\* The tab has no document any more.
NoDocument(t) ==
  /\ pc' = [pc EXCEPT ![t] = "closed"]
  /\ path' = [path EXCEPT ![t] = None]
  /\ identity' = [identity EXCEPT ![t] = None]
  /\ base' = [base EXCEPT ![t] = None]
  /\ unsaved' = [unsaved EXCEPT ![t] = FALSE]

LoadFails(t) ==
  /\ pc[t] = "loading"
  /\ NoDocument(t)
  /\ UNCHANGED <<disk, strays, saveVars, aside, clock, ghosts>>

Edit(t) ==
  /\ pc[t] = "open" /\ base[t] # None
  /\ unsaved' = [unsaved EXCEPT ![t] = TRUE]
  /\ UNCHANGED <<disk, strays, pc, path, identity, base, saveVars, aside,
                 clock, ghosts>>

\* A request finds the worker dead.
WorkerDies(t) ==
  /\ pc[t] = "open" /\ base[t] # None
  /\ base' = [base EXCEPT ![t] = None]
  /\ UNCHANGED <<disk, strays, pc, path, identity, unsaved, saveVars, aside,
                 clock, ghosts>>

\* live_worker: the next one has the file opened again, saving included.
Reopen(t) ==
  /\ pc[t] \in {"open", "preparing"} /\ base[t] = None
  /\ disk[path[t]] # None
  /\ base' = [base EXCEPT ![t] = disk[path[t]]]
  /\ UNCHANGED <<disk, strays, pc, path, identity, unsaved, saveVars, aside,
                 clock, ghosts>>

Close(t) ==
  /\ pc[t] = "open"
  /\ NoDocument(t)
  /\ UNCHANGED <<disk, strays, saveVars, aside, clock, ghosts>>

-----------------------------------------------------------------------------
(* Saving: up to the complete temporary file.                               *)

UnchangedOnDisk(t) ==
  /\ identity[t] # None
  /\ StampOf(disk[path[t]]) = identity[t]

MayWriteUnchecked(t, how, f) ==     \* mutant: no look at the file first
  CASE how = "save"   -> f = path[t] /\ unsaved[t]
    [] how = "mark"   -> f = path[t] /\ ~unsaved[t] /\ UnchangedOnDisk(t)
    [] how = "saveAs" -> TRUE

\* What may be written where; otherwise nothing is, or changedOnDisk is told.
MayWrite(t, how, f) ==
  CASE how = "save"   -> f = path[t] /\ unsaved[t] /\ UnchangedOnDisk(t)
    [] how = "mark"   -> f = path[t] /\ ~unsaved[t] /\ UnchangedOnDisk(t)
    [] how = "saveAs" -> TRUE

\* save and set_sensitive: a new temporary file next to the destination.
Begin(t, how, f) ==
  /\ pc[t] = "open" /\ Room
  /\ MayWrite(t, how, f)
  /\ pc' = [pc EXCEPT ![t] = "preparing"]
  /\ kind' = [kind EXCEPT ![t] = how]
  /\ target' = [target EXCEPT ![t] = f]
  /\ temp' = [temp EXCEPT ![t] = "cut"]
  /\ raced' = raced \ {t}
  /\ UNCHANGED <<disk, strays, document, aside, clock, newest, writer,
                 restored, others>>

\* A live worker is given the write-only handle.
AskWorker(t) ==
  /\ pc[t] = "preparing" /\ base[t] # None
  /\ pc' = [pc EXCEPT ![t] = "writing"]
  /\ UNCHANGED <<disk, strays, document, saveVars, aside, clock, ghosts>>

\* The save ends, with an error if the file is not as it is to be; dropping
\* Temporary deletes what is left of the temporary one.
Over(t) ==
  /\ pc' = [pc EXCEPT ![t] = "open"]
  /\ kind' = [kind EXCEPT ![t] = None]
  /\ target' = [target EXCEPT ![t] = None]
  /\ temp' = [temp EXCEPT ![t] = None]

NoWorker(t) ==
  /\ pc[t] = "preparing" /\ base[t] = None
  /\ Over(t)
  /\ UNCHANGED <<disk, strays, document, aside, clock, ghosts>>

\* It answers that it has written the document, and has, or wrongly or not all.
WorkerWrites(t) ==
  /\ pc[t] = "writing"
  /\ pc' = [pc EXCEPT ![t] = "written"]
  /\ \E written \in Forms : temp' = [temp EXCEPT ![t] = written]
  /\ UNCHANGED <<disk, strays, document, kind, target, aside, clock, ghosts>>

WorkerRefuses(t) ==
  /\ pc[t] = "writing"
  /\ Over(t)
  /\ UNCHANGED <<disk, strays, document, aside, clock, ghosts>>

WorkerWaitedFor(t) ==               \* mutant: no timeout
  /\ FALSE
  /\ UNCHANGED vars

\* It crashes, breaks the protocol, or has not answered within SAVE_TIMEOUT.
WorkerLost(t) ==
  /\ pc[t] = "writing"
  /\ base' = [base EXCEPT ![t] = None]
  /\ Over(t)
  /\ UNCHANGED <<disk, strays, path, identity, unsaved, aside, clock, ghosts>>

CompleteAsTold(t) == TRUE           \* mutant: no check

\* The length told, the head and the end are there; the inside is not looked at.
Complete(t) == temp[t] # "cut"

CheckPasses(t) ==
  /\ pc[t] = "written" /\ Complete(t)
  /\ pc' = [pc EXCEPT ![t] = "checked"]
  /\ UNCHANGED <<disk, strays, document, saveVars, aside, clock, ghosts>>

CheckFails(t) ==
  /\ pc[t] = "written" /\ ~Complete(t)
  /\ Over(t)
  /\ UNCHANGED <<disk, strays, document, aside, clock, ghosts>>

-----------------------------------------------------------------------------
(* replace_file: the temporary file takes the destination's place.  Neither *)
(* ReplaceFileW nor MoveFileExW replaces a file that appears meanwhile.     *)

\* The new version is under the name, the temporary file is gone.
Placed(t, next) ==
  /\ disk[target[t]] = None
  /\ Arrives(target[t], temp[t], t)
  /\ temp' = [temp EXCEPT ![t] = None]
  /\ pc' = [pc EXCEPT ![t] = next]
  /\ UNCHANGED <<strays, document, kind, target, aside, restored, others>>

MoveNew(t) == pc[t] = "checked" /\ Placed(t, "placed")

\* ReplaceFileW gives the original the backup's name, ...
MoveAside(t) ==
  /\ pc[t] = "checked" /\ disk[target[t]] # None
  /\ aside' = [aside EXCEPT ![t] = disk[target[t]]]
  /\ Renamed(target[t], None)
  /\ pc' = [pc EXCEPT ![t] = "aside"]
  /\ UNCHANGED <<strays, document, saveVars, clock, newest, writer, restored,
                 others>>

\* ... and the new file the original's.
MoveIn(t) == pc[t] = "aside" /\ Placed(t, "moved")

\* An error that leaves the destination alone.
ReplaceFails(t) ==
  /\ pc[t] = "checked"
  /\ Over(t)
  /\ UNCHANGED <<disk, strays, document, aside, clock, ghosts>>

\* ERROR_UNABLE_TO_MOVE_REPLACEMENT_2: nothing has the name.
MoveInFails(t) ==
  /\ pc[t] = "aside"
  /\ pc' = [pc EXCEPT ![t] = "putBack"]
  /\ UNCHANGED <<disk, strays, document, saveVars, aside, clock, ghosts>>

PutBack(t) ==
  /\ pc[t] = "putBack" /\ disk[target[t]] = None
  /\ Renamed(target[t], aside[t])
  /\ aside' = [aside EXCEPT ![t] = None]
  /\ restored' = restored \cup {target[t]}
  /\ Over(t)
  /\ UNCHANGED <<strays, document, clock, newest, writer, others>>

PutBackDeletes(t) ==                \* mutant: the backup goes with the error
  /\ pc[t] = "putBack"
  /\ aside' = [aside EXCEPT ![t] = None]
  /\ Over(t)
  /\ UNCHANGED <<disk, strays, document, clock, ghosts>>

\* Its own failure is not looked at: the backup stays, under its name.
PutBackFails(t) ==
  /\ pc[t] = "putBack"
  /\ strays' = strays \cup {[file |-> target[t], version |-> aside[t]]}
  /\ aside' = [aside EXCEPT ![t] = None]
  /\ Over(t)
  /\ UNCHANGED <<disk, document, clock, ghosts>>

\* The replaced original is deleted, or cannot be.
RemoveBackup(t) ==
  /\ pc[t] = "moved"
  /\ strays' \in {strays,
       strays \cup {[file |-> target[t], version |-> aside[t]]}}
  /\ aside' = [aside EXCEPT ![t] = None]
  /\ pc' = [pc EXCEPT ![t] = "placed"]
  /\ UNCHANGED <<disk, document, saveVars, clock, ghosts>>

-----------------------------------------------------------------------------
(* The rest of save: the document is the one in the file now.               *)

IdentifyNot(t) ==                   \* mutant: the identity is not taken again
  /\ pc[t] = "placed"
  /\ path' = [path EXCEPT ![t] = target[t]]
  /\ unsaved' = [unsaved EXCEPT ![t] = FALSE]
  /\ pc' = [pc EXCEPT ![t] = "identified"]
  /\ UNCHANGED <<disk, strays, identity, base, saveVars, aside, clock, ghosts>>

Identify(t) ==
  /\ pc[t] = "placed"
  /\ identity' = [identity EXCEPT ![t] = StampOf(disk[target[t]])]
  /\ path' = [path EXCEPT ![t] = target[t]]
  /\ unsaved' = [unsaved EXCEPT ![t] = FALSE]
  /\ pc' = [pc EXCEPT ![t] = "identified"]
  /\ UNCHANGED <<disk, strays, base, saveVars, aside, clock, ghosts>>

RebaseNot(t) ==                     \* mutant: the worker keeps what it had
  /\ pc[t] = "identified"
  /\ Over(t)
  /\ UNCHANGED <<disk, strays, document, aside, clock, ghosts>>

\* rebase: the worker reads the file, or the document is lost.
Rebase(t) ==
  /\ pc[t] = "identified"
  /\ \E read \in {disk[path[t]], None} : base' = [base EXCEPT ![t] = read]
  /\ Over(t)
  /\ UNCHANGED <<disk, strays, path, identity, unsaved, aside, clock, ghosts>>

-----------------------------------------------------------------------------
(* Everyone else.                                                           *)

OtherWrites(f) ==
  /\ Room /\ others < MaxOthers
  /\ Arrives(f, "whole", None)
  /\ others' = others + 1
  /\ UNCHANGED <<strays, pc, document, saveVars, aside, restored>>

OtherDeletes(f) ==
  /\ others < MaxOthers /\ disk[f] # None
  /\ Renamed(f, None)
  /\ others' = others + 1
  /\ UNCHANGED <<strays, pc, document, saveVars, aside, clock, newest, writer,
                 restored>>

NothingOpen ==
  /\ pc = [t \in Tabs |-> "closed"]
  /\ path = [t \in Tabs |-> None]
  /\ identity = [t \in Tabs |-> None]
  /\ base = [t \in Tabs |-> None]
  /\ unsaved = [t \in Tabs |-> FALSE]
  /\ kind = [t \in Tabs |-> None]
  /\ target = [t \in Tabs |-> None]
  /\ temp = [t \in Tabs |-> None]
  /\ aside = [t \in Tabs |-> None]

\* The app dies; what its saves had moved aside is where it is.
Crash ==
  /\ strays' = strays \cup
       {[file |-> target[t], version |-> aside[t]]
         : t \in {u \in Tabs : aside[u] # None}}
  /\ pc' = [t \in Tabs |-> "closed"]
  /\ path' = [t \in Tabs |-> None]
  /\ identity' = [t \in Tabs |-> None]
  /\ base' = [t \in Tabs |-> None]
  /\ unsaved' = [t \in Tabs |-> FALSE]
  /\ kind' = [t \in Tabs |-> None]
  /\ target' = [t \in Tabs |-> None]
  /\ temp' = [t \in Tabs |-> None]
  /\ aside' = [t \in Tabs |-> None]
  /\ raced' = {}
  /\ UNCHANGED <<disk, clock, newest, writer, restored, others>>

Init ==
  /\ disk = [f \in Files |-> [stamp |-> 1, form |-> "whole"]]
  /\ strays = {}
  /\ NothingOpen
  /\ clock = 1
  /\ newest = [f \in Files |-> 1]
  /\ writer = [f \in Files |-> None]
  /\ raced = {}
  /\ restored = {}
  /\ others = 0

\* The save waits for its file to be opened again, and for the edits to be made
\* again: requests that may be larger than the pipe they are written to, which
\* has no timeout.  A new worker that hangs keeps it waiting (BlockedOnWrite of
\* Requests).
Reopening(t) == pc[t] = "preparing" /\ base[t] = None

\* The other steps a save takes by itself once begun: each call it makes returns.
\* Those of a worker fit its pipe, and their answers are waited for with a timeout.
Proceed(t) ==
  \/ AskWorker(t) \/ WorkerLost(t)
  \/ CheckPasses(t) \/ CheckFails(t)
  \/ MoveNew(t) \/ MoveAside(t) \/ MoveIn(t) \/ ReplaceFails(t)
  \/ MoveInFails(t) \/ PutBack(t) \/ PutBackFails(t) \/ RemoveBackup(t)
  \/ Identify(t) \/ Rebase(t)

Step(t) ==
  \/ \E f \in Files : StartLoad(t, f)
  \/ WorkerReads(t) \/ LoadFails(t)
  \/ Edit(t) \/ WorkerDies(t) \/ Reopen(t) \/ Close(t)
  \/ \E f \in Files, how \in {"save", "saveAs", "mark"} : Begin(t, how, f)
  \/ NoWorker(t) \/ WorkerWrites(t) \/ WorkerRefuses(t)
  \/ Proceed(t)

Next ==
  \/ \E t \in Tabs : Step(t)
  \/ \E f \in Files : OtherWrites(f) \/ OtherDeletes(f)
  \/ Crash

Spec == Init /\ [][Next]_vars

FairSpec == Spec /\ \A t \in Tabs : WF_vars(Proceed(t))

-----------------------------------------------------------------------------
(* Properties.                                                              *)

\* Every variable has a value the program can give it.
TypeOK ==
  /\ disk \in [Files -> Versions \cup {None}]
  /\ strays \subseteq [file : Files, version : Versions]
  /\ pc \in [Tabs -> {"closed", "loading", "open"} \cup Saves]
  /\ path \in [Tabs -> Files \cup {None}]
  /\ identity \in [Tabs -> Stamps \cup {None}]
  /\ base \in [Tabs -> Versions \cup {None}]
  /\ unsaved \in [Tabs -> BOOLEAN]
  /\ kind \in [Tabs -> {None, "save", "saveAs", "mark"}]
  /\ target \in [Tabs -> Files \cup {None}]
  /\ temp \in [Tabs -> Forms \cup {None}]
  /\ aside \in [Tabs -> Versions \cup {None}]
  /\ clock \in Stamps
  /\ newest \in [Files -> Stamps]
  /\ writer \in [Files -> Tabs \cup {None}]
  /\ raced \subseteq Tabs
  /\ restored \subseteq Files
  /\ others \in 0 .. MaxOthers

\* An open document whose file still is the one it remembers has a worker
\* that holds the bytes of that very version: identity and worker are
\* brought up to date in two steps (load_with, save), with other programs
\* between them, and undo and the next save start from what the worker has.
\* Only a save that puts an earlier version back can make it the remembered
\* one again, after the worker has read another.
IdentityIsOfBase ==
  \A t \in Tabs :
    pc[t] = "open" /\ base[t] # None /\ UnchangedOnDisk(t)
    /\ path[t] \notin restored
      => base[t] = disk[path[t]]

\* A tab whose file still has the version it wrote itself knows that version: its
\* next save is not refused as another program's change, and its worker is not
\* taken for one of an older file (save: the identity is taken again, after the
\* replacement and of the file saved to, as others write, fail and restore).
OwnVersionIsKnown ==
  \A t \in Tabs :
    pc[t] = "open" /\ path[t] \notin restored /\ disk[path[t]] # None
    /\ writer[path[t]] = t
      => identity[t] = disk[path[t]].stamp

\* A document saved to its own file (or marked) replaces the version its
\* worker has it from, unless the file changed after the save looked at it
\* (save, set_sensitive: ChangedOnDisk).
ReplacesItsBase ==
  [][\A t \in Tabs :
       pc[t] = "checked" /\ pc'[t] = "aside" /\ kind[t] # "saveAs"
       /\ t \notin raced /\ target[t] \notin restored
       => disk[target[t]] = base[t]]_vars

\* Every save ends, but one that waits for its file to be opened again: a worker
\* that does not answer is given up, and each outcome of replacing the file leads
\* on (SAVE_TIMEOUT, replace_file).
SavesEnd ==
  \A t \in Tabs : pc[t] \in Saves /\ ~Reopening(t) ~> pc[t] \notin Saves

\* Saving keeps what FileStore promises.
Kept(f) ==
  ({disk[f]} \ {None})
    \cup {aside[t] : t \in {u \in Tabs : target[u] = f /\ aside[u] # None}}
    \cup {s.version : s \in {r \in strays : r.file = f}}

Store == INSTANCE FileStore WITH kept <- [f \in Files |-> Kept(f)]

KeepsVersions == Store!Spec

-----------------------------------------------------------------------------
(* What the documentation says, and the code does not keep.                 *)

\* "If that fails, the destination is as it was" (Temporary::replace): the
\* original that was moved aside has its name again when the error is told.
FailureLeavesFile ==
  [][\A t \in Tabs :
       pc[t] = "putBack" /\ pc'[t] = "open"
       => disk'[target[t]] = aside[t]]_vars

\* "They do not overwrite each other" (docs/architecture/saving.md): a tab
\* that saves to its own file never replaces a version it does not know.
TabsDoNotOverwrite ==
  [][\A t \in Tabs :
       pc[t] = "checked" /\ pc'[t] = "aside" /\ kind[t] # "saveAs"
       => disk[target[t]].stamp = identity[t]]_vars
=============================================================================
