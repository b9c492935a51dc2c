----------------------------- MODULE FileStore -----------------------------
(***************************************************************************)
(* What saving promises whoever owns the files, whatever happens to the     *)
(* app or its workers: nothing cut short is ever put under a file's name,   *)
(* and the app removes a version of a file only once a newer one has taken  *)
(* the name.  Until then the version is on the disk, if need be under       *)
(* another name.  Other programs do as they like.  Saving implements this   *)
(* specification.                                                           *)
(***************************************************************************)
EXTENDS Naturals

CONSTANTS Files, Versions    \* Versions: [stamp, form]

VARIABLES
  kept,       \* the versions of each file on the disk, under whatever name
  newest,     \* the stamp of the last version that got the file's name
  others      \* what other programs have done, counted

vars == <<kept, newest, others>>

Init ==
  /\ kept \in [Files -> {{v} : v \in Versions}]
  /\ newest = [f \in Files |-> (CHOOSE v \in kept[f] : TRUE).stamp]
  /\ others = 0

\* A new version that is not cut short gets the name.
Put(f) ==
  /\ \E v \in Versions :
       /\ v.form # "cut" /\ v.stamp > newest[f]
       /\ kept' = [kept EXCEPT ![f] = @ \cup {v}]
       /\ newest' = [newest EXCEPT ![f] = v.stamp]
  /\ UNCHANGED others

\* A version that another has replaced is removed.
Remove(f) ==
  /\ \E v \in kept[f] :
       /\ v.stamp < newest[f]
       /\ kept' = [kept EXCEPT ![f] = @ \ {v}]
  /\ UNCHANGED <<newest, others>>

\* Another program writes over the version under the name, or deletes it.
Other(f) ==
  /\ others' = others + 1
  /\ kept' \in [Files -> SUBSET Versions]
  /\ \A g \in Files \ {f} : kept'[g] = kept[g] /\ newest'[g] = newest[g]
  /\ newest'[f] >= newest[f] /\ DOMAIN newest' = Files

Next == \E f \in Files : Put(f) \/ Remove(f) \/ Other(f)

Spec == Init /\ [][Next]_vars
=============================================================================
