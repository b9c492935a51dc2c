---------------------------- MODULE MCJournals -----------------------------
(***************************************************************************)
(* Small instances of Journals for TLC.                                     *)
(***************************************************************************)
EXTENDS Journals, TLC

CONSTANTS t1, t2, f, g

TwoTabs == {t1, t2}

\* Tabs are alike, and so are files; journals are not, their names have an order.
Alike == Permutations(TwoTabs)
AlikeToo == Alike \cup Permutations({f, g})
=============================================================================
