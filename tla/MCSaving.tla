------------------------------ MODULE MCSaving ------------------------------
(***************************************************************************)
(* Small instances of Saving for TLC.                                       *)
(***************************************************************************)
EXTENDS Saving

CONSTANTS t1, t2, f, g

OneTab   == {t1}
TwoTabs  == {t1, t2}
OneFile  == {f}
TwoFiles == {f, g}

=============================================================================
