----------------------------- MODULE MCEditing -----------------------------
(***************************************************************************)
(* Small instances of Editing for TLC.                                      *)
(***************************************************************************)
EXTENDS Editing

CONSTANTS a, b, small, large

\* Two documents other programs write: with one page, and with two.
TwoBases == {small, large}
PagesOf  == [c \in TwoBases |-> IF c = small THEN 1 ELSE 2]
OneBase  == {small}
OnePage  == [c \in OneBase |-> 1]

LargeBase == {large}
TwoPages  == [c \in LargeBase |-> 2]
=============================================================================
