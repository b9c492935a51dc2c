------------------------------ MODULE MCTextIndex ------------------------------
EXTENDS TextIndex, TLC

\* Nothing orders the files.
AnyFile == Permutations(Files)
=============================================================================
