------------------------------- MODULE MCLists -------------------------------
(* TLC instance of Lists.                                                  *)
EXTENDS Lists

CONSTANTS h1, h2, e1, e2, e3

MCSymmetry == Permutations(Heads) \cup Permutations(Entries)
=============================================================================
