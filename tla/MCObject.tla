------------------------------ MODULE MCObject ------------------------------
(* Threads for checking Object with TLC: all but the maker are alike.        *)
EXTENDS Object, TLC

Symmetry == Permutations(Thread \ {Maker})
=============================================================================
