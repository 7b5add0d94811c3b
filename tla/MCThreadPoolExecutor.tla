------------------------ MODULE MCThreadPoolExecutor ------------------------
(* Model values for checking ThreadPoolExecutor with TLC. *)
EXTENDS ThreadPoolExecutor, TLC

CONSTANTS r1, r2, r3

Symmetry == Permutations(Runnable)
=============================================================================
