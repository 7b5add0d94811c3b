-------------------------- MODULE MCHandlerThread --------------------------
(* Model values for checking HandlerThread with TLC. *)
EXTENDS HandlerThread

CONSTANTS c1, c2, c3
=============================================================================
