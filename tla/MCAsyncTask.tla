---------------------------- MODULE MCAsyncTask ----------------------------
(* Model values for checking AsyncTask with TLC. *)
EXTENDS AsyncTask

CONSTANTS t1, t2
=============================================================================
