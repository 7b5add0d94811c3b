--------------------------- MODULE MCLoggerService ---------------------------
(* Sizes for checking LoggerService with TLC: two records of the main log    *)
(* can fill a buffer of 5 cells exactly; of the test log, one does and one   *)
(* is too long.                                                              *)
EXTENDS LoggerService

RecordSizes == [main |-> {1, 2}, test |-> {4, 5}]
=============================================================================
