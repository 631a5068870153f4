------------------------------ MODULE MCHealth ------------------------------
(* Health with two recording threads.                                      *)
EXTENDS Health

CONSTANTS t1, t2

=============================================================================
