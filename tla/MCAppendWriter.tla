-------------------------- MODULE MCAppendWriter --------------------------
(* AppendWriter with blocks of two bytes and batches of one to three.     *)
EXTENDS AppendWriter, TLC

CONSTANTS a, b

MCBatches == {<<a>>, <<b>>, <<a, b>>, <<b, a, b>>}
=============================================================================
