--------------------------- MODULE MCAsyncWriter ---------------------------
(* AsyncWriter with one or two submitters.  They are interchangeable.      *)
EXTENDS AsyncWriter, TLC

CONSTANTS s1, s2

SubmitterSymmetry == Permutations(Submitters)
=============================================================================
