----------------------------- MODULE MCDelivery -----------------------------
(* Delivery with one or two sink workers.                                  *)
EXTENDS Delivery

CONSTANTS w1, w2
=============================================================================
