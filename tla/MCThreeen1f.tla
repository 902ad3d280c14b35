---------------------------- MODULE MCThreeen1f ----------------------------
(* Two children; the ranges 1..4 and 5..6, the second in the steps of the  *)
(* first; 3 alone needs seven steps and reaches 16.                        *)
EXTENDS Threeen1f

MCLines == <<[first |-> 1, last |-> 4, blk |-> 0], [first |-> 5, last |-> 6, blk |-> 1]>>
=============================================================================
