----------------------------- MODULE MCPageBits -----------------------------
(* PageBits on chunks of three words of five bits: every one of the 2^15    *)
(* bitmaps is reached, runs cross one and two word boundaries, and a run    *)
(* inside a word can be longer than one that touches its edge.              *)
EXTENDS PageBits
=============================================================================
