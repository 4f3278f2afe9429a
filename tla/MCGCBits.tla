------------------------------ MODULE MCGCBits ------------------------------
(* GCBits on a small instance, with the mutants of its properties. *)
EXTENDS GCBits
=============================================================================
