--------------------------- MODULE MCSpanZeroing ---------------------------
(* SpanZeroing on a heap of two small arenas. *)
EXTENDS SpanZeroing
=============================================================================
