--------------------------- MODULE MCMMUSolution1 ---------------------------
(* A small instance: two TLB entries, three frames, five pages; line 5 is  *)
(* beyond the logical address space and wraps to page 0.                   *)
EXTENDS MMUSolution1

MCLines == 0 .. 5
=============================================================================
