--------------------------- MODULE MCMMUSolution2 ---------------------------
(* A small instance: two TLB entries, three frames, five pages; the lines  *)
(* hold the addresses of these pages, of the first one beyond them, and a  *)
(* negative number, which as an unsigned address is far beyond them.       *)
EXTENDS MMUSolution2

MCLines == -1 .. 5
=============================================================================
