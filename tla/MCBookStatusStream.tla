------------------------- MODULE MCBookStatusStream -------------------------
(* Small instances of BookStatusStream. *)
EXTENDS BookStatusStream

CONSTANTS b1, b2, t1, t2, k1, k2, i1
=============================================================================
