---------------------------- MODULE MCConnection ----------------------------
(* Connection on small instances: two pieces of one byte that differ, and    *)
(* an empty one; headers within every limit and just beyond it.             *)
EXTENDS Connection, TLC

CONSTANTS pa, pb, pe, r1, r2, x, y

MCSize == pa :> 1 @@ pb :> 1 @@ pe :> 0

=============================================================================
