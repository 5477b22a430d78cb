--------------------------- MODULE MCPoolReserves ---------------------------
(* PoolReserves on a small instance: the pool holds one drop or two. *)
EXTENDS PoolReserves

OneOrTwo == {1, 2}
=============================================================================
