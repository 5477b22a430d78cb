------------------------------ MODULE MCXrplPool ------------------------------
(* Constants for checking the connection pool with TLC. *)
EXTENDS XrplPool
=============================================================================
