--------------------------- MODULE MCLedgerIngest ---------------------------
(* LedgerIngest on small instances; the values are in the .cfg files. *)
EXTENDS LedgerIngest
=============================================================================
