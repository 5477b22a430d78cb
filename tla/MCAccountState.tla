--------------------------- MODULE MCAccountState ---------------------------
(* AccountState on a small instance: two domains. *)
EXTENDS AccountState

CONSTANTS d1, d2
TwoDomains == {d1, d2}
OneDomain == {d1}
=============================================================================
