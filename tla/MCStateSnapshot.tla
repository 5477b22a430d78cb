--------------------------- MODULE MCStateSnapshot ---------------------------
(* StateSnapshot on small ledgers: accounts 1 and 2 issue, account 3 does not. *)
EXTENDS StateSnapshot

Small == {<<"line", 1, 3>>, <<"root", 1, 1>>, <<"root", 3, 3>>}
Large == {<<"line", 1, 2>>, <<"line", 2, 3>>, <<"root", 1, 1>>, <<"root", 2, 2>>, <<"root", 3, 3>>}
=============================================================================
