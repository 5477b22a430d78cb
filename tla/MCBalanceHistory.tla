-------------------------- MODULE MCBalanceHistory --------------------------
(* BalanceHistory on small instances: accounts 1 < 2 < 3, the MPT is 4. *)
EXTENDS BalanceHistory

\* Both holders are the low ends of their lines with issuer 3.
LowHolders == {<<"line", 1, 3>>, <<"line", 2, 3>>}
\* Either end of the line may be the holder.
OneLine == {<<"line", 1, 2>>}
\* Two holders of an MPT of issuer 3.
OneMpt == {<<"issuance", 3, 4>>, <<"mptoken", 1, 4>>, <<"mptoken", 2, 4>>}

AllWorlds == {LowHolders, OneLine, OneMpt}
LineWorlds == {OneLine}

Signed(o) == IF o \in OneLine THEN {-1, 0, 1} ELSE {0, 1}
=============================================================================
