----------------------------- MODULE MCNftEnrich -----------------------------
(***************************************************************************)
(* Three tables to begin with: the catalog of issuer i1 is read, of which  *)
(* h is out of reach, while the indexer writes a; the pull of i2 fails for *)
(* ever and those of i3 and i4 bring nothing, with scans that take two     *)
(* issuers; and three NFTs of i3 are in no catalog, two of them of a URI   *)
(* nobody can fetch, with scans that take two NFTs.                        *)
(***************************************************************************)
EXTENDS NftEnrich, TLC
CONSTANTS i1, i2, i3, i4, a, b, c, d, e, f, g, h

AllNfts     == {a, b, c, d, e, f, g, h}
Issued      == [n \in AllNfts |-> CASE n \in {a, b, h} -> i1 [] n = c -> i2 [] n = g -> i4 [] OTHER -> i3]
Uris        == [n \in AllNfts |-> IF n \in {e, f, h} THEN "unknown" ELSE "ipfs"]
Listings    == [i \in Issuers |-> IF i = i1 THEN <<a, b, h>> ELSE <<>>]
FullOrEmpty == {{}, Fields}

Rows(S, state) == [n \in AllNfts |-> IF n \in S THEN state ELSE "none"]
Tables == { [rows |-> Rows({h}, "full"), coming |-> {a}],
            [rows |-> Rows({c, e, g}, "gone"), coming |-> {}],
            [rows |-> Rows({d, e, f}, "full"), coming |-> {}] }
==============================================================================
