--------------------------- MODULE MCNftLifecycle ---------------------------
(* NftLifecycle on small instances: up to three NFTs, a sell and a buy offer for one. *)
EXTENDS NftLifecycle, TLC

CONSTANTS a, b, c

ThreeNfts == {a, b, c}
ThreeOwners == {1, 2, 3}
SellerPages == {<<1, 1>>, <<1, 2>>}
FourPages == <<<<1, 1>>, <<1, 2>>, <<2, 1>>, <<3, 1>>>>
Others == Permutations({b, c})
TwoSteps == {<<a, 1, TRUE>>, <<a, 3, FALSE>>}
=============================================================================
