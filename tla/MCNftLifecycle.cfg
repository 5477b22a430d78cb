SPECIFICATION Spec
CONSTANTS
  a = a
  b = b
  c = c
  Null = Null
  Nfts <- ThreeNfts
  Owners <- ThreeOwners
  PageSeq <- FourPages
  StartPages <- SellerPages
  Offers <- TwoSteps
  MaxHead = 3
  MaxTxs = 3
SYMMETRY Others
INVARIANTS OwnerCorrect OffersExact SalesExact LifeExact
CHECK_DEADLOCK FALSE
