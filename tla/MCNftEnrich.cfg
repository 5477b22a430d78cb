SPECIFICATION FairSpec
CONSTANTS
  i1 = i1
  i2 = i2
  i3 = i3
  i4 = i4
  a = a
  b = b
  c = c
  d = d
  e = e
  f = f
  g = g
  h = h
  Issuers = {i1, i2, i3, i4}
  Listed <- Listings
  BurnedThere = {b}
  Starts <- Tables
  Answers <- FullOrEmpty
  Nfts <- AllNfts
  IssuerOf <- Issued
  UriOf <- Uris
  MaxRedirects = 1
  Gateways = 2
  Max429 = 2
  Failing = {i2}
  Reach = 2
  IssuerBatch = 2
  NftBatch = 2
  MaxCopies = 2
  MaxFaults = 1
INVARIANT CatalogCovers
PROPERTY DataKept EveryIssuerPulled EveryNftTried
CHECK_DEADLOCK FALSE
