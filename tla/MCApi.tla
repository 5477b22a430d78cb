-------------------------------- MODULE MCApi --------------------------------
EXTENDS ApiServer
CONSTANTS k1, c1, c2

At(s, v) == [seq |-> s, value |-> v]
Points2(holders) == [m \in {"holders", "trustlines", "supply", "marketcap"} |-> holders]
Listed(i, points) ==
  [id |-> i, kind |-> "IOU", code |-> i, issuer |-> "i", first |-> 1, name |-> None, trust |-> None,
   meta |-> FALSE, stats |-> {[marketcap |-> 0, volume24h |-> 0, volume7d |-> 0, trades24h |-> 0]},
   points |-> Points2(points)]
Db(top) ==
  LET Seen(points) == {p \in points : p.seq <= top} IN
  [ledgers |-> 1..top, accounts |-> {}, trades |-> {}, xrp |-> 0,
   tokens |-> {t \in {Listed(1, {At(1, 1)}), Listed(2, Seen({At(2, 1), At(3, 2)})), Listed(3, {At(1, 1)})} :
                 t.id = 2 => top > 1},
   balances |-> {[account |-> "a", token |-> 1, seq |-> 1, balance |-> 1],
                 [account |-> "b", token |-> 1, seq |-> 1, balance |-> 1]}]
Ledgers3 == <<Db(1), Db(2), Db(3)>>

Query(offset) == [limit |-> 1, offset |-> offset, sort |-> "holders", order |-> "desc",
                  search |-> {}, issuer |-> {}, type |-> {}, verified |-> FALSE]
Asked == {[route |-> "tokens", q |-> Query(0)], [route |-> "tokens", q |-> Query(1)],
          [route |-> "series", issuer |-> "i", codes |-> {2}, metric |-> "holders",
           start |-> {2}, end |-> {}, points |-> 2]}
Symmetry == Permutations(Calls)
Rows2 == {[limit |-> 1, scopes |-> {"nfts"}], [limit |-> 2, scopes |-> {"tokens"}]}

------------------------------------------------------------------------------
(* The queries by themselves, on small inputs. *)

\* A page has at least one row and no more than the endpoint allows.
ASSUME PageInBounds ==
  \A limit \in -2..4, offset \in -2..4 :
    LET p == ParsePage([limit |-> limit, offset |-> offset], 2, 3)
    IN p.limit \in 1..3 /\ p.offset >= 0 /\ (limit \in 1..3 => p.limit = limit)

\* Samples start and end with the range, ascend and are never further than half a
\* ledger from the even spacing.
ASSUME SamplesEven ==
  \A lo, hi \in 0..7, n \in 2..5 : hi > lo =>
    LET s == SampleSequence(lo, hi, n) IN
    /\ s[1] = lo /\ s[n] = hi
    /\ \A i \in 1..n-1 : s[i] <= s[i+1]
    /\ \A i \in 1..n : 2 * (s[i] - lo) * (n - 1) - 2 * (hi - lo) * (i - 1) \in -(n-1)..(n-1)

\* A history has one bucket more than its points when the window cuts both ends.
ASSUME BucketsFit ==
  \A end \in {3600, 4000, 5000}, n \in 1..4 :
    Len(StatsHistory({600 * i : i \in 0..(end \div 600)}, end, 1, n)) <= n + 1

Rich ==
  [Db(3) EXCEPT !.accounts = {[address |-> "i"]},
                !.trades = {[seq |-> 1, idx |-> 1, got |-> [token |-> 0, value |-> 6], paid |-> [token |-> 1, value |-> 2]],
                            [seq |-> 2, idx |-> 0, got |-> [token |-> 1, value |-> 0], paid |-> [token |-> 0, value |-> 3]],
                            [seq |-> 2, idx |-> 1, got |-> [token |-> 1, value |-> 2], paid |-> [token |-> 0, value |-> 8]]}]
  @@ [collections |-> {[id |-> i, issuer |-> "i", taxon |-> i, first |-> 3 - i,
                        stats |-> IF i = 2 THEN {} ELSE {[supply |-> 1, name |-> 7]}] : i \in 1..2},
      nfts |-> {[id |-> i, collection |-> 1, issuer |-> "i", serial |-> 3 - i, owner |-> "a", live |-> i # 3,
                 minted |-> IF i = 1 THEN None ELSE i] : i \in 1..3},
      offers |-> {[nft |-> 1, created |-> 1, closed |-> None], [nft |-> 1, created |-> 2, closed |-> 3]},
      sales |-> {[nft |-> 1, seq |-> 2, idx |-> i] : i \in 0..1},
      amms |-> {[seq |-> 1], [seq |-> 2]}, vaults |-> {}, oracles |-> {},
      snapshots |-> {7000, 7100}, time |-> 7200]

CollectionQuery(sort) ==
  [limit |-> 5, offset |-> 0, sort |-> sort, order |-> "asc", search |-> {}, issuer |-> {}, named |-> FALSE]

\* What the queries answer on one small database.
ASSUME Examples ==
  /\ PriceAsOf(Rich, 1, 1) = <<6, 2>> /\ LastPriceXrp(Rich, 1) = <<8, 2>> /\ LastPriceXrp(Rich, 2) = <<>>
  /\ \A a \in ListCollections(Rich, CollectionQuery("age")) : a.rows[1].id = 2 /\ a.total = 2
  /\ \A a \in ListCollections(Rich, CollectionQuery("name")) : a.rows[1].id = 1   \* nulls are last
  /\ \A a \in CollectionOf(Rich, "i", 1) : a.live = 2 /\ a.total = 3
  /\ \A s \in CollectionNfts(Rich, "i", 1, Query(0)) : s[1].id = 3
  /\ \A s \in AccountNfts(Rich, "a", Query(0)) : s[1].id = 1   \* nulls are first
  /\ \A s \in Sales(Rich, 1) : s[1].idx = 1
  /\ \A s \in OpenOffers(Rich, 1) : Len(s) = 1
  /\ Cardinality(AccountHoldings(Rich, "a", "IOU", Query(0))) = 1
  /\ \A a \in TokenHolders(Rich, 1, Query(1)) : a.total = 2
  /\ TokenHolders(Rich, 1, Query(2)) = {[rows |-> <<>>, total |-> 0]}   \* beyond the end
  /\ \A a \in IssuerOf(Rich, "i") : a.tokens = 3 /\ a.nfts = 3
  /\ \A s \in ListAmm(Rich, Query(0)) : s[1].seq = 2
  /\ ServerStats(Rich).live = 2 /\ ServerStats(Rich).latest = 3
  /\ StatsHistory(Rich.snapshots, Rich.time, 1, 4) = <<7100>>
==============================================================================
