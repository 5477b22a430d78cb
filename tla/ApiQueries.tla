------------------------------ MODULE ApiQueries ------------------------------
(***************************************************************************)
(* The read queries of the public API (apps/api/src/queries) over the      *)
(* tables one ledger leaves behind.  A statement whose ORDER BY does not   *)
(* determine the order returns a set of possible results.                  *)
(***************************************************************************)
EXTENDS Integers, Sequences, FiniteSets, SequencesExt

None == -1           \* SQL null, for columns that hold naturals
Capped == 2147483647

------------------------------------------------------------------------------
(* queries/common.ts *)

Larger(x, y)  == IF x > y THEN x ELSE y
Smaller(x, y) == IF x < y THEN x ELSE y

\* A limit or offset that is missing or not a number is 0.
ParsePage(q, def, max) ==
  [limit  |-> Smaller(Larger(IF q.limit = 0 THEN def ELSE q.limit, 1), max),
   offset |-> Larger(q.offset, 0)]

ParseList(q, sortable, default) ==
  [page |-> ParsePage(q, 25, 200),
   sort |-> IF q.sort \in sortable THEN q.sort ELSE default,
   order |-> IF q.order = "asc" THEN "asc" ELSE "desc"]

\* What a history gains while ledgers are indexed above one.
Above(old, new, seq) == old \subseteq new /\ \A p \in new \ old : p.seq \in Nat /\ p.seq > seq

AsOf(points, cap) ==
  LET old == {p \in points : p.seq <= cap}
  IN IF old = {} THEN None ELSE (CHOOSE p \in old : \A q \in old : q.seq <= p.seq).value

Newest(points) == AsOf(points, Capped)

OldestLedger(db) == IF db.ledgers = {} THEN 0 ELSE Min(db.ledgers)
NewestLedger(db) == IF db.ledgers = {} THEN 0 ELSE Max(db.ledgers)

\* A price is a fraction, or none when its denominator is 0.
Price(trade, id) ==
  LET sold == trade.got.token = id
      num  == IF sold THEN trade.paid.value ELSE trade.got.value
      den  == IF sold THEN trade.got.value ELSE trade.paid.value
  IN IF den = 0 THEN <<>> ELSE <<num, den>>

PriceAsOf(db, id, cap) ==
  LET log == {x \in db.trades : /\ x.seq <= cap
                                /\ {x.got.token, x.paid.token} = {id, db.xrp}}
      After(x, y) == x.seq > y.seq \/ (x.seq = y.seq /\ x.idx >= y.idx)
  IN IF log = {} THEN <<>> ELSE Price(CHOOSE x \in log : \A y \in log : After(x, y), id)

LastPriceXrp(db, id) == PriceAsOf(db, id, Capped)

\* Evenly spaced ledgers, each rounded to the nearest.
SampleSequence(start, end, points) ==
  IF points <= 1 \/ end <= start THEN <<end>>
  ELSE [i \in 1..points |->
          start + (2 * (end - start) * (i - 1) + points - 1) \div (2 * (points - 1))]

------------------------------------------------------------------------------
(* ORDER BY, LIMIT and OFFSET *)

\* A row with key x may come before one with key y; nulls are last in both (NULLS LAST).
MayPrecede(order, x, y) ==
  y = None \/ (x # None /\ IF order = "asc" THEN x <= y ELSE x >= y)

\* The orders by a key (row -> column) that ORDER BY leaves open.
Orders(rows, key, order) ==
  {s \in SetToSeqs(rows) :
     \A i, j \in DOMAIN s : i < j => MayPrecede(order, key[s[i]], key[s[j]])}

(* Mutant: rows with equal keys come in no particular order. *)
AnyOfEqual(rows, key, order) == Orders(rows, key, order)

\* With the id as the last criterion one order is left.
TieBroken(rows, key, order) ==
  {s \in Orders(rows, key, order) :
     \A i, j \in DOMAIN s : (i < j /\ key[s[i]] = key[s[j]]) => s[i].id < s[j].id}

Slice(s, page) == SubSeq(s, page.offset + 1, Smaller(page.offset + page.limit, Len(s)))

Slices(orders, page) == {Slice(s, page) : s \in orders}

\* The total comes with each row, so that a page beyond the end says 0.
WithTotal(slice, rows) ==
  [rows |-> slice, total |-> IF slice = <<>> THEN 0 ELSE Cardinality(rows)]

------------------------------------------------------------------------------
(* queries/tokens.ts *)

\* The ids of the token.  A currency matches as it is given or in its hex form.
ResolveIou(db, issuer, codes) ==
  {t.id : t \in {t \in db.tokens : t.kind = "IOU" /\ t.issuer = issuer /\ t.code \in codes}}

ResolveMpt(db, issuance) == {t.id : t \in {t \in db.tokens : t.kind = "MPT" /\ t.code = issuance}}

Coalesced0(x) == IF x = None THEN 0 ELSE x

MetricNow(t, metric) == Coalesced0(Newest(t.points[metric]))

Stat(row, column) == IF row.stats = {} THEN 0 ELSE (CHOOSE s \in row.stats : TRUE)[column]

TokenSorts == {"holders", "trustlines", "supply", "marketcap", "volume24h", "volume7d",
               "trades24h", "age", "name"}

TokenKey(t, sort) ==
  CASE sort = "age"  -> t.first
    [] sort = "name" -> t.name
    [] sort \in {"marketcap", "volume24h", "volume7d", "trades24h"} -> Stat(t, sort)
    [] OTHER -> MetricNow(t, sort)

\* Without a search or an issuer, tokens without statistics are hidden.
TokenMatches(t, q) ==
  /\ t.kind # "XRP"
  /\ (q.search = {} /\ q.issuer = {}) => t.stats # {}
  /\ q.type # {} => t.kind \in q.type
  /\ q.issuer # {} => t.issuer \in q.issuer
  /\ q.verified => Coalesced0(t.trust) >= 2
  /\ q.search # {} => {t.name, t.code, t.issuer} \cap q.search # {}

\* What a list shows of a token.
ShownToken(t) ==
  [id |-> t.id, holders |-> MetricNow(t, "holders"), trustlines |-> MetricNow(t, "trustlines"),
   supply |-> MetricNow(t, "supply"), trust |-> t.trust, name |-> t.name]

ParseTokens(q) == ParseList(q, TokenSorts, "holders")

ListedTokens(db, q) == {t \in db.tokens : TokenMatches(t, q)}

Shown(slice) == [i \in DOMAIN slice |-> ShownToken(slice[i])]

\* The list from one row to another.
TokenPage(db, q, page) ==
  LET p    == ParseTokens(q)
      rows == ListedTokens(db, q)
      key  == [t \in rows |-> TokenKey(t, p.sort)]
  IN {WithTotal(Shown(slice), rows) : slice \in Slices(TieBroken(rows, key, p.order), page)}

ListTokens(db, q) == TokenPage(db, q, ParseTokens(q).page)

\* The newest balance of each account, of each token.
Latest(balances) ==
  {b \in balances : \A c \in balances :
     (c.account = b.account /\ c.token = b.token) => c.seq <= b.seq}

\* Ordered by the balance alone.
TokenHolders(db, id, page) ==
  LET positive == {b \in Latest({b \in db.balances : b.token = id}) : b.balance > 0}
      key == [b \in positive |-> b.balance]
  IN {WithTotal(slice, positive) : slice \in Slices(Orders(positive, key, "desc"), page)}

AccountHoldings(db, account, kind, page) ==
  LET OfKind(b) == \E t \in db.tokens : t.id = b.token /\ t.kind = kind
      held == {b \in Latest({b \in db.balances : b.account = account}) :
                 b.balance > 0 /\ OfKind(b)}
  IN Slices(Orders(held, [b \in held |-> b.balance], "desc"), page)

------------------------------------------------------------------------------
(* queries/nfts.ts and queries/accounts.ts *)

CollectionSorts == {"supply", "holders", "volume24h", "volume7d", "volumeAll",
                    "trades24h", "trades7d", "age", "name"}

CollectionName(c) == IF c.stats = {} THEN None ELSE Stat(c, "name")

CollectionKey(c, sort) ==
  CASE sort = "age"  -> c.first
    [] sort = "name" -> CollectionName(c)
    [] OTHER -> Stat(c, sort)

ListCollections(db, q) ==
  LET p == ParseList(q, CollectionSorts, "supply")
      Matches(c) == /\ q.issuer # {} => c.issuer \in q.issuer
                    /\ q.named => CollectionName(c) # None
                    /\ q.search # {} => {CollectionName(c), c.issuer} \cap q.search # {}
      rows == {c \in db.collections : Matches(c)}
      key  == [c \in rows |-> CollectionKey(c, p.sort)]
  IN {WithTotal(slice, rows) : slice \in Slices(TieBroken(rows, key, p.order), p.page)}

CollectionOf(db, issuer, taxon) ==
  {[collection |-> c,
    live  |-> Cardinality({n \in db.nfts : n.collection = c.id /\ n.live}),
    total |-> Cardinality({n \in db.nfts : n.collection = c.id})] :
     c \in {c \in db.collections : c.issuer = issuer /\ c.taxon = taxon}}

CollectionNfts(db, issuer, taxon, page) ==
  LET ids == {c.id : c \in {c \in db.collections : c.issuer = issuer /\ c.taxon = taxon}}
      nfts == {n \in db.nfts : n.collection \in ids}
  IN Slices(Orders(nfts, [n \in nfts |-> n.serial], "asc"), page)

\* A plain descending order has its nulls, the stubs, first.
AccountNfts(db, account, page) ==
  LET owned == {n \in db.nfts : n.owner = account /\ n.live}
      key   == [n \in owned |-> IF n.minted = None THEN Capped ELSE n.minted]
  IN Slices(Orders(owned, key, "desc"), page)

NftRow(db, id) == {n \in db.nfts : n.id = id}

OpenOffers(db, id) ==
  LET open == {o \in db.offers : o.nft = id /\ o.closed = None}
  IN Orders(open, [o \in open |-> o.created], "desc")

\* The newest 25 sales.
Sales(db, id) ==
  LET sales == {x \in db.sales : x.nft = id}
  IN Slices({s \in Orders(sales, [x \in sales |-> x.seq], "desc") :
               \A i, j \in DOMAIN s : (i < j /\ s[i].seq = s[j].seq) => s[i].idx > s[j].idx},
            [limit |-> 25, offset |-> 0])

------------------------------------------------------------------------------
(* queries/issuers.ts, queries/defi.ts and queries/stats.ts *)

IssuerOf(db, address) ==
  {[account |-> a,
      tokens |-> Cardinality({t \in db.tokens : t.issuer = address /\ t.kind # "XRP"}),
      collections |-> Cardinality({c \in db.collections : c.issuer = address}),
      nfts |-> Cardinality({n \in db.nfts : n.issuer = address})] :
     a \in {a \in db.accounts : a.address = address}}

\* Pools by the ledger that created them, vaults and oracles by their last one.
NewestFirst(rows, page) == Slices(Orders(rows, [r \in rows |-> r.seq], "desc"), page)

ListAmm(db, page)     == NewestFirst(db.amms, page)
ListVaults(db, page)  == NewestFirst(db.vaults, page)
ListOracles(db, page) == NewestFirst(db.oracles, page)

ServerStats(db) ==
  [latest |-> IF db.ledgers = {} THEN None ELSE Max(db.ledgers),
   first  |-> IF db.ledgers = {} THEN None ELSE Min(db.ledgers),
   tokens |-> Cardinality({t \in db.tokens : t.kind # "XRP"}),
   issuers |-> Cardinality({t.issuer : t \in {t \in db.tokens : t.kind # "XRP"}}),
   nfts |-> Cardinality(db.nfts), live |-> Cardinality({n \in db.nfts : n.live}),
   collections |-> Cardinality(db.collections), accounts |-> Cardinality(db.accounts),
   described |-> Cardinality({t \in db.tokens : t.meta})]

\* The last snapshot of each bucket of the window; times and spans are in seconds.
BucketSec(hours, maxPoints) ==
  Larger(60, (2 * hours * 3600 + maxPoints) \div (2 * maxPoints))

StatsHistory(times, now, hours, maxPoints) ==
  LET inside == {t \in times : t > now - hours * 3600}
      Bucket(t) == t \div BucketSec(hours, maxPoints)
  IN SetToSortSeq({t \in inside : \A u \in inside : Bucket(u) = Bucket(t) => u <= t},
                  LAMBDA x, y : x < y)
==============================================================================
