------------------------------- MODULE ApiServer -------------------------------
(***************************************************************************)
(* The API process (apps/api): API keys, the sliding-window rate limit,    *)
(* the response cache and the handlers, whose statements interleave with   *)
(* the ledgers the indexer commits.                                        *)
(***************************************************************************)
EXTENDS ApiQueries

CONSTANTS
  Keys, Calls,    \* API keys and places for requests in flight
  Requests,       \* what clients ask for
  Contents,       \* the database after each ledger
  KeyRows,        \* the rows a key may be given: [limit, scopes]
  Window, Sec,    \* clock ticks in the rate window and in a second
  Ttl, HoldersTtl, MaxEntries,
  MaxQuery,       \* ticks all statements of a handler take (each is bounded by statement_timeout)
  MaxTime, MaxCalls, MaxAdmin   \* bounds: ticks, requests, admin operations

ASSUME TimesAssumption ==
  /\ Window \in Nat /\ Sec \in Nat \ {0}
  /\ Ttl \in Nat /\ HoldersTtl \in Nat /\ MaxQuery \in Nat
  /\ MaxEntries \in Nat \ {0}
  /\ MaxTime \in Nat /\ MaxCalls \in Nat /\ MaxAdmin \in Nat
\* The limit is an integer column that nobody checks.
ASSUME RowsAssumption == \A r \in KeyRows : r.limit \in Int
\* Ids are unique, and what is sorted by is a number.
ASSUME ContentsAssumption ==
  /\ Len(Contents) \in Nat \ {0} /\ DOMAIN Contents = 1..Len(Contents)
  /\ \A n \in DOMAIN Contents :
       /\ Contents[n].ledgers \subseteq Nat /\ IsFiniteSet(Contents[n].ledgers)
       /\ IsFiniteSet(Contents[n].tokens)
       /\ \A t, u \in Contents[n].tokens : t.id = u.id => t = u
       /\ \A t \in Contents[n].tokens : t.id \in Int /\ \A sort \in TokenSorts : TokenKey(t, sort) \in Int
\* Live sync adds rows of ledgers above the newest one and takes none away.
ASSUME HistoryAssumption ==
  \A n, m \in DOMAIN Contents : n <= m =>
    LET db == Contents[n]
        top == NewestLedger(db)
    IN /\ top <= NewestLedger(Contents[m]) /\ Contents[m].xrp = db.xrp
       /\ Above(db.trades, Contents[m].trades, top)
       /\ \A t \in db.tokens : \E u \in Contents[m].tokens :
            u.id = t.id /\ \A metric \in DOMAIN t.points : Above(t.points[metric], u.points[metric], top)
\* The parameters are parsed, an optional one is a set; a metric is one that tokens have.
ASSUME RequestsAssumption ==
  \A r \in Requests :
    /\ r.route = "tokens" =>
         /\ DOMAIN r = {"route", "q"} /\ r.q.limit \in Int /\ r.q.offset \in Int
         /\ DOMAIN r.q = {"limit", "offset", "sort", "order", "search", "issuer", "type", "verified"}
    /\ r.route = "series" =>
         /\ r.start \subseteq Int /\ r.end \subseteq Int /\ r.points \in Int
         /\ r.metric # "price" => \A n \in DOMAIN Contents : \A t \in Contents[n].tokens : r.metric \in DOMAIN t.points

VARIABLES
  now, seq,       \* the clock, the newest ledger in the database
  keys,           \* key -> its row
  windows,        \* key -> the times of the hits of its window
  cache,          \* the response cache, oldest entry first
  calls,          \* call -> where its request is
  admitted,       \* history: key -> its hits since the process started
  arrived, changed

keyVars     == <<keys, changed>>
processVars == <<windows, cache, admitted>>
vars == <<now, seq, keyVars, processVars, calls, arrived>>

Idle     == [phase |-> "idle"]
NoRow    == [limit |-> 0, scopes |-> {}, valid |-> FALSE]
KeyRow(r) == [limit |-> r.limit, scopes |-> r.scopes, valid |-> TRUE]

Init ==
  /\ now = 0 /\ seq = 1
  /\ keys \in [Keys -> {NoRow} \cup {KeyRow(r) : r \in KeyRows}]
  /\ windows = [k \in Keys |-> <<>>] /\ admitted = [k \in Keys |-> <<>>]
  /\ cache = <<>>
  /\ calls = [c \in Calls |-> Idle]
  /\ arrived = 0 /\ changed = 0

------------------------------------------------------------------------------
(* Admin operations, each a single UPDATE or INSERT; a key that does not   *)
(* exist and one that is revoked are both not valid.                       *)

SetKey(k, row) ==
  /\ changed < MaxAdmin
  /\ keys' = [keys EXCEPT ![k] = row]
  /\ changed' = changed + 1
  /\ UNCHANGED <<now, seq, processVars, calls, arrived>>

CreateKey(k) == keys[k] = NoRow /\ \E r \in KeyRows : SetKey(k, KeyRow(r))

RevokeKey(k) == keys[k].valid /\ SetKey(k, [keys[k] EXCEPT !.valid = FALSE])

\* A patch of a revoked key changes its row and leaves it revoked.
PatchKey(k) ==
  /\ keys[k] # NoRow
  /\ \E r \in KeyRows : LET row == [keys[k] EXCEPT !.limit = r.limit, !.scopes = r.scopes]
                         IN row # keys[k] /\ SetKey(k, row)

------------------------------------------------------------------------------
(* The routes: what each statement of a handler reads. *)

Uncached == {"mptSeries", "accountNfts", "accountTokens", "accountMpts"}

TtlOf(r) ==
  IF r.route \in Uncached THEN 0
  ELSE IF r.route \in {"holders", "series", "mptHolders"} THEN HoldersTtl ELSE Ttl

Scope(r) ==
  CASE r.route \in {"stats", "history"} -> "stats"
    [] r.route \in {"nft", "image", "collections", "collection", "collectionNfts", "accountNfts"} -> "nfts"
    [] r.route = "amm" -> "amm"
    [] r.route = "vaults" -> "vaults"
    [] r.route = "oracles" -> "oracles"
    [] OTHER -> "tokens"

Points(r) == Smaller(Larger(IF r.points = 0 THEN 50 ELSE r.points, 2), 1000)

Part(name) == <<name, 0>>

Resolved(got) == got[Part("resolve")]

Resolve(db, r) ==
  IF r.route \in {"mpt", "mptHolders", "mptSeries"} THEN ResolveMpt(db, r.issuance)
  ELSE ResolveIou(db, r.issuer, r.codes)

\* The row of the resolved token: rows of the token table are never deleted.
TokenRow(db, got) == CHOOSE t \in db.tokens : t.id = Resolved(got)

\* The bounds of a series: what is asked for, be it 0, else the oldest and the newest ledger.
SeriesRange(db, r) ==
  [lo |-> IF r.start # {} THEN CHOOSE x \in r.start : TRUE ELSE OldestLedger(db),
   hi |-> IF r.end # {} THEN CHOOSE x \in r.end : TRUE ELSE NewestLedger(db)]

SampleLedgers(r, range) == SampleSequence(range.lo, range.hi, Points(r))

MetricAt(db, t, metric, ledger) ==
  IF metric = "price" THEN PriceAsOf(db, t.id, ledger) ELSE AsOf(t.points[metric], ledger)

(* Mutant: every sample is the newest value. *)
SampleNewest(db, r, i, got) == MetricAt(db, TokenRow(db, got), r.metric, Capped)

Sample(db, r, i, got) ==
  MetricAt(db, TokenRow(db, got), r.metric, SampleLedgers(r, got[Part("range")])[i])

\* Statements in their order; those of one stage run together.
Stages(r, got) ==
  CASE r.route \in {"token", "mpt"} ->
         <<{Part("resolve")}, {Part("issuer")}, {Part("meta")},
           {Part("holders"), Part("trustlines"), Part("supply")}, {Part("price")}>>
    [] r.route \in {"holders", "mptHolders"} -> <<{Part("resolve")}, {Part("rows")}>>
    [] r.route \in {"series", "mptSeries"} ->
         <<{Part("resolve")}, {Part("range")}>>
           \o (IF Part("range") \notin DOMAIN got THEN <<>>
               ELSE [i \in DOMAIN SampleLedgers(r, got[Part("range")]) |-> {<<"sample", i>>}])
    [] r.route = "nft" -> <<{Part("row")}, {Part("offers")}, {Part("sales")}>>
    [] OTHER -> <<{Part("rows")}>>

\* The statements that run next, none when the handler has read all.
NextParts(r, got) ==
  LET stages == Stages(r, got)
      open == {i \in DOMAIN stages : ~(stages[i] \subseteq DOMAIN got)}
  IN IF open = {} THEN {} ELSE stages[Min(open)] \ DOMAIN got

\* The possible results of one statement, none when the thing asked for is not there.
Read(db, r, part, got) ==
  LET name == part[1] IN
  CASE name = "resolve" -> Resolve(db, r)
    [] name = "issuer" -> {{a \in db.accounts : a.address = TokenRow(db, got).issuer}}
    [] name = "meta" -> {TokenRow(db, got).name}
    [] name \in {"holders", "trustlines", "supply"} -> {MetricNow(TokenRow(db, got), name)}
    [] name = "price" -> {LastPriceXrp(db, TokenRow(db, got).id)}
    [] name = "range" -> {SeriesRange(db, r)}
    [] name = "sample" -> {Sample(db, r, part[2], got)}
    [] name = "row" -> NftRow(db, r.nft)
    [] name = "offers" -> OpenOffers(db, r.nft)
    [] name = "sales" -> Sales(db, r.nft)
    [] OTHER ->
         CASE r.route = "tokens" -> ListTokens(db, r.q)
           [] r.route \in {"holders", "mptHolders"} ->
                TokenHolders(db, Resolved(got), ParsePage(r.q, 25, 1000))
           [] r.route = "image" -> {NftRow(db, r.nft)}
           [] r.route = "collections" -> ListCollections(db, r.q)
           [] r.route = "collection" -> CollectionOf(db, r.issuer, r.taxon)
           [] r.route = "collectionNfts" ->
                CollectionNfts(db, r.issuer, r.taxon, ParsePage(r.q, 100, 1000))
           [] r.route = "issuer" -> IssuerOf(db, r.issuer)
           [] r.route = "amm" -> ListAmm(db, ParsePage(r.q, 25, 1000))
           [] r.route = "vaults" -> ListVaults(db, ParsePage(r.q, 25, 1000))
           [] r.route = "oracles" -> ListOracles(db, ParsePage(r.q, 25, 1000))
           [] r.route = "accountNfts" -> AccountNfts(db, r.account, ParsePage(r.q, 25, 1000))
           [] r.route = "accountTokens" ->
                AccountHoldings(db, r.account, "IOU", ParsePage(r.q, 25, 1000))
           [] r.route = "accountMpts" ->
                AccountHoldings(db, r.account, "MPT", ParsePage(r.q, 25, 1000))
           [] r.route = "stats" -> {ServerStats(db)}
           [] r.route = "history" ->
                {StatsHistory(db.snapshots, db.time,
                              Smaller(Larger(IF r.hours = 0 THEN 72 ELSE r.hours, 1), 24 * 366), 240)}

------------------------------------------------------------------------------
(* The rate limit (auth.ts) *)

\* The elements of s that are in S, in their order.
Filtered(s, S) ==
  LET kept[i \in 0..Len(s)] ==
        IF i = 0 THEN <<>> ELSE IF s[i] \in S THEN Append(kept[i - 1], s[i]) ELSE kept[i - 1]
  IN kept[Len(s)]

Recent(hits) == Filtered(hits, {t \in ToSet(hits) : now - t < Window})

(* Mutant: rounded down. *)
RetryTooSoon(hits) == IF hits = <<>> THEN None ELSE (Window - (now - hits[1])) \div Sec

\* Whole seconds until the oldest hit leaves; not a number when the limit is 0.
RetryAfter(hits) ==
  IF hits = <<>> THEN None ELSE (Window - (now - hits[1]) + Sec - 1) \div Sec

------------------------------------------------------------------------------
(* The response cache (cache.ts) *)

(* Mutant: a hit makes the entry live longer. *)
Touched(entry) == [entry EXCEPT !.expires = now + TtlOf(entry.req)]

Hit(entry) == entry

Others(r) == Filtered(cache, {e \in ToSet(cache) : e.req # r})

Entries(r) == {cache[i] : i \in {i \in DOMAIN cache : cache[i].req = r}}

\* A full cache loses its oldest entry, even when the key is in it already; a key
\* that stays keeps its place.
Stored(entry) ==
  LET kept == IF Len(cache) >= MaxEntries THEN Tail(cache) ELSE cache
      Same(e) == e.req = entry.req
  IN IF \E i \in DOMAIN kept : Same(kept[i])
       THEN [i \in DOMAIN kept |-> IF Same(kept[i]) THEN entry ELSE kept[i]]
       ELSE Append(kept, entry)

------------------------------------------------------------------------------
(* A request *)

\* An answer with what was read, its age since the first statement could run, and
\* the ledger then in the database.
Replies(c, value) ==
  calls' = [calls EXCEPT ![c] = [phase |-> "done", status |-> 200, req |-> @.req, got |-> value.got,
                                 seq |-> value.seq, age |-> now - value.since]]

Fails(c, status) == calls' = [calls EXCEPT ![c] = [phase |-> "done", status |-> status]]

\* verifyKey reads the row; what the row says next does not count any more.  Nothing
\* depends on when the request came in before that.
Verify(c) ==
  /\ calls[c].phase \in {"idle", "done"} /\ arrived < MaxCalls
  /\ \E r \in Requests, k \in Keys :
       IF ~keys[k].valid THEN Fails(c, 401)
       ELSE calls' = [calls EXCEPT ![c] = [phase |-> "check", req |-> r, key |-> k, row |-> keys[k]]]
  /\ arrived' = arrived + 1
  /\ UNCHANGED <<now, seq, keyVars, processVars>>

Refuse(c) ==
  /\ calls[c].phase = "check"
  /\ LET hits == Recent(windows[calls[c].key])
     IN /\ Len(hits) >= calls[c].row.limit
        /\ calls' = [calls EXCEPT ![c] =
                       [phase |-> "done", status |-> 429, retry |-> RetryAfter(hits), limit |-> @.row.limit,
                        ages |-> [j \in DOMAIN hits |-> now - hits[j]]]]
  /\ UNCHANGED <<now, seq, keyVars, processVars, arrived>>

InScope(c) == {Scope(calls[c].req), "admin"} \cap calls[c].row.scopes # {}

\* The hit counts before the scope is looked at; then the cache answers or the
\* handler starts.
Admit(c) ==
  /\ calls[c].phase = "check"
  /\ LET k    == calls[c].key
         hits == Recent(windows[k])
         r    == calls[c].req
         hit  == {e \in Entries(r) : e.expires >= now}
     IN /\ Len(hits) < calls[c].row.limit
        /\ windows' = [windows EXCEPT ![k] = Append(hits, now)]
        /\ admitted' = [admitted EXCEPT ![k] = Append(@, [at |-> now, limit |-> calls[c].row.limit])]
        /\ \/ ~InScope(c) /\ Fails(c, 403) /\ cache' = cache
           \/ /\ InScope(c) /\ hit # {}
              /\ \E e \in hit : Replies(c, e.value) /\ cache' = Append(Others(r), Hit(e))
           \/ /\ InScope(c) /\ hit = {}
              /\ cache' = Others(r)
              /\ calls' = [calls EXCEPT ![c] =
                             [phase |-> "work", req |-> r, since |-> now, seq |-> seq, got |-> <<>>]]
  /\ UNCHANGED <<now, seq, keyVars, arrived>>

\* The value is what the statements read, with the time the first could run.
ValueOf(c) == [got |-> calls[c].got, since |-> calls[c].since, seq |-> calls[c].seq]

Statement(c) ==
  /\ calls[c].phase = "work"
  /\ LET r == calls[c].req
         got == calls[c].got
     IN \E p \in NextParts(r, got) :
          LET results == Read(Contents[seq], r, p, got) IN
          \/ results = {} /\ Fails(c, 404)
          \/ \E v \in results :
               calls' = [calls EXCEPT ![c].got = [q \in DOMAIN got \cup {p} |-> IF q = p THEN v ELSE got[q]],
                                      ![c].seq = IF got = <<>> THEN seq ELSE @]
  /\ UNCHANGED <<now, seq, keyVars, processVars, arrived>>

Answer(c) ==
  /\ calls[c].phase = "work" /\ NextParts(calls[c].req, calls[c].got) = {}
  /\ LET ttl == TtlOf(calls[c].req)
     IN cache' = IF ttl <= 0 THEN cache
                 ELSE Stored([req |-> calls[c].req, value |-> ValueOf(c), expires |-> now + ttl])
  /\ Replies(c, ValueOf(c))
  /\ UNCHANGED <<now, seq, keyVars, windows, admitted, arrived>>

\* A statement that takes too long is cancelled: the answer is an internal error.  The
\* limit is one statement's; a handler has a bounded number of them, MaxQuery is their sum.
TimeOut(c) ==
  /\ calls[c].phase = "work" /\ now - calls[c].since = MaxQuery
  /\ Fails(c, 500)
  /\ UNCHANGED <<now, seq, keyVars, processVars, arrived>>

------------------------------------------------------------------------------
\* The clock ticks at the pace of the ledgers; the indexer may commit one or be late.
Tick ==
  /\ now < MaxTime
  /\ \A c \in Calls : calls[c].phase = "work" => now - calls[c].since < MaxQuery
  /\ now' = now + 1
  /\ seq' \in {seq, seq + 1} \cap DOMAIN Contents
  /\ UNCHANGED <<keyVars, processVars, calls, arrived>>

Restart ==
  /\ changed < MaxAdmin
  /\ windows' = [k \in Keys |-> <<>>] /\ admitted' = [k \in Keys |-> <<>>]
  /\ cache' = <<>>
  /\ calls' = [c \in Calls |-> Idle]
  /\ changed' = changed + 1
  /\ UNCHANGED <<now, seq, keys, arrived>>

Next ==
  \/ \E k \in Keys : CreateKey(k) \/ RevokeKey(k) \/ PatchKey(k)
  \/ \E c \in Calls : \/ Verify(c) \/ Refuse(c) \/ Admit(c)
                      \/ Statement(c) \/ Answer(c) \/ TimeOut(c)
  \/ Tick \/ Restart

Spec == Init /\ [][Next]_vars

------------------------------------------------------------------------------
TypeOK ==
  /\ now \in 0..MaxTime /\ seq \in 1..Len(Contents)
  /\ DOMAIN keys = Keys /\ DOMAIN windows = Keys /\ DOMAIN admitted = Keys
  /\ Len(cache) <= MaxEntries
  /\ arrived \in 0..MaxCalls /\ changed \in 0..MaxAdmin

\* The hits of a key up to one of them, in the window that ends with it.
HitsInWindow(k, i) ==
  {j \in 1..i : admitted[k][i].at - admitted[k][j].at < Window}

\* No window of any key holds more hits than the limit the last of them was checked
\* against, whatever restarts of requests and patches of the limit happen meanwhile;
\* and a client that waits for the Retry-After it was given finds a slot, if nobody
\* else uses the key and the limit was not lowered below its hits (auth.ts:15-24).
RateHeld ==
  /\ \A k \in Keys : \A i \in DOMAIN admitted[k] :
       Cardinality(HitsInWindow(k, i)) <= admitted[k][i].limit
  /\ \A c \in Calls :
       LET v == calls[c]
           Left == {j \in DOMAIN v.ages : v.ages[j] + v.retry * Sec < Window}
       IN (v.phase = "done" /\ v.status = 429 /\ v.limit > 0 /\ Len(v.ages) <= v.limit)
            => Cardinality(Left) < v.limit

Answered(c) == calls[c].phase = "done" /\ calls[c].status = 200

\* An answer, cached or not, was read from the database no longer ago than the
\* lifetime of its entry and the time its statements may take; what an older, slower
\* computation stores over a newer entry is no exception (cache.ts:10-39).
AnswersFresh ==
  \A c \in Calls : Answered(c) => calls[c].age <= TtlOf(calls[c].req) + MaxQuery

Rows(c) == calls[c].got[Part("rows")].rows

\* Two pages of one list that follow each other and show the same database have no row
\* in common and skip none, although many rows have equal keys (tokens.ts:259).
PagesTile ==
  \A c, d \in Calls :
    LET r == calls[c].req
        p == ParseTokens(r.q).page
        q == ParseTokens(calls[d].req.q).page
        both == [offset |-> p.offset, limit |-> p.limit + q.limit]
    IN (/\ Answered(c) /\ r.route = "tokens"
        /\ Answered(d) /\ calls[d].req = [r EXCEPT !.q.offset = p.offset + p.limit]
        /\ calls[d].seq = calls[c].seq)
       => \E all \in TokenPage(Contents[calls[c].seq], r.q, both) : Rows(c) \o Rows(d) = all.rows

\* A series that does not ask for ledgers yet to come is the history of its metric,
\* also when ledgers are committed between its statements: each sample is, and stays,
\* the value as of its ledger (tokens.ts:138-180).
SeriesIsHistory ==
  \A c \in Calls :
    LET r == calls[c].req
        got == calls[c].got
        ledgers == SampleLedgers(r, got[Part("range")])
        t == TokenRow(Contents[seq], got)
        closed == \A e \in r.end : e <= NewestLedger(Contents[calls[c].seq])
    IN (Answered(c) /\ r.route = "series" /\ closed) =>
         \A i \in DOMAIN ledgers :
           got[<<"sample", i>>] = MetricAt(Contents[seq], t, r.metric, ledgers[i])
==============================================================================
