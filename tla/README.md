# A TLA+ model of xrpl-indexer

This directory models the part of the repository that must be right without
anybody watching: how ledgers of the XRP Ledger get into Postgres, what the rows
say once they are there, how the connection to the ledger's nodes survives, how
metadata is collected around it all, and what the public API answers. TLC checks
the modules on small instances; TLAPS proves every safety property of the passing
runs, of all ten component modules, for every value of their constants.

Read `LedgerIngest.tla` first, then `LedgerOrder.tla` and one of the modules
about content (`BalanceHistory`, `NftLifecycle`, `PoolReserves`,
`AccountState`), then `StateSnapshot.tla` and `XrplPool.tla`. The modules on
enrichment and on the API can be read by themselves.

1. [The system](#the-system)
2. [Modules](#modules)
3. [Runs and bounds](#runs-and-bounds)
4. [Where the code and its comments disagree](#where-the-code-and-its-comments-disagree)
5. [Fairness](#fairness)
6. [Proofs](#proofs)
7. [What is not modelled](#what-is-not-modelled)
8. [Plan](#plan)

## The system

Five kinds of processes share one Postgres database; PM2 restarts them
(`ops/pm2/ecosystem.config.cjs`).

| Part | State | Operations | Interacts with |
| --- | --- | --- | --- |
| Live sync (`apps/indexer/src/main.ts`, `sync.ts`) | `nextSeq`, `draining`, `stopped`; tables `ledger`, `indexer_checkpoint` | resolve the start, `drainUpTo`, retry, fall back to full history, stop | ledger stream of the node, `processLedger` |
| Historical backfill (`backfill.ts`) | cursor, chunk; table `ledger_gap` | claim or open a range, walk it downward, give a ledger up after two failures | `ledger` rows of live sync, `processLedger` |
| State snapshot (`snapshot.ts`) | table `snapshot_state`, a batch, a `Registry` | two walks over `ledger_data`, flush, save the marker, recompute metrics, seed the checkpoint | live sync, which it precedes; a node that may prune |
| Ledger processing (`process/*`, `batch.ts`) | tables `account_balance`, `account`, `nft`, `nft_offer`, `nft_exchange`, `amm`, `vault`, `oracle`, `token_exchange`, the metric tables | one handler per kind of ledger object, merged in a `LedgerBatch`, flushed in one transaction | called by the three above, each in its own mode |
| Registry (`registry.ts`) | caches of ids per process, the set of pool accounts | resolve or create ids, mark pools | every handler |
| Connection pool (`packages/xrpl-client/src/pool.ts`) | endpoint, client, one reconnect at a time | request with one retry, rotate, reconnect | all of the indexer |
| Jobs (`packages/jobs`, `apps/worker`, `apps/backfiller`) | pg-boss queues | enqueue with singleton keys, work, retry, cron | enrichment |
| Enrichment (`packages/enrich`) | `nft_meta`, `token_meta`, `issuer_catalog`, statistics | discovery scans, handlers, rollup | reads what the indexer writes; writes stub rows into `nft` |
| Sources (`packages/sources`) | none that outlives a request | guarded fetch, gateways, providers | called by the handlers of the enrichment |
| API (`apps/api`) | keys, sliding windows per key, TTL cache | as-of balances and metrics, lists, series, keys | reads everything |
| Dashboard, codec, db helpers | none that outlives a request | | |

What is hard in it, and where a test would hardly look:

- **Two writers and a predecessor.** Live sync goes up, the backfill goes down,
  the snapshot comes first or in the middle; the three meet at ledgers whose
  transactions one of them has not seen. Nothing but `min(sequence)`, the
  checkpoint and `range_end` keeps them apart.
- **Crashes between statements.** A ledger is one transaction, but a snapshot, a
  chunk and its cursor are not, and the answer to a commit can get lost.
- **Order inside a ledger.** The last write for a key wins in a batch, patches of
  several transactions and nodes merge, and `DO NOTHING` makes the result depend
  on who came first.
- **What the ledger's metadata leaves out.** `NewFields` has no defaults,
  `PreviousFields` only what changed, and NFT pages split and merge in
  transactions about other NFTs.
- **Memory that a restart empties.** The Registry's caches decide what is kept.
- **Liveness.** Stream events are dropped while the drain loop runs; a node
  prunes ledgers that are still due; scans take a limited number of rows in no
  order, so what is never tried might never be tried.
- **One client, many callers.** Live sync, backfill and snapshot share a
  connection; two requests that fail together both rotate it, while a reconnect
  loop that the first rotation started is dialing too.
- **Jobs that run twice or on.** Some queues dedupe and some do not, an expired
  job keeps running beside its successor, and a failed fetch may write its error
  over what another one has stored.
- **Answers of several statements.** A handler of the API reads between commits
  of the indexer, caches what it read, and pages lists by offset.

`PROJECT.json` lists these and the smaller ones under `hazards`, each with its
line and with the properties about it, or the reason why there is none yet.

Correctness, part by part: the *index* is one run of ledgers without
unexplained holes, the cursor and the checkpoint say the truth, and every
ledger is reached; a *balance* looked up at a ledger is the one of that ledger,
and so are the metrics; an *NFT* has the owner, the offers, the burn and the
sales the ledger has; a *pool*'s reserve rows are its balances; an *account*'s
columns are current; the *snapshot* is complete, however often it was killed;
the *pool* delivers the stream exactly once and gets it back after any failure;
the *enrichment* tries everything and never loses what it has; the *API* holds
its limits and answers with one consistent, fresh page.

## Modules

| Module | Models | Its state and actions |
| --- | --- | --- |
| `LedgerIngest` | `main.ts`, `sync.ts`, `backfill.ts`, the transaction of `process/ledger.ts`, the hand-over in `snapshot.ts` | The relevant columns of the four tables (`ledger`, `indexer_checkpoint`, `ledger_gap`, `snapshot_state`) are variables; so are `nextSeq`, the drain loop's step and failures, the backfill's cursor, chunk and attempt. Of the prefetch only the fetches under way count (`Prefetched`): one that fails before it is awaited ends the process (`BfPrefetchFails`). One action per statement between two awaits that other processes can see. `DrainCommit` is the transaction, `DrainAck` the caller's learning of it. |
| `LedgerIndex` | (abstract) | What readers of table `ledger` may rely on: one run, seeded once, growing at both ends, ledgers given up perhaps filled in later. |
| `LedgerOrder` | (abstract) | In which order the three writers take ledgers. The content modules build on it, so that they need no process state. |
| `LedgerIngestProofs` | | Theorems about `LedgerIngest`; it implements `LedgerIndex` and `LedgerOrder`. |
| `BalanceHistory` | `handlers/trustline.ts`, `handlers/mpt.ts`, `affected-nodes.ts`, balances and metric points of `batch.ts`, `recomputeAllMetrics`, the lookups of `queries/common.ts` | `chain` is what the network did; `rows`, `points` are `account_balance` and the three metric tables. `LiveLedger`, `BackfillLedger`, `Snapshot`, `BackfillSkip` are the writers. |
| `BalanceHistoryProofs` | | Theorems about the rows of `BalanceHistory`, as-of balances and metric points. |
| `NftLedger` | (external) NFT pages, splits, merges, offers and the metadata about them | `Outcomes` gives, for a state, each transaction with its nodes and the state after. |
| `NftLifecycle` | `handlers/nft.ts`, NFT parts of `batch.ts`, the snapshot's walk over pages and offers | `nft`, `offer`, `sales` are the tables. Patches are partial functions: a field that is not set is not in the domain, one set to undefined is `Null`, as in the code's object spread. |
| `NftLifecycleProofs` | | Theorems about `NftLifecycle`. |
| `StateSnapshot` | the walks of `runSnapshot`, `ledgerData` of the pool | Database (`stored`, `tokens`, `state`) and process (`pc`, `batch`, `cached`, ...) apart; `Crash` keeps the one and clears the other, `Start` probes the snapshot's ledger on the endpoints there are and `StartThrows` finds it nowhere, once `Prune` has taken it for good. A page is a run of keys of the whole keyspace, of which the walk's filter leaves what it wants. |
| `StateSnapshotProofs` | | Theorems about `StateSnapshot`. |
| `PoolReserves` | `handleAccountRoot` as to balances, `handleAmm`, `Registry.init` and the pseudo set | A Registry per process; values are numbers or texts, as in JavaScript. |
| `AccountState` | `normalizeAffectedNodes`, `handleAccountRoot`, account patches | One account; its AccountRoot nodes per ledger and its row. |
| `AccountRootProofs` | | Theorems about `AccountState` and `PoolReserves`, the two halves of `handleAccountRoot`. |
| `XrplPool` | `packages/xrpl-client/src/pool.ts` | `client`, `idx`, the link and subscription of each client object, and `pc[t]`: what each task (a request, `connect`, the reconnect loop) awaits. One action per continuation; `Opened`, `DialFails`, `Closed`, `Answer...` are the network's. |
| `XrplPoolProofs` | | Theorems about `XrplPool`. |
| `Sources` | `packages/sources`: `safeFetch`, `resolveForFetch`, `fetchNftMetadata`, the catalog's retries | Operators: what a call ends with, as a function of what each hop answers. |
| `NftEnrich` | `discovery.ts`, `handlers/nft-collection.ts`, `handlers/nft-metadata.ts`, the queues of `packages/jobs` they use | `nft`, `meta`, `catalog` are the tables as the scans read them; `queued`, `pull`, `copies` the jobs. An error row is recent or, by `FallDue`, due again, and a catalog fresh, graced or old. A pull advances NFT by NFT, beside a copy of itself that the queue believes dead. |
| `TokenEnrich` | `handlers/token-catalog.ts`, `handlers/token-metadata.ts`, the token scan, `token_stats` of `rollup.ts` | `tokenMeta`, `stats` and the metric points of holders and lines; the catalog job's position and buffer; lookups that wait. `TokenFallsDue` is `NftEnrich`'s `FallDue`. |
| `EnrichProofs` | | Theorems about `NftEnrich` and `TokenEnrich`. |
| `ApiQueries` | `apps/api/src/queries/*` | One operator per query, over a record of tables; a statement whose ORDER BY leaves ties returns the set of its possible results. |
| `ApiServer` | `auth.ts`, `cache.ts`, `routes.ts`, key management of `packages/db` and the dashboard | Keys, windows, cache and the requests in flight; one action per statement a handler sends, while `Tick` moves the clock and lets the indexer commit. |
| `ApiServerProofs` | | Theorems about `ApiServer`. |
| `MC*` | | Constants for TLC; in `MCApi` also assumptions that check the pure queries on small inputs. |

**Composition.** `LedgerIngest` implements `LedgerIndex` and `LedgerOrder` by
refinement mappings (`ImplementsIndex`, `ImplementsOrder`, checked as properties
of the run `ingest` and proved). The content modules extend
`LedgerOrder` and conjoin its actions with what the writer puts into the tables,
so a content property holds in every order that the real pipeline can produce,
crashes and replays included: a crash shows at this level as the same ledger
taken again. A deployment may take its snapshot on an empty database, ahead of
live sync (then `fresh` is TRUE), at a later restart with
`INDEXER_SNAPSHOT_ON_START` turned on, at the checkpoint, or never; all three are
behaviours of one specification. In the content modules `Snapshot` is one step:
nothing else runs in that process while it walks, the backfill finds no row to
start from (empty database) or works below, and what kills do to the walk is the
subject of `StateSnapshot`. What `LedgerIngest` assumes of the stream, that it
does not fall silent for good, is what `XrplPool` shows of the pool, under the
condition it names. `NftEnrich` and `TokenEnrich` have the indexer's writes to
`nft`, `token` and the metric tables as actions of their own (`IndexFull`,
`CreateToken`, `MetricPoint`), and use `Sources` for what a fetch may end with.
`ApiServer` reads databases that only grow by whole ledgers, as
`LedgerIngest`'s transactions make them.

**Mutants.** A definition whose comment begins with "Mutant:" is a wrong version
of its neighbour, as a plausible bug would make it; nothing in the specification
uses it. `PROJECT.json` says which property catches which.

**Abstraction.** A ledger in `LedgerIngest` is its number. In the content modules
it is its nodes and the state after it. Balances are two or three integers,
flags, taxons and collections do not appear, and rippled's side is reduced
to what the handlers can see of it. Failed transactions, which `txSucceeded`
drops, do not appear. A document of metadata is the set of fields it brings, a
price is a fraction, a cache key is the request it is made from.

## Runs and bounds

Each run is a `.cfg`; `PROJECT.json` gives its question in a sentence. Bounds are
constants: ledgers the network closes (`MaxHead`, `MaxLedgers`), transactions
(`MaxTx`, `MaxTxs`), changes of balances (`MaxChanges`), faults (`MaxFaults`,
`MaxTokenFaults`, `MaxCrashes`, `MaxRestarts`), ledgers given up (`MaxSkips`),
copies of a job (`MaxCopies`, `MaxLookups`),
requests and admin operations (`MaxCalls`, `MaxAdmin`). The content runs stop
when the last ledger is closed and taken, so they say `CHECK_DEADLOCK FALSE`; so
do those of the snapshot, the pool, the enrichment and the API, which end when
the work is done and the bounded events are used up. `LedgerIngest` never stops
and is checked for deadlock.

| Run | Shows | Why the bounds are enough |
| --- | --- | --- |
| `ingest` | the pipeline's invariants, both refinements and its liveness, for deployments with a snapshot, without one and with one turned on later | Four ledgers below the head give a chunk of two, one cut at the floor and a second range; of the two one is prefetched, and its fetch may fail before it is awaited any number of times; a drained ledger, a dropped event and a pruned one fit in. One fault, of any kind, at any point; two floors let one restart lower the floor. The configured start lies behind a window of one, so catching up needs the fallback while the backfill opens its range. Deeper histories and more faults are the theorems'. |
| `balance` | rows, as-of balances, metrics, sparseness, and that the backfill keeps what is current | Three worlds: two holders of one issuer; one line whose holder may be either end and change sides; two holders of an MPT. Four ledgers: one below the snapshot, it, one above, one in between. Two changes in all, of one object or two, in one ledger or two, are what "last wins" and the meeting of two writers need; three changes exceed the time a run may take. One ledger given up and perhaps taken later, out of order. |
| `balance_sign` | *violation*, see below | |
| `nft` | owners, offers, sales, mints and burns | Three owners are the least for a broker; two pages of the seller and three NFTs the least with which a page splits, merges and links; two transactions of one ledger merge their patches in a batch. Three ledgers: below the snapshot, it, above. |
| `snapshot` | resumption and completion | Every key order of the objects, pages of one object, flush by count and by pages, two kills and a node that prunes the ledger for good at any time, with other full-history endpoints and without. |
| `snapshot_kill` | *violation* | |
| `pool_reserves` | reserve rows | One pool through its whole life, both orders of the nodes, two restarts shared by the two processes. |
| `account` | the account's columns | All states of the two flags and the domain, and deletion; two transactions per ledger. |
| `xrpl_pool` | the pool watches its client, has one stream and recovers | One request beside `connect` and the reconnect loop makes every pair of concurrent rotations; two endpoints, of which one may break, three clients alive at a time, three faults: one in an answer, one in the retry, one in the reconnection. Any number of concurrent requests is the theorems'. |
| `enrich_nft` | catalogs cover, data is kept, everything is tried | Three starts. One issuer with three listed NFTs, one out of a pull's reach and one burned, whose answers may be poorer than what is known. Four issuers, one of which fails for ever, under a limit of two, so that the scan has to leave some out and failing or old ones can fill it. Three NFTs without metadata under a limit of two, two of them with error rows that fall due again and again. Every fetch outcome over two gateways; two jobs of one NFT at once; one job that fails, expires or gets lost. Catalogs and errors age without limit. |
| `enrich_token` | data is kept, everything is tried, statistics settle | A token listed twice in one buffer of two, one listed and not indexed yet, one not listed; pages of two; a scan that takes two of three tokens, whose error rows fall due without limit; one crash, lost job or failed page; a token that gains and loses a holder or a line. |
| `api` | limits, fresh answers, pages, series | Two calls of one key whose limit is one or two, three ledgers, a cache of two entries that expire within one tick, a handler that may take a tick, one admin operation or restart. |

The type invariants (`TypeOK` of each component) are proved; no run spends time on
them. Conditions of a property are named in its comment and are the exceptions of the
next section.

## Where the code and its comments disagree

Two runs end with a counterexample; `PROJECT.json` `findings` quotes the lines.

| Run | What happens |
| --- | --- |
| `balance_sign` | A deleted trust line of a holder at the high end keeps its old balance. |
| `snapshot_kill` | A snapshot killed and resumed is done without the issuers' accounts. |

Other places where a comment says more than the code does; the models follow the
code:

| Comment | Code |
| --- | --- |
| `registry.ts:21` tracks the pools of earlier runs | The ids of `Registry.init` come as text from a raw query and are compared with numbers, so a restarted process does not track the pools it has loaded (`Loaded` in `PoolReserves`). |
| `ledger.ts:29-31`: the backfill must not touch current state | Its account patches are plain updates: flags, domain and verdict go back to the older ledger's (`BackfillLedger` in `AccountState`), until a live ledger modifies the account (`LiveCorrects`). |
| `nft-metadata.ts:46`: "don't regress good data" | `mediaType` is never null when a document was found, so a later answer replaces a good media type. And a catalog entry without an image has the token's own URI in its place (`bithomp.ts:107`), so a later pull replaces a good image by it (`nft-collection.ts:89`), too. Both are exceptions in `DataKept`, which says that nothing else ever takes an image. |
| `backfill.ts:183`: "failed twice; skipping" | That is so for a ledger that is awaited. One that fails while it is prefetched rejects unhandled and ends the process, which has recorded neither the ledger nor those it gave up before; the next process starts the chunk again. A ledger that can never be fetched, directly below another one that takes its time, stops the backfill there for good. |
| `rollup.ts`: candidates "or traded recently" | There is no such criterion. |
| `token-catalog.ts:27`: "every indexed IOU/MPT" | The index it builds skips tokens without currency, that is, every MPT. |
| `stats.ts:80`: "at most `maxPoints`" | A window not aligned with the buckets yields one more (`BucketsFit` in `MCApi`). |

The code does more that a reader of its comments may not expect. The properties
say what holds nevertheless and name these cases as exceptions; without the
exception TLC finds each of them.

| Exception in | What happens |
| --- | --- |
| `NoUnexplainedHole`, `AsOfCorrect`, `MetricsCorrect` | A ledger given up after two failures stays missing under a range that is done (`backfill.ts:182`). |
| `Known` and `LostAtSnapshot` in `BalanceHistory`, `lost` in `OffersExact` | The ledger of a fresh snapshot is never replayed, so an object deleted in it lives on, and the backfill brings it back (`snapshot.ts:228`). So does what the low end of a line held when that ledger took it and gave the line to the high end: the walk writes the new holder's row only. |
| `SparsePoints` | Live sync's top ledger, taken again after a lost answer, may see balances that the backfill has added meanwhile, and repeat a value that did not change: before a snapshot, below a ledger given up, or for an account of which a change was not seen. |
| `Unseen` in `BalanceHistory` | The holder of a line is told by the sign of the balance after the change: when the holder at the high end loses all, or the ends change sides, the former holder's row keeps its balance (`trustline.ts:37`). An emptied MPToken too: a zero `MPTAmount` is left out of its final fields, and what the transaction removed shines through from the previous ones (`affected-nodes.ts:36`). |
| `MetricsCorrect` | The issuer of an MPT in circulation has a negative balance and counts as a trust line (`mpt.ts:32`). A new issuance has no outstanding amount, hence no row yet. |
| `LifeExact` | A burned NFT that had offers stays live, as the offers' stubs come last in the batch (`nft.ts:79`); the burn of the only NFT on a page is not recorded, as the deleted page lists no previous NFTs (`nft.ts:52`); a burn that merges pages marks their other NFTs as burned (`nft.ts:59`). A mint that splits a page redates mints of NFTs without mint ledger (`nft.ts:57`); mints below a snapshot are not filled in (`batch.ts:148`); in a ledger of several transactions an NFT minted and moved loses its mint ledger (`batch.ts:84`). |
| `OwnerCorrect` | An NFT first seen by its offer has no owner after the snapshot (`batch.ts:148`). |
| `SalesExact` | A brokered sale gives two rows, with the broker as a party of both (`nft.ts:97`). |
| `cut` in `MarkerIsBehind`, `UnkilledIsComplete` | A node that prunes in mid-walk ends the walk, which counts as completed: a partial snapshot is done (`snapshot.ts:167`). |
| `Stranded` in `EventuallyDone` | A process that starts when no endpoint has the snapshot's ledger any more throws (`snapshot.ts:100`), and so does every later one. Live sync, which waits for the snapshot, then never starts. |
| `BackfillFinishes` | Provided prefetches stop failing (`PrefetchesSettle`): while they go on, each process dies in the same chunk (`backfill.ts:164`). |
| `DataKept` | The media type, and the image when a pull writes the NFT; see above. |
| `Progress` | A kill between a walk's last flush and its entry in the completed passes repeats all of it (`snapshot.ts:203`): the marker is null then. |
| `ReserveExact` | A pool's first reserve is not recorded if its AccountRoot comes first (`account.ts:29`), and a deleted pool keeps its last one. |
| `RowCurrent`, `LiveCorrects` | A removed regular key or domain is not seen (`affected-nodes.ts:36`); an account deleted and funded again keeps its old flags (`account.ts:39`). |
| `Recovers` | A request in every round of the reconnect loop rotates once and makes the loop rotate once more: with two endpoints the two can skip the one that works for ever, so callers must pause. Two rotations at once may leave connections open that nobody uses or closes (`pool.ts:91`); a reconnect loop asleep at `disconnect()` still does one more round. |
| `IssuersCrowded` in `EveryIssuerPulled` | The scan takes issuers in no order up to a limit (`discovery.ts:76`). Issuers whose pull fails for ever, or whose catalog is more than 72 hours old, may fill it once there are as many, and one never pulled starves. The NFTs of an issuer that fails never get the fallback fetch either, which waits for a catalog (`discovery.ts:91`). |
| `NftsCrowded` in `EveryNftTried` | Likewise: error rows fall due for ever, and once there are as many as the scan takes, they may fill it (`discovery.ts:103`). |
| `EveryNftTried` | An NFT first met through an offer has no URI, and the catalog does not add one: it counts as tried only once the indexer has met it in full. |
| `TokensCrowded` in `EveryTokenTried` | Likewise for tokens (`discovery.ts:126`): each unlisted token has an error row after its first lookup and comes back a day later. |
| `ListedRecovers` | A successful lookup does not reset `error`, and a lookup that started before the catalog listed the token may set it again: no miss is final, but no hit either (`token-metadata.ts:47`). |
| `StatsSettle` | A token that loses its last line and has no metadata without an error leaves the candidates and keeps its last statistics (`rollup.ts:37`). |
| `PagesTile` | Holds for the token list, whose order ends with the id. Holders, NFTs of an account, holdings, pools, vaults and oracles are sorted without a tie-break, so their pages may repeat or skip rows; and a page beyond the end reports a total of 0, as the count travels with the rows. |
| `SeriesIsHistory` | Holds above the backfill: if it inserts older points between two statements, a series mixes both. And for series that end at a ledger that is indexed: the end of one that reaches beyond changes as ledgers come. |
| `RateHeld` | A limit of 0 gives a Retry-After that is not a number (`auth.ts:19`); a request refused for its scope has used a slot. |
| `AnswersFresh` | A slower, older computation may replace a newer entry, and storing an entry evicts another even when it overwrites one (`cache.ts:25`): answers stay within the bound regardless. |

What rippled puts into the metadata is external; the models take it from how the
handlers read it and from the ledger's own rules: `NewFields` without defaults,
`PreviousFields` for what changed before the object was stored or erased, nodes
in the order of their keys.

## Fairness

`LedgerIngest!Fairness`:

- Weak fairness on starting, on each step of the snapshot's hand-over and of the
  backfill, and on the turn of the drain loop: the processes are restarted by PM2
  (`autorestart`, `ops/pm2/ecosystem.config.cjs`) and their loops have no exit.
  The number of faults is bounded, as everything about liveness is "once the
  faults end".
- Strong fairness on `DrainFetch`, `DrainCommit` and `DrainAck`: each can fail and
  is retried for ever (`sync.ts:79-90`); it is assumed not to fail for ever.
  `DrainFetch` is enabled only if the node serves the ledger or the loop has
  fallen back to full history, which is the code's part.
- Strong fairness on `LiveNotify(head)`: the stream may drop or be ignored while
  the loop drains, but it does not fall silent for good while the syncer is idle.
- Nothing is assumed about `LiveStop`, crashes or failing attempts.

`StateSnapshot!FairSpec` has weak fairness on `Step`, the process doing whatever
comes next, starting included, even if it does nothing but throw. Crashes are
bounded and excluded from it; pruning need not happen. `LedgerIngest` takes it
that the walks come to an end, which is `EventuallyDone` without its exception.

`BackfillFinishes` has a hypothesis, `PrefetchesSettle`: from some time on no ledger
of the chunk in hand fails before it is awaited. Without it TLC finds the loop in
which a prefetch fails, the process ends and starts, and asks for the same ledgers
again. It is no fairness of the code, which has no means to get out of that loop.

`XrplPool!Fairness`: tasks run (JavaScript's event loop), timers fire, a node that
is up answers and opens, a socket told to close closes, and one at a dead node
fails in the end (the client's connection timeout). Faults, requests and the
shutdown need not happen.

`NftEnrich!FairSpec` and `TokenEnrich!TokenFairSpec`: the crons fire (`boss.ts`
schedules them), a worker takes every job that waits, and clocks run. A job
that fails is retried by the next scan; failures are bounded except for the
issuers in `Failing`, which fail every time. Nothing is assumed of the indexer, and
nothing of how often a catalog gets old or an error due. Two fairness conditions are
strong. `ScanNfts` with an untried NFT: the scan sees it while its issuer's catalog
is between one and 72 hours old, which is 71 hours to a cron of five minutes.
`Rollup`: a token's metadata is without an error, once the catalog has cleared it,
until a retry that is a day away, and the rollup comes every 15 minutes.
Rows never disappear, so "again and again all are tried" says of each row that it is
tried in the end, or that again and again the scans are crowded.

The API has no liveness property: what its clients wait for is bounded by
`statement_timeout`, which is a guard of `Tick`. The limit is one statement's and a
handler sends several one after the other, at most a thousand samples and some;
`MaxQuery` stands for all the statements of one handler together.

## Proofs

All from the named assumptions on the constants that the modules declare and
nothing else; TLC evaluates these assumptions in the runs. Most are ranges of
bounds. Those that say more:

- `BalanceHistory!ObjectsAssumption` and `KeysAssumption`: worlds are finite; an
  object is told by its two parties, a line by its two accounts, low before high;
  the issuer of an MPT is not one of its holders; an MPT holds no negative amount.
  All are rules of the ledger.
- `AccountState!AccountAssumption`, `PoolReserves!PoolAssumption`: `Null` is neither a
  domain nor an AccountRoot, `NoXrp` is not a balance; account ids and balances are
  naturals.
- `NftLedger!NftAssumption`: every owner may have pages, listed by owner and then
  number, as their ledger indexes are ordered; offers are finitely many; an
  owner is never `Null`.
- `ApiServer!ContentsAssumption` and `HistoryAssumption`: in each state of the
  database ids are unique, tables finite and sort keys numbers; a later state has
  more rows, all above the newest ledger of the earlier one. That is what live
  sync does, one transaction per ledger (`LedgerIndex` and `NoUnexplainedHole`); the
  backfill does not, see `SeriesIsHistory` above.
- `ApiServer!RequestsAssumption`: a request has the parameters of its route, as the
  routes' schemas parse them.

| Theorem | States |
| --- | --- |
| `LedgerIngestProofs!Invariance` | `Spec => []IndInv` |
| `TypeCorrect`, `NoHole`, `CursorIsTruthful`, `AtMostOneOpenGap`, `CheckpointAtTip`, `WritersStayApart`, `NotReplayed` | the pipeline's invariants |
| `Refinement` | `Spec => Index!Spec`: the pipeline implements `LedgerIndex` |
| `OrderRefinement` | `Spec => ImplementsOrder`: it takes ledgers in the order of `LedgerOrder`, which the content modules rely on |
| `StateSnapshotProofs!SnapshotInvariance` | `Spec => []SnapInv` |
| `MarkerSafe`, `UnkilledComplete`, `ProgressKept` | `MarkerIsBehind`, `UnkilledIsComplete`, `Progress`, for any objects, page size, flush bounds and number of kills; the first two but for walks that were cut short |
| `XrplPoolProofs!PoolInvariance` | `Spec => []PoolInv` |
| `StreamIsWatched`, `StreamIsOne` | `Watched` and `OneStream`, for any number of endpoints, concurrent requests, clients and faults |
| `EnrichProofs!EnrichInvariance` | `Spec => []IndInv`, with `PullsCover` |
| `CatalogIsCovered`, `NothingLost` | `CatalogCovers` and `DataKept`, for any catalogs and any number of failures |
| `EnrichProofs!TokenNothingLost`, `TokenTypes` | `TokenDataKept` and `TokenTypeOK`, for any tokens, listing and answers, and any number of failures |
| `BalanceHistoryProofs!BalanceInvariance` | `Spec => []IndInv`: what is in `account_balance`, in every order of the writers |
| `RowsAreExact`, `AsOfIsCorrect` | `RowsExact` and `AsOfCorrect`, for any set of lines and MPTs, any amounts, depth and number of ledgers given up |
| `MetricsAreCorrect`, `PointsAreSparse`, `BalanceTypes` | `MetricsCorrect`, `SparsePoints` and `TypeOK`, likewise |
| `NftLifecycleProofs!NftInvariance`, `NftTypesOk` | `Spec => []IndInv` and `TypeOK`, with the foreign keys of offers and sales |
| `OwnersCorrect` | `OwnerCorrect`, for any NFTs, owners and pages, any splits and merges, any number of transactions in a ledger and of ledgers |
| `OffersCorrect`, `SalesCorrect`, `LivesCorrect` | `OffersExact`, `SalesExact` and `LifeExact`, likewise |
| `AccountRootProofs!AccountInvariance`, `AccountTypes` | `Spec => []IndInv` and `TypeOK` of `AccountState` |
| `RowIsCurrent`, `LiveSetsRight` | `RowCurrent` and `LiveCorrects`, for any domains, any number of transactions in a ledger and of ledgers |
| `AccountRootProofs!PoolInvariance`, `PoolTypes` | `PoolSpec => []PoolInv` and `PoolTypeOK` |
| `ReservesAreExact`, `ReserveRowsKept` | `ReserveExact` and `RowsKept`, for any balances, number of ledgers and restarts, and either order of the nodes |
| `ApiServerProofs!ApiInvariance`, `ApiTypes` | `Spec => []IndInv` and `TypeOK` |
| `RateIsHeld` | `RateHeld`: no window holds more hits than the limit that admitted its last, and Retry-After is long enough, for any limits, window and number of keys |
| `AnswersAreFresh` | `AnswersFresh`, for any times to live, size of the cache and duration of a query |
| `PagesAreTiles` | `PagesTile`, for any contents, limits, offsets, filters and orders of the token list |
| `SeriesIsHistorical` | `SeriesIsHistory`, for any history that grows at the top and any interleaving of a series' statements with it |

**`LedgerIngest`.** None of the invariants is inductive alone. "No unexplained
hole" needs to know that live sync works directly above the checkpoint, that a
snapshot's row is below or at it while the checkpoint is not yet seeded, and that
what the backfill has in hand reaches down from `range_end` without gap; the
cursor needs that `range_end` is the cursor of the process that has the range.
`IndInv` is the conjunction of `TypeOK` with `SnapshotInv` (what each stage of the
hand-over knows), `TipInv` (the run of ledgers and its top, `Tip` being the
checkpoint or the snapshot's row before there is one), `LiveInv`, `GapInv` (ranges
end below the top, and nothing is missing above them) and `BackfillInv` (what is
in hand covers what is missing in the chunk). There is one lemma per action, and
under it one step per conjunct that the action can disturb; the refinement uses
the invariant to turn each step into one of `LedgerIndex` or a stutter.
`NotReplayed` adds `ReplayInv`: the snapshot's ledger is at or below the checkpoint,
so that live sync starts above it, and is indexed as soon as anything is, so that
no chunk takes it.

**`LedgerOrder`.** `WholeInv` is `IndInv` with `ReplayInv` and `OrderInv`: there is a
lowest ledger, and a snapshot turned on at an empty index is chosen before anything
is indexed, one turned on later finds something. With it every action is one step
of `LedgerOrder` or a stutter: the choice of the snapshot's ledger on a filled index
(which is then taken), the insertion of its row on an empty one, a commit, an
attempt of the backfill. The seeding of the checkpoint is a stutter, as `Tip` is the
snapshot's row before it. So what a content module shows of every behaviour of
`LedgerOrder` it shows of every order the pipeline can produce, at every depth.

**`StateSnapshot`.** `SnapInv` is `TypeOK` with four parts. `KeysInv`: the keyspace
is a sequence of all objects. `PlaceInv`: in each stage of a walk, where the process
stands; a walk under way is not completed, and the saved marker is not ahead of the
process. `LinesInv`: the lines a walk has passed are stored or in its batch, those
before the saved marker are stored, and all of them once walk 1 is completed.
`UnkilledInv`: as long as nothing was killed or cut short, the cache holds the ends of
every line walk 1 has passed, and a token row its issuer, so that walk 2, which
filters by both, keeps every account that is due.

**`XrplPool`.** `PoolInv` is `TypeOK` with `Held`, `SubLive` and `Watched`. `Held`
says of every waiting task what its client still means: a rotation that is no
longer about the current client has nothing left to wait for, while there is one
the current client was made in the same turn and is not connected yet, and a
subscription on a client that was replaced is refused. `SubLive` says that the
stream is on the current client only, and is what `OneStream` rests on.

**`NftEnrich`.** `CatalogCovers` needs that a pull, the expired copy too, has
covered everything before its position; `DataKept` needs only types: of each
way to write a row it is shown which fields it can take, and of a pull that the row is
that of the NFT at its position.

**`BalanceHistory`.** `IndInv` has three parts. `ChainInv`: the nodes of a ledger,
two at most, lead from the state of each object before it to the one after, and
what an issuer owes is what its holders hold. `OrderInv`: the ledgers taken are a
range, without the ones in `waived`. `RowsInv`, `CoverInv` and `WalkInv`: a row is
the balance of its ledger or of a change that the handlers do not see (`Unseen`), a
taken ledger has written a row for each change, and the snapshot one for each
holding. `RowsExact` follows at once. `AsOfCorrect` is an induction over the
history between two ledgers, which needs the prover's least-counterexample form:
of the ledgers above the row that a lookup finds, the first at which the balance
differs from the row's has changed it, so it has a row of its own, above the one
that was found; below the lowest row the same holds downward. The exceptions of
the property are the cases in which that ledger has no row.

For the metrics, an aggregate over the latest rows has to be the one over the top
ledger's own holdings. Both are sums over finite sets; that equal terms give equal
sums, in whatever order, is shown by a smallest counterexample. The supply of an MPT
needs besides that its issuance has outstanding what its holders hold (`Conserved`).
A ledger that touches no row of a token leaves its holdings as they are, so its last
points stay true; one that does compares the new aggregate with the last point.

**`NftLifecycle`.** The argument climbs from a page to a table. `NodesOk`: an NFT
that is new to its page arrives in a node of that page, whose owner is the NFT's,
and what leaves a node was held. `TxOk` says so of each kind of transaction, with
the offers it makes and ends. `TxEffect`: what a transaction's patches set in a
batch and what they leave, field by field; the last patch of an NFT wins. By
induction over the transactions of a ledger the batch says of the whole ledger what
the patches say of one (`BatchOk`): an owner it sets is the owner after the ledger,
and of an NFT whose owner it does not set the owner did not change. `ChainInv` has
every ledger follow from the one before in this way, so burned NFTs and closed offers
stay so over any number of ledgers (`Grows`). Then each table has an invariant. `OwnerInv`:
besides what `OwnerCorrect` says, an NFT without a row has had its owner since below
the range (`UnknownKept`), without which a backfilled row could be stale.
`OfferInv` is its like for offers: one that is closed in the table is over, and one
that the table does not know was open, or over, below the range. `SalesKnown`: the table
is exactly what the replayed ledgers say, so that `SalesExact` is about one
transaction, of which it is shown for each way to accept offers. `LifeInv` needs that
a row is of an NFT not burned below the range: a ledger that is filled in, and burns
it, then finds no row in its way; and that a burned NFT is in no later batch, so that
nothing overwrites its burn. That an NFT merely moved counts as minted or burned only
if pages were reorganised comes from the pages (`RegroupedIs`): a split moves to a
page that had nothing on it, a merge leaves one that has nothing on it.

**`ApiServer`.** `IndInv` says of each key that its window is the end of the history
of its admitted requests (filtering by age drops a prefix, as times never fall), so
that the window's length counts all young hits; of each cache entry that it was
expires within its time to live and `MaxQuery` of the beginning of its computation;
of each call in flight which statements have answered, and with rows of which states
of the database. `RateHeld` follows from the first; its second half needs that
rounding the wait up to whole seconds never makes it too short. `PagesTile` is about one query: a sort key with
ties broken by a unique id is a total order, a finite set has one sorted sequence
in it, and two slices of one sequence join to the longer slice. `SeriesIsHistory`
uses `HistoryAssumption`: what a statement read at or below the newest ledger then
is what any later one reads.

The theorems cover every history depth, window, floor set, chunk size, number of
faults, endpoints, requests, catalogs, balances, NFTs, keys and rows, where TLC had one
small value of each.

**`AccountState`.** `IndInv` is `ChainInv` and `OrderInv` with `DefaultInv` and
`RowCurrent`. `ChainInv` says of each ledger what its nodes leave (`LedgerOk`): the
last one is a change to the account after the ledger, and unless one of them deletes
it, the last one is a modification, or the only one and creates it. So one patch
decides: `AppliedIs` shows, by induction over the nodes, that a ledger that ends in a
modification sets the row as the last node says, whatever the patches before it, and
that one without nodes, or with a creation alone, leaves the row as it is. The second
case is why `DefaultInv` is needed: a created account's node lists no defaults, so the
row is right only if it still has its own. What a removed regular key leaves behind is
in the property itself, and `NodeSays` is where it comes from.

**`PoolReserves`.** What counts of a ledger is the last node of an account that is
there (`LastIn`): `TransactionSays` and `TwoSay` show that it has the pool's balance at
the end of the ledger, unless the pool is deleted after it, for one transaction and for
two. `ProcessIs` shows, by induction over the nodes, that a batch has a balance only
from that node, even if the Registry got to know the pool between two nodes: once it is
known it stays known. `ReserveExact` follows. `RowsKept` is about the one ledger that
can be taken twice, the top one after a lost answer or a restart: it may be replayed
with another Registry, which may find no balance but never a different one, so
`RowsInv` remembers that the top row is that of the last node, but for the
snapshot's ledger, which is not replayed.

`PoolReserves` and `TokenEnrich` share a proof module with their sibling, and so have
names of their own for what both have: `PoolSpec`, `PoolTypeOK`, `TokenSpec`,
`TokenTypeOK`, `tokenMeta` and the like. The components stay apart: no theorem has
the specifications of both.

Only model-checked: liveness and everything that needs ENABLED (out of the prover's
reach: `LiveCatchesUp`, `BackfillFinishes`, `EventuallyDone`, `Recovers`,
`EveryIssuerPulled`, `EveryNftTried`, `EveryTokenTried`, `ListedRecovers`,
`StatsSettle`), the assumptions of `MCApi` that compare the pure queries with reference
definitions, and what `balance_sign` and `snapshot_kill` refute. Every invariant,
action property and refinement that a passing run checks is also a theorem.

## What is not modelled

- `--mode=snapshot` run beside a live indexer, and `INDEXER_SNAPSHOT_ON_START`
  turned off again: with it off, live sync would go on above a snapshot that was
  never finished, which the operator has then chosen.
- Forks and unvalidated ledgers: only validated ledgers are read.
- The retry on serialization failures (`ledger.ts:140`): the transaction is
  atomic with or without it. Two writers' lock order (`batch.ts:125`) concerns
  deadlocks inside Postgres.
- What the prefetch of the backfill brings: ledgers are immutable and applied in
  order, so that only its failures matter.
- A pool one of whose assets has no id: `AmmObject` of `PoolReserves` always has
  ids for both assets, where the code returns early without them (`amm.ts:40`).
- Two lookups of one token at a time: they would write the same columns one after
  the other, as the lookups of two scans do.
- `INDEXER_TRACK_XRP_BALANCES`: off, the default. With it on, every account is
  treated as a pool.
- DEX trades: `amountDelta` is arithmetic on one node and a row is never updated.
  A deleted offer counts as consumed down to 0, so one that was partly filled and
  then removed overstates its last fill, a hazard no property covers. The price
  query over trades is in `ApiQueries`.
- Oracles, the columns of `amm` and `vault`: one upsert each, the last write wins.
- Ids of the Registry: their uniqueness is the database's unique index.
  `firstSeenLedger` stays that of the first insert, by whichever writer.
- Volumes, collections' statistics and the dashboard snapshot of the rollup:
  aggregates recomputed from scratch.
- pg-boss itself: it appears as the queues' behaviour that the handlers rely on,
  one live job per key, or none; its own tables and cron do not.
- The outgoing limiter (`packages/sources/src/ratelimit.ts`): a sliding window
  like the API's that waits instead of refusing.
- The handler `issuer-metadata`: no provider has anything for it, so it writes
  nothing.
- xrpl.js: a client is a link that opens, fails, closes and answers.
- A stub that the enrichment inserts for an NFT from a catalog, before the snapshot
  or the backfill bring the NFT: their `DO NOTHING` then keeps the stub. Covered
  neither by `NftLifecycle`, which has no enrichment, nor by `NftEnrich`, which
  has no snapshot.
- The dashboard, bootstrap and the codec: no state of their own, or pure
  conversions covered by unit tests.

## Plan

Done: the pipeline with its proofs, the snapshot, balances and metrics of lines and
MPTs, NFTs, pools, accounts, the connection pool, the enrichment, the API.
What would follow:

1. `NftEnrich`'s stubs in `NftLifecycle`, and ledgers given up there.
2. `DexTrades` (fills of an offer over its life against `amountDelta`) and the
   Registry's ids and `firstSeenLedger`.
3. The outgoing limiter: it and the API's implement one abstract window.
