# TLA+ models of kaspa-rest-server

kaspa-rest-server is a FastAPI application that answers questions about the
Kaspa network from two sources: Kaspa nodes (over gRPC, or over wRPC) and a
PostgreSQL database that a separate indexer fills.  Several worker processes
run the same code; inside one worker all requests and background tasks are
coroutines of one event loop, so that they interleave at every `await`.  The
models here are about what that interleaving, the nodes' failures and the
indexer's concurrent writes can do to an answer.

## 1. Inventory

| Component | State it keeps | Operations | Hard behaviour | Correct when |
|---|---|---|---|---|
| gRPC client (`kaspad/KaspadMultiClient.py`, `KaspadClient.py`, `KaspadThread.py`) | per host the flags `is_synced`, `is_utxo_indexed` of the last ping | `request`, `initialize_all`, `ping` | pings of many callers overlap, an RPC fails after the node ran it, one repetition | a repetition uses a status from after the failure; 503 only when all hosts are bad; at most two executions; every request is answered |
| Application (`server.py`, `main.py`) | the list of hosts | startup, 60 s loop, handlers for 503 and 500, middleware, `/ping` | order of startup, handlers that ping before they answer | nothing is served before the first round of pings; a healthy host comes back |
| Maximum hashrate (`get_hashrate.py`, `KeyValueStore.py`) | two rows of a key-value table | `/info/hashrate/max` | read, compare and write in sessions of their own; requests that end early; blocks out of order | the answer is the highest hashrate seen |
| Address paging (`get_address_transactions.py`) | none, but a client keeps a cursor | `full-transactions-page` | each statement sees another state of tables that grow and are reorganised; ties in block time | a walk misses nothing, repeats nothing, ends, and does not fail |
| Submission (`submit_transaction_request.py`) | none (the nodes' mempools) | `POST /transactions` | the repetition of a command that is not idempotent; a node that runs it after the response | the status tells what happened to the transaction |
| Transactions (`get_transactions.py`, `get_virtual_chain.py`) | none | lookup, search, acceptance, virtual chain | rows of one transaction appear in any order; fallback to the node | acceptance and accepting block belong together; nothing is found to be missing that is there |
| Blocks (`get_blocks.py`) | none | block, blocks, blocks from a blue score, colour | node first, then database | a block one of them has is found; a colour is the true one |
| Blue score (`get_virtual_chain_blue_score.py`, `helper/utils.py`) | the last blue score of the node | 5 s loop, cache control | an old value while the node is away | a max-age never exceeds what the age of the data allows |
| Health (`get_health.py`, `/ping` in `server.py`) | none | `/info/health`, `/ping` | combines what the loop, the pings and the connection left behind at different moments | a 200 was justified while it was computed; answers follow the service in the end |
| wRPC client (`KaspadRpcClient.py`) | one lazily connected client | connect on demand | concurrent connects on one object, a link that is lost | a service that is well is not told unwell for ever |
| Market data (`helper/__init__.py`, price, market cap) | last good answer, time of the last 429, two 60 s caches | price, market cap | two sources, cool-off, concurrent callers | no query in the cool-off; the last good answer is kept; data is fresh while the sources answer |
| Helper tables (`get_utxos.py`, `get_address_transactions_count.py`, `get_addresses_active_count.py`) | per worker: does the table exist | over-limit test, counts | asked once and kept for ever | an address over the limit is never expanded |
| Sessions (`dbsession.py`) | pool of 15 connections | acquire, release | who holds one while waiting | a node that does not answer holds up nobody who needs the database only |
| Rewards, masses, difficulty (`helper/*.py`, `get_halving.py`, `get_blockreward.py`, `get_transaction_mass.py`) | none | pure functions | integer edges, the change of the block rate | the functions that invert or refine each other agree |
| Days, months, rankings (`get_transactions_count.py`, `get_balance.py`, `get_hashrate_history.py`, `get_address_top.py`, `get_address_distribution.py`) | none | rows of a period and how long caches may keep them | rows appear late; months and days | parts add up; nothing is kept for long that still changes |
| Reads of the node (balance, supply, fees, ...) | none | one question | an error inside an answer | a failure is not told as data |
| Middleware, parsing, generated code | none | | | not modelled (section 8) |

Interactions: every endpoint that needs a node calls `kaspad_rpc_client()`
first and, only if no wRPC URL is configured, `kaspad_client.request`.  The
periodic loop, the startup handler, the handler of unexpected exceptions and
`/info/health` call `initialize_all` on the same client.  `/info/hashrate/max`
and the transaction endpoints use the block endpoints' functions.  All workers
share the key-value table, and nothing else.  The loop of the blue score writes
the value that health, cache control and `/blocks-from-bluescore` read.  The
startup handler waits for market data before it pings the nodes.

The full list of hazards, with the line each one bites at and the properties
that cover it, is in `PROJECT.json`.

## 2. Modules

| Module | What it is |
|---|---|
| `KaspadRequest` | what `KaspadMultiClient.request` promises an endpoint, without hosts or pings |
| `KaspadMultiClient` | the gRPC client of one worker and all callers of `initialize_all`; implements `KaspadRequest` |
| `SubmitTransaction` | `KaspadMultiClient` composed with the mempools of the nodes, for `POST /transactions` |
| `KaspadMultiClientProofs` | theorems about both |
| `MaxHashrate`, `MaxHashrateProofs` | `/info/hashrate/max` and the key-value store, statement by statement |
| `AddressPaging`, `AddressPagingProofs` | `full-transactions-page`, statement by statement, and the client that follows its headers |
| `Sources` | what the lookup endpoints read: the tables, a node, and their changes (external) |
| `BlockLookup` | `/blocks/{id}` and `/blocks-from-bluescore` over `Sources` |
| `TransactionLookup` | extends it with transaction lookup, search, acceptance and the virtual chain |
| `TransactionLookupProofs` | theorems about both |
| `Health`, `HealthProofs` | `/info/health` and `/ping`, with the flags, the wRPC client, the blue score loop and the database they rest on |
| `MarketData`, `MarketDataProofs` | price and market data: caches, sources, cool-off, in units of the timeout |
| `AddressTables`, `AddressTablesProofs` | UTXOs, counts and the total over helper tables, the pool of connections and the node |
| `Constants`, `CacheControl` | blocks per second; the max-age of an answer by its age or size |
| `BlockReward` | subsidy table, month of a DAA score and back |
| `Masses` | storage, compute and transient mass, and the lookup of the spent outputs |
| `HashrateHistory` | compact bits, difficulty, thinning of the samples |
| `Sums` | the sum of the values of a function, which `Masses` and `Periods` use |
| `Periods` | days, months, rankings, pages at an offset, and their max-age |
| `SingleReads` | activity of addresses, colour of a block, resolution of inputs, older form of a script |
| `NodeReads` | the endpoints that hand on one answer of the node, over either client |
| `Calculations`, `CalculationsProofs` | composes the nine before as endpoints: a request with what it reads, and its answer |
| `MC*` | definitions that give the constants their values for TLC |

Definitions whose comment ends in "(mutant)" are wrong variants of the
definition that follows them.  No specification uses them; they are there to
confirm that the properties notice such a bug (section 6).

### KaspadMultiClient

`known[k]` holds the two flags of host `k` that are truthy, `ping[c][k]` the
ping task that caller `c` created for host `k`, `pc[r]`, `target[r]` and
`wire[r]` where request `r` is and how far its RPC has got.  A caller is a
request, the periodic loop or the startup handler.  The actions follow the
awaits: `Start` runs from the call of `request` to its first `await`, `Reply`,
`RpcError` and `Refreshed` from one `await` to the next.  A ping is answered
(`PingSample`) and later recorded (`PingRecord`), because the answer travels
and the coroutine waits for its turn; pings of different callers therefore
overtake each other.  `Execute` and `Reply` are apart, because an RPC can
fail after the node ran its command.  `EndpointRaises` is the path over the
handler of unexpected exceptions, which pings all hosts before it answers.

What is external: the nodes change their status, stop answering and come back
at any time (`NodeChanges`).  A node that is `Down` answers nothing within the
deadline, so an RPC to it ends in an error.  The end of an RPC on the client's side
does not take its command back: `late[r][a]` is the host that attempt `a` of `r` was
given up on before it ran the command, and that may run it at any later time
(`ExecuteLate`), while `r` pings, repeats the command or has long been answered.
The contract of `KaspadRequest` therefore counts executions and does not say when
they end.

`seen` and `executions` are history.  `seen[c][k]` is what was last recorded
for host `k` while `c` awaited its own round, whoever recorded it.

### SubmitTransaction

Extends the client with the nodes' mempools, the answer of the node, and the
HTTP status.  All requests submit the same transaction, as clients that repeat
themselves do.  Other clients of the network may submit it too (`Relay`), and a
node that stops may lose its mempool.  With `wrpc` there are no hosts, and `Node`
stands for the nodes behind the URL: the request is one call on the shared client
(`call`).  `WrpcRaises` is every exception of it, the 10 s of `wait_for` among them;
it does not take the call back, so the node may still run it (`WrpcSubmits`), as it
may over gRPC (`NodeSubmitsLate`): then nobody reads what it says.  `told` has the requests whose response repeats what a node said.

### MaxHashrate

One action per database statement or RPC of `get_max_hashrate`, each in a
transaction of its own, as in the code.  A block is its blue score and its
difficulty.  `KeyValueStore.set` is two actions, `UPDATE` and `INSERT`, because
another worker may insert the row in between.  `Interrupted` ends a request
anywhere (a lost connection, a killed worker).  Blocks are added in any order of
their scores.  `view` is history: the blocks that were there when the request looked.
`ReturnsHighestObserved` is what the docstring says, without conditions, and the code
breaks it (section 7); `AnswerCoversOwnView` is what remains, and is proved.

### AddressPaging

One action per statement of `get_full_transactions_for_address_page`; the
search at the end opens a session of its own.  Rows of the mapping, of the
transactions and of the acceptances appear in any order, and acceptances
disappear in a reorganisation.  `FollowHeader` and `NoHeader` are the client,
which follows one of the two headers as the description of `limit` tells it to.
`due` is history: the transactions that matched when the walk began and have
matched ever since.  `Limited` returns any set that `ORDER BY block_time LIMIT
n` may return: ties at the end are cut anywhere.  Errors of the database or of
a node end a walk at any time and are left out.

### Sources, BlockLookup, TransactionLookup

`world` is the state of both sources: rows of the tables of blocks and
transactions, the accepting block of each transaction, the blocks the node has,
and whether it answers.  `past` is history: every state since the request
arrived, so that a property can ask what held *throughout* a request and what
held *at some moment* of it.  The threads of the indexer are independent, as the
comment at `get_transactions.py:204` says; a node prunes a block only after it
was indexed.

A request is a record `q`; `Starts` pairs requests with the states of the sources
they meet.  Each action is one statement or one question to the node, with the
code up to the next `await`.  Requests share no state, so there is one.  The
transport makes a difference: over gRPC a node that is away ends the request
with an exception, over wRPC it is taken for a node that does not have the block
(`get_blocks.py:287-308`).  Blue scores are compared with `current`, which the
worker's loop writes.  A database is configured.  Inputs, outputs, fields and
timestamps are data that no property tells apart; the resolution of inputs, which
reads rows that never change, is in `SingleReads`.

### Health

`known[h]` is what a gRPC client recorded last, `link` the node that the wRPC
client is connected to, `score` whether the value of the blue score loop is that
of the node, one whose renewal failed, an old one, or the 0 from before the first.
The request (and the handler of its exception) and the retry of the blue score loop
(`Pinger`) have pings of their own: `PingAnswered` is the node's answer, `PingEnds` the
record, any time later, so that an older answer may overwrite a newer one.  The 60 s
loop, other requests and other handlers are any number, so they are not told apart:
`others[h]` has what their pings may have found host `h` to be and have still to
record (`OtherRecords`), until their deadline is over (`DeadlinePasses`).

A 200 has to pass the model of the response, which allows no `None`
(`get_health.py:25-31`): when a node is synced and another host of the list has never
answered, the response fails, and the handler of unexpected exceptions answers 500
(`Flags`, `Handler`).

A coroutine that finds the wRPC client disconnected connects, or, if another one does
so at that moment, may be refused and goes on unconnected (`ConnectOr`).  The database
is one of six states, of which the two lags (newest block, newest accepted
transaction) are what the code compares.  `was` is history: which of the facts a 200
stands for held at some moment of the request.  Of the flags a 200 may rest on the
answer to a ping of another caller that was given before the request came and is
recorded after the request's own; `heard` notes that there was one, and `HealthyWas`
allows it.  `KaspadMultiClient` has the choice of the host in detail; here any
eligible one may be asked.

### MarketData

Time is counted in units of the timeout of a query, and data is its age since
its query was sent, so that one model has the cache, the pause and the timeout.
Steps between two awaits take no time (`MayPass`).  Both functions are cached,
one on top of the other, and a cached `None` counts as a miss, as in aiocache.
`began`, `had` and `trouble` are history.

### AddressTables

`known` is the global of each file and worker that remembers whether its table
exists; it is read at `Start`, asked at `Exists` and set at `Learn`, so that two
requests can ask at once.  `session` is the set of requests that hold a
connection: a session takes one at its first statement and keeps it until it is
closed.  Tables come and go, rows and UTXOs change between all steps.  `seen`
and `past` are history.  The number of UTXOs is 0 or 1 and the limit 0: only the
comparison matters.

### Calculations and what it composes

A request `ask` is a record of its parameters and of all it reads, and one step
answers it: these endpoints read once and compute.  What makes them more than a
table of inputs is that properties compare *different* questions: a month with
its days, a page with the others, the halving with the rewards around it, a
transaction with the same whose output is split.  Tables have rows with the
moment they are seen from, so that "complete" is about what appears late.
`NodeReads` distinguishes a node that answers, refuses or stays silent.  `GetFullTransactions` has both of its reads: the ids of a page, and those of them that
the search finds (`stored`), with the search's limit on ids, which `Masses` has too:
the endpoint passes it one id per input.  Amounts of a mass may be negative, as the
body allows, and the division rounds down (`FloorDiv`); a body of version 0 has its
covenants removed (`Covenant`).  The colour of a block depends on the source: over
gRPC a node that is silent ends the request with 503, over wRPC it tells no colour
(`Color`).  In
`GetBlockreward` and `GetHalving` a node that refuses over gRPC is a DAA score of
0, as any other number.  The 426 entries of the subsidy table are written as the
rule they follow, the first twelve halved every year; all entries of the code
agree with it.

## 3. Runs

TLC finishes every run within three minutes with two workers.  Runs marked
**violation** check what the code's documentation says of it, which TLC refutes.

| Run | Instance | What it shows |
|---|---|---|
| `kaspad` | 2 hosts, synced or down, 1 request, loop, startup, fairness | the safety properties of the client, and that it implements `KaspadRequest`; every request is answered; a healthy host rejoins, a dead one leaves, for good |
| `submit_clients` | 1 host, 2 requests of the same transaction, gRPC or wRPC | 200 is answered only to who placed the transaction, 400 with the node's message, after one attempt, only to who did not |
| `maxhash` | 2 requests over 3 blocks in any order, with faults | **violation**: the answer is not the highest hashrate observed |
| `paging_walk` | 3 transactions, two with one block time, limit 2, both directions, every acceptance mode, with and without block times, fairness | exact walks, contiguous pages, every walk ends |
| `paging_after_fails` | 3 transactions, limit 1 | **violation**: following X-Next-Page-After ends in an error |
| `lookup` | 3 blocks (two of one blue score), 2 transactions (one coinbase), every state of the sources, 2 changes during the request, both transports | answers are justified by the states of the sources during the request |
| `market` | 2 concurrent callers, one of which is the startup before, fairness | no query in the pause, the last good answer is kept, freshness, every call ends |
| `health` | 3 workers with one or two nodes, over either client, a monitor that asks for ever, fairness | a 200 was justified; recovery and outage are both seen in the end |
| `tables` | 2 requests in one worker with 1 connection, 1 change at any moment, fairness | the limit on UTXOs, true answers, failures only when a table comes or goes, nobody waits for ever |
| `calculations` | every request of the sets in `MCCalculations` | rewards, masses, history, caches, sums of parts, single reads |
| `reads_refused` | the reads of the node, which may refuse | **violation**: a refusal over gRPC is answered 200 with defaults |
| `addresses_active` | the activity of addresses without scripts | **violation**: an address with transactions is answered inactive |

What the properties of `calculations` are made of is named in the module:
`MassesAgree` has what is spent and splitting; `ReadsAreTrue` has colours, rewards,
inputs, scripts, activity by script, and silence of the node; and so on.

Why the bounds are enough.  Two hosts are needed for "first in configuration
order" and for a repetition on another host; the loop, the startup round and
the request are three callers whose pings overlap.  Two requests are needed for
the pings of one to be recorded while the other decides: `submit_clients` has
them on one host.  A lost update needs two requests and two blocks of different
difficulty; a third block makes a tie of scores.  Ties of block times need two
transactions of one block time and a page whose border cuts between them: an
older one, two tied ones and a limit of two give it, in the direction of newer
transactions; the other direction then has two pages, one full and one not.  In
`lookup`, a block that moves from the node to the database and is pruned needs
two changes between two statements, and so does an acceptance that moves while a
score is asked for; every state of the sources is a start, so that longer
histories before the request are covered.  In `market`, two callers are enough
for an answer to overtake another and for one caller to lift what the other has
set; two ticks of cache life, one of pause and one of timeout are the least that
tell these three apart, and ages above `MaxAge` are all the same to the code.  In
`health`, three setups share the statuses that one node would have: a host that
loses its sync, a host without a UTXO index that stops answering (and is never used
for requests, but counts as synced), and one beside a second host that never answers,
for the 500.  `Data` leaves out the empty table and the one with both lags, which
answer as the lags do; the proofs have all six.  In
`tables`, one connection for two requests is the least at which somebody waits;
every state of tables and rows is a start, `MaxChanges` the number of changes
after it.  In `calculations` an hour is two units, a day six, a month two or
three days, a byte has two bits, `C` is 60 with amounts on both sides of it, and a
search takes two ids, with bodies of up to three inputs, so that every threshold and
every rounding has inputs on both of its sides.  In `paging_walk`, `IdLimit` is the
number of transactions: a page beyond the limit, which fails for good, is in `Search`,
but no property speaks of walks that fail this way, so the run does not need it.  The
nodes of `kaspad` are synced or down, as for the choice of a host one that is not
synced is like one that is down; `submit_clients` has all three.  `MaxChanges` of
`lookup` and `tables` is the only bound that cuts something off; no other counter grows without end (`executions` is at most 2 by
the contract, ages stop at `MaxAge`), so every run is exhaustive for its instance.
Runs that let the system stop (walk over, request answered) say
`CHECK_DEADLOCK FALSE`.

## 4. Fairness

`KaspadMultiClient`: an RPC ends, because `KaspadThread.request` passes a
deadline to gRPC; a coroutine that can run does run, because the event loop
serves ready callbacks in turn; the sleep of the periodic loop ends; startup
reaches its round of pings, because the market data request before it carries a
timeout.  Nothing is assumed about the nodes, nor that one ever runs a command that
was given up (`ExecuteLate`).  The two properties about a host
assume in their own statement that the node stays healthy, or unreachable, from
some time on.

`AddressPaging`: the statements of the handler return and the client goes on.
Nothing is assumed about the indexer.

`MarketData`: aiohttp ends a query in time, and the node's RPC for the supply has a
deadline; calls settle by this alone, time need not pass.  The
call of the startup handler may fail when the second source raises, and then the
application does not start: "settles" includes this.

`Health`: pings and RPCs have deadlines (an answer of another caller's ping is not to
be recorded for ever, `DeadlinePasses`), the blue score loop goes on after any
exception, monitors ask again.  Nodes, database and links are not assumed to be
good: the two liveness properties say from which moment they are.

`AddressTables`: a statement that has, or gets, a connection ends.  The pool serves
those who wait in their order, so that a connection that becomes free again and
again is given to each (strong fairness of `Exists` and `Rows`).  Nothing is
assumed about the node, which may never answer.

## 5. What is proved

All proofs are checked by TLAPS, for any number of hosts, requests, callers,
blocks and transactions, from the named assumptions in the modules.

`KaspadMultiClientProofs`.  `TypeCorrect` is inductive as stated, since the type
invariant says where a request has an RPC and where it has pings.
`RetryIsFresh`, `UnavailableIsJustified` and `StartupPingsFirst` need to know
why a round that is over has heard every host: the invariant `SafetyInv` adds
that a caller that awaits its round has seen every host whose ping of its own
is idle, and that what it saw last of a host agrees with the flags of that
host (`SeenAgrees`).  With it the choice of `__get_kaspad` is read off `seen`;
`LeastNatural` gives the first eligible host for any number of hosts.
`ContractImplemented` adds `ExecutionInv`, the number of executions possible at
each place: those that were, those still under way, and those of attempts that were
given up and may still come are together no more than the attempts that `r` has made.
It maps each step to a step of `KaspadRequest` or to a stutter.
The theorems about `SubmitTransaction` use that it implements the client
(`SubmitImplementsClient`) and that what a node said agrees with what it did
(`RepliesAgree`): without the latter the status, which is set a step after the
execution, says nothing of the transaction.  A late execution has no reply, but it
counts as an execution, so that a message of the node after one execution is still
that of this one.

`MaxHashrateProofs`.  `OwnViewCovered`, with any concurrency, any order of blocks and
any faults: an answer covers the maximum the request read and the blocks it found
above the score it read.  Nothing more holds in general (section 7).

`AddressPagingProofs`.  A page that is complete now says nothing about a row that
is due later, so that nothing is missed is not inductive.  `WalkInv` says where
every row that is due is to be found at each statement of the handler: already
returned, on this page, or beyond it, and then the header for the next page is
(or will be) set (`CoverInv`).  It needs that the border times are those of rows
of the page and that the page lies inside the window of the cursor (`PageInv`),
that what was returned lies outside of the window (`GotInv`, which is also why
nothing is repeated), and that what is due is there and matches (`DueInv`).  The
borders of a page exist because block times are natural numbers (`LeastNatural`)
that do not exceed `Horizon`; this last is the assumption that nodes refuse
blocks from the far future.  No fairness and no bound on the indexer is needed.
`TransactionLookupProofs`.  All safety properties of the run `lookup`, for any
number of blocks and transactions, any request, and any number of changes
(`MaxChanges` is arbitrary).  A property of an answer speaks of all moments of the
request, so the invariant `LookupInv` carries the moments that matter from
statement to statement: a moment without the block in the node while the database
is being asked (`BlockInv`), the nearest score and the rows it was taken from
(`ScoreInv`, `ListInv`), a moment at which all acceptances that were read held
(`HeldInv`), a moment without the block row for each score that is still to be
asked of the node (`ToldInv`, `FailInv`), and a moment at which a transaction that
is left out did not fit (`CoverInv`).  Moments are only added to `past`, so that
"at some moment" is stable, and rows of blocks and transactions are never deleted
(`PastInv`), which is what makes the order node, database safe.

`MarketDataProofs`.  For any lengths of cache, pause and timeout.  `LastGoodKept`
rests on the invariant that once a call that began with a good answer is on its
way, `CACHE` and whatever it is about to return are good; `PauseIsKept` on the
one that a query was begun no earlier than its test of the pause, and that a
test is passed only when the pause is over.  `StoredIsNearlyNewest` bounds how
far a slow answer takes the stored one back.  `DataIsFresh` relates the age of a
value to the life that is left of the cache it is in (`StoreFresh`), because the
age alone says nothing of what a later hit will find, and carries this through the
calls that are under way (`CallFresh`), from the market data to the price on top.

`HealthProofs`.  `HealthTypes` says who may await pings.  The facts a 200 stands for
are read at different awaits, so `HealthInv` says what of them is in `was` at each:
what holds now is noted while a request runs (`NotedInv`), and the database was good
when its two answers were (`DbInv`).  The flags need two steps, as answers are recorded
late: every good answer that is still to be recorded, whoever pinged, was given while
the request ran or had been given when it began (`AnswersInv`); therefore so was every
flag of a host whose ping of this request is over (`FlagInv`), since this ping
overwrote what was older, and whatever overwrote it in turn was one of those answers.
It holds for any number of hosts and any faults.

`CalculationsProofs`.  Requests take one step, so the theorems are about the
functions, for every table, clock, rate and calendar.

* `HalvingIsAlwaysNext` (the division of `subsidy_month` and the product of
  `daa_from_month` are inverse to each other, across the change of the block rate),
  `StaleScoreIsBounded` and `TtlIsAtMostTheAge` (the ladder of `add_cache_control` is
  monotone and stays below the age), and from them `HalvingIsTold` and
  `CachesAreAlwaysSafe`.
* `ReadsAreAlwaysTrue`.  That rewards fall and halve needs the values of the table,
  which is a recursive function: `TableExists` builds it, and its only use of its
  first twelve entries is that they do not grow nor fall below half of the first
  (`TableAssumption`).  Scripts keep what `lstrip` leaves of them.
* `PagesAlwaysAddUp`.  `Total` folds over a set in an order that is not known.  The
  library's theorem for recursion over finite sets takes operators as parameters, so
  `SumsOfSizesExist` builds the sums of all finite sets by their size, and
  `SumWithout`, `SumOfBoth` and `TotalOfParts` (a sum is that of the sums of disjoint
  parts) follow by the smallest counterexample.  A day then has the rows no other day
  has (`DaysShareNothing`), each row is of one day (`DayOfRow`), and the rows of a page
  are those whose rank lies in its range (`PageIsRanked`).
* `MassesAlwaysAgree`.  Splitting adds two harmonic terms for one (`HalvesWeigh`), and
  can only make the rule for the inputs stricter, never relax it
  (`SplitRelaxesNothing`).  Where it does, the arithmetic mean replaces the harmonic
  one, and both are rounded: `MeansDiffer` bounds what is gained.  Without the premise
  that no money is made and that the fee is below every input it is false:
  nine inputs of `C + 1` and one of `C - 9`, with an output of `C / 2`, get lighter when
  the output is split.
* `HistoryIsAlwaysHonest`.  Shifts, `filter_samples` and the rows of a query are
  recursive functions, which `StepsExist` builds from their steps (`ShiftIs`,
  `FilteredExists`, `SelectedExists`).  Each chunk gives points of one side
  (`PointsAreHonest`); that points of different chunks are in order needs the invariant
  that the last point so far is dated to a sample before the next chunk
  (`FilteredIsHonest`).

What these five assume of a request is named in `Calculations`: `AskAssumption`,
`ReadsAssumption`, `MassAssumption` and `SamplesAssumption` say what the database and
the node hold (tables are finite, a row is seen when it is there, samples are of
blocks of one chain and come by descending score, bits are those of some target,
cells have a plurality of at least 1 and an amount).  TLC evaluates them on every
request of the run.

`AddressTablesProofs`.  For any number of workers, requests and addresses, any size
of the pool and any number of changes.  `TypeInv` adds to the types that the set of
connections of a worker is finite, which `Cardinality` needs.  `TablesInv` has three
parts: what a worker remembers of a table was true at some moment (`MemoryAgrees`);
a request that runs has seen what the tables and the node have now; and what was
found, asked of the node or answered agrees with something seen (`Agrees`, one
request at a time, so that a step of one leaves the invariant of the others alone).
What is seen and the moments of the past only grow while a request runs.

Every safety property that a passing run checks, invariant or action property, is
stated by a theorem.  Only model-checked are the liveness properties
(`ImplementsFairContract`, `HealthyHostRejoins`, `DeadHostLeaves`, `WalkEnds`,
`CallsSettle`, `HealthIsSeen`, `OutageIsSeen`, `StatementsEnd`), since TLAPS does not
prove properties that need fairness and `ENABLED`.

## 6. Mutants

For every property of a passing run `PROJECT.json` names a definition that a
plausible bug changes, and the changed form; TLC finds the property violated
with it.

## 7. What the checks found

Shown by a violation run:

* Following `X-Next-Page-After` can end in a 500 that does not go away, when
  the acceptance filter leaves no transaction of a full page
  (`get_address_transactions.py:292`).
* Without `USE_SCRIPT_FOR_ADDRESS`, the default, `/addresses/active` takes the
  newest block time of a table that it does not join
  (`get_address_active.py:65`): every address is inactive if that table is
  empty, and has the time of its newest row if it is not.
* `/info/hashrate/max` "returns the highest hashrate observed"
  (`get_hashrate.py:59`), but the blue score is committed before the maximum
  (lines 80 and 92): a request that reads both rows in between is answered with, and
  stores, the difficulty of the node's tip, below that of a block it could see.  The
  same specification loses a block for good when two requests overwrite each other's
  maximum, when one ends between its two writes, and when a block is added at or below
  the stored score, which is not looked at again (line 68).
* Over gRPC an error of the node is inside the inner message, beside fields with
  their defaults (`KaspadThread.py:64`); `rpc.proto:14` expects receivers to check
  it, but the endpoints look at the outer message, or nowhere.  A refusal is answered
  200 with zeros or empty lists by reads of the node (`RefusalsAreTold` in
  `Calculations`; `from = "refused"` in `AddressTables`).  That a node which is silent
  is not told as data holds (`SilenceIsTold`).

Met while modelling; the models have them, and a property states what remains:

* Over wRPC any exception is a 400, that of the 10 s included, although the node may
  have run the command or may still do so (`submit_transaction_request.py:129`,
  `WrpcRaises` before `WrpcSubmits`); over gRPC the same is a 503, and a node may run the
  command after it, too (`NodeSubmitsLate`): a 503 does not mean that nothing was sent.
* A transaction whose first answer is lost is answered 400, although the node
  has taken it (`KaspadMultiClient.py:29-31`).
* `/blocks-from-bluescore` returns the blocks of the score that the node gives,
  if it gives any, and leaves out the others (`get_blocks.py:270`).
* A search by blue scores that starts at 0 is taken for a search by no ids, and
  returns nothing (`get_transactions.py:274`; `NothingOverlooked` exempts it).
* `/virtual-chain` without coinbases leaves out transactions that are accepted but
  not stored yet (`get_virtual_chain.py:147`).
* `GET /transactions/{id}` with a block hash asks the database first and the node
  second, the opposite order of `GET /blocks/{id}`: a transaction that is stored,
  and its block pruned, between the two is not found.  Pruning takes a day, so
  this is no more than a reason why the property speaks of each source apart.
* A block that the node counts as red is told no colour (`get_blocks.py:336`):
  `ColorIsTrue` requires a colour whenever one is known, but for this case.
* `/info/health` answers 500 instead of 200 when a node is synced and another host of
  the list has never answered since the worker started (`get_health.py:25-31`).
* Between the request's own ping and the decision an older answer to somebody else's
  ping may be recorded (`KaspadClient.py:20-23`), so that a 200 of `/info/health` may rest
  on a node that was synced up to one deadline before the request came, and not since.
* The age of a block is reckoned from the last blue score that the node told
  (`helper/utils.py:9`).  With an old one an answer about a block that was just mined may
  be kept for as long as the age of that score allows (`StaleScoreIsBounded`).
* Pages at an offset are cut from an order by block time alone
  (`get_address_transactions.py:79`): with equal times a transaction may be on two pages or
  on none; and a page is not filled up for ids that the second read does not find.
* A helper table that appears after the first question is not noticed until the
  worker restarts, and one that is dropped makes every later answer a 500
  (`get_utxos.py:178`; `FailsOnlyIfDropped`).
* When the second source of market data raises at startup, the application does
  not start (`helper/__init__.py:39`).

## 8. Not modelled

* Generated protocol code, the parsing of scripts and payloads, the database types
  and the conversions of fields between the two forms of a block or transaction
  (but for the script of a block, `LegacyScript`): models would be the text of
  the parsers.
* The limit on the size of a body and the check of parameters, which look at one
  request; the names of addresses, one read of a table that nothing here writes.
* An installation without a database: endpoints that need one answer 503, and
  `/blocks/{id}` asks the node only.
* The 30 s after which waiting for a connection raises: in `AddressTables` a
  request waits on, which is the harder case for `StatementsEnd`.
* Rewards and halvings with `BPS = 1`: `TimeAssumption` of `BlockReward` asks that no month
  is negative, which at one block per second is false of scores below the start of the
  deflationary phase (`deflationary_table.py:441`).
* The conversion of the body of a submission, which raises (500) if it cannot.
* `KaspadMultiClient.notify`, which nothing calls; formatting and logging.
