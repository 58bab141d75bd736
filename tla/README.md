# Verification of the Cosmos DB client

TLA+ models of the JavaScript client in `src/src`, the TLC runs that check them
on small instances, and theorems about them whose proofs TLAPS checks. The
source is the reference: each definition of a model stands for the lines that
`PROJECT.json` ("map") gives for it. Paths below are relative to `src/src`.

The client is single-threaded JavaScript. What makes it hard is asynchronous:
every `await`, callback and timer lets other calls of the same client run, the
objects they share (endpoint cache, session tokens, query contexts, iterators)
are plain mutable fields, and the service behind them fails over, throttles,
splits partitions, lags and answers out of order. A step of a model is what the
event loop runs between two awaits, with everything it calls.

## The system

| Part | State it keeps | Operations | Talks to |
|---|---|---|---|
| `LocationCache` | regions and endpoints of the last account read, marks of endpoints that failed (with time), two derived endpoint lists | `resolveServiceEndpoint`, `markEndpointUnavailable…`, `onDatabaseAccountRead`, `getRead/WriteEndpoints`, `shouldRefreshEndpoints` | used by the endpoint manager and all retry policies |
| `GlobalEndpointManager` | `isRefreshing`, `initPromise`, `isEndpointCacheInitialized` | `resolveServiceEndpoint` (awaits `init`), `refreshEndpointList`, `backgroundRefresh`, `getDatabaseAccountFromAnyEndpoint` | the cache; reads the account through `ClientContext`, hence through the next row |
| `retryUtility.execute`, four retry policies, `RequestHandler` | per request: counters of each policy, `RetryContext`, `LocationRouting` | send, decide whether and where to retry, wait | the cache (marks, routing), the endpoint manager (refresh), the session container (drop tokens) |
| `SessionContainer`, `VectorSessionToken`, `ClientContext` | name → resource id, resource id → range → token | `get`, `set`, `remove`, `merge`; `applySessionToken`, `captureSessionToken`, `clearSessionToken` | around every request |
| Routing map (`routing/*`) | one routing map per container, sorted ranges | `createCompleteRoutingMap`, `getOverlappingRanges` of the map and of `SmartRoutingMapProvider` | used by cross-partition queries |
| `ParallelQueryExecutionContextBase`, `DocumentProducer`, comparators | priority queue of producers, a semaphore, buffers, `err`, `state` | constructor's fill-up, `nextItem`, repair after a split, `hasMoreResults` | the routing map; one feed per partition |
| `PipelinedQueryExecutionContext`, endpoint components, aggregators | what each component has counted, seen, summed; `fetchBuffer` | `nextItem`, `fetchMore`, `hasMoreResults` | a cross-partition query below, the iterator above |
| `QueryIterator`, `DefaultQueryExecutionContext` | the context, `isInitialized`, continuation, page, page fetched ahead | `fetchNext`, `fetchAll`, `getAsyncIterator`, `reset` | `ClientContext.queryFeed`; switches to the pipeline |
| `ChangeFeedIterator` | `nextIfNoneMatch`, `ifModifiedSince`, `lastStatusCode` | `fetchNext`, `getAsyncIterator`, `hasMoreResults` | `ClientContext.queryFeed` |
| `Container(s)`, `Item(s)`, plugins | `partitionKeyDefinitionCache` of the client; the bodies, options and `Item`s of the user, which calls change | `create`, `createIfNotExists`, `read`, `delete` of containers; `create`, `upsert`, `read`, `replace`, `delete` of items | `ClientContext`, through the plugins |
| `CosmosClient`, other CRUD classes, `auth`, header formats, metrics, documents, `range/*` | none, or constants | check arguments, format, pass on | not modelled, see the end |

What is correct behaviour of each, in short: a request always goes to an
endpoint of the account, avoids those that failed, and comes back when they
recover; at most one account read at a time, nobody waits for one that is not
happening; a write is carried out at most once, retries
are bounded; session tokens only grow, merging them never fails, a session reads
its writes; a query asks exactly the partitions that matter; a cross-partition
query loses no row over splits, keeps its order, ends only at the end, answers
every call; the pipeline means what the query's clauses mean; iterators give
every row once, whatever fails in between; a change feed misses no change; one
body makes one item and a container what its body asked for, however often calls
are repeated.

## Modules

| Module | Models | Variables ↔ code |
|---|---|---|
| `LocationCache` | `LocationCache.ts`, `LocationInfo.ts` | `account` = the last account read; `unavailability` = `locationUnavailabilityInfoByEndpoint`; `orderedWrite/ReadLocations`, `write/readEndpoints` = fields of `LocationInfo`; `sinceUpdate` = age of `lastCacheUpdateTimestamp` |
| `GlobalEndpointManager` (extends it) | `globalEndpointManager.ts` and the requests that meet it | `isRefreshing`, `initPromise`; `attempt[r]` = which account read of `getDatabaseAccountFromAnyEndpoint` refresher `r` awaits; `background` = where `backgroundRefresh` is; `at` = where each request is and what it awaits |
| `RequestExecution` (extends `LocationCache`) | `retry/*`, `request/RequestHandler.ts`, `LocationRouting.ts` | `used` = the policies' counters; `waited` = `cummulativeWaitTimeinMilliseconds`; history: `attempts`, `tried`, `applied`, `steadyList` |
| `SessionContainer` | `session/*` and its use in `ClientContext.ts` | `rid`, `tokens` = the two maps; `op` = a request with its header and answer; `current`, `version`, `progress`, `lsn` = the service; history: `acked` |
| `RoutingMap` | `routing/*` | `orderedRanges`, `sortedRanges`, `index`, `partitionKeyRanges` = the locals of the same names (`currentProvidedRange` is `sortedRanges[index]`) |
| `ParallelQuery` | `parallelQueryExecutionContextBase.ts`, `documentProducer.ts`, `FetchResult.ts`, comparators | same names; `sem`, `waiters` = the semaphore; `active`, `item`, `todo` = locals of the call that holds it; `phase`, `pending`, `running` = the constructor's task; history: `delivered` |
| `QueryResults` | no code: what a cross-partition query promises | `outstanding`, `delivered`, `outcome` |
| `QueryPipeline` | `pipelinedQueryExecutionContext.ts`, `EndpointComponent/*`, `Aggregators/*` | the components' fields, those for request charges too; `mode`, `phase` = how the caller walks it, and where it is; history: `requestCharge` = what the caller was told, `unyielded` = what pages cost that a `for await` loop is not given; the source is `QueryResults` |
| `QueryIterator` | `queryIterator.ts`, `defaultQueryExecutionContext.ts` | the fields of both; `call` = the call under way; history: `taken`, `startedAt` |
| `ChangeFeed` | `ChangeFeedIterator.ts`, `ChangeFeedResponse.ts` | `nextIfNoneMatch`, `ifModifiedSince`, `lastStatusCode`; `pc`, `asked`, `answer` = the calls under way; `log` = the service; history: `delivered`, `start`, `overlapped` |
| `Items` | `client/Container/Container(s).ts`, `client/Item/Item(s).ts`, `extractPartitionKey.ts`, `plugins/Plugin.ts` and the exchanges of `ClientContext.ts` they end in | `partitionKeyDefinitionCache`; `id`, `body`, `options`, `ref` = the user's objects; `op`, `pc`, `sent`, `answer`, `repeats` = the call under way; `container`, `items` = the service; history: `learnt`, `asked`, `used`, `filled`, `raced` |
| `…Proofs` | theorems about the module they extend | |
| `MC…` | instances for TLC | |

How they compose. `GlobalEndpointManager` and `RequestExecution` each extend
`LocationCache`: they act on the same cache from two sides. The first has the
refreshes step by step and abstracts a request to what it awaits; the second has
the retries step by step and abstracts refreshes to account reads at any time
(`RefreshAccount`, a superset of what the manager does). `SessionContainer` has
its own requests: what matters to tokens is only the order of sends, answers and
drops. `ParallelQuery` is shown to implement `QueryResults`; `QueryPipeline`
takes `QueryResults` as its source, so the two compose through it. `Items` sees the
retries below it as exchanges that may be lost before or after they were served.

Operators whose comment begins with "A mutant" are plausible faults; each sits
before the definition it would replace and no specification uses it.
`PROJECT.json` ("mutants") pairs every property with a fault it detects.

## Runs

| Run | Instance | Distinct states | Question |
|---|---|---|---|
| `cache` | 2 regions + the global endpoint, 5 accounts (two single-master, multi-master, one without locations, one that lists a writer that is not readable), marks expire after 2 ticks | 21 663 | Routing and marks of `LocationCache` in every order of its operations |
| `gem` | 2 requests, 2 regions of which one is preferred, write region moving | 167 730 | Refreshes: one at a time, none dropped, nobody waits in vain; initialisation ends; the preferred region comes back |
| `requests` | 1 request of any kind, 2 write regions, budgets 2/1/3 and 2 time units | 454 321 | Every sequence of failures against the four policies |
| `session` | 2 operations, 3 regions in 2 configurations, 2 incarnations with 2 and 1 writes | 3 079 790 | Token arithmetic and read-your-writes |
| `routing` | 4 bounds of the hash space, up to 3 listed partitions, up to 2 requested ranges of any kind (and some 3) | 87 841 | Which partitions a query is sent to |
| `query` | 6 partitions (two splits, one of a child), 2 callers, 1 failure | 9 917 | Lock, queue, repair; implements `QueryResults` |
| `query_hang` | the same | — | refuted: every call is answered |
| `iterator` | 3 pages, one empty, 2 failures, every call | 888 | Rows in order, end only at the end, calls end |
| `iterator_reset` | the same | — | refuted: reset starts from the beginning |
| `pipeline` | 3 rows with every choice of small values, 45 clause combinations and 10 aggregate plans, pages of 2, three ways to walk | 150 670 | What the caller gets is what the clauses mean, and every charge is told once but those of pages a `for await` loop is not given |
| `items` | 2 callers (one makes the container, one works on items and deletes it), bodies asking for 400 and for nothing, options kept or replaced, 5 definitions, the id as key among them, 2 ids, 2 containers made, 1 lost exchange, 3 plugins | 4 841 011 | Keys, ids and throughput over repeated calls, and other clients who make the container anew |
| `change_feed` | 2 items, 3 changes, 2 overlapping callers, 1 failure, every way to start | 888 482 | No change missed, none out of order |

**Bounds and why they are enough.** Time is the age of a timestamp, saturated
just past the expiry: all comparisons with it come out as with real time, so no
bound on time is needed. Two regions and the global endpoint are the least with
a preferred, a second and a fallback endpoint; index wrap-around and the forced
first attempt at the primary occur with lists of two. Two requests are the least
that can interleave at the awaits of a refresh, with the initialisation and the
background refresh as third and fourth process; one preferred region gives a failed
account read a second place to go, and the order of several is a matter of `cache`. The retry budgets (120 for
discovery, 10, 9) are small numbers: the policies compare with them and
add one, and the theorems hold for any number. For sessions, two incarnations and a
change of configuration that adds one region and removes one are what the merge
rules tell apart; the first incarnation takes two writes so that an answer can be
overtaken by a newer one of the same container. In `query`, the split of a split
is the least where replacements of a partition are gone themselves before they
are checked; the pages include an empty one, a row equal to one in another
partition is not needed because ties are left open. Row 4 stands for a row that
is falsy in JavaScript. `iterator` has an empty page between two full ones and a
continuation the user starts from. In `items`, a second container is what makes a
cached definition stale; one caller makes the container by either call, with bodies and
options that it uses again for one another, the other creates items, replaces items it
refers to and deletes the container, so that the reads and writes of both meet in the
cache. The definitions are by a path that is there, by a
path through `null`, by the id, by the default path, and by the path the service makes
up for containers without one. Which throughput a body asks for matters only as being
the one the body asked for: one value and none tell all cases of the code apart but
one body's value overwriting another's, which the theorem covers. Calls that differ from
these only in what the service does with them (`upsert`, `read`, `delete` of items, `read` of
the container) are in the module and the theorems, not in the run. In `pipeline` all values of three rows are
tried, `undefined` and falsy ones among them. `MaxFaults`, `MaxChanges`,
`MaxRid`, `MaxWrites`, `MaxContainers` and the budgets are the only bounds on counters; each
is in a guard.

`CHECK_DEADLOCK FALSE` stands where the system may stop: requests that have all
ended, a feed whose bound of changes is reached, a walk that is done, a query
whose calls hang (a finding of its own). `cache`, `gem`, `iterator` and
`items` are checked for deadlock. `session` uses symmetry in the two operations, which are
alike and which no property names; its one temporal property is about single
steps, where symmetry is sound.

**Fairness and why the code justifies it.**
`GlobalEndpointManager`: an account read in flight is answered or fails (HTTP
requests time out), a continuation that is ready runs, the five-minute timer
fires, time passes. Nothing else is fair; requests need not be made. `RegionRecovers`
has two premises of its own, as a property must that is about recovery: from some
time on nothing is forbidden, and account reads of the background do not fail
for ever.
`RequestExecution`: an exchange ends (the request timeout aborts it), a wait that
was begun ends.
`ParallelQuery`: the constructor's task and the callbacks of a call go on; calls
and splits need not happen.
`QueryIterator`, `QueryPipeline`: a call under way goes on, the loops of
`fetchAll` and `for await` ask again; `fetchNext` need not be called.

**What the properties guard against** is listed as hazards in `PROJECT.json`, each
at the line where it bites. A few need a word:

* `RoutesToListedEndpoint`: the lists are derived by filtering and by index modulo
  length; the property says that no combination of stale lists, marks and routing
  ends at `undefined`, or at an endpoint nobody listed.
* `DegradedIsRefreshed` ties the early return on `isRefreshing` to the decision
  taken after the await in the refresh: whoever skips a refresh may do so only
  because one is coming that will repair what it saw.
* `SessionRetriesTryEveryEndpoint` concerns a request whose endpoint list did not
  change meanwhile (`steadyList`); with a list that changes the code promises
  nothing.
* `RetriesAreBounded` bounds all four policies. It allows one wait for throttling more
  than the documented maximum, because the code tests before it adds (see below). The
  session policy counts against the length of the current list, which may change between
  two retries; no list is longer than the preferred locations, or one where there are
  none, hence `MaxSession`.
* `ReadYourWritesOfKnown` is about names that stand for the live container; the code
  keeps a stale resource id after somebody else recreated it (a finding).
* `ImplementsQueryResults` is a refinement: `outstanding` is what the producers in
  the queue, in hand or being checked have yet to give. `QueryResults` grants one
  licence, `Reread`: rows already handed over may come again once partitions may
  split, because replacement producers start from scratch.
* `CallsSettleUnlessFailed` stops at a failure; beyond it the code does hang
  (`query_hang`).
* `OutputIsTheAnswer` compares with the meaning of the clauses under three licences
  the code takes: DISTINCT is applied after the limits, and is blind to falsy
  values; `MIN` is asked only of partitions that all have rows (findings).
* `ChargesAddUp` has three licences: the answer that ends the gathering of an
  aggregate; a LIMIT of 0, whose components throw headers away; and pages whose rows were
  all skipped or duplicates, which `getAsyncIterator` does not yield, so that what they
  cost (`unyielded`) is told to no `for await` loop (findings).
* `RefusedOnlyIfStale` blames a refused key on nothing but the cache, which the
  code does not refresh (a finding): the container was made anew after the last read
  this client had an answer to (`learnt`), whatever calls overlap. Excepted is a key
  that is the id when the call generates that, since the key is taken first (a finding).
* `CreatedOnce` is about one body passed again, by the user or a plugin.
* `ThroughputAsAsked` follows bodies and options that are used again. A body stripped by
  its first call gets its throughput from the options it came with, so it excepts one
  that comes with others or with none; and a body that asks for nothing with options
  that came with one that does, whose throughput they still carry (findings).
* `AskedAreReached` excepts an inclusive end at the boundary of two
  partitions; `NothingMissed` excepts what happens before a feed "from now" has
  first been answered.

## Proofs

For all values of the constants, by TLAPS:

| Module | Theorem | States |
|---|---|---|
| `EndpointProofs` | `RoutesStayListed`, `MarkedStaysOut`, `CacheInvariant` | `RoutesToListedEndpoint`, `MarkedEndpointNotOffered`, for any regions, accounts and preferences |
| | `OnlyTimeClearsMarks`, `MarksTyped` | `MarksOutliveUpdates`: only time makes a marked endpoint available again |
| | `OneRefreshAtATime`, `RefreshFlagIsExact`, `NoLostWaiter` | `AtMostOneRefresh`, `RefreshFlagHeld`, `NobodyWaitsInVain`, for any number of requests |
| | `DegradedStaysRefreshed`, `RoutingInvariant` | `DegradedIsRefreshed`, for any regions, accounts and requests |
| | `WritesAreNotRepeated`, `AttemptsArePaidFor` | `WritesAppliedAtMostOnce`, `AttemptsAreBudgeted`, for any requests and budgets |
| | `RetriesStayBounded` | `RetriesAreBounded`: the attempts of all four policies and the waits, for any options and answers, and lists that change meanwhile |
| | `SessionRetriesGoRound` | `SessionRetriesTryEveryEndpoint`, for lists of any length and any budget |
| `SessionContainerProofs` | `CapturesNeverThrow`, `TokensGrow` | `CaptureNeverThrows`, `TokensOnlyGrow`, for any history of configurations |
| | `TokensStayBehind`, `SessionReadsItsWrites` | `TokensNotAhead`, `ReadYourWritesOfKnown`, for any order of answers, refusals, replication and new containers of the name |
| `ItemsProofs` | `SpecCreatedOnce`, `SpecThroughputAsAsked`, `SpecConflictMeansRace`, `SpecRefusedOnlyIfStale` | the properties of `Items`, for any callers, definitions, items, plugins and losses |
| `ParallelQueryProofs` | `LockIsExclusive`, `LockInvariant` | `OneAtATime`, for any partitions, splits and callers |
| | `SlotsAreReadOnce`, `QueueIsReady`, `ProducerInvariant` | `OneProducerPerSlot`, `QueuedProducersHaveItems`, for any partitions, splits, pages and callers |
| | `QueryImplementsResults`, `RowInvariant` | `ImplementsQueryResults`: the refinement of `QueryResults`, step by step |
| `QueryPipelineProofs` | `OutputIsRight`, `EndIsComplete`, `PipelineInvariant` | `OutputIsTheAnswer`, `NoMoreMeansAllGiven`, for any rows and values, plan, page size, order of delivery and way to walk |
| | `ChargesReachTheCaller` | `ChargesAddUp`, for the same, the charges of pages not yielded counted apart |
| `QueryIteratorProofs` | `RowsStayInOrder`, `EndMeansAll`, `IteratorInvariant` | `RowsInOrder`, `NoMoreMeansAll`, for any pages, continuations, failures and calls |
| `RoutingMapProofs` | `UsedMapsTile`, `WhatIsAskedIsReached`, `PartitionsComeOnce`, `GoodRequestsAreServed`, `WalkInvariant` | the properties of `RoutingMap`, for any hash space, any listing and any ranges asked for |
| `ChangeFeedProofs` | `NoChangeMissed`, `ChangesStayInOrder`, `FeedInvariant` | `NothingMissed`, `ChangesInOrder`, for any log, options, page size, overlapping calls and failures |

The assumptions are the named ASSUMEs of the modules: sequences of locations,
endpoints of locations, budgets that are numbers, non-empty configurations, a value for "no token" that is
none, items with a field for every path but the id's; partitions are finite in number, each
an interval with a least point, children tile their parent and each is smaller,
pages are sequences of rows, rows are numbers and a 410 is no row. Of the service a
query assumes that nobody writes meanwhile: a row is listed once, in one page, the
children of a partition have its rows, partitions that do not overlap share none,
and for an ordered query each partition lists its rows in order (`RowAssumption`,
`ListedInOrder`). An iterator starts at a place in its pages. The pipeline numbers the rows
of its source from one, in sort order (`RowsAssumption`), and takes from the service what
its aggregators need (`ValuesAssumption`): a row has a value and can be compared where it is
sorted, a partial result is a number or, for an average, a sum with a count above zero, and
may be missing but for a count and a least value, since `MIN` is wrong without (a finding).
TLC evaluates them on its runs.

The installed provers cannot instantiate the library's induction theorems. Where a
model walks a sequence (the preferred locations, the marks, a log, pages) the
argument is by least counterexample instead: `LeastNumber` takes the least member of
a set of numbers from the library's well-foundedness of `<`, `Induction` follows for
a set in place of a predicate, and the recursive functions of the models are
unfolded one step at a time. The modules that need these lemmas each state them.
The recursive functions inside the operators of `QueryPipeline` (a fold, a sum, a list without
repetitions) are shown to exist first, by extending them one number at a time (`Recursion`).
`EndpointProofs` holds the theorems of three specifications, of the cache, the manager and
the requests, each about its own; the last two use those of the cache.

The arguments. *Cache*: marks are typed, and each operation either leaves the
age of a mark alone or restarts it, and only adds operations to it while it
stands. `CacheInv` adds what routing needs: both lists are non-empty, they hold
endpoints of the regions the account named or the global one, marks are no older
than the lists say they are, and in a single-master account the writer comes first.
`ResolvesToListed` shows that every combination of a list, an index and a request
then ends at an endpoint of the list. *Refreshes*: `RefreshInvariant` adds to the properties that the flag,
the background's place and the attempts of all refreshers determine one another;
`AtMostOneRefresh` alone is not inductive, because the hand-over to the
background leaves `attempt` zero with the flag raised. Every step of the manager is
a step of the cache or none, so `CacheInv` holds there too; `RoutingInvariant` adds
`Quiet`: with no refresh under way or to come, reads go to the most preferred region
that is there and writes to one that is not marked. *Requests*:
`ApplyInvariant` relates a request's control state to how often it was applied: a
write is sent again only from a state where it was not. Throttling, a forbidden
write and a missing session are answers that say so; a lost connection is not,
and is retried for reads only. *Tokens*: "every token names exactly the regions
of its version" (`FitInv`) is what makes `CaptureNeverThrows` inductive; merging
takes the regions of the newer version and therefore keeps it. `TokensGrow` rests
on the same invariant, without which the regions two tokens share are unknown.
`AheadInv` adds that answers on their way are not ahead either and that
incarnations to come have no tokens; answers of earlier ones may claim anything.
`ReadInv` follows what the client was answered with from the token it keeps
(`AckedInTokens`, which merging and dropping preserve) to the header of a request
(`RequestCovers`) and to its answer; a floor of the live container is committed
(by `AheadInv`), which is what a write's answer needs; a request of a
container that is gone has a floor no answer is compared with. *Waits*: the time
waited is below the maximum plus one wait some answer may ask for, since the policy
accepts a wait only while the maximum is not reached; the counters of the four policies pay
for the attempts, and the session policy's is bounded though its list changes, since every
recomputation leaves lists no longer than the preferred locations (`ListsFit`), with the flag
for multiple write locations never reset. *Session retries*: while the list stands still, every retry from
the first on was made at the place its number gives modulo the length of the list, or
is about to be (`SessionInv`); as many numbers in a row as the list is long leave no
place out (`GoesRound`). *Items*: `CreatedInv`, an item of the service is what the body
and the id of its owner make it, and requests and references carry that id;
`RaceInv`, a container that is there since a call found none was made meanwhile;
`ThroughputInv`, before its first use a body says what was asked for, after it the
options do, if they are those of that use, and options carry none that no body filled;
`StaleInv`, containers are numbered, and what is
known of a definition, in the cache (with the number of the last answered read), in an
answer or in a key that is sent, is that of the
container there is or has another number.
*Routing maps*: a point of the hash space is a number, even at a bound and odd between
two. Ranges of a complete map follow one another (`MapIsOrdered`), so a point is in
exactly one (`PointIsInOne`); the two searches and the test of the map leave just the
partitions that meet the range (`WhatOverlaps`). `WalkInv` says that what is collected is
of the map, in order, each once; that the ranges walked so far are collected, but
for an inclusive end at the boundary of two partitions; that each partition
collected has a point that was asked for; and that the range at hand ends behind the
last partition and begins no earlier than it does. The last is what makes the clipped
range (`Asked`) begin where the last partition ends and meet no partition a second time.
*Lock*: `LockInv` says who may be where: those in the queue are distinct and
wait, the constructor's task holds the lock until it is done, then one call at
most; releasing (`LeaveHandsOver`) is one lemma for all the places that do it.
`OneAtATime` is not inductive without it: a call woken from the queue
must not be inside already.
*Producers*: `ProducerInv` says that live partitions are disjoint, and that the
partition of every producer is live or "replaced": what is live inside its interval
is strictly smaller, so nobody else answers for it and a repair finds only children.
Producers' intervals are disjoint. What the holder has in hand (`active`, `todo`) is
in no queue, and by `LockInv` there is one holder. Target and replacement ranges are listed in order, each
once, because partitions that do not overlap have different ranks (`RankIsStrict`).
*Rows*: `RowInv` says that what no producer has left was delivered or is in hand, that
buffers and pages to come are in order and overlap nowhere, that the live partitions
have every row, and that the producers of replacements begin at the beginning. With
it each action maps to a step of `QueryResults` or to none; the replacement of a
producer is the only one that maps to `Reread`, and the row handed over is the
smallest because each producer shows its smallest and the queue is in order.
*Pipeline*: `PipelineInv` says, unless a call was rejected, that what the caller has or will
have with the page at hand (`Given`) is what the clauses make of the rows delivered so far:
the window of OFFSET, LIMIT and TOP, each value once (`RowInv`). The counters say how far
the rows delivered have used the limits up (`Spent`), as long as the source runs and no limit
is reached: after that they go on counting calls that give nothing. DISTINCT remembers, of
the values let through, those that can come again: all of them, or, where rows are sorted,
one that no later row is below (`Remembers`); a last value alone is not inductive without the
order of the rows still outstanding. A window of a beginning of the rows is a beginning of
the window of all of them (`WindowPrefix`), and so is its list without repetitions
(`OncePrefix`); at the end, or with a limit reached, the two are equal. For an aggregate,
folding the partial results in the order they come gives the total of the partitions heard
from (`AggregateInv`), since a total over a set of rows does not depend on an order; nothing
is given before all are in, and the one value is given at most once. Charges add up because
a page's charges are told or kept apart whole (`Settled`), the handlers pass them on whole (`ItemPasses`) and skipped rows' charges wait only
while no row was let through (`ChargeInv`).
*Iterators*: `IteratorInv` says that all rows before the continuation were taken but
those left of the page at hand, and that whatever is fetched, ahead or not, is the
page the continuation asks for; that gives the order, and the end.
*Change feed*: `FeedInv` says that what the etag skips was handed over, that what the
etag of an answer on its way skips was, or is in its page, whatever changed and
whoever was answered since the request; and that a call which is alone carries the
feed's own etag, past all that was handed over. An item's last change was its last
change before (`LatestBefore`), which is why a page stays complete while the log grows.

Only model-checked: everything temporal beyond single steps (`InitializationEnds`,
`RegionRecovers`, `RequestsEnd`, `CallsEnd`, `LoopsEnd`, `CallsSettleUnlessFailed`),
since liveness under fairness is out of the prover's reach. Every other property the
passing runs check is a theorem; type correctness is proved as far as the invariants
above contain it.

## What the code does and its documentation does not say

Recorded as findings, with quotations, in `PROJECT.json`: a query that hangs after
a failed repair; a reset that does not go back; replacement producers that start
over; falsy rows taken for exceptions; a refresh skipped while the background
sleeps; first attempts that ignore the preferred locations; account reads that never go to the preferred locations; any abort signal
aborting at once; tokens of a recreated container; `forceQueryPlan` without
effect; `MIN` over partitions without rows; DISTINCT after TOP and blind to falsy
values; an inclusive range end lost at a boundary; the start of a feed from now;
charges that `fetchAll` tells twice, that gatherings drop, and of pages that
`getAsyncIterator` does not yield; throughput stripped
from bodies and left in options; a key that is the id, taken before that is generated; a partition key definition that is never refreshed; a key in the
options that is ignored, and one that an `Item` remembers; a `null` on the path to a
key; what plugins pass to `next`.

Seen on the way and followed by the models as they are:

* A 410 met while the first page of a partition is fetched fails the query (only
  later ones are repaired). `maxDegreeOfParallelism` starts one producer more
  than asked for (`parallelQueryExecutionContextBase.ts:105`). A failed fetch after
  a row was taken loses that row with the query.
* `cummulativeWaitTime` is compared before the wait is added
  (`resourceThrottleRetryPolicy.ts:51`), so the maximum is exceeded by up to one
  wait. The first attempt of every request, reads included, ignores the
  preferred locations and goes to the write region (`retryUtility.ts:70-73` with an
  empty retry context); only session retries follow the preferred list.
* After 404/1002 on a single-master account the tokens of all ranges of the container are
  dropped, those of accepted writes included. `execute` (stored procedures)
  neither applies nor captures tokens.
* `isEndpointCacheInitialized` is set even if no account could be read, and
  `enableMultipleWritableLocations` is never reset once an account said so
  (`LocationCache.ts:255-257`), although `shouldRefreshEndpoints` goes by it.
* `PartitionKeyRangeCache` keeps a rejected promise; a listing with a gap gives
  `undefined` for a map and a TypeError at its first use.
* A failed aggregate answers `undefined` to the next call; a fetch that fails in
  `fetchAll` discards the rows gathered; a failed query plan stays with the iterator
  until it is reset; a page fetched ahead that fails is an unhandled rejection until
  it is awaited.

## Not modelled, and why

* Prefetching inside document producers (`DefaultQueryExecutionContext` with
  `bufferItems`) is in `QueryIterator`, not repeated in `ParallelQuery`: there a
  fetch is one step of the producer.
* `current` of the cross-partition contexts and components: nothing calls it
  (its release of the semaphore before its callbacks have run,
  `parallelQueryExecutionContextBase.ts:537-539`, would break `OneAtATime`).
* The filter of ranges for a continuation of a cross-partition query, which the service
  does not accept, and query plans without ranges: with either the lock of the
  constructor would never be released (lines 97, 128-137, 219).
* Errors thrown by comparators (mixed ORDER BY types), overlapping calls on one
  `QueryIterator`: documentation shows awaited calls.
* `getRangeByEffectivePartitionKey` and `range/*`: used by tests or by nobody;
  pure functions on numbers and intervals.
* `Container.replace`, which sends what it is given; `Databases.create` and
  `createIfNotExists`, which are those of containers without the partition key; the other
  CRUD classes, which check arguments and pass calls on. What a plugin does to
  contexts and responses is its own: of plugins the models have whether they call
  `next` again.
* Formatting of headers, links, paths, signatures, metrics; type declarations;
  samples, which are programs of their own that use the client.

## Plan

Done: the endpoint cache and manager, request retries, sessions, routing maps,
cross-partition queries, the pipeline with its charges, iterators, change feed,
containers and items; proofs of the safety of caches, routing, refreshes, requests and
sessions, of items, of the query's lock, producers and rows with its refinement of
`QueryResults`, of the pipeline, of routing maps, of iterators and of the change feed.

Left, in this order:

1. `ParallelQuery`: comparators that throw, and fetching ahead in producers.
   `QueryIterator`: overlapping calls.
2. `SessionContainer` composed with `RequestExecution` through one request, and
   `execute` of stored procedures.
3. The pure parts that no modelled part uses: `range/*`.
