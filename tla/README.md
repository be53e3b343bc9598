# TLA+ models and proofs of the Mood-Rule-Service

The Mood-Rule-Service answers `Recommend` calls: it asks the Auth Service for the
user's mood, looks in a cache, evaluates rules it holds in memory, asks the
Product Catalog for products and ranks them. Its rules come from a PostgreSQL
table and are reloaded when an event says they changed. This directory holds
TLA+ modules for the parts of the service with state, concurrency or an
algorithm worth checking, the TLC configurations that check them on small
instances, and proofs, checked by TLAPS, for every value of their constants.

## The system

| component | code | state | operations |
|---|---|---|---|
| request path | `internal/grpc/server.go` | the locals of each call | `Recommend`, `HealthCheck` |
| rule engine | `internal/engine/rule_engine.go` | `rules`, `version`, `rulesByMood` under a read-write lock | `Load`, `Reload`, `buildIndex`, `Evaluate`, `GetVersion`, `GetRuleCount` |
| rules | `internal/model/rule.go` | none | `Matches`, `CalculateScore` |
| cache | `internal/cache` | `store`, `stopped`, `stopCh`, the cleaner goroutine | `Get`, `Set`, `Delete`, `InvalidateByPattern`, `Clear`, `Close`, `GetStats`, `Ping`, `Size` |
| event bus | `internal/eventbus` | `subscribers` under a read-write lock, a goroutine per delivery | `Subscribe`, `Publish`, `PublishSync`, `Unsubscribe`, `Clear` |
| rule repository | `internal/repository` | the rules table | two queries of a load; create, read, update, delete |
| service clients | `internal/grpc/clients` | connection, circuit breaker shared by all calls | `GetUserMood`, `GetProductsByFilters`, `NotifyMoodUpdate` |
| mood update | `internal/http/mood_handler.go` | none | `UpdateMood` |
| process | `cmd/server/main.go` | what it wires together | start-up, shutdown |

How they interact:

- `main` loads the engine, subscribes a handler to `rule_updated` and only then
  opens its ports. Nothing in the repository publishes `rule_updated`.
- The bus runs each handler in a goroutine of its own. The handler calls
  `Reload`, then flushes the cache, then publishes `cache_invalidate`, whose
  handler logs.
- `Reload` queries the rules, then their largest version, outside the lock and any
  transaction, and takes the engine's lock to install both.
- `Recommend` reads the engine's version for its cache key, the cache, the engine
  again to evaluate, and writes the cache. It holds no lock across two of these.
- `UpdateMood` writes the mood to the Auth Service, publishes `mood_changed`, which
  nobody subscribes to, and notifies the catalog.

What is hard here, and what correct means:

- **Reload against requests.** Every request crosses four points where the rules
  may change. What it stores must not be found by a request for which it is stale.
- **Reload against edits and other reloads.** The rules and version in force must
  belong together, move forward, and end at the table's content.
- **The engine's lock.** One call sees one load: never an index half built, never
  the slice another request is appending to. Neither side starves.
- **Expiry.** An entry is returned until its time, not a moment later, whenever the
  cleaner runs; expired entries do not stay; `Close` may come at any time, twice.
- **The index.** It is a shortcut: a rule it does not offer is never evaluated.
- **Filters, scores and ranking.** What the catalog is asked for agrees with what
  its answer is scored by, and the ranking loses nothing.
- **Deliveries.** `Publish` waits for nobody; `PublishSync` waits for everybody,
  without the wait group and the error channel waiting on each other.
- **Remote calls.** An attempt that failed may have been carried out, or be later;
  a retry sends it again. The breaker must not count an outcome of an earlier state,
  nor stay half open with nobody under way.
- **Mood updates.** Two services are told one after the other and either may fail.
- **Stopping.** Calls, handlers, deadlines and deferred closes race a signal that
  may come at any moment.

`PROJECT.json` lists each of these at its line under `hazards`, with the
properties that cover it.

## Modules

| module | models | uses |
|---|---|---|
| `MoodRuleService` | `Recommend`, `Load`, `Reload`, the reload handler, the table, the cache as a map | |
| `TTLCache` | what the cache promises | |
| `MemoryCache` | the cache, its cleaner and its clock | implements `TTLCache` |
| `RWMutex` | Go's `sync.RWMutex` as operators on a value | |
| `RuleSnapshot` | what the engine promises its callers | |
| `RuleEngine` | the engine's fields under its lock, access by access | `RWMutex`, implements `RuleSnapshot` |
| `RuleRepository` | the statements and queries on the rules table, row by row | |
| `RuleMatching` | `buildIndex`, `Matches`, `Evaluate`, `aggregateFilters`, the scores | `Ranking` |
| `Ranking` | the exchange sort of `scoreProducts` | |
| `EventBus` | the bus, its publishers and delivery goroutines | |
| `RetriedCall` | what a call to another service promises | |
| `RemoteCall` | the retry loop of the clients and their circuit breaker | implements `RetriedCall` |
| `MoodUpdate` | `UpdateMood`, the Auth Service and the catalog it informs | extends `RemoteCall` |
| `Lifecycle` | `main`: start, servers, signals, shutdown | |
| `MC*` | values of the constants for TLC | the module they are named after |
| `*_proofs` | theorems about a module | the module they are named after |

Definitions whose comment begins with *Mutant* are not part of a specification.
Each is a plausible bug in the definition after it; with it in that definition's
place TLC finds the property named in `PROJECT.json` violated.

### How they fit

`MoodRuleService` takes a load's critical section, an `Evaluate` and each method
of the cache as one step. The other modules say why it may: `RuleEngine`
implements `RuleSnapshot`, whose steps are those, and `MemoryCache` implements
`TTLCache`. The one thing `MoodRuleService` adds is that an entry may disappear at
any moment, which covers any time to live. Content is abstract there: a rule set
is a value with a version. `RuleRepository` says what the statements do to the rows:
`MCMoodRuleService` runs them to make its tables, so that which edit raises, keeps or
lowers the largest version is computed, and `MCRuleMatching` queries a table for the
lists of rules it loads. `RuleMatching` gives rules content; its last step runs
`Ranking`, an instance on the same variables. `MoodUpdate` extends `RemoteCall`: each
update calls the catalog through the client, while other calls share its breaker.

### MoodRuleService

`load[l].pc` is where a goroutine is in `Load` or `Reload`: `rules` and `version`
are the two queries, `install` the critical section, `invalidate` the flush.
`req[r].pc` follows `Recommend` from one access to shared state to the next: the
mood, the key (`GetVersion`), the cache, the engine, the catalog and the cache.
`notices` counts edits whose event is still to be published. An answer is
recorded as the rule set it was computed from, the version its metadata name
and the part of the request the cache key leaves out.

The table and whoever announces its changes are outside the repository: `Edit`
is external, and so is whoever makes `Publish` happen, which nothing in this
process does. `OneAtATime` says editors wait for the reload.
At this commit `AuthClient.GetUserMood` returns an error whatever it is asked
(its remote procedure is a to-do); the model takes the interface `Recommend` is
written against, as the server's tests do with a mock, and lets the call fail or
return any mood.

### MemoryCache

`left` is the time until an entry expires and `-1` any time after; the clock
itself has no bound and needs none. `Get` returns an entry with `left` zero:
the code compares with `After`. `tick` is the one tick the ticker's channel
holds. The select of the cleaner takes either arm when both are ready.

### RuleEngine

`tail` is the room behind a mood's slice in the array of the index, where
`append` in `Evaluate` writes while only the read lock is held. Each slot is
written and read by a step of its own. The lock follows Go's: a writer that has
announced itself keeps out new readers, and lets those waiting in when it
unlocks.

### RuleMatching and Ranking

Conditions are sets of admitted values, moods a sequence, because a mood named
twice is indexed twice. Scores are integers: the code uses floats only to order
and to add. `sort.Slice` is not stable, so `SortMatched` takes any order that
agrees with the comparison. The catalog is external: it returns any of its
products within the prices asked for. Categories, merged as tags are and read by
nothing in the service, are left out. Rules reach the engine active, so
the first check of `Matches` never fails.

### RuleRepository

A table is a function from ids to the columns the service reads. A statement that
fails leaves it alone. Rows that tie in priority and age come in any order, so the
query returns a set of lists. The comment on `GetMaxVersion` speaks of all rules; the
statement, and the model, look at active ones only.

### RemoteCall and MoodUpdate

`GetUserMood`, `GetProductsByFilters` and `NotifyMoodUpdate` are one loop: try, wait,
and on failure try again up to `maxRetries`, unless the breaker is open. `call[c]` is
where a caller is in it. The breaker is modelled from what the clients set and
observe: `breaker.admitted` are the calls it let through since it last changed, whose
outcomes count. Its interval and its timeout are `expired`, which takes effect when it is
next used. An attempt puts a request on `wire`; the other service may carry it out
at any time, also after the attempt timed out and the caller returned.

`update[u]` follows `UpdateMood`. All updates are of one user, each with a mood of its
own. A handler ends in `failed`, `ok` or `lost`: the server gives each connection a
deadline for writing, `WriteTimeout`, which the timeouts of the handler's own calls may
together exceed; it ends all the same, but the caller hears nothing (`Answer`). Time is not
counted, so any answer may be the late one. Other users' calls do nothing to the breaker that these do not. `puts` are
requests on their way to the Auth Service. `alone` remembers updates that met no other
one, which is what makes agreement possible: nothing in the code orders two updates, and
the model lets them overtake each other. An identity serves again when nothing of its
last call is on the way, so that finitely many stand for any number.

### Lifecycle

`main` is where `main()` is, `open` what its deferred calls will close. A dial that fails
leaves a nil client, which is only logged. `Fatal` and a panic outside net/http end the
process without the deferred calls. `Recommend` checks `s.authClient == nil` on an
interface that holds a nil pointer, so the check passes and the method panics: `CallClient`
does what the code does. `late` is the deadline of `shutdownCtx`, which starts running
before `GracefulStop`.

### EventBus

A slice of handlers is copied under the lock and appends never write within its
length, so a snapshot is a value and each locked section one step. A delivery
goroutine runs, returns `nil` or an error, sends or logs the error, and is done.

## Runs

| run | specification | shows |
|---|---|---|
| `SerialEdits` | `Spec`, two requests, one reload, failing queries | the five safety properties of versions and cached answers, for edits that raise the version and wait |
| `Convergence` | `FairSpec`, one request, one reload, edits at any time that raise, keep or lower the version | a version is never older than the rules it is paired with; the engine and the cache end at the table's content |
| `MemoryCache` | `FairSpec` | it implements `TTLCache`; `Close` is idempotent and ends the cleaner, which frees expired entries until then |
| `RuleEngine` | `FairSpec`, two readers, one loader | it implements `RuleSnapshot`; nobody starves |
| `Recommendations` | `Spec`, from table to answer | the index, the filters and the scores agree; the answer is sorted and loses nothing |
| `EventBus` | `FairSpec` | `PublishSync` answers for all its handlers and returns if they do; `Publish` returns even if they do not |
| `MoodUpdate` | `FairSpec`, two updates | calls implement `RetriedCall`; the breaker accounts for its calls and recovers; every handler ends, though its answer may come too late; an update that was alone and acknowledged leaves both services agreeing |
| `Lifecycle` | `FairSpec`, two gRPC calls, one HTTP request | nothing is closed under a call; handlers get their time; a stop ends, cleanly unless a server failed or a client was missing |

`VersionReadAfterRules` is about the order of the two queries. Versions are used again
when an edit lowers them, so it does not compare numbers: it asks that some content, equal
to the rules in force or made from them by edits, has the version in force. `Convergence`
checks it where it can fail, with edits between the queries, for one goroutine that
reloads; with two, as in `LostReload`, the graph is too large beside the liveness
properties, and the theorem `VersionsFollowRules` covers any number of overlapping reloads.

Deadlock checking is off where the system may rest: a table nobody edits again, an
answered request, and a process that has ended.

Four more runs state what a document or comment says and find the code does
something else:

| run | the document says | the code does |
|---|---|---|
| `LostReload` | rule updates take effect in real time | of two overlapping reloads the older may install last, for good |
| `StaleAfterFlush` | rule updates flush the cache | a request in flight stores its old answer after the flush; if the version did not change it is served until it expires |
| `OtherContext` | the occasion is part of the context evaluated | the cache key leaves out occasion, preferences and purchase tags |
| `OrRules` | rules match with AND or OR | an OR rule that names a mood is never looked at for another mood |

Reading the code for the models showed more, which needs no run:

- The README says rules are reloaded on a Kafka message and on a timer. The
  process has neither: nothing reads `ReloadInterval` and nobody publishes `rule_updated`.
- `eventbus.New(100)` is commented as a buffer of 100 events. The size is stored
  and never read; each delivery is a goroutine.
- `main` calls the clients optional and says the service works degraded without them
  (`main.go:94`). Without the Auth Service at start-up the first `Recommend` panics, and
  `HealthCheck` calls the missing client healthy. `StopIsClean` has the exception.
- The README promises a graceful shutdown with a timeout of thirty seconds. The timeout is
  that of the HTTP server: `GracefulStop` has none, and one open stream keeps the
  process alive. `StopEnds` has the premise.
- A signal before the gRPC goroutine reaches `Serve` ends the process as a fatal error.
- `GetMaxVersion` is documented as the maximum over all rules and takes the active ones,
  so that deactivating a rule can lower the version.
- `UpdateMood` says "Don't fail the request if notification fails" (`mood_handler.go:81`).
  A notification that fails slowly does: a PUT of nearly ten seconds, four attempts of
  five and the backoff exceed the thirty of `WriteTimeout` (`main.go:213`), after which the
  answer is dropped. `Answer` has that outcome (`lost`).
- `SerialEdits` without `OneAtATime` violates `EngineVersionNamesRules`: an edit
  between the two queries of a reload pairs the old rules with the new version.

### Bounds

Every bound is a constant or a guard with a name.

- `MaxNotices` (1 or 2) bounds unpublished edits. Two edits and two handlers are
  the least with which reloads overlap, and every violation found needs no more.
- Tables have two rows and four or five contents, enough for each edit to raise, keep or
  lower the version. One key suffices: keys do not interact. Two requests are the least
  with which one finds what the other stored. `Convergence` has one: an identity serves
  again and finds what it stored before, and a second multiplies the graph by thirty.
- Times to live of two units with a ticker of three make entries expire before, at
  and after a tick.
- `MaxAny` (2) gives the shared array two slots, so that an interrupted append is
  half done. Rule sets list the same rules for any mood in other orders, so a slot
  changes its rule at a reload. One loader suffices for what readers see; with a
  second one the graph is out of reach for liveness, and the proofs cover any number.
- Six rules in five lists differ in logic, conditions, bucket, price range and tags;
  requests range over every combination of the values they ask about.
- Four products in every order the catalog may send include ties, no product and one.
- Two calls with one retry each are the least with which one finds a breaker that another
  opened or half closed. `MaxRequests` (1) makes one success or failure decide. `MaxLoad` (1)
  keeps calls from beginning while the interval is busy; with the calls and retries already
  under way the three requests that `ReadyToTrip` asks for are reached.
- Two gRPC calls and one HTTP request are the least with which one ends and another stays.
- `MaxSubscribers` (2) gives `PublishSync` two goroutines to interleave. One call is
  enough: calls share only the subscribers, which change freely around it. The
  bound on subscriptions restricts the instance, not the bus.

### Fairness

- Goroutines that can run do: weak fairness on the steps of a load, a request, a
  reader, a writer, a publisher and a delivery. Remote calls and queries end, for
  each has a timeout or an error.
- An edit is announced (`Publish`): an assumption about the deployment. Nothing
  obliges anyone to edit or to call; in `Convergence` no query fails (`ReadsMayFail`).
- Strong fairness where a step is enabled again and again without staying so: a
  writer taking the lock (a `sync.Mutex` hands itself to a waiter that starves) and
  either arm of the cleaner's select (Go chooses among ready arms at random).
- In `MoodUpdate` handlers and calls run on, attempts and the PUT end by their timeouts, and
  time passes for the breaker. No message has to arrive and nobody has to call:
  `BreakerRecovers` says in its premise that the catalog works and is called.
- In `Lifecycle` `main` and `Recommend` run on and the deadline passes. Streams and HTTP
  handlers may stay for ever; servers may be slow to start.
- The bus assumes nothing about handlers. `PublishSyncReturns` and `HandlersRun` say
  in their premise that handlers return; `PublishNeverWaits` does without.

## Proofs

| theorem | states |
|---|---|
| `TypeCorrect` | `TypeOK` of `MoodRuleService` |
| `VersionsMatch`, `CurrentEntriesFresh`, `AnswersFresh`, `NoStepBack` | the properties of `SerialEdits`, under `Disciplined` |
| `VersionsFollowRules` | `VersionReadAfterRules`, for any edits and any number of reloads |
| `VersionsCover` | the engine's version and that of a cached answer are at least that of their rules, if edits only raise it (`RaisingEdit`) |
| `CacheTypeCorrect`, `CacheKeepsPromise`, `CloseSafe` | type, refinement of `TTLCache`, idempotent `Close` |
| `CacheOnlyForgets` | seen through `Get`, only `Set` adds to the map: what `MoodRuleService` takes the cache for |
| `EngineTypeCorrect`, `EngineKeepsPromise` | type, refinement of `RuleSnapshot` |
| `RankingTypeCorrect`, `RankingCorrect`, `RankingKeepsProducts` | indices, order and permutation |
| `MatchingTypeCorrect`, `AndRulesAreFound`, `PricesRespected`, `CreditAgrees`, `AnswerRanked` | the properties of `Recommendations` |
| `EvaluateIsExact`, `OrRulesAreFound` | what `Evaluate` returns, and the only way a rule that matches is missed |
| `ComparisonIsSound`, `MatchedCanBeSorted` | the comparison given to `sort.Slice` is a strict weak order, so the sort has a result |
| `QueryListsActiveRows`, `QueryHasAnswer` | the query of a load lists each active row once, in order |
| `VersionedEditRaises`, `RemovalNeverRaises` | which statements raise, keep or lower the largest version |
| `BusTypeCorrect`, `SyncIsComplete`, `ClosedAfterLastSend` | the safety properties of `EventBus` |
| `UpdateTypeCorrect`, `BreakerAccounts`, `HalfOpenIsDecided`, `AnnouncedAfterStored`, `AloneUpdatesAgree` | the safety properties of `MoodUpdate` and the breaker |
| `CallsKeepPromise` | `RemoteCall` within `MoodUpdate` implements `RetriedCall` |
| `ProcessTypeCorrect`, `ResourcesOutliveCalls`, `HandlersGetTheirTime`, `StopsAreClean` | the safety properties of `Lifecycle` |

They assume what the modules state with `ASSUME`: the constants' types, that calls are
finitely many, and that `None` and `Nobody` are nothing else. `RuleMatching` assumes that
a list has each row once, which `QueryListsActiveRows` proves of the query for rows told
apart by a column (a rule carries its id); that moods, scores and prices have their types;
that the catalog is finite; and that no mood is `"*"`, the bucket of rules without one,
which nothing in the code keeps a rule or the Auth Service from using.

**Request path.** `Disciplined` says that edits wait for the reload, that each raises
the version, and that two contents in use do not share one. The properties are not
inductive. The invariant `IInv` of `MoodRuleService_proofs` has four parts: what each
load has read so far is what the table held (`LoadInv`); the engine's version names its
rules and is at most the table's (`EngineInv`); a request's version is at most the
engine's, and its answer lies between the two (`RequestInv`); every cached answer is at
least as new as its key and at most as new as the engine (`CacheInv`). The last two make
a late store harmless: its key names an old version unless its answer is current. The runs
`LostReload` and `StaleAfterFlush` each drop an assumption and fail, so none is idle.

`VersionsFollowRules` needs none of this. The rules are read before the version, so
whatever edits come in between, and whichever reload installs last, the version is that of
a later content (`SinceInv`); where edits only raise it, later means no smaller, which is
`VersionsCover`.

**Cache.** Under the mapping that hides expired entries every step is a step of
`TTLCache` or a stutter; the type invariant suffices. In particular `RemoveExpired` is a
stutter and `Elapse` ages both alike. `CacheOnlyForgets` is about the values alone: in
each step a key keeps what it held, loses it or is `Set`. A unit of time in which several
entries expire is several `Expire` of `MoodRuleService` in a row.

**Engine.** The mapping makes a load take effect when its writer enters. The invariant
adds to the type: writers exclude each other and readers (mutual exclusion); at each
point of a writer which fields are new; and, for a reader, which slots of `tail` hold
the rules of the index. A slot may be overwritten by another reader but only with the
same rule, as both read the index that no writer can change: this is why the append is
harmless.

**Ranking.** Positions below `i` are final, and within a pass position `i` dominates
those already compared.

**Matching.** The invariant has a part for each loop, and says how far it is: a bucket
holds the rules indexed so far that belong there (`IndexInv`); the matched rules are the
candidates looked at so far that match (`MatchInv`); the filters are those of the matched
rules (`FilterInv`); every scored product was asked for (`ScoreInv`); the sort has done
what its own invariant says (`RankInv`). Once the index is built a request's candidates
are the rules that name its mood or none (`CandidatesAreOffered`), from which both what
is found and what `OrRules` misses follow: `OrRulesIndexable` excludes just the rule of
that run. No rule comes twice unless it repeats a mood, since the two buckets of a request
share none. The sort is not proved again: `RuleMatching_proofs` takes `Ranking_proofs` as
an instance on its own variables and cites its steps. Maxima, sums and sorted
enumerations of finite sets need induction, which is made by choosing a smallest
counterexample (`SmallestSet`, `LeastNatural`), as the library's induction rules cannot be
used.

**Versions of the table.** `VersionedEditRaises` is what makes an edit satisfy
`RaisingEdit`. `RemovalNeverRaises` is why some edits do not: deleting or deactivating a
rule keeps the version if another active rule has it, else lowers it, the two cases of
`Convergence` and `StaleAfterFlush`.

**Bus.** All a call owns is in its record, so the invariant is one of records (`CallOK`):
handlers from `next` on have no goroutine, the wait group is the number of goroutines at
work, and every error is in the channel until it is in the answer.

**Mood update and client.** Four invariants, one on top of the other: the breaker's
counts add up to the calls it admitted (`Counts`); a call in the loop has an attempt, and
no request of a later one was sent (`CallInv`, `MessageInv`); an update notifies only
once the Auth Service has answered, and no request is on its way to both services
(`StoredInv`); and while an update is alone every
message on the way and every mood stored is its own (`AloneInv`). The half-open result follows by counting:
requests at the limit and successes below it leave an admitted call. The
refinement forgets the breaker: `Attempt`, both refusals that go round again and `Elapse`
are stutters.

**Process.** What `main` has reached bounds what is open and what the servers may accept
(`PhaseInv`).

Only model-checked: everything under fairness (`ReloadConverges`, `CacheConverges`,
`ExpiredEntriesAreFreed`, `CleanerStops`, `ReloadsFinish`, `ReadsFinish`,
`PublishSyncReturns`, `HandlersRun`, `PublishNeverWaits`, `UpdatesEnd`,
`BreakerRecovers`, `StopEnds`), which the proof system cannot reason about. Every other
property of a passing run is stated by a theorem.

## Plan

Done: the modules above, in the order `MoodRuleService`, `MemoryCache`, `RuleEngine`,
`RuleMatching`, `Ranking`, `EventBus`, `RemoteCall`, `MoodUpdate`, `Lifecycle`,
`RuleRepository`. Worth adding still:

1. A composition of `EventBus` with the reload handler, so that `Publish` of
   `MoodRuleService` is a refinement rather than an assumption.
2. The steps of `MoodRuleService` on engine and cache as those of `RuleSnapshot` and
   `TTLCache`, in one composition.

Not modelled, and not planned: configuration, logging, metrics, the Swagger page,
wire formats and migrations, which keep no state the service reads back; the wording of
the cache key, whose parts may contain its separator; `Ping`, which always succeeds;
`HealthCheck` and `GetStats`, which only read; SIGKILL and a lost machine, after which the
service starts from the table again as `MoodRuleService` does.
