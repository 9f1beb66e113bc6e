# The semantic cache proxy in TLA+

The repository is an OpenAI-compatible proxy that answers repeated prompts from
a semantic cache. A cached answer has a time to live (TTL) that a bandit policy
chooses among a few buckets; refresh cycles later judge the entry, move it
between buckets and train the policy. Paths below are relative to `src/`.

## 1. Inventory

| Component | State it keeps | Operations | What makes it correct |
|---|---|---|---|
| Proxy service, `app/proxy/service.py`, `router.py` | per request: the `CacheContext` and locals; the connection pool of the shared `httpx.Client` | `forward` → `_authorize`, `lookup`, `select_ttl_bucket`, backend call, body or stream, `store`, `log_ttl_decision`, `log_feedback_event` | every request is answered; what the client and the logs are told agrees with the stores; connections come back; a stream is whole |
| Semantic cache service, `app/cache/service.py` | none of its own; drives the two stores, the embedder and the policy | `lookup`, `select_ttl_bucket`, `store`, `log_*`, `record_hit`, `log_refresh_outcome` (with `_maybe_extend_ttl`, `_apply_guardrails`), `bootstrap` | no expired entry is served; the stores agree with each other; the policy learns what was decided |
| Repository and schema, `app/cache/repository.py`, `models.py` | Postgres: `cache_entry`, `ttl_decision`, `feedback_event`, `policy_reward` | `create_schema`; one statement per other method | a UNIQUE fingerprint has one row, whose counter only grows |
| Vector store, `app/cache/qdrant.py` | Qdrant: a point per entry, with `expires_at_ts` in its payload | `search`, `upsert_point`, `ensure_collection` | a point has its row |
| Refresh worker, `app/tasks/` | a batch of candidates | `run_once` | a cycle ends; overlapping cycles do not harm the entries |
| Policy manager, `app/policy/manager.py` | the policy, `_updates_since_flush`, the snapshot file | `select_action`, `update`, `flush`, `_persist_locked`, loading | the snapshot is whole; a crash loses a bounded number of updates |
| Bandit policies, `app/policy/bandit.py` | matrices per action, `FeatureIndexer` | `vectorize`, `choose`, `update`, `propensity`, `save`, `load` | a position belongs to one feature |
| Background runner, `app/runtime/async_runner.py` | an event loop on a thread of its own, `_closed` | `run`, `close` | every `run` returns or raises |
| Embedding service, `app/cache/embedding.py` | the model, loaded on first use under a lock | `embed` | one load at a time, a failed one is retried, a successful one never repeated |
| Application factory, `flask_app.py` | which of the components exist | `create_app`, `_initialize_semantic_cache`, closing at exit | a failing or slow start leaves a proxy without cache, and closed clients |
| Migrations, `app/cache/migrations.py`, `alembic/` | the revision of the database | `upgrade_head` | a proxy with a cache has every table |
| Features, configuration, logging | none | pure functions, parsing, output | — |

**How they interact.** Flask serves each request on a worker thread. The thread
runs every cache operation as a coroutine on the one background loop and waits
for it; the coroutines of several requests interleave at their `await`s (the
database statements) and at the `to_thread` calls (Qdrant, the embedder), and
the threads interleave freely between two operations. The backend is called by
the thread itself, over the connection pool that all threads share. Refresh cycles run against
the same Postgres and Qdrant, in any process. The stores share no transaction:
each statement commits on its own.

**What is hard.** The two stores are written one after the other without a
transaction; rows are checked, then read again; a read and the write computed
from it are two statements; any call may raise, with or without its effect; the
process may die anywhere; time passes between a check and its use. The hazards
are listed one by one in `PROJECT.json`, each at its line with the properties
that watch it.

## 2. Modules

```
CacheStorage ──┬── RequestPath ──┬── CacheSystem ── MCCacheSystem, CacheSystemProofs
               └── RefreshPath ──┘
CacheSystemProofs ── CacheLifecycleProofs ── CacheProgressProofs
RequestPath ───── MCRequestPath, RequestPathProofs ── EntryLifecycleProofs
EntryLifecycle ·· implemented by RequestPath and by CacheSystem (INSTANCE)
EmbeddingService ── Forwarding ── MCForwarding, ForwardingProofs
PolicyManager ── MCPolicyManager, PolicyManagerProofs
AsyncRunner ──── Lifecycle ── MCLifecycle, LifecycleProofs
AsyncRunner ──── MCAsyncRunner
```

**CacheStorage** is the durable state and its statements. `rows` is
`cache_entry`, `points` the Qdrant collection, `decisions` `ttl_decision`,
`feedback` the serving events of `feedback_event`, `clock` the time in ticks.
An entry is named by its fingerprint: the column is UNIQUE and no statement of
the program deletes a row, so that there is one row per fingerprint at most.
`SearchResults` is the search: above the threshold, payload not expired,
`search_limit` best ones, in any of the orders ties allow. A hit needs the same
model and parameters; `Score` is 0 for entries of others. That `Score` is any
function makes the prompt's text, the embedding and the distance irrelevant.

**RequestPath** is `ProxyService._forward` with the cache operations it awaits.
`handler[h]` holds the locals of the request a thread serves; its `pc` names the
call about to be made, and one action is that call and the code after it up to
the next.

| Action | Code |
|---|---|
| `Receive`, `Respond` | entry and exit of `_forward`; a request that is not cacheable has no fingerprint |
| `VectorSearch`, `Discard`, `ChooseLive`, `NoLiveCandidate` | `lookup`, `_materialize_hit`: embedding and search, then the candidates one by one |
| `RecordHit`, `Reread`, `ServeHit`, `LogStaleHit` | `record_hit`, the second read of the row, the serving event |
| `SelectBucket` | `select_ttl_bucket`; `Selectable` may hold a bucket that does not exist |
| `BackendAnswers` | the httpx call, its status and its body |
| `Stamp`, `Insert`, `Upsert`, `Reload` | `store`, whose exceptions `_maybe_store_response` swallows |
| `LogDecision` | `log_ttl_decision`, outside that `try` |
| `Fail`, `Crash` | any call in `Faults` raises, after its statement took effect or without; the process dies |

**RefreshPath** is `run_once` over a batch and `log_refresh_outcome`. The
pipeline is only an interface in the repository and nothing there starts a
cycle, so it returns any outcome, none, or raises, and cycles start at any time
and overlap. `Evaluate` draws the outcome; `ReadEntry` and `Adjust` are the two
statements of an extension or a guardrail; `LogOutcome`, `Reward`,
`FetchDecision` and `Train` follow. `Train` counts updates per entry and action;
which matrices they change is PolicyManager's matter. The value of the reward is
left out: no control depends on it. `Abort` is an exception leaving `run_once`
or a killed cycle.

**CacheSystem** is both paths over the same stores, where the interesting
interleavings are.

**EntryLifecycle** is the abstract specification: what the cache promises of an
entry, with no thread, call, statement or failure in it. Per entry it has a
`stage` (absent, stored, indexed, decided), a `lease` (bucket, creation, expiry),
the expiry the index knows, and the counts of hits and of servings. RequestPath
implements it with `Movable = FALSE` and CacheSystem with `Movable = TRUE`, where
a refresh may change the lease. The refinement mapping reads the stage off the
tables (`StageOf`: a row, a point, a decision) and the lease off the row
(`LeaseOf`); every step of a thread, a cycle, a failure or a crash is one abstract
step or none. What the mapping says is that the order of the writes, the lifetime
of a bucket, and counting before serving survive everything the detailed modules
do.

**Forwarding** is the same `forward` from the client's and the backend's side:
`Receive` (token, eligibility, the exceptions of `normalize_request`), the
embedding that `lookup` and `store` begin with, `Open` to `BodyArrives` (the
pooled connection, the headers, errors and timeouts, the body), `Stored`, and the
stream. `exchange[h]` holds a thread's request; `connections` are the threads
that hold a connection; the two stores, which RequestPath has in detail, are the
set `cache` of the answers kept. `Chunk`, `StreamEnds` and `StreamBreaks` are the
generator of `_as_streaming_response` as it is driven in the program: by
`_after_request`, whose `calculate_content_length` makes werkzeug run it to its
end before the response leaves (section 6).

**EmbeddingService** is `embed`: the lazy load under the FIFO `asyncio.Lock`, the
waiters that look again once they hold it, a load that fails and frees the lock
for the next, and the second attempt of `_encode_texts`. A step is what a
coroutine does between two awaits. Forwarding's threads are its callers.

**PolicyManager** is the policy with its indexer, autosave and snapshot. The
floating-point matrices become `weights`: which features have ever been
multiplied into which position, the one fact needed to tell whether positions
and weights belong together. A method holds a lock and awaits nothing, so it is
one step, except that `_persist_locked` is split at its two file operations,
where a disk fails and a process dies. `Restart` deploys any configuration of
`Deployments`: another number of buckets, another dimension, growth switched on
or off, another type of policy, or one that the constructors refuse. `Load` keeps
the configuration found in the snapshot, as the code does, and raises when the
type differs; a start that raises leaves no process (`NoPolicy`). `failures` is a
history variable.

**AsyncRunner** is `run`, `close` and the loop's thread. asyncio's event loop is
external and modelled handle by handle, because the order of handles is what
matters: `ready` is its queue, `batch` the handles of the present iteration;
`loop.stop` is a handle like any other and takes effect after its batch; a
coroutine that ends queues the callback that tells its caller. `call[c]` follows
one call of `run` from the check of `_closed` to its return, `gathered` are the
cancelled tasks `_run_loop` waits for. A coroutine awaits once or not at all:
more awaits only repeat the suspension. `close` is called by one thread, as in
the program.

**Lifecycle** is `create_app` and `_ResourceBundle.close` over AsyncRunner: the
main thread's `run` and `close` are those of AsyncRunner, and the other callers
are the threads that serve requests. The bootstrap (`ensure`) is `create_schema`,
which creates `cache_entry` on the loop and on Postgres runs the Alembic upgrade
in a thread, then `ensure_collection` in another. `schema` and `collection` are
what the stores hold. A thread outlives the bootstrap's timeout; other processes
bootstrap the same stores (`OtherProcess`), and any call may then raise.

Definitions whose comment begins with "Mutant:" are plausible bugs. No action of
a specification uses them; each shows that a property can be broken by an error
in the definition it stands for.

## 3. Runs

| Run | Result | What it shows |
|---|---|---|
| `request_faults` | holds | two concurrent requests of three, two prompts that are near duplicates, every call failing, crashes; EntryLifecycle implemented |
| `system_overlap` | holds | two overlapping refresh cycles on the entry requests store, failures on both sides; EntryLifecycle with moves implemented |
| `system_ends` | holds | every request is answered and every cycle ends |
| `forwarding` | holds | two threads, one connection, every kind of request and of backend answer, near duplicates and a prompt like no other, a load of the model that fails |
| `policy_faults` | holds | selections, updates and flushes with torn files, failing disks, restarts under five configurations |
| `start_and_exit` | holds | start with a bootstrap that fails, times out or races, service, and exit while two threads use the loop |
| `miss_persisted` | violated | see section 6 |
| `backend_forwarded` | violated | |
| `live_found` | violated | |
| `every_run_returns` | violated | |
| `stream_relayed` | violated | |
| `own_format` | violated | |

The properties, by the question they answer:

- *Do the stores agree?* `PointMatchesRow`, `DecisionMatchesEntry`,
  `RowThenPointThenDecision`: the order row, point, decision survives every
  failure, crash, race and refresh. `FirstRowStays`: a race of two misses never
  replaces the winner's row. `OrphansStay`: the price of that order, a row whose
  point was lost is never repaired.
- *Do the details keep the promise?* `ImplementsEntryLifecycle`,
  `ImplementsMovableEntries`: the refinement of EntryLifecycle.
- *Is the client told the truth?* `ServedHitWasLive`, `StoredMeansRetrievable`,
  `ServedHitsAreCounted`, `EveryRequestIsAnswered`. `StreamsAreWhole`: a stream
  that breaks off is never passed off as ended. `ErrorsAreNotReplayed`: what the
  backend answered with an error is never a later hit.
- *Are shared resources given back?* `ConnectionsAreReturned`: no thread keeps a
  connection past its exchange, nor while it waits for the model or the stores.
  `OneLoadAtATime`, `LoadedOnce`: concurrent first requests load the model once.
  `EveryForwardReturns`.
- *Are lifetimes right?* `EntryLivesWithinItsBucket`: overlapping or delayed
  moves never give an entry more than its bucket's TTL from now on.
- *Is the right thing learnt?* `TrainedAsDecided`, `LearnedInOrder`,
  `EveryCycleEnds`.
- *Does the policy survive?* `WeightsNeverMix`: positions handed out after the
  last snapshot are handed out again after a restart, possibly to other
  features; selections alone grow the index and are never saved by themselves,
  yet no weight ever mixes two features. `ShapesAgree`: whatever is deployed
  over an old snapshot, scores and updates use matrices of the policy's own
  number and dimension. `NoGrowthLearnsNothing`: with growth switched off from
  the start the index stays empty, and so every weight, across every restart: such
  a policy never learns. `CrashLosesTheCounted`, `LossIsBounded`.
- *Do start and exit leave nothing behind?* `DegradedHoldsNothing`,
  `ExitReleasesAll`, `StartEnds`, `ExitEnds`. `CachedMeansReady`: a proxy that
  serves with a cache after a bootstrap has all its tables and its collection,
  whoever created them.
- *Is a coroutine ever forgotten?* `WakeupsAreKept`: through stop, cancellation
  and draining, every waiting call has exactly one handle that takes it on.
  `EarlyCoroutinesEnd`: what was submitted before the stop runs or is cancelled.

`ServedHitWasLive` is a property of RequestPath alone. In CacheSystem a refresh
cycle whose UPDATE is delayed past the expiry it has computed may put an already
expired lifetime between the lookup's check and its second read; the second read
does not check again.

### Bounds

Every bound is a constant named in its module and appears in one guard.

| Bound | Guard | Why it is enough |
|---|---|---|
| `MaxTime` 1–3 | `Tick` | with buckets of 1, 2 (and 4) ticks, an entry is stored, expires and is asked for again in 2 ticks; an extension outlives the original expiry within 3 |
| `MaxRequests` 1–4 | `Receive` | two requests race, a third comes after them and meets what they left; in Forwarding a fourth, so that both threads start again |
| `MaxChunks` 2 | `HeadersArrive` | a stream that breaks off after a part of it |
| `MaxCycles` 1–2 | `StartCycle` | two cycles overlap, or the second moves an entry that the first has moved |
| `MaxUpdates` 4 | `Update` | two autosave intervals of 2, with a restart in between |
| `MaxFailures` 2 | `PersistFails` | failures in a row beyond the interval |

AsyncRunner and Lifecycle need no bound: a thread has one call at a time, so the
queue is never longer than the number of threads and one stop.

Sets are as small as the hazards allow: two threads and two fingerprints (a race
on one fingerprint, and a search that returns several candidates), two workers,
three features for two positions (the index runs full), three buckets (an entry
can be moved twice), and one connection for two threads (the pool runs dry).
`Selectable` holds a bucket beyond the last one in
`request_faults` and `system_overlap`: a policy loaded from a snapshot has the
number of actions it was saved with. Threads, workers, fingerprints in
`request_faults` and features are interchangeable in `Init`, `Next` and the
properties, hence the symmetry sets; the liveness run uses none.
`system_overlap` has one thread and one fingerprint, for what two threads do to
one another is `request_faults`' question, and lets only the calls of the store
phase fail on the request side.

`CHECK_DEADLOCK FALSE` in the runs of RequestPath, CacheSystem, Forwarding,
AsyncRunner and Lifecycle: once the bounded requests, cycles and ticks are used up the model
stops, and so may the system when nobody sends a request; a closed runner and an
exited process stop as well. PolicyManager never stops and is checked for it.

### Fairness

Weak fairness of each thread's and each cycle's own steps: a thread that has a
request goes on, and the call it waits for returns or raises. The operating system's
scheduler and the event loop's FIFO queue give the first; the second is given
for the backend by the timeout of the httpx client (`flask_app.py:125`), and is
an assumption about Postgres and Qdrant, whose calls the code bounds by no
timeout of its own. It is not required that a
client sends a request (`Receive`), that a cycle starts (`StartCycle`), that
time passes, or that any call fails (`Fail`, `Abort`, `Crash`): the answer may
come from success alone. In Forwarding the same holds of
a thread's steps (`Forward`): the load and the encoding of the model end, a wait
for the pool and for the backend is bounded by the client's timeout, and the
asyncio lock is given to its waiters in order. PolicyManager has no liveness
property and no fairness.

In AsyncRunner and Lifecycle the loop's thread runs, a thread that has passed the
check of `_closed` submits, and what a coroutine awaits happens or is cancelled;
for the bootstrap this is the timeout of `wait_for`, for a disposal an assumption
about the driver. The main thread goes on. Nobody need call `run`, and the
process need not exit.

## 4. Proofs

TLAPS checks, for any set of threads and fingerprints, any scores, buckets,
TTLs, limits and bounds, and any set of failing calls (`RequestPathProofs`):

- `RPInvariant`: `RPSpec => []RPInv`, and from it `TypeCorrect`,
  `PointsMatchRows`, `DecisionsMatchEntries`, `ServedHitsWereLive` and
  `StoredResponsesAreRetrievable`;
- `FirstRowsStay` and `OrphansRemain`, the two action properties.

For any number of the same (`EntryLifecycleProofs`):

- `ServedHitsCounted`, and `RefinesEntryLifecycle`: the whole of RequestPath, with
  its failures and crashes, implements EntryLifecycle.

For any number of threads, workers and entries together (`CacheSystemProofs`):

- `SystemInvariant`, and from it `SystemTyped`, `StoresInOrder`,
  `LivesWithinBucket`, `TrainsTheDecision` and `LearnsInOrder`.

For the same (`CacheLifecycleProofs`):

- `RefinesMovableEntries`: the whole system, with overlapping requests and cycles,
  failures and crashes, implements EntryLifecycle with `Movable = TRUE`;
- `MovableInvariant`, on which it rests, and from it `SystemHitsCounted`.

And of what its steps can never do, and what a client can rely on
(`CacheProgressProofs`):

- `RequestsGoForward`, `CyclesGoForward`: each step of a request or of a cycle
  leaves it fewer calls to make. With `RequestsStayShort` and `CyclesStayShort` a
  request makes at most `3 * SearchLimit + 10` calls and a cycle takes at most
  `8 * BatchLimit + 2` steps, whatever goes on beside it;
- `PointsAreFinal`: no point is ever written twice; `SystemOrphansRemain`: a row
  left without a point stays so in the presence of refresh, too;
- `RepliesAreBacked`: what a request reports as stored is on record in all three
  stores as this request made it, and a hit it reports is indexed and counted;
- `UnmovedEntriesAreFound`, `AnswersAreForwarded` and `OnlyRowsRefuse`: three of the
  sentences that the code breaks (section 6), each under the condition that takes
  its one cause away.

For any features, dimension, autosave interval and set of deployments
(`PolicyManagerProofs`):

- `PolicyInvariant`, and from it `SnapshotIsWhole`, `WeightsStayPure`,
  `ShapesStay`, `NothingIsLearnt`, `CrashLoss` and `BoundedLoss`.

For any threads, requests, keys and pool size (`ForwardingProofs`):

- `ForwardingInvariant`, and from it `OneLoad`, `ConnectionsComeBack`,
  `WholeStreams`, `NoReplayedErrors`, and the action property `LoadedForGood`;
- `RequestsAreAdmitted`: nobody without a valid token is answered from the cache or
  from the backend, no request that is not cacheable reads or writes the cache, and
  an answer from the cache was kept for an admitted request of the same model and
  parameters, whose prompt the search takes for similar;
- `ForwardsGoForward`: each step of a thread leaves its exchange fewer steps, at most
  `MaxChunks + 17` in all, and no step of another takes it back;
- `FormatsAgreeByRoute`: the conditional form of finding 6.

For any finite set of threads (`LifecycleProofs`):

- `RunnerKeepsWakeups`: the runner by itself keeps `WakeupsAreKept`;
- `ProcessInvariant`, and from it `ProcessKeepsWakeups`, `ServesReadyStores`,
  `DegradesCleanly` and `ExitsCleanly`;
- `RunnerEndsCancelled` and `ProcessEndsCancelled`: the loop is not closed while a
  task that it has cancelled is pending, and leaves none whose caller is not told.

The assumptions are the named ones in the modules: a natural number of buckets,
a TTL for each, natural scores and bounds, `NoFp` outside `Fp`, `NoCaller` outside
`Caller`, and finitely many callers, for the tasks that close cancels stand in
some order. A few theorems state an assumption of their own:

| Theorem | Assumption | Why |
|---|---|---|
| `RequestsGoForward`, `RequestsStayShort`, `CyclesGoForward`, `CyclesStayShort` | `Fp` is finite | fingerprints are SHA-256 digests; what is counted is the candidates of a search and the entries of a batch |
| `UnmovedEntriesAreFound` | no worker; `Score[f][f] > 0` | the state of the program as it is deployed: nothing in the repository starts a cycle. A prompt is above the threshold with itself |
| `AnswersAreForwarded` | `"decide"` is not in `Faults` | the one call after the backend that no `try` protects |
| `OnlyRowsRefuse` | no call of the store is in `Faults` | what is then left to refuse an answer is a row |
| `FormatsAgreeByRoute` | cacheable requests with the same model and similar prompts have the same route | the case when the clients use one route only |

The last three are hypothetical: they say that there is no second cause, not
that the first never occurs.

**The argument of RPInv.** None of the safety properties is inductive: that the
point matches the row after `Upsert` depends on what the request did three calls
earlier. `RPInv` therefore adds, per request, what its next call relies on.
`LookupOK` says where candidates and the chosen action come from, `ServeOK` that
an entry between check and reply is servable, `WriteOK` that from the insertion
to the decision log the row of the fingerprint is the request's own.
Interference is dealt with once: the lemmas on the statements show that each of
them only *grows* the stores (`StorageGrows`: rows, points and decisions stay,
lifetimes stay, counters rise) and `Undisturbed` that what a request knows stays
true when the stores grow. `OneRequest` combines them, so that each action is
proved by looking only at the request that takes it. A failing call whose
statement took effect has the stores of the successful call (`EffectOK`) and the
request of an answered one.

**The argument of PolicyInv.** `Pure` holds of the policy in memory and of the
one on disk *separately*: a restart replaces both the positions and the weights
by a pair that was saved together, so nothing need be known about how the two
have diverged. `CrashLosesTheCounted` needs, between the two file operations,
that the temporary file is the policy in memory; `LossIsBounded` needs a bound
that is one weaker while a save is under way.

**The argument of the refinement.** A step of a thread changes the tables by one
statement at most, so it maps to one abstract step; that it is an *allowed* one
needs to know what the thread has done before: the point is upserted beside the
row just inserted, with the lifetime just stamped. `RPInv` says so. Counting
before serving needs more: `LifeInv` says that for each entry there are at least
as many counted hits as servings logged and threads together that are between
`record_hit` and the serving event; its proof counts those threads with the
finite-set lemmas of the library.

**The argument of SystemInv.** The request side's `RPInv` is too strong beside
refresh cycles (a row no longer keeps the lifetime its request gave it), so the
invariant is stated anew over what a move leaves alone: which rows, points and
decisions exist. `EntryLivesWithinItsBucket` needs, for each worker between its
read and its UPDATE, that the lifetime it has computed is at most its bucket's
TTL from now, and this is preserved by the clock because only the left side stays
put. `LearnedInOrder` and `TrainedAsDecided` count the workers between two of the
logging steps, as `LifeInv` does.

**The argument of MovableInv.** With refresh beside it, the mapping of a request's
step to an abstract step needs three facts that a move could have broken. A
candidate that a request has chosen is indexed (`ChosenOK`), though its row may
have moved or expired since, for points stay. A move that is due has a lifetime
that began at some time of the past (`DueOK`), which is what EntryLifecycle asks of
a move. And each request that has counted a hit and not served it yet owns a
unit of the counter (`Counted`); a move writes the bucket and the expiry and leaves
the counter alone. An upsert may come after a move of the row it indexes, and writes
the lifetime of the store all the same; EntryLifecycle's `Index` says so. That it
is one abstract step needs that it finds no point, and a row created when this
request stamped it: an entry has one writer at a time (`StoresAlone`).

**The argument of progress.** The calls of a request and the steps of a cycle form
graphs whose only circles are the loops over candidates and over a batch, and
these consume a finite set (`Follows`, `FollowsCycle`). `CallsLeft` and `StepsLeft`
count down along them. In Forwarding the measure adds what is left of the embedding
and of the stream (`ChunksInv` bounds the chunks), so that a waiter for the lock
that finds a failed load and loads itself is counted down as well. Together they
are the safety half of `EveryRequestIsAnswered`, `EveryCycleEnds` and
`EveryForwardReturns`: no execution goes round in circles. That a request which
has calls left is able to make the next one is the other half, which needs
`ENABLED` and stays with TLC.

**The argument of RepliesAreBacked.** `stored` is set three calls after the insertion.
`Backed` follows the row's creation time from `insert` to the reply and uses that
nobody but the inserter writes it; for hits it uses `ChosenOK`.

**The argument of ForwardingInv.** `LockInv` ties the lock to its queue: the
holder is the one who loads, a waiter stands in line once. `Sound` says of each
exchange what its next phase relies on, so that a step is proved from the one
exchange it changes.

**The argument of AdmittedInv.** It says of an exchange that has passed `Receive`,
and of each answer kept, that its request was admitted. As the request of an
exchange never changes and `cache` only grows, `AdmittedOn` proves most actions
at once; `Stored` and the search carry the claim from exchange to cache and back.

**The argument of LifecycleInv.** The runner comes first. What is left of the
batch and what is queued for the next one are taken as one queue (`OneQueue`): a
step of the loop takes its head, every other step adds to its end, and the
beginning of a batch leaves it alone. `Kept` says that its handles belong one by
one to the calls that are due; there is one lemma for each way the queue can
change, the hardest for the cancellation, which adds a handle for every task that
awaits. `StopOrder` is the strengthening that ties a `loop.stop` in the queue to
`close`. The process only takes steps of the runner (`ProcessRunsRunner`), so its
invariant rests on the runner's: `MainInv` says in which phases the main thread's
own call may be in flight, hence that nothing the loop does afterwards changes its
outcome, and `ResourceInv` what is open in each phase. `StoresInv` says what the
stores hold at each stage of the bootstrap, and is preserved by other processes
because tables and collections are only ever added.

**The argument of Draining.** `_run_loop` stops the loop by one `loop.stop` that
`close` queues, cancels what is pending and runs the loop again until all of it
has ended. `Draining` says that the stop has been consumed by then (`OneStop`), so
that nothing can end the second run early, and that each gathered task is on its
way: queued, woken, or ended with its callback still to come. It is the
safety half of `EarlyCoroutinesEnd`; that the loop does get to them is liveness.

**Only model-checked.** The liveness properties (`EveryRequestIsAnswered`,
`EveryCycleEnds`, `EveryForwardReturns`, `EarlyCoroutinesEnd`, `StartEnds`, `ExitEnds`): their
proofs need `ENABLED`, which is out of the prover's reach. The parts of them that
are safety, that nothing goes in circles and that no cancelled task is abandoned,
are the theorems above. Findings 4 and 5 have no conditional theorem: the first
is a liveness property, the second is broken by every stream.

## 5. Not modelled

- `Score` and the buckets the policy chooses are arbitrary: embeddings, cosine
  distances, LinUCB and Thompson scores, propensities and rewards are
  floating-point computations that decide nothing but which value it is.
- Request normalisation, fingerprints and parameter hashes: `Fp` is their range;
  a collision of hashes is left out.
- Which prompts are similar: `Similar` in Forwarding is any relation on prompts, as
  `Score` in CacheStorage is any function; a hit there is any similar answer kept,
  for the best may have expired.
- In RequestPath, a proxy without cache service: each of its requests goes
  straight to the backend, as one that is not cacheable does in `Receive`.
  Forwarding has both kinds (`caching`).
- Headers, URL building, the metadata added to a body, logging: they change no
  state of the components. Feature extraction (`app/policy/features.py`,
  `ner.py`) is a pure function from text to named numbers by regular expressions
  and an NER model; PolicyManager takes any set of features. Configuration parsing
  (`app/config.py`) is a pure function of the environment that falls back to
  defaults; its results are the CONSTANTS, among them the unusual ones that it
  lets through (a default bucket out of range, a dimension of 0).
- `aggregate_bucket_metrics` only reads, for the pipeline, which is external.
- Prior weights of the bandit policies: nothing in the program passes any.
- A batch smaller than the number of live entries starves the oldest ones
  (`app/cache/repository.py:235`). Nothing in the repository schedules
  `run_once`, so there is no promise to check it against.
- The cancellation of a coroutine that waits for the embedder's lock: it happens
  only when the loop is closed at exit, where AsyncRunner's `Wake` covers it.
- Alembic's offline mode and downgrades, run by hand only. A proxy with the cache
  disabled, whose start and exit concern the httpx client alone, and the branches
  of `flask_app.py` for a missing runner, never taken.

## 6. Where the code and its documents disagree

Each is a run with a short counterexample.

1. `MissIsPersisted`: an expired row is never deleted and its fingerprint is
   UNIQUE, so that once an entry has expired, no later answer to the same request
   is stored again. The conflict is swallowed. No failure is needed.
   `OnlyRowsRefuse`: when the calls of the store succeed, nothing but such a row
   refuses an answer that has been given a lifetime.
2. `BackendAnswerIsForwarded`: `log_ttl_decision` is awaited outside the `try`
   that protects `store`; when it raises, a good backend answer becomes a 500.
   `AnswersAreForwarded`: it is the only such call.
3. `LiveEntriesAreFound`: an extension moves `expires_at` in Postgres and not in
   Qdrant's payload, on which the search filters; the extended entry is not found
   after its original expiry. `PointsAreFinal`: a point is never rewritten;
   `UnmovedEntriesAreFound`: without a move, every live indexed entry is found.
4. `EveryRunReturns`: the callback that tells the caller is queued behind
   `loop.stop`. When a coroutine ends in the batch of the stop and no other task
   is pending, the loop is closed over that callback and `run` waits for ever; so
   does a `run` that submits between its check and the end of the loop. In the
   program the waiting threads are those of requests in flight at exit; the main
   thread's own calls are over before it closes, which is why `ExitEnds` holds.
5. `RelayedWithoutBuffering`: `_after_request` logs
   `response.calculate_content_length()` (`flask_app.py:179`). For a generator
   werkzeug finds the length by running it to its end and keeping the chunks in a
   list, so that the client gets a streamed answer in one piece after the backend
   has ended it, and a 500 when the stream breaks.
6. `AnswersInOwnFormat`: the search filters by model and parameters, which leave
   out `messages` and `prompt`; a completion whose text is close to that of a chat
   gets the chat's answer, and the other way round. `FormatsAgreeByRoute`: two
   requests of different routes whose model and parameters agree and whose prompts reach the threshold are
   needed for it, be they equal or near duplicates.

Observations met on the way, which no run states:

- `store` reloads the row it has inserted, and the proxy logs the bucket of the
  reloaded row with the propensity of the action chosen
  (`app/cache/service.py:291`, `app/proxy/service.py:563`); a refresh in between
  makes the two differ.
- A move is a read and an unconditional UPDATE (`app/cache/service.py:491`): two
  overlapping cycles may lose one of their moves, or move an entry by two buckets in
  one statement.
- An update reaches the snapshot with the autosave interval only, and nothing
  flushes at shutdown (`app/policy/manager.py:89`, DESIGN.md:26).
- `X-Cache: MISS-STORE` is never sent: the header is built before `stored` is set
  (`app/proxy/service.py:309`, `347`).
- The answer of `read()` is decoded, and the backend's `content-encoding` header
  is kept (`app/proxy/service.py:307`, DESIGN.md:302).
- `str(engine.url)` hides the password (`app/cache/repository.py:67`); the upgrade
  works because `alembic/env.py:45` prefers the environment's URL.
- `alembic/env.py:22` configures logging from `alembic.ini`, which disables the
  application's loggers that exist by then.
- A policy whose growth is switched off has an empty index for ever, so it never
  learns anything (`NoGrowthLearnsNothing`).

## 7. Plan

Done: CacheStorage, RequestPath, RefreshPath, CacheSystem, EntryLifecycle,
Forwarding with EmbeddingService, PolicyManager, AsyncRunner and Lifecycle, each
with its proofs, and the refinement of EntryLifecycle by both paths. Next: the
reward and the bucket arithmetic as pure operators against a reference definition.
