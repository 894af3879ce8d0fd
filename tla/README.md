# chorus-cloud: TLA+ models, checks and proofs

chorus-cloud is the control plane of a proxy service: a Hono application that
runs as a Cloudflare Worker (D1 + KV) or as a Node server (SQLite behind the
same two interfaces). Administrators define templates, nodes, protocol instances
and subscriptions in D1; a panel uploads client configurations to KV; end users
poll `GET /s/{path}?token=...` and get a rendered configuration.

File references below are relative to `src/src/` unless they name another
directory.

## Inventory

| Component | State | Operations | Talks to |
|---|---|---|---|
| Subscription delivery (`routes/subscriptions.ts`) | table `subscriptions`; KV `subcache:{path}`; per-isolate maps `subCacheWriteAt`, `kvConfigsCache` | deliver, create, update, delete | D1, KV, template cache, rate limiter |
| Template cache (`engine/registry.ts`) | per-isolate `sharedTemplates`, `sharedParsed`, `sharedLoadedAt` | loadAll, parsed, render, invalidate | table `templates` |
| Templates and protocols (`routes/templates.ts`, `routes/protocols.ts`, `routes/admin.ts`) | table `templates` | create, update, delete, seed | template cache |
| Authentication (`auth/*`, `routes/auth.ts`, `routes/users.ts`) | tables `tokens`, `users`; KV `revoke:{hash}` | login, refresh, logout, guard, create/delete user, issue token | D1, KV |
| Client configurations and tags (`routes/clients.ts`, `routes/tags.ts`) | KV `client:{node}:{name}` with metadata, `tag:{tag}` | upload, delete, list, check tag | KV, D1 |
| Nodes, instances, deploy (`routes/nodes.ts`, `protocol-instances.ts`, `deploy.ts`, `render.ts`) | tables `nodes`, `protocol_instances` | register, update, delete, create/update instance, batch re-render, deploy, dry run | template cache, D1 |
| Database initialisation (`db/schema.ts`, `db/seed.ts`) | `initPromise`, `legacyCleanupDone`, seed rows | ensureDatabaseInitialized, seedIfEmpty, cleanupLegacyTemplates | D1 |
| Engine algorithms (`engine/validator.ts`, `interpolator.ts`, `docker_renderer.ts`, generators) | none | resolve parameters, substitute, splice, render compose | - |
| Rate limiter (`node/rate-limiter.ts`) | `hits` per key | limit | delivery |
| Node adapters (`node/kv-sqlite.ts`, `node/d1-sqlite.ts`, `node/entry.ts`) | SQLite files, `secrets.json` | KV get/put/delete/list, prepared statements, batch, secrets, shutdown | everything, on Node |
| Setup script (`scripts/setup-prod.mjs`) | secrets, `.prod.vars` | provisioning steps | Cloudflare API |
| Logging, audit (`logger.ts`, `services/audit.ts`) | table `audit_logs` | append, list | D1 |

What makes the code hard: every `await` is an interleaving point on Workers, and
on Node wherever the body is parsed or WebCrypto runs; module-level maps are
shared by all requests of an isolate, and isolates do not see each other's maps;
KV and D1 fail independently, and several handlers write both one after the
other; caches are keyed by things that admin operations rename, rotate and
delete.

What makes each component correct:

- *Delivery*: nobody is served what they were not entitled to during the request
  (fresh) or within the cache lifetime (stale); a disabled subscription leaves the
  cache; the write throttle holds; every request is answered.
- *Template cache*: renders use definitions at most a TTL old; an edit is visible
  at once on its isolate; parsed JSON belongs to the row it is used with.
- *Authentication*: a revoked token stays rejected, also in a D1 outage while its
  marker lives; refreshing does not multiply tokens; deleting a user ends their tokens.
- *Clients and tags*: a tag has one owner; a claim does not outlive its
  configuration; ports are unique per node; uploads do not lose metadata.
- *Instances*: stored configurations come from the stored parameters; what is
  deployed and what is delivered agree.
- *Initialisation*: whoever serves requests finds every seeded template, as the code
  has it; the clean-up of legacy ids strands no binding.
- *SQLite KV*: it forgets in time, swept or not; a scan misses and repeats nothing.
- *Panel fallback*: a delivery from KV is recent, and lacks no config that was deployed.

## Modules

### SubscriptionDelivery and DeliveryPromise

`SubscriptionDelivery` models `GET /s/{path}` and the create, update and delete handlers of
`routes/subscriptions.ts`.

| Model | Code |
|---|---|
| `subs`, `used` | rows of `subscriptions`; ids are random UUIDs, never reused |
| `subcache` | KV entries `subcache:{path}` with `tokenHash`, `active`, `config`, TTL |
| `subCacheWriteAt` | the throttle map of each isolate |
| `inflight` | requests; `phase` names the await a request is in |
| `answer` | the response sent by the last step (empty otherwise) |
| `now` | `Date.now()`, in ticks |
| `lastHeld`, `purged`, `writes`, `seen`, `start` | observers: they record history and no guard of the code's steps reads them (`start` bounds a request's life) |

`Lookup`, `CheckRate`, `ReadInstances`, `Render`, `WriteDeliveryCache`,
`ServeStaleDelivery` and `Purge` are the stretches of the handler between two
awaits; `D1Fails`, `StaleLookupFails` and `PurgeFails` are its `catch` branches.
A subscription's rendered document is abstracted to the subscription it was
rendered for: that is what can reach the wrong reader. Where the instances come
from (D1 or the panel's KV uploads, the subject of `PanelFallback`), the rate limiter's
verdict and the render's success are inputs, chosen freely. KV is one consistent store:
the up to 60 s a Workers KV write takes to reach other locations is not modelled.

`DeliveryPromise` is the specification a client would write: no phases, isolates, cache
or throttle. A request is asked; at one moment D1 is looked at, which refuses it or
entitles it to a subscription; then it is delivered, declined, answered by an outage, or
never. `DeliversAsPromised` says that the handler implements it, with `Asked` (the
requests whose answer is due: a detached purge has none) and `Said` (the answer without
what it has seen) for its variables. It adds to the safety properties that a request is
ruled on and answered once, that a delete left to a detached promise can answer nobody,
that nobody hears of limits or configurations who was not entitled, and that nothing but
an edit changes the table.

Runs (`MCSubscriptionDelivery` adds symmetry):

| Run | Instance | Shows |
|---|---|---|
| `delivery` | 1 subscription and path, 2 tokens, 2 overlapping requests, 2 edits, clock 2..4, TTL 1, interval 2, request life 0 | `TypeOK`, `AnswerLinearizable`, `StaleBounded`, `PutsSpaced`, `PurgedStaysEmpty`, `DeliversAsPromised`, and `RequestsAnswered` under weak fairness of each request's steps |
| `delivery_disabled` | the same with TTL 2, request life 1, clock 1..4 | finding: a late write undoes the purge of a disabled subscription |

Bounds: two requests are enough for every race here, because the properties
relate one request either to the table or to one other request; two edits create a
row and rotate, disable or delete it under the requests; the clock is long enough for
an entry written at the end of a request to expire, and for one full interval after
the first write, with a tick inside it. `MaxFlight` is 0 in `delivery`: a request ends in
the tick it began in, however many steps of others fall between its own, so that the run
has late writes in the order of steps but none late in time. Those, and a path or a token
that changes hands between two subscriptions, would make the liveness check take too
long; there the safety properties and the refinement rest on the theorems, which bound
nothing.

`PutsSpaced` is about every write of an isolate's life, not only those in flight:
`StartWrite` appends the time to `writes`, `Restart` empties it with the throttle map,
and any two entries are an interval apart. A write that follows another which has long
landed or failed counts as much as one beside it.

Fairness: a promise the handler awaits settles, with a value or an error, so
each request's steps are weakly fair. Nothing is assumed of clients, admins,
time or restarts.

### TemplateCache

Models the shared maps of `engine/registry.ts`, renders, and every write of the
`templates` table. A template is the number of the edit that wrote it; `defs` is
what a render takes from `sharedTemplates` (parameter definitions), `body` what
it takes from `sharedParsed`. `StartRender` is the head of `loadAll` (return or
clear), `Read` the moment D1 evaluates the query, `Fill` the rest of `loadAll`,
`Render` the synchronous render. `EditTemplate` writes D1 and invalidates in a
later step; `SeedTemplate` writes without invalidating.

| Run | Instance | Shows |
|---|---|---|
| `template_bounds` | 1 isolate, 1 template, 2 requests, 3 edits, TTL 2, request life 1, clock 1..6 | `TypeOK`, `RenderStaleBounded`, `FreshIsComplete`, `EditVisibleAtOnce`, `ParsedMatchesRow` |

The bound of `RenderStaleBounded`, TTL plus three request lives, is what the
code gives: the filling request may have queried one life ago, an older fill may
survive under it by one more, and the render may finish a life after it found the
cache fresh.

Two promises hold only up to one overlap each, which the property names. An edit is
hidden for a TTL by a load of the same isolate that queried before its invalidation and
fills after it; two overlapping loads that both fill can leave JSON parsed from one
version under the rows of another. Nothing repairs either before the next load.
`passed` says, for each load under way, by what it has been overtaken (an edit's
invalidation after its query, another's fill after its clear), and `marred` whether a
load so overtaken has filled the maps since they were last cleared. Both are observers:
`Drop`, `Overtaken` and `Settle` keep them, and no guard reads them. The run reaches
every combination of the two, with two requests; more requests or templates add
nothing, since each property is about one load, one row and one thing that overtook it.

### ClientSync

Models the KV namespace that panels write (`routes/clients.ts`) and the KV phases of
the tag check (`routes/tags.ts`).

| Model | Code |
|---|---|
| `client` | KV `client:{fingerprint}:{name}`: raw tag, port, whether metadata mirrors them (legacy records: no), expiry |
| `claim` | KV `tag:{tag}`: owner and expiry |
| `writers` | PUT and DELETE requests, by the KV call they are about to make |
| `readers` | GET lists and tag checks; the parallel gets take effect one by one |
| `answer` | what the last step answered to a reader |
| `carried`, `stable` of a reader | observers: when a config last carried a tag, and what a reader should find |

A config stands for its key; `Trim` is `extractTag`'s trimming, a parameter, because
`tags/check` compares without it. `ScanLimit` is both `FALLBACK_SCAN_LIMIT` and
`MAX_KV_READS`. Left out: KV pagination and `MAX_LIST_RESULTS` (500), the 404 of an
unknown node, the GET of one record; the D1 phase of `tags/check` is in
`InstanceConfigs`. KV is taken to be
linearizable, which the SQLite store of a Node deployment is and Workers KV is only
at one location.

| Run | Instance | Shows |
|---|---|---|
| `client_claims` | 2 configs of one node, one of them legacy, 1 tag, 1 port, 2 overlapping requests of all five kinds, KV failures, TTL 2, request life 1, clock 0..2, 1 get per request | `TypeOK`, `StaleClaimBounded`, `CheckSeesSettled`, `ListComplete`, `PortsDistinct`, `ClaimsRespected` |
| `client_padded` | a tag with white space, 1 request at a time | finding: the check heals a claim no rename releases |

Uploads read (ports, owner) before an await and write after it, and KV offers no
transaction. `ClientHistory` composes `ClientSync` with the memory of what a request
has missed: `unaware` has the uploads whose list failed, or whose node got a record of
their port since they listed, and the requests that looked at a claim which has changed
hands since; `rushed` has the records put by such uploads, for as long as their port is
shared. With these, `PortsDistinct` and `ClaimsRespected` are claimed of every
interleaving: two configs share a port, or a claim is taken from the config that holds
it, only through a request that a write of another had overtaken between its look and
its own write. `Notice` and `Rush` are conjoined to each step and restrict none. A
failed list also hides the previous tag, whose claim then stays until it expires;
`StaleClaimBounded` bounds that. Two overlapping requests reach all of these.

The clock and the request life of `client_claims` are such that a request may span a
tick. A claim is put a tick after its record; a check heals a claim, or an upload renews
it, for a record that was deleted since it looked; records and claims expire a tick
apart, in either order; and claims that nobody backs are still there when new checks
come. `Until` and `Uploads` bound the input to what these need: `Until` is the last tick
in which a request of each kind begins (PUT and lists until tick 1, DELETE in tick 0,
checks until 2, all of which late requests of the earlier ticks still cross), and
`Uploads` has a config with the tag or with the port, because nothing relates the two.

### InstanceConfigs

Models the tables `nodes` and `protocol_instances`, which `routes/nodes.ts` and
`routes/protocol-instances.ts` write, and the D1 phase of `routes/tags.ts`.

| Model | Code |
|---|---|
| `nodes`, `fingerprint` | table `nodes`; ids are never reused, the column is kept for deleted rows |
| `instances`, `used` | table `protocol_instances`, a function from the stored ids to rows: node, params, configs, tag |
| `creates` | POST requests that have found their node |
| `rerenders` | re-renders with the parameters they have read and not yet rendered |
| `checks` | tag checks between lookup, probe, scan and backfill |
| `registers` | heartbeats whose INSERT met a conflict |
| `answer` | what a check or a heartbeat was answered in the last step |
| `orphaned`, `staleConf`, `staleTag`, `legacy`, `gone`, `dirty`, `retagged`, `missed` | observers |

A statement of D1 and a batch are atomic. A handler whose SELECT only decides
between 404 and going on, and which then writes by one statement from its body
(`UpdateParams`, `DeleteInstance`, `DeleteNode`), is one action. Parameters stand for
the tag in them and configs for the parameters they were rendered from.
`Enforced` says whether D1 enforces the foreign keys of `schema.ts`: `entry.ts:93`
makes sure of it on Node, `schema.ts:42` tries to elsewhere. `Init` may have rows
older than the tag column, with any parameters.

| Run | Instance | Shows |
|---|---|---|
| `instances` | 1 node, 2 instances, a tag and the same with white space, 2 overlapping requests, no foreign keys, no other bound | `TypeOK`, `NoDangling`, `ConfigsExplained`, `TagsExplained`, `CheckSeesInstances`, `HeartbeatKept` |

Nothing bounds the number of requests or edits: the state space is finite as it is.
One node is enough to lose it under a POST, a heartbeat or an instance; two
instances let a legacy row change what a check sees of another. Foreign keys only
take steps away, so the run leaves them out; the proofs cover both, and any number of nodes.

Each property names the one overlap that can break the agreement, and the model
reaches each: an instance inserted after its node was deleted; configs written by a
re-render from parameters that a PUT replaced; a tag column backfilled by a check
from parameters that a PUT replaced since the scan, which then hides the tag the instance
has; a check
that misses a legacy row because another check healed it between its lookup and
its probe; a check for a tag with white space, since the column is trimmed and the
question is not; a heartbeat answered with no node because it was deleted between its
two statements. These overlaps are what the code allows, and the properties do not forbid
them: they show that each wrong outcome has no other cause. The check's LIKE pattern is taken to find every row with the
tag; a tag with a quote or backslash, which JSON escapes, would escape it too.

### KVStore and SqliteKv

`SqliteKv` is `node/kv-sqlite.ts`, the KV binding of a Node deployment; `KVStore` is
what the routes expect of any KV binding, the assumption `ClientSync` and
`SubscriptionDelivery` make; `KeyOrder` has keys as strings and their order.

| Model | Code |
|---|---|
| `kv_store` | rows of the table, those past their expiry included |
| `now` | `Date.now()`; one tick is the unit of `expirationTtl` |
| `answer` | what the last `get` or `list` returned |
| `scan` | a client that lists page after page with the returned cursor, and what it has seen |

Every method of `SqliteKV` runs without an await, so each is one action; `List` is the
sweep, the range query and the cursor. Between two pages of a scan everything may
happen. The values of metadata and the encoding of the cursor are abstracted; a key that
ends in U+10FFFF is excluded by `KvAssumption`, as the comment at `kv-sqlite.ts:66` does.

`KeepsKV` is a refinement: with the rows past their expiry left out, every behaviour of
the table is one of `KVStore`, in which an entry is gone at the very tick of its expiry.
A sweep is then invisible, and so is a row that no list has swept. `ScanExact` is about
several calls: the table may change between pages, and the key in the cursor be gone.

| Run | Instance | Shows |
|---|---|---|
| `sqlite_kv` | 3 keys, two of the prefix, 2 values, 2 metadata, pages of 1 and 2, TTLs of 0 and 1 and none, 3 writes, clock 0..3 | `KvTypeOK`, `ScanExact`, `KeepsKV` |

Two keys of a prefix make a scan of several pages, the third lies outside it; three
writes put both and delete or replace one between the pages. TTL 0 is the one
that `put` refuses, limit 0 the one that `list` raises to 1. Two values and two
metadata tell a row from the one it replaced.

### PanelFallback

`loadConfigsFromKv` of `routes/subscriptions.ts`, composed with `SqliteKv` (it EXTENDS
it: `List` and `Get` are those of the table). `Poll` is the head (cached, or a list),
`ListKeys` the list and its filters, `GetConfig` one of the parallel gets,
`FillConfigs` the assignment of `kvConfigsCache`, `LoadFails` its `catch`; `Others` is
everything else that happens to the table; steps that call no KV leave `answer`, the
table's last, as it was. Of metadata the model keeps whether the
config is deployed and enabled, of a record whether it has a config.

| Run | Instance | Shows |
|---|---|---|
| `panel_fallback` | 1 isolate, 2 loads, 3 keys (one too short to be delivered), 2 writes, 1 config delivered at most, TTL 1, request life 1, clock 0..2 | `TypeOK`, `FallbackRecent`, `FallbackComplete` |

The cache is stamped when it is filled, with what was listed up to a request's life
before; of two overlapping loads the later fill wins, whichever listed later. So what
is delivered was listed at most TTL plus one life ago, and not TTL alone. What is
delivered after a failure has no such bound, as the comment at `subscriptions.ts:131`
says. `FallbackComplete` excuses a list longer than what is read of it (`cut`): the
code takes the first 40 and one page. The keys expire in `SqliteKv`, not here (no TTL in
this run): a key that expires between the list and its get is, to the load, one deleted.

### DatabaseSetup

Models `ensureDatabaseInitialized` (`db/schema.ts`), `seedIfEmpty`,
`refreshSeedTemplates` and `cleanupLegacyTemplates` (`db/seed.ts`), the middleware that
awaits them (`index.ts`), `POST /api/admin/seed`, and the panel's writes of the same
rows.

| Model | Code |
|---|---|
| `tables` | which of `nodes`, `templates`, `subscriptions` exist |
| `templates`, `old` | ids with a row; those whose row is not what the code says |
| `bound` | `overall_template_id` of subscriptions, `server_overall_id` and `docker_overall_id` of nodes |
| `setup` | per isolate, the statement its `initPromise` is at; `none` is a null promise, `ready` a settled one |
| `repair` | per isolate, the statement a `POST /api/admin/seed` is at |
| `edited`, `removed`, `cut`, `loose` | observers |

A statement is one action; it may fail, and an isolate may end, at most `MaxFaults`
times (statements that cannot but fail, on a missing table or against a foreign key, do
not count). `Enforced` says whether the key of `subscriptions` is enforced. Left out:
the indexes, the tables that no statement of the set-up reads, the migrations.

| Run | Instance | Shows |
|---|---|---|
| `database_setup` | 2 isolates, 3 seeds, 1 legacy pair, 1 row per column, foreign key enforced, 1 change, 1 fault, any database to begin with | `SeedsInPlace`, `BindingsKept` |

`SeedsInPlace` has the excuses the code leaves room for: the panel edited or removed the
template, or a seeding was cut short before it (`cut`), after which no set-up inserts it
any more, since `seedIfEmpty` only updates a database that is not empty. What it rules
out is that two isolates seeding one empty database leave a gap: the second gives up at
the first row of the other, and the other is still to write the rest. `BindingsKept`
excuses a binding to a missing or already passed template (`loose`), and rules out that
a clean-up stopped anywhere strands one. Two isolates are every pair of one that is
ahead and one that is behind; three seeds let one be cut after the first and before the
last.

Two texts of the repository disagree with this code. `seed.ts:146` says "Upsert", and
`refreshSeedTemplates` only updates: that is why `SeedsInPlace` needs the excuse `cut`,
which an upsert would make superfluous. And every failure in the set-up is swallowed
(`schema.ts:33-37`, `42-51`), so its promise never rejects: a cold start in a D1 outage
is remembered as done, and neither the 503 of `index.ts:49` nor the boot-time check
announced at `node/entry.ts:111` can run; no property is about that.

### RateLimiter and WindowLimit

`RateLimiter` is `node/rate-limiter.ts`: `limit` has no await, so it is one action,
`Grant` or `Refuse`. A hit is a time with a serial number, because the code's array
keeps duplicates and a set would not; `granted` is the history of hits. The clock
never goes back. `WindowLimit` is the specification: it has the history and no log, and
refuses a call if and only if its window is full. `KeepsPromise` says that
`RateLimiter` implements it (its variables of the same names), although the log
forgets at every call. That no window lets more than `Max` hits through, whether or not it
ends at a call (`AtMostMax`), follows and is proved.

| Run | Instance | Shows |
|---|---|---|
| `rate_limit` | 2 keys, 2 hits in 3 ticks, 7 ticks | `TypeOK`, `LogBounded`, `KeepsPromise` |

### TokenLifecycle

| Model | Code |
|---|---|
| `issued` | what each token signs: subject and expiry (`auth/jwt.ts`) |
| `row` | table `tokens`: none, live or revoked |
| `users` | table `users`; ids are never reused |
| `marker` | KV `revoke:{hash}`, by expiry |
| `inflight` | requests: in the guard (`checking`, `marking`, `consulting`) or in a handler, by the next await |
| `verdict` | what the guard decided in the last step |
| `retired`, `sealed`, and `retired`, `sealed`, `gone`, `old` of a request | observers |

`CheckRow`, `CheckFails`, `PutMarker`, `Consult` and `ConsultFails` are `adminAuth`;
the other actions are `POST /login`, `/refresh`, `/logout`, `POST` and
`DELETE /users` and `POST /users/:id/token`. `Abort` is a handler's D1 call that
throws or a process that stops at an await. The guard admits tokens of both types,
as `adminAuth` does, so the type is left out. `MaxChanges` bounds how many guarded
requests that write ever begin. Not modelled: the edit of a user, the audit log,
the signature.

| Run | Instance | Shows |
|---|---|---|
| `token_races` | 3 tokens, 1 user, 2 overlapping requests, 4 guarded writes, no time | `RetiredRefused`, `RefusedOnlyRetired`, `OrphansExcused` |
| `token_outage` | 2 tokens, 1 request at a time, clock 1..5, marker and admin TTL 2, user TTL 4 | `TypeOK`, `SealedRefused` |

`OrphansExcused` names the only ways a live token of a deleted user comes about: it
was issued by a request that overlapped the deletion, it was refreshed from such a
token, or a refresh was let through by a guard that D1 left blind. Three tokens
are a caller's, the user's and a refreshed successor. Time and overlap are bounded
in separate runs because `SealedRefused` needs expiry and the orphans need
overlap, and the two at once are too many states; the proofs cover both together.
`SealedRefused` is about the life of the marker, a day (`middleware.ts:11-17`): a user
token lives longer, and once its marker is gone only its row speaks against it.

## Proofs

`SubscriptionDeliveryProofs` proves, for any constants that satisfy
`DeliveryAssumption`, `TypeCorrect`, `Linearizable`, `StaleIsBounded`,
`ThrottleHolds`, `PurgeIsFinal` and `DeliveryImplementsPromise`. The four safety properties speak of answers
and of pairs of writes and are not inductive; `IInv` adds what a request in each
phase knows (`DeliveringEntitled`: past the checks, its grant held after it
started), what the cache holds (`CacheBounded`: an entry expires at most a TTL and
a request's life after its grant last held), that the throttle map is stamped no earlier
than any write it let start (`ClaimedByMap`: the check against the last stamp is one
against all of them, which `StartSpaced` uses) and that a quietly purged path is dead
(`QuietIsDead`). Most steps only move a request between phases; `MoveKeeps` covers them
once.

The refinement needs `RefInv` besides: that a client's view of a request (`View`) names
one request (`IdsDistinct`), that a request still to be looked up is entitled to nothing
(`Unjudged`), and that the UNIQUE columns and fresh ids keep the table keyed
(`TableKeyed`). `Views`, `ViewsReplaced` and `ViewsPurged` say once what the steps of a
request are to a client. `Lookup` is the abstract ruling; the ends of a request are the
abstract answers, an outage's within the bound that `StaleBounded` gives; all other
steps of the handler answer nobody and leave the view alone.

`TemplateCacheProofs` proves `TypeCorrect`, `RenderStaleIsBounded`,
`FreshCacheIsComplete`, `EditIsVisible` and `ParsedIsOfRow`. A load clears the maps when it begins, so what it finds when it
fills was filled since, by a request at most one life older (`Cleared`); therefore
whatever is cached was current at most two lives before the time stamp (`Loaded`), and
a request that may render found a time stamp younger than the TTL, or set it
(`Ready`). All steps but `Fill` cache nothing new; `QuietKeeps` covers them once. `EditInv` says that the maps of an
unmarred isolate are empty or at least as new as every edit settled there, and that a
load not overtaken by an edit has read such rows; `ParseInv` that the maps a load
cleared stay empty until it fills, unless it was overtaken (`Emptied`), and that a
cached body is its row's (`BodyOfRow`).

`ClientSyncProofs` proves `TypeCorrect`, `StaleClaimIsBounded`, `CheckIsSound` and
`ListIsComplete` under `ClientAssumption`. A claim is put by a request that is not
older than `MaxFlight`; the invariant says that this request has itself stored
(`Earned`) or found (`Found`) a record with the tag since it began (`InFlight`), and
that `carried` remembers it (`Recorded`). For the readers, `Settled` says that a config
a reader should find is in its scope all along and, once the keys are listed, is found
or still to be fetched.

The same module proves `PortsAreDistinct` and `ClaimsAreRespected` of `ClientHistory`.
`HInv` says what an upload past its list still knows of its node's ports (`PortsWatched`:
no other config has its port, unless it is among the `unaware`), and what a request that
has looked at a claim knows of its owner (`ClaimsWatched`); both need that a request is
found under one id (`UniqueIds`). A step either leaves a request's node and claim alone,
or `Notice` counts it among the unaware. `HistoryOnlyRecords` carries the theorems of
`ClientSync` over.

`RateLimiterProofs` proves `TypeCorrect`, `LimitHolds`, `LogStaysFlat` and
`Refinement` (every behaviour of the limiter is one of `WindowLimit`) for any number of
keys, limit and window. `AtMostMax` alone is not inductive: `LogOf` says that the
log still holds every hit of the window that ends now, which makes the
cardinality the code tests the one the property is about.

`TokenLifecycleProofs` proves `TypeCorrect`, `RetiredIsRefused`, `SealedIsRefused`,
`RefusalIsEarned` and `OrphansAreExcused`. Its invariant has what a request in each
phase knows (`ReqInv`), how rows, markers and observers relate (`TableInv`) and the
three verdicts. Everything a request knows is about facts that only grow:
tokens stay signed and revoked, users stay deleted, markers are renewed. `Grows`
states this once for every step, so that each action is argued for its own request
only and `Grows` carries the others along.

`InstanceConfigsProofs` proves `TypeCorrect`, `NeverDangling`, `ConfigsHold`,
`TagsHold`, `CheckHolds` and `HeartbeatHolds` under `InstanceAssumption`. Each has its own
small invariant, what the requests under way know of the rows they have read: that
a found node is still there or known to be gone (`NodesWatched`), that parameters
read are still those stored or known to be rewritten (`SnapshotsWatched`,
`FoundWatched`), and that after the lookup no row has the tag in its column unless
it was written since (`MissesWatched`). `CheckHolds` needs `TagsExplained` as well: a
row that carries the tag and was not found by its column can only be legacy, which the
probe and the scan then see.

`SqliteKvProofs` proves `KvTypeCorrect`, `ScanIsExact` and `ImplementsKV` under
`KvAssumption`. `Before` is shown to be a strict total order of strings, and `InRange`
to be the strings of the prefix, for keys without the last character; a finite page
then has a last key. A scan's invariant (`Abides`) is that its steady keys up to the
cursor are seen, the others are still ahead, and nothing is seen beyond the cursor.
`ImplementsKV` maps each action to the action of the same name of `KVStore`, and
`StartScan` to a stutter.

The same module proves `PanelTypeCorrect`, `FallbackIsRecent`, `FallbackIsComplete` and
`FallbackKeepsKV` of `PanelFallback` under `KvAssumption` and `PanelAssumption`, from the lemmas about
the table's steps. `PanelInv` says of the loads under way that they are younger than a
request may be (`Young`), that the keys a load still counts as steady are configured,
and that of a whole list each of them is delivered or still to be got (`Whole`); of a
cache, that it is one load, stamped at most a request's life after its list
(`CacheInv`). That a list neither cut at 40 nor at a page shows every configured key is
the lemma `AllVisible`. `FallbackKeepsKV` is `ImplementsKV` for the composition: with the
fallback's own list and gets among its calls, the table is still a `KVStore`.

`DatabaseSetupProofs` proves `SetupTypeCorrect`, `NothingStranded` and
`SeedsAreInPlace` under `SetupAssumption`. `BindInv` adds to `BindingsKept` that the
replacement a clean-up has found is still there, or was removed by the panel
(`FoundKept`), and that no column it has passed names the legacy id (`PassedClean`).
`SeedInv` is about order: what a seeding has passed is written (`PassedSettled`), and
if a seed is there, every later one is, or is due from somebody who is past the first
(`RestFollows`), so that whoever counts a database that is not empty relies on someone
who will not run into a row of its own (`AllSeeded`); and whoever has seen the
templates has left no outdated row behind (`OldGone`).

No proof assumes anything but the named assumptions on the constants. Only
model-checked: liveness (`RequestsAnswered`), which is out of the provers' reach; the two
findings, which are counterexamples. The bounds of the runs
(`MaxTime`, `MaxEdits`, `MaxChanges`, `MaxWrites`, `MaxFaults`, `Until`, `Uploads`) are
constants of the modules, so the theorems hold for all of their values.

## Findings

- `delivery_disabled`: a delivery that passed the checks before a subscription was
  disabled writes the cache after the next request has purged it.
- `client_padded`: `tags/check` compares and heals tags untrimmed, uploads and deletes
  trim them; the healed claim outlives its config.

## Not modelled

| Part | Why |
|---|---|
| Deploy, render, protocols | reads of the tables of `InstanceConfigs`; their renders and template loads are in `TemplateCache` |
| Status of an instance, descriptive columns of a node and their PUT | single statements that no other column depends on |
| SQLite D1 adapter, start-up and shut-down of a Node server | a thin adapter, whose statements and batches are atomic as assumed; process control |
| A clock that steps back (`rate-limiter.ts:18`) | `now` never does; what it would mean for windows and TTLs no text says |
| Several successors of one token (`auth.ts:56`) | two overlapping refreshes both succeed; nothing promises one successor |
| Rendering engine | pure functions over JSON and strings, unit-tested; a reference definition would repeat them |
| Audit log, logging, setup script, documents | no decision of the program reads what they write |

## Plan

1. `PanelFallback` as the source of the instances of `SubscriptionDelivery`.
2. The batch re-render (`registry.ts:234`) over `TemplateCache`: several renders per load.
3. An abstract specification of sessions (a token is issued, revoked, and admitted by one
   look at its row or its marker) that `TokenLifecycle` implements.
4. The status of an instance and its second UPDATE; a clock that steps back.
