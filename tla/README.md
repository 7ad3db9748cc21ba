# Specifications of CelsianJS

TLA+ models of the parts of CelsianJS whose correctness rests on the order in
which things happen (the task queues and their worker, cron, the response
cache, sessions, rate limits, the request lifecycle with its transactions, the
server's shutdown, sockets and streams) and of the conversions that are hard to
get right in every combination (routing, replies, bodies, cookies, schemas, RPC
values, what platforms do to requests and answers).  Every definition is a
translation of the TypeScript under `packages/*/src`; comments name the method
a definition stands for.

    tlc -workers 2 -config MCProcess.cfg MCProcess
    tlc -workers 2 -config MCTaskWorker.cfg MCTaskWorker
    tlapm Queue_proofs.tla

## 1. The system

CelsianJS is an HTTP framework for Node, Bun, Deno and edge runtimes.  All of
it runs on JavaScript's event loop: code runs to completion between two
`await`s, and concurrency is the interleaving of those stretches, of several
requests in one process, and of several processes around one Redis.  A model
step is therefore one stretch from an `await` to the next, or one Redis
command or script.

| Component | State | Operations | Talks to | What is hard | What must hold |
|---|---|---|---|---|---|
| In-process queue, `core/src/queue.ts` | pending list, in-flight map with leases, dead-letter list | push, pop (with reclaim), ack, nack, extend, deadLetter, redrive, purge | task worker, operator | late calls of a delivery whose lease was reclaimed; one retry budget for nacks and lapses; caps | no job lost or doubled, exclusive leases, bounded retries |
| Task worker, `core/src/task.ts` | running, poll timer, active slots | start, stop, poll, processMessage, heartbeat | any queue backend, user handlers and hooks | stop or restart while `pop()` is pending; rejected backend calls; timeouts against leases | slots never leak, limit kept, polling never dies, every job settles |
| Durable queue, `queue-redis/src/index.ts` | five Redis structures shared by processes | the queue's, each as one script or several commands | task worker, Redis | two reapers; a crash between two commands | as the in-process queue, across processes |
| Cron, `core/src/cron.ts` | jobs, last minute, last firing per name | add, start, stop, tick | clock, user handlers | blocked event loop, clock steps, a handler that throws | once per minute, every due job fires |
| Response cache, `cache/src/response-cache.ts` | store, in-flight executions | cached, wrap, invalidate | KV store, handler | read, wait, re-read; invalidation racing a store | single flight, nothing personal is shared, nothing stale after a purge |
| KV store, `cache/src/store.ts` | map with expiry, LRU order | get, set, incr, delete, clear | cache, sessions, limits | expiry against eviction and increment | bound kept, increments not lost |
| Sessions, `cache/src/session.ts` | id and data object per request | create, load, save, regenerate, destroy | KV store | concurrent requests of one session; eviction | a rotated session is never nowhere; a dead id stays dead |
| Rate limiting, `rate-limit/src` | counters per key and window | find the key, increment, evict, refuse | clock, Redis, proxies | eviction, window edges, whose address | at most `max` per window, for each client on its own |
| Request lifecycle, `core/src/app.ts`, `hooks.ts`, `error-handler.ts` | request, reply, hook chain | handle, hooks, handler, timeout, onSend, onError | plugins | a handler that goes on after its 504 | one response; hooks in order |
| Transactions, `core/src/plugins/database.ts` | connection per request | begin, commit, rollback | request lifecycle, pool | timeout racing commit, early replies | every begin has one end |
| Analytics, `core/src/plugins/analytics.ts` | shared counters | count, reset | request lifecycle | reset during requests | alone, a request is told its own queries |
| Server, `core/src/serve.ts` | listening, in-flight requests, signals | serve, shutdown, upgrade | app, worker, cron, sockets | double shutdown, fatal errors while draining | drains before exit |
| WebSockets, `core/src/websocket.ts`, `adapter-bun/src`, `ws-redis/src` | sockets, channels, subscriptions, slots per address | authorize, upgrade, open, message, close; subscribe, publish | server, Redis | a socket closing during an upgrade; one refused after it; a failed subscription | slots exact, no delivery after close, no echo |
| SSE, `core/src/sse.ts` | open streams | open, send, ping, close, idle sweep | server | a callback that throws in the sweep | closed exactly once, the others served |
| Router, contexts, `core/src/router.ts`, `context.ts` | radix tree, plugin tree, compiled hook chains | add, match, register, addHook, flush | app | priorities, decoding, encapsulation, loading while serving | the most specific route; nothing leaks to siblings; no hook skipped |
| Replies, `core/src/reply.ts`, `response-merge.ts`, `fast-response.ts` | headers, cookies and status of a builder; a Response | write, answer, merge, send a file, redirect | lifecycle, Node server, file system | writes in every phase, own Responses, a file replaced under the server | what was written before the merge arrives once; no file outside the root; no redirect to a foreign host |
| Bodies, `core/src/body-parser.ts`, `plugins/upload.ts` | one body in chunks | read, limit, parse, check files | lifecycle | undeclared and wrong lengths, keys that reach prototypes | the limit holds exactly, what is read is what was sent |
| Cookies, `core/src/cookie.ts` | none | serialize, parse | reply, client | escapes, `Secure` by default | what a client sends back is what was set |
| CORS, CSRF, origin checks | tokens and sessions of a client | hook, verify, issue | lifecycle, browsers | tokens of earlier sessions, credentials with wildcards | no foreign page reads or changes what is not its own |
| JWT, `jwt/src` | one realm per registration | sign, verify, guard | lifecycle | several registrations in one app | a token passes the realm it was made for |
| RPC, `rpc/src` | procedures, middleware chain | call, introspect, encode, decode | lifecycle | `next()` called twice, tags in values | every guard runs, values survive the wire |
| Schema, `schema/src` | none | detect, validate, publish | lifecycle, OpenAPI | three libraries, wrappers, cycles | what the published schema says is what the validator does |
| Edge router, `edge-router/src` | table, match cache | match, proxy, update | platforms | an update during requests | a cached match is the table's |
| Compression, negotiation, ETag, adapters | none per request; cron jobs per invocation | convert, compress, invoke | platforms | codings under text types, jobs that fail beside others | the exchange arrives; an invocation is answered for what its jobs did |
| Application's worker, `core/src/app.ts` | the current worker | startWorker, stopWorker | task worker | overlapping stops | the worker it has runs or is being stopped |
| CLI, platform tooling, generator | files | commands | user | | development-time tools |

## 2. Modules

| Module | Models | Notes |
|---|---|---|
| `JobLifecycle` | what `QueueBackend` and `DeadLetterCapableQueue` promise of one job | abstract: a status and a count of tries per job |
| `MemoryQueue` | class `MemoryQueue` | implements `JobLifecycle` |
| `TaskWorker` | class `TaskWorker`, extends `MemoryQueue` | composed with the queue it drains |
| `TaskLease` | `resolveTimeout`, `assertTimeoutIsSafe`, `startHeartbeat`, `processMessage` in real time | one delivery and its rivals |
| `RedisQueue` | class `RedisQueue` and its Lua scripts | several processes; implements `JobLifecycle` |
| `CronSchedule` | `parseCronExpression`, `shouldRun` | pure operators, and the reference `UnixRun` |
| `Cron` | class `CronScheduler`, extends `CronSchedule` | |
| `ResponseCache` | `cached()`, `invalidate()` for one cache key | any number of requests |
| `KVStore` | class `MemoryKVStore` | pure operators on the LRU list |
| `Sessions` | `createSessionManager`, extends `KVStore` | concurrent handlers, each with a session object |
| `RateLimit` | `rateLimit()`, `MemoryRateLimitStore`, the Redis script | both stores, both ways to find the client |
| `Requests` | `CelsianApp.handle`, `runLifecycle`, `handleError`, and the transaction hooks | two flows per request |
| `Server` | `serveNode`, the connection limiter of `websocket.ts` | connections, upgrades, shutdown |
| `Scopes` | contexts, `addHook`, `register`, the flush of compiled chains | a request walks its hooks meanwhile |
| `Routing` | class `RadixRouter` | the tree as the code builds it, against a reference match |
| `WsBridge` | `ws-redis` | nodes, sockets, rooms, Redis |
| `Sse` | `createSSEHub` and its channels | |
| `QueryMetrics` | `trackedPool`, the hooks of `dbAnalytics` | requests on one pool, among other hooks |
| `Realms` | `jwt()`, several registrations | tokens, clocks, contexts |
| `EdgeRouter` | the table, its cache, updates and requests in flight | |
| `Rpc` | the router, builder, middlewares | |
| `Wire` | `wire.ts`, extends `Rpc` | recursive operators, so apart from what is proved |
| `Schema` | the library adapters, `json-schema.ts` | nodes of Zod 3 and 4 and Valibot |
| `Reply` | `reply.ts`, `response-merge.ts`, what the Node server writes | includes `sendFile()` and `redirect()` |
| `Cookies` | serializing, parsing | |
| `Body` | `body-parser.ts`, uploads, what a client's address and host are | |
| `Gates` | CORS, CSRF, `authorizeWSUpgrade()` | a browser's session around a login |
| `Platforms` | the Lambda adapter, `compress()`, `negotiate.ts`, `withETag()`, cron triggers | an exchange, and invocations |
| `BunSockets` | the Bun adapter's upgrade and socket callbacks | the limiter as Bun uses it |
| `AppWorker` | `startWorker()`, `stopWorker()`, `enqueue()`'s warning | |
| `Queue_proofs` | theorems about `MemoryQueue` and `TaskWorker` | a worker's step is a queue step or leaves the queue alone |
| `RedisQueue_proofs`, `ResponseCache_proofs`, `Scopes_proofs` | theorems about the module they are named after, and their proofs | |
| `Process_proofs` | theorems about `Server`, `Requests`, `BunSockets`, `Gates`, `Reply`, `Platforms`, `AppWorker`, `Cookies`, `Rpc` | each part stands alone |
| `Stores_proofs` | theorems about `Sessions` and `RateLimit` | both keep a sequence of entries with unique keys |
| `Services_proofs` | theorems about `Cron`, `TaskLease`, `WsBridge`, `Sse`, `QueryMetrics`, `EdgeRouter`, `Realms` | each part stands alone |
| `MC*` | instances for TLC; `MCServices` and `MCProcess` run components that share no state side by side, each behaviour being one of any of them | |

Composition: `TaskWorker` extends the queue it drains; `Requests` has the
transactions in its lifecycle; `Sessions` extends its store; `RedisQueue` and
`MemoryQueue` implement `JobLifecycle` by refinement mappings.

Operators named as a *mutated form* are not part of a specification.  Each is
what a plausible bug would make of the definition it precedes; substituting it
must break the property named for it in `PROJECT.json`, which shows that the
property depends on the code being as it is.

### The queue

`MemoryQueue` keeps `messages`, `inFlight` and `dead` as the class does.  Time
enters only through the comparisons the code makes: a message's `ready` stands
for `availableAt <= now`, an entry's `lapsed` for `expiresAt <= now`, and
`Ripen` and `Lapse` flip them.  Each method is synchronous, so each is one
action; `pop()` is one action including its `reclaimExpired()`.  `Ack`,
`Nack`, `Extend` and `DeadLetter` take *any* delivery ever handed out, so
every late, duplicated or reordered call is in the model.  A call whose token
does not match changes nothing and is a stutter, except `deadLetter()`, which
records the job as dead in either case.  A job that got a second copy that way
is in `forked`, and what is said of single copies exempts it: this is the one
way the code has to double a job.

The history variables `deliveries`, `over`, `submitted`, `discarded` and
`forked` record what happened and guard nothing but the bounds.

### The worker

`TaskWorker` has a poll loop per `start()`.  `PopAnswers` is the code from
`await this.queue.pop()` to the next await: it starts `processMessage` and
goes round the `while` again, calling `pop()` or arming the timer.
`processMessage` is `handling` (the handler), `failed` (the onFailure hook),
`settling` (ack, nack or dead-letter returned) and `done`.  A backend call may
reject (`Reject`), which the code swallows.  `stop()` clears the one timer it
knows and waits; `StopReturns` is its answer, drained or at its deadline.

`TaskLease` puts clock times to the same delivery, since whether the handler's
timeout fires before the lease lapses is arithmetic on `timeout`,
`visibilityTimeoutMs` and the heartbeat interval.  `lease` is what the backend
grants and `declared` what it says, which may be nothing: the registry then
accepts every timeout and the worker reckons with a default.  `phase` is what
`processMessage` waits for; `ignoring` that the handler goes on although its
timeout has aborted it (`TimesOut`, until `AbortedEnds`), which nobody waits
for.  A heartbeat extends the lease (`Heartbeat`), or answers false or rejects
(`HeartbeatFails`), which the worker only logs; the handler may beat itself
(`HandlerBeats`).  `holder` says who has the job: this delivery, the queue, a
later delivery, nobody.

`QueryMetrics` has the hooks of `dbAnalytics()` among others.  `OnRequest`
resets the pool's record, unless an earlier hook throws (`EarlierHookThrows`),
answers (`PassedBy`) or outlasts the request's timeout (`EarlierHookTimesOut`),
whose reset comes later, under another request (`LateReset`).  Queries start at
any time after a request has arrived, also after it was answered: a commit in a
later `onSend` hook, a handler that outlives its timeout.

### The durable queue

`RedisQueue` has one action per Redis command or script.  A method of several
commands is a walk of a caller `c` through `call[c].at`; what the method keeps
in local variables is in `call[c]`.  `Abort` interrupts any of them: a crashed
process, or a command that was rejected.

### Cron

`CronSchedule` translates the five fields of an expression to sets of values
and combines the two day fields as the code does; `UnixRun` is what crontab(5)
says, written independently.  `Cron` adds the scheduler: `Tick` is one call of
`tick()`, `TimePasses` lets the clock advance by any number of minutes (a
blocked event loop), `SetBack` moves it back, `Stop` and `Start` restart the
timer within a minute.  The calendar is a parameter, so a whole cycle of
months and weekdays is a few dozen minutes.

### The response cache

A request walks through the awaits of `cached()`: `looking` (`store.get`),
`deleting`, `waiting` (somebody's execution), `rereading`, `handling`,
`storing`.  A store call takes effect when it is made and its answer is seen at
the await, so what a request read may be out of date when it uses it.
`ListKeys` and `DeleteKeys` are the two halves of `invalidate()`.  Responses
are reduced to the four kinds the storing and replaying rules tell apart;
requests to whether they carry a credential and whether they revalidate.

### Sessions

`KVStore` is the Map of `MemoryKVStore` as the sequence of its entries: the
code re-inserts what it uses, so the order of the Map is the order of use and
the first entry is evicted.  Each operation is synchronous and so a function of
the store.  In `Sessions` a handler has one session object; `FindSession` and
`Loaded` are the two sides of the await in `load()`, `Regenerate` and
`DropPrevious` those in `regenerate()`, `Destroy` and `Cleared` those in
`destroy()`.  The memory store keeps a *reference* to the object saved last,
so the value of an entry is the handler whose object it is, and `SetOrDelete`
changes what a later load copies.  Of the data only whether there are any is
kept, which is what `save()` looks at.  Clients present ids they were sent
(`issued`) or one the server never made (`Unknown`).

### Rate limits

`increment()` is one synchronous method in memory and one script in Redis, so
`Count` is the hook up to its await and `Refuse` the 429 after it.  The two
stores share `entries`: in memory its order is the Map's, which `EvictOne`
scans.  A request reaches the app through the declared proxies, which append
the address they saw to whatever `X-Forwarded-For` holds, or directly;
`KeysOf` is the set of keys all such headers lead to.  A header that arrives on
a direct connection is outside the declared deployment and not in the model.
`OwnRequest` is a proxy asking on its own behalf, whose counter takes up room.
`admitted`, `refusal` and `fate` are history: when a client's requests went
through, the window it was refused in, and whether its counter was evicted.

### Requests and transactions

`handle()` awaits `Promise.race` of the lifecycle and a timer.  After a
timeout both go on, so a request has two flows, `at[r].handle` and
`at[r].lifecycle`, which share the reply's `statusCode` and the transaction.
The hooks of `database.ts` sit where an application puts them: other hooks run
before and after each, and may answer or throw.  `tx` is what the database
holds and `pending` is `_txPending`, set and cleared only after the call
returned.  `events` records what a property excepts.

### The server

A connection's socket, the callback working for it (`work`), its WebSocket and
its limiter slot end separately; `SocketCloses` and `WebSocketCloses` are
their close events.  `Shutdown` is the synchronous part of `handleShutdown`,
`EndDrain` the end of its loop (drained, or past the deadline), `Teardown` the
awaits after it.  `Fatal` and `Exit` are the handler of unhandled errors.

### Contexts and routes

`Scopes` keeps the tree of contexts with their hooks and the compiled chains
(`bindings`), which a flush refills in place: a request on a route walks the
array it started with, whatever is in it by then, and one without a route walks
a list made for it.  `Visit` is the traversal of children that
`collectTransparent()` and `onRequestHooksForPath()` have in common.
`Routing` builds the tree of nodes route by route (`AddRoute` descends and
inserts), and `Match` walks it with the code's order (static, parameter,
wildcard) and its backtracking.  `Best` is the reference: of the routes whose
pattern fits, the one whose segments are the most specific from the left.

### Replies, cookies, bodies, gates

In `Reply` a header's value is its set of tokens.  `replyAt` is the phase the
lifecycle is in; `Write` may happen in each; `Merge` is
`mergeReplyIntoResponse()`, which adds what the builder has and keeps what an
`onSend` hook was shown and left alone.  `payload` is the fast path's record,
which shares the cookie queue with the builder.  `made` says what a body is:
data the handler returned, JSON or other text in memory, something of the
application's own, or what a hook or an error handler answered with; `fits`,
whether it fits the route's response schema.  `Misfit` is what
`validateResponse()` replaces: data, and in-memory bodies that are typed as
JSON and parse.  Whatever `Throws` before the `onSend` hooks goes to
`HandleError`, where an error handler or an `onError` hook may answer.
`SendFile` resolves and opens in two steps, between which the file system may
change.  `Cookies` keeps a cookie's value as symbols and decides `Secure` by the
site unless it is asked for; `jar` has the browser's cookie, which `Returns` over TLS
only if it is `Secure`.  `Body` reads chunk by chunk.  `Gates` has a browser with a
session and two foreign sites; `mutation` is a changing request under way.

### RPC, schemas, JWT, the edge router

`Rpc` walks a call through CSRF, decoding, guards and the middlewares, any of
which may call `next()` again.  `Wire` has values as trees of tags.  `Schema` takes
a node of a library to its JSON schema as `json-schema.ts` does, and to what
the library accepts (written from the library's use in the code), and compares
them on every small value.  `Realms` registers the plugin in nested contexts;
`EdgeRouter` has requests in flight, each with the table it read.

### Platforms

In `Platforms` bytes are what they are below the codings applied to them.
`LambdaEvent` and `SentOn` are what AWS does, `EventToRequest` and
`ResponseToResult` the adapter; `Wrap` is the compressing reply.  `Invoke`,
`JobEnds` and `CronAnswers` are one cron invocation on Vercel or Cloudflare,
with as many at once as the platform makes.  `BunSockets` has Bun's callbacks as
actions; `OpenRefused` leaves a `close` callback to come, as Bun does.

## 3. Runs

| Run | Shows | Bounds |
|---|---|---|
| `task_worker` | slots, holders of leases, overlap, queue discipline; every job settles while the worker runs | concurrency 1, 2 starts, 1 rejected call, 3 deliveries, an unregistered task |
| `task_worker_stop` | **violation**: a job starts after `stop()` returned drained | as above |
| `redis_queue` | the queue's properties with two processes and an interruption; the cap of the dead-letter list; staged entries are drained | 1 job with a retry, 2 callers, 2 deliveries |
| `redis_queue_loss` | **violation**: an interrupted nack loses the job | 1 job, 1 interruption |
| `services` | cron runs what unix cron would and nothing twice; a running task keeps its lease, and only an aborted handler has a rival; limits, addresses and evictions; sessions never nowhere, dead ids dead; no hook skipped while plugins load; the bridge neither echoes nor delivers to who left; streams close once; a request alone is told its own queries | calendar of 24 minutes, 4 jobs, 2 set-backs; leases of 1..5, 7 and 9, declared or not, against a floor of 2 and a default of 5, timeouts of 1, 3, 6 and 10, 12 ticks; 3 clients and a proxy, 3 counters of which 2 are scanned; 3 handlers of 2 calls, 2 entries; 2 plugins (one order of two alike), 2 hooks, a route at a path of one segment; 2 nodes; 2 channels; 2 requests of a pool |
| `process` | the queue and `JobLifecycle`; transactions, status, timeout; shutdown; routes; realms; the edge cache; RPC; schemas; what is in front of handlers (`RequestsSound`: bodies, gates, Bun's sockets, the application's worker) and behind them (`AnswersSound`: replies, cookies, platforms, values on the wire) | 2 jobs, 3 deliveries; 1 request; 3 connections, cap 1; every 3 of 11 routes; 2 realms; 3 tables, 2 updates; 4 procedures and values of 3 levels; every node of `MCSchemas` on every value of `MCBodies`; 2 writes; bodies around a limit of 2; 2 cron invocations; 3 sockets; 3 callers |
| `response_cache` | nothing personal shared, nothing stale to who bypasses | 3 requests (credentialed, revalidating, ordinary), every kind of response, 1 fault, 1 expiry |
| `response_cache_flight` | one execution at a time, followers served, purges hold | 3 alike requests, 1 write, 2 purges, 1 expiry |
| `requests_error` | **violation**: an answered error commits the transaction | no timeout, no rejected call |
| `server_fatal` | **violation**: a fatal error while draining exits at once | 2 connections |
| `bun_cap` | **violation**: a refused socket frees a connected one's slot | 3 sockets of an address, cap 1 |
| `lambda_binary` | **violation**: a compressed answer is decoded as text | 5 hosts, 16 answers |

`services` and `process` are unions of components that share no variable: an
initial state says which component the behaviour is of, and the variables of
the others keep one initial value.  A property of one component is then checked
on its own state space, and one start of the checker serves all.
`RequestsSound` and `AnswersSound` are conjunctions by component; each conjunct
(`BodySound`, `GatesSound`, `BunSound`, `WorkersSound`, `ReplySound`,
`CookiesSound`, `PlatformsSound`, `WireFaithful`) is stated, part by part, in its module, as
`RoutesSound` is, which `RoutingSound` asks of the router's behaviours only.

A component's type invariant is a theorem where its module has proofs, of its
own or as a part of the inductive invariant; so are `ConcurrencyBound`,
`NeverDeaf`, `FailuresAreOwn` and `RetryBudget` of `RedisQueue`, which no run
lists.

Why the bounds are enough.  Two jobs are the smallest number for which a call
about one could disturb the other, for the order of a list to matter and for a
cap of one or two to evict.  Retries of one and zero give a first delivery, a
retry and an exhausted budget.  Three deliveries let a job be delivered, lapse,
be delivered again and be called about by both deliveries while the other job
is also out.  Two starts make two poll loops coexist, which is what a restart
can do.  The leases straddle the heartbeat's floor, its double, from where on a
failed beat can be made up for, and the default the worker assumes of a backend
that declares none, and include values whose 80% and third round; the timeouts
lie below, at and above them, and 12 ticks pass several beats of the longest.  Three requests on a key are an execution, one that waits for it and
one that arrives in between; two purges show that the second does not undo what
the first established.  Three handlers are one that makes a session known and
two that meet in it; a store of two entries evicts at the third.  Three clients
and a proxy's health check are one key too many for three counters, of which
two are scanned, so the scan may miss the weakest.  Requests share nothing, so
one is enough; two rejections let a rollback and the commit after it both fail.
Three connections and a cap of one are the fewest with which a slot freed twice
lets in one too many.  Three routes meet at a node and leave a third way out;
the patterns have every kind of segment at both depths.  Two realms are one and
another; two updates let a request be two tables behind.  Two writes to a reply
are one before and one after any phase, or two of one name.  Bodies lie below,
at and above the limit, in one chunk, several and none, declared rightly, wrongly
and not at all.  Two invocations overlap; three jobs are two of an expression and
one of another.  `MaxLeases` bounds how much happens, not what; `MaxStored`
bounds only the copies that stale dead-letter calls pile up.  Runs with
`CHECK_DEADLOCK FALSE` stop where a bound, an idle system or the end of all
requests stops them.

### Fairness

`task_worker` assumes weak fairness of what the event loop and the backend
owe: pending `pop()`s answer, timers fire, handlers end (the task's timeout
ends them), hooks and settling calls return, delayed messages ripen, and a
lease nobody extends any more lapses.  It does not assume that the worker is
started, that jobs are enqueued, or that a lease in use lapses.  A hook that
never returns is outside this assumption, and the code does not bound it.
`redis_queue` assumes that a poll loop goes on popping and that Redis answers;
it does not assume that any call completes uninterrupted.  Of a request,
`process` assumes that the timer fires and that the error path's hooks and
database calls return, and nothing of the lifecycle: its handler may hang.  Of
the server it assumes that timers fire, that `stopWorker()` returns (it has a
timeout of its own) and that the user's `onShutdown` does; clients, handlers
and upgrades may hang.  The other components have no fairness and no liveness
property.

### What disagrees with the documentation

Each violation run checks one sentence of the repository.

* `CleanStop`: `stopWorker` is to wait for in-flight jobs; the poll loop does
  not look at `running` after `await this.queue.pop()`, so a job starts after
  `stop()` saw `activeJobs = 0` (`task.ts:246`).
* `InterruptionsAreSafe`: `nack()` and the re-drives are two commands, and an
  interruption between them loses the job (`queue-redis/src/index.ts:341`).
* `ErrorsRollBack`: a custom error handler that answers ends `handleError()`
  before the `onError` hook that would roll back; the `onSend` hook then
  commits (`error-handler.ts:31`).
* `FatalDrains`: `handleShutdown()` returns at once when it is already running,
  so the fatal-error handler exits while the first call drains
  (`serve.ts:391`).
* `CapHolds`: Bun's `close` callback releases a slot for every socket, also for
  one that `open` refused, so each refusal lets one more connection in than
  `maxConnectionsPerIP` (`adapter-bun/src/index.ts:149`).
* `BinaryEncoded`: Lambda's results are base64 by content type only, so what
  `compress()` made of a JSON answer goes through `response.text()` and cannot
  be read (`adapter-lambda/src/index.ts:230`).

Two more that no run lists: the router decodes a segment when it descends to a
parameter, so a bad escape in a path that matches no route is answered 400 and
not the 404 of `docs/errors.md:42` (`router.ts:243`; `MalformedNeedsRoute` of
`Routing` says it); and the metrics of `trackedPool()` are one record for the
pool, reset by every request, where `README.md:437` speaks of per-request
metrics (`analytics.ts:195`; `MetricsPerRequest` of `QueryMetrics`).  A request
that an earlier `onRequest` hook refuses is not even reset and told what the
record holds.  And
`bodyLimit: 0`, which `docs/errors.md:45` and `types.ts:512` say disables the
check, answers 413 to every JSON or text body that declares its length, since
`readBodyText()` compares the length before it looks for the zero
(`body-parser.ts:48`; `UnlimitedAccepts` of `Body`).

Seen while modelling, kept in the models, and excepted by name in the
properties:

* A step through a range runs on to the end of the field: `parseField()` reads
  of `9-17/2` the 9 and the step (`cron.ts:89`; `PlainParts` leaves such parts
  out of `RunsAsUnixCron`).
* A cron handler that throws before it returns a promise ends `tick()`, and the
  jobs after it do not run in that minute (`cron.ts:266`; `OnSchedule`).
* A handler that was running when a purge began stores its response after the
  purge (`response-cache.ts:722`; `PurgeHolds`).
* A handler that loaded a session before another destroyed it or rotated its id
  brings the old id back by saving (`session.ts:197`; `DeadStaysDead` counts
  it as a holder).
* A change of a session that was saved before is seen by the next load although
  it is not saved itself: the memory store keeps the object (`session.ts:197`).
* Below the heartbeat's floor a lease lapses before the first beat
  (`task.ts:333`); so it does if more beats in a row fail than two intervals in
  a lease make up for, one above twice the floor and none below
  (`task.ts:352`); and if the backend grants less than the worker reckons with,
  hands out no tokens, or cannot extend and says nothing of its leases, so that
  any timeout is accepted (`task.ts:124`; `Dependable`, `Checked`, `Endured`).
* A handler that ignores its abort goes on after its timeout, beside its retry
  once the failure is settled or, without heartbeats, the lease has lapsed
  (`task.ts:299`; `NoSecondRun` and `SettlesItsOwn`).
* A lapsed lease raises `attempt` as a nack does (`queue.ts:270`;
  `DeliveriesSound` counts both).
* An `onRequest` hook that throws for a path no route matches rejects
  `handle()`: no error handler and no `onResponse` hook runs (`app.ts:868`;
  `StatusReported`).
* `startWorker()` while `stopWorker()` awaits does nothing, and the second of
  two overlapping stops forgets a worker started in between, which runs on
  unattended (`app.ts:621`; `WorkersSound`).
* `next()` called twice by an RPC middleware skips the ones already entered
  (`rpc/src/router.ts:434`; `CallSound`).
* An edge route's parameters take the first capture groups of its expression,
  a wildcard's included (`edge-router/src/match.ts:91`).
* `nullable()` of an enum or literal keeps `enum` and so publishes that null is
  refused; optional members below a wrapper are published as required
  (`json-schema.ts:80`; `SchemaSound`).
* A cookie set in preSerialization with no `onSend` hook, or queued by an
  `onSend` chain that throws, reaches the client only through the payload that
  Node's server reads, and may be sent twice there (`ReplySound`).
* The `onSend` chain ends at a hook that throws, although `docs/hooks.md:143`
  has all of them run; answers given before the handler skip it.
* A response schema is not applied to an answer something was added to after
  `reply.json()` (`response-merge.ts:91`), to one that is not typed as JSON
  (`app.ts:1325`), to a text that does not parse (`app.ts:1336`), to Responses
  the application builds itself, nor to what hooks and error handlers answer
  with (`MisfitsCaught`); `reply.status(204).json()` throws.
* `O_NOFOLLOW` guards the last component of a path only: a directory replaced
  between resolving and opening is followed (`reply.ts:141`).
* `*/*` and `*` stand for the first thing on offer, even one the same header
  refuses (`negotiate.ts:41`; `PicksReasonable`).
* An expression no cron job has runs every job, on Vercel and on Cloudflare
  (`adapter-vercel/src/index.ts:173`; `InvocationsTold`).
* A load balancer without multi-value headers gets the first cookie only
  (`adapter-lambda/src/index.ts:282`; `AnswerArrives`).

## 4. Proofs

TLAPS checks these for all values of the constants, under the `ASSUME`s of the
modules (finite sets of jobs, requests and connections, natural limits and
bounds, a positive concurrency, cap and heartbeat floor).  Two theorems assume
more: `FiredOncePerMinute` and `RunsAsUnixCron` that jobs have distinct names,
under which the scheduler keeps what it fired, and the latter that fields are
made of the parts `parseField()` reads as unix cron does.

*Queue.*  `Conserved`, `SingleCopy`, `LeaseExclusive` and `RetryBudget` are not
inductive alone.  `QueueInv` adds `LeasesFresh` (tokens in use were generated,
no two deliveries share one, a leased entry *is* the delivery that was handed
out), `WaitingBudget` (what waits has budget left; a delivery inherits it) and
`OnlySubmitted` (nothing stored that was not pushed; otherwise `Push` could
duplicate).  The proof takes the actions one by one.  `Pop` is split in its two
halves, reclaiming and delivering: the reclaimed queue is shown to satisfy the
same facts as the queue before, and one lemma then delivers from it.  The
refinement of `JobLifecycle` is a view of each job (`ViewsHold`: what the
refinement mapping says of a job, by the place it is in) and one lemma per
action that says how it moves the jobs it touches; `LifeMoves` joins them into
`[Next]_vars` of the abstract specification.

*Worker.*  `WorkerInv` adds to `QueueInv` that a phase or an answer belongs to
a delivery that was made (`HandedOut`), that an answer belongs to one loop and
to no `processMessage` yet (`AnsweredOnce`, otherwise a slot could be counted
twice), that unstarted loops are ended, and `PlacesBound`: active slots *plus
pending pops* stay within the limit and one per restart, which is what makes
the limit itself inductive.  `WorkerIsACaller` shows that every worker step is
a queue step or leaves the queue alone, so the queue's theorems carry over.

`RunsExclusive` needs `HolderInv`: a job has one live copy even after a stale
dead-letter call (`OneLive`), of its deliveries only the newest can hold it
(`NewestHolds`), every lease was answered to a loop or reached
`processMessage` (`LeaseTaken`), and what a settling call left in place is paid
for by a call that was rejected (`StrandedPaid`, by cardinality).

*Durable queue.*  `RedisInv` is `Typed` (with the shape of a caller's record at
each await), `LeasesSound` (a lease names one delivery, which has one in-flight
entry until it is over; what is staged is over), `Budget`, `JobsSound` and
`Capped`.  `JobsSound` says of each job
that it was submitted exactly when it is somewhere (a list, the stream, a caller
that has it in hand, or the history of what ended), and, of one that no late
delivery dead-lettered a second time (`forked`), that it is in each place at most
once and in one place only.  Commands of different callers interleave
freely, so every step is shown to keep the job's one place or to move it.  The
refinement shows on top of it that a job's abstract status and tries move as
`Moves` lists, which are the steps of `JobLifecycle`.

*Lease.*  `LeaseInv` adds `LeaseSlack`: the next heartbeat comes an interval
after the last, and the lease it renews was extended at most one interval
earlier for each beat that has failed since, so that it comes strictly before
the lease expires as long as no more fail than `Endured` says; without
heartbeats the handler's timeout does.  `AbortedOnly`: only a timeout leaves a
handler running, and ends the wait for it.  The arithmetic is in
`IntervalIsShort` and `TimeoutIsShort`.

*Response cache.*  `WaitInv` says whom a request may wait for and what a
settled execution left behind; on it rest `ShareInv` (what is stored or read
may be shared as it is), `FollowInv` and `RevalidateInv`.  The stampede bound
counts: every execution but the last started belongs to a request that waited
in vain, which needs `NewcomersAlwaysJoin`.  `PurgesHold` has two parts.
`PurgeInv` follows the entry a purge found; `RacingInv` says that a running
handler either ran when a purge began or read data no older than it, so what is
stored, read or served inherits that.

*Cron.*  A job is fired once per minute because `lastFired` of its name holds
the minute it last ran in.  `OnTime` adds that the scheduler ticked last in
`lastMinute` and that nothing ran since; with it `RunsAsUnixCron` follows from
the fields: what a step lands on is what a multiple of it reaches
(`StepsFacts`), so a field, and then an expression with its two day fields,
matches the dates unix cron would run at.

*Sessions.*  `SessionInv` is `StoreSound`, `HandlersSound`, `FreshId` and
`Rotation`.  The lemmas about `KVStore` speak of the store as the set of its
entries, whose keys are unique, so the order of use matters only to what is
evicted.  One lemma (`StepKeeps`) then serves every action: a step keeps the
invariant when the entries it adds are sound, under ids somebody holds, and
rotated away by nobody.

*Rate limits.*  `LimitInv` gives each admission the window it fell in, `start`,
which the code does not keep: windows do not overlap and none holds more than
`max` admissions (`Spaced`), and the last one is the counter's (`EndsIn`), so
that `2 * max + 1` admissions touch three windows.  `RefusalHolds` says a
refused client's counter stands until its window ends unless it was crowded
out: the victim of an eviction is the weakest of those scanned, so when it has
used up its limit all of them have, and `CrowdFacts` counts them.  `OwnKey`
shows that whatever a client sends as `X-Forwarded-For`, its key is its own.

*Bridge.*  `BridgeInv` has three parts that share no variable.  `AtHome`:
sockets are registered where they are.  `Passed`: what a node has still to
publish is newer than what is on its way, and that is newer than what arrived.
`Listening`: a channel that is marked is confirmed or a command for it is
pending.

*Streams.*  `SweepComes`: what is left of the interval is left to every channel
before it is overdue.

*Metrics.*  `MetricsInv` says that while a request is alone all that runs and
all that is counted is its own (`AloneOwns`), that nothing is told of a request
before its `onSend` hook (`Untold`), and that a request once told of queries is
not told of none later (`ToldGrows`).  A request is alone from its reset on,
until another starts a query or a late reset comes.

*Edge router.*  `EdgeInv`: the cache's keys are distinct and bounded, and an
entry is what the table in force gives (`CacheInForce`).

*Realms.*  `SignedByItsRealm`: a token has the key and claims of the realm that
made it, which has kept its options since.

*Requests.*  `IInv` is the types with `Settled`, which says for each await of
the two flows what the transaction, the pending flag and the number of calls
can be there, and which events must have happened.  Each property is a reading
of it at the last await.

*Server.*  `SInv` relates the counters to the connections (`inFlight` counts
the handlers running, `count` the slots held), ties a WebSocket and a slot to
its socket, and says of the stages after draining what can no longer be in
progress.

*Plugins loading.*  `LoadInv`: the promise a request waits for covers every
plugin that was registered when it was made, and those registered since are late.

*Hooks.*  What a request is promised is said of the tree as a set, and what it
runs is a list that traversals compile, is compiled again in place while it is
walked, and is not compiled at all while nothing was dirty.  `ScopeInv` has a
part for each step between the two.  `Sound` is what registration keeps of the
tree: parents come before their children, a child is listed by its parent
only, and a context nobody made holds nothing.  `BindingsOk` says that a
chain *leads into* what its context resolves to now (`Leads`: what stands at a
place stands at that place there, or at a later one), and is equal to it when
nothing is dirty.  `CallerOk` says that a promised hook has run or is ahead of
the walk.  Registration adds hooks and contexts and removes none, so what a
context resolves to before leads into what it resolves to afterwards
(`ResolvedGrows`), and a refill moves nothing from ahead of a walk to behind
it.  The traversals are recursive functions over the contexts: each is shown to
have a solution of its equation (`LineageExists`, `DescentExists`) and to list
what it should by taking the least depth, or the least distance from the deepest
context, at which it does not (`SmallestNat`), which needs no induction theorem.
`CollectedIsPromised` is the result for `collectScopeContexts()`.  The
assumption on the constants is that plugins and callers are finitely many, the
root is none of the plugins, the bounds are numbers and paths are sequences.

*Sockets on Bun.*  `BunInv` says by each socket's state what its handler has
heard (`SocketSound`), and that the limiter counts no more slots for an address
than it has sockets with one (`SlotsSound`).

*Gates.*  `GatesInv` keeps what a check decided next to what it decided from:
an admission is forgotten when anything it depends on changes, and a cached
response has the headers of the origin it was made for.

*Reply.*  `ReplyInv` has a part for each promise.  `HeadersSound`: an answer on
its way has the headers it was made with and the builder's (`AnswerKept`), and
the onSend hooks were shown no header the builder lacks.  One lemma about
`mergeReplyIntoResponse()` (`HeadersMerged`) says what becomes of each header;
`Answers` applies it to the merges before the hooks, `MergeArrives` to the one
after.  `FitSound`: JSON made in memory can be read until it is validated, or
something was added, and what misfits after that is `Excused`: no data, and no
JSON but what is not typed so or was added to.  `FileSound`: nothing is served before it is opened.
`CookiesKept` goes with it: a Response on its way has every cookie of the last
merge, and the payload Node writes instead of it has the same cookies once the
builder's queue is appended, as long as the queue is no longer than it was then
(`DueKept`; it never shrinks).  A merge is a fold over the queue, and folds are
functions of sets of places that are shown to exist (`FoldExists`) and then
taken a step at a time (`CookiesMerged`).  The same lemmas show that
`normalizeRedirectTarget()`, applied to what it made, changes nothing
(`NormalizedOnce`), so that a browser sees the host that was checked, for
targets of any length.  `ReplyAssumption` says that the application's own
Responses keep their cookies apart, as `getSetCookie()` reads them, and have no
body `fastResponse()` made, and that `header("set-cookie", ...)` writes one string.

*Exchanges.*  `ExchangeInv`: at each hop what was made is what the conversions
make of the client's request and the handler's answer.  The rest is about the
conversions: behind each event source, whether it hands on every value of a
header or the last, and bytes or their base64, the adapter's request is the client's
(`ConvertedRequest`), and its result becomes the answer again unless bytes are
taken for text (`BytesReturn`, `ConvertedAnswer`); `AnswerMade` says what the
compressing reply and `withETag()` do to it.  `negotiateEncoding()` is a fold
that keeps the best (`BestCoding`).  `parseAccept()` sorts: if some entries
could not be sorted, the fewest such would have one that comes last and be
sorted without it (`CanBeSorted`); the order has all of them (`AllSorted`), so
the first that fits is the best that fits (`PickedReasonably`).
`ExchangeAssumption` gives the shape of the data: headers and cookies come in
order, qualities are numbers, codings have names, ranges and what is available
have parts, and nothing is encoded around a body that is not there.

*Invocations.*  `InvocationSound` counts what became of each job selected.

*Cookies.*  `CookieInv` adds to the bound on warnings what they are
(`WarningsMatch`: one for each host remembered, and one for all the others), and
that what is in the jar is the encoding of what was set.  That it is read back
needs two facts about the header: the cookie is the last of its name in it
(`ParsedBack`), and an escape is undone and makes no character that starts one
(`DecodingUndoes`).  `SitesAssumption` says that requests tell the truth about
their site.

*Remote calls.*  `BuiltIs` says what the builder makes of a declaration of any
length: the number of its middlewares and whether each of the other steps
occurs, by the least number of steps for which it would not.  `CallAdmitted`
carries what `handle()` has checked past each of its awaits.  `ChainSound` has
the invariant of the chain.  While no middleware calls `next()` twice, the
frames are the first middlewares in order, and either all that were entered
are still there (`Descending`) or all of them have called `next()`
(`Returned`), so that the chain is entered once and a refusal is final.

*Application's worker.*  `StopsSound`: the worker a `stopWorker()` waits for
does not run, and is not the one left unattended.

| Theorem | What it establishes |
|---|---|
| `Queue_proofs!TypeCorrect` | The queue's types hold of every behaviour, for any jobs, limits and bounds. |
| `Queue_proofs!NoJobLostOrDoubled` | `JobsAccounted`: No pushed job is lost except to the dead-letter queue's cap or a purge, and only a dead-letter call without the lease can double one. |
| `Queue_proofs!StaleCallsHarmless` | `DeliveriesSound`: A lease ends by its holder's call or by lapsing, and nacks and lapses draw down one budget. |
| `Queue_proofs!Implements` | `ImplementsLifecycle`: The in-process queue implements JobLifecycle: under the refinement mapping every step is one of a job's life, or none. |
| `Queue_proofs!WorkerTypeCorrect` | The worker's types, the slot counter staying a natural number included. |
| `Queue_proofs!SlotsNeverLeak` | `SlotsAccounted`: The slot counter is the number of deliveries being processed. |
| `Queue_proofs!LimitKept` | The concurrency limit is exceeded by at most one job per restart. |
| `Queue_proofs!PollingGoesOn` | A running worker always has a live poll loop. |
| `Queue_proofs!WorkerIsACaller` | `KeepsQueueDiscipline`: The worker implements the queue's specification, so the queue's theorems hold of a queue it drains. |
| `Queue_proofs!StoppedWorkerTakesNothing` | A stopped worker calls pop() no more. |
| `Queue_proofs!ExecutionsExclude` | `RunsExclusive`: No two handlers run one job at once unless the earlier delivery's lease lapsed, and a leased entry nobody runs was left by a settling call that rejected. |
| `RedisQueue_proofs!TypeCorrect` | The types of the five structures and of the callers, for any processes, jobs and bounds. |
| `RedisQueue_proofs!NoJobLost` | `LostOnlyInHand`: Whatever is interrupted between two commands, a job is gone only while a caller that was to store it again had it in hand. |
| `RedisQueue_proofs!CopiesAreSound` | `CopiesSound`: A job has one copy over all structures and callers unless a stale dead-letter call doubled it, one delivery holds it, and the dead list exceeds its cap only by reapers that have not trimmed yet. |
| `RedisQueue_proofs!WithinRetries` | Nacks, lapses and deliveries of all processes draw down one retry budget per job. |
| `RedisQueue_proofs!Implements` | `ImplementsLifecycle`: Every step takes the jobs along the lifecycle or leaves them, for every job that no stale dead-letter call doubled and no interruption lost. |
| `ResponseCache_proofs!TypeCorrect` | The types of the cache's state. |
| `ResponseCache_proofs!EverybodyServedRightly` | `ServedRightly`: What a request is served is its own, public, or made without a credential for one without; and one that revalidates is served nothing old. |
| `ResponseCache_proofs!FailuresStayOwn` | A failing handler or store call fails its own request only. |
| `ResponseCache_proofs!NewcomersAlwaysJoin` | While the last execution started runs, no request that has not waited starts another. |
| `ResponseCache_proofs!StampedeBounded` | `StampedeBound`: For any number of requests, at most one execution plus one for each request that waited in vain. |
| `ResponseCache_proofs!FollowersAreServed` | `FollowersServed`: Who waited for an execution that stored does not execute, unless something is purged or expires. |
| `ResponseCache_proofs!PurgesHold` | `PurgeHolds`: Who arrives after a purge is served neither what was stored when it began nor older data, except by a handler it raced. |
| `Process_proofs!RequestTypesCorrect` | The types of a request's state, for any requests and bounds. |
| `Process_proofs!EveryTransactionSettles` | `TransactionsSettle`: For any number of requests and rejections a transaction is settled once, as its request went, or one of the named reasons applies. |
| `Process_proofs!ReportedOnce` | `StatusReported`: onResponse runs exactly once for a request that is answered, with the status sent. |
| `Process_proofs!TypeCorrect` | The types of the server's state; the in-flight counter never goes below zero. |
| `Process_proofs!TeardownWaits` | `DrainsBeforeExit`: For any number of connections nothing is torn down or cut before the deadline while a request, upgrade or WebSocket is in progress. |
| `Process_proofs!SlotsAreRight` | `SlotsMatch`: The limiter's count is the number of slots held, and no more WebSockets are live than the cap. |
| `Process_proofs!ShutdownAdmitsNothing` | `NothingStartsLate`: Once shutting down no handler starts and no WebSocket opens. |
| `Process_proofs!BunCallbacksSound` | `BunSound` of `RequestsSound`: On Bun, for any sockets, addresses and cap: the handler hears of the sockets that were accepted, in order and to the end, and the limiter never counts more than there are. |
| `Process_proofs!GatesHold` | `GatesSound` of `RequestsSound`: For any tokens, origins and settings: a token admits in its own session only, a cache hands out no headers made for another origin, and an upgrade is let through by every check there is. |
| `Process_proofs!RepliesSound` | `ReplySound` of `AnswersSound`: For any headers, cookies, statuses and Responses: every header and cookie queued before the last merge arrives, Node writes what was answered unless a cookie is queued after it, one of the Response's own headers yields only to an onSend hook that was shown it, Vary's tokens add up, no data a handler returned that misfits the schema is sent, and JSON it made in memory only if it is not typed as JSON or the builder added something, sendFile() stays in its root, and redirects stay on the allowed hosts. |
| `Process_proofs!RedirectsStayHere` | `RedirectsStay` of `AnswersSound`, for targets of any length and symbols: what redirect() sends is refused or takes a browser to an allowed host or keeps it on this one. |
| `Process_proofs!InvocationsAreTold` | `InvocationsTold` of `AnswersSound`: A cron invocation runs the jobs of its expression, or all if there are none, and reports a success exactly when each ended well. |
| `Process_proofs!ExchangesArrive` | `PlatformsSound` of `AnswersSound`, but for invocations: For any requests, answers, codings and ranked ranges, on a server and behind every Lambda event source: the application is asked what the client asked, what it negotiates is the best of what fits, a compressed answer is in the coding the client likes best, one that depends on Accept-Encoding says so, and the client reads what was answered unless bytes were taken for text. |
| `Process_proofs!ApplicationWorkers` | `WorkersSound` of `RequestsSound`: For any callers: the application's worker runs unless somebody stops it, and one that it forgot runs only if calls of stopWorker() overlapped. |
| `Process_proofs!CookiesStaySound` | `CookiesSound` of `AnswersSound`: For any sites and values: a cookie's default of Secure leaves it out only at a host nobody else can reach, what is read back is what was set whatever surrounds it, and hosts are warned of once each, within the limit and one. |
| `Process_proofs!CallsAreGuarded` | `CallSound`: For any calls, middlewares and calls of next(): the handler of a remote call runs only after every middleware was entered, once and not past a refusal unless some middleware calls next() twice, and only on what the procedure was declared to take, wherever in the builder's chain it was declared. |
| `Stores_proofs!RotationHolds` | `Rotation`: For any handlers, ids, cap and expiry: a session being rotated is never nowhere, and its old id names nothing its handler saved. |
| `Stores_proofs!DeadIdsStayDead` | `DeadStaysDead`: An id that names no session and that no handler in progress holds never names one again. |
| `Stores_proofs!LimiterIsSound` | `LimiterSound`: 2 * max + 1 requests a client gets through span a window at least, nobody is refused below the limit, and Retry-After leads to the next window, in memory and in Redis, unless the client's counter was lost. |
| `Stores_proofs!PardonTakesCrowd` | `PardonNeedsCrowd`: A refused client is let through early only if its counter was evicted when all the others scanned were those of refused clients too. |
| `Scopes_proofs!RequestsWaitForPlugins` | `LoadedFirst` of `HooksComplete`: For any plugins, requests and hooks: whatever plugins register while others load, a request gets past ready() only when every plugin registered before it arrived has loaded, but for the late ones. |
| `Scopes_proofs!GuardsAlwaysRun` | `GuardsRun` of `HooksComplete`: A chain that is refilled in place under a walk only grows behind the place the walk has reached, so every promised hook still runs; and a route runs no hook of a prefix it is not below. |
| `Scopes_proofs!HooksAreComplete` | `HooksComplete`: For any plugins, prefixes, requests, hooks and routes: no request runs before what guards it has loaded, and none reaches its handler, or its 404, 405 or upgrade answer, past a hook it was promised. |
| `Scopes_proofs!CollectedIsPromised` | For any tree that `createChild()` can make, the two traversals of `collectScopeContexts()` list the hooks of exactly the contexts in whose scope a route is. |
| `Services_proofs!LeaseOutlastsRun` | `LeaseKept`: With leases above the heartbeat's floor, no shorter than the worker takes them for, and no more heartbeats failing in a row than they endure (one, or none near the floor), nobody else gets the job of a handler that was not aborted; one that ignores its abort has no rival until its failure is settled if the lease is extended. |
| `Services_proofs!FiredOncePerMinute` | `NeverTwice`: For jobs of distinct names, no job is fired in the minute it last ran in. |
| `Services_proofs!RunsAsUnixCron` | `OnSchedule`: For jobs of distinct names whose fields step through no range with an end: in every minute with a tick the jobs that have run are those unix cron would run, up to one that throws, unless the clock was set back. |
| `Services_proofs!BridgeIsSound` | `BridgeSound`: A socket gets a node's broadcasts in order, once, and of its own room, and a node listens exactly where subscribePath() left it listening. |
| `Services_proofs!HubStaysSound` | `HubSound`: onClose is called once per channel, the hub counts those that are open, and none outlives maxIdleMs by more than an interval unless a throwing callback cut the sweep. |
| `Services_proofs!AloneIsExact` | `AloneExact`: A request whose reset ran and that had the pool to itself since is told the queries it had ended by then, and only its own slow queries are logged for it, for any number of requests and whatever other hooks and late handlers do. |
| `Services_proofs!CachingChangesNothing` | `CacheIsTransparent`: Whatever was matched, evicted and updated before, a request is sent where the table in force says. |
| `Services_proofs!RealmsStayApart` | `RealmsApart`: A realm takes back the tokens it signed, as far as its options allow, and no token passes the guard of a route that a realm with another key covers. |

Only model-checked: the liveness properties (`EveryJobSettles`,
`StagingDrains`, `AnsweredInTime`, `ShutdownEnds`), since fairness and `ENABLED`
are outside what the prover does; `RoutingSound`, `SchemaSound`, the bodies
among `RequestsSound` and the wire format in `AnswersSound`, which compare what two recursive computations
make of data (the radix tree's match with the best route, a decoder with an
encoder) rather than say which elements one of them visits.  The rest of
`AnswersSound` is proved part by part.

## 5. Not modelled

In the queue and worker: validation of names and inputs, logging, the registry
apart from its timeout check, `ctx.heartbeat(extraMs)` with a custom
extension, differing `retries` between the processes that enqueue and those
that work, and retries of commands by the Redis client.  In the response
cache: how a key is built from a request, and `invalidateAll()`.  In the store:
`keys()` with its globs, `clear()`, `ttl()`, `has()`.  In rate limits: X-Real-IP,
the parsing of addresses and hashing of long keys (one address, one key), an
unreadable reply of Redis.  In the request lifecycle: `ready()` and how routes
are registered; what hooks do to headers is `Reply`'s.  In the server: Deno's
and Bun's variants of `serve()`, static files, and a shutdown during boot that
is followed by `listen()`, which answers 503 from then on (the model has it, no
property speaks of it).  In contexts: decorators and the manifest of routes.  In
SSE: how an event is framed.  In JWT: the remote key set, whose cache belongs to
`jose`.  In RPC: the client and the OpenAPI document of procedures.  In schemas:
formats and patterns of strings.  In replies: streams and trailers.  Among the
plugins: the OpenAPI document and its viewer, the logger.  Among the adapters:
those that only pass a request on (Vercel Edge, Cloudflare's `fetch`, Deno) or
read the environment (Fly, Railway).  The CLI, the platform tooling and the
project generator are commands and file templates without behaviour over time.

## 6. Plan

1. Workers and producers that disagree on `retries` (`task.ts:369` against
   `queue.ts:270`) in `RedisQueue`; the store's globs; `invalidateAll()`.
2. Proofs: `SlotsMatch` of `BunSockets` once a refused socket keeps its hands
   off the limiter.
3. `trackedPool()` with metrics per request, the router decoding after the
   match, Lambda looking at `content-encoding`: the violation runs become
   passing ones when the code does.
