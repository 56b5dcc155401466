# A TLA+ model of the MCP gateway

The repository is a gateway in Go between MCP clients and one upstream MCP
server, with a dashboard in a second process. This directory models what is
concurrent and stateful in it, checks it with TLC on small instances and proves
the main safety properties with TLAPS for all instances.

## The system

| part | state | operations | interacts with |
|---|---|---|---|
| `auth` | none; `api_keys` in the database | ValidateKey, CreateKey | first stage of every request |
| `ratelimit` | buckets and configs per key | Allow, Cleanup, SetConfig | reads `rate_limits` |
| `rbac` | permissions per key, no expiry | IsAllowed, InvalidateCache | reads roles and permissions |
| `policy` | cached list, `lastLoad`, write times per key | Middleware | reads `policies` |
| `audit` | bounded channel, writer goroutine, `dropped` | Log, process, Close | writes `audit_logs` |
| `proxy` | none | ServeHTTP | the upstream |
| `middleware`, `metrics` | a status per request, counters | Logger, Recoverer, Middleware | around all stages |
| `health` | ready flag, the pool | SetReady, SetDB, Readyz | set by `run`, read by probes |
| `config`, `cmd/gateway` | the process | Load; run: start, serve, shut down | owns all of the above |
| `database` | `schema_migrations` | Connect, Migrate | run by all processes |
| `store` | the tables | one method per statement | called by all parts |
| `dashboard`, `cmd/dashboard` | sessions in signed cookies | login; pages and handlers for keys, roles, policies, audit log | changes the tables under the gateway |
| `cmd/keygen` | none | makes one key | `api_keys` |
| `admin`, `models`, examples | none | a ping; structs; demonstrations | |

A request passes auth, rate limiter, rbac, policies and audit in this order and
then the proxy; each is a middleware that answers itself or calls the next.
Requests run concurrently in goroutines of net/http and share the state of the
middlewares, each under its own locks. The dashboard is another process: the
gateway hears of its changes only by reading the tables again.

What is hard:

- every cache looks, releases its lock, queries, and locks again to store;
- clocks are read before locks are taken (rate limiter, write tracker), and
  after rows were fetched (key expiry, the badge of the key table, the chart);
- a failing database has a different meaning in each stage: default quota, open,
  the last known policies, a lost audit entry;
- the audit channel is bounded, is closed at shutdown, and handlers may outlive
  a forced shutdown;
- the order of deferred calls decides whether entries reach the database;
- three readers of the body each keep a part and put that part back, and three
  wrappers of the response each remember a status by a rule of their own;
- the dashboard's pages are put together from several queries, and its changes
  meet requests at any step.

`PROJECT.json` lists the hazards by line, with the properties that would catch
them.

## Modules

| module | models | composed of |
|---|---|---|
| `RateLimiter` | `internal/ratelimit` and the `rate_limits` row | |
| `AccessTables` | roles, permissions and assignments, with foreign keys | |
| `Rbac` | `internal/rbac` | extends `AccessTables` |
| `PolicyCache` | `loadPolicies`, its cache, the `policies` table | |
| `PolicyRules` | the evaluation loop, the rules, the write tracker | takes the lists `PolicyCache` hands out as a constant |
| `PolicyEngine` | `Middleware` of `internal/policy`: load, then judge | extends `PolicyRules`, instantiates `PolicyCache` |
| `AuditLogger` | `internal/audit/logger.go` | |
| `AuditTrail` | abstract: what an audit log promises | |
| `Lifecycle` | `run` of `cmd/gateway` from start to exit, `config`, `health`, handlers and probes | extends `AuditLogger`, implements `AuditTrail` |
| `Migrations` | `Migrate` of `internal/database`, run by several processes | |
| `Admission` | abstract: what it means that only valid keys get in | |
| `Gateway` | `internal/auth`, `api_keys`, the dashboard's key handlers, `keygen`, the pipeline to the audit rows | extends `AuditLogger`, implements `Admission` |
| `Exchange` | one request's body and answer through the chain: `readAndRestore`, `proxy`, the ResponseWriters of `audit`, `metrics`, `middleware` | |
| `Dashboard` | sessions and the pages for statistics, chart, roles and audit log | extends `AccessTables` |
| `MC...` | instances for TLC: definitions of constants, symmetry | |
| `...Proofs` | theorems | extends the component |

Conventions. A goroutine is a member of `Procs` (in `Lifecycle`, a request) with
a program counter `pc`; there is one action for each stretch of code between two
points where another goroutine can be seen: a lock taken or released, a query, a
clock read. Variables have the names of the Go fields and locals. Variables
commented `history` exist only to state properties; no guard reads them. Some
definitions before an action are variants of it with a plausible mistake (a
missing second look, a forgotten reset); the specification does not use them.
They show for each property what kind of mistake it catches.

### RateLimiter

`Enter`, `LoadConfig`, `QueryRow`/`QueryNoRow`/`QueryFails`, `StoreConfig`,
`Create`, `ReadClock`, `Take`, `Return` are the pieces of `Middleware`, `Allow`,
`getBucket`, `loadConfig` and `bucket.allow`; `Cleanup` and `SetConfig` are one
step each, under their locks. Buckets live in a heap, since a goroutine may hold
one that is no longer in the map. Time is in ticks, `TicksPerMs` to the
millisecond, and tokens are counted in the fraction of a token that a rate of one
per minute refills in a tick, so refilling is exact where the code uses float64.
`RetryAfter` keeps the code's truncation to milliseconds, its minimum of a second
and its ceiling to seconds. `UpsertRateLimit` changes the row. The history
`refused` has the goroutines whose bucket has admitted nobody since it refused
them: to these Retry-After is a promise. Its condition cannot be read off the
bucket, where a request with a late clock that was admitted and one with an early
clock that follows it can leave lastFill at the time of the refusal and the
tokens in debt.
No code outside tests calls Cleanup, SetConfig or UpsertRateLimit today; they are
exported operations and are modelled as such.

### AccessTables and Rbac

The tables are sets and functions; the unique constraints and foreign keys are
guards, the cascades part of the delete. `Check`, `Query`/`QueryFails`, `Fill`,
`Return` are the middleware around `IsAllowed` and `loadPermissions`. A
permission row is a pattern; which tools it matches is the constant `Matches`.
The nil slice and "no permissions" are the same value `{}`, as in the code.
`ChangeTables` is any statement of `AccessTables`: the dashboard's handlers, or
an operator's SQL for role assignments, which no handler offers.

### PolicyCache, PolicyRules and PolicyEngine

`PolicyCache` is `loadPolicies` with the dashboard's three changes of the table.
A list is the set of its members, because the order is always that of
`created_at` and the cache does not look at it; the empty list is nil and is
never fresh. `PolicyRules` starts where `loadPolicies` returned: `Begin` reads
the clock, `EvaluateLocal` is one turn of the loop for a policy without state,
`CountInWindow` and `Record` the two halves of a rate_of_change policy. The write
tracker is the set of its entries, each a time in the slice of a key; the policy
that let the write pass and a number tell the entries of one time apart, and
`written` keeps those that were dropped. Hours are the ticks modulo
`HoursPerDay`. Blocked hours are any integers, as the form does not check them;
`PassesMeansAllowed` speaks of those from 0 to 24, where 24 is the end of the day.
Of policies it is assumed that limits are positive (with others evaluate does
nothing, like with an invalid config: such a policy is in `IdlePolicies`), that a
policy has one type, and that it is once in a list, being a row.

`PolicyEngine` puts the two together: a request enters, loads, is judged by the
members of the list it got in some order of `Lists`, and leaves, while the table
changes. The two modules share the clock, the goroutines and the policies.
`JudgedByRecent` is what they promise together. `PolicyEngine` implements each of
the two (a theorem), so `PolicyRules` can be checked on its own as well, with
lists of more kinds of policies.

### AuditLogger, AuditTrail and Lifecycle

`LogAccepts`, `LogDrops` and `LogPanics` are the three outcomes of the select in
`Log` (buffer free, full, channel closed). The writer is `Receive`, `InsertOk` or
`InsertFails`, `Exit`. An insert always returns because of its 5 s timeout.

`Lifecycle` is `run`. `LoadConfig` is `Load` with the fallbacks of its helpers
and `validate`; `Connect`, `Migrate` and their failures, `Listen` and `SetReady`
follow, and a process without a database or without audit goes on without them.
`ListenerUp` and `ListenerFails` are the goroutine of ListenAndServe, which may
accept before the flag is set; after a failure the connections kept alive are
still served. `Signal` or `ServeFails` leave the select, then `ClearReady`,
`MetricsShutdown`, `Shutdown` with `ShutdownDone` or `ShutdownForced`, and the
deferred calls `CloseLogger`, `LoggerClosed`, `CloseDB`, in the reverse order of
their statements. `Kill` ends the process anywhere. net/http is external:
Shutdown closes the listener and returns nil when no handler runs, or the
context's error. `ProxyAborts` is ReverseProxy's panic when copying a response
fails. `Readyz` and `Ping` are the two looks of a readiness probe.

`AuditTrail` is what the logger promises: accept while there is room, lose and
count only when there is none, deliver once and in order, and deliver everything
accepted unless the process is killed. The mapping reads `accepted` as the
history `logged`, `delivered` as `attempts` (an insert was tried, not that it
succeeded), `lost` as `dropped`.

### Gateway and Admission

A key is a member of `Keys`; its row has `active` and `expires_at`. `Arrive`,
`Lookup`/`LookupFails`, `CheckExpiry` are `auth.Middleware` and `ValidateKey`,
split between the query and the look at the clock; `Judge` stands for the rate
limiter, rbac and the policies, which have modules of their own; `LogEntry` and
the writer come from `AuditLogger`, with the foreign key of `audit_logs` in
`Insert`. `handleCreateKey`, `handleRevokeKey` and `handleDeleteKey` are a
statement whose error is dropped, then `ListAPIKeys`, then `KeysTable` with a
`Badge` per key computed by the clock of rendering; `Keygen` is the command. The
history `target` is the key a handler was asked to delete: when its table has
other keys but not that one, the operator takes it for deleted.
`FormExpiries` and `KeygenExpiries` are what the two make of a duration: the form
takes anything that does not parse for no expiry.

`Admission` has a set of valid keys, keys that are issued once and withdrawn at
any time, and requests that are admitted only if their key was valid at one
moment. The mapping puts that moment at the query: `Status` calls a request
checked when the row it found had not expired at the time of the query, and
denied when it had, although the code finds out later.

### Exchange

One request. `ReadAndRestore` and `ReadFails` are the function of that name in
rbac, policy and audit; `left` is what `r.Body` still has and `Cap` stands for
64 KB. `Forward` is the proxy with its limit `MaxBody` (1 MB), `Respond`,
`PassInformational`, `Relay`, `RelayEnds`, `RelayAborts`, `BadGateway` what
ReverseProxy does with the upstream's answer. `WriteHeader` and `Write` go
through the wrappers: metrics keeps the first status, the others the last, and
audit keeps a prefix of the body. `Return` unwinds the chain; `LogPanics` is the
audit middleware meeting the closed channel, and `Recover` a panic, that one or
`RelayAborts`, that ends in Recoverer. `Wirings` are the chains `run` builds, with
and without database, policies, audit and metrics. What is sent is what net/http
was given: whether it reaches the client no wrapper can know.

### Dashboard

One browser with its cookie is followed, the others are `OthersChange`. `Login`,
`Logout`, `Enter`, `Refuse` are the login handlers and `requireAuth`; `Restart`
ends the process at any step and draws a new secret if none is configured. A
page is a sequence of queries, one action each: `CountRequestsToday`,
`CountActiveKeys`, `CountErrorsToday`; `CountRequestsByHour`, `handleChartData`;
`ListRoles`, `ListPermissionsByRole` for each role, `RolesList`, preceded by
`ChangeRoles` in the handlers that change something; `queryAuditLogs`. Every query
may fail, with the error dropped: a count is 0, the chart flat, a role without
permissions. `out` is what the last step rendered, next to what a property compares it with. Several
ticks make a second, an hour and a day.

### Migrations

`Look` and `Create` are the two halves of CREATE TABLE IF NOT EXISTS, which in
PostgreSQL can fail when two sessions create the table at once; `Check`, `Exec`,
`Record`, `Commit` are the loop over the sorted files. `Fault` is any failing
statement or a crash, with the transaction rolled back; `CommitLost` is a commit
whose answer is lost; `Restart` starts a process again. The database is external:
transactions are atomic, a second execution of the same DDL waits for the first
and fails if that committed (no file in `migrations/` can be applied twice).

## Runs

| run | distinct states | checks |
|---|---|---|
| `ratelimiter` | 1.5 M | types; admissions bounded by burst and refill; one bucket per key; quota of the row; Retry-After right to 1 ms |
| `rbac` | 227 k | types and foreign keys; decisions agree with the cache; cache entries are newer than the last invalidation unless raced |
| `rbac_open` | violated | open only without roles, as rbac.go:89 says |
| `policy_engine` | 2.0 M | staleness of policies; a failing database does not open the gate; a passed request was allowed by recent policies |
| `policy_rules` | 497 k | types; no policy skipped and blocked hours right; overshoot of the write limit bounded |
| `policy_window` | violated | the write limit, requests one at a time, two rate policies |
| `migrations` | 39 k | types; versions and schema in step and in order; a served schema is complete; only overtaken processes fail |
| `lifecycle` | 125 k | types; FIFO; drops counted; drained before the pool closes; graceful means that nothing closed is in use, by requests or probes; shutdown ends; implements `AuditTrail` with its liveness |
| `gateway` | 2.3 M | types; implements `Admission`; a key shown as revoked, expired or deleted stays out; entries are lost only to faults and deletions |
| `dashboard` | 1.4 M | types and audit pages; sessions neither longer nor a second shorter than promised; errors exceed requests by no more than the rows in between; the chart is exact or flat |
| `exchange` | 27 k | types; the upstream gets what was judged and logged; the audit entry is what was sent; no record calls an answer good that broke off |
| `exchange_body` | violated | the upstream gets the body the client sent, as ARCHITECTURE.md:38-39 reads |

### What the violations show

- `rbac_open`: an assigned role without permissions yields the nil slice, which
  means open.
- `policy_window`: all rate_of_change policies of a key share one list of write
  times, pruned by whichever window is evaluated; a short window makes a long
  one forget.
- `exchange_body`: each reader of the body puts back at most 64 KB. A longer body
  with a Content-Length ends as a 502, a chunked one is forwarded cut off as if
  it were complete.

### Other observations

Where the code does something a reader of the documents would not expect, the
model has it and the properties are stated so that they hold:

- The wait behind Retry-After is truncated to milliseconds before it is rounded
  up to seconds, so a client that comes back exactly then can be up to 1 ms
  early (`RetryAfterWithinMs`; docs/USAGE.md:38 promises "the number of seconds
  to wait"). Nothing is set aside for it: another request may take the token.
- Rows read before an `InvalidateCache` can be stored after it and stay, although
  rbac.go:104 says it forces a reload; `RecentUnlessRaced` has the exception.
- A proxied request whose response copy aborts leaves no audit entry and is not
  counted as dropped, since the Log call is not deferred (`ProxyAborts`), although
  ARCHITECTURE.md:75 says every proxied request is captured. It is missing in the
  metrics too, although metrics.go:19 calls them "Total number of HTTP requests.",
  and the request log says 500 whatever went out (`NoFalseSuccess`). The same
  holds of a handler that outlives a forced shutdown and logs to the closed
  channel.
- When a server fails, `run` returns without clearing the ready flag
  (`ServeFails`), so a probe may still be told ready while the logger closes.
  After a signal, too, a probe is told ready until `SetReady(false)` is reached
  (`ClearReady`).
- A form expiry that does not parse makes a key that never expires
  (`FormExpiries`). Deleting a key with audit rows does nothing, silently: the
  error is dropped and only the table tells. A failed listing shows an empty table,
  which says nothing about any key; `ShownRevokedIsFinal` makes this exception.
- A failing count shows 0: 0 requests beside some errors, with a rate of 0%
  (`StatsBounded` excepts the counts, not the rate). A failing chart query draws 24
  hours with 0 (`ChartExact`), a failing permissions query a role without any.
- The page number of the audit log is shown but not used by the query
  (`queryAuditLogs`): every page has the same rows.
- Metrics keep a 1xx status that came before the answer: an error after a 103 is
  counted under 103 and not among the errors.

### Bounds, and why they are enough

- Two goroutines: every property is about a pair of requests that race, or one
  request and a change of the tables, which is an action of its own. The theorems
  cover any number.
- One key in `ratelimiter` and `rbac`: all state is per key, and keys share only
  locks. Two bucket ids: a goroutine that creates a bucket holds none.
- `MaxTime` 3 or 4 ticks with two ticks per millisecond and two milliseconds per
  second: enough for a refill, a fraction of a millisecond, an idle bucket and a
  retry. `MaxDisturb` 1: one failure or change per key.
- `policy_engine`: TTL 1, two ticks, one edit, a policy for each hour of a day of
  two: a list expires, is reloaded, is edited between load and verdict, and a load
  can be slower than the TTL. The bounds of `PolicyStaleness` and `JudgedByRecent`
  are tight there: one tick less is violated. No rate_of_change policy: those are
  in `policy_rules`, and do not matter for these properties.
- `policy_rules`: a day of three hours with a blocked span that ends at 24:00 and
  one across midnight, a window of one tick and a limit of one, three ticks, five
  lists with the rate policy before, behind and between the others. The bound
  (limit + 2 per other goroutine) is reached.
- `migrations`: three processes and three files: two losers of one race, and a
  loser that wins the next; initial databases with 0 to 3 files applied.
- `lifecycle`: a buffer of two and three requests: a full buffer and one dropped,
  or one entry in the writer's hands and two waiting; one probe, as probes do not
  affect each other.
- `gateway`: two keys and two requests, so that an entry of one key waits while
  the other is deleted; a buffer of one; lifetimes of 0 and 1 and three moments
  (the past, now, later): a key can be born expired, expire between lookup and
  check, or between listing and badge. One key handler: handlers share only the
  table, which requests and `Keygen` change too.
- `dashboard`: two roles and one permission, two log rows, five ticks with two
  to the second and the hour and four to the day: a session crosses a rounding
  and ends, midnight and an hour pass between queries, a page is full with one
  row and has a next. One new secret.
- `exchange`: body sizes below, at and above both limits (`Cap` 2, `MaxBody` 5),
  answers up to 4 in chunks of any size, hence cut at, before and after the limit.

`CHECK_DEADLOCK FALSE` where the system may stop: in `Lifecycle` the process
exits, in `Exchange` the request is over, in `Gateway` and `Dashboard` requests,
clock and rows are used up.

### Fairness

Only `Lifecycle` has liveness properties: `ShutdownTerminates` and, inside
`TrailSpec`, that accepted entries are delivered. Weak fairness is assumed of `MainStep`
(the main goroutine, never blocked but where the guard says), `WriterStep` (the
writer; an insert ends by its own timeout) and `Deadline` (the context's timer).
Not of start-up, handlers, signals or the upstream: a handler may hang for ever.

## Proofs

All theorems are checked by tlapm, none assumes more than the named assumptions
of the modules (naturals, positive sizes, `Nil` outside the other sets).

- `RateLimiterProofs`. `AdmissionBound` is not inductive: it compares admissions
  with the wall clock, while a step changes tokens and lastFill. `AdmissionInv`
  adds `Charged` for each bucket: admissions since the observation plus the tokens
  left are at most the capacity plus the refill up to lastFill, the tokens are at
  most the capacity, and they plus the refill up to now are not negative; and
  every clock read is not ahead of now. A step with an older clock takes tokens
  away and moves lastFill back by the same amount, so `Charged` survives it.
  `BucketsOwned` and `QuotaKept` have invariants of their own. `RetryHonoured`:
  the level a bucket will have at a fixed time is moved by nothing but an
  admission (`RefusalKeepsLevel`: a refusal rewrites the same level at another
  clock, forwards or backwards), and the nested roundings lose less than a
  millisecond when the promise is made (`RetrySuffices`).
- `RbacProofs`. `AgreementInv` and `RecentInv` say what a goroutine between query
  and store may hold; `TablesKept` that each statement keeps the foreign keys.
- `PolicyEngineProofs`, in three parts. *Judging.* `PassesAllowed`: the policies
  before the one a goroutine is at did not forbid its request (`PassInv`), and for
  hours of the clock the code's two comparisons deny what the interval round the
  clock forbids (`DeniesForbidden`, from `ModShift`). `OvershootBounded` counts, for a window of
  time, its entries and the goroutines that can still add one. While the window is
  open the tracker holds all its entries (`Remembered`), so whoever is let through
  saw fewer than the limit, and entries and goroutines about to record are
  together at most N - 1 over it. When it closes, those with a clock in the window
  that have yet to meet the policy (`Waiting`) can add one each: at most N - 1
  more if they are not all N goroutines; if they are, nobody has dropped an entry
  of the window, and the first of them to count still sees them all (the second
  alternative of `Counted`). `Numbered` says that a recorded entry is a new one.
  With one goroutine the bound is the limit (`LimitKeptInSequence`), so what
  `policy_window` shows needs a second policy.
  *Cache.* `CacheInv`: the cached list, and every list about to be stored, was the
  table's at a known time; `SeenGrows` carries it over steps.
  *Both.* Every step of `EngineNext` is a step of each part or leaves it alone
  (`EngineJudges`, `EngineLoads`), so all theorems about the parts hold of the
  engine (`EngineKeepsPromises`); `Linked` says that the list being judged has the
  members loadPolicies returned, and `RecentPoliciesObeyed` puts the two bounds
  together.
- `MigrationsProofs`. `MigrateInv` adds to the properties that every process has
  only recorded files behind it, that at most one open transaction holds a file
  and none an applied one, and that whoever acts on an outdated look was
  overtaken.
- `LifecycleProofs`. `ShutdownInv` relates the place of `run` to the channel and
  the writer: past the wait the writer has ended, the channel is closed only
  after the close step, and a graceful shutdown found neither a handler nor a
  probe and has closed the listener behind them (`StartInv` says what holds of
  start-up). `TrailImplemented` shows the safety part of `AuditTrail`: that
  a request is accepted once follows from its handler's state (`LoggedInv`), that
  deliveries
  are in order from `FifoDelivery`.
- `ExchangeProofs`. `BodyInv`: what is left of a buffered body is what every stage
  so far was given. `HeadInv`: nothing is out before the upstream answers, and
  then the layers' statuses are the wire's, metrics but for a 1xx, the captured
  length is that of the prefix of what was sent, and nothing is on record before
  the chain is unwound, one way or the other.
- `GatewayProofs`. `GatewayInvariant` adds to the properties that the table has
  only lost something against the rows on a page (`PageInv`: `active`, or the
  row) and that a key missing on the page that answers its deletion has none, that
  an ended key is not valid at any later time (`EndedInv`), that the
  row a late request found has expired (`LateInv`), and whose key an entry in the
  channel has (`EntriesInv`). `GatewayImplementsAdmission` maps every step: a query
  to `Check` or `Deny`, revocation, deletion and the clock to `Withdraw`, and a
  check of the expiry that fails after a query that was in time to `Deny`.
- `DashboardProofs`. One invariant per page about what the handler has read:
  the token's exp is the rounded sum, the counts are of a prefix of the rows or
  failed, and the hours' counts are exact from the first hour the chart can still
  show, or all 0. `RateBound` has the arithmetic of the error rate.

Every invariant and action property of a passing run is stated by a theorem. Only
model-checked are the liveness properties, since fairness is outside this prover:
`ShutdownTerminates`, and the liveness half of `TrailSpec`, whose safety half is
`TrailImplemented`.

## Not modelled

- `admin`, `models`, the examples: a ping, structs without operations, and
  programs that are no part of the gateway.
- Markup of the pages, the policy list and its cards, request ids, logging,
  durations in metrics and the Prometheus registry.
- The glob of `MatchPattern` (the constant `Matches` is any relation) and what
  the policies find in a body (the constants of `PolicyRules`).
- Hashes and signatures: a key's hash is its name, a cookie knows its secret.
- float64 rounding in the rate limiter (exact integers instead), and clocks that
  jump: Go's monotonic clock is used. A rate of 0 is modelled (the infinite wait
  wraps to below a second), but the retry properties are about positive rates.
- Several gateways on one database: each has its own buckets and caches; what
  they share is in `Migrations`, `Gateway` and the tables' modules.
- A restart of the gateway: memory starts empty, which is `Init`.
