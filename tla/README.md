# A verification project for NewAPI-Gateway

NewAPI-Gateway is a relay: callers hold one aggregated token (`ag-…`) and speak
the OpenAI-compatible API; the gateway chooses among the routes that several
upstream providers offer for a model, tries them one after another and passes
the answer on. Around that it keeps the providers' catalogues in step, checks
them in once a day, backs itself up and notifies its administrator.

This directory holds TLA+ modules of its concurrent core, the TLC
configurations that model-check them on small instances, and proofs for TLAPS
of what must hold on every instance. Paths below are relative to the repository.

To repeat a check: `tlc -config MCRelay.cfg MCRelay`; to repeat a proof:
`tlapm RelayProofs.tla`. `PROJECT.json` lists every run, the lines each
definition stands for, the hazards and the mutants.

## 1. Inventory

### Components, what they keep and how they interact

| component | code | state | operations |
|---|---|---|---|
| relay endpoint | `controller/relay.go`, `service/proxy.go` | one goroutine per request: plan, attempt index, validity mode, held-back lines, what the caller was sent, usage records | arrive, whitelist, plan, attempt, non-stream and stream proxying, error documents |
| provider health | `service/provider_http.go`, `model/provider_runtime.go` | health, failures and cooldown per provider | mark failure, mark success, cooldown |
| routing snapshot | `model/model_route_cache.go` | one snapshot of routes, providers and tokens, expiry, lock; two caches of metrics | look up, build, drop |
| route planning | `model/model_route.go` | tables of routes; tuning options | candidates, tiers, weights, suppression, rebuild |
| daily check-in | `service/checkin.go`, `model/checkin_run.go`, `service/cron.go` | guard, last day run, table of runs, stamps of the providers | scheduled run, run over the unchecked, single check-in |
| provider synchronisation | `service/sync.go`, `service/upstream_client.go` | providers' tokens, pricing, balance | sync, reconcile keys, create token, rebuild routes |
| backup | `service/backup_core.go`, `model/backup_*.go` | dirty mark, running flag, runs, queue of uploads to repeat | mark, schedule, run, repeat |
| restore, packaging | `service/backup_restore.go`, `…_package.go`, `…_snapshot.go`, `…_webdav.go` | archives, remote files | pack, upload, retain, restore |
| notifications, alerts | `service/notification.go`, `model/notification.go` | alert states | open, close, count failures, notify |
| usage log | `model/usage_log.go` | usage records | insert, fold, count |
| model catalogue | `model/model_catalog.go`, `model/provider_alias_mapping.go` | catalogue, aliases | resolve |
| options | `model/option.go`, `controller/option.go` | option map and table | validate, update |
| aggregated tokens | `model/aggregated_token.go`, `middleware/agg_token_auth.go` | token rows | authenticate, allow a model |
| rate limits, codes | `common/rate-limit.go`, `middleware/rate-limit.go`, `common/verification.go` | windows, codes | admit; register, verify |
| users | `controller/user.go`, `model/user.go`, `middleware/auth.go` | user rows, sessions | register, log in, manage |
| front end, set-up, files, mail | `web/`, `router/`, `main.go`, `controller/file.go`, `common/email.go` | – | presentation and I/O |

A relay request reads the routing snapshot to make a plan; what happens to its
attempts changes the health of providers, and with that the plans of later
requests. Synchronisation and the management handlers write providers, tokens
and routes and then drop the snapshot, with exceptions (section 6). The ticker of `service/cron.go` starts a
goroutine for each synchronisation, check-in and backup that is due, without
waiting for the last one. Options are read by everyone at any time.

### What is hard, and what makes each part correct

* **Relay.** A request tries several upstreams, and a stream may break at any
  line, while an administrator changes the validity mode and other requests
  change the providers' health. Correct is: one answer per call, from one
  source; nothing unusable passed on under `enforce`; each attempt recorded
  once and only the one that answered as a success; a lower tier only after the
  higher ones; a provider taken out only for not being reachable.
* **Routing snapshot.** Three queries build it, three look-ups use it, writers
  commit before they drop it, some of them never do, and a failed rebuild revives
  the old one. Correct is: what was committed before a drop is in every plan begun
  after it, what is never dropped for is missed for a minute at most while the
  database answers, and nobody waits for the lock for ever.
* **Check-in.** Overlapping ticks, an administrator, restarts, lost answers,
  midnight. Correct is: one run at a time, once a day, what is recorded as
  granted was granted, and a day is not skipped for a passing error.
* **Synchronisation.** Overlapping cycles, deletions in between, partial
  failures. Correct is: no rows of a deleted provider, no key lost that the
  upstream masks, routes only over existing tokens.
* **Backup.** Changes during a backup, lost answers, overlapping passes over the
  queue, restarts. Correct is: one backup at a time, a marked change is held by
  a package on the server sooner or later, a success is one, no package is lost.
* **Alerts.** Concurrent failures and recoveries. Correct is: an alert that is
  open has a provider that is down; a burst of failures is told, and an outage
  that somebody knows of is not told again.
* **Restoring.** Two copies over live files, errors and the end of the process between
  them, requests that unpack to one file. Correct is: the database of before is somewhere
  whole, and a restore that says it is done has put its package in place.
* **Limits and codes.** The boundary of the window, eviction. Correct is: never
  more than the limit in any window; a valid code is not evicted.
* **Accounts and options.** Handlers read a row, judge it and write it later,
  without a transaction. Correct is: an account has the role and status that were
  asked for last, the founder keeps the house key, and a way to log in is left.

The hazards are listed one by one, with their lines, in `PROJECT.json`.

## 2. Plan

Modules in the order of the importance of what they describe; those above *next*
exist.

| module | models | state |
|---|---|---|
| `OneAnswer` | the promise to a caller, abstractly: a request that came in is answered, by one source | done |
| `Relay` | the relay endpoint with providers' health and validity options; refines `OneAnswer` | checked, proved |
| `RouteCache` | the routing snapshot between plans and writers | checked, proved |
| `CheckinRun` | daily check-ins | checked, proved |
| `Backup` | dirty mark, backups and the queue of uploads to repeat | checked, proved |
| `ProviderSync` | synchronisation cycles beside the administrator's handlers: keys, clean-up, routes, creation and deletion | checked, proved |
| `HealthAlert`, `FailureAlert` | the two alerts, beside one another's goroutines and beside recoveries | checked, proved |
| `RateLimit`, `Suppression` | windows that are read and written by concurrent requests | checked, proved |
| `Accounts`, `Options` | roles, status and sessions; the options that say how one may log in | checked, proved |
| `Restore` | the steps of a restore, overlapping ones, and restarts between them | checked, proved |
| `Verification` | codes that expire and are evicted, what they bind, and the reset of a password by one | checked, proved |
| *next* | | |
| `UsageLog`, `Catalogue` | folding of the attempts of a request; resolution of names and aliases | planned |
| `Tokens` | status, expiry and addresses of aggregated tokens | last |

`Relay` keeps what excludes a route from a plan as a choice, `RouteCache` keeps
the versions of the tables a plan is made of, so each stands alone.
`ProviderSync` is one of the writers of `RouteCache` in detail, `HealthAlert`
shows the health step of `Relay` in its parts, `Suppression` one of the reasons
why a plan of `Relay` may lack a route.

The runs are kept few: modules that share no variable are checked in one
instance (`MCBeside`), and a further one joins it.

Every safety property of the runs is stated by a theorem.

Modules with proofs, and those they extend, hold no `RECURSIVE` operator.
Instances for TLC are in the `MC…` modules; mutants (forms of an action with a
plausible bug in it) stand before the definition they belong to and are used by
no specification.

## 3. Modules and code

### `OneAnswer`, `Relay`

One process per request; `pc[r]` follows `RelayHandler` (`controller/relay.go`):
`check` (whitelist of the aggregated token), `plan` (`BuildRouteAttemptsByPriority`),
`attempt` (loop over tiers and routes), `send` (inside `ProxyToUpstream` before
an answer), `stream` (inside `proxyStreamResponse`), `markFailure` and
`markSuccess` (`model/provider_runtime.go`), `done`. `plan[r]` is the list of
routes, tier after tier; `idx[r]` the attempt index; `vmode[r]` the validity
mode read when the attempt starts; `buffer`, `meaningful`, `committed` the
locals of the stream loop; `client[r]` all that was written to the caller, each
piece with the attempt it comes from (0 for the gateway's own error document);
`logs[r]` the calls of `logUsage`. An attempt ends in one of the ways the code
has: it cannot be forwarded (no record, `CannotForward`), there is no HTTP
client, a transport error, a status of 400 or more, a complete body, a stream
that is read line by line, breaks or ends. Retrying is a consequence of how it
ended, as in `proxyAttempt`. `OneAnswer` knows only a phase and a source per
call; `Promise` in `Relay` maps one to the other.

### `RouteCache`

The tables are counters of commits. A plan asks three times
(`FastPath`, then if needed `Lock`, `Query` for each table, `Store`), may find
that a query fails and revive the old snapshot (`QueryFails`) or read directly;
a writer commits (`Save`, or the two deletions of `ProviderToken.Delete`, which
are not a transaction) and then drops the snapshot under the lock
(`Invalidate`). Three commits are followed by no drop of their own: the proxy switch,
which the handler writes itself after `Provider.Update` has dropped the snapshot
(`UpdateProvider`, `SwitchProxy`), the first half of a token's deletion when the
second fails (`DeleteTokenFails`), and each table of a restore (`RestoreTable`).
`floor`, `settled`, `wrote`, `undropped` and `overdue` are bookkeeping for the
properties: `settled` is what was committed when a writer last dropped the snapshot,
`undropped` the commits since then that no drop will follow, `overdue` those of them
that the snapshot has expired after.

### `CheckinRun`

A task is a goroutine of the ticker or of a management request; `task[g]` holds
its place and its locals. `guard` is the channel of capacity one, `rows` the
table of runs that outlives the process. `Query` precedes `Acquire` as in the
code, `Insert` precedes the requests to the providers, `Stamp` is separate from
`Ask`. `Crash` empties the memory and keeps the rows.

### `Backup`

`changes` numbers the commits of the handlers that call `MarkBackupDirty`;
`unmarked` are those between commit and mark. `Minute`, `Look`, `DecideEvent`
and `DecideOther` are `EvaluateBackupScheduleIfNeeded` with the lock released in
the middle and the `return` that leaves the queue waiting. `job[t]` is the
goroutine with trigger `t` in `TriggerBackupNow`: `begun` (flag up), `recorded`
(row inserted), `packed` (snapshot and package), `sent` / `unsent`, `queued`,
`ended` (`finishRun` done, flag still up). `pass[w]` is a goroutine in
`ProcessBackupRetryQueue` with copies of the rows it fetched; it writes the
copies back whole. Its statements, and those of `finishRun` and
`enqueueBackupRetry`, may fail; the code drops their errors and goes on, and so do
`SaveDone`, `Settle`, `SaveFailure`, `FinishRun` and `Enqueue`. `stored` is the
server, `files` the disk; `unsaved` is the history of the rows whose "done" could not
be written. `Restart` empties the memory.

### `ProviderSync`

`task[k]` is a goroutine of the ticker or of a management request, all on one
provider: `list` (a page of `fetchAllUpstreamTokens`), `lookup`
(`reconcileProviderToken`), `find` and `write` (the two statements of
`UpsertProviderToken`), `clean` (`DeleteProviderTokensNotInIds`), `read` and
`commit` (`RebuildProviderRoutes`); a creation puts `before`, `make` and
`identify` around them, a deletion is `gone`, `unroute`, `unrow`. `upstream` is the
other side, where tokens come and go by themselves. A row is the token it stands
for, its place among the rows of that token, and whether it holds a usable key.
`blind`, `shared` and `moved` are bookkeeping for the properties: the look-up
failed, another has written the row since, the upstream has changed since the
list was begun.

### `HealthAlert`, `FailureAlert`

`HealthAlert` takes `markProviderHealth…` apart: an attempt judges by the object of
the snapshot that it shares with others (`heap`), a synchronisation by one of its
own; `look` reads `wasUnreachable`, `commit` is the UPDATE, `copy` the fields of the
object and the drop of the snapshot, `alert` and `create` the two statements on the
alert row, `notice` the goroutine that notifies. `FailureAlert` is
`EvaluateRequestFailureAlert`: a record takes its time (`Stamp`), is inserted, and
then its window is counted, the row of the alert read, judged and saved. Records
come late, and no transaction holds the steps together. `written` and `fired` are the
times of the records and of the notices, in the order in which they were made.

### `RateLimit`, `Suppression`

`RateLimit` has both limiters behind one switch: `Request` and `Clear` are atomic,
under the lock of `InMemoryRateLimiter`; on Redis each call is a step, the key
expires by itself and errors are ignored as in the code. `passed` keeps the times at
which requests were let in, in their order. Memory counts whole
seconds, Redis parts of them. `Suppression` computes, as
`loadRouteInvalidResponseSuppressionByTokenModel` does, until when a route is left
out of new plans, while requests planned before go on and write their records
late; `logs` are these records, each with its route, its time and what it says.

### `Accounts`, `Options`

In `Accounts` `handler[k]` is a request between what it has read and what it
writes; `asks` are the fields its caller wants changed, `copied` says that the
others were read and will be written back, `old` that they have changed since.
`session[u]` keeps the role of the login, as the cookie does. `asked` is the history
of acknowledged requests. In `Options` a request is judged by the copy in memory
(`Accepts`), creates the row, saves it and sets the copy; `Restart` makes the copy
from the table. `overlapped`, `unsure` and `halved` name the races and faults that
the code leaves open.

### `Restore`, `Verification`

In `Restore` a request goes through the places of `restore[k].at`: it opens the
file it unpacks to (`Open`), fills it, checks it and removes it, then does the
same once more (`again`) before `copyFile` runs twice, each time as a read with
the truncation (`SaveDatabase`, `SwapDatabase`) and a write (`Saving`, `Swapping`).
A file that was removed while it was written has no name any more (`unlinked`).
`before` and `mixed` are bookkeeping: the database that was last read to be saved,
and whether two requests were in their copies together. `Verification` has the
map as `pairs`, one entry per purpose and address; a handler that presents a code
looks it up (`Accepted`), then writes an address or a password, and a reset then
deletes the key. `latest`, `deleted`, `spent`, `respent`, `shared`, `rewritten` and
`doubled` are history.

`MCBeside` bundles these eight for TLC. They share no variable; `moving` names
the one that moves, and the others stay at their initial states, so the states of
the instance are the sum of theirs and not the product. Its view (`MCView`) looks only
at the part that moves, and counts how many goroutines of a kind are at the same place,
which is what symmetry would do, and how many records there are of each kind, since
nothing asks for their order; objects of the health heap are told apart by what they
say and who holds them. The types are in the view for TLC's sake alone: with them it has
every function in full. No temporal property is checked with the view.

## 4. Runs

"Passes" means that TLC explored the whole state space of the instance.
"Violation" runs check one statement of a document or a test that the code does
not keep; the finding in `PROJECT.json` quotes it.

| run | instance | shows |
|---|---|---|
| `relay` | 1 request, 3 routes in two tiers, 2 providers, streams of up to 2 lines, three modes, switched between any two attempts, an alias and a refused model; or 2 requests, 2 routes, 2 providers, 1 line | `OneSource`, `EnforcedAnswerHasOutput`, `AttemptsRecorded`, `SuccessIsTheAnswer`, `DowngradeAfterTierFailed`, `UnreachableHasEvidence`, and that `OneAnswer` is implemented, its liveness included |
| `relay_readme` | 2 requests, 2 routes, 2 providers, 1 line | violation: an explicit upstream failure does not end the request (README.md:294) |
| `relay_rollback` | 1 request, legacy switch | violation: the switch of the rollout checklist has no effect |
| `route_cache` | 2 plans, 2 writers, 2 commits (`MaxCommits`) | `StaleOnlyWhileWriting`, `PlanSeesSettledWrites`, `EveryoneGetsThrough` (with fairness) |
| `checkin` | 1 provider, 2 days, 1 tick, 1 administrator, 2 faults or restarts | exclusion, truth of what is recorded, once a day; with fairness, the run of the day happens and the guard is given back |
| `checkin_twice` | 2 overlapping ticks | violation: the run of a day may be done twice (the test's "no duplicate cron run") |
| `provider_sync` | 1 cycle, 1 request of an administrator of any kind, 2 tokens, pages of one token, 1 fault or whim of the upstream | `RowsKept`, `CleanupTakesTheGone`, `IdentifiedIsOwn`, and with fairness `Converges` |
| `beside_the_relay` | for each of eight modules two or three goroutines, see below | `HealthTold`, `BurstToldOnce`, `LimitKept`, `InvalidBounded`, `LastWordKept`, `LoginLeft`, `RestoreReversible`, `CodesKept` |
| `one_account_per_address` | 2 accounts, 1 mailbox, 1 request at a time | violation: a second account is bound to an address, since the code is not asked about again (controller/user.go:642) |
| `backup` | hybrid mode, 2 changes, 1 backup by schedule or hand beside those by event, 1 pass, 2 faults (failing calls, statements or restarts) | exclusion, `ChangesBackedUp`, `SuccessIsStored`, `PackageKept`, `DoneStaysDone` |
| `backup_live` | event mode, 1 change, 2 passes that may overlap, a retry of each package, and 2 faults, or 1 and a backup by hand (`MaxTogether`) | every queued upload settles, every mark is followed by a success (or a restart), a stale copy of a row loses no package (`QueuedNotLost`) |
| `backup_retries` | 3 faults | violation: one retry more than `BackupMaxRetries` (docs/CONFIGURATION.md:99) |

### Bounds, and why they are enough

* Requests meet only in the health of providers, and there a request reads what
  another wrote: two requests have every such encounter. In `MCRelay` the second
  request comes in only while the first is within a smaller instance, which neither
  then leaves (`TwoOrLarge`); every request can still end there, so that the fairness
  remains one that the instance can meet. The mode is switched, and a cooldown ends, only
  where the next step of some handler reads it (`SeenAtOnce`): `StartAttempt` alone reads
  the mode and `BuildPlan` alone whether a cooldown is over, so that an earlier change is
  no different. Inside one request
  three routes give a tier of two and a lower one of one, so that "first of a
  tier", "next of a tier" and "next tier" all happen; two lines give every order
  of output and noise around the moment a stream is committed.
* Two writers and two commits, to one table or to two, let a commit fall before,
  between and after the three queries of a build, the other writer's commit and its
  invalidation; the second may be the proxy switch that follows an update, or the
  one whose invalidation drops what the first has left behind.
* Two days give an answer before and a stamp after midnight; two ticks overlap,
  three would do the same to each other in pairs.
* Two changes let one be held by a backup while the other comes too late for it;
  two faults let an upload and its repetition fail, or a restart follow a
  failure, or the row of a repeated upload stay unwritten. In `backup_live` one backup
  by hand is enough to have each event backup find the flag up, or its mark cleared;
  it takes the place of one of the two faults. `MaxRuns` is derived, so that the rows
  never run out.
* Two tokens on pages of one give a list of more than one page that may change
  between its pages, and a token beside the one that is being created; one
  request beside the cycle meets it at every step, and one fault is enough to make
  each step the one that fails.
* `beside_the_relay`: health has two attempts and a synchronisation without faults,
  or an attempt and a synchronisation with one failing statement. Failures: three
  evaluations, four records (`MaxLogs`), a window of 2 in a time of 4, so that an
  alert opens, closes and opens again, and one failing statement. Rate limits: two
  requests at once, a limit of 2 in 2 seconds of 2 parts each and a time of 6 parts
  (`LastPart`), a request in the limiter for at most one part (`Patience`), and keys that expire
  with the window, the shortest time that the named assumption allows. Suppression:
  one route, two requests, 6 records (`MaxRecords`) in 4 minutes (`LastMinute`), so that windows fill, age
  and recover. Accounts: the founder and another, two requests, 4 acknowledged
  changes (`MaxWrites`), enough to create, promote, outdate a copy and write it back. Options:
  two requests at once out of 5 (`MaxUpdates`), and restarts at any time. Restores:
  two requests and two packages in one directory, failing at any step. Codes: one mailbox
  with both purposes and a map that is full with one entry, so that every second code trims it,
  three codes, two requests, two accounts, codes valid for 2 in a time of 3. The
  proofs hold for every number.
* Faults and restarts are bounded by a budget, and nothing else forbids them at
  any point.

### Fairness

Only what the code's surroundings give: a goroutine that can take a step does
so (weak fairness per request, plan, task, backup and pass), since the HTTP
clients have time limits (five minutes for the relay, 60 seconds for WebDAV) and
Go's mutexes starve nobody; the ticker of `cron.go` goes on ticking. In `Backup`
a row of the queue becomes due at some time and stays so until it is fetched:
strong fairness for "a pass fetches row n".
In `ProviderSync` the client's time limit keeps goroutines going, and the ticker starts
another cycle whenever the last one is over; administrators and the upstream owe nothing. Nothing is assumed about upstreams,
administrators, faults or restarts. In `Backup` a pass over the queue has a
bounded number of slots: an evaluation that would start one more waits.

## 5. Proofs

| module | is about |
|---|---|
| `RelayProofs` | `Relay`, and that it implements `OneAnswer` |
| `RouteCacheProofs`, `CheckinProofs`, `BackupProofs`, `ProviderSyncProofs` | the module of that name |
| `UserProofs` | `Accounts` and `Verification` |
| `AdminProofs` | `Options`, `Restore` and `RateLimit` |
| `BesideProofs` | `HealthAlert`, `Suppression`, `FailureAlert`; the types of all of `MCBeside` |

They hold for every value of the constants that satisfies the named `ASSUME` of the
module, which says only that the constants have the right shape (finite set of
routes, priorities that are integers, disjoint sets of goroutines, a window longer
than nothing, …).

* **Relay** (`IInv`). No property is inductive by itself: that a success is the
  last record needs to know that the handler is past its last attempt, that the
  answer has output needs the link between `committed`, `meaningful` and what
  was written. `IInv` says per request what the handler knows at each `pc`
  (`Progress`, `Answering`, `Streaming`, `Recorded`), and one shared fact
  (`UnreachableHasEvidence`). A step of one request leaves the others alone
  (`LocalFrame`), so one lemma per action shows `Local` of the request that
  moves. `DowngradeAfterTierFailed` follows from plans being sorted and records
  being gapless. `AnswersAsPromised` maps every step to one of `OneAnswer` or to a
  stutter: a step that writes to the caller is its head, a further piece or its end,
  and the source is the attempt the pieces come from (`StepRefines`); that a plan
  is no longer than there are routes (`PlanFits`) keeps the sources in range.
* **Routing snapshot** (`CacheInv`, `Renewing`). The builder owns the lock, so a writer
  that drops the snapshot drops all there is. Until then both the snapshot and
  the part built so far miss only commits that are *covered*: their writer is still
  to drop it, or has returned without. Frame lemmas carry that over each step. For
  the second kind `Renewing` adds that nobody builds beside a fresh snapshot, so that
  what is built after an expiry holds every commit that is overdue.
* **Check-ins** (`CheckinInv`, `OncePerDayInv`). The first ties the guard to the
  one task in a run and the row of that task to the answers so far. The second
  adds, for one tick at a time, that until a tick inserts its row all scheduled
  rows are of earlier days; `CronOncePerDay` is proved under that assumption,
  and `checkin_twice` shows that it fails without.
* **Backup**, in four layers, each resting on the ones before. `TypeInv` adds to
  the types what the labels say of the locals, and that a pending row still has
  a retry left; that `Row(w)` is a row of the pass needs a smallest number in a
  set, which comes from the well-foundedness of finite subsets
  (`SmallestExists`). `Exclusion` is the flag and the one active backup.
  `StoreInv` says what a backup and a pass know (`JobKnows`, `PassKnows`) and
  what the tables say of the disk and the server (`RowsTrue`): a run has no row
  in the queue until it gives its package to it, so a pass that settles another
  run never takes the package away from a backup, and nothing that is queued is
  lost even when passes overlap. `ChangeInv` adds that a backup past its
  snapshot holds every change that has been marked and is not excused, which is
  what makes it right that its success clears the mark. `PackageKept` and
  `DoneStaysDone` hold only while passes over the queue do not overlap, and are proved
  for one pass at a time, which is how `backup` has them: then the copies of the rows
  that the pass holds are what the table holds (`QueueInv`), and it writes nothing
  back that is older; of the row it has just uploaded it knows that it is done, or is
  pending because it could not be written.
* **Synchronisation** (`SyncInvariant`). Nothing keeps goroutines that work on one
  provider apart, so the invariant says of each what it knows: that what it is
  about to write holds the key of the row it replaces, unless its look-up failed or
  another has written since (`KeyHeld`); that while no token comes or goes the pages it
  has read are the newest tokens and at the end all of them (`PagesRead`), which is why a
  clean-up takes only those that are gone, and needs that tokens have ranks without a
  gap; and that a token it has made was not in the list it asked for before (`OwnIsNew`). `RowsKept` and
  `CleanupTakesTheGone` are action properties that follow from it.
* **Health** (`HealthInvariant`). Between marks the object of the snapshot says what
  the table says (`SnapshotTrue`). Who knew of an outage when it began its attempt works
  on an object that says so, which is why it cannot see the outage begin (`Knowing`).
  `Untorn` gives, for each place a lone mark may be at, what the row, the alert and the
  last notice say (`Midway`). `Holding` and a count of the objects show that a
  goroutine at rest always finds a free one.
* **Rate limits** (`MemoryInvariant`, `RateInvariant`, `RedisInvariant`). In memory the times kept are
  those of the last requests, and a request that was forgotten although it is among the
  last was let in longer ago than any span (`KeptAreLast`, `ForgottenAreOld`); the rest
  is arithmetic of whole seconds. On Redis the list is longer than the limit only by
  requests at work: the time that a request will add is counted as soon as it finds
  room, and one that found the list full trims what it adds (`ListShort`).
  How much a span on Redis lets in is not a matter of the list alone. A request that
  was at work when the span began pushes a time of before it, which may stand behind
  times of the span; when it comes to the front of the list, everyone who looks then is
  let in. `BoundedAt` keeps, for every span that is not over, the places of such times
  (`Placed`), what they may let in yet (`Allowance`), and sums over the
  list and the requests at work (`Sums`) that every step preserves. A key that expires is
  a second source: it can do so only before anyone let in since the span began has
  prolonged it, and so once. When a request is let in, the sums of the span that began
  with the one a limit and `Excess` before it show that this span is over (`LimitStays`).
  With n requests at work `Excess` is n² − 1 (1 for a single one); a bound of 2n − 1,
  which is the same for the two of the run, does not hold for three. It takes no
  condition on how long a request is in the limiter (`Patience`), only that no call to
  Redis fails.
* **Suppression** (`SuppressionInv`). A bound on what is written is not inductive,
  since requests that were planned before go on. `Bounded` counts with the invalid
  answers of a span those that requests at work may still add to it, each request
  once. The step that matters is a plan: a route in it was not suppressed, so its
  window holds less than the threshold, or its last invalid answer is out of the span, or it
  has recovered (`PlannedHasRoom`).
* **Failure alert** (`FailureInv`). A burst is told of or some evaluation at work will
  find it (`BurstsCome`), whoever finds the alert open finds its spell told of
  (`OpenIsKnown`), and while evaluations follow one another the row is of the last
  failure and each spell told of once (`Once`). Records that come late join spells and
  never part them (`SameGrows`), so that what was told of stays so.
* **Options** (`OptionsInvariant`). `LoginLeft` says nothing of a request that
  has been accepted and has not yet taken effect, so the invariant does: requests
  that switch a method off at the same time all switch off the same one unless
  they have overlapped, and the other one is on until a request that switches it
  off is accepted (`OffsAgree`, `OtherOn`); and what is in memory is what a restart
  would load, or a request on its way will set it (`SomeOn`, `Agree`).
* **Accounts** (`AccountsInvariant`). Per request, `Sound` says what it would write
  if it wrote now: a copy that is not old agrees with the row, another one writes
  only what it asks for, and neither touches the founder, because no session is
  above it. `GoneAsked` and `FounderStays` carry deletion and the founder over every step.
* **Restores** (`RestoreInvariant`). Two facts that do not meet: a request that no
  other has been beside has the payload, the copy and the database to itself
  (`Lone`), whatever happened earlier; and until two have copied together, what the
  one that copies has left says where the database of before is (`Kept`).
* **Codes** (`CodesInvariant`). That a spent code is gone from the map needs that a code
  is for one key, in the map and with those that present it (`OneKey`), and that
  new codes are new (`Numbered`). `LastHeld` is `CodesKept` without the look-up. That a
  code writes passwords once needs that a code which several did not present at once
  is with one request at most, and with none once it is spent (`SingleUse`).

The type invariants of `RouteCache` and `CheckinRun` are proved and no longer
among the properties of their runs.

Least and greatest numbers of a set, which several of these arguments need, come from
`<` being well-founded on the natural numbers (`NatMin`, `GreatestUpTo`,
`SmallestExists`), since an induction over data is not open to the provers.

Model-checked only: all liveness (`PromiseKept` with its fairness,
`EveryoneGetsThrough`, `CronRunHappens`, `GuardReleased`, `RowSettles`,
`DirtySettles`, `Converges`), which is out of the prover's reach.
`PendingPackagesStay`, `SettledRowsStay`
and `CronOncePerDayHolds` are under the named restriction to goroutines that do not
overlap.

## 6. What the code does not promise

The properties except these cases by name, since the code allows them and the
repository says nothing against them:

* `UpdateProvider` commits the proxy switch after the snapshot was dropped, and an
  administrator's answer follows without another drop (`controller/provider.go:405`):
  a plan that rebuilds in between keeps the old switch in use until the next drop or
  for a minute, longer only while queries fail. Turning the proxy off is written
  nowhere else. The same holds for a restored backup, and for the routes of a token whose
  deletion fails half way (`undropped` in `RouteCache`). The guide of the form
  (`docs/provider-form-guide.md:48`) does not say from when on a switch holds.
* Two evaluations of the failure alert that overlap may both send a notice
  (`crossed` in `FailureAlert`).
* An attempt that judges by a stale object, or two marks that overlap, may send
  an outage's notice twice or not at all, and leave the alert row wrong until the next
  mark (`torn` in `HealthAlert`).
* A handler that writes a whole row back undoes a change made since it was read
  (`rolledBack` in `Accounts`); `DeleteUser` says yes when the statement failed
  (`swallowed`).
* Two overlapping requests may switch off both login methods (`overlapped` in
  `Options`); GitHub's client id may be emptied while its switch is on.
* On Redis, requests at work at the same time pass together, once more for each of
  them that was at work before the span began, and a burst may start anew when the key
  expires under them: with n at work, n² − 1 more than the limit (`Excess` in `RateLimit`).
  In memory the span that is kept is up to a second shorter than the duration.
* A synchronisation whose look-up failed, or that another has overtaken, may write
  a row without the key it had (`blind`, `shared` in `ProviderSync`).
* A restart between the two statements that save an option for the first time leaves
  its row empty, and a switch that was being turned on is off (`halved` in `Options`).
* Overlapping restores may copy a database that is cut over the good copy
  (`mixed` in `Restore`). The exchange is called atomic in a comment
  (`backup_restore.go:176`) and is two copies: until the second is written the
  database is whole only beside its place.
* A reset that is answered deletes whatever code its address has by then
  (`deleted` in `Verification`). Of two resets that present one code before either is
  answered both write a password, the later one after the first was answered, so that
  the password of the first answer does not hold (`shared`).
* A package that a pass has uploaded leaves the disk although its row could not be
  marked "done" (`backup_core.go:282`, `:289`): the row is tried without a package
  until it is given up. The package is on the server (`unsaved` in `Backup`).
* A restart in a check-in run leaves the day's remaining providers unasked until the
  next day, as the row of the run keeps it from being done again
  (`checkin.go:248`).

## 7. What the models leave out

* Contents: bodies, prices, weights, texts of errors; a line of a stream either
  carries output or does not.
* The metric caches beside the routing snapshot.
* In `Relay` health changes in one step; its parts are in `HealthAlert`, for one
  provider. The fields of a `Provider` are written there in one step too, although
  attempts share it without a lock.
* Delivery and wording of notices, and the fields of accounts other than role and
  status: names, passwords, bound identities; of an address `Verification` keeps only whose it is.
* The shapes of options other than the login methods' and the validity mode's:
  they are judged by their text alone, and their readers take them as constants.
* Quotas and groups of the upstream's tokens: a token of `ProviderSync` has one
  group, which is priced or not.
* The retention on the WebDAV server, the formats of packages, restoring MySQL and
  Postgres, and whoever else uses the database while it is restored: the runbook keeps
  them off (`docs/BACKUP_DR_RUNBOOK.md:41`).
* `Backup` excuses two kinds of change from being held by a package: one that is
  marked while a backup that does not hold it is past its snapshot (its success
  clears the mark, `backup_core.go:164`), and those of before a restart (the mark
  is in memory). Both are what the code does; no document promises otherwise.
* The check-in that an administrator starts is called the full one in README.md:202
  and goes over the unchecked providers only (`controller/provider.go`); the
  model follows the code.
* Components listed as not modelled in `PROJECT.json`, with the reason there.
