# Tug in TLA+

Tug is a web framework for Go: an app is one binary, of which several
instances may run on one database. These modules specify the parts of it where
what goes wrong goes wrong between steps: its job queue and the queue's tables
in Postgres and MySQL; its sessions; the cache's flights and locks; broadcasts,
their polling in MySQL, and who's present; the throttle of logins; migrations;
and how an app shuts down, with the Node that renders its pages. What's left of
the system is listed below, and why.

| module | what it is |
|---|---|
| `JobStore` | the Store of package queue: one operator per call |
| `JobRuns` | what a Store promises of the jobs its claims hold |
| `Queue` | the instances that push to it and run jobs from it |
| `JobClaims` | what a Store promises of claims made at once: one step each |
| `SqlClaims` | the claims of Postgres and MySQL, of several steps each |
| `Session` | the requests of one browser, and the session they share |
| `Clock` | the time that passes in those that follow, but for Hub, Migrate and Serve |
| `CacheStore` | the rows of package cache, in memory or in the table |
| `Cache` | Remember's flights in each instance, and its rows between them |
| `Mutex`, `Lock` | what a lock promises, and cache.Lock |
| `Throttle` | the tries of one key, as logins count them |
| `Hub` | what's published, the hubs that hand it on, the pages that follow |
| `Listening` | MySQL's poll of the broadcasts table |
| `Presence` | who's on a channel: entering, leaving, leases |
| `Migrate` | Up and Down by several processes, on three databases |
| `Serve` | the servers and the work of an app, and Node beside it |
| `MCQueue`, `MCSqlClaims`, `MCSession`, `MCShared`, `MCApp`, `MCPresence`, `MCMigrate` | small instances, and the functions their .cfg files name; `MCx_y.cfg` is run y |
| `JobStoreProofs`, `QueueProofs`, `SqlClaimsProofs`, `SessionProofs` | what is proved of the queue, its tables' claims, and sessions |
| `SharedProofs`, `BroadcastProofs`, `MigrateProofs`, `AppProofs` | what is proved of Lock, Throttle and Presence; of Hub and Listening; of Migrate; of Cache and Serve |

`PROJECT.json` lists components, runs, mutants, theorems and hazards, and maps
each definition to the source. `tlc -config MCQueue_claims.cfg MCQueue` checks
one run; `tlapm QueueProofs.tla` checks the proofs of a module.

## The system

### The job queue (`queue/`, modelled in part)

State. The Store keeps jobs (due time, attempts, until when a claim holds it,
a unique kind's key, failed or not), the latest run pushed of each schedule,
and until when a rate holds a kind back. `Queue` keeps, in each instance,
handlers, schedules, a wake channel of one token, the slots of its workers
and `pushed`, the run of each schedule it pushed last.

Operations. `Kind.Push`, `PushAt` and `In(...)`; `Kind.Schedule`; `Run`, whose
loop pushes schedules, takes a slot, claims a job and starts a worker;
`Drain`, which does so one job at a time; `run`, a worker's: rate, handler,
then Done, Retry, Fail or HoldBack, then OnFail and a poke; `Wake`; the
starter's `jobs retry`.

Interaction. Instances meet in the Store alone. In an instance the loop and
the workers meet in the slots, the wake channel and the jobs' context.

What is hard. A claim only *holds* a job: a worker that's slow or dead loses
its hold, another claims the job, and the first may still report. Stores fail
before or after they've done what they were asked. The time is read before
the call it's for. Instances push the same schedules, restart, and may be of
two builds. Limits (OneAtATime, AtOnce, Rate) hold across instances. `Run`
sleeps until it's poked, and must return though handlers don't.

What makes it right: a job is one worker's while its hold lasts; the limits
hold; a value pushed is run after its push; each run of a schedule is pushed
once; no job is slept on; every job ends; `Run` returns.

### The starters' jobs tables (`cmd/tug/*/jobs_db.go.tmpl`, modelled in part)

State. The tables jobs, schedules, held_kinds and job_locks of a new app's
database. Operations: the Store's calls, in SQL; jobs retry; a nightly prune.

What is hard. SQLite has one writer, and each call is one statement. Postgres, by
its default, and MySQL, as mysql/db.go.tmpl:106 sets it, run transactions at
READ COMMITTED beside each other: a claim reads a
snapshot, takes the first row no other has locked, and then can't know what
others, who haven't committed, are about to hold. So it locks a row of
job_locks, and looks again; and may find it has to start over.

What makes it right: a claim is still what `Store.Claim` promises, one step;
the limits hold; claims end.

### Sessions (`session/`, modelled in part)

State. The values of a session, its login among them, and what was flashed,
are in the browser's cookie, or in a row a Keeper keeps under an ID that the
cookie carries. A request has its own copy, a `Session`, from when it comes to
when its response starts.

Operations. The Middleware's load and save; the calls of a handler between
them: values, flashes, SetLifetime, Pass, Reflash, Rotate, Clear; `auth.Login`;
the starter's sessions table, and its hourly prune.

Interaction. Requests of one session meet in the cookie and the row alone:
there's no lock, and a save writes all of it.

What is hard. Requests of one browser run at once. A rotation is three writes,
the new row, the old one's deletion and the cookie, of which any may fail or
be lost. The row isn't written as often as the cookie goes out. A flash must
be shown once, though a partial reload comes beside the page it's for.

What makes it right: a request finds the session as the last response left
it; an ID that was logged out is no session; the ID from before a login isn't
logged in; a flash is shown once.

### The cache (`cache/`, modelled in part)

State. Rows of a value and when it expires, in a map or the starters' table;
in each instance the flights of Remember, by key; a lock is a row whose value
is its owner's. Operations: Get, Set, Add, Delete, DeleteIf; Remember; a
Lock's Try, Wait and Release; the hourly prune.

What is hard. Callers join a flight, which its caller takes out of the map
before it closes its channel; fn may return an error or panic with others
waiting, who then each work the value out; a Delete may come between what fn
reads and the Set of what it returned. A holder's time may run out, and another
hold the lock, before the first lets go; Try's clock is read before the store
acts on it.

What makes it right: fn runs once at a time in an instance; everyone who asks
is answered; what Delete dropped isn't given again; one holder has a lock while
its time lasts, and none takes it from another.

### Broadcasts and presence (`broadcast/`, modelled in part)

State. A Hub has subscribers, with room for 16 events each, and a Store that
listens: a connection (Postgres), a poll (SQLite, MySQL). A page has an
EventSource. Presence is rows with leases, by a key for each page.
Operations: Publish, deliver, Run, Subscribe, Enter and what it returns to
leave, keepHere, Here, the prunes.

What is hard. A subscriber that's behind is closed; a listener is lost with
what's on its way to it; a stream's header is sent before its handler
subscribes; a page may reload beside all of it. MySQL's IDs come in another
order than they were handed out, late, or never. A member has several pages,
on several instances, of which one is killed and keeps no lease.

What makes it right: no page misses an event in silence; an event is handed on
once; a page that's open is on its channel; a page shows who's there, unless
the channel couldn't be told.

### The throttle (`auth/throttle.go`, modelled in part)

State: a key's tries, and when their window ends. Try counts before the
password is checked, Clear forgets as a login succeeds. Hard: tries at once, by
clocks read before the row is; the end of a window, in the table's whole
milliseconds. Right when no more than Max tries are let in a window.

### The app's life, and Node (`app.go`, `stream.go`, `ssr/`, modelled in part)

`Serve` runs servers and what `Go` was given, and shuts all of it down as any
fails or it's told to stop; `ssr.Server`'s Run starts Node, waits for it to
answer, starts it again as it exits, and stops it. Hard: what stops whom, what
fails during a shutdown, a Node told to stop as it begins to answer. Right when
it ends once its work heeds its context, and nothing of it runs on.

### Migrations (`migrate/`, modelled in part)

Up and Down under the Store's lock, in a transaction each, or in MySQL a
statement at a time, with the row saying which is under way. Hard: the
instances of a deploy of which one is older; an older file that a branch merges
after newer ones ran; a kill, a lost answer or a lost lock between two
statements; mending by hand. Right when the record says what was done, a
version's migrations run in its files' order, and none begins beside a file
that changed.

### What is not modelled

- **storage/**: a local file is written by a temporary name and a rename, one
  step as others see it; S3 is requests to a service, and their signatures.
- **internal/devtools**: a bounded record of requests, whose oldest goes: one
  structure under one mutex, which nothing but the tool's page reads.
- **mail** and its mailbox: rendering and I/O; the retry is the queue's.
- **Routing, binding, forms, validation, pages, inertia**: functions of a
  request over tables frozen before the app serves. They're most of the code by
  lines, and have no step another can come between.
- **middleware, crypt, lang, vite, letsencrypt**: formatting, cryptography,
  and files read at start.
- **auth** beside Login's session and the throttle: passkeys, codes and tokens
  are cryptography and single statements.
- **cmd/tug**, **site**, **bench**, **examples**, **docs**: programs that
  generate and run other programs, and text.

So the map covers a small share of the repository's lines, though most of those
where steps of several actors meet.

## How the modules go together

`Queue` and `JobClaims` extend `JobStore`; `SqlClaims` extends `JobClaims`, which
it implements with the identity for mapping. `Queue` implements `JobRuns`, which
knows no holds, attempts or times: under the mapping `RowsSeen` and `RunsSeen` it
sees the rows, and who runs what, the workers whose holds last. `Cache` and `Lock` extend
`CacheStore`; `Lock` implements `Mutex` under the mapping of the row and the
holders' times to who is in. `Serve` composes the app with `ssr`'s Run, which is
one of its work. `MCShared` and `MCApp` put modules that share no state but a
clock in one run, of which a behavior is of one (`part`): each part's actions
and properties are those of its module alone, which is proved (`SharedParts`,
`AppIsBoth`).

Still to do, in order: SQLite's table in `SqlClaims`, whose calls are now those of
`JobStore`; SQLite's and Postgres's Listen beside `Listening`; then devtools.

## How Queue stands for the code

Every call of the Store is one step, as it's atomic under `queuetest.Memory`'s
mutex and in one statement of SQLite. What an instance reads before a call
(the time of a claim, the schedule's `now`, the attempts of its claim) is kept
in `loop[i]` and `work[w]`, and other steps come between.

| state | in the code |
|---|---|
| `jobs`, `last`, `schedules`, `heldKinds` | the fields of `queuetest.Memory`; the starter's tables |
| `clock` | what `q.now()` answers, on every instance |
| `loop[i]` | where `Run` or `Drain` is, `now` and the schedules still to look at |
| `told[i]` | `Run`'s ctx is done |
| `wake[i]`, `pushed[i]` | `q.wake`, `pushed` |
| `work[w]` | a goroutine of `running.Go`: its claim, its step, how the job went |
| `owed`, `covers` | history, which no guard reads: values pushed with no run since that succeeded |

`Start`, `Stop` and `Exit` are a process's life: `Exit` empties what it had in
memory, at any step. `PushRun` to `Return` are the loop. `RateAllows`,
`RateRefuses` and `RefusalLost` are `held`; `HandlerReturns` and
`HandlerHangs` are `call`; `Report` is `run`'s switch, with the poke that's
deferred, and `OnFailReturns` comes after it; `ReportLost` is its store's
failure, before the write or after. An `Instances` member in `Drainers`
drains; `Knows[i]` is what a build has handlers for; a Drain's error from the
store makes it return.

A claim that's given its job reads the clock for the next one in the same step
(`Claim`'s `Top`): a claim that comes a tick later, by the same `now`, reads the later
time. `RefusalLost` is a HoldBack that failed before it held its kind, or after.

Abstracted: a payload is one of `Keys`, and a unique kind's key is its
payload; every kind has the same `Attempts`, and its `Backoff` is any of
`Backoffs`; the longest Timeout and the margin are `HoldFor`; a schedule is an
`Every(Period)`; a limiter refuses or lets a job start as it likes. Nothing in
the code makes a handler end before its hold does, so a run may outlast it in
the model as well.

Not in the model: carriers and Observe, which change no state of the queue;
prune, which deletes jobs that failed a month ago; cron expressions; a Wake
with no push; panics of `Handle` and `Schedule` as the app starts. Instances'
clocks agree: with clocks that differ by more than the margin, holds promise
nothing. An id isn't given out twice, which SQLite, without AUTOINCREMENT,
may do after the last row is deleted.

## How SqlClaims stands for the code

`JobClaims` says what `Store.Claim` promises: `Take` is one step, of a job that
is due by the claim's clock and within the limits at that moment. `SqlClaims`
extends it, so both have the same rows (`jobs`, `heldKinds`, those of
`JobStore`), the same clock and the same claims returned (`given`), and adds
the transactions: `txn[c]`, where goroutine c's `claim` is and what it saw, and
`locks`, the rows locked. The refinement mapping is the identity: `SqlSpec`
implements `Spec` (`ClaimsAreAtomic`).

| step | in `claim` |
|---|---|
| `Begin`, `Look` | BeginTx; the snapshot of SELECT ... FOR UPDATE SKIP LOCKED |
| `Pick`, `FindNothing` | the row it locks: not locked, and, as READ COMMITTED looks again at a row that changed, still due itself; or no row |
| `LockKey`, `LookAgain` | the upsert of the key's row of job_locks, which waits; SELECT EXISTS |
| `LockKind`, `CountAgain` | the upsert of the kind's row; SELECT count(*) |
| `TryAgain` | `again`, as Claim's loop has it; the rollback lets go of the locks |
| `Write` | UPDATE and COMMIT, whose answer may be lost |
| `Fails` | an error, or the context done, at any step: a rollback |
| `Reported` | Done, Retry and Fail, of an early or a late claim, and HoldBack's second statement; each waits while a claim has the row locked |
| `Refused` | HoldBack's first statement |
| `SqlPush` | Push, PushUnique, PushLatest |

`Look` is apart from `Pick` as the subqueries of the WHERE are of the snapshot,
which is why two claims may both see room. UPDATE and COMMIT are one step, as
others see nothing of the first before the second and the row is locked. The
order of due jobs is left open, since which rows are skipped is. Taken from the
databases, and not from the code: a locked row is skipped or waited for, a
lock lasts as long as its transaction, and a statement sees what was committed
as it began. Not in the model: PushScheduled, the locks of an app's own
transaction that pushes (`In`), prune's of job_locks, and MySQL's locks of
index gaps, which READ COMMITTED takes only for duplicate keys. Two things are
plainer than in the code: a Retry is for the clock's next time, so one that's due
at once is tried in `Queue` alone; and MySQL's PushLatest, a SELECT and then an
UPDATE or an INSERT, which looks again when a claim or a push came between, is
one step, that of its last statement.

## How Session stands for the code

| state | in the code |
|---|---|
| `keeper`, `rows` | whether `Store.keeper` is set; what the Keeper holds, by ID |
| `jar` | the browser's cookie |
| `req[r]` | a request: the cookie it came with, its `Session` (`s`), where save or keep is, and then its response |
| `passers` | requests that call Pass and nothing else, as a partial reload does |
| `owner`, `ended`, `left` | history, of which a guard reads only that an ID was not given before: whom an ID was given for; the IDs whose rows were deleted; the session as the last response left it, None when a response or a write was lost with it |

| step | in the code |
|---|---|
| `Send` | the browser's; it may drop a cookie whose time is over |
| `LoadNew`, `LoadCookie`, `LoadRow`, `LoadLost` | the outcomes of `load` and `read` |
| `Call` | one call of the handler's, on its own `Session`; `Aborts`, the one panic that's not answered inside the Middleware |
| `SaveNothing`, `SaveEmptied`, `SaveCookie` | the branches of `save` |
| `SaveUnchanged`, `SaveRow` | those of `keep`, up to its Set |
| `Write`, `WriteFails`, `Drop`, `Forget` | the Keeper's Set, before and after which it may fail, and its Deletes |
| `Arrive`, `Lose` | the response comes to the browser, or doesn't |
| `Prune`, `Tick`, `Deploy` | the hourly job, the clock, and the app with a Keeper where it had none |

A call of the Keeper is one statement in the starters, and one step; other
requests' steps come between any two. There is one browser: sessions of others
have other IDs, and meet this one nowhere. The values of a session are its
user, and a set of keys that are set or not; `CookieOf` is the payload in the
cookie, `RowOf` the one in the row with both of its times. IDs are random, so
one is never given twice (`owner[i] = {}`).

Not in the model: keys and their rotation (a cookie that doesn't open starts
afresh, as one that has expired does); what a handler changes after its
response started, which isn't saved; a deploy back to no Keeper, or beside
instances that have none, which logs out whoever has an ID; `auth`'s own
values, which a login forgets. "Too large for a cookie" is a save that fails.

## How the other modules stand for the code

`Clock` is what each instance reads; it's ticks, of which `Ttl`, `Window`,
`GapWait`, `Lease` and so on are a few.

**Cache** (`cache/cache.go`). One key. `row` is the store's; `flights[i]` the map
of instance i; `call[c]` where a caller is; `source` what fn reads, by how often
it changed. `Remember` joins a flight or has one; `GetRow`, `FnReads`, `Keep` and
`FnFails` are `remember`; `EndFlight` and `Close` the deferred function's two
steps; `Told` and `GiveUp` one who waited. `Change` and `Delete` are the app's,
as docs/cache.md has it; `Kill` empties an instance. `failedOn` and `raced` are history.

**Lock** (`cache/lock.go`). `Try` reads the clock, `AddTakes` and `AddRefuses` are
the store's Add by that time, `Release` its DeleteIf, late or not; Wait is `Try`
again from "waiting". `HolderDies` is a kill, or a Release the store failed.

**Throttle** (`auth/throttle.go`, the throttles tables). A tick is finer than a
millisecond by `Grain`; the table keeps `Milli`. `LogIn` reads the clock, `Hit`
is the upsert and what Try makes of it, at most `Lag` later; `Clear` and
`Answer` end a login; `lets` is history.

**Hub** (`broadcast/broadcast.go`, `stream.go`, the starter's `broadcasts.ts`).
What pages show is a `version`; an event says that it changed. `Change` commits
with its event and `ChangeUntold` is a publish that failed. `Deliver` is `deliver`;
`ListenFails`, `DropAll` and `Listen` are Run's three steps. `Open` is the
EventSource's open event, and `Subscribe` the handler's call, which comes after;
`Send`, `End` and `Reload` are the stream's and the page's. `sure` is history:
the pages that read the app with a subscriber, on a hub that listened.

**Listening** (`mysql/broadcasts_db.go.tmpl`). `Publish`, `Commit` and `RollBack` are
transactions; `listen` is Listen's own state: `last`, `seen`, `missing`. A poll
is two steps, `Poll` (the SELECT and the calls of deliver) and `PassOver` (what's
missing, how far last moves), as rows commit between them. `heard`, `due` and
`missedAt` are history.

**Presence** (`broadcast/presence.go`, the presences tables). `until[c]` is the
lease of c's row. Enter is one step in memory and two statements in the tables
(`EnterLooks`, `EnterWrites`), and leave is as well (`LeaveDeletes`,
`LeaveTells`). A tick is a third of a lease, which keepHere keeps at
(presence.go:135), so `Lease` is 3 or more. `Tells` is the Publish of who came or
went: one that fails is only logged (presence.go:91, 127), and pages show that
member wrongly until they read again (`untold`, history as `lapsed` and `crossed`
are). Such failures count among `MaxFaults`.

**Migrate** (`migrate/`, the migrations tables). `record` is the table, `made` how
many statements of each migration are in force, those of a down part taken off.
`Files[p][m]` is the hash of migration m's file in p's version, or 0 where it has
none: versions have any of the files, so a branch's older file may come after
newer ones have run. `TakeLock` to `Finish` are Up and Down; who waits for the
lock is idle. `RunTx` and `UndoTx` are a transaction each; `RunBegins` to `Recorded`
MySQL's statements. Undo doesn't look at the row again, as Run does: without a
lock a second Down may carry out a down part once more, which counts among
`MaxTroubles` and is in `again`; where that down part fails, as there's nothing to
take away, it's a `Stop`. `Refuse` is each error of a start, a file without a down
part among them; `Stop` a kill or a failure; `MendByHand` what Ran's error asks for.

**Serve** (`app.go`, `ssr/server.go`). `StopServing` is the select of serveAll;
`CloseListener`, `ShutDown` and `CloseLate` http.Server's Shutdown and Close;
`ServeReturns` comes after `running.Wait`. `StartNode` to `SsrReturns` are
ssr.Server's Run. `Ssr` is one of `Work`, so the two meet in `Stopping` and in
`Return`.

Left out of these: how values are encoded, and the memory store's sweeps;
several channels and hubs without a Store; Throttle's Wait, which only reads;
choosing ports and certificates; reading and splitting migration files; the
wait before Node is started again. One who reads or waits without a change of
state has no step. A caller of Remember who joins a flight of another type works
the value out alone (cache.go:147): keys are taken to be of one type each.

## What the runs check

Bounds: `MaxJobs` and `AppJobs` pushes, `MaxTime` of the clock, `MaxEnds`
stops and kills not after `FaultsUntil`; in the others `MaxHits`, `MaxVersion`,
`MaxId`, `MaxListens`, `MaxNodes`, and how often something fails: `MaxFails`,
`MaxFaults`, `MaxTroubles`. Runs say CHECK_DEADLOCK FALSE, as the system rests
when the clock stands at its bound and all have stopped, but for `app`, where
Remember may be called again and Serve, returned, stutters in a step of its own.

| run | instance | what it shows |
|---|---|---|
| `claims` | instances a and b, b a Drainer of an older build that has no handler for `mail`, beside a Unique kind; store failures, one stop or kill, a rate | TypeOK, ExclusiveHold, NoPushLost, ImplementsRuns |
| `kinds` | one instance of two workers; a Unique, Latest, OneAtATime kind beside one with AtOnce 1; three jobs | AtOnceLimit, OneRuns, NoPushLost, NoSleepOnWork |
| `schedule` | two instances, a kill, a scheduled, unique, rated kind, `jobs retry` | OneJobPerRun, OneWaits |
| `live` | one instance of two slots, hanging handlers, a stop or kill, with fairness | EveryJobEnds, StopReturns, NextRunPushed |
| `atomic` | two goroutines that claim in Postgres or MySQL; a Unique, Latest, OneAtATime kind with AtOnce 2 beside one with AtOnce 1, two jobs, faults | SqlTypeOK, LimitsKept, ClaimsAreAtomic |
| `ends` | two goroutines, a OneAtATime kind with AtOnce 1, jobs of two values, with fairness | ClaimEnds |
| `browser` | two requests, two IDs; one of them only passes, with a user, a flash, and a Keeper that comes, and a fault; or both write, with two users | TypeOK, EndedWhenAlone, OneOwner, FindsWhatWasLeft |
| `shared` | Lock: three contenders; Throttle: two logins, Max 2; Hub: two pages on an instance, room for 2; Listening: three IDs, two Listens; Presence: two pages of a member on two hubs, in memory and in the table; Migrate: a version, the one before a branch was merged into it, and one with a changed file, on each database | SharedTypesOK, HoldersRow, NoneOverMax, AtMostTwoWindows, MissesNothing, HeardOnce, NonePassedOver, OpenIsHere, ShowsWhosHere, RecordTrue, InOrder, ChangedStops, ImplementsMutex |
| `app` | Cache: three callers on two instances; Serve: two servers, Node and one other of Go's, two requests; with fairness | AppTypesOK, OneFnAtATime, FreshUnlessRaced, NothingRunsOn, CallsEnd, StopsWhole |
| `minute` | two requests, a value, no fault | FindsToTheEnd fails: see below |
| `presence` | two pages of one member on two hubs, in the table, no fault | NoPageLeftWrong fails: see below |
| `halfway` | one process in MySQL, answers lost | RecordTrue fails: see below |

The bounds let the cases happen. In the queue a hold of 1 or 2 within a clock
of 3 or 4 lapses under its worker, is claimed anew, and the late report comes
with the second claim live; two attempts let a job be retried and then fail;
three jobs let two wait as one runs, with one of each limited kind. Keys are one
where the property is of one value; two instances are a claim, its rival and
their late reports, which is as many as an attempt tells apart. In `atomic` and
`ends` two claims are a claim and the one whose commit, or lock, it meets: with
two jobs and one key, or one room, both limits are met and passed over.
Claimers are alike, so `atomic` uses symmetry; `ends`, which checks liveness,
does not.

In `browser` Refresh is longer than Lifetime for the requests in turn, so a row
is left as it is while the cookie goes out, and ends within the clock; for those
that both write they're 1 in a clock of 2, where the Keeper's time ends too, and
prune comes. A rotation takes two IDs. One request that writes and one that
passes, or two that write, are all that a session's interleavings tell apart:
what a third does to one of them, a second has done. IDs are alike, and so are
requests: none is named by a property.

In `shared` a lock's time of 2 in a clock of 5 runs out twice, with a third
contender waiting; a window of 4 in a clock of 6, with Max 2 and five tries, ends
and starts anew, at each place of the millisecond's two ticks; room for 2 events
and three changes closes a page that's behind; three IDs are one handed on, one
missed, and one above, and Listen comes again; a lease of 3 in a clock of 4 lapses
after a kill, and is pruned; two troubles are a lost lock and a failure after it.
Three migrations are one that both versions have, the branch's, and one after
it, which has run where the branch wasn't; the changed version has its first
file otherwise, and none of the last. The processes differ, so there's no
symmetry to use.
In `app` three callers are a flight, one who waits and one on another instance;
a change and its Delete race each of them.

Each property has a mutant of the code in the modules (`\* mutant:`) that
breaks it: a late report that isn't checked, a key kept by a claim, an AtOnce
of one too many, a lock let go of whoever has it, a subscriber not closed, a run
of a schedule pushed again, and so on. PROJECT.json says which.

### Where the code and its documentation differ

- **The last minute of a cookie** (`minute`). A request that changes nothing
  soon after the row was written gets a cookie that outlasts the payload in the
  row. The Keeper holds the row for `refresh` longer, but `read` looks at the
  payload's own `Expires`, and takes it for no session. A visitor who comes in
  those seconds is logged out, though forms.md and keep's comment say not.
  FindsWhatWasLeft, with a margin of Refresh less a second, holds.
- **A page that enters as another leaves** (`presence`). The tables' Enter looks
  who's there before it writes. A page that looked while the member's other page
  was there, and writes once that one has left and has told so, is told of by
  nothing, and pages show the member as gone. ShowsWhosHere, of members who
  don't enter as a page of theirs leaves, and of whom no Publish failed to tell
  since pages last read who's here, holds.
- **A statement whose answer is lost** (`halfway`). In MySQL a migration's first
  statement that returns an error is taken for one that did nothing, and the
  row goes; one that was carried out with its answer lost is then run again.
  RecordTrue holds where an error means nothing was done (`LostAnswers`).

Read beside the model, in the code that it stands for:

- `RunAgain` (`jobs retry`) counts attempts from 0 again, so those of a claim
  before it and of one after may be equal, and a late report of the first ends
  the second's hold as it runs. ExclusiveHold holds, and is proved, of `Spec`,
  without it. `HoldBack` gives an attempt back, so that a late Done of the claim
  before deletes the job that waits: NoPushLost is checked where no unique kind
  has a rate. Both need a handler that outlasts its Timeout and a minute.
- `Set` writes a session's row that's been deleted again: a request that began
  before a logout, changes something and answers after it brings the session
  back (docs/forms.md:527-529 says so). With requests that only pass beside it,
  a logout is final (EndedWhenAlone).
- SetLifetime writes the row under the ID it has. If that response, or the
  Keeper's answer, is lost, the browser has the cookie from before, whose lifetime
  `load` takes (session.go:357), as the row has none of its own; the next request
  that changes nothing then sends that cookie anew over a row that ends sooner,
  and the session may be gone well before the cookie is. FindsWhatWasLeft isn't
  so then: TLC finds it with a Lifetime of 3, a SetLifetime of 1 and one fault.
- A late Fail, which leaves its job alone, answers nil, so `run` tells Observe
  that the job failed and runs OnFail, though another claim has it, where
  kind.go:372-374 says OnFail runs once the Store has kept the job as failed.
  SQLite's Done, Retry and Fail don't look at `failed_at`, where Memory's do; its
  HoldBack of a job may leave it no key where Memory leaves the key it has. A
  claim doesn't look at how many attempts a job has had, so one whose workers
  die each time runs again for ever. A job of an AtOnce kind that fails pokes
  Run only once its OnFail has returned, later than docs/jobs.md:396-398 says,
  which NoSleepOnWork leaves out.
- One who subscribes between Run's closing of the subscribers and Listen's
  return isn't closed, and misses what is published until then
  (broadcast.go:245-255); and as a stream's header goes out before its handler
  subscribes, a page may reload before it follows. MissesNothing is of pages
  that read the app with both in place (`sure`).
- MySQL's Listen begins at MAX(id): an event of a transaction that's still open
  then, with a lower ID, is never handed on. With the table pruned empty that is
  0, and the first ID, N, makes `missing` N entries. NonePassedOver is of IDs
  above `start`.
- Migrations on SQLite run with no lock: a Down beside an Up may undo what the Up
  took for run, so InOrder and ChangedStops leave SQLite out. RecordTrue, of each
  transaction, holds there, but for a migration that two Downs undo at once: Undo
  doesn't look again (sqlite/migrations_db.go.tmpl:67), so its down part runs twice
  if it can. With turns, TLC and the proof say that none does. In MySQL, once the connection of GET_LOCK is lost,
  two processes may run one migration's statements (`unlocked`).
- A lock is "held for ttl once it's taken", which counts from the clock Try read
  before the store's Add. A caller that joins a flight that began before Delete
  is given what was worked out from before it (`raced`).
- serveAll drops an error of work that is context.Canceled, whoever cancelled
  it, where app.go:415-417 says the error of an fn is returned. Another process
  on the port freePort found could answer Node's health check.

## Fairness

`FairSpec` has weak fairness of the clock, of an instance's start and exit
once `Run` returned (something runs the app again), of each instance's loop
and of each worker. The loop and the workers are goroutines, which Go's
scheduler runs; timers (Poll, Grace, letGo) fire; a handler that doesn't hang
and a limiter answer. A handler that hangs is an environment step, so fairness
says nothing of it. Store failures are off in `live`: one that fails for ever
ends nothing. Pushes, stops and kills need never happen. `HandlerHangs` leaves
one slot of an instance free of hung handlers: with every worker hung for ever
no job ends, in the code either.

`FairSqlSpec` has weak fairness of each claim's next step, and strong fairness
of the two that take a lock others may have: the database runs its statements,
and one who waits for a lock has it in the end. It has none of reports or
pushes. A claim whose rows are locked when it looks finds nothing and ends;
nothing says a job is found.

`CacheFairness` has weak fairness of each caller's next step, fn's return among
them: Remember's callers are goroutines, and no more is asked of the store than
that it answers or fails. It has none of GiveUp, Change or Kill, so CallsEnd holds
though no one's context is ever done.

`ServeFairness` has weak fairness of serveAll's steps, each server's shutdown,
and the timeout, which are the code's own; of Node's exit and of the work's
return only once they're told to stop, as App.Go asks of work that it heeds its
context. Requests need never end, nor a signal come: StopsWhole begins with one.

## What is proved

QueueProofs proves, for every value of the constants, from `StoreAssumption` and
`QueueAssumption` alone:

- `TypeCorrect`: `Spec => []TypeOK`.
- `Exclusion`: `Spec => []ExclusiveHold`.
- `OneAtATime`: `Spec => []OneRuns`.
- `AtOnceHolds`: `Spec => []AtOnceLimit`.
- `Uniqueness`: `Spec => []OneWaits`.
- `OperatorTypeCorrect` and `OperatorUniqueness`: TypeOK and OneWaits of
  `OperatorSpec`, where jobs that failed are run again.
- `NothingLost`: `OperatorSpec => []NoPushLost`, where no unique kind that's
  tracked has a rate.
- `RunsOnce`: `OperatorSpec => []OneJobPerRun`, where only schedules push
  (`AppJobs = 0`, as in `schedule`).
- `AwakeForWork`: `Spec => []NoSleepOnWork`, under `JobsDueAtOnce`, which is so of
  `kinds`.
- `QueueImplementsRuns`: `Spec => ImplementsRuns`, that is Spec of JobRuns.

TypeOK is inductive as it stands, since it says a held job was claimed, so the
attempt that HoldBack takes back is there. ExclusiveHold isn't: it's kept
because a live claim's row says so. The invariant is `IInv`:

- `ClaimsCounted`: no worker's claim has more attempts than its job, so the
  next claim has more than all of them;
- `ClaimsDiffer`: two workers' claims of a job have different attempts, though
  the hold of one, or of both, has run out;
- `LiveHolds`: a live claim's job is held, until when the claim says, with its
  attempts;
- `NowsPassed`: the time a loop read isn't after the clock.

A claim takes a row whose hold is past by a time that isn't after the clock,
so no live claim has it (`LiveHolds`, `NowsPassed`); a late report changes a
row only with the row's own attempts, and when a live claim has those no other
worker's has (`LiveHolds`, `ClaimsDiffer`), which the next claim keeps, having
one attempt more (`ClaimsCounted`). `JobsRetry` breaks exactly that,
which is why the theorems are of `Spec` and not of `OperatorSpec`. OneRuns
follows the same way: a claim looks at every held row of its key, and a live
claim's row is held. AtOnceLimit counts them: by `LiveHolds` and ExclusiveHold
the workers that run a kind's jobs map one-to-one to the rows a claim counts as
held (`NoMoreThanHeld`), so a claim that found less than AtOnce of those leaves
no more than AtOnce running; no other step starts a worker. OneWaits needs no
more than the types: every step that gives a row a key looks for another.

NoPushLost's invariant, `PushInv`, says which row a push that's owed a run has
(`Witness`): one of its kind and value, such that of its workers none is done with
it and each began after the push, or hasn't begun. A run of that row that succeeds
then pays what's owed before its Done comes. The hard case is a push that adds
no row: none works on the job that waits with its key (`KeyRow`), as a claim takes
the key away. Only HoldBack gives it back, of a kind with a rate, and then the late
Done of a claim before may delete the row: with such a kind unique, TLC finds
the push lost in 15 steps, so the hypothesis is needed. Attempts play no part, so
`JobsRetry` may be there.

OneJobPerRun's, `RunsInv`, counts: the run a schedule had pushed last is `m`
periods from the start, and there are `m` jobs of its kind at most. A push of a
run is let in only past the last (PushScheduled), and a run is a whole number of
periods (`NextRun`), so each adds one to both. Pushes of the app's own would be
counted too, so there are none.

NoSleepOnWork's, `WakeInv`, follows a wake from what makes a job free to the loop.
Between a claim's `now()` and the sleep the loop looks at nothing, so a job that
becomes loose (kept, and with no hold) then has a poke with it, or was there at
that `now()` (`SeenDue`); and a loop that sleeps unpoked has each loose job blocked
by one that's held (`NoneLoose`), where a worker on its OnFail that will poke counts
as a poke. What a report frees may have blocked others only in a kind with AtOnce or
OneAtATime, which is when `run` pokes (`StillBlocked`). The rows a claim counts as
held get fewer with time, so a claim that was blocked by some is blocked by all that
have a hold. `JobsDueAtOnce` leaves out what the wake isn't for, as Poll is: jobs
that come due later (schedules, rates, backoffs, PushAt), a push in a transaction
with no Wake, what another instance's jobs block, and what a failed call of the
Store, or a stop, leaves.

JobRuns puts those together as a Store's promise: a worker that runs nothing begins a
job that no other runs, with room in its kind and none of its value; it lets go of
it, as it dies, its hold runs out, or it's put back; and a job ends once, for good,
with the one run of it. Each step of Queue is seen as one of those, or as none:
`ClaimSeen` maps the workers of a kind to the rows a claim counts (`RunsOfKind`),
and `EndSeen` has that a report which ends a job is of the claim the row has, so
that no other worker has a live claim of it. A late report, which isn't, changes
nothing that's seen. It needs IInv throughout, so it's of `Spec`: `jobs retry` breaks it.

The proof has a lemma for each way the rows change (`PushRows` to
`GiveBackRows`), then one each for the loop, the workers and the environment,
one step per action. TLC checked IInv on the instances of `claims` and `kinds`, and
WakeInv on `kinds` with pushes in a transaction that Wake.

SqlClaimsProofs proves of `SqlSpec`, from the modules' assumptions:

- `SqlTypeCorrect`: `SqlSpec => []SqlTypeOK`.
- `Atomic`: `SqlSpec => ClaimsAreAtomic`, that is `Init /\ [][Next]_claimVars` of
  JobClaims.
- `Limits`: `SqlSpec => []LimitsKept`.
- `NoCircle`: `SqlSpec => []WaitsEnd`.

Its invariant says that no two claims have one row locked (`LocksExclude`), and
that what each has seen is so still (`ClaimSafe`): its job is due as long as it
has the row; past the key's lock no other job of the key is held, and past the
kind's there is room. Another claim's `Write` can't disturb it: a job of the
same key, or of the same limited kind, is written by a claim that has the same
row of job_locks locked (`WriteUndisturbs`). No other step holds a job
(`NoNewHolds`), and held rows only get fewer. So at `Write` all that `Take` asks
for is so, which is the refinement. LimitsKept is of the clock, where a claim
goes by an older time: what is held now was held then (`WriteKeepsLimits`,
with the cardinalities of the finite set theorems).

WaitsEnd is why ClaimEnds may hold for any number of claims: one that waits for a
key's or a kind's row waits for a claim that's at work and further on, which waits
for none, or for one that waits for none. It needs `LocksInOrder` alone, that a row
is locked only at the steps that come after its lock; the job's row is skipped when
it's locked, and never waited for by a claim. A report waits for it, but has no row.
TLC checked both on the instance of `ends` first.

SessionProofs proves of `Spec` of Session, from `SessionAssumption`:

- `SessionTypeCorrect`: `Spec => []TypeOK`.
- `Owners`: `Spec => []OneOwner`.
- `Ends`: `Spec => []EndedWhenAlone`.

OneOwner needs that what is on its way is right too (`GoodCopy`): a request's
copy with an ID has the user the ID was given for, or has been rotated, and one
about to be written has that user. Login rotates, so a copy whose user isn't its
ID's gets another ID at `SaveRow`. Ends needs `Passive`, that a request that
only passes has changed nothing and never gets as far as the Keeper, and
`NoCopy`, that where one request writes, what it holds isn't under an ID that
has ended. Every step of a request replaces its own record alone, so there's
one lemma for that (`OwnStepKeeps`, `QuietStep`), and one for each step that
does more.

`FoundAsLeft` is FindsWhatWasLeft, where SetLifetime isn't called or nothing fails
(`Lifetimes = {} \/ MaxFaults = 0`; `browser` is of the first). Its invariant, `FInv`,
follows one cookie: with no response on its way the browser's cookie is that of
the session as it was left (`JarOk`), which its row has until Refresh before the
cookie expires, less a second (`Holds`); a request that may write has what it read
in the row still, for as long as it may leave the row as it is (`ReadOk`), so the
cookie it sends then isn't ahead of the row by Refresh; and a row on its way to be
written is what the response leaves, under the browser's ID or a new one
(`WriterOk`). `PlainInv` is what having no SetLifetime gives: every row and cookie
lasts as the Store says. TLC checked it on both instances first.

JobStoreProofs has the lemmas QueueProofs and SqlClaimsProofs need of the
store's calls: what each leaves of the rows' types, and that none but a claim
holds a job.

SharedProofs proves, each from the assumptions of its module:

- `LockTypeCorrect`, `LockExcludes` (OneHolder, no two hold it), `LockHoldersRow`, and
  `LockImplementsMutex`: `LockSpec => ImplementsMutex`. Their invariant,
  `LockIInv`, adds that no Try has read a time still to come. By HoldersRow a
  holder's row is live by the clock, so also by any time read before, and Add
  refuses; who takes the row takes it from no one whose time lasts, which is
  Mutex's Take, and each other step is LetGo or a stutter.
- `ThrottleTypeCorrect`, `NoTryOverMax` (NoneOverMax), with `EndsInv`: windows end
  at whole milliseconds. A window that isn't over by `Milli(now)` then ends
  after now itself, so the wait of one over Max isn't 0.
- `TwoWindowsAtMost` (AtMostTwoWindows), with `WindowsInv`: tries that were let in are
  numbered, each of the first Max of its window (`LetsInv`), and there's a time
  such that those of the row's window are no earlier and those before it no later
  (`SinceInv`), less than a window before the row's end. What's near any time
  is then of two windows, Max of each (`MaxOfMax`).
- `PresenceTypeCorrect`, `OpenStays` (OpenIsHere), with `LeaseInv`: the lease of an
  open page's row is at least the clock and `Lease`, less how far its hub is
  behind with keeping it, which is two ticks at most unless it failed twice.
- `ShowsHere` (ShowsWhosHere), with `ShowsInv`: of a member who hasn't lapsed or
  crossed, and of whom the channel was told (`TellsIs`), the rows are as their
  pages are (`RowOf`), a page that looked and saw
  another isn't alone (`LookedInv`), and as long as what's shown is wrong, either
  the page is to read it again or someone is on the way to tell it (`ToldInv`).

BroadcastProofs proves of Listening `ListeningTypeCorrect`, `Once` (HeardOnce) and
`NoneLost` (NonePassedOver). Its invariant says that IDs are handed out in order
(`TableInv`); that an event is handed on at most once, of a row that was there
(`HeardInv`); how what Listen keeps tells what it has handed on and missed: what
was heard and is still there is in `seen` or not above last, and an entry of
missing is since when the ID was missed (`KeptInv`); and that an ID due and not
heard is above last, in a row too young to be pruned before a poll, while one
that's still open as last passes it has been missed for gapWait (`DueInv`).

Of Hub it proves `HubTypeCorrect` and `FollowersMissNothing` (MissesNothing):
with the types, that a subscriber is open only as its page's stream is, which
has been opened then (`StreamsInv`), and that a sure page has its stream, and no
open subscriber while Run waits to listen again (`SureInv`), so that no event
passes it between DropAll and Listen.

MigrateProofs proves `MigrateTypeCorrect`, `RunInOrder` (InOrder),
`ChangedStopsRun` (ChangedStops, an action property), and, where no answer is lost
(`~LostAnswers`), `RecordIsTrue` (RecordTrue); with answers lost TLC finds
RecordTrue broken (`halfway`). They're of any `Files`, gaps and all. The invariant,
`MInv`, has InOrder in it, and says that as long as the lock is held as it should
be one process is at work (`LockedInv`). Of the one that is it says
that no migration but the one it's at is half done (`RowsInv`); going up, that no
file of its version has changed, and which of its version's have run (`UpInv`);
and going down, that it's at the last that ran (`DownInv`). `RowChanges` is
why InOrder stays: a row may go only from the last, and come only with its
version's earlier ones there, whichever other versions' run between.
ChangedStops follows from `UpInv` of the step that has one begin. RecordTrue
adds `MadeInv`, how many statements of the migration a process is in the middle
of are in force, and that what's undone under a lock was there. Over a transaction
RecordTrue needs no lock, of those not undone twice.

AppProofs proves of Cache `CacheTypeCorrect`, `FnAlone` (OneFnAtATime) and `Fresh`
(FreshUnlessRaced), with an invariant of each call (`CallInv`), of the flight of
each instance, which is its flier's (`FlightInv`), and of those who work without
one, who are of an instance where a flight failed (`AloneInv`); and of Serve
`ServeTypeCorrect` and `NoneRunsOn` (NothingRunsOn), with the states of Node and
its URL (`NodeInv`), of servers that have closed (`ClosedInv`), and of what has
returned (`ReturnedInv`). `WaitersAwaited` is why CallsEnd may hold (NoneStranded):
whoever waits for a flight waits for one that's under way, and that never waits.

The compositions: `SharedParts` shows that `SharedSpec` is, as each part is at work,
that part's own Spec, and Hub's and Migrate's at any time; the others share the
clock, and a tick in another part isn't one of theirs (Throttle's waits for a Hit
that lags, Presence's for the leases). So `SharedKeeps` has what's proved of each,
ChangedStops and, with no answer lost, RecordTrue too, and `SharedTypesHold`
SharedTypesOK. `AppIsBoth` is `AppSpec => CacheSpec /\ ServeSpec`,
with `AppKeeps` and `AppTypesHold` (AppTypesOK). What `browser` checks needs none:
BrowserSpec is Session, with some values of its constants or others.

Only model-checked: the liveness properties (EveryJobEnds, StopReturns,
NextRunPushed, ClaimEnds, CallsEnd, StopsWhole), as liveness under fairness and
ENABLED are out of TLAPS's reach, as are induction over data and RECURSIVE operators, of
which these modules have none. Assumptions stated for the proofs alone: an app
migrates with some process (`Procs # {}`), and `NoTries` and Session's `None` are no
rows.
