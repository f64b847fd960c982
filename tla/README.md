# cq-dashboard: TLA+ models, checks and proofs

cq-dashboard records what a [cq](https://github.com/gnikyt/cq) job queue does
into a database and shows it. This directory models the parts that have to be
right for the history to be trusted and the dashboard to be safe to expose: the
sink that turns hook calls into database writes, the rules by which a row is
merged, the life of several processes sharing one store, the three database
drivers against each other, a reader paging through moving history, and the
dashboard's sign-in and controls.

## The system

| Part | State | Operations | Module |
| --- | --- | --- | --- |
| Hooks and `offer` (`sink/sink.go`) | the events channel, `dropped` | nine hooks, `ReportProgress`, `offerJob`, `offerAttempt`, `offer` | `Sink`, `JobRow` |
| Writer (`run`, `flush`) | the batch, `written` | receive, tick, drain, `UpsertJobs`, `SaveAttempts` | `Sink`, `Recorder` |
| `Start`, `Close` | `started`, `done`, `stopped`, mutex, `closeOnce` | claim, reconcile, launch; signal, wait | `Sink`, `Fleet` |
| `beat`, `retain` | the epoch's heartbeat row | beat, retire, prune | `Sink`, `Fleet` |
| Store contract (`store/store.go`, `store/memory`) | job rows, heartbeats | merge, `ReconcileEpoch`, `Prune` | `JobRecord`, `JobRow`, `Fleet`, `History` |
| Memory driver (`store/memory`) | maps under a mutex | every write and read | `Memory`, `StoreQuery`, `Drivers` |
| SQLite driver (`store/sqlite`) | three tables, derived columns, rowids | the same contract in SQL | `Sqlite`, `Drivers` |
| Postgres driver (`store/postgres`) | the same tables with a sequence | the same, at READ COMMITTED | `Postgres`, `Drivers` |
| Names and keys (`store/normalize.go`, `store/store.go`) | none | `NormalizeName`, `KeyFor` | `StoreQuery` |
| Web: listing and paging (`web/handler.go`, `web/json.go`) | a window in the URL | `list`, `filterQuery`, `pageURL`, `jobs`, `failures`, `jobsJSON` | `Listing` |
| Web: sign-in (`web/login.go`, `web/auth.go`) | sign-outs, limiter; signed cookies outside | `gate`, `identify`, `loginForm`, `loginSubmit`, `logout` | `Access` |
| Web: controls (`web/controls.go`) | the queue's own | `pause`, `resume`, `workers` through `control` | `Access` |
| Templates, status page, demo, conformance suite | none | rendering, examples, tests | not modelled |

How they interact. cq calls hooks synchronously on its own goroutines. A hook
offers one record (an attempt hook two) to a buffered channel and never blocks;
the writer goroutine batches records into the store; a heartbeat goroutine keeps
the epoch (one boot of one process) alive in the store and retires it on
`Close`; a retention goroutine prunes. `Start` claims the epoch, interrupts what
silent epochs left unfinished and launches the goroutines. Processes interact
only through the store: rows, and the heartbeat by which one judges another. The
web handler reads the store (any driver) once or more per request, while sinks
write to it; it keeps no history of its own. Its requests run concurrently and
share the sign-outs, the limiter and the queues they control.

What is hard: the two selects of `offer` against `Close` and the drain; `Close`
against a concurrent `Start`; store calls that fail halfway through `Start` or
`flush`; records that arrive out of order or not at all; judging from a
heartbeat whether a process is alive, with late and failing beats and skewed
clocks; a process ending between two of its steps; three implementations of one
contract that keep time in different units and run statements in different
isolation; offsets into a list that moves; a session looked up several times
within one request. `PROJECT.json` lists each of these hazards with the line
where it bites and the properties that cover it.

What makes each part correct:

- the sink loses nothing silently: every offered record is dropped and counted,
  written, refused with a reported error, or still held; records of a kind
  reach the store in order and at most once; `Close` flushes and returns;
- the row of a job does not depend on the order of its records;
- a job never moves backwards, a finished job keeps its outcome, unfinished
  work is never forgotten;
- a boot interrupts the jobs of dead processes and never those of live ones;
- the drivers agree: after the same calls they hold the same rows and attempts
  and give the same answers, and pruning takes a job's attempts with it;
- a reader who walks a list sees each row once, except where the list moved;
- a session that was signed out stays out, a control acts in the name of the
  operator whose form was sent and leaves a trace, passwords cannot be guessed
  without limit and nobody is locked out who did not try.

## Modules

`JobRecord` has no variables. It holds the stored form of a job, `Rank`,
`Terminal`, the rules of `merge` one operator per rule (`FillBlank`,
`LastNonZero`, `Advance`, `Newer`, ...), and the three operations on rows:
`Upsert`, `Reconcile` and `Prune`. Times are numbers with 0 for Go's zero time,
text is a string with `""` for blank. The three progress fields, which always
move together, are one number; `Pattern` is a function of the name and left out.

`JobRow` is one row and the records the hooks make for it. A *life* fixes what
the job goes through (outcome, attempts, progress reports, whether it is a hop
of a reschedule chain); `Records(life)` are all records its hooks produce;
`Deliver` gives the store any of them that it has not had. Every subset in every
order is a behaviour, which is what a sink that sheds and a cq that reports
`OnStart` before `OnEnqueue` can do.

`Sink` is one process at the level of goroutines. A step is what a goroutine
does between two points where another may be observed.

| Code | Actions |
| --- | --- |
| hooks, `ReportProgress` | `Hook` |
| `offer`, first and second `select` | `OfferCheck`, `OfferSend` |
| `Start` | `StartLock`, `StartMigrate`, `StartHeartbeat`, `StartReconcile` (each store call may fail: `StartErr`) |
| `Close` | `CloseCall`, `CloseJoin` (second caller of `closeOnce`), `CloseRead`, `CloseSignal`, `CloseReturn` |
| `run` | `RunReceive`, `RunTick`, `RunDone`, `DrainReceive`, `DrainEnd` |
| `flush` | `FlushJobs`, `FlushAttempts` |
| `beat` | `BeatTick`, `BeatDone` |
| `retain` | `RetainPrune`, `RetainTick`, `RetainDone` |

A record is reduced to the hook call it came from and its kind. `flush` splits a
batch into jobs and attempts in batch order and nothing looks at the batch
before, so the model keeps it split. Seven variables only observe (what the
store holds, how many records were refused, when each entered the channel, what
was buffered when `done` was closed).

`Recorder` is what the sink promises: two queues, from which the store takes a
prefix, or refuses it; a record is accepted at the end or dropped. `Sink` ends
with the refinement, `RecorderSpec`: a queue is the batch's part of that kind
followed by the records of that kind in the channel (`OfKind`).

`Fleet` is several processes on one store. The sink of each appears as the
queue `Recorder` promises, restricted to job records (`pipe`); the rows and
`Reconcile`, `Prune` and `Upsert` come from `JobRecord`. `Claim` and `Launch`
are `Start` before and after its first heartbeat is stored, so siblings
interleave between them. `Retire` is `beat` seeing `done`, which may come before
or after the drain; `Exit` needs only the drain, as `Close` does not wait for
`beat`. `Crash` loses what the sink held. Time is a global clock; a process
reads it with its own constant skew. `Tick` does not let the clock pass a
heartbeat or a launch that is due: that is the assumption on delays, named by
the constants `Lag` and `StartDelay`. `MaxMisses` bounds the heartbeats the store
refuses in a row. No code enforces it: it is an assumption on the environment, and
with more failures than the gap allows a live process is taken for dead.

`History` is what the shared store promises a reader: a job's state only rises
in rank, an unfinished job may be interrupted, a finished one forgotten.

`StoreQuery` has what the drivers share: the filter, the limits, the failure
states, `NormalizeName`. Text is abstracted: a name is its segments (text, how
many digits and hex digits, length), an attribute string the map it encodes, and
whether a term occurs in a text, matches it as SQLite's LIKE pattern or as
Postgres' ILIKE pattern, are three relations. Nothing is assumed between them:
a wildcard makes a pattern match more, a backslash (ILIKE's escape) or a letter
outside ASCII (whose case SQLite's LIKE does not fold) makes it match less.

`Memory`, `Sqlite` and `Postgres` have one operator per method of the driver: a
store is a record of its tables, a write returns the new store, a read its
answer. `Sqlite` keeps what the code keeps: times in whole microseconds
(`Unix`, `FromUnix`), the derived columns `rank` and `pattern`, and a `rowid`
that every insert takes from a growing counter. `InsertRow` is the statement of
one record, `Interrupt` the SET clause of the reconciliation. `OnConflict` is
the upsert statement column by column; it uses the rules of `JobRecord` by name
where the SQL expression is that rule, so agreement with `Merge` is not built in
where it differs (state against rank, progress against its time, key columns).
`Postgres` refers to `Sqlite` for the statements that are the same in another
dialect, and differs in the search, the attribute lookup and `Prune`, which is
two operators.

`Drivers` makes the three stores follow the same calls, the conformance suite's
idea over all short sequences instead of chosen ones. A hook (`OnEnqueue`,
`OnStart`, `OnAttemptStart`, `OnAttemptEnd`, `ReportProgress`, `OnEnd`) puts its
record, with every field the sink fills, among those on the way (`late`,
`lateTries`). `UpsertJobs` and `SaveAttempts` write any of them next, so records
arrive in any order, the created record after the end included, and one that
was shed never arrives. The other calls are heartbeats, reconciliation and
retention, whose second Postgres statement (`EndPrune`) comes later. `past`
observes what lets drivers differ: two times inside one microsecond were
compared (`tied`), a commit fell between the two statements (`raced`), an
attempt was saved while some store had no row (`adrift`), a record with the
job's name was stored (`named`), its row was pruned as interrupted or with a
record still on the way (`cut`). A sorted listing is defined without choosing
an order: `InOrder(S, R)` puts at place `i` the member of `S` that `i - 1` others
precede, which is what sorting gives when `R` is total, as the drivers'
tie-breakers (key, rowid, seq) make it.

`Listing` is one reader and the history. A request is `OpenJobs`,
`OpenFailures`, `OpenJSON`, `FollowNext` or `FollowPrev` (which parse a link),
then `Count`, `Fetch` and `Render`, with `Enqueue`, `Flush`, `End`, `Prune` and
`Tick` between any two. Rows are known by their row number, the order in which
they were inserted; a page is the rows whose *place* in the window, newest first
and the latest insert first among equals, is one that LIMIT and OFFSET keep. Of
a rendered page, `List` is the list its links lead through. `Flush` may come
long after `Enqueue`, so a row can enter a window that was frozen before it was
written. `walk` observes what the reader was shown and what moved since.

`Access` is the handler with its options as state (`conf`, fixed by `New`).

| Code | Actions |
| --- | --- |
| a request reaches `ServeHTTP` | `Arrive` |
| `sessionFrom`, `verifySession` | `ReadExpiry`, `ReadRevoked`, per cookie |
| `gate` | `Gate` |
| `control` | `Policy`, `CheckCSRF`, `Apply`, `Audit` |
| `logout` | `CheckCSRF`, `Logout` |
| `loginForm`, `loginSubmit` | `LoginForm`; `LoginSubmit`, `LimitLogin`, `Password` |

Each check of a request looks its session up again, as the code does, and other
requests act between the steps of a lookup. A cookie is the number of the login
that signed it, so several copies of one exist; a request may carry any number
of cookies in any order, and one that does not verify is passed over like an
expired one. Init allows cookies signed by an earlier
process with the same secret.

The theorems are in `JobRowProofs`, `SinkProofs`, `FleetProofs`,
`DriversProofs` with `AgreementProofs`, `ListingProofs`, and `AccessProofs` with
`LimiterProofs`; each extends the module it is about. `MCJobRow`, `MCSink`,
`MCFleet`, `MCDrivers`, `MCListing` and `MCAccess` give TLC its instances.

Operators whose comment begins with *Mutant* are variants of a definition with
a plausible bug. No specification uses them: each exists so that one property
can be seen to fail (`mutants` in `PROJECT.json`).

## Runs

| Run | What it checks | Bounds and why they suffice |
| --- | --- | --- |
| `job_row` | `TypeOK`, `OrderTolerant`: the row equals a summary of the *set* of records delivered | all five outcomes, hop or not, two attempts, three reports: blanks are filled from either side, states, attempt numbers and reports meet in both orders (records of one life agree on the other fields) |
| `sink` | `TypeOK`, `Accounting`, `StoreInOrder`, `CloseFlushes`, `StrandedBound`, `OkMeansRecording`, `RetiredIsFinal`, `RecorderSpec` | two workers, one caller of `Start` with two calls (the mutex makes more callers equal to more calls), two closers, three records over a buffer and a batch of two: the buffer overflows, a batch fills and a partial one is left |
| `sink_live` | `CloseReturns`, `BufferedSettles`, `GoroutinesExit` | one worker and an attempt hook (two records); retention on; no symmetry |
| `fleet` | `TypeOK`, `LiveJobsSurvive`, `BuriedAreResolved`, `HistorySpec` | two processes, one job of the first, the second's clock one tick ahead, one missed beat, launches up to one tick late, the gap exactly wide enough (4 = 1 + 2·1 + 0 + 1), clock up to 7: enough for a process to die, go stale and be buried, and for its rows to be pruned. Deadlock is not checked: the clock is bounded and processes may all be gone |
| `drivers` | `TypeOK`, `DriversAgree`, `DerivedColumns`, `RoundingSpares`, `AttemptsFollowJobs`, `IdleBeforePruned`, `NamesLast`, `ListingsAgree`, `ReadsAgree`, `TimelineAccounts` | two jobs of two epochs, the second with a parent; six budgets (`MCBudgets`) that trade events of either job against other calls and records on the way: five events of one job with one record on the way or lost at a time (two attempts), four with three (so any three records meet in any order), three events with two other calls, both jobs with two on the way each. Every outcome occurs. The clock from 5 to 7 with two units to the microsecond (so times tie and times differ), a retention of two states, nine filters with pages of one row, a wildcard, a backslash, a letter outside ASCII, a key that is a path. Deadlock is not checked: calls are bounded |
| `listing` | `TypeOK`, `PagesAreFull`, `RepeatsAreEntries`, `MissesAreLeaves`, `WindowIsFrozen` | three jobs (symmetric) on pages of one row: up to three pages, a list that shrinks under a page number, rows before, inside and after the window; two instants, so enqueue times tie. Deadlock is not checked: jobs and clock are bounded |
| `access` | `TypeOK`, `SignedOutStaysOut`, `AuditTells`, `ActsInOneName`, `GuessesBounded`, `RefusalsJustified` | two requests at once, in four mixes (`MCMixes`): a control and two sign-outs, a view with a login and a sign-out, a control and a login, four logins. Two operators, of whom one may control and has the session that expires first, and a script that may; a burst of two in a window of one, so that one check at the end of a window and two at the start of the next fill the bound of three; TTL 3 and seconds of 2 ticks so that expiry is rounded; the clock to 3; four deployments that `New` takes and two it refuses; with and without sessions of an earlier process, in any order in one request. One client: that others are not affected is the theorem's. Deadlock is not checked: requests are bounded |
| `access_retry` | violates `RetryIsConsidered` | as `access` |
| `sink_stranded` | violates `NothingStranded` | as `sink`, store calls succeed |
| `sink_close_race` | violates `CloseFlushesAlways` | as `sink`, store calls succeed |
| `fleet_drain` | violates `InterruptedWasUnrecorded` | as `fleet` |
| `fleet_orphan` | violates `RestartReconciles` | as `fleet` |

The five runs that expect a violation show where the code and its own words part:

- *Stranded record.* `offer` finds `done` open, then `Close` and the whole drain
  happen, then the send succeeds into a channel nobody reads. The comment on
  `offer` says such a record is counted as dropped. `StrandedBound` shows that
  this loses at most one record per worker.
- *Close against Start.* `Close` reads `started` under the mutex and closes
  `done` after releasing it. A `Start` in between launches a writer that `Close`
  does not wait for. `CloseFlushes` is what holds: a `Close` that found the sink
  started flushes what was buffered.
- *Retire before drained.* `beat` retires the epoch while `run` drains, so a
  sibling may interrupt a job whose end is about to be written; the row then
  shows `interrupted` with a finish time.
- *Quick restart.* A boot reconciles once. Rows of a process that died less than
  `staleAfter` ago stay active until yet another boot.
- *Login page after a rejection.* It is rendered with an empty token, and the
  browser keeps the cookie of the first one. Sending the page that says "Please
  try again" is refused as expired, with correct credentials too, until
  `GET /login` is loaded anew.

What the passing runs say is often a bound with an exception, and each exception
is a behaviour worth knowing:

- *Drivers.* SQLite and Postgres keep the first of two progress reports within
  one microsecond, the memory driver the newer (`tied`). Rounding errs on the
  safe side (`RoundingSpares`). On Postgres a row that becomes prunable between
  the two DELETEs of a prune loses its row and keeps its attempts (`raced`).
  Attempts whose job record was shed are in no job's page and nothing prunes
  them until a row with their key is (`adrift`).
- *Start after Close.* `Start` looks at `started` before `done`, so on a sink
  that was started and closed it returns success although nothing records
  (`OkMeansRecording`: a running writer is promised only before a `Close`).
- *Reads.* A search term with `%` or `_` finds more in the databases than in
  memory, one with a backslash may find less in Postgres, and one with a letter
  outside ASCII in another case less in SQLite; `ListingsAgree` is about the
  terms that each database takes literally (`Plain`). An attribute key with a
  dot, a bracket or a quote finds nothing in SQLite. Memory returns the queue of
  an attempt, the SQL drivers leave it blank (`memory.go:371`,
  `sqlite.go:391-399`, `postgres.go:367-375`); the queue is not part of the
  model's attempts. A timeline from
  the zero time is an error in SQL and empty in memory; `TimelineAccounts`
  leaves it out. Otherwise rounding moves no job to another bucket, unless a
  job ended within the microsecond of the cutoff. Jobs enqueued within one
  microsecond may change places between drivers, and with them pages. Groups of
  equal size last seen in one microsecond are in no order the drivers share, so
  which of them the limit cuts off may differ.
- *Retention.* An interrupted row has no finish time and is aged from its
  enqueue time; if its process lives on, a later attempt makes a new row without
  a name. So does a record of an attempt that arrives after the row of the
  finished job was pruned (`NamesLast`, `IdleBeforePruned`).
- *Paging.* The window freezes enqueue times, not rows: a late flush or a change
  of state shifts a filtered list inside it, and pruning skips as many rows as it
  removes. The first HTML page is read before its window is chosen. `WindowIsFrozen`
  claims of deeper pages what the comment in `pageURL` says of them, and nothing
  of page one: "Page one is always live" (`handler.go:582`) is not so for a
  reader who comes back to it by a link, which keeps the window. The pager drops `view=list`, so the second page of
  the flat list of failures is the grouped view (modelled in `PageURL`). The
  README's query parameter `name` is read by nobody.
- *Sessions.* A signed-out cookie is accepted at the very instant of its expiry
  (`isRevoked` compares with Before, `verifySession` with After). At that instant
  a control may also act for another operator than the one whose form was sent;
  the other way is that the session the policy judged ended before the form was
  looked up (`ActsInOneName`). A sign-out ends
  the first valid session of the request only. Sign-outs are swept by the next
  sign-out, and a restart forgets them.
- *Controls.* `AuditTells` is about controls that pass the gate: where views are
  gated, a control without an identity is refused there and not audited,
  although `controls.go:81`, the repository's README (line 288) and `WithAudit`
  (`handler.go:130`) say every attempt is. The effect and its entry are
  separate steps, so entries may be in another order than their effects.
- *Limiter.* Fixed windows allow almost two bursts in a stretch of one window's
  length: all of a burst but the check that opened the window at its end, and a
  burst at the start of the next. After a window without checks it is one burst.
  Successful logins count too, although `login.go:146` speaks of failed ones;
  refusals do not prolong the window.

Fairness (`sink_live` only): weak fairness of each worker inside `offer`, each
caller inside `Start` or `Close` and of the writer, since goroutines are
scheduled and store calls return; weak fairness of the heartbeat goroutine
seeing `done`, which stays ready in its `select`; strong fairness of the
retention goroutine seeing `done`, because between two visits of its `select`
it is inside `Prune`, and Go's `select` picks among ready cases at random.
Nobody has to call a hook, `Start` or `Close`.

## Proofs

TLAPS checks 34 results (`theorems` in `PROJECT.json`) for every value of the
constants that satisfies the assumptions named in the modules:

| Assumption | What it says, and why the code gives it |
| --- | --- |
| `LivesAssumption` | a job makes any number of attempts and reports |
| `SinkAssumption` | sizes at least one, as `WithBuffer` and `WithBatchSize` ensure; finitely many goroutines call hooks |
| `FleetAssumption` | types |
| `GapAssumption` | `StartDelay + (MaxMisses + 1) * Interval + Lag + MaxSkew <= StaleAfter`, which makes precise the comment "the gap allows several missed beats before a live process is declared dead" (defaults: 15 s and 60 s) |
| `QueryAssumption` | a microsecond is some number of clock units; the keys of a run are finitely many; a name has at least one segment; a listing's default limit is a number |
| `DriversAssumption` | the clock is later than Go's zero time by more than `staleAfter`, ages are not negative, a filter's limit and offset are not negative (`list` sets them) and its cutoff is not before the zero time, a timeline's bucket is a whole number of microseconds (the handler asks for minutes) |
| `ListingAssumption` | there are finitely many jobs and at least one, a page has at least one row, the clock at least one reading |
| `AccessAssumption` | a session lasts at least a second, the burst is at least one, a mix says how many requests of each kind there are, the script's subject is no operator's, an earlier process signed its sessions for as long as this one does |

The bounds on clocks, calls and requests are constants too: the theorems hold
for every bound, so for runs of any length.

`JobRowProofs`: `JobRowTypeOK`, `WritesAreOrderTolerant`. The invariant `RowInv`
explains the row by the records delivered: each field is the value some record
had and is blank only if it is in all (`Knows`), the state is the highest, the
attempt and the report are the last. Records of one life agree on every field
they know (`OfLife`), so two explained rows are equal, whatever the order.

`SinkProofs`: `SinkTypeCorrect`, `EveryRecordIsAccountedFor`,
`CloseFlushesWhatIsBuffered`, `StartSuccessMeansRecording` and the action
property `RetiredStaysRetired`. `Inv` adds to `TypeOK` and `Accounting` that one
caller is inside `Start`, only before the launch (`StartExcludes`), that writer
and heartbeat exist from the launch on (`LaunchedTogether`), that one closer is
in the body of `closeOnce` and `done` is open until it signals (`OneCloses`),
and that what is in the channel after the drain was not there when the sink was
closed (`Drains`), for which a record enters the channel at most once
(`OfferedOnce`, `HeldIsStamped`). `CloseFlushes` alone is not inductive: nothing
in it says that a record sent after the drain differs from those buffered before.

`StoreReceivesInOrder` is from `OrderInv`: what was written of a kind precedes
what is in the batch, which precedes what is in the channel, each in the order
of entry. `StrandedAtMostOnePerWorker` is from `StrandedInv`: once
the writer has looked at the empty channel for the last time, the records in it
and the workers still between the two selects of `offer` are together no more
than the workers.

`SinkKeepsItsPromise` is the refinement of `Recorder`, from the same `Inv`. The
records of a kind in the channel are picked by rank: `Rank(q, t, i)` is how many
of that kind are among the first `i`. The rank grows by one at each position of
the kind, so it numbers them without gaps (`RankOnto`, `RankDistinct`), and
`OfKind` follows a send (`OfKindAppend`) and a receive (`OfKindTail`). Then a
send is an `Accept`, a receive moves a record from channel to batch and changes
no queue, the two halves of `flush` are `Write` or `Refuse`, and every other
step changes nothing `Recorder` sees.

`FleetProofs`: `TypeCorrect`, `LiveSiblingsAreSpared`, `DeadAreResolved`,
`FleetImplementsHistory`. The invariant bounds the age of a heartbeat:
`BeatIsRecent` (a beating process was seen no longer ago than its missed beats
and the current one account for), `ClaimIsRecent` (a claimed epoch was seen
within `StartDelay`), and says that what is shown or queued for a job was
reported by its own hooks (`LiveJobsSurvive`, `QueuedWasTold`). With the gap
assumption no cutoff of any sibling passes the last heartbeat of a live process.
A buried process is gone and has nothing queued (`Lifecycle`). In the refinement
each step of a process is a step of `History` or changes nothing it shows.

`DriversProofs`. Records are written in any order and long after their hook, so
the proof begins with what a record on the way may say: `JobOK` (no time in the
future, no finish time before the job has one, nothing started or reported after
it, a final state only with the finish time) and `AttemptOK` hold of it when its
hook runs and remain true as the job lives on (`LateOK`, `JobLater`).
`StoresInv` describes the stores: `MemOK` and `DB` say the same of every row,
and that derived columns equal what they derive from and rowids are distinct and
below the counter. From it follow `DriversTypeOK`, `ColumnsStayDerived` and the action property
`PrunedRowsWereIdle`. `NamesLastAlways` adds `NamesInv`: a job that was stored by
name and has no row, and was not cut off, is finished and has nothing on the
way, so no nameless record follows.
`AttemptsFollowJobsAlways` adds `FollowInv`, which speaks of the middle of a
Postgres prune as well: a row the second statement is about to delete has no
attempts left unless a commit touched it since the first.

`AgreementProofs`. `RoundingSparesAlways`: the databases' heartbeats are the
memory driver's in whole microseconds (`Lockstep`), and truncation is monotone,
so a row that is stale or expired after truncation was so before.
`DriversAlwaysAgree` is the main result: for every job no tie has touched, the
upsert statement, the reconciliation and the prune of a database give the
truncation of what `Merge`, `Reconcile` and `Prune` give in memory, for any
values and any sequence of calls. `AgreeInv` has `Mirror` (the same row, column
by column), `Twin` (the same attempts: memory has a list in which no number
comes twice, `Listed`, the database a table by number and start time with a row
for each of them, `Tabled`) and, while a Postgres prune is half done,
`HalfPruned`: the rows memory has deleted are exactly those the second statement
will delete. `DriversAgree` says nothing of that middle and is not inductive.

The reads come after. `ListingsAlwaysAgree`: when every row is mirrored the
WHERE clauses select the same keys (`SelectionsSame`): the terms' because on the
terms of a plain filter the database's relation and `Occurs` are the same
(`TermsSame`), SQLite's attribute clause because a key that is no path is looked
up as it is, a cutoff's because no enqueue time is within its microsecond. Two sortings of one finite set, each by a total order that
refines the truncated enqueue time, have equal truncated times place by place:
if place `i` of one had a larger time than place `i` of the other, the `i` rows
up to there in the first would all be among the `i - 1` before it in the second
(`NoLarger`, by counting). So every window, page and lineage agrees.
`TimelineAccountsAlways`: a bucket is a whole number of microseconds, so a time
and its truncation are in the same slot (`SlotSame`, two nested divisions), the
slots read from the rows are those of the jobs (`SlotsSame`), and consecutive
slots cover the range from the cutoff's to the clock's.

`ListingProofs`: `ListingTypeOK`, `PagesFull`, `RepeatsBounded`,
`MissesBounded`, `WindowFrozen`, for any number of jobs and any page size.
`ListingInv` looks at the *edge* of a walk, the last place it has read:
`RepeatsAreEntries` is strengthened to "repeats so far, and shown rows now
behind the edge, which will be repeated", and `MissesAreLeaves` to "steady rows
not shown whose place is up to the edge", for a row is only missed when it moves
from behind the edge to before it (`WalkInv`). Places are numbered without gaps
(`PlaceDistinct`, `PlacesBound`), so a page has as many rows as the window has
places for it (`PageFull`), and a row that enters or leaves moves every place by at most
one, so each of the two counts moves by at most one (`MoveCounts`). A page
number cut down moves the edge back by pages already shown, which costs at most
a page of repeats, the `PerPage * clamps` of the property. `PagingInv` keeps the
count: after it, the window's size is the total plus what entered less what
left. `FrozenInv` says that every request for a deeper page has a window, and
that the window of every later request and link lies before the moment the first
page was rendered. None of the properties is
inductive alone: they speak of what was shown and not of what will be.

`AccessProofs`: `AccessTypeOK`, `SignedOutStaysOutAlways`, `AuditTellsAlways`,
`ActsInOneNameAlways`. `SignOutsKept`: every sign-out is remembered until its
session has expired, through the sweeps. `Judged`: while the CSRF check of a
control looks up the session anew, the one the policy judged is known, all
cookies before it are spent, and the lookup ends at it unless it is spent too.

`LimiterProofs`: `GuessesBoundedAlways`, `RefusalsJustifiedAlways`. `LimiterInv`
counts: an open window was opened by a check and holds as many checks as its
counter says, up to the burst; the stretch before it has fewer than a burst,
since the check that opened their window is older yet (`WindowInv`); a client
without a window had fewer than a burst lately (`IdleInv`). So a stretch that
reaches across two windows has less than two bursts, and one whose predecessor
was quiet lies within one window (`TwoBursts`). For this `past.checks` records
the time of every password check.

What the proofs corrected. `ActsInOneName` as first stated is false: a session
that was signed out is accepted again at the instant of its expiry, so the form
of that session passes while the policy judged another; the property names the
case now and `access` has an instance that reaches it. Two notes of `Drivers`
were too narrow: an attempt is adrift when SQLite alone has no row, and a
reconciliation touches the rows unfinished in Postgres, not only those
unfinished in memory. Neither changes what the stores do. `TimelineAccounts` at
first compared totals over the whole line, which jobs in wrong buckets satisfy;
it now says what each bucket counts, where it starts and that no gap is between
two. Assumptions the code gives and no run could miss had to be written down:
that a filter has the fields `NoFilter` has, that keys are finitely many. The
agreement of reads was one property and is two, `ListingsAgree` for what every
instance satisfies and `ReadsAgree` for what holds as long as no group or key is
cut off at a tie. Delivery in any order showed a second way to lose a name: a
late attempt record after the prune, which `NamesLast` now names.

Only model-checked, and why:

- `CloseReturns`, `BufferedSettles`, `GoroutinesExit`: liveness is out of the
  prover's reach.
- `ReadsAgree`: groups, attempts and attribute keys. The drivers sort groups by
  count and last activity and keys by use, which leaves ties in an order the
  code does not fix; with more groups than the limit the answers may differ, so
  the property holds where the limit exceeds them, as in the run, and not for
  every value of the constants. That the rows and attempts these reads see are
  alike is proved (`DriversAlwaysAgree`), and so are selection and tallies.
- The five properties a run refutes: there is nothing to prove.

## Not modelled, and why

- `Pruned`, error callbacks and option parsing: no control depends on them.
- The interior of a store call: the memory driver runs it under a lock, SQLite
  serialises writers, and a Postgres statement is atomic; only Postgres' `Prune`
  has two statements that read what others write. A batch of `UpsertJobs` is
  written one record per step in `Fleet` and `Drivers`, which allows more than
  the code does.
- A store call that fails after taking effect.
- Clocks that drift or jump; skew is constant.
- A `before` in the URL that no format parses: the page then has no window
  (`handler.go:603-612`). The pager and the JSON API never write one.
- Connections, pragmas and `rebind` of the SQL drivers.
- Overview, job detail, reference, status and live pages, `jobJSONByKey` and
  `liveJSON`: reads of one moment, and rendering.
- Cookie flags and paths, the ten minutes a login cookie lasts, `safeNext`,
  `StaticPassword`, `BearerToken`, `BasicAuth`, `RequireAuth`: stateless, or kept
  by the browser.
- The demo and the conformance suite.

## State of the project

Every part that keeps state is modelled, and every property of a passing run is
proved except the three of liveness and `ReadsAgree`. What could follow: a
Postgres prune against the reads (the driver models let reads run at any moment,
`ListingsAgree` speaks of moments without a prune under way), and a call of
`UpsertJobs` that takes effect and still returns an error.
