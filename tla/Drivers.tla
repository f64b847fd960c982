------------------------------ MODULE Drivers ------------------------------
(***************************************************************************)
(* The three drivers under one sequence of calls, the way the conformance  *)
(* suite holds every backend to the same answers, but over all short       *)
(* sequences.  The calls are those a sink makes for its jobs: the records  *)
(* of the hooks, in any order; heartbeats; the reconciliation of another   *)
(* process that starts; retention.                                         *)
(*                                                                         *)
(* A hook leaves its record on the way to the store.  Hook delivery is not *)
(* ordered (store.go), so any record on the way may be written next, and   *)
(* one that the sink shed is never written.                                *)
(*                                                                         *)
(* Calls run one at a time, except that on Postgres the two statements of  *)
(* a Prune are apart and other processes commit in between.  The memory    *)
(* and SQLite drivers prune at once.  A call that fails changes nothing.   *)
(***************************************************************************)
EXTENDS StoreQuery

CONSTANTS NameOf, AttrsOf, RootOf, ParentOf,    \* what the jobs of the run are given
          StaleAfter,               \* how long an epoch may be silent
          Retentions,               \* [age, states] of the prunes that may run
          Genesis, MaxClock,        \* the clock runs from Genesis to MaxClock
          Budgets,                  \* bounds, see Within
          Filters,                  \* the filters readers use
          Sinces, Bucket            \* the cutoffs and the bucket width of timelines

VARIABLES mem, lite, pg,    \* the three stores
          clock,
          when,             \* for each job: when it was enqueued, started and finished, and
                            \* when its attempts began, the last of which may be running
          late, lateTries,  \* for each job: its job and attempt records on the way
          past,             \* for each job: what its history has met, see Note
          pruning,          \* the Postgres prune between its two statements, or {}
          events, rounds    \* how many events each job has had, and other calls in all

vars == <<mem, lite, pg, clock, when, late, lateTries, past, pruning, events, rounds>>

M == INSTANCE Memory
L == INSTANCE Sqlite
P == INSTANCE Postgres

Keys == DOMAIN KeyFor
Epochs == {KeyFor[k].epoch : k \in Keys}

ASSUME DriversAssumption ==
    /\ {StaleAfter, Genesis, MaxClock} \subseteq Nat /\ Genesis <= MaxClock
    /\ \A k \in Keys : NameOf[k] \in DOMAIN Segments \union {""}
    /\ \A r \in Retentions : r.age \in Nat
    /\ \A b \in Budgets : b.events \in [Keys -> Nat] /\ {b.rounds, b.late} \subseteq Nat
    /\ Genesis - StaleAfter >= Nanos    \* the zero time is long ago
    /\ Bucket \in Nat \ {0} /\ Bucket % Nanos = 0
    /\ \A f \in Filters : DOMAIN f = DOMAIN NoFilter /\ {f.before, f.limit, f.offset} \subseteq Nat

----------------------------------------------------------------------------
(* What history may have met that the drivers need not agree on.           *)
(*   tied    two different times within one microsecond were compared      *)
(*   raced   a commit touched it between the statements of a prune         *)
(*   adrift  an attempt was saved while the job had no row                 *)
(*   named   a record that names the job was stored                        *)
(*   cut     its row was pruned as interrupted, or before its last record  *)

Notes == {"tied", "raced", "adrift", "named", "cut"}

Near(a, b) == a # b /\ L!Unix(a) = L!Unix(b)

\* past after the keys of each note are noted; keys touched during a prune have raced.
Note(touched, tied, adrift, named, cut) ==
    past' = [k \in Keys |->
        past[k] \union {n \in Notes :
            \/ n = "tied" /\ k \in tied
            \/ n = "raced" /\ pruning # {} /\ k \in touched
            \/ n = "adrift" /\ k \in adrift
            \/ n = "named" /\ k \in named
            \/ n = "cut" /\ k \in cut}]

Init ==
    /\ mem = M!Open /\ lite = L!Migrate /\ pg = P!Migrate
    /\ clock = Genesis
    /\ when = [k \in Keys |-> [enqueued |-> 0, started |-> 0, finished |-> 0,
                               tries |-> <<>>, trying |-> FALSE]]
    /\ late = [k \in Keys |-> {}] /\ lateTries = [k \in Keys |-> {}]
    /\ past = [k \in Keys |-> {}]
    /\ pruning = {}
    /\ events = [k \in Keys |-> 0] /\ rounds = 0

----------------------------------------------------------------------------
(* Hooks.  Each leaves a record on the way, numbered by the job's events.   *)

\* The run stays within one of the budgets: so many events of each job, so many other
\* calls, and so many job records of each job on the way, or lost, at any time.
Within ==
    \E b \in Budgets :
        /\ rounds <= b.rounds
        /\ \A k \in Keys : events[k] <= b.events[k] /\ Cardinality(late[k]) <= b.late

Event(k) == events' = [events EXCEPT ![k] = @ + 1] /\ UNCHANGED rounds /\ Within'
Round == rounds' = rounds + 1 /\ UNCHANGED <<clock, when, late, lateTries, events>> /\ Within'

Microseconds(from, to) == (to - from) \div Nanos

\* The job record of a hook, with the times and durations known so far.  Such an
\* event carries no attempt number.
JobEvent(k, times) ==
    [BlankJob(KeyFor[k].epoch) EXCEPT
        !.queue = KeyFor[k].queue, !.name = NameOf[k], !.attrs = AttrsOf[k],
        !.root = RootOf[k], !.parent = ParentOf[k],
        !.enqueuedAt = times.enqueued, !.startedAt = times.started, !.finishedAt = times.finished,
        !.waitUS = IF times.started = 0 THEN 0 ELSE Microseconds(times.enqueued, times.started),
        !.execUS = IF times.started = 0 \/ times.finished = 0 THEN 0
                   ELSE Microseconds(times.started, times.finished)]

Offer(k, job) == late' = [late EXCEPT ![k] = @ \union {[no |-> events[k], job |-> job]}]

\* A hook that makes a job record only.
Hook(k, job) ==
    /\ Offer(k, job) /\ Event(k)
    /\ UNCHANGED <<mem, lite, pg, clock, lateTries, past, pruning>>

OnEnqueue(k) ==
    /\ when[k].enqueued = 0
    /\ when' = [when EXCEPT ![k].enqueued = clock]
    /\ Hook(k, JobEvent(k, when'[k]))

OnStart(k) ==
    /\ when[k].enqueued # 0 /\ when[k].started = 0 /\ when[k].finished = 0
    /\ when' = [when EXCEPT ![k].started = clock]
    /\ Hook(k, [JobEvent(k, when'[k]) EXCEPT !.state = "active"])

\* How a job may end: one that never started can only be abandoned.
Endings(k) ==
    IF when[k].started = 0 THEN {[state |-> "abandoned", err |-> ""]}
    ELSE {[state |-> "completed", err |-> ""], [state |-> "discarded", err |-> "expired"]}
            \union {[state |-> FailureState(err), err |-> err] : err \in {"boom", "cancelled"}}

OnEnd(k) ==
    /\ when[k].enqueued # 0 /\ when[k].finished = 0 /\ ~when[k].trying
    /\ when' = [when EXCEPT ![k].finished = clock]
    /\ \E end \in Endings(k) :
            Hook(k, [JobEvent(k, when'[k]) EXCEPT !.state = end.state, !.err = end.err])

Running(k) == when[k].started # 0 /\ when[k].finished = 0

\* The number of the attempt a running job is at: cq counts attempts from 0.
Attempt(k) == IF when[k].tries = <<>> THEN 0 ELSE Len(when[k].tries) - 1

ReportProgress(k) ==
    /\ Running(k)
    /\ Hook(k, [JobEvent(k, when[k]) EXCEPT
                    !.state = "active", !.startedAt = 0, !.waitUS = 0,
                    !.attempt = Attempt(k), !.pg = events[k], !.pgAt = clock])
    /\ UNCHANGED when

\* offerAttempt: a job record without name and times that lifts the attempt number n,
\* and the record of the attempt.
OfferAttempt(k, n, attempt) ==
    /\ Offer(k, [BlankJob(KeyFor[k].epoch) EXCEPT
                    !.queue = KeyFor[k].queue, !.state = "active", !.root = RootOf[k], !.attempt = n])
    /\ lateTries' = [lateTries EXCEPT ![k] = @ \union {attempt}]
    /\ Event(k)
    /\ UNCHANGED <<mem, lite, pg, clock, past, pruning>>

OnAttemptStart(k) ==
    /\ Running(k) /\ ~when[k].trying
    /\ when' = [when EXCEPT ![k].tries = Append(@, clock), ![k].trying = TRUE]
    /\ OfferAttempt(k, Len(when[k].tries),
                    [n |-> Len(when[k].tries), state |-> "active", err |-> "",
                     startedAt |-> clock, finishedAt |-> 0])

OnAttemptEnd(k) ==
    /\ Running(k) /\ when[k].trying
    /\ when' = [when EXCEPT ![k].trying = FALSE]
    /\ \E end \in {[state |-> "completed", err |-> ""], [state |-> "failed", err |-> "boom"]} :
            OfferAttempt(k, Attempt(k),
                         [n |-> Attempt(k), state |-> end.state, err |-> end.err,
                          startedAt |-> when[k].tries[Len(when[k].tries)], finishedAt |-> clock])

----------------------------------------------------------------------------
(* Calls of the stores. *)

\* UpsertJobs with one record for k.
Store(k, job) ==
    /\ mem' = M!UpsertJob(mem, k, job)
    /\ lite' = L!UpsertJob(lite, k, job)
    /\ pg' = P!UpsertJob(pg, k, job)
    /\ Note({k}, {j \in {k} \intersect DOMAIN mem.jobs : Near(mem.jobs[j].pgAt, job.pgAt)},
            {}, IF job.name = "" THEN {} ELSE {k}, {})
    /\ UNCHANGED <<clock, when, lateTries, pruning, events, rounds>>

UpsertJobs(k) == \E r \in late[k] : Store(k, r.job) /\ late' = [late EXCEPT ![k] = @ \ {r}]

\* SaveAttempts with one record for k.
SaveAttempts(k) ==
    /\ \E a \in lateTries[k] :
            /\ mem' = M!SaveAttempt(mem, k, a)
            /\ lite' = L!SaveAttempt(lite, k, a)
            /\ pg' = P!SaveAttempt(pg, k, a)
            /\ lateTries' = [lateTries EXCEPT ![k] = @ \ {a}]
    /\ Note({k}, {}, {k} \ (DOMAIN mem.jobs \intersect DOMAIN lite.jobs \intersect DOMAIN pg.jobs), {}, {})
    /\ UNCHANGED <<clock, when, late, pruning, events, rounds>>

\* A process beats, or retires its epoch with the zero time.
Heartbeat(e) ==
    /\ Round
    /\ \E t \in {clock, 0} :
            /\ mem' = M!Heartbeat(mem, e, t)
            /\ lite' = L!Heartbeat(lite, e, t)
            /\ pg' = P!Heartbeat(pg, e, t)
    /\ UNCHANGED <<past, pruning>>

\* A process of epoch e starts and reconciles.
ReconcileEpoch(e) ==
    LET unfinished(s) == {k \in DOMAIN s.jobs : s.jobs[k].epoch # e /\ ~Terminal(s.jobs[k].state)}
        near == {k \in unfinished(mem) : /\ mem.jobs[k].epoch \in DOMAIN mem.epochs
                                    /\ Near(mem.epochs[mem.jobs[k].epoch], clock - StaleAfter)}
    IN /\ Round
       /\ mem' = M!ReconcileEpoch(mem, e, StaleAfter, clock)
       /\ lite' = L!ReconcileEpoch(lite, e, StaleAfter, clock)
       /\ pg' = P!ReconcileEpoch(pg, e, StaleAfter, clock)
       /\ Note(unfinished(mem) \union unfinished(pg), near, {}, {}, {})
       /\ UNCHANGED pruning

\* Retention runs; Postgres has executed the first of its two statements.
BeginPrune(r) ==
    LET before == clock - r.age
        near == {k \in DOMAIN mem.jobs : Near(LastActive(mem.jobs[k]), before)}
        cut == {k \in Prunable(mem.jobs, before, r.states) :
                    mem.jobs[k].state = "interrupted" \/ late[k] # {}}
    IN /\ Round /\ pruning = {}
       /\ mem' = M!PruneStore(mem, before, r.states)
       /\ lite' = L!PruneStore(lite, before, r.states)
       /\ pg' = P!PruneAttempts(pg, before, r.states)
       /\ pruning' = {[before |-> before, states |-> r.states]}
       /\ Note({}, near, {}, {}, cut)

\* The second statement, and the commit.
EndPrune ==
    /\ \E p \in pruning : pg' = P!PruneJobs(pg, p.before, p.states)
    /\ pruning' = {}
    /\ UNCHANGED <<mem, lite, clock, when, late, lateTries, past, events, rounds>>

Tick ==
    /\ clock < MaxClock
    /\ clock' = clock + 1
    /\ UNCHANGED <<mem, lite, pg, when, late, lateTries, past, pruning, events, rounds>>

Next ==
    \/ \E k \in Keys : \/ OnEnqueue(k) \/ OnStart(k) \/ OnEnd(k) \/ ReportProgress(k)
                       \/ OnAttemptStart(k) \/ OnAttemptEnd(k)
                       \/ UpsertJobs(k) \/ SaveAttempts(k)
    \/ \E e \in Epochs : Heartbeat(e) \/ ReconcileEpoch(e)
    \/ \E r \in Retentions : BeginPrune(r)
    \/ EndPrune
    \/ Tick

Spec == Init /\ [][Next]_vars

----------------------------------------------------------------------------
(* Properties. *)

\* The three stores hold rows, attempts and heartbeats of the right shape.
TypeOK ==
    /\ \A s \in {mem, lite, pg} : /\ DOMAIN s.jobs \subseteq Keys
                                  /\ DOMAIN s.epochs \subseteq Epochs
                                  /\ \A k \in DOMAIN s.jobs : s.jobs[k].state \in State
    /\ \A s \in {lite, pg} : /\ DOMAIN s.attempts \subseteq Keys \X Nat \X Nat
                             /\ s.rowid \in [DOMAIN s.jobs -> 1..s.inserts]
                             /\ \A j, k \in DOMAIN s.jobs : s.rowid[j] = s.rowid[k] => j = k
    /\ clock \in Genesis..MaxClock
    /\ past \in [Keys -> SUBSET Notes]

Truncated(t) == L!FromUnix(L!Unix(t))

\* A job as a driver that keeps microseconds returns it.
Image(job) == [c \in DOMAIN job |-> IF c \in L!TimeColumns THEN Truncated(job[c]) ELSE job[c]]

\* The attempts of k in a database, and those of the memory store as it would return them.
RowAttempts(s, k) == {p \in DOMAIN s.attempts : p[1] = k}
ImageAttempts(k) ==
    LET own == mem.attempts[k] IN
    [p \in {<<k, own[i].n, L!Unix(own[i].startedAt)>> : i \in DOMAIN own} |->
        LET a == own[CHOOSE i \in DOMAIN own : own[i].n = p[2]]
        IN [state |-> a.state, err |-> a.err, finishedAt |-> L!Unix(a.finishedAt)]]

\* A database and the memory store hold the same of k.
SameRow(s, k) ==
    /\ k \in DOMAIN s.jobs <=> k \in DOMAIN mem.jobs
    /\ k \in DOMAIN s.jobs => L!ScanJob(s.jobs[k]) = Image(mem.jobs[k])

SameAttempts(s, k) == [p \in RowAttempts(s, k) |-> s.attempts[p]] = ImageAttempts(k)

\* The conformance suite's claim for every short sequence of calls, the records of a
\* job in any order: a database holds what the reference driver holds, except for a
\* job of which two times within one microsecond were compared, or which a commit
\* touched inside a Postgres prune.
DriversAgree ==
    \A k \in Keys : "tied" \notin past[k] =>
        /\ SameRow(lite, k) /\ SameAttempts(lite, k)
        /\ pruning = {} /\ "raced" \notin past[k] => SameRow(pg, k) /\ SameAttempts(pg, k)

\* The columns the driver computes stay true to the ones they come from, through
\* every upsert, reconciliation and race: queries trust state_rank for state and
\* pattern for name.
DerivedColumns ==
    \A s \in {lite, pg} : \A k \in DOMAIN s.jobs :
        /\ s.jobs[k].rank = Rank(s.jobs[k].state)
        /\ s.jobs[k].pattern = NormalizeName(s.jobs[k].name)

\* Rounding to microseconds errs on the safe side: of a row both drivers hold alike,
\* SQLite interrupts or deletes only what the reference driver interrupts or deletes
\* in the same call.
RoundingSpares ==
    [][\A k \in DOMAIN lite.jobs : SameRow(lite, k) =>
        /\ k \notin DOMAIN lite.jobs' => k \notin DOMAIN mem.jobs'
        /\ k \in DOMAIN lite.jobs' /\ lite.jobs'[k].state = "interrupted"
              /\ lite.jobs[k].state # "interrupted"
           => mem.jobs'[k].state = "interrupted"]_vars

\* Pruning takes a job's attempts with its row: attempts without a row were saved
\* while the row was missing, or on Postgres lost their row to a prune that a
\* commit slipped into.  Nothing deletes them while no row has their key.
AttemptsFollowJobs ==
    \A k \in Keys :
        /\ k \notin DOMAIN mem.jobs /\ mem.attempts[k] # <<>> => "adrift" \in past[k]
        /\ k \notin DOMAIN lite.jobs /\ RowAttempts(lite, k) # {} => "adrift" \in past[k]
        /\ k \notin DOMAIN pg.jobs /\ RowAttempts(pg, k) # {} => past[k] \intersect {"adrift", "raced"} # {}

\* Retention deletes a row that was started or reported at or after the cutoff only
\* when it is an interrupted one, which has no finish time and so is aged from its
\* enqueue time.
IdleBeforePruned ==
    [][\A k \in DOMAIN mem.jobs \ DOMAIN mem.jobs' : \A p \in pruning' :
        Larger(mem.jobs[k].startedAt, mem.jobs[k].pgAt) >= p.before
            => mem.jobs[k].state = "interrupted"]_vars

\* A job once stored under its name is nameless again only after its row was pruned
\* too early, as interrupted while the job lived on or with a record still on the way,
\* and the record of an attempt made a new row.
NamesLast ==
    \A k \in DOMAIN mem.jobs :
        mem.jobs[k].name = "" /\ "named" \in past[k] => "cut" \in past[k]

----------------------------------------------------------------------------
(* Reads. *)

\* No job met a tie or a race, and no prune is half done.
Clean == pruning = {} /\ \A k \in Keys : past[k] \intersect {"tied", "raced"} = {}

\* The filters on which a database is held to the reference driver's answer: no
\* enqueue time within the microsecond of Before, and no term that its pattern match
\* takes otherwise than as the text to be found (a wildcard, for both; a backslash, for
\* ILIKE; a letter outside ASCII, of which SQLite's LIKE does not fold the case).
Plain(f, like) ==
    /\ \A k \in DOMAIN mem.jobs : ~Near(mem.jobs[k].enqueuedAt, f.before)
    /\ \A pair \in (like \ Occurs) \union (Occurs \ like) : pair[2] \notin f.terms

Elements(seq) == {seq[i] : i \in DOMAIN seq}

\* The groups of the memory store as a driver that keeps microseconds returns them.
ImageGroups(seq) == {[g EXCEPT !.lastSeen = Truncated(@)] : g \in Elements(seq)}

\* One listing read from two stores: as long, and in the same order by time.
SameOrder(s, a, b) ==
    /\ Len(a) = Len(b)
    /\ \A i \in DOMAIN a : Truncated(mem.jobs[a[i]].enqueuedAt) = L!FromUnix(s.jobs[b[i]].enqueuedAt)

\* A reader finds the same jobs on the three drivers: the same are selected and
\* counted, and every page of a listing and every lineage shows them in the same order,
\* up to the order of ties.  Searches for terms that are not plain may differ.
ListingsAgree ==
    Clean =>
    /\ \A f \in Filters :
        LET found == M!Matching(mem, f)
            page == M!Jobs(mem, f)
        IN /\ Plain(f, ILike) =>
                /\ P!Predicate(pg, f) = found /\ P!CountJobs(pg, f) = M!CountJobs(mem, f)
                /\ SameOrder(pg, page, P!Jobs(pg, f))
           /\ Plain(f, Like) /\ f.attrKey \notin PathKeys =>
                /\ L!Predicate(lite, f) = found /\ L!CountJobs(lite, f) = M!CountJobs(mem, f)
                /\ SameOrder(lite, page, L!Jobs(lite, f))
    /\ \A k \in Keys :
        LET line == M!Lineage(mem, KeyFor[k].epoch, KeyFor[k].queue, RootOf[k]) IN
        /\ SameOrder(lite, line, L!Lineage(lite, KeyFor[k].epoch, KeyFor[k].queue, RootOf[k]))
        /\ SameOrder(pg, line, P!Lineage(pg, KeyFor[k].epoch, KeyFor[k].queue, RootOf[k]))
    /\ M!Counts(mem) = L!Counts(lite) /\ M!Counts(mem) = P!Counts(pg)

\* An attempt as a driver that keeps microseconds returns it.
ImageAttempt(a) == [a EXCEPT !.startedAt = Truncated(@), !.finishedAt = Truncated(@)]

\* The reads whose order the code leaves open have the same content on the three
\* drivers: the groups of a listing, the attempts of a job, the attribute keys in use.
\* (The queue of an attempt, which only the reference driver returns, is left out.)
ReadsAgree ==
    Clean =>
    /\ \A f \in Filters :
        LET groups == ImageGroups(M!GroupJobs(mem, f, 0)) IN
        /\ Plain(f, ILike) => Elements(P!GroupJobs(pg, f, 0)) = groups
        /\ Plain(f, Like) /\ f.attrKey \notin PathKeys => Elements(L!GroupJobs(lite, f, 0)) = groups
    /\ \A k \in Keys :
        LET attempts == {ImageAttempt(a) : a \in Elements(M!Job(mem, k).attempts)} IN
        \A job \in {L!Job(lite, k), P!Job(pg, k)} :
            /\ job.found = M!Job(mem, k).found
            /\ Elements(job.attempts) = attempts /\ Len(job.attempts) = Len(M!Job(mem, k).attempts)
    /\ LET keys == Elements(M!AttributeKeys(mem, 0)) IN
       keys = Elements(L!AttributeKeys(lite, 0)) /\ keys = Elements(P!AttributeKeys(pg, 0))

\* The jobs that ended in one of the states since a cutoff and within a bucket from start on.
Ended(states, since, start) ==
    Cardinality({k \in DOMAIN mem.jobs : /\ mem.jobs[k].state \in states
                                         /\ LastActive(mem.jobs[k]) >= since
                                         /\ LastActive(mem.jobs[k]) \in start..(start + Bucket - 1)})

\* A timeline's buckets follow one another from the cutoff to now, and each counts the
\* jobs that ended within it, on every driver: so every job that ended in the range is
\* counted once.
TimelineAccounts ==
    Clean => \A since \in Sinces \intersect Nanos..clock :
        \A t \in {M!Timeline(mem, since, Bucket, clock), L!Timeline(lite, since, Bucket, clock),
                  P!Timeline(pg, since, Bucket, clock)} :
            \/ t.err /\ (clock - since) \div Bucket > MaxBuckets
            \/ \E k \in DOMAIN mem.jobs : Near(LastActive(mem.jobs[k]), since)
            \/ /\ \A i \in DOMAIN t.buckets :
                    LET b == t.buckets[i] IN
                    /\ b.completed = Ended({"completed"}, since, b.start)
                    /\ b.failed = Ended(FailureStates, since, b.start)
                    /\ i > 1 => b.start = t.buckets[i - 1].start + Bucket
               /\ t.buckets[1].start <= since /\ t.buckets[Len(t.buckets)].start + Bucket > clock
============================================================================
