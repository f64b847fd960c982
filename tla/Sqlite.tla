------------------------------- MODULE Sqlite -------------------------------
(***************************************************************************)
(* The SQLite driver.  A database s is a record of its three tables        *)
(*   jobs      key -> row: the job's columns, with pattern and state_rank, *)
(*   attempts  <<key, number, started_at>> -> [state, err, finishedAt],    *)
(*   epochs    epoch -> seen_at,                                           *)
(* and rowid, which numbers the rows of jobs: a new row's is larger than   *)
(* any there, so it is the place of the row in the order of insertion.     *)
(* Times are stored and compared in whole microseconds.  A write is one    *)
(* transaction: writers are serialised, and one that fails leaves the      *)
(* tables as they were.                                                    *)
(***************************************************************************)
EXTENDS StoreQuery, FiniteSetsExt, SequencesExt

Unix(t) == IF t = 0 THEN 0 ELSE t \div Nanos

FromUnix(us) == IF us = 0 THEN 0 ELSE us * Nanos

TimeColumns == {"enqueuedAt", "startedAt", "finishedAt", "pgAt"}

\* Migrate creates empty tables.
Migrate == [jobs |-> <<>>, attempts |-> <<>>, epochs |-> <<>>, rowid |-> <<>>, inserts |-> 0]

\* The values UpsertJobs binds for one record.
Values(job) ==
    [c \in DOMAIN job \union {"pattern", "rank"} |->
        CASE c = "pattern"      -> NormalizeName(job.name)
          [] c = "rank"         -> Rank(job.state)
          [] c \in TimeColumns  -> Unix(job[c])
          [] OTHER              -> job[c]]

\* Mutant: INSERT OR REPLACE, the record takes the place of the row.
Replace(row, excluded) == [excluded EXCEPT !.epoch = row.epoch]

\* ON CONFLICT(key) DO UPDATE: key, id and epoch stay.
OnConflict(row, excluded) ==
    [c \in DOMAIN row |->
        CASE c \in {"queue", "name", "root", "parent"}   -> FillBlank(row[c], excluded[c])
          [] c = "pattern" -> IF row.pattern = <<>> THEN excluded.pattern ELSE row.pattern
          [] c = "state"   -> IF excluded.rank > row.rank THEN excluded.state ELSE row.state
          [] c \in {"rank", "attempt", "pgAt"}           -> Larger(row[c], excluded[c])
          [] c \in {"err", "attrs"}                      -> LastNonBlank(row[c], excluded[c])
          [] c \in {"enqueuedAt", "startedAt"}           -> FillZero(row[c], excluded[c])
          [] c \in {"finishedAt", "waitUS", "execUS"}    -> LastNonZero(row[c], excluded[c])
          [] c = "pg"      -> IF excluded.pgAt > row.pgAt THEN excluded.pg ELSE row.pg
          [] OTHER         -> row[c]]

\* INSERT of a row whose key is new.
InsertRow(s, key, row) ==
    [s EXCEPT !.jobs = Put(s.jobs, key, row),
              !.rowid = Put(s.rowid, key, s.inserts + 1),
              !.inserts = s.inserts + 1]

\* UpsertJobs, for one record of the batch.
UpsertJob(s, key, job) ==
    IF key \in DOMAIN s.jobs
    THEN [s EXCEPT !.jobs = Put(s.jobs, key, OnConflict(s.jobs[key], Values(job)))]
    ELSE InsertRow(s, key, Values(job))

\* SaveAttempts, for one record: the primary key decides what it replaces.
SaveAttempt(s, key, incoming) ==
    LET pk == <<key, incoming.n, Unix(incoming.startedAt)>>
        old == IF pk \in DOMAIN s.attempts THEN s.attempts[pk] ELSE [err |-> "", finishedAt |-> 0]
        new == [state |-> incoming.state,
                err |-> LastNonBlank(old.err, incoming.err),
                finishedAt |-> LastNonZero(old.finishedAt, Unix(incoming.finishedAt))]
    IN [s EXCEPT !.attempts = Put(s.attempts, pk, new)]

Heartbeat(s, epoch, seenAt) ==
    [s EXCEPT !.epochs = Put(s.epochs, epoch, Unix(seenAt))]

\* Mutant: an epoch seen exactly at the cutoff counts as dead.
BeatingAfter(s, cutoff) == {e \in DOMAIN s.epochs : s.epochs[e] > 0 /\ s.epochs[e] > cutoff}

\* The subquery of ReconcileEpoch: the epochs that are still beating.
BeatingEpochs(s, cutoff) == {e \in DOMAIN s.epochs : s.epochs[e] > 0 /\ s.epochs[e] >= cutoff}

\* Mutant: the rank column is left as it was.
InterruptState(row) == [row EXCEPT !.state = "interrupted"]

Interrupt(row) == [row EXCEPT !.state = "interrupted", !.rank = 3]

\* ReconcileEpoch interrupts the unfinished rows of the epochs that stopped beating.
ReconcileEpoch(s, epoch, staleAfter, now) ==
    LET orphan(row) == /\ row.epoch # epoch /\ row.rank < 3
                       /\ row.epoch \notin BeatingEpochs(s, Unix(now - staleAfter))
    IN [s EXCEPT !.jobs = [k \in DOMAIN s.jobs |->
            IF orphan(s.jobs[k]) THEN Interrupt(s.jobs[k]) ELSE s.jobs[k]]]

\* The column expression MAX(finished_at, enqueued_at).
LastSeen(row) == Larger(row.finishedAt, row.enqueuedAt)

\* The WHERE clause of Prune.
Expired(s, cutoff, states) ==
    {k \in DOMAIN s.jobs : /\ cutoff # 0
                           /\ s.jobs[k].rank = 3
                           /\ LastSeen(s.jobs[k]) < cutoff
                           /\ states = {} \/ s.jobs[k].state \in states}

DeleteAttempts(s, keys) ==
    [s EXCEPT !.attempts = Delete(s.attempts, {p \in DOMAIN s.attempts : p[1] \in keys})]

DeleteJobs(s, keys) ==
    [s EXCEPT !.jobs = Delete(s.jobs, keys), !.rowid = Delete(s.rowid, keys)]

\* Prune deletes the attempts and then the rows, in one transaction.
PruneStore(s, before, states) ==
    LET gone == Expired(s, Unix(before), states)
    IN DeleteJobs(DeleteAttempts(s, gone), gone)

----------------------------------------------------------------------------
(* Reads. *)

\* scanJob turns a row back into a job.
ScanJob(row) ==
    [c \in DOMAIN row \ {"pattern", "rank"} |-> IF c \in TimeColumns THEN FromUnix(row[c]) ELSE row[c]]

\* Mutant: a row enqueued at Before is left out.
EnqueuedBefore(row, before) == row.enqueuedAt < Unix(before)

\* enqueued_at <= ?, for a filter that has a Before.
EnqueuedBy(row, before) == row.enqueuedAt <= Unix(before)

\* json_extract(attributes, '$.' || key): a key with a dot, a bracket or a quote in it
\* is a path into nested values, and the stored map is flat.
JsonExtract(row, filter) == filter.attrKey \notin PathKeys /\ Carries(row.attrs, filter)

\* The clauses of a filter but the attribute's, searching with a pattern match.
Select(s, filter, like) ==
    {k \in DOMAIN s.jobs :
        LET row == s.jobs[k] IN
        /\ filter.queue \in {"", row.queue}
        /\ filter.name \in {"", row.name}
        /\ filter.before = 0 \/ EnqueuedBy(row, filter.before)
        /\ filter.pattern \in {<<>>, row.pattern}
        /\ filter.states = {} \/ row.state \in filter.states
        /\ \A t \in filter.terms : <<KeyFor[k].id, t>> \in like \/ <<row.name, t>> \in like}

\* The keys of the rows that satisfy the WHERE clause of a filter.
Predicate(s, filter) ==
    {k \in Select(s, filter, Like) : filter.attrKey = "" \/ JsonExtract(s.jobs[k], filter)}

\* Mutant: ORDER BY rowid, as if rows were inserted in the order jobs were enqueued.
InsertedAfter(s, j, k) == s.rowid[j] > s.rowid[k]

\* ORDER BY enqueued_at, rowid.
After(s, j, k) == \/ s.jobs[j].enqueuedAt > s.jobs[k].enqueuedAt
                  \/ s.jobs[j].enqueuedAt = s.jobs[k].enqueuedAt /\ s.rowid[j] > s.rowid[k]

Newest(s) == {p \in (DOMAIN s.jobs) \X (DOMAIN s.jobs) : After(s, p[1], p[2])}
Oldest(s) == {p \in (DOMAIN s.jobs) \X (DOMAIN s.jobs) : After(s, p[2], p[1])}

\* The selected rows, newest first, one page of them.
ListRows(s, selected, filter) ==
    Window(InOrder(selected, Newest(s)), Clip(filter.limit, JobLimits), filter.offset)

Jobs(s, filter) == ListRows(s, Predicate(s, filter), filter)

CountJobs(s, filter) == Cardinality(Predicate(s, filter))

\* GROUP BY family, state, err ORDER BY total DESC, last_seen DESC.
GroupRows(s, selected, limit) ==
    LET family(k) == [pattern |-> IF s.jobs[k].pattern # <<>> THEN s.jobs[k].pattern
                                  ELSE <<"(unnamed)">>,
                      state |-> s.jobs[k].state, err |-> s.jobs[k].err]
        members(g) == {k \in selected : family(k) = g}
        group(g) == [of |-> g, count |-> Cardinality(members(g)),
                     lastSeen |-> FromUnix(Max({LastSeen(s.jobs[k]) : k \in members(g)}))]
    IN Window(SetToSortSeq({group(family(k)) : k \in selected},
                           LAMBDA a, b : \/ a.count > b.count
                                         \/ a.count = b.count /\ a.lastSeen > b.lastSeen),
              Clip(limit, GroupLimits), 0)

GroupJobs(s, filter, limit) == GroupRows(s, Predicate(s, filter), limit)

\* Mutant: the fill loop stops before the bucket the clock is in.
LastSlotShort(now, width) == (Unix(now) \div width) - 1

LastSlot(now, width) == Unix(now) \div width

\* Timeline groups by slot and fills the range so quiet periods are visible.
Timeline(s, since, bucket, now) ==
    LET width == bucket \div Nanos
        aged == {k \in DOMAIN s.jobs : s.jobs[k].rank = 3 /\ LastSeen(s.jobs[k]) >= Unix(since)}
        in(slot, states) == Cardinality({k \in aged : /\ LastSeen(s.jobs[k]) \div width = slot
                                                      /\ s.jobs[k].state \in states})
        first == Unix(since) \div width
    IN CASE SinceWhen(since, now) \div bucket > MaxBuckets -> [err |-> TRUE, buckets |-> <<>>]
         [] SinceWhen(since, now) \div bucket <= MaxBuckets /\ Unix(since) = 0 ->
                [err |-> FALSE, buckets |-> <<>>]
         [] OTHER ->
                [err |-> FALSE,
                 buckets |-> [i \in 1..(LastSlot(now, width) - first + 1) |->
                                [start |-> FromUnix((first + i - 1) * width),
                                 completed |-> in(first + i - 1, {"completed"}),
                                 failed |-> in(first + i - 1, FailureStates)]]]

AttributeKeys(s, limit) ==
    LET keys(k) == DOMAIN AttrMap[s.jobs[k].attrs]
        tally(a) == Cardinality({k \in DOMAIN s.jobs : a \in keys(k)})
    IN Window(SetToSortSeq(UNION {keys(k) : k \in DOMAIN s.jobs}, LAMBDA a, b : tally(a) > tally(b)),
              Clip(limit, AttrLimits), 0)

\* Job reads the row and then its attempts ORDER BY started_at.
Job(s, key) ==
    LET own == {p \in DOMAIN s.attempts : p[1] = key}
        scan(p) == [n |-> p[2], state |-> s.attempts[p].state, err |-> s.attempts[p].err,
                    startedAt |-> FromUnix(p[3]), finishedAt |-> FromUnix(s.attempts[p].finishedAt)]
    IN [found |-> key \in DOMAIN s.jobs,
        attempts |-> IF key \notin DOMAIN s.jobs THEN <<>>
                     ELSE SetToSortSeq({scan(p) : p \in own}, LAMBDA a, b : a.startedAt < b.startedAt)]

Lineage(s, epoch, queue, root) ==
    InOrder({k \in DOMAIN s.jobs : /\ s.jobs[k].epoch = epoch
                                   /\ s.jobs[k].queue = queue
                                   /\ root \in {s.jobs[k].root, KeyFor[k].id}}, Oldest(s))

Counts(s) ==
    [st \in {s.jobs[k].state : k \in DOMAIN s.jobs} |->
        Cardinality({k \in DOMAIN s.jobs : s.jobs[k].state = st})]
============================================================================
