------------------------------ MODULE Postgres ------------------------------
(***************************************************************************)
(* The Postgres driver, ported from the SQLite one.  Its tables are the    *)
(* same, with a BIGSERIAL column seq for SQLite's rowid: a sequence grows  *)
(* with every insert, so it is again the place in that order.  Where a     *)
(* statement is the SQLite driver's but for the dialect (GREATEST for      *)
(* MAX, numbered parameters), the definition is that driver's.  What       *)
(* differs is the search, the attribute lookup and, because transactions   *)
(* run at READ COMMITTED, that the two statements of Prune see different    *)
(* snapshots.                                                              *)
(***************************************************************************)
EXTENDS StoreQuery

L == INSTANCE Sqlite

Unix(t) == L!Unix(t)

FromUnix(us) == L!FromUnix(us)

Migrate == L!Migrate

OnConflict(row, excluded) == L!OnConflict(row, excluded)

\* UpsertJobs, for one record of the batch.
UpsertJob(s, key, job) ==
    IF key \in DOMAIN s.jobs
    THEN [s EXCEPT !.jobs = Put(s.jobs, key, OnConflict(s.jobs[key], L!Values(job)))]
    ELSE L!InsertRow(s, key, L!Values(job))

SaveAttempt(s, key, incoming) == L!SaveAttempt(s, key, incoming)

Heartbeat(s, epoch, seenAt) == L!Heartbeat(s, epoch, seenAt)

ReconcileEpoch(s, epoch, staleAfter, now) == L!ReconcileEpoch(s, epoch, staleAfter, now)

\* The WHERE clause of Prune.
Expired(s, before, states) == L!Expired(s, Unix(before), states)

\* The first statement of Prune: the attempts of the rows that are expired now.
PruneAttempts(s, before, states) == L!DeleteAttempts(s, Expired(s, before, states))

\* The second statement, which judges the rows again, and the commit.
PruneJobs(s, before, states) == L!DeleteJobs(s, Expired(s, before, states))

----------------------------------------------------------------------------
(* Reads. *)

ScanJob(row) == L!ScanJob(row)

\* ILIKE searches, which takes a backslash as an escape and folds every letter's case;
\* jsonb_exists and ->> look the key up as it is.
Predicate(s, filter) ==
    {k \in L!Select(s, filter, ILike) : filter.attrKey = "" \/ Carries(s.jobs[k].attrs, filter)}

Jobs(s, filter) == L!ListRows(s, Predicate(s, filter), filter)

CountJobs(s, filter) == Cardinality(Predicate(s, filter))

GroupJobs(s, filter, limit) == L!GroupRows(s, Predicate(s, filter), limit)

Timeline(s, since, bucket, now) == L!Timeline(s, since, bucket, now)

AttributeKeys(s, limit) == L!AttributeKeys(s, limit)

Job(s, key) == L!Job(s, key)

Lineage(s, epoch, queue, root) == L!Lineage(s, epoch, queue, root)

Counts(s) == L!Counts(s)
============================================================================
