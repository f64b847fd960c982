---------------------------- MODULE DriversProofs ----------------------------
(***************************************************************************)
(* Proofs about the three drivers under one sequence of calls, for any     *)
(* keys, names, retentions and clocks and for sequences of any length.     *)
(***************************************************************************)
EXTENDS Drivers, TLAPS

Field == {"epoch", "queue", "state", "name", "err", "root", "parent", "attrs", "enqueuedAt",
          "startedAt", "finishedAt", "waitUS", "execUS", "attempt", "pg", "pgAt"}
Column == Field \union {"pattern", "rank"}
Table == {"jobs", "attempts", "epochs", "rowid", "inserts"}

\* The names the jobs of the run may have, blank while none is known.
Blank == ""
Names == {Blank} \union {NameOf[k] : k \in Keys}

\* The states a hook reports.
Reported == {"created", "active", "completed", "failed", "cancelled", "discarded", "abandoned"}

----------------------------------------------------------------------------
(* The drivers' copies of the shared operators are the shared operators. *)

LEMMA MemoryRules ==
    ASSUME NEW a, NEW b
    PROVE  /\ M!Rank(a) = Rank(a)
           /\ M!FillBlank(a, b) = FillBlank(a, b) /\ M!LastNonBlank(a, b) = LastNonBlank(a, b)
           /\ M!FillZero(a, b) = FillZero(a, b) /\ M!LastNonZero(a, b) = LastNonZero(a, b)
           /\ M!Larger(a, b) = Larger(a, b) /\ M!Newer(a, b) = Newer(a, b)
           /\ M!Advance(a, b) = Advance(a, b)
           /\ M!Terminal(a) = Terminal(a) /\ M!Beating(a, b) = Beating(a, b)
  BY DEF M!Rank, Rank, M!FillBlank, FillBlank, M!LastNonBlank, LastNonBlank, M!FillZero, FillZero,
         M!LastNonZero, LastNonZero, M!Larger, Larger, M!Newer, Newer, M!Advance, Advance,
         M!Terminal, Terminal, M!Beating, Beating

LEMMA MemoryMerge ==
    ASSUME NEW a, NEW b
    PROVE  M!Merge(a, b) = Merge(a, b) /\ M!LastActive(a) = LastActive(a)
  BY MemoryRules DEF M!Merge, Merge, M!LastActive, LastActive

LEMMA MemoryRows ==
    ASSUME NEW rows, NEW a, NEW b, NEW c
    PROVE  /\ M!Upsert(rows, a, b) = Upsert(rows, a, b)
           /\ M!Reconcile(rows, a, b, c) = Reconcile(rows, a, b, c)
           /\ M!Prunable(rows, a, b) = Prunable(rows, a, b)
           /\ M!Prune(rows, a, b) = Prune(rows, a, b)
           /\ M!Put(rows, a, b) = Put(rows, a, b)
  <1>1. M!Upsert(rows, a, b) = Upsert(rows, a, b)
    BY MemoryMerge DEF M!Upsert, Upsert
  <1>2. M!Reconcile(rows, a, b, c) = Reconcile(rows, a, b, c)
    BY MemoryRules DEF M!Reconcile, Reconcile
  <1>3. M!Prunable(rows, a, b) = Prunable(rows, a, b)
    BY MemoryRules, MemoryMerge DEF M!Prunable, Prunable
  <1>4. M!Prune(rows, a, b) = Prune(rows, a, b)
    BY <1>3 DEF M!Prune, Prune
  <1>5. M!Put(rows, a, b) = Put(rows, a, b)
    BY DEF M!Put, Put
  <1> QED
    BY <1>1, <1>2, <1>3, <1>4, <1>5

LEMMA DatabaseRules ==
    ASSUME NEW a, NEW b
    PROVE  /\ L!Rank(a) = Rank(a) /\ P!L!Rank(a) = Rank(a)
           /\ L!FillBlank(a, b) = FillBlank(a, b) /\ P!L!FillBlank(a, b) = FillBlank(a, b)
           /\ L!LastNonBlank(a, b) = LastNonBlank(a, b) /\ P!L!LastNonBlank(a, b) = LastNonBlank(a, b)
           /\ L!FillZero(a, b) = FillZero(a, b) /\ P!L!FillZero(a, b) = FillZero(a, b)
           /\ L!LastNonZero(a, b) = LastNonZero(a, b) /\ P!L!LastNonZero(a, b) = LastNonZero(a, b)
           /\ L!Larger(a, b) = Larger(a, b) /\ P!L!Larger(a, b) = Larger(a, b)
  BY DEF L!Rank, P!L!Rank, Rank, L!FillBlank, P!L!FillBlank, FillBlank, L!LastNonBlank,
         P!L!LastNonBlank, LastNonBlank, L!FillZero, P!L!FillZero, FillZero, L!LastNonZero,
         P!L!LastNonZero, LastNonZero, L!Larger, P!L!Larger, Larger

LEMMA DatabaseNames ==
    ASSUME NEW n
    PROVE  L!NormalizeName(n) = NormalizeName(n) /\ P!L!NormalizeName(n) = NormalizeName(n)
  BY DEF L!NormalizeName, P!L!NormalizeName, NormalizeName, L!MaskSegment, P!L!MaskSegment, MaskSegment

LEMMA DatabaseTables ==
    ASSUME NEW f, NEW k, NEW v
    PROVE  /\ L!Put(f, k, v) = Put(f, k, v) /\ P!L!Put(f, k, v) = Put(f, k, v)
           /\ P!Put(f, k, v) = Put(f, k, v)
           /\ L!Delete(f, k) = Delete(f, k) /\ P!L!Delete(f, k) = Delete(f, k)
  BY DEF L!Put, P!L!Put, P!Put, Put, L!Delete, P!L!Delete, Delete

LEMMA DatabaseTimes ==
    ASSUME NEW t
    PROVE  P!L!Unix(t) = L!Unix(t) /\ P!Unix(t) = L!Unix(t) /\ P!L!TimeColumns = L!TimeColumns
  BY DEF P!Unix, P!L!Unix, L!Unix, P!L!TimeColumns, L!TimeColumns

(* The Postgres driver writes what the SQLite driver writes. *)

LEMMA PostgresValues ==
    ASSUME NEW job
    PROVE  P!L!Values(job) = L!Values(job)
  BY DatabaseRules, DatabaseNames, DatabaseTimes DEF P!L!Values, L!Values

LEMMA PostgresOnConflict ==
    ASSUME NEW row, NEW new
    PROVE  P!OnConflict(row, new) = L!OnConflict(row, new)
  BY DatabaseRules DEF P!OnConflict, P!L!OnConflict, L!OnConflict

LEMMA PostgresUpsert ==
    ASSUME NEW s, NEW k, NEW job
    PROVE  P!UpsertJob(s, k, job) = L!UpsertJob(s, k, job)
  <1> DEFINE row == L!Values(job)
  <1>a. P!L!Put(s.jobs, k, row) = L!Put(s.jobs, k, row)
    BY DatabaseTables
  <1>b. P!L!Put(s.rowid, k, s.inserts + 1) = L!Put(s.rowid, k, s.inserts + 1)
    BY DatabaseTables
  <1>1. P!L!InsertRow(s, k, row) = L!InsertRow(s, k, row)
    <2> HIDE DEF row
    <2> QED
      BY <1>a, <1>b, Zenon DEF P!L!InsertRow, L!InsertRow
  <1>2. P!Put(s.jobs, k, P!OnConflict(s.jobs[k], P!L!Values(job)))
          = L!Put(s.jobs, k, L!OnConflict(s.jobs[k], L!Values(job)))
    BY DatabaseTables, PostgresOnConflict, PostgresValues
  <1> QED
    BY <1>1, <1>2, PostgresValues DEF P!UpsertJob, L!UpsertJob

LEMMA PostgresWrites ==
    ASSUME NEW s, NEW k, NEW a, NEW b
    PROVE  /\ P!SaveAttempt(s, k, a) = L!SaveAttempt(s, k, a)
           /\ P!Heartbeat(s, k, a) = L!Heartbeat(s, k, a)
           /\ P!ReconcileEpoch(s, k, a, b) = L!ReconcileEpoch(s, k, a, b)
           /\ P!Expired(s, a, b) = L!Expired(s, L!Unix(a), b)
           /\ P!PruneAttempts(s, a, b) = L!DeleteAttempts(s, L!Expired(s, L!Unix(a), b))
           /\ P!PruneJobs(s, a, b) = L!DeleteJobs(s, L!Expired(s, L!Unix(a), b))
  <1> DEFINE pk == <<k, a.n, L!Unix(a.startedAt)>>
             old == IF pk \in DOMAIN s.attempts THEN s.attempts[pk] ELSE [err |-> "", finishedAt |-> 0]
             new == [state |-> a.state, err |-> L!LastNonBlank(old.err, a.err),
                     finishedAt |-> L!LastNonZero(old.finishedAt, L!Unix(a.finishedAt))]
  <1>1. P!SaveAttempt(s, k, a) = L!SaveAttempt(s, k, a)
    <2>1. P!L!Unix(a.startedAt) = L!Unix(a.startedAt) /\ P!L!Unix(a.finishedAt) = L!Unix(a.finishedAt)
      BY DatabaseTimes
    <2>2. /\ P!L!LastNonBlank(old.err, a.err) = L!LastNonBlank(old.err, a.err)
          /\ P!L!LastNonZero(old.finishedAt, L!Unix(a.finishedAt))
               = L!LastNonZero(old.finishedAt, L!Unix(a.finishedAt))
      <3> HIDE DEF old
      <3> QED
        BY DatabaseRules
    <2>3. P!L!Put(s.attempts, pk, new) = L!Put(s.attempts, pk, new)
      <3> HIDE DEF pk, new
      <3> QED
        BY DatabaseTables
    <2> QED
      BY <2>1, <2>2, <2>3, Zenon DEF P!SaveAttempt, P!L!SaveAttempt, L!SaveAttempt
  <1>2. P!Heartbeat(s, k, a) = L!Heartbeat(s, k, a)
    BY DatabaseTables, DatabaseTimes DEF P!Heartbeat, P!L!Heartbeat, L!Heartbeat
  <1>3. P!ReconcileEpoch(s, k, a, b) = L!ReconcileEpoch(s, k, a, b)
    BY DatabaseTimes DEF P!ReconcileEpoch, P!L!ReconcileEpoch, L!ReconcileEpoch, P!L!Interrupt,
       L!Interrupt, P!L!BeatingEpochs, L!BeatingEpochs
  <1>4. P!Expired(s, a, b) = L!Expired(s, L!Unix(a), b)
    BY DatabaseRules, DatabaseTimes DEF P!Expired, P!L!Expired, L!Expired, P!L!LastSeen, L!LastSeen
  <1>5. P!PruneAttempts(s, a, b) = L!DeleteAttempts(s, L!Expired(s, L!Unix(a), b))
    BY <1>4, DatabaseTables DEF P!PruneAttempts, P!L!DeleteAttempts, L!DeleteAttempts
  <1>6. P!PruneJobs(s, a, b) = L!DeleteJobs(s, L!Expired(s, L!Unix(a), b))
    <2> DEFINE gone == L!Expired(s, L!Unix(a), b)
    <2>1. P!L!Delete(s.jobs, gone) = L!Delete(s.jobs, gone)
            /\ P!L!Delete(s.rowid, gone) = L!Delete(s.rowid, gone)
      <3> HIDE DEF gone
      <3> QED
        BY DatabaseTables
    <2> QED
      BY <1>4, <2>1, Zenon DEF P!PruneJobs, P!L!DeleteJobs, L!DeleteJobs
  <1> QED
    BY <1>1, <1>2, <1>3, <1>4, <1>5, <1>6

----------------------------------------------------------------------------
(* What each write does to the tables of a database. *)

LEMMA UpsertKnown ==
    ASSUME NEW s, DOMAIN s = Table, NEW k \in DOMAIN s.jobs, NEW job, NEW t, t = L!UpsertJob(s, k, job)
    PROVE  /\ DOMAIN t = Table
           /\ t.attempts = s.attempts /\ t.epochs = s.epochs
           /\ t.rowid = s.rowid /\ t.inserts = s.inserts
           /\ t.jobs = Put(s.jobs, k, L!OnConflict(s.jobs[k], L!Values(job)))
  <1> DEFINE f == Put(s.jobs, k, L!OnConflict(s.jobs[k], L!Values(job)))
  <1>1. f = L!Put(s.jobs, k, L!OnConflict(s.jobs[k], L!Values(job)))
    <2> DEFINE row == L!OnConflict(s.jobs[k], L!Values(job))
    <2> HIDE DEF row
    <2>1. Put(s.jobs, k, row) = L!Put(s.jobs, k, row)
      BY DatabaseTables
    <2> QED
      BY <2>1 DEF row
  <1>2. t = [s EXCEPT !.jobs = f]
    BY <1>1, Zenon DEF L!UpsertJob
  <1> HIDE DEF f
  <1>3. t.jobs = f
    BY <1>2 DEF Table
  <1>4. /\ DOMAIN t = Table
        /\ t.attempts = s.attempts /\ t.epochs = s.epochs
        /\ t.rowid = s.rowid /\ t.inserts = s.inserts
    BY <1>2 DEF Table
  <1> QED
    BY <1>3, <1>4 DEF f

LEMMA UpsertNew ==
    ASSUME NEW s, DOMAIN s = Table, NEW k, k \notin DOMAIN s.jobs, NEW job, NEW t,
           t = L!UpsertJob(s, k, job)
    PROVE  /\ DOMAIN t = Table
           /\ t.attempts = s.attempts /\ t.epochs = s.epochs
           /\ t.rowid = Put(s.rowid, k, s.inserts + 1) /\ t.inserts = s.inserts + 1
           /\ t.jobs = Put(s.jobs, k, L!Values(job))
  <1> DEFINE f == Put(s.jobs, k, L!Values(job))
             g == Put(s.rowid, k, s.inserts + 1)
  <1>1. f = L!Put(s.jobs, k, L!Values(job)) /\ g = L!Put(s.rowid, k, s.inserts + 1)
    <2> DEFINE row == L!Values(job)
    <2> HIDE DEF row
    <2>1. Put(s.jobs, k, row) = L!Put(s.jobs, k, row)
      BY DatabaseTables
    <2>2. Put(s.rowid, k, s.inserts + 1) = L!Put(s.rowid, k, s.inserts + 1)
      BY DatabaseTables
    <2> QED
      BY <2>1, <2>2 DEF row
  <1>2. t = [s EXCEPT !.jobs = f, !.rowid = g, !.inserts = s.inserts + 1]
    BY <1>1, Zenon DEF L!UpsertJob, L!InsertRow
  <1> HIDE DEF f, g
  <1>3. t.jobs = f
    BY <1>2 DEF Table
  <1>4. t.rowid = g
    BY <1>2 DEF Table
  <1>5. /\ DOMAIN t = Table
        /\ t.attempts = s.attempts /\ t.epochs = s.epochs /\ t.inserts = s.inserts + 1
    BY <1>2 DEF Table
  <1> QED
    BY <1>3, <1>4, <1>5 DEF f, g

LEMMA SaveAttemptTables ==
    ASSUME NEW s, DOMAIN s = Table, NEW k, NEW a, NEW t, t = L!SaveAttempt(s, k, a)
    PROVE  /\ DOMAIN t = Table
           /\ t.jobs = s.jobs /\ t.epochs = s.epochs
           /\ t.rowid = s.rowid /\ t.inserts = s.inserts
           /\ \E new : t.attempts = Put(s.attempts, <<k, a.n, L!Unix(a.startedAt)>>, new)
  <1> DEFINE pk == <<k, a.n, L!Unix(a.startedAt)>>
             old == IF pk \in DOMAIN s.attempts THEN s.attempts[pk] ELSE [err |-> "", finishedAt |-> 0]
             new == [state |-> a.state, err |-> L!LastNonBlank(old.err, a.err),
                     finishedAt |-> L!LastNonZero(old.finishedAt, L!Unix(a.finishedAt))]
             f == Put(s.attempts, pk, new)
  <1>1. f = L!Put(s.attempts, pk, new)
    <2> HIDE DEF pk, new
    <2> QED
      BY DatabaseTables
  <1>2. t = [s EXCEPT !.attempts = f]
    BY <1>1, Zenon DEF L!SaveAttempt
  <1>3. \E x : f = Put(s.attempts, pk, x)
    BY Zenon
  <1> HIDE DEF f
  <1>4. t.attempts = f
    BY <1>2 DEF Table
  <1>5. /\ DOMAIN t = Table /\ t.jobs = s.jobs /\ t.epochs = s.epochs
        /\ t.rowid = s.rowid /\ t.inserts = s.inserts
    BY <1>2 DEF Table
  <1> QED
    BY <1>3, <1>4, <1>5, Zenon

LEMMA HeartbeatTables ==
    ASSUME NEW s, DOMAIN s = Table, NEW e, NEW at, NEW t, t = L!Heartbeat(s, e, at)
    PROVE  /\ DOMAIN t = Table
           /\ t.jobs = s.jobs /\ t.attempts = s.attempts
           /\ t.rowid = s.rowid /\ t.inserts = s.inserts
           /\ t.epochs = Put(s.epochs, e, L!Unix(at))
  <1> DEFINE f == Put(s.epochs, e, L!Unix(at))
  <1>1. f = L!Put(s.epochs, e, L!Unix(at))
    BY DatabaseTables
  <1>2. t = [s EXCEPT !.epochs = f]
    BY <1>1, Zenon DEF L!Heartbeat
  <1> HIDE DEF f
  <1>3. t.epochs = f
    BY <1>2 DEF Table
  <1>4. /\ DOMAIN t = Table /\ t.jobs = s.jobs /\ t.attempts = s.attempts
        /\ t.rowid = s.rowid /\ t.inserts = s.inserts
    BY <1>2 DEF Table
  <1> QED
    BY <1>3, <1>4 DEF f

\* A row is left alone, or was unfinished and is interrupted.
LEMMA ReconcileTables ==
    ASSUME NEW s, DOMAIN s = Table, NEW e, NEW stale, NEW now, NEW t,
           t = L!ReconcileEpoch(s, e, stale, now)
    PROVE  /\ DOMAIN t = Table
           /\ t.attempts = s.attempts /\ t.epochs = s.epochs
           /\ t.rowid = s.rowid /\ t.inserts = s.inserts
           /\ DOMAIN t.jobs = DOMAIN s.jobs
           /\ \A k \in DOMAIN s.jobs :
                t.jobs[k] = IF /\ s.jobs[k].epoch # e /\ s.jobs[k].rank < 3
                               /\ s.jobs[k].epoch \notin L!BeatingEpochs(s, L!Unix(now - stale))
                            THEN L!Interrupt(s.jobs[k]) ELSE s.jobs[k]
  <1> DEFINE f == [k \in DOMAIN s.jobs |->
                     IF /\ s.jobs[k].epoch # e /\ s.jobs[k].rank < 3
                        /\ s.jobs[k].epoch \notin L!BeatingEpochs(s, L!Unix(now - stale))
                     THEN L!Interrupt(s.jobs[k]) ELSE s.jobs[k]]
  <1>2. t = [s EXCEPT !.jobs = f]
    BY Zenon DEF L!ReconcileEpoch
  <1>3. /\ DOMAIN f = DOMAIN s.jobs
        /\ \A k \in DOMAIN s.jobs :
                f[k] = IF /\ s.jobs[k].epoch # e /\ s.jobs[k].rank < 3
                          /\ s.jobs[k].epoch \notin L!BeatingEpochs(s, L!Unix(now - stale))
                       THEN L!Interrupt(s.jobs[k]) ELSE s.jobs[k]
    BY Zenon
  <1> HIDE DEF f
  <1>4. t.jobs = f
    BY <1>2 DEF Table
  <1>5. /\ DOMAIN t = Table /\ t.attempts = s.attempts /\ t.epochs = s.epochs
        /\ t.rowid = s.rowid /\ t.inserts = s.inserts
    BY <1>2 DEF Table
  <1> QED
    BY <1>3, <1>4, <1>5, Zenon

\* The attempts of some keys.
AttemptsOf(s, keys) == {p \in DOMAIN s.attempts : p[1] \in keys}

LEMMA DeleteAttemptsTables ==
    ASSUME NEW s, DOMAIN s = Table, NEW keys, NEW t, t = L!DeleteAttempts(s, keys)
    PROVE  /\ DOMAIN t = Table
           /\ t.jobs = s.jobs /\ t.epochs = s.epochs
           /\ t.rowid = s.rowid /\ t.inserts = s.inserts
           /\ t.attempts = Delete(s.attempts, AttemptsOf(s, keys))
  <1> DEFINE f == Delete(s.attempts, {p \in DOMAIN s.attempts : p[1] \in keys})
  <1>1. f = L!Delete(s.attempts, {p \in DOMAIN s.attempts : p[1] \in keys})
    <2> DEFINE gone == {p \in DOMAIN s.attempts : p[1] \in keys}
    <2> HIDE DEF gone
    <2>1. Delete(s.attempts, gone) = L!Delete(s.attempts, gone)
      BY DatabaseTables
    <2> QED
      BY <2>1 DEF gone
  <1>2. t = [s EXCEPT !.attempts = f]
    BY <1>1, Zenon DEF L!DeleteAttempts
  <1> HIDE DEF f
  <1>3. t.attempts = f
    BY <1>2 DEF Table
  <1>4. /\ DOMAIN t = Table /\ t.jobs = s.jobs /\ t.epochs = s.epochs
        /\ t.rowid = s.rowid /\ t.inserts = s.inserts
    BY <1>2 DEF Table
  <1> QED
    BY <1>3, <1>4, Zenon DEF f, AttemptsOf

LEMMA DeleteJobsTables ==
    ASSUME NEW s, DOMAIN s = Table, NEW keys, NEW t, t = L!DeleteJobs(s, keys)
    PROVE  /\ DOMAIN t = Table
           /\ t.attempts = s.attempts /\ t.epochs = s.epochs /\ t.inserts = s.inserts
           /\ t.jobs = Delete(s.jobs, keys) /\ t.rowid = Delete(s.rowid, keys)
  <1> DEFINE f == Delete(s.jobs, keys)
             g == Delete(s.rowid, keys)
  <1>1. f = L!Delete(s.jobs, keys) /\ g = L!Delete(s.rowid, keys)
    BY DatabaseTables
  <1>2. t = [s EXCEPT !.jobs = f, !.rowid = g]
    BY <1>1, Zenon DEF L!DeleteJobs
  <1> HIDE DEF f, g
  <1>3. t.jobs = f
    BY <1>2 DEF Table
  <1>4. t.rowid = g
    BY <1>2 DEF Table
  <1>5. DOMAIN t = Table /\ t.attempts = s.attempts /\ t.epochs = s.epochs /\ t.inserts = s.inserts
    BY <1>2 DEF Table
  <1> QED
    BY <1>3, <1>4, <1>5 DEF f, g

----------------------------------------------------------------------------
(* What each write does to the memory store. *)

Maps == {"jobs", "attempts", "epochs"}

LEMMA MemoryUpsert ==
    ASSUME NEW s, DOMAIN s = Maps, NEW k, NEW job, NEW t, t = M!UpsertJob(s, k, job)
    PROVE  /\ DOMAIN t = Maps /\ t.attempts = s.attempts /\ t.epochs = s.epochs
           /\ t.jobs = Upsert(s.jobs, k, job)
  <1> DEFINE f == Upsert(s.jobs, k, job)
  <1>1. f = M!Upsert(s.jobs, k, job)
    BY MemoryRows
  <1>2. t = [s EXCEPT !.jobs = f]
    BY <1>1, Zenon DEF M!UpsertJob
  <1> HIDE DEF f
  <1>3. t.jobs = f
    BY <1>2 DEF Maps
  <1>4. DOMAIN t = Maps /\ t.attempts = s.attempts /\ t.epochs = s.epochs
    BY <1>2 DEF Maps
  <1> QED
    BY <1>3, <1>4 DEF f

LEMMA MemoryHeartbeat ==
    ASSUME NEW s, DOMAIN s = Maps, NEW e, NEW at, NEW t, t = M!Heartbeat(s, e, at)
    PROVE  /\ DOMAIN t = Maps /\ t.attempts = s.attempts /\ t.jobs = s.jobs
           /\ t.epochs = Put(s.epochs, e, at)
  <1> DEFINE f == Put(s.epochs, e, at)
  <1>1. f = M!Put(s.epochs, e, at)
    BY MemoryRows
  <1>2. t = [s EXCEPT !.epochs = f]
    BY <1>1, Zenon DEF M!Heartbeat
  <1> HIDE DEF f
  <1>3. t.epochs = f
    BY <1>2 DEF Maps
  <1>4. DOMAIN t = Maps /\ t.attempts = s.attempts /\ t.jobs = s.jobs
    BY <1>2 DEF Maps
  <1> QED
    BY <1>3, <1>4 DEF f

LEMMA MemorySaveAttempt ==
    ASSUME NEW s, DOMAIN s = Maps, NEW k, NEW a, NEW t, t = M!SaveAttempt(s, k, a)
    PROVE  /\ DOMAIN t = Maps /\ t.epochs = s.epochs /\ t.jobs = s.jobs
           /\ \E own : t.attempts = Put(s.attempts, k, own)
  <1>1. \E own : t = [s EXCEPT !.attempts = M!Put(s.attempts, k, own)]
    BY Zenon DEF M!SaveAttempt
  <1>2. PICK own : t = [s EXCEPT !.attempts = M!Put(s.attempts, k, own)]
    BY <1>1
  <1> DEFINE f == Put(s.attempts, k, own)
  <1>3. f = M!Put(s.attempts, k, own)
    BY MemoryRows
  <1>4. t = [s EXCEPT !.attempts = f]
    BY <1>2, <1>3
  <1> HIDE DEF f
  <1>5. t.attempts = f
    BY <1>4 DEF Maps
  <1>6. DOMAIN t = Maps /\ t.epochs = s.epochs /\ t.jobs = s.jobs
    BY <1>4 DEF Maps
  <1> QED
    BY <1>5, <1>6 DEF f

\* Whether memory's reconciliation interrupts a row.
Orphan(s, e, cutoff, row) ==
    /\ row.epoch # e /\ ~Terminal(row.state)
    /\ ~Beating(IF row.epoch \in DOMAIN s.epochs THEN s.epochs[row.epoch] ELSE 0, cutoff)

Interrupted(job) == [job EXCEPT !.state = "interrupted"]

LEMMA MemoryReconcile ==
    ASSUME NEW s, DOMAIN s = Maps, NEW e, NEW stale, NEW now, NEW t,
           t = M!ReconcileEpoch(s, e, stale, now)
    PROVE  /\ DOMAIN t = Maps /\ t.attempts = s.attempts /\ t.epochs = s.epochs
           /\ DOMAIN t.jobs = DOMAIN s.jobs
           /\ \A k \in DOMAIN s.jobs :
                t.jobs[k] = IF Orphan(s, e, now - stale, s.jobs[k])
                            THEN Interrupted(s.jobs[k]) ELSE s.jobs[k]
  <1> DEFINE seen == [x \in {s.jobs[k].epoch : k \in DOMAIN s.jobs} |->
                        IF x \in DOMAIN s.epochs THEN s.epochs[x] ELSE 0]
             f == Reconcile(s.jobs, e, seen, now - stale)
  <1>1. f = M!Reconcile(s.jobs, e, seen, now - stale)
    <2> HIDE DEF seen
    <2> QED
      BY MemoryRows
  <1>2. t = [s EXCEPT !.jobs = f]
    BY <1>1, Zenon DEF M!ReconcileEpoch
  <1>3. \A k \in DOMAIN s.jobs : seen[s.jobs[k].epoch] =
            IF s.jobs[k].epoch \in DOMAIN s.epochs THEN s.epochs[s.jobs[k].epoch] ELSE 0
    OBVIOUS
  <1>4. DOMAIN f = DOMAIN s.jobs
    BY Zenon DEF Reconcile
  <1>5. ASSUME NEW k \in DOMAIN s.jobs
        PROVE  f[k] = IF Orphan(s, e, now - stale, s.jobs[k])
                      THEN Interrupted(s.jobs[k]) ELSE s.jobs[k]
    <2> HIDE DEF seen
    <2>1. f[k] = IF \/ s.jobs[k].epoch = e
                    \/ Terminal(s.jobs[k].state)
                    \/ Beating(seen[s.jobs[k].epoch], now - stale)
                 THEN s.jobs[k]
                 ELSE [s.jobs[k] EXCEPT !.state = "interrupted"]
      BY Zenon DEF Reconcile
    <2> QED
      BY <1>3, <2>1, Zenon DEF Orphan, Interrupted
  <1> HIDE DEF f
  <1>6. t.jobs = f
    BY <1>2 DEF Maps
  <1>7. DOMAIN t = Maps /\ t.attempts = s.attempts /\ t.epochs = s.epochs
    BY <1>2 DEF Maps
  <1> QED
    BY <1>4, <1>5, <1>6, <1>7, Zenon

NoAttempts == <<>>

LEMMA MemoryPrune ==
    ASSUME NEW s, DOMAIN s = Maps, NEW before, NEW states, NEW t, t = M!PruneStore(s, before, states)
    PROVE  /\ DOMAIN t = Maps /\ t.epochs = s.epochs
           /\ t.jobs = Prune(s.jobs, before, states)
           /\ DOMAIN t.attempts = DOMAIN s.attempts
           /\ \A k \in DOMAIN s.attempts : t.attempts[k] =
                IF k \in Prunable(s.jobs, before, states) THEN NoAttempts ELSE s.attempts[k]
  <1> DEFINE f == Prune(s.jobs, before, states)
             gone == Prunable(s.jobs, before, states)
             g == [k \in DOMAIN s.attempts |-> IF k \in gone THEN NoAttempts ELSE s.attempts[k]]
  <1>1. f = M!Prune(s.jobs, before, states) /\ gone = M!Prunable(s.jobs, before, states)
    BY MemoryRows
  <1>2. t = [s EXCEPT !.jobs = f, !.attempts = g]
    BY <1>1, Zenon DEF M!PruneStore, NoAttempts
  <1>3. /\ DOMAIN g = DOMAIN s.attempts
        /\ \A k \in DOMAIN s.attempts : g[k] = IF k \in gone THEN NoAttempts ELSE s.attempts[k]
    BY Zenon
  <1> HIDE DEF f, g
  <1>4. t.jobs = f
    BY <1>2 DEF Maps
  <1>5. t.attempts = g
    BY <1>2 DEF Maps
  <1>6. DOMAIN t = Maps /\ t.epochs = s.epochs
    BY <1>2 DEF Maps
  <1> QED
    BY <1>3, <1>4, <1>5, <1>6, Zenon DEF f

----------------------------------------------------------------------------
(* The clock and the times of a job. *)

\* The times a record may have: none, or one the clock has shown.
Instants(now) == {0} \union (Genesis..now)

\* The times at which the attempts of a job began.
TriesOK(tries, now) ==
    tries \in Seq(Nat) /\ \A i \in 1..Len(tries) : tries[i] \in Genesis..now

Life == {"enqueued", "started", "finished", "tries", "trying"}

TimesOK ==
    /\ clock \in Genesis..MaxClock
    /\ DOMAIN when = Keys
    /\ \A k \in Keys :
        /\ DOMAIN when[k] = Life
        /\ when[k].enqueued \in Instants(clock) /\ when[k].started \in Instants(clock)
        /\ when[k].finished \in Instants(clock)
        /\ when[k].finished # 0 => when[k].enqueued # 0 /\ when[k].started <= when[k].finished
        /\ TriesOK(when[k].tries, clock)
        /\ when[k].trying => Len(when[k].tries) # 0

LEMMA Constants ==
    /\ StaleAfter \in Nat /\ Genesis \in Nat /\ MaxClock \in Nat /\ Nanos \in Nat \ {0}
    /\ Genesis <= MaxClock /\ Genesis - StaleAfter >= Nanos
  <1>1. StaleAfter \in Nat /\ Genesis \in Nat /\ MaxClock \in Nat
    BY DriversAssumption, Zenon
  <1>2. Nanos \in Nat \ {0}
    BY QueryAssumption, Zenon
  <1>3. Genesis <= MaxClock /\ Genesis - StaleAfter >= Nanos
    BY DriversAssumption, Zenon
  <1> QED
    BY <1>1, <1>2, <1>3

LEMMA InstantFacts ==
    ASSUME NEW now \in Nat
    PROVE  /\ 0 \in Instants(now)
           /\ Genesis <= now => now \in Instants(now)
           /\ \A t \in Instants(now) : t \in 0..now /\ (t # 0 => t >= Genesis)
           /\ \A later \in Nat : now <= later => Instants(now) \subseteq Instants(later)
  BY Constants DEF Instants

LEMMA ClockPositive ==
    ASSUME TimesOK
    PROVE  /\ clock \in Nat \ {0}
           /\ clock - StaleAfter \in Nat \ {0} /\ clock - StaleAfter >= Nanos
           /\ 0 \in Instants(clock) /\ clock \in Instants(clock)
  <1>1. clock \in Genesis..MaxClock
    BY Zenon DEF TimesOK
  <1> QED
    BY <1>1, Constants, InstantFacts

LEMMA Ranks ==
    /\ \A s \in {"created", "active"} : ~Terminal(s)
    /\ \A s \in {"completed", "failed", "cancelled", "discarded", "abandoned", "interrupted"} : Terminal(s)
    /\ \A s : Rank(s) \in 0..3
  BY DEF Terminal, Rank

\* The attempts of b are those of a, and perhaps more.
Longer(a, b) == Len(a) <= Len(b) /\ \A i \in 1..Len(a) : b[i] = a[i]

\* A job finishes once, and the start of an attempt stays.
Lives ==
    \A k \in Keys :
        /\ when'[k].finished = when[k].finished \/ (when[k].finished = 0 /\ when'[k].finished = clock)
        /\ Longer(when[k].tries, when'[k].tries)

LEMMA TriesLater ==
    ASSUME NEW tries, NEW now \in Nat, TriesOK(tries, now), NEW later \in Nat, now <= later
    PROVE  TriesOK(tries, later) /\ Longer(tries, tries)
  BY Constants DEF TriesOK, Longer

LEMMA TriesAppend ==
    ASSUME NEW tries, NEW now \in Nat, Genesis <= now, TriesOK(tries, now)
    PROVE  TriesOK(Append(tries, now), now) /\ Longer(tries, Append(tries, now))
  BY Constants DEF TriesOK, Longer

LEMMA LastTry ==
    ASSUME NEW tries \in Seq(Nat), Len(tries) # 0
    PROVE  /\ tries # <<>> /\ Len(tries) - 1 \in Nat
           /\ Len(tries) - 1 + 1 \in 1..Len(tries) /\ Len(tries) - 1 + 1 = Len(tries)
  <1>1. Len(tries) \in Nat
    OBVIOUS
  <1>2. Len(<<>>) = 0
    OBVIOUS
  <1>3. tries # <<>>
    BY <1>2, Zenon
  <1> QED
    BY <1>1, <1>3

LEMMA TimesStep ==
    ASSUME TimesOK, [Next]_vars
    PROVE  TimesOK' /\ clock <= clock' /\ Lives
  <1>0. /\ Genesis \in Nat /\ MaxClock \in Nat /\ clock \in Nat /\ clock # 0 /\ Genesis <= clock
        /\ 0 \in Instants(clock) /\ clock \in Instants(clock)
    BY ClockPositive, Constants DEF TimesOK
  <1>a. \A j \in Keys : TriesOK(when[j].tries, clock) /\ Longer(when[j].tries, when[j].tries)
    BY <1>0, TriesLater DEF TimesOK
  <1>1. ASSUME UNCHANGED <<clock, when>>
        PROVE  TimesOK' /\ clock <= clock' /\ Lives
    BY <1>0, <1>a, <1>1 DEF TimesOK, Lives
  <1>2. ASSUME NEW k \in Keys, UNCHANGED clock, DOMAIN when' = Keys,
               \A j \in Keys \ {k} : when'[j] = when[j],
               DOMAIN when'[k] = Life,
               when'[k].enqueued \in Instants(clock), when'[k].started \in Instants(clock),
               \/ when'[k].finished = when[k].finished /\ when'[k].started = when[k].started
               \/ when[k].finished = 0 /\ when'[k].finished \in {0, clock},
               when'[k].finished # 0 => when'[k].enqueued # 0,
               TriesOK(when'[k].tries, clock), Longer(when[k].tries, when'[k].tries),
               when'[k].trying => Len(when'[k].tries) # 0
        PROVE  TimesOK' /\ clock <= clock' /\ Lives
    <2>1. when'[k].finished # 0 => when'[k].enqueued # 0 /\ when'[k].started <= when'[k].finished
      BY <1>0, <1>2, InstantFacts DEF TimesOK
    <2>2. when'[k].finished \in Instants(clock)
      BY <1>0, <1>2 DEF TimesOK
    <2>3. TimesOK'
      BY <1>0, <1>2, <2>1, <2>2 DEF TimesOK
    <2>4. Lives
      BY <1>a, <1>2, Zenon DEF Lives
    <2> QED
      BY <1>0, <1>2, <2>3, <2>4
  <1>3. ASSUME NEW k \in Keys, OnEnqueue(k) \/ OnStart(k) \/ OnEnd(k)
        PROVE  TimesOK' /\ clock <= clock' /\ Lives
    <2>0. UNCHANGED clock
      BY <1>3 DEF OnEnqueue, OnStart, OnEnd, Hook
    <2>1. PICK at \in {"enqueued", "started", "finished"} :
                /\ when' = [when EXCEPT ![k][at] = clock]
                /\ at # "enqueued" => when[k].finished = 0 /\ when[k].enqueued # 0
      BY <1>3 DEF OnEnqueue, OnStart, OnEnd
    <2>2. DOMAIN when' = Keys /\ \A j \in Keys \ {k} : when'[j] = when[j]
      BY <2>1 DEF TimesOK
    <2>3. /\ DOMAIN when'[k] = Life /\ when'[k][at] = clock
          /\ \A b \in Life \ {at} : when'[k][b] = when[k][b]
      BY <2>1 DEF TimesOK, Life
    <2>4. when'[k].tries = when[k].tries /\ (when'[k].trying => Len(when'[k].tries) # 0)
      BY <2>1, <2>3 DEF TimesOK, Life
    <2>5. when'[k].enqueued \in Instants(clock) /\ when'[k].started \in Instants(clock)
      BY <1>0, <2>1, <2>3 DEF TimesOK, Life
    <2>6. \/ when'[k].finished = when[k].finished /\ when'[k].started = when[k].started
          \/ when[k].finished = 0 /\ when'[k].finished \in {0, clock}
      BY <2>1, <2>3 DEF Life
    <2>7. when'[k].finished # 0 => when'[k].enqueued # 0
      BY <1>0, <2>1, <2>3 DEF TimesOK, Life
    <2> QED
      BY <1>a, <1>2, <2>0, <2>2, <2>3, <2>4, <2>5, <2>6, <2>7
  <1>4. ASSUME NEW k \in Keys, OnAttemptStart(k) \/ OnAttemptEnd(k)
        PROVE  TimesOK' /\ clock <= clock' /\ Lives
    <2>0. UNCHANGED clock
      BY <1>4 DEF OnAttemptStart, OnAttemptEnd, OfferAttempt
    <2>1. DOMAIN when' = Keys /\ \A j \in Keys \ {k} : when'[j] = when[j]
      BY <1>4 DEF OnAttemptStart, OnAttemptEnd, TimesOK
    <2>2. /\ DOMAIN when'[k] = Life
          /\ when'[k].enqueued = when[k].enqueued /\ when'[k].started = when[k].started
          /\ when'[k].finished = when[k].finished
          /\ when'[k].tries \in {when[k].tries, Append(when[k].tries, clock)}
      <3>0. DOMAIN when = Keys /\ DOMAIN when[k] = Life
        BY DEF TimesOK
      <3>1. CASE OnAttemptStart(k)
        BY <3>0, <3>1 DEF OnAttemptStart, Life
      <3>2. CASE OnAttemptEnd(k)
        BY <3>0, <3>2 DEF OnAttemptEnd, Life
      <3> QED
        BY <1>4, <3>1, <3>2
    <2>3. TriesOK(when'[k].tries, clock) /\ Longer(when[k].tries, when'[k].tries)
      BY <1>0, <1>a, <2>2, TriesAppend
    <2>4. /\ when'[k].enqueued \in Instants(clock) /\ when'[k].started \in Instants(clock)
          /\ when'[k].finished # 0 => when'[k].enqueued # 0
      BY <2>2 DEF TimesOK
    <2>5. when'[k].trying => Len(when'[k].tries) # 0
      <3>1. CASE OnAttemptStart(k)
        <4>1. when'[k].tries = Append(when[k].tries, clock) /\ when[k].tries \in Seq(Nat)
          BY <1>a, <3>1 DEF OnAttemptStart, TimesOK, TriesOK, Life
        <4> QED
          BY <1>0, <4>1
      <3>2. CASE OnAttemptEnd(k)
        BY <3>2 DEF OnAttemptEnd, TimesOK, Life
      <3> QED
        BY <1>4, <3>1, <3>2
    <2> QED
      BY <1>2, <2>0, <2>1, <2>2, <2>3, <2>4, <2>5
  <1>5. CASE Tick
    <2>1. clock' = clock + 1 /\ clock < MaxClock /\ when' = when
      BY <1>5 DEF Tick
    <2>2. clock' \in Nat /\ clock <= clock' /\ Instants(clock) \subseteq Instants(clock')
      BY <1>0, <2>1, InstantFacts
    <2>3. \A j \in Keys : TriesOK(when[j].tries, clock')
      BY <1>0, <1>a, <2>2, TriesLater
    <2>4. TimesOK'
      BY <1>0, <2>1, <2>2, <2>3 DEF TimesOK
    <2> QED
      BY <1>a, <2>1, <2>2, <2>4 DEF Lives
  <1>6. ASSUME NEW k \in Keys, ReportProgress(k) \/ UpsertJobs(k) \/ SaveAttempts(k)
        PROVE  UNCHANGED <<clock, when>>
    BY <1>6, Zenon DEF ReportProgress, Hook, UpsertJobs, SaveAttempts, Store
  <1>7. ASSUME NEW e \in Epochs, Heartbeat(e) \/ ReconcileEpoch(e)
        PROVE  UNCHANGED <<clock, when>>
    BY <1>7, Zenon DEF Heartbeat, ReconcileEpoch, Round
  <1>8. ASSUME NEW r \in Retentions, BeginPrune(r)
        PROVE  UNCHANGED <<clock, when>>
    BY <1>8, Zenon DEF BeginPrune, Round
  <1>9. CASE EndPrune
    BY <1>1, <1>9 DEF EndPrune
  <1>10. CASE UNCHANGED vars
    BY <1>1, <1>10 DEF vars
  <1> QED
    BY <1>1, <1>3, <1>4, <1>5, <1>6, <1>7, <1>8, <1>9, <1>10, Zenon DEF Next

----------------------------------------------------------------------------
(* The records on the way. *)

\* What a record, or a row, of job k may say when the clock shows now and the job
\* finished at the given time, 0 if it has not: nothing about a time to come or after
\* the finish, and a final state only with the finish time.
JobOK(k, job, now, finished) ==
    /\ DOMAIN job = Field
    /\ job.epoch = KeyFor[k].epoch /\ job.state \in State /\ job.name \in Names
    /\ job.enqueuedAt \in Instants(now) /\ job.startedAt \in Instants(now)
    /\ job.finishedAt \in Instants(now) /\ job.pgAt \in Instants(now)
    /\ job.finishedAt \in {0, finished}
    /\ finished # 0 => job.startedAt <= finished /\ job.pgAt <= finished
    /\ Terminal(job.state) /\ job.state # "interrupted" => finished # 0 /\ job.finishedAt = finished

\* A record that the store may receive for k.
Offered(k, job) == JobOK(k, job, clock, when[k].finished) /\ job.state \in Reported

\* The same, after the step.
Offering(k, job) == JobOK(k, job, clock', when'[k].finished) /\ job.state \in Reported

\* A record of one of the attempts a job has made.
AttemptField == {"n", "state", "err", "startedAt", "finishedAt"}
AttemptOK(a, tries, now) ==
    /\ DOMAIN a = AttemptField
    /\ a.n \in Nat /\ a.n + 1 \in 1..Len(tries)
    /\ a.startedAt = tries[a.n + 1]
    /\ a.finishedAt \in Instants(now)

LateOK ==
    /\ DOMAIN late = Keys /\ DOMAIN lateTries = Keys
    /\ \A k \in Keys :
        /\ \A r \in late[k] : Offered(k, r.job)
        /\ \A a \in lateTries[k] : AttemptOK(a, when[k].tries, clock)

LEMMA JobLater ==
    ASSUME NEW k, NEW job, NEW now \in Nat, NEW finished, JobOK(k, job, now, finished),
           NEW later \in Nat, now <= later, NEW done,
           done = finished \/ (finished = 0 /\ done = now)
    PROVE  JobOK(k, job, later, done)
  <1>1. Instants(now) \subseteq Instants(later)
    BY InstantFacts
  <1>2. job.startedAt <= now /\ job.pgAt <= now
    BY InstantFacts DEF JobOK
  <1> QED
    BY <1>1, <1>2 DEF JobOK

LEMMA AttemptLater ==
    ASSUME NEW a, NEW tries, NEW now \in Nat, AttemptOK(a, tries, now), TriesOK(tries, now),
           NEW later \in Nat, now <= later, NEW more, TriesOK(more, later), Longer(tries, more)
    PROVE  AttemptOK(a, more, later)
  <1>1. Instants(now) \subseteq Instants(later)
    BY InstantFacts
  <1>2. Len(tries) \in Nat /\ Len(more) \in Nat /\ a.n \in Nat /\ a.n + 1 \in 1..Len(tries)
    BY DEF AttemptOK, TriesOK
  <1>3. a.n + 1 \in 1..Len(more) /\ more[a.n + 1] = tries[a.n + 1]
    BY <1>2 DEF Longer
  <1> QED
    BY <1>1, <1>3 DEF AttemptOK

LEMMA OfferedLater ==
    ASSUME TimesOK, TimesOK', clock <= clock', Lives, NEW k \in Keys, NEW job, Offered(k, job)
    PROVE  Offering(k, job)
  <1>1. clock \in Nat /\ clock' \in Nat
    BY ClockPositive, Constants DEF TimesOK
  <1>2. when'[k].finished = when[k].finished \/ (when[k].finished = 0 /\ when'[k].finished = clock)
    BY DEF Lives
  <1> QED
    BY <1>1, <1>2, JobLater, Zenon DEF Offered, Offering

\* Nothing new is on the way.
LEMMA LateKept ==
    ASSUME TimesOK, TimesOK', clock <= clock', Lives, LateOK,
           DOMAIN late' = Keys, DOMAIN lateTries' = Keys,
           NEW k \in Keys,
           \A j \in Keys \ {k} : late'[j] \subseteq late[j] /\ lateTries'[j] \subseteq lateTries[j],
           \A r \in late'[k] : r \in late[k] \/ Offering(k, r.job),
           \A a \in lateTries'[k] : a \in lateTries[k] \/ AttemptOK(a, when'[k].tries, clock')
    PROVE  LateOK'
  <1>1. clock \in Nat /\ clock' \in Nat
    BY ClockPositive, Constants DEF TimesOK
  <1>2. ASSUME NEW j \in Keys, NEW r \in late'[j]
        PROVE  Offering(j, r.job)
    BY <1>2, OfferedLater, Zenon DEF LateOK
  <1>3. ASSUME NEW j \in Keys, NEW a \in lateTries'[j]
        PROVE  AttemptOK(a, when'[j].tries, clock')
    <2>1. /\ TriesOK(when[j].tries, clock) /\ TriesOK(when'[j].tries, clock')
          /\ Longer(when[j].tries, when'[j].tries)
      BY DEF TimesOK, Lives
    <2>2. a \in lateTries[j] => AttemptOK(a, when[j].tries, clock)
      BY Zenon DEF LateOK
    <2> QED
      BY <1>1, <1>3, <2>1, <2>2, AttemptLater, Zenon
  <1> QED
    BY <1>2, <1>3, Zenon DEF LateOK, Offered, Offering

LEMMA EventFields ==
    ASSUME NEW k, NEW times, NEW job, job = JobEvent(k, times)
    PROVE  /\ DOMAIN job = Field
           /\ job.epoch = KeyFor[k].epoch /\ job.state = "created" /\ job.name = NameOf[k]
           /\ job.enqueuedAt = times.enqueued /\ job.startedAt = times.started
           /\ job.finishedAt = times.finished /\ job.pgAt = 0
  BY DEF JobEvent, BlankJob, Field

\* The stores and what is known of them stay as they are.
Kept == UNCHANGED <<mem, lite, pg, past, pruning>>

\* The job record a hook leaves on the way.
LEMMA HookOffers ==
    ASSUME TimesOK, TimesOK', NEW k \in Keys,
           OnEnqueue(k) \/ OnStart(k) \/ OnEnd(k) \/ ReportProgress(k)
    PROVE  Kept /\ UNCHANGED <<clock, lateTries>> /\ \E job : Offering(k, job) /\ Offer(k, job)
  <1> DEFINE times == when'[k]
             event == JobEvent(k, times)
  <1>0. /\ clock \in Nat \ {0} /\ 0 \in Instants(clock) /\ clock \in Instants(clock)
        /\ DOMAIN when = Keys /\ DOMAIN when[k] = Life
        /\ when[k].enqueued \in Instants(clock) /\ when[k].started \in Instants(clock)
        /\ when[k].finished \in Instants(clock)
    BY ClockPositive DEF TimesOK
  <1>1. Kept /\ UNCHANGED <<clock, lateTries>>
    BY DEF OnEnqueue, OnStart, OnEnd, ReportProgress, Hook, Kept
  <1>2. /\ times.enqueued \in Instants(clock) /\ times.started \in Instants(clock)
        /\ times.finished \in Instants(clock) /\ (times.finished # 0 => times.started <= times.finished)
    BY <1>1 DEF TimesOK
  <1>3. /\ DOMAIN event = Field
        /\ event.epoch = KeyFor[k].epoch /\ event.state = "created" /\ event.name = NameOf[k]
        /\ event.enqueuedAt = times.enqueued /\ event.startedAt = times.started
        /\ event.finishedAt = times.finished /\ event.pgAt = 0
    BY EventFields
  <1>4. NameOf[k] \in Names
    BY Zenon DEF Names
  <1>5. ASSUME NEW job, DOMAIN job = Field, job.epoch = KeyFor[k].epoch, job.name = NameOf[k],
               job.state \in Reported, job.enqueuedAt = times.enqueued,
               job.startedAt \in {0, times.started}, job.finishedAt = times.finished,
               job.pgAt \in Instants(clock), times.finished # 0 => job.pgAt = 0,
               Terminal(job.state) => times.finished # 0
        PROVE  Offering(k, job)
    <2>1. job.state \in State
      BY <1>5 DEF Reported, State
    <2>2. JobOK(k, job, clock, times.finished)
      <3> HIDE DEF times
      <3> QED
        BY <1>0, <1>2, <1>4, <1>5, <2>1, InstantFacts DEF JobOK
    <2> QED
      BY <1>1, <1>5, <2>2 DEF Offering, times
  <1> HIDE DEF event, times
  <1>6. CASE OnEnqueue(k)
    <2>1. Offer(k, event)
      BY <1>6 DEF OnEnqueue, Hook, event, times
    <2>2. Offering(k, event)
      BY <1>0, <1>3, <1>5, Ranks DEF Reported
    <2> QED
      BY <1>1, <2>1, <2>2
  <1>7. CASE OnStart(k)
    <2> DEFINE job == [event EXCEPT !.state = "active"]
    <2>1. Offer(k, job)
      BY <1>7 DEF OnStart, Hook, event, times
    <2>2. /\ DOMAIN job = Field /\ job.epoch = event.epoch /\ job.name = event.name
          /\ job.state = "active" /\ job.enqueuedAt = event.enqueuedAt
          /\ job.startedAt = event.startedAt /\ job.finishedAt = event.finishedAt
          /\ job.pgAt = event.pgAt
      BY <1>3 DEF Field
    <2> HIDE DEF job
    <2>3. Offering(k, job)
      BY <1>0, <1>3, <1>5, <2>2, Ranks DEF Reported
    <2> QED
      BY <1>1, <2>1, <2>3
  <1>8. CASE OnEnd(k)
    <2>1. PICK end \in Endings(k) : Offer(k, [event EXCEPT !.state = end.state, !.err = end.err])
      BY <1>8, Zenon DEF OnEnd, Hook, event, times
    <2>2. end.state \in {"completed", "failed", "cancelled", "discarded", "abandoned"}
      <3>1. \A err \in {"boom", "cancelled"} : FailureState(err) \in {"failed", "cancelled", "discarded"}
        BY DEF FailureState
      <3>2. ASSUME NEW err, NEW st
            PROVE  [state |-> st, err |-> err].state = st
        OBVIOUS
      <3>3. \E st \in {"completed", "failed", "cancelled", "discarded", "abandoned"} : \E err :
                end = [state |-> st, err |-> err]
        BY <2>1, <3>1, Zenon DEF Endings
      <3> QED
        BY <3>2, <3>3
    <2>3. times.finished = clock
      BY <1>0, <1>8 DEF OnEnd, times, Life
    <2> DEFINE job == [event EXCEPT !.state = end.state, !.err = end.err]
    <2>4. Offer(k, job)
      BY <2>1
    <2>5. /\ DOMAIN job = Field /\ job.epoch = event.epoch /\ job.name = event.name
          /\ job.state = end.state /\ job.enqueuedAt = event.enqueuedAt
          /\ job.startedAt = event.startedAt /\ job.finishedAt = event.finishedAt
          /\ job.pgAt = event.pgAt
      BY <1>3 DEF Field
    <2> HIDE DEF job
    <2>6. Offering(k, job)
      BY <1>0, <1>3, <1>5, <2>2, <2>3, <2>5 DEF Reported
    <2> QED
      BY <1>1, <2>4, <2>6
  <1>9. CASE ReportProgress(k)
    <2>0. when'[k] = when[k] /\ when[k].finished = 0
      BY <1>9 DEF ReportProgress, Running
    <2>1. times.finished = 0
      BY <2>0 DEF times
    <2> DEFINE job == [event EXCEPT !.state = "active", !.startedAt = 0, !.waitUS = 0,
                                    !.attempt = Attempt(k), !.pg = events[k], !.pgAt = clock]
    <2>2. Offer(k, job)
      BY <1>9, <2>0 DEF ReportProgress, Hook, event, times
    <2>3. /\ DOMAIN job = Field /\ job.epoch = event.epoch /\ job.name = event.name
          /\ job.state = "active" /\ job.enqueuedAt = event.enqueuedAt
          /\ job.startedAt = 0 /\ job.finishedAt = event.finishedAt /\ job.pgAt = clock
      BY <1>3 DEF Field
    <2> HIDE DEF job
    <2>4. Offering(k, job)
      BY <1>0, <1>3, <1>5, <2>1, <2>3, Ranks DEF Reported
    <2> QED
      BY <1>1, <2>2, <2>4
  <1> QED
    BY <1>6, <1>7, <1>8, <1>9

\* The records of an attempt, of the job and of the attempt itself.
LEMMA AttemptOffers ==
    ASSUME TimesOK, TimesOK', NEW k \in Keys, OnAttemptStart(k) \/ OnAttemptEnd(k)
    PROVE  /\ Kept /\ UNCHANGED clock
           /\ \E job : Offering(k, job) /\ Offer(k, job)
           /\ \E a : /\ AttemptOK(a, when'[k].tries, clock')
                     /\ lateTries' = [lateTries EXCEPT ![k] = @ \union {a}]
  <1> DEFINE tries == when'[k].tries
  <1>0. /\ clock \in Nat \ {0} /\ 0 \in Instants(clock) /\ clock \in Instants(clock)
        /\ DOMAIN when = Keys /\ DOMAIN when[k] = Life /\ when[k].tries \in Seq(Nat)
        /\ when[k].trying => Len(when[k].tries) # 0
    BY ClockPositive DEF TimesOK, TriesOK
  <1>1. PICK n, st, err, at, done :
            /\ OfferAttempt(k, n, [n |-> n, state |-> st, err |-> err,
                                   startedAt |-> at, finishedAt |-> done])
            /\ n \in Nat /\ n + 1 \in 1..Len(tries) /\ at = tries[n + 1] /\ done \in {0, clock}
            /\ when'[k].finished = 0
    <2>1. CASE OnAttemptStart(k)
      <3> DEFINE n == Len(when[k].tries)
      <3>1. /\ OfferAttempt(k, n, [n |-> n, state |-> "active", err |-> "",
                                   startedAt |-> clock, finishedAt |-> 0])
            /\ when[k].finished = 0
        BY <2>1 DEF OnAttemptStart, Running
      <3>2. tries = Append(when[k].tries, clock) /\ when'[k].finished = when[k].finished
        BY <1>0, <2>1 DEF OnAttemptStart, Life
      <3>3. n \in Nat /\ n + 1 \in 1..Len(tries) /\ tries[n + 1] = clock
        BY <1>0, <3>2
      <3> HIDE DEF n, tries
      <3> QED
        BY <3>1, <3>2, <3>3
    <2>2. CASE OnAttemptEnd(k)
      <3> DEFINE n == Attempt(k)
                 at == when[k].tries[Len(when[k].tries)]
      <3>1. PICK end \in {[state |-> "completed", err |-> ""], [state |-> "failed", err |-> "boom"]} :
                OfferAttempt(k, n, [n |-> n, state |-> end.state, err |-> end.err,
                                    startedAt |-> at, finishedAt |-> clock])
        BY <2>2, Zenon DEF OnAttemptEnd
      <3>2. tries = when[k].tries /\ when'[k].finished = when[k].finished /\ when[k].finished = 0
        BY <1>0, <2>2 DEF OnAttemptEnd, Running, Life
      <3>3. Len(when[k].tries) # 0
        BY <1>0, <2>2, Zenon DEF OnAttemptEnd
      <3>4. n \in Nat /\ n + 1 \in 1..Len(tries) /\ tries[n + 1] = at
        <4>1. n = Len(when[k].tries) - 1
          BY <1>0, <3>3, LastTry DEF Attempt
        <4> HIDE DEF n, at, tries
        <4>2. n \in Nat /\ n + 1 \in 1..Len(when[k].tries) /\ n + 1 = Len(when[k].tries)
          BY <1>0, <3>3, <4>1, LastTry
        <4> QED
          BY <3>2, <4>2 DEF at
      <3> HIDE DEF n, at, tries
      <3> QED
        BY <3>1, <3>2, <3>4
    <2> QED
      BY <2>1, <2>2
  <1> DEFINE a == [n |-> n, state |-> st, err |-> err, startedAt |-> at, finishedAt |-> done]
             blank == BlankJob(KeyFor[k].epoch)
             job == [blank EXCEPT !.queue = KeyFor[k].queue, !.state = "active",
                                  !.root = RootOf[k], !.attempt = n]
  <1>2. /\ Kept /\ UNCHANGED clock /\ Offer(k, job)
        /\ lateTries' = [lateTries EXCEPT ![k] = @ \union {a}]
    BY <1>1 DEF OfferAttempt, Kept
  <1>3. AttemptOK(a, tries, clock)
    BY <1>0, <1>1 DEF AttemptOK, AttemptField
  <1>4. /\ DOMAIN blank = Field /\ blank.epoch = KeyFor[k].epoch
        /\ blank.enqueuedAt = 0 /\ blank.startedAt = 0 /\ blank.finishedAt = 0 /\ blank.pgAt = 0
    BY DEF BlankJob, Field
  <1>5. blank.name = Blank
    BY DEF BlankJob, Blank
  <1> HIDE DEF blank
  <1>6. /\ DOMAIN job = Field /\ job.epoch = KeyFor[k].epoch /\ job.name = Blank
        /\ job.state = "active"
        /\ job.enqueuedAt = 0 /\ job.startedAt = 0 /\ job.finishedAt = 0 /\ job.pgAt = 0
    BY <1>4, <1>5 DEF Field
  <1> HIDE DEF job
  <1>7. job.state \in Reported /\ job.state \in State /\ Blank \in Names
    BY <1>6 DEF Reported, State, Names
  <1>8. Offering(k, job)
    BY <1>0, <1>1, <1>2, <1>6, <1>7, Ranks DEF Offering, JobOK
  <1> QED
    BY <1>2, <1>3, <1>8

LEMMA StepCases ==
    ASSUME TimesOK, LateOK, [Next]_vars
    PROVE  \/ Kept
           \/ \E k \in Keys : \E job : Offered(k, job) /\ Store(k, job) /\ late[k] # {}
           \/ \E k \in Keys : SaveAttempts(k)
           \/ \E e \in Epochs : Heartbeat(e) \/ ReconcileEpoch(e)
           \/ \E r \in Retentions : BeginPrune(r)
           \/ EndPrune
  <1>1. Tick \/ UNCHANGED vars => Kept
    BY DEF Tick, vars, Kept
  <1>2. TimesOK'
    BY TimesStep
  <1>3. ASSUME NEW k \in Keys, UpsertJobs(k)
        PROVE  \E job : Offered(k, job) /\ Store(k, job) /\ late[k] # {}
    BY <1>3, Zenon DEF UpsertJobs, LateOK
  <1> QED
    BY <1>1, <1>2, <1>3, HookOffers, AttemptOffers, Zenon DEF Next

LEMMA LateStep ==
    ASSUME TimesOK, LateOK, [Next]_vars
    PROVE  LateOK'
  <1>0. TimesOK' /\ clock <= clock' /\ Lives
    BY TimesStep
  <1>1. DOMAIN late = Keys /\ DOMAIN lateTries = Keys
    BY DEF LateOK
  <1>2. ASSUME UNCHANGED <<late, lateTries>>
        PROVE  LateOK'
    <2>1. CASE Keys = {}
      BY <1>1, <1>2, <2>1, Zenon DEF LateOK
    <2>2. CASE Keys # {}
      BY <1>0, <1>1, <1>2, <2>2, LateKept, Zenon
    <2> QED
      BY <2>1, <2>2
  <1>3. ASSUME NEW k \in Keys, NEW job, Offering(k, job), Offer(k, job)
        PROVE  /\ DOMAIN late' = Keys /\ \A j \in Keys \ {k} : late'[j] = late[j]
               /\ \A r \in late'[k] : r \in late[k] \/ Offering(k, r.job)
    <2>1. late' = [late EXCEPT ![k] = @ \union {[no |-> events[k], job |-> job]}]
      BY <1>3 DEF Offer
    <2>2. /\ DOMAIN late' = Keys /\ \A j \in Keys \ {k} : late'[j] = late[j]
          /\ late'[k] = late[k] \union {[no |-> events[k], job |-> job]}
      BY <1>1, <2>1
    <2>3. [no |-> events[k], job |-> job].job = job
      OBVIOUS
    <2> QED
      BY <1>3, <2>2, <2>3, Zenon
  <1>4. ASSUME NEW k \in Keys, OnEnqueue(k) \/ OnStart(k) \/ OnEnd(k) \/ ReportProgress(k)
        PROVE  LateOK'
    <2>1. UNCHANGED lateTries /\ \E job : Offering(k, job) /\ Offer(k, job)
      BY <1>0, <1>4, HookOffers
    <2> QED
      BY <1>0, <1>1, <1>3, <2>1, LateKept, Zenon
  <1>5. ASSUME NEW k \in Keys, OnAttemptStart(k) \/ OnAttemptEnd(k)
        PROVE  LateOK'
    <2>1. \E job : Offering(k, job) /\ Offer(k, job)
      BY <1>0, <1>5, AttemptOffers
    <2>2. PICK a : /\ AttemptOK(a, when'[k].tries, clock')
                   /\ lateTries' = [lateTries EXCEPT ![k] = @ \union {a}]
      BY <1>0, <1>5, AttemptOffers
    <2>3. /\ DOMAIN lateTries' = Keys /\ \A j \in Keys \ {k} : lateTries'[j] = lateTries[j]
          /\ lateTries'[k] = lateTries[k] \union {a}
      BY <1>1, <2>2
    <2>4. /\ DOMAIN late' = Keys /\ \A j \in Keys \ {k} : late'[j] = late[j]
          /\ \A r \in late'[k] : r \in late[k] \/ Offering(k, r.job)
      BY <1>3, <2>1, Zenon
    <2>5. \A b \in lateTries'[k] : b \in lateTries[k] \/ AttemptOK(b, when'[k].tries, clock')
      BY <2>2, <2>3, Zenon
    <2> QED
      BY <1>0, <2>3, <2>4, <2>5, LateKept, Zenon
  <1>6. ASSUME NEW k \in Keys, UpsertJobs(k)
        PROVE  LateOK'
    <2>1. UNCHANGED lateTries /\ \E r : late' = [late EXCEPT ![k] = @ \ {r}]
      BY <1>6, Zenon DEF UpsertJobs, Store
    <2>2. DOMAIN late' = Keys /\ \A j \in Keys : late'[j] \subseteq late[j]
      BY <1>1, <2>1
    <2> QED
      BY <1>0, <1>1, <2>1, <2>2, LateKept, Zenon
  <1>7. ASSUME NEW k \in Keys, SaveAttempts(k)
        PROVE  LateOK'
    <2>1. UNCHANGED late /\ \E a : lateTries' = [lateTries EXCEPT ![k] = @ \ {a}]
      BY <1>7, Zenon DEF SaveAttempts
    <2>2. DOMAIN lateTries' = Keys /\ \A j \in Keys : lateTries'[j] \subseteq lateTries[j]
      BY <1>1, <2>1
    <2> QED
      BY <1>0, <1>1, <2>1, <2>2, LateKept, Zenon
  <1>8. ASSUME NEW e \in Epochs, Heartbeat(e) \/ ReconcileEpoch(e)
        PROVE  UNCHANGED <<late, lateTries>>
    BY <1>8, Zenon DEF Heartbeat, ReconcileEpoch, Round
  <1>9. ASSUME NEW r \in Retentions, BeginPrune(r)
        PROVE  UNCHANGED <<late, lateTries>>
    BY <1>9, Zenon DEF BeginPrune, Round
  <1>10. EndPrune \/ Tick \/ UNCHANGED vars => UNCHANGED <<late, lateTries>>
    BY DEF EndPrune, Tick, vars
  <1> QED
    BY <1>2, <1>4, <1>5, <1>6, <1>7, <1>8, <1>9, <1>10, Zenon DEF Next

----------------------------------------------------------------------------
(* The rows of a database. *)

LEMMA ValuesColumns ==
    ASSUME NEW job, DOMAIN job = Field, NEW v, v = L!Values(job)
    PROVE  /\ DOMAIN v = Column
           /\ v.pattern = NormalizeName(job.name) /\ v.rank = Rank(job.state)
           /\ \A c \in {"enqueuedAt", "startedAt", "finishedAt", "pgAt"} : v[c] = L!Unix(job[c])
           /\ \A c \in Field \ {"enqueuedAt", "startedAt", "finishedAt", "pgAt"} : v[c] = job[c]
  <1>1. L!NormalizeName(job.name) = NormalizeName(job.name) /\ L!Rank(job.state) = Rank(job.state)
    BY DatabaseNames, DatabaseRules
  <1>2. v = [c \in Column |->
                CASE c = "pattern"       -> NormalizeName(job.name)
                  [] c = "rank"          -> Rank(job.state)
                  [] c \in L!TimeColumns -> L!Unix(job[c])
                  [] OTHER               -> job[c]]
    BY <1>1 DEF L!Values, Column
  <1> QED
    BY <1>2 DEF Column, Field, L!TimeColumns

LEMMA ConflictColumns ==
    ASSUME NEW row, DOMAIN row = Column, NEW new, NEW m, m = L!OnConflict(row, new)
    PROVE  /\ DOMAIN m = Column
           /\ \A c \in {"queue", "name", "root", "parent"} : m[c] = FillBlank(row[c], new[c])
           /\ m.pattern = IF row.pattern = <<>> THEN new.pattern ELSE row.pattern
           /\ m.state = IF new.rank > row.rank THEN new.state ELSE row.state
           /\ \A c \in {"rank", "attempt", "pgAt"} : m[c] = Larger(row[c], new[c])
           /\ \A c \in {"err", "attrs"} : m[c] = LastNonBlank(row[c], new[c])
           /\ \A c \in {"enqueuedAt", "startedAt"} : m[c] = FillZero(row[c], new[c])
           /\ \A c \in {"finishedAt", "waitUS", "execUS"} : m[c] = LastNonZero(row[c], new[c])
           /\ m.pg = IF new.pgAt > row.pgAt THEN new.pg ELSE row.pg
           /\ m.epoch = row.epoch
  <1> DEFINE pat == IF row.pattern = <<>> THEN new.pattern ELSE row.pattern
  <1>1. m = [c \in Column |->
        CASE c \in {"queue", "name", "root", "parent"}   -> FillBlank(row[c], new[c])
          [] c = "pattern" -> pat
          [] c = "state"   -> IF new.rank > row.rank THEN new.state ELSE row.state
          [] c \in {"rank", "attempt", "pgAt"}           -> Larger(row[c], new[c])
          [] c \in {"err", "attrs"}                      -> LastNonBlank(row[c], new[c])
          [] c \in {"enqueuedAt", "startedAt"}           -> FillZero(row[c], new[c])
          [] c \in {"finishedAt", "waitUS", "execUS"}    -> LastNonZero(row[c], new[c])
          [] c = "pg"      -> IF new.pgAt > row.pgAt THEN new.pg ELSE row.pg
          [] OTHER         -> row[c]]
    BY DatabaseRules DEF L!OnConflict
  <1> HIDE DEF pat
  <1>2. DOMAIN m = Column
    BY <1>1
  <1>3. /\ \A c \in {"queue", "name", "root", "parent"} : m[c] = FillBlank(row[c], new[c])
        /\ \A c \in {"rank", "attempt", "pgAt"} : m[c] = Larger(row[c], new[c])
        /\ \A c \in {"err", "attrs"} : m[c] = LastNonBlank(row[c], new[c])
    BY <1>1 DEF Column, Field
  <1>4. /\ \A c \in {"enqueuedAt", "startedAt"} : m[c] = FillZero(row[c], new[c])
        /\ \A c \in {"finishedAt", "waitUS", "execUS"} : m[c] = LastNonZero(row[c], new[c])
        /\ m.pattern = pat /\ m.epoch = row.epoch
    BY <1>1 DEF Column, Field
  <1>5. /\ m.state = IF new.rank > row.rank THEN new.state ELSE row.state
        /\ m.pg = IF new.pgAt > row.pgAt THEN new.pg ELSE row.pg
    BY <1>1 DEF Column, Field
  <1> QED
    BY <1>2, <1>3, <1>4, <1>5, Zenon DEF pat

\* Only the blank name has the blank pattern.
LEMMA BlankPattern ==
    ASSUME NEW n \in Names
    PROVE  NormalizeName(n) = <<>> <=> n = Blank
  <1>1. CASE n = Blank
    BY <1>1, Zenon DEF NormalizeName, Blank
  <1>2. CASE n # Blank
    <2>1. n # ""
      BY <1>2, Zenon DEF Blank
    <2>2. n \in DOMAIN Segments
      BY <2>1, DriversAssumption, Zenon DEF Names, Blank
    <2>3. DOMAIN Segments[n] # {}
      BY <2>1, <2>2, QueryAssumption, Zenon
    <2>4. NormalizeName(n) = [i \in DOMAIN Segments[n] |-> MaskSegment(Segments[n][i])]
      BY <2>1, Zenon DEF NormalizeName
    <2>5. DOMAIN NormalizeName(n) = DOMAIN Segments[n]
      BY <2>4, Zenon
    <2> DEFINE x == NormalizeName(n)
    <2> HIDE DEF x
    <2>6. x = <<>> => DOMAIN x = {}
      OBVIOUS
    <2> QED
      BY <1>2, <2>3, <2>5, <2>6 DEF x
  <1> QED
    BY <1>1, <1>2

LEMMA FillsBlank ==
    ASSUME NEW a, NEW b
    PROVE  FillBlank(a, b) = IF a = Blank THEN b ELSE a
  BY Zenon DEF FillBlank, Blank

RowOK(row) ==
    /\ DOMAIN row = Column
    /\ row.state \in State /\ row.rank = Rank(row.state)
    /\ row.name \in Names /\ row.pattern = NormalizeName(row.name)

\* What a hook offers makes a row of the right shape, new or merged into one.
LEMMA ValuesOK ==
    ASSUME NEW k \in Keys, NEW job, Offered(k, job)
    PROVE  RowOK(L!Values(job))
  <1> DEFINE v == L!Values(job)
  <1>1. DOMAIN job = Field /\ job.state \in State /\ job.name \in Names
    BY DEF Offered, JobOK
  <1>2. /\ DOMAIN v = Column /\ v.pattern = NormalizeName(job.name) /\ v.rank = Rank(job.state)
        /\ v.name = job.name /\ v.state = job.state
    BY <1>1, ValuesColumns DEF Field
  <1> HIDE DEF v
  <1>4. RowOK(v)
    BY <1>1, <1>2 DEF RowOK
  <1> QED
    BY <1>4 DEF v

LEMMA ConflictOK ==
    ASSUME NEW row, RowOK(row), NEW new, RowOK(new)
    PROVE  RowOK(L!OnConflict(row, new))
  <1> DEFINE m == L!OnConflict(row, new)
  <1>1. /\ DOMAIN m = Column /\ m.name = FillBlank(row.name, new.name)
        /\ m.pattern = IF row.pattern = <<>> THEN new.pattern ELSE row.pattern
        /\ m.state = IF new.rank > row.rank THEN new.state ELSE row.state
        /\ m.rank = Larger(row.rank, new.rank)
    BY ConflictColumns DEF RowOK
  <1> HIDE DEF m
  <1>2. m.name \in Names /\ m.pattern = NormalizeName(m.name)
    BY <1>1, FillsBlank, BlankPattern, Zenon DEF RowOK
  <1>3. m.state \in State /\ m.rank = Rank(m.state)
    BY <1>1 DEF RowOK, Larger
  <1>4. RowOK(m)
    BY <1>1, <1>2, <1>3 DEF RowOK
  <1> QED
    BY <1>4 DEF m

LEMMA InterruptOK ==
    ASSUME NEW row, RowOK(row)
    PROVE  RowOK(L!Interrupt(row)) /\ L!Interrupt(row).state = "interrupted"
  <1> DEFINE m == L!Interrupt(row)
  <1>1. m = [row EXCEPT !.state = "interrupted", !.rank = 3]
    BY DEF L!Interrupt
  <1> HIDE DEF m
  <1>2. /\ DOMAIN m = Column /\ m.state = "interrupted" /\ m.rank = 3
        /\ m.name = row.name /\ m.pattern = row.pattern
    BY <1>1 DEF RowOK, Column, Field
  <1>3. Rank("interrupted") = 3 /\ "interrupted" \in State
    BY DEF Rank, State
  <1>4. RowOK(m)
    BY <1>2, <1>3 DEF RowOK
  <1> QED
    BY <1>2, <1>4 DEF m

----------------------------------------------------------------------------
(* A database is in order: its rows are, and every row has a number of its  *)
(* own that no later row can get.                                           *)

Numbered(keys, rowid, inserts) ==
    /\ inserts \in Nat
    /\ rowid \in [keys -> 1..inserts]
    /\ \A j, k \in keys : rowid[j] = rowid[k] => j = k

DB(s) ==
    /\ DOMAIN s = Table
    /\ DOMAIN s.jobs \subseteq Keys /\ \A k \in DOMAIN s.jobs : RowOK(s.jobs[k])
    /\ DOMAIN s.epochs \subseteq Epochs
    /\ DOMAIN s.attempts \subseteq Keys \X Nat \X Nat
    /\ Numbered(DOMAIN s.jobs, s.rowid, s.inserts)

LEMMA NumberedInsert ==
    ASSUME NEW keys, NEW rowid, NEW inserts, Numbered(keys, rowid, inserts), NEW k, k \notin keys
    PROVE  Numbered(keys \union {k}, Put(rowid, k, inserts + 1), inserts + 1)
  <1> DEFINE f == Put(rowid, k, inserts + 1)
  <1>1. inserts \in Nat /\ DOMAIN rowid = keys /\ \A j \in keys : rowid[j] \in 1..inserts
    BY DEF Numbered
  <1>2. f = [i \in keys \union {k} |-> IF i = k THEN inserts + 1 ELSE rowid[i]]
    BY <1>1, Zenon DEF Put
  <1> HIDE DEF f
  <1>3. f[k] = inserts + 1 /\ \A j \in keys : f[j] = rowid[j]
    BY <1>2
  <1>4. f \in [keys \union {k} -> 1..(inserts + 1)]
    <2>1. \A i \in keys \union {k} : (IF i = k THEN inserts + 1 ELSE rowid[i]) \in 1..(inserts + 1)
      BY <1>1
    <2> QED
      BY <1>2, <2>1, Zenon
  <1>5. \A i, j \in keys \union {k} : f[i] = f[j] => i = j
    BY <1>1, <1>3 DEF Numbered
  <1>6. Numbered(keys \union {k}, f, inserts + 1)
    BY <1>1, <1>4, <1>5 DEF Numbered
  <1> QED
    BY <1>6 DEF f

LEMMA NumberedDelete ==
    ASSUME NEW keys, NEW rowid, NEW inserts, Numbered(keys, rowid, inserts), NEW gone
    PROVE  Numbered(keys \ gone, Delete(rowid, gone), inserts)
  <1>1. DOMAIN rowid = keys
    BY DEF Numbered
  <1>2. Delete(rowid, gone) = [i \in keys \ gone |-> rowid[i]]
    BY <1>1, Zenon DEF Delete
  <1> QED
    BY <1>2 DEF Numbered

\* Every write keeps a database in order.
LEMMA UpsertOK ==
    ASSUME NEW s, DB(s), NEW k \in Keys, NEW job, Offered(k, job), NEW t, t = L!UpsertJob(s, k, job)
    PROVE  DB(t)
  <1>0. RowOK(L!Values(job))
    BY ValuesOK
  <1>1. CASE k \in DOMAIN s.jobs
    <2> DEFINE row == L!OnConflict(s.jobs[k], L!Values(job))
    <2>1. RowOK(row)
      BY <1>0, <1>1, ConflictOK DEF DB
    <2>2. /\ DOMAIN t = Table
          /\ t.attempts = s.attempts /\ t.epochs = s.epochs
          /\ t.rowid = s.rowid /\ t.inserts = s.inserts
          /\ t.jobs = Put(s.jobs, k, row)
      BY <1>1, UpsertKnown DEF DB
    <2> HIDE DEF row
    <2>3. DOMAIN t.jobs = DOMAIN s.jobs /\ t.jobs[k] = row
            /\ \A j \in DOMAIN s.jobs \ {k} : t.jobs[j] = s.jobs[j]
      BY <1>1, <2>2 DEF Put
    <2> QED
      BY <2>1, <2>2, <2>3, Zenon DEF DB
  <1>2. CASE k \notin DOMAIN s.jobs
    <2> DEFINE row == L!Values(job)
    <2>2. /\ DOMAIN t = Table
          /\ t.attempts = s.attempts /\ t.epochs = s.epochs
          /\ t.rowid = Put(s.rowid, k, s.inserts + 1) /\ t.inserts = s.inserts + 1
          /\ t.jobs = Put(s.jobs, k, row)
      BY <1>2, UpsertNew DEF DB
    <2>3. RowOK(row)
      BY <1>0
    <2> HIDE DEF row
    <2>4. DOMAIN t.jobs = DOMAIN s.jobs \union {k} /\ t.jobs[k] = row
            /\ \A j \in DOMAIN s.jobs \ {k} : t.jobs[j] = s.jobs[j]
      BY <2>2 DEF Put
    <2>5. Numbered(DOMAIN t.jobs, t.rowid, t.inserts)
      BY <1>2, <2>2, <2>4, NumberedInsert DEF DB
    <2>6. \A j \in DOMAIN t.jobs : RowOK(t.jobs[j])
      BY <2>3, <2>4, Zenon DEF DB
    <2>7. DOMAIN t.jobs \subseteq Keys
      BY <2>4, Zenon DEF DB
    <2> QED
      BY <2>2, <2>5, <2>6, <2>7, Zenon DEF DB
  <1> QED
    BY <1>1, <1>2

LEMMA SaveAttemptOK ==
    ASSUME NEW s, DB(s), NEW k \in Keys, NEW a, a.n \in Nat, L!Unix(a.startedAt) \in Nat,
           NEW t, t = L!SaveAttempt(s, k, a)
    PROVE  DB(t)
  <1>1. /\ DOMAIN t = Table /\ t.jobs = s.jobs /\ t.epochs = s.epochs
        /\ t.rowid = s.rowid /\ t.inserts = s.inserts
        /\ \E new : t.attempts = Put(s.attempts, <<k, a.n, L!Unix(a.startedAt)>>, new)
    BY SaveAttemptTables DEF DB
  <1>2. DOMAIN t.attempts = DOMAIN s.attempts \union {<<k, a.n, L!Unix(a.startedAt)>>}
    <2>1. PICK new : t.attempts = Put(s.attempts, <<k, a.n, L!Unix(a.startedAt)>>, new)
      BY <1>1
    <2> QED
      BY <2>1, Zenon DEF Put
  <1>3. <<k, a.n, L!Unix(a.startedAt)>> \in Keys \X Nat \X Nat
    OBVIOUS
  <1>4. DOMAIN t.attempts \subseteq Keys \X Nat \X Nat
    BY <1>2, <1>3, Zenon DEF DB
  <1> QED
    BY <1>1, <1>4, Zenon DEF DB

LEMMA HeartbeatOK ==
    ASSUME NEW s, DB(s), NEW e \in Epochs, NEW at, NEW t, t = L!Heartbeat(s, e, at)
    PROVE  DB(t)
  <1>1. /\ DOMAIN t = Table /\ t.jobs = s.jobs /\ t.attempts = s.attempts
        /\ t.rowid = s.rowid /\ t.inserts = s.inserts
        /\ t.epochs = Put(s.epochs, e, L!Unix(at))
    BY HeartbeatTables DEF DB
  <1>2. DOMAIN t.epochs \subseteq Epochs
    BY <1>1 DEF Put, DB
  <1> QED
    BY <1>1, <1>2, Zenon DEF DB

LEMMA ReconcileOK ==
    ASSUME NEW s, DB(s), NEW e, NEW stale, NEW now, NEW t, t = L!ReconcileEpoch(s, e, stale, now)
    PROVE  DB(t)
  <1>1. /\ DOMAIN t = Table
        /\ t.attempts = s.attempts /\ t.epochs = s.epochs
        /\ t.rowid = s.rowid /\ t.inserts = s.inserts
        /\ DOMAIN t.jobs = DOMAIN s.jobs
        /\ \A k \in DOMAIN s.jobs : t.jobs[k] \in {L!Interrupt(s.jobs[k]), s.jobs[k]}
    BY ReconcileTables DEF DB
  <1>2. \A k \in DOMAIN t.jobs : RowOK(t.jobs[k])
    BY <1>1, InterruptOK DEF DB
  <1> QED
    BY <1>1, <1>2, Zenon DEF DB

LEMMA DeleteAttemptsOK ==
    ASSUME NEW s, DB(s), NEW keys, NEW t, t = L!DeleteAttempts(s, keys)
    PROVE  DB(t)
  <1>1. /\ DOMAIN t = Table /\ t.jobs = s.jobs /\ t.epochs = s.epochs
        /\ t.rowid = s.rowid /\ t.inserts = s.inserts
        /\ t.attempts = Delete(s.attempts, AttemptsOf(s, keys))
    BY DeleteAttemptsTables DEF DB
  <1>2. DOMAIN t.attempts \subseteq Keys \X Nat \X Nat
    BY <1>1, Zenon DEF Delete, DB
  <1> QED
    BY <1>1, <1>2, Zenon DEF DB

LEMMA DeleteJobsOK ==
    ASSUME NEW s, DB(s), NEW keys, NEW t, t = L!DeleteJobs(s, keys)
    PROVE  DB(t)
  <1>1. /\ DOMAIN t = Table /\ t.attempts = s.attempts /\ t.epochs = s.epochs /\ t.inserts = s.inserts
        /\ t.jobs = Delete(s.jobs, keys) /\ t.rowid = Delete(s.rowid, keys)
    BY DeleteJobsTables DEF DB
  <1>2. DOMAIN t.jobs = DOMAIN s.jobs \ keys /\ \A j \in DOMAIN t.jobs : t.jobs[j] = s.jobs[j]
    BY <1>1 DEF Delete
  <1>3. Numbered(DOMAIN t.jobs, t.rowid, t.inserts)
    BY <1>1, <1>2, NumberedDelete DEF DB
  <1>4. \A j \in DOMAIN t.jobs : RowOK(t.jobs[j])
    BY <1>2, Zenon DEF DB
  <1>5. DOMAIN t.jobs \subseteq Keys
    BY <1>2, Zenon DEF DB
  <1> QED
    BY <1>1, <1>3, <1>4, <1>5, Zenon DEF DB

----------------------------------------------------------------------------
(* The memory store is in order: its rows say what records may say. *)

MemOK ==
    /\ DOMAIN mem = Maps
    /\ DOMAIN mem.jobs \subseteq Keys
    /\ \A k \in DOMAIN mem.jobs : JobOK(k, mem.jobs[k], clock, when[k].finished)
    /\ DOMAIN mem.epochs \subseteq Epochs
    /\ DOMAIN mem.attempts = Keys

LEMMA MergeFields ==
    ASSUME NEW row, NEW job, NEW m, m = Merge(row, job)
    PROVE  /\ DOMAIN m = Field /\ m.epoch = row.epoch
           /\ m.state = Advance(row.state, job.state)
           /\ m.name = FillBlank(row.name, job.name)
           /\ m.enqueuedAt = FillZero(row.enqueuedAt, job.enqueuedAt)
           /\ m.startedAt = FillZero(row.startedAt, job.startedAt)
           /\ m.finishedAt = LastNonZero(row.finishedAt, job.finishedAt)
           /\ m.pgAt = Larger(row.pgAt, job.pgAt)
  BY DEF Merge, Field

LEMMA MergeOK ==
    ASSUME TimesOK, NEW k \in Keys, NEW job, Offered(k, job), NEW row,
           JobOK(k, row, clock, when[k].finished)
    PROVE  JobOK(k, Merge(row, job), clock, when[k].finished)
  <1> DEFINE m == Merge(row, job)
  <1>1. clock \in Nat \ {0}
    BY ClockPositive
  <1>2. /\ DOMAIN m = Field /\ m.epoch = row.epoch
        /\ m.state = Advance(row.state, job.state) /\ m.name = FillBlank(row.name, job.name)
        /\ m.enqueuedAt = FillZero(row.enqueuedAt, job.enqueuedAt)
        /\ m.startedAt = FillZero(row.startedAt, job.startedAt)
        /\ m.finishedAt = LastNonZero(row.finishedAt, job.finishedAt)
        /\ m.pgAt = Larger(row.pgAt, job.pgAt)
    BY MergeFields
  <1> HIDE DEF m
  <1>3. m.name \in Names
    BY <1>2, FillsBlank DEF JobOK, Offered
  <1>4. m.state \in State
    BY <1>2 DEF JobOK, Offered, Advance
  <1>5. /\ m.enqueuedAt \in Instants(clock) /\ m.startedAt \in Instants(clock)
        /\ m.finishedAt \in Instants(clock) /\ m.pgAt \in Instants(clock)
        /\ m.finishedAt \in {0, when[k].finished}
        /\ when[k].finished # 0 => m.startedAt <= when[k].finished /\ m.pgAt <= when[k].finished
    BY <1>1, <1>2 DEF JobOK, Offered, FillZero, LastNonZero, Larger
  <1>6. ASSUME Terminal(m.state), m.state # "interrupted"
        PROVE  when[k].finished # 0 /\ m.finishedAt = when[k].finished
    <2>1. m.state \in {row.state, job.state}
      BY <1>2 DEF Advance
    <2>2. when[k].finished # 0 /\ when[k].finished \in {row.finishedAt, job.finishedAt}
      BY <1>6, <2>1 DEF JobOK, Offered
    <2> QED
      BY <1>2, <2>2 DEF JobOK, Offered, LastNonZero
  <1>7. JobOK(k, m, clock, when[k].finished)
    BY <1>2, <1>3, <1>4, <1>5, <1>6 DEF JobOK
  <1> QED
    BY <1>7 DEF m

LEMMA MemKept ==
    ASSUME TimesOK, TimesOK', clock <= clock', Lives, MemOK, DOMAIN mem' = Maps,
           DOMAIN mem'.jobs \subseteq DOMAIN mem.jobs,
           \A k \in DOMAIN mem'.jobs : mem'.jobs[k] = mem.jobs[k],
           DOMAIN mem'.epochs \subseteq Epochs, DOMAIN mem'.attempts = Keys
    PROVE  MemOK'
  <1>1. clock \in Nat /\ clock' \in Nat
    BY ClockPositive, Constants DEF TimesOK
  <1>2. ASSUME NEW k \in DOMAIN mem'.jobs
        PROVE  JobOK(k, mem'.jobs[k], clock', when'[k].finished)
    BY <1>1, JobLater, Zenon DEF MemOK, Lives
  <1> QED
    BY <1>2, Zenon DEF MemOK

----------------------------------------------------------------------------
(* The notes of a job only grow. *)

PastOK == past \in [Keys -> SUBSET Notes]

LEMMA NoteKeeps ==
    ASSUME PastOK, NEW touched, NEW tied, NEW adrift, NEW named, NEW cut,
           Note(touched, tied, adrift, named, cut)
    PROVE  /\ PastOK'
           /\ \A k \in Keys :
                /\ past[k] \subseteq past'[k]
                /\ k \in tied => "tied" \in past'[k]
                /\ k \in touched /\ pruning # {} => "raced" \in past'[k]
                /\ k \in adrift => "adrift" \in past'[k]
                /\ k \in cut => "cut" \in past'[k]
                /\ "named" \in past'[k] => "named" \in past[k] \/ k \in named
  <1> DEFINE new(k) == {n \in Notes :
            \/ n = "tied" /\ k \in tied
            \/ n = "raced" /\ pruning # {} /\ k \in touched
            \/ n = "adrift" /\ k \in adrift
            \/ n = "named" /\ k \in named
            \/ n = "cut" /\ k \in cut}
  <1>1. past' = [k \in Keys |-> past[k] \union new(k)]
    BY Zenon DEF Note
  <1>2. PastOK'
    BY <1>1, Zenon DEF PastOK
  <1>3. ASSUME NEW k \in Keys
        PROVE  /\ k \in tied => "tied" \in new(k)
               /\ k \in touched /\ pruning # {} => "raced" \in new(k)
               /\ k \in adrift => "adrift" \in new(k)
               /\ k \in cut => "cut" \in new(k)
               /\ "named" \in new(k) => k \in named
    BY DEF Notes
  <1> HIDE DEF new
  <1>4. \A k \in Keys : past'[k] = past[k] \union new(k)
    BY <1>1, Zenon
  <1> QED
    BY <1>2, <1>3, <1>4, Zenon

LEMMA UnnamedNotes ==
    ASSUME PastOK, NEW touched, NEW tied, NEW adrift, NEW cut, Note(touched, tied, adrift, {}, cut)
    PROVE  \A k \in Keys : /\ "named" \in past'[k] => "named" \in past[k]
                           /\ k \in cut => "cut" \in past'[k]
  <1>1. \A k \in Keys : /\ "named" \in past'[k] => "named" \in past[k] \/ k \in {}
                        /\ k \in cut => "cut" \in past'[k]
    BY NoteKeeps
  <1> QED
    BY <1>1

LEMMA NotesGrow ==
    ASSUME PastOK, TimesOK, LateOK, [Next]_vars
    PROVE  PastOK' /\ \A k \in Keys : past[k] \subseteq past'[k]
  <1>1. ASSUME NEW touched, NEW tied, NEW adrift, NEW named, NEW cut,
               Note(touched, tied, adrift, named, cut)
        PROVE  PastOK' /\ \A k \in Keys : past[k] \subseteq past'[k]
    BY <1>1, NoteKeeps, Zenon
  <1>2. UNCHANGED past => PastOK' /\ \A k \in Keys : past[k] \subseteq past'[k]
    BY DEF PastOK
  <1>3. Kept => UNCHANGED past
    BY DEF Kept
  <1>4. ASSUME NEW k \in Keys, NEW job, Store(k, job)
        PROVE  PastOK' /\ \A j \in Keys : past[j] \subseteq past'[j]
    BY <1>1, <1>4, Zenon DEF Store
  <1>5. ASSUME NEW k \in Keys, SaveAttempts(k)
        PROVE  PastOK' /\ \A j \in Keys : past[j] \subseteq past'[j]
    BY <1>1, <1>5, Zenon DEF SaveAttempts
  <1>6. ASSUME NEW e \in Epochs, Heartbeat(e) \/ ReconcileEpoch(e)
        PROVE  PastOK' /\ \A j \in Keys : past[j] \subseteq past'[j]
    <2>1. Heartbeat(e) => UNCHANGED past
      BY DEF Heartbeat
    <2>2. ASSUME ReconcileEpoch(e)
          PROVE  \E touched, near : Note(touched, near, {}, {}, {})
      BY <2>2, Zenon DEF ReconcileEpoch
    <2> QED
      BY <1>1, <1>2, <1>6, <2>1, <2>2, Zenon
  <1>7. ASSUME NEW r \in Retentions, BeginPrune(r)
        PROVE  PastOK' /\ \A j \in Keys : past[j] \subseteq past'[j]
    <2>1. \E near, cut : Note({}, near, {}, {}, cut)
      BY <1>7, Zenon DEF BeginPrune
    <2> QED
      BY <1>1, <2>1, Zenon
  <1>8. EndPrune => UNCHANGED past
    BY DEF EndPrune
  <1> QED
    BY <1>2, <1>3, <1>4, <1>5, <1>6, <1>7, <1>8, StepCases, Zenon

----------------------------------------------------------------------------
(* The stores stay in order. *)

StoresInv == TimesOK /\ LateOK /\ PastOK /\ MemOK /\ DB(lite) /\ DB(pg)

LEMMA InitStores ==
    ASSUME Init
    PROVE  StoresInv
  <1>1. TimesOK
    <2>1. TriesOK(<<>>, clock)
      BY DEF TriesOK
    <2> QED
      BY <2>1, Constants, InstantFacts DEF Init, TimesOK, Life
  <1>a. LateOK
    BY DEF Init, LateOK
  <1>2. PastOK
    BY DEF Init, PastOK
  <1>3. MemOK
    <2>1. mem = [jobs |-> <<>>, attempts |-> [k \in Keys |-> <<>>], epochs |-> <<>>]
      BY DEF Init, M!Open, Keys
    <2>2. DOMAIN mem = Maps
      BY <2>1 DEF Maps
    <2>3. mem.jobs = <<>> /\ mem.epochs = <<>> /\ mem.attempts = [k \in Keys |-> <<>>]
      BY <2>1
    <2>4. DOMAIN mem.jobs = {} /\ DOMAIN mem.epochs = {} /\ DOMAIN mem.attempts = Keys
      BY <2>3
    <2> QED
      BY <2>2, <2>4, Zenon DEF MemOK
  <1>4. DB(L!Migrate)
    <2> DEFINE s == L!Migrate
    <2>1. s = [jobs |-> <<>>, attempts |-> <<>>, epochs |-> <<>>, rowid |-> <<>>, inserts |-> 0]
      BY DEF L!Migrate
    <2> HIDE DEF s
    <2>2. DOMAIN s = Table
      BY <2>1 DEF Table
    <2>3. s.jobs = <<>> /\ s.attempts = <<>> /\ s.epochs = <<>> /\ s.rowid = <<>> /\ s.inserts = 0
      BY <2>1
    <2>4. DOMAIN s.jobs = {} /\ DOMAIN s.epochs = {} /\ DOMAIN s.attempts = {}
      BY <2>3
    <2>5. Numbered({}, s.rowid, s.inserts)
      BY <2>3 DEF Numbered
    <2>6. DB(s)
      BY <2>2, <2>4, <2>5, Zenon DEF DB
    <2> QED
      BY <2>6 DEF s
  <1>5. P!Migrate = L!Migrate
    BY DEF P!Migrate, P!L!Migrate, L!Migrate
  <1> QED
    BY <1>1, <1>a, <1>2, <1>3, <1>4, <1>5, Zenon DEF StoresInv, Init

LEMMA StoreStep ==
    ASSUME StoresInv, NEW k \in Keys, NEW job, Offered(k, job), Store(k, job)
    PROVE  MemOK' /\ DB(lite)' /\ DB(pg)'
  <1> USE DEF StoresInv
  <1>1. DB(lite)' /\ DB(pg)'
    <2>1. lite' = L!UpsertJob(lite, k, job) /\ pg' = L!UpsertJob(pg, k, job)
      BY PostgresUpsert, Zenon DEF Store
    <2> QED
      BY <2>1, UpsertOK, Zenon
  <1>2. /\ DOMAIN mem' = Maps /\ mem'.attempts = mem.attempts /\ mem'.epochs = mem.epochs
        /\ mem'.jobs = Upsert(mem.jobs, k, job)
    <2>1. mem' = M!UpsertJob(mem, k, job)
      BY Zenon DEF Store
    <2> QED
      BY <2>1, MemoryUpsert DEF MemOK
  <1>3. /\ DOMAIN mem'.jobs = DOMAIN mem.jobs \union {k}
        /\ mem'.jobs[k] = IF k \in DOMAIN mem.jobs THEN Merge(mem.jobs[k], job) ELSE job
        /\ \A j \in DOMAIN mem.jobs \ {k} : mem'.jobs[j] = mem.jobs[j]
    BY <1>2 DEF Upsert
  <1>4. clock' = clock /\ when' = when
    BY Zenon DEF Store
  <1>5. JobOK(k, mem'.jobs[k], clock', when'[k].finished)
    <2>1. CASE k \in DOMAIN mem.jobs
      BY <1>3, <1>4, <2>1, MergeOK, Zenon DEF MemOK
    <2>2. CASE k \notin DOMAIN mem.jobs
      BY <1>3, <1>4, <2>2, Zenon DEF Offered
    <2> QED
      BY <2>1, <2>2
  <1>6. ASSUME NEW j \in DOMAIN mem.jobs \ {k}
        PROVE  JobOK(j, mem'.jobs[j], clock', when'[j].finished)
    BY <1>3, <1>4, Zenon DEF MemOK
  <1>7. \A j \in DOMAIN mem'.jobs : JobOK(j, mem'.jobs[j], clock', when'[j].finished)
    BY <1>3, <1>5, <1>6, Zenon
  <1>8. DOMAIN mem'.jobs \subseteq Keys
    BY <1>3, Zenon DEF MemOK
  <1> QED
    BY <1>1, <1>2, <1>7, <1>8, Zenon DEF MemOK

LEMMA UnixTimes ==
    ASSUME NEW t \in Nat
    PROVE  L!Unix(t) \in Nat
  <1>1. Nanos \in Nat \ {0}
    BY Constants
  <1>2. t \div Nanos \in Nat
    BY <1>1
  <1> QED
    BY <1>2 DEF L!Unix

LEMMA SaveAttemptsStep ==
    ASSUME StoresInv, NEW k \in Keys, SaveAttempts(k)
    PROVE  \E a : /\ AttemptOK(a, when[k].tries, clock)
                  /\ a.n \in Nat /\ L!Unix(a.startedAt) \in Nat
                  /\ mem' = M!SaveAttempt(mem, k, a)
                  /\ lite' = L!SaveAttempt(lite, k, a)
                  /\ pg' = L!SaveAttempt(pg, k, a)
  <1>1. PICK a \in lateTries[k] : /\ mem' = M!SaveAttempt(mem, k, a)
                                  /\ lite' = L!SaveAttempt(lite, k, a)
                                  /\ pg' = P!SaveAttempt(pg, k, a)
    BY Zenon DEF SaveAttempts
  <1>2. AttemptOK(a, when[k].tries, clock) /\ TriesOK(when[k].tries, clock)
    BY <1>1, Zenon DEF StoresInv, LateOK, TimesOK
  <1>3. a.n \in Nat /\ a.startedAt \in Nat
    BY <1>2 DEF AttemptOK, TriesOK
  <1>4. L!Unix(a.startedAt) \in Nat
    BY <1>3, UnixTimes
  <1> QED
    BY <1>1, <1>2, <1>3, <1>4, PostgresWrites, Zenon

LEMMA StoresStep ==
    ASSUME StoresInv, [Next]_vars
    PROVE  StoresInv'
  <1>0. /\ TimesOK /\ LateOK /\ PastOK /\ MemOK /\ DB(lite) /\ DB(pg)
        /\ DOMAIN mem = Maps /\ DOMAIN lite = Table /\ DOMAIN pg = Table
    BY DEF StoresInv, MemOK, DB
  <1>1. TimesOK' /\ LateOK' /\ PastOK' /\ clock <= clock' /\ Lives
    BY <1>0, TimesStep, LateStep, NotesGrow, Zenon
  <1>2. UNCHANGED mem => MemOK'
    <2>1. DOMAIN mem.epochs \subseteq Epochs /\ DOMAIN mem.attempts = Keys
      BY <1>0 DEF MemOK
    <2> QED
      BY <1>0, <1>1, <2>1, MemKept, Zenon
  <1>3. Kept => StoresInv'
    BY <1>0, <1>1, <1>2, Zenon DEF Kept, StoresInv
  <1>4. ASSUME NEW k \in Keys, NEW job, Offered(k, job), Store(k, job)
        PROVE  StoresInv'
    BY <1>1, <1>4, StoreStep, Zenon DEF StoresInv
  <1>5. ASSUME NEW k \in Keys, SaveAttempts(k)
        PROVE  StoresInv'
    <2>1. PICK a : /\ a.n \in Nat /\ L!Unix(a.startedAt) \in Nat
                   /\ mem' = M!SaveAttempt(mem, k, a)
                   /\ lite' = L!SaveAttempt(lite, k, a)
                   /\ pg' = L!SaveAttempt(pg, k, a)
      BY <1>5, SaveAttemptsStep
    <2>2. DB(lite)' /\ DB(pg)'
      BY <1>0, <2>1, SaveAttemptOK, Zenon
    <2>3. /\ DOMAIN mem' = Maps /\ mem'.epochs = mem.epochs /\ mem'.jobs = mem.jobs
          /\ \E own : mem'.attempts = Put(mem.attempts, k, own)
      BY <1>0, <2>1, MemorySaveAttempt
    <2>4. DOMAIN mem'.attempts = Keys
      BY <1>0, <2>3 DEF Put, MemOK
    <2>5. MemOK'
      BY <1>0, <1>1, <2>3, <2>4, MemKept, Zenon DEF MemOK
    <2> QED
      BY <1>1, <2>2, <2>5 DEF StoresInv
  <1>6. ASSUME NEW e \in Epochs, Heartbeat(e)
        PROVE  StoresInv'
    <2>1. PICK t : mem' = M!Heartbeat(mem, e, t) /\ lite' = L!Heartbeat(lite, e, t)
                     /\ pg' = P!Heartbeat(pg, e, t)
      BY <1>6, Zenon DEF Heartbeat
    <2>2. DB(lite)' /\ DB(pg)'
      <3>1. pg' = L!Heartbeat(pg, e, t)
        BY <2>1, PostgresWrites
      <3> QED
        BY <1>0, <2>1, <3>1, HeartbeatOK
    <2>3. /\ DOMAIN mem' = Maps /\ mem'.attempts = mem.attempts /\ mem'.jobs = mem.jobs
          /\ mem'.epochs = Put(mem.epochs, e, t)
      BY <1>0, <2>1, MemoryHeartbeat
    <2>4. DOMAIN mem'.epochs \subseteq Epochs
      BY <1>0, <2>3 DEF Put, MemOK
    <2>5. MemOK'
      BY <1>0, <1>1, <2>3, <2>4, MemKept, Zenon DEF MemOK
    <2> QED
      BY <1>1, <2>2, <2>5 DEF StoresInv
  <1>7. ASSUME NEW e \in Epochs, ReconcileEpoch(e)
        PROVE  StoresInv'
    <2>1. /\ mem' = M!ReconcileEpoch(mem, e, StaleAfter, clock)
          /\ lite' = L!ReconcileEpoch(lite, e, StaleAfter, clock)
          /\ pg' = P!ReconcileEpoch(pg, e, StaleAfter, clock)
          /\ UNCHANGED <<clock, when>>
      BY <1>7, Zenon DEF ReconcileEpoch, Round
    <2>2. DB(lite)' /\ DB(pg)'
      <3>1. pg' = L!ReconcileEpoch(pg, e, StaleAfter, clock)
        BY <2>1, PostgresWrites
      <3> QED
        BY <1>0, <2>1, <3>1, ReconcileOK
    <2>3. /\ DOMAIN mem' = Maps /\ mem'.attempts = mem.attempts /\ mem'.epochs = mem.epochs
          /\ DOMAIN mem'.jobs = DOMAIN mem.jobs
          /\ \A k \in DOMAIN mem.jobs :
                mem'.jobs[k] \in {mem.jobs[k], Interrupted(mem.jobs[k])}
      BY <1>0, <2>1, MemoryReconcile
    <2>4. ASSUME NEW k \in DOMAIN mem.jobs
          PROVE  JobOK(k, mem'.jobs[k], clock', when'[k].finished)
      <3>1. JobOK(k, mem.jobs[k], clock, when[k].finished) /\ clock' = clock /\ when' = when
        BY <1>0, <2>1 DEF MemOK
      <3>2. CASE mem'.jobs[k] = Interrupted(mem.jobs[k])
        BY <3>1, <3>2 DEF JobOK, State, Field, Interrupted
      <3>3. CASE mem'.jobs[k] = mem.jobs[k]
        BY <3>1, <3>3
      <3> QED
        BY <2>3, <3>2, <3>3, Zenon
    <2>5. MemOK'
      BY <1>0, <2>3, <2>4, Zenon DEF MemOK
    <2> QED
      BY <1>1, <2>2, <2>5 DEF StoresInv
  <1>8. ASSUME NEW r \in Retentions, BeginPrune(r)
        PROVE  StoresInv'
    <2> DEFINE before == clock - r.age
    <2>1. /\ mem' = M!PruneStore(mem, before, r.states)
          /\ lite' = L!PruneStore(lite, before, r.states)
          /\ pg' = P!PruneAttempts(pg, before, r.states)
      BY <1>8, Zenon DEF BeginPrune
    <2> HIDE DEF before
    <2>2. DB(lite)'
      <3> DEFINE gone == L!Expired(lite, L!Unix(before), r.states)
                 left == L!DeleteAttempts(lite, gone)
      <3>1. lite' = L!DeleteJobs(left, gone)
        BY <2>1, Zenon DEF L!PruneStore
      <3>2. DB(left)
        BY <1>0, DeleteAttemptsOK, Zenon
      <3> QED
        BY <3>1, <3>2, DeleteJobsOK, Zenon
    <2>3. DB(pg)'
      BY <1>0, <2>1, PostgresWrites, DeleteAttemptsOK, Zenon
    <2>4. /\ DOMAIN mem' = Maps /\ mem'.epochs = mem.epochs
          /\ mem'.jobs = Prune(mem.jobs, before, r.states)
          /\ DOMAIN mem'.attempts = DOMAIN mem.attempts
      BY <1>0, <2>1, MemoryPrune
    <2>5. /\ DOMAIN mem'.jobs \subseteq DOMAIN mem.jobs
          /\ \A k \in DOMAIN mem'.jobs : mem'.jobs[k] = mem.jobs[k]
      BY <2>4 DEF Prune
    <2>6. MemOK'
      BY <1>0, <1>1, <2>4, <2>5, MemKept, Zenon DEF MemOK
    <2> QED
      BY <1>1, <2>2, <2>3, <2>6 DEF StoresInv
  <1>9. ASSUME EndPrune
        PROVE  StoresInv'
    <2>1. PICK p \in pruning : pg' = P!PruneJobs(pg, p.before, p.states)
      BY <1>9, Zenon DEF EndPrune
    <2>2. DB(pg)'
      BY <1>0, <2>1, PostgresWrites, DeleteJobsOK, Zenon
    <2>3. UNCHANGED <<mem, lite>>
      BY <1>9 DEF EndPrune
    <2> QED
      BY <1>0, <1>1, <1>2, <2>2, <2>3, Zenon DEF StoresInv
  <1> QED
    BY <1>0, <1>3, <1>4, <1>5, <1>6, <1>7, <1>8, <1>9, StepCases, Zenon

\* The three stores hold rows, attempts and heartbeats of the right shape, for any
\* keys and any sequence of calls.
THEOREM DriversTypeOK == Spec => []TypeOK
  <1>1. StoresInv => TypeOK
    BY Zenon DEF StoresInv, TypeOK, MemOK, DB, Numbered, RowOK, JobOK, TimesOK, PastOK
  <1> QED
    BY <1>1, InitStores, StoresStep, PTL DEF Spec

\* Through every upsert, reconciliation and race of the SQL drivers, state_rank is the
\* rank of the state and pattern is the pattern of the name.
THEOREM ColumnsStayDerived == Spec => []DerivedColumns
  <1>1. StoresInv => DerivedColumns
    BY Zenon DEF StoresInv, DerivedColumns, DB, RowOK
  <1> QED
    BY <1>1, InitStores, StoresStep, PTL DEF Spec

----------------------------------------------------------------------------
(* Retention and the age of what it deletes. *)

\* Only the start of a prune deletes rows of the memory store.
LEMMA RowsStay ==
    ASSUME StoresInv, [Next]_vars, ~ \E r \in Retentions : BeginPrune(r)
    PROVE  DOMAIN mem.jobs \subseteq DOMAIN mem'.jobs
  <1>0. DOMAIN mem = Maps /\ TimesOK /\ LateOK
    BY DEF StoresInv, MemOK
  <1>1. Kept => mem' = mem
    BY DEF Kept
  <1>2. ASSUME NEW k \in Keys, NEW job, Store(k, job)
        PROVE  DOMAIN mem.jobs \subseteq DOMAIN mem'.jobs
    <2>1. mem' = M!UpsertJob(mem, k, job)
      BY <1>2, Zenon DEF Store
    <2>2. mem'.jobs = Upsert(mem.jobs, k, job)
      BY <1>0, <2>1, MemoryUpsert
    <2> QED
      BY <2>2 DEF Upsert
  <1>3. ASSUME NEW k \in Keys, SaveAttempts(k)
        PROVE  mem'.jobs = mem.jobs
    <2>1. PICK a : mem' = M!SaveAttempt(mem, k, a)
      BY <1>3, SaveAttemptsStep, Zenon
    <2> QED
      BY <1>0, <2>1, MemorySaveAttempt
  <1>4. ASSUME NEW e \in Epochs, Heartbeat(e)
        PROVE  mem'.jobs = mem.jobs
    <2>1. PICK t : mem' = M!Heartbeat(mem, e, t)
      BY <1>4, Zenon DEF Heartbeat
    <2> QED
      BY <1>0, <2>1, MemoryHeartbeat
  <1>5. ASSUME NEW e \in Epochs, ReconcileEpoch(e)
        PROVE  DOMAIN mem'.jobs = DOMAIN mem.jobs
    <2>1. mem' = M!ReconcileEpoch(mem, e, StaleAfter, clock)
      BY <1>5, Zenon DEF ReconcileEpoch
    <2> QED
      BY <1>0, <2>1, MemoryReconcile
  <1>6. EndPrune => mem' = mem
    BY DEF EndPrune
  <1> QED
    BY <1>0, <1>1, <1>2, <1>3, <1>4, <1>5, <1>6, StepCases, Zenon

\* Retention deletes a row started or reported at or after the cutoff only when it is
\* interrupted: a row with a reported final state keeps the finish time of its job,
\* which no start and no report of it follows.
THEOREM PrunedRowsWereIdle == Spec => IdleBeforePruned
  <1> DEFINE Idle == \A k \in DOMAIN mem.jobs \ DOMAIN mem.jobs' : \A p \in pruning' :
                        Larger(mem.jobs[k].startedAt, mem.jobs[k].pgAt) >= p.before
                            => mem.jobs[k].state = "interrupted"
  <1>1. ASSUME StoresInv, NEW r \in Retentions, BeginPrune(r),
               NEW k \in DOMAIN mem.jobs \ DOMAIN mem.jobs', NEW p \in pruning',
               Larger(mem.jobs[k].startedAt, mem.jobs[k].pgAt) >= p.before
        PROVE  mem.jobs[k].state = "interrupted"
    <2> DEFINE before == clock - r.age
    <2>1. /\ mem' = M!PruneStore(mem, before, r.states)
          /\ pruning' = {[before |-> before, states |-> r.states]}
      BY <1>1, Zenon DEF BeginPrune
    <2>2. before \in Int /\ clock \in Nat
      <3>1. r.age \in Nat
        BY DriversAssumption, Zenon
      <3>2. clock \in Nat
        BY <1>1, ClockPositive DEF StoresInv
      <3> QED
        BY <3>1, <3>2
    <2> HIDE DEF before
    <2>3. p.before = before
      BY <2>1
    <2>4. mem'.jobs = Prune(mem.jobs, before, r.states)
      BY <1>1, <2>1, MemoryPrune DEF StoresInv, MemOK
    <2>5. k \in Prunable(mem.jobs, before, r.states)
      BY <1>1, <2>4, Zenon DEF Prune
    <2>6. Terminal(mem.jobs[k].state) /\ LastActive(mem.jobs[k]) < before
      BY <2>5, Zenon DEF Prunable
    <2>7. JobOK(k, mem.jobs[k], clock, when[k].finished)
      BY <1>1 DEF StoresInv, MemOK
    <2> DEFINE job == mem.jobs[k]
    <2> HIDE DEF job
    <2>8. Larger(job.startedAt, job.pgAt) >= before /\ Terminal(job.state) /\ LastActive(job) < before
      BY <1>1, <2>3, <2>6 DEF job
    <2>9. JobOK(k, job, clock, when[k].finished)
      BY <2>7 DEF job
    <2>10. job.state = "interrupted"
      BY <2>2, <2>8, <2>9, InstantFacts DEF JobOK, LastActive, Larger
    <2> QED
      BY <2>10 DEF job
  <1>2. StoresInv /\ [Next]_vars => [Idle]_vars
    BY <1>1, RowsStay, Zenon
  <1> QED
    BY <1>2, InitStores, StoresStep, PTL DEF Spec, IdleBeforePruned

----------------------------------------------------------------------------
(* Names. *)

\* Once a record that names k was stored, its row has a name; it has no row only when
\* the job finished and none of its records is on the way, or when its row was cut.
Named(k) ==
    "named" \in past[k] /\ "cut" \notin past[k] =>
        IF k \in DOMAIN mem.jobs THEN mem.jobs[k].name # Blank
        ELSE when[k].finished # 0 /\ late[k] = {}

NamesInv == \A k \in Keys : Named(k)

\* A job that finished sends no more records.
LEMMA NoMore ==
    ASSUME TimesOK, LateOK, [Next]_vars, NEW k \in Keys, when[k].finished # 0, late[k] = {}
    PROVE  when'[k].finished # 0 /\ late'[k] = {}
  <1>0. /\ DOMAIN late = Keys /\ when[k].enqueued # 0 /\ clock # 0
    BY ClockPositive DEF LateOK, TimesOK
  <1>1. when'[k].finished # 0
    BY <1>0, TimesStep DEF Lives
  <1>2. UNCHANGED late => late'[k] = {}
    OBVIOUS
  <1>3. ASSUME NEW j \in Keys, \/ OnEnqueue(j) \/ OnStart(j) \/ OnEnd(j) \/ ReportProgress(j)
                               \/ OnAttemptStart(j) \/ OnAttemptEnd(j)
        PROVE  late'[k] = {}
    <2>1. j # k
      BY <1>0, <1>3 DEF OnEnqueue, OnStart, OnEnd, ReportProgress, OnAttemptStart, OnAttemptEnd, Running
    <2>2. \E job : Offer(j, job)
      BY <1>3, Zenon DEF OnEnqueue, OnStart, OnEnd, ReportProgress, OnAttemptStart, OnAttemptEnd,
         Hook, OfferAttempt
    <2>3. PICK new : late' = [late EXCEPT ![j] = new]
      BY <2>2, Zenon DEF Offer
    <2> QED
      BY <1>0, <2>1, <2>3
  <1>4. ASSUME NEW j \in Keys, UpsertJobs(j)
        PROVE  late'[k] = {}
    <2>1. PICK r : late' = [late EXCEPT ![j] = @ \ {r}]
      BY <1>4, Zenon DEF UpsertJobs
    <2> QED
      BY <1>0, <2>1
  <1>5. ASSUME NEW j \in Keys, SaveAttempts(j)
        PROVE  UNCHANGED late
    BY <1>5, Zenon DEF SaveAttempts
  <1>6. ASSUME NEW e \in Epochs, Heartbeat(e) \/ ReconcileEpoch(e)
        PROVE  UNCHANGED late
    BY <1>6, Zenon DEF Heartbeat, ReconcileEpoch, Round
  <1>7. ASSUME NEW r \in Retentions, BeginPrune(r)
        PROVE  UNCHANGED late
    BY <1>7, Zenon DEF BeginPrune, Round
  <1>8. EndPrune \/ Tick \/ UNCHANGED vars => UNCHANGED late
    BY DEF EndPrune, Tick, vars
  <1> QED
    BY <1>1, <1>2, <1>3, <1>4, <1>5, <1>6, <1>7, <1>8, Zenon DEF Next

LEMMA NamesStep ==
    ASSUME StoresInv, NamesInv, [Next]_vars
    PROVE  NamesInv'
  <1>0. DOMAIN mem = Maps /\ TimesOK /\ LateOK /\ PastOK /\ MemOK
    BY DEF StoresInv, MemOK
  <1>1. \A k \in Keys : past[k] \subseteq past'[k]
    BY <1>0, NotesGrow
  <1>2. ASSUME NEW k \in Keys, "named" \in past'[k] => "named" \in past[k],
               k \in DOMAIN mem'.jobs <=> k \in DOMAIN mem.jobs,
               k \in DOMAIN mem.jobs => mem'.jobs[k].name = mem.jobs[k].name
        PROVE  Named(k)'
    BY <1>0, <1>1, <1>2, NoMore, Zenon DEF NamesInv, Named
  <1>3. ASSUME UNCHANGED past, DOMAIN mem'.jobs = DOMAIN mem.jobs,
               \A k \in DOMAIN mem.jobs : mem'.jobs[k].name = mem.jobs[k].name
        PROVE  NamesInv'
    BY <1>2, <1>3, Zenon DEF NamesInv
  <1>4. Kept => NamesInv'
    BY <1>3 DEF Kept
  <1>5. ASSUME NEW k \in Keys, NEW job, Offered(k, job), Store(k, job), late[k] # {}
        PROVE  NamesInv'
    <2>1. mem' = M!UpsertJob(mem, k, job)
      BY <1>5, Zenon DEF Store
    <2>2. mem'.jobs = Upsert(mem.jobs, k, job)
      BY <1>0, <2>1, MemoryUpsert
    <2>3. /\ DOMAIN mem'.jobs = DOMAIN mem.jobs \union {k}
          /\ mem'.jobs[k] = IF k \in DOMAIN mem.jobs THEN Merge(mem.jobs[k], job) ELSE job
          /\ \A j \in DOMAIN mem.jobs \ {k} : mem'.jobs[j] = mem.jobs[j]
      BY <2>2 DEF Upsert
    <2>4. \A j \in Keys : "named" \in past'[j] => "named" \in past[j] \/ (j = k /\ job.name # Blank)
      <3>1. \E tied : Note({k}, tied, {}, IF job.name = "" THEN {} ELSE {k}, {})
        BY <1>5, Zenon DEF Store
      <3>2. \A j \in Keys : "named" \in past'[j] =>
                "named" \in past[j] \/ j \in (IF job.name = "" THEN {} ELSE {k})
        BY <1>0, <3>1, NoteKeeps, Zenon
      <3> QED
        BY <3>2, Zenon DEF Blank
    <2>5. mem'.jobs[k].name = IF k \in DOMAIN mem.jobs THEN FillBlank(mem.jobs[k].name, job.name)
                              ELSE job.name
      BY <2>3, MergeFields
    <2>7. Named(k)'
      BY <1>1, <1>5, <2>3, <2>4, <2>5, FillsBlank, Zenon DEF NamesInv, Named
    <2>8. ASSUME NEW j \in Keys, j # k
          PROVE  Named(j)'
      BY <1>2, <2>3, <2>4, <2>8, Zenon
    <2> QED
      BY <2>7, <2>8, Zenon DEF NamesInv
  <1>6. ASSUME NEW k \in Keys, SaveAttempts(k)
        PROVE  NamesInv'
    <2>1. PICK a : mem' = M!SaveAttempt(mem, k, a)
      BY <1>6, SaveAttemptsStep, Zenon
    <2>2. mem'.jobs = mem.jobs
      BY <1>0, <2>1, MemorySaveAttempt
    <2>3. \E adrift : Note({k}, {}, adrift, {}, {})
      BY <1>6, Zenon DEF SaveAttempts
    <2>4. \A j \in Keys : "named" \in past'[j] => "named" \in past[j]
      BY <1>0, <2>3, UnnamedNotes, Zenon
    <2> QED
      BY <1>2, <2>2, <2>4, Zenon DEF NamesInv
  <1>7. ASSUME NEW e \in Epochs, Heartbeat(e)
        PROVE  NamesInv'
    <2>1. PICK t : mem' = M!Heartbeat(mem, e, t)
      BY <1>7, Zenon DEF Heartbeat
    <2>2. mem'.jobs = mem.jobs
      BY <1>0, <2>1, MemoryHeartbeat
    <2>3. UNCHANGED past
      BY <1>7 DEF Heartbeat
    <2> QED
      BY <1>3, <2>2, <2>3, Zenon
  <1>8. ASSUME NEW e \in Epochs, ReconcileEpoch(e)
        PROVE  NamesInv'
    <2>1. mem' = M!ReconcileEpoch(mem, e, StaleAfter, clock)
      BY <1>8, Zenon DEF ReconcileEpoch
    <2>2. /\ DOMAIN mem'.jobs = DOMAIN mem.jobs
          /\ \A k \in DOMAIN mem.jobs : mem'.jobs[k] \in {mem.jobs[k], Interrupted(mem.jobs[k])}
      BY <1>0, <2>1, MemoryReconcile
    <2>3. \A k \in DOMAIN mem.jobs : Interrupted(mem.jobs[k]).name = mem.jobs[k].name
      BY <1>0 DEF MemOK, JobOK, Field, Interrupted
    <2>4. \A k \in DOMAIN mem.jobs : mem'.jobs[k].name = mem.jobs[k].name
      BY <2>2, <2>3, Zenon
    <2>5. \E touched, near : Note(touched, near, {}, {}, {})
      BY <1>8, Zenon DEF ReconcileEpoch
    <2>6. \A j \in Keys : "named" \in past'[j] => "named" \in past[j]
      BY <1>0, <2>5, UnnamedNotes, Zenon
    <2> QED
      BY <1>2, <2>2, <2>4, <2>6, Zenon DEF NamesInv
  <1>9. ASSUME NEW r \in Retentions, BeginPrune(r)
        PROVE  NamesInv'
    <2> DEFINE before == clock - r.age
               gone == Prunable(mem.jobs, before, r.states)
               cut == {k \in gone : mem.jobs[k].state = "interrupted" \/ late[k] # {}}
    <2>1. mem' = M!PruneStore(mem, before, r.states) /\ \E near : Note({}, near, {}, {}, cut)
      BY <1>9, Zenon DEF BeginPrune
    <2>2. mem'.jobs = Prune(mem.jobs, before, r.states)
      BY <1>0, <2>1, MemoryPrune
    <2>3. /\ DOMAIN mem'.jobs = DOMAIN mem.jobs \ gone
          /\ \A k \in DOMAIN mem'.jobs : mem'.jobs[k] = mem.jobs[k]
      BY <2>2, Zenon DEF Prune
    <2>4. \A k \in gone : k \in DOMAIN mem.jobs /\ Terminal(mem.jobs[k].state)
      BY Zenon DEF Prunable
    <2>5. \A k \in gone : mem.jobs[k].state = "interrupted" \/ late[k] # {} => k \in cut
      OBVIOUS
    <2> HIDE DEF gone, cut, before
    <2>6. \A k \in Keys : /\ "named" \in past'[k] => "named" \in past[k]
                          /\ k \in cut => "cut" \in past'[k]
      BY <1>0, <2>1, UnnamedNotes, Zenon
    <2>7. ASSUME NEW k \in Keys
          PROVE  Named(k)'
      <3>1. CASE k \notin gone
        BY <1>2, <2>3, <2>6, <3>1, Zenon
      <3>2. CASE k \in gone /\ (mem.jobs[k].state = "interrupted" \/ late[k] # {})
        BY <2>5, <2>6, <3>2, Zenon DEF Named
      <3>3. CASE k \in gone /\ mem.jobs[k].state # "interrupted" /\ late[k] = {}
        <4>1. when[k].finished # 0
          BY <1>0, <2>4, <3>3, Zenon DEF MemOK, JobOK
        <4> QED
          BY <1>0, <2>3, <3>3, <4>1, NoMore, Zenon DEF Named
      <3> QED
        BY <3>1, <3>2, <3>3
    <2> QED
      BY <2>7 DEF NamesInv
  <1>10. EndPrune => NamesInv'
    BY <1>3 DEF EndPrune
  <1> QED
    BY <1>0, <1>4, <1>5, <1>6, <1>7, <1>8, <1>9, <1>10, StepCases, Zenon

\* A job once stored under its name is nameless again only after its row was pruned too
\* early, as interrupted or with a record on the way: any other row that goes belongs to
\* a job that sends no more records.
THEOREM NamesLastAlways == Spec => []NamesLast
  <1>1. Init => NamesInv
    BY DEF Init, NamesInv, Named
  <1>2. StoresInv /\ NamesInv => NamesLast
    BY Zenon DEF StoresInv, MemOK, NamesInv, Named, NamesLast, Blank
  <1> QED
    BY <1>1, <1>2, InitStores, StoresStep, NamesStep, PTL DEF Spec

----------------------------------------------------------------------------
(* Attempts and the rows they belong to. *)

HasAttempts(s, k) == s.attempts[k] # NoAttempts
HasRows(s, k) == RowAttempts(s, k) # {}
Astray(k) == "adrift" \in past[k]
AstrayOrRaced(k) == past[k] \intersect {"adrift", "raced"} # {}

ExpiredRow(row, cutoff, states) ==
    cutoff # 0 /\ row.rank = 3 /\ L!LastSeen(row) < cutoff /\ (states = {} \/ row.state \in states)

\* The second statement of the prune that is under way deletes the row of k.
Doomed(s, p, k) == k \in DOMAIN s.jobs /\ ExpiredRow(s.jobs[k], L!Unix(p.before), p.states)

LEMMA ExpiredRows ==
    ASSUME NEW s, NEW cutoff, NEW states, NEW k
    PROVE  k \in L!Expired(s, cutoff, states) <=>
               k \in DOMAIN s.jobs /\ ExpiredRow(s.jobs[k], cutoff, states)
  BY Zenon DEF L!Expired, ExpiredRow

\* The invariant, for one key.  In the middle of a prune the attempts of the rows about
\* to be deleted are gone, unless something touched the job since.
Followed(k) ==
    /\ k \notin DOMAIN mem.jobs /\ HasAttempts(mem, k) => Astray(k)
    /\ k \notin DOMAIN lite.jobs /\ HasRows(lite, k) => Astray(k)
    /\ k \notin DOMAIN pg.jobs /\ HasRows(pg, k) => AstrayOrRaced(k)
    /\ \A p \in pruning : Doomed(pg, p, k) /\ HasRows(pg, k) => AstrayOrRaced(k)

FollowInv == \A k \in Keys : Followed(k)

LEMMA RowsFewer ==
    ASSUME NEW s, NEW t, NEW k, DOMAIN t.attempts \subseteq DOMAIN s.attempts
    PROVE  HasRows(t, k) => HasRows(s, k)
  BY Zenon DEF HasRows, RowAttempts

LEMMA RowsOfOther ==
    ASSUME NEW s, NEW t, NEW k, NEW pk, pk[1] # k, DOMAIN t.attempts = DOMAIN s.attempts \union {pk}
    PROVE  HasRows(t, k) => HasRows(s, k)
  BY Zenon DEF HasRows, RowAttempts

LEMMA RowsDeleted ==
    ASSUME NEW s, NEW t, NEW keys, NEW k \in keys, t.attempts = Delete(s.attempts, AttemptsOf(s, keys))
    PROVE  ~HasRows(t, k)
  BY Zenon DEF HasRows, RowAttempts, Delete, AttemptsOf

\* A step that leaves the rows and attempts of k alone, or only adds its row.
LEMMA FollowKept ==
    ASSUME NEW k, Followed(k), past[k] \subseteq past'[k], UNCHANGED pruning,
           k \in DOMAIN mem.jobs => k \in DOMAIN mem'.jobs,
           k \in DOMAIN lite.jobs => k \in DOMAIN lite'.jobs,
           k \in DOMAIN pg.jobs => k \in DOMAIN pg'.jobs,
           HasAttempts(mem, k)' => HasAttempts(mem, k),
           HasRows(lite, k)' => HasRows(lite, k),
           HasRows(pg, k)' => HasRows(pg, k),
           \/ "raced" \in past'[k]
           \/ pruning = {}
           \/ k \in DOMAIN pg'.jobs => k \in DOMAIN pg.jobs /\ pg'.jobs[k] = pg.jobs[k]
    PROVE  Followed(k)'
  <1>1. (Astray(k) => Astray(k)') /\ (AstrayOrRaced(k) => AstrayOrRaced(k)')
    BY Zenon DEF Astray, AstrayOrRaced
  <1>2. "raced" \in past'[k] => AstrayOrRaced(k)'
    BY Zenon DEF AstrayOrRaced
  <1>3. ASSUME NEW p \in pruning', Doomed(pg, p, k)', HasRows(pg, k)'
        PROVE  AstrayOrRaced(k)'
    <2>1. CASE "raced" \in past'[k]
      BY <1>2, <2>1
    <2>2. CASE pruning = {}
      BY <1>3, <2>2
    <2>3. CASE k \in DOMAIN pg'.jobs => k \in DOMAIN pg.jobs /\ pg'.jobs[k] = pg.jobs[k]
      <3>1. Doomed(pg, p, k)
        BY <1>3, <2>3, Zenon DEF Doomed
      <3> QED
        BY <1>1, <1>3, <3>1, Zenon DEF Followed
    <2> QED
      BY <2>1, <2>2, <2>3
  <1> QED
    BY <1>1, <1>3, Zenon DEF Followed

LEMMA FollowStep ==
    ASSUME StoresInv, FollowInv, [Next]_vars
    PROVE  FollowInv'
  <1>0. /\ TimesOK /\ LateOK /\ PastOK /\ MemOK /\ DB(lite) /\ DB(pg)
        /\ DOMAIN mem = Maps /\ DOMAIN lite = Table /\ DOMAIN pg = Table
    BY DEF StoresInv, MemOK, DB
  <1>1. \A k \in Keys : past[k] \subseteq past'[k] /\ Followed(k)
    BY <1>0, NotesGrow DEF FollowInv
  <1>2. ASSUME UNCHANGED pruning, mem'.jobs = mem.jobs, lite'.jobs = lite.jobs, pg'.jobs = pg.jobs,
               mem'.attempts = mem.attempts, lite'.attempts = lite.attempts,
               pg'.attempts = pg.attempts
        PROVE  FollowInv'
    <2>1. \A k \in Keys : /\ HasAttempts(mem, k)' => HasAttempts(mem, k)
                          /\ HasRows(lite, k)' => HasRows(lite, k)
                          /\ HasRows(pg, k)' => HasRows(pg, k)
      BY <1>2, Zenon DEF HasAttempts, HasRows, RowAttempts
    <2> QED
      BY <1>1, <1>2, <2>1, FollowKept, Zenon DEF FollowInv
  <1>3. Kept => FollowInv'
    BY <1>2, Zenon DEF Kept
  <1>4. ASSUME NEW k \in Keys, NEW job, Store(k, job)
        PROVE  FollowInv'
    <2>1. /\ mem' = M!UpsertJob(mem, k, job)
          /\ lite' = L!UpsertJob(lite, k, job) /\ pg' = L!UpsertJob(pg, k, job)
          /\ pruning' = pruning
      BY <1>4, PostgresUpsert, Zenon DEF Store
    <2>2. mem'.attempts = mem.attempts /\ DOMAIN mem'.jobs = DOMAIN mem.jobs \union {k}
      <3>1. mem'.attempts = mem.attempts /\ mem'.jobs = Upsert(mem.jobs, k, job)
        BY <1>0, <2>1, MemoryUpsert
      <3> QED
        BY <3>1, Zenon DEF Upsert
    <2>3. ASSUME NEW s, NEW t, DOMAIN s = Table, t = L!UpsertJob(s, k, job)
          PROVE  /\ t.attempts = s.attempts /\ DOMAIN t.jobs = DOMAIN s.jobs \union {k}
                 /\ \A j \in DOMAIN s.jobs \ {k} : t.jobs[j] = s.jobs[j]
      <3>1. t.attempts = s.attempts /\ \E row : t.jobs = Put(s.jobs, k, row)
        <4>1. CASE k \in DOMAIN s.jobs
          BY <2>3, <4>1, UpsertKnown
        <4>2. CASE k \notin DOMAIN s.jobs
          BY <2>3, <4>2, UpsertNew
        <4> QED
          BY <4>1, <4>2
      <3>2. PICK row : t.jobs = Put(s.jobs, k, row)
        BY <3>1
      <3> QED
        BY <3>1, <3>2, Zenon DEF Put
    <2>4. /\ lite'.attempts = lite.attempts /\ DOMAIN lite'.jobs = DOMAIN lite.jobs \union {k}
          /\ pg'.attempts = pg.attempts /\ DOMAIN pg'.jobs = DOMAIN pg.jobs \union {k}
          /\ \A j \in DOMAIN pg.jobs \ {k} : pg'.jobs[j] = pg.jobs[j]
      BY <1>0, <2>1, <2>3, ZenonT(60)
    <2>5. pruning # {} => "raced" \in past'[k]
      <3>1. \E tied, named : Note({k}, tied, {}, named, {})
        BY <1>4, Zenon DEF Store
      <3>2. \A j \in Keys : j \in {k} /\ pruning # {} => "raced" \in past'[j]
        BY <1>0, <3>1, NoteKeeps, Zenon
      <3> QED
        BY <3>2
    <2>6. \A j \in Keys : /\ HasAttempts(mem, j)' => HasAttempts(mem, j)
                          /\ HasRows(lite, j)' => HasRows(lite, j)
                          /\ HasRows(pg, j)' => HasRows(pg, j)
      BY <2>2, <2>4, Zenon DEF HasAttempts, HasRows, RowAttempts
    <2>7. ASSUME NEW j \in Keys
          PROVE  Followed(j)'
      <3>1. \/ "raced" \in past'[j]
            \/ pruning = {}
            \/ j \in DOMAIN pg'.jobs => j \in DOMAIN pg.jobs /\ pg'.jobs[j] = pg.jobs[j]
        BY <2>4, <2>5, Zenon
      <3>2. /\ j \in DOMAIN mem.jobs => j \in DOMAIN mem'.jobs
            /\ j \in DOMAIN lite.jobs => j \in DOMAIN lite'.jobs
            /\ j \in DOMAIN pg.jobs => j \in DOMAIN pg'.jobs
        BY <2>2, <2>4, Zenon
      <3> QED
        BY <1>1, <2>1, <2>6, <3>1, <3>2, FollowKept, Zenon
    <2> QED
      BY <2>7 DEF FollowInv
  <1>5. ASSUME NEW k \in Keys, SaveAttempts(k)
        PROVE  FollowInv'
    <2>1. PICK a : /\ mem' = M!SaveAttempt(mem, k, a)
                   /\ lite' = L!SaveAttempt(lite, k, a)
                   /\ pg' = L!SaveAttempt(pg, k, a)
      BY <1>5, SaveAttemptsStep, Zenon
    <2>2. mem'.jobs = mem.jobs /\ \E own : mem'.attempts = Put(mem.attempts, k, own)
      BY <1>0, <2>1, MemorySaveAttempt
    <2>3. ASSUME NEW s, NEW t, DOMAIN s = Table, t = L!SaveAttempt(s, k, a)
          PROVE  /\ t.jobs = s.jobs
                 /\ DOMAIN t.attempts = DOMAIN s.attempts \union {<<k, a.n, L!Unix(a.startedAt)>>}
      <3>1. t.jobs = s.jobs /\ \E new : t.attempts = Put(s.attempts, <<k, a.n, L!Unix(a.startedAt)>>, new)
        BY <2>3, SaveAttemptTables
      <3>2. PICK new : t.attempts = Put(s.attempts, <<k, a.n, L!Unix(a.startedAt)>>, new)
        BY <3>1
      <3> QED
        BY <3>1, <3>2, Zenon DEF Put
    <2>4. /\ lite'.jobs = lite.jobs /\ pg'.jobs = pg.jobs
          /\ DOMAIN lite'.attempts = DOMAIN lite.attempts \union {<<k, a.n, L!Unix(a.startedAt)>>}
          /\ DOMAIN pg'.attempts = DOMAIN pg.attempts \union {<<k, a.n, L!Unix(a.startedAt)>>}
      BY <1>0, <2>1, <2>3, Zenon
    <2>5. pruning' = pruning
      BY <1>5, Zenon DEF SaveAttempts
    <2>6. /\ pruning # {} => "raced" \in past'[k]
          /\ k \notin DOMAIN mem.jobs \/ k \notin DOMAIN lite.jobs \/ k \notin DOMAIN pg.jobs
               => "adrift" \in past'[k]
      <3> DEFINE stray == {k} \ (DOMAIN mem.jobs \intersect DOMAIN lite.jobs \intersect DOMAIN pg.jobs)
      <3>1. Note({k}, {}, stray, {}, {})
        BY <1>5, Zenon DEF SaveAttempts
      <3>2. k \notin DOMAIN mem.jobs \/ k \notin DOMAIN lite.jobs \/ k \notin DOMAIN pg.jobs
               => k \in stray
        OBVIOUS
      <3> HIDE DEF stray
      <3>3. /\ k \in {k} /\ pruning # {} => "raced" \in past'[k]
            /\ k \in stray => "adrift" \in past'[k]
        BY <1>0, <3>1, NoteKeeps, Zenon
      <3> QED
        BY <3>2, <3>3, Zenon
    <2>7. Followed(k)'
      BY <2>2, <2>4, <2>5, <2>6, Zenon DEF Followed, Astray, AstrayOrRaced
    <2>8. ASSUME NEW j \in Keys, j # k
          PROVE  Followed(j)'
      <3>1. HasAttempts(mem, j)' => HasAttempts(mem, j)
        <4>1. PICK own : mem'.attempts = Put(mem.attempts, k, own)
          BY <2>2
        <4>2. DOMAIN mem.attempts = Keys
          BY <1>0 DEF MemOK
        <4>3. mem'.attempts[j] = mem.attempts[j]
          BY <2>8, <4>1, <4>2, Zenon DEF Put
        <4> QED
          BY <4>3, Zenon DEF HasAttempts
      <3> DEFINE pk == <<k, a.n, L!Unix(a.startedAt)>>
      <3>2. pk[1] # j
        BY <2>8
      <3>3. /\ DOMAIN lite'.attempts = DOMAIN lite.attempts \union {pk}
            /\ DOMAIN pg'.attempts = DOMAIN pg.attempts \union {pk}
        BY <2>4
      <3> HIDE DEF pk
      <3>4. (HasRows(lite, j)' => HasRows(lite, j)) /\ (HasRows(pg, j)' => HasRows(pg, j))
        BY <3>2, <3>3, RowsOfOther, Zenon
      <3> QED
        BY <1>1, <2>2, <2>4, <2>5, <3>1, <3>4, FollowKept, Zenon
    <2> QED
      BY <2>7, <2>8, Zenon DEF FollowInv
  <1>6. ASSUME NEW e \in Epochs, Heartbeat(e)
        PROVE  FollowInv'
    <2>1. PICK t : /\ mem' = M!Heartbeat(mem, e, t) /\ lite' = L!Heartbeat(lite, e, t)
                   /\ pg' = P!Heartbeat(pg, e, t) /\ pruning' = pruning
      BY <1>6, Zenon DEF Heartbeat
    <2>2. pg' = L!Heartbeat(pg, e, t)
      BY <2>1, PostgresWrites
    <2>3. mem'.attempts = mem.attempts /\ mem'.jobs = mem.jobs
      BY <1>0, <2>1, MemoryHeartbeat
    <2>4. /\ lite'.attempts = lite.attempts /\ lite'.jobs = lite.jobs
          /\ pg'.attempts = pg.attempts /\ pg'.jobs = pg.jobs
      BY <1>0, <2>1, <2>2, HeartbeatTables
    <2> QED
      BY <1>2, <2>1, <2>3, <2>4, Zenon
  <1>7. ASSUME NEW e \in Epochs, ReconcileEpoch(e)
        PROVE  FollowInv'
    <2> DEFINE unfinished(s) == {k \in DOMAIN s.jobs : s.jobs[k].epoch # e /\ ~Terminal(s.jobs[k].state)}
    <2>1. /\ mem' = M!ReconcileEpoch(mem, e, StaleAfter, clock)
          /\ lite' = L!ReconcileEpoch(lite, e, StaleAfter, clock)
          /\ pg' = P!ReconcileEpoch(pg, e, StaleAfter, clock)
          /\ pruning' = pruning
      BY <1>7, Zenon DEF ReconcileEpoch
    <2>2. pg' = L!ReconcileEpoch(pg, e, StaleAfter, clock)
      BY <2>1, PostgresWrites
    <2>3. mem'.attempts = mem.attempts /\ DOMAIN mem'.jobs = DOMAIN mem.jobs
      BY <1>0, <2>1, MemoryReconcile
    <2>4. /\ lite'.attempts = lite.attempts /\ DOMAIN lite'.jobs = DOMAIN lite.jobs
          /\ pg'.attempts = pg.attempts /\ DOMAIN pg'.jobs = DOMAIN pg.jobs
          /\ \A k \in DOMAIN pg.jobs :
                pg'.jobs[k] = pg.jobs[k] \/ (pg.jobs[k].epoch # e /\ pg.jobs[k].rank < 3)
      BY <1>0, <2>1, <2>2, ReconcileTables
    <2>5. ASSUME NEW k \in DOMAIN pg.jobs, pg.jobs[k].epoch # e, pg.jobs[k].rank < 3
          PROVE  k \in unfinished(pg)
      <3>1. RowOK(pg.jobs[k])
        BY <1>0 DEF DB
      <3>2. ~Terminal(pg.jobs[k].state)
        BY <2>5, <3>1, Ranks DEF RowOK, Terminal
      <3> QED
        BY <2>5, <3>2
    <2>6. \A k \in unfinished(pg) : pruning # {} => "raced" \in past'[k]
      <3>1. \E near : Note(unfinished(mem) \union unfinished(pg), near, {}, {}, {})
        BY <1>7, Zenon DEF ReconcileEpoch
      <3>2. unfinished(pg) \subseteq Keys
        BY <1>0 DEF DB
      <3> DEFINE touched == unfinished(mem) \union unfinished(pg)
      <3>3. \A k \in unfinished(pg) : k \in touched
        OBVIOUS
      <3> HIDE DEF unfinished, touched
      <3>4. PICK near : Note(touched, near, {}, {}, {})
        BY <3>1 DEF touched
      <3>5. \A k \in Keys : k \in touched /\ pruning # {} => "raced" \in past'[k]
        BY <1>0, <3>4, NoteKeeps, Zenon
      <3> QED
        BY <3>2, <3>3, <3>5, Zenon
    <2>7. \A k \in Keys : /\ HasAttempts(mem, k)' => HasAttempts(mem, k)
                          /\ HasRows(lite, k)' => HasRows(lite, k)
                          /\ HasRows(pg, k)' => HasRows(pg, k)
      BY <2>3, <2>4, Zenon DEF HasAttempts, HasRows, RowAttempts
    <2> HIDE DEF unfinished
    <2>8. ASSUME NEW k \in Keys
          PROVE  Followed(k)'
      <3>1. \/ "raced" \in past'[k]
            \/ pruning = {}
            \/ k \in DOMAIN pg'.jobs => k \in DOMAIN pg.jobs /\ pg'.jobs[k] = pg.jobs[k]
        BY <2>4, <2>5, <2>6, Zenon
      <3> QED
        BY <1>1, <2>1, <2>3, <2>4, <2>7, <3>1, FollowKept, Zenon
    <2> QED
      BY <2>8 DEF FollowInv
  <1>8. ASSUME NEW r \in Retentions, BeginPrune(r)
        PROVE  FollowInv'
    <2> DEFINE before == clock - r.age
               stale == L!Expired(lite, L!Unix(before), r.states)
               doomed == L!Expired(pg, L!Unix(before), r.states)
               left == L!DeleteAttempts(lite, stale)
    <2>1. /\ mem' = M!PruneStore(mem, before, r.states)
          /\ lite' = L!DeleteJobs(left, stale)
          /\ pg' = P!PruneAttempts(pg, before, r.states)
          /\ pruning' = {[before |-> before, states |-> r.states]}
      BY <1>8, Zenon DEF BeginPrune, L!PruneStore
    <2>2. pg' = L!DeleteAttempts(pg, doomed)
      BY <2>1, PostgresWrites
    <2>3. \A k \in Keys : k \in doomed <=> Doomed(pg, [before |-> before, states |-> r.states], k)
      <3>1. [before |-> before, states |-> r.states].before = before
              /\ [before |-> before, states |-> r.states].states = r.states
        OBVIOUS
      <3> QED
        BY <3>1, ExpiredRows, Zenon DEF Doomed
    <2> HIDE DEF before, stale, doomed
    <2>4. /\ mem'.jobs = Prune(mem.jobs, before, r.states)
          /\ DOMAIN mem'.attempts = DOMAIN mem.attempts
          /\ \A k \in DOMAIN mem.attempts : mem'.attempts[k] =
                IF k \in Prunable(mem.jobs, before, r.states) THEN NoAttempts ELSE mem.attempts[k]
      BY <1>0, <2>1, MemoryPrune
    <2>5. ASSUME NEW k \in Keys, k \notin DOMAIN mem'.jobs, HasAttempts(mem, k)'
          PROVE  Astray(k)'
      <3>1. k \in DOMAIN mem.attempts
        BY <1>0 DEF MemOK
      <3>2. k \notin Prunable(mem.jobs, before, r.states) /\ HasAttempts(mem, k)
        BY <2>4, <2>5, <3>1, Zenon DEF HasAttempts
      <3>3. k \notin DOMAIN mem.jobs
        BY <2>4, <2>5, <3>2, Zenon DEF Prune
      <3> QED
        BY <1>1, <3>2, <3>3, Zenon DEF Followed, Astray
    <2>6. /\ DOMAIN left = Table /\ left.jobs = lite.jobs
          /\ left.attempts = Delete(lite.attempts, AttemptsOf(lite, stale))
      <3> HIDE DEF left
      <3>1. left = L!DeleteAttempts(lite, stale)
        BY DEF left
      <3> QED
        BY <1>0, <3>1, DeleteAttemptsTables
    <2> HIDE DEF left
    <2>7. lite'.attempts = left.attempts /\ lite'.jobs = Delete(left.jobs, stale)
      BY <2>1, <2>6, DeleteJobsTables
    <2>8. /\ DOMAIN lite'.jobs = DOMAIN lite.jobs \ stale
          /\ DOMAIN lite'.attempts \subseteq DOMAIN lite.attempts
          /\ lite'.attempts = Delete(lite.attempts, AttemptsOf(lite, stale))
      BY <2>6, <2>7, Zenon DEF Delete
    <2>9. ASSUME NEW k \in Keys, k \notin DOMAIN lite'.jobs, HasRows(lite', k)
          PROVE  Astray(k)'
      <3>1. k \notin stale /\ HasRows(lite, k)
        BY <2>8, <2>9, RowsFewer, RowsDeleted, Zenon
      <3> QED
        BY <1>1, <2>8, <2>9, <3>1, Zenon DEF Followed, Astray
    <2>10. pg'.jobs = pg.jobs /\ pg'.attempts = Delete(pg.attempts, AttemptsOf(pg, doomed))
      BY <1>0, <2>2, DeleteAttemptsTables
    <2>11. DOMAIN pg'.attempts \subseteq DOMAIN pg.attempts
      BY <2>10, Zenon DEF Delete
    <2>12. ASSUME NEW k \in Keys, HasRows(pg', k)
           PROVE  HasRows(pg, k) /\ k \notin doomed
      BY <2>10, <2>11, <2>12, RowsFewer, RowsDeleted, Zenon
    <2>13. ASSUME NEW k \in Keys
           PROVE  Followed(k)'
      <3>1. ASSUME k \notin DOMAIN pg'.jobs, HasRows(pg', k)
            PROVE  AstrayOrRaced(k)'
        BY <1>1, <2>10, <2>12, <3>1, Zenon DEF Followed, AstrayOrRaced
      <3>2. ASSUME NEW p \in pruning', Doomed(pg', p, k), HasRows(pg', k)
            PROVE  FALSE
        <4>1. Doomed(pg, [before |-> before, states |-> r.states], k)
          BY <2>1, <2>10, <3>2, Zenon DEF Doomed
        <4> QED
          BY <2>3, <2>12, <3>2, <4>1, Zenon
      <3> QED
        BY <2>5, <2>9, <3>1, <3>2, Zenon DEF Followed
    <2> QED
      BY <2>13 DEF FollowInv
  <1>9. ASSUME EndPrune
        PROVE  FollowInv'
    <2>1. PICK p \in pruning : pg' = P!PruneJobs(pg, p.before, p.states)
      BY <1>9, Zenon DEF EndPrune
    <2>2. UNCHANGED <<mem, lite, past>> /\ pruning' = {}
      BY <1>9, Zenon DEF EndPrune
    <2> DEFINE doomed == L!Expired(pg, L!Unix(p.before), p.states)
    <2>3. pg' = L!DeleteJobs(pg, doomed)
      BY <2>1, PostgresWrites
    <2>4. \A k \in doomed : Doomed(pg, p, k)
      BY ExpiredRows, Zenon DEF Doomed
    <2> HIDE DEF doomed
    <2>5. pg'.attempts = pg.attempts /\ pg'.jobs = Delete(pg.jobs, doomed)
      BY <1>0, <2>3, DeleteJobsTables
    <2>6. DOMAIN pg'.jobs = DOMAIN pg.jobs \ doomed
      BY <2>5, Zenon DEF Delete
    <2>7. ASSUME NEW k \in Keys
          PROVE  Followed(k)'
      <3>1. HasRows(pg', k) => HasRows(pg, k)
        BY <2>5, Zenon DEF HasRows, RowAttempts
      <3>2. k \notin DOMAIN pg'.jobs /\ HasRows(pg', k) => AstrayOrRaced(k)
        BY <1>1, <2>1, <2>4, <2>6, <3>1, Zenon DEF Followed
      <3> QED
        BY <1>1, <2>2, <3>2, Zenon DEF Followed, Astray, AstrayOrRaced
    <2> QED
      BY <2>7 DEF FollowInv
  <1> QED
    BY <1>0, <1>3, <1>4, <1>5, <1>6, <1>7, <1>8, <1>9, StepCases, Zenon

\* Pruning takes a job's attempts with its row on every driver: attempts without a row
\* were saved while the row was missing, or lost it to a Postgres prune that a commit
\* slipped into.
THEOREM AttemptsFollowJobsAlways == Spec => []AttemptsFollowJobs
  <1>1. Init => FollowInv
    <2> SUFFICES ASSUME Init, NEW k \in Keys
                 PROVE  Followed(k)
      BY DEF FollowInv
    <2>1. /\ mem.attempts = [j \in Keys |-> <<>>] /\ lite = L!Migrate /\ pg = L!Migrate /\ pruning = {}
      <3>1. P!Migrate = L!Migrate
        BY DEF P!Migrate, P!L!Migrate, L!Migrate
      <3>2. mem = [jobs |-> <<>>, attempts |-> [j \in Keys |-> <<>>], epochs |-> <<>>]
        BY DEF Init, M!Open, Keys
      <3>3. mem.attempts = [j \in Keys |-> <<>>]
        BY <3>2
      <3> QED
        BY <3>1, <3>3, Zenon DEF Init
    <2>2. ~HasAttempts(mem, k)
      BY <2>1, Zenon DEF HasAttempts, NoAttempts
    <2>3. DOMAIN L!Migrate.attempts = {}
      BY DEF L!Migrate
    <2>4. ~HasRows(lite, k) /\ ~HasRows(pg, k)
      BY <2>1, <2>3, Zenon DEF HasRows, RowAttempts
    <2> QED
      BY <2>2, <2>4, Zenon DEF Followed
  <1>2. FollowInv => AttemptsFollowJobs
    BY Zenon DEF FollowInv, Followed, AttemptsFollowJobs, HasAttempts, NoAttempts, HasRows, Astray, AstrayOrRaced
  <1> QED
    BY <1>1, <1>2, InitStores, StoresStep, FollowStep, PTL DEF Spec
=============================================================================
