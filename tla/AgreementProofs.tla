--------------------------- MODULE AgreementProofs ---------------------------
(***************************************************************************)
(* The SQL drivers hold what the memory driver holds, for any keys and any *)
(* sequence of calls, except where two times fell into one microsecond or  *)
(* a commit slipped into a Postgres prune.  The second half is about the   *)
(* reads: stores that hold the same answer a reader the same.              *)
(***************************************************************************)
EXTENDS DriversProofs, FiniteSetTheorems

----------------------------------------------------------------------------
(* Whole microseconds. *)

LEMMA DivBounds ==
    ASSUME NEW n \in Nat \ {0}, NEW a \in Int
    PROVE  a \div n \in Int /\ n * (a \div n) <= a /\ a < n * (a \div n) + n
  OBVIOUS

LEMMA DivMonotone ==
    ASSUME NEW n \in Nat \ {0}, NEW a \in Int, NEW b \in Int, a <= b
    PROVE  a \div n <= b \div n
  <1> DEFINE p == a \div n
             q == b \div n
  <1>1. p \in Int /\ q \in Int /\ n * p <= a /\ b < n * q + n
    BY DivBounds
  <1> HIDE DEF p, q
  <1>2. n * p < n * q + n
    BY <1>1
  <1>3. p <= q
    BY <1>1, <1>2
  <1> QED
    BY <1>3 DEF p, q

\* Unix keeps the order of times and tells the zero time from every other.
LEMMA UnixFacts ==
    /\ \A t \in Int : L!Unix(t) \in Int
    /\ \A t \in Nat : L!Unix(t) \in Nat
    /\ \A a, b \in Int : a <= b => L!Unix(a) <= L!Unix(b)
    /\ L!Unix(0) = 0
    /\ \A t \in Nat : t >= Nanos => L!Unix(t) > 0
  <1>1. Nanos \in Nat \ {0}
    BY Constants
  <1>2. \A t \in Int : L!Unix(t) = t \div Nanos
    <2>1. 0 \div Nanos = 0
      BY <1>1
    <2> QED
      BY <2>1 DEF L!Unix
  <1>3. \A t \in Int : L!Unix(t) \in Int
    BY <1>1, <1>2, DivBounds
  <1>4. \A a, b \in Int : a <= b => L!Unix(a) <= L!Unix(b)
    BY <1>1, <1>2, DivMonotone
  <1>5. L!Unix(0) = 0
    BY DEF L!Unix
  <1>6. \A t \in Nat : L!Unix(t) \in Nat
    BY <1>3, <1>4, <1>5
  <1>7. L!Unix(Nanos) = 1
    <2>1. Nanos \div Nanos = 1
      BY <1>1
    <2> QED
      BY <1>1, <1>2, <2>1
  <1>8. \A t \in Nat : t >= Nanos => L!Unix(t) > 0
    BY <1>1, <1>3, <1>4, <1>7
  <1> QED
    BY <1>3, <1>4, <1>5, <1>6, <1>8

LEMMA InstantTimes ==
    ASSUME NEW now \in Nat, NEW t \in Instants(now)
    PROVE  t \in Nat /\ L!Unix(t) \in Nat /\ (L!Unix(t) = 0 <=> t = 0)
  <1>1. t \in Nat /\ (t # 0 => t >= Nanos)
    BY InstantFacts, Constants
  <1> QED
    BY <1>1, UnixFacts

LEMMA NearTimes ==
    ASSUME NEW a \in Int, NEW b \in Int
    PROVE  /\ b > a => L!Unix(b) >= L!Unix(a)
           /\ L!Unix(b) > L!Unix(a) => b > a
           /\ ~Near(a, b) /\ b > a => L!Unix(b) > L!Unix(a)
  BY UnixFacts DEF Near

\* The rules of merge give the same on times and on their microseconds.
LEMMA UnixRules ==
    ASSUME NEW now \in Nat, NEW a \in Instants(now), NEW b \in Instants(now)
    PROVE  /\ FillZero(L!Unix(a), L!Unix(b)) = L!Unix(FillZero(a, b))
           /\ LastNonZero(L!Unix(a), L!Unix(b)) = L!Unix(LastNonZero(a, b))
           /\ Larger(L!Unix(a), L!Unix(b)) = L!Unix(Larger(a, b))
  <1>1. /\ a \in Nat /\ L!Unix(a) \in Nat /\ (L!Unix(a) = 0 <=> a = 0)
        /\ b \in Nat /\ L!Unix(b) \in Nat /\ (L!Unix(b) = 0 <=> b = 0)
    BY InstantTimes
  <1>2. a <= b => L!Unix(a) <= L!Unix(b)
    BY <1>1, UnixFacts
  <1>3. b <= a => L!Unix(b) <= L!Unix(a)
    BY <1>1, UnixFacts
  <1> QED
    BY <1>1, <1>2, <1>3 DEF FillZero, LastNonZero, Larger

----------------------------------------------------------------------------
(* Rows. *)

TimeFields == {"enqueuedAt", "startedAt", "finishedAt", "pgAt"}

\* A row is the job with its times in whole microseconds.
SameColumns(row, job) ==
    /\ \A c \in TimeFields : row[c] = L!Unix(job[c])
    /\ \A c \in Field \ TimeFields : row[c] = job[c]

LEMMA ValuesSame ==
    ASSUME NEW job, DOMAIN job = Field
    PROVE  SameColumns(L!Values(job), job)
  <1> DEFINE v == L!Values(job)
  <1>1. /\ \A c \in {"enqueuedAt", "startedAt", "finishedAt", "pgAt"} : v[c] = L!Unix(job[c])
        /\ \A c \in Field \ {"enqueuedAt", "startedAt", "finishedAt", "pgAt"} : v[c] = job[c]
    BY ValuesColumns
  <1> QED
    BY <1>1, Zenon DEF SameColumns, TimeFields

LEMMA MergeRest ==
    ASSUME NEW row, NEW job, NEW m, m = Merge(row, job)
    PROVE  /\ m.queue = FillBlank(row.queue, job.queue)
           /\ m.root = FillBlank(row.root, job.root) /\ m.parent = FillBlank(row.parent, job.parent)
           /\ m.err = LastNonBlank(row.err, job.err) /\ m.attrs = LastNonBlank(row.attrs, job.attrs)
           /\ m.waitUS = LastNonZero(row.waitUS, job.waitUS)
           /\ m.execUS = LastNonZero(row.execUS, job.execUS)
           /\ m.attempt = Larger(row.attempt, job.attempt)
           /\ m.pg = IF Newer(row.pgAt, job.pgAt) THEN job.pg ELSE row.pg
  BY DEF Merge

\* Merging a record into a row and into the job it mirrors keeps them the same, unless
\* the two reports of progress fell into one microsecond.
LEMMA ConflictSame ==
    ASSUME TimesOK, NEW k \in Keys, NEW row, RowOK(row), NEW job, JobOK(k, job, clock, when[k].finished),
           SameColumns(row, job), NEW in, Offered(k, in), ~Near(job.pgAt, in.pgAt)
    PROVE  SameColumns(L!OnConflict(row, L!Values(in)), Merge(job, in))
  <1> DEFINE new == L!Values(in)
             r == L!OnConflict(row, new)
             m == Merge(job, in)
  <1>1. DOMAIN row = Column /\ row.rank = Rank(row.state)
    BY DEF RowOK
  <1>2. /\ DOMAIN in = Field
        /\ \A c \in TimeFields : in[c] \in Instants(clock)
    BY DEF Offered, JobOK, TimeFields
  <1>3. /\ SameColumns(new, in) /\ new.rank = Rank(in.state)
    BY <1>2, ValuesSame, ValuesColumns
  <1> HIDE DEF new
  <1>4. /\ \A c \in {"queue", "name", "root", "parent"} : r[c] = FillBlank(row[c], new[c])
        /\ r.state = IF new.rank > row.rank THEN new.state ELSE row.state
        /\ \A c \in {"attempt", "pgAt"} : r[c] = Larger(row[c], new[c])
        /\ \A c \in {"err", "attrs"} : r[c] = LastNonBlank(row[c], new[c])
        /\ \A c \in {"enqueuedAt", "startedAt"} : r[c] = FillZero(row[c], new[c])
        /\ \A c \in {"finishedAt", "waitUS", "execUS"} : r[c] = LastNonZero(row[c], new[c])
        /\ r.pg = IF new.pgAt > row.pgAt THEN new.pg ELSE row.pg
        /\ r.epoch = row.epoch
    BY <1>1, ConflictColumns
  <1>5. /\ m.epoch = job.epoch /\ m.state = Advance(job.state, in.state)
        /\ m.name = FillBlank(job.name, in.name) /\ m.queue = FillBlank(job.queue, in.queue)
        /\ m.root = FillBlank(job.root, in.root) /\ m.parent = FillBlank(job.parent, in.parent)
        /\ m.err = LastNonBlank(job.err, in.err) /\ m.attrs = LastNonBlank(job.attrs, in.attrs)
        /\ m.waitUS = LastNonZero(job.waitUS, in.waitUS)
        /\ m.execUS = LastNonZero(job.execUS, in.execUS)
        /\ m.attempt = Larger(job.attempt, in.attempt)
    BY MergeFields, MergeRest
  <1>6. /\ m.enqueuedAt = FillZero(job.enqueuedAt, in.enqueuedAt)
        /\ m.startedAt = FillZero(job.startedAt, in.startedAt)
        /\ m.finishedAt = LastNonZero(job.finishedAt, in.finishedAt)
        /\ m.pgAt = Larger(job.pgAt, in.pgAt)
        /\ m.pg = IF in.pgAt > job.pgAt THEN in.pg ELSE job.pg
    BY MergeFields, MergeRest DEF Newer
  <1> HIDE DEF r, m
  <1>7. \A c \in Field \ TimeFields : row[c] = job[c] /\ new[c] = in[c]
    BY <1>3, Zenon DEF SameColumns
  <1>8. \A c \in TimeFields : row[c] = L!Unix(job[c]) /\ new[c] = L!Unix(in[c])
    BY <1>3, Zenon DEF SameColumns
  <1>9. \A c \in TimeFields : job[c] \in Instants(clock) /\ in[c] \in Instants(clock)
    BY <1>2 DEF JobOK, TimeFields
  <1>10. clock \in Nat
    BY ClockPositive
  <1>11. \A c \in {"queue", "name", "root", "parent", "err", "attrs", "waitUS", "execUS", "attempt"} :
            r[c] = m[c]
    BY <1>4, <1>5, <1>7 DEF Field, TimeFields
  <1>12. r.epoch = m.epoch /\ r.state = m.state
    <2>1. /\ row.state = job.state /\ new.state = in.state /\ row.epoch = job.epoch
      BY <1>7 DEF Field, TimeFields
    <2> QED
      BY <1>1, <1>3, <1>4, <1>5, <2>1 DEF Advance
  <1>13. r.pg = m.pg
    <2>1. row.pg = job.pg /\ new.pg = in.pg
      BY <1>7 DEF Field, TimeFields
    <2>2. row.pgAt = L!Unix(job.pgAt) /\ new.pgAt = L!Unix(in.pgAt)
      BY <1>8 DEF TimeFields
    <2>3. job.pgAt \in Int /\ in.pgAt \in Int
      BY <1>9, <1>10, InstantTimes DEF TimeFields
    <2>4. new.pgAt > row.pgAt <=> in.pgAt > job.pgAt
      BY <2>2, <2>3, NearTimes
    <2> QED
      BY <1>4, <1>6, <2>1, <2>4
  <1>14. \A c \in TimeFields : r[c] = L!Unix(m[c])
    <2>1. ASSUME NEW c \in TimeFields
          PROVE  /\ FillZero(row[c], new[c]) = L!Unix(FillZero(job[c], in[c]))
                 /\ LastNonZero(row[c], new[c]) = L!Unix(LastNonZero(job[c], in[c]))
                 /\ Larger(row[c], new[c]) = L!Unix(Larger(job[c], in[c]))
      BY <1>8, <1>9, <1>10, UnixRules
    <2> QED
      BY <1>4, <1>6, <2>1 DEF TimeFields
  <1>15. \A c \in Field \ TimeFields : r[c] = m[c]
    BY <1>11, <1>12, <1>13 DEF Field, TimeFields
  <1>16. SameColumns(r, m)
    BY <1>14, <1>15 DEF SameColumns
  <1> QED
    BY <1>16 DEF r, m, new

----------------------------------------------------------------------------
(* Retention and reconciliation judge a row and its job alike.  Rounding    *)
(* errs on one side: what SQL condemns, memory condemns.                    *)

LEMMA LastSeenSame ==
    ASSUME NEW k, NEW job, NEW now \in Nat, NEW finished, JobOK(k, job, now, finished), NEW row,
           row.enqueuedAt = L!Unix(job.enqueuedAt), row.finishedAt = L!Unix(job.finishedAt)
    PROVE  LastActive(job) \in Nat /\ L!LastSeen(row) = L!Unix(LastActive(job))
  <1>1. job.enqueuedAt \in Instants(now) /\ job.finishedAt \in Instants(now)
    BY DEF JobOK
  <1>2. /\ job.enqueuedAt \in Nat /\ job.finishedAt \in Nat
        /\ L!Unix(job.enqueuedAt) \in Nat /\ L!Unix(job.finishedAt) \in Nat
    BY <1>1, InstantTimes
  <1>3. LastActive(job) = Larger(job.enqueuedAt, job.finishedAt)
    BY DEF LastActive
  <1>4. L!LastSeen(row) = Larger(row.finishedAt, row.enqueuedAt)
    BY DatabaseRules DEF L!LastSeen
  <1>5. L!LastSeen(row) = Larger(L!Unix(job.enqueuedAt), L!Unix(job.finishedAt))
    BY <1>2, <1>4 DEF Larger
  <1>6. Larger(L!Unix(job.enqueuedAt), L!Unix(job.finishedAt))
            = L!Unix(Larger(job.enqueuedAt, job.finishedAt))
    BY <1>1, UnixRules
  <1>7. LastActive(job) \in Nat
    BY <1>2, <1>3 DEF Larger
  <1> QED
    BY <1>3, <1>5, <1>6, <1>7

LEMMA ExpiredSame ==
    ASSUME NEW k, NEW job, NEW now \in Nat, NEW finished, JobOK(k, job, now, finished),
           NEW row, RowOK(row), row.state = job.state,
           row.enqueuedAt = L!Unix(job.enqueuedAt), row.finishedAt = L!Unix(job.finishedAt),
           NEW jobs, k \in DOMAIN jobs, jobs[k] = job, NEW before \in Int, NEW states
    PROVE  /\ ExpiredRow(row, L!Unix(before), states) => k \in Prunable(jobs, before, states)
           /\ k \in Prunable(jobs, before, states) /\ ~Near(LastActive(job), before)
                => ExpiredRow(row, L!Unix(before), states)
  <1>1. LastActive(job) \in Nat /\ L!LastSeen(row) = L!Unix(LastActive(job))
    BY LastSeenSame
  <1>2. row.rank = 3 <=> Terminal(job.state)
    BY DEF RowOK, Terminal
  <1>3. k \in Prunable(jobs, before, states) <=>
            /\ before # 0 /\ Terminal(job.state) /\ LastActive(job) < before
            /\ states = {} \/ job.state \in states
    BY Zenon DEF Prunable
  <1>4. /\ L!Unix(LastActive(job)) < L!Unix(before) => LastActive(job) < before
        /\ ~Near(LastActive(job), before) /\ LastActive(job) < before
             => L!Unix(LastActive(job)) < L!Unix(before)
    <2>1. /\ L!Unix(before) > L!Unix(LastActive(job)) => before > LastActive(job)
          /\ ~Near(LastActive(job), before) /\ before > LastActive(job)
               => L!Unix(before) > L!Unix(LastActive(job))
      BY <1>1, NearTimes
    <2>2. L!Unix(before) \in Int /\ L!Unix(LastActive(job)) \in Nat
      BY <1>1, UnixFacts
    <2> QED
      BY <1>1, <2>1, <2>2
  <1>5. L!Unix(before) \in Int /\ L!Unix(LastActive(job)) \in Nat /\ L!Unix(0) = 0
    BY <1>1, UnixFacts
  <1>6. L!Unix(LastActive(job)) < L!Unix(before) => before # 0 /\ L!Unix(before) # 0
    BY <1>5
  <1>7. ExpiredRow(row, L!Unix(before), states) <=>
            /\ L!Unix(before) # 0 /\ Terminal(job.state) /\ L!Unix(LastActive(job)) < L!Unix(before)
            /\ states = {} \/ job.state \in states
    BY <1>1, <1>2, Zenon DEF ExpiredRow
  <1> QED
    BY <1>3, <1>4, <1>6, <1>7, Zenon

\* The heartbeats of a database are memory's, in whole microseconds.
Lockstep(s) ==
    /\ DOMAIN s.epochs = DOMAIN mem.epochs
    /\ \A e \in DOMAIN mem.epochs :
         mem.epochs[e] \in Instants(clock) /\ s.epochs[e] = L!Unix(mem.epochs[e])

LEMMA OrphanSame ==
    ASSUME TimesOK, NEW s, Lockstep(s), NEW e, NEW job,
           NEW row, RowOK(row), row.state = job.state, row.epoch = job.epoch
    PROVE  LET orphan == /\ row.epoch # e /\ row.rank < 3
                         /\ row.epoch \notin L!BeatingEpochs(s, L!Unix(clock - StaleAfter))
           IN /\ orphan => Orphan(mem, e, clock - StaleAfter, job)
              /\ /\ Orphan(mem, e, clock - StaleAfter, job)
                 /\ ~(/\ job.epoch \in DOMAIN mem.epochs
                      /\ Near(mem.epochs[job.epoch], clock - StaleAfter))
                 => orphan
  <1> DEFINE cutoff == clock - StaleAfter
             seen == IF job.epoch \in DOMAIN mem.epochs THEN mem.epochs[job.epoch] ELSE 0
  <1>1. cutoff \in Nat \ {0} /\ clock \in Nat /\ 0 \in Instants(clock)
    BY ClockPositive
  <1>2. seen \in Instants(clock)
    BY <1>1 DEF Lockstep
  <1>3. job.epoch \in L!BeatingEpochs(s, L!Unix(cutoff)) <=> L!Unix(seen) > 0 /\ L!Unix(seen) >= L!Unix(cutoff)
    <2>1. CASE job.epoch \in DOMAIN mem.epochs
      <3>1. s.epochs[job.epoch] = L!Unix(seen) /\ job.epoch \in DOMAIN s.epochs
        BY <2>1 DEF Lockstep
      <3> HIDE DEF seen, cutoff
      <3> QED
        BY <3>1, Zenon DEF L!BeatingEpochs
    <2>2. CASE job.epoch \notin DOMAIN mem.epochs
      <3>1. seen = 0 /\ job.epoch \notin DOMAIN s.epochs
        BY <2>2 DEF Lockstep
      <3>2. L!Unix(seen) = 0
        BY <3>1, UnixFacts
      <3>3. job.epoch \notin L!BeatingEpochs(s, L!Unix(cutoff))
        BY <3>1, Zenon DEF L!BeatingEpochs
      <3> QED
        BY <3>2, <3>3
    <2> QED
      BY <2>1, <2>2
  <1>4. Orphan(mem, e, cutoff, job) <=>
            job.epoch # e /\ ~Terminal(job.state) /\ ~(seen # 0 /\ seen >= cutoff)
    BY Zenon DEF Orphan, Beating
  <1>5. row.rank < 3 <=> ~Terminal(job.state)
    BY Ranks DEF RowOK, Terminal
  <1>6. Near(seen, cutoff) => Near(mem.epochs[job.epoch], cutoff) /\ job.epoch \in DOMAIN mem.epochs
    <2>1. L!Unix(cutoff) > 0
      BY ClockPositive, UnixFacts
    <2>2. seen = 0 => ~Near(seen, cutoff)
      BY <2>1, UnixFacts DEF Near
    <2> QED
      BY <2>2
  <1> HIDE DEF seen, cutoff
  <1>7. seen \in Nat /\ L!Unix(seen) \in Nat /\ (L!Unix(seen) = 0 <=> seen = 0)
    BY <1>1, <1>2, InstantTimes
  <1>8. /\ cutoff > seen => L!Unix(cutoff) >= L!Unix(seen)
        /\ L!Unix(cutoff) > L!Unix(seen) => cutoff > seen
        /\ ~Near(seen, cutoff) /\ cutoff > seen => L!Unix(cutoff) > L!Unix(seen)
    BY <1>1, <1>7, NearTimes
  <1>9. L!Unix(cutoff) \in Nat
    BY <1>1, UnixFacts
  <1>10. /\ ~(L!Unix(seen) > 0 /\ L!Unix(seen) >= L!Unix(cutoff)) => ~(seen # 0 /\ seen >= cutoff)
         /\ ~(seen # 0 /\ seen >= cutoff) /\ ~Near(seen, cutoff)
              => ~(L!Unix(seen) > 0 /\ L!Unix(seen) >= L!Unix(cutoff))
    BY <1>1, <1>7, <1>8, <1>9
  <1>11. row.epoch \notin L!BeatingEpochs(s, L!Unix(cutoff)) <=>
            ~(L!Unix(seen) > 0 /\ L!Unix(seen) >= L!Unix(cutoff))
    BY <1>3
  <1> DEFINE orphan == /\ row.epoch # e /\ row.rank < 3
                       /\ row.epoch \notin L!BeatingEpochs(s, L!Unix(cutoff))
  <1>12. /\ orphan => Orphan(mem, e, cutoff, job)
         /\ /\ Orphan(mem, e, cutoff, job)
            /\ ~(job.epoch \in DOMAIN mem.epochs /\ Near(mem.epochs[job.epoch], cutoff))
            => orphan
    BY <1>4, <1>5, <1>6, <1>10, <1>11, Zenon
  <1> QED
    BY <1>12 DEF cutoff

----------------------------------------------------------------------------
(* The heartbeats of the three stores stay in step. *)

LEMMA UpsertTables ==
    ASSUME NEW s, DOMAIN s = Table, NEW k, NEW job, NEW t, t = L!UpsertJob(s, k, job)
    PROVE  /\ DOMAIN t = Table /\ t.attempts = s.attempts /\ t.epochs = s.epochs
           /\ DOMAIN t.jobs = DOMAIN s.jobs \union {k}
           /\ \A j \in DOMAIN s.jobs \ {k} : t.jobs[j] = s.jobs[j]
           /\ t.jobs[k] = IF k \in DOMAIN s.jobs THEN L!OnConflict(s.jobs[k], L!Values(job))
                          ELSE L!Values(job)
  <1> DEFINE row == IF k \in DOMAIN s.jobs THEN L!OnConflict(s.jobs[k], L!Values(job)) ELSE L!Values(job)
  <1>1. DOMAIN t = Table /\ t.attempts = s.attempts /\ t.epochs = s.epochs /\ t.jobs = Put(s.jobs, k, row)
    <2>1. CASE k \in DOMAIN s.jobs
      BY <2>1, UpsertKnown
    <2>2. CASE k \notin DOMAIN s.jobs
      BY <2>2, UpsertNew
    <2> QED
      BY <2>1, <2>2
  <1> HIDE DEF row
  <1>2. /\ DOMAIN t.jobs = DOMAIN s.jobs \union {k} /\ t.jobs[k] = row
        /\ \A j \in DOMAIN s.jobs \ {k} : t.jobs[j] = s.jobs[j]
    BY <1>1, Zenon DEF Put
  <1> QED
    BY <1>1, <1>2 DEF row

\* The primary key of an attempt, and the row SaveAttempts leaves under it.
AttemptKey(k, a) == <<k, a.n, L!Unix(a.startedAt)>>

NewAttempt(s, k, a) ==
    LET pk == AttemptKey(k, a)
        old == IF pk \in DOMAIN s.attempts THEN s.attempts[pk] ELSE [err |-> Blank, finishedAt |-> 0]
    IN [state |-> a.state, err |-> L!LastNonBlank(old.err, a.err),
        finishedAt |-> L!LastNonZero(old.finishedAt, L!Unix(a.finishedAt))]

LEMMA SaveAttemptKeeps ==
    ASSUME NEW s, DOMAIN s = Table, NEW k, NEW a, NEW t, t = L!SaveAttempt(s, k, a)
    PROVE  /\ DOMAIN t = Table /\ t.jobs = s.jobs /\ t.epochs = s.epochs
           /\ t.attempts = Put(s.attempts, AttemptKey(k, a), NewAttempt(s, k, a))
  <1> DEFINE f == Put(s.attempts, AttemptKey(k, a), NewAttempt(s, k, a))
  <1>1. f = L!Put(s.attempts, AttemptKey(k, a), NewAttempt(s, k, a))
    BY DatabaseTables
  <1>2. t = [s EXCEPT !.attempts = f]
    BY <1>1, Zenon DEF L!SaveAttempt, AttemptKey, NewAttempt, Blank
  <1> HIDE DEF f
  <1>3. t.attempts = f
    BY <1>2 DEF Table
  <1>4. DOMAIN t = Table /\ t.jobs = s.jobs /\ t.epochs = s.epochs
    BY <1>2 DEF Table
  <1> QED
    BY <1>3, <1>4 DEF f

LEMMA PruneTables ==
    ASSUME NEW s, DOMAIN s = Table, NEW before, NEW states, NEW t, t = L!PruneStore(s, before, states),
           NEW gone, gone = L!Expired(s, L!Unix(before), states)
    PROVE  /\ t.epochs = s.epochs
           /\ t.jobs = Delete(s.jobs, gone)
           /\ t.attempts = Delete(s.attempts, AttemptsOf(s, gone))
  <1> DEFINE left == L!DeleteAttempts(s, gone)
  <1>1. t = L!DeleteJobs(left, gone)
    BY Zenon DEF L!PruneStore
  <1>2. left = L!DeleteAttempts(s, gone)
    OBVIOUS
  <1> HIDE DEF left
  <1>3. /\ DOMAIN left = Table /\ left.jobs = s.jobs /\ left.epochs = s.epochs
        /\ left.attempts = Delete(s.attempts, AttemptsOf(s, gone))
    BY <1>2, DeleteAttemptsTables
  <1>4. t.epochs = left.epochs /\ t.jobs = Delete(left.jobs, gone) /\ t.attempts = left.attempts
    BY <1>1, <1>3, DeleteJobsTables
  <1> QED
    BY <1>3, <1>4

LEMMA LockstepKept ==
    ASSUME TimesOK, TimesOK', clock <= clock', NEW s, NEW t, Lockstep(s), t.epochs = s.epochs,
           mem'.epochs = mem.epochs
    PROVE  /\ DOMAIN t.epochs = DOMAIN mem'.epochs
           /\ \A e \in DOMAIN mem'.epochs :
                mem'.epochs[e] \in Instants(clock') /\ t.epochs[e] = L!Unix(mem'.epochs[e])
  <1>1. clock \in Nat /\ clock' \in Nat
    BY ClockPositive, Constants DEF TimesOK
  <1>2. Instants(clock) \subseteq Instants(clock')
    BY <1>1, InstantFacts
  <1> QED
    BY <1>2 DEF Lockstep

LEMMA LockstepStep ==
    ASSUME StoresInv, Lockstep(lite), Lockstep(pg), [Next]_vars
    PROVE  Lockstep(lite)' /\ Lockstep(pg)'
  <1>0. /\ TimesOK /\ LateOK /\ DOMAIN mem = Maps /\ DOMAIN lite = Table /\ DOMAIN pg = Table
        /\ TimesOK' /\ clock <= clock' /\ clock \in Nat /\ 0 \in Instants(clock) /\ clock \in Instants(clock)
    BY TimesStep, ClockPositive DEF StoresInv, MemOK, DB
  <1>1. ASSUME mem'.epochs = mem.epochs, lite'.epochs = lite.epochs, pg'.epochs = pg.epochs
        PROVE  Lockstep(lite)' /\ Lockstep(pg)'
    BY <1>0, <1>1, LockstepKept DEF Lockstep
  <1>2. Kept => Lockstep(lite)' /\ Lockstep(pg)'
    BY <1>1 DEF Kept
  <1>3. ASSUME NEW k \in Keys, NEW job, Store(k, job)
        PROVE  Lockstep(lite)' /\ Lockstep(pg)'
    <2>1. /\ mem' = M!UpsertJob(mem, k, job)
          /\ lite' = L!UpsertJob(lite, k, job) /\ pg' = L!UpsertJob(pg, k, job)
      BY <1>3, PostgresUpsert, Zenon DEF Store
    <2>2. mem'.epochs = mem.epochs
      BY <1>0, <2>1, MemoryUpsert
    <2>3. lite'.epochs = lite.epochs /\ pg'.epochs = pg.epochs
      BY <1>0, <2>1, UpsertTables
    <2> QED
      BY <1>1, <2>2, <2>3
  <1>4. ASSUME NEW k \in Keys, SaveAttempts(k)
        PROVE  Lockstep(lite)' /\ Lockstep(pg)'
    <2>1. PICK a : /\ mem' = M!SaveAttempt(mem, k, a)
                   /\ lite' = L!SaveAttempt(lite, k, a)
                   /\ pg' = L!SaveAttempt(pg, k, a)
      BY <1>4, SaveAttemptsStep, Zenon
    <2>2. mem'.epochs = mem.epochs
      BY <1>0, <2>1, MemorySaveAttempt
    <2>3. lite'.epochs = lite.epochs /\ pg'.epochs = pg.epochs
      BY <1>0, <2>1, SaveAttemptKeeps
    <2> QED
      BY <1>1, <2>2, <2>3
  <1>5. ASSUME NEW e \in Epochs, Heartbeat(e)
        PROVE  Lockstep(lite)' /\ Lockstep(pg)'
    <2>1. PICK t \in {clock, 0} : /\ mem' = M!Heartbeat(mem, e, t) /\ lite' = L!Heartbeat(lite, e, t)
                                  /\ pg' = P!Heartbeat(pg, e, t)
      BY <1>5, Zenon DEF Heartbeat
    <2>2. pg' = L!Heartbeat(pg, e, t) /\ clock' = clock
      BY <1>5, <2>1, PostgresWrites DEF Heartbeat, Round
    <2>3. mem'.epochs = Put(mem.epochs, e, t)
      BY <1>0, <2>1, MemoryHeartbeat
    <2>4. /\ lite'.epochs = Put(lite.epochs, e, L!Unix(t))
          /\ pg'.epochs = Put(pg.epochs, e, L!Unix(t))
      BY <1>0, <2>1, <2>2, HeartbeatTables
    <2>5. t \in Instants(clock)
      BY <1>0, <2>1
    <2>6. ASSUME NEW s, NEW u, Lockstep(s), u.epochs = Put(s.epochs, e, L!Unix(t))
          PROVE  /\ DOMAIN u.epochs = DOMAIN mem'.epochs
                 /\ \A x \in DOMAIN mem'.epochs :
                      mem'.epochs[x] \in Instants(clock') /\ u.epochs[x] = L!Unix(mem'.epochs[x])
      BY <2>2, <2>3, <2>5, <2>6 DEF Lockstep, Put
    <2> QED
      BY <2>4, <2>6 DEF Lockstep
  <1>6. ASSUME NEW e \in Epochs, ReconcileEpoch(e)
        PROVE  Lockstep(lite)' /\ Lockstep(pg)'
    <2>1. /\ mem' = M!ReconcileEpoch(mem, e, StaleAfter, clock)
          /\ lite' = L!ReconcileEpoch(lite, e, StaleAfter, clock)
          /\ pg' = P!ReconcileEpoch(pg, e, StaleAfter, clock)
      BY <1>6, Zenon DEF ReconcileEpoch
    <2>2. pg' = L!ReconcileEpoch(pg, e, StaleAfter, clock)
      BY <2>1, PostgresWrites
    <2>3. mem'.epochs = mem.epochs
      BY <1>0, <2>1, MemoryReconcile
    <2>4. lite'.epochs = lite.epochs /\ pg'.epochs = pg.epochs
      BY <1>0, <2>1, <2>2, ReconcileTables
    <2> QED
      BY <1>1, <2>3, <2>4
  <1>7. ASSUME NEW r \in Retentions, BeginPrune(r)
        PROVE  Lockstep(lite)' /\ Lockstep(pg)'
    <2> DEFINE before == clock - r.age
    <2>1. /\ mem' = M!PruneStore(mem, before, r.states)
          /\ lite' = L!PruneStore(lite, before, r.states)
          /\ pg' = P!PruneAttempts(pg, before, r.states)
      BY <1>7, Zenon DEF BeginPrune
    <2> HIDE DEF before
    <2>2. pg' = L!DeleteAttempts(pg, L!Expired(pg, L!Unix(before), r.states))
      BY <2>1, PostgresWrites
    <2>3. mem'.epochs = mem.epochs
      BY <1>0, <2>1, MemoryPrune
    <2>4. lite'.epochs = lite.epochs
      BY <1>0, <2>1, PruneTables
    <2>5. pg'.epochs = pg.epochs
      BY <1>0, <2>2, DeleteAttemptsTables
    <2> QED
      BY <1>1, <2>3, <2>4, <2>5
  <1>8. ASSUME EndPrune
        PROVE  Lockstep(lite)' /\ Lockstep(pg)'
    <2>1. PICK p \in pruning : pg' = P!PruneJobs(pg, p.before, p.states)
      BY <1>8, Zenon DEF EndPrune
    <2>2. pg' = L!DeleteJobs(pg, L!Expired(pg, L!Unix(p.before), p.states))
      BY <2>1, PostgresWrites
    <2>3. pg'.epochs = pg.epochs
      BY <1>0, <2>2, DeleteJobsTables
    <2>4. UNCHANGED <<mem, lite>>
      BY <1>8 DEF EndPrune
    <2> QED
      BY <1>1, <2>3, <2>4
  <1> QED
    BY <1>0, <1>2, <1>3, <1>4, <1>5, <1>6, <1>7, <1>8, StepCases, Zenon

LEMMA InitLockstep ==
    ASSUME Init
    PROVE  Lockstep(lite) /\ Lockstep(pg)
  <1>1. mem = M!Open /\ lite = L!Migrate /\ pg = P!Migrate
    BY Zenon DEF Init
  <1>2. mem.epochs = <<>> /\ lite.epochs = <<>> /\ pg.epochs = <<>>
    BY <1>1 DEF M!Open, L!Migrate, P!Migrate, P!L!Migrate
  <1>3. DOMAIN mem.epochs = {} /\ DOMAIN lite.epochs = {} /\ DOMAIN pg.epochs = {}
    BY <1>2
  <1> QED
    BY <1>3, Zenon DEF Lockstep

----------------------------------------------------------------------------
(* Rounding errs on the safe side. *)

\* The two times retention looks at are whole microseconds.
AgeOK(row) == row.enqueuedAt \in Nat /\ row.finishedAt \in Nat

AgesOK(s) == \A k \in DOMAIN s.jobs : AgeOK(s.jobs[k])

LEMMA ValuesAge ==
    ASSUME TimesOK, NEW k \in Keys, NEW job, Offered(k, job)
    PROVE  AgeOK(L!Values(job))
  <1>1. /\ DOMAIN job = Field /\ clock \in Nat
        /\ job.enqueuedAt \in Instants(clock) /\ job.finishedAt \in Instants(clock)
    BY ClockPositive DEF Offered, JobOK
  <1>2. L!Unix(job.enqueuedAt) \in Nat /\ L!Unix(job.finishedAt) \in Nat
    BY <1>1, InstantTimes
  <1> DEFINE v == L!Values(job)
  <1>3. v.enqueuedAt = L!Unix(job.enqueuedAt) /\ v.finishedAt = L!Unix(job.finishedAt)
    BY <1>1, ValuesColumns
  <1> QED
    BY <1>2, <1>3 DEF AgeOK

LEMMA ConflictAge ==
    ASSUME NEW row, DOMAIN row = Column, AgeOK(row), NEW new, AgeOK(new)
    PROVE  AgeOK(L!OnConflict(row, new))
  <1> DEFINE m == L!OnConflict(row, new)
  <1>1. /\ m.enqueuedAt = FillZero(row.enqueuedAt, new.enqueuedAt)
        /\ m.finishedAt = LastNonZero(row.finishedAt, new.finishedAt)
    BY ConflictColumns
  <1> QED
    BY <1>1 DEF AgeOK, FillZero, LastNonZero

LEMMA InterruptAge ==
    ASSUME NEW row, RowOK(row)
    PROVE  /\ L!Interrupt(row).enqueuedAt = row.enqueuedAt
           /\ L!Interrupt(row).finishedAt = row.finishedAt
  BY DEF L!Interrupt, RowOK, Column, Field

LEMMA AgesStep ==
    ASSUME StoresInv, AgesOK(lite), [Next]_vars
    PROVE  AgesOK(lite)'
  <1>0. /\ TimesOK /\ LateOK /\ DB(lite) /\ DOMAIN lite = Table
        /\ \A k \in DOMAIN lite.jobs : RowOK(lite.jobs[k]) /\ DOMAIN lite.jobs[k] = Column
    BY DEF StoresInv, DB, RowOK
  <1>1. lite'.jobs = lite.jobs => AgesOK(lite)'
    BY Zenon DEF AgesOK
  <1>2. Kept \/ EndPrune => lite' = lite
    BY DEF Kept, EndPrune
  <1>3. ASSUME NEW k \in Keys, NEW job, Offered(k, job), Store(k, job)
        PROVE  AgesOK(lite)'
    <2>1. lite' = L!UpsertJob(lite, k, job)
      BY <1>3, Zenon DEF Store
    <2>2. /\ DOMAIN lite'.jobs = DOMAIN lite.jobs \union {k}
          /\ \A j \in DOMAIN lite.jobs \ {k} : lite'.jobs[j] = lite.jobs[j]
          /\ lite'.jobs[k] = IF k \in DOMAIN lite.jobs THEN L!OnConflict(lite.jobs[k], L!Values(job))
                             ELSE L!Values(job)
      BY <1>0, <2>1, UpsertTables
    <2>3. AgeOK(L!Values(job))
      BY <1>0, <1>3, ValuesAge
    <2>4. k \in DOMAIN lite.jobs => AgeOK(L!OnConflict(lite.jobs[k], L!Values(job)))
      BY <1>0, <2>3, ConflictAge DEF AgesOK
    <2> QED
      BY <2>2, <2>3, <2>4, Zenon DEF AgesOK
  <1>4. ASSUME NEW k \in Keys, SaveAttempts(k)
        PROVE  lite'.jobs = lite.jobs
    <2>1. PICK a : lite' = L!SaveAttempt(lite, k, a)
      BY <1>4, SaveAttemptsStep, Zenon
    <2> QED
      BY <1>0, <2>1, SaveAttemptKeeps
  <1>5. ASSUME NEW e \in Epochs, Heartbeat(e)
        PROVE  lite'.jobs = lite.jobs
    <2>1. PICK t : lite' = L!Heartbeat(lite, e, t)
      BY <1>5, Zenon DEF Heartbeat
    <2> QED
      BY <1>0, <2>1, HeartbeatTables
  <1>6. ASSUME NEW e \in Epochs, ReconcileEpoch(e)
        PROVE  AgesOK(lite)'
    <2>1. lite' = L!ReconcileEpoch(lite, e, StaleAfter, clock)
      BY <1>6, Zenon DEF ReconcileEpoch
    <2>2. /\ DOMAIN lite'.jobs = DOMAIN lite.jobs
          /\ \A k \in DOMAIN lite.jobs : lite'.jobs[k] \in {L!Interrupt(lite.jobs[k]), lite.jobs[k]}
      BY <1>0, <2>1, ReconcileTables
    <2>3. \A k \in DOMAIN lite.jobs : AgeOK(L!Interrupt(lite.jobs[k]))
      BY <1>0, InterruptAge DEF AgesOK, AgeOK
    <2> QED
      BY <2>2, <2>3, Zenon DEF AgesOK
  <1>7. ASSUME NEW r \in Retentions, BeginPrune(r)
        PROVE  AgesOK(lite)'
    <2> DEFINE before == clock - r.age
               gone == L!Expired(lite, L!Unix(before), r.states)
    <2>1. lite' = L!PruneStore(lite, before, r.states)
      BY <1>7, Zenon DEF BeginPrune
    <2>2. lite'.jobs = Delete(lite.jobs, gone)
      BY <1>0, <2>1, PruneTables
    <2> QED
      BY <2>2, Zenon DEF AgesOK, Delete
  <1> QED
    BY <1>0, <1>1, <1>2, <1>3, <1>4, <1>5, <1>6, <1>7, StepCases, Zenon

\* Equal times read back are equal columns.
LEMMA FromUnixInjective ==
    ASSUME NEW a \in Nat, NEW b \in Nat, L!FromUnix(a) = L!FromUnix(b)
    PROVE  a = b
  <1>1. Nanos \in Nat \ {0}
    BY Constants
  <1>2. \A x \in Nat : L!FromUnix(x) = x * Nanos
    BY <1>1 DEF L!FromUnix
  <1>3. a * Nanos = b * Nanos
    BY <1>2
  <1> QED
    BY <1>1, <1>3

LEMMA SameRowColumns ==
    ASSUME StoresInv, AgesOK(lite), NEW k \in DOMAIN lite.jobs, SameRow(lite, k)
    PROVE  /\ k \in DOMAIN mem.jobs
           /\ lite.jobs[k].state = mem.jobs[k].state /\ lite.jobs[k].epoch = mem.jobs[k].epoch
           /\ lite.jobs[k].enqueuedAt = L!Unix(mem.jobs[k].enqueuedAt)
           /\ lite.jobs[k].finishedAt = L!Unix(mem.jobs[k].finishedAt)
  <1> DEFINE row == lite.jobs[k]
             job == mem.jobs[k]
  <1>1. k \in DOMAIN mem.jobs /\ L!ScanJob(row) = Image(job)
    BY Zenon DEF SameRow
  <1>2. RowOK(row) /\ AgeOK(row) /\ JobOK(k, job, clock, when[k].finished) /\ clock \in Nat
    BY <1>1, ClockPositive DEF StoresInv, MemOK, DB, AgesOK
  <1> HIDE DEF row, job
  <1>3. DOMAIN row = Column /\ DOMAIN job = Field
    BY <1>2 DEF RowOK, JobOK
  <1>4. L!ScanJob(row) = [c \in Field |-> IF c \in L!TimeColumns THEN L!FromUnix(row[c]) ELSE row[c]]
    <2>1. Column \ {"pattern", "rank"} = Field
      BY DEF Column, Field
    <2> QED
      BY <1>3, <2>1, Zenon DEF L!ScanJob
  <1>5. Image(job) = [c \in Field |-> IF c \in L!TimeColumns THEN L!FromUnix(L!Unix(job[c])) ELSE job[c]]
    BY <1>3, Zenon DEF Image, Truncated
  <1>6. \A c \in Field : (IF c \in L!TimeColumns THEN L!FromUnix(row[c]) ELSE row[c])
                = (IF c \in L!TimeColumns THEN L!FromUnix(L!Unix(job[c])) ELSE job[c])
    BY <1>1, <1>4, <1>5, Zenon
  <1>7. /\ row.state = job.state /\ row.epoch = job.epoch
        /\ L!FromUnix(row.enqueuedAt) = L!FromUnix(L!Unix(job.enqueuedAt))
        /\ L!FromUnix(row.finishedAt) = L!FromUnix(L!Unix(job.finishedAt))
    BY <1>6 DEF Field, L!TimeColumns
  <1>8. L!Unix(job.enqueuedAt) \in Nat /\ L!Unix(job.finishedAt) \in Nat
    BY <1>2, InstantTimes DEF JobOK
  <1>9. row.enqueuedAt = L!Unix(job.enqueuedAt) /\ row.finishedAt = L!Unix(job.finishedAt)
    BY <1>2, <1>7, <1>8, FromUnixInjective DEF AgeOK
  <1> QED
    BY <1>1, <1>7, <1>9 DEF row, job

\* What a step may do to the row of k in SQLite.
Spared(k) ==
    /\ k \notin DOMAIN lite.jobs' => k \notin DOMAIN mem.jobs'
    /\ k \in DOMAIN lite.jobs' /\ lite.jobs'[k].state = "interrupted"
          /\ lite.jobs[k].state # "interrupted"
       => mem.jobs'[k].state = "interrupted"

LEMMA SparedStep ==
    ASSUME StoresInv, Lockstep(lite), AgesOK(lite), [Next]_vars,
           NEW k \in DOMAIN lite.jobs, SameRow(lite, k)
    PROVE  Spared(k)
  <1> DEFINE row == lite.jobs[k]
             job == mem.jobs[k]
  <1>0. /\ TimesOK /\ LateOK /\ MemOK /\ DB(lite) /\ DOMAIN mem = Maps /\ DOMAIN lite = Table
        /\ clock \in Nat /\ k \in Keys
    BY ClockPositive DEF StoresInv, MemOK, DB
  <1>1. /\ k \in DOMAIN mem.jobs
        /\ row.state = job.state /\ row.epoch = job.epoch
        /\ row.enqueuedAt = L!Unix(job.enqueuedAt) /\ row.finishedAt = L!Unix(job.finishedAt)
    BY SameRowColumns
  <1>2. RowOK(row) /\ JobOK(k, job, clock, when[k].finished)
    BY <1>0, <1>1 DEF MemOK, DB
  <1>3. lite'.jobs = lite.jobs => Spared(k)
    BY Zenon DEF Spared
  <1>4. Kept \/ EndPrune => lite' = lite
    BY DEF Kept, EndPrune
  <1>5. ASSUME NEW j \in Keys, NEW in, Offered(j, in), Store(j, in)
        PROVE  Spared(k)
    <2>1. lite' = L!UpsertJob(lite, j, in)
      BY <1>5, Zenon DEF Store
    <2>2. /\ DOMAIN lite'.jobs = DOMAIN lite.jobs \union {j}
          /\ \A i \in DOMAIN lite.jobs \ {j} : lite'.jobs[i] = lite.jobs[i]
          /\ lite'.jobs[j] = IF j \in DOMAIN lite.jobs THEN L!OnConflict(lite.jobs[j], L!Values(in))
                             ELSE L!Values(in)
      BY <1>0, <2>1, UpsertTables
    <2>3. CASE j # k
      BY <2>2, <2>3, Zenon DEF Spared
    <2>4. CASE j = k
      <3> DEFINE new == L!Values(in)
                 r == L!OnConflict(row, new)
      <3>1. new.state = in.state
        <4>1. DOMAIN in = Field
          BY <1>5 DEF Offered, JobOK
        <4>2. SameColumns(new, in)
          BY <4>1, ValuesSame
        <4> QED
          BY <4>2 DEF SameColumns, Field, TimeFields
      <3> HIDE DEF new
      <3>2. r.state = IF new.rank > row.rank THEN new.state ELSE row.state
        BY <1>2, ConflictColumns DEF RowOK
      <3>3. in.state # "interrupted"
        BY <1>5 DEF Offered, Reported
      <3>4. lite'.jobs[k] = r /\ k \in DOMAIN lite'.jobs
        BY <2>2, <2>4, Zenon DEF new
      <3>5. r.state = "interrupted" => row.state = "interrupted"
        BY <3>1, <3>2, <3>3
      <3> QED
        BY <3>4, <3>5, Zenon DEF Spared
    <2> QED
      BY <2>3, <2>4
  <1>6. ASSUME NEW j \in Keys, SaveAttempts(j)
        PROVE  lite'.jobs = lite.jobs
    <2>1. PICK a : lite' = L!SaveAttempt(lite, j, a)
      BY <1>6, SaveAttemptsStep, Zenon
    <2> QED
      BY <1>0, <2>1, SaveAttemptKeeps
  <1>7. ASSUME NEW e \in Epochs, Heartbeat(e)
        PROVE  lite'.jobs = lite.jobs
    <2>1. PICK t : lite' = L!Heartbeat(lite, e, t)
      BY <1>7, Zenon DEF Heartbeat
    <2> QED
      BY <1>0, <2>1, HeartbeatTables
  <1>8. ASSUME NEW e \in Epochs, ReconcileEpoch(e)
        PROVE  Spared(k)
    <2> DEFINE orphan == /\ row.epoch # e /\ row.rank < 3
                         /\ row.epoch \notin L!BeatingEpochs(lite, L!Unix(clock - StaleAfter))
    <2>1. /\ lite' = L!ReconcileEpoch(lite, e, StaleAfter, clock)
          /\ mem' = M!ReconcileEpoch(mem, e, StaleAfter, clock)
      BY <1>8, Zenon DEF ReconcileEpoch
    <2>2. /\ DOMAIN lite'.jobs = DOMAIN lite.jobs
          /\ ~orphan => lite'.jobs[k] = row
      BY <1>0, <2>1, ReconcileTables
    <2>3. Orphan(mem, e, clock - StaleAfter, job) => mem'.jobs[k] = Interrupted(job)
      BY <1>0, <1>1, <2>1, MemoryReconcile
    <2>4. Interrupted(job).state = "interrupted"
      BY <1>2 DEF Interrupted, JobOK, Field
    <2>5. orphan => Orphan(mem, e, clock - StaleAfter, job)
      <3> HIDE DEF row, job
      <3> QED
        BY <1>0, <1>1, <1>2, OrphanSame
    <2> HIDE DEF orphan
    <2> QED
      BY <2>2, <2>3, <2>4, <2>5, Zenon DEF Spared
  <1>9. ASSUME NEW r \in Retentions, BeginPrune(r)
        PROVE  Spared(k)
    <2> DEFINE before == clock - r.age
               gone == L!Expired(lite, L!Unix(before), r.states)
    <2>1. /\ mem' = M!PruneStore(mem, before, r.states)
          /\ lite' = L!PruneStore(lite, before, r.states)
      BY <1>9, Zenon DEF BeginPrune
    <2>2. before \in Int
      <3>1. r.age \in Nat
        BY DriversAssumption, Zenon
      <3> QED
        BY <1>0, <3>1
    <2>3. lite'.jobs = Delete(lite.jobs, gone)
      BY <1>0, <2>1, PruneTables
    <2>4. k \in gone => ExpiredRow(row, L!Unix(before), r.states)
      BY ExpiredRows, Zenon
    <2> HIDE DEF before, gone
    <2>5. mem'.jobs = Prune(mem.jobs, before, r.states)
      BY <1>0, <2>1, MemoryPrune
    <2>6. ExpiredRow(row, L!Unix(before), r.states) => k \in Prunable(mem.jobs, before, r.states)
      BY <1>0, <1>1, <1>2, <2>2, ExpiredSame, Zenon
    <2>7. CASE k \in gone
      <3>1. k \notin DOMAIN mem'.jobs /\ k \notin DOMAIN lite'.jobs
        BY <2>3, <2>4, <2>5, <2>6, <2>7, Zenon DEF Delete, Prune
      <3> QED
        BY <3>1, Zenon DEF Spared
    <2>8. CASE k \notin gone
      <3>1. k \in DOMAIN lite'.jobs /\ lite'.jobs[k] = row
        BY <2>3, <2>8, Zenon DEF Delete
      <3> QED
        BY <3>1, Zenon DEF Spared
    <2> QED
      BY <2>7, <2>8
  <1> QED
    BY <1>0, <1>3, <1>4, <1>5, <1>6, <1>7, <1>8, <1>9, StepCases, Zenon

\* Rounding to microseconds errs on the safe side for any clock, staleness and
\* retention: of a row both drivers hold alike, SQLite's reconciliation interrupts and
\* its prune deletes only what the memory driver's interrupts and deletes.
THEOREM RoundingSparesAlways == Spec => RoundingSpares
  <1> DEFINE Safe == \A k \in DOMAIN lite.jobs : SameRow(lite, k) =>
                        /\ k \notin DOMAIN lite.jobs' => k \notin DOMAIN mem.jobs'
                        /\ k \in DOMAIN lite.jobs' /\ lite.jobs'[k].state = "interrupted"
                              /\ lite.jobs[k].state # "interrupted"
                           => mem.jobs'[k].state = "interrupted"
             Inv == StoresInv /\ Lockstep(lite) /\ Lockstep(pg) /\ AgesOK(lite)
  <1>1. Init => Inv
    <2> SUFFICES ASSUME Init PROVE Inv
      OBVIOUS
    <2>1. lite = L!Migrate
      BY Zenon DEF Init
    <2>2. DOMAIN L!Migrate.jobs = {}
      BY DEF L!Migrate
    <2>3. AgesOK(lite)
      BY <2>1, <2>2, Zenon DEF AgesOK
    <2> QED
      BY <2>3, InitStores, InitLockstep
  <1>2. Inv /\ [Next]_vars => Inv'
    BY StoresStep, LockstepStep, AgesStep, Zenon
  <1>3. Inv /\ [Next]_vars => [Safe]_vars
    BY SparedStep, Zenon DEF Spared
  <1> QED
    BY <1>1, <1>2, <1>3, PTL DEF Spec, RoundingSpares

----------------------------------------------------------------------------
(* The attempts of a job: memory has a list of them, a database a table in  *)
(* which they are known by number and start.                                *)

\* The row a database has for an attempt.
AttemptRow(a) == [state |-> a.state, err |-> a.err, finishedAt |-> L!Unix(a.finishedAt)]

\* A list of attempts, of which no two have the same number.
Listed(own, tries, now) ==
    /\ \E S : own \in Seq(S)
    /\ \A i \in DOMAIN own : AttemptOK(own[i], tries, now)
    /\ \A i, j \in DOMAIN own : own[i].n = own[j].n => i = j

\* The attempts of k in a table are those of a list.
Tabled(s, k, own) ==
    /\ RowAttempts(s, k) = {AttemptKey(k, own[i]) : i \in DOMAIN own}
    /\ \A i \in DOMAIN own : s.attempts[AttemptKey(k, own[i])] = AttemptRow(own[i])

\* Database s has the attempts of k that memory has.
Twin(m, s, k, tries, now) == Listed(m.attempts[k], tries, now) /\ Tabled(s, k, m.attempts[k])

\* An attempt after the record b of it was saved over a.
Resaved(a, b) == [b EXCEPT !.err = LastNonBlank(a.err, b.err),
                           !.finishedAt = LastNonZero(a.finishedAt, b.finishedAt)]

LEMMA ResavedFields ==
    ASSUME NEW a, NEW b, DOMAIN b = AttemptField, NEW c, c = Resaved(a, b)
    PROVE  /\ DOMAIN c = AttemptField
           /\ c.n = b.n /\ c.state = b.state /\ c.startedAt = b.startedAt
           /\ c.err = LastNonBlank(a.err, b.err)
           /\ c.finishedAt = LastNonZero(a.finishedAt, b.finishedAt)
  BY DEF Resaved, AttemptField

\* The list of attempts with b at place i.
PutAt(own, i, b) == [own EXCEPT ![i] = b]

LEMMA FirstSaved ==
    ASSUME NEW s, DOMAIN s = Maps, NEW k, NEW b, \A i \in DOMAIN s.attempts[k] : s.attempts[k][i].n # b.n,
           NEW t, t = M!SaveAttempt(s, k, b)
    PROVE  t.attempts = Put(s.attempts, k, Append(s.attempts[k], b))
  <1> DEFINE known == s.attempts[k]
             same == {i \in DOMAIN known : known[i].n = b.n /\ known[i].startedAt = b.startedAt}
             f == Put(s.attempts, k, Append(known, b))
  <1>1. same = {}
    BY Zenon
  <1>2. f = M!Put(s.attempts, k, Append(known, b))
    BY MemoryRows
  <1>3. t = [s EXCEPT !.attempts = f]
    BY <1>1, <1>2, Zenon DEF M!SaveAttempt
  <1> HIDE DEF f
  <1>4. t.attempts = f
    BY <1>3 DEF Maps
  <1> QED
    BY <1>4 DEF f

LEMMA Smallest ==
    ASSUME NEW i \in Int
    PROVE  M!Min({i}) = i
  <1>1. \A x : x \in {i} /\ (\A y \in {i} : x <= y) <=> x = i
    OBVIOUS
  <1> QED
    BY <1>1 DEF M!Min

LEMMA SavedAgain ==
    ASSUME NEW s, DOMAIN s = Maps, NEW k, NEW known, s.attempts[k] = known, NEW b, NEW i \in Int,
           {j \in DOMAIN known : known[j].n = b.n /\ known[j].startedAt = b.startedAt} = {i},
           NEW t, t = M!SaveAttempt(s, k, b)
    PROVE  t.attempts = Put(s.attempts, k, PutAt(known, i, Resaved(known[i], b)))
  <1> DEFINE same == {j \in DOMAIN known : known[j].n = b.n /\ known[j].startedAt = b.startedAt}
             kept == known[M!Min(same)]
             updated == [b EXCEPT !.err = M!LastNonBlank(kept.err, b.err),
                                  !.finishedAt = M!LastNonZero(kept.finishedAt, b.finishedAt)]
             own == PutAt(known, i, Resaved(known[i], b))
             f == Put(s.attempts, k, own)
  <1>0. M!SaveAttempt(s, k, b) = [s EXCEPT !.attempts = M!Put(s.attempts, k,
            IF same = {} THEN Append(known, b) ELSE [known EXCEPT ![M!Min(same)] = updated])]
    <2>1. known = s.attempts[k]
      OBVIOUS
    <2> QED
      BY ONLY <2>1, Zenon DEF M!SaveAttempt
  <1>1. same = {i} /\ same # {}
    OBVIOUS
  <1>2. M!Min(same) = i
    BY <1>1, Smallest
  <1>3. updated = Resaved(known[i], b)
    BY <1>2, MemoryRules, Zenon DEF Resaved
  <1>4. [known EXCEPT ![M!Min(same)] = updated] = own
    BY <1>2, <1>3, Zenon DEF PutAt
  <1>5. f = M!Put(s.attempts, k, own)
    BY MemoryRows
  <1>6. t = [s EXCEPT !.attempts = f]
    BY <1>0, <1>1, <1>4, <1>5, Zenon
  <1> HIDE DEF f
  <1>7. t.attempts = f
    BY <1>6 DEF Maps
  <1> QED
    BY <1>7 DEF f

LEMMA NoOldAttempt ==
    [err |-> Blank, finishedAt |-> 0].err = Blank /\ [err |-> Blank, finishedAt |-> 0].finishedAt = 0
  OBVIOUS

LEMMA NewAttemptFirst ==
    ASSUME NEW s, NEW k, NEW b, AttemptKey(k, b) \notin DOMAIN s.attempts,
           NEW now \in Nat, b.finishedAt \in Instants(now)
    PROVE  NewAttempt(s, k, b) = AttemptRow(b)
  <1> DEFINE none == [err |-> Blank, finishedAt |-> 0]
             at == L!Unix(b.finishedAt)
  <1>1. NewAttempt(s, k, b) = [state |-> b.state, err |-> L!LastNonBlank(none.err, b.err),
                               finishedAt |-> L!LastNonZero(none.finishedAt, at)]
    BY Zenon DEF NewAttempt
  <1>2. none.err = Blank /\ none.finishedAt = 0
    BY NoOldAttempt, Zenon
  <1>3. L!LastNonBlank(Blank, b.err) = b.err
    BY Zenon DEF L!LastNonBlank, Blank
  <1>4. L!LastNonZero(0, at) = at
    BY Zenon DEF L!LastNonZero
  <1> QED
    BY <1>1, <1>2, <1>3, <1>4, Zenon DEF AttemptRow

LEMMA NewAttemptAgain ==
    ASSUME NEW s, NEW k, NEW a, NEW b, AttemptKey(k, b) \in DOMAIN s.attempts,
           s.attempts[AttemptKey(k, b)] = AttemptRow(a), DOMAIN b = AttemptField,
           NEW now \in Nat, a.finishedAt \in Instants(now), b.finishedAt \in Instants(now)
    PROVE  NewAttempt(s, k, b) = AttemptRow(Resaved(a, b))
  <1> DEFINE old == AttemptRow(a)
             at == L!Unix(b.finishedAt)
             c == Resaved(a, b)
  <1>1. NewAttempt(s, k, b) = [state |-> b.state, err |-> L!LastNonBlank(old.err, b.err),
                               finishedAt |-> L!LastNonZero(old.finishedAt, at)]
    BY Zenon DEF NewAttempt
  <1>2. old.err = a.err /\ old.finishedAt = L!Unix(a.finishedAt)
    BY DEF AttemptRow
  <1> HIDE DEF old
  <1>3. /\ c.state = b.state /\ c.err = LastNonBlank(a.err, b.err)
        /\ c.finishedAt = LastNonZero(a.finishedAt, b.finishedAt)
    BY ResavedFields
  <1> HIDE DEF c
  <1>4. L!LastNonBlank(old.err, b.err) = c.err
    BY <1>2, <1>3, DatabaseRules
  <1>5. L!LastNonZero(old.finishedAt, at) = L!Unix(c.finishedAt)
    BY <1>2, <1>3, DatabaseRules, UnixRules
  <1>6. NewAttempt(s, k, b) = AttemptRow(c)
    BY <1>1, <1>3, <1>4, <1>5, Zenon DEF AttemptRow
  <1> QED
    BY <1>6 DEF c

LEMMA KeyParts ==
    ASSUME NEW k, NEW a
    PROVE  AttemptKey(k, a)[1] = k /\ AttemptKey(k, a)[2] = a.n
  BY DEF AttemptKey

LEMMA KeySame ==
    ASSUME NEW k, NEW a, NEW b, a.n = b.n, a.startedAt = b.startedAt
    PROVE  AttemptKey(k, a) = AttemptKey(k, b)
  BY Zenon DEF AttemptKey

LEMMA KeysApart ==
    ASSUME NEW k, NEW a, NEW b, a.n # b.n
    PROVE  AttemptKey(k, a) # AttemptKey(k, b)
  <1>1. AttemptKey(k, a)[2] = a.n /\ AttemptKey(k, b)[2] = b.n
    BY KeyParts
  <1> QED
    BY <1>1

\* A step that leaves the attempts of k alone.
LEMMA TwinKept ==
    ASSUME NEW m, NEW s, NEW k, NEW tries, NEW now \in Nat, Twin(m, s, k, tries, now), TriesOK(tries, now),
           NEW n, NEW t, n.attempts[k] = m.attempts[k], RowAttempts(t, k) = RowAttempts(s, k),
           \A p \in RowAttempts(s, k) : t.attempts[p] = s.attempts[p],
           NEW later \in Nat, now <= later, NEW more, TriesOK(more, later), Longer(tries, more)
    PROVE  Twin(n, t, k, more, later)
  <1> DEFINE own == m.attempts[k]
  <1>1. Listed(own, tries, now) /\ Tabled(s, k, own)
    BY Zenon DEF Twin
  <1>2. n.attempts[k] = own
    OBVIOUS
  <1> HIDE DEF own
  <1>3. ASSUME NEW i \in DOMAIN own
        PROVE  AttemptOK(own[i], more, later)
    <2>1. AttemptOK(own[i], tries, now)
      BY <1>1, Zenon DEF Listed
    <2> QED
      BY <2>1, AttemptLater
  <1>4. Listed(own, more, later)
    BY <1>1, <1>3, Zenon DEF Listed
  <1>5. \A i \in DOMAIN own : AttemptKey(k, own[i]) \in RowAttempts(s, k)
    BY <1>1, Zenon DEF Tabled
  <1>6. Tabled(t, k, own)
    BY <1>1, <1>5, Zenon DEF Tabled
  <1> QED
    BY <1>2, <1>4, <1>6, Zenon DEF Twin

LEMMA Appended ==
    ASSUME NEW S, NEW own \in Seq(S), NEW b, NEW more, more = Append(own, b)
    PROVE  /\ more \in Seq(S \union {b})
           /\ Len(own) + 1 \in DOMAIN more /\ more[Len(own) + 1] = b
           /\ \A i \in DOMAIN own : i \in DOMAIN more /\ more[i] = own[i]
           /\ \A i \in DOMAIN more : i \in DOMAIN own \/ i = Len(own) + 1
           /\ Len(own) + 1 \notin DOMAIN own
  OBVIOUS

\* The record of a new attempt is added to both.
LEMMA TwinAdded ==
    ASSUME NEW s, NEW k, NEW own, NEW tries, NEW now \in Nat, Listed(own, tries, now), Tabled(s, k, own),
           NEW b, AttemptOK(b, tries, now), \A i \in DOMAIN own : own[i].n # b.n,
           NEW t, t.attempts = Put(s.attempts, AttemptKey(k, b), NewAttempt(s, k, b))
    PROVE  Listed(Append(own, b), tries, now) /\ Tabled(t, k, Append(own, b))
  <1> DEFINE more == Append(own, b)
             pk == AttemptKey(k, b)
             last == Len(own) + 1
  <1>1. PICK S : own \in Seq(S)
    BY Zenon DEF Listed
  <1>2. /\ more \in Seq(S \union {b})
        /\ last \in DOMAIN more /\ more[last] = b
        /\ \A i \in DOMAIN own : i \in DOMAIN more /\ more[i] = own[i]
        /\ \A i \in DOMAIN more : i \in DOMAIN own \/ i = last
        /\ last \notin DOMAIN own
    BY <1>1, Appended
  <1> HIDE DEF more, last
  <1>3. Listed(more, tries, now)
    <2>1. \A i \in DOMAIN more : AttemptOK(more[i], tries, now)
      BY <1>2, Zenon DEF Listed
    <2>2. \A i, j \in DOMAIN more : more[i].n = more[j].n => i = j
      BY <1>2, Zenon DEF Listed
    <2> QED
      BY <1>2, <2>1, <2>2, Zenon DEF Listed
  <1>4. \A i \in DOMAIN own : AttemptKey(k, own[i]) # pk
    BY KeysApart, Zenon
  <1>5. pk \notin DOMAIN s.attempts
    <2>1. pk \notin RowAttempts(s, k)
      BY <1>4, Zenon DEF Tabled
    <2>2. pk[1] = k
      BY KeyParts, Zenon
    <2> HIDE DEF pk
    <2> QED
      BY <2>1, <2>2, Zenon DEF RowAttempts
  <1>6. NewAttempt(s, k, b) = AttemptRow(b)
    BY <1>5, NewAttemptFirst DEF AttemptOK
  <1>7. pk[1] = k
    BY KeyParts, Zenon
  <1>8. /\ DOMAIN t.attempts = DOMAIN s.attempts \union {pk} /\ t.attempts[pk] = AttemptRow(b)
        /\ \A p \in DOMAIN s.attempts \ {pk} : t.attempts[p] = s.attempts[p]
    BY <1>6, Zenon DEF Put
  <1>9. RowAttempts(t, k) = {AttemptKey(k, more[i]) : i \in DOMAIN more}
    <2>1. \A p : p \in RowAttempts(t, k) <=> p \in RowAttempts(s, k) \/ p = pk
      <3> HIDE DEF pk
      <3> QED
        BY <1>7, <1>8, Zenon DEF RowAttempts
    <2>2. \A p : p \in RowAttempts(s, k) <=> \E i \in DOMAIN own : p = AttemptKey(k, own[i])
      BY Zenon DEF Tabled
    <2>3. \A p : (\E i \in DOMAIN more : p = AttemptKey(k, more[i]))
                    <=> (\E i \in DOMAIN own : p = AttemptKey(k, own[i])) \/ p = pk
      BY <1>2, Zenon
    <2> QED
      BY <2>1, <2>2, <2>3, Zenon
  <1>10. ASSUME NEW i \in DOMAIN more
         PROVE  t.attempts[AttemptKey(k, more[i])] = AttemptRow(more[i])
    <2>1. CASE i = last
      BY <1>2, <1>8, <2>1, Zenon
    <2>2. CASE i \in DOMAIN own
      <3>1. /\ AttemptKey(k, own[i]) # pk /\ AttemptKey(k, own[i]) \in RowAttempts(s, k)
            /\ s.attempts[AttemptKey(k, own[i])] = AttemptRow(own[i])
        BY <1>4, <2>2, Zenon DEF Tabled
      <3>2. AttemptKey(k, own[i]) \in DOMAIN s.attempts
        BY <3>1, Zenon DEF RowAttempts
      <3>3. t.attempts[AttemptKey(k, own[i])] = AttemptRow(own[i])
        <4> HIDE DEF pk
        <4> QED
          BY <1>8, <3>1, <3>2, Zenon
      <3> QED
        BY <1>2, <2>2, <3>3, Zenon
    <2> QED
      BY <1>2, <2>1, <2>2
  <1>11. Tabled(t, k, more)
    BY <1>9, <1>10, Zenon DEF Tabled
  <1> QED
    BY <1>3, <1>11 DEF more

LEMMA Replaced ==
    ASSUME NEW S, NEW own \in Seq(S), NEW i \in DOMAIN own, NEW c, NEW new, new = PutAt(own, i, c)
    PROVE  /\ new \in Seq(S \union {c}) /\ DOMAIN new = DOMAIN own /\ new[i] = c
           /\ \A j \in DOMAIN own \ {i} : new[j] = own[j]
  BY DEF PutAt

\* The record of an attempt both have is saved over it.
LEMMA TwinReplaced ==
    ASSUME NEW s, NEW k, NEW own, NEW tries, NEW now \in Nat, Listed(own, tries, now), Tabled(s, k, own),
           NEW b, AttemptOK(b, tries, now), NEW i \in DOMAIN own, own[i].n = b.n,
           NEW t, t.attempts = Put(s.attempts, AttemptKey(k, b), NewAttempt(s, k, b)),
           NEW new, new = PutAt(own, i, Resaved(own[i], b))
    PROVE  Listed(new, tries, now) /\ Tabled(t, k, new)
  <1> DEFINE a == own[i]
             c == Resaved(a, b)
             pk == AttemptKey(k, b)
  <1>1. PICK S : own \in Seq(S)
    BY Zenon DEF Listed
  <1>2. AttemptOK(a, tries, now)
    BY Zenon DEF Listed
  <1>3. /\ a.n = b.n /\ a.startedAt = b.startedAt /\ a.finishedAt \in Instants(now)
        /\ b.finishedAt \in Instants(now) /\ DOMAIN b = AttemptField
    BY <1>2 DEF AttemptOK
  <1>4. /\ DOMAIN c = AttemptField /\ c.n = b.n /\ c.startedAt = b.startedAt
        /\ c.finishedAt = LastNonZero(a.finishedAt, b.finishedAt)
    BY <1>3, ResavedFields
  <1>5. AttemptKey(k, a) = pk
    BY <1>3, KeySame
  <1> HIDE DEF c
  <1>6. AttemptOK(c, tries, now)
    BY <1>3, <1>4 DEF AttemptOK, LastNonZero
  <1>7. AttemptKey(k, c) = pk
    BY <1>4, KeySame
  <1>8. /\ new \in Seq(S \union {c}) /\ DOMAIN new = DOMAIN own /\ new[i] = c
        /\ \A j \in DOMAIN own \ {i} : new[j] = own[j]
    BY <1>1, Replaced DEF c
  <1>9. \A j \in DOMAIN own : new[j].n = own[j].n /\ AttemptKey(k, new[j]) = AttemptKey(k, own[j])
    BY <1>3, <1>4, <1>5, <1>7, <1>8, Zenon
  <1>10. Listed(new, tries, now)
    <2>1. \A j \in DOMAIN new : AttemptOK(new[j], tries, now)
      BY <1>6, <1>8, Zenon DEF Listed
    <2>2. \A j, l \in DOMAIN new : new[j].n = new[l].n => j = l
      BY <1>8, <1>9, Zenon DEF Listed
    <2> QED
      BY <1>8, <2>1, <2>2, Zenon DEF Listed
  <1>11. pk \in RowAttempts(s, k) /\ s.attempts[pk] = AttemptRow(a)
    BY <1>5, Zenon DEF Tabled
  <1>12. pk \in DOMAIN s.attempts
    BY <1>11, Zenon DEF RowAttempts
  <1>13. NewAttempt(s, k, b) = AttemptRow(c)
    BY <1>3, <1>11, <1>12, NewAttemptAgain DEF c
  <1>14. /\ DOMAIN t.attempts = DOMAIN s.attempts /\ t.attempts[pk] = AttemptRow(c)
         /\ \A p \in DOMAIN s.attempts \ {pk} : t.attempts[p] = s.attempts[p]
    BY <1>12, <1>13, Zenon DEF Put
  <1>15. RowAttempts(t, k) = {AttemptKey(k, new[j]) : j \in DOMAIN new}
    <2>1. RowAttempts(t, k) = RowAttempts(s, k)
      BY <1>14, Zenon DEF RowAttempts
    <2>2. \A p : p \in RowAttempts(s, k) => \E j \in DOMAIN new : p = AttemptKey(k, new[j])
      BY <1>8, <1>9, Zenon DEF Tabled
    <2>3. \A j \in DOMAIN new : AttemptKey(k, new[j]) \in RowAttempts(s, k)
      BY <1>8, <1>9, Zenon DEF Tabled
    <2> QED
      BY <2>1, <2>2, <2>3, Zenon
  <1>16. ASSUME NEW j \in DOMAIN own
         PROVE  t.attempts[AttemptKey(k, new[j])] = AttemptRow(new[j])
    <2>1. CASE j = i
      BY <1>7, <1>8, <1>14, <2>1, Zenon
    <2>2. CASE j # i
      <3>1. own[j].n # b.n
        BY <1>3, <2>2, Zenon DEF Listed
      <3>2. AttemptKey(k, own[j]) # pk
        BY <3>1, KeysApart, Zenon
      <3>3. /\ AttemptKey(k, own[j]) \in RowAttempts(s, k)
            /\ s.attempts[AttemptKey(k, own[j])] = AttemptRow(own[j])
        BY Zenon DEF Tabled
      <3>4. AttemptKey(k, own[j]) \in DOMAIN s.attempts
        BY <3>3, Zenon DEF RowAttempts
      <3>5. t.attempts[AttemptKey(k, own[j])] = AttemptRow(own[j])
        <4> HIDE DEF pk
        <4> QED
          BY <1>14, <3>2, <3>3, <3>4, Zenon
      <3> QED
        BY <1>8, <2>2, <3>5, Zenon
    <2> QED
      BY <2>1, <2>2
  <1>17. Tabled(t, k, new)
    BY <1>8, <1>15, <1>16, Zenon DEF Tabled
  <1> QED
    BY <1>10, <1>17

LEMMA TwinSaved ==
    ASSUME NEW m, DOMAIN m = Maps, NEW s, DOMAIN s = Table, NEW k \in DOMAIN m.attempts,
           NEW tries, NEW now \in Nat, Twin(m, s, k, tries, now),
           NEW b, AttemptOK(b, tries, now),
           NEW n, n = M!SaveAttempt(m, k, b), NEW t, t = L!SaveAttempt(s, k, b)
    PROVE  Twin(n, t, k, tries, now)
  <1> DEFINE own == m.attempts[k]
  <1>1. t.attempts = Put(s.attempts, AttemptKey(k, b), NewAttempt(s, k, b))
    BY SaveAttemptKeeps
  <1>2. Listed(own, tries, now) /\ Tabled(s, k, own)
    BY Zenon DEF Twin
  <1>3. CASE \A i \in DOMAIN own : own[i].n # b.n
    <2>1. n.attempts = Put(m.attempts, k, Append(own, b))
      BY <1>3, FirstSaved
    <2>2. n.attempts[k] = Append(own, b)
      BY <2>1, Zenon DEF Put
    <2> HIDE DEF own
    <2>3. Listed(Append(own, b), tries, now) /\ Tabled(t, k, Append(own, b))
      BY <1>1, <1>2, <1>3, TwinAdded
    <2> QED
      BY <2>2, <2>3, Zenon DEF Twin
  <1>4. ASSUME NEW i \in DOMAIN own, own[i].n = b.n
        PROVE  Twin(n, t, k, tries, now)
    <2> DEFINE new == PutAt(own, i, Resaved(own[i], b))
    <2>1. own[i].startedAt = b.startedAt
      <3>1. AttemptOK(own[i], tries, now)
        BY <1>2, <1>4, Zenon DEF Listed
      <3> QED
        BY <1>4, <3>1 DEF AttemptOK
    <2>2. {j \in DOMAIN own : own[j].n = b.n /\ own[j].startedAt = b.startedAt} = {i}
      BY <1>2, <1>4, <2>1, Zenon DEF Listed
    <2>3. i \in Int
      <3>1. PICK S : own \in Seq(S)
        BY <1>2, Zenon DEF Listed
      <3> HIDE DEF own
      <3> QED
        BY <1>4, <3>1
    <2>7. m.attempts[k] = own
      OBVIOUS
    <2> HIDE DEF own
    <2>4. n.attempts = Put(m.attempts, k, new)
      BY <2>2, <2>3, <2>7, SavedAgain
    <2> HIDE DEF new
    <2>5. n.attempts[k] = new
      BY <2>4, Zenon DEF Put
    <2>6. Listed(new, tries, now) /\ Tabled(t, k, new)
      BY <1>1, <1>2, <1>4, TwinReplaced DEF new
    <2> QED
      BY <2>5, <2>6, Zenon DEF Twin
  <1> QED
    BY <1>3, <1>4, Zenon

LEMMA NoTwins ==
    ASSUME NEW m, NEW s, NEW k, m.attempts[k] = NoAttempts, RowAttempts(s, k) = {}, NEW tries, NEW now
    PROVE  Twin(m, s, k, tries, now)
  <1>1. NoAttempts \in Seq({}) /\ DOMAIN NoAttempts = {}
    BY DEF NoAttempts
  <1> QED
    BY <1>1, Zenon DEF Twin, Listed, Tabled

LEMMA TwinPruned ==
    ASSUME NEW m, NEW s, DOMAIN s = Table, NEW k, NEW tries, NEW now \in Nat,
           Twin(m, s, k, tries, now), TriesOK(tries, now), NEW n, NEW t, NEW gone,
           t.attempts = Delete(s.attempts, AttemptsOf(s, gone)),
           n.attempts[k] = IF k \in gone THEN NoAttempts ELSE m.attempts[k]
    PROVE  Twin(n, t, k, tries, now)
  <1>1. CASE k \in gone
    <2>1. RowAttempts(t, k) = {}
      BY <1>1, RowsDeleted, Zenon DEF HasRows
    <2> QED
      BY <1>1, <2>1, NoTwins
  <1>2. CASE k \notin gone
    <2>1. /\ DOMAIN t.attempts = DOMAIN s.attempts \ AttemptsOf(s, gone)
          /\ \A p \in DOMAIN t.attempts : t.attempts[p] = s.attempts[p]
      BY Zenon DEF Delete
    <2>2. \A p \in RowAttempts(s, k) : p \notin AttemptsOf(s, gone)
      BY <1>2, Zenon DEF RowAttempts, AttemptsOf
    <2>3. /\ RowAttempts(t, k) = RowAttempts(s, k)
          /\ \A p \in RowAttempts(s, k) : t.attempts[p] = s.attempts[p]
      BY <2>1, <2>2, Zenon DEF RowAttempts
    <2>4. n.attempts[k] = m.attempts[k]
      BY <1>2, Zenon
    <2>5. now <= now /\ Longer(tries, tries)
      BY TriesLater
    <2> QED
      BY <2>3, <2>4, <2>5, TwinKept, Zenon
  <1> QED
    BY <1>1, <1>2

----------------------------------------------------------------------------
(* A database and the memory store hold the same of a job. *)

\* Database s has the row of k that m has, or neither has one.
Mirror(m, s, k) ==
    /\ k \in DOMAIN s.jobs <=> k \in DOMAIN m.jobs
    /\ k \in DOMAIN m.jobs => SameColumns(s.jobs[k], m.jobs[k])

\* In the middle of a Postgres prune, the rows memory has deleted are the ones the
\* second statement will delete.
HalfPruned(m, s, k, p) ==
    /\ k \in DOMAIN m.jobs => /\ k \in DOMAIN s.jobs /\ ~Doomed(s, p, k)
                              /\ SameColumns(s.jobs[k], m.jobs[k])
    /\ k \in DOMAIN s.jobs /\ k \notin DOMAIN m.jobs => Doomed(s, p, k)

Untied(k) == "tied" \notin past[k]
Unraced(k) == past[k] \intersect {"tied", "raced"} = {}

AgreeLite(k) == Mirror(mem, lite, k) /\ Twin(mem, lite, k, when[k].tries, clock)
AgreePg(k) ==
    /\ Twin(mem, pg, k, when[k].tries, clock)
    /\ pruning = {} => Mirror(mem, pg, k)
    /\ \A p \in pruning : HalfPruned(mem, pg, k, p)

AgreeInv == \A k \in Keys : (Untied(k) => AgreeLite(k)) /\ (Unraced(k) => AgreePg(k))

\* A step that leaves the row and the attempts of k alone.
LEMMA MirrorKept ==
    ASSUME NEW m, NEW s, NEW n, NEW t, NEW k,
           k \in DOMAIN n.jobs <=> k \in DOMAIN m.jobs, k \in DOMAIN t.jobs <=> k \in DOMAIN s.jobs,
           k \in DOMAIN m.jobs => n.jobs[k] = m.jobs[k], k \in DOMAIN s.jobs => t.jobs[k] = s.jobs[k]
    PROVE  /\ Mirror(m, s, k) => Mirror(n, t, k)
           /\ \A p : HalfPruned(m, s, k, p) => HalfPruned(n, t, k, p)
  BY Zenon DEF Mirror, HalfPruned, Doomed

LEMMA InterruptSame ==
    ASSUME NEW row, RowOK(row), NEW job, DOMAIN job = Field, SameColumns(row, job)
    PROVE  SameColumns(L!Interrupt(row), Interrupted(job))
  <1> DEFINE r == L!Interrupt(row)
             j == Interrupted(job)
  <1>1. /\ r.state = "interrupted" /\ \A c \in Field \ {"state"} : r[c] = row[c]
        /\ j.state = "interrupted" /\ \A c \in Field \ {"state"} : j[c] = job[c]
    BY DEF L!Interrupt, Interrupted, RowOK, Column, Field
  <1> HIDE DEF r, j
  <1>2. \A c \in TimeFields : c \in Field \ {"state"}
    BY DEF TimeFields, Field
  <1>3. \A c \in TimeFields : r[c] = L!Unix(j[c])
    BY <1>1, <1>2, Zenon DEF SameColumns
  <1>4. \A c \in Field \ TimeFields : r[c] = j[c]
    BY <1>1, Zenon DEF SameColumns
  <1> QED
    BY <1>3, <1>4, Zenon DEF SameColumns, r, j

LEMMA MirrorColumns ==
    ASSUME NEW row, NEW job, SameColumns(row, job)
    PROVE  /\ row.state = job.state /\ row.epoch = job.epoch
           /\ row.enqueuedAt = L!Unix(job.enqueuedAt) /\ row.finishedAt = L!Unix(job.finishedAt)
  BY DEF SameColumns, Field, TimeFields

\* A record is stored in both.
LEMMA MirrorStored ==
    ASSUME TimesOK, MemOK, NEW s, DB(s), NEW k \in Keys, Mirror(mem, s, k), NEW in, Offered(k, in),
           k \in DOMAIN mem.jobs => ~Near(mem.jobs[k].pgAt, in.pgAt),
           NEW n, n = M!UpsertJob(mem, k, in), NEW t, t = L!UpsertJob(s, k, in)
    PROVE  Mirror(n, t, k)
  <1>1. /\ DOMAIN t.jobs = DOMAIN s.jobs \union {k}
        /\ t.jobs[k] = IF k \in DOMAIN s.jobs THEN L!OnConflict(s.jobs[k], L!Values(in))
                       ELSE L!Values(in)
    BY UpsertTables DEF DB
  <1>2. n.jobs = Upsert(mem.jobs, k, in)
    BY MemoryUpsert DEF MemOK
  <1>3. /\ k \in DOMAIN n.jobs
        /\ n.jobs[k] = IF k \in DOMAIN mem.jobs THEN Merge(mem.jobs[k], in) ELSE in
    BY <1>2, Zenon DEF Upsert
  <1>4. SameColumns(t.jobs[k], n.jobs[k])
    <2>1. CASE k \in DOMAIN mem.jobs
      <3>1. /\ k \in DOMAIN s.jobs /\ SameColumns(s.jobs[k], mem.jobs[k])
            /\ RowOK(s.jobs[k]) /\ JobOK(k, mem.jobs[k], clock, when[k].finished)
        BY <2>1, Zenon DEF Mirror, DB, MemOK
      <3>2. SameColumns(L!OnConflict(s.jobs[k], L!Values(in)), Merge(mem.jobs[k], in))
        BY <2>1, <3>1, ConflictSame
      <3> QED
        BY <1>1, <1>3, <2>1, <3>1, <3>2, Zenon
    <2>2. CASE k \notin DOMAIN mem.jobs
      <3>1. k \notin DOMAIN s.jobs
        BY <2>2, Zenon DEF Mirror
      <3>2. SameColumns(L!Values(in), in)
        BY ValuesSame DEF Offered, JobOK
      <3> QED
        BY <1>1, <1>3, <2>2, <3>1, <3>2, Zenon
    <2> QED
      BY <2>1, <2>2
  <1>5. k \in DOMAIN t.jobs
    BY <1>1
  <1> QED
    BY <1>3, <1>4, <1>5, Zenon DEF Mirror

\* Both reconcile.
LEMMA MirrorReconciled ==
    ASSUME TimesOK, MemOK, NEW s, DB(s), Lockstep(s), NEW k \in Keys, Mirror(mem, s, k), NEW e,
           k \in DOMAIN mem.jobs /\ mem.jobs[k].epoch # e /\ ~Terminal(mem.jobs[k].state)
               /\ mem.jobs[k].epoch \in DOMAIN mem.epochs
             => ~Near(mem.epochs[mem.jobs[k].epoch], clock - StaleAfter),
           NEW n, n = M!ReconcileEpoch(mem, e, StaleAfter, clock),
           NEW t, t = L!ReconcileEpoch(s, e, StaleAfter, clock)
    PROVE  Mirror(n, t, k)
  <1>1. DOMAIN n.jobs = DOMAIN mem.jobs
    BY MemoryReconcile DEF MemOK
  <1>2. DOMAIN t.jobs = DOMAIN s.jobs
    BY ReconcileTables DEF DB
  <1>3. CASE k \notin DOMAIN mem.jobs
    BY <1>1, <1>2, <1>3, Zenon DEF Mirror
  <1>4. CASE k \in DOMAIN mem.jobs
    <2> DEFINE row == s.jobs[k]
               job == mem.jobs[k]
               cutoff == clock - StaleAfter
               orphan == /\ row.epoch # e /\ row.rank < 3
                         /\ row.epoch \notin L!BeatingEpochs(s, L!Unix(cutoff))
    <2>1. /\ k \in DOMAIN s.jobs /\ SameColumns(row, job) /\ RowOK(row)
          /\ JobOK(k, job, clock, when[k].finished)
      BY <1>4, Zenon DEF Mirror, DB, MemOK
    <2>2. n.jobs[k] = IF Orphan(mem, e, cutoff, job) THEN Interrupted(job) ELSE job
      BY <1>4, MemoryReconcile DEF MemOK
    <2>3. t.jobs[k] = IF orphan THEN L!Interrupt(row) ELSE row
      BY <2>1, ReconcileTables DEF DB
    <2>4. row.state = job.state /\ row.epoch = job.epoch
      BY <2>1, MirrorColumns
    <2>5. Orphan(mem, e, cutoff, job) => job.epoch # e /\ ~Terminal(job.state)
      BY Zenon DEF Orphan
    <2>6. SameColumns(L!Interrupt(row), Interrupted(job))
      BY <2>1, InterruptSame DEF JobOK
    <2> HIDE DEF row, job
    <2>7. /\ orphan => Orphan(mem, e, cutoff, job)
          /\ /\ Orphan(mem, e, cutoff, job)
             /\ ~(job.epoch \in DOMAIN mem.epochs /\ Near(mem.epochs[job.epoch], cutoff))
             => orphan
      BY <2>1, <2>4, OrphanSame
    <2> HIDE DEF orphan
    <2>8. orphan <=> Orphan(mem, e, cutoff, job)
      BY <1>4, <2>5, <2>7, Zenon DEF job
    <2>9. SameColumns(t.jobs[k], n.jobs[k])
      BY <2>1, <2>2, <2>3, <2>6, <2>8, Zenon
    <2> QED
      BY <1>1, <1>2, <1>4, <2>1, <2>9, Zenon DEF Mirror
  <1> QED
    BY <1>3, <1>4

\* Retention deletes the same rows from both: at once on SQLite, and on Postgres in
\* the second statement.
LEMMA MirrorPruned ==
    ASSUME TimesOK, MemOK, NEW s, DB(s), NEW k \in Keys, Mirror(mem, s, k), NEW before \in Int, NEW states,
           k \in DOMAIN mem.jobs => ~Near(LastActive(mem.jobs[k]), before)
    PROVE  k \in L!Expired(s, L!Unix(before), states) <=> k \in Prunable(mem.jobs, before, states)
  <1>1. CASE k \notin DOMAIN mem.jobs
    <2>1. k \notin DOMAIN s.jobs
      BY <1>1, Zenon DEF Mirror
    <2> QED
      BY <1>1, <2>1, Zenon DEF Prunable, L!Expired
  <1>2. CASE k \in DOMAIN mem.jobs
    <2> DEFINE row == s.jobs[k]
               job == mem.jobs[k]
    <2>1. /\ k \in DOMAIN s.jobs /\ SameColumns(row, job) /\ RowOK(row)
          /\ JobOK(k, job, clock, when[k].finished) /\ clock \in Nat
      BY <1>2, ClockPositive, Zenon DEF Mirror, DB, MemOK
    <2>2. /\ row.state = job.state
          /\ row.enqueuedAt = L!Unix(job.enqueuedAt) /\ row.finishedAt = L!Unix(job.finishedAt)
      BY <2>1, MirrorColumns
    <2>3. k \in L!Expired(s, L!Unix(before), states) <=> ExpiredRow(row, L!Unix(before), states)
      BY <2>1, ExpiredRows, Zenon
    <2>4. /\ ExpiredRow(row, L!Unix(before), states) => k \in Prunable(mem.jobs, before, states)
          /\ k \in Prunable(mem.jobs, before, states) /\ ~Near(LastActive(job), before)
               => ExpiredRow(row, L!Unix(before), states)
      BY <1>2, <2>1, <2>2, ExpiredSame, Zenon
    <2> QED
      BY <1>2, <2>3, <2>4, Zenon
  <1> QED
    BY <1>1, <1>2

\* What the notes of a step tell about a job that stays untied and unraced.
LEMMA NotesAvoided ==
    ASSUME PastOK, NEW touched, NEW tied, NEW adrift, NEW named, NEW cut,
           Note(touched, tied, adrift, named, cut), NEW k \in Keys
    PROVE  /\ Untied(k)' => Untied(k) /\ k \notin tied
           /\ Unraced(k)' => Unraced(k) /\ k \notin tied /\ (pruning # {} => k \notin touched)
  <1>1. /\ past[k] \subseteq past'[k]
        /\ k \in tied => "tied" \in past'[k]
        /\ k \in touched /\ pruning # {} => "raced" \in past'[k]
    BY NoteKeeps, Zenon
  <1> QED
    BY <1>1, Zenon DEF Untied, Unraced

\* A step that changes no row and no attempt of k.
LEMMA AgreeKept ==
    ASSUME TimesOK, TimesOK', clock <= clock', NEW k \in Keys,
           Longer(when[k].tries, when'[k].tries),
           UNCHANGED pruning,
           k \in DOMAIN mem'.jobs <=> k \in DOMAIN mem.jobs,
           k \in DOMAIN mem.jobs => mem'.jobs[k] = mem.jobs[k],
           mem'.attempts[k] = mem.attempts[k]
    PROVE  /\ /\ AgreeLite(k)
              /\ k \in DOMAIN lite'.jobs <=> k \in DOMAIN lite.jobs
              /\ k \in DOMAIN lite.jobs => lite'.jobs[k] = lite.jobs[k]
              /\ RowAttempts(lite', k) = RowAttempts(lite, k)
              /\ \A p \in RowAttempts(lite, k) : lite'.attempts[p] = lite.attempts[p]
              => AgreeLite(k)'
           /\ /\ AgreePg(k)
              /\ k \in DOMAIN pg'.jobs <=> k \in DOMAIN pg.jobs
              /\ k \in DOMAIN pg.jobs => pg'.jobs[k] = pg.jobs[k]
              /\ RowAttempts(pg', k) = RowAttempts(pg, k)
              /\ \A p \in RowAttempts(pg, k) : pg'.attempts[p] = pg.attempts[p]
              => AgreePg(k)'
  <1>1. clock \in Nat /\ clock' \in Nat
    BY ClockPositive, Constants DEF TimesOK
  <1>0. TriesOK(when[k].tries, clock) /\ TriesOK(when'[k].tries, clock')
    BY Zenon DEF TimesOK
  <1>2. ASSUME NEW s, NEW t, Twin(mem, s, k, when[k].tries, clock),
               RowAttempts(t, k) = RowAttempts(s, k),
               \A p \in RowAttempts(s, k) : t.attempts[p] = s.attempts[p]
        PROVE  Twin(mem', t, k, when'[k].tries, clock')
    BY <1>0, <1>1, <1>2, TwinKept, Zenon
  <1>3. ASSUME NEW s, NEW t, k \in DOMAIN t.jobs <=> k \in DOMAIN s.jobs,
               k \in DOMAIN s.jobs => t.jobs[k] = s.jobs[k]
        PROVE  /\ Mirror(mem, s, k) => Mirror(mem', t, k)
               /\ \A p : HalfPruned(mem, s, k, p) => HalfPruned(mem', t, k, p)
    BY <1>3, MirrorKept, Zenon
  <1> QED
    BY <1>2, <1>3, Zenon DEF AgreeLite, AgreePg

LEMMA AgreeStep ==
    ASSUME StoresInv, Lockstep(lite), Lockstep(pg), AgreeInv, [Next]_vars
    PROVE  AgreeInv'
  <1> DEFINE Goal(k) == (Untied(k)' => AgreeLite(k)') /\ (Unraced(k)' => AgreePg(k)')
  <1>0. /\ TimesOK /\ LateOK /\ PastOK /\ MemOK /\ DB(lite) /\ DB(pg)
        /\ DOMAIN mem = Maps /\ DOMAIN lite = Table /\ DOMAIN pg = Table /\ DOMAIN mem.attempts = Keys
        /\ TimesOK' /\ clock <= clock' /\ clock \in Nat
        /\ \A k \in Keys : /\ Longer(when[k].tries, when'[k].tries)
                           /\ TriesOK(when[k].tries, clock) /\ TriesOK(when'[k].tries, clock')
    <2>1. TimesOK /\ LateOK /\ TimesOK' /\ clock <= clock' /\ Lives /\ clock \in Nat
      BY TimesStep, ClockPositive DEF StoresInv
    <2>2. \A k \in Keys : /\ Longer(when[k].tries, when'[k].tries)
                          /\ TriesOK(when[k].tries, clock) /\ TriesOK(when'[k].tries, clock')
      BY <2>1, Zenon DEF Lives, TimesOK
    <2> QED
      BY <2>1, <2>2, Zenon DEF StoresInv, MemOK, DB
  <1>1. ASSUME NEW k \in Keys
        PROVE  /\ (Untied(k) => AgreeLite(k)) /\ (Unraced(k) => AgreePg(k))
               /\ (Untied(k)' => Untied(k)) /\ (Unraced(k)' => Unraced(k))
    <2>1. past[k] \subseteq past'[k]
      BY <1>0, NotesGrow
    <2> QED
      BY <2>1, Zenon DEF AgreeInv, Untied, Unraced
  <1>2. ASSUME \A k \in Keys : Goal(k)
        PROVE  AgreeInv'
    BY <1>2 DEF AgreeInv
  <1>3. ASSUME UNCHANGED pruning, NEW k \in Keys,
               k \in DOMAIN mem'.jobs <=> k \in DOMAIN mem.jobs,
               k \in DOMAIN mem.jobs => mem'.jobs[k] = mem.jobs[k],
               mem'.attempts[k] = mem.attempts[k],
               k \in DOMAIN lite'.jobs <=> k \in DOMAIN lite.jobs,
               k \in DOMAIN lite.jobs => lite'.jobs[k] = lite.jobs[k],
               RowAttempts(lite', k) = RowAttempts(lite, k),
               \A p \in RowAttempts(lite, k) : lite'.attempts[p] = lite.attempts[p],
               k \in DOMAIN pg'.jobs <=> k \in DOMAIN pg.jobs,
               k \in DOMAIN pg.jobs => pg'.jobs[k] = pg.jobs[k],
               RowAttempts(pg', k) = RowAttempts(pg, k),
               \A p \in RowAttempts(pg, k) : pg'.attempts[p] = pg.attempts[p]
        PROVE  Goal(k)
    <2>1. (AgreeLite(k) => AgreeLite(k)') /\ (AgreePg(k) => AgreePg(k)')
      BY <1>0, <1>3, AgreeKept, Zenon
    <2> QED
      BY <1>1, <2>1, Zenon
  <1>4. ASSUME UNCHANGED pruning, mem'.jobs = mem.jobs, lite'.jobs = lite.jobs, pg'.jobs = pg.jobs,
               mem'.attempts = mem.attempts, lite'.attempts = lite.attempts,
               pg'.attempts = pg.attempts
        PROVE  AgreeInv'
    <2> SUFFICES ASSUME NEW k \in Keys PROVE Goal(k)
      BY <1>2
    <2>1. RowAttempts(lite', k) = RowAttempts(lite, k) /\ RowAttempts(pg', k) = RowAttempts(pg, k)
      BY <1>4, Zenon DEF RowAttempts
    <2> QED
      BY <1>3, <1>4, <2>1, Zenon
  <1>5. Kept => AgreeInv'
    BY <1>4, Zenon DEF Kept
  <1>6. ASSUME NEW e \in Epochs, Heartbeat(e)
        PROVE  AgreeInv'
    <2>1. PICK t : /\ mem' = M!Heartbeat(mem, e, t) /\ lite' = L!Heartbeat(lite, e, t)
                   /\ pg' = P!Heartbeat(pg, e, t) /\ pruning' = pruning
      BY <1>6, Zenon DEF Heartbeat
    <2>2. pg' = L!Heartbeat(pg, e, t)
      BY <2>1, PostgresWrites
    <2>3. mem'.attempts = mem.attempts /\ mem'.jobs = mem.jobs
      BY <1>0, <2>1, MemoryHeartbeat
    <2>4. /\ lite'.attempts = lite.attempts /\ lite'.jobs = lite.jobs
          /\ pg'.attempts = pg.attempts /\ pg'.jobs = pg.jobs
      BY <1>0, <2>1, <2>2, HeartbeatTables
    <2> QED
      BY <1>4, <2>1, <2>3, <2>4, Zenon
  <1>7. ASSUME NEW k \in Keys, NEW in, Offered(k, in), Store(k, in)
        PROVE  AgreeInv'
    <2> DEFINE tied == {j \in {k} \intersect DOMAIN mem.jobs : Near(mem.jobs[j].pgAt, in.pgAt)}
    <2>1. /\ mem' = M!UpsertJob(mem, k, in)
          /\ lite' = L!UpsertJob(lite, k, in) /\ pg' = L!UpsertJob(pg, k, in)
          /\ pruning' = pruning /\ clock' = clock
          /\ \E named : Note({k}, tied, {}, named, {})
      BY <1>7, PostgresUpsert, Zenon DEF Store
    <2>2. k \in DOMAIN mem.jobs /\ Near(mem.jobs[k].pgAt, in.pgAt) => k \in tied
      BY Zenon
    <2> HIDE DEF tied
    <2>3. /\ Untied(k)' => Untied(k) /\ k \notin tied
          /\ Unraced(k)' => Unraced(k) /\ k \notin tied /\ pruning = {}
      <3>1. PICK named : Note({k}, tied, {}, named, {})
        BY <2>1
      <3>2. k \in {k}
        OBVIOUS
      <3> QED
        BY <1>0, <3>1, <3>2, NotesAvoided, Zenon
    <2>4. mem'.attempts = mem.attempts /\ mem'.jobs = Upsert(mem.jobs, k, in)
      BY <1>0, <2>1, MemoryUpsert
    <2>5. /\ DOMAIN mem'.jobs = DOMAIN mem.jobs \union {k}
          /\ \A j \in DOMAIN mem.jobs \ {k} : mem'.jobs[j] = mem.jobs[j]
      BY <2>4, Zenon DEF Upsert
    <2>6. /\ lite'.attempts = lite.attempts /\ DOMAIN lite'.jobs = DOMAIN lite.jobs \union {k}
          /\ \A j \in DOMAIN lite.jobs \ {k} : lite'.jobs[j] = lite.jobs[j]
          /\ pg'.attempts = pg.attempts /\ DOMAIN pg'.jobs = DOMAIN pg.jobs \union {k}
          /\ \A j \in DOMAIN pg.jobs \ {k} : pg'.jobs[j] = pg.jobs[j]
      BY <1>0, <2>1, UpsertTables
    <2>7. \A j \in Keys : /\ RowAttempts(lite', j) = RowAttempts(lite, j)
                          /\ RowAttempts(pg', j) = RowAttempts(pg, j)
      BY <2>6, Zenon DEF RowAttempts
    <2>8. ASSUME NEW j \in Keys, j # k
          PROVE  Goal(j)
      <3>1. /\ j \in DOMAIN mem'.jobs <=> j \in DOMAIN mem.jobs
            /\ j \in DOMAIN lite'.jobs <=> j \in DOMAIN lite.jobs
            /\ j \in DOMAIN pg'.jobs <=> j \in DOMAIN pg.jobs
            /\ j \in DOMAIN mem.jobs => mem'.jobs[j] = mem.jobs[j]
            /\ j \in DOMAIN lite.jobs => lite'.jobs[j] = lite.jobs[j]
            /\ j \in DOMAIN pg.jobs => pg'.jobs[j] = pg.jobs[j]
        BY <2>5, <2>6, <2>8, Zenon
      <3> QED
        BY <1>3, <2>1, <2>4, <2>6, <2>7, <3>1, Zenon
    <2>9. ASSUME NEW s, NEW t, DB(s), t = L!UpsertJob(s, k, in), Mirror(mem, s, k), k \notin tied
          PROVE  Mirror(mem', t, k)
      BY <1>0, <1>7, <2>1, <2>2, <2>9, MirrorStored
    <2>10. ASSUME NEW s, NEW t, Twin(mem, s, k, when[k].tries, clock), t.attempts = s.attempts
           PROVE  Twin(mem', t, k, when'[k].tries, clock')
      <3>1. RowAttempts(t, k) = RowAttempts(s, k)
        BY <2>10, Zenon DEF RowAttempts
      <3>2. clock' \in Nat
        BY <1>0, <2>1
      <3> QED
        BY <1>0, <2>4, <2>10, <3>1, <3>2, TwinKept, Zenon
    <2>11. Untied(k)' => AgreeLite(k)'
      BY <1>0, <1>1, <2>1, <2>3, <2>6, <2>9, <2>10, Zenon DEF AgreeLite
    <2>12. Unraced(k)' => AgreePg(k)'
      BY <1>0, <1>1, <2>1, <2>3, <2>6, <2>9, <2>10, Zenon DEF AgreePg
    <2> QED
      BY <1>2, <2>8, <2>11, <2>12, Zenon
  <1>8. ASSUME NEW k \in Keys, SaveAttempts(k)
        PROVE  AgreeInv'
    <2>1. PICK b : /\ AttemptOK(b, when[k].tries, clock)
                   /\ mem' = M!SaveAttempt(mem, k, b)
                   /\ lite' = L!SaveAttempt(lite, k, b)
                   /\ pg' = L!SaveAttempt(pg, k, b)
      BY <1>8, SaveAttemptsStep, Zenon
    <2>2. UNCHANGED <<clock, when, pruning>>
      BY <1>8, Zenon DEF SaveAttempts
    <2>3. mem'.jobs = mem.jobs /\ \E own : mem'.attempts = Put(mem.attempts, k, own)
      BY <1>0, <2>1, MemorySaveAttempt
    <2> DEFINE pk == AttemptKey(k, b)
    <2>4. /\ lite'.jobs = lite.jobs /\ pg'.jobs = pg.jobs
          /\ lite'.attempts = Put(lite.attempts, pk, NewAttempt(lite, k, b))
          /\ pg'.attempts = Put(pg.attempts, pk, NewAttempt(pg, k, b))
      BY <1>0, <2>1, SaveAttemptKeeps
    <2>5. pk[1] = k
      BY KeyParts
    <2> HIDE DEF pk
    <2>6. ASSUME NEW j \in Keys, j # k
          PROVE  Goal(j)
      <3>1. mem'.attempts[j] = mem.attempts[j]
        BY <1>0, <2>3, <2>6, Zenon DEF Put
      <3>2. pk[1] # j
        BY <2>5, <2>6
      <3>3. /\ RowAttempts(lite', j) = RowAttempts(lite, j)
            /\ \A p \in RowAttempts(lite, j) : lite'.attempts[p] = lite.attempts[p]
        <4>1. /\ DOMAIN lite'.attempts = DOMAIN lite.attempts \union {pk}
              /\ \A p \in DOMAIN lite.attempts \ {pk} : lite'.attempts[p] = lite.attempts[p]
          BY <2>4, Zenon DEF Put
        <4> QED
          BY <3>2, <4>1, Zenon DEF RowAttempts
      <3>4. /\ RowAttempts(pg', j) = RowAttempts(pg, j)
            /\ \A p \in RowAttempts(pg, j) : pg'.attempts[p] = pg.attempts[p]
        <4>1. /\ DOMAIN pg'.attempts = DOMAIN pg.attempts \union {pk}
              /\ \A p \in DOMAIN pg.attempts \ {pk} : pg'.attempts[p] = pg.attempts[p]
          BY <2>4, Zenon DEF Put
        <4> QED
          BY <3>2, <4>1, Zenon DEF RowAttempts
      <3> QED
        BY <1>3, <2>2, <2>3, <2>4, <3>1, <3>3, <3>4, Zenon
    <2>7. ASSUME NEW s, NEW t, DOMAIN s = Table, t = L!SaveAttempt(s, k, b),
                 Twin(mem, s, k, when[k].tries, clock)
          PROVE  Twin(mem', t, k, when[k].tries, clock)
      BY <1>0, <2>1, <2>7, TwinSaved
    <2>8. AgreeLite(k) => AgreeLite(k)'
      <3>1. Mirror(mem, lite, k) => Mirror(mem', lite', k)
        BY <2>3, <2>4, Zenon DEF Mirror
      <3> QED
        BY <1>0, <2>1, <2>2, <2>7, <3>1, Zenon DEF AgreeLite
    <2>9. AgreePg(k) => AgreePg(k)'
      <3>1. /\ Mirror(mem, pg, k) => Mirror(mem', pg', k)
            /\ \A p : HalfPruned(mem, pg, k, p) => HalfPruned(mem', pg', k, p)
        BY <2>3, <2>4, Zenon DEF Mirror, HalfPruned, Doomed
      <3> QED
        BY <1>0, <2>1, <2>2, <2>7, <3>1, Zenon DEF AgreePg
    <2> QED
      BY <1>1, <1>2, <2>6, <2>8, <2>9, Zenon
  <1>9. ASSUME NEW e \in Epochs, ReconcileEpoch(e)
        PROVE  AgreeInv'
    <2> DEFINE unfinished(s) == {k \in DOMAIN s.jobs : s.jobs[k].epoch # e /\ ~Terminal(s.jobs[k].state)}
               tied == {k \in unfinished(mem) : /\ mem.jobs[k].epoch \in DOMAIN mem.epochs
                                    /\ Near(mem.epochs[mem.jobs[k].epoch], clock - StaleAfter)}
               touched == unfinished(mem) \union unfinished(pg)
    <2>1. /\ mem' = M!ReconcileEpoch(mem, e, StaleAfter, clock)
          /\ lite' = L!ReconcileEpoch(lite, e, StaleAfter, clock)
          /\ pg' = P!ReconcileEpoch(pg, e, StaleAfter, clock)
          /\ Note(touched, tied, {}, {}, {})
          /\ UNCHANGED <<clock, when, pruning>>
      BY <1>9, Zenon DEF ReconcileEpoch, Round
    <2>2. pg' = L!ReconcileEpoch(pg, e, StaleAfter, clock)
      BY <2>1, PostgresWrites
    <2> SUFFICES ASSUME NEW k \in Keys PROVE Goal(k)
      BY <1>2
    <2>3. k \in DOMAIN mem.jobs /\ mem.jobs[k].epoch # e /\ ~Terminal(mem.jobs[k].state)
               /\ mem.jobs[k].epoch \in DOMAIN mem.epochs /\ k \notin tied
             => ~Near(mem.epochs[mem.jobs[k].epoch], clock - StaleAfter)
      BY Zenon
    <2>4. /\ DOMAIN mem'.jobs = DOMAIN mem.jobs
          /\ k \in DOMAIN mem.jobs /\ k \notin touched => mem'.jobs[k] = mem.jobs[k]
      <3>1. /\ DOMAIN mem'.jobs = DOMAIN mem.jobs
            /\ k \in DOMAIN mem.jobs => mem'.jobs[k] =
                    IF Orphan(mem, e, clock - StaleAfter, mem.jobs[k])
                    THEN Interrupted(mem.jobs[k]) ELSE mem.jobs[k]
        BY <1>0, <2>1, MemoryReconcile
      <3>2. k \in DOMAIN mem.jobs /\ k \notin touched => ~Orphan(mem, e, clock - StaleAfter, mem.jobs[k])
        BY Zenon DEF Orphan
      <3> QED
        BY <3>1, <3>2, Zenon
    <2>5. /\ DOMAIN pg'.jobs = DOMAIN pg.jobs
          /\ k \in DOMAIN pg.jobs /\ k \notin touched => pg'.jobs[k] = pg.jobs[k]
      <3>1. /\ DOMAIN pg'.jobs = DOMAIN pg.jobs
            /\ k \in DOMAIN pg.jobs =>
                pg'.jobs[k] = pg.jobs[k] \/ (pg.jobs[k].epoch # e /\ pg.jobs[k].rank < 3)
        BY <1>0, <2>2, ReconcileTables
      <3>2. ASSUME k \in DOMAIN pg.jobs, pg.jobs[k].epoch # e, pg.jobs[k].rank < 3
            PROVE  k \in unfinished(pg)
        <4>1. RowOK(pg.jobs[k])
          BY <1>0, <3>2 DEF DB
        <4>2. ~Terminal(pg.jobs[k].state)
          BY <3>2, <4>1, Ranks DEF RowOK, Terminal
        <4> QED
          BY <3>2, <4>2
      <3> QED
        BY <3>1, <3>2, Zenon
    <2>6. mem'.attempts = mem.attempts
      BY <1>0, <2>1, MemoryReconcile
    <2>7. lite'.attempts = lite.attempts /\ pg'.attempts = pg.attempts
      BY <1>0, <2>1, <2>2, ReconcileTables
    <2> HIDE DEF tied, touched
    <2>8. /\ Untied(k)' => Untied(k) /\ k \notin tied
          /\ Unraced(k)' => Unraced(k) /\ k \notin tied /\ (pruning # {} => k \notin touched)
      BY <1>0, <2>1, NotesAvoided, Zenon
    <2>9. ASSUME NEW s, NEW t, DB(s), Lockstep(s), t = L!ReconcileEpoch(s, e, StaleAfter, clock),
                 Mirror(mem, s, k), k \notin tied
          PROVE  Mirror(mem', t, k)
      BY <1>0, <2>1, <2>3, <2>9, MirrorReconciled
    <2>10. ASSUME NEW s, NEW t, Twin(mem, s, k, when[k].tries, clock), t.attempts = s.attempts
           PROVE  Twin(mem', t, k, when'[k].tries, clock')
      <3>1. RowAttempts(t, k) = RowAttempts(s, k)
        BY <2>10, Zenon DEF RowAttempts
      <3>2. clock' \in Nat
        BY <1>0, <2>1
      <3> QED
        BY <1>0, <2>6, <2>10, <3>1, <3>2, TwinKept, Zenon
    <2>11. Untied(k)' => AgreeLite(k)'
      BY <1>0, <1>1, <2>1, <2>7, <2>8, <2>9, <2>10, Zenon DEF AgreeLite
    <2>12. ASSUME Unraced(k)', pruning # {}
           PROVE  \A p : HalfPruned(mem, pg, k, p) => HalfPruned(mem', pg', k, p)
      BY <2>4, <2>5, <2>8, <2>12, MirrorKept, Zenon
    <2>13. Unraced(k)' => AgreePg(k)'
      BY <1>0, <1>1, <2>1, <2>2, <2>7, <2>8, <2>9, <2>10, <2>12, Zenon DEF AgreePg
    <2> QED
      BY <2>11, <2>13
  <1>10. ASSUME NEW r \in Retentions, BeginPrune(r)
         PROVE  AgreeInv'
    <2> DEFINE before == clock - r.age
               tied == {k \in DOMAIN mem.jobs : Near(LastActive(mem.jobs[k]), before)}
               stale == L!Expired(lite, L!Unix(before), r.states)
               doomed == L!Expired(pg, L!Unix(before), r.states)
               mark == [before |-> before, states |-> r.states]
    <2>1. /\ mem' = M!PruneStore(mem, before, r.states)
          /\ lite' = L!PruneStore(lite, before, r.states)
          /\ pg' = P!PruneAttempts(pg, before, r.states)
          /\ pruning = {} /\ pruning' = {mark}
          /\ UNCHANGED <<clock, when>>
          /\ \E cut : Note({}, tied, {}, {}, cut)
      BY <1>10, Zenon DEF BeginPrune, Round
    <2>2. pg' = L!DeleteAttempts(pg, doomed)
      BY <2>1, PostgresWrites
    <2>3. before \in Int
      <3>1. r.age \in Nat
        BY DriversAssumption, Zenon
      <3> QED
        BY <1>0, <3>1
    <2>4. lite'.jobs = Delete(lite.jobs, stale) /\ lite'.attempts = Delete(lite.attempts, AttemptsOf(lite, stale))
      BY <1>0, <2>1, PruneTables
    <2> SUFFICES ASSUME NEW k \in Keys PROVE Goal(k)
      BY <1>2
    <2>5. k \in DOMAIN mem.jobs /\ k \notin tied => ~Near(LastActive(mem.jobs[k]), before)
      BY Zenon
    <2>6. k \in doomed <=> Doomed(pg, mark, k)
      <3>1. mark.before = before /\ mark.states = r.states
        OBVIOUS
      <3> QED
        BY <3>1, ExpiredRows, Zenon DEF Doomed
    <2>7. ASSUME NEW s, DB(s), Mirror(mem, s, k), k \notin tied
          PROVE  k \in L!Expired(s, L!Unix(before), r.states) <=> k \in Prunable(mem.jobs, before, r.states)
      BY <1>0, <2>3, <2>5, <2>7, MirrorPruned, Zenon
    <2>8. /\ k \notin tied /\ Mirror(mem, lite, k) => (k \in stale <=> k \in Prunable(mem.jobs, before, r.states))
          /\ k \notin tied /\ Mirror(mem, pg, k) => (k \in doomed <=> k \in Prunable(mem.jobs, before, r.states))
      BY <1>0, <2>7, Zenon
    <2> HIDE DEF tied, before, stale, doomed, mark
    <2>9. /\ mem'.jobs = Prune(mem.jobs, before, r.states)
          /\ mem'.attempts[k] = IF k \in Prunable(mem.jobs, before, r.states) THEN NoAttempts ELSE mem.attempts[k]
      BY <1>0, <2>1, MemoryPrune
    <2>10. /\ k \in DOMAIN mem'.jobs <=> k \in DOMAIN mem.jobs /\ k \notin Prunable(mem.jobs, before, r.states)
           /\ k \in DOMAIN mem'.jobs => mem'.jobs[k] = mem.jobs[k]
      BY <2>9, Zenon DEF Prune
    <2>11. pg'.jobs = pg.jobs /\ pg'.attempts = Delete(pg.attempts, AttemptsOf(pg, doomed))
      BY <1>0, <2>2, DeleteAttemptsTables
    <2>12. (Untied(k)' => Untied(k) /\ k \notin tied) /\ (Unraced(k)' => Unraced(k) /\ k \notin tied)
      <3>1. PICK cut : Note({}, tied, {}, {}, cut)
        BY <2>1
      <3> QED
        BY <1>0, <3>1, NotesAvoided, Zenon
    <2>13. ASSUME NEW s, NEW t, NEW gone, DOMAIN s = Table, Twin(mem, s, k, when[k].tries, clock),
                  t.attempts = Delete(s.attempts, AttemptsOf(s, gone)),
                  k \in gone <=> k \in Prunable(mem.jobs, before, r.states)
           PROVE  Twin(mem', t, k, when[k].tries, clock)
      <3>1. mem'.attempts[k] = IF k \in gone THEN NoAttempts ELSE mem.attempts[k]
        BY <2>9, <2>13, Zenon
      <3> QED
        BY <1>0, <2>13, <3>1, TwinPruned, ZenonT(60)
    <2>14. ASSUME Untied(k)'
           PROVE  AgreeLite(k)'
      <3>1. /\ Mirror(mem, lite, k) /\ Twin(mem, lite, k, when[k].tries, clock)
            /\ (k \in stale <=> k \in Prunable(mem.jobs, before, r.states))
        BY <1>1, <2>8, <2>12, <2>14, Zenon DEF AgreeLite
      <3>2. Twin(mem', lite', k, when[k].tries, clock)
        BY <1>0, <2>4, <2>13, <3>1, Zenon
      <3>3. /\ k \in DOMAIN lite'.jobs <=> k \in DOMAIN lite.jobs /\ k \notin stale
            /\ k \in DOMAIN lite'.jobs => lite'.jobs[k] = lite.jobs[k]
        BY <2>4, Zenon DEF Delete
      <3>4. Mirror(mem', lite', k)
        BY <2>10, <3>1, <3>3, Zenon DEF Mirror
      <3> QED
        BY <2>1, <3>2, <3>4, Zenon DEF AgreeLite
    <2>15. ASSUME Unraced(k)'
           PROVE  AgreePg(k)'
      <3>1. /\ Mirror(mem, pg, k) /\ Twin(mem, pg, k, when[k].tries, clock)
            /\ (k \in doomed <=> k \in Prunable(mem.jobs, before, r.states))
        BY <1>1, <2>1, <2>8, <2>12, <2>15, Zenon DEF AgreePg
      <3>2. Twin(mem', pg', k, when[k].tries, clock)
        BY <1>0, <2>11, <2>13, <3>1, Zenon
      <3>3. HalfPruned(mem', pg', k, mark)
        <4>1. Doomed(pg', mark, k) <=> k \in doomed
          BY <2>6, <2>11, Zenon DEF Doomed
        <4> QED
          BY <2>10, <2>11, <3>1, <4>1, Zenon DEF Mirror, HalfPruned
      <3> QED
        BY <2>1, <3>2, <3>3, Zenon DEF AgreePg
    <2> QED
      BY <2>14, <2>15
  <1>11. ASSUME EndPrune
         PROVE  AgreeInv'
    <2>1. PICK p \in pruning : pg' = P!PruneJobs(pg, p.before, p.states)
      BY <1>11, Zenon DEF EndPrune
    <2>2. UNCHANGED <<mem, lite, past, clock, when>> /\ pruning' = {}
      BY <1>11, Zenon DEF EndPrune
    <2> DEFINE doomed == L!Expired(pg, L!Unix(p.before), p.states)
    <2>3. pg' = L!DeleteJobs(pg, doomed)
      BY <2>1, PostgresWrites
    <2>4. \A k : k \in doomed <=> Doomed(pg, p, k)
      BY ExpiredRows, Zenon DEF Doomed
    <2> HIDE DEF doomed
    <2>5. pg'.attempts = pg.attempts /\ pg'.jobs = Delete(pg.jobs, doomed)
      BY <1>0, <2>3, DeleteJobsTables
    <2> SUFFICES ASSUME NEW k \in Keys PROVE Goal(k)
      BY <1>2
    <2>6. AgreeLite(k) => AgreeLite(k)'
      BY <2>2, Zenon DEF AgreeLite
    <2>7. ASSUME AgreePg(k)
          PROVE  AgreePg(k)'
      <3>1. Twin(mem, pg, k, when[k].tries, clock) /\ HalfPruned(mem, pg, k, p)
        BY <2>1, <2>7, Zenon DEF AgreePg
      <3>2. /\ RowAttempts(pg', k) = RowAttempts(pg, k)
            /\ \A q \in RowAttempts(pg, k) : pg'.attempts[q] = pg.attempts[q]
        BY <2>5, Zenon DEF RowAttempts
      <3>3. clock <= clock /\ Longer(when[k].tries, when[k].tries)
        BY <1>0, TriesLater
      <3>4. Twin(mem, pg', k, when[k].tries, clock)
        BY <1>0, <3>1, <3>2, <3>3, TwinKept, Zenon
      <3>5. /\ k \in DOMAIN pg'.jobs <=> k \in DOMAIN pg.jobs /\ k \notin doomed
            /\ k \in DOMAIN pg'.jobs => pg'.jobs[k] = pg.jobs[k]
        BY <2>5, Zenon DEF Delete
      <3>6. Mirror(mem, pg', k)
        BY <2>4, <3>1, <3>5, Zenon DEF Mirror, HalfPruned
      <3> QED
        BY <2>2, <3>4, <3>6, Zenon DEF AgreePg
    <2> QED
      BY <1>1, <2>6, <2>7, Zenon
  <1> QED
    BY <1>0, <1>5, <1>6, <1>7, <1>8, <1>9, <1>10, <1>11, StepCases, Zenon

LEMMA InitAgree ==
    ASSUME Init
    PROVE  AgreeInv
  <1>1. mem = M!Open /\ lite = L!Migrate /\ pg = P!Migrate /\ pruning = {}
    BY Zenon DEF Init
  <1>2. P!Migrate = L!Migrate
    BY DEF P!Migrate, P!L!Migrate, L!Migrate
  <1>3. DOMAIN L!Migrate.jobs = {} /\ DOMAIN L!Migrate.attempts = {}
    BY DEF L!Migrate
  <1>4. M!Open.jobs = NoAttempts /\ M!Open.attempts = [j \in Keys |-> NoAttempts]
    BY DEF M!Open, NoAttempts, Keys
  <1>5. DOMAIN M!Open.jobs = {}
    BY <1>4 DEF NoAttempts
  <1>6. ASSUME NEW k \in Keys
        PROVE  AgreeLite(k) /\ AgreePg(k)
    <2>1. RowAttempts(L!Migrate, k) = {}
      BY <1>3, Zenon DEF RowAttempts
    <2>2. mem.attempts[k] = NoAttempts
      BY <1>1, <1>4, Zenon
    <2>3. Twin(mem, lite, k, when[k].tries, clock) /\ Twin(mem, pg, k, when[k].tries, clock)
      BY <1>1, <1>2, <2>1, <2>2, NoTwins, Zenon
    <2>4. Mirror(mem, lite, k) /\ Mirror(mem, pg, k)
      BY <1>1, <1>2, <1>3, <1>5, Zenon DEF Mirror
    <2> QED
      BY <1>1, <2>3, <2>4, Zenon DEF AgreeLite, AgreePg
  <1> QED
    BY <1>6, Zenon DEF AgreeInv

\* Read back, a row is the image of the job it mirrors.
LEMMA ScannedRow ==
    ASSUME NEW row, RowOK(row), NEW job, DOMAIN job = Field, SameColumns(row, job)
    PROVE  L!ScanJob(row) = Image(job)
  <1>1. DOMAIN row \ {"pattern", "rank"} = Field
    BY DEF RowOK, Column, Field
  <1>2. L!ScanJob(row) = [c \in Field |-> IF c \in L!TimeColumns THEN L!FromUnix(row[c]) ELSE row[c]]
    BY <1>1, Zenon DEF L!ScanJob
  <1>3. Image(job) = [c \in Field |-> IF c \in L!TimeColumns THEN L!FromUnix(L!Unix(job[c])) ELSE job[c]]
    BY Zenon DEF Image, Truncated
  <1>4. L!TimeColumns = TimeFields
    BY DEF L!TimeColumns, TimeFields
  <1>5. \A c \in Field : (IF c \in L!TimeColumns THEN L!FromUnix(row[c]) ELSE row[c])
                = (IF c \in L!TimeColumns THEN L!FromUnix(L!Unix(job[c])) ELSE job[c])
    BY <1>4, Zenon DEF SameColumns
  <1> QED
    BY <1>2, <1>3, <1>5, Zenon

LEMMA SameRows ==
    ASSUME MemOK, NEW s, DB(s), NEW k \in Keys, Mirror(mem, s, k)
    PROVE  SameRow(s, k)
  <1>1. ASSUME k \in DOMAIN mem.jobs
        PROVE  L!ScanJob(s.jobs[k]) = Image(mem.jobs[k])
    <2>1. RowOK(s.jobs[k]) /\ SameColumns(s.jobs[k], mem.jobs[k]) /\ DOMAIN mem.jobs[k] = Field
      BY <1>1, Zenon DEF Mirror, DB, MemOK, JobOK
    <2> QED
      BY <2>1, ScannedRow
  <1> QED
    BY <1>1, Zenon DEF Mirror, SameRow

LEMMA SameTwins ==
    ASSUME NEW s, NEW k, NEW tries, NEW now, Twin(mem, s, k, tries, now)
    PROVE  SameAttempts(s, k)
  <1> DEFINE own == mem.attempts[k]
             keys == {<<k, own[i].n, L!Unix(own[i].startedAt)>> : i \in DOMAIN own}
             at(p) == own[CHOOSE i \in DOMAIN own : own[i].n = p[2]]
  <1>1. ImageAttempts(k) = [p \in keys |-> AttemptRow(at(p))]
    BY Zenon DEF ImageAttempts, AttemptRow
  <1>2. SUFFICES /\ RowAttempts(s, k) = keys
                 /\ \A p \in keys : s.attempts[p] = AttemptRow(at(p))
    BY <1>1, Zenon DEF SameAttempts
  <1>3. Listed(own, tries, now) /\ Tabled(s, k, own)
    BY Zenon DEF Twin
  <1> HIDE DEF own
  <1>4. keys = {AttemptKey(k, own[i]) : i \in DOMAIN own}
    BY Zenon DEF AttemptKey
  <1>5. ASSUME NEW i \in DOMAIN own
        PROVE  s.attempts[AttemptKey(k, own[i])] = AttemptRow(at(AttemptKey(k, own[i])))
    <2> DEFINE p == AttemptKey(k, own[i])
    <2>1. p[2] = own[i].n
      BY KeyParts, Zenon
    <2> HIDE DEF p
    <2>2. \A j \in DOMAIN own : own[j].n = p[2] <=> j = i
      BY <1>3, <2>1, Zenon DEF Listed
    <2>3. (CHOOSE j \in DOMAIN own : own[j].n = p[2]) = i
      BY <2>2
    <2>4. at(p) = own[i]
      BY <2>3, Zenon
    <2> HIDE DEF at
    <2>5. s.attempts[p] = AttemptRow(own[i])
      BY <1>3, Zenon DEF Tabled, p
    <2> QED
      BY <2>4, <2>5, Zenon DEF p
  <1> HIDE DEF keys, at
  <1> QED
    BY <1>3, <1>4, <1>5, Zenon DEF Tabled

\* A database holds what the memory driver holds, for any keys and clock, and for any
\* sequence of heartbeats, reconciliations, prunes and the records of the hooks, those
\* of a job in any order and any of them lost: every row but for its fractions of a
\* microsecond and every attempt, except for a job of which two times within one
\* microsecond were compared, and on Postgres one that a commit touched between the
\* two statements of a prune.
THEOREM DriversAlwaysAgree == Spec => []DriversAgree
  <1> DEFINE Inv == StoresInv /\ Lockstep(lite) /\ Lockstep(pg) /\ AgreeInv
  <1>1. Init => Inv
    BY InitStores, InitLockstep, InitAgree
  <1>2. Inv /\ [Next]_vars => Inv'
    BY StoresStep, LockstepStep, AgreeStep, Zenon
  <1>3. Inv => DriversAgree
    <2> SUFFICES ASSUME Inv, NEW k \in Keys, "tied" \notin past[k]
                 PROVE  /\ SameRow(lite, k) /\ SameAttempts(lite, k)
                        /\ pruning = {} /\ "raced" \notin past[k] => SameRow(pg, k) /\ SameAttempts(pg, k)
      BY Zenon DEF DriversAgree
    <2>0. MemOK /\ DB(lite) /\ DB(pg)
      BY Zenon DEF StoresInv
    <2>1. AgreeLite(k)
      BY Zenon DEF AgreeInv, Untied
    <2>2. SameRow(lite, k) /\ SameAttempts(lite, k)
      BY <2>0, <2>1, SameRows, SameTwins, Zenon DEF AgreeLite
    <2>3. ASSUME pruning = {}, "raced" \notin past[k]
          PROVE  SameRow(pg, k) /\ SameAttempts(pg, k)
      <3>1. AgreePg(k)
        BY <2>3, Zenon DEF AgreeInv, Unraced
      <3> QED
        BY <2>0, <2>3, <3>1, SameRows, SameTwins, Zenon DEF AgreePg
    <2> QED
      BY <2>2, <2>3
  <1> QED
    BY <1>1, <1>2, <1>3, PTL DEF Spec

----------------------------------------------------------------------------
(* Sorting a finite set by a relation that is total on it. *)

Total(S, R) ==
    /\ \A j \in S : <<j, j>> \notin R
    /\ \A j, k \in S : j # k => <<j, k>> \in R \/ <<k, j>> \in R
    /\ \A i, j, k \in S : <<i, j>> \in R /\ <<j, k>> \in R => <<i, k>> \in R

\* The members of S that come before k.
Before(S, R, k) == {j \in S : <<j, k>> \in R}

\* How many come before a member tells its place.
LEMMA BeforeCounts ==
    ASSUME NEW S, IsFiniteSet(S), NEW R, Total(S, R)
    PROVE  /\ Cardinality(S) \in Nat
           /\ \A k \in S : /\ IsFiniteSet(Before(S, R, k))
                           /\ Cardinality(Before(S, R, k)) \in 0..(Cardinality(S) - 1)
           /\ \A j, k \in S : <<j, k>> \in R => Cardinality(Before(S, R, j)) < Cardinality(Before(S, R, k))
  <1>1. Cardinality(S) \in Nat
    BY FS_CardinalityType
  <1>2. ASSUME NEW k \in S
        PROVE  /\ IsFiniteSet(Before(S, R, k)) /\ Cardinality(Before(S, R, k)) \in Nat
               /\ Cardinality(Before(S, R, k)) < Cardinality(S)
    <2> DEFINE B == Before(S, R, k)
    <2>1. B \subseteq S /\ k \notin B
      BY Zenon DEF Before, Total
    <2> HIDE DEF B
    <2>2. IsFiniteSet(B) /\ Cardinality(B) <= Cardinality(S) /\ (Cardinality(S) = Cardinality(B) => S = B)
      BY <2>1, FS_Subset
    <2>3. Cardinality(B) \in Nat
      BY <2>2, FS_CardinalityType
    <2> QED
      BY <1>1, <2>1, <2>2, <2>3 DEF B
  <1>3. ASSUME NEW j \in S, NEW k \in S, <<j, k>> \in R
        PROVE  Cardinality(Before(S, R, j)) < Cardinality(Before(S, R, k))
    <2> DEFINE A == Before(S, R, j)
               B == Before(S, R, k)
    <2>1. A \subseteq B /\ j \in B /\ j \notin A
      BY <1>3, Zenon DEF Before, Total
    <2>2. IsFiniteSet(B) /\ Cardinality(A) \in Nat /\ Cardinality(B) \in Nat
      BY <1>2
    <2> HIDE DEF A, B
    <2>3. Cardinality(A) <= Cardinality(B) /\ (Cardinality(B) = Cardinality(A) => B = A)
      BY <2>1, <2>2, FS_Subset
    <2> QED
      BY <2>1, <2>2, <2>3 DEF A, B
  <1> QED
    BY <1>1, <1>2, <1>3

\* The sorted sequence has every member once, each after those that come before it.
LEMMA InOrderFacts ==
    ASSUME NEW S, IsFiniteSet(S), NEW R, Total(S, R)
    PROVE  /\ DOMAIN InOrder(S, R) = 1..Cardinality(S)
           /\ \A i \in 1..Cardinality(S) : /\ InOrder(S, R)[i] \in S
                                          /\ Cardinality(Before(S, R, InOrder(S, R)[i])) = i - 1
  <1> DEFINE n == Cardinality(S)
             q == InOrder(S, R)
             place == [k \in S |-> Cardinality(Before(S, R, k)) + 1]
  <1>1. n \in Nat /\ \A k \in S : Cardinality(Before(S, R, k)) \in 0..(n - 1)
    BY BeforeCounts
  <1>2. place \in [S -> 1..n]
    BY <1>1
  <1>3. ASSUME NEW j \in S, NEW k \in S, place[j] = place[k]
        PROVE  j = k
    <2>1. Cardinality(Before(S, R, j)) = Cardinality(Before(S, R, k))
      BY <1>1, <1>3
    <2>2. ~(Cardinality(Before(S, R, j)) < Cardinality(Before(S, R, k)))
          /\ ~(Cardinality(Before(S, R, k)) < Cardinality(Before(S, R, j)))
      BY <1>1, <2>1
    <2>3. <<j, k>> \notin R /\ <<k, j>> \notin R
      BY <2>2, BeforeCounts, Zenon
    <2> QED
      BY <2>3, Zenon DEF Total
  <1> HIDE DEF place
  <1>4. place \in Injection(S, 1..n)
    BY <1>2, <1>3, Zenon DEF Injection, IsInjective
  <1>5. IsFiniteSet(1..n) /\ Cardinality(1..n) = n
    <2>1. IsFiniteSet(1..n) /\ Cardinality(1..n) = IF 1 > n THEN 0 ELSE n - 1 + 1
      BY <1>1, FS_Interval
    <2> QED
      BY <1>1, <2>1
  <1>6. place \in Surjection(S, 1..n)
    BY <1>4, <1>5, FS_Injection
  <1>7. ASSUME NEW i \in 1..n
        PROVE  q[i] \in S /\ Cardinality(Before(S, R, q[i])) = i - 1
    <2>1. PICK k \in S : place[k] = i
      BY <1>6, Zenon DEF Surjection
    <2>2. Cardinality(Before(S, R, k)) = i - 1
      BY <1>1, <2>1 DEF place
    <2>3. q[i] = CHOOSE m \in S : Cardinality(Before(S, R, m)) = i - 1
      BY Zenon DEF InOrder, Before
    <2> QED
      BY <2>2, <2>3, Zenon
  <1>8. DOMAIN q = 1..n
    BY Zenon DEF InOrder
  <1> HIDE DEF q, n
  <1> QED
    BY <1>7, <1>8, Zenon DEF q, n

\* Two sortings that both put larger keys first have the same key in every place.
LEMMA NoLarger ==
    ASSUME NEW S, IsFiniteSet(S), NEW T \in [S -> Int],
           NEW Q, Total(S, Q), \A j, k \in S : <<j, k>> \in Q => T[j] >= T[k],
           NEW R, Total(S, R), \A j, k \in S : <<j, k>> \in R => T[j] >= T[k],
           NEW i \in 1..Cardinality(S)
    PROVE  T[InOrder(S, Q)[i]] <= T[InOrder(S, R)[i]]
  <1> DEFINE a == InOrder(S, Q)[i]
             b == InOrder(S, R)[i]
             A == Before(S, Q, a) \union {a}
             B == Before(S, R, b)
  <1>1. /\ a \in S /\ b \in S
        /\ Cardinality(Before(S, Q, a)) = i - 1 /\ Cardinality(Before(S, R, b)) = i - 1
    BY InOrderFacts, Zenon
  <1> HIDE DEF a, b
  <1>2. /\ IsFiniteSet(Before(S, Q, a)) /\ IsFiniteSet(Before(S, R, b)) /\ i \in Int
    BY <1>1, BeforeCounts
  <1>3. a \notin Before(S, Q, a)
    BY <1>1, Zenon DEF Before, Total
  <1>4. Cardinality(A) = i
    <2>1. Cardinality(A) = Cardinality(Before(S, Q, a)) + 1
      BY <1>2, <1>3, FS_AddElement
    <2> QED
      BY <1>1, <1>2, <2>1
  <1>5. ASSUME T[a] > T[b]
        PROVE  A \subseteq B
    <2> SUFFICES ASSUME NEW x \in A PROVE x \in B
      OBVIOUS
    <2>1. x \in S /\ (x = a \/ <<x, a>> \in Q)
      BY <1>1, Zenon DEF Before
    <2>2. T[x] \in Int /\ T[a] \in Int /\ T[b] \in Int
      BY <1>1, <2>1
    <2>3. T[x] >= T[a]
      BY <1>1, <2>1, <2>2
    <2>4. ~(T[b] >= T[x])
      BY <1>5, <2>2, <2>3
    <2>5. x # b /\ <<b, x>> \notin R
      <3>1. T[b] >= T[b]
        BY <2>2
      <3> QED
        BY <1>1, <2>1, <2>4, <3>1, Zenon
    <2> QED
      BY <1>1, <2>1, <2>5, Zenon DEF Before, Total
  <1>6. ASSUME T[a] > T[b]
        PROVE  FALSE
    <2>1. Cardinality(A) <= Cardinality(B)
      BY <1>2, <1>5, <1>6, FS_Subset
    <2> QED
      BY <1>1, <1>2, <1>4, <2>1
  <1> QED
    BY <1>1, <1>6 DEF a, b

LEMMA SameTimes ==
    ASSUME NEW S, IsFiniteSet(S), NEW T \in [S -> Int],
           NEW Q, Total(S, Q), \A j, k \in S : <<j, k>> \in Q => T[j] >= T[k],
           NEW R, Total(S, R), \A j, k \in S : <<j, k>> \in R => T[j] >= T[k]
    PROVE  \A i \in 1..Cardinality(S) :
                /\ InOrder(S, Q)[i] \in S /\ InOrder(S, R)[i] \in S
                /\ T[InOrder(S, Q)[i]] = T[InOrder(S, R)[i]]
  <1> SUFFICES ASSUME NEW i \in 1..Cardinality(S)
               PROVE  /\ InOrder(S, Q)[i] \in S /\ InOrder(S, R)[i] \in S
                      /\ T[InOrder(S, Q)[i]] = T[InOrder(S, R)[i]]
    OBVIOUS
  <1> DEFINE a == InOrder(S, Q)[i]
             b == InOrder(S, R)[i]
  <1>1. a \in S /\ b \in S
    BY InOrderFacts, Zenon
  <1>2. T[a] <= T[b]
    BY NoLarger
  <1>3. T[b] <= T[a]
    BY NoLarger
  <1>4. T[a] \in Int /\ T[b] \in Int
    BY <1>1
  <1> HIDE DEF a, b
  <1> QED
    BY <1>1, <1>2, <1>3, <1>4 DEF a, b

LEMMA SortedSeq ==
    ASSUME NEW S, IsFiniteSet(S), NEW R, Total(S, R)
    PROVE  InOrder(S, R) \in Seq(S) /\ Len(InOrder(S, R)) = Cardinality(S) /\ Cardinality(S) \in Nat
  <1> DEFINE n == Cardinality(S)
             g == [i \in 1..n |-> CHOOSE k \in S : Cardinality({j \in S : <<j, k>> \in R}) = i - 1]
  <1>1. n \in Nat
    BY FS_CardinalityType
  <1>2. InOrder(S, R) = g
    BY Zenon DEF InOrder
  <1>3. \A i \in 1..n : g[i] \in S
    BY <1>2, InOrderFacts, Zenon
  <1> HIDE DEF n
  <1>4. g \in [1..n -> S]
    BY <1>3
  <1> HIDE DEF g
  <1>5. g \in Seq(S) /\ Len(g) = n
    BY <1>1, <1>4
  <1> QED
    BY <1>1, <1>2, <1>5 DEF n

\* A page is a stretch of the sorted sequence.
LEMMA WindowFacts ==
    ASSUME NEW S, NEW q \in Seq(S), NEW limit \in Nat, NEW offset \in Nat
    PROVE  LET a == Window(q, limit, offset)
               top == IF offset + limit < Len(q) THEN offset + limit ELSE Len(q)
               size == IF offset < top THEN top - offset ELSE 0
           IN /\ Len(a) = size /\ DOMAIN a = 1..size
              /\ \A i \in 1..size : offset + i \in 1..Len(q) /\ a[i] = q[offset + i]
  <1> DEFINE top == IF offset + limit < Len(q) THEN offset + limit ELSE Len(q)
             size == IF offset < top THEN top - offset ELSE 0
             a == Window(q, limit, offset)
  <1>1. top \in Nat /\ top <= Len(q) /\ size \in Nat /\ Len(q) \in Nat
    OBVIOUS
  <1>2. a = SubSeq(q, offset + 1, top)
    BY Zenon DEF Window
  <1>3. \A i \in 1..size : offset + i \in 1..Len(q)
    BY <1>1
  <1> HIDE DEF top
  <1>4. /\ Len(SubSeq(q, offset + 1, top)) = size
        /\ DOMAIN SubSeq(q, offset + 1, top) = 1..size
        /\ \A i \in 1..size : SubSeq(q, offset + 1, top)[i] = q[offset + i]
    BY <1>1
  <1> HIDE DEF a, size
  <1>5. Len(a) = size /\ DOMAIN a = 1..size /\ \A i \in 1..size : offset + i \in 1..Len(q) /\ a[i] = q[offset + i]
    BY <1>2, <1>3, <1>4, Zenon
  <1> QED
    BY <1>5 DEF a, size, top

\* One key in every place, of two lists read from sequences sorted by different relations.
SameKeys(T, a, b) ==
    /\ Len(a) = Len(b) /\ DOMAIN a = DOMAIN b
    /\ \A i \in DOMAIN a : a[i] \in DOMAIN T /\ b[i] \in DOMAIN T /\ T[a[i]] = T[b[i]]

LEMMA ListsSame ==
    ASSUME NEW S, IsFiniteSet(S), NEW T \in [S -> Int],
           NEW Q, Total(S, Q), \A j, k \in S : <<j, k>> \in Q => T[j] >= T[k],
           NEW R, Total(S, R), \A j, k \in S : <<j, k>> \in R => T[j] >= T[k]
    PROVE  SameKeys(T, InOrder(S, Q), InOrder(S, R))
  <1>1. /\ Len(InOrder(S, Q)) = Cardinality(S) /\ Len(InOrder(S, R)) = Cardinality(S)
        /\ DOMAIN InOrder(S, Q) = 1..Cardinality(S) /\ DOMAIN InOrder(S, R) = 1..Cardinality(S)
    BY SortedSeq, InOrderFacts, Zenon
  <1>2. DOMAIN T = S
    OBVIOUS
  <1>3. \A i \in 1..Cardinality(S) :
            /\ InOrder(S, Q)[i] \in S /\ InOrder(S, R)[i] \in S
            /\ T[InOrder(S, Q)[i]] = T[InOrder(S, R)[i]]
    BY SameTimes
  <1> QED
    BY <1>1, <1>2, <1>3, Zenon DEF SameKeys

LEMMA PagesSame ==
    ASSUME NEW S, NEW T, NEW p \in Seq(S), NEW q \in Seq(S), SameKeys(T, p, q),
           NEW limit \in Nat, NEW offset \in Nat
    PROVE  SameKeys(T, Window(p, limit, offset), Window(q, limit, offset))
  <1> DEFINE a == Window(p, limit, offset)
             b == Window(q, limit, offset)
             top == IF offset + limit < Len(q) THEN offset + limit ELSE Len(q)
             size == IF offset < top THEN top - offset ELSE 0
             end == IF offset + limit < Len(p) THEN offset + limit ELSE Len(p)
             rows == IF offset < end THEN end - offset ELSE 0
  <1>1. Len(p) = Len(q)
    BY DEF SameKeys
  <1>2. /\ Len(a) = size /\ DOMAIN a = 1..size
        /\ \A i \in 1..size : offset + i \in 1..Len(q) /\ a[i] = p[offset + i]
    <2>1. /\ Len(a) = rows /\ DOMAIN a = 1..rows
          /\ \A i \in 1..rows : offset + i \in 1..Len(p) /\ a[i] = p[offset + i]
      BY WindowFacts
    <2>2. rows = size
      BY <1>1, Zenon
    <2> HIDE DEF a, rows, size
    <2> QED
      BY <1>1, <2>1, <2>2, Zenon
  <1>3. /\ Len(b) = size /\ DOMAIN b = 1..size
        /\ \A i \in 1..size : offset + i \in 1..Len(q) /\ b[i] = q[offset + i]
    BY WindowFacts
  <1>4. DOMAIN p = 1..Len(q)
    BY <1>1
  <1> HIDE DEF a, b, size
  <1>5. ASSUME NEW i \in DOMAIN a
        PROVE  a[i] \in DOMAIN T /\ b[i] \in DOMAIN T /\ T[a[i]] = T[b[i]]
    <2>1. offset + i \in DOMAIN p /\ a[i] = p[offset + i] /\ b[i] = q[offset + i]
      BY <1>2, <1>3, <1>4, Zenon
    <2> QED
      BY <2>1, Zenon DEF SameKeys
  <1>6. SameKeys(T, a, b)
    BY <1>2, <1>3, <1>5, Zenon DEF SameKeys
  <1> QED
    BY <1>6 DEF a, b

----------------------------------------------------------------------------
(* The order of the rows. *)

\* A database has the rows of the memory driver, as it keeps them.
Mirrors(s) == \A k \in Keys : Mirror(mem, s, k)

LEMMA KeysFinite == IsFiniteSet(Keys) /\ \A S \in SUBSET Keys : IsFiniteSet(S)
  <1>1. KeyOrder \in Seq(DOMAIN KeyFor) /\ {KeyOrder[i] : i \in DOMAIN KeyOrder} = DOMAIN KeyFor
    BY QueryAssumption, Zenon
  <1>2. KeyOrder \in [1..Len(KeyOrder) -> DOMAIN KeyFor] /\ Len(KeyOrder) \in Nat /\ DOMAIN KeyOrder = 1..Len(KeyOrder)
    BY <1>1
  <1>3. \A k \in DOMAIN KeyFor : \E i \in 1..Len(KeyOrder) : KeyOrder[i] = k
    BY <1>1, <1>2
  <1>4. KeyOrder \in Surjection(1..Len(KeyOrder), DOMAIN KeyFor)
    BY <1>2, <1>3, Zenon DEF Surjection
  <1>5. IsFiniteSet(1..Len(KeyOrder))
    BY <1>2, FS_Interval
  <1>6. IsFiniteSet(DOMAIN KeyFor)
    BY <1>4, <1>5, FS_Surjection
  <1>7. \A S \in SUBSET DOMAIN KeyFor : IsFiniteSet(S)
    BY <1>6, FS_Subset
  <1> QED
    BY <1>6, <1>7, Zenon DEF Keys

LEMMA PlaceFacts ==
    /\ \A k \in Keys : M!Place(k) \in Nat
    /\ \A j, k \in Keys : M!Place(j) = M!Place(k) => j = k
  <1>1. KeyOrder \in Seq(DOMAIN KeyFor) /\ {KeyOrder[i] : i \in DOMAIN KeyOrder} = DOMAIN KeyFor
    BY QueryAssumption, Zenon
  <1>2. DOMAIN KeyOrder \subseteq Nat
    BY <1>1
  <1>3. \A k \in Keys : M!Place(k) \in DOMAIN KeyOrder /\ KeyOrder[M!Place(k)] = k
    BY <1>1, Zenon DEF Keys, M!Place
  <1> QED
    BY <1>2, <1>3, Zenon

LEMMA MemTimes ==
    ASSUME TimesOK, MemOK, NEW k \in DOMAIN mem.jobs
    PROVE  k \in Keys /\ mem.jobs[k].enqueuedAt \in Nat /\ L!Unix(mem.jobs[k].enqueuedAt) \in Nat
  <1>1. clock \in Nat
    BY ClockPositive
  <1>2. k \in Keys /\ mem.jobs[k].enqueuedAt \in Instants(clock)
    BY Zenon DEF MemOK, JobOK
  <1> QED
    BY <1>1, <1>2, InstantTimes

\* A relation and its converse.
LEMMA ConverseTotal ==
    ASSUME NEW S, NEW Q, NEW R, Total(S, Q), \A j, k \in S : <<j, k>> \in R <=> <<k, j>> \in Q
    PROVE  Total(S, R)
  BY Zenon DEF Total

LEMMA MemOrder ==
    ASSUME TimesOK, MemOK, NEW S \in SUBSET DOMAIN mem.jobs
    PROVE  /\ Total(S, M!Newest(mem)) /\ Total(S, M!Oldest(mem))
           /\ \A j, k \in S :
                /\ <<j, k>> \in M!Newest(mem) => mem.jobs[j].enqueuedAt >= mem.jobs[k].enqueuedAt
                /\ <<j, k>> \in M!Oldest(mem) => mem.jobs[j].enqueuedAt <= mem.jobs[k].enqueuedAt
  <1> DEFINE at(k) == mem.jobs[k].enqueuedAt
             place(k) == M!Place(k)
  <1>1. \A j, k \in S :
            /\ <<j, k>> \in M!Newest(mem) <=> at(j) > at(k) \/ (at(j) = at(k) /\ place(j) > place(k))
            /\ <<j, k>> \in M!Oldest(mem) <=> <<k, j>> \in M!Newest(mem)
    BY DEF M!Newest, M!Oldest, M!After
  <1>2. /\ \A k \in S : at(k) \in Nat /\ place(k) \in Nat
        /\ \A j, k \in S : place(j) = place(k) => j = k
    BY MemTimes, PlaceFacts
  <1> HIDE DEF at, place
  <1>3. Total(S, M!Newest(mem))
    <2>1. \A j \in S : <<j, j>> \notin M!Newest(mem)
      BY <1>1, <1>2
    <2>2. \A j, k \in S : j # k => <<j, k>> \in M!Newest(mem) \/ <<k, j>> \in M!Newest(mem)
      BY <1>1, <1>2
    <2>3. ASSUME NEW i \in S, NEW j \in S, NEW k \in S, <<i, j>> \in M!Newest(mem), <<j, k>> \in M!Newest(mem)
          PROVE  <<i, k>> \in M!Newest(mem)
      <3>1. /\ at(i) > at(j) \/ (at(i) = at(j) /\ place(i) > place(j))
            /\ at(j) > at(k) \/ (at(j) = at(k) /\ place(j) > place(k))
        BY <1>1, <2>3, Zenon
      <3>2. /\ at(i) \in Nat /\ at(j) \in Nat /\ at(k) \in Nat
            /\ place(i) \in Nat /\ place(j) \in Nat /\ place(k) \in Nat
        BY <1>1, <1>2, Zenon
      <3>3. at(i) > at(k) \/ (at(i) = at(k) /\ place(i) > place(k))
        BY <3>1, <3>2
      <3> QED
        BY <1>1, <3>3, Zenon
    <2> QED
      BY <2>1, <2>2, <2>3, Zenon DEF Total
  <1>4. Total(S, M!Oldest(mem))
    BY <1>1, <1>3, ConverseTotal, Zenon
  <1>5. ASSUME NEW j \in S, NEW k \in S
        PROVE  /\ <<j, k>> \in M!Newest(mem) => at(j) >= at(k)
               /\ <<j, k>> \in M!Oldest(mem) => at(j) <= at(k)
    <2>1. at(j) \in Nat /\ at(k) \in Nat
      BY <1>2
    <2>2. /\ <<j, k>> \in M!Newest(mem) => at(j) > at(k) \/ at(j) = at(k)
          /\ <<j, k>> \in M!Oldest(mem) => at(k) > at(j) \/ at(k) = at(j)
      BY <1>1, Zenon
    <2> QED
      BY <2>1, <2>2
  <1> QED
    BY <1>3, <1>4, <1>5 DEF at

LEMMA RowOrder ==
    ASSUME TimesOK, MemOK, NEW s, DB(s), Mirrors(s), NEW S \in SUBSET DOMAIN mem.jobs
    PROVE  /\ Total(S, L!Newest(s)) /\ Total(S, L!Oldest(s))
           /\ \A j, k \in S :
                /\ <<j, k>> \in L!Newest(s) => s.jobs[j].enqueuedAt >= s.jobs[k].enqueuedAt
                /\ <<j, k>> \in L!Oldest(s) => s.jobs[j].enqueuedAt <= s.jobs[k].enqueuedAt
  <1> DEFINE at(k) == s.jobs[k].enqueuedAt
             id(k) == s.rowid[k]
  <1>0. \A k \in S : k \in Keys /\ k \in DOMAIN s.jobs /\ k \in DOMAIN mem.jobs
    BY MemTimes, Zenon DEF Mirrors, Mirror
  <1>1. \A j, k \in S :
            /\ <<j, k>> \in L!Newest(s) <=> at(j) > at(k) \/ (at(j) = at(k) /\ id(j) > id(k))
            /\ <<j, k>> \in L!Oldest(s) <=> <<k, j>> \in L!Newest(s)
    BY <1>0 DEF L!Newest, L!Oldest, L!After
  <1>2. \A k \in S : at(k) \in Nat
    <2> SUFFICES ASSUME NEW k \in S PROVE at(k) \in Nat
      OBVIOUS
    <2>1. SameColumns(s.jobs[k], mem.jobs[k])
      BY <1>0, Zenon DEF Mirrors, Mirror
    <2>2. at(k) = L!Unix(mem.jobs[k].enqueuedAt)
      BY <2>1, MirrorColumns
    <2> QED
      BY <1>0, <2>2, MemTimes
  <1>3. /\ \A k \in S : id(k) \in Nat
        /\ \A j, k \in S : id(j) = id(k) => j = k
    <2>1. Numbered(DOMAIN s.jobs, s.rowid, s.inserts)
      BY Zenon DEF DB
    <2> QED
      BY <1>0, <2>1 DEF Numbered
  <1> HIDE DEF at, id
  <1>4. Total(S, L!Newest(s))
    <2>1. \A j \in S : <<j, j>> \notin L!Newest(s)
      BY <1>1, <1>2, <1>3
    <2>2. \A j, k \in S : j # k => <<j, k>> \in L!Newest(s) \/ <<k, j>> \in L!Newest(s)
      BY <1>1, <1>2, <1>3
    <2>3. ASSUME NEW i \in S, NEW j \in S, NEW k \in S, <<i, j>> \in L!Newest(s), <<j, k>> \in L!Newest(s)
          PROVE  <<i, k>> \in L!Newest(s)
      <3>1. /\ at(i) > at(j) \/ (at(i) = at(j) /\ id(i) > id(j))
            /\ at(j) > at(k) \/ (at(j) = at(k) /\ id(j) > id(k))
        BY <1>1, <2>3, Zenon
      <3>2. /\ at(i) \in Nat /\ at(j) \in Nat /\ at(k) \in Nat
            /\ id(i) \in Nat /\ id(j) \in Nat /\ id(k) \in Nat
        BY <1>1, <1>2, <1>3, Zenon
      <3>3. at(i) > at(k) \/ (at(i) = at(k) /\ id(i) > id(k))
        BY <3>1, <3>2
      <3> QED
        BY <1>1, <3>3, Zenon
    <2> QED
      BY <2>1, <2>2, <2>3, Zenon DEF Total
  <1>5. Total(S, L!Oldest(s))
    BY <1>1, <1>4, ConverseTotal, Zenon
  <1>6. ASSUME NEW j \in S, NEW k \in S
        PROVE  /\ <<j, k>> \in L!Newest(s) => at(j) >= at(k)
               /\ <<j, k>> \in L!Oldest(s) => at(j) <= at(k)
    <2>1. at(j) \in Nat /\ at(k) \in Nat
      BY <1>2
    <2>2. /\ <<j, k>> \in L!Newest(s) => at(j) > at(k) \/ at(j) = at(k)
          /\ <<j, k>> \in L!Oldest(s) => at(k) > at(j) \/ at(k) = at(j)
      BY <1>1, Zenon
    <2> QED
      BY <2>1, <2>2
  <1> QED
    BY <1>4, <1>5, <1>6 DEF at

----------------------------------------------------------------------------
(* The rows a filter selects. *)

LEMMA CardinalityRule ==
    ASSUME NEW S
    PROVE  /\ M!Cardinality(S) = Cardinality(S) /\ L!Cardinality(S) = Cardinality(S)
           /\ P!Cardinality(S) = Cardinality(S) /\ P!L!Cardinality(S) = Cardinality(S)
  BY DEF M!Cardinality, L!Cardinality, P!Cardinality, P!L!Cardinality, Cardinality

LEMMA ReadRules ==
    ASSUME NEW a, NEW b
    PROVE  /\ M!InOrder(a, b) = InOrder(a, b) /\ L!InOrder(a, b) = InOrder(a, b) /\ P!L!InOrder(a, b) = InOrder(a, b)
           /\ M!Clip(a, b) = Clip(a, b) /\ L!Clip(a, b) = Clip(a, b) /\ P!L!Clip(a, b) = Clip(a, b)
           /\ M!Carries(a, b) = Carries(a, b) /\ L!Carries(a, b) = Carries(a, b) /\ P!Carries(a, b) = Carries(a, b)
           /\ P!L!Carries(a, b) = Carries(a, b)
           /\ M!NormalizeName(a) = NormalizeName(a)
           /\ M!SinceWhen(a, b) = SinceWhen(a, b) /\ L!SinceWhen(a, b) = SinceWhen(a, b)
  <1>1. M!NormalizeName(a) = NormalizeName(a)
    BY DEF M!NormalizeName, NormalizeName, M!MaskSegment, MaskSegment
  <1>2. /\ M!InOrder(a, b) = InOrder(a, b) /\ L!InOrder(a, b) = InOrder(a, b)
        /\ P!L!InOrder(a, b) = InOrder(a, b)
    BY DEF M!InOrder, L!InOrder, P!L!InOrder, InOrder, M!Cardinality, L!Cardinality, P!L!Cardinality,
           Cardinality
  <1>3. M!Clip(a, b) = Clip(a, b) /\ L!Clip(a, b) = Clip(a, b) /\ P!L!Clip(a, b) = Clip(a, b)
    BY DEF M!Clip, L!Clip, P!L!Clip, Clip
  <1>4. /\ M!Carries(a, b) = Carries(a, b) /\ L!Carries(a, b) = Carries(a, b)
        /\ P!Carries(a, b) = Carries(a, b) /\ P!L!Carries(a, b) = Carries(a, b)
    BY Zenon DEF M!Carries, L!Carries, P!Carries, P!L!Carries, Carries
  <1>5. M!SinceWhen(a, b) = SinceWhen(a, b) /\ L!SinceWhen(a, b) = SinceWhen(a, b)
    BY DEF M!SinceWhen, L!SinceWhen, SinceWhen
  <1> QED
    BY <1>1, <1>2, <1>3, <1>4, <1>5

LEMMA WindowRule ==
    ASSUME NEW a, NEW b, NEW c
    PROVE  M!Window(a, b, c) = Window(a, b, c) /\ L!Window(a, b, c) = Window(a, b, c) /\ P!L!Window(a, b, c) = Window(a, b, c)
  BY Zenon DEF M!Window, L!Window, P!L!Window, Window

\* What a row must satisfy, apart from its enqueue time, terms and attributes.
Fits(f, job) ==
    /\ f.queue \in {Blank, job.queue} /\ f.name \in {Blank, job.name}
    /\ f.pattern \in {<<>>, NormalizeName(job.name)}
    /\ f.states = {} \/ job.state \in f.states

\* Every term matches the ID or the name.
LikeTerms(k, job, terms, like) ==
    \A t \in terms : <<KeyFor[k].id, t>> \in like \/ <<job.name, t>> \in like

LEMMA MatchingRow ==
    ASSUME NEW f, NEW k
    PROVE  k \in M!Matching(mem, f) <=>
                /\ k \in DOMAIN mem.jobs /\ Fits(f, mem.jobs[k])
                /\ f.before = 0 \/ mem.jobs[k].enqueuedAt <= f.before
                /\ M!MatchesTerms(k, mem.jobs[k], f.terms)
                /\ f.attrKey = Blank \/ Carries(mem.jobs[k].attrs, f)
  <1> DEFINE job == mem.jobs[k]
  <1>1. M!NormalizeName(job.name) = NormalizeName(job.name) /\ M!Carries(job.attrs, f) = Carries(job.attrs, f)
    BY ReadRules, Zenon
  <1> QED
    BY <1>1, Zenon DEF M!Matching, M!MatchesAttribute, Fits, Blank

LEMMA RowColumns ==
    ASSUME NEW s, DB(s), Mirrors(s), NEW k \in Keys
    PROVE  /\ k \in DOMAIN s.jobs <=> k \in DOMAIN mem.jobs
           /\ k \in DOMAIN mem.jobs =>
                LET row == s.jobs[k]
                    job == mem.jobs[k]
                IN /\ row.queue = job.queue /\ row.name = job.name /\ row.state = job.state
                   /\ row.attrs = job.attrs /\ row.epoch = job.epoch /\ row.root = job.root
                   /\ row.pattern = NormalizeName(job.name) /\ row.rank = Rank(job.state)
                   /\ row.enqueuedAt = L!Unix(job.enqueuedAt) /\ row.finishedAt = L!Unix(job.finishedAt)
  <1>1. Mirror(mem, s, k)
    BY Zenon DEF Mirrors
  <1>2. k \in DOMAIN s.jobs <=> k \in DOMAIN mem.jobs
    BY <1>1, Zenon DEF Mirror
  <1>3. ASSUME k \in DOMAIN mem.jobs
        PROVE  SameColumns(s.jobs[k], mem.jobs[k]) /\ RowOK(s.jobs[k])
    BY <1>1, <1>3, Zenon DEF Mirror, DB
  <1> DEFINE row == s.jobs[k]
             job == mem.jobs[k]
  <1> HIDE DEF row, job
  <1>4. ASSUME SameColumns(row, job), RowOK(row)
        PROVE  /\ row.queue = job.queue /\ row.name = job.name /\ row.state = job.state
               /\ row.attrs = job.attrs /\ row.epoch = job.epoch /\ row.root = job.root
               /\ row.pattern = NormalizeName(job.name) /\ row.rank = Rank(job.state)
               /\ row.enqueuedAt = L!Unix(job.enqueuedAt) /\ row.finishedAt = L!Unix(job.finishedAt)
    <2>1. /\ row.queue = job.queue /\ row.name = job.name /\ row.state = job.state
          /\ row.attrs = job.attrs /\ row.epoch = job.epoch /\ row.root = job.root
          /\ row.enqueuedAt = L!Unix(job.enqueuedAt) /\ row.finishedAt = L!Unix(job.finishedAt)
      BY <1>4 DEF SameColumns, Field, TimeFields
    <2>2. row.pattern = NormalizeName(row.name) /\ row.rank = Rank(row.state)
      BY <1>4, Zenon DEF RowOK
    <2> QED
      BY <2>1, <2>2, Zenon
  <1> QED
    BY <1>2, <1>3, <1>4, Zenon DEF row, job

LEMMA SelectRow ==
    ASSUME NEW s, DB(s), Mirrors(s), NEW f, NEW like, NEW k \in Keys
    PROVE  k \in L!Select(s, f, like) <=>
                /\ k \in DOMAIN mem.jobs /\ Fits(f, mem.jobs[k])
                /\ f.before = 0 \/ L!Unix(mem.jobs[k].enqueuedAt) <= L!Unix(f.before)
                /\ LikeTerms(k, mem.jobs[k], f.terms, like)
  <1> DEFINE row == s.jobs[k]
             job == mem.jobs[k]
  <1>1. k \in L!Select(s, f, like) <=>
            /\ k \in DOMAIN s.jobs
            /\ f.queue \in {Blank, row.queue} /\ f.name \in {Blank, row.name}
            /\ f.before = 0 \/ row.enqueuedAt <= L!Unix(f.before)
            /\ f.pattern \in {<<>>, row.pattern}
            /\ f.states = {} \/ row.state \in f.states
            /\ \A t \in f.terms : <<KeyFor[k].id, t>> \in like \/ <<row.name, t>> \in like
    BY Zenon DEF L!Select, L!EnqueuedBy, Blank
  <1>3. /\ k \in DOMAIN s.jobs <=> k \in DOMAIN mem.jobs
        /\ k \in DOMAIN mem.jobs =>
             /\ row.queue = job.queue /\ row.name = job.name /\ row.state = job.state
             /\ row.attrs = job.attrs /\ row.pattern = NormalizeName(job.name)
             /\ row.enqueuedAt = L!Unix(job.enqueuedAt)
    BY RowColumns, Zenon
  <1>4. CASE k \in DOMAIN mem.jobs
    <2>1. /\ row.queue = job.queue /\ row.name = job.name /\ row.state = job.state
          /\ row.attrs = job.attrs /\ row.pattern = NormalizeName(job.name)
          /\ row.enqueuedAt = L!Unix(job.enqueuedAt)
      BY <1>3, <1>4, Zenon
    <2> HIDE DEF row, job
    <2> QED
      BY <1>1, <1>3, <1>4, <2>1, Zenon DEF Fits, LikeTerms, job
  <1>5. CASE k \notin DOMAIN mem.jobs
    BY <1>1, <1>3, <1>5, Zenon
  <1> QED
    BY <1>4, <1>5, Zenon

\* The attribute clause: Postgres looks a key up as memory does, SQLite as a path.
LEMMA PredicateRow ==
    ASSUME NEW s, DB(s), Mirrors(s), NEW f, NEW k \in Keys, k \in DOMAIN mem.jobs
    PROVE  /\ k \in P!Predicate(s, f) <=>
                k \in L!Select(s, f, ILike) /\ (f.attrKey = Blank \/ Carries(mem.jobs[k].attrs, f))
           /\ f.attrKey \notin PathKeys =>
               (k \in L!Predicate(s, f) <=>
                   k \in L!Select(s, f, Like) /\ (f.attrKey = Blank \/ Carries(mem.jobs[k].attrs, f)))
  <1> DEFINE row == s.jobs[k]
  <1>1. row.attrs = mem.jobs[k].attrs
    BY RowColumns, Zenon
  <1>2. L!Carries(row.attrs, f) = Carries(row.attrs, f) /\ P!Carries(row.attrs, f) = Carries(row.attrs, f)
    BY ReadRules, Zenon
  <1>3. P!L!Select(s, f, ILike) = L!Select(s, f, ILike)
    BY Zenon DEF P!L!Select, L!Select, P!L!EnqueuedBy, L!EnqueuedBy, P!L!Unix, L!Unix
  <1>4. k \in P!Predicate(s, f) <=>
            k \in L!Select(s, f, ILike) /\ (f.attrKey = Blank \/ P!Carries(row.attrs, f))
    BY <1>3, Zenon DEF P!Predicate, Blank
  <1>5. k \in L!Predicate(s, f) <=>
            /\ k \in L!Select(s, f, Like)
            /\ f.attrKey = Blank \/ (f.attrKey \notin PathKeys /\ L!Carries(row.attrs, f))
    BY Zenon DEF L!Predicate, L!JsonExtract, Blank
  <1> HIDE DEF row
  <1> QED
    BY <1>1, <1>2, <1>4, <1>5, Zenon

LEMMA TermsSame ==
    ASSUME NEW f, NEW like, Plain(f, like), NEW k, NEW job
    PROVE  LikeTerms(k, job, f.terms, like) <=> M!MatchesTerms(k, job, f.terms)
  <1>1. ASSUME NEW t \in f.terms, NEW x
        PROVE  <<x, t>> \in like <=> <<x, t>> \in Occurs
    <2>1. \A pair \in (like \ Occurs) \union (Occurs \ like) : pair[2] # t
      BY Zenon DEF Plain
    <2>2. <<x, t>>[2] = t
      OBVIOUS
    <2> QED
      BY <2>1, <2>2, Zenon
  <1> QED
    BY <1>1, Zenon DEF M!MatchesTerms, LikeTerms

LEMMA CutSame ==
    ASSUME TimesOK, MemOK, NEW f \in Filters, NEW like, Plain(f, like), NEW k \in DOMAIN mem.jobs
    PROVE  L!Unix(mem.jobs[k].enqueuedAt) <= L!Unix(f.before) <=> mem.jobs[k].enqueuedAt <= f.before
  <1> DEFINE a == mem.jobs[k].enqueuedAt
             b == f.before
  <1>1. a \in Nat /\ L!Unix(a) \in Nat
    BY MemTimes
  <1>2. {b, f.limit, f.offset} \subseteq Nat
    BY DriversAssumption, Zenon
  <1>3. b \in Nat /\ L!Unix(b) \in Nat
    BY <1>2, UnixFacts
  <1>4. ~Near(a, b)
    BY Zenon DEF Plain
  <1> HIDE DEF a, b
  <1>5. a <= b => L!Unix(a) <= L!Unix(b)
    BY <1>1, <1>3, UnixFacts
  <1>6. a > b => L!Unix(a) > L!Unix(b)
    BY <1>1, <1>3, <1>4, NearTimes DEF Near
  <1>7. L!Unix(a) <= L!Unix(b) <=> a <= b
    BY <1>1, <1>3, <1>5, <1>6
  <1> QED
    BY <1>7 DEF a, b

\* The clauses of a filter but the attribute's select the same rows.
LEMMA SelectSame ==
    ASSUME TimesOK, MemOK, NEW s, DB(s), Mirrors(s), NEW f \in Filters, NEW like, Plain(f, like),
           NEW k \in DOMAIN mem.jobs
    PROVE  k \in M!Matching(mem, f) <=>
                k \in L!Select(s, f, like) /\ (f.attrKey = Blank \/ Carries(mem.jobs[k].attrs, f))
  <1>1. k \in Keys
    BY Zenon DEF MemOK
  <1>2. L!Unix(mem.jobs[k].enqueuedAt) <= L!Unix(f.before) <=> mem.jobs[k].enqueuedAt <= f.before
    BY CutSame, Zenon
  <1>3. LikeTerms(k, mem.jobs[k], f.terms, like) <=> M!MatchesTerms(k, mem.jobs[k], f.terms)
    BY TermsSame, Zenon
  <1> QED
    BY <1>1, <1>2, <1>3, MatchingRow, SelectRow, Zenon

\* A filter selects the same rows, on SQLite if its attribute key is not a path.
LEMMA SelectionsSame ==
    ASSUME TimesOK, MemOK, NEW s, DB(s), Mirrors(s), NEW f \in Filters
    PROVE  /\ Plain(f, ILike) => P!Predicate(s, f) = M!Matching(mem, f)
           /\ Plain(f, Like) /\ f.attrKey \notin PathKeys => L!Predicate(s, f) = M!Matching(mem, f)
  <1>1. /\ M!Matching(mem, f) \subseteq DOMAIN mem.jobs
        /\ L!Predicate(s, f) \subseteq DOMAIN s.jobs /\ P!Predicate(s, f) \subseteq DOMAIN s.jobs
    BY Zenon DEF M!Matching, L!Predicate, L!Select, P!Predicate, P!L!Select
  <1>2. DOMAIN mem.jobs \subseteq Keys /\ DOMAIN s.jobs \subseteq Keys
    BY Zenon DEF MemOK, DB
  <1>3. DOMAIN s.jobs = DOMAIN mem.jobs
    BY <1>2, RowColumns, Zenon
  <1>4. ASSUME NEW k \in DOMAIN mem.jobs
        PROVE  /\ Plain(f, ILike) => (k \in P!Predicate(s, f) <=> k \in M!Matching(mem, f))
               /\ Plain(f, Like) /\ f.attrKey \notin PathKeys
                    => (k \in L!Predicate(s, f) <=> k \in M!Matching(mem, f))
    <2>1. k \in Keys
      BY <1>2
    <2>2. /\ k \in P!Predicate(s, f) <=>
                k \in L!Select(s, f, ILike) /\ (f.attrKey = Blank \/ Carries(mem.jobs[k].attrs, f))
          /\ f.attrKey \notin PathKeys =>
               (k \in L!Predicate(s, f) <=>
                   k \in L!Select(s, f, Like) /\ (f.attrKey = Blank \/ Carries(mem.jobs[k].attrs, f)))
      BY <2>1, PredicateRow, Zenon
    <2>3. \A like : Plain(f, like) =>
            (k \in M!Matching(mem, f) <=>
                k \in L!Select(s, f, like) /\ (f.attrKey = Blank \/ Carries(mem.jobs[k].attrs, f)))
      BY SelectSame, Zenon
    <2> QED
      BY <2>2, <2>3, Zenon
  <1> QED
    BY <1>1, <1>3, <1>4, Zenon

----------------------------------------------------------------------------
(* Listings. *)

\* Lists that agree on the microsecond each place was enqueued in are in one order.
LEMMA OrderFromKeys ==
    ASSUME NEW s, DB(s), Mirrors(s), MemOK, NEW S \in SUBSET DOMAIN mem.jobs, NEW T,
           DOMAIN T = S, \A j, k \in S : T[j] = T[k] => L!Unix(mem.jobs[j].enqueuedAt) = L!Unix(mem.jobs[k].enqueuedAt),
           NEW a, NEW b, SameKeys(T, a, b)
    PROVE  SameOrder(s, a, b)
  <1>1. ASSUME NEW i \in DOMAIN a
        PROVE  Truncated(mem.jobs[a[i]].enqueuedAt) = L!FromUnix(s.jobs[b[i]].enqueuedAt)
    <2>1. a[i] \in S /\ b[i] \in S /\ T[a[i]] = T[b[i]]
      BY Zenon DEF SameKeys
    <2>2. L!Unix(mem.jobs[a[i]].enqueuedAt) = L!Unix(mem.jobs[b[i]].enqueuedAt)
      BY <2>1, Zenon
    <2>3. b[i] \in DOMAIN mem.jobs /\ b[i] \in Keys
      BY <2>1, Zenon DEF MemOK
    <2>4. s.jobs[b[i]].enqueuedAt = L!Unix(mem.jobs[b[i]].enqueuedAt)
      <3>1. ASSUME NEW k \in Keys, k \in DOMAIN mem.jobs
            PROVE  s.jobs[k].enqueuedAt = L!Unix(mem.jobs[k].enqueuedAt)
        <4>1. SameColumns(s.jobs[k], mem.jobs[k])
          BY <3>1, Zenon DEF Mirrors, Mirror
        <4> QED
          BY <4>1, MirrorColumns
      <3> QED
        BY <2>3, <3>1, Zenon
    <2> QED
      BY <2>2, <2>4, Zenon DEF Truncated
  <1> QED
    BY <1>1, Zenon DEF SameKeys, SameOrder

\* Newest first, of the same rows.
LEMMA NewestSame ==
    ASSUME TimesOK, MemOK, NEW s, DB(s), Mirrors(s), NEW S \in SUBSET DOMAIN mem.jobs
    PROVE  /\ SameOrder(s, InOrder(S, M!Newest(mem)), InOrder(S, L!Newest(s)))
           /\ \A limit, offset \in Nat : SameOrder(s, Window(InOrder(S, M!Newest(mem)), limit, offset),
                                                      Window(InOrder(S, L!Newest(s)), limit, offset))
  <1> DEFINE T == [k \in S |-> L!Unix(mem.jobs[k].enqueuedAt)]
             Q == M!Newest(mem)
             R == L!Newest(s)
             p == InOrder(S, Q)
             q == InOrder(S, R)
  <1>1. \A k \in S : /\ k \in Keys /\ mem.jobs[k].enqueuedAt \in Nat /\ L!Unix(mem.jobs[k].enqueuedAt) \in Nat
                     /\ s.jobs[k].enqueuedAt = L!Unix(mem.jobs[k].enqueuedAt)
    BY MemTimes, RowColumns, Zenon
  <1>2. T \in [S -> Int]
    BY <1>1
  <1>3. IsFiniteSet(S)
    BY <1>1, KeysFinite
  <1>4. Total(S, Q) /\ Total(S, R)
    BY MemOrder, RowOrder
  <1>5. ASSUME NEW j \in S, NEW k \in S
        PROVE  /\ <<j, k>> \in Q => T[j] >= T[k]
               /\ <<j, k>> \in R => T[j] >= T[k]
    <2>1. T[j] = L!Unix(mem.jobs[j].enqueuedAt) /\ T[k] = L!Unix(mem.jobs[k].enqueuedAt)
      OBVIOUS
    <2>2. <<j, k>> \in Q => mem.jobs[j].enqueuedAt >= mem.jobs[k].enqueuedAt
      BY MemOrder, Zenon
    <2>3. <<j, k>> \in R => s.jobs[j].enqueuedAt >= s.jobs[k].enqueuedAt
      BY RowOrder, Zenon
    <2>4. mem.jobs[j].enqueuedAt >= mem.jobs[k].enqueuedAt
            => L!Unix(mem.jobs[j].enqueuedAt) >= L!Unix(mem.jobs[k].enqueuedAt)
      BY <1>1, UnixFacts
    <2>5. s.jobs[j].enqueuedAt = L!Unix(mem.jobs[j].enqueuedAt) /\ s.jobs[k].enqueuedAt = L!Unix(mem.jobs[k].enqueuedAt)
      BY <1>1, Zenon
    <2> HIDE DEF T, Q, R
    <2> QED
      BY <2>1, <2>2, <2>3, <2>4, <2>5, Zenon
  <1>6. DOMAIN T = S /\ \A j, k \in S : T[j] = T[k] => L!Unix(mem.jobs[j].enqueuedAt) = L!Unix(mem.jobs[k].enqueuedAt)
    OBVIOUS
  <1> HIDE DEF T, Q, R
  <1>7. SameKeys(T, p, q)
    BY <1>2, <1>3, <1>4, <1>5, ListsSame
  <1>8. p \in Seq(S) /\ q \in Seq(S)
    BY <1>3, <1>4, SortedSeq
  <1> HIDE DEF p, q
  <1>9. SameOrder(s, p, q)
    BY <1>6, <1>7, OrderFromKeys
  <1>10. ASSUME NEW limit \in Nat, NEW offset \in Nat
         PROVE  SameOrder(s, Window(p, limit, offset), Window(q, limit, offset))
    <2>1. SameKeys(T, Window(p, limit, offset), Window(q, limit, offset))
      BY <1>7, <1>8, PagesSame
    <2> QED
      BY <1>6, <2>1, OrderFromKeys
  <1> QED
    BY <1>9, <1>10 DEF p, q, Q, R

\* Oldest first.
LEMMA OldestSame ==
    ASSUME TimesOK, MemOK, NEW s, DB(s), Mirrors(s), NEW S \in SUBSET DOMAIN mem.jobs
    PROVE  SameOrder(s, InOrder(S, M!Oldest(mem)), InOrder(S, L!Oldest(s)))
  <1> DEFINE T == [k \in S |-> 0 - L!Unix(mem.jobs[k].enqueuedAt)]
             Q == M!Oldest(mem)
             R == L!Oldest(s)
  <1>1. \A k \in S : /\ k \in Keys /\ mem.jobs[k].enqueuedAt \in Nat /\ L!Unix(mem.jobs[k].enqueuedAt) \in Nat
                     /\ s.jobs[k].enqueuedAt = L!Unix(mem.jobs[k].enqueuedAt)
    BY MemTimes, RowColumns, Zenon
  <1>2. T \in [S -> Int]
    BY <1>1
  <1>3. IsFiniteSet(S)
    BY <1>1, KeysFinite
  <1>4. Total(S, Q) /\ Total(S, R)
    BY MemOrder, RowOrder
  <1>5. ASSUME NEW j \in S, NEW k \in S
        PROVE  /\ <<j, k>> \in Q => T[j] >= T[k]
               /\ <<j, k>> \in R => T[j] >= T[k]
    <2> DEFINE m == L!Unix(mem.jobs[j].enqueuedAt)
               n == L!Unix(mem.jobs[k].enqueuedAt)
    <2>1. T[j] = 0 - m /\ T[k] = 0 - n
      OBVIOUS
    <2>2. <<j, k>> \in Q => mem.jobs[j].enqueuedAt <= mem.jobs[k].enqueuedAt
      BY MemOrder, Zenon
    <2>3. <<j, k>> \in R => s.jobs[j].enqueuedAt <= s.jobs[k].enqueuedAt
      BY RowOrder, Zenon
    <2>4. mem.jobs[j].enqueuedAt <= mem.jobs[k].enqueuedAt => m <= n
      BY <1>1, UnixFacts
    <2>5. s.jobs[j].enqueuedAt = m /\ s.jobs[k].enqueuedAt = n /\ m \in Nat /\ n \in Nat
      BY <1>1, Zenon
    <2> HIDE DEF T, Q, R, m, n
    <2>6. m <= n => T[j] >= T[k]
      BY <2>1, <2>5
    <2> QED
      BY <2>2, <2>3, <2>4, <2>5, <2>6, Zenon
  <1>6. DOMAIN T = S /\ \A j, k \in S : T[j] = T[k] => L!Unix(mem.jobs[j].enqueuedAt) = L!Unix(mem.jobs[k].enqueuedAt)
    BY <1>1
  <1> HIDE DEF T, Q, R
  <1>7. SameKeys(T, InOrder(S, Q), InOrder(S, R))
    BY <1>2, <1>3, <1>4, <1>5, ListsSame
  <1> QED
    BY <1>6, <1>7, OrderFromKeys DEF Q, R

\* Every page of a listing.
LEMMA JobsSame ==
    ASSUME TimesOK, MemOK, NEW s, DB(s), Mirrors(s), NEW f \in Filters
    PROVE  /\ Plain(f, ILike) => SameOrder(s, M!Jobs(mem, f), P!Jobs(s, f))
           /\ Plain(f, Like) /\ f.attrKey \notin PathKeys => SameOrder(s, M!Jobs(mem, f), L!Jobs(s, f))
  <1> DEFINE S == M!Matching(mem, f)
             limit == Clip(f.limit, JobLimits)
  <1>1. limit \in Nat /\ f.offset \in Nat
    <2>1. {f.before, f.limit, f.offset} \subseteq Nat
      BY DriversAssumption, Zenon
    <2>2. JobLimits.default \in Nat
      BY QueryAssumption, Zenon
    <2> QED
      BY <2>1, <2>2 DEF Clip
  <1>2. S \in SUBSET DOMAIN mem.jobs
    BY Zenon DEF M!Matching
  <1>3. M!Jobs(mem, f) = Window(InOrder(S, M!Newest(mem)), limit, f.offset)
    BY ReadRules, WindowRule, Zenon DEF M!Jobs
  <1>4. P!L!Newest(s) = L!Newest(s)
    BY DEF P!L!Newest, L!Newest, P!L!After, L!After
  <1>5. \A sel : /\ L!ListRows(s, sel, f) = Window(InOrder(sel, L!Newest(s)), limit, f.offset)
                 /\ P!L!ListRows(s, sel, f) = Window(InOrder(sel, L!Newest(s)), limit, f.offset)
    BY <1>4, ReadRules, WindowRule, Zenon DEF L!ListRows, P!L!ListRows
  <1>6. /\ P!Jobs(s, f) = P!L!ListRows(s, P!Predicate(s, f), f)
        /\ L!Jobs(s, f) = L!ListRows(s, L!Predicate(s, f), f)
    BY Zenon DEF P!Jobs, L!Jobs
  <1>7. /\ Plain(f, ILike) => P!Predicate(s, f) = S
        /\ Plain(f, Like) /\ f.attrKey \notin PathKeys => L!Predicate(s, f) = S
    BY SelectionsSame
  <1> HIDE DEF S, limit
  <1>8. SameOrder(s, Window(InOrder(S, M!Newest(mem)), limit, f.offset), Window(InOrder(S, L!Newest(s)), limit, f.offset))
    BY <1>1, <1>2, NewestSame
  <1> QED
    BY <1>3, <1>5, <1>6, <1>7, <1>8, Zenon

\* A lineage.
LEMMA LineageSame ==
    ASSUME TimesOK, MemOK, NEW s, DB(s), Mirrors(s), NEW epoch, NEW queue, NEW root
    PROVE  /\ SameOrder(s, M!Lineage(mem, epoch, queue, root), L!Lineage(s, epoch, queue, root))
           /\ SameOrder(s, M!Lineage(mem, epoch, queue, root), P!Lineage(s, epoch, queue, root))
  <1> DEFINE chain(jobs) == {k \in DOMAIN jobs : /\ jobs[k].epoch = epoch
                                                 /\ jobs[k].queue = queue
                                                 /\ root \in {jobs[k].root, KeyFor[k].id}}
  <1>1. M!Lineage(mem, epoch, queue, root) = InOrder(chain(mem.jobs), M!Oldest(mem))
    BY ReadRules, Zenon DEF M!Lineage
  <1>2. P!L!Oldest(s) = L!Oldest(s)
    BY DEF P!L!Oldest, L!Oldest, P!L!After, L!After
  <1>3. L!Lineage(s, epoch, queue, root) = InOrder(chain(s.jobs), L!Oldest(s))
    BY ReadRules, Zenon DEF L!Lineage
  <1>4. P!Lineage(s, epoch, queue, root) = InOrder(chain(s.jobs), L!Oldest(s))
    BY <1>2, ReadRules, Zenon DEF P!Lineage, P!L!Lineage
  <1>5. chain(s.jobs) = chain(mem.jobs)
    <2>1. DOMAIN mem.jobs \subseteq Keys /\ DOMAIN s.jobs \subseteq Keys
      BY Zenon DEF MemOK, DB
    <2>2. DOMAIN s.jobs = DOMAIN mem.jobs
      BY <2>1, RowColumns, Zenon
    <2>3. \A k \in DOMAIN mem.jobs : /\ s.jobs[k].epoch = mem.jobs[k].epoch
                                      /\ s.jobs[k].queue = mem.jobs[k].queue
                                      /\ s.jobs[k].root = mem.jobs[k].root
      BY <2>1, RowColumns, Zenon
    <2> QED
      BY <2>2, <2>3
  <1>6. chain(mem.jobs) \in SUBSET DOMAIN mem.jobs
    OBVIOUS
  <1> HIDE DEF chain
  <1>7. SameOrder(s, InOrder(chain(mem.jobs), M!Oldest(mem)), InOrder(chain(mem.jobs), L!Oldest(s)))
    BY <1>6, OldestSame
  <1> QED
    BY <1>1, <1>3, <1>4, <1>5, <1>7, Zenon

\* The tallies by state.
LEMMA CountsSame ==
    ASSUME MemOK, NEW s, DB(s), Mirrors(s)
    PROVE  M!Counts(mem) = L!Counts(s) /\ M!Counts(mem) = P!Counts(s)
  <1> DEFINE states(jobs) == {jobs[k].state : k \in DOMAIN jobs}
             in(jobs, st) == {k \in DOMAIN jobs : jobs[k].state = st}
  <1>1. DOMAIN mem.jobs \subseteq Keys /\ DOMAIN s.jobs \subseteq Keys
    BY Zenon DEF MemOK, DB
  <1>2. DOMAIN s.jobs = DOMAIN mem.jobs /\ \A k \in DOMAIN mem.jobs : s.jobs[k].state = mem.jobs[k].state
    BY <1>1, RowColumns, Zenon
  <1>3. states(s.jobs) = states(mem.jobs)
    BY <1>2
  <1>4. \A st : in(s.jobs, st) = in(mem.jobs, st)
    BY <1>2
  <1>5. /\ M!Counts(mem) = [st \in states(mem.jobs) |-> Cardinality(in(mem.jobs, st))]
        /\ L!Counts(s) = [st \in states(s.jobs) |-> Cardinality(in(s.jobs, st))]
        /\ P!Counts(s) = [st \in states(s.jobs) |-> Cardinality(in(s.jobs, st))]
    BY DEF M!Counts, L!Counts, P!Counts, P!L!Counts, M!Cardinality, L!Cardinality, P!L!Cardinality, Cardinality
  <1> HIDE DEF states, in
  <1> QED
    BY <1>3, <1>4, <1>5

\* Without ties and races, and between prunes, both databases mirror memory.
LEMMA CleanMirrors ==
    ASSUME AgreeInv, Clean
    PROVE  Mirrors(lite) /\ Mirrors(pg)
  <1> SUFFICES ASSUME NEW k \in Keys
               PROVE  Mirror(mem, lite, k) /\ Mirror(mem, pg, k)
    BY Zenon DEF Mirrors
  <1>1. pruning = {} /\ past[k] \intersect {"tied", "raced"} = {}
    BY Zenon DEF Clean
  <1>2. Untied(k) /\ Unraced(k)
    BY <1>1, Zenon DEF Untied, Unraced
  <1> QED
    BY <1>1, <1>2, Zenon DEF AgreeInv, AgreeLite, AgreePg

LEMMA ListingsFollow ==
    ASSUME StoresInv, AgreeInv
    PROVE  ListingsAgree
  <1> SUFFICES ASSUME Clean PROVE
        /\ \A f \in Filters :
            /\ Plain(f, ILike) =>
                /\ P!Predicate(pg, f) = M!Matching(mem, f) /\ P!CountJobs(pg, f) = M!CountJobs(mem, f)
                /\ SameOrder(pg, M!Jobs(mem, f), P!Jobs(pg, f))
            /\ Plain(f, Like) /\ f.attrKey \notin PathKeys =>
                /\ L!Predicate(lite, f) = M!Matching(mem, f) /\ L!CountJobs(lite, f) = M!CountJobs(mem, f)
                /\ SameOrder(lite, M!Jobs(mem, f), L!Jobs(lite, f))
        /\ \A k \in Keys :
            LET line == M!Lineage(mem, KeyFor[k].epoch, KeyFor[k].queue, RootOf[k]) IN
            /\ SameOrder(lite, line, L!Lineage(lite, KeyFor[k].epoch, KeyFor[k].queue, RootOf[k]))
            /\ SameOrder(pg, line, P!Lineage(pg, KeyFor[k].epoch, KeyFor[k].queue, RootOf[k]))
        /\ M!Counts(mem) = L!Counts(lite) /\ M!Counts(mem) = P!Counts(pg)
    BY Zenon DEF ListingsAgree
  <1>1. TimesOK /\ MemOK /\ DB(lite) /\ DB(pg)
    BY Zenon DEF StoresInv
  <1>2. Mirrors(lite) /\ Mirrors(pg)
    BY CleanMirrors
  <1>4. ASSUME NEW f \in Filters
        PROVE  /\ Plain(f, ILike) =>
                    /\ P!Predicate(pg, f) = M!Matching(mem, f) /\ P!CountJobs(pg, f) = M!CountJobs(mem, f)
                    /\ SameOrder(pg, M!Jobs(mem, f), P!Jobs(pg, f))
               /\ Plain(f, Like) /\ f.attrKey \notin PathKeys =>
                    /\ L!Predicate(lite, f) = M!Matching(mem, f) /\ L!CountJobs(lite, f) = M!CountJobs(mem, f)
                    /\ SameOrder(lite, M!Jobs(mem, f), L!Jobs(lite, f))
    <2>1. /\ Plain(f, ILike) => P!Predicate(pg, f) = M!Matching(mem, f)
          /\ Plain(f, Like) /\ f.attrKey \notin PathKeys => L!Predicate(lite, f) = M!Matching(mem, f)
      BY <1>1, <1>2, SelectionsSame, Zenon
    <2>2. /\ P!CountJobs(pg, f) = Cardinality(P!Predicate(pg, f))
          /\ L!CountJobs(lite, f) = Cardinality(L!Predicate(lite, f))
          /\ M!CountJobs(mem, f) = Cardinality(M!Matching(mem, f))
      BY CardinalityRule, Zenon DEF P!CountJobs, L!CountJobs, M!CountJobs
    <2>3. /\ Plain(f, ILike) => SameOrder(pg, M!Jobs(mem, f), P!Jobs(pg, f))
          /\ Plain(f, Like) /\ f.attrKey \notin PathKeys
                => SameOrder(lite, M!Jobs(mem, f), L!Jobs(lite, f))
      BY <1>1, <1>2, JobsSame, Zenon
    <2> QED
      BY <2>1, <2>2, <2>3, Zenon
  <1>5. \A e, q, r :
            /\ SameOrder(lite, M!Lineage(mem, e, q, r), L!Lineage(lite, e, q, r))
            /\ SameOrder(pg, M!Lineage(mem, e, q, r), P!Lineage(pg, e, q, r))
    BY <1>1, <1>2, LineageSame, Zenon
  <1>6. M!Counts(mem) = L!Counts(lite) /\ M!Counts(mem) = P!Counts(pg)
    BY <1>1, <1>2, CountsSame, Zenon
  <1> QED
    BY <1>4, <1>5, <1>6, Zenon

\* A reader gets the same answer from every driver, for any jobs, pages and sequence of
\* calls without ties or races, the records of a job in any order, and whatever the
\* three ways to match a term do: the same jobs selected and counted, every page of a
\* listing and every lineage in the same order up to jobs enqueued within one
\* microsecond, the same tallies by state.  The filters are those whose terms the
\* driver's pattern match finds where memory finds them, whose Before shares its
\* microsecond with no enqueue time, and on SQLite whose attribute key is not a path.
THEOREM ListingsAlwaysAgree == Spec => []ListingsAgree
  <1> DEFINE Inv == StoresInv /\ Lockstep(lite) /\ Lockstep(pg) /\ AgreeInv
  <1>1. Init => Inv
    BY InitStores, InitLockstep, InitAgree
  <1>2. Inv /\ [Next]_vars => Inv'
    BY StoresStep, LockstepStep, AgreeStep, Zenon
  <1>3. Inv => ListingsAgree
    BY ListingsFollow
  <1> QED
    BY <1>1, <1>2, <1>3, PTL DEF Spec

----------------------------------------------------------------------------
(* Timelines. *)

LEMMA SlotBounds ==
    ASSUME NEW n \in Nat \ {0}, NEW a \in Int, NEW q \in Int
    PROVE  a \div n = q <=> n * q <= a /\ a < n * q + n
  <1> DEFINE p == a \div n
  <1>1. p \in Int /\ n * p <= a /\ a < n * p + n
    BY DivBounds
  <1> HIDE DEF p
  <1>2. ASSUME n * q <= a, a < n * q + n
        PROVE  p = q
    <2>1. n * p < n * q + n /\ n * q < n * p + n
      BY <1>1, <1>2
    <2>2. p < q + 1 /\ q < p + 1
      <3>1. n * p < n * (q + 1) /\ n * q < n * (p + 1)
        BY <1>1, <2>1
      <3> QED
        BY <1>1, <3>1
    <2> QED
      BY <1>1, <2>2
  <1> QED
    BY <1>1, <1>2 DEF p

Width == Bucket \div Nanos

LEMMA BucketFacts ==
    /\ Bucket \in Nat \ {0} /\ Nanos \in Nat \ {0} /\ Width \in Nat \ {0} /\ Bucket = Nanos * Width
  <1>1. Bucket \in Nat \ {0} /\ Bucket % Nanos = 0
    BY DriversAssumption, Zenon
  <1>2. Nanos \in Nat \ {0}
    BY Constants
  <1> DEFINE w == Bucket \div Nanos
  <1>3. w \in Int /\ Nanos * w <= Bucket /\ Bucket < Nanos * w + Nanos
    BY <1>1, <1>2, DivBounds
  <1>4. Bucket = Nanos * w
    BY <1>1, <1>2
  <1> HIDE DEF w
  <1>5. w > 0
    BY <1>1, <1>2, <1>3, <1>4
  <1> QED
    BY <1>1, <1>2, <1>3, <1>4, <1>5 DEF Width, w

\* A time and its microseconds are in the same slot.
LEMMA SlotSame ==
    ASSUME NEW t \in Nat
    PROVE  L!Unix(t) \div Width = t \div Bucket /\ t \div Bucket \in Nat
  <1>0. /\ Bucket \in Nat \ {0} /\ Nanos \in Nat \ {0} /\ Width \in Nat \ {0} /\ Bucket = Nanos * Width
    BY BucketFacts
  <1> DEFINE u == t \div Nanos
             q == u \div Width
  <1>1. L!Unix(t) = u
    <2>1. 0 \div Nanos = 0
      BY <1>0
    <2> QED
      BY <2>1 DEF L!Unix
  <1>2. u \in Int /\ Nanos * u <= t /\ t < Nanos * u + Nanos
    BY <1>0, DivBounds
  <1> HIDE DEF u
  <1>3. q \in Int /\ Width * q <= u /\ u < Width * q + Width
    BY <1>0, <1>2, DivBounds
  <1> HIDE DEF q
  <1>4. Nanos * (Width * q) <= t
    <2>1. Nanos * (Width * q) <= Nanos * u
      BY <1>0, <1>2, <1>3
    <2> QED
      BY <1>0, <1>2, <1>3, <2>1
  <1>5. t < Nanos * (Width * q) + Nanos * Width
    <2> DEFINE m == Width * q + Width
    <2>1. m \in Int /\ u + 1 <= m
      BY <1>0, <1>2, <1>3
    <2> HIDE DEF m
    <2>2. Nanos * (u + 1) <= Nanos * m
      BY <1>0, <1>2, <2>1
    <2>3. t < Nanos * m
      BY <1>0, <1>2, <2>1, <2>2
    <2>4. Nanos * m = Nanos * (Width * q) + Nanos * Width
      BY <1>0, <1>3 DEF m
    <2> QED
      BY <2>3, <2>4
  <1>6. Nanos * (Width * q) = Bucket * q
    BY <1>0, <1>3
  <1>7. t \div Bucket = q
    BY <1>0, <1>3, <1>4, <1>5, <1>6, SlotBounds
  <1>8. q >= 0
    <2>1. 0 \div Bucket = 0
      BY <1>0
    <2>2. 0 \div Bucket <= t \div Bucket
      BY <1>0, DivMonotone
    <2> QED
      BY <1>3, <1>7, <2>1, <2>2
  <1> QED
    BY <1>1, <1>3, <1>7, <1>8 DEF q

LEMMA SlotStart ==
    ASSUME NEW x \in Nat
    PROVE  L!FromUnix(x * Width) = x * Bucket
  <1>0. /\ Bucket \in Nat \ {0} /\ Nanos \in Nat \ {0} /\ Width \in Nat \ {0} /\ Bucket = Nanos * Width
    BY BucketFacts
  <1>1. (x * Width) * Nanos = x * Bucket
    BY <1>0
  <1>2. x * Width = 0 => x * Bucket = 0
    BY <1>0, <1>1
  <1> QED
    BY <1>1, <1>2, Zenon DEF L!FromUnix

\* The jobs of a slot that ended in some states, and what a timeline must show.
InSlot(states, since, slot) ==
    {k \in DOMAIN mem.jobs : /\ mem.jobs[k].state \in states /\ LastActive(mem.jobs[k]) >= since
                             /\ LastActive(mem.jobs[k]) \div Bucket = slot}

First(since) == since \div Bucket

Slots(since) == (clock \div Bucket) - First(since) + 1

Filled(line, since) ==
    /\ Len(line) = Slots(since) /\ DOMAIN line = 1..Slots(since)
    /\ \A i \in 1..Slots(since) :
        /\ line[i].start = (First(since) + i - 1) * Bucket
        /\ line[i].completed = Cardinality(InSlot({"completed"}, since, First(since) + i - 1))
        /\ line[i].failed = Cardinality(InSlot(FailureStates, since, First(since) + i - 1))

Accounts(line, since) ==
    /\ \A i \in DOMAIN line :
        LET b == line[i] IN
        /\ b.completed = Ended({"completed"}, since, b.start)
        /\ b.failed = Ended(FailureStates, since, b.start)
        /\ i > 1 => b.start = line[i - 1].start + Bucket
    /\ line[1].start <= since /\ line[Len(line)].start + Bucket > clock

LEMMA MemActive ==
    ASSUME TimesOK, MemOK, NEW k \in DOMAIN mem.jobs
    PROVE  LastActive(mem.jobs[k]) \in Nat /\ k \in Keys /\ mem.jobs[k].state \in State
  <1>1. k \in Keys /\ JobOK(k, mem.jobs[k], clock, when[k].finished) /\ clock \in Nat
    BY ClockPositive DEF MemOK
  <1> DEFINE job == mem.jobs[k]
  <1>2. job.enqueuedAt \in Instants(clock) /\ job.finishedAt \in Instants(clock) /\ job.state \in State
    BY <1>1, Zenon DEF JobOK
  <1> HIDE DEF job
  <1>3. job.enqueuedAt \in Nat /\ job.finishedAt \in Nat
    BY <1>1, <1>2, InstantTimes
  <1>4. LastActive(job) \in Nat
    BY <1>3 DEF LastActive, Larger
  <1> QED
    BY <1>1, <1>2, <1>4 DEF job

LEMMA SlotEnded ==
    ASSUME TimesOK, MemOK, NEW states, NEW since, NEW slot \in Nat
    PROVE  Cardinality(InSlot(states, since, slot)) = Ended(states, since, slot * Bucket)
  <1>0. Bucket \in Nat \ {0}
    BY BucketFacts
  <1>1. \A a \in Nat : a \div Bucket = slot <=> a \in (slot * Bucket)..(slot * Bucket + Bucket - 1)
    <2> SUFFICES ASSUME NEW a \in Nat
                 PROVE  a \div Bucket = slot <=> a \in (slot * Bucket)..(slot * Bucket + Bucket - 1)
      OBVIOUS
    <2>1. a \div Bucket = slot <=> Bucket * slot <= a /\ a < Bucket * slot + Bucket
      BY <1>0, SlotBounds
    <2>2. Bucket * slot = slot * Bucket /\ slot * Bucket \in Int
      BY <1>0
    <2> HIDE DEF First
    <2> QED
      BY <1>0, <2>1, <2>2
  <1> DEFINE in == {k \in DOMAIN mem.jobs : /\ mem.jobs[k].state \in states
                                            /\ LastActive(mem.jobs[k]) >= since
                                            /\ LastActive(mem.jobs[k]) \in (slot * Bucket)..(slot * Bucket + Bucket - 1)}
  <1>2. InSlot(states, since, slot) = in
    BY <1>1, MemActive, Zenon DEF InSlot
  <1> QED
    BY <1>2, Zenon DEF Ended

LEMMA FilledAccounts ==
    ASSUME TimesOK, MemOK, NEW since \in Nat, since <= clock, NEW line, Filled(line, since)
    PROVE  Accounts(line, since)
  <1> DEFINE f == First(since)
             n == Slots(since)
             l == clock \div Bucket
  <1>0. Bucket \in Nat \ {0} /\ clock \in Nat
    BY BucketFacts, ClockPositive
  <1>1. /\ f \in Nat /\ Bucket * f <= since
        /\ l \in Nat /\ clock < Bucket * l + Bucket
    BY <1>0, SlotSame, DivBounds DEF First
  <1>2. f <= l
    BY <1>0, DivMonotone DEF First
  <1>3. n = l - f + 1
    BY DEF Slots
  <1> HIDE DEF f, n, l
  <1>4. n \in Nat \ {0} /\ 1 \in 1..n /\ n \in 1..n
    BY <1>1, <1>2, <1>3
  <1>5. /\ Len(line) = n /\ DOMAIN line = 1..n
        /\ \A i \in 1..n : /\ line[i].start = (f + i - 1) * Bucket
                           /\ line[i].completed = Cardinality(InSlot({"completed"}, since, f + i - 1))
                           /\ line[i].failed = Cardinality(InSlot(FailureStates, since, f + i - 1))
    BY Zenon DEF Filled, f, n
  <1>6. ASSUME NEW i \in 1..n
        PROVE  /\ line[i].completed = Ended({"completed"}, since, line[i].start)
               /\ line[i].failed = Ended(FailureStates, since, line[i].start)
               /\ i > 1 => line[i].start = line[i - 1].start + Bucket
    <2>1. f + i - 1 \in Nat
      BY <1>1, <1>4
    <2>2. /\ line[i].start = (f + i - 1) * Bucket
          /\ line[i].completed = Cardinality(InSlot({"completed"}, since, f + i - 1))
          /\ line[i].failed = Cardinality(InSlot(FailureStates, since, f + i - 1))
      BY <1>5, Zenon
    <2>3. /\ line[i].completed = Ended({"completed"}, since, line[i].start)
          /\ line[i].failed = Ended(FailureStates, since, line[i].start)
      BY <2>1, <2>2, SlotEnded, Zenon
    <2>4. ASSUME i > 1
          PROVE  line[i].start = line[i - 1].start + Bucket
      <3>1. i - 1 \in 1..n
        BY <1>4, <2>4
      <3>2. line[i - 1].start = (f + (i - 1) - 1) * Bucket
        BY <1>5, <3>1
      <3>3. (f + i - 1) * Bucket = (f + (i - 1) - 1) * Bucket + Bucket
        BY <1>0, <1>1, <3>1
      <3> QED
        BY <2>2, <3>2, <3>3
    <2> QED
      BY <2>3, <2>4
  <1>7. line[1].start <= since
    <2>1. line[1].start = (f + 1 - 1) * Bucket
      BY <1>4, <1>5, Zenon
    <2>2. (f + 1 - 1) * Bucket = Bucket * f
      BY <1>0, <1>1
    <2> QED
      BY <1>1, <2>1, <2>2
  <1>8. line[n].start + Bucket > clock
    <2>1. line[n].start = (f + n - 1) * Bucket
      BY <1>4, <1>5, Zenon
    <2>2. f + n - 1 = l
      BY <1>1, <1>3
    <2>3. l * Bucket = Bucket * l
      BY <1>0, <1>1
    <2>4. line[n].start = Bucket * l
      BY <2>1, <2>2, <2>3
    <2>5. Bucket * l \in Int
      BY <1>0, <1>1
    <2> QED
      BY <1>0, <1>1, <2>4, <2>5
  <1> QED
    BY <1>5, <1>6, <1>7, <1>8, Zenon DEF Accounts

LEMMA EndedStates ==
    ASSUME NEW st, st = "completed" \/ st \in FailureStates
    PROVE  Rank(st) = 3
  BY DEF FailureStates, Rank

\* The timeline of the jobs that ended in each slot.
Line(since) ==
    [i \in 1..Slots(since) |->
        [start |-> (First(since) + i - 1) * Bucket,
         completed |-> Cardinality(InSlot({"completed"}, since, First(since) + i - 1)),
         failed |-> Cardinality(InSlot(FailureStates, since, First(since) + i - 1))]]

LEMMA LineFilled ==
    ASSUME TimesOK, NEW since \in Nat, since <= clock
    PROVE  Filled(Line(since), since)
  <1> DEFINE n == Slots(since)
             f == First(since)
             g == Line(since)
  <1>1. n \in Nat
    <2>1. f \in Nat /\ clock \div Bucket \in Nat /\ f <= clock \div Bucket
      <3>1. Bucket \in Nat \ {0} /\ clock \in Nat
        BY BucketFacts, ClockPositive
      <3>2. since \div Bucket \in Nat /\ clock \div Bucket \in Nat
        BY <3>1, SlotSame
      <3>3. since \div Bucket <= clock \div Bucket
        BY <3>1, DivMonotone
      <3> QED
        BY <3>2, <3>3, Zenon DEF First
    <2> QED
      BY <2>1 DEF Slots
  <1>2. DOMAIN g = 1..n
    BY Zenon DEF Line
  <1>3. g \in Seq({g[i] : i \in 1..n})
    <2>1. g = [i \in 1..n |-> g[i]]
      BY Zenon DEF Line
    <2> HIDE DEF g, n
    <2> QED
      BY <1>1, <2>1
  <1> HIDE DEF g, n
  <1>4. Len(g) = n
    BY <1>1, <1>2, <1>3
  <1>5. \A i \in 1..n :
            /\ g[i].start = (f + i - 1) * Bucket
            /\ g[i].completed = Cardinality(InSlot({"completed"}, since, f + i - 1))
            /\ g[i].failed = Cardinality(InSlot(FailureStates, since, f + i - 1))
    BY Zenon DEF Line, g, n
  <1> QED
    BY <1>2, <1>4, <1>5, Zenon DEF Filled, f, g, n

LEMMA MemTimeline ==
    ASSUME TimesOK, MemOK, NEW since \in Nat, since # 0
    PROVE  \/ /\ M!Timeline(mem, since, Bucket, clock).err = TRUE
              /\ (clock - since) \div Bucket > MaxBuckets
           \/ M!Timeline(mem, since, Bucket, clock).buckets = Line(since)
  <1> DEFINE tooLong == (clock - since) \div Bucket > MaxBuckets
             in(slot, states) ==
                {k \in {k \in DOMAIN mem.jobs : M!Terminal(mem.jobs[k].state) /\ M!LastActive(mem.jobs[k]) >= since} :
                    M!LastActive(mem.jobs[k]) \div Bucket = slot /\ mem.jobs[k].state \in states}
             line == [i \in 1..((clock \div Bucket) - (since \div Bucket) + 1) |->
                        [start |-> ((since \div Bucket) + i - 1) * Bucket,
                         completed |-> M!Cardinality(in((since \div Bucket) + i - 1, {"completed"})),
                         failed |-> M!Cardinality(in((since \div Bucket) + i - 1, M!FailureStates))]]
  <1>0. M!SinceWhen(since, clock) = clock - since
    BY DEF M!SinceWhen
  <1>1. ASSUME tooLong
        PROVE  M!Timeline(mem, since, Bucket, clock) = [err |-> TRUE, buckets |-> <<>>]
    BY <1>0, <1>1, Zenon DEF M!Timeline
  <1>2. ASSUME ~tooLong
        PROVE  M!Timeline(mem, since, Bucket, clock) = [err |-> FALSE, buckets |-> line]
    BY <1>0, <1>2, Zenon DEF M!Timeline
  <1>3. ASSUME NEW slot, NEW states, \A st \in states : Rank(st) = 3
        PROVE  M!Cardinality(in(slot, states)) = Cardinality(InSlot(states, since, slot))
    <2>1. in(slot, states) = InSlot(states, since, slot)
      BY <1>3, Zenon DEF InSlot, M!Terminal, M!Rank, Rank, M!LastActive, LastActive, M!Larger, Larger
    <2> QED
      BY <2>1, CardinalityRule, Zenon
  <1>4. \A i : /\ M!Cardinality(in((since \div Bucket) + i - 1, {"completed"}))
                    = Cardinality(InSlot({"completed"}, since, (since \div Bucket) + i - 1))
               /\ M!Cardinality(in((since \div Bucket) + i - 1, M!FailureStates))
                    = Cardinality(InSlot(FailureStates, since, (since \div Bucket) + i - 1))
    <2>1. (\A st \in {"completed"} : Rank(st) = 3) /\ (\A st \in FailureStates : Rank(st) = 3)
      BY EndedStates
    <2>2. M!FailureStates = FailureStates
      BY DEF M!FailureStates, FailureStates
    <2> HIDE DEF in
    <2> QED
      BY <1>3, <2>1, <2>2, Zenon
  <1>5. line = Line(since)
    <2> HIDE DEF in
    <2> QED
      BY <1>4, Zenon DEF Line, Slots, First
  <1>6. [err |-> TRUE, buckets |-> <<>>].err = TRUE
    BY Zenon
  <1> HIDE DEF line
  <1>7. [err |-> FALSE, buckets |-> line].buckets = line
    BY Zenon
  <1> HIDE DEF tooLong
  <1>8. CASE tooLong
    BY <1>1, <1>6, <1>8, Zenon DEF tooLong
  <1>9. CASE ~tooLong
    BY <1>2, <1>5, <1>7, <1>9, Zenon
  <1> QED
    BY <1>8, <1>9

\* A database reads the rows it mirrors into the same slots.
LEMMA SlotsSame ==
    ASSUME TimesOK, MemOK, NEW s, DB(s), Mirrors(s), NEW since \in Nat,
           \A k \in DOMAIN mem.jobs : ~Near(LastActive(mem.jobs[k]), since),
           NEW slot, NEW states, \A st \in states : Rank(st) = 3
    PROVE  {k \in {k \in DOMAIN s.jobs : s.jobs[k].rank = 3 /\ L!LastSeen(s.jobs[k]) >= L!Unix(since)} :
                L!LastSeen(s.jobs[k]) \div Width = slot /\ s.jobs[k].state \in states}
             = InSlot(states, since, slot)
  <1> DEFINE seen(k) == L!LastSeen(s.jobs[k])
  <1>1. ASSUME NEW k \in Keys, k \in DOMAIN mem.jobs
        PROVE  /\ seen(k) >= L!Unix(since) <=> LastActive(mem.jobs[k]) >= since
               /\ seen(k) \div Width = LastActive(mem.jobs[k]) \div Bucket
               /\ s.jobs[k].state = mem.jobs[k].state
               /\ s.jobs[k].rank = Rank(mem.jobs[k].state)
    <2> DEFINE row == s.jobs[k]
               job == mem.jobs[k]
               a == LastActive(job)
    <2>1. /\ row.state = job.state /\ row.rank = Rank(job.state)
          /\ row.enqueuedAt = L!Unix(job.enqueuedAt) /\ row.finishedAt = L!Unix(job.finishedAt)
      BY <1>1, RowColumns, Zenon
    <2>2. JobOK(k, job, clock, when[k].finished) /\ clock \in Nat
      BY <1>1, ClockPositive DEF MemOK
    <2> HIDE DEF row, job
    <2>3. a \in Nat /\ L!LastSeen(row) = L!Unix(a)
      BY <2>1, <2>2, LastSeenSame
    <2>4. ~Near(a, since)
      BY <1>1, Zenon DEF job
    <2> HIDE DEF a
    <2>5. L!Unix(a) \in Nat /\ L!Unix(since) \in Nat
      BY <2>3, UnixFacts
    <2>6. a >= since => L!Unix(a) >= L!Unix(since)
      BY <2>3, UnixFacts
    <2>7. a < since => L!Unix(a) < L!Unix(since)
      BY <2>3, <2>4, <2>5, NearTimes DEF Near
    <2>8. L!Unix(a) >= L!Unix(since) <=> a >= since
      BY <2>3, <2>5, <2>6, <2>7
    <2>9. L!Unix(a) \div Width = a \div Bucket
      BY <2>3, SlotSame
    <2> QED
      BY <2>1, <2>3, <2>8, <2>9, Zenon DEF row, job, a
  <1> HIDE DEF seen
  <1>2. ASSUME NEW k
        PROVE  /\ k \in DOMAIN s.jobs <=> k \in DOMAIN mem.jobs
               /\ k \in DOMAIN mem.jobs => k \in Keys
    BY RowColumns, Zenon DEF MemOK, DB
  <1>3. {k \in {k \in DOMAIN s.jobs : s.jobs[k].rank = 3 /\ seen(k) >= L!Unix(since)} :
            seen(k) \div Width = slot /\ s.jobs[k].state \in states}
          = InSlot(states, since, slot)
    BY <1>1, <1>2, Zenon DEF InSlot
  <1> QED
    BY <1>3, Zenon DEF seen

LEMMA BaseTimeline ==
    ASSUME TimesOK, MemOK, NEW s, DB(s), Mirrors(s), NEW since \in Nat, since >= Nanos, since <= clock,
           \A k \in DOMAIN mem.jobs : ~Near(LastActive(mem.jobs[k]), since)
    PROVE  \/ /\ L!Timeline(s, since, Bucket, clock).err = TRUE
              /\ (clock - since) \div Bucket > MaxBuckets
           \/ L!Timeline(s, since, Bucket, clock).buckets = Line(since)
  <1> DEFINE tooLong == (clock - since) \div Bucket > MaxBuckets
             first == L!Unix(since) \div Width
             last == L!LastSlot(clock, Width)
             in(slot, states) ==
                {k \in {k \in DOMAIN s.jobs : s.jobs[k].rank = 3 /\ L!LastSeen(s.jobs[k]) >= L!Unix(since)} :
                    L!LastSeen(s.jobs[k]) \div Width = slot /\ s.jobs[k].state \in states}
             line == [i \in 1..(last - first + 1) |->
                        [start |-> L!FromUnix((first + i - 1) * Width),
                         completed |-> L!Cardinality(in(first + i - 1, {"completed"})),
                         failed |-> L!Cardinality(in(first + i - 1, L!FailureStates))]]
  <1>0. L!SinceWhen(since, clock) = clock - since /\ L!Unix(since) # 0 /\ clock \in Nat
    <2>1. Nanos \in Nat \ {0} /\ clock \in Nat
      BY Constants, ClockPositive
    <2>2. L!Unix(since) > 0 /\ L!Unix(since) \in Nat
      BY UnixFacts
    <2>3. since # 0
      BY <2>1
    <2> QED
      BY <2>1, <2>2, <2>3 DEF L!SinceWhen
  <1>1. ASSUME tooLong
        PROVE  L!Timeline(s, since, Bucket, clock) = [err |-> TRUE, buckets |-> <<>>]
    BY <1>0, <1>1, Zenon DEF L!Timeline
  <1>2. ASSUME ~tooLong
        PROVE  L!Timeline(s, since, Bucket, clock) = [err |-> FALSE, buckets |-> line]
    BY <1>0, <1>2, Zenon DEF L!Timeline, Width
  <1>3. first = First(since) /\ last = clock \div Bucket /\ First(since) \in Nat
    BY <1>0, SlotSame, Zenon DEF L!LastSlot, First
  <1>4. ASSUME NEW slot, NEW states, \A st \in states : Rank(st) = 3
        PROVE  L!Cardinality(in(slot, states)) = Cardinality(InSlot(states, since, slot))
    <2>1. in(slot, states) = InSlot(states, since, slot)
      BY <1>4, SlotsSame
    <2> HIDE DEF in
    <2> QED
      BY <2>1, CardinalityRule, Zenon
  <1> HIDE DEF in, first, last
  <1>5. \A slot : /\ L!Cardinality(in(slot, {"completed"})) = Cardinality(InSlot({"completed"}, since, slot))
                  /\ L!Cardinality(in(slot, L!FailureStates)) = Cardinality(InSlot(FailureStates, since, slot))
    <2>1. (\A st \in {"completed"} : Rank(st) = 3) /\ (\A st \in FailureStates : Rank(st) = 3)
      BY EndedStates
    <2>2. L!FailureStates = FailureStates
      BY DEF L!FailureStates, FailureStates
    <2> QED
      BY <1>4, <2>1, <2>2, Zenon
  <1>6. \A i \in 1..Slots(since) : L!FromUnix((First(since) + i - 1) * Width) = (First(since) + i - 1) * Bucket
    <2> SUFFICES ASSUME NEW i \in 1..Slots(since)
                 PROVE  L!FromUnix((First(since) + i - 1) * Width) = (First(since) + i - 1) * Bucket
      OBVIOUS
    <2>1. First(since) + i - 1 \in Nat
      <3>1. i \in Nat /\ i >= 1
        OBVIOUS
      <3> QED
        BY <1>3, <3>1
    <2> QED
      BY <2>1, SlotStart, Zenon
  <1>7. line = Line(since)
    BY <1>3, <1>5, <1>6, Zenon DEF Line, Slots
  <1> HIDE DEF line
  <1>8. [err |-> TRUE, buckets |-> <<>>].err = TRUE /\ [err |-> FALSE, buckets |-> line].buckets = line
    BY Zenon
  <1> HIDE DEF tooLong
  <1>9. CASE tooLong
    BY <1>1, <1>8, <1>9, Zenon DEF tooLong
  <1>10. CASE ~tooLong
    BY <1>2, <1>7, <1>8, <1>10, Zenon
  <1> QED
    BY <1>9, <1>10

LEMMA TimelinesFollow ==
    ASSUME StoresInv, AgreeInv
    PROVE  TimelineAccounts
  <1>1. TimesOK /\ MemOK /\ DB(lite) /\ DB(pg)
    BY Zenon DEF StoresInv
  <1>2. ASSUME Clean, NEW since \in Sinces \intersect Nanos..clock,
               NEW t \in {M!Timeline(mem, since, Bucket, clock), L!Timeline(lite, since, Bucket, clock),
                          P!Timeline(pg, since, Bucket, clock)},
               ~\E k \in DOMAIN mem.jobs : Near(LastActive(mem.jobs[k]), since)
        PROVE  \/ t.err /\ (clock - since) \div Bucket > MaxBuckets
               \/ Accounts(t.buckets, since)
    <2>1. Mirrors(lite) /\ Mirrors(pg)
      BY <1>2, CleanMirrors, Zenon
    <2>2. since \in Nat /\ since # 0 /\ since >= Nanos /\ since <= clock
      <3>1. Nanos \in Nat \ {0} /\ clock \in Nat
        BY <1>1, Constants, ClockPositive
      <3> QED
        BY <3>1
    <2>3. \A k \in DOMAIN mem.jobs : ~Near(LastActive(mem.jobs[k]), since)
      BY <1>2, Zenon
    <2>4. ASSUME NEW s, P!L!Timeline(s, since, Bucket, clock) # L!Timeline(s, since, Bucket, clock)
          PROVE  FALSE
      BY <2>4, Zenon DEF P!L!Timeline, L!Timeline, P!L!LastSeen, L!LastSeen, P!L!Unix, L!Unix, P!L!FromUnix,
         L!FromUnix, P!L!SinceWhen, L!SinceWhen, P!L!Cardinality, L!Cardinality, P!L!FailureStates,
         L!FailureStates, P!L!LastSlot, L!LastSlot, P!L!Larger, L!Larger
    <2>5. P!Timeline(pg, since, Bucket, clock) = L!Timeline(pg, since, Bucket, clock)
      BY <2>4, Zenon DEF P!Timeline
    <2>6. \/ t.err = TRUE /\ (clock - since) \div Bucket > MaxBuckets
          \/ t.buckets = Line(since)
      <3>1. \/ /\ M!Timeline(mem, since, Bucket, clock).err = TRUE
               /\ (clock - since) \div Bucket > MaxBuckets
            \/ M!Timeline(mem, since, Bucket, clock).buckets = Line(since)
        BY <1>1, <2>2, MemTimeline, Zenon
      <3>2. \A s \in {lite, pg} :
                \/ /\ L!Timeline(s, since, Bucket, clock).err = TRUE
                   /\ (clock - since) \div Bucket > MaxBuckets
                \/ L!Timeline(s, since, Bucket, clock).buckets = Line(since)
        BY <1>1, <2>1, <2>2, <2>3, BaseTimeline, Zenon
      <3> QED
        BY <1>2, <2>5, <3>1, <3>2, Zenon
    <2>7. Accounts(Line(since), since)
      BY <1>1, <2>2, LineFilled, FilledAccounts, Zenon
    <2> QED
      BY <2>6, <2>7, Zenon
  <1> QED
    BY <1>2, Zenon DEF TimelineAccounts, Accounts

\* A timeline accounts for every job, on every driver, for any cutoff, width of a bucket
\* and sequence of calls without ties or races: unless it is refused as too long, its
\* buckets follow one another from the cutoff to now and each counts exactly the jobs
\* that ended within it, so that rounding to microseconds moves no job to another bucket.
THEOREM TimelineAccountsAlways == Spec => []TimelineAccounts
  <1> DEFINE Inv == StoresInv /\ Lockstep(lite) /\ Lockstep(pg) /\ AgreeInv
  <1>1. Init => Inv
    BY InitStores, InitLockstep, InitAgree
  <1>2. Inv /\ [Next]_vars => Inv'
    BY StoresStep, LockstepStep, AgreeStep, Zenon
  <1>3. Inv => TimelineAccounts
    BY TimelinesFollow
  <1> QED
    BY <1>1, <1>2, <1>3, PTL DEF Spec
=============================================================================
