------------------------------- MODULE Memory -------------------------------
(***************************************************************************)
(* The reference driver: maps under one mutex.  A store s is a record of   *)
(*   jobs      key -> job,                                                 *)
(*   attempts  key -> sequence of [n, state, err, startedAt, finishedAt],  *)
(*   epochs    epoch -> last heartbeat, 0 for a retired one.               *)
(* Each operator is one call, made under the lock; those that write return *)
(* the new store.  Time is in clock units, finer than a microsecond.       *)
(* Listings whose order the code leaves open are in some order.            *)
(***************************************************************************)
EXTENDS StoreQuery, FiniteSetsExt, SequencesExt

Open == [jobs |-> <<>>, attempts |-> [k \in DOMAIN KeyFor |-> <<>>], epochs |-> <<>>]

\* UpsertJobs, for one record of the batch.
UpsertJob(s, key, job) == [s EXCEPT !.jobs = Upsert(s.jobs, key, job)]

\* SaveAttempts, for one record: it replaces the attempt of the same number and
\* start, keeping its error and finish when it brings none, else is appended.
SaveAttempt(s, key, incoming) ==
    LET known == s.attempts[key]
        same == {i \in DOMAIN known : /\ known[i].n = incoming.n
                                      /\ known[i].startedAt = incoming.startedAt}
        kept == known[Min(same)]
        updated == [incoming EXCEPT !.err = LastNonBlank(kept.err, incoming.err),
                                    !.finishedAt = LastNonZero(kept.finishedAt, incoming.finishedAt)]
    IN [s EXCEPT !.attempts = Put(s.attempts, key,
            IF same = {} THEN Append(known, incoming) ELSE [known EXCEPT ![Min(same)] = updated])]

Heartbeat(s, epoch, seenAt) ==
    [s EXCEPT !.epochs = Put(s.epochs, epoch, seenAt)]

ReconcileEpoch(s, epoch, staleAfter, now) ==
    LET seen == [e \in {s.jobs[k].epoch : k \in DOMAIN s.jobs} |->
                    IF e \in DOMAIN s.epochs THEN s.epochs[e] ELSE 0]
    IN [s EXCEPT !.jobs = Reconcile(s.jobs, epoch, seen, now - staleAfter)]

\* Mutant: the rows go and their attempts stay.
PruneJobs(s, before, states) == [s EXCEPT !.jobs = Prune(s.jobs, before, states)]

\* Prune deletes the rows and their attempts.
PruneStore(s, before, states) ==
    LET gone == Prunable(s.jobs, before, states)
    IN [s EXCEPT !.jobs = Prune(s.jobs, before, states),
                 !.attempts = [k \in DOMAIN s.attempts |-> IF k \in gone THEN <<>> ELSE s.attempts[k]]]

----------------------------------------------------------------------------
(* Reads. *)

\* Every term occurs in the ID or the name.
MatchesTerms(key, job, terms) ==
    \A t \in terms : <<KeyFor[key].id, t>> \in Occurs \/ <<job.name, t>> \in Occurs

MatchesAttribute(job, filter) == filter.attrKey = "" \/ Carries(job.attrs, filter)

\* The keys of the rows a filter selects.
Matching(s, filter) ==
    {k \in DOMAIN s.jobs :
        LET job == s.jobs[k] IN
        /\ filter.queue \in {"", job.queue}
        /\ filter.name \in {"", job.name}
        /\ filter.pattern \in {<<>>, NormalizeName(job.name)}
        /\ filter.states = {} \/ job.state \in filter.states
        /\ filter.before = 0 \/ job.enqueuedAt <= filter.before
        /\ MatchesTerms(k, job, filter.terms)
        /\ MatchesAttribute(job, filter)}

Place(k) == CHOOSE i \in DOMAIN KeyOrder : KeyOrder[i] = k

\* Enqueued later, or at the same time under a larger key.
After(s, j, k) == \/ s.jobs[j].enqueuedAt > s.jobs[k].enqueuedAt
                  \/ s.jobs[j].enqueuedAt = s.jobs[k].enqueuedAt /\ Place(j) > Place(k)

Newest(s) == {p \in (DOMAIN s.jobs) \X (DOMAIN s.jobs) : After(s, p[1], p[2])}
Oldest(s) == {p \in (DOMAIN s.jobs) \X (DOMAIN s.jobs) : After(s, p[2], p[1])}

\* Jobs lists the keys newest first.
Jobs(s, filter) ==
    Window(InOrder(Matching(s, filter), Newest(s)), Clip(filter.limit, JobLimits), filter.offset)

CountJobs(s, filter) == Cardinality(Matching(s, filter))

\* GroupJobs tallies by pattern, state and error, the largest group first.
GroupJobs(s, filter, limit) ==
    LET selected == Matching(s, filter)
        family(k) == [pattern |-> IF s.jobs[k].name = "" THEN <<"(unnamed)">>
                                  ELSE NormalizeName(s.jobs[k].name),
                      state |-> s.jobs[k].state, err |-> s.jobs[k].err]
        members(g) == {k \in selected : family(k) = g}
        group(g) == [of |-> g, count |-> Cardinality(members(g)),
                     lastSeen |-> Max({LastActive(s.jobs[k]) : k \in members(g)})]
    IN Window(SetToSortSeq({group(family(k)) : k \in selected},
                           LAMBDA a, b : \/ a.count > b.count
                                         \/ a.count = b.count /\ a.lastSeen > b.lastSeen),
              Clip(limit, GroupLimits), 0)

\* Timeline counts completions and failures since a cutoff, quiet buckets too.
Timeline(s, since, bucket, now) ==
    LET aged == {k \in DOMAIN s.jobs : Terminal(s.jobs[k].state) /\ LastActive(s.jobs[k]) >= since}
        in(slot, states) == Cardinality({k \in aged : /\ LastActive(s.jobs[k]) \div bucket = slot
                                                      /\ s.jobs[k].state \in states})
        first == since \div bucket
        last == now \div bucket
    IN CASE since = 0 -> [err |-> FALSE, buckets |-> <<>>]
         [] since # 0 /\ SinceWhen(since, now) \div bucket > MaxBuckets ->
                [err |-> TRUE, buckets |-> <<>>]
         [] OTHER ->
                [err |-> FALSE,
                 buckets |-> [i \in 1..(last - first + 1) |->
                                [start |-> (first + i - 1) * bucket,
                                 completed |-> in(first + i - 1, {"completed"}),
                                 failed |-> in(first + i - 1, FailureStates)]]]

\* AttributeKeys lists the keys in use, the most common first.
AttributeKeys(s, limit) ==
    LET keys(k) == DOMAIN AttrMap[s.jobs[k].attrs]
        tally(a) == Cardinality({k \in DOMAIN s.jobs : a \in keys(k)})
    IN Window(SetToSortSeq(UNION {keys(k) : k \in DOMAIN s.jobs}, LAMBDA a, b : tally(a) > tally(b)),
              Clip(limit, AttrLimits), 0)

\* Job returns a row and its attempts, the earliest first.
Job(s, key) ==
    [found |-> key \in DOMAIN s.jobs,
     attempts |-> IF key \notin DOMAIN s.jobs THEN <<>>
                  ELSE SortSeq(s.attempts[key], LAMBDA a, b : a.startedAt < b.startedAt)]

\* Lineage lists the submissions of one epoch and queue that share a root.
Lineage(s, epoch, queue, root) ==
    InOrder({k \in DOMAIN s.jobs : /\ s.jobs[k].epoch = epoch
                                   /\ s.jobs[k].queue = queue
                                   /\ root \in {s.jobs[k].root, KeyFor[k].id}}, Oldest(s))

Counts(s) ==
    [st \in {s.jobs[k].state : k \in DOMAIN s.jobs} |->
        Cardinality({k \in DOMAIN s.jobs : s.jobs[k].state = st})]
============================================================================
