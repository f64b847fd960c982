------------------------------- MODULE JobRow -------------------------------
(***************************************************************************)
(* One row of the history and the records the sink's hooks make for it.    *)
(* cq calls OnEnqueue from the submitter and the other hooks from the      *)
(* worker, a job may report progress from goroutines of its own, and the   *)
(* sink sheds what does not fit its buffer: the store sees some of a job's *)
(* records, in any order.  The writes are meant to be order tolerant.      *)
(*                                                                         *)
(* A life is what one submission goes through: its outcome, the number of  *)
(* attempts it took, how often it reported progress, and whether it is a   *)
(* hop of a reschedule chain.                                              *)
(***************************************************************************)
EXTENDS JobRecord, FiniteSets

CONSTANTS Lives         \* the lives considered: [outcome, tries, reports, hop]

VARIABLES life,         \* the life of this submission
          delivered,    \* the records the store has been given so far
          row           \* the rows of the store, a function on {} or {Key}

vars == <<life, delivered, row>>

Epoch == "epoch"
Key == "epoch:queue:7"

\* How a submission may end by itself.
Outcome == {"completed", "failed", "cancelled", "discarded", "abandoned"}

ASSUME LivesAssumption ==
    Lives \subseteq [outcome : Outcome, tries : Nat, reports : Nat, hop : BOOLEAN]

----------------------------------------------------------------------------
(* What the hooks put into a record.  The attributes of a rescheduled hop  *)
(* carry the root and parent identifiers of its chain.                     *)

Attributes(l) == IF l.hop THEN "root=1,parent=6" ELSE ""

\* A job that never rescheduled is its own root.
RootID(l) == IF l.hop THEN "1" ELSE "7"

ParentID(l) == IF l.hop THEN "6" ELSE ""

\* The cq event a hook receives: times and durations known at that moment.
JobEvent(err, started, finished) ==
    [name |-> "importer", err |-> err, enqueuedAt |-> 1,
     startedAt |-> started, finishedAt |-> finished,
     waitUS |-> IF started = 0 THEN 0 ELSE 1,
     execUS |-> IF started = 0 \/ finished = 0 THEN 0 ELSE 2]

OfferJob(l, e, state) ==
    [BlankJob(Epoch) EXCEPT
        !.queue = "queue", !.name = e.name, !.state = state, !.err = e.err,
        !.attrs = Attributes(l), !.root = RootID(l), !.parent = ParentID(l),
        !.enqueuedAt = e.enqueuedAt, !.startedAt = e.startedAt,
        !.finishedAt = e.finishedAt, !.waitUS = e.waitUS, !.execUS = e.execUS]

\* The job record an attempt hook offers first: it lifts the attempt number.
OfferAttempt(l, n) ==
    [BlankJob(Epoch) EXCEPT
        !.queue = "queue", !.state = "active", !.root = RootID(l), !.attempt = n]

ReportProgress(l, n, try) ==
    [BlankJob(Epoch) EXCEPT
        !.queue = "queue", !.name = "importer", !.state = "active",
        !.attrs = Attributes(l), !.root = RootID(l), !.parent = ParentID(l),
        !.enqueuedAt = 1, !.attempt = try, !.pg = n, !.pgAt = 10 + n]

----------------------------------------------------------------------------
(* The hooks of cq, one record each, and the records of a whole life. *)

OnEnqueue(l) == OfferJob(l, JobEvent("", 0, 0), "created")
OnStart(l)   == OfferJob(l, JobEvent("", 2, 0), "active")
OnSuccess(l) == OfferJob(l, JobEvent("", 2, 9), "completed")
OnFailure(l, err) == OfferJob(l, JobEvent(err, 2, 9), FailureState(err))
OnDiscard(l) == OfferJob(l, JobEvent("expired", 2, 9), "discarded")
OnAbandon(l) == OfferJob(l, JobEvent("", 0, 9), "abandoned")

Ending(l) == CASE l.outcome = "completed" -> OnSuccess(l)
               [] l.outcome = "failed"    -> OnFailure(l, "boom")
               [] l.outcome = "cancelled" -> OnFailure(l, "cancelled")
               [] l.outcome = "discarded" -> OnDiscard(l)
               [] l.outcome = "abandoned" -> OnAbandon(l)

Records(l) ==
    {OnEnqueue(l), Ending(l)} \union
    (IF l.outcome = "abandoned" THEN {}
     ELSE {OnStart(l)} \union {OfferAttempt(l, n) : n \in 1..l.tries}
                       \union {ReportProgress(l, n, 1) : n \in 1..l.reports})

Init == /\ life \in Lives
        /\ delivered = {}
        /\ row = [k \in {} |-> BlankJob(Epoch)]

\* UpsertJobs is given one more record of this job.
Deliver == \E r \in Records(life) \ delivered :
              /\ delivered' = delivered \union {r}
              /\ row' = Upsert(row, Key, r)
              /\ UNCHANGED life

Done == delivered = Records(life) /\ UNCHANGED vars

Next == Deliver \/ Done
Spec == Init /\ [][Next]_vars

----------------------------------------------------------------------------
(* Properties. *)

\* The row is a job of a known state with sensible counters.
TypeOK == /\ life \in Lives
          /\ delivered \subseteq Records(life)
          /\ DOMAIN row \subseteq {Key}
          /\ \A k \in DOMAIN row : /\ row[k].state \in State
                                   /\ {row[k].attempt, row[k].pgAt} \subseteq Nat

(* The row as a function of the set of records alone, field by field: the   *)
(* furthest state, the largest attempt, the progress reported last, and     *)
(* otherwise what any of the records knew.                                  *)
Values(f) == {r[f] : r \in delivered}

WhatAnyKnew(f, blank) ==
    IF Values(f) \subseteq {blank} THEN blank ELSE CHOOSE v \in Values(f) : v # blank

Greatest(f) == CHOOSE v \in Values(f) : \A w \in Values(f) : w <= v

LastReport == CHOOSE r \in delivered : r.pgAt = Greatest("pgAt")

Summary ==
    [f \in DOMAIN BlankJob(Epoch) |->
        CASE f = "epoch"   -> Epoch
          [] f = "state"   -> CHOOSE s \in Values(f) : \A t \in Values(f) : Rank(t) <= Rank(s)
          [] f \in {"attempt", "pgAt"} -> Greatest(f)
          [] f = "pg"      -> LastReport.pg
          [] f \in {"queue", "name", "err", "root", "parent", "attrs"} -> WhatAnyKnew(f, "")
          [] OTHER         -> WhatAnyKnew(f, 0)]

\* Writes are order tolerant: whichever of a job's records the store was given,
\* and in whatever order, the row is the same, and it holds everything those
\* records knew (README "Writes are order-tolerant"; merge, upsertSQL).
OrderTolerant == delivered # {} => row[Key] = Summary
============================================================================
