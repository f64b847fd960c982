----------------------------- MODULE JobRecord -----------------------------
(***************************************************************************)
(* The stored form of one cq submission and the rules by which the store   *)
(* folds a new record into it: store.Job, State.Rank, State.Terminal, the  *)
(* reference driver's merge and the three operations that change the rows  *)
(* (UpsertJobs, ReconcileEpoch, Prune).                                    *)
(*                                                                         *)
(* Data kept: every field merge treats by a rule of its own.  Text is a    *)
(* string and "" is Go's blank, a time is a number and 0 is Go's zero      *)
(* time, the attribute map is one string ("" for the empty map), and the   *)
(* three progress fields that always move together are the single number   *)
(* pg.  Pattern is left out: it is a function of Name and is set with it.  *)
(***************************************************************************)
EXTENDS Integers

State == {"created", "pending", "active", "completed", "failed",
          "cancelled", "discarded", "abandoned", "interrupted"}

\* Rank orders states so that an upsert can advance a job without regressing it.
Rank(s) == CASE s = "created" -> 0
             [] s = "pending" -> 1
             [] s = "active"  -> 2
             [] OTHER         -> 3

Terminal(s) == Rank(s) = 3

\* Mutant: cancellation is reported under a state of its own that no column knows.
FailureStateUnknown(err) == IF err = "cancelled" THEN "canceled" ELSE "failed"

\* failureState separates cancellation from ordinary failure.
FailureState(err) == IF err = "cancelled" THEN "cancelled" ELSE "failed"

\* A record of which only the owner is known; hooks fill in what they know.
BlankJob(epoch) ==
    [epoch |-> epoch, queue |-> "", state |-> "created", name |-> "", err |-> "",
     root |-> "", parent |-> "", attrs |-> "",
     enqueuedAt |-> 0, startedAt |-> 0, finishedAt |-> 0,
     waitUS |-> 0, execUS |-> 0, attempt |-> 0, pg |-> 0, pgAt |-> 0]

----------------------------------------------------------------------------
(* The field rules of merge. *)

FillBlank(old, new)    == IF old = "" THEN new ELSE old
LastNonBlank(old, new) == IF new = "" THEN old ELSE new
FillZero(old, new)     == IF old = 0 THEN new ELSE old
LastNonZero(old, new)  == IF new = 0 THEN old ELSE new
Larger(old, new)       == IF new > old THEN new ELSE old

\* Mutant: a record of the same rank replaces the stored state.
AdvanceOrEqual(old, new) == IF Rank(new) >= Rank(old) THEN new ELSE old

\* State moves forward by rank only: among equals the first one stays.
Advance(old, new) == IF Rank(new) > Rank(old) THEN new ELSE old

\* Mutant: the report written last replaces the stored one, whatever its time.
NewerOrLate(old, new) == new # 0

\* Progress is replaced by a strictly newer report only.
Newer(old, new) == new > old

\* merge folds an incoming record into the stored one.
Merge(existing, incoming) ==
    [epoch      |-> existing.epoch,
     queue      |-> FillBlank(existing.queue, incoming.queue),
     state      |-> Advance(existing.state, incoming.state),
     name       |-> FillBlank(existing.name, incoming.name),
     err        |-> LastNonBlank(existing.err, incoming.err),
     root       |-> FillBlank(existing.root, incoming.root),
     parent     |-> FillBlank(existing.parent, incoming.parent),
     attrs      |-> LastNonBlank(existing.attrs, incoming.attrs),
     enqueuedAt |-> FillZero(existing.enqueuedAt, incoming.enqueuedAt),
     startedAt  |-> FillZero(existing.startedAt, incoming.startedAt),
     finishedAt |-> LastNonZero(existing.finishedAt, incoming.finishedAt),
     waitUS     |-> LastNonZero(existing.waitUS, incoming.waitUS),
     execUS     |-> LastNonZero(existing.execUS, incoming.execUS),
     attempt    |-> Larger(existing.attempt, incoming.attempt),
     pg         |-> IF Newer(existing.pgAt, incoming.pgAt) THEN incoming.pg ELSE existing.pg,
     pgAt       |-> Larger(existing.pgAt, incoming.pgAt)]

\* Mutant: the finish time is not looked at.
EnqueuedOnly(job) == job.enqueuedAt

\* A job's finish time, falling back to its enqueue time for one that never ran.
LastActive(job) == Larger(job.enqueuedAt, job.finishedAt)

----------------------------------------------------------------------------
(* The rows of the store: a function from keys to jobs.  Each operator is   *)
(* one store call, which the drivers run under a lock or in a transaction.  *)

\* UpsertJobs, for one record: insert it, or merge it into the row it names.
Upsert(rows, key, incoming) ==
    [k \in DOMAIN rows \union {key} |->
        IF k # key THEN rows[k]
        ELSE IF key \in DOMAIN rows THEN Merge(rows[key], incoming)
        ELSE incoming]

\* A heartbeat a reconciler takes for a sign of life: recorded, not the zero
\* time, and not before the cutoff.
Beating(seen, cutoff) == seen # 0 /\ seen >= cutoff

\* Mutant: only running jobs are interrupted, not those still waiting.
ReconcileRunning(rows, epoch, seen, cutoff) ==
    [k \in DOMAIN rows |->
        IF \/ rows[k].epoch = epoch
           \/ rows[k].state # "active"
           \/ Beating(seen[rows[k].epoch], cutoff)
        THEN rows[k]
        ELSE [rows[k] EXCEPT !.state = "interrupted"]]

\* ReconcileEpoch: interrupt unfinished jobs of other epochs that stopped beating.
Reconcile(rows, epoch, seen, cutoff) ==
    [k \in DOMAIN rows |->
        IF \/ rows[k].epoch = epoch
           \/ Terminal(rows[k].state)
           \/ Beating(seen[rows[k].epoch], cutoff)
        THEN rows[k]
        ELSE [rows[k] EXCEPT !.state = "interrupted"]]

\* Mutant: unfinished rows are deleted too.
PrunableAny(rows, before, states) ==
    {k \in DOMAIN rows : before # 0 /\ LastActive(rows[k]) < before}

\* The rows Prune deletes: terminal, last active before the cutoff, and of a
\* wanted state (an empty set wants every state; a zero cutoff prunes nothing).
Prunable(rows, before, states) ==
    {k \in DOMAIN rows :
        /\ before # 0
        /\ Terminal(rows[k].state)
        /\ LastActive(rows[k]) < before
        /\ states = {} \/ rows[k].state \in states}

Prune(rows, before, states) ==
    [k \in DOMAIN rows \ Prunable(rows, before, states) |-> rows[k]]
============================================================================
