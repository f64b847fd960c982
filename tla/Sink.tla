-------------------------------- MODULE Sink --------------------------------
(***************************************************************************)
(* The sink of one process: hooks running on cq's worker goroutines offer  *)
(* records to a buffered channel; one writer goroutine (run) batches them  *)
(* into the store; beat reports the process alive and retires its epoch;   *)
(* retain prunes; Start and Close begin and end all of it.                 *)
(*                                                                         *)
(* A step is what one goroutine does between two points where another can  *)
(* be observed: a channel operation, a select, a store call, a critical    *)
(* section.  Every store call may fail when StoreFails is TRUE.            *)
(*                                                                         *)
(* Data: a record is the hook call that made it and whether it is the job  *)
(* or the attempt half of it.  flush splits a batch into its jobs and its  *)
(* attempts, each in the order of the batch; nothing reads the batch       *)
(* before, so it is kept split from the start.                             *)
(***************************************************************************)
EXTENDS Integers, Sequences, FiniteSets, Functions

CONSTANTS Worker,        \* goroutines that call hooks
          Starter,       \* goroutines that call Start
          Closer,        \* goroutines that call Close
          JobCall,       \* calls of hooks that offer one record
          AttemptCall,   \* calls of attempt hooks, which offer two
          Buffer,        \* capacity of the events channel
          BatchSize,     \* records written per flush
          MaxStarts,     \* bound on the number of calls of Start
          Retention,     \* whether a retention age is configured
          StoreFails     \* whether store calls may return an error

Call == JobCall \union AttemptCall
Record == [call : Call, isJob : BOOLEAN]

\* WithBuffer and WithBatchSize ignore values below one.
ASSUME SinkAssumption ==
    /\ IsFiniteSet(Worker)
    /\ Buffer \in Nat \ {0}
    /\ BatchSize \in Nat \ {0}
    /\ MaxStarts \in Nat
    /\ Retention \in BOOLEAN
    /\ StoreFails \in BOOLEAN
    /\ JobCall \intersect AttemptCall = {}

VARIABLES
    fresh,      \* hook calls that have not happened yet
    todo,       \* todo[w]: the records w's hook call has yet to offer
    offering,   \* offering[w]: where w is in offer, "check" or "send"
    events,     \* the buffered channel
    done,       \* whether the done channel is closed
    started,    \* Sink.started
    start,      \* start[s]: where s is in Start, or how its last call ended
    calls,      \* how often Start was called
    once,       \* closeOnce: "unused", "running" or "complete"
    close,      \* close[c]: where c is in Close
    saw,        \* what the closer inside closeOnce read from started
    writer,     \* where run is; "none" before it is launched
    resume,     \* where run continues after the flush it is in
    jobs,       \* job records of the batch that are not written yet
    attempts,   \* attempt records of the batch that are not written yet
    written,    \* Sink.written
    dropped,    \* Sink.dropped
    beat,       \* where the heartbeat goroutine is
    retain,     \* where the retention goroutine is
    epochRow,   \* the store's row for this epoch: "none", "alive", "retired"
    logJobs,    \* job records the store accepted, in order
    logAttempts,\* attempt records the store accepted, in order
    lost,       \* how many records were in a write the store refused
    offers,     \* how many offers were completed
    stamp,      \* stamp[r]: when r entered the channel, 0 if it has not
    sent,       \* how many records entered the channel
    atClose     \* the records that were buffered when done was closed

(* The last seven only observe: logJobs and logAttempts are the contents    *)
(* of the store, the others history the properties are stated with.         *)

workerVars == <<fresh, todo, offering>>
callerVars == <<started, start, calls, once, close, saw>>
writerVars == <<writer, resume, jobs, attempts, written>>
loopVars   == <<beat, retain, epochRow>>
storeVars  == <<logJobs, logAttempts, lost>>
seenVars   == <<offers, stamp, sent, atClose>>

vars == <<fresh, todo, offering, events, done, started, start, calls, once,
          close, saw, writer, resume, jobs, attempts, written, dropped, beat,
          retain, epochRow, logJobs, logAttempts, lost, offers, stamp, sent,
          atClose>>

\* The stopped channel is closed by run as it returns.
Stopped == writer = "exited"

\* What the sink holds and has not tried to write.
Buffered == Range(events) \union Range(jobs) \union Range(attempts)

\* Start holds the mutex throughout; Close holds it for the instant it reads.
InStart == {"migrate", "heartbeat", "reconcile"}
MutexFree == \A s \in Starter : start[s] \notin InStart

Init ==
    /\ fresh = Call
    /\ todo = [w \in Worker |-> <<>>]
    /\ offering = [w \in Worker |-> "check"]
    /\ events = <<>>
    /\ done = FALSE
    /\ started = FALSE
    /\ start = [s \in Starter |-> "idle"]
    /\ calls = 0
    /\ once = "unused"
    /\ close = [c \in Closer |-> "idle"]
    /\ saw = FALSE
    /\ writer = "none" /\ resume = "select"
    /\ jobs = <<>> /\ attempts = <<>>
    /\ written = 0 /\ dropped = 0
    /\ beat = "none" /\ retain = "none" /\ epochRow = "none"
    /\ logJobs = <<>> /\ logAttempts = <<>> /\ lost = 0
    /\ offers = 0 /\ stamp = [r \in Record |-> 0] /\ sent = 0
    /\ atClose = {}

----------------------------------------------------------------------------
(* Hooks and offer. *)

\* A hook call: offerJob and ReportProgress make one record, offerAttempt a
\* job record and then an attempt record.
Hook(w) ==
    /\ todo[w] = <<>>
    /\ \E c \in fresh :
          /\ fresh' = fresh \ {c}
          /\ todo' = [todo EXCEPT ![w] =
                IF c \in JobCall THEN <<[call |-> c, isJob |-> TRUE]>>
                ELSE <<[call |-> c, isJob |-> TRUE], [call |-> c, isJob |-> FALSE]>>]
    /\ UNCHANGED <<offering, events, done, dropped>>
    /\ UNCHANGED <<callerVars, writerVars, loopVars, storeVars, seenVars>>

\* Mutant: offer does not look whether the sink is closed.
OfferCheckNothing(w) ==
    /\ todo[w] # <<>> /\ offering[w] = "check"
    /\ offering' = [offering EXCEPT ![w] = "send"]
    /\ UNCHANGED <<fresh, todo, events, done, dropped>>
    /\ UNCHANGED <<callerVars, writerVars, loopVars, storeVars, seenVars>>

\* offer, first select: a closed sink drops the record.
OfferCheck(w) ==
    /\ todo[w] # <<>> /\ offering[w] = "check"
    /\ IF done
       THEN /\ dropped' = dropped + 1
            /\ offers' = offers + 1
            /\ todo' = [todo EXCEPT ![w] = Tail(@)]
            /\ UNCHANGED offering
       ELSE /\ offering' = [offering EXCEPT ![w] = "send"]
            /\ UNCHANGED <<dropped, offers, todo>>
    /\ UNCHANGED <<fresh, events, done, stamp, sent, atClose>>
    /\ UNCHANGED <<callerVars, writerVars, loopVars, storeVars>>

\* offer, second select: send if the channel has room, else shed.  The done
\* channel is not looked at again.
OfferSend(w) ==
    /\ offering[w] = "send"
    /\ offering' = [offering EXCEPT ![w] = "check"]
    /\ todo' = [todo EXCEPT ![w] = Tail(@)]
    /\ offers' = offers + 1
    /\ IF Len(events) < Buffer
       THEN /\ events' = Append(events, Head(todo[w]))
            /\ sent' = sent + 1
            /\ stamp' = [stamp EXCEPT ![Head(todo[w])] = sent + 1]
            /\ UNCHANGED dropped
       ELSE /\ dropped' = dropped + 1
            /\ UNCHANGED <<events, sent, stamp>>
    /\ UNCHANGED <<fresh, done, atClose>>
    /\ UNCHANGED <<callerVars, writerVars, loopVars, storeVars>>

----------------------------------------------------------------------------
(* Start. *)

\* The store call of a step of Start returns an error: Start returns it and
\* the caller may try again.
StartErr(s) ==
    /\ StoreFails
    /\ start' = [start EXCEPT ![s] = "err"]
    /\ UNCHANGED <<started, writer, beat, retain, epochRow>>

\* Mutant: a Start that finds the sink recording goes through its steps again.
StartLockAgain(s) ==
    /\ MutexFree /\ start[s] \notin InStart
    /\ calls < MaxStarts /\ calls' = calls + 1
    /\ start' = [start EXCEPT ![s] = IF done THEN "err" ELSE "migrate"]
    /\ UNCHANGED <<started, once, close, saw, events, done, dropped>>
    /\ UNCHANGED <<workerVars, writerVars, loopVars, storeVars, seenVars>>

\* Mutant: the sink counts as started from the first line of Start.
StartLockMarks(s) ==
    /\ MutexFree /\ start[s] \notin InStart
    /\ calls < MaxStarts /\ calls' = calls + 1
    /\ started' = TRUE
    /\ start' = [start EXCEPT ![s] = IF started THEN "ok" ELSE IF done THEN "err"
                                     ELSE "migrate"]
    /\ UNCHANGED <<once, close, saw, events, done, dropped>>
    /\ UNCHANGED <<workerVars, writerVars, loopVars, storeVars, seenVars>>

\* Start takes the mutex: it is done when the sink is recording, refuses when
\* the sink is closed, and goes on to the store otherwise.
StartLock(s) ==
    /\ MutexFree /\ start[s] \notin InStart
    /\ calls < MaxStarts /\ calls' = calls + 1
    /\ start' = [start EXCEPT ![s] = IF started THEN "ok" ELSE IF done THEN "err"
                                     ELSE "migrate"]
    /\ UNCHANGED <<started, once, close, saw, events, done, dropped>>
    /\ UNCHANGED <<workerVars, writerVars, loopVars, storeVars, seenVars>>

StartMigrate(s) ==
    /\ start[s] = "migrate"
    /\ \/ StartErr(s)
       \/ /\ start' = [start EXCEPT ![s] = "heartbeat"]
          /\ UNCHANGED <<started, writer, beat, retain, epochRow>>
    /\ UNCHANGED <<calls, once, close, saw, events, done, dropped, resume, jobs>>
    /\ UNCHANGED <<attempts, written, workerVars, storeVars, seenVars>>

\* Claims the epoch before reconciling.
StartHeartbeat(s) ==
    /\ start[s] = "heartbeat"
    /\ \/ StartErr(s)
       \/ /\ start' = [start EXCEPT ![s] = "reconcile"]
          /\ epochRow' = "alive"
          /\ UNCHANGED <<started, writer, beat, retain>>
    /\ UNCHANGED <<calls, once, close, saw, events, done, dropped, resume, jobs>>
    /\ UNCHANGED <<attempts, written, workerVars, storeVars, seenVars>>

\* ReconcileEpoch (its effect on the rows is in Fleet), then the launch.
StartReconcile(s) ==
    /\ start[s] = "reconcile"
    /\ \/ StartErr(s)
       \/ /\ start' = [start EXCEPT ![s] = "ok"]
          /\ started' = TRUE
          /\ writer' = "select"
          /\ beat' = "loop"
          /\ retain' = IF Retention THEN "prune" ELSE "none"
          /\ UNCHANGED epochRow
    /\ UNCHANGED <<calls, once, close, saw, events, done, dropped, resume, jobs>>
    /\ UNCHANGED <<attempts, written, workerVars, storeVars, seenVars>>

----------------------------------------------------------------------------
(* Close. *)

\* The first caller runs the body of closeOnce, the others wait for it.
CloseCall(c) ==
    /\ close[c] = "idle"
    /\ close' = [close EXCEPT ![c] = IF once = "unused" THEN "read" ELSE "once"]
    /\ once' = IF once = "unused" THEN "running" ELSE once
    /\ UNCHANGED <<started, start, calls, saw, events, done, dropped>>
    /\ UNCHANGED <<workerVars, writerVars, loopVars, storeVars, seenVars>>

CloseJoin(c) ==
    /\ close[c] = "once" /\ once = "complete"
    /\ close' = [close EXCEPT ![c] = "returned"]
    /\ UNCHANGED <<started, start, calls, once, saw, events, done, dropped>>
    /\ UNCHANGED <<workerVars, writerVars, loopVars, storeVars, seenVars>>

\* The critical section: read whether the sink is started.
CloseRead(c) ==
    /\ close[c] = "read" /\ MutexFree
    /\ saw' = started
    /\ close' = [close EXCEPT ![c] = "signal"]
    /\ UNCHANGED <<started, start, calls, once, events, done, dropped>>
    /\ UNCHANGED <<workerVars, writerVars, loopVars, storeVars, seenVars>>

CloseSignal(c) ==
    /\ close[c] = "signal"
    /\ done' = TRUE
    /\ atClose' = Buffered
    /\ close' = [close EXCEPT ![c] = "wait"]
    /\ UNCHANGED <<started, start, calls, once, saw, events, dropped>>
    /\ UNCHANGED <<workerVars, writerVars, loopVars, storeVars, offers, stamp, sent>>

\* Mutant: Close returns without waiting for the writer.
CloseReturnAtOnce(c) ==
    /\ close[c] = "wait"
    /\ once' = "complete"
    /\ close' = [close EXCEPT ![c] = "returned"]
    /\ UNCHANGED <<started, start, calls, saw, events, done, dropped>>
    /\ UNCHANGED <<workerVars, writerVars, loopVars, storeVars, seenVars>>

\* Mutant: Close always waits for the writer, launched or not.
CloseReturnStopped(c) ==
    /\ close[c] = "wait" /\ Stopped
    /\ once' = "complete"
    /\ close' = [close EXCEPT ![c] = "returned"]
    /\ UNCHANGED <<started, start, calls, saw, events, done, dropped>>
    /\ UNCHANGED <<workerVars, writerVars, loopVars, storeVars, seenVars>>

\* Wait for the writer if there was one to wait for, and return.
CloseReturn(c) ==
    /\ close[c] = "wait" /\ (saw => Stopped)
    /\ once' = "complete"
    /\ close' = [close EXCEPT ![c] = "returned"]
    /\ UNCHANGED <<started, start, calls, saw, events, done, dropped>>
    /\ UNCHANGED <<workerVars, writerVars, loopVars, storeVars, seenVars>>

----------------------------------------------------------------------------
(* run and flush. *)

\* Mutant: the batch may grow past its size before it is flushed.
TakeOverfull(here) ==
    /\ events # <<>>
    /\ events' = Tail(events)
    /\ IF Head(events).isJob
       THEN jobs' = Append(jobs, Head(events)) /\ UNCHANGED attempts
       ELSE attempts' = Append(attempts, Head(events)) /\ UNCHANGED jobs
    /\ writer' = IF Len(jobs) + Len(attempts) + 1 > BatchSize THEN "jobs" ELSE here
    /\ resume' = here
    /\ UNCHANGED <<done, dropped, written>>
    /\ UNCHANGED <<workerVars, callerVars, loopVars, storeVars, seenVars>>

\* A record moves from the channel to the batch; a full batch is flushed, and
\* run then continues where it was.
Take(here) ==
    /\ events # <<>>
    /\ events' = Tail(events)
    /\ IF Head(events).isJob
       THEN jobs' = Append(jobs, Head(events)) /\ UNCHANGED attempts
       ELSE attempts' = Append(attempts, Head(events)) /\ UNCHANGED jobs
    /\ writer' = IF Len(jobs) + Len(attempts) + 1 >= BatchSize THEN "jobs" ELSE here
    /\ resume' = here
    /\ UNCHANGED <<done, dropped, written>>
    /\ UNCHANGED <<workerVars, callerVars, loopVars, storeVars, seenVars>>

RunReceive == writer = "select" /\ Take("select")

\* The flush ticker; an empty batch is left alone.
RunTick ==
    /\ writer = "select"
    /\ Len(jobs) + Len(attempts) > 0
    /\ writer' = "jobs" /\ resume' = "select"
    /\ UNCHANGED <<events, done, dropped, jobs, attempts, written>>
    /\ UNCHANGED <<workerVars, callerVars, loopVars, storeVars, seenVars>>

\* Mutant: run flushes its batch and leaves what is in the channel.
RunDoneNoDrain ==
    /\ writer = "select" /\ done
    /\ writer' = "jobs" /\ resume' = "exited"
    /\ UNCHANGED <<events, done, dropped, jobs, attempts, written>>
    /\ UNCHANGED <<workerVars, callerVars, loopVars, storeVars, seenVars>>

\* select sees the done channel: drain what is buffered.
RunDone ==
    /\ writer = "select" /\ done
    /\ writer' = "drain"
    /\ UNCHANGED <<events, done, dropped, resume, jobs, attempts, written>>
    /\ UNCHANGED <<workerVars, callerVars, loopVars, storeVars, seenVars>>

DrainReceive == writer = "drain" /\ Take("drain")

\* The channel is found empty: one last flush, and run returns.
DrainEnd ==
    /\ writer = "drain" /\ events = <<>>
    /\ writer' = IF Len(jobs) + Len(attempts) > 0 THEN "jobs" ELSE "exited"
    /\ resume' = "exited"
    /\ UNCHANGED <<events, done, dropped, jobs, attempts, written>>
    /\ UNCHANGED <<workerVars, callerVars, loopVars, storeVars, seenVars>>

\* Mutant: what the store refused counts as written.
FlushJobsCountsAll ==
    /\ writer = "jobs"
    /\ \/ logJobs' = logJobs \o jobs /\ UNCHANGED lost
       \/ StoreFails /\ lost' = lost + Len(jobs) /\ UNCHANGED logJobs
    /\ written' = written + Len(jobs)
    /\ jobs' = <<>>
    /\ writer' = "attempts"
    /\ UNCHANGED <<events, done, dropped, resume, attempts, logAttempts>>
    /\ UNCHANGED <<workerVars, callerVars, loopVars, seenVars>>

\* Mutant: a batch the store refused is kept for the next flush, though part
\* of it may have been accepted.
FlushJobsKeeps ==
    /\ writer = "jobs"
    /\ logJobs' = logJobs \o jobs
    /\ \/ jobs' = <<>> /\ written' = written + Len(jobs)
       \/ StoreFails /\ UNCHANGED <<jobs, written>>
    /\ writer' = "attempts"
    /\ UNCHANGED <<events, done, dropped, resume, attempts, logAttempts, lost>>
    /\ UNCHANGED <<workerVars, callerVars, loopVars, seenVars>>

\* Mutant: the records of a batch reach the store newest first.
FlushJobsReversed ==
    /\ writer = "jobs"
    /\ logJobs' = logJobs \o [i \in 1..Len(jobs) |-> jobs[Len(jobs) + 1 - i]]
    /\ written' = written + Len(jobs)
    /\ jobs' = <<>>
    /\ writer' = "attempts"
    /\ UNCHANGED <<events, done, dropped, resume, attempts, logAttempts, lost>>
    /\ UNCHANGED <<workerVars, callerVars, loopVars, seenVars>>

\* flush, UpsertJobs: all of the batch's jobs or none; they are gone from the
\* batch either way, and only what the store accepted counts as written.
FlushJobs ==
    /\ writer = "jobs"
    /\ \/ /\ logJobs' = logJobs \o jobs
          /\ written' = written + Len(jobs)
          /\ UNCHANGED lost
       \/ /\ StoreFails /\ jobs # <<>>
          /\ lost' = lost + Len(jobs)
          /\ UNCHANGED <<logJobs, written>>
    /\ jobs' = <<>>
    /\ writer' = "attempts"
    /\ UNCHANGED <<events, done, dropped, resume, attempts, logAttempts>>
    /\ UNCHANGED <<workerVars, callerVars, loopVars, seenVars>>

\* flush, SaveAttempts, which is tried whether or not the jobs were accepted.
FlushAttempts ==
    /\ writer = "attempts"
    /\ \/ /\ logAttempts' = logAttempts \o attempts
          /\ written' = written + Len(attempts)
          /\ UNCHANGED lost
       \/ /\ StoreFails /\ attempts # <<>>
          /\ lost' = lost + Len(attempts)
          /\ UNCHANGED <<logAttempts, written>>
    /\ attempts' = <<>>
    /\ writer' = resume
    /\ UNCHANGED <<events, done, dropped, resume, jobs, logJobs>>
    /\ UNCHANGED <<workerVars, callerVars, loopVars, seenVars>>

Run == RunReceive \/ RunTick \/ RunDone \/ DrainReceive \/ DrainEnd
       \/ FlushJobs \/ FlushAttempts

----------------------------------------------------------------------------
(* beat and retain. *)

restVars == <<workerVars, callerVars, writerVars, storeVars, seenVars,
              events, done, dropped>>

\* A heartbeat; one the store refuses is reported and changes nothing.
BeatTick ==
    /\ beat = "loop"
    /\ epochRow' = "alive"
    /\ UNCHANGED <<beat, retain, restVars>>

\* Mutant: the heartbeat goroutine goes on beating after it retired the epoch.
BeatDoneStays ==
    /\ beat = "loop" /\ done
    /\ epochRow' = "retired" \/ (StoreFails /\ UNCHANGED epochRow)
    /\ UNCHANGED <<beat, retain, restVars>>

\* The last heartbeat, with the zero time, retires the epoch.
BeatDone ==
    /\ beat = "loop" /\ done
    /\ epochRow' = "retired" \/ (StoreFails /\ UNCHANGED epochRow)
    /\ beat' = "exited"
    /\ UNCHANGED <<retain, restVars>>

\* One call of Prune (its effect on the rows is in Fleet).
RetainPrune ==
    /\ retain = "prune"
    /\ retain' = "wait"
    /\ UNCHANGED <<beat, epochRow, restVars>>

RetainTick ==
    /\ retain = "wait"
    /\ retain' = "prune"
    /\ UNCHANGED <<beat, epochRow, restVars>>

RetainDone ==
    /\ retain = "wait" /\ done
    /\ retain' = "exited"
    /\ UNCHANGED <<beat, epochRow, restVars>>

----------------------------------------------------------------------------
\* Nothing is left to do: every hook call returned, the sink is closed and its
\* goroutines are gone.
Quiescent ==
    /\ fresh = {}
    /\ \A w \in Worker : todo[w] = <<>>
    /\ \A c \in Closer : close[c] = "returned"
    /\ writer \in {"none", "exited"} /\ beat \in {"none", "exited"}
    /\ UNCHANGED vars

Offer(w) == OfferCheck(w) \/ OfferSend(w)
StartStep(s) == StartMigrate(s) \/ StartHeartbeat(s) \/ StartReconcile(s)
CloseStep(c) == CloseJoin(c) \/ CloseRead(c) \/ CloseSignal(c) \/ CloseReturn(c)

Next ==
    \/ \E w \in Worker : Hook(w) \/ OfferCheck(w) \/ OfferSend(w)
    \/ \E s \in Starter : \/ StartLock(s) \/ StartMigrate(s)
                          \/ StartHeartbeat(s) \/ StartReconcile(s)
    \/ \E c \in Closer : \/ CloseCall(c) \/ CloseJoin(c) \/ CloseRead(c)
                         \/ CloseSignal(c) \/ CloseReturn(c)
    \/ RunReceive \/ RunTick \/ RunDone \/ DrainReceive \/ DrainEnd
    \/ FlushJobs \/ FlushAttempts
    \/ BeatTick \/ BeatDone \/ RetainPrune \/ RetainTick \/ RetainDone
    \/ Quiescent

Spec == Init /\ [][Next]_vars

(* Fairness: a goroutine that can take a step is scheduled, store calls     *)
(* return, and a select that finds the done channel closed again and again  *)
(* takes that branch.  Nobody is obliged to call a hook, Start or Close.    *)
Fairness ==
    /\ \A w \in Worker : WF_vars(Offer(w))
    /\ \A s \in Starter : WF_vars(StartStep(s))
    /\ \A c \in Closer : WF_vars(CloseStep(c))
    /\ WF_vars(Run)
    /\ WF_vars(BeatDone)
    /\ WF_vars(RetainPrune) /\ SF_vars(RetainDone)

FairSpec == Spec /\ Fairness

----------------------------------------------------------------------------
(* Safety. *)

HooksOK ==
    /\ fresh \subseteq Call
    /\ todo \in [Worker -> Seq(Record)]
    /\ offering \in [Worker -> {"check", "send"}]
    /\ offers \in Nat /\ sent \in Nat /\ dropped \in Nat
    /\ stamp \in [Record -> 0..sent]

CallersOK ==
    /\ done \in BOOLEAN /\ started \in BOOLEAN /\ saw \in BOOLEAN
    /\ start \in [Starter -> InStart \union {"idle", "ok", "err"}]
    /\ calls \in 0..MaxStarts
    /\ once \in {"unused", "running", "complete"}
    /\ close \in [Closer -> {"idle", "once", "read", "signal", "wait", "returned"}]
    /\ atClose \subseteq Record

\* The channel and the batch stay within their sizes.
WriterOK ==
    /\ writer \in {"none", "select", "drain", "jobs", "attempts", "exited"}
    /\ resume \in {"select", "drain", "exited"}
    /\ events \in Seq(Record) /\ Len(events) <= Buffer
    /\ jobs \in Seq(Record) /\ attempts \in Seq(Record)
    /\ Len(jobs) + Len(attempts) <= BatchSize
    /\ writer \notin {"jobs", "attempts"} => Len(jobs) + Len(attempts) < BatchSize
    /\ written \in Nat /\ lost \in Nat
    /\ logJobs \in Seq(Record) /\ logAttempts \in Seq(Record)

LoopsOK ==
    /\ beat \in {"none", "loop", "exited"}
    /\ retain \in {"none", "prune", "wait", "exited"}
    /\ epochRow \in {"none", "alive", "retired"}

\* The variables have their types; the channel never holds more than its
\* buffer, nor the batch more than a batch.
TypeOK == HooksOK /\ CallersOK /\ WriterOK /\ LoopsOK

\* Every record that was offered is in exactly one place: counted as dropped,
\* counted as written, part of a write whose error was reported, or still held
\* (offer, run, flush: "Count only what the store accepted").
Accounting ==
    offers = dropped + written + lost + Len(events) + Len(jobs) + Len(attempts)

\* Later in s means later into the channel.
InOrder(s) == \A i, j \in 1..Len(s) : i < j => stamp[s[i]] < stamp[s[j]]

\* The store is given records of a kind in the order the hooks sent them, and
\* none of them twice, whatever the batches were and whichever writes failed.
StoreInOrder == InOrder(logJobs) /\ InOrder(logAttempts)

\* Close flushes: when a Close that found the sink started has returned,
\* nothing that was buffered as it closed the sink is still in it.
CloseFlushes ==
    once = "complete" /\ saw => atClose \intersect Buffered = {}

\* A worker caught between the two selects of offer can strand its record in
\* the channel after the writer has gone, and no worker can do so twice.
StrandedBound ==
    Stopped => Len(events) + Cardinality({w \in Worker : offering[w] = "send"})
                 <= Cardinality(Worker)

\* Start reports success only if a writer was launched, which runs until a Close ("Marking
\* it here regardless would leave the writer unlaunched while every later Start reported
\* success").  After a Close it may be gone: Start looks at started before it looks at
\* done, and takes a sink that has stopped recording for one that is "Already recording".
OkMeansRecording ==
    \A s \in Starter : start[s] = "ok" => writer # "none" /\ (done \/ ~Stopped)

\* Once beat has retired the epoch nothing reports it alive again: a restart
\* can rely on it (Heartbeat, Start).
RetiredIsFinal == [][epochRow = "retired" => epochRow' = "retired"]_vars

----------------------------------------------------------------------------
(* Liveness, under Fairness. *)

\* Close returns to everyone who calls it, started or not, with a Start or
\* another Close in progress or not.
CloseReturns == \A c \in Closer : close[c] # "idle" ~> close[c] = "returned"

\* A record in the channel of a started sink that is not closed reaches the
\* store or a reported error, whether or not the sink is closed meanwhile.
BufferedSettles ==
    \A r \in Record : (started /\ ~done /\ r \in Buffered) ~> (r \notin Buffered)

\* Closing a started sink ends every goroutine it launched.
GoroutinesExit ==
    (done /\ started) ~> (Stopped /\ beat = "exited" /\ retain \in {"none", "exited"})

----------------------------------------------------------------------------
(* What the comments say and the code does not do. *)

\* offer: "Anything offered after Close would sit in a channel nobody drains,
\* so it is counted as dropped rather than lost silently".
NothingStranded == Stopped => events = <<>>

\* Close: "Close flushes buffered events and stops the writer.  It is safe on
\* a sink that was never started" -- so on any sink that was started.
CloseFlushesAlways == once = "complete" /\ started => atClose \intersect Buffered = {}

----------------------------------------------------------------------------
(* What the sink promises, as Recorder states it. *)

KindOf(r) == IF r.isJob THEN "job" ELSE "attempt"

\* The records of kind k in a sequence, in its order: the n-th is the one at the n-th of
\* the positions they have.
Positions(s, k) == {i \in DOMAIN s : KindOf(s[i]) = k}
Rank(S, i) == Cardinality({j \in S : j <= i})
OfKind(s, k) ==
    [n \in 1..Cardinality(Positions(s, k)) |->
        s[CHOOSE i \in Positions(s, k) : Rank(Positions(s, k), i) = n]]

\* The channel holds both kinds; a queue of the promise is the part of the batch and
\* then of the channel that is of its kind.
Promise == INSTANCE Recorder WITH
    queue <- [k \in {"job", "attempt"} |->
                (IF k = "job" THEN jobs ELSE attempts) \o OfKind(events, k)],
    log <- [k \in {"job", "attempt"} |-> IF k = "job" THEN logJobs ELSE logAttempts],
    refused <- lost

\* The sink does what Recorder promises: whatever the goroutines do, each step
\* accepts one record, drops one, or moves the front of one queue.
RecorderSpec == Promise!Spec
============================================================================
