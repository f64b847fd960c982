-------------------------------- MODULE Fleet --------------------------------
(***************************************************************************)
(* Several processes sharing one store.  A process is an epoch: one boot   *)
(* of one sink.  It claims its epoch with a heartbeat, reconciles what     *)
(* silent epochs left unfinished, records its own jobs, beats, and then    *)
(* closes or crashes; a restart is another epoch.                          *)
(*                                                                         *)
(* The sink of a process appears here as the queue that Recorder promises: *)
(* pipe[e] holds job records that are accepted and not yet written.  One   *)
(* record is written per step; UpsertJobs of a batch is that many of these *)
(* steps in a row, and exactly this with a batch size of one.              *)
(*                                                                         *)
(* Time is a global clock.  Process e reads clock + Skew[e].  The bounds   *)
(* on delays (StartDelay, Lag, MaxMisses) are the environment's: the clock *)
(* does not pass a point at which a live process must have acted.          *)
(***************************************************************************)
EXTENDS JobRecord, Sequences, FiniteSets

CONSTANTS Epoch,        \* process boots
          Job,          \* row keys; a key names the epoch that owns it
          Owner,        \* Owner[j]: the epoch of key j
          EnqueuedAt,   \* EnqueuedAt[j]: when job j was submitted
          Outcome,      \* terminal states a job may end in
          Buffer,       \* records the sink of a process holds
          Interval,     \* the heartbeat interval
          StaleAfter,   \* silence after which an epoch is declared dead
          MaxMisses,    \* consecutive heartbeats that may fail
          Lag,          \* how late after its tick a heartbeat may be stored
          StartDelay,   \* longest time from claiming the epoch to the launch
          Skew,         \* Skew[e]: how far the clock of e is ahead
          MaxSkew,      \* bound on Skew
          RetentionAge, \* age at which finished jobs are pruned, 0 for never
          MaxClock      \* bound on the clock

ASSUME FleetAssumption ==
    /\ Owner \in [Job -> Epoch]
    /\ EnqueuedAt \in [Job -> Nat \ {0}]
    /\ Outcome \subseteq {s \in State : Terminal(s) /\ s # "interrupted"}
    /\ Buffer \in Nat \ {0}
    /\ Interval \in Nat \ {0} /\ StaleAfter \in Nat \ {0}
    /\ MaxMisses \in Nat /\ Lag \in Nat /\ StartDelay \in Nat
    /\ MaxSkew \in Nat /\ Skew \in [Epoch -> 0..MaxSkew]
    /\ RetentionAge \in Nat /\ MaxClock \in Nat

\* "The gap allows several missed beats before a live process is declared
\* dead": what the gap has to cover.
ASSUME GapAssumption ==
    StartDelay + (MaxMisses + 1) * Interval + Lag + MaxSkew <= StaleAfter

VARIABLES
    clock,      \* the time
    status,     \* status[e]: "off", "claimed", "up", "closing" or "gone"
    beating,    \* the epochs whose heartbeat goroutine runs
    due,        \* due[e]: the next tick of its ticker (while claimed: the
                \* time by which Start launches it)
    misses,     \* misses[e]: heartbeats of e refused in a row
    seen,       \* seen[e]: the heartbeat the store holds, 0 for none
    told,       \* told[j]: the states hooks have reported for job j
    pipe,       \* pipe[e]: records accepted by the sink of e, not yet written
    rows,       \* the job rows of the store
    buried      \* history: gone epochs some boot has found silent

vars == <<clock, status, beating, due, misses, seen, told, pipe, rows, buried>>

Now(e) == clock + Skew[e]

Init ==
    /\ clock = 1
    /\ status = [e \in Epoch |-> "off"]
    /\ beating = {}
    /\ due = [e \in Epoch |-> 0]
    /\ misses = [e \in Epoch |-> 0]
    /\ seen = [e \in Epoch |-> 0]
    /\ told = [j \in Job |-> {}]
    /\ pipe = [e \in Epoch |-> <<>>]
    /\ rows = [j \in {} |-> BlankJob(Owner[j])]
    /\ buried = {}

----------------------------------------------------------------------------
(* Start. *)

\* Mutant: Start launches without a first heartbeat.
ClaimSilent(e) ==
    /\ status[e] = "off"
    /\ status' = [status EXCEPT ![e] = "claimed"]
    /\ due' = [due EXCEPT ![e] = clock + StartDelay]
    /\ UNCHANGED <<clock, beating, misses, seen, told, pipe, rows, buried>>

\* Start, up to its Heartbeat: the epoch is claimed.
Claim(e) ==
    /\ status[e] = "off"
    /\ status' = [status EXCEPT ![e] = "claimed"]
    /\ seen' = [seen EXCEPT ![e] = Now(e)]
    /\ due' = [due EXCEPT ![e] = clock + StartDelay]
    /\ UNCHANGED <<clock, beating, misses, told, pipe, rows, buried>>

\* ReconcileEpoch returned an error; Start may be called again.
StartFails(e) ==
    /\ status[e] = "claimed"
    /\ status' = [status EXCEPT ![e] = "off"]
    /\ due' = [due EXCEPT ![e] = 0]
    /\ UNCHANGED <<clock, beating, misses, seen, told, pipe, rows, buried>>

\* Epochs that are gone and that e takes for dead.
FoundDead(e) ==
    {o \in Epoch \ {e} : status[o] = "gone" /\ ~Beating(seen[o], Now(e) - StaleAfter)}

\* ReconcileEpoch and the launch of the goroutines.
Launch(e) ==
    /\ status[e] = "claimed"
    /\ rows' = Reconcile(rows, e, seen, Now(e) - StaleAfter)
    /\ buried' = buried \union FoundDead(e)
    /\ status' = [status EXCEPT ![e] = "up"]
    /\ beating' = beating \union {e}
    /\ due' = [due EXCEPT ![e] = clock + Interval]
    /\ misses' = [misses EXCEPT ![e] = 0]
    /\ UNCHANGED <<clock, seen, told, pipe>>

----------------------------------------------------------------------------
(* Recording. *)

\* cq reports a job's start before its end and its end once, but may report
\* the enqueue at any time; only a job that never started is abandoned.
MayReport(j, s) ==
    /\ s \notin told[j]
    /\ s # "created" => told[j] \intersect Outcome = {}
    /\ s \in Outcome => (s = "abandoned" <=> "active" \notin told[j])

HookRecord(j, s) ==
    [BlankJob(Owner[j]) EXCEPT
        !.state = s, !.enqueuedAt = EnqueuedAt[j],
        !.finishedAt = IF Terminal(s) THEN Now(Owner[j]) ELSE 0]

\* Mutant: the sink accepts every record.
ReportNeverSheds(j, s) ==
    /\ status[Owner[j]] = "up" /\ EnqueuedAt[j] <= clock
    /\ MayReport(j, s)
    /\ told' = [told EXCEPT ![j] = @ \union {s}]
    /\ pipe' = [pipe EXCEPT ![Owner[j]] = Append(@, [job |-> j, rec |-> HookRecord(j, s)])]
    /\ UNCHANGED <<clock, status, beating, due, misses, seen, rows, buried>>

\* A hook of a recording process: its sink accepts the record or sheds it.
Report(j, s) ==
    /\ status[Owner[j]] = "up" /\ EnqueuedAt[j] <= clock
    /\ MayReport(j, s)
    /\ told' = [told EXCEPT ![j] = @ \union {s}]
    /\ pipe' = [pipe EXCEPT ![Owner[j]] =
          IF Len(@) < Buffer
          THEN Append(@, [job |-> j, rec |-> HookRecord(j, s)]) ELSE @]
    /\ UNCHANGED <<clock, status, beating, due, misses, seen, rows, buried>>

\* run: UpsertJobs of the oldest record.  A closing process drains.
Write(e) ==
    /\ status[e] \in {"up", "closing"} /\ pipe[e] # <<>>
    /\ rows' = Upsert(rows, Head(pipe[e]).job, Head(pipe[e]).rec)
    /\ pipe' = [pipe EXCEPT ![e] = Tail(@)]
    /\ UNCHANGED <<clock, status, beating, due, misses, seen, told, buried>>

\* UpsertJobs returned an error: the record is gone.
WriteFails(e) ==
    /\ status[e] \in {"up", "closing"} /\ pipe[e] # <<>>
    /\ pipe' = [pipe EXCEPT ![e] = Tail(@)]
    /\ UNCHANGED <<clock, status, beating, due, misses, seen, told, rows, buried>>

\* retain: Prune, of every terminal state.  It may still be at it while run drains.
Retain(e) ==
    /\ status[e] \in {"up", "closing"} /\ RetentionAge > 0
    /\ rows' = Prune(rows, Now(e) - RetentionAge, {})
    /\ UNCHANGED <<clock, status, beating, due, misses, seen, told, pipe, buried>>

----------------------------------------------------------------------------
(* Heartbeats, shutdown and time. *)

Beat(e) ==
    /\ e \in beating /\ clock >= due[e]
    /\ seen' = [seen EXCEPT ![e] = Now(e)]
    /\ due' = [due EXCEPT ![e] = @ + Interval]
    /\ misses' = [misses EXCEPT ![e] = 0]
    /\ UNCHANGED <<clock, status, beating, told, pipe, rows, buried>>

\* The store refuses a heartbeat; the error is reported and the next tick awaited.
BeatFails(e) ==
    /\ e \in beating /\ clock >= due[e] /\ misses[e] < MaxMisses
    /\ due' = [due EXCEPT ![e] = @ + Interval]
    /\ misses' = [misses EXCEPT ![e] = @ + 1]
    /\ UNCHANGED <<clock, status, beating, seen, told, pipe, rows, buried>>

\* Close closes the done channel.
Close(e) ==
    /\ status[e] = "up"
    /\ status' = [status EXCEPT ![e] = "closing"]
    /\ UNCHANGED <<clock, beating, due, misses, seen, told, pipe, rows, buried>>

\* beat sees it and retires the epoch, or fails to; run drains meanwhile.
Retire(e) ==
    /\ status[e] = "closing" /\ e \in beating
    /\ seen' = [seen EXCEPT ![e] = 0] \/ UNCHANGED seen
    /\ beating' = beating \ {e}
    /\ due' = [due EXCEPT ![e] = 0]
    /\ misses' = [misses EXCEPT ![e] = 0]
    /\ UNCHANGED <<clock, status, told, pipe, rows, buried>>

\* The process is gone, and its goroutines with it.
Ends(e) ==
    /\ status' = [status EXCEPT ![e] = "gone"]
    /\ beating' = beating \ {e}
    /\ due' = [due EXCEPT ![e] = 0]
    /\ misses' = [misses EXCEPT ![e] = 0]

\* Close returns once run has drained, waiting for no other goroutine, and the
\* process ends.
Exit(e) ==
    /\ status[e] = "closing" /\ pipe[e] = <<>>
    /\ Ends(e)
    /\ UNCHANGED <<clock, seen, told, pipe, rows, buried>>

\* The process dies with what its sink held.
Crash(e) ==
    /\ status[e] \in {"claimed", "up", "closing"}
    /\ Ends(e)
    /\ pipe' = [pipe EXCEPT ![e] = <<>>]
    /\ UNCHANGED <<clock, seen, told, rows, buried>>

\* Time passes, but not past a heartbeat or a launch that is due.
Tick ==
    /\ clock < MaxClock
    /\ \A e \in Epoch : /\ e \in beating => clock < due[e] + Lag
                        /\ status[e] = "claimed" => clock < due[e]
    /\ clock' = clock + 1
    /\ UNCHANGED <<status, beating, due, misses, seen, told, pipe, rows, buried>>

----------------------------------------------------------------------------
Next == \/ \E e \in Epoch : \/ Claim(e) \/ StartFails(e) \/ Launch(e)
                            \/ Write(e) \/ WriteFails(e) \/ Retain(e)
                            \/ Beat(e) \/ BeatFails(e)
                            \/ Close(e) \/ Retire(e) \/ Exit(e) \/ Crash(e)
        \/ \E j \in Job : \E s \in {"created", "active"} \union Outcome : Report(j, s)
        \/ Tick

Spec == Init /\ [][Next]_vars

----------------------------------------------------------------------------
(* Properties. *)

\* Fields no property of the fleet looks at stay blank.
Row == [epoch : Epoch, queue : {""}, state : State, name : {""}, err : {""},
        root : {""}, parent : {""}, attrs : {""}, enqueuedAt : Nat,
        startedAt : Nat, finishedAt : Nat, waitUS : Nat, execUS : Nat,
        attempt : Nat, pg : Nat, pgAt : Nat]

ProcessesOK ==
    /\ clock \in Nat
    /\ status \in [Epoch -> {"off", "claimed", "up", "closing", "gone"}]
    /\ beating \subseteq Epoch /\ buried \subseteq Epoch
    /\ due \in [Epoch -> Nat] /\ seen \in [Epoch -> Nat]
    /\ misses \in [Epoch -> 0..MaxMisses]

RecordsOK ==
    /\ told \in [Job -> SUBSET State]
    /\ pipe \in [Epoch -> Seq([job : Job, rec : Row])]
    /\ \A e \in Epoch : Len(pipe[e]) <= Buffer
    /\ DOMAIN rows \subseteq Job
    /\ \A j \in DOMAIN rows : rows[j] \in Row /\ rows[j].epoch = Owner[j]

\* The variables have their types, a sink holds no more than its buffer, and a row belongs
\* to the epoch in its key.
TypeOK == ProcessesOK /\ RecordsOK

\* "A live sibling's jobs must survive this" (ReconcileEpoch): history shows
\* for a job of a recording process only what that job's own hooks reported,
\* however many siblings start, as long as the staleness gap covers the delays.
LiveJobsSurvive ==
    \A j \in DOMAIN rows : status[Owner[j]] = "up" => rows[j].state \in told[j]

\* A boot that finds a dead epoch silent resolves all of its jobs for good:
\* none is shown unfinished afterwards (Start, ReconcileEpoch).
BuriedAreResolved ==
    \A j \in DOMAIN rows : Owner[j] \in buried => Terminal(rows[j].state)

Shown == [j \in DOMAIN rows |-> rows[j].state]
Promise == INSTANCE History WITH shown <- Shown

\* The rows implement History: no step of any process moves a job backwards,
\* changes an outcome or forgets unfinished work (merge, ReconcileEpoch, Prune).
HistorySpec == Promise!Spec

----------------------------------------------------------------------------
(* What the documents say and the code does not do. *)

\* "On startup, non-terminal rows from earlier epochs become interrupted ...
\* rather than a job stuck active forever": those of dead processes do.
RestartReconciles ==
    [][\A e \in Epoch : status[e] = "claimed" /\ status'[e] = "up" =>
          \A j \in DOMAIN rows : status[Owner[j]] = "gone" => Terminal(rows'[j].state)]_vars

\* interrupted: "The process died while this was in flight.  Its real outcome
\* was never recorded": an interrupted row has no finish time.
InterruptedWasUnrecorded ==
    \A j \in DOMAIN rows : rows[j].state = "interrupted" => rows[j].finishedAt = 0
============================================================================
