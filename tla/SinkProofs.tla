----------------------------- MODULE SinkProofs -----------------------------
(***************************************************************************)
(* Proofs about the sink of one process, for any number of goroutines and  *)
(* any sizes of the buffer and the batch.                                  *)
(***************************************************************************)
EXTENDS Sink, FiniteSetTheorems, TLAPS

USE DEF InStart

(* The inductive invariant. *)

\* A worker at the second select of offer has a record in hand.
SendHasRecord == \A w \in Worker : offering[w] = "send" => todo[w] # <<>>

\* The mutex: one caller is inside Start at a time, and only before the launch.
StartExcludes ==
    /\ \A s, t \in Starter : start[s] \in InStart /\ start[t] \in InStart => s = t
    /\ \A s \in Starter : start[s] \in InStart => ~started
    /\ \A s \in Starter : start[s] = "ok" => started

\* The goroutines exist from the launch on; a retired epoch has no beat left.
LaunchedTogether ==
    /\ started <=> writer # "none"
    /\ started <=> beat # "none"
    /\ epochRow = "retired" => beat = "exited"

\* closeOnce: one closer runs the body, and done is open until it signals.
InBody(c) == close[c] \in {"read", "signal", "wait"}
OneCloses ==
    /\ \A c, d \in Closer : InBody(c) /\ InBody(d) => c = d
    /\ \A c \in Closer : InBody(c) => once = "running"
    /\ \A c \in Closer : close[c] \in {"read", "signal"} => ~done
    /\ once = "unused" => ~done
    /\ saw => started
    /\ once = "complete" /\ saw => Stopped

\* run has found the channel empty and will only finish its last flush.
LastFlush == Stopped \/ (writer \in {"jobs", "attempts"} /\ resume = "exited")

\* run drains after done only, and what a finished drain finds in the channel
\* later was not there when the sink was closed.
Drains ==
    /\ writer \in {"drain", "exited"} => done
    /\ writer \in {"jobs", "attempts"} /\ resume # "select" => done
    /\ writer = "attempts" => jobs = <<>>
    /\ Stopped => jobs = <<>> /\ attempts = <<>>
    /\ LastFlush => Range(events) \intersect atClose = {}

\* A record enters the channel once: what a worker still has to offer has no
\* stamp and is nowhere else, what the sink has held has one.
OfferedOnce ==
    /\ \A w \in Worker : \A i \in DOMAIN todo[w] :
          stamp[todo[w][i]] = 0 /\ todo[w][i].call \notin fresh
    /\ \A w, v \in Worker : \A i \in DOMAIN todo[w] : \A j \in DOMAIN todo[v] :
          todo[w][i] = todo[v][j] => w = v /\ i = j
    /\ \A r \in Record : r.call \in fresh => stamp[r] = 0

HeldIsStamped == \A r \in Buffered \union atClose : stamp[r] # 0

Inv == /\ TypeOK /\ SendHasRecord /\ StartExcludes /\ LaunchedTogether
       /\ OneCloses /\ Drains /\ OfferedOnce /\ HeldIsStamped /\ Accounting

----------------------------------------------------------------------------
(* Sequences. *)

LEMMA TailFacts ==
    ASSUME NEW S, NEW q \in Seq(S), q # <<>>
    PROVE  /\ Head(q) \in S /\ Head(q) = q[1] /\ 1 \in DOMAIN q
           /\ Tail(q) \in Seq(S)
           /\ Len(Tail(q)) = Len(q) - 1
           /\ \A i \in DOMAIN Tail(q) : i + 1 \in DOMAIN q /\ Tail(q)[i] = q[i + 1]
  OBVIOUS

LEMMA TailRange ==
    ASSUME NEW S, NEW q \in Seq(S), q # <<>>
    PROVE  Range(Tail(q)) \subseteq Range(q) /\ Head(q) \in Range(q)
  BY TailFacts DEF Range

LEMMA AppendFacts ==
    ASSUME NEW S, NEW q \in Seq(S), NEW x \in S
    PROVE  /\ Append(q, x) \in Seq(S) /\ Len(Append(q, x)) = Len(q) + 1
           /\ Range(Append(q, x)) = Range(q) \union {x}
  <1>1. Append(q, x) \in Seq(S) /\ Len(Append(q, x)) = Len(q) + 1
    OBVIOUS
  <1>2. /\ DOMAIN Append(q, x) = DOMAIN q \union {Len(q) + 1}
        /\ Append(q, x)[Len(q) + 1] = x
        /\ \A i \in DOMAIN q : Append(q, x)[i] = q[i]
    OBVIOUS
  <1>3. Range(Append(q, x)) = Range(q) \union {x}
    BY <1>2 DEF Range
  <1> QED
    BY <1>1, <1>3

LEMMA ConcatType ==
    ASSUME NEW S, NEW q \in Seq(S), NEW p \in Seq(S)
    PROVE  q \o p \in Seq(S) /\ Len(p) \in Nat
  OBVIOUS

LEMMA EmptyRange == Range(<<>>) = {}
  BY DEF Range

LEMMA EmptyLength ==
    ASSUME NEW S, NEW q \in Seq(S)
    PROVE  Len(q) \in Nat /\ (Len(q) = 0 <=> q = <<>>)
  OBVIOUS

----------------------------------------------------------------------------
(* The initial states. *)

LEMMA InvInit == Init => Inv
  <1> SUFFICES ASSUME Init PROVE Inv
    OBVIOUS
  <1>1. HooksOK /\ WriterOK /\ LoopsOK
    BY SinkAssumption DEF Init, HooksOK, WriterOK, LoopsOK
  <1>2. calls \in 0..MaxStarts
    BY SinkAssumption DEF Init
  <1>3. CallersOK
    BY <1>2 DEF Init, CallersOK
  <1>4. SendHasRecord /\ StartExcludes /\ LaunchedTogether
    BY DEF Init, SendHasRecord, StartExcludes, LaunchedTogether
  <1>5. OneCloses
    BY DEF Init, OneCloses, InBody
  <1>6. Drains /\ Accounting
    BY DEF Init, Drains, LastFlush, Stopped, Accounting
  <1>7. OfferedOnce
    BY DEF Init, OfferedOnce
  <1>8. HeldIsStamped
    BY EmptyRange DEF Init, HeldIsStamped, Buffered
  <1> QED
    BY <1>1, <1>3, <1>4, <1>5, <1>6, <1>7, <1>8 DEF Inv, TypeOK

----------------------------------------------------------------------------
(* Who changes what. *)

\* Only hooks change the workers, the counter of drops and the stamps.
LEMMA HookFrame ==
    ASSUME [Next]_vars, ~ \E w \in Worker : Hook(w) \/ OfferCheck(w) \/ OfferSend(w)
    PROVE  UNCHANGED <<fresh, todo, offering, offers, sent, dropped, stamp>>
  BY DEF Next, vars, workerVars, seenVars, restVars, StartErr, StartLock, StartMigrate, StartHeartbeat,
         StartReconcile, CloseCall, CloseJoin, CloseRead, CloseSignal, CloseReturn,
         Take, RunReceive, RunTick, RunDone, DrainReceive, DrainEnd, FlushJobs, FlushAttempts,
         BeatTick, BeatDone, RetainPrune, RetainTick, RetainDone, Quiescent

\* Only Start and Close change the state they share.
LEMMA CallerFrame ==
    ASSUME [Next]_vars,
           ~ \E s \in Starter : StartLock(s) \/ StartMigrate(s) \/ StartHeartbeat(s)
                                \/ StartReconcile(s),
           ~ \E c \in Closer : CloseCall(c) \/ CloseJoin(c) \/ CloseRead(c)
                               \/ CloseSignal(c) \/ CloseReturn(c)
    PROVE  UNCHANGED <<done, started, start, calls, once, close, saw, atClose>>
  BY DEF Next, vars, callerVars, seenVars, restVars, Hook, OfferCheck, OfferSend,
         Take, RunReceive, RunTick, RunDone, DrainReceive, DrainEnd, FlushJobs, FlushAttempts,
         BeatTick, BeatDone, RetainPrune, RetainTick, RetainDone, Quiescent

\* Besides run, offer fills the channel and Start launches the writer.
LEMMA WriterFrame ==
    ASSUME [Next]_vars, ~Run, 
           ~ \E w \in Worker : OfferSend(w),
           ~ \E s \in Starter : StartReconcile(s)
    PROVE  UNCHANGED <<events, writer, resume, jobs, attempts, written, lost, logJobs,
                       logAttempts>>
  BY DEF Next, Run, vars, writerVars, storeVars, restVars, Hook, OfferCheck, StartErr, StartLock,
         StartMigrate, StartHeartbeat, CloseCall, CloseJoin, CloseRead, CloseSignal, CloseReturn,
         BeatTick, BeatDone, RetainPrune, RetainTick, RetainDone, Quiescent

\* Only Start and the two loops change the loops and the epoch's row.
LEMMA LoopFrame ==
    ASSUME [Next]_vars,
           ~ \E s \in Starter : StartMigrate(s) \/ StartHeartbeat(s) \/ StartReconcile(s),
           ~(BeatTick \/ BeatDone \/ RetainPrune \/ RetainTick \/ RetainDone)
    PROVE  UNCHANGED <<beat, retain, epochRow>>
  BY DEF Next, vars, loopVars, Hook, OfferCheck, OfferSend, StartLock, CloseCall, CloseJoin,
         CloseRead, CloseSignal, CloseReturn, Take, RunReceive, RunTick, RunDone, DrainReceive,
         DrainEnd, FlushJobs, FlushAttempts, Quiescent

----------------------------------------------------------------------------
(* Type correctness. *)

LEMMA HooksNext ==
    ASSUME Inv, [Next]_vars
    PROVE  HooksOK' /\ SendHasRecord'
  <1> USE DEF HooksOK, SendHasRecord
  <1>0. HooksOK /\ SendHasRecord
    BY DEF Inv, TypeOK
  <1>1. ASSUME NEW w \in Worker, Hook(w) PROVE HooksOK' /\ SendHasRecord'
    <2>1. \A c \in Call : /\ [call |-> c, isJob |-> TRUE] \in Record
                          /\ [call |-> c, isJob |-> FALSE] \in Record
      BY DEF Record
    <2> QED
      BY <1>0, <1>1, <2>1 DEF Hook, seenVars
  <1>2. ASSUME NEW w \in Worker, OfferCheck(w) PROVE HooksOK' /\ SendHasRecord'
    <2>1. Tail(todo[w]) \in Seq(Record)
      BY <1>0, <1>2, TailFacts DEF OfferCheck
    <2>2. CASE done
      <3>1. /\ dropped' = dropped + 1 /\ offers' = offers + 1
            /\ todo' = [todo EXCEPT ![w] = Tail(@)]
            /\ UNCHANGED <<offering, fresh, stamp, sent>> /\ offering[w] = "check"
        BY <1>2, <2>2 DEF OfferCheck
      <3>2. todo' \in [Worker -> Seq(Record)]
        BY <1>0, <2>1, <3>1
      <3>3. SendHasRecord'
        BY <1>0, <3>1
      <3> QED
        BY <1>0, <3>1, <3>2, <3>3
    <2>3. CASE ~done
      BY <1>0, <1>2, <2>3 DEF OfferCheck
    <2> QED
      BY <2>2, <2>3
  <1>3. ASSUME NEW w \in Worker, OfferSend(w) PROVE HooksOK' /\ SendHasRecord'
    <2>1. Tail(todo[w]) \in Seq(Record) /\ Head(todo[w]) \in Record
      BY <1>0, <1>3, TailFacts DEF OfferSend
    <2>2. stamp' \in [Record -> 0..sent']
      <3>1. CASE Len(events) < Buffer
        <4>1. sent' = sent + 1 /\ stamp' = [stamp EXCEPT ![Head(todo[w])] = sent + 1]
          BY <1>3, <3>1 DEF OfferSend
        <4> QED
          BY <1>0, <2>1, <4>1
      <3>2. CASE ~(Len(events) < Buffer)
        BY <1>0, <1>3, <3>2 DEF OfferSend
      <3> QED
        BY <3>1, <3>2
    <2> QED
      BY <1>0, <1>3, <2>1, <2>2, SMTT(40) DEF OfferSend
  <1> QED
    BY <1>0, <1>1, <1>2, <1>3, HookFrame

LEMMA CallersNext ==
    ASSUME Inv, [Next]_vars
    PROVE  CallersOK'
  <1> USE DEF CallersOK, StartErr
  <1>0. CallersOK
    BY DEF Inv, TypeOK
  <1>1. ASSUME NEW s \in Starter, StartLock(s) PROVE CallersOK'
    BY <1>0, <1>1, SinkAssumption DEF StartLock, seenVars
  <1>2. ASSUME NEW s \in Starter, StartMigrate(s) \/ StartHeartbeat(s) \/ StartReconcile(s)
        PROVE  CallersOK'
    BY <1>0, <1>2 DEF StartMigrate, StartHeartbeat, StartReconcile, seenVars
  <1>3. ASSUME NEW c \in Closer, CloseCall(c) \/ CloseJoin(c) \/ CloseRead(c) \/ CloseReturn(c)
        PROVE  CallersOK'
    BY <1>0, <1>3 DEF CloseCall, CloseJoin, CloseRead, CloseReturn, seenVars
  <1>4. ASSUME NEW c \in Closer, CloseSignal(c) PROVE CallersOK'
    <2>1. Buffered \subseteq Record
      BY DEF Inv, TypeOK, Buffered, WriterOK, Range
    <2> QED
      BY <1>0, <1>4, <2>1 DEF CloseSignal
  <1> QED
    BY <1>0, <1>1, <1>2, <1>3, <1>4, CallerFrame

LEMMA TakeType ==
    ASSUME Inv, NEW here \in {"select", "drain"}, writer = here, Take(here)
    PROVE  WriterOK' /\ Len(events') = Len(events) - 1
           /\ Len(jobs') + Len(attempts') = Len(jobs) + Len(attempts) + 1
  <1> USE DEF WriterOK
  <1>0. WriterOK
    BY DEF Inv, TypeOK
  <1>1. Head(events) \in Record /\ Tail(events) \in Seq(Record) /\ Len(Tail(events)) = Len(events) - 1
    BY <1>0, TailFacts DEF Take
  <1>2. /\ jobs' \in Seq(Record) /\ attempts' \in Seq(Record)
        /\ Len(jobs') + Len(attempts') = Len(jobs) + Len(attempts) + 1
    <2>1. CASE Head(events).isJob
      <3>1. jobs' = Append(jobs, Head(events)) /\ attempts' = attempts
        BY <2>1 DEF Take
      <3> QED
        BY <1>0, <1>1, <3>1, AppendFacts, EmptyLength
    <2>2. CASE ~Head(events).isJob
      <3>1. attempts' = Append(attempts, Head(events)) /\ jobs' = jobs
        BY <2>2 DEF Take
      <3> QED
        BY <1>0, <1>1, <3>1, AppendFacts, EmptyLength
    <2> QED
      BY <2>1, <2>2
  <1> QED
    BY <1>0, <1>1, <1>2, SinkAssumption, SMTT(40) DEF Take, storeVars

LEMMA WriterNext ==
    ASSUME Inv, [Next]_vars
    PROVE  WriterOK'
  <1> USE DEF WriterOK
  <1>0. WriterOK
    BY DEF Inv, TypeOK
  <1>1. ASSUME NEW w \in Worker, OfferSend(w) PROVE WriterOK'
    <2>1. Head(todo[w]) \in Record
      BY <1>1, TailFacts DEF OfferSend, Inv, TypeOK, HooksOK, SendHasRecord
    <2>2. events' \in Seq(Record) /\ Len(events') <= Buffer
      <3>1. CASE Len(events) < Buffer
        <4>1. events' = Append(events, Head(todo[w]))
          BY <1>1, <3>1 DEF OfferSend
        <4>2. events' \in Seq(Record) /\ Len(events') = Len(events) + 1
          BY <1>0, <2>1, <4>1, AppendFacts
        <4> QED
          BY <1>0, <3>1, <4>2, SinkAssumption, EmptyLength
      <3>2. CASE ~(Len(events) < Buffer)
        BY <1>0, <1>1, <3>2 DEF OfferSend
      <3> QED
        BY <3>1, <3>2
    <2>3. UNCHANGED <<writerVars, storeVars>>
      BY <1>1 DEF OfferSend
    <2> QED
      BY <1>0, <2>2, <2>3 DEF writerVars, storeVars
  <1>2. ASSUME NEW s \in Starter, StartReconcile(s) PROVE WriterOK'
    BY <1>0, <1>2 DEF StartReconcile, StartErr, storeVars, Inv, StartExcludes, LaunchedTogether
  <1>3. ASSUME RunReceive \/ DrainReceive PROVE WriterOK'
    BY <1>3, TakeType DEF RunReceive, DrainReceive
  <1>4. ASSUME RunTick \/ RunDone \/ DrainEnd PROVE WriterOK'
    <2>1. UNCHANGED <<events, jobs, attempts, written, logJobs, logAttempts, lost>>
      BY <1>4 DEF RunTick, RunDone, DrainEnd, storeVars
    <2>2. /\ Len(jobs) + Len(attempts) < BatchSize
          /\ writer' \in {"drain", "jobs", "exited"} /\ resume' \in {"select", "drain", "exited"}
      BY <1>0, <1>4 DEF RunTick, RunDone, DrainEnd
    <2> QED
      BY <1>0, <2>1, <2>2, SinkAssumption
  <1>5. ASSUME FlushJobs PROVE WriterOK'
    <2>1. /\ logJobs' \in Seq(Record) /\ written' \in Nat /\ lost' \in Nat
          /\ jobs' = <<>> /\ jobs' \in Seq(Record)
          /\ UNCHANGED <<events, resume, attempts, logAttempts>>
          /\ writer' = "attempts"
      <3>1. logJobs \o jobs \in Seq(Record) /\ Len(jobs) \in Nat
        BY <1>0, ConcatType
      <3>2. \/ logJobs' = logJobs \o jobs /\ written' = written + Len(jobs) /\ lost' = lost
            \/ logJobs' = logJobs /\ written' = written /\ lost' = lost + Len(jobs)
        BY <1>5 DEF FlushJobs
      <3>3. logJobs' \in Seq(Record) /\ written' \in Nat /\ lost' \in Nat
        <4>1. logJobs \in Seq(Record) /\ written \in Nat /\ lost \in Nat
          BY <1>0
        <4> HIDE DEF WriterOK
        <4>2. logJobs' \in Seq(Record)
          BY <3>1, <3>2, <4>1
        <4>3. written' \in Nat /\ lost' \in Nat
          BY <3>1, <3>2, <4>1
        <4> QED
          BY <4>2, <4>3
      <3>4. jobs' = <<>> /\ writer' = "attempts" /\ UNCHANGED <<events, resume, attempts, logAttempts>>
        BY <1>5 DEF FlushJobs
      <3> QED
        BY <1>0, <3>3, <3>4
    <2>2. Len(jobs') + Len(attempts') <= BatchSize
      <3>1. Len(jobs') = 0 /\ Len(attempts') = Len(attempts)
        BY <2>1
      <3> QED
        BY <1>0, <3>1, EmptyLength, SinkAssumption
    <2> QED
      BY <1>0, <2>1, <2>2
  <1>6. ASSUME FlushAttempts PROVE WriterOK'
    <2>1. /\ logAttempts' \in Seq(Record) /\ written' \in Nat /\ lost' \in Nat
          /\ attempts' = <<>> /\ attempts' \in Seq(Record)
          /\ UNCHANGED <<events, resume, jobs, logJobs>>
          /\ writer' \in {"select", "drain", "exited"}
      <3>1. logAttempts \o attempts \in Seq(Record) /\ Len(attempts) \in Nat
        BY <1>0, ConcatType
      <3>2. \/ logAttempts' = logAttempts \o attempts /\ written' = written + Len(attempts) /\ lost' = lost
            \/ logAttempts' = logAttempts /\ written' = written /\ lost' = lost + Len(attempts)
        BY <1>6 DEF FlushAttempts
      <3>3. logAttempts' \in Seq(Record) /\ written' \in Nat /\ lost' \in Nat
        <4>1. logAttempts \in Seq(Record) /\ written \in Nat /\ lost \in Nat
          BY <1>0
        <4> HIDE DEF WriterOK
        <4>2. logAttempts' \in Seq(Record)
          BY <3>1, <3>2, <4>1
        <4>3. written' \in Nat /\ lost' \in Nat
          BY <3>1, <3>2, <4>1
        <4> QED
          BY <4>2, <4>3
      <3>4. attempts' = <<>> /\ writer' = resume /\ UNCHANGED <<events, resume, jobs, logJobs>>
        BY <1>6 DEF FlushAttempts
      <3> QED
        BY <1>0, <3>3, <3>4
    <2>2. Len(jobs') + Len(attempts') < BatchSize
      BY <1>6, <2>1, SinkAssumption DEF FlushAttempts, Inv, Drains
    <2> QED
      BY <1>0, <2>1, <2>2, SinkAssumption
  <1> QED
    BY <1>0, <1>1, <1>2, <1>3, <1>4, <1>5, <1>6, WriterFrame DEF Run

LEMMA LoopsNext ==
    ASSUME Inv, [Next]_vars
    PROVE  LoopsOK'
  <1>0. LoopsOK
    BY DEF Inv, TypeOK
  <1> USE DEF LoopsOK
  <1>1. ASSUME NEW s \in Starter, StartMigrate(s) \/ StartHeartbeat(s) \/ StartReconcile(s)
        PROVE  LoopsOK'
    BY <1>0, <1>1 DEF StartMigrate, StartHeartbeat, StartReconcile, StartErr
  <1>2. CASE BeatTick \/ BeatDone \/ RetainPrune \/ RetainTick \/ RetainDone
    BY <1>0, <1>2 DEF BeatTick, BeatDone, RetainPrune, RetainTick, RetainDone
  <1> QED
    BY <1>0, <1>1, <1>2, LoopFrame

LEMMA TypeNext ==
    ASSUME Inv, [Next]_vars
    PROVE  TypeOK'
  BY HooksNext, CallersNext, WriterNext, LoopsNext DEF TypeOK

----------------------------------------------------------------------------
(* Start and Close. *)

LEMMA StartExcludesNext ==
    ASSUME Inv, [Next]_vars
    PROVE  StartExcludes'
  <1>0. CallersOK /\ StartExcludes
    BY DEF Inv, TypeOK
  <1> USE DEF CallersOK, StartExcludes
  <1>1. ASSUME NEW s \in Starter, StartLock(s) PROVE StartExcludes'
    BY <1>0, <1>1 DEF StartLock, MutexFree
  <1>2. ASSUME NEW s \in Starter, StartMigrate(s) \/ StartHeartbeat(s) PROVE StartExcludes'
    BY <1>0, <1>2 DEF StartMigrate, StartHeartbeat, StartErr
  <1>3. ASSUME NEW s \in Starter, StartReconcile(s) PROVE StartExcludes'
    BY <1>0, <1>3 DEF StartReconcile, StartErr
  <1>4. ASSUME NEW c \in Closer, CloseCall(c) \/ CloseJoin(c) \/ CloseRead(c)
                                 \/ CloseSignal(c) \/ CloseReturn(c)
        PROVE  StartExcludes'
    BY <1>0, <1>4 DEF CloseCall, CloseJoin, CloseRead, CloseSignal, CloseReturn
  <1> QED
    BY <1>0, <1>1, <1>2, <1>3, <1>4, CallerFrame

\* What Start and the writer do to each other's state.
LEMMA LaunchFrame ==
    ASSUME Inv, [Next]_vars, ~ \E s \in Starter : StartReconcile(s)
    PROVE  /\ UNCHANGED started
           /\ writer = "none" <=> writer' = "none"
           /\ beat = "none" <=> beat' = "none"
  <1>1. UNCHANGED started
    BY CallerFrame DEF StartLock, StartMigrate, StartHeartbeat, StartErr,
       CloseCall, CloseJoin, CloseRead, CloseSignal, CloseReturn
  <1>2. writer = "none" <=> writer' = "none"
    <2>1. CASE Run
      BY <2>1 DEF Run, RunReceive, RunTick, RunDone, DrainReceive, DrainEnd, Take,
         FlushJobs, FlushAttempts, Inv, TypeOK, WriterOK
    <2>2. CASE \E w \in Worker : OfferSend(w)
      BY <2>2 DEF OfferSend, writerVars
    <2> QED
      BY <2>1, <2>2, WriterFrame
  <1>3. beat = "none" <=> beat' = "none"
    BY LoopFrame DEF StartMigrate, StartHeartbeat, StartErr, BeatTick, BeatDone,
       RetainPrune, RetainTick, RetainDone
  <1> QED
    BY <1>1, <1>2, <1>3

LEMMA LaunchedTogetherNext ==
    ASSUME Inv, [Next]_vars
    PROVE  LaunchedTogether'
  <1>0. LaunchedTogether /\ StartExcludes /\ CallersOK
    BY DEF Inv, TypeOK
  <1>1. ASSUME NEW s \in Starter, StartReconcile(s) PROVE LaunchedTogether'
    BY <1>0, <1>1 DEF StartReconcile, StartErr, LaunchedTogether, StartExcludes
  <1>2. CASE ~ \E s \in Starter : StartReconcile(s)
    <2>1. epochRow' = "retired" => beat' = "exited"
      <3>1. ASSUME NEW s \in Starter, StartMigrate(s) \/ StartHeartbeat(s)
            PROVE  epochRow' = "retired" => beat' = "exited"
        BY <1>0, <3>1 DEF StartMigrate, StartHeartbeat, StartErr, LaunchedTogether
      <3>2. ASSUME BeatTick \/ BeatDone \/ RetainPrune \/ RetainTick \/ RetainDone
            PROVE  epochRow' = "retired" => beat' = "exited"
        BY <1>0, <3>2 DEF BeatTick, BeatDone, RetainPrune, RetainTick, RetainDone,
           LaunchedTogether
      <3> QED
        BY <1>0, <1>2, <3>1, <3>2, LoopFrame DEF LaunchedTogether
    <2> QED
      BY <1>0, <1>2, <2>1, LaunchFrame DEF LaunchedTogether
  <1> QED
    BY <1>1, <1>2

\* run does not come back once it has returned.
LEMMA StoppedStays ==
    ASSUME Inv, [Next]_vars, Stopped
    PROVE  Stopped'
  <1>1. started /\ \A s \in Starter : start[s] \notin InStart
    BY DEF Inv, LaunchedTogether, StartExcludes, Stopped
  <1>2. ~ \E s \in Starter : StartReconcile(s)
    BY <1>1 DEF StartReconcile
  <1>3. ~Run
    BY DEF Run, RunReceive, RunTick, RunDone, DrainReceive, DrainEnd, FlushJobs,
       FlushAttempts, Stopped
  <1>4. CASE \E w \in Worker : OfferSend(w)
    BY <1>4 DEF OfferSend, writerVars, Stopped
  <1> QED
    BY <1>2, <1>3, <1>4, WriterFrame DEF Stopped

LEMMA OneClosesNext ==
    ASSUME Inv, [Next]_vars
    PROVE  OneCloses'
  <1>0. CallersOK /\ OneCloses /\ StartExcludes
    BY DEF Inv, TypeOK
  <1>1. Stopped => Stopped'
    BY StoppedStays
  <1> HIDE DEF Stopped
  <1> USE DEF CallersOK, OneCloses, InBody
  <1>2. ASSUME NEW s \in Starter, StartLock(s) \/ StartMigrate(s) \/ StartHeartbeat(s)
                                  \/ StartReconcile(s)
        PROVE  OneCloses'
    BY <1>0, <1>1, <1>2 DEF StartLock, StartMigrate, StartHeartbeat, StartReconcile, StartErr
  <1>3. ASSUME NEW c \in Closer, CloseCall(c) PROVE OneCloses'
    BY <1>0, <1>1, <1>3 DEF CloseCall
  <1>4. ASSUME NEW c \in Closer, CloseJoin(c) PROVE OneCloses'
    BY <1>0, <1>1, <1>4 DEF CloseJoin
  <1>5. ASSUME NEW c \in Closer, CloseRead(c) PROVE OneCloses'
    BY <1>0, <1>1, <1>5 DEF CloseRead
  <1>6. ASSUME NEW c \in Closer, CloseSignal(c) PROVE OneCloses'
    BY <1>0, <1>1, <1>6 DEF CloseSignal
  <1>7. ASSUME NEW c \in Closer, CloseReturn(c) PROVE OneCloses'
    BY <1>0, <1>1, <1>7 DEF CloseReturn
  <1> QED
    BY <1>0, <1>1, <1>2, <1>3, <1>4, <1>5, <1>6, <1>7, CallerFrame

----------------------------------------------------------------------------
(* The records. *)

\* The record offer is about to send has no stamp yet and is sent by no other.
LEMMA SendFacts ==
    ASSUME Inv, NEW w \in Worker, OfferSend(w)
    PROVE  /\ Head(todo[w]) \in Record /\ Head(todo[w]) = todo[w][1] /\ 1 \in DOMAIN todo[w]
           /\ stamp[Head(todo[w])] = 0
           /\ \A i \in DOMAIN Tail(todo[w]) :
                 i + 1 \in DOMAIN todo[w] /\ Tail(todo[w])[i] = todo[w][i + 1]
  <1>1. todo[w] \in Seq(Record) /\ todo[w] # <<>>
    BY DEF Inv, TypeOK, HooksOK, SendHasRecord, OfferSend
  <1> QED
    BY <1>1, TailFacts DEF Inv, OfferedOnce

LEMMA AccountingNext ==
    ASSUME Inv, [Next]_vars
    PROVE  Accounting'
  <1>0. /\ Accounting
        /\ dropped \in Nat /\ written \in Nat /\ lost \in Nat /\ offers \in Nat
        /\ Len(events) \in Nat /\ Len(jobs) \in Nat /\ Len(attempts) \in Nat
    BY EmptyLength DEF Inv, TypeOK, WriterOK, HooksOK
  <1> USE DEF Accounting
  <1>1. ASSUME NEW w \in Worker, Hook(w) PROVE Accounting'
    BY <1>0, <1>1 DEF Hook, writerVars, storeVars, seenVars
  <1>2. ASSUME NEW w \in Worker, OfferCheck(w) PROVE Accounting'
    <2>1. UNCHANGED <<events, writerVars, storeVars>>
      BY <1>2 DEF OfferCheck
    <2>2. \/ dropped' = dropped + 1 /\ offers' = offers + 1
          \/ dropped' = dropped /\ offers' = offers
      BY <1>2 DEF OfferCheck
    <2> QED
      BY <1>0, <2>1, <2>2 DEF writerVars, storeVars
  <1>3. ASSUME NEW w \in Worker, OfferSend(w) PROVE Accounting'
    <2>1. UNCHANGED <<writerVars, storeVars>> /\ offers' = offers + 1
      BY <1>3 DEF OfferSend
    <2>2. \/ Len(events') = Len(events) + 1 /\ dropped' = dropped
          \/ Len(events') = Len(events) /\ dropped' = dropped + 1
      BY <1>3, SendFacts, AppendFacts DEF OfferSend, Inv, TypeOK, WriterOK
    <2> QED
      BY <1>0, <2>1, <2>2, SMTT(40) DEF writerVars, storeVars
  <1>4. ASSUME ~ \E w \in Worker : Hook(w) \/ OfferCheck(w) \/ OfferSend(w) PROVE Accounting'
    <2>1. UNCHANGED <<dropped, offers>>
      BY <1>4, HookFrame
    <2>2. CASE RunReceive \/ DrainReceive
      <3>1. /\ Len(events') = Len(events) - 1
            /\ Len(jobs') + Len(attempts') = Len(jobs) + Len(attempts) + 1
            /\ Len(jobs') \in Nat /\ Len(attempts') \in Nat
        BY <2>2, TakeType, EmptyLength DEF RunReceive, DrainReceive, WriterOK
      <3>2. UNCHANGED <<written, lost>>
        BY <2>2 DEF RunReceive, DrainReceive, Take, storeVars
      <3> QED
        BY <1>0, <2>1, <3>1, <3>2
    <2>3. CASE RunTick \/ RunDone \/ DrainEnd
      <3>1. UNCHANGED <<events, jobs, attempts, written, lost>>
        BY <2>3 DEF RunTick, RunDone, DrainEnd, storeVars
      <3> QED
        BY <1>0, <2>1, <3>1
    <2>4. CASE FlushJobs
      <3>1. /\ \/ written' = written + Len(jobs) /\ lost' = lost
               \/ written' = written /\ lost' = lost + Len(jobs)
            /\ Len(jobs') = 0 /\ UNCHANGED <<events, attempts>>
        BY <1>0, <2>4 DEF FlushJobs
      <3> QED
        BY <1>0, <2>1, <3>1
    <2>5. CASE FlushAttempts
      <3>1. /\ \/ written' = written + Len(attempts) /\ lost' = lost
               \/ written' = written /\ lost' = lost + Len(attempts)
            /\ Len(attempts') = 0 /\ UNCHANGED <<events, jobs>>
        BY <1>0, <2>5 DEF FlushAttempts
      <3> QED
        BY <1>0, <2>1, <3>1
    <2>6. CASE \E s \in Starter : StartReconcile(s)
      <3>1. UNCHANGED <<events, jobs, attempts, written, lost>>
        BY <2>6 DEF StartReconcile, storeVars
      <3> QED
        BY <1>0, <2>1, <3>1
    <2>7. CASE ~Run /\ ~ \E s \in Starter : StartReconcile(s)
      <3>1. UNCHANGED <<events, jobs, attempts, written, lost>>
        BY <1>4, <2>7, WriterFrame
      <3> QED
        BY <1>0, <2>1, <3>1
    <2> QED
      BY <2>2, <2>3, <2>4, <2>5, <2>6, <2>7 DEF Run
  <1> QED
    BY <1>1, <1>2, <1>3, <1>4

LEMMA OfferedOnceNext ==
    ASSUME Inv, [Next]_vars
    PROVE  OfferedOnce'
  <1>0. OfferedOnce /\ HooksOK
    BY DEF Inv, TypeOK
  <1>1. ASSUME NEW w \in Worker, Hook(w) PROVE OfferedOnce'
    <2>1. PICK c \in fresh :
              /\ todo[w] = <<>> /\ fresh' = fresh \ {c} /\ stamp' = stamp
              /\ todo' = [todo EXCEPT ![w] =
                   IF c \in JobCall THEN <<[call |-> c, isJob |-> TRUE]>>
                   ELSE <<[call |-> c, isJob |-> TRUE], [call |-> c, isJob |-> FALSE]>>]
      BY <1>1 DEF Hook, seenVars
    <2>2. /\ [call |-> c, isJob |-> TRUE] \in Record
          /\ [call |-> c, isJob |-> FALSE] \in Record
          /\ [call |-> c, isJob |-> TRUE] # [call |-> c, isJob |-> FALSE]
      BY <1>0 DEF HooksOK, Record
    <2>3. \A v \in Worker : v # w => todo'[v] = todo[v]
      BY <1>0, <2>1 DEF HooksOK
    <2>4. /\ \A i \in DOMAIN todo'[w] : todo'[w][i] \in Record /\ todo'[w][i].call = c
          /\ \A i, j \in DOMAIN todo'[w] : todo'[w][i] = todo'[w][j] => i = j
      <3>1. CASE c \in JobCall
        <4> DEFINE a == [call |-> c, isJob |-> TRUE]
        <4>1. todo'[w] = <<a>>
          BY <1>0, <2>1, <3>1 DEF HooksOK
        <4>2. a.call = c /\ a \in Record
          BY <2>2
        <4> HIDE DEF a
        <4> QED
          BY <4>1, <4>2
      <3>2. CASE c \notin JobCall
        <4> DEFINE a == [call |-> c, isJob |-> TRUE]
                   b == [call |-> c, isJob |-> FALSE]
        <4>1. todo'[w] = <<a, b>>
          BY <1>0, <2>1, <3>2 DEF HooksOK
        <4>2. a.call = c /\ b.call = c /\ a \in Record /\ b \in Record /\ a # b
          BY <2>2
        <4> HIDE DEF a, b
        <4> QED
          BY <4>1, <4>2
      <3> QED
        BY <3>1, <3>2
    <2>5. \A v \in Worker : \A i \in DOMAIN todo'[v] :
              stamp'[todo'[v][i]] = 0 /\ todo'[v][i].call \notin fresh'
      <3>1. \A i \in DOMAIN todo'[w] : stamp'[todo'[w][i]] = 0 /\ todo'[w][i].call \notin fresh'
        <4> SUFFICES ASSUME NEW i \in DOMAIN todo'[w]
                     PROVE  stamp'[todo'[w][i]] = 0 /\ todo'[w][i].call \notin fresh'
          OBVIOUS
        <4> DEFINE r == todo'[w][i]
        <4>1. r \in Record /\ r.call = c
          BY <2>4
        <4> HIDE DEF r
        <4>2. stamp[r] = 0
          BY <1>0, <4>1 DEF OfferedOnce
        <4> QED
          BY <2>1, <4>1, <4>2 DEF r
      <3>2. ASSUME NEW v \in Worker, v # w, NEW i \in DOMAIN todo'[v]
            PROVE  stamp'[todo'[v][i]] = 0 /\ todo'[v][i].call \notin fresh'
        BY <1>0, <2>1, <2>3, <3>2 DEF OfferedOnce
      <3> QED
        BY <3>1, <3>2
    <2>6. \A v, u \in Worker : \A i \in DOMAIN todo'[v] : \A j \in DOMAIN todo'[u] :
              todo'[v][i] = todo'[u][j] => v = u /\ i = j
      <3> SUFFICES ASSUME NEW v \in Worker, NEW u \in Worker,
                          NEW i \in DOMAIN todo'[v], NEW j \in DOMAIN todo'[u],
                          todo'[v][i] = todo'[u][j]
                   PROVE  v = u /\ i = j
        OBVIOUS
      <3>1. (v = w) <=> (u = w)
        BY <1>0, <2>1, <2>3, <2>4 DEF OfferedOnce
      <3> QED
        BY <1>0, <2>3, <2>4, <3>1 DEF OfferedOnce
    <2> QED
      BY <1>0, <2>1, <2>5, <2>6 DEF OfferedOnce
  <1>2. ASSUME NEW w \in Worker, OfferCheck(w) PROVE OfferedOnce'
    <2>1. UNCHANGED <<fresh, stamp>> /\ (todo' = todo \/ todo' = [todo EXCEPT ![w] = Tail(@)])
      BY <1>2 DEF OfferCheck
    <2>2. \A i \in DOMAIN Tail(todo[w]) : i + 1 \in DOMAIN todo[w] /\ Tail(todo[w])[i] = todo[w][i + 1]
      BY <1>0, <1>2, TailFacts DEF OfferCheck, HooksOK
    <2>3. CASE todo' = todo
      BY <1>0, <2>1, <2>3 DEF OfferedOnce
    <2>4. CASE todo' = [todo EXCEPT ![w] = Tail(@)]
      <3>1. todo'[w] = Tail(todo[w]) /\ \A v \in Worker : v # w => todo'[v] = todo[v]
        BY <1>0, <2>4 DEF HooksOK
      <3>2. \A v \in Worker : DOMAIN todo[v] \subseteq Nat
        BY <1>0 DEF HooksOK
      <3>3. \A i \in DOMAIN todo'[w] : i \in Nat
        BY <1>0, <1>2, <3>1, TailFacts DEF OfferCheck, HooksOK
      <3>4. \A v \in Worker : \A i \in DOMAIN todo'[v] :
                \E k \in DOMAIN todo[v] : /\ todo'[v][i] = todo[v][k]
                                          /\ k = IF v = w THEN i + 1 ELSE i
        BY <2>2, <3>1
      <3>5. \A v \in Worker : \A i \in DOMAIN todo'[v] :
                stamp'[todo'[v][i]] = 0 /\ todo'[v][i].call \notin fresh'
        BY <1>0, <2>1, <3>4 DEF OfferedOnce
      <3>6. \A v, u \in Worker : \A i \in DOMAIN todo'[v] : \A j \in DOMAIN todo'[u] :
                todo'[v][i] = todo'[u][j] => v = u /\ i = j
        <4> SUFFICES ASSUME NEW v \in Worker, NEW u \in Worker,
                            NEW i \in DOMAIN todo'[v], NEW j \in DOMAIN todo'[u],
                            todo'[v][i] = todo'[u][j]
                     PROVE  v = u /\ i = j
          OBVIOUS
        <4>1. v = u /\ (IF v = w THEN i + 1 ELSE i) = (IF u = w THEN j + 1 ELSE j)
          BY <1>0, <3>4 DEF OfferedOnce
        <4> QED
          <5>1. CASE v = w
            BY <3>3, <4>1, <5>1
          <5>2. CASE v # w
            BY <4>1, <5>2
          <5> QED
            BY <5>1, <5>2
      <3> QED
        BY <1>0, <2>1, <3>5, <3>6 DEF OfferedOnce
    <2> QED
      BY <2>1, <2>3, <2>4
  <1>3. ASSUME NEW w \in Worker, OfferSend(w) PROVE OfferedOnce'
    <2>1. fresh' = fresh /\ todo' = [todo EXCEPT ![w] = Tail(@)]
          /\ (stamp' = stamp \/ stamp' = [stamp EXCEPT ![Head(todo[w])] = sent + 1])
      BY <1>3 DEF OfferSend
    <2> QED
      BY <1>0, <1>3, <2>1, SendFacts DEF OfferedOnce, HooksOK
  <1> QED
    BY <1>0, <1>1, <1>2, <1>3, HookFrame DEF OfferedOnce

\* Only what offer sends is new to the sink, and a flush only empties it.
LEMMA BufferedStep ==
    ASSUME Inv, [Next]_vars, ~ \E w \in Worker : OfferSend(w)
    PROVE  Buffered' \subseteq Buffered
  <1>0. WriterOK
    BY DEF Inv, TypeOK
  <1>1. CASE RunReceive \/ DrainReceive
    <2>1. Head(events) \in Record /\ Range(Tail(events)) \subseteq Range(events)
          /\ Head(events) \in Range(events)
      BY <1>0, <1>1, TailFacts, TailRange DEF RunReceive, DrainReceive, Take, WriterOK
    <2>2. /\ Range(Append(jobs, Head(events))) = Range(jobs) \union {Head(events)}
          /\ Range(Append(attempts, Head(events))) = Range(attempts) \union {Head(events)}
      BY <1>0, <2>1, AppendFacts DEF WriterOK
    <2>3. /\ events' = Tail(events)
          /\ \/ jobs' = Append(jobs, Head(events)) /\ attempts' = attempts
             \/ attempts' = Append(attempts, Head(events)) /\ jobs' = jobs
      BY <1>1 DEF RunReceive, DrainReceive, Take
    <2> QED
      BY <2>1, <2>2, <2>3, Zenon DEF Buffered
  <1>2. CASE RunTick \/ RunDone \/ DrainEnd \/ \E s \in Starter : StartReconcile(s)
    <2>1. UNCHANGED <<events, jobs, attempts>>
      BY <1>2 DEF RunTick, RunDone, DrainEnd, StartReconcile
    <2> QED
      BY <2>1 DEF Buffered
  <1>3. CASE FlushJobs \/ FlushAttempts
    <2>1. /\ events' = events
          /\ \/ jobs' = <<>> /\ attempts' = attempts
             \/ attempts' = <<>> /\ jobs' = jobs
      BY <1>3 DEF FlushJobs, FlushAttempts
    <2> QED
      BY <2>1, EmptyRange DEF Buffered
  <1>4. CASE ~Run /\ ~ \E s \in Starter : StartReconcile(s)
    <2>1. UNCHANGED <<events, jobs, attempts>>
      BY <1>4, WriterFrame
    <2> QED
      BY <2>1 DEF Buffered
  <1> QED
    BY <1>1, <1>2, <1>3, <1>4 DEF Run

LEMMA HeldIsStampedNext ==
    ASSUME Inv, [Next]_vars
    PROVE  HeldIsStamped'
  <1>0. HeldIsStamped /\ HooksOK /\ WriterOK /\ CallersOK
    BY DEF Inv, TypeOK
  <1>1. ASSUME NEW w \in Worker, OfferSend(w) PROVE HeldIsStamped'
    <2>1. UNCHANGED <<jobs, attempts, atClose>>
      BY <1>1 DEF OfferSend, writerVars
    <2>2. CASE Len(events) < Buffer
      <3>1. events' = Append(events, Head(todo[w]))
            /\ stamp' = [stamp EXCEPT ![Head(todo[w])] = sent + 1]
        BY <1>1, <2>2 DEF OfferSend
      <3>2. Range(events') = Range(events) \union {Head(todo[w])}
        BY <1>0, <1>1, <3>1, SendFacts, AppendFacts DEF WriterOK
      <3>3. (Buffered \union atClose)' = Buffered \union atClose \union {Head(todo[w])}
        BY <2>1, <3>2 DEF Buffered
      <3>4. Buffered \union atClose \subseteq Record
        BY <1>0 DEF Buffered, Range, WriterOK, CallersOK
      <3>5. \A r \in Record : stamp'[r] = IF r = Head(todo[w]) THEN sent + 1 ELSE stamp[r]
        BY <1>0, <3>1 DEF HooksOK
      <3>6. sent + 1 # 0
        BY <1>0 DEF HooksOK
      <3> QED
        BY <1>0, <1>1, <3>3, <3>4, <3>5, <3>6, SendFacts DEF HeldIsStamped
    <2>3. CASE ~(Len(events) < Buffer)
      <3>1. UNCHANGED <<events, stamp>>
        BY <1>1, <2>3 DEF OfferSend
      <3> QED
        BY <1>0, <2>1, <3>1 DEF HeldIsStamped, Buffered
    <2> QED
      BY <2>2, <2>3
  <1>2. CASE ~ \E w \in Worker : OfferSend(w)
    <2>1. stamp' = stamp
      BY <1>2, HookFrame DEF Hook, OfferCheck, seenVars
    <2>2. Buffered' \subseteq Buffered
      BY <1>2, BufferedStep
    <2>3. atClose' \subseteq atClose \union Buffered
      BY CallerFrame DEF StartLock, StartMigrate, StartHeartbeat, StartReconcile,
         CloseCall, CloseJoin, CloseRead, CloseSignal, CloseReturn, seenVars
    <2> QED
      BY <1>0, <2>1, <2>2, <2>3 DEF HeldIsStamped
  <1> QED
    BY <1>1, <1>2

LEMMA DrainsNext ==
    ASSUME Inv, [Next]_vars
    PROVE  Drains'
  <1>0. Drains /\ WriterOK /\ OneCloses /\ HeldIsStamped
    BY DEF Inv, TypeOK
  <1> USE DEF Drains, LastFlush, Stopped
  <1>1. ASSUME NEW w \in Worker, OfferSend(w) PROVE Drains'
    <2>1. UNCHANGED <<done, writer, resume, jobs, attempts, atClose>>
      BY <1>1 DEF OfferSend, writerVars
    <2>2. Range(events') \subseteq Range(events) \union {Head(todo[w])}
      <3>1. Range(Append(events, Head(todo[w]))) = Range(events) \union {Head(todo[w])}
        BY <1>0, <1>1, SendFacts, AppendFacts DEF WriterOK
      <3>2. events' = Append(events, Head(todo[w])) \/ events' = events
        BY <1>1 DEF OfferSend
      <3> QED
        BY <3>1, <3>2
    <2>3. Head(todo[w]) \notin atClose
      BY <1>0, <1>1, SendFacts DEF HeldIsStamped
    <2> QED
      BY <1>0, <2>1, <2>2, <2>3
  <1>2. ASSUME NEW s \in Starter, StartReconcile(s) PROVE Drains'
    BY <1>0, <1>2 DEF StartReconcile, StartErr, seenVars, Inv, StartExcludes, LaunchedTogether
  <1>3. ASSUME NEW c \in Closer, CloseSignal(c) PROVE Drains'
    BY <1>0, <1>3 DEF CloseSignal, writerVars, OneCloses
  <1>4. CASE RunReceive \/ DrainReceive
    BY <1>0, <1>4 DEF RunReceive, DrainReceive, Take, seenVars
  <1>5. CASE RunTick \/ RunDone
    BY <1>0, <1>5 DEF RunTick, RunDone, seenVars
  <1>6. CASE DrainEnd
    BY <1>0, <1>6, EmptyRange, EmptyLength DEF DrainEnd, seenVars, WriterOK
  <1>7. CASE FlushJobs
    BY <1>0, <1>7 DEF FlushJobs, seenVars
  <1>8. CASE FlushAttempts
    BY <1>0, <1>8 DEF FlushAttempts, seenVars, WriterOK
  <1>9. ASSUME ~Run, ~ \E w \in Worker : OfferSend(w), ~ \E s \in Starter : StartReconcile(s),
               ~ \E c \in Closer : CloseSignal(c)
        PROVE  Drains'
    <2>1. UNCHANGED <<events, writer, resume, jobs, attempts>>
      BY <1>9, WriterFrame
    <2>2. UNCHANGED <<done, atClose>>
      BY <1>9, CallerFrame DEF StartLock, StartMigrate, StartHeartbeat,
         CloseCall, CloseJoin, CloseRead, CloseReturn, seenVars
    <2> QED
      BY <1>0, <2>1, <2>2
  <1> QED
    BY <1>1, <1>2, <1>3, <1>4, <1>5, <1>6, <1>7, <1>8, <1>9 DEF Run

----------------------------------------------------------------------------
(* The theorems. *)

LEMMA InvNext == Inv /\ [Next]_vars => Inv'
  BY TypeNext, HooksNext, StartExcludesNext, LaunchedTogetherNext, OneClosesNext,
     AccountingNext, OfferedOnceNext, HeldIsStampedNext, DrainsNext DEF Inv

LEMMA Invariance == Spec => []Inv
  BY InvInit, InvNext, PTL DEF Spec

\* The sink's variables keep their types; the channel and the batch stay
\* within their sizes.
THEOREM SinkTypeCorrect == Spec => []TypeOK
  <1>1. Inv => TypeOK
    BY DEF Inv
  <1> QED
    BY <1>1, Invariance, PTL

\* offer, run and flush account for every record: dropped, written, refused by
\* the store, or still held, and never two of these.
THEOREM EveryRecordIsAccountedFor == Spec => []Accounting
  <1>1. Inv => Accounting
    BY DEF Inv
  <1> QED
    BY <1>1, Invariance, PTL

\* Close, called on a sink that is started, returns only when everything that
\* was buffered at that point has left the sink.
THEOREM CloseFlushesWhatIsBuffered == Spec => []CloseFlushes
  <1>1. Inv => CloseFlushes
    <2> SUFFICES ASSUME Inv, once = "complete", saw
                 PROVE  atClose \intersect Buffered = {}
      BY DEF CloseFlushes
    <2>1. Stopped
      BY DEF Inv, OneCloses
    <2>2. jobs = <<>> /\ attempts = <<>> /\ Range(events) \intersect atClose = {}
      BY <2>1 DEF Inv, Drains, LastFlush
    <2> QED
      BY <2>2, EmptyRange DEF Buffered
  <1> QED
    BY <1>1, Invariance, PTL

\* Start returns success only if the writer was launched and runs unless the sink was
\* closed, however many callers raced, failed and retried.
THEOREM StartSuccessMeansRecording == Spec => []OkMeansRecording
  <1>1. Inv => OkMeansRecording
    BY DEF Inv, StartExcludes, LaunchedTogether, Drains, Stopped, OkMeansRecording
  <1> QED
    BY <1>1, Invariance, PTL

\* Neither a beat nor a Start brings an epoch back that beat has retired.
THEOREM RetiredStaysRetired == Spec => RetiredIsFinal
  <1>1. Inv /\ [Next]_vars => [epochRow = "retired" => epochRow' = "retired"]_vars
    <2> SUFFICES ASSUME Inv, [Next]_vars, epochRow = "retired"
                 PROVE  epochRow' = "retired"
      OBVIOUS
    <2>1. beat = "exited" /\ \A s \in Starter : start[s] \notin InStart
      BY DEF Inv, LaunchedTogether, StartExcludes
    <2> QED
      BY <2>1, LoopFrame DEF StartMigrate, StartHeartbeat, StartReconcile, BeatTick, BeatDone,
         RetainPrune, RetainTick, RetainDone
  <1> QED
    BY <1>1, Invariance, PTL DEF Spec, RetiredIsFinal

----------------------------------------------------------------------------
(***************************************************************************)
(* Order and stranding: the store receives the records of a kind in the    *)
(* order they were sent, and what the close can strand in the channel is   *)
(* at most one record per worker.                                          *)
(***************************************************************************)

(* Order: records leave the channel in the order they entered it, and wait  *)
(* in the batch behind everything of their kind that was written before.    *)

\* Later in s means a later time t.
Ordered(s, t) == \A i, j \in 1..Len(s) : i < j => t[s[i]] < t[s[j]]

\* All of p is earlier than all of q.
Precedes(p, q, t) == \A x \in Range(p), y \in Range(q) : t[x] < t[y]

\* The way of the records of one kind: written, in the batch, in the channel.
Pipeline(log, batch, chan, t) ==
    /\ Ordered(log, t) /\ Ordered(batch, t)
    /\ Precedes(log, batch, t) /\ Precedes(log, chan, t) /\ Precedes(batch, chan, t)

LoggedIsStamped == \A r \in Range(logJobs) \union Range(logAttempts) : stamp[r] # 0

OrderInv ==
    /\ Ordered(events, stamp)
    /\ Pipeline(logJobs, jobs, events, stamp)
    /\ Pipeline(logAttempts, attempts, events, stamp)
    /\ LoggedIsStamped

(* Stranding: from its last look at the channel on, run leaves a place in   *)
(* the bound to every worker that had passed the first select by then.      *)

Senders == {w \in Worker : offering[w] = "send"}

StrandedInv == LastFlush => Len(events) + Cardinality(Senders) <= Cardinality(Worker)

----------------------------------------------------------------------------
(* Sequences in order. *)

LEMMA RangeIndex ==
    ASSUME NEW S, NEW q \in Seq(S)
    PROVE  /\ \A i \in 1..Len(q) : q[i] \in Range(q)
           /\ \A x \in Range(q) : \E i \in 1..Len(q) : x = q[i]
           /\ Range(q) \subseteq S
  BY DEF Range

LEMMA EmptyOrdered ==
    ASSUME NEW t
    PROVE  Ordered(<<>>, t) /\ \A q : Precedes(<<>>, q, t) /\ Precedes(q, <<>>, t)
  BY EmptyRange DEF Ordered, Precedes

LEMMA OrderedAppend ==
    ASSUME NEW S, NEW q \in Seq(S), NEW x \in S, NEW t, Ordered(q, t),
           \A y \in Range(q) : t[y] < t[x]
    PROVE  Ordered(Append(q, x), t)
  <1>1. /\ Len(Append(q, x)) = Len(q) + 1 /\ Len(q) \in Nat
        /\ Append(q, x)[Len(q) + 1] = x
        /\ \A i \in 1..Len(q) : Append(q, x)[i] = q[i]
    OBVIOUS
  <1>2. \A i \in 1..Len(q) : t[q[i]] < t[x]
    BY RangeIndex
  <1> QED
    BY <1>1, <1>2 DEF Ordered

LEMMA OrderedTail ==
    ASSUME NEW S, NEW q \in Seq(S), q # <<>>, NEW t, Ordered(q, t)
    PROVE  /\ Ordered(Tail(q), t)
           /\ \A y \in Range(Tail(q)) : t[Head(q)] < t[y]
  <1>1. /\ Tail(q) \in Seq(S) /\ Len(Tail(q)) = Len(q) - 1 /\ Len(q) \in Nat \ {0} /\ Head(q) = q[1]
        /\ \A i \in 1..Len(Tail(q)) : Tail(q)[i] = q[i + 1]
    BY TailFacts
  <1>2. Ordered(Tail(q), t)
    BY <1>1 DEF Ordered
  <1>3. \A i \in 1..Len(Tail(q)) : t[Head(q)] < t[Tail(q)[i]]
    BY <1>1 DEF Ordered
  <1>4. ASSUME NEW y \in Range(Tail(q)) PROVE t[Head(q)] < t[y]
    <2>1. PICK i \in 1..Len(Tail(q)) : y = Tail(q)[i]
      <3>1. PICK p \in Seq(S) : p = Tail(q)
        BY <1>1
      <3>2. \E i \in 1..Len(p) : y = p[i]
        BY <3>1, RangeIndex, Zenon
      <3> QED
        BY <3>1, <3>2, Zenon
    <2> QED
      BY <1>3, <2>1
  <1> QED
    BY <1>2, <1>4

LEMMA OrderedConcat ==
    ASSUME NEW S, NEW p \in Seq(S), NEW q \in Seq(S), NEW t,
           Ordered(p, t), Ordered(q, t), Precedes(p, q, t)
    PROVE  /\ Ordered(p \o q, t)
           /\ Range(p \o q) = Range(p) \union Range(q)
  <1>1. /\ Len(p \o q) = Len(p) + Len(q) /\ Len(p) \in Nat /\ Len(q) \in Nat
        /\ \A i \in 1..Len(p) : (p \o q)[i] = p[i]
        /\ \A i \in (Len(p) + 1)..(Len(p) + Len(q)) : (p \o q)[i] = q[i - Len(p)]
        /\ p \o q \in Seq(S)
    OBVIOUS
  <1>2. \A i \in 1..Len(p), j \in 1..Len(q) : t[p[i]] < t[q[j]]
    BY RangeIndex DEF Precedes
  <1>3. Ordered(p \o q, t)
    <2> SUFFICES ASSUME NEW i \in 1..Len(p \o q), NEW j \in 1..Len(p \o q), i < j
                 PROVE  t[(p \o q)[i]] < t[(p \o q)[j]]
      BY DEF Ordered
    <2>1. CASE j <= Len(p)
      BY <1>1, <2>1 DEF Ordered
    <2>2. CASE i <= Len(p) /\ j > Len(p)
      BY <1>1, <1>2, <2>2
    <2>3. CASE i > Len(p)
      <3>1. i - Len(p) \in 1..Len(q) /\ j - Len(p) \in 1..Len(q) /\ i - Len(p) < j - Len(p)
        BY <1>1, <2>3
      <3> QED
        BY <1>1, <2>3, <3>1 DEF Ordered
    <2> QED
      BY <1>1, <2>1, <2>2, <2>3
  <1>4. Range(p \o q) \subseteq Range(p) \union Range(q)
    <2> SUFFICES ASSUME NEW x \in Range(p \o q) PROVE x \in Range(p) \union Range(q)
      OBVIOUS
    <2> PICK i \in 1..Len(p \o q) : x = (p \o q)[i]
      BY <1>1, RangeIndex
    <2>1. CASE i <= Len(p)
      BY <1>1, <2>1, RangeIndex
    <2>2. CASE i > Len(p)
      <3>1. i - Len(p) \in 1..Len(q) /\ (p \o q)[i] = q[i - Len(p)]
        BY <1>1, <2>2
      <3> QED
        BY <3>1, RangeIndex
    <2> QED
      BY <1>1, <2>1, <2>2
  <1>5. Range(p) \union Range(q) \subseteq Range(p \o q)
    <2>1. ASSUME NEW i \in 1..Len(p) PROVE p[i] \in Range(p \o q)
      <3>1. i \in 1..Len(p \o q)
        BY <1>1
      <3> QED
        BY <1>1, <3>1, RangeIndex
    <2>2. ASSUME NEW i \in 1..Len(q) PROVE q[i] \in Range(p \o q)
      <3>1. Len(p) + i \in 1..Len(p \o q) /\ (p \o q)[Len(p) + i] = q[i]
        BY <1>1
      <3> QED
        BY <1>1, <3>1, RangeIndex
    <2> QED
      BY <1>1, <2>1, <2>2, RangeIndex, SMTT(40)
  <1> QED
    BY <1>3, <1>4, <1>5

----------------------------------------------------------------------------
(* The steps of a record on its way. *)

\* run takes a record from the channel; the other kind only sees it leave.
LEMMA PipelineTake ==
    ASSUME NEW S, NEW log \in Seq(S), NEW batch \in Seq(S), NEW chan \in Seq(S), chan # <<>>,
           NEW t, Ordered(chan, t), Pipeline(log, batch, chan, t)
    PROVE  /\ Pipeline(log, Append(batch, Head(chan)), Tail(chan), t)
           /\ Pipeline(log, batch, Tail(chan), t)
  <1>1. Head(chan) \in Range(chan) /\ Range(Tail(chan)) \subseteq Range(chan) /\ Head(chan) \in S
    BY TailFacts, TailRange
  <1>2. Range(Append(batch, Head(chan))) = Range(batch) \union {Head(chan)}
    BY <1>1, AppendFacts
  <1>3. \A y \in Range(Tail(chan)) : t[Head(chan)] < t[y]
    BY OrderedTail
  <1>4. Ordered(Append(batch, Head(chan)), t)
    BY <1>1, OrderedAppend DEF Pipeline, Precedes
  <1>5. /\ Precedes(log, Tail(chan), t) /\ Precedes(batch, Tail(chan), t)
        /\ Precedes(log, Append(batch, Head(chan)), t)
        /\ Precedes(Append(batch, Head(chan)), Tail(chan), t)
    BY <1>1, <1>2, <1>3, Zenon DEF Pipeline, Precedes
  <1> QED
    BY <1>4, <1>5 DEF Pipeline

\* flush: the store accepts the batch of a kind, or refuses it.
LEMMA PipelineFlush ==
    ASSUME NEW S, NEW log \in Seq(S), NEW batch \in Seq(S), NEW chan \in Seq(S),
           NEW t, Pipeline(log, batch, chan, t)
    PROVE  /\ Pipeline(log \o batch, <<>>, chan, t)
           /\ Pipeline(log, <<>>, chan, t)
           /\ Range(log \o batch) = Range(log) \union Range(batch)
  <1>1. Ordered(log \o batch, t) /\ Range(log \o batch) = Range(log) \union Range(batch)
    BY OrderedConcat DEF Pipeline
  <1>2. Precedes(log \o batch, chan, t)
    BY <1>1, Zenon DEF Pipeline, Precedes
  <1> QED
    BY <1>1, <1>2, EmptyOrdered DEF Pipeline

\* What was stamped before keeps its order when another record is stamped.
LEMMA OrderedKept ==
    ASSUME NEW S, NEW q \in Seq(S), NEW t, NEW u, Ordered(q, t),
           \A x \in Range(q) : u[x] = t[x]
    PROVE  Ordered(q, u)
  BY RangeIndex DEF Ordered

LEMMA PrecedesKept ==
    ASSUME NEW p, NEW q, NEW t, NEW u, Precedes(p, q, t),
           \A x \in Range(p) \union Range(q) : u[x] = t[x]
    PROVE  Precedes(p, q, u)
  BY DEF Precedes

\* offer sends a record, the latest so far, into the channel.
LEMMA PipelineSend ==
    ASSUME NEW S, NEW log \in Seq(S), NEW batch \in Seq(S), NEW chan \in Seq(S), NEW r \in S,
           NEW t, NEW u, Pipeline(log, batch, chan, t),
           \A x \in Range(log) \union Range(batch) \union Range(chan) : u[x] = t[x] /\ u[x] < u[r]
    PROVE  Pipeline(log, batch, Append(chan, r), u)
  <1>1. Range(Append(chan, r)) = Range(chan) \union {r}
    BY AppendFacts
  <1>2. Ordered(log, u) /\ Ordered(batch, u)
    BY OrderedKept DEF Pipeline
  <1>3. Precedes(log, batch, u) /\ Precedes(log, chan, u) /\ Precedes(batch, chan, u)
    BY PrecedesKept DEF Pipeline
  <1>4. Precedes(log, Append(chan, r), u) /\ Precedes(batch, Append(chan, r), u)
    BY <1>1, <1>3 DEF Precedes
  <1> QED
    BY <1>2, <1>3, <1>4 DEF Pipeline

----------------------------------------------------------------------------
(* The store receives each kind in order. *)

LEMMA OrderInit == Init => OrderInv
  BY EmptyOrdered, EmptyRange DEF Init, OrderInv, Pipeline, LoggedIsStamped

LEMMA OrderSend ==
    ASSUME Inv, OrderInv, NEW w \in Worker, OfferSend(w)
    PROVE  OrderInv'
  <1>0. HeldIsStamped /\ HooksOK /\ WriterOK
    BY DEF Inv, TypeOK
  <1>1. UNCHANGED <<jobs, attempts, logJobs, logAttempts>>
    BY DEF OfferSend, writerVars, storeVars
  <1>2. CASE Len(events) < Buffer
    <2> DEFINE r == Head(todo[w])
    <2>1. events' = Append(events, r) /\ stamp' = [stamp EXCEPT ![r] = sent + 1]
      BY <1>2 DEF OfferSend
    <2>2. r \in Record /\ stamp[r] = 0
      BY SendFacts
    <2> HIDE DEF r
    <2>3. \A x \in Record : stamp'[x] = IF x = r THEN sent + 1 ELSE stamp[x]
      BY <1>0, <2>1 DEF HooksOK
    <2>4. \A x \in Record : stamp[x] # 0 => stamp'[x] = stamp[x] /\ stamp'[x] < stamp'[r] /\ stamp'[x] # 0
      BY <1>0, <2>2, <2>3 DEF HooksOK
    <2>5. /\ events \in Seq(Record) /\ jobs \in Seq(Record) /\ attempts \in Seq(Record)
          /\ logJobs \in Seq(Record) /\ logAttempts \in Seq(Record)
      BY <1>0 DEF WriterOK
    <2> DEFINE H == Range(events) \union Range(jobs) \union Range(attempts)
                    \union Range(logJobs) \union Range(logAttempts)
    <2>6. \A x \in H : x \in Record /\ stamp[x] # 0
      <3>1. H \subseteq Record
        BY <2>5, RangeIndex
      <3> QED
        BY <1>0, <3>1 DEF HeldIsStamped, Buffered, OrderInv, LoggedIsStamped
    <2>7. \A x \in H : stamp'[x] = stamp[x] /\ stamp'[x] < stamp'[r] /\ stamp'[x] # 0
      BY <2>4, <2>6
    <2>8. /\ Ordered(events, stamp) /\ Pipeline(logJobs, jobs, events, stamp)
          /\ Pipeline(logAttempts, attempts, events, stamp)
      BY DEF OrderInv
    <2>9. Ordered(Append(events, r), stamp')
      <3>1. Ordered(events, stamp')
        BY <2>5, <2>7, <2>8, OrderedKept
      <3> QED
        BY <2>2, <2>5, <2>7, <3>1, OrderedAppend
    <2>10. Pipeline(logJobs, jobs, Append(events, r), stamp')
      <3>1. \A x \in Range(logJobs) \union Range(jobs) \union Range(events) :
               stamp'[x] = stamp[x] /\ stamp'[x] < stamp'[r]
        BY <2>7
      <3> HIDE DEF H
      <3> QED
        BY <2>2, <2>5, <2>8, <3>1, PipelineSend, Zenon
    <2>11. Pipeline(logAttempts, attempts, Append(events, r), stamp')
      <3>1. \A x \in Range(logAttempts) \union Range(attempts) \union Range(events) :
               stamp'[x] = stamp[x] /\ stamp'[x] < stamp'[r]
        BY <2>7
      <3> HIDE DEF H
      <3> QED
        BY <2>2, <2>5, <2>8, <3>1, PipelineSend, Zenon
    <2>12. LoggedIsStamped'
      BY <1>1, <2>7 DEF LoggedIsStamped
    <2> QED
      BY <1>1, <2>1, <2>9, <2>10, <2>11, <2>12 DEF OrderInv
  <1>3. CASE ~(Len(events) < Buffer)
    <2>1. UNCHANGED <<events, stamp>>
      BY <1>3 DEF OfferSend
    <2> QED
      BY <1>1, <2>1 DEF OrderInv, LoggedIsStamped
  <1> QED
    BY <1>2, <1>3

LEMMA OrderTake ==
    ASSUME Inv, OrderInv, RunReceive \/ DrainReceive
    PROVE  OrderInv'
  <1>1. /\ events # <<>> /\ events' = Tail(events) /\ UNCHANGED <<logJobs, logAttempts, stamp>>
        /\ \/ jobs' = Append(jobs, Head(events)) /\ attempts' = attempts
           \/ attempts' = Append(attempts, Head(events)) /\ jobs' = jobs
    BY DEF RunReceive, DrainReceive, Take, storeVars, seenVars
  <1>2. /\ events \in Seq(Record) /\ jobs \in Seq(Record) /\ attempts \in Seq(Record)
        /\ logJobs \in Seq(Record) /\ logAttempts \in Seq(Record)
    BY DEF Inv, TypeOK, WriterOK
  <1>3. /\ Ordered(events, stamp) /\ Pipeline(logJobs, jobs, events, stamp)
        /\ Pipeline(logAttempts, attempts, events, stamp) /\ LoggedIsStamped
    BY DEF OrderInv
  <1>4. Ordered(Tail(events), stamp)
    BY <1>1, <1>2, <1>3, OrderedTail
  <1>5. /\ Pipeline(logJobs, Append(jobs, Head(events)), Tail(events), stamp)
        /\ Pipeline(logJobs, jobs, Tail(events), stamp)
    BY <1>1, <1>2, <1>3, PipelineTake
  <1>6. /\ Pipeline(logAttempts, Append(attempts, Head(events)), Tail(events), stamp)
        /\ Pipeline(logAttempts, attempts, Tail(events), stamp)
    BY <1>1, <1>2, <1>3, PipelineTake
  <1> QED
    BY <1>1, <1>3, <1>4, <1>5, <1>6, Zenon DEF OrderInv, LoggedIsStamped

LEMMA OrderFlush ==
    ASSUME Inv, OrderInv, FlushJobs \/ FlushAttempts
    PROVE  OrderInv'
  <1>1. UNCHANGED <<events, stamp>>
    BY DEF FlushJobs, FlushAttempts, seenVars
  <1>2. /\ events \in Seq(Record) /\ jobs \in Seq(Record) /\ attempts \in Seq(Record)
        /\ logJobs \in Seq(Record) /\ logAttempts \in Seq(Record)
    BY DEF Inv, TypeOK, WriterOK
  <1>3. /\ Ordered(events, stamp) /\ Pipeline(logJobs, jobs, events, stamp)
        /\ Pipeline(logAttempts, attempts, events, stamp) /\ LoggedIsStamped
    BY DEF OrderInv
  <1>4. \A x \in Range(jobs) \union Range(attempts) : stamp[x] # 0
    BY DEF Inv, HeldIsStamped, Buffered
  <1>5. /\ Pipeline(logJobs \o jobs, <<>>, events, stamp) /\ Pipeline(logJobs, <<>>, events, stamp)
        /\ Range(logJobs \o jobs) = Range(logJobs) \union Range(jobs)
    BY <1>2, <1>3, PipelineFlush
  <1>6. /\ Pipeline(logAttempts \o attempts, <<>>, events, stamp)
        /\ Pipeline(logAttempts, <<>>, events, stamp)
        /\ Range(logAttempts \o attempts) = Range(logAttempts) \union Range(attempts)
    BY <1>2, <1>3, PipelineFlush
  <1>7. CASE FlushJobs
    <2>1. /\ jobs' = <<>> /\ UNCHANGED <<attempts, logAttempts>>
          /\ logJobs' = logJobs \o jobs \/ logJobs' = logJobs
      BY <1>7 DEF FlushJobs
    <2>2. Pipeline(logJobs', jobs', events', stamp')
      BY <1>1, <1>5, <2>1, Zenon
    <2>3. LoggedIsStamped'
      BY <1>1, <1>3, <1>4, <1>5, <2>1, Zenon DEF LoggedIsStamped
    <2> QED
      BY <1>1, <1>3, <2>1, <2>2, <2>3, Zenon DEF OrderInv
  <1>8. CASE FlushAttempts
    <2>1. /\ attempts' = <<>> /\ UNCHANGED <<jobs, logJobs>>
          /\ logAttempts' = logAttempts \o attempts \/ logAttempts' = logAttempts
      BY <1>8 DEF FlushAttempts
    <2>2. Pipeline(logAttempts', attempts', events', stamp')
      BY <1>1, <1>6, <2>1, Zenon
    <2>3. LoggedIsStamped'
      BY <1>1, <1>3, <1>4, <1>6, <2>1, Zenon DEF LoggedIsStamped
    <2> QED
      BY <1>1, <1>3, <2>1, <2>2, <2>3, Zenon DEF OrderInv
  <1> QED
    BY <1>7, <1>8

LEMMA OrderNext ==
    ASSUME Inv, OrderInv, [Next]_vars
    PROVE  OrderInv'
  <1>1. CASE \E w \in Worker : OfferSend(w)
    BY <1>1, OrderSend
  <1>2. CASE RunReceive \/ DrainReceive
    BY <1>2, OrderTake
  <1>3. CASE FlushJobs \/ FlushAttempts
    BY <1>3, OrderFlush
  <1>4. CASE /\ ~ \E w \in Worker : OfferSend(w)
             /\ ~(RunReceive \/ DrainReceive) /\ ~(FlushJobs \/ FlushAttempts)
    <2>1. stamp' = stamp
      BY <1>4, HookFrame DEF Hook, OfferCheck, seenVars
    <2>2. UNCHANGED <<events, jobs, attempts, logJobs, logAttempts>>
      <3>1. CASE RunTick \/ RunDone \/ DrainEnd \/ \E s \in Starter : StartReconcile(s)
        BY <3>1 DEF RunTick, RunDone, DrainEnd, StartReconcile, storeVars
      <3>2. CASE ~(RunTick \/ RunDone \/ DrainEnd \/ \E s \in Starter : StartReconcile(s))
        BY <1>4, <3>2, WriterFrame DEF Run
      <3> QED
        BY <3>1, <3>2
    <2> QED
      BY <2>1, <2>2 DEF OrderInv, LoggedIsStamped
  <1> QED
    BY <1>1, <1>2, <1>3, <1>4

\* The store is given the records of a kind in the order the hooks sent them and
\* none twice, for any number of workers, any sizes of the channel and the batch
\* and whichever writes fail (run, flush).
THEOREM StoreReceivesInOrder == Spec => []StoreInOrder
  <1>1. Inv /\ OrderInv /\ [Next]_vars => OrderInv'
    BY OrderNext
  <1>2. OrderInv => StoreInOrder
    BY DEF OrderInv, Pipeline, Ordered, StoreInOrder, InOrder
  <1> QED
    BY <1>1, <1>2, OrderInit, Invariance, PTL DEF Spec

----------------------------------------------------------------------------
(* What a close can strand. *)

LEMMA SendersFinite ==
    /\ IsFiniteSet(Worker) /\ Cardinality(Worker) \in Nat
    /\ IsFiniteSet(Senders) /\ Cardinality(Senders) \in Nat
    /\ Cardinality(Senders) <= Cardinality(Worker)
  <1>1. Senders \subseteq Worker
    BY DEF Senders
  <1> QED
    BY <1>1, SinkAssumption, FS_Subset, FS_CardinalityType

LEMMA StrandedInit == Init => StrandedInv
  BY DEF Init, StrandedInv, LastFlush, Stopped

LEMMA StrandedNext ==
    ASSUME Inv, StrandedInv, [Next]_vars
    PROVE  StrandedInv'
  <1> SUFFICES ASSUME LastFlush'
               PROVE  (Len(events) + Cardinality(Senders) <= Cardinality(Worker))'
    BY DEF StrandedInv
  <1>0. events \in Seq(Record) /\ Len(events) \in Nat /\ offering \in [Worker -> {"check", "send"}]
    BY EmptyLength DEF Inv, TypeOK, WriterOK, HooksOK
  <1>1. ASSUME NEW w \in Worker, OfferSend(w)
        PROVE  (Len(events) + Cardinality(Senders) <= Cardinality(Worker))'
    <2>1. LastFlush
      BY <1>1 DEF OfferSend, writerVars, LastFlush, Stopped
    <2>2. Senders' = Senders \ {w} /\ w \in Senders
      BY <1>0, <1>1 DEF OfferSend, Senders
    <2>3. Cardinality(Senders') = Cardinality(Senders) - 1
      BY <2>2, SendersFinite, FS_RemoveElement
    <2>4. Len(events') \in Nat /\ Len(events') <= Len(events) + 1
      <3>1. events' = events \/ events' = Append(events, Head(todo[w]))
        BY <1>1 DEF OfferSend
      <3>2. Len(Append(events, Head(todo[w]))) = Len(events) + 1
        BY <1>0, <1>1, SendFacts, AppendFacts
      <3> QED
        BY <1>0, <3>1, <3>2
    <2> QED
      BY <1>0, <2>1, <2>3, <2>4, SendersFinite DEF StrandedInv
  <1>2. CASE DrainEnd
    <2>1. Len(events') = 0 /\ Senders' = Senders
      BY <1>2 DEF DrainEnd, workerVars, Senders
    <2> QED
      BY <2>1, SendersFinite
  <1>3. CASE ~(\E w \in Worker : OfferSend(w)) /\ ~DrainEnd
    <2>1. LastFlush /\ events' = events
      <3>1. CASE Run
        BY <1>3, <3>1 DEF Run, RunReceive, RunTick, RunDone, DrainReceive, Take, FlushJobs,
                          FlushAttempts, LastFlush, Stopped
      <3>2. CASE \E s \in Starter : StartReconcile(s)
        BY <3>2 DEF StartReconcile, StartErr, LastFlush, Stopped
      <3>3. CASE ~Run /\ ~ \E s \in Starter : StartReconcile(s)
        BY <1>3, <3>3, WriterFrame DEF LastFlush, Stopped
      <3> QED
        BY <3>1, <3>2, <3>3
    <2>2. done
      BY <2>1 DEF Inv, Drains, LastFlush, Stopped
    <2>3. offering' = offering
      <3>1. ASSUME NEW w \in Worker, Hook(w) \/ OfferCheck(w) PROVE offering' = offering
        BY <2>2, <3>1 DEF Hook, OfferCheck
      <3> QED
        BY <1>3, <3>1, HookFrame
    <2> QED
      BY <2>1, <2>3 DEF StrandedInv, Senders
  <1> QED
    BY <1>1, <1>2, <1>3

\* However many workers race Close, what stays in the channel once the writer has
\* gone is at most one record of each of them (offer, run, Close).
THEOREM StrandedAtMostOnePerWorker == Spec => []StrandedBound
  <1>1. Inv /\ StrandedInv /\ [Next]_vars => StrandedInv'
    BY StrandedNext
  <1>2. StrandedInv => StrandedBound
    BY DEF StrandedInv, StrandedBound, LastFlush, Senders
  <1> QED
    BY <1>1, <1>2, StrandedInit, Invariance, PTL DEF Spec

----------------------------------------------------------------------------
(***************************************************************************)
(* Refinement: the sink implements Recorder.  First, what the filter OfKind *)
(* makes of an append and of a receive, from the ranks of positions.       *)
(***************************************************************************)

LEMMA RankBounds ==
    ASSUME NEW S, IsFiniteSet(S), S \subseteq Nat, NEW i \in S
    PROVE  Rank(S, i) \in 1..Cardinality(S)
  <1> DEFINE D == {j \in S : j <= i}
  <1>1. D \subseteq S /\ i \in D
    OBVIOUS
  <1>2. IsFiniteSet(D) /\ Cardinality(D) <= Cardinality(S)
    BY <1>1, FS_Subset
  <1>3. Cardinality(D) \in Nat /\ Cardinality(S) \in Nat /\ Cardinality(D) # 0
    BY <1>1, <1>2, FS_CardinalityType, FS_EmptySet
  <1>4. Rank(S, i) = Cardinality(D)
    BY DEF Rank
  <1> HIDE DEF D
  <1> QED
    BY <1>2, <1>3, <1>4

LEMMA RankOrder ==
    ASSUME NEW S, IsFiniteSet(S), S \subseteq Nat, NEW i \in S, NEW j \in S, i < j
    PROVE  Rank(S, i) < Rank(S, j)
  <1> DEFINE D == {x \in S : x <= i}
             E == {x \in S : x <= j}
  <1>0. \A x \in S : x \in Int
    OBVIOUS
  <1>1. D \subseteq E /\ E \subseteq S /\ j \in E /\ j \notin D
    <2>1. \A x \in S : x <= i => x <= j
      BY <1>0
    <2>2. j <= j /\ ~(j <= i)
      BY <1>0
    <2> QED
      BY <2>1, <2>2
  <1>2. IsFiniteSet(E)
    BY <1>1, FS_Subset
  <1>3. IsFiniteSet(D) /\ Cardinality(D) <= Cardinality(E) /\ (Cardinality(D) = Cardinality(E) => D = E)
    BY <1>1, <1>2, FS_Subset
  <1>4. Cardinality(D) \in Nat /\ Cardinality(E) \in Nat
    BY <1>2, <1>3, FS_CardinalityType
  <1>5. Rank(S, i) = Cardinality(D) /\ Rank(S, j) = Cardinality(E)
    BY DEF Rank
  <1> HIDE DEF D, E
  <1> QED
    BY <1>1, <1>3, <1>4, <1>5

LEMMA RankDistinct ==
    ASSUME NEW S, IsFiniteSet(S), S \subseteq Nat, NEW i \in S, NEW j \in S, Rank(S, i) = Rank(S, j)
    PROVE  i = j
  <1>1. Rank(S, i) \in 1..Cardinality(S) /\ Rank(S, j) \in 1..Cardinality(S)
    BY RankBounds
  <1>2. Rank(S, i) \in Int /\ Rank(S, j) \in Int /\ i \in Int /\ j \in Int
    BY <1>1
  <1>3. i < j => Rank(S, i) < Rank(S, j)
    BY RankOrder
  <1>4. j < i => Rank(S, j) < Rank(S, i)
    BY RankOrder
  <1> QED
    BY <1>2, <1>3, <1>4

\* Every number up to the size of the set is a rank.
LEMMA RankOnto ==
    ASSUME NEW S, IsFiniteSet(S), S \subseteq Nat, NEW n \in 1..Cardinality(S)
    PROVE  \E i \in S : Rank(S, i) = n
  <1> DEFINE N == Cardinality(S)
             f == [i \in S |-> Rank(S, i)]
  <1>1. N \in Nat
    BY FS_CardinalityType
  <1>2. IsFiniteSet(1..N) /\ Cardinality(1..N) = N
    BY <1>1, FS_Interval
  <1>3. f \in Injection(S, 1..N)
    BY RankBounds, RankDistinct DEF Injection, IsInjective
  <1>4. f \in Surjection(S, 1..N)
    BY <1>2, <1>3, FS_Injection
  <1>5. \E i \in S : f[i] = n
    BY <1>4 DEF Surjection
  <1> QED
    BY <1>5

LEMMA PositionsFacts ==
    ASSUME NEW R, NEW s \in Seq(R), NEW k
    PROVE  /\ IsFiniteSet(Positions(s, k)) /\ Positions(s, k) \subseteq Nat
           /\ Positions(s, k) \subseteq DOMAIN s /\ Cardinality(Positions(s, k)) \in Nat
  <1>1. DOMAIN s = 1..Len(s) /\ Len(s) \in Nat
    OBVIOUS
  <1>2. Positions(s, k) \subseteq 1..Len(s)
    BY <1>1 DEF Positions
  <1>3. IsFiniteSet(1..Len(s))
    BY <1>1, FS_Interval
  <1> QED
    BY <1>1, <1>2, <1>3, FS_Subset, FS_CardinalityType

\* The filtered sequence holds the record of each position at its rank.
LEMMA OfKindFacts ==
    ASSUME NEW R, NEW s \in Seq(R), NEW k
    PROVE  /\ OfKind(s, k) \in Seq(R)
           /\ DOMAIN OfKind(s, k) = 1..Cardinality(Positions(s, k))
           /\ Len(OfKind(s, k)) = Cardinality(Positions(s, k))
           /\ \A i \in Positions(s, k) : OfKind(s, k)[Rank(Positions(s, k), i)] = s[i]
  <1> DEFINE S == Positions(s, k)
             N == Cardinality(S)
             q == OfKind(s, k)
  <1>1. IsFiniteSet(S) /\ S \subseteq Nat /\ S \subseteq DOMAIN s /\ N \in Nat
    BY PositionsFacts
  <1>2. q = [n \in 1..N |-> s[CHOOSE i \in S : Rank(S, i) = n]]
    BY DEF OfKind
  <1> HIDE DEF S, N, q
  <1>3. \A i \in S : Rank(S, i) \in 1..N
    BY <1>1, RankBounds DEF N
  <1>4. \A i \in S : q[Rank(S, i)] = s[i]
    <2> SUFFICES ASSUME NEW i \in S
                 PROVE  q[Rank(S, i)] = s[i]
      OBVIOUS
    <2>1. (CHOOSE j \in S : Rank(S, j) = Rank(S, i)) = i
      BY <1>1, RankDistinct
    <2> QED
      BY <1>2, <1>3, <2>1
  <1>5. \A n \in 1..N : q[n] \in R
    <2> SUFFICES ASSUME NEW n \in 1..N
                 PROVE  q[n] \in R
      OBVIOUS
    <2>1. \E i \in S : Rank(S, i) = n
      BY <1>1, RankOnto DEF N
    <2>2. PICK i \in S : Rank(S, i) = n
      BY <2>1
    <2>3. q[n] = s[i] /\ i \in DOMAIN s
      BY <1>1, <1>4, <2>2
    <2> QED
      BY <2>3
  <1>6. DOMAIN q = 1..N
    BY <1>2
  <1>7. q \in [1..N -> R]
    BY <1>2, <1>5
  <1>8. q \in Seq(R) /\ Len(q) = N
    BY <1>1, <1>7
  <1> QED
    BY <1>4, <1>6, <1>8 DEF S, N, q

\* A sequence is the filtered one if it has its length and agrees on the ranks.
LEMMA OfKindIs ==
    ASSUME NEW R, NEW s \in Seq(R), NEW k, NEW q \in Seq(R),
           Len(q) = Cardinality(Positions(s, k)),
           \A i \in Positions(s, k) : q[Rank(Positions(s, k), i)] = s[i]
    PROVE  OfKind(s, k) = q
  <1> DEFINE S == Positions(s, k)
             N == Cardinality(S)
             p == OfKind(s, k)
  <1>1. IsFiniteSet(S) /\ S \subseteq Nat /\ N \in Nat
    BY PositionsFacts
  <1>2. p \in Seq(R) /\ Len(p) = N /\ \A i \in S : p[Rank(S, i)] = s[i]
    BY OfKindFacts
  <1>3. Len(q) = N /\ \A i \in S : q[Rank(S, i)] = s[i]
    OBVIOUS
  <1>4. ASSUME NEW n \in 1..N
        PROVE  \E i \in S : Rank(S, i) = n
    BY <1>1, RankOnto
  <1> HIDE DEF S, N, p
  <1>5. \A n \in 1..N : p[n] = q[n]
    BY <1>2, <1>3, <1>4
  <1>6. p = q
    BY <1>1, <1>2, <1>3, <1>5
  <1> QED
    BY <1>6 DEF p

LEMMA OfKindEmpty ==
    ASSUME NEW k
    PROVE  OfKind(<<>>, k) = <<>>
  <1>1. <<>> \in Seq(Record) /\ Len(<<>>) = 0 /\ DOMAIN <<>> = {}
    OBVIOUS
  <1>2. Positions(<<>>, k) = {}
    BY <1>1 DEF Positions
  <1>3. Cardinality(Positions(<<>>, k)) = 0
    BY <1>2, FS_EmptySet
  <1>4. Len(OfKind(<<>>, k)) = 0 /\ OfKind(<<>>, k) \in Seq(Record)
    BY <1>1, <1>3, OfKindFacts
  <1> QED
    BY <1>4

\* A record appended is the last of its kind and changes nothing for the other.
LEMMA OfKindAppend ==
    ASSUME NEW R, NEW s \in Seq(R), NEW x \in R, NEW k
    PROVE  OfKind(Append(s, x), k) =
               IF KindOf(x) = k THEN Append(OfKind(s, k), x) ELSE OfKind(s, k)
  <1> DEFINE t == Append(s, x)
             n == Len(s) + 1
             S == Positions(s, k)
             T == Positions(t, k)
             p == OfKind(s, k)
  <1>1. /\ t \in Seq(R) /\ DOMAIN s = 1..Len(s) /\ DOMAIN t = 1..n /\ t[n] = x /\ Len(s) \in Nat
        /\ \A i \in DOMAIN s : t[i] = s[i]
    OBVIOUS
  <1>2. DOMAIN t = DOMAIN s \union {n} /\ n \notin DOMAIN s /\ \A i \in DOMAIN s : i \in Int /\ i < n
    BY <1>1
  <1>3. IsFiniteSet(S) /\ S \subseteq Nat /\ S \subseteq DOMAIN s /\ Cardinality(S) \in Nat
    BY PositionsFacts
  <1>4. /\ p \in Seq(R) /\ DOMAIN p = 1..Cardinality(S) /\ Len(p) = Cardinality(S)
        /\ \A i \in S : p[Rank(S, i)] = s[i]
    BY OfKindFacts
  <1>5. T = IF KindOf(x) = k THEN S \union {n} ELSE S
    BY <1>1, <1>2 DEF Positions
  <1>6. n \in Int /\ n \notin S
    BY <1>1, <1>2, <1>3
  <1>7. \A i \in S : Rank(S, i) \in 1..Cardinality(S)
    BY <1>3, RankBounds
  <1> HIDE DEF t, n, S, T, p
  <1>8. CASE KindOf(x) = k
    <2>1. T = S \union {n}
      BY <1>5, <1>8
    <2>2. Cardinality(T) = Cardinality(S) + 1
      BY <1>3, <1>6, <2>1, FS_AddElement
    <2>3. \A i \in S : Rank(T, i) = Rank(S, i)
      <3> SUFFICES ASSUME NEW i \in S
                   PROVE  Rank(T, i) = Rank(S, i)
        OBVIOUS
      <3>1. i \in Int /\ i < n
        BY <1>2, <1>3
      <3>2. ~(n <= i)
        BY <1>6, <3>1
      <3>3. {j \in T : j <= i} = {j \in S : j <= i}
        BY <2>1, <3>2
      <3> QED
        BY <3>3 DEF Rank
    <2>4. Rank(T, n) = Cardinality(S) + 1
      <3>1. \A j \in T : j <= n
        BY <1>2, <1>3, <1>6, <2>1
      <3>2. {j \in T : j <= n} = T
        BY <3>1
      <3> QED
        BY <2>2, <3>2 DEF Rank
    <2> DEFINE q == Append(p, x)
    <2>5. /\ q \in Seq(R) /\ Len(q) = Cardinality(S) + 1 /\ q[Cardinality(S) + 1] = x
          /\ \A m \in 1..Cardinality(S) : q[m] = p[m]
      BY <1>3, <1>4
    <2> HIDE DEF q
    <2>6. \A i \in T : q[Rank(T, i)] = t[i]
      <3>1. \A i \in S : q[Rank(T, i)] = p[Rank(S, i)]
        <4>1. \A i \in S : Rank(T, i) = Rank(S, i) /\ Rank(S, i) \in 1..Cardinality(S)
          BY <1>7, <2>3
        <4> QED
          BY <2>5, <4>1, Zenon
      <3>2. \A i \in S : q[Rank(T, i)] = t[i]
        BY <1>1, <1>3, <1>4, <3>1, Zenon
      <3>3. q[Rank(T, n)] = t[n]
        BY <1>1, <2>4, <2>5
      <3> QED
        BY <2>1, <3>2, <3>3, Zenon
    <2>7. OfKind(t, k) = q
      <3>1. Len(q) = Cardinality(Positions(t, k)) /\ \A i \in Positions(t, k) : q[Rank(Positions(t, k), i)] = t[i]
        BY <2>2, <2>5, <2>6 DEF T
      <3>2. t \in Seq(R) /\ q \in Seq(R)
        BY <1>1, <2>5
      <3> QED
        BY <3>1, <3>2, OfKindIs
    <2> QED
      BY <1>8, <2>7 DEF q, t, p
  <1>9. CASE KindOf(x) # k
    <2>1. T = S
      BY <1>5, <1>9
    <2>2. \A i \in T : p[Rank(T, i)] = t[i]
      BY <1>1, <1>3, <1>4, <2>1
    <2>3. OfKind(t, k) = p
      BY <1>1, <1>4, <2>1, <2>2, OfKindIs DEF T
    <2> QED
      BY <1>9, <2>3 DEF t, p
  <1> QED
    BY <1>8, <1>9

\* The ranks of a set of positions moved down by one.
LEMMA RankShift ==
    ASSUME NEW S, IsFiniteSet(S), S \subseteq Nat \ {0}, NEW T, T \subseteq Nat \ {0},
           \A j \in Nat \ {0} : j \in T <=> j + 1 \in S, NEW m \in Nat
    PROVE  /\ Rank(T, m) \in Nat
           /\ Rank(S, m + 1) = Rank(T, m) + (IF 1 \in S THEN 1 ELSE 0)
  <1> DEFINE D == {i \in S : i <= m + 1}
             E == {j \in T : j <= m}
             f == [j \in E |-> j + 1]
  <1>0. (\A i \in S : i \in Nat /\ i # 0) /\ (\A j \in T : j \in Nat /\ j # 0)
    OBVIOUS
  <1>1. IsFiniteSet(D)
    BY FS_Subset
  <1>2. IsFiniteSet(D \ {1})
    BY <1>1, FS_Subset
  <1>3. \A j \in E : j + 1 \in D \ {1}
    BY <1>0
  <1>4. \A i \in D \ {1} : i - 1 \in E /\ (i - 1) + 1 = i
    <2> SUFFICES ASSUME NEW i \in D \ {1}
                 PROVE  i - 1 \in E /\ (i - 1) + 1 = i
      OBVIOUS
    <2>1. i \in S /\ i \in Nat /\ i # 0 /\ i # 1 /\ i <= m + 1
      BY <1>0
    <2>2. i - 1 \in Nat \ {0} /\ (i - 1) + 1 = i /\ i - 1 <= m
      BY <2>1
    <2> QED
      BY <2>1, <2>2
  <1>5. f \in Injection(E, D \ {1})
    <2>1. f \in [E -> D \ {1}]
      BY <1>3
    <2>2. \A i, j \in E : f[i] = f[j] => i = j
      BY <1>0
    <2> QED
      BY <2>1, <2>2 DEF Injection, IsInjective
  <1>6. f \in Surjection(E, D \ {1})
    BY <1>3, <1>4 DEF Surjection
  <1>7. IsFiniteSet(E) /\ Cardinality(E) = Cardinality(D \ {1})
    BY <1>2, <1>5, <1>6, FS_Injection
  <1>8. Cardinality(E) \in Nat /\ Cardinality(D) \in Nat
    BY <1>1, <1>7, FS_CardinalityType
  <1>9. 1 \in D <=> 1 \in S
    OBVIOUS
  <1>10. Cardinality(D \ {1}) = IF 1 \in D THEN Cardinality(D) - 1 ELSE Cardinality(D)
    BY <1>1, FS_RemoveElement
  <1>11. Rank(S, m + 1) = Cardinality(D) /\ Rank(T, m) = Cardinality(E)
    BY DEF Rank
  <1> HIDE DEF D, E, f
  <1> QED
    BY <1>7, <1>8, <1>9, <1>10, <1>11

\* The record received was the first of its kind and changes nothing for the other.
LEMMA OfKindTail ==
    ASSUME NEW R, NEW s \in Seq(R), s # <<>>, NEW k
    PROVE  OfKind(s, k) =
               IF KindOf(Head(s)) = k THEN <<Head(s)>> \o OfKind(Tail(s), k) ELSE OfKind(Tail(s), k)
  <1> DEFINE t == Tail(s)
             h == Head(s)
             S == Positions(s, k)
             T == Positions(t, k)
             p == OfKind(t, k)
  <1>1. /\ t \in Seq(R) /\ Len(t) = Len(s) - 1 /\ h = s[1] /\ h \in R /\ Len(s) \in Nat /\ Len(s) >= 1
        /\ DOMAIN s = 1..Len(s) /\ DOMAIN t = 1..(Len(s) - 1)
        /\ \A i \in 1..(Len(s) - 1) : t[i] = s[i + 1]
    OBVIOUS
  <1> HIDE DEF t, h
  <1>2. IsFiniteSet(S) /\ S \subseteq DOMAIN s /\ Cardinality(S) \in Nat /\ S \subseteq Nat
    BY PositionsFacts
  <1>3. IsFiniteSet(T) /\ T \subseteq DOMAIN t /\ Cardinality(T) \in Nat /\ T \subseteq Nat
    BY <1>1, PositionsFacts
  <1>4. /\ p \in Seq(R) /\ DOMAIN p = 1..Cardinality(T) /\ Len(p) = Cardinality(T)
        /\ \A i \in T : p[Rank(T, i)] = t[i]
    BY <1>1, OfKindFacts
  <1>5. 1 \in S <=> KindOf(h) = k
    BY <1>1 DEF Positions
  <1>6. \A j \in Nat \ {0} : j \in T <=> j + 1 \in S
    <2> SUFFICES ASSUME NEW j \in Nat \ {0}
                 PROVE  j \in T <=> j + 1 \in S
      OBVIOUS
    <2>1. j \in DOMAIN t <=> j + 1 \in DOMAIN s
      BY <1>1
    <2>2. j \in DOMAIN t => t[j] = s[j + 1]
      BY <1>1
    <2> QED
      BY <2>1, <2>2 DEF Positions
  <1> HIDE DEF S, T, p
  <1>7. S \subseteq Nat \ {0} /\ T \subseteq Nat \ {0}
    BY <1>1, <1>2, <1>3
  <1> DEFINE c == IF 1 \in S THEN 1 ELSE 0
  <1>8. \A m \in Nat : Rank(T, m) \in Nat /\ Rank(S, m + 1) = Rank(T, m) + c
    BY <1>2, <1>6, <1>7, RankShift
  <1>9. c \in Nat
    OBVIOUS
  <1> HIDE DEF c
  <1>10. Cardinality(S) = Cardinality(T) + c
    <2> DEFINE m == Len(s)
    <2>1. {i \in S : i <= m + 1} = S
      <3>1. \A i \in S : i <= m + 1
        BY <1>1, <1>2
      <3> QED
        BY <3>1
    <2>2. {i \in T : i <= m} = T
      <3>1. \A i \in T : i <= m
        BY <1>1, <1>3
      <3> QED
        BY <3>1
    <2>3. Rank(S, m + 1) = Cardinality(S) /\ Rank(T, m) = Cardinality(T)
      BY <2>1, <2>2 DEF Rank
    <2>4. m \in Nat
      BY <1>1
    <2> QED
      BY <1>8, <2>3, <2>4
  <1>11. \A i \in S : i # 1 => /\ i - 1 \in T /\ Rank(S, i) = Rank(T, i - 1) + c /\ t[i - 1] = s[i]
    <2> SUFFICES ASSUME NEW i \in S, i # 1
                 PROVE  i - 1 \in T /\ Rank(S, i) = Rank(T, i - 1) + c /\ t[i - 1] = s[i]
      OBVIOUS
    <2>1. i \in 1..Len(s)
      BY <1>1, <1>2
    <2>2. i - 1 \in Nat \ {0} /\ (i - 1) + 1 = i /\ i - 1 \in 1..(Len(s) - 1)
      BY <1>1, <2>1
    <2>3. i - 1 \in T
      BY <1>6, <2>2
    <2>4. Rank(S, (i - 1) + 1) = Rank(T, i - 1) + c
      BY <1>8, <2>2
    <2> QED
      BY <1>1, <2>2, <2>3, <2>4
  <1>12. \A i \in T : Rank(T, i) \in 1..Cardinality(T)
    BY <1>3, RankBounds
  <1>13. CASE KindOf(h) = k
    <2>1. 1 \in S /\ c = 1
      BY <1>5, <1>13 DEF c
    <2>2. Rank(S, 1) = 1
      <3>1. Rank(S, 0 + 1) = Rank(T, 0) + 1
        BY <1>8, <2>1
      <3>2. {j \in T : j <= 0} = {}
        <4>1. \A j \in T : j \in Nat /\ j # 0
          BY <1>7
        <4>2. \A j \in T : ~(j <= 0)
          BY <4>1
        <4> QED
          BY <4>2
      <3>3. Rank(T, 0) = 0
        BY <3>2, FS_EmptySet DEF Rank
      <3> QED
        BY <3>1, <3>3
    <2> DEFINE q == <<h>> \o p
    <2>3. /\ q \in Seq(R) /\ Len(q) = 1 + Cardinality(T) /\ q[1] = h
          /\ \A m \in 1..Cardinality(T) : q[m + 1] = p[m]
      BY <1>1, <1>3, <1>4
    <2> HIDE DEF q
    <2>4. \A i \in S : q[Rank(S, i)] = s[i]
      <3> SUFFICES ASSUME NEW i \in S
                   PROVE  q[Rank(S, i)] = s[i]
        OBVIOUS
      <3>1. CASE i = 1
        BY <1>1, <2>2, <2>3, <3>1
      <3>2. CASE i # 1
        <4>1. i - 1 \in T /\ Rank(S, i) = Rank(T, i - 1) + 1 /\ t[i - 1] = s[i]
          BY <1>11, <2>1, <3>2
        <4> QED
          BY <1>4, <1>12, <2>3, <4>1
      <3> QED
        BY <3>1, <3>2
    <2>5. Len(q) = Cardinality(Positions(s, k)) /\ \A i \in Positions(s, k) : q[Rank(Positions(s, k), i)] = s[i]
      <3>1. Len(q) = Cardinality(S)
        BY <1>3, <1>10, <2>1, <2>3
      <3> QED
        BY <2>4, <3>1 DEF S
    <2>6. OfKind(s, k) = q
      BY <2>3, <2>5, OfKindIs
    <2> QED
      BY <1>13, <2>6 DEF q, h, p, t
  <1>14. CASE KindOf(h) # k
    <2>1. 1 \notin S /\ c = 0
      BY <1>5, <1>14 DEF c
    <2>2. \A i \in S : p[Rank(S, i)] = s[i]
      <3> SUFFICES ASSUME NEW i \in S
                   PROVE  p[Rank(S, i)] = s[i]
        OBVIOUS
      <3>1. i - 1 \in T /\ Rank(S, i) = Rank(T, i - 1) + 0 /\ t[i - 1] = s[i]
        BY <1>11, <2>1
      <3>2. Rank(S, i) = Rank(T, i - 1)
        BY <1>12, <3>1
      <3> QED
        BY <1>4, <3>1, <3>2
    <2>3. Len(p) = Cardinality(Positions(s, k)) /\ \A i \in Positions(s, k) : p[Rank(Positions(s, k), i)] = s[i]
      <3>1. Len(p) = Cardinality(S)
        BY <1>3, <1>4, <1>10, <2>1
      <3> QED
        BY <2>2, <3>1 DEF S
    <2>4. OfKind(s, k) = p
      BY <1>4, <2>3, OfKindIs
    <2> QED
      BY <1>14, <2>4 DEF h, p, t
  <1> QED
    BY <1>13, <1>14

\* The mapping.
Queue == [k \in {"job", "attempt"} |-> (IF k = "job" THEN jobs ELSE attempts) \o OfKind(events, k)]
Log == [k \in {"job", "attempt"} |-> IF k = "job" THEN logJobs ELSE logAttempts]

LEMMA ConcatFacts ==
    ASSUME NEW R, NEW p \in Seq(R), NEW q \in Seq(R), NEW x \in R
    PROVE  /\ p \o q \in Seq(R) /\ Len(p \o q) = Len(p) + Len(q)
           /\ p \o Append(q, x) = Append(p \o q, x)
           /\ Append(p, x) \o q = p \o (<<x>> \o q)
           /\ SubSeq(p \o q, 1, Len(p)) = p
           /\ SubSeq(p \o q, Len(p) + 1, Len(p \o q)) = <<>> \o q
           /\ p \o <<>> = p
  <1>1. p \o q \in Seq(R) /\ Len(p \o q) = Len(p) + Len(q)
    OBVIOUS
  <1>2. p \o Append(q, x) = Append(p \o q, x)
    OBVIOUS
  <1>3. Append(p, x) \o q = p \o (<<x>> \o q)
    OBVIOUS
  <1>4. SubSeq(p \o q, 1, Len(p)) = p
    OBVIOUS
  <1>5. SubSeq(p \o q, Len(p) + 1, Len(p \o q)) = <<>> \o q
    OBVIOUS
  <1>6. p \o <<>> = p
    OBVIOUS
  <1> QED
    BY <1>1, <1>2, <1>3, <1>4, <1>5, <1>6

LEMMA RecordsTyped ==
    ASSUME Inv
    PROVE  /\ events \in Seq(Record) /\ jobs \in Seq(Record) /\ attempts \in Seq(Record)
           /\ logJobs \in Seq(Record) /\ logAttempts \in Seq(Record) /\ lost \in Nat /\ dropped \in Nat
           /\ OfKind(events, "job") \in Seq(Record) /\ OfKind(events, "attempt") \in Seq(Record)
  <1>1. /\ events \in Seq(Record) /\ jobs \in Seq(Record) /\ attempts \in Seq(Record)
        /\ logJobs \in Seq(Record) /\ logAttempts \in Seq(Record) /\ lost \in Nat /\ dropped \in Nat
    BY DEF Inv, TypeOK, WriterOK, HooksOK
  <1> QED
    BY <1>1, OfKindFacts

LEMMA KindFacts ==
    ASSUME NEW r
    PROVE  /\ KindOf(r) \in {"job", "attempt"} /\ Promise!KindOf(r) = KindOf(r)
           /\ r.isJob => KindOf(r) = "job"
           /\ ~r.isJob => KindOf(r) = "attempt"
  BY DEF KindOf, Promise!KindOf

\* A record sent is accepted at the end of the queue of its kind.
LEMMA SendAccepts ==
    ASSUME Inv, NEW r \in Record, events' = Append(events, r), UNCHANGED <<jobs, attempts>>,
           UNCHANGED <<logJobs, logAttempts, lost, dropped>>
    PROVE  Promise!Accept(r)
  <1>1. /\ events \in Seq(Record) /\ jobs \in Seq(Record) /\ attempts \in Seq(Record)
        /\ OfKind(events, "job") \in Seq(Record) /\ OfKind(events, "attempt") \in Seq(Record)
    BY RecordsTyped
  <1> DEFINE J == OfKind(events, "job")
             A == OfKind(events, "attempt")
  <1>2. /\ OfKind(events', "job") = IF KindOf(r) = "job" THEN Append(J, r) ELSE J
        /\ OfKind(events', "attempt") = IF KindOf(r) = "attempt" THEN Append(A, r) ELSE A
    BY <1>1, OfKindAppend
  <1>3. jobs \o Append(J, r) = Append(jobs \o J, r) /\ attempts \o Append(A, r) = Append(attempts \o A, r)
    <2>1. J \in Seq(Record) /\ A \in Seq(Record)
      BY <1>1
    <2> HIDE DEF J, A
    <2>2. \A p, q \in Seq(Record) : p \o Append(q, r) = Append(p \o q, r)
      BY ConcatFacts
    <2>3. jobs \o Append(J, r) = Append(jobs \o J, r) /\ attempts \o Append(A, r) = Append(attempts \o A, r)
      BY <1>1, <2>1, <2>2, Zenon
    <2> QED
      BY <2>3
  <1>4. Queue["job"] = jobs \o J /\ Queue["attempt"] = attempts \o A /\ DOMAIN Queue = {"job", "attempt"}
    BY DEF Queue
  <1>5. Queue'["job"] = jobs \o OfKind(events', "job") /\ Queue'["attempt"] = attempts \o OfKind(events', "attempt")
    BY DEF Queue
  <1> HIDE DEF J, A
  <1>6. Queue' = [Queue EXCEPT ![KindOf(r)] = Append(Queue[KindOf(r)], r)]
    <2>1. KindOf(r) \in {"job", "attempt"}
      BY KindFacts
    <2> DEFINE Q == [Queue EXCEPT ![KindOf(r)] = Append(Queue[KindOf(r)], r)]
    <2>2. DOMAIN Q = {"job", "attempt"} /\ DOMAIN Queue' = {"job", "attempt"}
      BY <1>4 DEF Queue
    <2>3. Q = [k \in {"job", "attempt"} |-> Q[k]] /\ Queue' = [k \in {"job", "attempt"} |-> Queue'[k]]
      BY <2>2 DEF Queue
    <2>4. Queue'["job"] = Q["job"] /\ Queue'["attempt"] = Q["attempt"]
      <3>1. CASE KindOf(r) = "job"
        BY <1>2, <1>3, <1>4, <1>5, <3>1
      <3>2. CASE KindOf(r) = "attempt"
        BY <1>2, <1>3, <1>4, <1>5, <3>2
      <3> QED
        BY <2>1, <3>1, <3>2
    <2> HIDE DEF Q
    <2>5. Queue' = Q
      BY <2>3, <2>4
    <2> QED
      BY <2>5 DEF Q
  <1>7. Promise!KindOf(r) = KindOf(r)
    BY KindFacts
  <1>8. Log' = Log /\ UNCHANGED <<lost, dropped>>
    BY DEF Log
  <1> QED
    BY <1>6, <1>7, <1>8 DEF Promise!Accept, Queue, Log

\* A receive moves a record from the channel to the batch: the queues do not change.
LEMMA TakeStutters ==
    ASSUME Inv, NEW here, Take(here)
    PROVE  Queue' = Queue /\ Log' = Log /\ UNCHANGED <<lost, dropped>>
  <1>1. /\ events \in Seq(Record) /\ jobs \in Seq(Record) /\ attempts \in Seq(Record)
    BY RecordsTyped
  <1>2. events # <<>> /\ events' = Tail(events) /\ UNCHANGED <<logJobs, logAttempts, lost, dropped>>
    BY DEF Take, storeVars
  <1> DEFINE h == Head(events)
             t == Tail(events)
             J == OfKind(t, "job")
             A == OfKind(t, "attempt")
  <1>3. h \in Record /\ t \in Seq(Record)
    BY <1>1, <1>2
  <1>4. J \in Seq(Record) /\ A \in Seq(Record)
    BY <1>3, OfKindFacts
  <1>5. /\ OfKind(events, "job") = IF KindOf(h) = "job" THEN <<h>> \o J ELSE J
        /\ OfKind(events, "attempt") = IF KindOf(h) = "attempt" THEN <<h>> \o A ELSE A
    BY <1>1, <1>2, OfKindTail
  <1>6. OfKind(events', "job") = J /\ OfKind(events', "attempt") = A
    BY <1>2
  <1>7. \/ KindOf(h) = "job" /\ jobs' = Append(jobs, h) /\ attempts' = attempts
        \/ KindOf(h) = "attempt" /\ attempts' = Append(attempts, h) /\ jobs' = jobs
    BY KindFacts DEF Take
  <1>8. Append(jobs, h) \o J = jobs \o (<<h>> \o J) /\ Append(attempts, h) \o A = attempts \o (<<h>> \o A)
    <2> HIDE DEF h, t, J, A
    <2>1. Append(jobs, h) \o J = jobs \o (<<h>> \o J)
      BY <1>1, <1>3, <1>4
    <2>2. Append(attempts, h) \o A = attempts \o (<<h>> \o A)
      BY <1>1, <1>3, <1>4
    <2> QED
      BY <2>1, <2>2
  <1> HIDE DEF h, t, J, A
  <1>9. /\ jobs' \o OfKind(events', "job") = jobs \o OfKind(events, "job")
        /\ attempts' \o OfKind(events', "attempt") = attempts \o OfKind(events, "attempt")
    BY <1>5, <1>6, <1>7, <1>8
  <1>10. Queue' = Queue
    BY <1>9 DEF Queue
  <1> QED
    BY <1>2, <1>10 DEF Log

\* A flush of one half of the batch writes or refuses the front of its queue; an empty
\* half changes nothing.
LEMMA FlushJobsStep ==
    ASSUME Inv, FlushJobs
    PROVE  \/ Queue' = Queue /\ Log' = Log /\ UNCHANGED <<lost, dropped>>
           \/ \E n \in 1..Len(Queue["job"]) : Promise!Write("job", n) \/ Promise!Refuse("job", n)
  <1>1. /\ events \in Seq(Record) /\ jobs \in Seq(Record) /\ logJobs \in Seq(Record)
        /\ OfKind(events, "job") \in Seq(Record)
    BY RecordsTyped
  <1>2. jobs' = <<>> /\ UNCHANGED <<events, dropped, attempts, logAttempts>>
    BY DEF FlushJobs
  <1>3. \/ logJobs' = logJobs \o jobs /\ lost' = lost
        \/ jobs # <<>> /\ lost' = lost + Len(jobs) /\ logJobs' = logJobs
    BY DEF FlushJobs
  <1> DEFINE J == OfKind(events, "job")
  <1>n. PICK n : n = Len(jobs)
    OBVIOUS
  <1>4. Queue["job"] = jobs \o J /\ DOMAIN Queue = {"job", "attempt"}
    BY DEF Queue
  <1>5. /\ Len(jobs \o J) = n + Len(J) /\ SubSeq(jobs \o J, 1, n) = jobs
        /\ SubSeq(jobs \o J, n + 1, Len(jobs \o J)) = <<>> \o J /\ n \in Nat /\ Len(J) \in Nat
    BY <1>1, <1>n
  <1>6. Queue' = [Queue EXCEPT !["job"] = <<>> \o J]
    BY <1>2 DEF Queue
  <1>7. CASE jobs = <<>>
    <2>1. logJobs \o jobs = logJobs /\ <<>> \o J = jobs \o J
      BY <1>1, <1>7
    <2>2. Queue' = Queue
      BY <1>2, <1>7 DEF Queue
    <2> QED
      BY <1>2, <1>3, <1>7, <2>1, <2>2 DEF Log
  <1>8. CASE jobs # <<>>
    <2>1. n \in 1..Len(Queue["job"])
      BY <1>1, <1>4, <1>5, <1>8, <1>n
    <2>2. Queue' = [Queue EXCEPT !["job"] = SubSeq(Queue["job"], n + 1, Len(Queue["job"]))]
      BY <1>4, <1>5, <1>6
    <2>3. Promise!Leave("job", n)
      BY <2>2 DEF Promise!Leave, Queue
    <2>4. CASE logJobs' = logJobs \o jobs /\ lost' = lost
      <3>1. Log' = [Log EXCEPT !["job"] = Log["job"] \o SubSeq(Queue["job"], 1, n)]
        <4>1. SubSeq(Queue["job"], 1, n) = jobs
          BY <1>4, <1>5
        <4>2. Log["job"] = logJobs
          BY DEF Log
        <4>3. Log' = [Log EXCEPT !["job"] = logJobs \o jobs]
          BY <1>2, <2>4 DEF Log
        <4> QED
          BY <4>1, <4>2, <4>3
      <3>2. Promise!Write("job", n)
        BY <1>2, <2>3, <2>4, <3>1 DEF Promise!Write, Queue, Log
      <3> QED
        BY <2>1, <3>2
    <2>5. CASE lost' = lost + Len(jobs) /\ logJobs' = logJobs
      <3>1. Log' = Log
        BY <1>2, <2>5 DEF Log
      <3>2. Promise!Refuse("job", n)
        BY <1>2, <1>n, <2>3, <2>5, <3>1 DEF Promise!Refuse, Log
      <3> QED
        BY <2>1, <3>2
    <2> QED
      BY <1>3, <2>4, <2>5
  <1> QED
    BY <1>7, <1>8

LEMMA FlushAttemptsStep ==
    ASSUME Inv, FlushAttempts
    PROVE  \/ Queue' = Queue /\ Log' = Log /\ UNCHANGED <<lost, dropped>>
           \/ \E n \in 1..Len(Queue["attempt"]) : Promise!Write("attempt", n) \/ Promise!Refuse("attempt", n)
  <1>1. /\ events \in Seq(Record) /\ attempts \in Seq(Record) /\ logAttempts \in Seq(Record)
        /\ OfKind(events, "attempt") \in Seq(Record)
    BY RecordsTyped
  <1>2. attempts' = <<>> /\ UNCHANGED <<events, dropped, jobs, logJobs>>
    BY DEF FlushAttempts
  <1>3. \/ logAttempts' = logAttempts \o attempts /\ lost' = lost
        \/ attempts # <<>> /\ lost' = lost + Len(attempts) /\ logAttempts' = logAttempts
    BY DEF FlushAttempts
  <1> DEFINE A == OfKind(events, "attempt")
  <1>n. PICK n : n = Len(attempts)
    OBVIOUS
  <1>4. Queue["attempt"] = attempts \o A /\ DOMAIN Queue = {"job", "attempt"}
    BY DEF Queue
  <1>5. /\ Len(attempts \o A) = n + Len(A) /\ SubSeq(attempts \o A, 1, n) = attempts
        /\ SubSeq(attempts \o A, n + 1, Len(attempts \o A)) = <<>> \o A /\ n \in Nat /\ Len(A) \in Nat
    BY <1>1, <1>n
  <1>6. Queue' = [Queue EXCEPT !["attempt"] = <<>> \o A]
    BY <1>2 DEF Queue
  <1>7. CASE attempts = <<>>
    <2>1. logAttempts \o attempts = logAttempts
      BY <1>1, <1>7
    <2>2. Queue' = Queue
      BY <1>2, <1>7 DEF Queue
    <2> QED
      BY <1>2, <1>3, <1>7, <2>1, <2>2 DEF Log
  <1>8. CASE attempts # <<>>
    <2>1. n \in 1..Len(Queue["attempt"])
      BY <1>1, <1>4, <1>5, <1>8, <1>n
    <2>2. Queue' = [Queue EXCEPT !["attempt"] = SubSeq(Queue["attempt"], n + 1, Len(Queue["attempt"]))]
      BY <1>4, <1>5, <1>6
    <2>3. Promise!Leave("attempt", n)
      BY <2>2 DEF Promise!Leave, Queue
    <2>4. CASE logAttempts' = logAttempts \o attempts /\ lost' = lost
      <3>1. Log' = [Log EXCEPT !["attempt"] = Log["attempt"] \o SubSeq(Queue["attempt"], 1, n)]
        <4>1. SubSeq(Queue["attempt"], 1, n) = attempts
          BY <1>4, <1>5
        <4>2. Log["attempt"] = logAttempts
          BY DEF Log
        <4>3. Log' = [Log EXCEPT !["attempt"] = logAttempts \o attempts]
          BY <1>2, <2>4 DEF Log
        <4> QED
          BY <4>1, <4>2, <4>3
      <3>2. Promise!Write("attempt", n)
        BY <1>2, <2>3, <2>4, <3>1 DEF Promise!Write, Queue, Log
      <3> QED
        BY <2>1, <3>2
    <2>5. CASE lost' = lost + Len(attempts) /\ logAttempts' = logAttempts
      <3>1. Log' = Log
        BY <1>2, <2>5 DEF Log
      <3>2. Promise!Refuse("attempt", n)
        BY <1>2, <1>n, <2>3, <2>5, <3>1 DEF Promise!Refuse, Log
      <3> QED
        BY <2>1, <3>2
    <2> QED
      BY <1>3, <2>4, <2>5
  <1> QED
    BY <1>7, <1>8

LEMMA PromiseInit == Init => Promise!Init
  <1> SUFFICES ASSUME Init
               PROVE  Promise!Init
    OBVIOUS
  <1>1. /\ events = <<>> /\ jobs = <<>> /\ attempts = <<>> /\ logJobs = <<>> /\ logAttempts = <<>>
        /\ lost = 0 /\ dropped = 0
    BY DEF Init
  <1>2. \A k : OfKind(events, k) = <<>>
    BY <1>1, OfKindEmpty
  <1>3. \A k \in {"job", "attempt"} : (IF k = "job" THEN jobs ELSE attempts) \o OfKind(events, k) = <<>>
    BY <1>1, <1>2
  <1> QED
    BY <1>1, <1>3 DEF Promise!Init, Promise!Kind

\* Each step of the sink is a step of the promise or none.
LEMMA PromiseNext == Inv /\ [Next]_vars => [Promise!Next]_(Promise!recorderVars)
  <1> SUFFICES ASSUME Inv, [Next]_vars
               PROVE  Promise!Next \/ UNCHANGED Promise!recorderVars
    OBVIOUS
  <1>0. ASSUME Queue' = Queue, Log' = Log, UNCHANGED <<lost, dropped>>
        PROVE  UNCHANGED Promise!recorderVars
    BY <1>0 DEF Promise!recorderVars, Queue, Log
  <1>1. ASSUME UNCHANGED <<events, jobs, attempts, lost, logJobs, logAttempts, dropped>>
        PROVE  UNCHANGED Promise!recorderVars
    <2>1. Queue' = Queue /\ Log' = Log
      BY <1>1 DEF Queue, Log
    <2> QED
      BY <1>0, <1>1, <2>1
  <1>2. ASSUME dropped' = dropped + 1, UNCHANGED <<events, jobs, attempts, lost, logJobs, logAttempts>>
        PROVE  Promise!Next
    <2>1. Queue' = Queue /\ Log' = Log
      BY <1>2 DEF Queue, Log
    <2>2. Promise!Drop
      BY <1>2, <2>1 DEF Promise!Drop, Queue, Log
    <2> QED
      BY <2>2 DEF Promise!Next
  <1>3. ASSUME NEW w \in Worker, OfferCheck(w)
        PROVE  Promise!Next \/ UNCHANGED Promise!recorderVars
    <2>1. UNCHANGED <<events, jobs, attempts, lost, logJobs, logAttempts>> /\ dropped' \in {dropped, dropped + 1}
      BY <1>3 DEF OfferCheck, writerVars, storeVars
    <2> QED
      BY <1>1, <1>2, <2>1
  <1>4. ASSUME NEW w \in Worker, OfferSend(w)
        PROVE  Promise!Next \/ UNCHANGED Promise!recorderVars
    <2>0. PICK r : r = Head(todo[w])
      OBVIOUS
    <2>1. r \in Record
      BY <1>4, <2>0, SendFacts
    <2>2. UNCHANGED <<jobs, attempts, lost, logJobs, logAttempts>>
      BY <1>4 DEF OfferSend, writerVars, storeVars
    <2>3. \/ events' = Append(events, r) /\ dropped' = dropped
          \/ events' = events /\ dropped' = dropped + 1
      BY <1>4, <2>0 DEF OfferSend
    <2>4. CASE events' = Append(events, r) /\ dropped' = dropped
      <3>1. Promise!Accept(r)
        BY <2>1, <2>2, <2>4, SendAccepts
      <3> QED
        BY <2>1, <3>1 DEF Promise!Next
    <2>5. CASE events' = events /\ dropped' = dropped + 1
      BY <1>2, <2>2, <2>5
    <2> QED
      BY <2>3, <2>4, <2>5
  <1>5. CASE RunReceive \/ DrainReceive
    <2>1. \E here : Take(here)
      BY <1>5 DEF RunReceive, DrainReceive
    <2> QED
      BY <1>0, <2>1, TakeStutters
  <1>6. CASE FlushJobs
    <2>1. CASE Queue' = Queue /\ Log' = Log /\ UNCHANGED <<lost, dropped>>
      BY <1>0, <2>1
    <2>2. ASSUME NEW n \in 1..Len(Queue["job"]), Promise!Write("job", n) \/ Promise!Refuse("job", n)
          PROVE  Promise!Next
      BY <2>2 DEF Promise!Next, Promise!Kind, Queue
    <2> QED
      BY <1>6, <2>1, <2>2, FlushJobsStep
  <1>7. CASE FlushAttempts
    <2>1. CASE Queue' = Queue /\ Log' = Log /\ UNCHANGED <<lost, dropped>>
      BY <1>0, <2>1
    <2>2. ASSUME NEW n \in 1..Len(Queue["attempt"]), Promise!Write("attempt", n) \/ Promise!Refuse("attempt", n)
          PROVE  Promise!Next
      BY <2>2 DEF Promise!Next, Promise!Kind, Queue
    <2> QED
      BY <1>7, <2>1, <2>2, FlushAttemptsStep
  <1>8. CASE RunTick \/ RunDone \/ DrainEnd
    <2>1. UNCHANGED <<events, jobs, attempts, lost, logJobs, logAttempts, dropped>>
      BY <1>8 DEF RunTick, RunDone, DrainEnd, storeVars
    <2> QED
      BY <1>1, <2>1
  <1>9. ASSUME NEW s \in Starter, StartReconcile(s)
        PROVE  UNCHANGED Promise!recorderVars
    <2>1. UNCHANGED <<events, jobs, attempts, lost, logJobs, logAttempts, dropped>>
      BY <1>9 DEF StartReconcile, storeVars
    <2> QED
      BY <1>1, <2>1
  <1>10. ASSUME NEW w \in Worker, Hook(w)
         PROVE  UNCHANGED Promise!recorderVars
    <2>1. UNCHANGED <<events, jobs, attempts, lost, logJobs, logAttempts, dropped>>
      BY <1>10 DEF Hook, writerVars, storeVars
    <2> QED
      BY <1>1, <2>1
  <1>11. CASE /\ ~Run /\ ~ \E s \in Starter : StartReconcile(s)
              /\ ~ \E w \in Worker : Hook(w) \/ OfferCheck(w) \/ OfferSend(w)
    <2>1. UNCHANGED <<events, jobs, attempts, lost, logJobs, logAttempts, dropped>>
      BY <1>11, WriterFrame, HookFrame
    <2> QED
      BY <1>1, <2>1
  <1> QED
    BY <1>3, <1>4, <1>5, <1>6, <1>7, <1>8, <1>9, <1>10, <1>11 DEF Run

\* The sink keeps the promise Recorder states, whatever its goroutines do: each step
\* accepts one record at the end of the queue of its kind, drops one, or moves the front
\* of one queue into the store or, when the write failed, out of it.
THEOREM SinkKeepsItsPromise == Spec => RecorderSpec
  <1>1. Init => Promise!Init
    BY PromiseInit
  <1>2. Inv /\ [Next]_vars => [Promise!Next]_(Promise!recorderVars)
    BY PromiseNext
  <1> QED
    BY <1>1, <1>2, Invariance, PTL DEF Spec, RecorderSpec, Promise!Spec
=============================================================================
