----------------------------- MODULE FleetProofs -----------------------------
(***************************************************************************)
(* Fleet for every set of processes and jobs and every choice of intervals *)
(* and delays that the staleness gap covers.                               *)
(***************************************************************************)
EXTENDS Fleet, TLAPS

----------------------------------------------------------------------------
(* The inductive invariant. *)

\* A process that has not launched its sink has no rows and no queue.
NothingBeforeLaunch ==
    \A e \in Epoch : status[e] \in {"off", "claimed"} =>
        /\ pipe[e] = <<>>
        /\ \A j \in DOMAIN rows : Owner[j] # e

\* While Start is between its heartbeat and the launch, that heartbeat is at
\* most StartDelay old.
ClaimIsRecent ==
    \A e \in Epoch : status[e] = "claimed" =>
        seen[e] > 0 /\ clock <= due[e] /\ due[e] <= seen[e] + StartDelay

\* A recorded heartbeat outlives every tick its ticker may still miss.
BeatIsRecent ==
    \A e \in beating :
        /\ seen[e] > 0
        /\ clock <= due[e] + Lag
        /\ due[e] + Lag + MaxSkew + (MaxMisses - misses[e]) * Interval
             <= seen[e] + StaleAfter

\* What a process has queued was reported by the hooks of its own jobs.
QueuedWasTold ==
    \A e \in Epoch : \A i \in 1..Len(pipe[e]) :
        /\ Owner[pipe[e][i].job] = e
        /\ pipe[e][i].rec.epoch = e
        /\ pipe[e][i].rec.state \in told[pipe[e][i].job]

Lifecycle ==
    /\ clock > 0
    /\ \A e \in Epoch : status[e] = "up" => e \in beating
    /\ \A e \in beating : status[e] \in {"up", "closing"}
    /\ \A e \in buried : status[e] = "gone"

Inv == /\ TypeOK /\ Lifecycle
       /\ NothingBeforeLaunch /\ ClaimIsRecent /\ BeatIsRecent /\ QueuedWasTold
       /\ LiveJobsSurvive /\ BuriedAreResolved

----------------------------------------------------------------------------
(* Facts about the operators of JobRecord. *)

\* Rank is a number from 0 to 3, and interrupted is terminal.
LEMMA RankType == /\ \A s \in State : Rank(s) \in 0..3
                  /\ Terminal("interrupted")
  BY DEF Rank, Terminal

\* The state of a merge is one of the two states, never of a lower rank.
LEMMA AdvanceChooses ==
    \A s, t \in State :
              /\ Advance(s, t) \in {s, t}
              /\ Advance(s, t) = s \/ Rank(Advance(s, t)) > Rank(s)
  BY DEF Advance

\* Merging two rows gives a row of the same epoch.
LEMMA MergeType ==
    ASSUME NEW old \in Row, NEW new \in Row
    PROVE  /\ Merge(old, new) \in Row
           /\ Merge(old, new).epoch = old.epoch
           /\ Merge(old, new).state = Advance(old.state, new.state)
  <1>1. Advance(old.state, new.state) \in State
    BY DEF Advance, Row
  <1>2. \A a, b \in {""} : FillBlank(a, b) = "" /\ LastNonBlank(a, b) = ""
    BY DEF FillBlank, LastNonBlank
  <1>3. \A a, b \in Nat : /\ FillZero(a, b) \in Nat /\ LastNonZero(a, b) \in Nat
                          /\ Larger(a, b) \in Nat
    BY DEF FillZero, LastNonZero, Larger
  <1>4. \A c : (IF c THEN new.pg ELSE old.pg) \in Nat
    BY DEF Row
  <1> QED
    BY <1>1, <1>2, <1>3, <1>4 DEF Merge, Row

\* What a hook reports is a row of the job's owner in the reported state.
LEMMA HookRecordType ==
    ASSUME NEW j \in Job, NEW s \in State, clock \in Nat
    PROVE  /\ HookRecord(j, s) \in Row
           /\ HookRecord(j, s).epoch = Owner[j]
           /\ HookRecord(j, s).state = s
  <1> DEFINE blank == BlankJob(Owner[j])
             fin == IF Terminal(s) THEN Now(Owner[j]) ELSE 0
  <1>1. Owner[j] \in Epoch /\ EnqueuedAt[j] \in Nat
    BY FleetAssumption
  <1>2. fin \in Nat
    BY <1>1, FleetAssumption DEF Now
  <1>3. blank \in Row /\ blank.epoch = Owner[j]
    BY <1>1 DEF BlankJob, Row, State
  <1> HIDE DEF blank, fin
  <1>4. HookRecord(j, s) = [blank EXCEPT !.state = s, !.enqueuedAt = EnqueuedAt[j],
                                         !.finishedAt = fin]
    BY DEF HookRecord, blank, fin
  <1> QED
    BY <1>1, <1>2, <1>3, <1>4, ZenonT(60) DEF Row

\* Clocks are numbers, at most MaxSkew apart; so are the bounds on delays.
LEMMA NowType ==
    ASSUME clock \in Nat, NEW e \in Epoch
    PROVE  Now(e) \in Nat /\ clock <= Now(e) /\ Now(e) <= clock + MaxSkew
  <1>1. Skew[e] \in 0..MaxSkew /\ MaxSkew \in Nat
    BY FleetAssumption
  <1> QED
    BY <1>1 DEF Now

LEMMA Delays ==
    /\ Interval \in Nat /\ StaleAfter \in Nat /\ MaxMisses \in Nat
    /\ Lag \in Nat /\ StartDelay \in Nat /\ MaxSkew \in Nat
  BY FleetAssumption

\* Arithmetic of the missed beats that are left.
LEMMA MissesLeft ==
    ASSUME NEW m \in 0..MaxMisses
    PROVE  /\ (MaxMisses - m) * Interval >= 0
           /\ m < MaxMisses =>
                (MaxMisses - (m + 1)) * Interval + Interval = (MaxMisses - m) * Interval
           /\ (MaxMisses + 1) * Interval = MaxMisses * Interval + Interval
  BY FleetAssumption, SMT

\* A beating process is alive to every reconciler, whatever its clock says.
LEMMA BeatingIsSeen ==
    ASSUME Inv, NEW e \in beating, NEW r \in Epoch
    PROVE  Beating(seen[e], Now(r) - StaleAfter)
  <1> DEFINE left == (MaxMisses - misses[e]) * Interval
  <1>1. left \in Int /\ left >= 0
    BY MissesLeft, FleetAssumption DEF Inv, TypeOK, ProcessesOK
  <1>2. /\ e \in Epoch /\ due[e] \in Nat /\ seen[e] \in Nat /\ clock \in Nat
        /\ Lag \in Nat /\ MaxSkew \in Nat /\ StaleAfter \in Nat
        /\ Skew[r] \in 0..MaxSkew
    BY FleetAssumption DEF Inv, TypeOK, ProcessesOK
  <1>3. /\ seen[e] > 0 /\ clock <= due[e] + Lag
        /\ due[e] + Lag + MaxSkew + left <= seen[e] + StaleAfter
    BY DEF Inv, BeatIsRecent
  <1> HIDE DEF left
  <1> QED
    BY <1>1, <1>2, <1>3 DEF Beating, Now

\* What ReconcileEpoch does to the rows: it keeps a row or interrupts it, and
\* interrupts only unfinished rows of other epochs that have stopped beating.
LEMMA ReconcileKeepsOrInterrupts ==
    ASSUME RecordsOK, NEW e \in Epoch, NEW cutoff \in Int,
           NEW r, r = Reconcile(rows, e, seen, cutoff)
    PROVE  /\ DOMAIN r = DOMAIN rows
           /\ \A j \in DOMAIN rows :
                /\ r[j] \in Row /\ r[j].epoch = Owner[j]
                /\ \/ r[j] = rows[j]
                   \/ /\ r[j].state = "interrupted"
                      /\ ~Terminal(rows[j].state)
                      /\ Owner[j] # e
                      /\ ~Beating(seen[Owner[j]], cutoff)
                /\ Owner[j] # e /\ ~Beating(seen[Owner[j]], cutoff) =>
                      Terminal(r[j].state)
  <1>1. DOMAIN r = DOMAIN rows
    BY DEF Reconcile
  <1>2. ASSUME NEW j \in DOMAIN rows, r[j] # rows[j]
        PROVE  /\ r[j] = [rows[j] EXCEPT !.state = "interrupted"]
               /\ ~Terminal(rows[j].state) /\ Owner[j] # e
               /\ ~Beating(seen[Owner[j]], cutoff)
    BY <1>2 DEF Reconcile, RecordsOK
  <1>3. ASSUME NEW j \in DOMAIN rows, r[j] = rows[j],
               Owner[j] # e, ~Beating(seen[Owner[j]], cutoff), ~Terminal(rows[j].state)
        PROVE  FALSE
    <2>1. r[j] = [rows[j] EXCEPT !.state = "interrupted"]
      BY <1>3 DEF Reconcile, RecordsOK
    <2>2. r[j].state = "interrupted"
      BY <2>1 DEF RecordsOK, Row
    <2> QED
      BY <1>3, <2>2, RankType
  <1>4. ASSUME NEW old \in Row
        PROVE  /\ [old EXCEPT !.state = "interrupted"] \in Row
               /\ [old EXCEPT !.state = "interrupted"].epoch = old.epoch
               /\ [old EXCEPT !.state = "interrupted"].state = "interrupted"
    BY DEF Row, State
  <1> SUFFICES ASSUME NEW j \in DOMAIN rows
               PROVE  /\ r[j] \in Row /\ r[j].epoch = Owner[j]
                      /\ \/ r[j] = rows[j]
                         \/ /\ r[j].state = "interrupted"
                            /\ ~Terminal(rows[j].state)
                            /\ Owner[j] # e
                            /\ ~Beating(seen[Owner[j]], cutoff)
                      /\ Owner[j] # e /\ ~Beating(seen[Owner[j]], cutoff) =>
                            Terminal(r[j].state)
    BY <1>1
  <1>5. rows[j] \in Row /\ rows[j].epoch = Owner[j]
    BY DEF RecordsOK
  <1>6. CASE r[j] = rows[j]
    BY <1>3, <1>5, <1>6
  <1>7. CASE r[j] # rows[j]
    <2>1. /\ r[j] = [rows[j] EXCEPT !.state = "interrupted"]
          /\ ~Terminal(rows[j].state) /\ Owner[j] # e
          /\ ~Beating(seen[Owner[j]], cutoff)
      BY <1>2, <1>7
    <2>2. r[j] \in Row /\ r[j].epoch = Owner[j] /\ r[j].state = "interrupted"
      BY <1>4, <1>5, <2>1
    <2> QED
      BY <2>1, <2>2, RankType
  <1> QED
    BY <1>6, <1>7

\* A queue without its head.
LEMMA TailOfQueue ==
    ASSUME NEW S, NEW q \in Seq(S), q # <<>>
    PROVE  /\ Head(q) \in S /\ Head(q) = q[1] /\ 1 \in 1..Len(q)
           /\ Tail(q) \in Seq(S) /\ \A n \in Nat : Len(q) <= n => Len(Tail(q)) <= n
           /\ \A i \in 1..Len(Tail(q)) : i + 1 \in 1..Len(q) /\ Tail(q)[i] = q[i + 1]
  OBVIOUS

\* A queue with one more element.
LEMMA AppendToQueue ==
    ASSUME NEW S, NEW q \in Seq(S), NEW x \in S
    PROVE  /\ Append(q, x) \in Seq(S)
           /\ \A i \in 1..Len(Append(q, x)) :
                \/ i \in 1..Len(q) /\ Append(q, x)[i] = q[i]
                \/ Append(q, x)[i] = x
           /\ \A i \in 1..Len(q) : q[i] \in S
           /\ \A n \in Nat : Len(q) < n => Len(Append(q, x)) <= n
  OBVIOUS

\* The record a process writes next is one of its own jobs' reports.
LEMMA NextWrite ==
    ASSUME Inv, NEW e \in Epoch, pipe[e] # <<>>
    PROVE  LET h == Head(pipe[e]) IN
           /\ h.job \in Job /\ h.rec \in Row
           /\ Owner[h.job] = e /\ h.rec.epoch = e /\ h.rec.state \in told[h.job]
  <1>1. pipe[e] \in Seq([job : Job, rec : Row])
    BY DEF Inv, TypeOK, RecordsOK
  <1>2. Head(pipe[e]) \in [job : Job, rec : Row]
    BY <1>1, TailOfQueue
  <1>3. Head(pipe[e]) = pipe[e][1] /\ 1 \in 1..Len(pipe[e])
    BY <1>1, TailOfQueue
  <1> QED
    BY <1>2, <1>3 DEF Inv, QueuedWasTold

\* Taking the head off a queue leaves what is queued well typed and reported.
LEMMA DequeueKeeps ==
    ASSUME Inv, NEW e \in Epoch, pipe[e] # <<>>, UNCHANGED told,
           pipe' = [pipe EXCEPT ![e] = Tail(@)]
    PROVE  /\ pipe' \in [Epoch -> Seq([job : Job, rec : Row])]
           /\ \A o \in Epoch : Len(pipe'[o]) <= Buffer
           /\ QueuedWasTold'
  <1>1. pipe \in [Epoch -> Seq([job : Job, rec : Row])]
    BY DEF Inv, TypeOK, RecordsOK
  <1>2. pipe[e] \in Seq([job : Job, rec : Row])
    BY <1>1
  <1>3. /\ Tail(pipe[e]) \in Seq([job : Job, rec : Row])
        /\ \A i \in 1..Len(Tail(pipe[e])) : /\ i + 1 \in 1..Len(pipe[e])
                                            /\ Tail(pipe[e])[i] = pipe[e][i + 1]
    BY <1>2, TailOfQueue
  <1>4. /\ pipe' \in [Epoch -> Seq([job : Job, rec : Row])]
        /\ pipe'[e] = Tail(pipe[e])
        /\ \A o \in Epoch \ {e} : pipe'[o] = pipe[o]
    BY <1>1, <1>3
  <1>l. \A o \in Epoch : Len(pipe'[o]) <= Buffer
    <2>1. Buffer \in Nat /\ \A o \in Epoch : Len(pipe[o]) <= Buffer
      BY FleetAssumption DEF Inv, TypeOK, RecordsOK
    <2>2. Len(Tail(pipe[e])) <= Buffer
      BY <1>2, <2>1, TailOfQueue
    <2> QED
      BY <1>4, <2>1, <2>2
  <1>5. QueuedWasTold'
    <2> SUFFICES ASSUME NEW o \in Epoch, NEW i \in 1..Len(pipe'[o])
                 PROVE  /\ Owner[pipe'[o][i].job] = o
                        /\ pipe'[o][i].rec.epoch = o
                        /\ pipe'[o][i].rec.state \in told[pipe'[o][i].job]
      BY DEF QueuedWasTold
    <2>1. CASE o = e
      BY <1>3, <1>4, <2>1 DEF Inv, QueuedWasTold
    <2>2. CASE o # e
      BY <1>4, <2>2 DEF Inv, QueuedWasTold
    <2> QED
      BY <2>1, <2>2
  <1> QED
    BY <1>4, <1>l, <1>5

----------------------------------------------------------------------------
(* The invariant is inductive. *)

LEMMA InvInit == Init => Inv
  <1> SUFFICES ASSUME Init PROVE Inv
    OBVIOUS
  <1>1. TypeOK
    BY FleetAssumption DEF Init, TypeOK, ProcessesOK, RecordsOK
  <1>2. Lifecycle /\ ClaimIsRecent /\ BeatIsRecent /\ NothingBeforeLaunch
    BY DEF Init, Lifecycle, ClaimIsRecent, BeatIsRecent, NothingBeforeLaunch
  <1>3. QueuedWasTold /\ LiveJobsSurvive /\ BuriedAreResolved
    BY DEF Init, QueuedWasTold, LiveJobsSurvive, BuriedAreResolved
  <1> QED
    BY <1>1, <1>2, <1>3 DEF Inv

LEMMA ClaimStep == ASSUME Inv, NEW e \in Epoch, Claim(e) PROVE Inv'
  <1> USE DEF Claim
  <1>1. ProcessesOK'
    BY NowType, Delays DEF Inv, TypeOK, ProcessesOK
  <1>2. RecordsOK' /\ NothingBeforeLaunch' /\ QueuedWasTold'
    BY ZenonT(60) DEF Inv, TypeOK, ProcessesOK, RecordsOK, NothingBeforeLaunch, QueuedWasTold
  <1>3. e \notin beating
    BY DEF Inv, Lifecycle
  <1>4. Lifecycle' /\ BeatIsRecent'
    BY <1>3 DEF Inv, TypeOK, ProcessesOK, Lifecycle, BeatIsRecent
  <1>5. ClaimIsRecent'
    BY NowType, Delays DEF Inv, TypeOK, ProcessesOK, Lifecycle, ClaimIsRecent
  <1>6. LiveJobsSurvive' /\ BuriedAreResolved'
    BY DEF Inv, TypeOK, ProcessesOK, LiveJobsSurvive, BuriedAreResolved
  <1> QED
    BY <1>1, <1>2, <1>4, <1>5, <1>6 DEF Inv, TypeOK

LEMMA StartFailsStep == ASSUME Inv, NEW e \in Epoch, StartFails(e) PROVE Inv'
  <1> USE DEF StartFails
  <1>1. ProcessesOK' /\ RecordsOK' /\ NothingBeforeLaunch' /\ QueuedWasTold'
    BY ZenonT(60) DEF Inv, TypeOK, ProcessesOK, RecordsOK, NothingBeforeLaunch, QueuedWasTold
  <1>2. e \notin beating
    BY DEF Inv, Lifecycle
  <1>3. Lifecycle' /\ BeatIsRecent' /\ ClaimIsRecent'
    BY <1>2 DEF Inv, TypeOK, ProcessesOK, Lifecycle, BeatIsRecent, ClaimIsRecent
  <1>4. LiveJobsSurvive' /\ BuriedAreResolved'
    BY DEF Inv, TypeOK, ProcessesOK, LiveJobsSurvive, BuriedAreResolved
  <1> QED
    BY <1>1, <1>3, <1>4 DEF Inv, TypeOK

LEMMA LaunchStep == ASSUME Inv, NEW e \in Epoch, Launch(e) PROVE Inv'
  <1> USE DEF Launch
  <1> DEFINE cutoff == Now(e) - StaleAfter
  <1>1. cutoff \in Int
    BY NowType, Delays DEF Inv, TypeOK, ProcessesOK
  <1>2. /\ DOMAIN rows' = DOMAIN rows
        /\ \A j \in DOMAIN rows :
             /\ rows'[j] \in Row /\ rows'[j].epoch = Owner[j]
             /\ \/ rows'[j] = rows[j]
                \/ /\ rows'[j].state = "interrupted"
                   /\ ~Terminal(rows[j].state)
                   /\ Owner[j] # e
                   /\ ~Beating(seen[Owner[j]], cutoff)
             /\ Owner[j] # e /\ ~Beating(seen[Owner[j]], cutoff) =>
                   Terminal(rows'[j].state)
    BY <1>1, ReconcileKeepsOrInterrupts DEF Inv, TypeOK
  <1> HIDE DEF cutoff
  <1>3. ProcessesOK'
    BY Delays DEF Inv, TypeOK, ProcessesOK, FoundDead
  <1>4. RecordsOK'
    BY <1>2 DEF Inv, TypeOK, RecordsOK
  <1>q. QueuedWasTold'
    BY DEF Inv, QueuedWasTold
  <1>5. NothingBeforeLaunch' /\ ClaimIsRecent'
    BY <1>2 DEF Inv, TypeOK, ProcessesOK, NothingBeforeLaunch, ClaimIsRecent
  <1>6. Lifecycle'
    BY DEF Inv, TypeOK, ProcessesOK, Lifecycle, FoundDead
  <1>7. /\ seen[e] > 0
        /\ clock + Interval + Lag + MaxSkew + (MaxMisses - 0) * Interval
             <= seen[e] + StaleAfter
    <2>1. MaxMisses * Interval \in Int /\ (MaxMisses - 0) * Interval = MaxMisses * Interval
      BY Delays
    <2>2. (MaxMisses + 1) * Interval = MaxMisses * Interval + Interval
      BY MissesLeft, Delays
    <2>3. /\ clock \in Nat /\ seen[e] \in Nat /\ due[e] \in Nat
          /\ seen[e] > 0 /\ clock <= due[e] /\ due[e] <= seen[e] + StartDelay
      BY DEF Inv, TypeOK, ProcessesOK, ClaimIsRecent
    <2> DEFINE mi == MaxMisses * Interval
    <2>4. StartDelay + mi + Interval + Lag + MaxSkew <= StaleAfter
      BY <2>2, GapAssumption, Delays
    <2>5. mi \in Int
      BY <2>1
    <2> HIDE DEF mi
    <2>6. clock + Interval + Lag + MaxSkew + mi <= seen[e] + StaleAfter
      BY <2>3, <2>4, <2>5, Delays
    <2> QED
      BY <2>1, <2>3, <2>6 DEF mi
  <1>8. BeatIsRecent'
    BY <1>7, Delays DEF Inv, TypeOK, ProcessesOK, BeatIsRecent
  <1>9. LiveJobsSurvive'
    <2> SUFFICES ASSUME NEW j \in DOMAIN rows, status'[Owner[j]] = "up"
                 PROVE  rows'[j].state \in told[j]
      BY <1>2 DEF LiveJobsSurvive
    <2>1. Owner[j] \in Epoch /\ Owner[j] # e
      BY FleetAssumption DEF Inv, TypeOK, RecordsOK, NothingBeforeLaunch
    <2>2. status[Owner[j]] = "up" /\ Owner[j] \in beating
      BY <2>1 DEF Inv, TypeOK, ProcessesOK, Lifecycle
    <2>3. Beating(seen[Owner[j]], cutoff)
      BY <2>2, BeatingIsSeen DEF cutoff
    <2>4. rows'[j] = rows[j]
      BY <1>2, <2>3
    <2> QED
      BY <2>2, <2>4 DEF Inv, LiveJobsSurvive
  <1>10. BuriedAreResolved'
    <2> SUFFICES ASSUME NEW j \in DOMAIN rows, Owner[j] \in buried'
                 PROVE  Terminal(rows'[j].state)
      BY <1>2 DEF BuriedAreResolved
    <2>1. CASE Owner[j] \in buried
      BY <1>2, <2>1 DEF Inv, BuriedAreResolved
    <2>2. CASE Owner[j] \in FoundDead(e)
      BY <1>2, <2>2 DEF FoundDead, cutoff
    <2> QED
      BY <2>1, <2>2
  <1> QED
    BY <1>3, <1>4, <1>q, <1>5, <1>6, <1>8, <1>9, <1>10 DEF Inv, TypeOK

LEMMA WriteStep == ASSUME Inv, NEW e \in Epoch, Write(e) PROVE Inv'
  <1> DEFINE h == Head(pipe[e])
  <1>1. /\ h.job \in Job /\ h.rec \in Row
        /\ Owner[h.job] = e /\ h.rec.epoch = e /\ h.rec.state \in told[h.job]
    BY NextWrite DEF Write
  <1>2. /\ status[e] \in {"up", "closing"}
        /\ rows' = Upsert(rows, h.job, h.rec)
        /\ UNCHANGED <<clock, status, beating, due, misses, seen, told, buried>>
    BY DEF Write
  <1>3. /\ pipe' \in [Epoch -> Seq([job : Job, rec : Row])] /\ QueuedWasTold'
        /\ \A o \in Epoch : Len(pipe'[o]) <= Buffer
    BY DequeueKeeps DEF Write
  <1> HIDE DEF h
  <1>4. /\ DOMAIN rows' = DOMAIN rows \union {h.job}
        /\ \A j \in DOMAIN rows \ {h.job} : rows'[j] = rows[j]
        /\ h.job \notin DOMAIN rows => rows'[h.job] = h.rec
        /\ h.job \in DOMAIN rows => rows'[h.job] = Merge(rows[h.job], h.rec)
    BY <1>2 DEF Upsert
  <1>5. ASSUME h.job \in DOMAIN rows
        PROVE  /\ rows'[h.job] \in Row /\ rows'[h.job].epoch = e
               /\ rows'[h.job].state = Advance(rows[h.job].state, h.rec.state)
    BY <1>1, <1>4, <1>5, MergeType DEF Inv, TypeOK, RecordsOK
  <1>6. rows'[h.job] \in Row /\ rows'[h.job].epoch = e
    BY <1>1, <1>4, <1>5
  <1>7. ProcessesOK' /\ Lifecycle' /\ ClaimIsRecent' /\ BeatIsRecent'
    BY <1>2 DEF Inv, TypeOK, ProcessesOK, Lifecycle, ClaimIsRecent, BeatIsRecent
  <1>8. RecordsOK'
    BY <1>1, <1>2, <1>3, <1>4, <1>6 DEF Inv, TypeOK, RecordsOK
  <1>9. NothingBeforeLaunch'
    <2>1. \A o \in Epoch \ {e} : pipe'[o] = pipe[o]
      BY DEF Write, Inv, TypeOK, RecordsOK
    <2> QED
      BY <1>1, <1>2, <1>4, <2>1 DEF Inv, NothingBeforeLaunch
  <1>10. LiveJobsSurvive'
    <2> SUFFICES ASSUME NEW j \in DOMAIN rows', status[Owner[j]] = "up"
                 PROVE  rows'[j].state \in told[j]
      BY <1>2 DEF LiveJobsSurvive
    <2>1. CASE j # h.job
      BY <1>4, <2>1 DEF Inv, LiveJobsSurvive
    <2>2. CASE j = h.job /\ h.job \notin DOMAIN rows
      BY <1>1, <1>4, <2>2
    <2>3. CASE j = h.job /\ h.job \in DOMAIN rows
      <3>1. rows[j].state \in told[j]
        BY <2>3 DEF Inv, LiveJobsSurvive
      <3> QED
        BY <1>1, <1>5, <2>3, <3>1 DEF Advance
    <2> QED
      BY <2>1, <2>2, <2>3
  <1>11. BuriedAreResolved'
    <2>1. e \notin buried
      BY <1>2 DEF Inv, Lifecycle
    <2> QED
      BY <1>1, <1>2, <1>4, <2>1 DEF Inv, BuriedAreResolved
  <1> QED
    BY <1>3, <1>7, <1>8, <1>9, <1>10, <1>11 DEF Inv, TypeOK

LEMMA WriteFailsStep == ASSUME Inv, NEW e \in Epoch, WriteFails(e) PROVE Inv'
  <1>1. /\ pipe' \in [Epoch -> Seq([job : Job, rec : Row])] /\ QueuedWasTold'
        /\ \A o \in Epoch : Len(pipe'[o]) <= Buffer
    BY DequeueKeeps DEF WriteFails
  <1>2. ProcessesOK' /\ Lifecycle' /\ ClaimIsRecent' /\ BeatIsRecent'
    BY DEF WriteFails, Inv, TypeOK, ProcessesOK, Lifecycle, ClaimIsRecent, BeatIsRecent
  <1>3. RecordsOK' /\ NothingBeforeLaunch'
    BY <1>1 DEF WriteFails, Inv, TypeOK, RecordsOK, NothingBeforeLaunch
  <1>4. LiveJobsSurvive' /\ BuriedAreResolved'
    BY DEF WriteFails, Inv, LiveJobsSurvive, BuriedAreResolved
  <1> QED
    BY <1>1, <1>2, <1>3, <1>4 DEF Inv, TypeOK

LEMMA ReportStep ==
    ASSUME Inv, NEW j \in Job, NEW s \in {"created", "active"} \union Outcome,
           Report(j, s)
    PROVE  Inv'
  <1> DEFINE e == Owner[j]
             new == [job |-> j, rec |-> HookRecord(j, s)]
  <1>1. e \in Epoch /\ s \in State
    BY FleetAssumption DEF State
  <1>2. /\ status[e] = "up"
        /\ told' = [told EXCEPT ![j] = @ \union {s}]
        /\ pipe' = [pipe EXCEPT ![e] = IF Len(@) < Buffer THEN Append(@, new) ELSE @]
        /\ UNCHANGED <<clock, status, beating, due, misses, seen, rows, buried>>
    BY DEF Report
  <1>3. /\ HookRecord(j, s) \in Row /\ HookRecord(j, s).epoch = e
        /\ HookRecord(j, s).state = s
    BY <1>1, HookRecordType DEF Inv, TypeOK, ProcessesOK
  <1>4. new \in [job : Job, rec : Row] /\ new.job = j /\ new.rec = HookRecord(j, s)
    BY <1>3
  <1>5. /\ told' \in [Job -> SUBSET State] /\ s \in told'[j]
        /\ \A k \in Job : told[k] \subseteq told'[k]
    BY <1>1, <1>2 DEF Inv, TypeOK, RecordsOK
  <1> HIDE DEF e, new
  <1>6. pipe \in [Epoch -> Seq([job : Job, rec : Row])]
    BY DEF Inv, TypeOK, RecordsOK
  <1>7. /\ pipe' \in [Epoch -> Seq([job : Job, rec : Row])]
        /\ pipe'[e] = pipe[e] \/ (pipe'[e] = Append(pipe[e], new) /\ Len(pipe[e]) < Buffer)
        /\ \A o \in Epoch \ {e} : pipe'[o] = pipe[o]
    <2>1. pipe[e] \in Seq([job : Job, rec : Row])
      BY <1>1, <1>6
    <2>2. Append(pipe[e], new) \in Seq([job : Job, rec : Row])
      BY <1>4, <2>1, AppendToQueue
    <2>3. \/ pipe' = [pipe EXCEPT ![e] = pipe[e]]
          \/ (pipe' = [pipe EXCEPT ![e] = Append(pipe[e], new)] /\ Len(pipe[e]) < Buffer)
      BY <1>1, <1>2, <1>6
    <2> QED
      BY <1>1, <1>6, <2>1, <2>2, <2>3
  <1>8. QueuedWasTold'
    <2> SUFFICES ASSUME NEW o \in Epoch, NEW i \in 1..Len(pipe'[o])
                 PROVE  /\ Owner[pipe'[o][i].job] = o
                        /\ pipe'[o][i].rec.epoch = o
                        /\ pipe'[o][i].rec.state \in told'[pipe'[o][i].job]
      BY DEF QueuedWasTold
    <2>1. CASE i \in 1..Len(pipe[o]) /\ pipe'[o][i] = pipe[o][i]
      <3>1. pipe[o][i] \in [job : Job, rec : Row]
        BY <1>4, <1>6, <2>1, AppendToQueue
      <3> QED
        BY <1>5, <2>1, <3>1 DEF Inv, QueuedWasTold
    <2>2. CASE o = e /\ pipe'[o][i] = new
      BY <1>3, <1>4, <1>5, <2>2 DEF e
    <2>3. \/ i \in 1..Len(pipe[o]) /\ pipe'[o][i] = pipe[o][i]
          \/ o = e /\ pipe'[o][i] = new
      <3>1. CASE pipe'[o] = pipe[o]
        BY <3>1
      <3>2. CASE o = e /\ pipe'[o] = Append(pipe[o], new)
        <4>1. pipe[o] \in Seq([job : Job, rec : Row])
          BY <1>6
        <4> QED
          BY <1>4, <3>2, <4>1, AppendToQueue
      <3> QED
        BY <1>7, <3>1, <3>2
    <2> QED
      BY <2>1, <2>2, <2>3
  <1>l. \A o \in Epoch : Len(pipe'[o]) <= Buffer
    <2>1. Buffer \in Nat /\ \A o \in Epoch : Len(pipe[o]) <= Buffer
      BY FleetAssumption DEF Inv, TypeOK, RecordsOK
    <2>2. pipe[e] \in Seq([job : Job, rec : Row])
      BY <1>1, <1>6
    <2>3. Len(pipe'[e]) <= Buffer
      BY <1>1, <1>4, <1>7, <2>1, <2>2, AppendToQueue
    <2> QED
      BY <1>7, <2>1, <2>3
  <1>9. RecordsOK'
    BY <1>2, <1>5, <1>7, <1>l DEF Inv, TypeOK, RecordsOK
  <1>10. ProcessesOK' /\ Lifecycle' /\ ClaimIsRecent' /\ BeatIsRecent'
    BY <1>2 DEF Inv, TypeOK, ProcessesOK, Lifecycle, ClaimIsRecent, BeatIsRecent
  <1>11. NothingBeforeLaunch'
    BY <1>1, <1>2, <1>7 DEF Inv, NothingBeforeLaunch
  <1>12. LiveJobsSurvive' /\ BuriedAreResolved'
    BY <1>2, <1>5 DEF Inv, TypeOK, RecordsOK, LiveJobsSurvive, BuriedAreResolved
  <1> QED
    BY <1>8, <1>9, <1>10, <1>11, <1>12 DEF Inv, TypeOK

LEMMA RetainStep == ASSUME Inv, NEW e \in Epoch, Retain(e) PROVE Inv'
  <1>1. /\ DOMAIN rows' \subseteq DOMAIN rows
        /\ \A j \in DOMAIN rows' : rows'[j] = rows[j]
    BY DEF Retain, Prune
  <1>2. UNCHANGED <<clock, status, beating, due, misses, seen, told, pipe, buried>>
    BY DEF Retain
  <1>3. ProcessesOK' /\ Lifecycle' /\ ClaimIsRecent' /\ BeatIsRecent'
    BY <1>2 DEF Inv, TypeOK, ProcessesOK, Lifecycle, ClaimIsRecent, BeatIsRecent
  <1>4. RecordsOK' /\ QueuedWasTold' /\ NothingBeforeLaunch'
    BY <1>1, <1>2 DEF Inv, TypeOK, RecordsOK, QueuedWasTold, NothingBeforeLaunch
  <1>5. LiveJobsSurvive' /\ BuriedAreResolved'
    BY <1>1, <1>2 DEF Inv, LiveJobsSurvive, BuriedAreResolved
  <1> QED
    BY <1>3, <1>4, <1>5 DEF Inv, TypeOK

LEMMA BeatStep == ASSUME Inv, NEW e \in Epoch, Beat(e) PROVE Inv'
  <1> USE DEF Beat
  <1>1. ProcessesOK'
    BY NowType, Delays DEF Inv, TypeOK, ProcessesOK
  <1>2. RecordsOK' /\ QueuedWasTold' /\ NothingBeforeLaunch'
    BY DEF Inv, TypeOK, RecordsOK, QueuedWasTold, NothingBeforeLaunch
  <1>3. Lifecycle' /\ LiveJobsSurvive' /\ BuriedAreResolved'
    BY DEF Inv, Lifecycle, LiveJobsSurvive, BuriedAreResolved
  <1>4. status[e] # "claimed"
    BY DEF Inv, Lifecycle
  <1>5. ClaimIsRecent'
    BY <1>4 DEF Inv, TypeOK, ProcessesOK, ClaimIsRecent
  <1>6. /\ Now(e) > 0
        /\ clock <= due[e] + Interval + Lag
        /\ due[e] + Interval + Lag + MaxSkew + (MaxMisses - 0) * Interval
             <= Now(e) + StaleAfter
    <2> DEFINE mi == MaxMisses * Interval
    <2>1. mi \in Int /\ (MaxMisses - 0) * Interval = mi
      BY Delays
    <2>2. StartDelay + mi + Interval + Lag + MaxSkew <= StaleAfter
      BY MissesLeft, GapAssumption, Delays
    <2>3. /\ clock \in Nat /\ due[e] \in Nat /\ due[e] <= clock /\ clock > 0
          /\ clock <= due[e] + Lag
      BY DEF Inv, TypeOK, ProcessesOK, Lifecycle, BeatIsRecent
    <2>4. Now(e) \in Nat /\ clock <= Now(e)
      BY <2>3, NowType
    <2> HIDE DEF mi
    <2>5. due[e] + Interval + Lag + MaxSkew + mi <= Now(e) + StaleAfter
      BY <2>1, <2>2, <2>3, <2>4, Delays
    <2> QED
      BY <2>1, <2>3, <2>4, <2>5, Delays
  <1>7. BeatIsRecent'
    BY <1>6, Delays DEF Inv, TypeOK, ProcessesOK, BeatIsRecent
  <1> QED
    BY <1>1, <1>2, <1>3, <1>5, <1>7 DEF Inv, TypeOK

LEMMA BeatFailsStep == ASSUME Inv, NEW e \in Epoch, BeatFails(e) PROVE Inv'
  <1> USE DEF BeatFails
  <1>1. ProcessesOK'
    BY Delays DEF Inv, TypeOK, ProcessesOK
  <1>2. RecordsOK' /\ QueuedWasTold' /\ NothingBeforeLaunch'
    BY DEF Inv, TypeOK, RecordsOK, QueuedWasTold, NothingBeforeLaunch
  <1>3. Lifecycle' /\ LiveJobsSurvive' /\ BuriedAreResolved'
    BY DEF Inv, Lifecycle, LiveJobsSurvive, BuriedAreResolved
  <1>4. status[e] # "claimed"
    BY DEF Inv, Lifecycle
  <1>5. ClaimIsRecent'
    BY <1>4 DEF Inv, TypeOK, ProcessesOK, ClaimIsRecent
  <1>6. /\ seen[e] > 0
        /\ clock <= due[e] + Interval + Lag
        /\ due[e] + Interval + Lag + MaxSkew + (MaxMisses - (misses[e] + 1)) * Interval
             <= seen[e] + StaleAfter
    <2> DEFINE before == (MaxMisses - misses[e]) * Interval
               after == (MaxMisses - (misses[e] + 1)) * Interval
    <2>1. misses[e] \in 0..MaxMisses /\ misses[e] < MaxMisses
      BY DEF Inv, TypeOK, ProcessesOK
    <2>2. before \in Int /\ after \in Int /\ after + Interval = before
      BY <2>1, MissesLeft, Delays
    <2>3. /\ clock \in Nat /\ due[e] \in Nat /\ seen[e] \in Nat
          /\ seen[e] > 0 /\ clock <= due[e] + Lag
          /\ due[e] + Lag + MaxSkew + before <= seen[e] + StaleAfter
      BY DEF Inv, TypeOK, ProcessesOK, BeatIsRecent
    <2> HIDE DEF before, after
    <2>4. due[e] + Interval + Lag + MaxSkew + after <= seen[e] + StaleAfter
      BY <2>2, <2>3, Delays
    <2> QED
      BY <2>3, <2>4, Delays DEF after
  <1>7. BeatIsRecent'
    BY <1>6, Delays DEF Inv, TypeOK, ProcessesOK, BeatIsRecent
  <1> QED
    BY <1>1, <1>2, <1>3, <1>5, <1>7 DEF Inv, TypeOK

LEMMA CloseStep == ASSUME Inv, NEW e \in Epoch, Close(e) PROVE Inv'
  <1> USE DEF Close
  <1>1. ProcessesOK' /\ RecordsOK' /\ QueuedWasTold' /\ NothingBeforeLaunch'
    BY ZenonT(60) DEF Inv, TypeOK, ProcessesOK, RecordsOK, QueuedWasTold, NothingBeforeLaunch
  <1>2. Lifecycle' /\ ClaimIsRecent' /\ BeatIsRecent'
    BY DEF Inv, TypeOK, ProcessesOK, Lifecycle, ClaimIsRecent, BeatIsRecent
  <1>3. LiveJobsSurvive' /\ BuriedAreResolved'
    BY DEF Inv, TypeOK, ProcessesOK, LiveJobsSurvive, BuriedAreResolved
  <1> QED
    BY <1>1, <1>2, <1>3 DEF Inv, TypeOK

LEMMA RetireStep == ASSUME Inv, NEW e \in Epoch, Retire(e) PROVE Inv'
  <1> USE DEF Retire
  <1>1. ProcessesOK'
    BY Delays DEF Inv, TypeOK, ProcessesOK
  <1>2. RecordsOK' /\ QueuedWasTold' /\ NothingBeforeLaunch'
    BY DEF Inv, TypeOK, RecordsOK, QueuedWasTold, NothingBeforeLaunch
  <1>3. Lifecycle' /\ ClaimIsRecent'
    BY DEF Inv, TypeOK, ProcessesOK, Lifecycle, ClaimIsRecent
  <1>4. BeatIsRecent'
    BY DEF Inv, TypeOK, ProcessesOK, BeatIsRecent
  <1>5. LiveJobsSurvive' /\ BuriedAreResolved'
    BY DEF Inv, LiveJobsSurvive, BuriedAreResolved
  <1> QED
    BY <1>1, <1>2, <1>3, <1>4, <1>5 DEF Inv, TypeOK

LEMMA EndsStep ==
    ASSUME Inv, NEW e \in Epoch, Exit(e) \/ Crash(e)
    PROVE  Inv'
  <1>1. /\ Ends(e) /\ status[e] \in {"claimed", "up", "closing"}
        /\ UNCHANGED <<clock, seen, told, rows, buried>>
        /\ UNCHANGED pipe \/ pipe' = [pipe EXCEPT ![e] = <<>>]
    BY DEF Exit, Crash
  <1>2. ProcessesOK'
    BY <1>1, Delays DEF Inv, TypeOK, ProcessesOK, Ends
  <1>3. /\ pipe' \in [Epoch -> Seq([job : Job, rec : Row])]
        /\ \A o \in Epoch : pipe'[o] = pipe[o] \/ pipe'[o] = <<>>
    <2>1. pipe \in [Epoch -> Seq([job : Job, rec : Row])]
      BY DEF Inv, TypeOK, RecordsOK
    <2>2. <<>> \in Seq([job : Job, rec : Row])
      OBVIOUS
    <2> QED
      BY <1>1, <2>1, <2>2
  <1>l. \A o \in Epoch : Len(pipe'[o]) <= Buffer
    <2>1. Buffer \in Nat /\ \A o \in Epoch : Len(pipe[o]) <= Buffer
      BY FleetAssumption DEF Inv, TypeOK, RecordsOK
    <2>2. Len(<<>>) = 0
      OBVIOUS
    <2> QED
      BY <1>3, <2>1, <2>2
  <1>r. RecordsOK'
    BY <1>1, <1>3, <1>l DEF Inv, TypeOK, RecordsOK
  <1>4. QueuedWasTold'
    <2> SUFFICES ASSUME NEW o \in Epoch, NEW i \in 1..Len(pipe'[o])
                 PROVE  /\ Owner[pipe'[o][i].job] = o
                        /\ pipe'[o][i].rec.epoch = o
                        /\ pipe'[o][i].rec.state \in told'[pipe'[o][i].job]
      BY DEF QueuedWasTold
    <2>1. pipe'[o] = pipe[o]
      BY <1>3
    <2> QED
      BY <1>1, <2>1 DEF Inv, QueuedWasTold
  <1>5. NothingBeforeLaunch'
    BY <1>1, <1>3 DEF Inv, TypeOK, ProcessesOK, Ends, NothingBeforeLaunch
  <1>6. Lifecycle' /\ ClaimIsRecent'
    BY <1>1 DEF Inv, TypeOK, ProcessesOK, Ends, Lifecycle, ClaimIsRecent
  <1>7. BeatIsRecent'
    BY <1>1 DEF Inv, TypeOK, ProcessesOK, Ends, BeatIsRecent
  <1>8. LiveJobsSurvive' /\ BuriedAreResolved'
    BY <1>1 DEF Inv, TypeOK, ProcessesOK, Ends, LiveJobsSurvive, BuriedAreResolved
  <1> QED
    BY <1>2, <1>r, <1>4, <1>5, <1>6, <1>7, <1>8 DEF Inv, TypeOK

LEMMA TickStep == ASSUME Inv, Tick PROVE Inv'
  <1> USE DEF Tick
  <1>1. ProcessesOK' /\ Lifecycle'
    BY DEF Inv, TypeOK, ProcessesOK, Lifecycle
  <1>2. RecordsOK' /\ QueuedWasTold' /\ NothingBeforeLaunch'
    BY DEF Inv, TypeOK, RecordsOK, QueuedWasTold, NothingBeforeLaunch
  <1>3. ClaimIsRecent'
    BY DEF Inv, TypeOK, ProcessesOK, ClaimIsRecent
  <1>4. BeatIsRecent'
    BY Delays DEF Inv, TypeOK, ProcessesOK, BeatIsRecent
  <1>5. LiveJobsSurvive' /\ BuriedAreResolved'
    BY DEF Inv, LiveJobsSurvive, BuriedAreResolved
  <1> QED
    BY <1>1, <1>2, <1>3, <1>4, <1>5 DEF Inv, TypeOK

LEMMA InvNext == Inv /\ [Next]_vars => Inv'
  <1> SUFFICES ASSUME Inv, [Next]_vars PROVE Inv'
    OBVIOUS
  <1>1. CASE UNCHANGED vars
    <2>1. ProcessesOK' /\ RecordsOK'
      BY <1>1 DEF vars, Inv, TypeOK, ProcessesOK, RecordsOK
    <2>2. Lifecycle' /\ ClaimIsRecent' /\ BeatIsRecent'
      BY <1>1 DEF vars, Inv, Lifecycle, ClaimIsRecent, BeatIsRecent
    <2>3. NothingBeforeLaunch' /\ QueuedWasTold' /\ LiveJobsSurvive' /\ BuriedAreResolved'
      BY <1>1 DEF vars, Inv, NothingBeforeLaunch, QueuedWasTold, LiveJobsSurvive,
                  BuriedAreResolved
    <2> QED
      BY <2>1, <2>2, <2>3 DEF Inv, TypeOK
  <1>2. ASSUME NEW e \in Epoch,
               \/ Claim(e) \/ StartFails(e) \/ Launch(e) \/ Write(e) \/ WriteFails(e)
               \/ Retain(e) \/ Beat(e) \/ BeatFails(e) \/ Close(e) \/ Retire(e)
               \/ Exit(e) \/ Crash(e)
        PROVE  Inv'
    BY <1>2, ClaimStep, StartFailsStep, LaunchStep, WriteStep, WriteFailsStep, RetainStep,
       BeatStep, BeatFailsStep, CloseStep, RetireStep, EndsStep
  <1>3. ASSUME NEW j \in Job, NEW s \in {"created", "active"} \union Outcome, Report(j, s)
        PROVE  Inv'
    BY <1>3, ReportStep
  <1>4. CASE Tick
    BY <1>4, TickStep
  <1> QED
    BY <1>1, <1>2, <1>3, <1>4 DEF Next

\* Inv holds in every reachable state.
LEMMA Invariance == Spec => []Inv
  BY InvInit, InvNext, PTL DEF Spec

----------------------------------------------------------------------------
(* The theorems. *)

\* The types of Fleet's variables, and that a row stays with its key's epoch.
THEOREM TypeCorrect == Spec => []TypeOK
  <1>1. Inv => TypeOK
    BY DEF Inv
  <1> QED
    BY <1>1, Invariance, PTL

\* Start and ReconcileEpoch never interrupt the jobs of a live sibling, for any
\* number of processes, as long as the staleness gap covers the missed beats,
\* the lateness of heartbeats and launches, and the skew of the clocks.
THEOREM LiveSiblingsAreSpared == Spec => []LiveJobsSurvive
  <1>1. Inv => LiveJobsSurvive
    BY DEF Inv
  <1> QED
    BY <1>1, Invariance, PTL

\* A boot that finds a dead process silent resolves all of its jobs for good.
THEOREM DeadAreResolved == Spec => []BuriedAreResolved
  <1>1. Inv => BuriedAreResolved
    BY DEF Inv
  <1> QED
    BY <1>1, Invariance, PTL

----------------------------------------------------------------------------
(* Fleet implements History. *)

LEMMA ShownInit == Init => Promise!Init
  BY DEF Init, Promise!Init, Shown

LEMMA WriteIsRecorded ==
    ASSUME Inv, NEW e \in Epoch, Write(e)
    PROVE  Promise!Next \/ UNCHANGED Shown
  <1> DEFINE h == Head(pipe[e])
             s == rows'[h.job].state
  <1>1. h.job \in Job /\ h.rec \in Row
    BY NextWrite DEF Write
  <1>2. rows' = Upsert(rows, h.job, h.rec)
    BY DEF Write
  <1> HIDE DEF h
  <1>3. /\ DOMAIN rows' = DOMAIN rows \union {h.job}
        /\ \A j \in DOMAIN rows \ {h.job} : rows'[j] = rows[j]
        /\ h.job \notin DOMAIN rows => rows'[h.job] = h.rec
        /\ h.job \in DOMAIN rows => rows'[h.job] = Merge(rows[h.job], h.rec)
    BY <1>2 DEF Upsert
  <1>4. Shown' = [i \in DOMAIN Shown \union {h.job} |-> IF i = h.job THEN s ELSE Shown[i]]
    BY <1>3 DEF Shown
  <1>5. CASE h.job \notin DOMAIN rows
    <2>1. s \in State /\ h.job \notin DOMAIN Shown
      BY <1>1, <1>3, <1>5 DEF Row, Shown
    <2> HIDE DEF s
    <2>2. Promise!Recorded(h.job)
      BY <1>4, <2>1 DEF Promise!Recorded, Promise!State, Promise!Rank, State, Rank
    <2> QED
      BY <1>1, <2>2 DEF Promise!Next
  <1>6. CASE h.job \in DOMAIN rows
    <2>1. rows[h.job] \in Row
      BY <1>6 DEF Inv, TypeOK, RecordsOK
    <2>2. s = Advance(rows[h.job].state, h.rec.state) /\ rows'[h.job] \in Row
      BY <1>1, <1>3, <1>6, <2>1, MergeType
    <2>3. s \in State /\ Shown[h.job] = rows[h.job].state
      BY <1>6, <2>2 DEF Row, Shown
    <2>4. CASE s = rows[h.job].state
      <3>1. Shown' = Shown
        BY <1>3, <1>6, <2>4 DEF Shown
      <3> QED
        BY <3>1
    <2>5. CASE s # rows[h.job].state
      <3>1. Rank(s) > Rank(rows[h.job].state)
        BY <2>2, <2>5 DEF Advance
      <3> HIDE DEF s
      <3>2. Promise!Recorded(h.job)
        BY <1>4, <2>3, <3>1 DEF Promise!Recorded, Promise!State, Promise!Rank, State, Rank
      <3> QED
        BY <1>1, <3>2 DEF Promise!Next
    <2> QED
      BY <2>4, <2>5
  <1> QED
    BY <1>5, <1>6

LEMMA LaunchIsInterrupted ==
    ASSUME Inv, NEW e \in Epoch, Launch(e)
    PROVE  Promise!Next
  <1> DEFINE js == {j \in DOMAIN rows : rows'[j] # rows[j]}
  <1>1. Now(e) - StaleAfter \in Int
    BY NowType, Delays DEF Inv, TypeOK, ProcessesOK
  <1>2. /\ DOMAIN rows' = DOMAIN rows
        /\ \A j \in js : rows'[j].state = "interrupted" /\ ~Terminal(rows[j].state)
    BY <1>1, ReconcileKeepsOrInterrupts DEF Launch, Inv, TypeOK
  <1>3. js \in SUBSET DOMAIN Shown
    BY DEF Shown
  <1>4. \A j \in js : ~Terminal(Shown[j])
    BY <1>2 DEF Shown
  <1>5. Shown' = [j \in DOMAIN Shown |-> IF j \in js THEN "interrupted" ELSE Shown[j]]
    BY <1>2 DEF Shown
  <1> HIDE DEF js
  <1>6. Promise!Interrupted(js)
    BY <1>4, <1>5 DEF Promise!Interrupted, Promise!Terminal, Promise!Rank, Terminal, Rank
  <1> QED
    BY <1>3, <1>6 DEF Promise!Next

LEMMA RetainIsForgotten ==
    ASSUME Inv, NEW e \in Epoch, Retain(e)
    PROVE  Promise!Next
  <1> DEFINE js == Prunable(rows, Now(e) - RetentionAge, {})
  <1>1. rows' = [k \in DOMAIN rows \ js |-> rows[k]]
    BY DEF Retain, Prune
  <1>2. js \in SUBSET DOMAIN Shown /\ \A j \in js : Terminal(Shown[j])
    BY DEF Prunable, Shown
  <1> HIDE DEF js
  <1>3. Shown' = [j \in DOMAIN Shown \ js |-> Shown[j]]
    BY <1>1 DEF Shown
  <1>4. Promise!Forgotten(js)
    BY <1>2, <1>3 DEF Promise!Forgotten, Promise!Terminal, Promise!Rank, Terminal, Rank
  <1> QED
    BY <1>2, <1>4 DEF Promise!Next

LEMMA ShownNext == Inv /\ [Next]_vars => [Promise!Next]_Shown
  <1> SUFFICES ASSUME Inv, [Next]_vars PROVE Promise!Next \/ UNCHANGED Shown
    OBVIOUS
  <1>1. CASE UNCHANGED rows
    BY <1>1 DEF Shown
  <1>2. ASSUME NEW e \in Epoch, Launch(e) \/ Write(e) \/ Retain(e)
        PROVE  Promise!Next \/ UNCHANGED Shown
    BY <1>2, LaunchIsInterrupted, WriteIsRecorded, RetainIsForgotten
  <1>3. UNCHANGED rows \/ \E e \in Epoch : Launch(e) \/ Write(e) \/ Retain(e)
    BY DEF Next, vars, Claim, StartFails, WriteFails, Beat, BeatFails, Close, Retire,
           Exit, Crash, Report, Tick
  <1> QED
    BY <1>1, <1>2, <1>3

\* The shared store implements History: no process ever moves a job backwards,
\* changes the outcome of one that finished, or forgets unfinished work.
THEOREM FleetImplementsHistory == Spec => HistorySpec
  BY ShownInit, ShownNext, Invariance, PTL DEF Spec, HistorySpec, Promise!Spec
============================================================================
