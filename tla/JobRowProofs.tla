---------------------------- MODULE JobRowProofs ----------------------------
(***************************************************************************)
(* Proof that the writes of the history are order tolerant, for lives of   *)
(* any number of attempts and progress reports.                            *)
(*                                                                         *)
(* The records of one life agree with each other (OfLife): a field has at  *)
(* most one value that is not blank, a terminal state is the life's own,   *)
(* and the time of a progress report tells the report.  The row is         *)
(* accounted for by the records delivered (Explained): what it holds, one  *)
(* of them knew, and none of them is ahead of it.  A row that is both is   *)
(* determined by the set of records, so the order they came in is lost.    *)
(***************************************************************************)
EXTENDS JobRow, TLAPS

Text   == {"queue", "name", "err", "root", "parent", "attrs"}
Number == {"enqueuedAt", "startedAt", "finishedAt", "waitUS", "execUS"}
Field  == Text \union Number \union {"epoch", "state", "attempt", "pg", "pgAt"}

\* What goes wrong with a job that ends as l does.
ErrorOf(l) == CASE l.outcome = "failed"    -> "boom"
                [] l.outcome = "cancelled" -> "cancelled"
                [] l.outcome = "discarded" -> "expired"
                [] OTHER                   -> ""

\* The one value of a field that a record of the life l may know.
KnownText(l) == [queue |-> "queue", name |-> "importer", err |-> ErrorOf(l),
                 root |-> RootID(l), parent |-> ParentID(l), attrs |-> Attributes(l)]

KnownNumber == [enqueuedAt |-> 1, startedAt |-> 2, finishedAt |-> 9, waitUS |-> 1, execUS |-> 2]

Counted(j) == {j.attempt, j.pg, j.pgAt} \subseteq Nat

Reported(j) == (j.pg = 0 /\ j.pgAt = 0) \/ j.pgAt = 10 + j.pg

\* j is a record of the life l.
OfLife(j, l) ==
    /\ j = [f \in Field |-> j[f]]
    /\ \A f \in Text : j[f] \in {"", KnownText(l)[f]}
    /\ \A f \in Number : j[f] \in {0, KnownNumber[f]}
    /\ j.epoch = Epoch
    /\ j.state \in {"created", "active", l.outcome}
    /\ Counted(j)
    /\ Reported(j)

\* A field of j is what one of the records D knew, blank only if none knew it.
Knows(j, D, f, blank) ==
    /\ \E r \in D : j[f] = r[f]
    /\ j[f] = blank => \A r \in D : r[f] = blank

\* No record of D is ahead of j.
StateOf(j, D) == /\ \E r \in D : j.state = r.state
                 /\ \A r \in D : Rank(r.state) <= Rank(j.state)

AttemptOf(j, D) == /\ \E r \in D : j.attempt = r.attempt
                   /\ \A r \in D : r.attempt <= j.attempt

ReportOf(j, D) == /\ \E r \in D : j.pgAt = r.pgAt /\ j.pg = r.pg
                  /\ \A r \in D : r.pgAt <= j.pgAt

\* The row is accounted for by the records delivered.
Explained(j, D) ==
    /\ \A f \in Text : Knows(j, D, f, "")
    /\ \A f \in Number : Knows(j, D, f, 0)
    /\ StateOf(j, D) /\ AttemptOf(j, D) /\ ReportOf(j, D)

RowInv ==
    /\ life \in Lives
    /\ delivered \subseteq Records(life)
    /\ DOMAIN row = IF delivered = {} THEN {} ELSE {Key}
    /\ delivered # {} => OfLife(row[Key], life) /\ Explained(row[Key], delivered)

----------------------------------------------------------------------------
(* The records of a life agree. *)

LEMMA LifeType ==
    ASSUME NEW l \in Lives
    PROVE  l.outcome \in Outcome /\ l.tries \in Nat /\ l.reports \in Nat /\ l.hop \in BOOLEAN
  BY LivesAssumption

LEMMA BlankShape ==
    ASSUME NEW e
    PROVE  /\ DOMAIN BlankJob(e) = Field
           /\ BlankJob(e) = [f \in Field |-> BlankJob(e)[f]]
  BY DEF BlankJob, Field, Text, Number

LEMMA KnownFields ==
    ASSUME NEW l
    PROVE  /\ KnownText(l)["queue"] = "queue" /\ KnownText(l)["name"] = "importer"
           /\ KnownText(l)["err"] = ErrorOf(l) /\ KnownText(l)["root"] = RootID(l)
           /\ KnownText(l)["parent"] = ParentID(l) /\ KnownText(l)["attrs"] = Attributes(l)
           /\ KnownNumber["enqueuedAt"] = 1 /\ KnownNumber["startedAt"] = 2
           /\ KnownNumber["finishedAt"] = 9 /\ KnownNumber["waitUS"] = 1
           /\ KnownNumber["execUS"] = 2
  BY DEF KnownText, KnownNumber

\* A record is of a life when its fields are.
LEMMA FieldsOfLife ==
    ASSUME NEW l, NEW j,
           j = [f \in Field |-> j[f]],
           j.epoch = Epoch, j.state \in {"created", "active", l.outcome},
           j.queue \in {"", "queue"}, j.name \in {"", "importer"}, j.err \in {"", ErrorOf(l)},
           j.root \in {"", RootID(l)}, j.parent \in {"", ParentID(l)},
           j.attrs \in {"", Attributes(l)},
           j.enqueuedAt \in {0, 1}, j.startedAt \in {0, 2}, j.finishedAt \in {0, 9},
           j.waitUS \in {0, 1}, j.execUS \in {0, 2},
           Counted(j), Reported(j)
    PROVE  OfLife(j, l)
  <1>1. ASSUME NEW f \in Text PROVE j[f] \in {"", KnownText(l)[f]}
    <2>1. CASE f = "queue"  BY <2>1, Zenon, KnownFields
    <2>2. CASE f = "name"   BY <2>2, Zenon, KnownFields
    <2>3. CASE f = "err"    BY <2>3, Zenon, KnownFields
    <2>4. CASE f = "root"   BY <2>4, Zenon, KnownFields
    <2>5. CASE f = "parent" BY <2>5, Zenon, KnownFields
    <2>6. CASE f = "attrs"  BY <2>6, Zenon, KnownFields
    <2> QED
      BY <1>1, <2>1, <2>2, <2>3, <2>4, <2>5, <2>6 DEF Text
  <1>2. ASSUME NEW f \in Number PROVE j[f] \in {0, KnownNumber[f]}
    <2>1. CASE f = "enqueuedAt" BY <2>1, Zenon, KnownFields
    <2>2. CASE f = "startedAt"  BY <2>2, Zenon, KnownFields
    <2>3. CASE f = "finishedAt" BY <2>3, Zenon, KnownFields
    <2>4. CASE f = "waitUS"     BY <2>4, Zenon, KnownFields
    <2>5. CASE f = "execUS"     BY <2>5, Zenon, KnownFields
    <2> QED
      BY <1>2, <2>1, <2>2, <2>3, <2>4, <2>5 DEF Number
  <1> QED
    BY <1>1, <1>2 DEF OfLife

LEMMA NothingCounted ==
    ASSUME NEW j, j.attempt = 0, j.pg = 0, j.pgAt = 0
    PROVE  Counted(j) /\ Reported(j)
  BY DEF Counted, Reported

\* A hook's record of a state.
LEMMA OfferedJob ==
    ASSUME NEW l \in Lives, NEW started \in {0, 2}, NEW finished \in {0, 9},
           NEW err \in {"", ErrorOf(l)}, NEW state \in {"created", "active", l.outcome}
    PROVE  OfLife(OfferJob(l, JobEvent(err, started, finished), state), l)
  <1> DEFINE e == JobEvent(err, started, finished)
  <1>1. /\ e.waitUS \in {0, 1}
        /\ e.execUS \in {0, 2}
        /\ e.startedAt = started
        /\ e.finishedAt = finished
        /\ e.enqueuedAt = 1
        /\ e.err = err
        /\ e.name = "importer"
    BY DEF JobEvent
  <1> HIDE DEF e
  <1> DEFINE j == OfferJob(l, e, state)
  <1>2. j = [f \in Field |-> j[f]]
    BY BlankShape, Zenon DEF OfferJob
  <1>3. /\ j.epoch = Epoch /\ j.state = state /\ j.queue = "queue" /\ j.name = e.name
        /\ j.err = e.err /\ j.root = RootID(l) /\ j.parent = ParentID(l) /\ j.attrs = Attributes(l)
    BY DEF OfferJob, BlankJob
  <1>4. /\ j.enqueuedAt = e.enqueuedAt /\ j.startedAt = e.startedAt
        /\ j.finishedAt = e.finishedAt /\ j.waitUS = e.waitUS /\ j.execUS = e.execUS
    BY DEF OfferJob, BlankJob
  <1>a. j.attempt = 0 /\ j.pg = 0 /\ j.pgAt = 0
    BY DEF OfferJob, BlankJob
  <1> HIDE DEF j
  <1>5. Counted(j) /\ Reported(j)
    BY <1>a, NothingCounted, Zenon
  <1>6. OfLife(j, l)
    BY <1>1, <1>2, <1>3, <1>4, <1>5, FieldsOfLife
  <1> QED
    BY <1>6 DEF j, e

LEMMA OfferedAttempt ==
    ASSUME NEW l \in Lives, NEW n \in Nat
    PROVE  OfLife(OfferAttempt(l, n), l)
  <1> DEFINE j == OfferAttempt(l, n)
  <1>2. j = [f \in Field |-> j[f]]
    BY BlankShape, Zenon DEF OfferAttempt
  <1>3. /\ j.epoch = Epoch /\ j.state = "active" /\ j.queue = "queue" /\ j.name = ""
        /\ j.err = "" /\ j.root = RootID(l) /\ j.parent = "" /\ j.attrs = ""
    BY DEF OfferAttempt, BlankJob
  <1>4. /\ j.enqueuedAt = 0 /\ j.startedAt = 0 /\ j.finishedAt = 0 /\ j.waitUS = 0 /\ j.execUS = 0
        /\ j.attempt = n /\ j.pg = 0 /\ j.pgAt = 0
    BY DEF OfferAttempt, BlankJob
  <1> HIDE DEF j
  <1>5. Counted(j) /\ Reported(j)
    BY <1>4 DEF Counted, Reported
  <1>6. OfLife(j, l)
    BY <1>2, <1>3, <1>4, <1>5, FieldsOfLife
  <1> QED
    BY <1>6 DEF j

LEMMA OfferedProgress ==
    ASSUME NEW l \in Lives, NEW n \in Nat
    PROVE  OfLife(ReportProgress(l, n, 1), l)
  <1> DEFINE j == ReportProgress(l, n, 1)
  <1>2. j = [f \in Field |-> j[f]]
    BY BlankShape, Zenon DEF ReportProgress
  <1>3. /\ j.epoch = Epoch /\ j.state = "active" /\ j.queue = "queue" /\ j.name = "importer"
        /\ j.err = "" /\ j.root = RootID(l) /\ j.parent = ParentID(l) /\ j.attrs = Attributes(l)
    BY DEF ReportProgress, BlankJob
  <1>4. /\ j.enqueuedAt = 1 /\ j.startedAt = 0 /\ j.finishedAt = 0 /\ j.waitUS = 0 /\ j.execUS = 0
        /\ j.attempt = 1 /\ j.pg = n /\ j.pgAt = 10 + n
    BY DEF ReportProgress, BlankJob
  <1> HIDE DEF j
  <1>5. Counted(j) /\ Reported(j)
    BY <1>4 DEF Counted, Reported
  <1>6. OfLife(j, l)
    BY <1>2, <1>3, <1>4, <1>5, FieldsOfLife
  <1> QED
    BY <1>6 DEF j

LEMMA RecordsAgree ==
    ASSUME NEW l \in Lives, NEW r \in Records(l)
    PROVE  OfLife(r, l)
  <1>0. l.outcome \in Outcome /\ l.tries \in Nat /\ l.reports \in Nat
    BY LifeType
  <1>1. OfLife(OnEnqueue(l), l) /\ OfLife(OnStart(l), l)
    BY OfferedJob DEF OnEnqueue, OnStart
  <1>2. OfLife(Ending(l), l)
    <2>1. CASE l.outcome = "completed"
      BY <2>1, OfferedJob DEF Ending, OnSuccess
    <2>2. CASE l.outcome = "failed"
      BY <2>2, OfferedJob DEF Ending, OnFailure, FailureState, ErrorOf
    <2>3. CASE l.outcome = "cancelled"
      BY <2>3, OfferedJob DEF Ending, OnFailure, FailureState, ErrorOf
    <2>4. CASE l.outcome = "discarded"
      BY <2>4, OfferedJob DEF Ending, OnDiscard, ErrorOf
    <2>5. CASE l.outcome = "abandoned"
      BY <2>5, OfferedJob DEF Ending, OnAbandon
    <2> QED
      BY <1>0, <2>1, <2>2, <2>3, <2>4, <2>5 DEF Outcome
  <1>3. \A n \in 1..l.tries : OfLife(OfferAttempt(l, n), l)
    BY <1>0, OfferedAttempt
  <1>4. \A n \in 1..l.reports : OfLife(ReportProgress(l, n, 1), l)
    BY <1>0, OfferedProgress
  <1> QED
    BY <1>1, <1>2, <1>3, <1>4 DEF Records

----------------------------------------------------------------------------
(* Merging a record into the row it explains. *)

LEMMA RankValues ==
    ASSUME NEW s
    PROVE  Rank(s) \in 0..3
  BY DEF Rank

\* Which rule merge applies to a field of text or of number.
LEMMA MergeFields ==
    ASSUME NEW j, NEW r
    PROVE  /\ \A f \in Text : Merge(j, r)[f] \in {FillBlank(j[f], r[f]), LastNonBlank(j[f], r[f])}
           /\ \A f \in Number : Merge(j, r)[f] \in {FillZero(j[f], r[f]), LastNonZero(j[f], r[f])}
  BY DEF Merge, Text, Number

\* Every such rule keeps one of the two values, and blank only if both are.
LEMMA MergeKeepsText ==
    ASSUME NEW j, NEW r, NEW f \in Text
    PROVE  /\ Merge(j, r)[f] \in {j[f], r[f]}
           /\ Merge(j, r)[f] = "" => j[f] = "" /\ r[f] = ""
  <1>1. Merge(j, r)[f] \in {FillBlank(j[f], r[f]), LastNonBlank(j[f], r[f])}
    BY MergeFields
  <1> QED
    BY <1>1 DEF FillBlank, LastNonBlank

LEMMA MergeKeepsNumber ==
    ASSUME NEW j, NEW r, NEW f \in Number
    PROVE  /\ Merge(j, r)[f] \in {j[f], r[f]}
           /\ Merge(j, r)[f] = 0 => j[f] = 0 /\ r[f] = 0
  <1>1. Merge(j, r)[f] \in {FillZero(j[f], r[f]), LastNonZero(j[f], r[f])}
    BY MergeFields
  <1> QED
    BY <1>1 DEF FillZero, LastNonZero

LEMMA MergeCounters ==
    ASSUME NEW j, NEW r
    PROVE  /\ Merge(j, r) = [f \in Field |-> Merge(j, r)[f]]
           /\ Merge(j, r).epoch = j.epoch
           /\ Merge(j, r).state = Advance(j.state, r.state)
           /\ Merge(j, r).attempt = Larger(j.attempt, r.attempt)
           /\ Merge(j, r).pgAt = Larger(j.pgAt, r.pgAt)
           /\ Merge(j, r).pg = IF Newer(j.pgAt, r.pgAt) THEN r.pg ELSE j.pg
  <1>1. Merge(j, r) = [f \in Field |-> Merge(j, r)[f]]
    BY DEF Merge, Field, Text, Number
  <1> QED
    BY <1>1 DEF Merge

LEMMA MergeOfLife ==
    ASSUME NEW l \in Lives, NEW j, NEW r, OfLife(j, l), OfLife(r, l)
    PROVE  OfLife(Merge(j, r), l)
  <1> DEFINE m == Merge(j, r)
  <1>1. ASSUME NEW f \in Text PROVE m[f] \in {"", KnownText(l)[f]}
    <2>1. j[f] \in {"", KnownText(l)[f]} /\ r[f] \in {"", KnownText(l)[f]}
      BY DEF OfLife
    <2>2. m[f] \in {j[f], r[f]}
      BY MergeKeepsText, Zenon
    <2> HIDE DEF m
    <2> QED
      BY <2>1, <2>2
  <1>2. ASSUME NEW f \in Number PROVE m[f] \in {0, KnownNumber[f]}
    <2>1. j[f] \in {0, KnownNumber[f]} /\ r[f] \in {0, KnownNumber[f]}
      BY DEF OfLife
    <2>2. m[f] \in {j[f], r[f]}
      BY MergeKeepsNumber, Zenon
    <2> HIDE DEF m
    <2> QED
      BY <2>1, <2>2
  <1>3. m.epoch = Epoch /\ m.state \in {"created", "active", l.outcome}
    BY MergeCounters, Zenon DEF OfLife, Advance
  <1>4. Counted(j) /\ Reported(j) /\ Counted(r) /\ Reported(r)
    BY DEF OfLife
  <1>5. /\ m.attempt = Larger(j.attempt, r.attempt) /\ m.pgAt = Larger(j.pgAt, r.pgAt)
        /\ m.pg = IF Newer(j.pgAt, r.pgAt) THEN r.pg ELSE j.pg
    BY MergeCounters
  <1>6. m = [f \in Field |-> m[f]]
    BY MergeCounters
  <1> HIDE DEF m
  <1>7. Counted(m) /\ Reported(m)
    BY <1>4, <1>5 DEF Counted, Reported, Larger, Newer
  <1>8. OfLife(m, l)
    BY <1>1, <1>2, <1>3, <1>6, <1>7 DEF OfLife
  <1> QED
    BY <1>8 DEF m

LEMMA KnowsMore ==
    ASSUME NEW j, NEW r, NEW m, NEW D, NEW f, NEW blank, Knows(j, D, f, blank),
           m[f] \in {j[f], r[f]}, m[f] = blank => j[f] = blank /\ r[f] = blank
    PROVE  Knows(m, D \union {r}, f, blank)
  BY DEF Knows

LEMMA MergeExplained ==
    ASSUME NEW l \in Lives, NEW j, NEW r, NEW D,
           OfLife(j, l), OfLife(r, l), \A d \in D : OfLife(d, l), Explained(j, D)
    PROVE  Explained(Merge(j, r), D \union {r})
  <1> DEFINE m == Merge(j, r)
  <1>1. ASSUME NEW f \in Text PROVE Knows(m, D \union {r}, f, "")
    <2>1. Knows(j, D, f, "")
      BY DEF Explained
    <2>2. m[f] \in {j[f], r[f]}
      BY MergeKeepsText, Zenon
    <2>3. m[f] = "" => j[f] = "" /\ r[f] = ""
      BY MergeKeepsText
    <2> HIDE DEF m
    <2> QED
      BY <2>1, <2>2, <2>3, KnowsMore
  <1>2. ASSUME NEW f \in Number PROVE Knows(m, D \union {r}, f, 0)
    <2>1. Knows(j, D, f, 0)
      BY DEF Explained
    <2>2. m[f] \in {j[f], r[f]} /\ (m[f] = 0 => j[f] = 0 /\ r[f] = 0)
      BY MergeKeepsNumber, Zenon
    <2> HIDE DEF m
    <2> QED
      BY <2>1, <2>2, KnowsMore
  <1>3. /\ m.state = Advance(j.state, r.state)
        /\ m.attempt = Larger(j.attempt, r.attempt) /\ m.pgAt = Larger(j.pgAt, r.pgAt)
        /\ m.pg = IF Newer(j.pgAt, r.pgAt) THEN r.pg ELSE j.pg
    BY MergeCounters
  <1>4. Counted(j) /\ Counted(r) /\ \A d \in D : Counted(d)
    BY DEF OfLife
  <1>5. StateOf(j, D) /\ AttemptOf(j, D) /\ ReportOf(j, D)
    BY DEF Explained
  <1> HIDE DEF m
  <1>6. StateOf(m, D \union {r})
    BY <1>3, <1>5, RankValues DEF StateOf, Advance
  <1>7. AttemptOf(m, D \union {r})
    BY <1>3, <1>4, <1>5 DEF AttemptOf, Larger, Counted
  <1>8. ReportOf(m, D \union {r})
    BY <1>3, <1>4, <1>5 DEF ReportOf, Larger, Newer, Counted
  <1>9. Explained(m, D \union {r})
    BY <1>1, <1>2, <1>6, <1>7, <1>8 DEF Explained
  <1> QED
    BY <1>9 DEF m

LEMMA InsertExplained ==
    ASSUME NEW l \in Lives, NEW r, OfLife(r, l)
    PROVE  Explained(r, {r})
  <1>1. Counted(r)
    BY DEF OfLife
  <1>2. StateOf(r, {r})
    BY RankValues DEF StateOf
  <1>3. AttemptOf(r, {r}) /\ ReportOf(r, {r})
    BY <1>1 DEF AttemptOf, ReportOf, Counted
  <1>4. \A f, blank : Knows(r, {r}, f, blank)
    BY DEF Knows
  <1> QED
    BY <1>2, <1>3, <1>4 DEF Explained

----------------------------------------------------------------------------
(* The invariant. *)

LEMMA RowInit == Init => RowInv
  BY DEF Init, RowInv

LEMMA UpsertRow ==
    ASSUME NEW rows, NEW key, NEW r
    PROVE  /\ DOMAIN Upsert(rows, key, r) = DOMAIN rows \union {key}
           /\ key \in DOMAIN rows => Upsert(rows, key, r)[key] = Merge(rows[key], r)
           /\ key \notin DOMAIN rows => Upsert(rows, key, r)[key] = r
  BY DEF Upsert

LEMMA RowNext == RowInv /\ [Next]_vars => RowInv'
  <1> SUFFICES ASSUME RowInv, [Next]_vars PROVE RowInv'
    OBVIOUS
  <1>0. life \in Lives /\ delivered \subseteq Records(life)
    BY DEF RowInv
  <1>1. CASE Deliver
    <2> PICK r \in Records(life) \ delivered :
                /\ delivered' = delivered \union {r}
                /\ row' = Upsert(row, Key, r)
                /\ UNCHANGED life
      BY <1>1 DEF Deliver
    <2>1. OfLife(r, life) /\ \A d \in delivered : OfLife(d, life)
      BY <1>0, RecordsAgree
    <2>2. life' \in Lives /\ delivered' \subseteq Records(life') /\ delivered' # {}
      BY <1>0
    <2>3. DOMAIN row \subseteq {Key} /\ DOMAIN row' = {Key}
      <3>1. DOMAIN row \subseteq {Key}
        BY DEF RowInv
      <3>2. DOMAIN row' = DOMAIN row \union {Key}
        BY UpsertRow
      <3> QED
        BY <3>1, <3>2
    <2>4. OfLife(row'[Key], life) /\ Explained(row'[Key], delivered')
      <3>1. CASE delivered = {}
        <4>1. Key \notin DOMAIN row
          BY <3>1 DEF RowInv
        <4>2. row'[Key] = r
          BY <4>1, UpsertRow, Zenon
        <4>3. delivered' = {r}
          BY <3>1
        <4> QED
          BY <1>0, <2>1, <4>2, <4>3, InsertExplained
      <3>2. CASE delivered # {}
        <4>1. Key \in DOMAIN row /\ OfLife(row[Key], life) /\ Explained(row[Key], delivered)
          BY <3>2 DEF RowInv
        <4>2. row'[Key] = Merge(row[Key], r)
          <5>0. Key \in DOMAIN row
            BY <4>1
          <5>1. Upsert(row, Key, r)[Key] = Merge(row[Key], r)
            BY <5>0, UpsertRow
          <5> QED
            BY <5>1
        <4>3. OfLife(Merge(row[Key], r), life)
          BY <1>0, <2>1, <4>1, MergeOfLife
        <4>4. Explained(Merge(row[Key], r), delivered \union {r})
          BY <1>0, <2>1, <4>1, MergeExplained
        <4> QED
          BY <4>2, <4>3, <4>4
      <3> QED
        BY <3>1, <3>2
    <2> QED
      BY <2>2, <2>3, <2>4 DEF RowInv
  <1>2. CASE UNCHANGED vars
    BY <1>2 DEF RowInv, vars
  <1> QED
    BY <1>1, <1>2 DEF Next, Done

\* The row and the records delivered always agree as above (UpsertJobs, memory.go merge).
THEOREM RowInvariant == Spec => []RowInv
  BY RowInit, RowNext, PTL DEF Spec

----------------------------------------------------------------------------
(* The row is a function of the set of records. *)

LEMMA WhatAnyKnewIs ==
    ASSUME NEW j, NEW f, NEW blank, NEW known,
           Knows(j, delivered, f, blank),
           \A r \in delivered : r[f] \in {blank, known}
    PROVE  j[f] = WhatAnyKnew(f, blank)
  <1>1. CASE Values(f) \subseteq {blank}
    BY <1>1 DEF WhatAnyKnew, Values, Knows
  <1>2. CASE ~(Values(f) \subseteq {blank})
    <2>1. \E v \in Values(f) : v # blank
      BY <1>2
    <2>2. WhatAnyKnew(f, blank) = CHOOSE v \in Values(f) : v # blank
      BY <1>2 DEF WhatAnyKnew
    <2>3. WhatAnyKnew(f, blank) \in Values(f) /\ WhatAnyKnew(f, blank) # blank
      BY <2>1, <2>2, Zenon
    <2>4. WhatAnyKnew(f, blank) = known
      BY <2>3 DEF Values
    <2>5. j[f] # blank /\ \E r \in delivered : j[f] = r[f]
      BY <2>1 DEF Knows, Values
    <2> QED
      BY <2>4, <2>5
  <1> QED
    BY <1>1, <1>2

LEMMA GreatestIs ==
    ASSUME NEW f, NEW n \in Nat,
           \E r \in delivered : n = r[f],
           \A r \in delivered : r[f] \in Nat /\ r[f] <= n
    PROVE  n = Greatest(f)
  <1>1. n \in Values(f) /\ \A w \in Values(f) : w <= n
    BY DEF Values
  <1>2. Greatest(f) \in Values(f) /\ \A w \in Values(f) : w <= Greatest(f)
    BY <1>1, Zenon DEF Greatest
  <1>3. Greatest(f) \in Nat
    BY <1>2 DEF Values
  <1> QED
    BY <1>1, <1>2, <1>3

LEMMA FurthestIs ==
    ASSUME NEW l \in Lives, NEW s,
           \E r \in delivered : s = r.state,
           \A r \in delivered : /\ r.state \in {"created", "active", l.outcome}
                                /\ Rank(r.state) <= Rank(s)
    PROVE  s = CHOOSE t \in Values("state") : \A u \in Values("state") : Rank(u) <= Rank(t)
  <1> DEFINE c == CHOOSE t \in Values("state") : \A u \in Values("state") : Rank(u) <= Rank(t)
  <1>1. s \in Values("state") /\ \A u \in Values("state") : Rank(u) <= Rank(s)
    BY DEF Values
  <1>2. c \in Values("state") /\ \A u \in Values("state") : Rank(u) <= Rank(c)
    BY <1>1, Zenon
  <1> HIDE DEF c
  <1>3. Rank(c) = Rank(s)
    BY <1>1, <1>2, RankValues
  <1>4. {c, s} \subseteq {"created", "active", l.outcome}
    BY <1>1, <1>2 DEF Values
  <1>5. l.outcome \in Outcome
    BY LifeType
  <1>6. c = s
    BY <1>3, <1>4, <1>5 DEF Rank, Outcome
  <1> QED
    BY <1>6 DEF c

\* A row that the records of its life explain is their summary.
LEMMA ExplainedIsSummary ==
    ASSUME life \in Lives, NEW j, OfLife(j, life), Explained(j, delivered),
           \A r \in delivered : OfLife(r, life)
    PROVE  j = Summary
  <1>1. ASSUME NEW f \in Text PROVE j[f] = WhatAnyKnew(f, "")
    <2>1. Knows(j, delivered, f, "") /\ \A r \in delivered : r[f] \in {"", KnownText(life)[f]}
      BY DEF Explained, OfLife
    <2> QED
      BY <2>1, WhatAnyKnewIs
  <1>2. ASSUME NEW f \in Number PROVE j[f] = WhatAnyKnew(f, 0)
    <2>1. Knows(j, delivered, f, 0) /\ \A r \in delivered : r[f] \in {0, KnownNumber[f]}
      BY DEF Explained, OfLife
    <2> QED
      BY <2>1, WhatAnyKnewIs
  <1>3. Counted(j) /\ \A r \in delivered : Counted(r)
    BY DEF OfLife
  <1>4. j.attempt = Greatest("attempt")
    <2>1. AttemptOf(j, delivered)
      BY DEF Explained
    <2> QED
      BY <1>3, <2>1, GreatestIs DEF AttemptOf, Counted
  <1>5. ReportOf(j, delivered)
    BY DEF Explained
  <1>6. j.pgAt = Greatest("pgAt")
    BY <1>3, <1>5, GreatestIs DEF ReportOf, Counted
  <1>7. j.pg = LastReport.pg
    <2>1. \E r \in delivered : r.pgAt = Greatest("pgAt")
      BY <1>5, <1>6 DEF ReportOf
    <2>2. LastReport \in delivered /\ LastReport.pgAt = Greatest("pgAt")
      BY <2>1, Zenon DEF LastReport
    <2>3. Counted(LastReport) /\ Reported(LastReport) /\ Reported(j)
      BY <2>2 DEF OfLife
    <2> QED
      BY <1>3, <1>6, <2>2, <2>3 DEF Counted, Reported
  <1>8. j.state = CHOOSE t \in Values("state") : \A u \in Values("state") : Rank(u) <= Rank(t)
    <2>1. StateOf(j, delivered)
      BY DEF Explained
    <2>2. \A r \in delivered : r.state \in {"created", "active", life.outcome}
      BY DEF OfLife
    <2> QED
      BY <2>1, <2>2, FurthestIs DEF StateOf
  <1>9. j.epoch = Epoch /\ j = [f \in Field |-> j[f]]
    BY DEF OfLife
  <1> DEFINE V(f) == CASE f = "epoch" -> Epoch
          [] f = "state"   -> CHOOSE s \in Values(f) : \A t \in Values(f) : Rank(t) <= Rank(s)
          [] f \in {"attempt", "pgAt"} -> Greatest(f)
          [] f = "pg"      -> LastReport.pg
          [] f \in {"queue", "name", "err", "root", "parent", "attrs"} -> WhatAnyKnew(f, "")
          [] OTHER         -> WhatAnyKnew(f, 0)
  <1>10. ASSUME NEW f \in Field PROVE j[f] = V(f)
    <2>1. CASE f \in Text
      BY <1>1, <2>1 DEF Text
    <2>2. CASE f \in Number
      BY <1>2, <2>2 DEF Number
    <2>3. CASE f \in {"epoch", "attempt", "pg", "pgAt"}
      BY <1>4, <1>6, <1>7, <1>9, <2>3
    <2>4. CASE f = "state"
      BY <1>8, <2>4
    <2> QED
      BY <1>10, <2>1, <2>2, <2>3, <2>4 DEF Field
  <1>11. Summary = [f \in Field |-> V(f)]
    BY BlankShape DEF Summary
  <1> HIDE DEF V
  <1> QED
    BY <1>9, <1>10, <1>11
----------------------------------------------------------------------------

\* The row of a job is of a known state with counters that are numbers, for lives
\* of any length (store.go Job, memory.go merge).
THEOREM JobRowTypeOK == Spec => []TypeOK
  <1>1. RowInv => TypeOK
    <2> SUFFICES ASSUME RowInv PROVE TypeOK
      OBVIOUS
    <2>1. life \in Lives /\ delivered \subseteq Records(life) /\ DOMAIN row \subseteq {Key}
      BY DEF RowInv
    <2>2. ASSUME NEW k \in DOMAIN row
          PROVE  row[k].state \in State /\ {row[k].attempt, row[k].pgAt} \subseteq Nat
      <3>1. k = Key /\ OfLife(row[Key], life)
        BY <2>2 DEF RowInv
      <3>2. Counted(row[Key]) /\ row[Key].state \in {"created", "active", life.outcome}
        BY <3>1 DEF OfLife
      <3>3. life.outcome \in Outcome
        BY <2>1, LifeType
      <3> QED
        BY <3>1, <3>2, <3>3 DEF Counted, State, Outcome
    <2> QED
      BY <2>1, <2>2 DEF TypeOK
  <1> QED
    BY <1>1, RowInvariant, PTL

\* Whichever of a job's records the store is given, and in whatever order, the row
\* is the same and holds everything those records knew: for every life, with any
\* number of attempts and of progress reports (memory.go merge).
THEOREM WritesAreOrderTolerant == Spec => []OrderTolerant
  <1>1. RowInv => OrderTolerant
    <2> SUFFICES ASSUME RowInv, delivered # {} PROVE row[Key] = Summary
      BY DEF OrderTolerant
    <2>1. /\ life \in Lives /\ delivered \subseteq Records(life)
          /\ OfLife(row[Key], life) /\ Explained(row[Key], delivered)
      BY DEF RowInv
    <2>2. \A r \in delivered : OfLife(r, life)
      BY <2>1, RecordsAgree
    <2> QED
      BY <2>1, <2>2, ExplainedIsSummary
  <1> QED
    BY <1>1, RowInvariant, PTL
=============================================================================
