------------------------------ MODULE Recorder ------------------------------
(***************************************************************************)
(* What the sink promises of the records it is given, with no goroutines,  *)
(* channels or batches: for each kind of record a queue.  A record joins   *)
(* the end of its queue or is dropped and counted; the store takes queued  *)
(* records from the front, several at a time, in order and at most once;   *)
(* or it refuses them, and they are gone.  Nothing is written that was not *)
(* accepted, and nothing overtakes.                                        *)
(***************************************************************************)
EXTENDS Integers, Sequences

CONSTANT Record

VARIABLES queue,    \* queue[k]: accepted and not yet taken, per kind
          log,      \* log[k]: what the store holds, per kind
          refused,  \* number of records in writes the store refused
          dropped   \* number of records dropped

recorderVars == <<queue, log, refused, dropped>>

Kind == {"job", "attempt"}
KindOf(r) == IF r.isJob THEN "job" ELSE "attempt"

Init == /\ queue = [k \in Kind |-> <<>>]
        /\ log = [k \in Kind |-> <<>>]
        /\ refused = 0
        /\ dropped = 0

Accept(r) == /\ queue' = [queue EXCEPT ![KindOf(r)] = Append(@, r)]
             /\ UNCHANGED <<log, refused, dropped>>

Drop == /\ dropped' = dropped + 1
        /\ UNCHANGED <<queue, log, refused>>

\* The first n records of kind k leave the queue, into the store or nowhere.
Leave(k, n) == queue' = [queue EXCEPT ![k] = SubSeq(@, n + 1, Len(@))]

Write(k, n) == /\ Leave(k, n)
               /\ log' = [log EXCEPT ![k] = @ \o SubSeq(queue[k], 1, n)]
               /\ UNCHANGED <<refused, dropped>>

Refuse(k, n) == /\ Leave(k, n)
                /\ refused' = refused + n
                /\ UNCHANGED <<log, dropped>>

Next == \/ \E r \in Record : Accept(r)
        \/ Drop
        \/ \E k \in Kind : \E n \in 1..Len(queue[k]) : Write(k, n) \/ Refuse(k, n)

Spec == Init /\ [][Next]_recorderVars
============================================================================
