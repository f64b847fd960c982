------------------------------ MODULE History ------------------------------
(***************************************************************************)
(* What a shared store promises whoever reads the history: a job is        *)
(* recorded in some state, moves forward by rank and never back, is        *)
(* declared interrupted only while unfinished, and is forgotten only once  *)
(* finished.  A finished job keeps its outcome for as long as it is kept.  *)
(***************************************************************************)
EXTENDS JobRecord

CONSTANT Job

VARIABLE shown      \* shown[j]: the state history shows for j, if it has j

Init == shown = [j \in {} |-> "created"]

\* One record of j arrives.
Recorded(j) ==
    \E s \in State :
        /\ j \in DOMAIN shown => Rank(s) > Rank(shown[j])
        /\ shown' = [i \in DOMAIN shown \union {j} |-> IF i = j THEN s ELSE shown[i]]

\* Unfinished jobs are given up on.
Interrupted(js) ==
    /\ \A j \in js : ~Terminal(shown[j])
    /\ shown' = [j \in DOMAIN shown |-> IF j \in js THEN "interrupted" ELSE shown[j]]

\* Finished jobs are forgotten.
Forgotten(js) ==
    /\ \A j \in js : Terminal(shown[j])
    /\ shown' = [j \in DOMAIN shown \ js |-> shown[j]]

Next == \/ \E j \in Job : Recorded(j)
        \/ \E js \in SUBSET DOMAIN shown : Interrupted(js) \/ Forgotten(js)

Spec == Init /\ [][Next]_shown
============================================================================
