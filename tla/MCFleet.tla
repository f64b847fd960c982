------------------------------ MODULE MCFleet ------------------------------
(***************************************************************************)
(* Model checking the fleet: the gap is exactly wide enough for one missed *)
(* beat, a slow launch and clocks one tick apart.                          *)
(***************************************************************************)
EXTENDS Fleet

CONSTANTS e1, e2, j1    \* two processes and a job of the first

MCOwner == [j \in Job |-> e1]
MCEnqueuedAt == [j \in Job |-> 1]
MCSkew == [e \in Epoch |-> IF e = e2 THEN 1 ELSE 0]
============================================================================
