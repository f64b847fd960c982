------------------------------- MODULE MCSink -------------------------------
(***************************************************************************)
(* Model checking the sink: the workers are interchangeable, and so are    *)
(* the callers of Close, which the safety runs use as symmetry.            *)
(***************************************************************************)
EXTENDS Sink, TLC

MCSymmetry == Permutations(Worker) \union Permutations(Closer)
============================================================================
