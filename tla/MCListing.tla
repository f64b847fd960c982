----------------------------- MODULE MCListing -----------------------------
(* Three interchangeable jobs and pages of one row: up to three pages. *)
EXTENDS Listing, TLC

Symmetry == Permutations(Jobs)
============================================================================
