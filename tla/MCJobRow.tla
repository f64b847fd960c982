------------------------------ MODULE MCJobRow ------------------------------
(* Every outcome, rescheduled or not, with two attempts and three reports. *)
EXTENDS JobRow

MCLives == [outcome : Outcome, tries : {2}, reports : {3}, hop : BOOLEAN]
============================================================================
