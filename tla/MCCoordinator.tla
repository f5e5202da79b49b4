---- MODULE MCCoordinator ----
(* A small Plan: two judges, two Dimensions, one of which has a floor. *)
EXTENDS Coordinator

MCPanel == <<"ann", "ben">>
Equal == [d \in Dimensions |-> 1]
OnlyClarity == [d \in Dimensions |-> IF d = "clarity" THEN 2 ELSE 0]

\* Judges who agree fail or pass a Candidate; when they differ, it is better than
\* one that failed and still fails on clarity.  All are good enough overall.
MCMarks == {[clarity |-> 0, puzzle |-> 2], [clarity |-> 2, puzzle |-> 2]}
====
