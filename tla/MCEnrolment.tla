---------------------------- MODULE MCEnrolment ----------------------------
(* TLC instances of Enrolment. *)
EXTENDS Enrolment, TLC

CONSTANTS s1, s2, c1

\* Every sheet names one student, with one of the subjects.
Sheets == {s1 :> {c1}}

\* An import of one pair.
Imports == {{<<s1, c1>>}}

Interchangeable == Permutations(Request) \cup Permutations(Upload) \cup Permutations(Row)
=============================================================================
