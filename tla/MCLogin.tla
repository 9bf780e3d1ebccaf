------------------------------ MODULE MCLogin ------------------------------
(* TLC instances of Login: two callbacks, two marks, accounts a1 and a2 of  *)
(* one person and, in the larger run, a3 of another.                        *)
EXTENDS Login, TLC

CONSTANTS a1, a2, s1, s2

\* Accounts a1 and a2 belong to one person, any other account to another.
StaffOfAccount == [a \in Account |-> IF a \in {a1, a2} THEN s1 ELSE s2]

\* Callbacks, marks and row ids are interchangeable; no liveness is checked.
Interchangeable == Permutations(Request) \cup Permutations(Mark) \cup Permutations(UserId)
=============================================================================
