-------------------------- MODULE MCAdministration --------------------------
(* TLC instances of Administration. *)
EXTENDS Administration, TLC

\* No staff number, app or request is special, and no liveness is checked.
Interchangeable ==
    Permutations(Request) \cup Permutations(Staff) \cup Permutations(AppId) \cup Permutations(AppName)
=============================================================================
