---------------------------- MODULE MCEditChains ----------------------------
(* EditChains on small instances.                                          *)
EXTENDS EditChains, TLC

\* Users and tasks are interchangeable; uuids are not: they carry the order in
\* which they were drawn.
UserTaskSymmetry == Permutations(Users) \cup Permutations(Tasks)

=============================================================================
