---------------------------- MODULE MCSongFiles ----------------------------
(* SongFiles on small instances.                                           *)
EXTENDS SongFiles, TLC

\* Tasks are interchangeable: a slot is given its kind when it starts.
TaskSymmetry == Permutations(Tasks)

=============================================================================
