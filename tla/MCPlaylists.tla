---------------------------- MODULE MCPlaylists ----------------------------
(* Playlists on small instances.                                           *)
EXTENDS Playlists, TLC

\* Songs are interchangeable, and so are the slots of requests.
SongCallSymmetry == Permutations(Songs) \cup Permutations(Calls)

=============================================================================
