--------------------------- MODULE MCPlayerQueue ---------------------------
(* PlayerQueue on small instances.                                         *)
EXTENDS PlayerQueue, TLC

\* Songs are interchangeable, and so are the slots of requests.
SongCallSymmetry == Permutations(Songs) \cup Permutations(Calls)

\* Bounds on what is explored where requests overlap: those in flight have loaded the
\* same row, one that was consistent and had nothing in the two sets of songs, which no
\* other column is computed from; and a shuffled order, which grows without end in a
\* row they tore, has at most LongestOrder positions.
LongestOrder == 3

Bounded ==
    /\ \A t, u \in Calls : t # u /\ call[t] # NULL /\ call[u] # NULL =>
          call[t].seen = call[u].seen
    /\ state # NULL /\ (\A t \in Calls : call[t] # NULL) =>
          QueueConsistent /\ state.manual \cup state.sources = {}
    /\ state # NULL /\ state.order # NULL => Len(state.order) <= LongestOrder

=============================================================================
