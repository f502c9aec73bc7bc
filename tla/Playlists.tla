------------------------------ MODULE Playlists ------------------------------
(***************************************************************************)
(* The rows of playlist_songs one playlist has, and the requests that add, *)
(* remove and reorder its songs: routers/playlists.py and crud.py.         *)
(*                                                                         *)
(* A request reads in one statement and commits in a later one; between    *)
(* the two others may commit.  The checks of the handlers (the playlist is *)
(* the caller's, the song exists) are taken together with the read after   *)
(* them.  Names, icons and timestamps are left out.                        *)
(*                                                                         *)
(* A definition whose name ends in a word after an underscore, such as     *)
(* Refused_NoKeys, is a plausible bug in the definition after it: put      *)
(* in its place, it makes a property below fail.  No specification uses it.*)
(***************************************************************************)
EXTENDS Integers, SequencesExt

CONSTANTS Songs,        \* uuids of songs
          Calls,        \* slots for requests in flight
          MaxList,      \* bound: length of the lists clients send
          MaxPosition,  \* bound: no request may be to hand out a position above it
          NULL,         \* SQL NULL, None
          Overlap       \* may a request start while another is in flight?

ASSUME PlaylistAssumption ==
    /\ MaxPosition \in Nat /\ MaxList \in 0 .. MaxPosition + 1
    /\ Overlap \in BOOLEAN
    /\ NULL \notin Nat

VARIABLES exists,    \* does the playlist have its row?
          songs,     \* uuids that have a row in songs
          position,  \* playlist_songs.position, NULL where there is no row
          call       \* the request in each slot, NULL when there is none

vars == <<exists, songs, position, call>>

-----------------------------------------------------------------------------

Lists == UNION {[1..n -> Songs] : n \in 1..MaxList}

\* The songs of the playlist.
Listed(p) == {s \in Songs : p[s] # NULL}

NextPosition_Count(p) == Cardinality(Listed(p))

\* Where the next song goes: `max or -1`, plus 1, so that 0 counts as no song.
NextPosition(p) ==
    LET top == {p[s] : s \in Listed(p)} IN
    IF top \subseteq {0} THEN 0 ELSE Max(top) + 1

-----------------------------------------------------------------------------
(* Reading *)

Start(t, c) ==
    /\ call[t] = NULL
    /\ Overlap \/ \A x \in Calls : call[x] = NULL
    /\ call' = [call EXCEPT ![t] = c]
    /\ UNCHANGED <<exists, songs, position>>

\* add_song_to_playlist, up to its commit.
AddSong(t) ==
    \E s \in songs :
        /\ exists
        /\ NextPosition(position) <= MaxPosition
        /\ Start(t, [op |-> "add", list |-> <<s>>, at |-> NextPosition(position),
                     seen |-> position])

\* bulk_add_songs_to_playlist reads the last position, and then the songs there.
BulkAdd(t) ==
    \E list \in Lists :
        /\ exists
        /\ NextPosition(position) + Len(list) <= MaxPosition + 1
        /\ Start(t, [op |-> "bulk_max", list |-> list, at |-> NextPosition(position),
                     seen |-> position])

BulkRead(t) ==
    /\ call[t] # NULL /\ call[t].op = "bulk_max"
    /\ call' = [call EXCEPT ![t].op = "bulk", ![t].seen = position]
    /\ UNCHANGED <<exists, songs, position>>

\* reorder_playlist loads the rows.
ReorderSongs(t) ==
    \E list \in Lists :
        /\ exists
        /\ Start(t, [op |-> "reorder", list |-> list, at |-> 0, seen |-> position])

-----------------------------------------------------------------------------
(* Committing *)

\* The request is answered, with the rows as p.
Answer(t, p) ==
    /\ call' = [call EXCEPT ![t] = NULL]
    /\ position' = p
    /\ UNCHANGED <<exists, songs>>

\* The songs the request inserts: a single one whatever is there, of several those
\* that were not there.
Inserted(c) == {s \in ToSet(c.list) : c.op = "add" \/ c.seen[s] = NULL}

FirstAt(list, s) == SelectInSeq(list, LAMBDA x : x = s)

LastAt(list, s) == SelectLastInSeq(list, LAMBDA x : x = s)

\* They get consecutive positions, in the order of the list.
InsertedAt(c, s) ==
    c.at + Cardinality({x \in Inserted(c) : FirstAt(c.list, x) < FirstAt(c.list, s)})

Refused_NoKeys(c) == \E s \in Inserted(c) : position[s] # NULL

\* The database refuses them all when one of them is there by now, or is no song,
\* or the playlist is gone.
Refused(c) == ~exists \/ \E s \in Inserted(c) : s \notin songs \/ position[s] # NULL

CommitAdd(t) ==
    LET c == call[t] IN
    /\ c # NULL /\ c.op \in {"add", "bulk"}
    /\ Answer(t, IF Refused(c) THEN position
                 ELSE [s \in Songs |-> IF s \in Inserted(c) THEN InsertedAt(c, s)
                                                            ELSE position[s]])

Shifted_Front(c) ==
    {s \in Listed(c.seen) \cap ToSet(c.list) : c.seen[s] < LastAt(c.list, s) - 1}

\* The rows an order moves.
Shifted(c) ==
    {s \in Listed(c.seen) \cap ToSet(c.list) : c.seen[s] # LastAt(c.list, s) - 1}

\* The UPDATE names the rows that move.  When one of them is gone by now, the
\* request fails as a whole if the driver counts the rows of such a statement,
\* and moves those still there if it does not.
CommitReorder(t) ==
    LET c == call[t] IN
    /\ c # NULL /\ c.op = "reorder"
    /\ \/ Answer(t, [s \in Songs |-> IF s \in Shifted(c) \cap Listed(position)
                                     THEN LastAt(c.list, s) - 1 ELSE position[s]])
       \/ ~(Shifted(c) \subseteq Listed(position)) /\ Answer(t, position)

-----------------------------------------------------------------------------
(* Requests of one statement *)

Quiet == Overlap \/ \A t \in Calls : call[t] = NULL

\* Removing one song or several.
RemoveSongs ==
    \E gone \in SUBSET Songs \ {{}} :
        /\ exists /\ Quiet
        /\ position' = [s \in Songs |-> IF s \in gone THEN NULL ELSE position[s]]
        /\ UNCHANGED <<exists, songs, call>>

\* The rows go with the playlist, and with a song some other handler deletes.
DeletePlaylist ==
    /\ exists /\ Quiet
    /\ exists' = FALSE
    /\ position' = [s \in Songs |-> NULL]
    /\ UNCHANGED <<songs, call>>

DeleteSong ==
    \E s \in songs :
        /\ Quiet
        /\ songs' = songs \ {s}
        /\ position' = [position EXCEPT ![s] = NULL]
        /\ UNCHANGED <<exists, call>>

-----------------------------------------------------------------------------

Init == /\ exists = TRUE
        /\ songs = Songs
        /\ position = [s \in Songs |-> NULL]
        /\ call = [t \in Calls |-> NULL]

Next ==
    \/ \E t \in Calls : \/ AddSong(t) \/ BulkAdd(t) \/ BulkRead(t) \/ ReorderSongs(t)
                        \/ CommitAdd(t) \/ CommitReorder(t)
    \/ RemoveSongs \/ DeletePlaylist \/ DeleteSong

Spec == Init /\ [][Next]_vars

-----------------------------------------------------------------------------
(* Properties *)

\* Positions count from 0, and a row names a song and a playlist that exist.
TypeOK ==
    /\ exists \in BOOLEAN
    /\ songs \subseteq Songs
    /\ position \in [Songs -> 0..MaxPosition \cup {NULL}]
    /\ Listed(position) # {} => exists /\ Listed(position) \subseteq songs

Commits(t, ops) == call[t] # NULL /\ call[t].op \in ops /\ call'[t] = NULL

\* A song that is added comes after those there, or ties with the first of them,
\* unless the last position changed since it was read.
AppendedLast ==
    [][\A t \in Calls : Commits(t, {"add", "bulk"}) /\ call[t].at = NextPosition(position) =>
          \A old \in Listed(position), new \in Listed(position') \ Listed(position) :
              \/ position[old] < position'[new]
              \/ position[old] = 0 /\ position'[new] = 0]_vars

\* A bulk add that changes anything puts all the songs it found missing in the
\* playlist, in the order asked for, and moves none of those there.
BulkTogether ==
    [][\A t \in Calls : Commits(t, {"bulk"}) /\ position' # position =>
          LET list == call[t].list
              new == {s \in ToSet(list) : call[t].seen[s] = NULL}
          IN  /\ Listed(position') = Listed(position) \cup new
              /\ \A s \in Listed(position) : position'[s] = position[s]
              /\ \A s, x \in new : FirstAt(list, s) < FirstAt(list, x) =>
                                      position'[s] < position'[x]]_vars

\* Both ways of adding songs keep the order of a playlist.
AddedInOrder == AppendedLast /\ BulkTogether

\* A reorder neither adds a song nor brings back one removed since it loaded them.
ReorderKeepsMembers ==
    [][\A t \in Calls : Commits(t, {"reorder"}) =>
          Listed(position') = Listed(position)]_vars

\* The songs a reorder names are in the order asked for, unless some row changed
\* since it loaded them.
ReorderExact ==
    [][\A t \in Calls : Commits(t, {"reorder"}) /\ call[t].seen = position =>
          \A s, x \in Listed(position') \cap ToSet(call[t].list) :
              LastAt(call[t].list, s) < LastAt(call[t].list, x) => position'[s] < position'[x]]_vars

\* A reorder changes the order as asked for and nothing else.
Reordered == ReorderKeepsMembers /\ ReorderExact

\* This does not hold, and no run checks it: a maximum of 0 counts as no maximum, so
\* that the first two songs added one by one both get position 0.
PositionsDistinct ==
    \A s, x \in Listed(position) : position[s] = position[x] => s = x

=============================================================================
