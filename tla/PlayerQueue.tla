----------------------------- MODULE PlayerQueue -----------------------------
(***************************************************************************)
(* The row of user_player_state one user has, and the requests that read   *)
(* and write it: routers/player.py and the queue helpers of crud.py.       *)
(*                                                                         *)
(* A request loads the row, computes what it should be, and writes the     *)
(* columns that differ from what it loaded; between the two others may     *)
(* write the row.  Positions count from 0, as the columns do.              *)
(*                                                                         *)
(* repeat, play_context, shuffle_seed and updated_at are left out: they    *)
(* are stored and handed back.  manual_next and queue_sources are kept as  *)
(* the sets of songs they mention.                                         *)
(*                                                                         *)
(* A definition whose name ends in a word after an underscore, such as     *)
(* ShiftUp_None, is a plausible bug in the definition after it: put        *)
(* in its place, it makes a property below fail.  No specification uses it.*)
(***************************************************************************)
EXTENDS Integers, SequencesExt

CONSTANTS Songs,      \* uuids of songs
          Calls,      \* slots for requests in flight
          MaxQueue,   \* max_length of PlayerState.queue
          NULL,       \* SQL NULL, None
          Overlap     \* may a request start while another is in flight?

ASSUME PlayerAssumption ==
    /\ MaxQueue \in Nat
    /\ Overlap \in BOOLEAN
    /\ NULL \notin Songs \cup Seq(Nat)

VARIABLES state,   \* the row, NULL when there is none
          call     \* the request in each slot, NULL when there is none

vars == <<state, call>>

-----------------------------------------------------------------------------
(* What a row says                                                          *)

Shuffled(s) == s.shuffle /\ s.order # NULL

\* The songs in the order in which they are played, the position in that order
\* the player is at, and the song there.
PlayOrder(s) == IF Shuffled(s) THEN [i \in DOMAIN s.order |-> s.queue[s.order[i] + 1]]
                               ELSE s.queue

Cursor(s) == IF Shuffled(s) THEN s.pos ELSE s.index

Playing(s) == IF Cursor(s) + 1 \in DOMAIN PlayOrder(s) THEN PlayOrder(s)[Cursor(s) + 1]
                                                       ELSE NULL

Distinct(S, n) == {q \in SeqOf(S, n) : IsInjective(q)}

Positions(q) == 0 .. Len(q) - 1

\* What a client puts: queue_index, shuffle_position and current_song_uuid name
\* the same song, and the other columns mention songs of the queue only.
ListBodies(q) ==
    {[shuffle |-> on, queue |-> q, index |-> i, order |-> NULL, pos |-> 0, manual |-> m,
      current |-> IF i = -1 THEN NULL ELSE q[i + 1], sources |-> ToSet(q)] :
        on \in BOOLEAN, i \in {-1} \cup Positions(q), m \in {{}, ToSet(q)}}

ShuffledBodies(q) ==
    {[shuffle |-> TRUE, queue |-> q, index |-> o[p + 1], order |-> o, pos |-> p, manual |-> m,
      current |-> q[o[p + 1] + 1], sources |-> ToSet(q)] :
        o \in {o \in [DOMAIN q -> Positions(q)] : IsInjective(o)},
        p \in Positions(q), m \in {{}, ToSet(q)}}

Bodies == UNION {ListBodies(q) \cup ShuffledBodies(q) : q \in Distinct(Songs, MaxQueue)}

-----------------------------------------------------------------------------
(* The queue helpers of crud.py, from the row they load to the row they want *)

Clamp(n, high) == IF n < 0 THEN 0 ELSE IF n > high THEN high ELSE n

PositionOf(q, x) == SelectInSeq(q, LAMBDA y : y = x) - 1

Known(q, song) == Contains(q, song)

ShiftUp_None(order, pos) == Append(order, pos)

\* Room for position pos in a shuffled order; it is played last.
ShiftUp(order, pos) ==
    Append([i \in DOMAIN order |-> IF order[i] >= pos THEN order[i] + 1 ELSE order[i]], pos)

IndexAfterInsert_Late(index, pos) == IF pos < index THEN index + 1 ELSE index

IndexAfterInsert(index, pos) == IF pos <= index THEN index + 1 ELSE index

\* queue_insert: the song goes to position `at`, or to the end.
QueueInsert(s, song, at, labelled) ==
    LET pos == IF at = NULL THEN Len(s.queue) ELSE Clamp(at, Len(s.queue))
    IN  IF Known(s.queue, song) THEN s
        ELSE [s EXCEPT
                !.queue = InsertAt(@, pos + 1, song),
                !.order = IF Shuffled(s) THEN ShiftUp(@, pos) ELSE @,
                !.index = IndexAfterInsert(@, pos),
                !.sources = IF labelled THEN @ \cup {song} ELSE @]

\* [y for y in q if y != x]: a fold, since the proofs cannot expand SelectSeq.
Without(q, x) == FoldLeft(LAMBDA rest, y : IF y = x THEN rest ELSE Append(rest, y), <<>>, q)

\* A shuffled order without position n.
ShiftDown(order, n) ==
    LET rest == Without(order, n)
    IN  [i \in DOMAIN rest |-> IF rest[i] > n THEN rest[i] - 1 ELSE rest[i]]

\* What was at the index gives way to the song after it, or before it at the end.
IndexAfterRemove(index, n, last) ==
    CASE n < index -> index - 1
      [] n = index -> Clamp(index, IF last < 0 THEN 0 ELSE last)
      [] OTHER -> index

Forgotten(known, song) == known \ {song}

\* queue_remove.
QueueRemove(s, song) ==
    LET n == PositionOf(s.queue, song)
        earlier == \E i \in DOMAIN s.order : s.order[i] = n /\ i - 1 < s.pos
    IN  IF ~Contains(s.queue, song) THEN s
        ELSE [s EXCEPT
                !.queue = RemoveAt(@, n + 1),
                !.order = IF Shuffled(s) THEN ShiftDown(@, n) ELSE @,
                !.pos = IF Shuffled(s) /\ earlier THEN @ - 1 ELSE @,
                !.index = IndexAfterRemove(@, n, Len(s.queue) - 2),
                !.manual = Forgotten(@, song),
                !.sources = Forgotten(@, song)]

Moved(q, from, to) == InsertAt(RemoveAt(q, from + 1), to + 1, q[from + 1])

Landing_Unshifted(from, to, len) == Clamp(to, len - 1)

\* Where what is at `from` ends up when it is put before what is at `to`.
Landing(from, to, len) == Clamp(IF to > from THEN to - 1 ELSE to, len - 1)

\* queue_reorder: moves a song in the play order when shuffling, in the queue
\* otherwise; the cursor follows the song it is at.
QueueReorder(s, from, to) ==
    LET list == IF Shuffled(s) THEN s.order ELSE s.queue
        place == Landing(from, to, Len(list))
        order == Moved(s.order, from, place)
        current == PositionOf(s.queue, s.current)
    IN  IF from \in {to, to - 1} \/ from \notin Positions(list) THEN s
        ELSE IF Shuffled(s)
        THEN [s EXCEPT !.order = order,
                       !.pos = IF Contains(order, current) THEN PositionOf(order, current)
                                                           ELSE @]
        ELSE [s EXCEPT !.queue = Moved(@, from, place),
                       !.index = CASE @ = from -> place
                                   [] from < @ /\ @ <= place -> @ - 1
                                   [] place <= @ /\ @ < from -> @ + 1
                                   [] OTHER -> @]

-----------------------------------------------------------------------------
(* Requests                                                                 *)

\* The rows the request may want, given the row it loaded; the body of a PUT is
\* picked here rather than when the request comes in.
Wanted(c) == CASE c.op = "put" -> Bodies
               [] c.op = "insert" -> {QueueInsert(c.seen, c.song, c.at, c.labelled)}
               [] c.op = "remove" -> {QueueRemove(c.seen, c.song)}
               [] c.op = "reorder" -> {QueueReorder(c.seen, c.at, c.to)}

\* A request comes in and loads the row.
Load(t, c) ==
    /\ call[t] = NULL
    /\ Overlap \/ \A x \in Calls : call[x] = NULL
    /\ call' = [call EXCEPT ![t] = c]
    /\ UNCHANGED state

UpdateState(t) == Load(t, [op |-> "put", seen |-> state])

InsertSong(t) ==
    \E song \in Songs, at \in {NULL} \cup -1 .. MaxQueue, labelled \in BOOLEAN :
        Load(t, [op |-> "insert", seen |-> state, song |-> song, at |-> at,
                 labelled |-> labelled])

RemoveSong(t) ==
    \E song \in Songs : Load(t, [op |-> "remove", seen |-> state, song |-> song])

ReorderSong(t) ==
    \E from \in -1 .. MaxQueue + 1, to \in -1 .. MaxQueue + 2 :
        Load(t, [op |-> "reorder", seen |-> state, at |-> from, to |-> to])

\* The UPDATE names the columns that the request changed.
Columns(row, seen, wanted) ==
    [c \in DOMAIN row |-> IF wanted[c] # seen[c] THEN wanted[c] ELSE row[c]]

\* The request writes and is answered.  Without a row to load only PUT succeeds,
\* unless another PUT has inserted the row by now: the other handlers stumble
\* over the empty columns of a row that was never flushed.
Write(t) ==
    LET c == call[t] IN
    /\ c # NULL
    /\ call' = [call EXCEPT ![t] = NULL]
    /\ IF c.seen # NULL
       THEN \E row \in Wanted(c) : state' = Columns(state, c.seen, row)
       ELSE IF c.op = "put" /\ state = NULL THEN state' \in Bodies
       ELSE UNCHANGED state

-----------------------------------------------------------------------------

Init == state = NULL /\ call = [t \in Calls |-> NULL]

Next == \E t \in Calls :
    \/ UpdateState(t) \/ InsertSong(t) \/ RemoveSong(t) \/ ReorderSong(t)
    \/ Write(t)

Spec == Init /\ [][Next]_vars

-----------------------------------------------------------------------------
(* Properties *)

\* The row has the shape the columns give it, and no song is queued twice.
TypeOK ==
    state # NULL =>
        /\ state.shuffle \in BOOLEAN
        /\ state.queue \in Seq(Songs) /\ IsInjective(state.queue)
        /\ state.order # NULL => state.order \in Seq(Nat)
        /\ state.index \in Int /\ state.pos \in Nat
        /\ state.current \in Songs \cup {NULL}
        /\ state.manual \subseteq Songs /\ state.sources \subseteq Songs

\* A shuffled order names every position of the queue, once.
OrderIsPermutation ==
    state # NULL /\ Shuffled(state) =>
        /\ ToSet(state.order) = Positions(state.queue)
        /\ IsInjective(state.order)

\* The cursor is at a song of the play order, or just past its end: there when
\* the song played last was removed while shuffling, or when a song was put
\* before the cursor of a queue that had become empty.
CursorInRange ==
    state # NULL => /\ state.index \in -1 .. Len(state.queue)
                    /\ Shuffled(state) => state.pos \in 0 .. Len(state.order)

\* Songs to play next, and the places songs were queued from, are forgotten with
\* the songs.
NothingOrphaned ==
    state # NULL => state.manual \cup state.sources \subseteq ToSet(state.queue)

\* The queue, its shuffled order, the cursors and what hangs on songs fit together
\* after any sequence of requests, though each renumbers them by a rule of its own.
QueueConsistent == TypeOK /\ OrderIsPermutation /\ CursorInRange /\ NothingOrphaned

\* Request t edits the queue of a row that is there.
EditsQueue(t, op) == /\ call[t] # NULL /\ call'[t] = NULL
                     /\ call[t].op = op /\ call[t].seen # NULL

\* Both cursors of the row are at the song that is playing.
AtCurrent(s) == /\ s.current # NULL /\ Playing(s) = s.current
                /\ s.index = PositionOf(s.queue, s.current)

\* Editing the queue never makes the player jump: while the song that is playing
\* stays queued, both cursors stay at it.
CurrentKept ==
    [][\A t \in Calls : \A op \in {"insert", "remove", "reorder"} :
          EditsQueue(t, op) /\ AtCurrent(state) /\ Contains(state'.queue, state.current)
          => AtCurrent(state')]_vars

\* Editing the queue changes the order of play by one song: it is put in, or taken
\* out, or lands right before the song it was dropped on; the others keep their
\* order.
OneSongMoves ==
    [][\A t \in Calls :
          LET old == PlayOrder(state)
              new == PlayOrder(state')
              c == call[t]
          IN  /\ EditsQueue(t, "insert") =>
                    IF Contains(old, c.song) THEN new = old
                    ELSE Contains(new, c.song) /\ Without(new, c.song) = old
              /\ EditsQueue(t, "remove") => new = Without(old, c.song)
              /\ EditsQueue(t, "reorder") /\ c.at \in Positions(old) /\ c.to \in Positions(old) =>
                    LET x == old[c.at + 1]
                        y == old[c.to + 1]
                    IN  /\ Without(new, x) = Without(old, x)
                        /\ x # y => PositionOf(new, x) + 1 = PositionOf(new, y)]_vars

\* Requests that overlap write columns computed from different rows, which then need
\* not fit each other.  Each column by itself stays sound all the same: no song is
\* queued twice, no position is played twice, and no cursor falls below its start.
ColumnsSound ==
    /\ TypeOK
    /\ state # NULL => state.index >= -1
    /\ state # NULL /\ state.order # NULL => IsInjective(state.order)

\* The queue is one PlayerState can carry: no endpoint can return a longer one.
\* This does not hold, since queue_insert knows no bound.
QueueFits == state # NULL => Len(state.queue) <= MaxQueue

=============================================================================
