--------------------------- MODULE UserRows_proofs ---------------------------
(***************************************************************************)
(* The rows of a user refer to what there is, and songs, files and counted *)
(* downloads belong together, for any number of songs and requests and any *)
(* mix of operations.                                                      *)
(*                                                                         *)
(* The properties are not inductive: what a request carries between its    *)
(* steps has to be related to the rows (CarriedOK), and the uuids that are *)
(* being made into songs, or deleted, to the files (UuidsOK).              *)
(***************************************************************************)
EXTENDS UserRows, TLAPS

Steps == {"idle", "commit", "create", "refresh", "set", "select", "fetch", "insert",
          "count", "answer", "unlink"}

Asked(ops) ==
    [op : ops, at : Steps, song : Songs \cup {NULL},
     value : Params \cup Formats \cup Positions \cup {NULL},
     seen : Params \cup Formats \cup Positions \cup {NULL},
     ids : SUBSET Songs, known : SUBSET Songs, todo : SUBSET Songs, said : SUBSET Songs]

TypesOK ==
    /\ work \in Workloads /\ account \in BOOLEAN
    /\ live \subseteq used /\ used \subseteq Songs /\ files \subseteq used
    /\ left \subseteq used
    /\ rows \in Rows
    /\ req \in [Requests -> Asked(work \cup {NULL})]

\* What a request has in hand still means what it meant when it was read.
CarriedOK(c) ==
    /\ c.op = "position" /\ c.at = "commit" => c.value \in Positions /\ c.song \in Songs
    /\ c.op = "draft" /\ c.at = "commit" => c.value \in Params
    /\ c.op = "settings" /\ c.at \in {"create", "refresh", "set"} => c.value \in Formats \cup {NULL}
    /\ c.op = "sync" /\ c.at = "commit" => c.todo \subseteq c.said
    /\ c.op = "download" /\ c.at \in {"count", "answer"} /\ account =>
           \A s \in c.said \cap live : s \in c.todo \/ rows.downloads[s] > 0
    /\ c.op = "download" /\ c.at = "answer" => c.todo = {}
    /\ c.said \subseteq used

Making(r)   == At(r, "download", "fetch") \/ At(r, "download", "insert")
Deleting(r) == At(r, "delete", "unlink")

\* A uuid on its way into or out of the database is at most in one request's hands.
UuidsOK ==
    /\ live \subseteq files
    /\ \A r \in Requests :
           /\ Making(r) => req[r].song \in used \ live
           /\ At(r, "download", "fetch") => req[r].song \notin files
           /\ At(r, "download", "insert") => req[r].song \in files
           /\ Deleting(r) => req[r].song \in used \ live
    /\ \A r, q \in Requests :
           /\ Making(r) /\ q # r /\ (Making(q) \/ Deleting(q)) => req[r].song # req[q].song
           /\ Making(r) => req[r].song \notin req[q].said
    /\ \A s \in (files \ live) \ left : \E r \in Requests :
           req[r].song = s /\ (At(r, "download", "insert") \/ Deleting(r))

Inv ==
    /\ TypesOK /\ RowsHaveTheirSongs /\ UuidsOK
    /\ \A r \in Requests : CarriedOK(req[r])

-----------------------------------------------------------------------------
(* Steps that neither make nor delete a song *)

Plain(c) == c.at \notin {"fetch", "insert", "unlink"}

\* Such a step may do to rows what keeps their type and their songs, and counts
\* downloads up.
LEMMA Frame ==
    ASSUME Inv, RowsOnly, req' \in [Requests -> Asked(work \cup {NULL})],
           \A r \in Requests : \/ req'[r] = req[r]
                               \/ /\ req[r].at \notin {"insert", "unlink"}
                                  /\ Plain(req[r])' /\ CarriedOK(req[r])'
                                  /\ req'[r].said \subseteq req[r].said \cup live,
           rows' \in Rows, RowsHaveTheirSongs',
           \A s \in Songs : rows'.downloads[s] >= rows.downloads[s]
    PROVE  Inv'
<1> USE DEF Inv
<1>1. TypesOK'  BY DEF TypesOK, RowsOnly, Asked
<1>2. ASSUME NEW r \in Requests PROVE CarriedOK(req[r])'
  <2>1. CASE req'[r] = req[r]
    <3>1. \A s \in Songs : rows.downloads[s] \in Nat /\ rows'.downloads[s] \in Nat
      BY DEF TypesOK, Rows, SongDownload
    <3>2. \A s \in Songs : rows.downloads[s] > 0 => rows'.downloads[s] > 0  BY <3>1
    <3>3. live \subseteq Songs  BY DEF TypesOK
    <3> QED  BY <2>1, <3>2, <3>3 DEF CarriedOK, RowsOnly
  <2> QED  BY <2>1
<1>3. UuidsOK'
  <2>1. ASSUME NEW r \in Requests
        PROVE  /\ req'[r].said \subseteq req[r].said \cup live
               /\ \/ req'[r] = req[r]
                  \/ /\ ~Making(r)' /\ ~Deleting(r)'
                     /\ ~At(r, "download", "insert") /\ ~Deleting(r)
    BY DEF Plain, Making, Deleting, At
  <2>2. ASSUME NEW r \in Requests, Making(r)' PROVE Making(r) /\ req'[r] = req[r]
    BY <2>1, <2>2 DEF Making, At
  <2>3. ASSUME NEW r \in Requests, Deleting(r)' PROVE Deleting(r) /\ req'[r] = req[r]
    BY <2>1, <2>3 DEF Deleting, At
  <2>4. live' \subseteq files'  BY DEF UuidsOK, RowsOnly
  <2>5. ASSUME NEW r \in Requests
        PROVE  /\ Making(r)' => req'[r].song \in used' \ live'
               /\ At(r, "download", "fetch")' => req'[r].song \notin files'
               /\ At(r, "download", "insert")' => req'[r].song \in files'
               /\ Deleting(r)' => req'[r].song \in used' \ live'
    <3>1. At(r, "download", "fetch")' => At(r, "download", "fetch") /\ req'[r] = req[r]
      BY <2>2 DEF Making, At
    <3>2. At(r, "download", "insert")' => At(r, "download", "insert") /\ req'[r] = req[r]
      BY <2>2 DEF Making, At
    <3> QED  BY <2>2, <2>3, <3>1, <3>2 DEF UuidsOK, RowsOnly
  <2>6. ASSUME NEW r \in Requests, NEW q \in Requests, Making(r)'
        PROVE  /\ q # r /\ (Making(q)' \/ Deleting(q)') => req'[r].song # req'[q].song
               /\ req'[r].song \notin req'[q].said
    BY <2>1, <2>2, <2>3, <2>6 DEF UuidsOK
  <2>7. \A s \in (files' \ live') \ left' : \E r \in Requests :
            req'[r].song = s /\ (At(r, "download", "insert")' \/ Deleting(r)')
    <3>1. ASSUME NEW r \in Requests, At(r, "download", "insert") \/ Deleting(r)
          PROVE  /\ req'[r] = req[r]
                 /\ At(r, "download", "insert")' \/ Deleting(r)'
      BY <2>1, <3>1 DEF At, Deleting
    <3> QED  BY <3>1 DEF UuidsOK, RowsOnly
  <2> QED  BY <2>4, <2>5, <2>6, <2>7 DEF UuidsOK
<1> QED  BY <1>1, <1>2, <1>3

\* A step that only begins a request, or reads on.
LEMMA ReadFrame ==
    ASSUME Inv, Read, NEW r \in Requests, NEW c \in Asked(work \cup {NULL}),
           req' = [req EXCEPT ![r] = c], req[r].at \notin {"insert", "unlink"},
           Plain(c), CarriedOK(c), c.said \subseteq req[r].said \cup live
    PROVE  Inv'
<1> USE DEF Inv, Read
<1>1. req' \in [Requests -> Asked(work \cup {NULL})]  BY DEF TypesOK
<1>2. req'[r] = c /\ \A q \in Requests \ {r} : req'[q] = req[q]  BY DEF TypesOK
<1>3. Plain(req[r])' /\ CarriedOK(req[r])'  BY <1>2 DEF Plain, CarriedOK, RowsOnly
<1>4. rows' \in Rows /\ RowsHaveTheirSongs'  BY DEF TypesOK, RowsHaveTheirSongs, RowsOnly
<1>5. \A s \in Songs : rows'.downloads[s] >= rows.downloads[s]
  BY DEF TypesOK, Rows, SongDownload
<1> QED  BY <1>1, <1>2, <1>3, <1>4, <1>5, Frame

\* A step that commits and ends a request.
LEMMA EndFrame ==
    ASSUME Inv, RowsOnly, NEW r \in Requests, End(r), req[r].at \notin {"insert", "unlink"},
           rows' \in Rows, RowsHaveTheirSongs',
           \A s \in Songs : rows'.downloads[s] >= rows.downloads[s]
    PROVE  Inv'
<1> USE DEF Inv
<1>1. Idle \in Asked(work \cup {NULL})  BY DEF Idle, Asked, Steps
<1>2. req' \in [Requests -> Asked(work \cup {NULL})]  BY <1>1 DEF TypesOK, End
<1>3. req'[r] = Idle /\ \A q \in Requests \ {r} : req'[q] = req[q]  BY DEF TypesOK, End
<1>4. Plain(req[r])' /\ CarriedOK(req[r])' /\ req'[r].said = {}
  BY <1>3 DEF Plain, CarriedOK, Idle
<1> QED  BY <1>2, <1>3, <1>4, Frame

-----------------------------------------------------------------------------
(* Rows *)

\* The rows that a commit leaves as they are.
LEMMA SameRows ==
    ASSUME Inv, UNCHANGED <<rows, account, live>>
    PROVE  /\ rows' \in Rows /\ RowsHaveTheirSongs'
           /\ \A s \in Songs : rows'.downloads[s] >= rows.downloads[s]
BY DEF Inv, TypesOK, RowsHaveTheirSongs, Rows, SongDownload

\* A table in which the row of one song may have changed.
AgreeBeside(s, f, g) == \A t \in Songs \ {s} : f[t] = g[t]

\* Rows for a song and an account there are.
LEMMA InsertedRow ==
    ASSUME Inv, UNCHANGED <<account, live>>, NEW s \in Songs, Insertable(s),
           rows' \in Rows,
           AgreeBeside(s, rows'.library, rows.library), AgreeBeside(s, rows'.draft, rows.draft),
           AgreeBeside(s, rows'.plays, rows.plays), AgreeBeside(s, rows'.shares, rows.shares),
           AgreeBeside(s, rows'.downloads, rows.downloads),
           rows'.offline = rows.offline
    PROVE  RowsHaveTheirSongs'
BY DEF Inv, RowsHaveTheirSongs, AgreeBeside, Insertable

LEMMA InsertedEntry ==
    ASSUME Inv, UNCHANGED <<account, live>>, NEW s \in Songs, Insertable(s),
           NEW v \in Positions, rows' = [rows EXCEPT !.library[s] = v]
    PROVE  /\ rows' \in Rows /\ RowsHaveTheirSongs'
           /\ \A t \in Songs : rows'.downloads[t] >= rows.downloads[t]
<1> DEFINE f == [rows.library EXCEPT ![s] = v]
<1>1. rows \in Rows  BY DEF Inv, TypesOK
<1>2. rows.library \in UserSong /\ f \in UserSong
  <2>1. rows.library \in UserSong  BY <1>1 DEF Rows
  <2> QED  BY <2>1, UserRowsAssumption DEF UserSong
<1>3. rows' = [rows EXCEPT !.library = f]  OBVIOUS
<1>4. f[s] = v /\ \A t \in Songs \ {s} : f[t] = rows.library[t]  BY <1>2 DEF UserSong
<1> HIDE DEF f
<1>5. rows' \in Rows  BY <1>1, <1>2, <1>3 DEF Rows
<1>6. /\ rows'.library = f /\ rows'.offline = rows.offline
      /\ rows'.draft = rows.draft /\ rows'.plays = rows.plays
      /\ rows'.shares = rows.shares /\ rows'.downloads = rows.downloads
  BY <1>1, <1>3 DEF Rows
<1>7. RowsHaveTheirSongs'  BY <1>4, <1>5, <1>6, InsertedRow DEF AgreeBeside
<1>8. \A t \in Songs : rows.downloads[t] \in Nat  BY <1>1 DEF Rows, SongDownload
<1> QED  BY <1>4, <1>5, <1>6, <1>7, <1>8

LEMMA InsertedDraft ==
    ASSUME Inv, UNCHANGED <<account, live>>, NEW s \in Songs, Insertable(s),
           NEW v \in Params, rows' = [rows EXCEPT !.draft[s] = v]
    PROVE  /\ rows' \in Rows /\ RowsHaveTheirSongs'
           /\ \A t \in Songs : rows'.downloads[t] >= rows.downloads[t]
<1> DEFINE f == [rows.draft EXCEPT ![s] = v]
<1>1. rows \in Rows  BY DEF Inv, TypesOK
<1>2. rows.draft \in SongEditDraft /\ f \in SongEditDraft
  <2>1. rows.draft \in SongEditDraft  BY <1>1 DEF Rows
  <2> QED  BY <2>1, UserRowsAssumption DEF SongEditDraft
<1>3. rows' = [rows EXCEPT !.draft = f]  OBVIOUS
<1>4. f[s] = v /\ \A t \in Songs \ {s} : f[t] = rows.draft[t]  BY <1>2 DEF SongEditDraft
<1> HIDE DEF f
<1>5. rows' \in Rows  BY <1>1, <1>2, <1>3 DEF Rows
<1>6. /\ rows'.draft = f /\ rows'.offline = rows.offline
      /\ rows'.library = rows.library /\ rows'.plays = rows.plays
      /\ rows'.shares = rows.shares /\ rows'.downloads = rows.downloads
  BY <1>1, <1>3 DEF Rows
<1>7. RowsHaveTheirSongs'  BY <1>4, <1>5, <1>6, InsertedRow DEF AgreeBeside
<1>8. \A t \in Songs : rows.downloads[t] \in Nat  BY <1>1 DEF Rows, SongDownload
<1> QED  BY <1>4, <1>5, <1>6, <1>7, <1>8

LEMMA InsertedPlay ==
    ASSUME Inv, UNCHANGED <<account, live>>, NEW s \in Songs, Insertable(s),
           NEW v \in [0..Window -> Nat], rows' = [rows EXCEPT !.plays[s] = v]
    PROVE  /\ rows' \in Rows /\ RowsHaveTheirSongs'
           /\ \A t \in Songs : rows'.downloads[t] >= rows.downloads[t]
<1> DEFINE f == [rows.plays EXCEPT ![s] = v]
<1>1. rows \in Rows  BY DEF Inv, TypesOK
<1>2. rows.plays \in SongPlay /\ f \in SongPlay
  <2>1. rows.plays \in SongPlay  BY <1>1 DEF Rows
  <2> QED  BY <2>1, UserRowsAssumption DEF SongPlay
<1>3. rows' = [rows EXCEPT !.plays = f]  OBVIOUS
<1>4. f[s] = v /\ \A t \in Songs \ {s} : f[t] = rows.plays[t]  BY <1>2 DEF SongPlay
<1> HIDE DEF f
<1>5. rows' \in Rows  BY <1>1, <1>2, <1>3 DEF Rows
<1>6. /\ rows'.plays = f /\ rows'.offline = rows.offline
      /\ rows'.library = rows.library /\ rows'.draft = rows.draft
      /\ rows'.shares = rows.shares /\ rows'.downloads = rows.downloads
  BY <1>1, <1>3 DEF Rows
<1>7. RowsHaveTheirSongs'  BY <1>4, <1>5, <1>6, InsertedRow DEF AgreeBeside
<1>8. \A t \in Songs : rows.downloads[t] \in Nat  BY <1>1 DEF Rows, SongDownload
<1> QED  BY <1>4, <1>5, <1>6, <1>7, <1>8

LEMMA InsertedLink ==
    ASSUME Inv, UNCHANGED <<account, live>>, NEW s \in Songs, Insertable(s),
           NEW v \in SUBSET (0..ShareLife), rows' = [rows EXCEPT !.shares[s] = v]
    PROVE  /\ rows' \in Rows /\ RowsHaveTheirSongs'
           /\ \A t \in Songs : rows'.downloads[t] >= rows.downloads[t]
<1> DEFINE f == [rows.shares EXCEPT ![s] = v]
<1>1. rows \in Rows  BY DEF Inv, TypesOK
<1>2. rows.shares \in SongShareToken /\ f \in SongShareToken
  <2>1. rows.shares \in SongShareToken  BY <1>1 DEF Rows
  <2> QED  BY <2>1, UserRowsAssumption DEF SongShareToken
<1>3. rows' = [rows EXCEPT !.shares = f]  OBVIOUS
<1>4. f[s] = v /\ \A t \in Songs \ {s} : f[t] = rows.shares[t]  BY <1>2 DEF SongShareToken
<1> HIDE DEF f
<1>5. rows' \in Rows  BY <1>1, <1>2, <1>3 DEF Rows
<1>6. /\ rows'.shares = f /\ rows'.offline = rows.offline
      /\ rows'.library = rows.library /\ rows'.draft = rows.draft
      /\ rows'.plays = rows.plays /\ rows'.downloads = rows.downloads
  BY <1>1, <1>3 DEF Rows
<1>7. RowsHaveTheirSongs'  BY <1>4, <1>5, <1>6, InsertedRow DEF AgreeBeside
<1>8. \A t \in Songs : rows.downloads[t] \in Nat  BY <1>1 DEF Rows, SongDownload
<1> QED  BY <1>4, <1>5, <1>6, <1>7, <1>8

LEMMA InsertedDownload ==
    ASSUME Inv, UNCHANGED <<account, live>>, NEW s \in Songs, Insertable(s),
           NEW v \in 0..MaxCount, rows' = [rows EXCEPT !.downloads[s] = v],
           v >= rows.downloads[s]
    PROVE  /\ rows' \in Rows /\ RowsHaveTheirSongs'
           /\ \A t \in Songs : rows'.downloads[t] >= rows.downloads[t]
<1> DEFINE f == [rows.downloads EXCEPT ![s] = v]
<1>1. rows \in Rows  BY DEF Inv, TypesOK
<1>2. rows.downloads \in SongDownload /\ f \in SongDownload
  <2>1. rows.downloads \in SongDownload  BY <1>1 DEF Rows
  <2> QED  BY <2>1, UserRowsAssumption DEF SongDownload
<1>3. rows' = [rows EXCEPT !.downloads = f]  OBVIOUS
<1>4. f[s] = v /\ \A t \in Songs \ {s} : f[t] = rows.downloads[t]  BY <1>2 DEF SongDownload
<1> HIDE DEF f
<1>5. rows' \in Rows  BY <1>1, <1>2, <1>3 DEF Rows
<1>6. /\ rows'.downloads = f /\ rows'.offline = rows.offline
      /\ rows'.library = rows.library /\ rows'.draft = rows.draft
      /\ rows'.plays = rows.plays /\ rows'.shares = rows.shares
  BY <1>1, <1>3 DEF Rows
<1>7. RowsHaveTheirSongs'  BY <1>4, <1>5, <1>6, InsertedRow DEF AgreeBeside
<1>8. \A t \in Songs : rows.downloads[t] \in Nat  BY <1>1 DEF Rows, SongDownload
<1> QED  BY <1>4, <1>5, <1>6, <1>7, <1>8

\* Rows that go.
LEMMA RemovedRows ==
    ASSUME Inv, UNCHANGED <<account, live>>, NEW gone \in SUBSET Songs,
           NEW f \in UserSong, NEW d \in SongEditDraft,
           \A s \in Songs : f[s] = NULL \/ f[s] = rows.library[s],
           \A s \in Songs : d[s] = NULL \/ d[s] = rows.draft[s],
           rows' = [rows EXCEPT !.library = f, !.draft = d, !.offline = @ \ gone]
    PROVE  /\ rows' \in Rows /\ RowsHaveTheirSongs'
           /\ \A s \in Songs : rows'.downloads[s] >= rows.downloads[s]
<1> USE DEF Inv, TypesOK
<1>1. rows' \in Rows  BY DEF Rows, UserOfflineSong
<1>2. /\ rows'.library = f /\ rows'.draft = d /\ rows'.offline = rows.offline \ gone
      /\ rows'.plays = rows.plays /\ rows'.shares = rows.shares
      /\ rows'.downloads = rows.downloads /\ rows'.settings = rows.settings
  BY DEF Rows
<1>3. RowsHaveTheirSongs'
  <2>1. ASSUME NEW s \in Songs \ live
        PROVE  /\ rows'.library[s] = NULL /\ s \notin rows'.offline /\ rows'.draft[s] = NULL
               /\ rows'.plays[s] = NoPlays /\ rows'.shares[s] = {} /\ rows'.downloads[s] = 0
    BY <1>2 DEF RowsHaveTheirSongs
  <2>2. ASSUME ~account PROVE rows' = NoRows
    <3>1. rows = NoRows  BY <2>2 DEF RowsHaveTheirSongs
    <3>2. f = [s \in Songs |-> NULL] /\ d = [s \in Songs |-> NULL] /\ rows.offline \ gone = {}
      BY <3>1 DEF NoRows, UserSong, SongEditDraft
    <3> QED  BY <3>1, <3>2 DEF NoRows
  <2> QED  BY <2>1, <2>2 DEF RowsHaveTheirSongs
<1> QED  BY <1>1, <1>2, <1>3 DEF Rows, SongDownload

\* Marks and settings.
LEMMA MarkedRows ==
    ASSUME Inv, UNCHANGED <<account, live>>, account, NEW o \in SUBSET live,
           NEW f \in Formats,
           \/ rows' = [rows EXCEPT !.offline = @ \cup o]
           \/ rows' = [rows EXCEPT !.settings = f]
    PROVE  /\ rows' \in Rows /\ RowsHaveTheirSongs'
           /\ \A s \in Songs : rows'.downloads[s] >= rows.downloads[s]
<1> USE DEF Inv, TypesOK
<1>1. rows' \in Rows  BY DEF Rows, UserOfflineSong, UserSettings
<1>2. /\ rows'.library = rows.library /\ rows'.draft = rows.draft
      /\ rows'.offline \subseteq rows.offline \cup o
      /\ rows'.plays = rows.plays /\ rows'.shares = rows.shares
      /\ rows'.downloads = rows.downloads
  BY DEF Rows
<1> QED  BY <1>1, <1>2 DEF RowsHaveTheirSongs, Rows, SongDownload

-----------------------------------------------------------------------------
(* One lemma for each kind of request *)

\* Beginning a request that only reads.
LEMMA BeginFrame ==
    ASSUME Inv, Read, NEW r \in Requests, NEW op, NEW c \in Asked({NULL}), Begin(r, op, c),
           Plain(c), CarriedOK([c EXCEPT !.op = op]), c.said \subseteq live
    PROVE  Inv'
<1> DEFINE d == [c EXCEPT !.op = op]
<1>1. d \in Asked(work \cup {NULL})  BY DEF Begin, Asked
<1>2. Plain(d) /\ d.said = c.said /\ CarriedOK(d)  BY DEF Asked, Plain
<1>3. req' = [req EXCEPT ![r] = d] /\ req[r].at = "idle"  BY DEF Begin, Idle
<1> HIDE DEF d
<1> QED  BY <1>1, <1>2, <1>3, ReadFrame

LEMMA IdleAsked == Idle \in Asked({NULL})
BY DEF Idle, Asked, Steps

LEMMA PlayReadKeeps == ASSUME Inv, NEW r \in Requests, PlayRead(r) PROVE Inv'
<1>0. live \subseteq Songs /\ rows.offline \subseteq Songs
  BY DEF Inv, TypesOK, Rows, UserOfflineSong
<1>1. PICK s \in Songs :
          /\ Begin(r, "play", [Idle EXCEPT !.at = "commit", !.song = s])
          /\ Read
  BY DEF PlayRead
<1> DEFINE c == [Idle EXCEPT !.at = "commit", !.song = s]
<1>2. c \in Asked({NULL})  BY <1>0 DEF Idle, Asked, Steps
<1>3. Plain(c) /\ c.said = {} /\ CarriedOK([c EXCEPT !.op = "play"])
  BY <1>0 DEF Idle, Plain, CarriedOK
<1> HIDE DEF c
<1> QED  BY <1>1, <1>2, <1>3, BeginFrame DEF c

LEMMA AddReadKeeps == ASSUME Inv, NEW r \in Requests, AddRead(r) PROVE Inv'
<1>0. live \subseteq Songs /\ rows.offline \subseteq Songs
  BY DEF Inv, TypesOK, Rows, UserOfflineSong
<1>1. PICK s \in live :
          /\ Begin(r, "add", [Idle EXCEPT !.at = "commit", !.song = s])
          /\ Read
  BY DEF AddRead
<1> DEFINE c == [Idle EXCEPT !.at = "commit", !.song = s]
<1>2. c \in Asked({NULL})  BY <1>0 DEF Idle, Asked, Steps
<1>3. Plain(c) /\ c.said = {} /\ CarriedOK([c EXCEPT !.op = "add"])
  BY <1>0 DEF Idle, Plain, CarriedOK
<1> HIDE DEF c
<1> QED  BY <1>1, <1>2, <1>3, BeginFrame DEF c

LEMMA PositionReadKeeps == ASSUME Inv, NEW r \in Requests, PositionRead(r) PROVE Inv'
<1>0. live \subseteq Songs /\ rows.offline \subseteq Songs
  BY DEF Inv, TypesOK, Rows, UserOfflineSong
<1>1. PICK s \in Songs, p \in Positions :
          /\ Begin(r, "position", [Idle EXCEPT !.at = "commit", !.song = s, !.value = p,
                                   !.seen = rows.library[s]])
          /\ Read
  BY DEF PositionRead
<1> DEFINE c == [Idle EXCEPT !.at = "commit", !.song = s, !.value = p,
                             !.seen = rows.library[s]]
<1>2. c \in Asked({NULL})
  <2>1. rows.library[s] \in Positions \cup {NULL}  BY DEF Inv, TypesOK, Rows, UserSong
  <2> QED  BY <1>0, <2>1 DEF Idle, Asked, Steps
<1>3. Plain(c) /\ c.said = {} /\ CarriedOK([c EXCEPT !.op = "position"])
  BY <1>0 DEF Idle, Plain, CarriedOK
<1> HIDE DEF c
<1> QED  BY <1>1, <1>2, <1>3, BeginFrame DEF c

LEMMA DraftReadKeeps == ASSUME Inv, NEW r \in Requests, DraftRead(r) PROVE Inv'
<1>0. live \subseteq Songs /\ rows.offline \subseteq Songs
  BY DEF Inv, TypesOK, Rows, UserOfflineSong
<1>1. PICK s \in live, p \in Params :
          /\ Begin(r, "draft", [Idle EXCEPT !.at = "commit", !.song = s, !.value = p,
                                !.seen = rows.draft[s]])
          /\ Read
  BY DEF DraftRead
<1> DEFINE c == [Idle EXCEPT !.at = "commit", !.song = s, !.value = p,
                             !.seen = rows.draft[s]]
<1>2. c \in Asked({NULL})
  <2>1. rows.draft[s] \in Params \cup {NULL}
    BY <1>0 DEF Inv, TypesOK, Rows, SongEditDraft
  <2> QED  BY <1>0, <2>1 DEF Idle, Asked, Steps
<1>3. Plain(c) /\ c.said = {} /\ CarriedOK([c EXCEPT !.op = "draft"])
  BY <1>0 DEF Idle, Plain, CarriedOK
<1> HIDE DEF c
<1> QED  BY <1>1, <1>2, <1>3, BeginFrame DEF c

LEMMA ShareReadKeeps == ASSUME Inv, NEW r \in Requests, ShareRead(r) PROVE Inv'
<1>0. live \subseteq Songs /\ rows.offline \subseteq Songs
  BY DEF Inv, TypesOK, Rows, UserOfflineSong
<1>1. PICK s \in live :
          /\ Begin(r, "share", [Idle EXCEPT !.at = "commit", !.song = s])
          /\ Read
  BY DEF ShareRead
<1> DEFINE c == [Idle EXCEPT !.at = "commit", !.song = s]
<1>2. c \in Asked({NULL})  BY <1>0 DEF Idle, Asked, Steps
<1>3. Plain(c) /\ c.said = {} /\ CarriedOK([c EXCEPT !.op = "share"])
  BY <1>0 DEF Idle, Plain, CarriedOK
<1> HIDE DEF c
<1> QED  BY <1>1, <1>2, <1>3, BeginFrame DEF c

LEMMA SettingsReadKeeps == ASSUME Inv, NEW r \in Requests, SettingsRead(r) PROVE Inv'
<1>0. live \subseteq Songs /\ rows.offline \subseteq Songs
  BY DEF Inv, TypesOK, Rows, UserOfflineSong
<1>1. PICK f \in Formats \cup {NULL} :
          /\ Begin(r, "settings", [Idle EXCEPT !.value = f, !.seen = rows.settings,
                 !.at = IF rows.settings = NULL THEN "create" ELSE "set"])
          /\ Read
  BY DEF SettingsRead
<1> DEFINE c == [Idle EXCEPT !.value = f, !.seen = rows.settings,
                 !.at = IF rows.settings = NULL THEN "create" ELSE "set"]
<1>2. c \in Asked({NULL})
  <2>1. rows.settings \in Formats \cup {NULL}  BY DEF Inv, TypesOK, Rows, UserSettings
  <2> QED  BY <1>0, <2>1 DEF Idle, Asked, Steps
<1>3. Plain(c) /\ c.said = {} /\ CarriedOK([c EXCEPT !.op = "settings"])
  BY <1>0 DEF Idle, Plain, CarriedOK
<1> HIDE DEF c
<1> QED  BY <1>1, <1>2, <1>3, BeginFrame DEF c

LEMMA MarkReadKeeps == ASSUME Inv, NEW r \in Requests, MarkRead(r) PROVE Inv'
<1>0. live \subseteq Songs /\ rows.offline \subseteq Songs
  BY DEF Inv, TypesOK, Rows, UserOfflineSong
<1>1. PICK s \in Songs :
          /\ Begin(r, "mark", [Idle EXCEPT !.at = "commit", !.song = s])
          /\ Read
  BY DEF MarkRead
<1> DEFINE c == [Idle EXCEPT !.at = "commit", !.song = s]
<1>2. c \in Asked({NULL})  BY <1>0 DEF Idle, Asked, Steps
<1>3. Plain(c) /\ c.said = {} /\ CarriedOK([c EXCEPT !.op = "mark"])
  BY <1>0 DEF Idle, Plain, CarriedOK
<1> HIDE DEF c
<1> QED  BY <1>1, <1>2, <1>3, BeginFrame DEF c

LEMMA SyncReadKeeps == ASSUME Inv, NEW r \in Requests, SyncRead(r) PROVE Inv'
<1>0. live \subseteq Songs /\ rows.offline \subseteq Songs
  BY DEF Inv, TypesOK, Rows, UserOfflineSong
<1>1. PICK ids \in SUBSET Songs :
          /\ Begin(r, "sync", [Idle EXCEPT !.at = "select", !.ids = ids, !.known = rows.offline])
          /\ Read
  BY DEF SyncRead
<1> DEFINE c == [Idle EXCEPT !.at = "select", !.ids = ids, !.known = rows.offline]
<1>2. c \in Asked({NULL})  BY <1>0 DEF Idle, Asked, Steps
<1>3. Plain(c) /\ c.said = {} /\ CarriedOK([c EXCEPT !.op = "sync"])
  BY <1>0 DEF Idle, Plain, CarriedOK
<1> HIDE DEF c
<1> QED  BY <1>1, <1>2, <1>3, BeginFrame DEF c

\* Commits.
LEMMA PlayCommitKeeps == ASSUME Inv, NEW r \in Requests, PlayCommit(r) PROVE Inv'
<1> DEFINE s == req[r].song
           v == [rows.plays[s] EXCEPT ![0] = @ + 1]
<1>0. live \subseteq Songs /\ rows \in Rows  BY DEF Inv, TypesOK
<1>1. RowsOnly /\ End(r) /\ req[r].at = "commit" /\ UNCHANGED <<account, live>>
  BY DEF PlayCommit, At, RowsOnly
<1>2. CASE UNCHANGED rows  BY <1>1, <1>2, SameRows, EndFrame
<1>3. CASE rows' # rows
  <2>1. Insertable(s) /\ rows' = [rows EXCEPT !.plays[s] = v]
    BY <1>3 DEF PlayCommit
  <2>2. s \in Songs  BY <1>0, <2>1 DEF Insertable
  <2>3. v \in [0..Window -> Nat]
    BY <1>0, <2>2, UserRowsAssumption DEF Rows, SongPlay
  <2> HIDE DEF s, v
  <2> QED  BY <1>1, <2>1, <2>2, <2>3, InsertedPlay, EndFrame
<1> QED  BY <1>2, <1>3

LEMMA AddCommitKeeps == ASSUME Inv, NEW r \in Requests, AddCommit(r) PROVE Inv'
<1> DEFINE s == req[r].song
           v == 0
<1>0. live \subseteq Songs /\ rows \in Rows  BY DEF Inv, TypesOK
<1>1. RowsOnly /\ End(r) /\ req[r].at = "commit" /\ UNCHANGED <<account, live>>
  BY DEF AddCommit, At, RowsOnly
<1>2. CASE UNCHANGED rows  BY <1>1, <1>2, SameRows, EndFrame
<1>3. CASE rows' # rows
  <2>1. Insertable(s) /\ rows' = [rows EXCEPT !.library[s] = v]
    BY <1>3 DEF AddCommit
  <2>2. s \in Songs  BY <1>0, <2>1 DEF Insertable
  <2>3. v \in Positions
    BY UserRowsAssumption
  <2> HIDE DEF s, v
  <2> QED  BY <1>1, <2>1, <2>2, <2>3, InsertedEntry, EndFrame
<1> QED  BY <1>2, <1>3

LEMMA DraftCommitKeeps == ASSUME Inv, NEW r \in Requests, DraftCommit(r) PROVE Inv'
<1> DEFINE s == req[r].song
           v == Changed(r, rows.draft[s])
<1>0. live \subseteq Songs /\ rows \in Rows  BY DEF Inv, TypesOK
<1>1. RowsOnly /\ End(r) /\ req[r].at = "commit" /\ UNCHANGED <<account, live>>
  BY DEF DraftCommit, At, RowsOnly
<1>2. CASE UNCHANGED rows  BY <1>1, <1>2, SameRows, EndFrame
<1>3. CASE rows' # rows
  <2>1. Insertable(s) /\ rows' = [rows EXCEPT !.draft[s] = v]
    BY <1>3 DEF DraftCommit
  <2>2. s \in Songs  BY <1>0, <2>1 DEF Insertable
  <2>3. v \in Params
    <3>1. req[r].value \in Params  BY DEF Inv, CarriedOK, DraftCommit, At
    <3>2. CASE req[r].seen = NULL
      BY <3>1, <3>2, UserRowsAssumption DEF Changed
    <3>3. CASE req[r].seen # NULL
      <4>1. rows.draft[s] # NULL  BY <1>3, <3>3 DEF DraftCommit
      <4>2. rows.draft[s] \in Params  BY <1>0, <2>2, <4>1 DEF Rows, SongEditDraft
      <4> QED  BY <3>1, <4>2 DEF Changed
    <3> QED  BY <3>2, <3>3
  <2> HIDE DEF s, v
  <2> QED  BY <1>1, <2>1, <2>2, <2>3, InsertedDraft, EndFrame
<1> QED  BY <1>2, <1>3

LEMMA ShareCommitKeeps == ASSUME Inv, NEW r \in Requests, ShareCommit(r) PROVE Inv'
<1> DEFINE s == req[r].song
           v == rows.shares[s] \cup {0}
<1>0. live \subseteq Songs /\ rows \in Rows  BY DEF Inv, TypesOK
<1>1. RowsOnly /\ End(r) /\ req[r].at = "commit" /\ UNCHANGED <<account, live>>
  BY DEF ShareCommit, At, RowsOnly
<1>2. CASE UNCHANGED rows  BY <1>1, <1>2, SameRows, EndFrame
<1>3. CASE rows' # rows
  <2>1. Insertable(s) /\ rows' = [rows EXCEPT !.shares[s] = v]
    BY <1>3 DEF ShareCommit
  <2>2. s \in Songs  BY <1>0, <2>1 DEF Insertable
  <2>3. v \in SUBSET (0..ShareLife)
    BY <1>0, <2>2, UserRowsAssumption DEF Rows, SongShareToken
  <2> HIDE DEF s, v
  <2> QED  BY <1>1, <2>1, <2>2, <2>3, InsertedLink, EndFrame
<1> QED  BY <1>2, <1>3

\* An entry that is there belongs to a song and an account that are there.
LEMMA PositionCommitKeeps == ASSUME Inv, NEW r \in Requests, PositionCommit(r) PROVE Inv'
<1> DEFINE s == req[r].song
           v == Changed(r, rows.library[s])
<1>1. RowsOnly /\ End(r) /\ req[r].at = "commit" /\ UNCHANGED <<account, live>>
  BY DEF PositionCommit, At, RowsOnly
<1>2. CASE UNCHANGED rows  BY <1>1, <1>2, SameRows, EndFrame
<1>3. CASE rows' # rows
  <2>1. rows.library[s] # NULL /\ rows' = [rows EXCEPT !.library[s] = v]
    BY <1>3 DEF PositionCommit
  <2>2. s \in Songs /\ v \in Positions
    <3>1. s \in Songs /\ req[r].value \in Positions
      BY DEF Inv, CarriedOK, PositionCommit, At
    <3>2. rows.library[s] \in Positions
      BY <2>1, <3>1 DEF Inv, TypesOK, Rows, UserSong
    <3> QED  BY <3>1, <3>2 DEF Changed
  <2>3. Insertable(s)
    BY <2>1, <2>2 DEF Inv, RowsHaveTheirSongs, Insertable, NoRows
  <2> HIDE DEF s, v
  <2> QED  BY <1>1, <2>1, <2>2, <2>3, InsertedEntry, EndFrame
<1> QED  BY <1>2, <1>3

LEMMA MarkCommitKeeps == ASSUME Inv, NEW r \in Requests, MarkCommit(r) PROVE Inv'
<1>1. RowsOnly /\ End(r) /\ req[r].at = "commit" /\ UNCHANGED <<account, live>>
  BY DEF MarkCommit, At, RowsOnly
<1>2. CASE UNCHANGED rows  BY <1>1, <1>2, SameRows, EndFrame
<1>3. CASE rows' # rows
  <2>1. PICK o \in SUBSET live : account /\ rows' = [rows EXCEPT !.offline = @ \cup o]
    BY <1>3 DEF MarkCommit, Insertable
  <2> QED  BY <1>1, <2>1, MarkedRows, UserRowsAssumption, EndFrame
<1> QED  BY <1>2, <1>3

LEMMA SyncCommitKeeps == ASSUME Inv, NEW r \in Requests, SyncCommit(r) PROVE Inv'
<1>1. RowsOnly /\ End(r) /\ req[r].at = "commit" /\ UNCHANGED <<account, live>>
  BY DEF SyncCommit, At, RowsOnly
<1>2. CASE UNCHANGED rows  BY <1>1, <1>2, SameRows, EndFrame
<1>3. CASE rows' # rows
  <2>1. SyncFits(r) /\ rows' = [rows EXCEPT !.offline = @ \cup req[r].todo]
    BY <1>3 DEF SyncCommit
  <2>2. req[r].todo # {}
    BY <1>3, <2>1 DEF Inv, TypesOK, Rows
  <2>3. account /\ req[r].todo \in SUBSET live  BY <2>1, <2>2 DEF SyncFits, Insertable
  <2> QED  BY <1>1, <2>1, <2>3, MarkedRows, UserRowsAssumption, EndFrame
<1> QED  BY <1>2, <1>3

LEMMA SyncSelectKeeps == ASSUME Inv, NEW r \in Requests, SyncSelect(r) PROVE Inv'
<1> DEFINE c == [req[r] EXCEPT !.at = "commit", !.said = live,
                               !.todo = (req[r].ids \ req[r].known) \cap live]
<1>0. live \subseteq Songs /\ live \subseteq used /\ req[r] \in Asked(work \cup {NULL})
  BY DEF Inv, TypesOK
<1>1. Read /\ req' = [req EXCEPT ![r] = c] /\ req[r].at = "select" /\ req[r].op = "sync"
  BY DEF SyncSelect, Go, At
<1>2. c \in Asked(work \cup {NULL})  BY <1>0 DEF Asked, Steps
<1>3. c.op = "sync" /\ c.at = "commit" /\ c.said = live /\ c.todo \subseteq c.said
  BY <1>0, <1>1 DEF Asked
<1> HIDE DEF c
<1>4. Plain(c) /\ CarriedOK(c)  BY <1>0, <1>3 DEF Plain, CarriedOK
<1> QED  BY <1>1, <1>2, <1>3, <1>4, ReadFrame

LEMMA SettingsSetKeeps == ASSUME Inv, NEW r \in Requests, SettingsSet(r) PROVE Inv'
<1>1. /\ RowsOnly /\ End(r) /\ req[r].at = "set" /\ req[r].op = "settings"
      /\ UNCHANGED <<account, live>>
  BY DEF SettingsSet, At, RowsOnly
<1>2. CASE UNCHANGED rows  BY <1>1, <1>2, SameRows, EndFrame
<1>3. CASE rows' # rows
  <2>1. /\ req[r].value # NULL /\ rows.settings # NULL
        /\ rows' = [rows EXCEPT !.settings = Changed(r, rows.settings)]
    BY <1>3 DEF SettingsSet
  <2>2. Changed(r, rows.settings) \in Formats
    <3>1. req[r].value \in Formats  BY <1>1, <2>1 DEF Inv, CarriedOK
    <3>2. rows.settings \in Formats  BY <2>1 DEF Inv, TypesOK, Rows, UserSettings
    <3> QED  BY <3>1, <3>2 DEF Changed
  <2>3. account  BY <2>1 DEF Inv, RowsHaveTheirSongs, NoRows
  <2> QED  BY <1>1, <2>1, <2>2, <2>3, MarkedRows, EndFrame
<1> QED  BY <1>2, <1>3

LEMMA SettingsCreateKeeps == ASSUME Inv, NEW r \in Requests, SettingsCreate(r) PROVE Inv'
<1>1. RowsOnly /\ req[r].at = "create" /\ req[r].op = "settings" /\ UNCHANGED <<account, live>>
  BY DEF SettingsCreate, At, RowsOnly
<1>2. CASE UNCHANGED rows /\ End(r)  BY <1>1, <1>2, SameRows, EndFrame
<1>3. CASE account /\ rows' = [rows EXCEPT !.settings = Default] /\ Go(r, [req[r] EXCEPT !.at = "refresh"])
  <2>1. /\ rows' \in Rows /\ RowsHaveTheirSongs'
        /\ \A s \in Songs : rows'.downloads[s] >= rows.downloads[s]
    BY <1>1, <1>3, MarkedRows, UserRowsAssumption
  <2> DEFINE c == [req[r] EXCEPT !.at = "refresh"]
  <2>2. req[r] \in Asked(work \cup {NULL}) /\ CarriedOK(req[r])  BY DEF Inv, TypesOK
  <2>3. /\ c \in Asked(work \cup {NULL}) /\ c.at = "refresh" /\ c.op = "settings"
        /\ c.said = req[r].said /\ c.value = req[r].value
    BY <1>1, <2>2 DEF Asked, Steps
  <2> HIDE DEF c
  <2>4. req' \in [Requests -> Asked(work \cup {NULL})] /\ req'[r] = c
        /\ \A q \in Requests \ {r} : req'[q] = req[q]
    BY <1>3, <2>3 DEF Inv, TypesOK, Go, c
  <2>5. Plain(req[r])' /\ CarriedOK(req[r])'
    BY <1>1, <2>2, <2>3, <2>4 DEF Plain, CarriedOK, RowsOnly
  <2> QED  BY <1>1, <2>1, <2>3, <2>4, <2>5, Frame
<1> QED  BY <1>2, <1>3 DEF SettingsCreate

LEMMA SettingsRefreshKeeps == ASSUME Inv, NEW r \in Requests, SettingsRefresh(r) PROVE Inv'
<1>1. Read /\ req[r].at = "refresh" /\ req[r].op = "settings"
  BY DEF SettingsRefresh, At
<1>2. CASE End(r)  BY <1>1, <1>2, SameRows, EndFrame DEF Read, RowsOnly
<1>3. CASE Go(r, [req[r] EXCEPT !.at = "set", !.seen = rows.settings])
  <2> DEFINE c == [req[r] EXCEPT !.at = "set", !.seen = rows.settings]
  <2>1. /\ req[r] \in Asked(work \cup {NULL}) /\ CarriedOK(req[r])
        /\ rows.settings \in Formats \cup {NULL}
    BY DEF Inv, TypesOK, Rows, UserSettings
  <2>2. /\ c \in Asked(work \cup {NULL}) /\ c.at = "set" /\ c.op = "settings"
        /\ c.said = req[r].said /\ c.value = req[r].value
    BY <1>1, <2>1 DEF Asked, Steps
  <2>3. req' = [req EXCEPT ![r] = c]  BY <1>3 DEF Go
  <2> HIDE DEF c
  <2>4. Plain(c) /\ CarriedOK(c)  BY <1>1, <2>1, <2>2 DEF Plain, CarriedOK
  <2> QED  BY <1>1, <2>2, <2>3, <2>4, ReadFrame
<1> QED  BY <1>2, <1>3 DEF SettingsRefresh

\* A request that fails changes nothing.
LEMMA RefusedKeeps == ASSUME Inv, NEW r \in Requests, Refused(r) PROVE Inv'
BY SameRows, EndFrame DEF Refused, Read, RowsOnly

\* Requests of one step.
LEMMA QuickKeeps ==
    ASSUME Inv, UNCHANGED req, RowsOnly, rows' \in Rows, RowsHaveTheirSongs',
           \A s \in Songs : rows'.downloads[s] >= rows.downloads[s]
    PROVE  Inv'
BY Frame DEF Inv, TypesOK

LEMMA RemoveKeeps == ASSUME Inv, RemoveCommit \/ UndraftCommit \/ UnmarkCommit PROVE Inv'
<1>0. UNCHANGED req /\ RowsOnly /\ UNCHANGED <<account, live>>
  BY DEF RemoveCommit, UndraftCommit, UnmarkCommit, RowsOnly
<1>1. rows \in Rows /\ rows.library \in UserSong /\ rows.draft \in SongEditDraft
  BY DEF Inv, TypesOK, Rows
<1> DEFINE Less == /\ rows' \in Rows /\ RowsHaveTheirSongs'
                   /\ \A s \in Songs : rows'.downloads[s] >= rows.downloads[s]
<1>2. ASSUME RemoveCommit PROVE Less
  <2>1. PICK gone \in SUBSET Songs :
          rows' = [rows EXCEPT !.library = [s \in Songs |-> IF s \in gone THEN NULL ELSE @[s]],
                               !.offline = @ \ gone]
    BY <1>2 DEF RemoveCommit
  <2> DEFINE f == [s \in Songs |-> IF s \in gone THEN NULL ELSE rows.library[s]]
  <2>2. f \in UserSong /\ \A s \in Songs : f[s] = NULL \/ f[s] = rows.library[s]
    BY <1>1 DEF UserSong
  <2>3. rows' = [rows EXCEPT !.library = f, !.draft = rows.draft, !.offline = @ \ gone]
    BY <1>1, <2>1 DEF Rows
  <2> HIDE DEF f
  <2> QED  BY <1>0, <1>1, <2>2, <2>3, RemovedRows
<1>3. ASSUME UndraftCommit PROVE Less
  <2>1. PICK s \in Songs : rows' = [rows EXCEPT !.draft[s] = NULL]
    BY <1>3 DEF UndraftCommit
  <2> DEFINE d == [rows.draft EXCEPT ![s] = NULL]
  <2>2. d \in SongEditDraft /\ \A t \in Songs : d[t] = NULL \/ d[t] = rows.draft[t]
    BY <1>1 DEF SongEditDraft
  <2>3. rows' = [rows EXCEPT !.library = rows.library, !.draft = d, !.offline = @ \ {}]
    BY <1>1, <2>1 DEF Rows
  <2> HIDE DEF d
  <2> QED  BY <1>0, <1>1, <2>2, <2>3, RemovedRows
<1>4. ASSUME UnmarkCommit PROVE Less
  <2>1. PICK gone \in SUBSET Songs : rows' = [rows EXCEPT !.offline = @ \ gone]
    BY <1>4 DEF UnmarkCommit
  <2>2. rows' = [rows EXCEPT !.library = rows.library, !.draft = rows.draft, !.offline = @ \ gone]
    BY <1>1, <2>1 DEF Rows
  <2> QED  BY <1>0, <1>1, <2>2, RemovedRows
<1> QED  BY <1>0, <1>2, <1>3, <1>4, QuickKeeps

LEMMA TickKeeps == ASSUME Inv, Tick PROVE Inv'
<1> USE UserRowsAssumption
<1> DEFINE p == [s \in Songs |-> InWindow(rows.plays[s])]
           h == [s \in Songs |-> Younger(rows.shares[s])]
<1>0. rows \in Rows /\ rows.plays \in SongPlay /\ rows.shares \in SongShareToken
  BY DEF Inv, TypesOK, Rows
<1>1. rows' = [rows EXCEPT !.plays = p, !.shares = h] /\ UNCHANGED req /\ RowsOnly
  BY DEF Tick
<1>2. p \in SongPlay
  <2>1. \A s \in Songs : InWindow(rows.plays[s]) \in [0..Window -> Nat]
    BY <1>0 DEF InWindow, SongPlay
  <2> QED  BY <2>1 DEF SongPlay
<1>3. h \in SongShareToken
  <2>1. \A s \in Songs : Younger(rows.shares[s]) \in SUBSET (0..ShareLife)
    BY <1>0 DEF Younger, SongShareToken
  <2> QED  BY <2>1 DEF SongShareToken
<1>4. InWindow(NoPlays) = NoPlays
  BY DEF InWindow, NoPlays
<1>5. Younger({}) = {}
  BY DEF Younger
<1>6. ASSUME NEW s \in Songs
      PROVE  /\ (rows.plays[s] = NoPlays) => (p[s] = NoPlays)
             /\ (rows.shares[s] = {}) => (h[s] = {})
  BY <1>4, <1>5
<1> HIDE DEF p, h
<1>7. rows' \in Rows  BY <1>0, <1>1, <1>2, <1>3 DEF Rows
<1>8. /\ rows'.plays = p /\ rows'.shares = h /\ rows'.library = rows.library
      /\ rows'.draft = rows.draft /\ rows'.offline = rows.offline
      /\ rows'.downloads = rows.downloads
  BY <1>0, <1>1 DEF Rows
<1>9. RowsHaveTheirSongs'
  <2>1. ASSUME ~account PROVE rows' = NoRows
    <3>1. rows = NoRows  BY <2>1 DEF Inv, RowsHaveTheirSongs
    <3>2. /\ p = [s \in Songs |-> NoPlays] /\ h = [s \in Songs |-> {}]
          /\ rows.plays = [s \in Songs |-> NoPlays] /\ rows.shares = [s \in Songs |-> {}]
      <4>1. rows.plays = [s \in Songs |-> NoPlays] /\ rows.shares = [s \in Songs |-> {}]
        BY <3>1 DEF NoRows
      <4>2. ASSUME NEW s \in Songs PROVE p[s] = NoPlays /\ h[s] = {}
        <5>1. rows.plays[s] = NoPlays /\ rows.shares[s] = {}  BY <4>1
        <5> QED  BY <1>6, <5>1
      <4>3. p = [s \in Songs |-> NoPlays]  BY <1>2, <4>2 DEF SongPlay
      <4>4. h = [s \in Songs |-> {}]  BY <1>3, <4>2 DEF SongShareToken
      <4> QED  BY <4>1, <4>3, <4>4
    <3>3. rows' = [rows EXCEPT !.plays = rows.plays, !.shares = rows.shares]
      BY <1>1, <3>2
    <3> QED  BY <1>0, <3>1, <3>3 DEF Rows
  <2>2. ASSUME NEW s \in Songs \ live
        PROVE  /\ rows'.library[s] = NULL /\ s \notin rows'.offline /\ rows'.draft[s] = NULL
               /\ rows'.plays[s] = NoPlays /\ rows'.shares[s] = {} /\ rows'.downloads[s] = 0
    <3>1. s \in Songs /\ rows.plays[s] = NoPlays /\ rows.shares[s] = {}
      BY DEF RowsHaveTheirSongs, Inv
    <3>2. p[s] = NoPlays /\ h[s] = {}  BY <1>6, <3>1
    <3> QED  BY <1>8, <3>2 DEF RowsHaveTheirSongs, Inv
  <2>3. live' = live /\ account' = account  BY <1>1 DEF RowsOnly
  <2> QED  BY <2>1, <2>2, <2>3 DEF RowsHaveTheirSongs
<1>10. \A s \in Songs : rows'.downloads[s] >= rows.downloads[s]
  BY <1>0, <1>8 DEF Rows, SongDownload
<1> QED  BY <1>1, <1>7, <1>9, <1>10, QuickKeeps

LEMMA AnswerKeeps == ASSUME Inv, NEW r \in Requests, Answer(r) PROVE Inv'
BY SameRows, EndFrame DEF Answer, At, Read, RowsOnly

LEMMA CountKeeps == ASSUME Inv, NEW r \in Requests, Count(r) PROVE Inv'
<1>0. /\ RowsOnly /\ req[r].at = "count" /\ req[r].op = "download"
      /\ UNCHANGED <<account, live>>
      /\ req[r] \in Asked(work \cup {NULL}) /\ CarriedOK(req[r])
      /\ live \subseteq Songs /\ rows \in Rows
  BY DEF Count, At, RowsOnly, Inv, TypesOK
<1>1. CASE UNCHANGED rows /\ End(r)  BY <1>0, <1>1, SameRows, EndFrame
<1>2. ASSUME NEW s \in req[r].todo, Insertable(s),
             rows' = [rows EXCEPT !.downloads[s] = IF @ < MaxCount THEN @ + 1 ELSE @],
             Go(r, [req[r] EXCEPT !.at = IF req[r].todo = {s} THEN "answer" ELSE "count",
                                  !.todo = req[r].todo \ {s}])
      PROVE  Inv'
  <2> DEFINE d == rows.downloads[s]
             v == IF d < MaxCount THEN d + 1 ELSE d
             c == [req[r] EXCEPT !.at = IF req[r].todo = {s} THEN "answer" ELSE "count",
                                 !.todo = req[r].todo \ {s}]
  <2>1. s \in Songs  BY <1>0, <1>2 DEF Insertable
  <2>2. rows.downloads \in [Songs -> 0..MaxCount]  BY <1>0 DEF Rows, SongDownload
  <2>3. v \in 0..MaxCount /\ v >= d /\ v > 0
    BY <2>1, <2>2, UserRowsAssumption
  <2>4. rows' = [rows EXCEPT !.downloads[s] = v]  BY <1>2
  <2>5. rows'.downloads[s] = v  BY <2>1, <2>2, <2>4, <1>0 DEF Rows
  <2> HIDE DEF v
  <2>6. /\ rows' \in Rows /\ RowsHaveTheirSongs'
        /\ \A t \in Songs : rows'.downloads[t] >= rows.downloads[t]
    BY <1>0, <1>2, <2>1, <2>3, <2>4, InsertedDownload
  <2>7. \A t \in Songs : rows.downloads[t] > 0 => rows'.downloads[t] > 0
    <3>1. \A t \in Songs : rows'.downloads[t] \in Nat /\ rows.downloads[t] \in Nat
      BY <2>2, <2>6 DEF Rows, SongDownload
    <3> QED  BY <2>6, <3>1
  <2>8. /\ c \in Asked(work \cup {NULL}) /\ c.said = req[r].said /\ c.op = "download"
        /\ c.todo = req[r].todo \ {s} /\ c.at \in {"count", "answer"}
        /\ c.at = "answer" => c.todo = {}
    BY <1>0 DEF Asked, Steps
  <2> HIDE DEF c
  <2>9. /\ req' \in [Requests -> Asked(work \cup {NULL})] /\ req'[r] = c
        /\ \A q \in Requests \ {r} : req'[q] = req[q]
    BY <1>2, <2>8 DEF Inv, TypesOK, Go, c
  <2>10. account' => \A t \in c.said \cap live : t \in c.todo \/ rows'.downloads[t] > 0
    BY <1>0, <2>3, <2>5, <2>7, <2>8 DEF CarriedOK
  <2>11. Plain(req[r])' /\ CarriedOK(req[r])'
    BY <1>0, <2>8, <2>9, <2>10 DEF Plain, CarriedOK, RowsOnly
  <2> QED  BY <1>0, <2>6, <2>8, <2>9, <2>11, Frame
<1> QED  BY <1>1, <1>2 DEF Count

-----------------------------------------------------------------------------
(* Steps that make or delete songs *)

LEMMA DownloadReadKeeps == ASSUME Inv, NEW r \in Requests, DownloadRead(r) PROVE Inv'
<1>0. live \subseteq used /\ used \subseteq Songs /\ NULL \notin Songs /\ files \subseteq used
  BY UserRowsAssumption DEF Inv, TypesOK
<1>1. CASE /\ Begin(r, "download", [Idle EXCEPT !.at = "count", !.todo = live, !.said = live])
  <2> DEFINE c == [Idle EXCEPT !.at = "count", !.todo = live, !.said = live]
  <2>1. c \in Asked({NULL})  BY <1>0 DEF Idle, Asked, Steps
  <2>2. Plain(c) /\ c.said = live /\ c.song = NULL /\ CarriedOK([c EXCEPT !.op = "download"])
    BY <1>0 DEF Idle, Plain, CarriedOK
  <2>3. req'[r].song = NULL
    BY <1>1 DEF Begin, Idle, Inv, TypesOK
  <2>4. UNCHANGED used  BY <1>0, <2>3 DEF DownloadRead
  <2>5. Read  BY <2>4 DEF DownloadRead, Read, RowsOnly
  <2> HIDE DEF c
  <2> QED  BY <1>1, <2>1, <2>2, <2>5, BeginFrame DEF c
<1>2. ASSUME NEW s \in Songs \ used,
             Begin(r, "download", [Idle EXCEPT !.at = "fetch", !.song = s])
      PROVE  Inv'
  <2> DEFINE c == [[Idle EXCEPT !.at = "fetch", !.song = s] EXCEPT !.op = "download"]
  <2>1. /\ c \in Asked(work \cup {NULL}) /\ c.op = "download" /\ c.at = "fetch" /\ c.song = s
        /\ c.said = {}
    BY <1>2 DEF Idle, Asked, Steps, Begin
  <2>2. /\ req' = [req EXCEPT ![r] = c] /\ req[r].at = "idle"
    BY <1>2 DEF Begin, Idle
  <2> HIDE DEF c
  <2>3. req'[r] = c /\ \A q \in Requests \ {r} : req'[q] = req[q]
    BY <2>2 DEF Inv, TypesOK
  <2>4. used' = used \cup {s} /\ UNCHANGED <<work, account, live, files, rows, left>>
    BY <2>1, <2>3 DEF DownloadRead
  <2>5. TypesOK'
    <3>1. req' \in [Requests -> Asked(work \cup {NULL})]  BY <2>1, <2>2 DEF Inv, TypesOK
    <3> QED  BY <1>0, <2>4, <3>1 DEF Inv, TypesOK, Asked
  <2>6. RowsHaveTheirSongs'  BY <2>4 DEF Inv, RowsHaveTheirSongs
  <2>7. ASSUME NEW q \in Requests PROVE CarriedOK(req[q])'
    <3>1. CASE q = r  BY <2>1, <2>3, <3>1 DEF CarriedOK
    <3>2. CASE q # r  BY <2>3, <2>4, <3>2 DEF Inv, CarriedOK
    <3> QED  BY <3>1, <3>2
  <2>8. UuidsOK'
    <3>1. /\ At(r, "download", "fetch")' /\ ~At(r, "download", "insert")' /\ ~Deleting(r)'
          /\ req'[r].song = s /\ req'[r].said = {}
          /\ ~At(r, "download", "insert") /\ ~Deleting(r)
      BY <2>1, <2>2, <2>3 DEF At, Deleting
    <3>2. ASSUME NEW q \in Requests \ {r}
          PROVE  /\ Making(q)' = Making(q) /\ Deleting(q)' = Deleting(q)
                 /\ At(q, "download", "fetch")' = At(q, "download", "fetch")
                 /\ At(q, "download", "insert")' = At(q, "download", "insert")
                 /\ req'[q] = req[q]
                 /\ req[q].said \subseteq used
                 /\ (Making(q) \/ Deleting(q)) => req[q].song \in used
      BY <2>3 DEF At, Making, Deleting, Inv, CarriedOK, UuidsOK
    <3>3. ASSUME NEW q \in Requests
          PROVE  /\ Making(q)' => req'[q].song \in used' \ live'
                 /\ At(q, "download", "fetch")' => req'[q].song \notin files'
                 /\ At(q, "download", "insert")' => req'[q].song \in files'
                 /\ Deleting(q)' => req'[q].song \in used' \ live'
      BY <1>0, <2>4, <3>1, <3>2 DEF Inv, UuidsOK, Making
    <3>4. ASSUME NEW p \in Requests, NEW q \in Requests, Making(p)'
          PROVE  /\ q # p /\ (Making(q)' \/ Deleting(q)') => req'[p].song # req'[q].song
                 /\ req'[p].song \notin req'[q].said
      BY <3>1, <3>2, <3>4 DEF Inv, UuidsOK
    <3>5. \A t \in (files' \ live') \ left' : \E q \in Requests :
              req'[q].song = t /\ (At(q, "download", "insert")' \/ Deleting(q)')
      BY <2>4, <3>1, <3>2 DEF Inv, UuidsOK
    <3>6. live' \subseteq files'  BY <2>4 DEF Inv, UuidsOK
    <3> QED  BY <3>3, <3>4, <3>5, <3>6 DEF UuidsOK
  <2> QED  BY <2>5, <2>6, <2>7, <2>8 DEF Inv
<1> QED  BY <1>1, <1>2 DEF DownloadRead

\* What the other requests have in hand.
Others(r) ==
    \A q \in Requests \ {r} :
        /\ req'[q] = req[q] /\ Making(q)' = Making(q) /\ Deleting(q)' = Deleting(q)
        /\ At(q, "download", "fetch")' = At(q, "download", "fetch")
        /\ At(q, "download", "insert")' = At(q, "download", "insert")

LEMMA OthersStay ==
    ASSUME Inv, NEW r \in Requests, NEW c, req' = [req EXCEPT ![r] = c]
    PROVE  Others(r) /\ req'[r] = c
<1>1. req'[r] = c /\ \A q \in Requests \ {r} : req'[q] = req[q]  BY DEF Inv, TypesOK
<1> QED  BY <1>1 DEF Others, Making, Deleting, At

LEMMA FetchedKeeps == ASSUME Inv, NEW r \in Requests, Fetched(r) PROVE Inv'
<1> DEFINE s == req[r].song
           c == [req[r] EXCEPT !.at = "insert"]
<1>0. /\ req[r].at = "fetch" /\ req[r].op = "download" /\ Making(r)
      /\ req[r] \in Asked(work \cup {NULL}) /\ CarriedOK(req[r])
      /\ UNCHANGED <<work, account, live, used, rows, left>>
  BY DEF Fetched, At, Making, Inv, TypesOK
<1>1. CASE UNCHANGED files /\ End(r)
  BY <1>0, <1>1, SameRows, EndFrame DEF RowsOnly
<1>2. CASE files' = files \cup {s} /\ Go(r, c)
  <2>1. /\ c \in Asked(work \cup {NULL}) /\ c.op = "download" /\ c.at = "insert"
        /\ c.song = s /\ c.said = req[r].said
    BY <1>0 DEF Asked, Steps
  <2> HIDE DEF c
  <2>2. req' = [req EXCEPT ![r] = c]  BY <1>2 DEF Go, c
  <2>3. Others(r) /\ req'[r] = c  BY <2>2, OthersStay
  <2> HIDE DEF s
  <2>4. s \in used \ live /\ s = req[r].song  BY <1>0 DEF Inv, UuidsOK, s
  <2>5. TypesOK'
    <3>1. req' \in [Requests -> Asked(work \cup {NULL})]  BY <2>1, <2>2 DEF Inv, TypesOK
    <3> QED  BY <1>0, <1>2, <2>4, <3>1 DEF Inv, TypesOK, Asked
  <2>6. RowsHaveTheirSongs'  BY <1>0 DEF Inv, RowsHaveTheirSongs
  <2>7. ASSUME NEW q \in Requests PROVE CarriedOK(req[q])'
    BY <1>0, <2>1, <2>3 DEF CarriedOK, Others, Inv
  <2>8. UuidsOK'
    <3>1. /\ Making(r)' /\ ~At(r, "download", "fetch")' /\ At(r, "download", "insert")'
          /\ ~Deleting(r)' /\ ~At(r, "download", "insert") /\ ~Deleting(r)
      BY <1>0, <2>1, <2>3 DEF At, Making, Deleting
    <3>2. ASSUME NEW q \in Requests
          PROVE  /\ Making(q)' => req'[q].song \in used' \ live'
                 /\ At(q, "download", "fetch")' => req'[q].song \notin files'
                 /\ At(q, "download", "insert")' => req'[q].song \in files'
                 /\ Deleting(q)' => req'[q].song \in used' \ live'
      <4>1. CASE q = r  BY <1>0, <1>2, <2>1, <2>3, <2>4, <3>1, <4>1 DEF Inv, UuidsOK
      <4>2. CASE q # r
        BY <1>0, <1>2, <2>3, <2>4, <4>2 DEF Inv, UuidsOK, Others, Making
      <4> QED  BY <4>1, <4>2
    <3>3. ASSUME NEW p \in Requests, NEW q \in Requests, Making(p)'
          PROVE  /\ q # p /\ (Making(q)' \/ Deleting(q)') => req'[p].song # req'[q].song
                 /\ req'[p].song \notin req'[q].said
      BY <1>0, <2>1, <2>3, <2>4, <3>1, <3>3 DEF Inv, UuidsOK, Others
    <3>4. \A t \in (files' \ live') \ left' : \E q \in Requests :
              req'[q].song = t /\ (At(q, "download", "insert")' \/ Deleting(q)')
      BY <1>0, <1>2, <2>1, <2>3, <3>1 DEF Inv, UuidsOK, Others
    <3>5. live' \subseteq files'  BY <1>0, <1>2 DEF Inv, UuidsOK
    <3> QED  BY <3>2, <3>3, <3>4, <3>5 DEF UuidsOK
  <2> QED  BY <2>5, <2>6, <2>7, <2>8 DEF Inv
<1> QED  BY <1>0, <1>1, <1>2 DEF Fetched

LEMMA InsertedKeeps ==
    ASSUME Inv, NEW r \in Requests, InsertSong(r), UNCHANGED left,
           live' = live \cup {req[r].song},
           Go(r, [req[r] EXCEPT !.at = "count", !.todo = {req[r].song}, !.said = {req[r].song}])
    PROVE  Inv'
<1> DEFINE s == req[r].song
           c == [req[r] EXCEPT !.at = "count", !.todo = {req[r].song}, !.said = {req[r].song}]
<1>0. /\ At(r, "download", "insert") /\ Making(r) /\ req[r].op = "download"
      /\ req[r] \in Asked(work \cup {NULL})
      /\ UNCHANGED <<work, account, used, files, rows, left>>
      /\ live' = live \cup {s} /\ live \subseteq used /\ used \subseteq Songs
  BY DEF InsertSong, At, Making, Inv, TypesOK
<1>1. s \in used \ live /\ s \in files  BY <1>0 DEF Inv, UuidsOK
<1>2. /\ c \in Asked(work \cup {NULL}) /\ c.op = "download" /\ c.at = "count"
      /\ c.said = {s} /\ c.todo = {s}
  BY <1>0, <1>1 DEF Asked, Steps
<1> HIDE DEF c
<1>3. req' = [req EXCEPT ![r] = c]  BY DEF Go, c
<1>4. Others(r) /\ req'[r] = c  BY <1>3, OthersStay
<1>5. s = req[r].song  OBVIOUS
<1> HIDE DEF s
<1>6. TypesOK'
  <2>1. req' \in [Requests -> Asked(work \cup {NULL})]  BY <1>2, <1>3 DEF Inv, TypesOK
  <2> QED  BY <1>0, <1>1, <2>1 DEF Inv, TypesOK, Asked
<1>7. RowsHaveTheirSongs'  BY <1>0 DEF Inv, RowsHaveTheirSongs
<1>8. ASSUME NEW q \in Requests PROVE CarriedOK(req[q])'
  <2>1. CASE q = r  BY <1>0, <1>1, <1>2, <1>4, <2>1 DEF CarriedOK
  <2>2. CASE q # r
    <3>1. s \notin req[q].said  BY <1>0, <1>5 DEF Inv, UuidsOK
    <3>2. req[q].said \cap live' = req[q].said \cap live  BY <1>0, <3>1
    <3> QED  BY <1>0, <1>4, <2>2, <3>2 DEF CarriedOK, Others, Inv
  <2> QED  BY <2>1, <2>2
<1>9. UuidsOK'
  <2>1. ~Making(r)' /\ ~Deleting(r)' /\ ~At(r, "download", "fetch")' /\ ~At(r, "download", "insert")'
    BY <1>2, <1>4 DEF At, Making, Deleting
  <2>2. ASSUME NEW q \in Requests \ {r}, Making(q) \/ Deleting(q) PROVE req[q].song # s
    BY <1>0, <1>5, <2>2 DEF Inv, UuidsOK
  <2>3. ASSUME NEW q \in Requests
        PROVE  /\ Making(q)' => req'[q].song \in used' \ live'
               /\ At(q, "download", "fetch")' => req'[q].song \notin files'
               /\ At(q, "download", "insert")' => req'[q].song \in files'
               /\ Deleting(q)' => req'[q].song \in used' \ live'
    <3>1. CASE q = r  BY <2>1, <3>1
    <3>2. CASE q # r  BY <1>0, <1>4, <2>2, <3>2 DEF Inv, UuidsOK, Others
    <3> QED  BY <3>1, <3>2
  <2>4. ASSUME NEW p \in Requests, NEW q \in Requests, Making(p)'
        PROVE  /\ q # p /\ (Making(q)' \/ Deleting(q)') => req'[p].song # req'[q].song
               /\ req'[p].song \notin req'[q].said
    <3>1. p # r /\ Making(p) /\ req'[p] = req[p] /\ req[p].song # s
      BY <1>4, <2>1, <2>2, <2>4 DEF Others
    <3>2. CASE q = r  BY <1>2, <1>4, <2>1, <3>1, <3>2
    <3>3. CASE q # r  BY <1>4, <3>1, <3>3 DEF Inv, UuidsOK, Others
    <3> QED  BY <3>2, <3>3
  <2>5. \A t \in (files' \ live') \ left' : \E q \in Requests :
            req'[q].song = t /\ (At(q, "download", "insert")' \/ Deleting(q)')
    <3>1. SUFFICES ASSUME NEW t \in (files \ live) \ left, t # s
                   PROVE  \E q \in Requests : req'[q].song = t
                              /\ (At(q, "download", "insert")' \/ Deleting(q)')
      BY <1>0
    <3>2. PICK q \in Requests : req[q].song = t /\ (At(q, "download", "insert") \/ Deleting(q))
      BY <3>1 DEF Inv, UuidsOK
    <3>3. q # r  BY <1>5, <3>1, <3>2
    <3> QED  BY <1>4, <3>2, <3>3 DEF Others
  <2>6. live' \subseteq files'  BY <1>0, <1>1 DEF Inv, UuidsOK
  <2> QED  BY <2>3, <2>4, <2>5, <2>6 DEF UuidsOK
<1> QED  BY <1>6, <1>7, <1>8, <1>9 DEF Inv

\* The cascade leaves no row of what is gone, and every other row.
LEMMA WithoutRows ==
    ASSUME rows \in Rows, NEW gone \in SUBSET Songs
    PROVE  LET w == Without(rows, gone) IN
           /\ w \in Rows
           /\ \A s \in Songs \ gone :
                  /\ w.library[s] = rows.library[s] /\ w.draft[s] = rows.draft[s]
                  /\ w.plays[s] = rows.plays[s] /\ w.shares[s] = rows.shares[s]
                  /\ w.downloads[s] = rows.downloads[s]
           /\ \A s \in gone :
                  /\ w.library[s] = NULL /\ s \notin w.offline /\ w.draft[s] = NULL
                  /\ w.plays[s] = NoPlays /\ w.shares[s] = {} /\ w.downloads[s] = 0
           /\ w.offline \subseteq rows.offline
           /\ rows = NoRows => w = NoRows
<1> DEFINE w == Without(rows, gone)
           l == [s \in Songs |-> IF s \in gone THEN NULL ELSE rows.library[s]]
           d == [s \in Songs |-> IF s \in gone THEN NULL ELSE rows.draft[s]]
           p == [s \in Songs |-> IF s \in gone THEN NoPlays ELSE rows.plays[s]]
           h == [s \in Songs |-> IF s \in gone THEN {} ELSE rows.shares[s]]
           n == [s \in Songs |-> IF s \in gone THEN 0 ELSE rows.downloads[s]]
<1>1. w = [library |-> l, offline |-> rows.offline \ gone, draft |-> d,
           settings |-> rows.settings, plays |-> p, shares |-> h, downloads |-> n]
  BY DEF Without
<1>2. l \in UserSong /\ d \in SongEditDraft  BY DEF Rows, UserSong, SongEditDraft
<1>3. NoPlays \in [0..Window -> Nat]  BY UserRowsAssumption DEF NoPlays
<1>4. p \in SongPlay /\ h \in SongShareToken  BY <1>3 DEF Rows, SongPlay, SongShareToken
<1>5. n \in SongDownload  BY UserRowsAssumption DEF Rows, SongDownload
<1>6. rows.offline \ gone \in UserOfflineSong /\ rows.settings \in UserSettings
  BY DEF Rows, UserOfflineSong
<1>7. ASSUME rows = NoRows PROVE w = NoRows
  <2>1. l = [s \in Songs |-> NULL] /\ d = [s \in Songs |-> NULL]  BY <1>7 DEF NoRows
  <2>2. p = [s \in Songs |-> NoPlays] /\ h = [s \in Songs |-> {}] /\ n = [s \in Songs |-> 0]
    BY <1>7 DEF NoRows
  <2>3. rows.offline \ gone = {} /\ rows.settings = NULL  BY <1>7 DEF NoRows
  <2> QED  BY <1>1, <2>1, <2>2, <2>3 DEF NoRows
<1>8. w \in Rows  BY <1>1, <1>2, <1>4, <1>5, <1>6 DEF Rows
<1> HIDE DEF w
<1>9. /\ w.library = l /\ w.offline = rows.offline \ gone /\ w.draft = d
      /\ w.plays = p /\ w.shares = h /\ w.downloads = n
  BY <1>1
<1>10. \A s \in Songs \ gone :
           /\ w.library[s] = rows.library[s] /\ w.draft[s] = rows.draft[s]
           /\ w.plays[s] = rows.plays[s] /\ w.shares[s] = rows.shares[s]
           /\ w.downloads[s] = rows.downloads[s]
  BY <1>9
<1>11. \A s \in gone :
           /\ w.library[s] = NULL /\ s \notin w.offline /\ w.draft[s] = NULL
           /\ w.plays[s] = NoPlays /\ w.shares[s] = {} /\ w.downloads[s] = 0
  BY <1>9
<1>12. w.offline \subseteq rows.offline  BY <1>9
<1> QED  BY <1>7, <1>8, <1>10, <1>11, <1>12 DEF w

LEMMA DeleteCommitKeeps == ASSUME Inv, NEW r \in Requests, DeleteCommit(r) PROVE Inv'
<1>1. PICK s \in live :
          /\ Begin(r, "delete", [Idle EXCEPT !.at = "unlink", !.song = s])
          /\ live' = live \ {s} /\ rows' = Without(rows, {s})
          /\ UNCHANGED <<work, account, used, files, left>>
  BY DEF DeleteCommit
<1> DEFINE c == [[Idle EXCEPT !.at = "unlink", !.song = s] EXCEPT !.op = "delete"]
<1>0. live \subseteq used /\ used \subseteq Songs /\ live \subseteq files /\ rows \in Rows
      /\ s \in Songs
  BY <1>1 DEF Inv, TypesOK, UuidsOK
<1>2. /\ c \in Asked(work \cup {NULL}) /\ c.op = "delete" /\ c.at = "unlink" /\ c.song = s
      /\ c.said = {}
  BY <1>0, <1>1 DEF Idle, Asked, Steps, Begin
<1>3. req' = [req EXCEPT ![r] = c] /\ req[r].at = "idle"  BY <1>1 DEF Begin, Idle
<1> HIDE DEF c
<1>4. Others(r) /\ req'[r] = c  BY <1>3, OthersStay
<1>5. TypesOK'
  <2>1. req' \in [Requests -> Asked(work \cup {NULL})]  BY <1>2, <1>3 DEF Inv, TypesOK
  <2>2. rows' \in Rows  BY <1>0, <1>1, WithoutRows
  <2> QED  BY <1>0, <1>1, <2>1, <2>2 DEF Inv, TypesOK, Asked
<1>6. RowsHaveTheirSongs'
  <2>1. /\ \A t \in Songs \ {s} :
               /\ rows'.library[t] = rows.library[t] /\ rows'.draft[t] = rows.draft[t]
               /\ rows'.plays[t] = rows.plays[t] /\ rows'.shares[t] = rows.shares[t]
               /\ rows'.downloads[t] = rows.downloads[t]
        /\ rows'.library[s] = NULL /\ s \notin rows'.offline /\ rows'.draft[s] = NULL
        /\ rows'.plays[s] = NoPlays /\ rows'.shares[s] = {} /\ rows'.downloads[s] = 0
        /\ rows'.offline \subseteq rows.offline
    BY <1>0, <1>1, WithoutRows
  <2>2. rows = NoRows => rows' = NoRows  BY <1>0, <1>1, WithoutRows
  <2>3. ASSUME NEW t \in Songs, t \notin live'
        PROVE  /\ rows'.library[t] = NULL /\ t \notin rows'.offline /\ rows'.draft[t] = NULL
               /\ rows'.plays[t] = NoPlays /\ rows'.shares[t] = {} /\ rows'.downloads[t] = 0
    <3>1. CASE t = s  BY <2>1, <3>1
    <3>2. CASE t # s
      <4>1. t \in Songs \ live  BY <1>1, <2>3, <3>2
      <4> QED  BY <2>1, <3>2, <4>1 DEF Inv, RowsHaveTheirSongs
    <3> QED  BY <3>1, <3>2
  <2> QED  BY <1>1, <2>2, <2>3 DEF Inv, RowsHaveTheirSongs
<1>7. ASSUME NEW q \in Requests PROVE CarriedOK(req[q])'
  <2>1. CASE q = r  BY <1>2, <1>4, <2>1 DEF CarriedOK
  <2>2. CASE q # r
    <3>1. \A t \in Songs \ {s} : rows'.downloads[t] = rows.downloads[t]
      BY <1>0, <1>1, WithoutRows
    <3>2. CarriedOK(req[q]) /\ req'[q] = req[q]  BY <1>4, <2>2 DEF Others, Inv
    <3> QED  BY <1>0, <1>1, <3>1, <3>2 DEF CarriedOK
  <2> QED  BY <2>1, <2>2
<1>8. UuidsOK'
  <2>1. /\ ~Making(r)' /\ Deleting(r)' /\ ~At(r, "download", "fetch")'
        /\ ~At(r, "download", "insert")' /\ ~At(r, "download", "insert") /\ ~Deleting(r)
    BY <1>2, <1>3, <1>4 DEF At, Making, Deleting
  <2>2. ASSUME NEW q \in Requests, Making(q) \/ Deleting(q) PROVE req[q].song # s
    BY <1>1, <2>2 DEF Inv, UuidsOK
  <2>3. ASSUME NEW q \in Requests
        PROVE  /\ Making(q)' => req'[q].song \in used' \ live'
               /\ At(q, "download", "fetch")' => req'[q].song \notin files'
               /\ At(q, "download", "insert")' => req'[q].song \in files'
               /\ Deleting(q)' => req'[q].song \in used' \ live'
    <3>1. CASE q = r  BY <1>0, <1>1, <1>2, <1>4, <2>1, <3>1
    <3>2. CASE q # r  BY <1>1, <1>4, <3>2 DEF Inv, UuidsOK, Others
    <3> QED  BY <3>1, <3>2
  <2>4. ASSUME NEW p \in Requests, NEW q \in Requests, Making(p)'
        PROVE  /\ q # p /\ (Making(q)' \/ Deleting(q)') => req'[p].song # req'[q].song
               /\ req'[p].song \notin req'[q].said
    <3>1. p # r /\ Making(p) /\ req'[p] = req[p] /\ req[p].song # s
      BY <1>4, <2>1, <2>2, <2>4 DEF Others
    <3>2. CASE q = r  BY <1>2, <1>4, <3>1, <3>2
    <3>3. CASE q # r  BY <1>4, <3>1, <3>3 DEF Inv, UuidsOK, Others
    <3> QED  BY <3>2, <3>3
  <2>5. \A t \in (files' \ live') \ left' : \E q \in Requests :
            req'[q].song = t /\ (At(q, "download", "insert")' \/ Deleting(q)')
    <3>1. SUFFICES ASSUME NEW t \in files \ left, t \notin live \ {s}
                   PROVE  \E q \in Requests : req'[q].song = t
                              /\ (At(q, "download", "insert")' \/ Deleting(q)')
      BY <1>1
    <3>2. CASE t = s  BY <1>2, <1>4, <2>1, <3>2
    <3>3. CASE t # s
      <4>1. PICK q \in Requests : req[q].song = t /\ (At(q, "download", "insert") \/ Deleting(q))
        BY <3>1, <3>3 DEF Inv, UuidsOK
      <4>2. q # r  BY <2>1, <4>1
      <4> QED  BY <1>4, <4>1, <4>2 DEF Others
    <3> QED  BY <3>2, <3>3
  <2>6. live' \subseteq files'  BY <1>0, <1>1
  <2> QED  BY <2>3, <2>4, <2>5, <2>6 DEF UuidsOK
<1> QED  BY <1>5, <1>6, <1>7, <1>8 DEF Inv

\* A request that ends with its song out of the database: its file goes, or stays for good.
LEMMA EndsOfFiles ==
    ASSUME Inv, NEW r \in Requests, At(r, "download", "insert") \/ Deleting(r), End(r),
           UNCHANGED <<work, account, live, used, rows>>,
           \/ files' = files \ {req[r].song} /\ UNCHANGED left
           \/ left' = left \cup {req[r].song} /\ UNCHANGED files
    PROVE  Inv'
<1> DEFINE s == req[r].song
<1>0. /\ Making(r) \/ Deleting(r)
      /\ req' = [req EXCEPT ![r] = Idle]
  BY DEF Making, End
<1>1. s \in used \ live /\ s = req[r].song  BY <1>0 DEF Inv, UuidsOK
<1>2. Others(r) /\ req'[r] = Idle  BY <1>0, OthersStay
<1> HIDE DEF s
<1>3. Idle \in Asked(work \cup {NULL})  BY DEF Idle, Asked, Steps
<1>4. TypesOK'
  <2>1. req' \in [Requests -> Asked(work \cup {NULL})]  BY <1>0, <1>3 DEF Inv, TypesOK
  <2> QED  BY <1>1, <2>1 DEF Inv, TypesOK, Asked
<1>5. RowsHaveTheirSongs'  BY <1>0 DEF Inv, RowsHaveTheirSongs
<1>6. ASSUME NEW q \in Requests PROVE CarriedOK(req[q])'
  <2>1. CASE q = r  BY <1>2, <2>1 DEF CarriedOK, Idle
  <2>2. CASE q # r  BY <1>0, <1>2, <2>2 DEF CarriedOK, Others, Inv
  <2> QED  BY <2>1, <2>2
<1>7. UuidsOK'
  <2>1. /\ ~Making(r)' /\ ~Deleting(r)' /\ ~At(r, "download", "fetch")'
        /\ ~At(r, "download", "insert")' /\ req'[r].said = {}
    BY <1>2 DEF At, Making, Deleting, Idle
  <2>2. ASSUME NEW q \in Requests \ {r}, Making(q) PROVE req[q].song # s
    BY <1>0, <1>1, <2>2 DEF Inv, UuidsOK
  <2>3. ASSUME NEW q \in Requests
        PROVE  /\ Making(q)' => req'[q].song \in used' \ live'
               /\ At(q, "download", "fetch")' => req'[q].song \notin files'
               /\ At(q, "download", "insert")' => req'[q].song \in files'
               /\ Deleting(q)' => req'[q].song \in used' \ live'
    <3>1. CASE q = r  BY <2>1, <3>1
    <3>2. CASE q # r  BY <1>0, <1>2, <2>2, <3>2 DEF Inv, UuidsOK, Others, Making
    <3> QED  BY <3>1, <3>2
  <2>4. ASSUME NEW p \in Requests, NEW q \in Requests, Making(p)'
        PROVE  /\ q # p /\ (Making(q)' \/ Deleting(q)') => req'[p].song # req'[q].song
               /\ req'[p].song \notin req'[q].said
    <3>1. p # r /\ Making(p) /\ req'[p] = req[p]  BY <1>2, <2>1, <2>4 DEF Others
    <3>2. CASE q = r  BY <2>1, <3>1, <3>2
    <3>3. CASE q # r  BY <1>2, <3>1, <3>3 DEF Inv, UuidsOK, Others
    <3> QED  BY <3>2, <3>3
  <2>5. \A t \in (files' \ live') \ left' : \E q \in Requests :
            req'[q].song = t /\ (At(q, "download", "insert")' \/ Deleting(q)')
    <3>1. SUFFICES ASSUME NEW t \in (files \ live) \ left, t # s
                   PROVE  \E q \in Requests : req'[q].song = t
                              /\ (At(q, "download", "insert")' \/ Deleting(q)')
      BY <1>1
    <3>2. PICK q \in Requests : req[q].song = t /\ (At(q, "download", "insert") \/ Deleting(q))
      BY <3>1 DEF Inv, UuidsOK
    <3>3. q # r  BY <1>1, <3>1, <3>2
    <3> QED  BY <1>2, <3>2, <3>3 DEF Others
  <2>6. live' \subseteq files'  BY <1>0, <1>1 DEF Inv, UuidsOK
  <2> QED  BY <2>3, <2>4, <2>5, <2>6 DEF UuidsOK
<1> QED  BY <1>4, <1>5, <1>6, <1>7 DEF Inv

LEMMA InsertSongKeeps == ASSUME Inv, NEW r \in Requests, InsertSong(r) PROVE Inv'
BY InsertedKeeps, EndsOfFiles DEF InsertSong

LEMMA DeleteUnlinkKeeps == ASSUME Inv, NEW r \in Requests, DeleteUnlink(r) PROVE Inv'
BY EndsOfFiles DEF DeleteUnlink, Deleting

LEMMA NoRowsType == NoRows \in Rows
<1>1. NoPlays \in [0..Window -> Nat]  BY UserRowsAssumption DEF NoPlays
<1> QED
  BY <1>1, UserRowsAssumption DEF NoRows, Rows, UserSong, SongPlay, SongDownload,
     SongShareToken, SongEditDraft, UserOfflineSong, UserSettings

\* Without an account nothing is promised about what requests carry for it.
LEMMA DeleteAccountKeeps == ASSUME Inv, DeleteAccount PROVE Inv'
<1>1. /\ ~account' /\ rows' = NoRows /\ account' \in BOOLEAN
      /\ UNCHANGED <<work, live, used, files, req, left>>
  BY DEF DeleteAccount
<1>2. TypesOK'  BY <1>1, NoRowsType DEF Inv, TypesOK, Asked
<1>3. RowsHaveTheirSongs'  BY <1>1 DEF RowsHaveTheirSongs, NoRows
<1>4. \A r \in Requests : CarriedOK(req[r])'  BY <1>1 DEF Inv, CarriedOK
<1>5. UuidsOK'  BY <1>1 DEF Inv, UuidsOK, Making, Deleting, At
<1> QED  BY <1>2, <1>3, <1>4, <1>5 DEF Inv

\* A crash leaves nobody anything in hand.
LEMMA CrashKeeps == ASSUME Inv, Crash PROVE Inv'
<1>1. /\ left' = left \cup (files \ live) /\ req' = [r \in Requests |-> Idle]
      /\ UNCHANGED <<work, account, live, used, files, rows>>
  BY DEF Crash
<1>2. \A r \in Requests : req'[r] = Idle  BY <1>1
<1>3. live' \subseteq files'  BY <1>1 DEF Inv, UuidsOK
<1>4. \A r \in Requests :
          /\ CarriedOK(req[r])' /\ ~Making(r)' /\ ~Deleting(r)'
          /\ ~At(r, "download", "fetch")' /\ ~At(r, "download", "insert")'
  BY <1>2 DEF CarriedOK, Making, Deleting, At, Idle
<1>5. TypesOK'
  <2>1. Idle \in Asked(work \cup {NULL})  BY DEF Idle, Asked, Steps
  <2>2. req' \in [Requests -> Asked(work \cup {NULL})]  BY <1>1, <2>1
  <2> QED  BY <1>1, <2>2 DEF Inv, TypesOK, Asked
<1>6. RowsHaveTheirSongs'  BY <1>1 DEF Inv, RowsHaveTheirSongs
<1>7. UuidsOK'  BY <1>1, <1>3, <1>4 DEF UuidsOK
<1> QED  BY <1>4, <1>5, <1>6, <1>7 DEF Inv

-----------------------------------------------------------------------------
(* The theorems *)

LEMMA InvInit == Init => Inv
<1> SUFFICES ASSUME Init PROVE Inv  OBVIOUS
<1>1. /\ req = [r \in Requests |-> Idle] /\ live \subseteq files /\ files \subseteq live
      /\ rows = NoRows
  BY DEF Init
<1>2. \A r \in Requests : req[r] = Idle  BY <1>1
<1>3. \A r \in Requests :
          /\ CarriedOK(req[r]) /\ ~Making(r) /\ ~Deleting(r)
          /\ ~At(r, "download", "fetch") /\ ~At(r, "download", "insert")
  BY <1>2 DEF CarriedOK, Making, Deleting, At, Idle
<1>4. TypesOK
  <2>1. Idle \in Asked(work \cup {NULL})  BY DEF Idle, Asked, Steps
  <2>2. req \in [Requests -> Asked(work \cup {NULL})]  BY <1>1, <2>1
  <2> QED  BY <1>1, <2>2, NoRowsType DEF Init, TypesOK
<1>5. RowsHaveTheirSongs  BY <1>1 DEF RowsHaveTheirSongs, NoRows
<1>6. UuidsOK  BY <1>1, <1>3 DEF UuidsOK
<1> QED  BY <1>3, <1>4, <1>5, <1>6 DEF Inv

LEMMA InvNext == Inv /\ [Next]_vars => Inv'
<1> SUFFICES ASSUME Inv, [Next]_vars PROVE Inv'  OBVIOUS
<1>0. CASE UNCHANGED vars  BY <1>0, SameRows, QuickKeeps DEF vars, RowsOnly
<1>1. ASSUME NEW r \in Requests, Writes(r) PROVE Inv'
  BY <1>1, PlayReadKeeps, PlayCommitKeeps, AddReadKeeps, AddCommitKeeps, PositionReadKeeps,
     PositionCommitKeeps, DraftReadKeeps, DraftCommitKeeps, ShareReadKeeps, ShareCommitKeeps,
     SettingsReadKeeps, SettingsCreateKeeps, SettingsRefreshKeeps, SettingsSetKeeps DEF Writes
<1>2. ASSUME NEW r \in Requests, Marks(r) PROVE Inv'
  BY <1>2, MarkReadKeeps, MarkCommitKeeps, SyncReadKeeps, SyncSelectKeeps, SyncCommitKeeps
     DEF Marks
<1>3. ASSUME NEW r \in Requests, Downloads(r) PROVE Inv'
  BY <1>3, DownloadReadKeeps, FetchedKeeps, InsertSongKeeps, CountKeeps, AnswerKeeps
     DEF Downloads
<1>4. ASSUME NEW r \in Requests, DeleteCommit(r) \/ DeleteUnlink(r) \/ Refused(r) PROVE Inv'
  BY <1>4, DeleteCommitKeeps, DeleteUnlinkKeeps, RefusedKeeps
<1>5. CASE RemoveCommit \/ UndraftCommit \/ UnmarkCommit  BY <1>5, RemoveKeeps
<1>6. CASE DeleteAccount \/ Tick \/ Crash
  BY <1>6, DeleteAccountKeeps, TickKeeps, CrashKeeps
<1> QED  BY <1>0, <1>1, <1>2, <1>3, <1>4, <1>5, <1>6 DEF Next

LEMMA InvAlways == Spec => []Inv
<1>1. Init => Inv  BY InvInit
<1>2. Inv /\ [Next]_vars => Inv'  BY InvNext
<1> QED  BY <1>1, <1>2, PTL DEF Spec

LEMMA InvIsConsistent == Inv => RowsConsistent
<1> SUFFICES ASSUME Inv PROVE RowsConsistent  OBVIOUS
<1>1. TypeOK  BY DEF Inv, TypesOK, TypeOK, Asked
<1>2. SyncSkipsGone
  <2>1. SUFFICES ASSUME NEW r \in Requests, At(r, "sync", "commit"), ~SyncFits(r), account
                 PROVE  \E s \in req[r].todo : s \in rows.offline \/ s \in req[r].said \ live
    BY DEF SyncSkipsGone
  <2>2. PICK s \in req[r].todo : s \notin live \/ s \in rows.offline
    BY <2>1 DEF SyncFits, Insertable
  <2>3. s \in req[r].said  BY <2>1 DEF Inv, CarriedOK, At
  <2> QED  BY <2>2, <2>3
<1> QED  BY <1>1, <1>2 DEF Inv, RowsConsistent

LEMMA InvAccountsDownloads == Inv => DownloadsAccounted
<1> SUFFICES ASSUME Inv PROVE DownloadsAccounted  OBVIOUS
<1>1. AnsweredIsCounted
  BY DEF Inv, CarriedOK, At, AnsweredIsCounted
<1>2. SongsHaveFiles  BY DEF Inv, UuidsOK, SongsHaveFiles
<1>3. FilesAreAccounted  BY DEF Inv, UuidsOK, At, Deleting, FilesAreAccounted
<1> QED  BY <1>1, <1>2, <1>3 DEF DownloadsAccounted

\* Whatever was read before a song or the account was deleted, no row outlives either,
\* and a sync only fails where another request came between.
THEOREM RowsStayConsistent == Spec => []RowsConsistent
BY InvAlways, InvIsConsistent, PTL

\* A song in the database has its file, no file is left over but by a crash, an
\* insert or an unlink that failed, and who is told of a song has been counted.
THEOREM DownloadsStayAccounted == Spec => []DownloadsAccounted
BY InvAlways, InvAccountsDownloads, PTL

\* What a step may change of the library, the drafts and the settings, and who does.
Revived ==
    \A s \in Songs :
        /\ (rows.library[s] = NULL /\ rows'.library[s] # NULL) =>
               \E r \in Requests : At(r, "add", "commit") /\ req[r].song = s
        /\ (rows.draft[s] = NULL /\ rows'.draft[s] # NULL) =>
               \E r \in Requests : At(r, "draft", "commit") /\ req[r].song = s /\ req[r].seen = NULL

Chosen ==
    (rows.settings # NULL /\ rows'.settings \notin {NULL, rows.settings}) =>
        \E r \in Requests : At(r, "settings", "set") /\ req[r].value = rows'.settings

LEMMA KeptRows ==
    ASSUME \A s \in Songs : rows'.library[s] \in {rows.library[s], NULL},
           \A s \in Songs : rows'.draft[s] \in {rows.draft[s], NULL},
           rows'.settings \in {rows.settings, NULL}
    PROVE  Revived /\ Chosen
BY DEF Revived, Chosen

LEMMA WritesUndoNothing ==
    ASSUME rows \in Rows, NEW r \in Requests, Writes(r)
    PROVE  Revived /\ Chosen
<1> USE DEF Rows, UserSong, SongEditDraft
<1>1. CASE AddCommit(r)
  <2>1. \/ rows' = rows
        \/ rows' = [rows EXCEPT !.library[req[r].song] = 0]
    BY <1>1 DEF AddCommit
  <2>2. At(r, "add", "commit") /\ rows'.draft = rows.draft /\ rows'.settings = rows.settings
    BY <1>1, <2>1 DEF AddCommit
  <2>3. ASSUME NEW s \in Songs, rows'.library[s] # rows.library[s] PROVE req[r].song = s
    BY <2>1, <2>3
  <2> QED  BY <2>2, <2>3 DEF Revived, Chosen
<1>2. CASE PositionCommit(r)
  <2>1. \/ rows' = rows
        \/ /\ rows.library[req[r].song] # NULL
           /\ rows' = [rows EXCEPT !.library[req[r].song] = Changed(r, @)]
    BY <1>2 DEF PositionCommit
  <2>2. rows'.draft = rows.draft /\ rows'.settings = rows.settings  BY <2>1
  <2>3. ASSUME NEW s \in Songs, rows'.library[s] # rows.library[s] PROVE rows.library[s] # NULL
    BY <2>1, <2>3
  <2> QED  BY <2>2, <2>3 DEF Revived, Chosen
<1>3. CASE DraftCommit(r)
  <2>1. \/ rows' = rows
        \/ /\ (req[r].seen = NULL <=> rows.draft[req[r].song] = NULL)
           /\ rows' = [rows EXCEPT !.draft[req[r].song] = Changed(r, @)]
    BY <1>3 DEF DraftCommit
  <2>2. /\ At(r, "draft", "commit")
        /\ rows'.library = rows.library /\ rows'.settings = rows.settings
    BY <1>3, <2>1 DEF DraftCommit
  <2>3. ASSUME NEW s \in Songs, rows.draft[s] = NULL, rows'.draft[s] # NULL
        PROVE  req[r].song = s /\ req[r].seen = NULL
    <3>1. req[r].song = s  BY <2>1, <2>3
    <3> QED  BY <2>1, <2>3, <3>1
  <2> QED  BY <2>2, <2>3 DEF Revived, Chosen
<1>4. CASE SettingsCreate(r)
  <2>1. rows' = rows \/ (rows.settings = NULL /\ rows' = [rows EXCEPT !.settings = Default])
    BY <1>4 DEF SettingsCreate
  <2> QED  BY <2>1 DEF Revived, Chosen
<1>5. CASE SettingsSet(r)
  <2>1. At(r, "settings", "set")  BY <1>5 DEF SettingsSet
  <2>2. rows' = rows \/ rows' = [rows EXCEPT !.settings = Changed(r, @)]
    BY <1>5 DEF SettingsSet
  <2>3. rows'.library = rows.library /\ rows'.draft = rows.draft  BY <2>2
  <2>4. rows'.settings \in {rows.settings, req[r].value}  BY <2>2 DEF Changed
  <2> QED  BY <2>1, <2>3, <2>4 DEF Revived, Chosen
<1>6. CASE PlayCommit(r) \/ ShareCommit(r)
  <2>1. \/ rows' = rows
        \/ rows' = [rows EXCEPT !.plays[req[r].song][0] = @ + 1]
        \/ rows' = [rows EXCEPT !.shares[req[r].song] = @ \cup {0}]
    BY <1>6 DEF PlayCommit, ShareCommit
  <2>2. /\ rows'.library = rows.library /\ rows'.draft = rows.draft
        /\ rows'.settings = rows.settings
    BY <2>1
  <2> QED  BY <2>2, KeptRows
<1>7. CASE \/ PlayRead(r) \/ AddRead(r) \/ PositionRead(r) \/ DraftRead(r) \/ ShareRead(r)
           \/ SettingsRead(r) \/ SettingsRefresh(r)
  <2>1. rows' = rows
    BY <1>7 DEF PlayRead, AddRead, PositionRead, DraftRead, ShareRead, SettingsRead,
       SettingsRefresh, Read
  <2> QED  BY <2>1, KeptRows
<1> QED  BY <1>1, <1>2, <1>3, <1>4, <1>5, <1>6, <1>7 DEF Writes

LEMMA RestUndoesNothing ==
    ASSUME rows \in Rows, Next, \A r \in Requests : ~Writes(r)
    PROVE  Revived /\ Chosen
<1> USE KeptRows DEF Rows, UserSong, SongEditDraft
<1>1. ASSUME NEW r \in Requests, Marks(r) PROVE Revived /\ Chosen
  <2>1. rows' = rows \/ \E o : rows' = [rows EXCEPT !.offline = o]
    BY <1>1 DEF Marks, MarkRead, MarkCommit, SyncRead, SyncSelect, SyncCommit, Read
  <2>2. /\ rows'.library = rows.library /\ rows'.draft = rows.draft
        /\ rows'.settings = rows.settings
    BY <2>1
  <2> QED  BY <2>2
<1>2. ASSUME NEW r \in Requests, Downloads(r) \/ DeleteUnlink(r) \/ Refused(r) PROVE Revived /\ Chosen
  <2>1. CASE Count(r)
    <3>1. \/ rows' = rows
          \/ \E s : rows' = [rows EXCEPT !.downloads[s] = IF @ < MaxCount THEN @ + 1 ELSE @]
      BY <2>1 DEF Count
    <3>2. /\ rows'.library = rows.library /\ rows'.draft = rows.draft
          /\ rows'.settings = rows.settings
      BY <3>1
    <3> QED  BY <3>2
  <2>2. CASE ~Count(r)
    <3>1. rows' = rows
      BY <1>2, <2>2 DEF Downloads, DownloadRead, Fetched, InsertSong, Answer, Read, DeleteUnlink,
         Refused
    <3> QED  BY <3>1
  <2> QED  BY <2>1, <2>2
<1>3. ASSUME NEW r \in Requests, DeleteCommit(r) PROVE Revived /\ Chosen
  <2>1. PICK s \in live : rows' = Without(rows, {s})  BY <1>3 DEF DeleteCommit
  <2>2. /\ rows'.library = [u \in Songs |-> IF u \in {s} THEN NULL ELSE rows.library[u]]
        /\ rows'.draft = [u \in Songs |-> IF u \in {s} THEN NULL ELSE rows.draft[u]]
        /\ rows'.settings = rows.settings
    BY <2>1 DEF Without
  <2> QED  BY <2>2
<1>4. CASE RemoveCommit
  <2>1. PICK gone \in SUBSET Songs :
            rows' = [rows EXCEPT !.library = [s \in Songs |-> IF s \in gone THEN NULL ELSE @[s]],
                                 !.offline = @ \ gone]
    BY <1>4 DEF RemoveCommit
  <2>2. /\ rows'.library = [s \in Songs |-> IF s \in gone THEN NULL ELSE rows.library[s]]
        /\ rows'.draft = rows.draft /\ rows'.settings = rows.settings
    BY <2>1
  <2> QED  BY <2>2
<1>5. CASE UndraftCommit
  <2>1. PICK s \in Songs : rows' = [rows EXCEPT !.draft[s] = NULL]  BY <1>5 DEF UndraftCommit
  <2>2. rows'.library = rows.library /\ rows'.settings = rows.settings  BY <2>1
  <2>3. \A u \in Songs : rows'.draft[u] \in {rows.draft[u], NULL}  BY <2>1
  <2> QED  BY <2>2, <2>3
<1>6. CASE UnmarkCommit
  <2>1. \E o : rows' = [rows EXCEPT !.offline = o]  BY <1>6 DEF UnmarkCommit
  <2>2. /\ rows'.library = rows.library /\ rows'.draft = rows.draft
        /\ rows'.settings = rows.settings
    BY <2>1
  <2> QED  BY <2>2
<1>7. CASE DeleteAccount  BY <1>7 DEF DeleteAccount, NoRows
<1>8. CASE Tick
  <2>1. \E p, q : rows' = [rows EXCEPT !.plays = p, !.shares = q]  BY <1>8 DEF Tick
  <2>2. /\ rows'.library = rows.library /\ rows'.draft = rows.draft
        /\ rows'.settings = rows.settings
    BY <2>1
  <2> QED  BY <2>2
<1>9. CASE Crash  BY <1>9 DEF Crash
<1> QED  BY <1>1, <1>2, <1>3, <1>4, <1>5, <1>6, <1>7, <1>8, <1>9 DEF Next

\* Entries and drafts come into being only by requests that found none, and a chosen
\* format is only replaced by another choice, however requests overlap.
THEOREM LateWritesUndoNothing == Spec => NothingUndone
<1>1. Inv /\ [Next]_vars => [Revived]_vars
  <2>1. Inv => rows \in Rows  BY DEF Inv, TypesOK
  <2> QED  BY <2>1, WritesUndoNothing, RestUndoesNothing
<1>2. Inv /\ [Next]_vars => [Chosen]_vars
  <2>1. Inv => rows \in Rows  BY DEF Inv, TypesOK
  <2> QED  BY <2>1, WritesUndoNothing, RestUndoesNothing
<1> QED  BY <1>1, <1>2, InvAlways, PTL
         DEF Spec, NothingUndone, NothingRevived, ChoiceIsKept, Revived, Chosen
=============================================================================
