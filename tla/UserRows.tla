------------------------------ MODULE UserRows ------------------------------
(***************************************************************************)
(* The rows one user has beside the songs: the library with its positions, *)
(* offline marks, edit drafts, plays, downloads, share links and settings, *)
(* and the downloads that make songs: crud.py with routers/offline.py,     *)
(* settings.py, share.py, downloads.py, library.py and edit.py's drafts.   *)
(*                                                                         *)
(* Every one of these requests reads first and writes in a later           *)
(* statement, and the database only keeps its keys: an insert fails where  *)
(* the row is there by then, or the song or the account is not, and what   *)
(* is updated may be gone; or the database refuses the statement.  A       *)
(* request that fails changes nothing more and is answered with a 500.     *)
(*                                                                         *)
(* A definition whose name ends in a word after an underscore, such as     *)
(* Count_First, is a plausible bug in the definition after it: put in its  *)
(* place, it makes a property below fail.  No specification uses it.       *)
(***************************************************************************)
EXTENDS Integers

CONSTANTS Songs,      \* bound: the uuids there are to give to songs
          Requests,   \* slots for requests in flight
          Window,     \* the five minutes of record_play
          ShareLife,  \* the seven days of a share link
          Params, Formats, Positions,
          Default,    \* the format of new settings, mp3
          Workloads,  \* bound: which operations are asked for beside each other
          MaxCount,   \* bound: a song with that many download records has no more
          NULL        \* no row, nothing

ASSUME UserRowsAssumption ==
    /\ Window \in Nat /\ ShareLife \in Nat /\ MaxCount \in Nat \ {0}
    /\ Default \in Formats /\ 0 \in Positions
    /\ NULL \notin Params \cup Formats \cup Positions \cup Songs

VARIABLES work,     \* the operations clients ask for in this behaviour
          account,  \* is the user's account still there?
          live,     \* the songs that have a row
          used,     \* the uuids that were ever given out
          files,    \* the songs whose file is in downloads_dir
          rows,     \* the user's rows, by table
          req,      \* the request in each slot
          left      \* for the properties: the songs whose file nobody will remove

vars == <<work, account, live, used, files, rows, req, left>>

\* The user's rows, by table: at most one for a song where the keys say so.  Plays and
\* share links are known by their age: how many plays there are of each, and whether
\* there is a link.  Plays out of the window and links that are over are left out.
UserSong        == [Songs -> Positions \cup {NULL}]
SongPlay        == [Songs -> [0..Window -> Nat]]
SongDownload    == [Songs -> 0..MaxCount]
SongShareToken  == [Songs -> SUBSET (0..ShareLife)]
SongEditDraft   == [Songs -> Params \cup {NULL}]
UserOfflineSong == SUBSET Songs
UserSettings    == Formats \cup {NULL}

Rows == [library : UserSong, plays : SongPlay, downloads : SongDownload,
         shares : SongShareToken, draft : SongEditDraft, offline : UserOfflineSong,
         settings : UserSettings]

NoPlays == [age \in 0..Window |-> 0]

NoRows == [library |-> [s \in Songs |-> NULL], offline |-> {},
           draft |-> [s \in Songs |-> NULL], settings |-> NULL,
           plays |-> [s \in Songs |-> NoPlays], shares |-> [s \in Songs |-> {}],
           downloads |-> [s \in Songs |-> 0]]

Idle == [op |-> NULL, at |-> "idle", song |-> NULL, value |-> NULL, seen |-> NULL,
         ids |-> {}, known |-> {}, todo |-> {}, said |-> {}]

At(r, op, step) == req[r].op = op /\ req[r].at = step

\* A row that refers to the song, and to the user, can be inserted.
Insertable(s) == account /\ s \in live

Begin(r, op, c) ==
    /\ op \in work /\ req[r] = Idle
    /\ account
    /\ req' = [req EXCEPT ![r] = [c EXCEPT !.op = op]]

Go(r, c) == req' = [req EXCEPT ![r] = c]
End(r)   == req' = [req EXCEPT ![r] = Idle]

RowsOnly == UNCHANGED <<work, account, live, used, files, left>>

Read == UNCHANGED rows /\ RowsOnly

-----------------------------------------------------------------------------
(* Requests that look for a row and insert or update it *)

\* record_play: a play of the last five minutes is enough, and where there are
\* several, scalar_one_or_none fails: either way the request ends.
PlayRead(r) ==
    \E s \in Songs :
        /\ rows.plays[s] = NoPlays
        /\ Begin(r, "play", [Idle EXCEPT !.at = "commit", !.song = s])
        /\ Read

PlayCommit(r) ==
    /\ At(r, "play", "commit")
    /\ LET s == req[r].song IN
       rows' = IF Insertable(s) THEN [rows EXCEPT !.plays[s][0] = @ + 1] ELSE rows
    /\ End(r) /\ RowsOnly

\* add_to_library: where the entry is there, it is the answer.
AddRead(r) ==
    \E s \in live :
        /\ rows.library[s] = NULL
        /\ Begin(r, "add", [Idle EXCEPT !.at = "commit", !.song = s])
        /\ Read

AddCommit(r) ==
    /\ At(r, "add", "commit")
    /\ LET s == req[r].song IN
       rows' = IF Insertable(s) /\ rows.library[s] = NULL
               THEN [rows EXCEPT !.library[s] = 0] ELSE rows
    /\ End(r) /\ RowsOnly

\* update_position: nothing for a song that is not in the library.
PositionRead(r) ==
    \E s \in Songs, p \in Positions :
        /\ rows.library[s] # NULL
        /\ Begin(r, "position", [Idle EXCEPT !.at = "commit", !.song = s, !.value = p,
                                 !.seen = rows.library[s]])
        /\ Read

\* What is written where a row was loaded: only what differs from it.
Changed(r, column) == IF req[r].value = req[r].seen THEN column ELSE req[r].value

PositionCommit_Insert(r) ==
    /\ At(r, "position", "commit")
    /\ LET s == req[r].song IN
       rows' = IF Insertable(s) THEN [rows EXCEPT !.library[s] = Changed(r, @)] ELSE rows
    /\ End(r) /\ RowsOnly

\* The entry may have been removed: an UPDATE that finds no row fails.
PositionCommit(r) ==
    /\ At(r, "position", "commit")
    /\ LET s == req[r].song IN
       rows' = IF rows.library[s] # NULL
               THEN [rows EXCEPT !.library[s] = Changed(r, @)] ELSE rows
    /\ End(r) /\ RowsOnly

\* remove_from_library and bulk_remove_from_library, the marks with the entries.
RemoveCommit ==
    \E gone \in SUBSET Songs :
        /\ "remove" \in work /\ account /\ gone # {}
        /\ rows' = [rows EXCEPT
              !.library = [s \in Songs |-> IF s \in gone THEN NULL ELSE @[s]],
              !.offline = @ \ gone]
        /\ UNCHANGED req /\ RowsOnly

\* save_draft looks for the song, upsert_edit_draft for the draft.
DraftRead(r) ==
    \E s \in live, p \in Params :
        /\ Begin(r, "draft", [Idle EXCEPT !.at = "commit", !.song = s, !.value = p,
                              !.seen = rows.draft[s]])
        /\ Read

\* A draft that was found is updated, one that was not is inserted; neither works
\* on what the other expects.
DraftCommit(r) ==
    /\ At(r, "draft", "commit")
    /\ LET s == req[r].song IN
       rows' = IF Insertable(s) /\ (req[r].seen = NULL <=> rows.draft[s] = NULL)
               THEN [rows EXCEPT !.draft[s] = Changed(r, @)] ELSE rows
    /\ End(r) /\ RowsOnly

\* delete_edit_draft, and what publish_songs and restore_song do to drafts.
UndraftCommit ==
    \E s \in Songs :
        /\ "undraft" \in work /\ account
        /\ rows' = [rows EXCEPT !.draft[s] = NULL]
        /\ UNCHANGED req /\ RowsOnly

\* create_share_link.
ShareRead(r) ==
    \E s \in live : Begin(r, "share", [Idle EXCEPT !.at = "commit", !.song = s]) /\ Read

ShareCommit(r) ==
    /\ At(r, "share", "commit")
    /\ LET s == req[r].song IN
       rows' = IF Insertable(s) THEN [rows EXCEPT !.shares[s] = @ \cup {0}] ELSE rows
    /\ End(r) /\ RowsOnly

-----------------------------------------------------------------------------
(* Settings *)

\* get_user_settings; update_user_settings begins with it.  A GET has no value.
SettingsRead(r) ==
    \E f \in Formats \cup {NULL} :
        /\ Begin(r, "settings", [Idle EXCEPT !.value = f, !.seen = rows.settings,
                 !.at = IF rows.settings = NULL THEN "create" ELSE "set"])
        /\ Read

\* The first read creates the row; another first read may have come before.
SettingsCreate(r) ==
    /\ At(r, "settings", "create")
    /\ IF account /\ rows.settings = NULL
       THEN rows' = [rows EXCEPT !.settings = Default] /\ Go(r, [req[r] EXCEPT !.at = "refresh"])
       ELSE UNCHANGED rows /\ End(r)
    /\ RowsOnly

\* It is loaded again, as it is by then.
SettingsRefresh(r) ==
    /\ At(r, "settings", "refresh")
    /\ IF rows.settings # NULL
       THEN Go(r, [req[r] EXCEPT !.at = "set", !.seen = rows.settings])
       ELSE End(r)
    /\ Read

SettingsSet(r) ==
    /\ At(r, "settings", "set")
    /\ rows' = IF req[r].value # NULL /\ rows.settings # NULL
               THEN [rows EXCEPT !.settings = Changed(r, @)] ELSE rows
    /\ End(r) /\ RowsOnly

-----------------------------------------------------------------------------
(* Offline marks *)

\* add_offline_song, which looks for the mark and not for the song.
MarkRead(r) ==
    \E s \in Songs \ rows.offline :
        /\ Begin(r, "mark", [Idle EXCEPT !.at = "commit", !.song = s])
        /\ Read

MarkCommit(r) ==
    /\ At(r, "mark", "commit")
    /\ LET s == req[r].song IN
       rows' = IF Insertable(s) /\ s \notin rows.offline
               THEN [rows EXCEPT !.offline = @ \cup {s}] ELSE rows
    /\ End(r) /\ RowsOnly

\* remove_offline_song and clear_offline_songs.
UnmarkCommit ==
    \E gone \in {{s} : s \in Songs} \cup {Songs} :
        /\ "unmark" \in work /\ account
        /\ rows' = [rows EXCEPT !.offline = @ \ gone]
        /\ UNCHANGED req /\ RowsOnly

\* sync_offline_songs: what the server has, ...
SyncRead(r) ==
    \E ids \in SUBSET Songs :
        /\ Begin(r, "sync", [Idle EXCEPT !.at = "select", !.ids = ids, !.known = rows.offline])
        /\ Read

\* ... which of the ids it does not have are songs at all, ...
SyncSelect(r) ==
    /\ At(r, "sync", "select")
    /\ Go(r, [req[r] EXCEPT !.at = "commit", !.said = live,
              !.todo = (req[r].ids \ req[r].known) \cap live])
    /\ Read

SyncFits(r) == \A s \in req[r].todo : Insertable(s) /\ s \notin rows.offline

\* ... and all of these are inserted, or none.
SyncCommit(r) ==
    /\ At(r, "sync", "commit")
    /\ rows' = IF SyncFits(r) THEN [rows EXCEPT !.offline = @ \cup req[r].todo] ELSE rows
    /\ End(r) /\ RowsOnly

-----------------------------------------------------------------------------
(* Downloads of one url *)

\* What the cache has is the answer, once a download of each is recorded; yt-dlp
\* writes a new file otherwise, and when ignore_cache is set.
DownloadRead(r) ==
    /\ \A s \in Songs : rows.downloads[s] < MaxCount
    /\ \/ /\ live # {}
          /\ Begin(r, "download", [Idle EXCEPT !.at = "count", !.todo = live, !.said = live])
       \/ \E s \in Songs \ used :
              Begin(r, "download", [Idle EXCEPT !.at = "fetch", !.song = s])
    /\ used' = used \cup {s \in Songs : req'[r].song = s}
    /\ UNCHANGED <<work, account, live, files, rows, left>>

\* run_download in a thread: a file, or a failure that is logged.
Fetched(r) ==
    /\ At(r, "download", "fetch")
    /\ \/ files' = files \cup {req[r].song} /\ Go(r, [req[r] EXCEPT !.at = "insert"])
       \/ UNCHANGED files /\ End(r)
    /\ UNCHANGED <<work, account, live, used, rows, left>>

\* insert_song, before record_download.  The request's transaction was open while
\* yt-dlp ran, and postgres ends one that is idle for two minutes: the insert then
\* fails, and the file stays.
InsertSong(r) ==
    /\ At(r, "download", "insert")
    /\ \/ /\ live' = live \cup {req[r].song}
          /\ Go(r, [req[r] EXCEPT !.at = "count", !.todo = {req[r].song},
                                  !.said = {req[r].song}])
          /\ UNCHANGED left
       \/ /\ left' = left \cup {req[r].song}
          /\ End(r)
          /\ UNCHANGED live
    /\ UNCHANGED <<work, account, used, files, rows>>

Count_First(r) ==
    /\ At(r, "download", "count") /\ req[r].todo # {}
    /\ \E s \in req[r].todo :
           IF Insertable(s)
           THEN /\ rows' = [rows EXCEPT !.downloads[s] = IF @ < MaxCount THEN @ + 1 ELSE @]
                /\ Go(r, [req[r] EXCEPT !.at = "answer", !.todo = {}])
           ELSE UNCHANGED rows /\ End(r)
    /\ RowsOnly

\* record_download, one commit for each song; a song that is gone by now ends the
\* request, with what was counted before.
Count(r) ==
    /\ At(r, "download", "count") /\ req[r].todo # {}
    /\ \E s \in req[r].todo :
           IF Insertable(s)
           THEN /\ rows' = [rows EXCEPT !.downloads[s] = IF @ < MaxCount THEN @ + 1 ELSE @]
                /\ Go(r, [req[r] EXCEPT !.at = IF req[r].todo = {s} THEN "answer" ELSE "count",
                          !.todo = req[r].todo \ {s}])
           ELSE UNCHANGED rows /\ End(r)
    /\ RowsOnly

\* Tags and artwork are read out of the file, which changes no row here.
Answer(r) ==
    /\ At(r, "download", "answer")
    /\ End(r) /\ Read

-----------------------------------------------------------------------------
(* Deletions, time and crashes *)

Without_KeepLinks(rs, gone) ==
    LET keep(f, none) == [s \in Songs |-> IF s \in gone THEN none ELSE f[s]] IN
    [library |-> keep(rs.library, NULL), offline |-> rs.offline \ gone,
     draft |-> keep(rs.draft, NULL), settings |-> rs.settings,
     plays |-> keep(rs.plays, NoPlays), shares |-> rs.shares,
     downloads |-> keep(rs.downloads, 0)]

\* The foreign keys cascade.
Without(rs, gone) ==
    LET keep(f, none) == [s \in Songs |-> IF s \in gone THEN none ELSE f[s]] IN
    [library |-> keep(rs.library, NULL), offline |-> rs.offline \ gone,
     draft |-> keep(rs.draft, NULL), settings |-> rs.settings,
     plays |-> keep(rs.plays, NoPlays), shares |-> keep(rs.shares, {}),
     downloads |-> keep(rs.downloads, 0)]

\* delete_song commits, and unlinks the file after that.
DeleteCommit(r) ==
    \E s \in live :
        /\ Begin(r, "delete", [Idle EXCEPT !.at = "unlink", !.song = s])
        /\ live' = live \ {s}
        /\ rows' = Without(rows, {s})
        /\ UNCHANGED <<work, account, used, files, left>>

\* An error of the system is ignored: the file stays.
DeleteUnlink(r) ==
    /\ At(r, "delete", "unlink")
    /\ \/ files' = files \ {req[r].song} /\ UNCHANGED left
       \/ left' = left \cup {req[r].song} /\ UNCHANGED files
    /\ End(r)
    /\ UNCHANGED <<work, account, live, used, rows>>

\* Another admin deletes the account.
DeleteAccount ==
    /\ "leave" \in work /\ account
    /\ account' = FALSE
    /\ rows' = NoRows
    /\ UNCHANGED <<work, live, used, files, req, left>>

\* The links that _validate_token still lets through, one tick later.
Younger(ages) == {age + 1 : age \in {a \in ages : a < ShareLife}}

InWindow_All(plays) ==
    [age \in 0..Window |-> (IF age = 0 THEN 0 ELSE plays[age - 1]) +
                           (IF age = Window THEN plays[age] ELSE 0)]

\* The plays record_play will find, one tick later.
InWindow(plays) == [age \in 0..Window |-> IF age = 0 THEN 0 ELSE plays[age - 1]]

Tick ==
    /\ rows' = [rows EXCEPT !.plays  = [s \in Songs |-> InWindow(@[s])],
                            !.shares = [s \in Songs |-> Younger(@[s])]]
    /\ UNCHANGED req /\ RowsOnly

\* The database refuses what a request has to do next.
Refused(r) ==
    /\ req[r].at \in {"commit", "create", "refresh", "set", "select", "count", "answer"}
    /\ End(r) /\ Read

\* Whatever was in flight is over.
Crash ==
    /\ \E r \in Requests : req[r] # Idle
    /\ left' = left \cup (files \ live)
    /\ req' = [r \in Requests |-> Idle]
    /\ UNCHANGED <<work, account, live, used, files, rows>>

-----------------------------------------------------------------------------
(* The specification *)

Init ==
    /\ work \in Workloads
    /\ account = TRUE
    /\ live \in SUBSET Songs /\ used = live /\ files = live
    /\ rows = NoRows
    /\ req = [r \in Requests |-> Idle]
    /\ left = {}

Marks(r)     == MarkRead(r) \/ MarkCommit(r) \/ SyncRead(r) \/ SyncSelect(r) \/ SyncCommit(r)
Downloads(r) == DownloadRead(r) \/ Fetched(r) \/ InsertSong(r) \/ Count(r) \/ Answer(r)
Writes(r)    == \/ PlayRead(r) \/ PlayCommit(r) \/ AddRead(r) \/ AddCommit(r)
                \/ PositionRead(r) \/ PositionCommit(r) \/ DraftRead(r) \/ DraftCommit(r)
                \/ ShareRead(r) \/ ShareCommit(r)
                \/ SettingsRead(r) \/ SettingsCreate(r) \/ SettingsRefresh(r)
                \/ SettingsSet(r)

Next ==
    \/ \E r \in Requests : \/ Writes(r) \/ Marks(r) \/ Downloads(r)
                           \/ DeleteCommit(r) \/ DeleteUnlink(r) \/ Refused(r)
    \/ RemoveCommit \/ UndraftCommit \/ UnmarkCommit
    \/ DeleteAccount \/ Tick \/ Crash

\* Time passes.
Spec == Init /\ [][Next]_vars /\ WF_vars(Tick)

-----------------------------------------------------------------------------
(* Properties *)

\* Every variable keeps its type.
TypeOK ==
    /\ work \in Workloads /\ account \in BOOLEAN
    /\ live \subseteq used /\ used \subseteq Songs /\ files \subseteq used /\ left \subseteq used
    /\ rows \in Rows
    /\ \A r \in Requests : req[r].op \in work \cup {NULL} /\ req[r].todo \subseteq Songs

\* No row outlives its song or its user, whatever was read before either was
\* deleted: a share link, for one, never comes to stand for nothing.
RowsHaveTheirSongs ==
    /\ \A s \in Songs \ live :
           /\ rows.library[s] = NULL /\ s \notin rows.offline /\ rows.draft[s] = NULL
           /\ rows.plays[s] = NoPlays /\ rows.shares[s] = {} /\ rows.downloads[s] = 0
    /\ ~account => rows = NoRows

\* Two plays at once are both recorded, and record_play fails on the two rows until
\* they leave the window: it does not stay that way.
PlaysRecover ==
    \A s \in Songs :
        []<>(\E one \in 0..Window : \A age \in 0..Window :
                 rows.plays[s][age] <= IF age = one THEN 1 ELSE 0)

\* What was removed or deleted is not brought back by a request that only meant to
\* change it: entries and drafts come into being where there was none to be found.
NothingRevived ==
    [][ \A s \in Songs :
          /\ (rows.library[s] = NULL /\ rows'.library[s] # NULL) =>
                 \E r \in Requests : At(r, "add", "commit") /\ req[r].song = s
          /\ (rows.draft[s] = NULL /\ rows'.draft[s] # NULL) =>
                 \E r \in Requests : At(r, "draft", "commit") /\ req[r].song = s /\ req[r].seen = NULL
      ]_vars

\* A format that was chosen is only replaced by another choice: a first GET beside a
\* first PUT never puts the default over it.
ChoiceIsKept ==
    [][ (rows.settings # NULL /\ rows'.settings \notin {NULL, rows.settings}) =>
          \E r \in Requests : At(r, "settings", "set") /\ req[r].value = rows'.settings ]_vars

\* A late write neither brings back nor overwrites what others did meanwhile.
NothingUndone == NothingRevived /\ ChoiceIsKept

\* A client may sync ids of songs that are long gone: a sync only fails where a mark
\* or a deletion came between what it read and what it inserts.
SyncSkipsGone ==
    \A r \in Requests :
        (At(r, "sync", "commit") /\ ~SyncFits(r) /\ account) =>
            \E s \in req[r].todo : s \in rows.offline \/ s \in req[r].said \ live

\* The rows of a user, and what requests carry of them, refer to what there is.
RowsConsistent == TypeOK /\ RowsHaveTheirSongs /\ SyncSkipsGone

\* Nobody is told of a song whose download was not counted, unless it was deleted.
AnsweredIsCounted ==
    \A r \in Requests :
        (At(r, "download", "answer") /\ account) =>
            \A s \in req[r].said \cap live : rows.downloads[s] > 0

\* A song in the database has its file: it is inserted once yt-dlp is done, and its
\* file goes after it.
SongsHaveFiles == live \subseteq files

\* A file without a song belongs to a request that is at it, unless a crash, an insert
\* that failed after the download or an unlink that failed has left it there.
FilesAreAccounted ==
    \A s \in (files \ live) \ left : \E r \in Requests :
        req[r].song = s /\ req[r].op \in {"download", "delete"}

\* Songs, their files and the downloads counted for them belong together.
DownloadsAccounted == AnsweredIsCounted /\ SongsHaveFiles /\ FilesAreAccounted
=============================================================================
