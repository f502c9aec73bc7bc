# Verification of songbirdapi

songbirdapi is the server of a music library: it downloads and imports songs,
renders edits of them with ffmpeg, keeps a library, playlists and a player
queue per user, and publishes edits as community songs. It is one asyncio
process (`server.py`) in front of PostgreSQL (`models.py`, `crud.py`) and a
directory of audio files. This directory holds TLA+ models of its parts that
hold state worth reasoning about, the TLC runs that check them, and proofs
checked by TLAPS.

## The system

Every request runs a coroutine; every `await` on the database, a thread or
ffmpeg lets another one run. Nothing takes a lock: no row is selected FOR UPDATE,
the isolation level is PostgreSQL's READ COMMITTED, and a helper in `crud.py`
usually commits before it returns. So an operation is a sequence of small
transactions, and the hard behaviour is what other operations do in between.
Edit and import jobs are background tasks of the same process; they live in its
memory and die with it, while the rows that report their status stay.

| Part | State | Operations | What makes it correct | Module |
|---|---|---|---|---|
| edit jobs (`routers/edit.py`) | `edit_jobs`, drafts, temporary files | submit, run, overwrite, poll, keep a draft | every job settles once; done means the result is there; a failure leaves nothing behind | `EditChains`, `SongFiles`, `UserRows` |
| song store and edit chains (`models.py`, `crud.py`) | `songs` with `parent_song_id`, `root_song_id`, `owner_id`; files | insert, delete, count references | a row has a file and a file a row; lineages are acyclic and lead to the root | `EditChains` |
| library, publish, restore (`routers/library.py`) | `user_songs` | add, remove, restore, publish, position | clean-ups delete only what nobody needs; originals stay; late writes revive nothing | `EditChains`, `UserRows` |
| downloads (`routers/downloads.py`) | `songs`, `song_downloads`, files | download, stream, delete | songs, files and counts belong together | `UserRows`, `EditChains` |
| imports (`routers/imports.py`) | `import_jobs`, files, five slots | upload, run, poll | nothing is left over; slots come back; jobs settle | `ImportJobs` |
| player (`routers/player.py`) | `user_player_state` | put, insert, remove, reorder | queue, shuffled order and cursors agree | `PlayerQueue` |
| playlists (`routers/playlists.py`) | `playlists`, `playlist_songs` | add, add many, remove, reorder | a determined order; atomic bulk operations | `Playlists` |
| metadata, artwork (`routers/properties.py`, `artwork.py`) | columns of `songs`, the audio file, two images | tag, fetch or upload artwork, publish | file and row agree; pictures match; files are never seen half written | `SongFiles` |
| authentication (`routers/auth.py`, `security.py`, `dependencies.py`) | `users`, tokens in cookies | login, refresh, register, change password | sessions end; no access for a user that is gone or disabled | `Accounts` |
| administration (`routers/admin.py`) | `users`, logs | update and delete users, statistics | only admins; only what was asked | `Accounts` |
| offline marks (`routers/offline.py`) | `user_offline_songs` | sync, add, remove, clear | marks are of songs there are; a sync skips the others | `UserRows` |
| share links (`routers/share.py`) | `song_share_tokens` | create, resolve | no link outlives its song or its time | `UserRows` |
| plays (`crud.py`) | `song_plays` | record | two plays at once do not block the song for good | `UserRows` |
| settings (`routers/settings.py`) | one row per user | get or create, update | a choice is kept | `UserRows` |
| editor (`editor.py`) | a temporary directory | cuts, fades, speed, volume | segments are what is kept; fades follow the music | `Editor` |
| pool (`database.py`) | connections | acquire, release | every connection comes back; waiting ends | `DbPool` |
| search, charts, statistics, version | none | queries | | not modelled |

The edit chains are where the parts meet. Editing a song inserts a new row whose
parent is the song edited and whose root is the head of its chain, takes the
source out of the editor's library and puts the result in. To keep chains short
the job then deletes the source's parent if it is not the root and nobody refers
to it (the two-edit cap), and hangs the source off the root. Restore puts an
earlier song of the chain back in the library and walks from the current song
towards it, deleting what nobody refers to. Publish walks the chain the same way
and then detaches the song from it. All three use the same two counts and the
same `delete_song`, and each can run while another is between two of its steps.

How the modules relate: `EditChains` and `ImportJobs` each implement the abstract
`JobLifecycle`. `SongFiles` looks inside one song of `EditChains`, at the jobs that
overwrite its file. `UserRows` is what hangs off songs and accounts, and treats
the deletion of either as one commit, which `EditChains` and `Accounts` justify.
`Editor` is the call of ffmpeg that `EditChains` and `SongFiles` have as one step that
succeeds or fails. `DbPool` forgets what handlers compute and keeps what they hold.

## Modules

| Module | Models |
|---|---|
| `EditChains` | the song store, edit jobs, restore, publish, deletion of downloads, library changes, deletion of users, a crash |
| `SongFiles` | one song's audio file, temporary file, pictures and row: overwriting edits, tags, artwork, publication, deletion, a crash |
| `ImportJobs` | imports from the upload to the last status, and what clients do to the same rows |
| `JobLifecycle` | abstract: what job rows promise a polling client |
| `Editor` | one call of `apply_edits`: segments, fades, the choice of a path, temporary files |
| `PlayerQueue` | the player row and the four requests that write it |
| `Playlists` | the rows of one playlist and the requests that write them |
| `UserRows` | library, marks, drafts, plays, downloads, links and settings of one user |
| `Accounts` | users, tokens, the requests of authentication and administration, restarts |
| `DbPool` | the pool of connections and the handlers that take from it |
| `EditChains_proofs`, `SongFiles_proofs`, `ImportJobs_proofs`, `Playlists_proofs`, `Editor_proofs`, `Accounts_proofs`, `UserRows_proofs`, `PlayerQueue_proofs` | theorems about the module of that name; those about `DbPool` are in `ImportJobs_proofs`, which extends both modules |
| `MC...` | what TLC needs to run a module: symmetry sets and sets of inputs |

A definition whose name ends in a word after an underscore, like
`EditFail_KeepsFile`, is not part of a model. It is a plausible bug in the
definition that follows it; putting it in that one's place makes one of the
properties fail, which shows that the property says something about the code.

### EditChains

A handler in flight is a record in `task[t]`; its `pc` names the next piece of
code between two awaits, and one action is that piece. The record keeps the local
variables the code keeps across awaits: what it read of the source (`root`,
`par`), the file ffmpeg reads (`input`), the new song (`tgt`) and where a walk is
(`cur`, `nxt`).

| Actions | Code |
|---|---|
| `CreateEditJob` | `create_edit_job`, `POST /edit/songs/{id}` |
| `EditBegin` .. `EditReport`, `EditFail`, `EditFailed` | `_run_edit_job` with `overwrite=False`, step by step; the two failure steps are its except branch |
| `ListSelect`, `ListInsert`, `ListRefresh` | `add_to_library` as an edit and a restore call it: SELECT, INSERT, refresh |
| `CountLibrary`, `CountChildren`, `DeleteRow`, `Unlink` | `library_ref_count`, `child_ref_count`, `delete_song`, shared by the edit cap, restore, publish and `DELETE /download/{id}` |
| `Restore`, `RestoreUnlist`, `RestoreWalk` | `restore_song` |
| `Publish`, `PublishWalk`, `PublishUpdate` | `publish_songs` with one song |
| `DeleteDownload` | `delete_download` |
| `AddToLibrary`, `RemoveFromLibrary`, `DeleteUser` | requests that are one commit |
| `Refused` | the database refuses the next statement of a task: no session in time, or a broken connection |
| `Crash` | the process dies: tasks vanish, rows and files stay |

`DropRow` is what PostgreSQL does to the rows that refer to a deleted song
(`ON DELETE SET NULL` for the two song columns, `CASCADE` for library and job
rows). An insert fails when a row its foreign keys name is gone, and ffmpeg may
always fail. `uuid4` draws numbers in order: nothing in the code compares uuids,
so the order only lets properties speak of older and newer songs.

`Ops` says which operations happen and `Overlap` whether a handler may start
while another is in flight, so that a run or a theorem can name the conditions
under which a property holds.

What is looked up in one statement and written in the next is two actions where
something depends on what happens in between: `EditBegin` and `EditMark`, `EditReparent`
and `EditAttach`, `EditFinish` and `EditReport` each find a row and then update it, and the
update raises if the row is gone; `ListInsert` raises if another request has put the
entry there, `ListRefresh` if one has taken it away. All of these raise after the new
song was committed, and the except branch then removes its file. Three pairs are one
action: the failing updates of a job (`EditRead`, `EditFailed`), after which the job is over
whether they raise or find nothing; `DeleteRow`, whose DELETE of a row that is gone changes
nothing, and whose unlink then takes a file that the one who deleted the row is about to
take; and `PublishUpdate`, one UPDATE that finds no row if
the song is gone. That `os.remove` may raise (`crud.py:310`) is not modelled here but in
`SongFiles` and `UserRows`, where nothing else hangs on it.

### SongFiles

`file` and `tmp` are what is at the song's path and at `{base}_tmp{ext}`: the edits
the content went through, the writer of its tags, who is writing it at the
moment, and what tore it. A process that has a file open keeps writing it when
the file is renamed or unlinked, as on any POSIX system: the writers move along
with the record.

| Actions | Code |
|---|---|
| `CreateOverwrite`, `OverwriteRead`, `Render`, `RenderDone`, `Swap`, and their failures | `_run_edit_job` with `overwrite=True` |
| `Tag`, `Tagged`, `TagFailed`, `Save`, `SaveMissing`, `Publish` | the tagger in its thread, `update_song_properties`, and publication, for both edits and `put_properties` |
| `Fetch`, `FetchThumb`, `Store`, `SaveArtwork` | `_fetch_and_store` in a thread, `store_artwork_from_bytes` on the event loop, and the row |
| `DeleteCommit`, `DeleteUnlink`, `Crash` | `delete_song`, with an unlink the system may refuse, and the end of the process |
| `Refused` | a session that cannot be opened, or a commit that fails: what was done to files, and committed before, stays |

`history` remembers which kinds of work overlapped, and whether an unlink was refused. The
properties name, with it, exactly the overlap under which the code gives up what they
say; everything else may overlap. A task whose save was refused stays at `"refused"`, so
that `TagsAgree` can name the one task whose tags are in the file and not in the row.

### Editor

An action is one turn of the loop over cuts, or one command. `Lossless` decides
between copying packets and filtering; both walk the cuts in the same way, the
filtering one with the fades that belong to the edges. `Filtered` is what the
filter graph plays: ranges of the source, ramps in source time before the join, fades in
output time after it, volume, speed. With a single range the end is `-to`, an option of
the output, which bounds time that `atempo` has changed already: `StopsAt` is where in the
source that is. Instants stand for seconds, speed is in
sixteenths, above two in eighths (`Speeds`, so that halving, doubling and the limits
0.25 and 4 are exact), and rounding is left out. `temp` is the temporary directory with its files.

### ImportJobs

| Actions | Code |
|---|---|
| `Upload`, `CreateImportJob` | `start_import`, `POST /import`: the file first, then the row and the task |
| `Acquire` | `async with _import_semaphore`, which serves waiters in order (`queue`) |
| `Begin`, `Read`, `Fail`, `Duplicate`, `Insert`, `Finish` | `_run_import` |
| `Look`, `List`, `Refresh` | `crud.add_to_library` as the job calls it, with the except branch |
| `Release` | the end of the job on any path: the slot goes back |
| `AddToLibrary`, `RemoveFromLibrary`, `DeleteDownload`, `DeleteUser` | requests that are one commit |

A song is named by the job that imports it: its uuid is the stem of the file the
upload was given. `tags` is what the tag readers will find: a recording, a title
without an artist (never a duplicate), or no title at all. `List` is where a job
can end without a status: the failed INSERT leaves its session unusable, and the
except branch updates the job in that session, which raises again. An update of
a job row is one step, and `DELETE /download` is atomic here; its steps are in
`EditChains`. Statements fail for what other requests did to the rows, not because the
database is out of reach; `EditChains` and `DbPool` have that. All jobs belong to one user.

### PlayerQueue

`state` is the row, `call[t]` a request that has loaded it. `Write` computes the
new row from the loaded one and writes the columns that differ, as SQLAlchemy
does, so that overlapping requests can mix columns. `QueueInsert`, `QueueRemove`
and `QueueReorder` are the helpers of `crud.py` as functions of the loaded row.
What a client puts is assumed to be consistent: the three ways of naming the
current song agree, a shuffled order is a permutation. A POST, DELETE or reorder
before any PUT finds no row and ends in an error 500 (`Write` leaves the state
alone).

### Playlists

`position[s]` is the row of song `s`, `NULL` when there is none. A request reads
(`AddSong`, `BulkAdd` and `BulkRead`, `ReorderSongs`) and then commits
(`CommitAdd`, `CommitReorder`); removals are one statement. `NextPosition` keeps
the code's `max or -1`. When a row a reorder moves is gone by the time of the
UPDATE, whether SQLAlchemy notices depends on whether the driver reports row
counts of such a statement: the model has both outcomes.

### UserRows

`rows` is a record with a field per table; keys become functions from songs, so
that a second row of one key is impossible, and the tables that allow several
rows of one song (`song_plays`, `song_downloads`, `song_share_tokens`) become counts or
sets of ages. A request in `req[r]` carries what it read, and its next statement
decides with that; where it loaded a row, it writes what differs from it (`Changed`).
Any statement may be refused (`Refused`): of a download's insert that is to be expected,
since its transaction is open while yt-dlp runs and PostgreSQL ends those that are idle
for two minutes (`database.py:22`). `left` holds the songs whose file nobody will remove,
after a failed insert, an unlink the system refused, or a crash. `work` draws, once per
behaviour, the operations clients ask for beside each other (`Workloads`): operations on
different tables do not touch each other, so the run takes each table with the
deletions that cascade into it.
A `Tick` is a time that record_play's five minutes and a link's seven days are
counted in.

### Accounts

`account` has every id that was ever given to somebody, and `Deleted` afterwards:
ids are uuids and never come back. A token is what its payload says, with `proof`,
the time its session's password was verified, which only the properties look at.
`Admit` is `get_current_user` with `require_role`: the account must be there and
active now, and the role is the account's. Login reads, verifies in a thread,
and answers with what it read. `Startup` is `seed_admin`; when the seeded e-mail
belongs to somebody else the server does not start.

### DbPool

A handler is a sequence of steps that take, keep or give back connections; there
are eight, one for each way handlers differ in what they hold while they wait.
`outer` is the session of the dependencies, `inner` a `session_scope` opened by the
handler, its job or the error logger. FastAPI closes the session of a dependency
when the response is sent and the background tasks of the request are over. So
`CreateEditJob`, whose last statement before the answer is the refresh after its
commit (`crud.py:611`), has a connection while its job waits for another.
A client that disconnects ends its handler at any step, and the generator of
`get_db` is not advanced past its `yield`: the connection is leaked (`Disconnect`) until
`pool_recycle` or PostgreSQL's time-out brings it back (`Heal`), as the comment at
`database.py:14` tells. `Refused` is a statement that fails on a connection the database
has closed.

### JobLifecycle

A row is submitted, taken up, settled once, and never changes after that except
by vanishing in a cascade. Edit jobs and import jobs share the type of their
status (`EditJobStatus`), and both `EditChains` and `ImportJobs` are shown to
implement `JobLifecycle` (property `ImplementsLifecycle`, checked by TLC in
`chains_overlap` and `imports_slots`, and proved: `JobsKeepLifecycle`,
`ImportsKeepLifecycle`).

## Runs

| Run | Result | Shows |
|---|---|---|
| `chains_serial` | holds | one handler at a time, with renderings that fail and a database that answers: every song has a file, lineages reach their root, the two-edit cap works, what a job made or a restore brought back is listed, every job and handler ends. What overlap does to these is in the next two runs and under "Known deviations" |
| `chains_files` | holds | overlapping edits, publications, deletions and deletion of users leak no file |
| `chains_overlap` | holds | overlapping edits with library changes, deletion of users, refused statements and crashes: lineages stay sound, originals stay, no song loses its file but the new one of an edit that failed, job rows follow `JobLifecycle` |
| `chains_cycle` | violated | a published middle edit, a deleted root and one more edit make a song its own parent |
| `imports_slots` | holds | imports that share slots, with library changes and deletions between any two steps: slots are kept, no upload is left over, duplicates leave nothing behind, every import ends, job rows follow `JobLifecycle` |
| `player_serial` | holds | any sequence of queue edits keeps order, cursors, next songs and sources consistent; the current song is kept; one song moves at a time |
| `playlists_overlap` | holds | overlapping additions, removals and reorders are atomic and keep the order asked for |
| `editor_calls` | holds | for each of some sixty thousand sets of parameters: the right segments, an output that plays them, fades over the right music and at their cuts, volume and speed as asked, no temporary file left. Not every combination: see "Bounds" |
| `songs_overlap` | holds | overwriting edits, tagging, artwork and deletion of one song, two at any steps of each other, with refused statements and a crash: the file is whole, temporary files go, row, tags and pictures agree, publication is by right |
| `accounts_sessions` | holds | sessions end, names stay unique, the server can start again, changes are those asked for |
| `user_rows` | holds | no row outlives its song or account, downloads are accounted for but for failed inserts and unlinks, double plays pass, late writes undo nothing |
| `db_pool` | holds | connections are not shared, and lost to disconnects only; no set of handlers waits for each other for good, even if every connection has leaked |

Some checked properties are conjunctions, so that one run and one mutant stand
for what belongs together: `EverythingEnds` (jobs settle, tasks end),
`NothingLeftOver` (of uploads and of duplicates), `QueueConsistent` (the order is a
permutation, cursors are in range, nothing is orphaned), `AddedInOrder` (appended
last, bulk together), `Reordered` (members kept, order exact), `SegmentsCorrect`,
`WorkIsListed`, `DiskInOrder`, `ArtworkAgrees`, `AccountsConsistent`, `ChangesWereAsked`,
`RowsConsistent`, `DownloadsAccounted`, `NothingUndone`. The parts are defined, each
with what it says, right before the conjunction.

`chains_cycle` is under `findings` in `PROJECT.json`: `_run_edit_job` takes the source
for the root when `root_song_id` is NULL, and the cap then sets the source's parent
to itself. It needs a source that has a parent but no root: the child of a
published edit whose own root was deleted. The restore walk on such a song never
ends.

## Known deviations

Statements of the documentation, or of a comment, that the code does not keep.
Where a definition of a module is named, TLC shows how it fails once it is listed as an
invariant (`CleanupSparesOriginals` as a property) in a cfg.

| Statement | Definition | What happens |
|---|---|---|
| a row has a file (`docs/ARCHITECTURE.md:154`) | `SongHasFile`, `EditChains`, with `Overlap` and `Ops = {"edit", "library"}`, or `{"edit", "deleteUser"}`; or without it and `{"edit", "outage"}` | the except branch of `_run_edit_job` (`edit.py:208`) removes the new file also when its row is committed, and every statement after the commit may raise: a POST or DELETE of the new song's library entry while `add_to_library` runs (`crud.py:243`), a user, source or job row that is gone, a connection that breaks. The song stays, its owner too, and it cannot be played |
| the cap and the walks delete a song that nobody has in a library (`edit.py:188`) | none | a song that is saved between `library_ref_count` and `delete_song` is deleted, and the new entry with it |
| restore deletes intermediates (`library.py:236`) | `CleanupSparesOriginals`, `EditChains`, with `Overlap` and `Ops = {"edit", "restore"}` | when a concurrent edit deletes the target of a restore, its walk goes on to the original and deletes it |
| the cap keeps the lineage (`docs/ARCHITECTURE.md:157`) | `LineageReachesRoot`, `EditChains`, with `Overlap` and `Ops = {"edit"}`, `MaxSong` 5 | an edit of the song the cap deletes, inserted between the count of children and the deletion, loses its parent and keeps its root |
| duplicates are detected (`docs/API.md:117`) | `OneSongPerRecording`, `ImportJobs` | two imports at a time both find nothing and both insert |
| `PlayerState.queue` has at most 2000 songs (`player.py:25`) | `QueueFits`, `PlayerQueue` | `queue_insert` knows no limit; one past it, every answer with the row fails until a PUT or a removal |
| `position` orders a playlist (`docs/ARCHITECTURE.md:143`) | `PositionsDistinct`, `Playlists` | `max or -1` takes position 0 for none: songs added one by one all get 0 |
| an overwrite swaps atomically (`docs/API.md:105`) | `SwapIsAtomic`, `SongFiles` | two overwriting edits share one temporary file (`edit.py:134`): the rename of one moves what the other is still writing |
| no session is held over slow work (comments at `edit.py:91`, `downloads.py:160`) | `CreateEditJob`, `GetDownload` in `DbPool` | the session of `get_current_user` still is, with the connection of its last statement, until the body is streamed and the job is over |
| `trim_end` with `speed` (`docs/API.md:105`) | the exceptions of `PlaysWhatIsKept` and `FadesMeetTheirCut`, `Editor` | `-to` counts time after `atempo` (`editor.py:284`): with an end and a speed below 1 the tail is missing, and a fade-out with it; with one above 1 the output plays past the end |
| share links live 24 hours (`docs/API.md:147`, `docs/ARCHITECTURE.md:138`) | `ShareLife`, `UserRows` | the code, and the model, let them live seven days (`crud.py:766`); no property depends on the number |
| file and row carry the same tags | the exception of `TagsAgree`, `SongFiles` | an edit or a PUT tags the file first; if the session or the commit after it fails (`edit.py:140`, `properties.py:225`), the file has tags the row has not, until somebody saves again |
| a file has a row | the exceptions of `DownloadsAccounted`, `UserRows`, and `DiskInOrder`, `SongFiles` | an insert that fails after yt-dlp is done (`downloads.py:111`) leaves its file, and so does an `os.remove` that raises (`crud.py:310`) |
| the temporary directory is removed (`editor.py:258`) | the exception `TempIsRemoved` allows | after a segment that could not be copied, `finally` names a list that is not bound yet and removes nothing |
| a volume | the exception `NothingAskedIsLost` allows | a volume of 0 is falsy, `or 1.0` plays it at full volume |

## Bounds

- `chains_serial`: 1 user, 2 originals and 3 edits (`MaxSong` 5). Three edits of one
  song are the least that make the cap delete something, and a fourth song in
  the chain gives restore something to walk over; two originals let chains
  coexist. With a single slot handlers cannot overlap. Renderings fail; the database
  answers (no `"outage"`), without which nothing could be said of how handlers end.
- `chains_files`: 2 tasks, 4 songs: two handlers can be at any two steps, one of them
  the clean-up of what the other one reads. Users and tasks are symmetric; songs
  are not, since uuids carry an order.
- `chains_overlap`: 2 tasks, one original and 3 edits: two edits of one song, or of
  parent and child, at any two steps, with every statement of theirs refused once or
  more. No restore, publication or deletion of downloads: the known deviations show
  what they do to these properties.
- `imports_slots`: 3 jobs and 2 slots, so that one job waits while two run, and a slot
  given back is taken again; one recording, since a second one would only meet
  jobs that do not concern it. The code's five slots differ in number only, and
  `SlotsNeverLost` is proved for all.
- `player_serial`: 3 songs, so that something can be before, at and behind the
  cursor at once; positions asked for run from below zero to past the end. Songs
  are symmetric. A single slot, so that requests do not overlap. The
  three properties are proved for queues of any length.
- `playlists_overlap`: 2 songs and 2 requests, positions up to 3 (`MaxPosition` limits
  what a request may hand out). Every property but atomicity speaks of pairs of
  songs.
- `editor_calls`: a file of 4 instants and zones that may end one after it; up to
  three cuts, with every way to trim, so that a cut can lie before, in, across and
  behind two others; two cuts with fades, and a trim with a drawn fade, each at a lower
  speed, as recorded and at a higher one; one drawn fade with two cuts; seven
  speeds on both sides of each limit of a filter, with and without an end. These are
  families and not their product. All six invariants are proved for all
  lengths, numbers of cuts and fades, and speeds.
- `songs_overlap`: two tasks, since every property is about pairs; one may be any of
  four kinds, by an admin or not. One crash, at any step, after which
  only requests not made before can start: no code looks at what a crash left. The database may
  refuse any statement of either task. The five theorems hold
  for any number of tasks.
- `accounts_sessions`: three ids, so that two accounts exist while a third registers
  or is seeded again after a deletion; two requests; an access token lives one
  tick, a refresh token two, so that a session can be refreshed before either is
  over (`MaxTime` 2). `MaxTokens` bounds how many tokens are in use at the time of a login or
  refresh. Whoever registers has the name or the e-mail of somebody who did, or the seeded
  name with any e-mail: all collisions but the one `ServerCanStart` excludes. All
  properties of this run are proved for any accounts and lifetimes.
- `user_rows`: two songs and two requests, `Window` and `ShareLife` of two ticks, counts up
  to `MaxCount` 3; one workload per group of tables (see `UserRows`).
- `db_pool`: three tasks on two connections and one import slot, so that two tasks can
  hold what the third, and each of themselves, waits for. Every task may be any of
  the eight handlers.

`CHECK_DEADLOCK FALSE` stands where the bounds, or deletions, can leave nothing to
do: all uuids drawn, all songs or the playlist gone, every slot used once.

## Fairness

`chains_serial` and `imports_slots` check liveness, under `FairSpec`: weak fairness
of each task's, or job's, steps. The event loop runs every coroutine that is ready
and ffmpeg and database calls return, with success or an error, so a step that stays
possible is taken. A slot is handed to the job that waits longest, as
`asyncio.Semaphore` does (`queue`), so weak fairness is enough for `ImportsEnd`.
Nobody has to make a request. There is no fairness about which outcome a call has.

`user_rows` assumes only that time passes (`WF(Tick)`): double plays leave the window
by themselves. `db_pool` assumes weak fairness of each task's steps, which include
the time-out: the pool has `pool_timeout`, thirty seconds, and a task that waits
for a connection while none is free times out if nothing else happens. Without
the time-out `RequestsEnd` fails (`TimeOut_Never`): two jobs that each hold the
connection of their request would wait for a second one for good.

## What holds only with one request at a time

`SongHasFile`, `TwoEditCap`, `WorkIsListed` and `LineageReachesRoot` are checked with
one handler at a time, and the safety properties proved for that (`SerialInv`, see
below). The counts and the deletion are separate transactions, so a handler that adds a
reference between them is not noticed, and the code does not claim otherwise.
`ImportsEnd` lets a job keep `processing` if its file is gone, for the reason given at
`List` of `ImportJobs`. The player's row is the same: two requests that load it can leave a
queue of one and an order of the other.

What is left under overlap is stated too. In `EditChains`, with edits, library
changes, deletions of users, refused statements and crashes overlapping: `LineageSound`,
`CleanupSparesOriginals`, and `OnlyFailedEditsLackFiles`, which is what remains of
`SongHasFile`: a song whose file is missing is the new one of an edit that failed after
its commit, so never a download or an import, and never one a job was reported done
with. The others do fail with edits alone: the cap deletes a song that was
put into a library, or leaves one that was taken out of it, after the count, and an
edit inserted there loses its parent. `RestoreMeansListed` fails when the target of
the restore is deleted in between, or is taken out of the library again while
`add_to_library` refreshes. In `PlayerQueue`: `ColumnsSound`, the part of
`QueueConsistent` that concerns single columns. No run of the project checks it, since
it is proved; `PlayerQueueOverlap.cfg` does, for 2 songs and 2 requests. A torn row
has infinitely many successors (its shuffled order can grow with every insertion, and
its queue not), so it explores what `Bounded` allows. In `SongFiles` the overlaps that
matter are named in each property.

## Proofs

All of these hold for every value of the constants: any number of users, tasks,
songs, jobs, slots and connections. The assumptions are those each module states
about its constants: which sets contain which, that `NULL` is none of the values,
that lifetimes are numbers.

`EditChains`:

- `TypeCorrect`: `Spec => []TypeOK`. `TypeOK` is inductive: it says besides types
  which fields of a task its step needs (`HasFields`).
- `NoFileLeaks`: if the process does not crash, `Spec => []FilesAccounted`, also where
  statements are refused. A file
  without a row belongs to a task at the step that will insert the row or remove
  the file. The invariant is inductive together with `TypeOK`; each step either
  leaves files and rows alone or is the one step that touches both for one song,
  and the proof follows that division (`FilesStep`, `FilesQuiet`, `OneTask`).
- `LineageIsSound`: if edits are the only operation that rewrites chains
  (`EditsOnly`: no restore, publish or deletion of downloads; crashes, refused
  statements, library changes and deletion of users are allowed, and edits may overlap
  in any way),
  `Spec => []LineageSound`.
- `OriginalsStay`: under the same assumption `Spec => CleanupSparesOriginals`.
- `OnlyFailedEditsLoseFiles`: under the same assumption
  `Spec => []OnlyFailedEditsLackFiles`.
- `JobsKeepLifecycle`: `Spec => ImplementsLifecycle`, the refinement of `JobLifecycle`.
  All operations take part, crashes included. The status column alone does not say
  that a job which begins is pending, and one that ends in progress; the task
  does, and `JobsInStep` relates the two. Each step then is a submission, a
  beginning, a settlement or a cascade (`CreateRefines`, `BeginRefines`,
  `EndRefines`, `CascadeRefines`), or leaves the column alone.
- `SongsKeepFiles`, `CapIsKept` and `DoneJobsAreListed`: as long as handlers do not
  overlap and the database refuses no statement (`Undisturbed`), `Spec => []SongHasFile`,
  `Spec => TwoEditCap` and `Spec => DoneMeansListed`. Every other operation takes part,
  crashes and the deletion of users included, with restores and edits of any songs.
- `RestoresAreListed`: if there are no crashes either, `Spec => RestoreMeansListed`. A crash
  ends a restore wherever it is. With `DoneJobsAreListed` that is `WorkStaysListed`,
  `Spec => WorkIsListed`.
- `RootsAreReached`: without overlap, publications, refused statements and crashes
  (`Unharmed`), `Spec => []LineageReachesRoot`. The exceptions are needed: `chains_cycle`
  publishes, and a crash, or a refused statement, between the cap's deletion and its
  re-attachment leaves an edit with no parent.

`LineageSound` is not inductive: the cap writes a root that the task read
minutes ago and deletes a parent it read then. The invariant `LineageInv`
adds what tasks know. `SoundTask` says that an edit's
source is older than the song it creates, that the root it read heads a chain and
still has its row, and that the parent it read, if it is still there, is that root
or an edit. `FreshTargets` says that no two edits create the same song and that
none starts from a song yet to be inserted. Under
`EditsOnly` a root is never deleted, which is what makes the stale snapshot safe;
`chains_cycle`, and the known deviation of restores, show that the assumption is
needed. The step lemmas go
handler by handler: quiet steps, reads, the insertion, the clean-up, the
re-attachment.

`OnlyFailedEditsLoseFiles` needs `FilesKnown` beside `LineageInv`: an edit that is about to insert
has its file, and one that has committed keeps it until it fails; what a clean-up will unlink has
no row (`KnowsFile`) and is no song that another edit has yet to insert (`UnlinksApart`); and no
job was reported done with the song of an edit still in flight (`ResultsApart`), so that an
edit that takes the except branch removes no file a client was told of. `KnownOneTask`
reduces a step to what it does to its own song.

The serial theorems share `SerialInv`. `SongHasFile` alone is not inductive: an
edit that fails removes the file of its target, and a clean-up the file of a song it
deleted two steps ago, so the invariant says which songs have no row yet, or no more
(`Alone`, `EditAlone`), that foreign keys are live and no uuid is drawn twice
(`RefsLive`), and that nobody else is under way (`OneAtATime`), which is what keeps a
task's snapshot true. `Capped` carries the outcome of the cap from its last step to
`finish`. `RestoresInv` does it for `RestoresAreListed`: the target has its row and,
once the walk has begun, is listed, and the walk reclaims every song but it
(`RestoreAlone`). `AloneStep` reduces a step to what it leaves for its own task; the
lemmas after it go handler by handler.

`RootsAreReached` needs two things. `RootedInv` is the inductive part: every song that
has a parent has the parent's root, and one without is a root itself, except that
between the cap's deletion and its re-attachment the source of the edit that does so
has none (`Gap`); a deletion takes only songs without other children, so it opens no
other gap (`RootHasChild`). The rest is about the recursive function in `Ancestors`:
that it has a value at all (`ChainExists`), and that each step up leads to an older
song until the root is met (`RootOnTheWay`). Both are inductions over numbers; the
library's induction theorems cannot be used with this prover, so they are done once
by a least counterexample (`Least`, `Climb`).

`SongFiles`: `DiskStaysInOrder`, `TagsStayAgreed`, `ArtworkStaysAgreed`, `EditsAreApplied` and
`PublishesByRight`, all from one invariant `Inv` (`InvHolds`). None of the properties is
inductive, since each says nothing, or little, while tasks are at work. `Inv` says how
far they have got: while no two edits met, one task at most is between rendering and
rename, which is why a rename never moves what is still written (`Rendering`); that
task will rename or remove the temporary file (`TmpOwned`); a file without a row has a
deletion that will unlink it (`Deletion`); the tags of file and row differ only
between one writer's two steps, or after its save was refused (`Tagging`); where each edit is (`Applied`); who drew the
pictures last (`Pictures`); and that a song an edit has read belongs to who owned it
then, or to everybody (`Owners`), since only publication changes an owner and it only
sets none. There is one lemma for each part, over what steps do to task, files, row
and pictures field by field (`StepAt`, `StepFiles`, `StepRow`, `StepPicture`).

`ImportJobs`: `SlotsNeverLost`, `Spec => []SlotsKept`. The
free slots and the running jobs always add up to `Slots`; with the range of `pc` this is
inductive (`SlotsInv`). A step either stays among running jobs or among the others
(`SameHolders`), or is one of the two that move a slot (`AcquireSlots`, `ReleaseSlots`).
`NothingStays`, `Spec => []NothingLeftOver`, and `ImportsKeepLifecycle`,
`Spec => ImplementsLifecycle`, share the invariant `LeftOverInv`: the queue holds who
waits, once (`QueueOK`); the row is as far as the job (`InStep`); a song is inserted
by its own job only, so that a file without a song is one still waited for
(`FilesOK`); and a duplicate's original was tagged for good when it was found
(`DuplicateOK`). A step of a job concerns its own rows only (`OnlyJob`, `JobKeeps`).

`Playlists`: `TypeCorrect`, `SongsAddedInOrder` and `SongsReordered`. The invariant `Inv`
adds to the types that no request in flight would go past `MaxPosition`. What is
inserted gets the number of inserted songs before it in the list, so the order asked
for is the strict growth of sets of earlier songs (`Before`), and the bound an
injection of them into the places before. `NextPlace`: the position read is behind
all songs, or 0 with all of them. That is all of the old state a commit needs, and why
other commits in between do no harm.

`Editor`: `SegmentsAreCorrect`, `Spec => []SegmentsCorrect`, with its parts `TypesHold`,
`KeepsExactly` and `SegmentsStayInOrder`. The loop invariant (`LoopInv`) says of every
instant before `pos` that it is in a segment exactly if the trim keeps it and no cut
the loop has come to takes it, that cuts still to come start no earlier than those
done, and that what is at or behind `pos` is in no segment yet. The order of the starts is
what lets the loop clip a cut at `pos` and forget those behind it.

All other properties of `Editor` are proved too. `TempFilesGo`, `Spec => []TempIsRemoved`: while
segments are copied the directory holds 0 to k for some k (`TempInv`), so the list is
only there when the `finally` knows its name. `FadesStayWithTheMusic`,
`Spec => []FadesFollowTheMusic`, of what the output plays: the sum in `BufferOffset` is the number of instants the
segments hold before t (`OffsetCounts`), hence, by `KeepsExactly`, of the kept ones
(`OffsetIsPlace`), and that number grows exactly at kept instants (`PlacesGrow`).
The sum is a fold in an unspecified order: the function that counts what any set of
segments holds solves the fold's equation, since segments in order share no instant
(`OrderedApart`, `HeldMore`), and the solution is unique (`OneFold`, by a least
counterexample). `FadesAreAtTheirCut`, `Spec => []FadesMeetTheirCut`: the loop invariant
(`FadeInv`) says of each segment that it begins where the trim does, unfaded, or where a
cut ends whose `fade_in` it has, and likewise for where it ends (`Met`); the fade that is
pending is that of a cut which ends at `pos`. A last lemma follows such a fade into the
output, on the path for one segment and the one for several; with one, and an end,
a lower speed may stop before it. `OutputIsAsKept`, `Spec => []PlaysWhatIsKept`, follows from
`KeepsExactly` path by path: the ranges of the output are the segments, but that
`StopsAt` moves the end of a bounded one. `AllAskedIsDone`,
`Spec => []NothingAskedIsLost`: the recursion of `Tempo` is at most one deep, so its value
can be stated (`TempoIs`), and two filters multiply in whichever order (`Products`).

`Accounts`: `RowsOK` (types, and what a request carries) and `TokensOK` (tokens are
not over) are inductive together, and give `TypesHold`; on top of them
`SessionsAreOver` needs that a refresh token ends `RefreshLife` after its proof and
that an access token is given out by nobody else, `NamesStayUnique` that the database
refuses a second name, `ServerStartsAgain` that whoever has the seeded e-mail has the
seeded name (`SeedEmailHeld`), since no request changes the name or e-mail of an
account (all three together are `AccountsStayConsistent`), and the action
property `AccountsChangeAsAsked` follows step by step.

`UserRows`: `RowsStayConsistent` and `DownloadsStayAccounted` from one invariant `Inv`. `CarriedOK`
relates what a request has in hand to the rows: the songs a download will answer with
are counted or still to be counted, a sync inserts only songs it saw. `UuidsOK` says a
uuid on its way into or out of the database is in one request's hands only, and where
its file is; without it an insert could meet a deletion of the same uuid. A file without
a song has a request at work on it or is in `left`, which only a failed insert, a refused
unlink and a crash add to. There is one lemma per action.

`PlayerQueue`: `QueueStaysConsistent`, `Spec => []QueueConsistent`, `PlayerNeverJumps`,
`Spec => CurrentKept`, and `SongsMoveOneByOne`, `Spec => OneSongMoves`, for queues of
any length, as long as requests do not overlap (`~Overlap`). The invariant `SerialInv`
says that the row is sound (`Good`) and that the one request in flight has seen it as it
is, so that writing the columns that differ writes the row that was computed
(`ColumnsIs`). What is left is about the helpers. Lists are known by their elements
(`RemoveAtIs`, `InsertAtIs`, `MovedIs`); a shuffled order (`Orders`) stays one when a
position is added, taken away or moved (`ShiftUpOrders`, `ShiftDownOrders`,
`MovedOrders`), and one that a client puts is one by counting (`InjectionOrders`). Each
helper then has four lemmas: what the row becomes (`QueueInsertIs`, `QueueRemoveIs`,
`QueueReorderIs`), that it is sound, that the cursors follow the song they are at, and
what becomes of the order of play. The list comprehension of `queue_remove` is a fold
over the positions of a list (`Without`), whose value is found by going up through them
(`FilterExists`, `WithoutSteps`, by a least counterexample as in `EditChains`).

`ColumnsStaySound`, `Spec => []ColumnsSound`, has no assumption about overlap. Its invariant
(`SoundInv`) says of the row, and of every row a request in flight has seen, that each column is
sound by itself (`Sound`): then so is what the request wants (`WantedIsSound`), and a row made of
columns of the two (`ColumnsAreSound`). It needs of the helpers that they keep a column
sound whatever the other columns are: an order without repetitions stays one though its
positions are not those of the queue (`ShiftUpOnce`, `ShiftDownOnce`).

`DbPool`: `PoolTypes` and `PoolKeepsConnections`. `EveryConnectionHasOnePlace` is inductive
with the types; a step takes one connection, gives back or leaks those of one task, heals
one, or moves none (`TakingKeeps`, `ReturningKeeps`, `ClosingKeeps`, `StayingKeeps`).

Only model-checked, not proved: liveness (`EverythingEnds`, `ImportsEnd`, `PlaysRecover`,
`RequestsEnd`), which is outside the prover's reach.

## Not modelled

- Search, charts, statistics, log queries and listings: one SQL statement each that
  changes nothing.
- iTunes, YouTube and ffmpeg themselves: external, with the outcomes the code tells
  apart.
- The signature of tokens and the hash of passwords: taken as what they promise.
- The listing of imports, and the death of the process during one: as with edits, no
  code resumes what was in flight.
- A database that refuses a statement is in `EditChains`, `SongFiles`, `UserRows` and `DbPool`. In
  `Accounts`, `Playlists` and `PlayerQueue` each request has one commit at its end, and one
  that is refused is a request that was not made; for `ImportJobs` see there.
- The connections that a disconnect leaks concern `DbPool` only: a handler that is
  cancelled leaves rows and files as a refused statement does.
- Several songs published in one request: the loop is one song after the other, each
  with its own commits, which is what two requests do.
- The version endpoint, route constants, configuration, middleware, the mongo client
  no handler uses, the migrations and the one-off scripts.

## Plan

Done, in this order: edit chains with the lifecycle of jobs, player queue, playlists,
imports; then the editor, a song's files, accounts and sessions, the rows of users
with downloads, and the pool, each with its proofs.

What would add most next: what is left of `TwoEditCap` and `RestoreMeansListed` when
handlers do overlap; and refused statements in `ImportJobs`, whose rows fail for races only.
