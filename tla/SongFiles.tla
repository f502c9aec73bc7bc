----------------------------- MODULE SongFiles -----------------------------
(***************************************************************************)
(* The audio file of one song, the temporary file overwriting edits render *)
(* into, its artwork on disk, and the row that describes them:             *)
(* routers/edit.py, routers/properties.py, routers/songs.py, artwork.py.   *)
(*                                                                         *)
(* ffmpeg and the taggers run for seconds while other requests go on, and  *)
(* the files they write can be moved or unlinked under them: a file is a   *)
(* record of its content and of who is still writing it.                   *)
(*                                                                         *)
(* A definition whose name ends in a word after an underscore, such as     *)
(* Swap_Removed, is a plausible bug in the definition after it: put in its *)
(* place, it makes a property below fail.  No specification uses it.       *)
(***************************************************************************)
EXTENDS Integers, FiniteSetsExt

CONSTANTS Tasks,       \* requests and jobs, each used once
          Users, Admins,
          NULL,        \* SQL NULL, no file
          Kinds,       \* bound: what tasks may do in this instance
          MayCrash     \* may the process stop, once?

\* A row of songs, and what a file holds: the edits it went through, the writer of
\* its tags, who writes it at the moment, and what may have torn it.
Row == [tags : Tasks \cup {NULL}, owner : Users \cup {NULL},
        source : {"community", "original"}, art : BOOLEAN]

Contents == [edits : SUBSET Tasks, tags : Tasks \cup {NULL},
             renderers : SUBSET Tasks, taggers : SUBSET Tasks,
             torn : SUBSET {"render", "tag"}]

ASSUME SongFilesAssumption ==
    /\ Admins \subseteq Users
    /\ Kinds \subseteq {"overwrite", "put", "upload", "delete"}
    /\ MayCrash \in BOOLEAN
    /\ NULL \notin Tasks \cup Users \cup Row \cup Contents
    /\ NULL \notin {"overwrite", "put", "upload", "delete", "done", "failed"}

VARIABLES row,      \* songs: tags are `properties`; NULL once deleted
          file,     \* what is at file_path
          tmp,      \* what is at {base}_tmp{ext}
          picture,  \* thumb.jpg and full.jpg: the task that wrote them
          task,     \* the step each task is at
          outcome,  \* edit_jobs.status of an overwrite, once settled
          history   \* what has overlapped or stopped so far, for the properties

vars == <<row, file, tmp, picture, task, outcome, history>>

disk == <<file, tmp, picture>>

Idle == [kind |-> NULL, at |-> "idle", user |-> NULL, original |-> FALSE,
         tags |-> FALSE, art |-> FALSE, owner |-> NULL]

Busy(t)      == task[t].at \notin {"idle", "end", "refused"}
BusyWith(ks) == {t \in Tasks : Busy(t) /\ task[t].kind \in ks}
Quiet        == \A t \in Tasks : ~Busy(t)

Remember(what) == history' = history \cup what

\* Task t goes from one step to another.
Go(t, from, to) == task[t].at = from /\ task' = [task EXCEPT ![t].at = to]

-----------------------------------------------------------------------------

Init ==
    /\ \E o \in Users \cup {NULL} :
           row = [tags |-> NULL, owner |-> o, source |-> "community", art |-> FALSE]
    /\ file = [edits |-> {}, tags |-> NULL, renderers |-> {}, taggers |-> {}, torn |-> {}]
    /\ tmp = NULL
    /\ picture = [thumb |-> NULL, full |-> NULL]
    /\ task = [t \in Tasks |-> Idle]
    /\ outcome = [t \in Tasks |-> NULL]
    /\ history = {}

\* A task starts.  Two that save tags, and a deletion beside them, are remembered.
Start(t, kind, record) ==
    /\ task[t].at = "idle" /\ kind \in Kinds
    /\ row # NULL
    /\ task' = [task EXCEPT ![t] = record]
    /\ Remember((IF kind \in {"overwrite", "put"} /\ BusyWith({"overwrite", "put"}) # {}
                 THEN {"tags"} ELSE {})
                \cup (IF \/ kind = "delete" /\ BusyWith({"overwrite"}) # {}
                         \/ kind = "overwrite" /\ BusyWith({"delete"}) # {}
                      THEN {"delete"} ELSE {}))
    /\ UNCHANGED <<row, disk, outcome>>

\* create_edit_job: only admins overwrite, or publish as original.
CreateOverwrite(t) ==
    \E u \in Users, original, tags \in BOOLEAN :
        /\ u \in Admins
        /\ Start(t, "overwrite", [Idle EXCEPT !.kind = "overwrite", !.at = "read", !.user = u,
                                 !.original = original, !.tags = tags])

\* put_properties: the row and the file are there.
PutProperties(t) ==
    \E u \in Users, original, art \in BOOLEAN :
        /\ file # NULL
        /\ Start(t, "put", [Idle EXCEPT !.kind = "put", !.at = "tag", !.user = u, !.art = art,
                           !.original = original /\ u \in Admins, !.tags = TRUE])

\* upload_artwork: the owner, an admin, or anybody once the song is published.
UploadArtwork(t) ==
    \E u \in Users :
        /\ row # NULL => row.owner \in {NULL, u} \/ u \in Admins
        /\ Start(t, "upload", [Idle EXCEPT !.kind = "upload", !.at = "store", !.user = u])

\* delete_download, behind require_admin.
DeleteSong(t) ==
    \E u \in Users :
        /\ u \in Admins
        /\ Start(t, "delete", [Idle EXCEPT !.kind = "delete", !.at = "commit", !.user = u])

-----------------------------------------------------------------------------
(* An overwriting edit, _run_edit_job with overwrite *)

\* The snapshot of the row; "source song not found".
OverwriteRead(t) ==
    /\ task[t].at = "read"
    /\ task' = [task EXCEPT ![t].at = IF row = NULL THEN "end" ELSE "render",
                            ![t].owner = IF row = NULL THEN NULL ELSE row.owner]
    /\ outcome' = [outcome EXCEPT ![t] = IF row = NULL THEN "failed" ELSE NULL]
    /\ UNCHANGED <<row, disk, history>>

\* except: the temporary file goes, whoever wrote it; then the status is written, if
\* the database lets it.
Except(t) ==
    /\ tmp' = NULL
    /\ outcome' \in {outcome, [outcome EXCEPT ![t] = "failed"]}

Fail(t) == Except(t) /\ task' = [task EXCEPT ![t].at = "end"]

Render_InPlace(t) ==
    /\ Go(t, "render", "rendering") /\ file # NULL
    /\ file' = [file EXCEPT !.edits = @ \cup {t}, !.renderers = @ \cup {t}]
    /\ UNCHANGED <<row, tmp, picture, outcome, history>>

\* ffmpeg opens the source, and truncates or creates the temporary file.
Render(t) ==
    /\ Go(t, "render", "rendering") /\ file # NULL
    /\ LET with == IF tmp = NULL THEN {} ELSE tmp.renderers IN
       tmp' = [edits |-> file.edits \cup {t}, tags |-> file.tags, taggers |-> {},
               renderers |-> with \cup {t},
               torn |-> file.torn \cup (IF with \cup file.renderers # {} THEN {"render"} ELSE {})
                                  \cup (IF file.taggers # {} THEN {"tag"} ELSE {})]
    /\ Remember(IF \E x \in Tasks : task[x].at \in {"rendering", "swap"}
                THEN {"render"} ELSE {})
    /\ UNCHANGED <<row, file, picture, outcome>>

RenderMissing(t) ==
    /\ task[t].at = "render" /\ file = NULL
    /\ Fail(t)
    /\ UNCHANGED <<row, file, picture, history>>

\* Task t no longer writes the content f; an end that is no success leaves it partial.
Closed(f, t, torn) ==
    IF f = NULL \/ t \notin f.renderers THEN f
    ELSE [f EXCEPT !.renderers = @ \ {t}, !.torn = @ \cup torn]

RenderDone(t) ==
    /\ Go(t, "rendering", "swap")
    /\ tmp' = Closed(tmp, t, {}) /\ file' = Closed(file, t, {})
    /\ UNCHANGED <<row, picture, outcome, history>>

RenderFailed(t) ==
    /\ task[t].at = "rendering"
    /\ Fail(t)
    /\ file' = Closed(file, t, {"render"})
    /\ UNCHANGED <<row, picture, history>>

AfterSwap(t) == IF task[t].tags THEN "tag" ELSE "save"

Swap_Removed(t) ==
    /\ Go(t, "swap", AfterSwap(t)) /\ tmp # NULL
    /\ tmp' = NULL
    /\ UNCHANGED <<row, file, picture, outcome, history>>

\* os.replace, which takes along whoever is still writing the temporary file.
Swap(t) ==
    /\ Go(t, "swap", AfterSwap(t)) /\ tmp # NULL
    /\ file' = tmp /\ tmp' = NULL
    /\ UNCHANGED <<row, picture, outcome, history>>

\* Another overwriting edit has moved or removed it.
SwapMissing(t) ==
    /\ task[t].at = "swap" /\ tmp = NULL
    /\ Fail(t)
    /\ UNCHANGED <<row, file, picture, history>>

-----------------------------------------------------------------------------
(* Tags: in a thread, into the file as it is *)

\* _retag_file, and the taggers of put_properties.
Tag(t) ==
    /\ Go(t, "tag", "tagging") /\ file # NULL
    /\ file' = [file EXCEPT !.taggers = @ \cup {t},
                            !.torn = @ \cup (IF file.taggers # {} THEN {"tag"} ELSE {})]
    /\ UNCHANGED <<row, tmp, picture, outcome, history>>

\* The file may have been replaced or unlinked: the tags are then lost.
Tagged(t) ==
    /\ Go(t, "tagging", "save")
    /\ file' = IF file = NULL \/ t \notin file.taggers THEN file
               ELSE [file EXCEPT !.taggers = @ \ {t}, !.tags = t]
    /\ UNCHANGED <<row, tmp, picture, outcome, history>>

\* The tagger finds no file, or reports an error before it writes.
TagFailed(t) ==
    /\ \/ task[t].at = "tag" /\ file = NULL
       \/ task[t].at = "tagging"
    /\ IF task[t].kind = "overwrite" THEN Fail(t)
       ELSE task' = [task EXCEPT ![t].at = "end"] /\ UNCHANGED <<tmp, outcome>>
    /\ file' = IF file = NULL THEN NULL ELSE [file EXCEPT !.taggers = @ \ {t}]
    /\ UNCHANGED <<row, picture, history>>

\* The owner is the one an edit read first, and the one put_properties reads now.
OwnerSeen(t) == IF task[t].kind = "put" /\ row # NULL THEN row.owner ELSE task[t].owner

Save_Early(t) ==
    /\ task[t].at \in {"tag", "save"}
    /\ row' = IF row = NULL \/ ~task[t].tags THEN row ELSE [row EXCEPT !.tags = t]
    /\ task' = [task EXCEPT ![t].at = "publish", ![t].owner = OwnerSeen(t)]
    /\ UNCHANGED <<disk, outcome, history>>

\* update_song_properties, which ignores a song that is gone.
Save(t) ==
    /\ task[t].at = "save"
    /\ task[t].kind = "put" => row # NULL
    /\ row' = IF row = NULL \/ ~task[t].tags THEN row ELSE [row EXCEPT !.tags = t]
    /\ task' = [task EXCEPT ![t].at = "publish", ![t].owner = OwnerSeen(t)]
    /\ UNCHANGED <<disk, outcome, history>>

MayPublish_Anybody(t) == row # NULL /\ task[t].tags

MayPublish(t) == row # NULL /\ task[t].tags /\ task[t].owner = task[t].user

\* publish_song, if the tags are complete, which is left open.
PublishSong(t) ==
    \/ UNCHANGED row
    \/ /\ MayPublish(t)
       /\ row' = [row EXCEPT !.owner = NULL,
                             !.source = IF task[t].original THEN "original" ELSE "community"]

\* Then the job is done, or the request is answered and its artwork fetched in the
\* background.
Publish(t) ==
    /\ Go(t, "publish", IF task[t].art THEN "fetch" ELSE "end")
    /\ PublishSong(t)
    /\ outcome' = IF task[t].kind = "overwrite" THEN [outcome EXCEPT ![t] = "done"] ELSE outcome
    /\ UNCHANGED <<disk, history>>

\* The song is gone when put_properties comes to save: the request ends.
SaveMissing(t) ==
    /\ task[t].kind = "put" /\ row = NULL
    /\ Go(t, "save", IF task[t].art THEN "fetch" ELSE "end")
    /\ UNCHANGED <<row, disk, outcome, history>>

-----------------------------------------------------------------------------
(* Artwork: full.jpg, thumb.jpg, and then the row *)

Drawing == {t \in Tasks : task[t].at = "thumb"}

\* _fetch_and_store, in a thread: nothing found, or the first of the two files.
Fetch(t) ==
    /\ \/ Go(t, "fetch", "end") /\ UNCHANGED <<picture, history>>
       \/ /\ Go(t, "fetch", "thumb")
          /\ picture' = [picture EXCEPT !.full = t]
          /\ Remember(IF Drawing # {} THEN {"picture"} ELSE {})
    /\ UNCHANGED <<row, file, tmp, outcome>>

FetchThumb(t) ==
    /\ Go(t, "thumb", "art")
    /\ picture' = [picture EXCEPT !.thumb = t]
    /\ UNCHANGED <<row, file, tmp, outcome, history>>

Store_OnlyFull(t) ==
    /\ Go(t, "store", "art")
    /\ picture' = [picture EXCEPT !.full = t]
    /\ Remember(IF Drawing # {} THEN {"picture"} ELSE {})
    /\ UNCHANGED <<row, file, tmp, outcome>>

\* store_artwork_from_bytes writes both on the event loop, or refuses the image.
Store(t) ==
    /\ \/ Go(t, "store", "end") /\ UNCHANGED <<picture, history>>
       \/ /\ Go(t, "store", "art")
          /\ picture' = [thumb |-> t, full |-> t]
          /\ Remember(IF Drawing # {} THEN {"picture"} ELSE {})
    /\ UNCHANGED <<row, file, tmp, outcome>>

\* update_song_artwork
SaveArtwork(t) ==
    /\ Go(t, "art", "end")
    /\ row' = IF row = NULL THEN NULL ELSE [row EXCEPT !.art = TRUE]
    /\ UNCHANGED <<disk, outcome, history>>

-----------------------------------------------------------------------------
(* Deletion, and the end of the process *)

\* crud.delete_song: the row, in a commit of its own.
DeleteCommit(t) ==
    /\ Go(t, "commit", IF row = NULL THEN "end" ELSE "unlink")
    /\ row' = NULL
    /\ UNCHANGED <<disk, outcome, history>>

\* The audio file goes, unless the system refuses, which nobody is told; the artwork
\* stays.
DeleteUnlink(t) ==
    /\ Go(t, "unlink", "end")
    /\ \/ file' = NULL /\ UNCHANGED history
       \/ Remember({"unlink"}) /\ UNCHANGED file
    /\ UNCHANGED <<row, tmp, picture, outcome>>

Cut(f) ==
    IF f = NULL THEN NULL
    ELSE [f EXCEPT !.renderers = {}, !.taggers = {},
                   !.torn = @ \cup (IF f.renderers # {} THEN {"render"} ELSE {})
                              \cup (IF f.taggers # {} THEN {"tag"} ELSE {})]

\* The process stops: nothing in flight goes on, files stay as they were.
Crash ==
    /\ MayCrash /\ "crash" \notin history
    /\ Remember({"crash"})
    /\ file' = Cut(file) /\ tmp' = Cut(tmp)
    /\ task' = [t \in Tasks |-> IF Busy(t) THEN [task[t] EXCEPT !.at = "end"] ELSE task[t]]
    /\ UNCHANGED <<row, picture, outcome>>

\* The database refuses what comes next: no session in time, or a commit that fails.
\* What was written to files and committed before stays.
Refused(t) ==
    /\ task[t].at \in {"read", "save", "publish", "art", "commit"}
    /\ task' = [task EXCEPT ![t].at = IF @ = "save" THEN "refused" ELSE "end"]
    /\ IF task[t].at = "publish" THEN PublishSong(t) ELSE UNCHANGED row
    /\ IF task[t].kind = "overwrite" /\ task[t].at # "read" THEN Except(t)
                                                           ELSE UNCHANGED <<tmp, outcome>>
    /\ UNCHANGED <<file, picture, history>>

-----------------------------------------------------------------------------
(* The specification *)

Step(t) ==
    \/ OverwriteRead(t) \/ Render(t) \/ RenderMissing(t) \/ RenderDone(t) \/ RenderFailed(t)
    \/ Swap(t) \/ SwapMissing(t) \/ Tag(t) \/ Tagged(t) \/ TagFailed(t)
    \/ Save(t) \/ SaveMissing(t) \/ Publish(t)
    \/ Fetch(t) \/ FetchThumb(t) \/ Store(t) \/ SaveArtwork(t)
    \/ DeleteCommit(t) \/ DeleteUnlink(t) \/ Refused(t)

Next ==
    \/ \E t \in Tasks : \/ CreateOverwrite(t) \/ PutProperties(t)
                        \/ UploadArtwork(t) \/ DeleteSong(t) \/ Step(t)
    \/ Crash

Spec == Init /\ [][Next]_vars

-----------------------------------------------------------------------------
(* Properties *)

\* Every variable keeps its type, and only tasks at work on a file have it open.
TypeOK ==
    /\ row \in Row \cup {NULL}
    /\ file \in Contents \cup {NULL} /\ tmp \in Contents \cup {NULL}
    /\ picture \in [thumb : Tasks \cup {NULL}, full : Tasks \cup {NULL}]
    /\ outcome \in [Tasks -> {NULL, "done", "failed"}]
    /\ history \subseteq {"tags", "delete", "render", "picture", "unlink", "crash"}
    /\ \A f \in {file, tmp} \ {NULL} :
           /\ \A t \in f.renderers : task[t].at = "rendering"
           /\ \A t \in f.taggers : task[t].at = "tagging"

\* Whoever opens the file at file_path finds one whole rendering, even after a
\* crash, as long as no two overwriting edits rendered at the same time.
NeverHalfRendered ==
    (file # NULL /\ "render" \notin history) =>
        file.renderers = {} /\ "render" \notin file.torn

\* The same for every file: "swaps the source file atomically via a .tmp rename".  This
\* does not hold, and no run checks it: two edits of one song share the temporary file,
\* and the rename of one moves what the other is still writing.
SwapIsAtomic == file # NULL => file.renderers = {}

\* Once every overwriting edit is over, however they met and ended, none of
\* them has left its temporary file: only a crash does.
TmpIsRemoved ==
    (BusyWith({"overwrite"}) = {} /\ "crash" \notin history) => tmp = NULL

\* An overwriting edit that is reported done is in the file, and one that failed
\* before its rename is not.
DoneMeansApplied ==
    [][ \A t \in Tasks :
          (outcome'[t] # outcome[t] /\ row # NULL /\ history' \cap {"render", "delete"} = {}) =>
              /\ outcome'[t] = "done" => file # NULL /\ t \in file.edits
              /\ outcome'[t] = "failed" /\ task[t].at \in {"render", "rendering", "swap"}
                     => t \notin file'.edits ]_vars

\* The file holds the tags of a task whose save was refused: nothing takes them back.
Unsaved(f) == \E t \in Tasks : f.tags = t /\ task[t].at = "refused"

\* What the row says of the song and what its file is tagged with are the same
\* whenever nothing is going on, unless two writers of tags overlapped or the tags in
\* the file are those of a task that could not save them; the next to save makes good
\* what such a task left.
TagsAgree ==
    (Quiet /\ row # NULL /\ history \cap {"tags", "crash"} = {}) =>
        file.tags = row.tags \/ Unsaved(file)

\* A deleted song leaves no audio behind, unless it could not be removed, or an
\* overwriting edit ran beside the deletion: its rename brings the file back.
NothingOrphaned ==
    (Quiet /\ row = NULL /\ history \cap {"delete", "unlink", "crash"} = {}) => file = NULL

\* What is in the songs directory is whole, wanted and named by the row.
DiskInOrder == TypeOK /\ NeverHalfRendered /\ TmpIsRemoved /\ NothingOrphaned

\* Both sizes show one picture when nothing is going on, unless two were drawn
\* at once or the process stopped between them.
PicturesMatch ==
    (Quiet /\ history \cap {"picture", "crash"} = {}) => picture.thumb = picture.full

\* A row that says artwork is cached can be served it, in both sizes, whatever
\* overlapped or crashed.
ArtworkCanBeServed ==
    (row # NULL /\ row.art) => picture.thumb # NULL /\ picture.full # NULL

\* The two sizes of a picture and the column that announces them agree.
ArtworkAgrees == PicturesMatch /\ ArtworkCanBeServed

\* Nobody but its owner publishes a song, and nobody but an admin as an original,
\* though the owner was read before other commits.
PublishedByRight ==
    [][ (row # NULL /\ row' # NULL /\ row'.owner # row.owner) =>
          \E t \in Tasks : /\ task'[t] # task[t] /\ task[t].user = row.owner
                           /\ row'.source = "original" => task[t].user \in Admins ]_vars

=============================================================================
