----------------------------- MODULE ImportJobs -----------------------------
(***************************************************************************)
(* Imports of audio files: the request that stores the upload, the job     *)
(* that runs behind a semaphore, reads the tags, looks for a duplicate and *)
(* inserts the song (routers/imports.py), and the requests that touch the  *)
(* same rows meanwhile.                                                    *)
(*                                                                         *)
(* One action is the code between two awaits.  A song is named by the job  *)
(* that imports it: its uuid is the stem of the uploaded file's name.  All *)
(* jobs are of one user.  Of the tags only what duplicate detection looks  *)
(* at is kept; ownership, eligibility and artwork are left out, and so is  *)
(* the death of the process, which does to jobs what it does in EditChains.*)
(*                                                                         *)
(* A definition whose name ends in a word after an underscore, such as     *)
(* Begin_Quietly, is a plausible bug in the definition after it: put in    *)
(* its place, it makes a property below fail.  No specification uses it.   *)
(***************************************************************************)
EXTENDS Integers, Sequences, FiniteSets

CONSTANTS Jobs,        \* ids of import jobs, and uuids of the songs they insert
          Recordings,  \* pairs of a title and an artist
          Slots,       \* value of _import_semaphore
          NULL,        \* SQL NULL, None
          Ops          \* what clients do besides importing

ASSUME ImportAssumption ==
    /\ Slots \in Nat \ {0}
    /\ Ops \subseteq {"library", "delete", "deleteUser"}
    /\ NULL \notin Jobs /\ IsFiniteSet(Jobs)
    /\ Recordings \cap {"untitled", "no artist", NULL} = {}
    /\ NULL \notin {"untitled", "no artist"}

VARIABLES songs,      \* uuids that have a row in songs
          files,      \* uuids whose file is on disk
          library,    \* songs in the user's library
          present,    \* does the user have a row?
          status,     \* import_jobs.status, "none" where there is no row
          duplicate,  \* import_jobs.duplicate_of
          tags,       \* what the file of a song says it is
          pc,         \* where the handler or the job is
          queue,      \* the jobs waiting for the semaphore, in the order they came
          free        \* the semaphore's counter

store == <<songs, files, library>>
jobs == <<present, status, duplicate, tags>>
vars == <<store, jobs, pc, queue, free>>

Tags == Recordings \cup {"untitled", "no artist"}

\* The steps of a job that holds a slot.
Running == {"begin", "read", "fail", "duplicate", "insert", "look", "list", "refresh", "finish"}

\* The steps at which the song is yet to be inserted.
Unsettled == {"create", "wait", "begin", "read", "fail", "insert"}

-----------------------------------------------------------------------------

Goto(j, step) == pc' = [pc EXCEPT ![j] = step]

Release_Leaks(j) == Goto(j, "idle") /\ UNCHANGED <<queue, free>>

\* The job is over, and the `async with` gives its slot back.
Release(j) == Goto(j, "idle") /\ free' = free + 1 /\ UNCHANGED queue

Discard_Nothing(j) == UNCHANGED files

Discard(j) == files' = files \ {j}

\* crud.update_import_job: nothing happens when the row is gone.
UpdateImportJob(j, s) ==
    status' = IF status[j] = "none" THEN status ELSE [status EXCEPT ![j] = s]

-----------------------------------------------------------------------------
(* POST /import *)

\* The upload is written before any row is.
Upload(j) ==
    /\ pc[j] = "idle" /\ status[j] = "none" /\ tags[j] = NULL
    /\ present
    /\ files' = files \cup {j}
    /\ tags' \in {[tags EXCEPT ![j] = tag] : tag \in Tags}
    /\ Goto(j, "create")
    /\ UNCHANGED <<songs, library, present, status, duplicate, queue, free>>

\* The row, and the background task; without its user the row is refused.
CreateImportJob(j) ==
    /\ pc[j] = "create"
    /\ IF present
       THEN /\ status' = [status EXCEPT ![j] = "pending"]
            /\ queue' = Append(queue, j)
            /\ Goto(j, "wait")
       ELSE Goto(j, "idle") /\ UNCHANGED <<status, queue>>
    /\ UNCHANGED <<store, present, duplicate, tags, free>>

-----------------------------------------------------------------------------
(* _run_import *)

Acquire_Barging(j) ==
    /\ pc[j] = "wait" /\ j = Head(queue)
    /\ queue' = Tail(queue)
    /\ free' = free - 1
    /\ Goto(j, "begin")
    /\ UNCHANGED <<store, jobs>>

Acquire(j) ==
    /\ pc[j] = "wait" /\ free > 0
    /\ j = Head(queue)
    /\ queue' = Tail(queue)
    /\ free' = free - 1
    /\ Goto(j, "begin")
    /\ UNCHANGED <<store, jobs>>

Begin_Quietly(j) ==
    /\ pc[j] = "begin"
    /\ Goto(j, "read")
    /\ UNCHANGED <<store, jobs, queue, free>>

Begin(j) ==
    /\ pc[j] = "begin"
    /\ UpdateImportJob(j, "processing")
    /\ Goto(j, "read")
    /\ UNCHANGED <<store, present, duplicate, tags, queue, free>>

\* find_song_by_track_artist, for a file that names title and artist.
Same(j) == {s \in songs : tags[j] \in Recordings /\ tags[s] = tags[j]}

\* The tags are read, and a duplicate is looked for; its file goes at once.
Read(j) ==
    /\ pc[j] = "read"
    /\ \/ /\ tags[j] = "untitled"
          /\ Goto(j, "fail")
          /\ UNCHANGED <<files, duplicate>>
       \/ /\ \E s \in Same(j) : duplicate' = [duplicate EXCEPT ![j] = s]
          /\ Discard(j)
          /\ Goto(j, "duplicate")
       \/ /\ tags[j] # "untitled" /\ Same(j) = {}
          /\ Goto(j, "insert")
          /\ UNCHANGED <<files, duplicate>>
    /\ UNCHANGED <<songs, library, present, status, tags, queue, free>>

\* Without a title the job fails, and leaves the file where it is.
Fail(j) ==
    /\ pc[j] = "fail"
    /\ UpdateImportJob(j, "failed")
    /\ Release(j)
    /\ UNCHANGED <<store, present, duplicate, tags>>

Duplicate(j) ==
    /\ pc[j] = "duplicate"
    /\ UpdateImportJob(j, "duplicate")
    /\ Release(j)
    /\ UNCHANGED <<store, present, duplicate, tags>>

Insert(j) ==
    /\ pc[j] = "insert"
    /\ songs' = songs \cup {j}
    /\ Goto(j, "look")
    /\ UNCHANGED <<files, library, jobs, queue, free>>

\* add_to_library looks for the row, and inserts one if it found none.
Look(j) ==
    /\ pc[j] = "look"
    /\ Goto(j, IF j \in library THEN "finish" ELSE "list")
    /\ UNCHANGED <<store, jobs, queue, free>>

\* The insert is refused when the row is there by now, or its song or user is gone.
\* The except branch then removes the file; it updates the job in the session that
\* has just failed, which raises once more, so that the job keeps its status.
List(j) ==
    /\ pc[j] = "list"
    /\ \/ /\ present /\ j \in songs \ library
          /\ library' = library \cup {j}
          /\ Goto(j, "refresh")
          /\ UNCHANGED <<files, queue, free>>
       \/ /\ ~present \/ j \notin songs \ library
          /\ Discard(j)
          /\ Release(j)
          /\ UNCHANGED library
    /\ UNCHANGED <<songs, jobs>>

\* The new entry is read back.  It may be gone, and then the except branch removes
\* the file of a song that stays.
Refresh(j) ==
    /\ pc[j] = "refresh"
    /\ IF j \in library
       THEN Goto(j, "finish") /\ UNCHANGED files
       ELSE Goto(j, "fail") /\ Discard(j)
    /\ UNCHANGED <<songs, library, jobs, queue, free>>

Finish(j) ==
    /\ pc[j] = "finish"
    /\ UpdateImportJob(j, "done")
    /\ Release(j)
    /\ UNCHANGED <<store, present, duplicate, tags>>

JobStep(j) ==
    \/ CreateImportJob(j) \/ Acquire(j) \/ Begin(j) \/ Read(j) \/ Fail(j)
    \/ Duplicate(j) \/ Insert(j) \/ Look(j) \/ List(j)
    \/ Refresh(j) \/ Finish(j)

-----------------------------------------------------------------------------
(* Other requests *)

AddToLibrary(s) ==
    /\ "library" \in Ops
    /\ present /\ s \in songs
    /\ library' = library \cup {s}
    /\ UNCHANGED <<songs, files, jobs, pc, queue, free>>

RemoveFromLibrary(s) ==
    /\ "library" \in Ops
    /\ library' = library \ {s}
    /\ UNCHANGED <<songs, files, jobs, pc, queue, free>>

\* DELETE /download/{id}, with the file.
DeleteDownload(s) ==
    /\ "delete" \in Ops
    /\ s \in songs
    /\ songs' = songs \ {s}
    /\ files' = files \ {s}
    /\ library' = library \ {s}
    /\ UNCHANGED <<jobs, pc, queue, free>>

DeleteUser ==
    /\ "deleteUser" \in Ops
    /\ present' = FALSE
    /\ library' = {}
    /\ status' = [j \in Jobs |-> "none"]
    /\ UNCHANGED <<songs, files, duplicate, tags, pc, queue, free>>

-----------------------------------------------------------------------------

Init ==
    /\ songs = {} /\ files = {} /\ library = {}
    /\ present = TRUE
    /\ status = [j \in Jobs |-> "none"]
    /\ duplicate = [j \in Jobs |-> NULL]
    /\ tags = [j \in Jobs |-> NULL]
    /\ pc = [j \in Jobs |-> "idle"]
    /\ queue = <<>>
    /\ free = Slots

Next ==
    \/ \E j \in Jobs : \/ Upload(j) \/ JobStep(j)
                       \/ AddToLibrary(j) \/ RemoveFromLibrary(j) \/ DeleteDownload(j)
    \/ DeleteUser

Spec == Init /\ [][Next]_vars

\* The event loop runs every job that is ready, and hands slots out in order.
FairSpec == Spec /\ \A j \in Jobs : WF_vars(JobStep(j))

-----------------------------------------------------------------------------
(* Properties *)

\* Every variable has the shape the code gives it, and who waits is in the queue,
\* once.
TypeOK ==
    /\ songs \subseteq Jobs /\ files \subseteq Jobs /\ library \subseteq songs
    /\ present \in BOOLEAN
    /\ status \in [Jobs -> {"none", "pending", "processing", "done", "failed", "duplicate"}]
    /\ duplicate \in [Jobs -> Jobs \cup {NULL}]
    /\ tags \in [Jobs -> Tags \cup {NULL}]
    /\ pc \in [Jobs -> Running \cup {"idle", "create", "wait"}]
    /\ queue \in Seq(Jobs)
    /\ \A j \in Jobs : pc[j] = "wait" <=> \E i \in DOMAIN queue : queue[i] = j
    /\ free \in Int

\* The slots that are not free are held by running jobs, one each: none is lost
\* whatever way a job ends, and no more jobs run than there are slots.
SlotsKept == free >= 0 /\ free + Cardinality({j \in Jobs : pc[j] \in Running}) = Slots

\* Until the user is deleted, a file without a song is that of an import that has
\* still to insert it, or of one that failed for want of a title.
UploadsAccounted ==
    present => \A j \in files \ songs : pc[j] \in Unsettled \/ status[j] = "failed"

\* A duplicate left nothing behind: neither a file nor a song of its own, and the
\* song it names says it is the same recording.
DuplicatesLeaveNothing ==
    \A j \in Jobs : status[j] = "duplicate" =>
        /\ j \notin songs \cup files
        /\ duplicate[j] \in Jobs \ {j} /\ tags[duplicate[j]] = tags[j]

\* Together: whichever way imports end, what they leave behind is what their
\* songs and jobs speak for.
NothingLeftOver == TypeOK /\ UploadsAccounted /\ DuplicatesLeaveNothing

\* Nobody waits for a slot for ever, and an import comes to its end; if its job is
\* not settled then, somebody got at the song first and its file is gone.
ImportsEnd ==
    \A j \in Jobs : pc[j] = "wait" ~>
        pc[j] = "idle" /\ (status[j] \in {"done", "failed", "duplicate", "none"} \/ j \notin files)

\* What import jobs show a polling client is what JobLifecycle promises.
Lifecycle == INSTANCE JobLifecycle

ImplementsLifecycle == Lifecycle!Spec

\* This does not hold, and no run checks it: two jobs that both hold a slot look for a
\* duplicate before either has inserted, and both insert the recording.
OneSongPerRecording ==
    \A s, x \in songs : tags[s] \in Recordings /\ tags[s] = tags[x] => s = x

=============================================================================
