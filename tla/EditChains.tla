----------------------------- MODULE EditChains -----------------------------
(***************************************************************************)
(* The song store of songbirdapi and the handlers that rewrite its edit    *)
(* chains: non-overwriting edit jobs (routers/edit.py), restore and        *)
(* publish (routers/library.py), deletion of a download                    *)
(* (routers/downloads.py), the library rows, and the crud.py helpers they  *)
(* share.                                                                  *)
(*                                                                         *)
(* One asyncio process serves every request, and every `await` lets        *)
(* another one run.  A handler is a task with a step label; one action is  *)
(* the code between two awaits, and holds at most one commit.  A row that  *)
(* was looked up may be gone, or there, when the next statement writes it: *)
(* that statement then raises.  Overwriting edits, drafts, offline marks,  *)
(* playlists and the properties column are left out.                       *)
(*                                                                         *)
(* A definition whose name ends in a word after an underscore, such as     *)
(* EditFail_KeepsFile, is a plausible bug in the definition after it: put  *)
(* in its place, it makes a property below fail.  No specification uses it.*)
(***************************************************************************)
EXTENDS Naturals, FiniteSets

CONSTANTS Users,               \* user ids
          Tasks,               \* slots for handlers and background jobs in flight
          MaxSong,             \* bound: how many song uuids may ever be drawn
          Roots,               \* bound: how many songs are there at the start
          NULL,                \* SQL NULL, None
          Ops,                 \* the operations clients and the host may perform
          Overlap,             \* may a request start while another is under way?
          AncestorTargetsOnly  \* do clients restore to ancestors only?

AllOps == {"edit", "restore", "publish", "delete", "library", "deleteUser",
           "crash", "outage"}

Songs == 1..MaxSong

ASSUME StoreAssumption ==
    /\ MaxSong \in Nat /\ Roots \in 1..MaxSong
    /\ Ops \subseteq AllOps
    /\ Overlap \in BOOLEAN /\ AncestorTargetsOnly \in BOOLEAN
    /\ NULL \notin Nat /\ NULL \notin Users

VARIABLES songs,     \* uuids that have a row in songs
          parent,    \* songs.parent_song_id
          root,      \* songs.root_song_id
          owner,     \* songs.owner_id
          files,     \* uuids whose file is on disk
          library,   \* rows <<user, song>> of user_songs
          users,     \* ids that have a row in users
          job,       \* the edit_jobs row a task slot created last
          task,      \* the handler in flight in each slot
          next       \* the next uuid uuid4() draws

rows == <<songs, parent, root, owner>>
vars == <<songs, parent, root, owner, files, library, users, job, task, next>>

-----------------------------------------------------------------------------
(* Tasks *)

Kinds == {"edit", "restore", "publish", "delete"}

\* Steps at which the next thing a task does is reclaim the song `cur`.
Reclaiming == {"count_library", "count_children", "delete_row", "unlink"}

\* Steps of crud.add_to_library.
Listing == {"list", "enlist", "refresh"}

Steps == Reclaiming \cup Listing \cup
         {"idle", "begin", "mark", "read", "read_root", "render", "insert", "unlist",
          "reparent", "attach", "finish", "report", "fail", "failed", "walk", "publish"}

\* src: the song edited, restored, published or deleted.  tgt: the song an edit
\* creates, or the one a restore goes back to.  root, par: the columns of src as
\* the task read them.  input: the song whose file ffmpeg reads.  cur, nxt: the
\* song a clean-up looks at and the one it turns to after it.
Task(kind, pc, u, s, g) ==
    [kind |-> kind, pc |-> pc, user |-> u, src |-> s, tgt |-> g, root |-> NULL,
     par |-> NULL, input |-> NULL, cur |-> NULL, nxt |-> NULL]

Idle == Task("none", "idle", NULL, NULL, NULL)

At(t, kind, pc) == task[t].kind = kind /\ task[t].pc = pc

Goto(t, pc) == task' = [task EXCEPT ![t].pc = pc]

End(t) == task' = [task EXCEPT ![t] = Idle]

AllIdle == \A t \in Tasks : task[t].pc = "idle"

\* A request is accepted: the slot is free and, if requests do not overlap,
\* nothing else is under way.
Accept(t) == task[t].pc = "idle" /\ (Overlap \/ AllIdle)

\* crud.update_edit_job, where it makes no difference when the row went: nothing is
\* written to a row that is gone.
UpdateJob(t, status, result) ==
    job' = IF job[t] = NULL THEN job
           ELSE [job EXCEPT ![t].status = status,
                            ![t].result = IF result = NULL THEN @ ELSE result]

-----------------------------------------------------------------------------
(* Rows and references *)

LibraryRefs(s) == {u \in Users : <<u, s>> \in library}

ChildRefs(s) == {c \in songs : parent[c] = s}

\* What deleting a row of songs does to the rows that refer to it: the foreign
\* keys on songs are ON DELETE SET NULL, the others ON DELETE CASCADE.
DropRow(s) ==
    /\ songs' = songs \ {s}
    /\ parent' = [x \in Songs |-> IF s \in {x, parent[x]} THEN NULL ELSE parent[x]]
    /\ root' = [x \in Songs |-> IF s \in {x, root[x]} THEN NULL ELSE root[x]]
    /\ owner' = [owner EXCEPT ![s] = NULL]
    /\ library' = {e \in library : e[2] # s}
    /\ job' = [t \in Tasks |->
                 IF job[t] # NULL /\ job[t].source = s THEN NULL ELSE job[t]]

\* The songs reached by following parent_song_id from s.
Ancestors(s) ==
    LET up[n \in 0..MaxSong] == IF n = 0 THEN s
                                ELSE IF up[n - 1] = NULL THEN NULL
                                ELSE parent[up[n - 1]]
    IN  {up[n] : n \in 1..MaxSong} \ {NULL}

-----------------------------------------------------------------------------
(* Edit jobs: routers/edit.py, overwrite = False *)

\* POST /edit/songs/{id}: the job row, and the background task.
CreateEditJob(t, u, s) ==
    /\ "edit" \in Ops
    /\ Accept(t)
    /\ job[t] # NULL => job[t].status \in {"done", "failed"}
    /\ u \in users /\ s \in songs
    /\ next <= MaxSong
    /\ next' = next + 1
    /\ job' = [job EXCEPT ![t] = [status |-> "pending", source |-> s,
                                  user |-> u, result |-> NULL]]
    /\ task' = [task EXCEPT ![t] = Task("edit", "begin", u, s, next)]
    /\ UNCHANGED <<rows, files, library, users>>

\* update_edit_job looks the row up, and goes on without it.
EditBegin(t) ==
    /\ At(t, "edit", "begin")
    /\ Goto(t, IF job[t] = NULL THEN "read" ELSE "mark")
    /\ UNCHANGED <<rows, files, library, users, job, next>>

\* Its UPDATE raises if the row went in between, and nobody catches that.
EditMark(t) ==
    /\ At(t, "edit", "mark")
    /\ UpdateJob(t, "processing", NULL)
    /\ IF job[t] = NULL THEN End(t) ELSE Goto(t, "read")
    /\ UNCHANGED <<rows, files, library, users, next>>

EditRead_NoFallback(t) ==
    LET s == task[t].src IN
    /\ At(t, "edit", "read")
    /\ s \in songs
    /\ task' = [task EXCEPT ![t].root = root[s], ![t].par = parent[s],
                            ![t].input = s, ![t].pc = "render"]
    /\ UNCHANGED <<rows, files, library, users, job, next>>

\* The snapshot of the source row that the rest of the job works from.
EditRead(t) ==
    LET s == task[t].src
        r == IF root[s] = NULL THEN s ELSE root[s]
    IN  /\ At(t, "edit", "read")
        /\ IF s \in songs
           THEN /\ task' = [task EXCEPT
                     ![t].root = r, ![t].par = parent[s], ![t].input = s,
                     ![t].pc = IF r = s THEN "render" ELSE "read_root"]
                /\ UNCHANGED job
           ELSE UpdateJob(t, "failed", NULL) /\ End(t)
        /\ UNCHANGED <<rows, files, library, users, next>>

\* Edits are rendered from the root's file, or the source's if the root is gone.
EditReadRoot(t) ==
    /\ At(t, "edit", "read_root")
    /\ task' = [task EXCEPT
         ![t].input = IF task[t].root \in songs THEN task[t].root ELSE @,
         ![t].pc = "render"]
    /\ UNCHANGED <<rows, files, library, users, job, next>>

EditRender_Unchecked(t) ==
    /\ At(t, "edit", "render")
    /\ files' \in {files, files \cup {task[t].tgt}}
    /\ task' = [task EXCEPT ![t].pc = "insert", ![t].input = NULL]
    /\ UNCHANGED <<rows, library, users, job, next>>

\* apply_edits: ffmpeg writes the new file, or fails; it fails for sure when
\* its input is no longer there.
EditRender(t) ==
    /\ At(t, "edit", "render")
    /\ \/ /\ task[t].input \in files
          /\ files' = files \cup {task[t].tgt}
          /\ task' = [task EXCEPT ![t].pc = "insert", ![t].input = NULL]
       \/ /\ Goto(t, "fail")
          /\ UNCHANGED files
    /\ UNCHANGED <<rows, library, users, job, next>>

\* The insert is refused when a row its foreign keys name is gone.
EditInsert(t) ==
    LET k == task[t] IN
    /\ At(t, "edit", "insert")
    /\ IF k.src \in songs /\ k.root \in songs \cup {NULL}
       THEN /\ songs' = songs \cup {k.tgt}
            /\ parent' = [parent EXCEPT ![k.tgt] = k.src]
            /\ root' = [root EXCEPT ![k.tgt] = k.root]
            /\ owner' = [owner EXCEPT ![k.tgt] = k.user]
            /\ Goto(t, "unlist")
       ELSE Goto(t, "fail") /\ UNCHANGED rows
    /\ UNCHANGED <<files, library, users, job, next>>

EditUnlist_AnyParent(t) ==
    LET k == task[t] IN
    /\ At(t, "edit", "unlist")
    /\ library' = library \ {<<k.user, k.src>>}
    /\ task' = [task EXCEPT ![t].cur = k.par,
                            ![t].pc = IF k.par # NULL THEN "count_library" ELSE "list"]
    /\ UNCHANGED <<rows, files, users, job, next>>

\* The source leaves the library; then the two-edit cap looks at its parent.
EditUnlist(t) ==
    LET k == task[t] IN
    /\ At(t, "edit", "unlist")
    /\ library' = library \ {<<k.user, k.src>>}
    /\ task' = [task EXCEPT
         ![t].cur = k.par,
         ![t].pc = IF k.par # NULL /\ k.par # k.root THEN "count_library" ELSE "list"]
    /\ UNCHANGED <<rows, files, users, job, next>>

EditReparent_Forgotten(t) ==
    /\ At(t, "edit", "reparent")
    /\ Goto(t, "list")
    /\ UNCHANGED <<rows, files, library, users, job, next>>

\* After the cap deleted the source's parent, the source is to hang off the root,
\* unless it does, or is gone.
EditReparent(t) ==
    LET k == task[t] IN
    /\ At(t, "edit", "reparent")
    /\ Goto(t, IF k.src \notin songs \/ parent[k.src] = k.root THEN "list" ELSE "attach")
    /\ UNCHANGED <<rows, files, library, users, job, next>>

\* The UPDATE raises if the source is gone by now, or the root.
EditAttach(t) ==
    LET k == task[t] IN
    /\ At(t, "edit", "attach")
    /\ IF {k.src, k.root} \subseteq songs
       THEN parent' = [parent EXCEPT ![k.src] = k.root] /\ Goto(t, "list")
       ELSE Goto(t, "fail") /\ UNCHANGED parent
    /\ UNCHANGED <<songs, root, owner, files, library, users, job, next>>

EditFinish_Twice(t) ==
    /\ At(t, "edit", "finish")
    /\ UpdateJob(t, "done", task[t].tgt)
    /\ task' = [task EXCEPT ![t].pc = "begin"]
    /\ UNCHANGED <<rows, files, library, users, next>>

\* The job is done, if its row is there, ...
EditFinish(t) ==
    /\ At(t, "edit", "finish")
    /\ IF job[t] = NULL THEN End(t) ELSE Goto(t, "report")
    /\ UNCHANGED <<rows, files, library, users, job, next>>

\* ... and its UPDATE raises if the row went in between.
EditReport(t) ==
    /\ At(t, "edit", "report")
    /\ UpdateJob(t, "done", task[t].tgt)
    /\ IF job[t] = NULL THEN Goto(t, "fail") ELSE End(t)
    /\ UNCHANGED <<rows, files, library, users, next>>

EditFail_KeepsFile(t) ==
    /\ At(t, "edit", "fail")
    /\ Goto(t, "failed")
    /\ UNCHANGED <<rows, files, library, users, job, next>>

\* The except branch: the new file goes, whether or not its row was committed.
EditFail(t) ==
    /\ At(t, "edit", "fail")
    /\ files' = files \ {task[t].tgt}
    /\ Goto(t, "failed")
    /\ UNCHANGED <<rows, library, users, job, next>>

EditFailed_Silent(t) ==
    /\ At(t, "edit", "failed")
    /\ End(t)
    /\ UNCHANGED <<rows, files, library, users, job, next>>

EditFailed(t) ==
    /\ At(t, "edit", "failed")
    /\ UpdateJob(t, "failed", NULL)
    /\ End(t)
    /\ UNCHANGED <<rows, files, library, users, next>>

EditStep(t) ==
    \/ EditBegin(t) \/ EditMark(t) \/ EditRead(t) \/ EditReadRoot(t) \/ EditRender(t)
    \/ EditInsert(t) \/ EditUnlist(t) \/ EditReparent(t) \/ EditAttach(t)
    \/ EditFinish(t) \/ EditReport(t) \/ EditFail(t) \/ EditFailed(t)

-----------------------------------------------------------------------------
(* crud.add_to_library, for the new song of an edit and the target of a restore *)

Entry_Source(k) == <<k.user, k.src>>

Entry(k) == <<k.user, k.tgt>>

\* A restore turns to what it left behind.
Listed(t) ==
    IF task[t].kind = "edit" THEN Goto(t, "finish")
    ELSE task' = [task EXCEPT ![t].cur = task[t].src, ![t].pc = "walk"]

\* What raises is an edit's failure, and the end of a restore.
NotListed(t) == IF task[t].kind = "edit" THEN Goto(t, "fail") ELSE End(t)

\* An entry that is there is the answer.
ListSelect(t) ==
    /\ task[t].pc = "list"
    /\ IF Entry(task[t]) \in library THEN Listed(t) ELSE Goto(t, "enlist")
    /\ UNCHANGED <<rows, files, library, users, job, next>>

\* The INSERT raises if another request has put it there by now, or if the user or
\* the song is gone.
ListInsert(t) ==
    LET k == task[t] IN
    /\ task[t].pc = "enlist"
    /\ IF k.user \in users /\ k.tgt \in songs /\ Entry(k) \notin library
       THEN library' = library \cup {Entry(k)} /\ Goto(t, "refresh")
       ELSE NotListed(t) /\ UNCHANGED library
    /\ UNCHANGED <<rows, files, users, job, next>>

\* The refresh raises if another request has taken it away again.
ListRefresh(t) ==
    /\ task[t].pc = "refresh"
    /\ IF Entry(task[t]) \in library THEN Listed(t) ELSE NotListed(t)
    /\ UNCHANGED <<rows, files, library, users, job, next>>

List(t) == ListSelect(t) \/ ListInsert(t) \/ ListRefresh(t)

-----------------------------------------------------------------------------
(* Reclaiming a song nobody refers to: library_ref_count, child_ref_count,   *)
(* delete_song, in this order, wherever a clean-up does it                   *)

Excluded_Nothing(k) == {}

\* The child a clean-up does not count.
Excluded(k) == IF k.kind \in {"edit", "publish"} THEN {k.src} ELSE {}

\* Where a task goes when it is through with the song `cur`.
Resume(t, deleted) ==
    LET k == task[t] IN
    CASE k.kind = "edit" -> Goto(t, IF deleted THEN "reparent" ELSE "list")
      [] k.kind = "delete" -> End(t)
      [] OTHER -> task' = [task EXCEPT ![t].cur = k.nxt, ![t].nxt = NULL,
                                       ![t].pc = "walk"]

CountLibrary(t) ==
    /\ task[t].pc = "count_library"
    /\ IF LibraryRefs(task[t].cur) = {} THEN Goto(t, "count_children")
                                        ELSE Resume(t, FALSE)
    /\ UNCHANGED <<rows, files, library, users, job, next>>

CountChildren(t) ==
    /\ task[t].pc = "count_children"
    /\ IF ChildRefs(task[t].cur) \subseteq Excluded(task[t])
       THEN Goto(t, "delete_row")
       ELSE Resume(t, FALSE)
    /\ UNCHANGED <<rows, files, library, users, job, next>>

\* delete_song up to its commit; it returns at once when the row is gone.
DeleteRow(t) ==
    LET s == task[t].cur IN
    /\ task[t].pc = "delete_row"
    /\ IF s \in songs
       THEN DropRow(s) /\ Goto(t, "unlink")
       ELSE Resume(t, TRUE) /\ UNCHANGED <<rows, library, job>>
    /\ UNCHANGED <<files, users, next>>

\* delete_song after its commit.
Unlink(t) ==
    /\ task[t].pc = "unlink"
    /\ files' = files \ {task[t].cur}
    /\ Resume(t, TRUE)
    /\ UNCHANGED <<rows, library, users, job, next>>

Reclaim(t) == CountLibrary(t) \/ CountChildren(t) \/ DeleteRow(t) \/ Unlink(t)

-----------------------------------------------------------------------------
(* Restore and publish: routers/library.py.  DELETE /download/{id}:          *)
(* routers/downloads.py                                                      *)

\* POST /library/{song_id}/restore, up to its first write.
Restore(t, u, s, g) ==
    /\ "restore" \in Ops
    /\ Accept(t)
    /\ u \in users
    /\ s \in songs /\ owner[s] = u
    /\ g \in songs
    /\ AncestorTargetsOnly => g \in Ancestors(s)
    /\ task' = [task EXCEPT ![t] =
                  [Task("restore", "unlist", u, s, g) EXCEPT !.par = parent[s]]]
    /\ UNCHANGED <<rows, files, library, users, job, next>>

RestoreUnlist(t) ==
    /\ At(t, "restore", "unlist")
    /\ library' = library \ {<<task[t].user, task[t].src>>}
    /\ Goto(t, "list")
    /\ UNCHANGED <<rows, files, users, job, next>>

\* One turn of restore's loop.  The session still holds the source row as it
\* was first loaded, so its parent is the one read then.
RestoreWalk(t) ==
    LET k == task[t] IN
    /\ At(t, "restore", "walk")
    /\ IF k.cur \in songs \ {k.tgt}
       THEN task' = [task EXCEPT
              ![t].nxt = IF k.cur = k.src THEN k.par ELSE parent[k.cur],
              ![t].pc = "count_library"]
       ELSE End(t)
    /\ UNCHANGED <<rows, files, library, users, job, next>>

\* POST /library/publish with one song id.
Publish(t, u, s) ==
    /\ "publish" \in Ops
    /\ Accept(t)
    /\ u \in users
    /\ s \in songs /\ owner[s] = u
    /\ task' = [task EXCEPT ![t] =
         [Task("publish", "walk", u, s, NULL) EXCEPT
            !.par = parent[s], !.root = root[s],
            !.cur = IF root[s] = NULL THEN NULL ELSE parent[s]]]
    /\ UNCHANGED <<rows, files, library, users, job, next>>

PublishWalk(t) ==
    LET k == task[t] IN
    /\ At(t, "publish", "walk")
    /\ task' = IF k.cur \in songs \ {k.root}
               THEN [task EXCEPT ![t].nxt = parent[k.cur], ![t].pc = "count_library"]
               ELSE [task EXCEPT ![t].pc = "publish", ![t].cur = NULL]
    /\ UNCHANGED <<rows, files, library, users, job, next>>

\* The song becomes community content and leaves its chain.
PublishUpdate(t) ==
    LET s == task[t].src IN
    /\ At(t, "publish", "publish")
    /\ parent' = [parent EXCEPT ![s] = NULL]
    /\ root' = [root EXCEPT ![s] = NULL]
    /\ owner' = [owner EXCEPT ![s] = NULL]
    /\ End(t)
    /\ UNCHANGED <<songs, files, library, users, job, next>>

\* DELETE /download/{id}, admins only: refused while the song has children.
DeleteDownload(t, s) ==
    /\ "delete" \in Ops
    /\ Accept(t)
    /\ s \in songs
    /\ task' = [task EXCEPT ![t] =
                  [Task("delete", "count_children", NULL, s, NULL) EXCEPT !.cur = s]]
    /\ UNCHANGED <<rows, files, library, users, job, next>>

RequestStep(t) == \/ RestoreUnlist(t) \/ RestoreWalk(t)
                  \/ PublishWalk(t) \/ PublishUpdate(t)

-----------------------------------------------------------------------------
(* Requests of one statement, and the host *)

AddToLibrary(u, s) ==
    /\ "library" \in Ops /\ (Overlap \/ AllIdle)
    /\ u \in users /\ s \in songs
    /\ library' = library \cup {<<u, s>>}
    /\ UNCHANGED <<rows, files, users, job, task, next>>

RemoveFromLibrary(u, s) ==
    /\ "library" \in Ops /\ (Overlap \/ AllIdle)
    /\ u \in users
    /\ library' = library \ {<<u, s>>}
    /\ UNCHANGED <<rows, files, users, job, task, next>>

\* DELETE /admin/users/{id}: songs.owner_id is no foreign key, so it dangles.
DeleteUser(u) ==
    /\ "deleteUser" \in Ops /\ (Overlap \/ AllIdle)
    /\ u \in users
    /\ users' = users \ {u}
    /\ library' = {e \in library : e[1] # u}
    /\ job' = [t \in Tasks |->
                 IF job[t] # NULL /\ job[t].user = u THEN NULL ELSE job[t]]
    /\ UNCHANGED <<rows, files, task, next>>

\* The process dies and comes back: tasks live in its memory, and nothing in
\* lifespan() looks for the jobs they left behind.
Crash ==
    /\ "crash" \in Ops
    /\ ~AllIdle
    /\ task' = [t \in Tasks |-> Idle]
    /\ UNCHANGED <<rows, files, library, users, job, next>>

\* Steps at which an edit is inside its try, with a statement to make.
Trying == Listing \cup {"insert", "unlist", "reparent", "attach", "finish", "report",
                        "count_library", "count_children", "delete_row"}

\* The database refuses a statement: no connection in time, or a broken one.
Refused(t) ==
    /\ "outage" \in Ops
    /\ task[t].pc \notin {"idle", "render", "fail", "unlink"}
    /\ IF task[t].kind = "edit" /\ task[t].pc \in Trying THEN Goto(t, "fail") ELSE End(t)
    /\ UNCHANGED <<rows, files, library, users, job, next>>

-----------------------------------------------------------------------------

\* The store after some downloads (no owner) and imports (owned), with any of
\* them saved in libraries.
Init ==
    /\ songs = 1..Roots
    /\ parent = [s \in Songs |-> NULL]
    /\ root = [s \in Songs |-> NULL]
    /\ \E o \in [1..Roots -> Users \cup {NULL}] :
          owner = [s \in Songs |-> IF s <= Roots THEN o[s] ELSE NULL]
    /\ files = songs
    /\ library \in SUBSET (Users \X songs)
    /\ users = Users
    /\ job = [t \in Tasks |-> NULL]
    /\ task = [t \in Tasks |-> Idle]
    /\ next = Roots + 1

TaskStep(t) == EditStep(t) \/ List(t) \/ Reclaim(t) \/ RequestStep(t)

Request(t) ==
    \/ \E u \in Users, s \in Songs : CreateEditJob(t, u, s) \/ Publish(t, u, s)
    \/ \E u \in Users, s \in Songs, g \in Songs : Restore(t, u, s, g)
    \/ \E s \in Songs : DeleteDownload(t, s)

Next ==
    \/ \E t \in Tasks : Request(t) \/ TaskStep(t) \/ Refused(t)
    \/ \E u \in Users, s \in Songs : AddToLibrary(u, s) \/ RemoveFromLibrary(u, s)
    \/ \E u \in Users : DeleteUser(u)
    \/ Crash

Spec == Init /\ [][Next]_vars

\* The event loop runs every task that is ready; nobody has to make a request,
\* and the host need not crash.
FairSpec == Spec /\ \A t \in Tasks : WF_vars(TaskStep(t))

-----------------------------------------------------------------------------
(* Properties *)

Maybe(S) == S \cup {NULL}

JobRow == [status : {"pending", "processing", "done", "failed"},
           source : Songs, user : Users, result : Maybe(Songs)]

\* None is no row.
ASSUME JobRowAssumption == NULL \notin JobRow

TaskState == [kind : Kinds \cup {"none"}, pc : Steps, user : Maybe(Users),
              src : Maybe(Songs), tgt : Maybe(Songs), root : Maybe(Songs),
              par : Maybe(Songs), input : Maybe(Songs),
              cur : Maybe(Songs), nxt : Maybe(Songs)]

\* A task has the fields the step it is at needs: an edit's user, source and new
\* song, a restore's target, the song a clean-up is about to delete.
HasFields(k) ==
    /\ k.kind = "edit" => k.user \in Users /\ k.src \in Songs /\ k.tgt \in Songs
    /\ k.kind = "restore" => k.user \in Users /\ k.src \in Songs /\ k.tgt \in Songs
    /\ k.kind = "publish" => k.user \in Users /\ k.src \in Songs
    /\ k.pc \in Reclaiming => k.kind \in Kinds /\ k.cur \in Songs
    /\ k.pc \in Listing => k.kind \in {"edit", "restore"}

RowsOK == /\ songs \subseteq Songs
          /\ parent \in [Songs -> Maybe(Songs)]
          /\ root \in [Songs -> Maybe(Songs)]
          /\ owner \in [Songs -> Maybe(Users)]

JobsOK == job \in [Tasks -> Maybe(JobRow)]

TasksOK == /\ task \in [Tasks -> TaskState]
           /\ \A t \in Tasks : HasFields(task[t])

\* Every variable has the shape the code gives it.
TypeOK ==
    /\ RowsOK
    /\ files \subseteq Songs
    /\ library \subseteq Users \X Songs
    /\ users \subseteq Users
    /\ JobsOK
    /\ TasksOK
    /\ next \in 1..(MaxSong + 1)

\* The task is still going to insert the row of s, or to remove its file.
Handles(k, s) ==
    \/ k.kind = "edit" /\ k.tgt = s /\ k.pc \in {"insert", "fail"}
    \/ k.pc = "unlink" /\ k.cur = s

\* No file is leaked: whatever is on disk belongs to a row, or a task takes care
\* of it.
FilesAccounted == \A s \in files \ songs : \E t \in Tasks : Handles(task[t], s)

\* One file per song: a row whose file is gone cannot be played or edited.
SongHasFile == songs \subseteq files

\* However handlers overlap, crash and fail, a file is missing only of the new song of
\* an edit that failed after it had committed the row: never of a download or an
\* import, and never of the song a job was reported done with.
OnlyFailedEditsLackFiles ==
    \A s \in songs \ files :
        s > Roots /\ \A t \in Tasks : job[t] # NULL => job[t].result # s

\* An edit knows the original it goes back to, and its lineage leads to older
\* songs only, so that every walk along parent_song_id comes to an end.
LineageSound ==
    \A s \in songs : parent[s] # NULL =>
        /\ parent[s] < s
        /\ root[s] # NULL /\ root[s] <= parent[s]

\* The weaker half of that: no song is among its own ancestors.
LineageAcyclic == \A s \in songs : s \notin Ancestors(s)

\* When nothing is under way, following parent_song_id from a song leads to the
\* song root_song_id names.
LineageReachesRoot ==
    AllIdle => \A s \in songs : root[s] # NULL => root[s] \in Ancestors(s)

\* A clean-up deletes edits only, never a song that heads a chain.
CleanupSparesOriginals ==
    [][\A s \in songs \ songs' :
          parent[s] = NULL /\ root[s] = NULL =>
             \E t \in Tasks : At(t, "delete", "delete_row") /\ task[t].cur = s]_vars

\* The two-edit cap: when an edit is done, the song it was made from hangs off
\* the root, unless somebody still needs what lies between them.
TwoEditCap ==
    [][\A t \in Tasks :
          At(t, "edit", "finish") /\ task[t].src \in songs =>
             LET p == parent[task[t].src] IN
             \/ p \in {NULL, task[t].root}
             \/ LibraryRefs(p) # {}
             \/ ChildRefs(p) # {task[t].src}]_vars

Done(t) == job[t] # NULL /\ job[t].status = "done"

\* A job that becomes done has put its result, a song with a row and a file, into
\* the library of the user who asked for it.
DoneMeansListed ==
    [][\A t \in Tasks :
          ~Done(t) /\ Done(t)' =>
             LET r == job'[t].result IN
             r \in songs' \cap files' /\ <<job'[t].user, r>> \in library']_vars

\* A restore that was accepted ends with its target, which has a row and a file, in
\* the library of its user, also when the target is the song itself: what was taken
\* out of the library first is made good, and the walk does not reclaim it again.
RestoreMeansListed ==
    [][\A t \in Tasks :
          task[t].kind = "restore" /\ task'[t].kind # "restore" =>
             LET k == task[t] IN
             k.tgt \in songs' \cap files' /\ <<k.user, k.tgt>> \in library']_vars

\* What an edit made, or a restore brought back, is in the library when it is over.
WorkIsListed == DoneMeansListed /\ RestoreMeansListed

\* Every job that was accepted is settled, or its row goes with its song or user.
JobsSettle ==
    \A t \in Tasks :
        (job[t] # NULL /\ job[t].status \in {"pending", "processing"})
            ~> (job[t] = NULL \/ job[t].status \in {"done", "failed"})

\* What the job rows show a polling client is what JobLifecycle promises.
jobStatus == [t \in Tasks |-> IF job[t] = NULL THEN "none" ELSE job[t].status]

Lifecycle == INSTANCE JobLifecycle WITH Jobs <- Tasks, status <- jobStatus

ImplementsLifecycle == Lifecycle!Spec

\* Every handler comes to its end.
TasksEnd == \A t \in Tasks : task[t].pc # "idle" ~> task[t].pc = "idle"

\* Whatever was accepted comes to an end a client can see.
EverythingEnds == JobsSettle /\ TasksEnd

=============================================================================
