-------------------------- MODULE SongFiles_proofs --------------------------
(***************************************************************************)
(* The files of a song: what is on disk is whole, wanted and named by the  *)
(* row, tags and artwork agree with it, edits that are done are in it, and *)
(* songs are published by right, for any number of overlapping tasks.      *)
(*                                                                         *)
(* Each property has a part of the invariant that says how far the tasks   *)
(* at work have got: who may be rendering (Rendering), who will rename or  *)
(* remove the temporary file (TmpOwned), who will unlink (Deletion), who   *)
(* holds tags the row does not have yet (Tagging), who draws (Pictures),   *)
(* whose edits are where (Applied), and whose song it may be (Owners).     *)
(***************************************************************************)
EXTENDS SongFiles, TLAPS

Writers == {"overwrite", "put"}

StepNames == {"idle", "end", "refused", "read", "render", "rendering", "swap", "tag",
              "tagging", "save", "publish", "fetch", "thumb", "store", "art", "commit", "unlink"}

Task == [kind : {"overwrite", "put", "upload", "delete", NULL}, at : StepNames,
         user : Users \cup {NULL}, original : BOOLEAN, tags : BOOLEAN, art : BOOLEAN,
         owner : Users \cup {NULL}]

\* The tasks that have the temporary file, or are about to look for it.
Swapping == {"rendering", "swap"}

\* Which kinds of tasks take which steps, and what they carry.
KindsOK ==
    \A t \in Tasks :
        /\ task[t].at \in {"read", "render", "rendering", "swap"} => task[t].kind = "overwrite"
        /\ task[t].at \in {"tag", "tagging", "save", "publish"} => task[t].kind \in Writers
        /\ task[t].at \in {"fetch", "thumb"} => task[t].kind = "put"
        /\ task[t].at = "store" => task[t].kind = "upload"
        /\ task[t].at = "art" => task[t].kind \in {"put", "upload"}
        /\ task[t].at \in {"commit", "unlink"} => task[t].kind = "delete"
        /\ task[t].kind = "put" \/ task[t].at \in {"tag", "tagging"} => task[t].tags
        /\ task[t].art => task[t].kind = "put"
        /\ task[t].original => task[t].user \in Admins

\* Who has the files open; the temporary file is never tagged.
OpenOK ==
    /\ file # NULL => /\ \A t \in file.renderers : task[t].at = "rendering"
                      /\ \A t \in file.taggers : task[t].at = "tagging"
    /\ tmp # NULL => /\ \A t \in tmp.renderers : task[t].at = "rendering"
                     /\ tmp.taggers = {}

\* A song has its file until the deletion that took its row unlinks it.
FileThere ==
    /\ row # NULL => file # NULL
    /\ \A t \in Tasks : task[t].at = "unlink" => row = NULL

VarTypes ==
    /\ row \in Row \cup {NULL}
    /\ file \in Contents \cup {NULL} /\ tmp \in Contents \cup {NULL}
    /\ picture \in [thumb : Tasks \cup {NULL}, full : Tasks \cup {NULL}]
    /\ task \in [Tasks -> Task]
    /\ outcome \in [Tasks -> {NULL, "done", "failed"}]
    /\ history \subseteq {"tags", "delete", "render", "picture", "unlink", "crash"}

Types == VarTypes /\ KindsOK /\ OpenOK /\ FileThere

\* While no two overwriting edits met between their rendering and their swap, the
\* file is whole, and so is the temporary file of the one that is there.
Rendering ==
    "render" \notin history =>
        /\ \A t, u \in Tasks : task[t].at \in Swapping /\ task[u].at \in Swapping => t = u
        /\ file # NULL => file.renderers = {} /\ "render" \notin file.torn
        /\ (tmp # NULL /\ \E t \in Tasks : task[t].at \in Swapping) => "render" \notin tmp.torn

\* Somebody will rename or remove the temporary file, unless the process stopped.
TmpOwned ==
    (tmp # NULL /\ "crash" \notin history) => \E t \in Tasks : task[t].at \in Swapping

\* While no overwriting edit met a deletion, nobody brings back what is deleted.
Deletion ==
    "delete" \notin history =>
        /\ \A t, u \in Tasks : ~(/\ Busy(t) /\ task[t].kind = "overwrite"
                                 /\ Busy(u) /\ task[u].kind = "delete")
        /\ row = NULL => \A t \in Tasks : ~(Busy(t) /\ task[t].kind = "overwrite")
        /\ (row = NULL /\ file # NULL /\ history \cap {"unlink", "crash"} = {}) =>
               \E t \in Tasks : task[t].at = "unlink"

\* Pictures are there before the row announces them, and while one was drawn at a
\* time and to its end, they are one picture.
Pictures ==
    /\ row # NULL /\ row.art => picture.thumb # NULL /\ picture.full # NULL
    /\ \A t \in Tasks : /\ task[t].at = "thumb" => picture.full # NULL
                        /\ task[t].at = "art" => picture.thumb # NULL /\ picture.full # NULL
    /\ history \cap {"picture", "crash"} = {} =>
           /\ \A t \in Tasks : task[t].at = "thumb" => picture.full = t
           /\ (\A t \in Tasks : task[t].at # "thumb") => picture.thumb = picture.full

\* The tasks that could not save the tags they had written.
Lapsed == {t \in Tasks : task[t].at = "refused"}

\* While there was one writer of tags at a time, its tags are all the file and the
\* row may differ in, and only until it saves them, or is refused to.
Tagging ==
    history \cap {"tags", "crash"} = {} =>
        /\ \A t, u \in Tasks :
               (/\ Busy(t) /\ task[t].kind \in Writers
                /\ Busy(u) /\ task[u].kind \in Writers) => t = u
        /\ row # NULL =>
             /\ (\A t \in Tasks : task[t].at = "save" => ~task[t].tags)
                    => file.tags \in {row.tags} \cup Lapsed
             /\ \A t \in Tasks :
                    /\ task[t].at = "save" /\ task[t].tags => file.tags = t
                    /\ task[t].at = "tagging" => t \in file.taggers
                    /\ task[t].at \in Swapping /\ tmp # NULL => tmp.tags \in {row.tags} \cup Lapsed

\* Where the edits are, while no two met and none met a deletion.
Applied ==
    history \cap {"render", "delete"} = {} =>
        \A t \in Tasks :
            /\ (file # NULL /\ t \in file.edits) =>
                   task[t].at \notin {"idle", "read", "render"} \cup Swapping
            /\ (tmp # NULL /\ t \in tmp.edits) => task[t].at \notin {"idle", "read", "render"}
            /\ (task[t].at \in Swapping /\ tmp # NULL) =>
                   t \in tmp.edits /\ (file # NULL => file.edits \subseteq tmp.edits)
            /\ (/\ task[t].kind = "overwrite" /\ row # NULL
                /\ task[t].at \in {"tag", "tagging", "save", "publish"}) => t \in file.edits

\* Where a task has read whose song it is: an edit at its start, both at the save.
Informed == {"render", "rendering", "swap", "tag", "tagging", "save", "publish"}

\* A song that was read belongs to who owned it then, or to everybody by now.
Owners ==
    \A t \in Tasks :
        (/\ row # NULL /\ task[t].at \in Informed
         /\ task[t].kind = "overwrite" \/ task[t].at = "publish")
            => row.owner \in {task[t].owner, NULL}

Inv == /\ Types /\ Rendering /\ TmpOwned /\ Deletion
       /\ Pictures /\ Tagging /\ Applied /\ Owners

-----------------------------------------------------------------------------
(* How each step moves its task *)

Same(u) == /\ task'[u].kind = task[u].kind /\ task'[u].user = task[u].user
           /\ task'[u].original = task[u].original /\ task'[u].tags = task[u].tags
           /\ task'[u].art = task[u].art

Moves(t, from, to) ==
    /\ task[t].at \in from
    /\ task' \in [Tasks -> Task] /\ task'[t].at \in to
    /\ \A u \in Tasks : Same(u) /\ (u # t => task'[u] = task[u])

LEMMA AtMoves ==
    ASSUME VarTypes, NEW t \in Tasks, NEW to \in StepNames,
           task' = [task EXCEPT ![t].at = to]
    PROVE  Moves(t, {task[t].at}, {to}) /\ task'[t].owner = task[t].owner
BY DEF VarTypes, Task, Moves, Same

LEMMA GoMoves ==
    ASSUME VarTypes, NEW t \in Tasks, NEW from, NEW to \in StepNames, Go(t, from, to)
    PROVE  Moves(t, {from}, {to}) /\ task'[t].owner = task[t].owner
BY AtMoves DEF Go, Moves

LEMMA ReadMoves ==
    ASSUME VarTypes, NEW t \in Tasks, OverwriteRead(t)
    PROVE  /\ Moves(t, {"read"}, IF row = NULL THEN {"end"} ELSE {"render"})
           /\ row # NULL => task'[t].owner = row.owner
<1> DEFINE to == IF row = NULL THEN "end" ELSE "render"
<1> DEFINE owner == IF row = NULL THEN NULL ELSE row.owner
<1>1. owner \in Users \cup {NULL} /\ to \in StepNames  BY DEF VarTypes, Row, StepNames
<1>2. task[t].at = "read" /\ task' = [task EXCEPT ![t].at = to, ![t].owner = owner]
  BY DEF OverwriteRead
<1> HIDE DEF to, owner
<1>3. task'[t] = [task[t] EXCEPT !.at = to, !.owner = owner]  BY <1>2 DEF VarTypes
<1>4. task'[t] \in Task /\ task'[t].at = to /\ task'[t].owner = owner /\ Same(t)
  <2>1. task[t] \in Task  BY DEF VarTypes
  <2>2. task'[t].at = to /\ task'[t].owner = owner /\ Same(t)  BY <1>3, <2>1 DEF Task, Same
  <2> QED  BY <1>1, <1>3, <2>1, <2>2 DEF Task
<1>5. /\ task' \in [Tasks -> Task]
      /\ \A u \in Tasks : u # t => task'[u] = task[u]
  BY <1>2, <1>4 DEF VarTypes
<1>6. \A u \in Tasks : Same(u)  BY <1>4, <1>5 DEF Same
<1>7. to \in IF row = NULL THEN {"end"} ELSE {"render"}  BY DEF to
<1>8. row # NULL => owner = row.owner  BY DEF owner
<1> QED  BY <1>2, <1>4, <1>5, <1>6, <1>7, <1>8 DEF Moves

LEMMA SaveMoves ==
    ASSUME VarTypes, NEW t \in Tasks, Save(t)
    PROVE  /\ Moves(t, {"save"}, {"publish"})
           /\ task'[t].owner = OwnerSeen(t)
<1>1. OwnerSeen(t) \in Users \cup {NULL}  BY DEF VarTypes, Row, Task, OwnerSeen
<1>2. task[t].at = "save" /\ task' = [task EXCEPT ![t].at = "publish", ![t].owner = OwnerSeen(t)]
  BY DEF Save
<1>3. task'[t] = [task[t] EXCEPT !.at = "publish", !.owner = OwnerSeen(t)]  BY <1>2 DEF VarTypes
<1>4. task'[t] \in Task /\ task'[t].at = "publish" /\ task'[t].owner = OwnerSeen(t) /\ Same(t)
  <2>1. task[t] \in Task  BY DEF VarTypes
  <2>2. task'[t].at = "publish" /\ task'[t].owner = OwnerSeen(t) /\ Same(t)
    BY <1>3, <2>1 DEF Task, Same
  <2> QED  BY <1>1, <1>3, <2>1, <2>2 DEF Task, StepNames
<1>5. /\ task' \in [Tasks -> Task]
      /\ \A u \in Tasks : u # t => task'[u] = task[u]
  BY <1>2, <1>4 DEF VarTypes
<1>6. \A u \in Tasks : Same(u)  BY <1>4, <1>5 DEF Same
<1> QED  BY <1>2, <1>4, <1>5, <1>6 DEF Moves

\* Where a refusal may meet a task.
Refusable == {"read", "save", "publish", "art", "commit"}

LEMMA StepMoves ==
    ASSUME VarTypes, KindsOK, NEW t \in Tasks
    PROVE  /\ Render(t) => Moves(t, {"render"}, {"rendering"})
           /\ RenderMissing(t) => Moves(t, {"render"}, {"end"})
           /\ RenderDone(t) => Moves(t, {"rendering"}, {"swap"})
           /\ RenderFailed(t) => Moves(t, {"rendering"}, {"end"})
           /\ Swap(t) => Moves(t, {"swap"}, IF task[t].tags THEN {"tag"} ELSE {"save"})
           /\ SwapMissing(t) => Moves(t, {"swap"}, {"end"})
           /\ Tag(t) => Moves(t, {"tag"}, {"tagging"})
           /\ Tagged(t) => Moves(t, {"tagging"}, {"save"})
           /\ TagFailed(t) => Moves(t, {"tag", "tagging"}, {"end"})
           /\ Save(t) => Moves(t, {"save"}, {"publish"})
           /\ SaveMissing(t) => Moves(t, {"save"}, IF task[t].art THEN {"fetch"} ELSE {"end"})
           /\ Publish(t) => Moves(t, {"publish"}, IF task[t].art THEN {"fetch"} ELSE {"end"})
           /\ Fetch(t) => Moves(t, {"fetch"}, {"end", "thumb"})
           /\ FetchThumb(t) => Moves(t, {"thumb"}, {"art"})
           /\ Store(t) => Moves(t, {"store"}, {"end", "art"})
           /\ SaveArtwork(t) => Moves(t, {"art"}, {"end"})
           /\ DeleteCommit(t) => Moves(t, {"commit"}, IF row = NULL THEN {"end"} ELSE {"unlink"})
           /\ DeleteUnlink(t) => Moves(t, {"unlink"}, {"end"})
           /\ Refused(t) => Moves(t, Refusable,
                                  IF task[t].at = "save" THEN {"refused"} ELSE {"end"})
<1> USE DEF StepNames
<1>0. Save(t) => Moves(t, {"save"}, {"publish"})  BY SaveMoves
<1>1. /\ Render(t) => Moves(t, {"render"}, {"rendering"})
      /\ RenderDone(t) => Moves(t, {"rendering"}, {"swap"})
      /\ Tag(t) => Moves(t, {"tag"}, {"tagging"})
      /\ Tagged(t) => Moves(t, {"tagging"}, {"save"})
      /\ FetchThumb(t) => Moves(t, {"thumb"}, {"art"})
      /\ SaveArtwork(t) => Moves(t, {"art"}, {"end"})
      /\ DeleteUnlink(t) => Moves(t, {"unlink"}, {"end"})
  BY GoMoves DEF Render, RenderDone, Tag, Tagged, FetchThumb, SaveArtwork, DeleteUnlink
<1>2. /\ RenderMissing(t) => Moves(t, {"render"}, {"end"})
      /\ RenderFailed(t) => Moves(t, {"rendering"}, {"end"})
      /\ SwapMissing(t) => Moves(t, {"swap"}, {"end"})
  BY AtMoves DEF RenderMissing, RenderFailed, SwapMissing, Fail
<1>3. TagFailed(t) => Moves(t, {"tag", "tagging"}, {"end"})
  BY AtMoves DEF TagFailed, Fail, Moves
<1>4. Swap(t) => Moves(t, {"swap"}, IF task[t].tags THEN {"tag"} ELSE {"save"})
  BY GoMoves DEF Swap, AfterSwap
<1>5. /\ SaveMissing(t) => Moves(t, {"save"}, IF task[t].art THEN {"fetch"} ELSE {"end"})
      /\ Publish(t) => Moves(t, {"publish"}, IF task[t].art THEN {"fetch"} ELSE {"end"})
  BY GoMoves DEF SaveMissing, Publish
<1>6. DeleteCommit(t) => Moves(t, {"commit"}, IF row = NULL THEN {"end"} ELSE {"unlink"})
  BY GoMoves DEF DeleteCommit
<1>7. Fetch(t) => Moves(t, {"fetch"}, {"end", "thumb"})
  <2>1. Go(t, "fetch", "end") => Moves(t, {"fetch"}, {"end"})  BY GoMoves
  <2>2. Go(t, "fetch", "thumb") => Moves(t, {"fetch"}, {"thumb"})  BY GoMoves
  <2> QED  BY <2>1, <2>2 DEF Fetch, Moves
<1>8. Store(t) => Moves(t, {"store"}, {"end", "art"})
  <2>1. Go(t, "store", "end") => Moves(t, {"store"}, {"end"})  BY GoMoves
  <2>2. Go(t, "store", "art") => Moves(t, {"store"}, {"art"})  BY GoMoves
  <2> QED  BY <2>1, <2>2 DEF Store, Moves
<1>9. Refused(t) => Moves(t, Refusable, IF task[t].at = "save" THEN {"refused"} ELSE {"end"})
  <2> DEFINE to == IF task[t].at = "save" THEN "refused" ELSE "end"
  <2>1. Refused(t) => task[t].at \in Refusable /\ task' = [task EXCEPT ![t].at = to]
    BY DEF Refused, Refusable
  <2>2. to \in StepNames /\ {to} = IF task[t].at = "save" THEN {"refused"} ELSE {"end"}  OBVIOUS
  <2> HIDE DEF to
  <2> QED  BY <2>1, <2>2, AtMoves DEF Moves
<1> QED  BY <1>0, <1>1, <1>2, <1>3, <1>4, <1>5, <1>6, <1>7, <1>8, <1>9

\* A request or a job is there from now on.
Starts(t) == \/ CreateOverwrite(t) \/ PutProperties(t) \/ UploadArtwork(t) \/ DeleteSong(t)

Started(t) ==
    /\ task[t].at = "idle" /\ row # NULL
    /\ task' \in [Tasks -> Task] /\ \A u \in Tasks : u # t => task'[u] = task[u]
    /\ \/ task'[t].kind = "overwrite" /\ task'[t].at = "read"
       \/ task'[t].kind = "put" /\ task'[t].at = "tag"
       \/ task'[t].kind = "upload" /\ task'[t].at = "store"
       \/ task'[t].kind = "delete" /\ task'[t].at = "commit"
    /\ task'[t].kind = "put" => task'[t].tags
    /\ task'[t].art => task'[t].kind = "put"
    /\ task'[t].original => task'[t].user \in Admins
    /\ history \subseteq history'
    /\ history' \subseteq history \cup {"tags", "delete"}
    /\ (task'[t].kind \in Writers /\ \E u \in Tasks : Busy(u) /\ task[u].kind \in Writers)
           => "tags" \in history'
    /\ (\E u \in Tasks : Busy(u) /\ \/ task'[t].kind = "delete" /\ task[u].kind = "overwrite"
                                    \/ task'[t].kind = "overwrite" /\ task[u].kind = "delete")
           => "delete" \in history'
    /\ UNCHANGED <<row, file, tmp, picture, outcome>>

LEMMA StartRecord ==
    ASSUME VarTypes, NEW t \in Tasks, NEW kind, NEW record \in Task, Start(t, kind, record),
           record.kind = kind,
           \/ kind = "overwrite" /\ record.at = "read"
           \/ kind = "put" /\ record.at = "tag"
           \/ kind = "upload" /\ record.at = "store"
           \/ kind = "delete" /\ record.at = "commit",
           kind = "put" => record.tags,
           record.art => kind = "put",
           record.original => record.user \in Admins
    PROVE  Started(t)
<1>1. /\ task'[t] = record /\ \A u \in Tasks : u # t => task'[u] = task[u]
      /\ task' \in [Tasks -> Task]
  BY DEF Start, VarTypes
<1>2. /\ history \subseteq history' /\ history' \subseteq history \cup {"tags", "delete"}
      /\ (kind \in Writers /\ BusyWith(Writers) # {}) => "tags" \in history'
      /\ \/ kind = "delete" /\ BusyWith({"overwrite"}) # {}
         \/ kind = "overwrite" /\ BusyWith({"delete"}) # {}
         => "delete" \in history'
  BY DEF Start, Remember, Writers
<1> QED  BY <1>1, <1>2 DEF Start, Started, BusyWith, disk

LEMMA StartsMove ==
    ASSUME VarTypes, NEW t \in Tasks, Starts(t)
    PROVE  Started(t)
<1> USE SongFilesAssumption DEF Task, StepNames, Idle
<1>1. CASE CreateOverwrite(t)
  <2>1. PICK u \in Users, original \in BOOLEAN, tags \in BOOLEAN :
            /\ u \in Admins
            /\ Start(t, "overwrite", [Idle EXCEPT !.kind = "overwrite", !.at = "read",
                     !.user = u, !.original = original, !.tags = tags])
    BY <1>1 DEF CreateOverwrite
  <2> QED  BY <2>1, StartRecord
<1>2. CASE PutProperties(t)
  <2>1. PICK u \in Users, original \in BOOLEAN, art \in BOOLEAN :
            Start(t, "put", [Idle EXCEPT !.kind = "put", !.at = "tag", !.user = u, !.art = art,
                     !.original = original /\ u \in Admins, !.tags = TRUE])
    BY <1>2 DEF PutProperties
  <2> QED  BY <2>1, StartRecord
<1>3. CASE UploadArtwork(t)
  <2>1. PICK u \in Users :
            Start(t, "upload", [Idle EXCEPT !.kind = "upload", !.at = "store", !.user = u])
    BY <1>3 DEF UploadArtwork
  <2> QED  BY <2>1, StartRecord
<1>4. CASE DeleteSong(t)
  <2>1. PICK u \in Users :
            Start(t, "delete", [Idle EXCEPT !.kind = "delete", !.at = "commit", !.user = u])
    BY <1>4 DEF DeleteSong
  <2> QED  BY <2>1, StartRecord
<1> QED  BY <1>1, <1>2, <1>3, <1>4 DEF Starts

\* The process stops.
Stopped ==
    /\ task' \in [Tasks -> Task]
    /\ \A u \in Tasks : /\ task'[u].at \in {"idle", "end", "refused"}
                        /\ Busy(u) => task'[u].at = "end"
                        /\ ~Busy(u) => task'[u] = task[u]
                        /\ Same(u)
    /\ history' = history \cup {"crash"}

LEMMA CrashStops == ASSUME VarTypes, Crash PROVE Stopped
BY DEF VarTypes, Task, StepNames, Crash, Stopped, Busy, Same, Remember

-----------------------------------------------------------------------------
(* Types *)

LEMMA StepTask ==
    ASSUME Types, NEW t \in Tasks, Step(t)
    PROVE  /\ task' \in [Tasks -> Task]
           /\ \A u \in Tasks : Same(u) /\ (u # t => task'[u] = task[u])
BY StepMoves, ReadMoves DEF Step, Types, Moves

LEMMA ContentsParts ==
    ASSUME NEW f \in Contents
    PROVE  /\ f # NULL
           /\ f.edits \in SUBSET Tasks /\ f.tags \in Tasks \cup {NULL}
           /\ f.renderers \in SUBSET Tasks /\ f.taggers \in SUBSET Tasks
           /\ f.torn \in SUBSET {"render", "tag"}
<1>1. f # NULL  BY SongFilesAssumption
<1> QED  BY <1>1 DEF Contents

LEMMA ClosedType ==
    ASSUME NEW f \in Contents \cup {NULL}, NEW t \in Tasks, NEW n \in SUBSET {"render"}
    PROVE  Closed(f, t, n) \in Contents \cup {NULL}
<1>1. CASE f = NULL \/ t \notin f.renderers  BY <1>1 DEF Closed
<1>2. CASE ~(f = NULL \/ t \notin f.renderers)
  <2> DEFINE g == [f EXCEPT !.renderers = f.renderers \ {t}, !.torn = f.torn \cup n]
  <2>1. f \in Contents  BY <1>2
  <2>2. g \in Contents  BY <2>1 DEF Contents
  <2>3. Closed(f, t, n) = g  BY <1>2 DEF Closed
  <2> QED  BY <2>2, <2>3
<1> QED  BY <1>1, <1>2

LEMMA CutType ==
    ASSUME NEW f \in Contents \cup {NULL}
    PROVE  Cut(f) \in Contents \cup {NULL}
<1>1. CASE f = NULL  BY <1>1 DEF Cut
<1>2. CASE f # NULL
  <2> DEFINE n == f.torn \cup (IF f.renderers # {} THEN {"render"} ELSE {})
                         \cup (IF f.taggers # {} THEN {"tag"} ELSE {})
  <2>1. f \in Contents  BY <1>2
  <2>2. n \in SUBSET {"render", "tag"}  BY <2>1, ContentsParts
  <2>3. Cut(f) = [f EXCEPT !.renderers = {}, !.taggers = {}, !.torn = n]  BY <1>2 DEF Cut
  <2> HIDE DEF n
  <2>4. [f EXCEPT !.renderers = {}, !.taggers = {}, !.torn = n] \in Contents
    BY <2>1, <2>2 DEF Contents
  <2> QED  BY <2>3, <2>4
<1> QED  BY <1>1, <1>2

\* What each step leaves of the files.
LEMMA FilesStep ==
    ASSUME Types, NEW t \in Tasks, Step(t)
    PROVE  /\ file' \in Contents \cup {NULL} /\ tmp' \in Contents \cup {NULL}
           /\ Render(t) => tmp' \in Contents
           /\ Tag(t) => file' \in Contents
           /\ (Tagged(t) \/ TagFailed(t)) /\ file # NULL => file' \in Contents
<1> USE DEF Types, VarTypes
<1>1. ASSUME Render(t) PROVE file' = file /\ tmp' \in Contents
  <2> DEFINE with == IF tmp = NULL THEN {} ELSE tmp.renderers
  <2> DEFINE torn == file.torn \cup (IF with \cup file.renderers # {} THEN {"render"} ELSE {})
                               \cup (IF file.taggers # {} THEN {"tag"} ELSE {})
  <2>1. /\ file # NULL /\ file' = file
        /\ tmp' = [edits |-> file.edits \cup {t}, tags |-> file.tags, taggers |-> {},
                   renderers |-> with \cup {t}, torn |-> torn]
    BY <1>1 DEF Render
  <2>2. file \in Contents /\ with \in SUBSET Tasks  BY <2>1, ContentsParts
  <2>3. torn \in SUBSET {"render", "tag"}  BY <2>2, ContentsParts
  <2> HIDE DEF with, torn
  <2>4. /\ file.edits \cup {t} \in SUBSET Tasks /\ with \cup {t} \in SUBSET Tasks
        /\ file.tags \in Tasks \cup {NULL}
    BY <2>2, ContentsParts
  <2> QED  BY <2>1, <2>2, <2>3, <2>4 DEF Contents
<1>2. ASSUME RenderDone(t) \/ RenderFailed(t)
      PROVE  file' \in Contents \cup {NULL} /\ tmp' \in Contents \cup {NULL}
  BY <1>2, ClosedType DEF RenderDone, RenderFailed, Fail, Except
<1>3. ASSUME Tag(t) PROVE file' \in Contents /\ tmp' = tmp
  <2> DEFINE n == file.torn \cup (IF file.taggers # {} THEN {"tag"} ELSE {})
  <2>1. file \in Contents /\ tmp' = tmp /\ file' = [file EXCEPT !.taggers = file.taggers \cup {t},
                                                                !.torn = n]
    BY <1>3 DEF Tag
  <2>2. n \in SUBSET {"render", "tag"} /\ file.taggers \cup {t} \in SUBSET Tasks
    BY <2>1, ContentsParts
  <2> HIDE DEF n
  <2> QED  BY <2>1, <2>2 DEF Contents
<1>4. ASSUME Tagged(t)
      PROVE  /\ file' \in Contents \cup {NULL} /\ tmp' = tmp
             /\ file # NULL => file' \in Contents
  <2>1. tmp' = tmp /\ \/ file' = file
                      \/ /\ file \in Contents
                         /\ file' = [file EXCEPT !.taggers = file.taggers \ {t}, !.tags = t]
    BY <1>4 DEF Tagged
  <2>2. ASSUME file \in Contents
        PROVE  [file EXCEPT !.taggers = file.taggers \ {t}, !.tags = t] \in Contents
    BY <2>2 DEF Contents
  <2> QED  BY <2>1, <2>2
<1>5. ASSUME TagFailed(t)
      PROVE  /\ file' \in Contents \cup {NULL} /\ tmp' \in {tmp, NULL}
             /\ file # NULL => file' \in Contents
  <2>1. /\ tmp' \in {tmp, NULL}
        /\ \/ file = NULL /\ file' = NULL
           \/ /\ file \in Contents
              /\ file' = [file EXCEPT !.taggers = file.taggers \ {t}]
    BY <1>5 DEF TagFailed, Fail, Except
  <2>2. file \in Contents => file.taggers \ {t} \in SUBSET Tasks  BY ContentsParts
  <2> QED  BY <2>1, <2>2 DEF Contents
<1>6. ASSUME ~(\/ Render(t) \/ RenderDone(t) \/ RenderFailed(t) \/ Tag(t) \/ Tagged(t)
               \/ TagFailed(t))
      PROVE  file' \in {file, tmp, NULL} /\ tmp' \in {tmp, NULL}
  BY <1>6 DEF Step, OverwriteRead, RenderMissing, Swap, SwapMissing, Save, SaveMissing, Publish,
              Fetch, FetchThumb, Store, SaveArtwork, DeleteCommit, DeleteUnlink, Refused, PublishSong,
              Except, Fail, disk
<1> QED  BY <1>1, <1>2, <1>3, <1>4, <1>5, <1>6

LEMMA VarTypesStep ==
    ASSUME Types, NEW t \in Tasks, Step(t)
    PROVE  VarTypes'
<1> USE DEF Types, VarTypes
<1>1. row' \in Row \cup {NULL}
  <2>1. CASE Save(t)  BY <2>1 DEF Save, Row
  <2>2. CASE Publish(t) \/ Refused(t)
    <3>1. row' = row \/ /\ row # NULL
                        /\ row' = [row EXCEPT !.owner = NULL,
                                   !.source = IF task[t].original THEN "original" ELSE "community"]
      BY <2>2 DEF Publish, Refused, PublishSong, MayPublish
    <3> QED  BY <3>1 DEF Row
  <2>3. CASE SaveArtwork(t)  BY <2>3 DEF SaveArtwork, Row
  <2>4. CASE ~(Save(t) \/ Publish(t) \/ Refused(t) \/ SaveArtwork(t))
    <3>1. row' \in {row, NULL}
      BY <2>4 DEF Step, OverwriteRead, Render, RenderMissing, RenderDone, RenderFailed, Swap,
                  SwapMissing, Tag, Tagged, TagFailed, SaveMissing, Fetch, FetchThumb, Store,
                  DeleteCommit, DeleteUnlink, Refused, PublishSong, Except
    <3> QED  BY <3>1
  <2> QED  BY <2>1, <2>2, <2>3, <2>4
<1>2. picture' \in [thumb : Tasks \cup {NULL}, full : Tasks \cup {NULL}]
  <2>1. \/ picture' = picture \/ picture' = [picture EXCEPT !.full = t]
        \/ picture' = [picture EXCEPT !.thumb = t] \/ picture' = [thumb |-> t, full |-> t]
    BY DEF Step, OverwriteRead, Render, RenderMissing, RenderDone, RenderFailed, Swap,
           SwapMissing, Tag, Tagged, TagFailed, Save, SaveMissing, Publish, Fetch, FetchThumb,
           Store, SaveArtwork, DeleteCommit, DeleteUnlink, Refused, PublishSong, Except, disk
  <2> QED  BY <2>1
<1>3. outcome' \in [Tasks -> {NULL, "done", "failed"}]
  <2>1. \/ outcome' = outcome
        \/ \E s \in {NULL, "done", "failed"} : outcome' = [outcome EXCEPT ![t] = s]
    BY DEF Step, OverwriteRead, Render, RenderMissing, RenderDone, RenderFailed, Swap,
           SwapMissing, Tag, Tagged, TagFailed, Save, SaveMissing, Publish, Fetch, FetchThumb,
           Store, SaveArtwork, DeleteCommit, DeleteUnlink, Refused, PublishSong, Except, Fail
  <2> QED  BY <2>1
<1>4. history' \subseteq history \cup {"render", "picture", "unlink"}
  BY DEF Step, OverwriteRead, Render, RenderMissing, RenderDone, RenderFailed, Swap,
         SwapMissing, Tag, Tagged, TagFailed, Save, SaveMissing, Publish, Fetch, FetchThumb,
         Store, SaveArtwork, DeleteCommit, DeleteUnlink, Refused, PublishSong, Except, Remember
<1> QED  BY <1>1, <1>2, <1>3, <1>4, StepTask, FilesStep

\* Which steps follow which.
Follows(t) ==
    \/ task[t].at = "read" /\ task'[t].at \in {"render", "end"}
    \/ task[t].at = "render" /\ task'[t].at \in {"rendering", "end"}
    \/ task[t].at = "rendering" /\ task'[t].at \in {"swap", "end"}
    \/ task[t].at = "swap" /\ task'[t].at \in {IF task[t].tags THEN "tag" ELSE "save", "end"}
    \/ task[t].at = "tag" /\ task'[t].at \in {"tagging", "end"}
    \/ task[t].at = "tagging" /\ task'[t].at \in {"save", "end"}
    \/ task[t].at = "save" /\ task'[t].at = "publish"
    \/ /\ task[t].at \in {"save", "publish"}
       /\ task'[t].at = IF task[t].art THEN "fetch" ELSE "end"
    \/ task[t].at = "fetch" /\ task'[t].at \in {"thumb", "end"}
    \/ task[t].at = "thumb" /\ task'[t].at = "art"
    \/ task[t].at = "store" /\ task'[t].at \in {"art", "end"}
    \/ task[t].at = "art" /\ task'[t].at = "end"
    \/ task[t].at = "commit" /\ task'[t].at \in {"unlink", "end"}
    \/ task[t].at = "unlink" /\ task'[t].at = "end"
    \/ task[t].at \in Refusable /\ task'[t].at \in {"end", "refused"}

LEMMA StepFollows ==
    ASSUME Types, NEW t \in Tasks, Step(t)
    PROVE  Follows(t)
BY StepMoves, ReadMoves DEF Step, Types, Moves, Follows

LEMMA KindsStep ==
    ASSUME Types, NEW t \in Tasks, Step(t)
    PROVE  KindsOK'
<1>1. Follows(t) /\ \A u \in Tasks : Same(u) /\ (u # t => task'[u] = task[u])
  BY StepTask, StepFollows
<1>2. ASSUME NEW u \in Tasks, u # t PROVE task'[u] = task[u]  BY <1>1, <1>2
<1>3. task[t].at # task'[t].at /\ Same(t)  BY <1>1 DEF Follows, Refusable
<1> SUFFICES ASSUME NEW u \in Tasks
             PROVE  /\ task'[u].at \in {"read", "render", "rendering", "swap"}
                           => task'[u].kind = "overwrite"
                    /\ task'[u].at \in {"tag", "tagging", "save", "publish"}
                           => task'[u].kind \in Writers
                    /\ task'[u].at \in {"fetch", "thumb"} => task'[u].kind = "put"
                    /\ task'[u].at = "store" => task'[u].kind = "upload"
                    /\ task'[u].at = "art" => task'[u].kind \in {"put", "upload"}
                    /\ task'[u].at \in {"commit", "unlink"} => task'[u].kind = "delete"
                    /\ task'[u].kind = "put" \/ task'[u].at \in {"tag", "tagging"}
                           => task'[u].tags
                    /\ task'[u].art => task'[u].kind = "put"
                    /\ task'[u].original => task'[u].user \in Admins
  BY DEF KindsOK
<1>4. CASE u # t  BY <1>2, <1>4 DEF Types, KindsOK
<1>5. CASE u = t  BY <1>1, <1>3, <1>5 DEF Types, KindsOK, Follows, Same, Writers
<1> QED  BY <1>4, <1>5

\* The same, step by step.
LEMMA StepAt ==
    ASSUME Types, NEW t \in Tasks, Step(t)
    PROVE  /\ \A u \in Tasks : u # t => task'[u] = task[u]
           /\ OverwriteRead(t) => /\ task[t].at = "read"
                                  /\ task'[t].at = IF row = NULL THEN "end" ELSE "render"
           /\ Render(t) => task[t].at = "render" /\ task'[t].at = "rendering"
           /\ RenderMissing(t) => task[t].at = "render" /\ task'[t].at = "end"
           /\ RenderDone(t) => task[t].at = "rendering" /\ task'[t].at = "swap"
           /\ RenderFailed(t) => task[t].at = "rendering" /\ task'[t].at = "end"
           /\ Swap(t) => /\ task[t].at = "swap"
                         /\ task'[t].at = IF task[t].tags THEN "tag" ELSE "save"
           /\ SwapMissing(t) => task[t].at = "swap" /\ task'[t].at = "end"
           /\ Tag(t) => task[t].at = "tag" /\ task'[t].at = "tagging"
           /\ Tagged(t) => task[t].at = "tagging" /\ task'[t].at = "save"
           /\ TagFailed(t) => task[t].at \in {"tag", "tagging"} /\ task'[t].at = "end"
           /\ Save(t) => task[t].at = "save" /\ task'[t].at = "publish"
           /\ SaveMissing(t) => task[t].at = "save" /\ task'[t].at \in {"fetch", "end"}
           /\ Publish(t) => task[t].at = "publish" /\ task'[t].at \in {"fetch", "end"}
           /\ Fetch(t) => task[t].at = "fetch" /\ task'[t].at \in {"end", "thumb"}
           /\ FetchThumb(t) => task[t].at = "thumb" /\ task'[t].at = "art"
           /\ Store(t) => task[t].at = "store" /\ task'[t].at \in {"end", "art"}
           /\ SaveArtwork(t) => task[t].at = "art" /\ task'[t].at = "end"
           /\ DeleteCommit(t) => /\ task[t].at = "commit"
                                 /\ task'[t].at = IF row = NULL THEN "end" ELSE "unlink"
           /\ DeleteUnlink(t) => task[t].at = "unlink" /\ task'[t].at = "end"
           /\ Refused(t) => /\ task[t].at \in Refusable
                            /\ task'[t].at = IF task[t].at = "save" THEN "refused" ELSE "end"
BY StepMoves, ReadMoves, StepTask DEF Types, Moves

\* What a step makes of a file and of the row, field by field.
Holds(f, edits, tags, renderers, taggers, torn) ==
    /\ f # NULL /\ f.edits = edits /\ f.tags = tags /\ f.torn = torn
    /\ f.renderers = renderers /\ f.taggers = taggers

Says(r, tags, owner, art) == r # NULL /\ r.tags = tags /\ r.owner = owner /\ r.art = art

With == IF tmp = NULL THEN {} ELSE tmp.renderers

\* The steps that look at no file, and those that leave the files alone.
OffDisk(t) ==
    \/ OverwriteRead(t) \/ Save(t) \/ SaveMissing(t) \/ Publish(t) \/ Fetch(t)
    \/ FetchThumb(t) \/ Store(t) \/ SaveArtwork(t) \/ DeleteCommit(t)

LEMMA ClosedFields ==
    ASSUME NEW f \in Contents, NEW t \in Tasks, NEW n \in SUBSET {"render"}
    PROVE  Holds(Closed(f, t, n), f.edits, f.tags, f.renderers \ {t}, f.taggers,
                 IF t \in f.renderers THEN f.torn \cup n ELSE f.torn)
<1>1. CASE t \notin f.renderers
  <2>1. Closed(f, t, n) = f /\ f.renderers \ {t} = f.renderers  BY <1>1 DEF Closed
  <2> QED  BY <1>1, <2>1, ContentsParts DEF Holds
<1>2. CASE t \in f.renderers
  <2>1. Closed(f, t, n) = [f EXCEPT !.renderers = f.renderers \ {t}, !.torn = f.torn \cup n]
    BY <1>2, ContentsParts DEF Closed
  <2>2. f.renderers \ {t} \in SUBSET Tasks /\ f.torn \cup n \in SUBSET {"render", "tag"}
    BY ContentsParts
  <2>3. Closed(f, t, n) \in Contents  BY <2>1, <2>2 DEF Contents
  <2>4. Closed(f, t, n) # NULL  BY <2>3, ContentsParts
  <2> QED  BY <1>2, <2>1, <2>4 DEF Holds, Contents
<1> QED  BY <1>1, <1>2

LEMMA StepFiles ==
    ASSUME Types, NEW t \in Tasks, Step(t)
    PROVE  /\ Render(t) => /\ file # NULL /\ file' = file
                           /\ Holds(tmp', file.edits \cup {t}, file.tags, With \cup {t}, {},
                                    file.torn
                                    \cup (IF With \cup file.renderers # {} THEN {"render"} ELSE {})
                                    \cup (IF file.taggers # {} THEN {"tag"} ELSE {}))
           /\ RenderDone(t) =>
                  /\ file = NULL => file' = NULL
                  /\ file # NULL => Holds(file', file.edits, file.tags, file.renderers \ {t},
                                          file.taggers, file.torn)
                  /\ tmp = NULL => tmp' = NULL
                  /\ tmp # NULL => Holds(tmp', tmp.edits, tmp.tags, tmp.renderers \ {t},
                                         tmp.taggers, tmp.torn)
           /\ RenderFailed(t) =>
                  /\ tmp' = NULL
                  /\ file = NULL => file' = NULL
                  /\ file # NULL => Holds(file', file.edits, file.tags, file.renderers \ {t},
                                          file.taggers, IF t \in file.renderers
                                                        THEN file.torn \cup {"render"}
                                                        ELSE file.torn)
           /\ Tag(t) =>
                  /\ file # NULL /\ tmp' = tmp
                  /\ Holds(file', file.edits, file.tags, file.renderers, file.taggers \cup {t},
                           file.torn \cup (IF file.taggers # {} THEN {"tag"} ELSE {}))
           /\ Tagged(t) =>
                  /\ tmp' = tmp /\ (file = NULL => file' = NULL)
                  /\ file # NULL => Holds(file', file.edits,
                                          IF t \in file.taggers THEN t ELSE file.tags,
                                          file.renderers, file.taggers \ {t}, file.torn)
           /\ TagFailed(t) =>
                  /\ tmp' = (IF task[t].kind = "overwrite" THEN NULL ELSE tmp)
                  /\ file = NULL => file' = NULL
                  /\ file # NULL => Holds(file', file.edits, file.tags, file.renderers,
                                          file.taggers \ {t}, file.torn)
           /\ Swap(t) => tmp # NULL /\ file' = tmp /\ tmp' = NULL
           /\ RenderMissing(t) \/ SwapMissing(t) => file' = file /\ tmp' = NULL
           /\ DeleteUnlink(t) => /\ file' \in {file, NULL} /\ tmp' = tmp
                                 /\ file' # NULL => "unlink" \in history'
           /\ Refused(t) => /\ file' = file /\ tmp' \in {tmp, NULL}
                            /\ task[t].kind # "overwrite" => tmp' = tmp
           /\ OffDisk(t) => file' = file /\ tmp' = tmp
<1>1. /\ file = NULL \/ (file \in Contents /\ file # NULL)
      /\ tmp = NULL \/ (tmp \in Contents /\ tmp # NULL)
      /\ file' = NULL \/ (file' \in Contents /\ file' # NULL)
      /\ tmp' = NULL \/ (tmp' \in Contents /\ tmp' # NULL)
  <2>1. NULL \notin Contents  BY SongFilesAssumption
  <2>2. file \in Contents \cup {NULL} /\ tmp \in Contents \cup {NULL}
    BY DEF Types, VarTypes
  <2>3. file' \in Contents \cup {NULL} /\ tmp' \in Contents \cup {NULL}  BY FilesStep
  <2> QED  BY <2>1, <2>2, <2>3
<1>2. ASSUME Render(t)
      PROVE  /\ file # NULL /\ file' = file
             /\ Holds(tmp', file.edits \cup {t}, file.tags, With \cup {t}, {}, file.torn
                      \cup (IF With \cup file.renderers # {} THEN {"render"} ELSE {})
                      \cup (IF file.taggers # {} THEN {"tag"} ELSE {}))
  <2>1. tmp' # NULL  BY <1>2, FilesStep, ContentsParts
  <2> QED  BY <1>2, <2>1 DEF Render, Holds, With
<1>3. ASSUME RenderDone(t)
      PROVE  /\ file = NULL => file' = NULL
             /\ file # NULL => Holds(file', file.edits, file.tags, file.renderers \ {t},
                                     file.taggers, file.torn)
             /\ tmp = NULL => tmp' = NULL
             /\ tmp # NULL => Holds(tmp', tmp.edits, tmp.tags, tmp.renderers \ {t},
                                    tmp.taggers, tmp.torn)
  <2>1. file' = Closed(file, t, {}) /\ tmp' = Closed(tmp, t, {})  BY <1>3 DEF RenderDone
  <2>2. Closed(NULL, t, {}) = NULL  BY DEF Closed
  <2>3. ASSUME NEW f \in Contents
        PROVE  Holds(Closed(f, t, {}), f.edits, f.tags, f.renderers \ {t}, f.taggers, f.torn)
    <3>1. (IF t \in f.renderers THEN f.torn \cup {} ELSE f.torn) = f.torn  OBVIOUS
    <3> QED  BY <3>1, ClosedFields
  <2> QED  BY <1>1, <2>1, <2>2, <2>3
<1>4. ASSUME RenderFailed(t)
      PROVE  /\ tmp' = NULL
             /\ file = NULL => file' = NULL
             /\ file # NULL => Holds(file', file.edits, file.tags, file.renderers \ {t},
                                     file.taggers, IF t \in file.renderers
                                                   THEN file.torn \cup {"render"}
                                                   ELSE file.torn)
  <2>1. file' = Closed(file, t, {"render"}) /\ tmp' = NULL  BY <1>4 DEF RenderFailed, Fail, Except
  <2>2. Closed(NULL, t, {"render"}) = NULL  BY DEF Closed
  <2> QED  BY <1>1, <2>1, <2>2, ClosedFields
<1>5. ASSUME Tag(t)
      PROVE  /\ file # NULL /\ tmp' = tmp
             /\ Holds(file', file.edits, file.tags, file.renderers, file.taggers \cup {t},
                      file.torn \cup (IF file.taggers # {} THEN {"tag"} ELSE {}))
  <2>1. file \in Contents /\ file' # NULL  BY <1>1, <1>5, FilesStep, ContentsParts DEF Tag
  <2> QED  BY <1>5, <2>1 DEF Tag, Holds, Contents
<1>6. ASSUME Tagged(t)
      PROVE  /\ tmp' = tmp /\ (file = NULL => file' = NULL)
             /\ file # NULL => Holds(file', file.edits,
                                     IF t \in file.taggers THEN t ELSE file.tags,
                                     file.renderers, file.taggers \ {t}, file.torn)
  <2>1. CASE file = NULL  BY <1>6, <2>1 DEF Tagged
  <2>2. CASE file # NULL
    <3>1. file \in Contents /\ file' # NULL /\ tmp' = tmp
      BY <1>1, <1>6, <2>2, FilesStep, ContentsParts DEF Tagged
    <3>2. CASE t \in file.taggers
      <4>1. file' = [file EXCEPT !.taggers = file.taggers \ {t}, !.tags = t]
        BY <1>6, <2>2, <3>2 DEF Tagged
      <4> QED  BY <2>2, <3>1, <3>2, <4>1 DEF Holds, Contents
    <3>3. CASE t \notin file.taggers
      <4>1. file' = file /\ file.taggers \ {t} = file.taggers  BY <1>6, <3>3 DEF Tagged
      <4> QED  BY <2>2, <3>1, <3>3, <4>1 DEF Holds
    <3> QED  BY <3>2, <3>3
  <2> QED  BY <2>1, <2>2
<1>7. ASSUME TagFailed(t)
      PROVE  /\ tmp' = (IF task[t].kind = "overwrite" THEN NULL ELSE tmp)
             /\ file = NULL => file' = NULL
             /\ file # NULL => Holds(file', file.edits, file.tags, file.renderers,
                                     file.taggers \ {t}, file.torn)
  <2>1. /\ tmp' = (IF task[t].kind = "overwrite" THEN NULL ELSE tmp)
        /\ file = NULL => file' = NULL
    BY <1>7 DEF TagFailed, Fail, Except
  <2>2. ASSUME file # NULL
        PROVE  Holds(file', file.edits, file.tags, file.renderers, file.taggers \ {t}, file.torn)
    <3>1. file \in Contents /\ file' # NULL
      BY <1>1, <1>7, <2>2, FilesStep, ContentsParts
    <3>2. file' = [file EXCEPT !.taggers = file.taggers \ {t}]  BY <1>7, <2>2 DEF TagFailed
    <3> QED  BY <3>1, <3>2 DEF Holds, Contents
  <2> QED  BY <2>1, <2>2
<1>8. /\ Swap(t) => tmp # NULL /\ file' = tmp /\ tmp' = NULL
      /\ RenderMissing(t) \/ SwapMissing(t) => file' = file /\ tmp' = NULL
      /\ DeleteUnlink(t) => /\ file' \in {file, NULL} /\ tmp' = tmp
                            /\ file' # NULL => "unlink" \in history'
      /\ Refused(t) => /\ file' = file /\ tmp' \in {tmp, NULL}
                       /\ task[t].kind # "overwrite" => tmp' = tmp
      /\ OffDisk(t) => file' = file /\ tmp' = tmp
  BY DEF Swap, RenderMissing, SwapMissing, DeleteUnlink, Refused, Except, Remember, Fail,
         OffDisk, OverwriteRead, Save,
         SaveMissing, Publish, Fetch, FetchThumb, Store, SaveArtwork, DeleteCommit, disk
<1> QED  BY <1>2, <1>3, <1>4, <1>5, <1>6, <1>7, <1>8

\* The steps that say nothing new in the row.
OffRow(t) ==
    \/ OverwriteRead(t) \/ Render(t) \/ RenderMissing(t) \/ RenderDone(t) \/ RenderFailed(t)
    \/ Swap(t) \/ SwapMissing(t) \/ Tag(t) \/ Tagged(t) \/ TagFailed(t) \/ SaveMissing(t)
    \/ Fetch(t) \/ FetchThumb(t) \/ Store(t) \/ DeleteUnlink(t)

LEMMA StepRow ==
    ASSUME Types, NEW t \in Tasks, Step(t)
    PROVE  /\ Save(t) => IF row = NULL THEN row' = NULL
                         ELSE Says(row', IF task[t].tags THEN t ELSE row.tags, row.owner, row.art)
           /\ Publish(t) => IF row = NULL THEN row' = NULL
                            ELSE Says(row', row.tags, row'.owner, row.art)
                                 /\ row'.owner \in {row.owner, NULL}
           /\ Refused(t) => IF row = NULL THEN row' = NULL
                            ELSE Says(row', row.tags, row'.owner, row.art)
                                 /\ row'.owner \in {row.owner, NULL}
           /\ SaveArtwork(t) => IF row = NULL THEN row' = NULL
                                ELSE Says(row', row.tags, row.owner, TRUE)
           /\ DeleteCommit(t) => row' = NULL
           /\ OffRow(t) => row' = row
<1>1. row = NULL \/ row \in Row  BY DEF Types, VarTypes
<1>2. ASSUME NEW r \in Row PROVE r # NULL  BY <1>2, SongFilesAssumption
<1>3. ASSUME NEW r \in Row, NEW x \in Tasks PROVE [r EXCEPT !.tags = x] \in Row
  BY DEF Row
<1>4. ASSUME NEW r \in Row, NEW x \in {"community", "original"}
      PROVE  [r EXCEPT !.owner = NULL, !.source = x] \in Row
  BY DEF Row
<1>5. ASSUME NEW r \in Row PROVE [r EXCEPT !.art = TRUE] \in Row
  BY DEF Row
<1>6. ASSUME Save(t)
      PROVE  IF row = NULL THEN row' = NULL
             ELSE Says(row', IF task[t].tags THEN t ELSE row.tags, row.owner, row.art)
  <2>1. CASE row = NULL  BY <1>6, <2>1 DEF Save
  <2>2. CASE row # NULL
    <3>1. row \in Row  BY <1>1, <2>2
    <3>2. row' = IF task[t].tags THEN [row EXCEPT !.tags = t] ELSE row  BY <1>6, <2>2 DEF Save
    <3>3. row' \in Row  BY <1>3, <3>1, <3>2
    <3> QED  BY <1>2, <2>2, <3>1, <3>2, <3>3 DEF Says, Row
  <2> QED  BY <2>1, <2>2
<1>7. ASSUME Publish(t) \/ Refused(t)
      PROVE  IF row = NULL THEN row' = NULL
             ELSE Says(row', row.tags, row'.owner, row.art) /\ row'.owner \in {row.owner, NULL}
  <2>1. CASE row' = row  BY <2>1 DEF Says
  <2>2. CASE row' # row
    <3> DEFINE s == IF task[t].original THEN "original" ELSE "community"
    <3>1. row # NULL /\ row' = [row EXCEPT !.owner = NULL, !.source = s]
      BY <1>7, <2>2 DEF Publish, Refused, PublishSong, MayPublish
    <3>2. row \in Row /\ row' \in Row  BY <1>1, <1>4, <3>1
    <3> QED  BY <1>2, <3>1, <3>2 DEF Says, Row
  <2> QED  BY <2>1, <2>2
<1>8. ASSUME SaveArtwork(t)
      PROVE  IF row = NULL THEN row' = NULL ELSE Says(row', row.tags, row.owner, TRUE)
  <2>1. CASE row = NULL  BY <1>8, <2>1 DEF SaveArtwork
  <2>2. CASE row # NULL
    <3>1. row \in Row /\ row' = [row EXCEPT !.art = TRUE]  BY <1>1, <1>8, <2>2 DEF SaveArtwork
    <3>2. row' \in Row  BY <1>5, <3>1
    <3> QED  BY <1>2, <2>2, <3>1, <3>2 DEF Says, Row
  <2> QED  BY <2>1, <2>2
<1>9. /\ DeleteCommit(t) => row' = NULL
      /\ OffRow(t) => row' = row
  BY DEF DeleteCommit, OffRow, OverwriteRead, Render, RenderMissing, RenderDone, RenderFailed,
         Swap, SwapMissing, Tag, Tagged, TagFailed, SaveMissing, Fetch, FetchThumb, Store,
         DeleteUnlink
<1> QED  BY <1>6, <1>7, <1>8, <1>9

LEMMA OpenStep ==
    ASSUME Types, NEW t \in Tasks, Step(t)
    PROVE  OpenOK'
<1> USE StepFiles, StepAt DEF OpenOK, Holds
<1>0. /\ OpenOK
      /\ file # NULL => file.renderers \subseteq Tasks /\ file.taggers \subseteq Tasks
      /\ tmp # NULL => tmp.renderers \subseteq Tasks
  BY ContentsParts DEF Types, VarTypes
<1>1. CASE Render(t)  BY <1>0, <1>1 DEF With
<1>2. CASE RenderDone(t) \/ RenderFailed(t)  BY <1>0, <1>2
<1>3. CASE Swap(t)  BY <1>0, <1>3
<1>4. CASE Tag(t) \/ Tagged(t) \/ TagFailed(t)  BY <1>0, <1>4
<1>5. CASE RenderMissing(t) \/ SwapMissing(t) \/ DeleteUnlink(t) \/ Refused(t)  
  BY <1>0, <1>5 DEF Refusable
<1>6. CASE OffDisk(t)  BY <1>0, <1>6 DEF OffDisk
<1> QED  BY <1>1, <1>2, <1>3, <1>4, <1>5, <1>6 DEF Step, OffDisk

LEMMA FileThereStep ==
    ASSUME Types, NEW t \in Tasks, Step(t)
    PROVE  FileThere'
<1>1. FileThere  BY DEF Types
<1>2. row' # NULL => row # NULL  BY StepRow DEF Step, OffRow
<1>3. DeleteCommit(t) \/ DeleteUnlink(t) => row' = NULL
  BY <1>1, StepRow, StepAt DEF OffRow, FileThere
<1>4. file # NULL /\ ~DeleteUnlink(t) => file' # NULL
  BY StepFiles DEF Step, OffDisk, Holds
<1>5. row' # NULL => file' # NULL  BY <1>1, <1>2, <1>3, <1>4 DEF FileThere
<1>6. task'[t].at = "unlink" => row' = NULL  BY <1>3, StepAt DEF Step
<1>7. ASSUME NEW u \in Tasks, u # t, task'[u].at = "unlink" PROVE row' = NULL
  BY <1>1, <1>2, <1>7, StepTask DEF FileThere
<1> QED  BY <1>5, <1>6, <1>7 DEF FileThere

LEMMA TypesStep ==
    ASSUME Types, NEW t \in Tasks, Step(t)
    PROVE  Types'
BY VarTypesStep, KindsStep, OpenStep, FileThereStep DEF Types


LEMMA StepHistory ==
    ASSUME NEW t \in Tasks, Step(t)
    PROVE  /\ history \subseteq history'
           /\ history' \subseteq history \cup {"render", "picture", "unlink"}
           /\ (Render(t) /\ \E x \in Tasks : task[x].at \in Swapping) => "render" \in history'
           /\ (Fetch(t) /\ picture' # picture /\ Drawing # {}) => "picture" \in history'
           /\ (Store(t) /\ picture' # picture /\ Drawing # {}) => "picture" \in history'
BY DEF Step, OverwriteRead, Render, RenderMissing, RenderDone, RenderFailed, Swap,
       SwapMissing, Tag, Tagged, TagFailed, Save, SaveMissing, Publish, Fetch, FetchThumb,
       Store, SaveArtwork, DeleteCommit, DeleteUnlink, Refused, PublishSong, Except, Remember,
       Swapping, disk

LEMMA StepOwner ==
    ASSUME Types, NEW t \in Tasks, Step(t)
    PROVE  IF OverwriteRead(t) \/ (Save(t) /\ task[t].kind = "put")
           THEN row # NULL => task'[t].owner = row.owner
           ELSE task'[t].owner = task[t].owner
<1>0. VarTypes  BY DEF Types
<1>1. CASE OverwriteRead(t)  BY <1>0, <1>1, ReadMoves
<1>2. CASE Save(t)
  <2>1. ~OverwriteRead(t)  BY <1>2, StepAt
  <2> QED  BY <1>0, <1>2, <2>1, SaveMoves DEF OwnerSeen
<1>3. \A to \in StepNames : (\E from : Go(t, from, to)) => task'[t].owner = task[t].owner
  BY <1>0, GoMoves
<1>4. CASE RenderMissing(t) \/ RenderFailed(t) \/ SwapMissing(t) \/ TagFailed(t) \/ Refused(t)
  <2>1. \E to \in StepNames : task' = [task EXCEPT ![t].at = to]
    <3>1. task' = [task EXCEPT ![t].at = "end"] \/ task' = [task EXCEPT ![t].at = "refused"]
      BY <1>4 DEF RenderMissing, RenderFailed, SwapMissing, TagFailed, Fail, Refused
    <3> QED  BY <3>1 DEF StepNames
  <2>2. task'[t].owner = task[t].owner /\ Same(t)  BY <1>0, <2>1, AtMoves DEF Moves
  <2>3. ASSUME OverwriteRead(t) \/ Save(t)
        PROVE  task'[t].at \in {"render", "publish"} \/ row = NULL
    BY <2>3, StepAt
  <2>4. task'[t].at \notin {"render", "publish"}  BY <1>4, StepAt
  <2> QED  BY <2>2, <2>3, <2>4
<1>5. ASSUME ~OverwriteRead(t), ~Save(t),
             ~(\/ RenderMissing(t) \/ RenderFailed(t) \/ SwapMissing(t) \/ TagFailed(t)
               \/ Refused(t))
      PROVE  \E from, to \in StepNames : Go(t, from, to)
  <2>1. \/ Go(t, "render", "rendering") \/ Go(t, "rendering", "swap")
        \/ Go(t, "swap", AfterSwap(t)) \/ Go(t, "tag", "tagging") \/ Go(t, "tagging", "save")
        \/ Go(t, "fetch", "end") \/ Go(t, "fetch", "thumb")
        \/ Go(t, "save", IF task[t].art THEN "fetch" ELSE "end")
        \/ Go(t, "publish", IF task[t].art THEN "fetch" ELSE "end")
        \/ Go(t, "thumb", "art") \/ Go(t, "store", "end") \/ Go(t, "store", "art")
        \/ Go(t, "art", "end") \/ Go(t, "commit", IF row = NULL THEN "end" ELSE "unlink")
        \/ Go(t, "unlink", "end")
    BY <1>5 DEF Step, Render, RenderDone, Swap, Tag, Tagged, SaveMissing, Publish, Fetch,
                FetchThumb, Store, SaveArtwork, DeleteCommit, DeleteUnlink
  <2> QED  BY <2>1 DEF AfterSwap, StepNames
<1> QED  BY <1>1, <1>2, <1>3, <1>4, <1>5

-----------------------------------------------------------------------------
(* Each part of the invariant, step by step *)

LEMMA RenderingStep ==
    ASSUME Types, Rendering, NEW t \in Tasks, Step(t)
    PROVE  Rendering'
<1> SUFFICES ASSUME "render" \notin history'
             PROVE  /\ \A x, u \in Tasks :
                           task'[x].at \in Swapping /\ task'[u].at \in Swapping => x = u
                    /\ file' # NULL => file'.renderers = {} /\ "render" \notin file'.torn
                    /\ (tmp' # NULL /\ \E x \in Tasks : task'[x].at \in Swapping)
                           => "render" \notin tmp'.torn
  BY DEF Rendering
<1>1. /\ "render" \notin history
      /\ \A x, u \in Tasks : task[x].at \in Swapping /\ task[u].at \in Swapping => x = u
      /\ file # NULL => file.renderers = {} /\ "render" \notin file.torn
      /\ (tmp # NULL /\ \E x \in Tasks : task[x].at \in Swapping) => "render" \notin tmp.torn
  BY StepHistory DEF Rendering
<1>2. /\ tmp # NULL => tmp.renderers \subseteq Tasks
      /\ tmp # NULL => \A x \in tmp.renderers : task[x].at = "rendering"
  BY ContentsParts DEF Types, VarTypes, OpenOK
<1>3. task'[t].at \in Swapping => task[t].at \in Swapping \/ Render(t)
  BY StepAt DEF Step, Swapping
<1>4. ASSUME NEW u \in Tasks, task'[u].at \in Swapping
      PROVE  task[u].at \in Swapping \/ (u = t /\ Render(t))
  BY <1>3, <1>4, StepTask
<1>5. Render(t) => \A x \in Tasks : task[x].at \notin Swapping  BY StepHistory
<1>6. \A x, u \in Tasks : task'[x].at \in Swapping /\ task'[u].at \in Swapping => x = u
  BY <1>1, <1>4, <1>5
<1>7. CASE Render(t)
  <2>1. With = {}  BY <1>2, <1>5, <1>7 DEF With, Swapping
  <2> QED  BY <1>1, <1>6, <1>7, <2>1, StepFiles DEF Holds
<1>8. CASE Swap(t)
  <2>1. task[t].at = "swap" /\ tmp # NULL /\ file' = tmp /\ tmp' = NULL
    BY <1>8, StepFiles, StepAt
  <2>2. tmp.renderers = {}  BY <1>1, <1>2, <2>1 DEF Swapping
  <2> QED  BY <1>1, <1>6, <2>1, <2>2 DEF Swapping
<1>9. CASE ~Render(t) /\ ~Swap(t)
  <2>1. file' # NULL => file'.renderers = {} /\ "render" \notin file'.torn
    BY <1>1, <1>9, StepFiles DEF Step, OffDisk, Holds
  <2>2. tmp' # NULL => tmp # NULL /\ tmp'.torn = tmp.torn
    BY <1>9, StepFiles DEF Step, OffDisk, Holds
  <2> QED  BY <1>1, <1>4, <1>6, <1>9, <2>1, <2>2
<1> QED  BY <1>7, <1>8, <1>9

LEMMA TmpOwnedStep ==
    ASSUME Types, TmpOwned, NEW t \in Tasks, Step(t)
    PROVE  TmpOwned'
<1>1. CASE Render(t) \/ RenderDone(t)
  BY <1>1, StepAt DEF TmpOwned, Swapping
<1>2. CASE RenderFailed(t) \/ Swap(t) \/ RenderMissing(t) \/ SwapMissing(t)
  BY <1>2, StepFiles DEF TmpOwned
<1>3. CASE \/ OffDisk(t) \/ Tag(t) \/ Tagged(t) \/ TagFailed(t) \/ DeleteUnlink(t)
           \/ Refused(t)
  <2>1. task[t].at \notin Swapping  BY <1>3, StepAt DEF OffDisk, Refusable, Swapping
  <2>2. tmp' # NULL => tmp # NULL  BY <1>3, StepFiles
  <2>3. ASSUME NEW u \in Tasks, task[u].at \in Swapping PROVE task'[u].at \in Swapping
    BY <2>1, <2>3, StepTask
  <2> QED  BY <2>2, <2>3, StepHistory DEF TmpOwned
<1> QED  BY <1>1, <1>2, <1>3 DEF Step, OffDisk

LEMMA BusyStep ==
    ASSUME Types, NEW t \in Tasks, Step(t), NEW u \in Tasks, Busy(u)'
    PROVE  Busy(u) /\ task'[u].kind = task[u].kind
<1>1. task'[u].kind = task[u].kind /\ (u # t => task'[u] = task[u])
  BY StepTask DEF Same
<1>2. Busy(t)  BY StepFollows DEF Follows, Refusable, Busy
<1> QED  BY <1>1, <1>2 DEF Busy

LEMMA DeletionStep ==
    ASSUME Types, Deletion, NEW t \in Tasks, Step(t)
    PROVE  Deletion'
<1> SUFFICES ASSUME "delete" \notin history'
             PROVE  /\ \A x, u \in Tasks :
                           ~(/\ Busy(x)' /\ task'[x].kind = "overwrite"
                             /\ Busy(u)' /\ task'[u].kind = "delete")
                    /\ row' = NULL => \A x \in Tasks : ~(Busy(x)' /\ task'[x].kind = "overwrite")
                    /\ (row' = NULL /\ file' # NULL /\ history' \cap {"unlink", "crash"} = {}) =>
                           \E x \in Tasks : task'[x].at = "unlink"
  BY DEF Deletion
<1>1. /\ \A x, u \in Tasks : ~(/\ Busy(x) /\ task[x].kind = "overwrite"
                               /\ Busy(u) /\ task[u].kind = "delete")
      /\ row = NULL => \A x \in Tasks : ~(Busy(x) /\ task[x].kind = "overwrite")
      /\ (row = NULL /\ file # NULL /\ history \cap {"unlink", "crash"} = {}) =>
             \E x \in Tasks : task[x].at = "unlink"
  BY StepHistory DEF Deletion
<1>2. Busy(t)  BY StepFollows DEF Follows, Refusable, Busy
<1>3. \A x, u \in Tasks : ~(/\ Busy(x)' /\ task'[x].kind = "overwrite"
                            /\ Busy(u)' /\ task'[u].kind = "delete")
  BY <1>1, BusyStep
<1>4. DeleteCommit(t) => task[t].at = "commit" /\ task[t].kind = "delete"
  BY StepAt DEF Types, KindsOK
<1>5. row' = NULL => row = NULL \/ DeleteCommit(t)
  BY StepRow DEF Step, OffRow, Says
<1>6. row' = NULL => \A x \in Tasks : ~(Busy(x) /\ task[x].kind = "overwrite")
  BY <1>1, <1>2, <1>4, <1>5
<1>7. row' = NULL => \A x \in Tasks : ~(Busy(x)' /\ task'[x].kind = "overwrite")
  BY <1>6, BusyStep
<1>8. ASSUME row' = NULL, file' # NULL, history' \cap {"unlink", "crash"} = {}
      PROVE  \E x \in Tasks : task'[x].at = "unlink"
  <2>1. ~DeleteUnlink(t)  BY <1>8, StepFiles
  <2>2. task[t].at # "unlink"  BY <2>1, StepAt DEF Step, Refusable
  <2>3. CASE DeleteCommit(t) /\ row # NULL  BY <2>3, StepAt
  <2>4. CASE row = NULL
    <3>1. ~Swap(t)
      <4>1. Swap(t) => task[t].kind = "overwrite"  BY StepAt DEF Types, KindsOK
      <4> QED  BY <1>2, <1>6, <1>8, <4>1
    <3>2. file # NULL  BY <1>8, <3>1, StepFiles DEF Step, OffDisk
    <3>3. PICK x \in Tasks : task[x].at = "unlink"  BY <1>1, <1>8, <2>4, <3>2, StepHistory
    <3> QED  BY <2>2, <3>3, StepTask
  <2> QED  BY <1>5, <1>8, <2>3, <2>4
<1> QED  BY <1>3, <1>7, <1>8

LEMMA StepPicture ==
    ASSUME Types, NEW t \in Tasks, Step(t)
    PROVE  /\ Fetch(t) => \/ picture' = picture /\ task'[t].at = "end"
                          \/ /\ picture'.full = t /\ picture'.thumb = picture.thumb
                             /\ task'[t].at = "thumb"
                             /\ Drawing # {} => "picture" \in history'
           /\ FetchThumb(t) => picture'.thumb = t /\ picture'.full = picture.full
           /\ Store(t) => \/ picture' = picture /\ task'[t].at = "end"
                          \/ /\ picture'.full = t /\ picture'.thumb = t
                             /\ Drawing # {} => "picture" \in history'
           /\ ~(Fetch(t) \/ FetchThumb(t) \/ Store(t)) => picture' = picture
<1>1. picture \in [thumb : Tasks \cup {NULL}, full : Tasks \cup {NULL}]  BY DEF Types, VarTypes
<1>2. ASSUME Fetch(t), picture' # picture \/ task'[t].at # "end"
      PROVE  /\ picture' = [picture EXCEPT !.full = t] /\ task'[t].at = "thumb"
             /\ Drawing # {} => "picture" \in history'
  <2>1. ~(Go(t, "fetch", "end") /\ UNCHANGED picture)
    BY <1>2, GoMoves DEF Types, Moves, StepNames
  <2>2. Go(t, "fetch", "thumb") => task'[t].at = "thumb"
    BY GoMoves DEF Types, Moves, StepNames
  <2> QED  BY <1>2, <2>1, <2>2 DEF Fetch, Remember
<1>3. ASSUME Store(t), picture' # picture \/ task'[t].at # "end"
      PROVE  /\ picture' = [thumb |-> t, full |-> t]
             /\ Drawing # {} => "picture" \in history'
  <2>1. ~(Go(t, "store", "end") /\ UNCHANGED picture)
    BY <1>3, GoMoves DEF Types, Moves, StepNames
  <2> QED  BY <1>3, <2>1 DEF Store, Remember
<1>4. FetchThumb(t) => picture' = [picture EXCEPT !.thumb = t]  BY DEF FetchThumb
<1>5. ~(Fetch(t) \/ FetchThumb(t) \/ Store(t)) => picture' = picture
  BY DEF Step, OverwriteRead, Render, RenderMissing, RenderDone, RenderFailed, Swap,
         SwapMissing, Tag, Tagged, TagFailed, Save, SaveMissing, Publish, SaveArtwork,
         DeleteCommit, DeleteUnlink, Refused, PublishSong, Except, disk
<1>6. Fetch(t) => \/ picture' = picture /\ task'[t].at = "end"
                  \/ /\ picture'.full = t /\ picture'.thumb = picture.thumb
                     /\ task'[t].at = "thumb"
                     /\ Drawing # {} => "picture" \in history'
  BY <1>1, <1>2
<1>7. Store(t) => \/ picture' = picture /\ task'[t].at = "end"
                  \/ /\ picture'.full = t /\ picture'.thumb = t
                     /\ Drawing # {} => "picture" \in history'
  BY <1>1, <1>3
<1> QED  BY <1>1, <1>4, <1>5, <1>6, <1>7

LEMMA PicturesStep ==
    ASSUME Types, Pictures, NEW t \in Tasks, Step(t)
    PROVE  Pictures'
<1>1. t # NULL  BY SongFilesAssumption
<1>2. /\ picture.thumb # NULL => picture'.thumb # NULL
      /\ picture.full # NULL => picture'.full # NULL
  BY <1>1, StepPicture
<1>3. row' # NULL /\ row'.art => row # NULL /\ (row.art \/ SaveArtwork(t))
  BY StepRow DEF Step, OffRow, Says
<1>4. row' # NULL /\ row'.art => picture'.thumb # NULL /\ picture'.full # NULL
  BY <1>2, <1>3, StepAt DEF Pictures
<1>5. /\ task'[t].at = "thumb" => Fetch(t) /\ picture'.full = t
      /\ task'[t].at = "art" => picture'.thumb # NULL /\ picture'.full # NULL
  <2>1. task'[t].at = "thumb" => Fetch(t)  BY StepAt DEF Step
  <2>2. task'[t].at = "art" => FetchThumb(t) \/ Store(t)  BY StepAt DEF Step
  <2> QED  BY <1>1, <1>2, <2>1, <2>2, StepAt, StepPicture DEF Pictures
<1>6. ASSUME NEW u \in Tasks
      PROVE  /\ task'[u].at = "thumb" => picture'.full # NULL
             /\ task'[u].at = "art" => picture'.thumb # NULL /\ picture'.full # NULL
  BY <1>1, <1>2, <1>5, StepTask DEF Pictures
<1>7. ASSUME history' \cap {"picture", "crash"} = {}
      PROVE  /\ \A u \in Tasks : task'[u].at = "thumb" => picture'.full = u
             /\ (\A u \in Tasks : task'[u].at # "thumb") => picture'.thumb = picture'.full
  <2>1. /\ \A u \in Tasks : task[u].at = "thumb" => picture.full = u
        /\ (\A u \in Tasks : task[u].at # "thumb") => picture.thumb = picture.full
    BY <1>7, StepHistory DEF Pictures
  <2>2. (Fetch(t) \/ Store(t)) /\ picture' # picture => \A u \in Tasks : task[u].at # "thumb"
    BY <1>7, StepHistory DEF Drawing
  <2>3. ASSUME NEW u \in Tasks, task'[u].at = "thumb" PROVE picture'.full = u
    <3>1. CASE u = t  BY <1>5, <2>3, <3>1
    <3>2. CASE u # t  BY <2>1, <2>2, <2>3, <3>2, StepTask, StepPicture
    <3> QED  BY <3>1, <3>2
  <2>4. ASSUME \A u \in Tasks : task'[u].at # "thumb" PROVE picture'.thumb = picture'.full
    <3>1. CASE FetchThumb(t)  BY <2>1, <3>1, StepAt, StepPicture
    <3>2. CASE ~FetchThumb(t)
      <4>1. task[t].at # "thumb"  BY <3>2, StepAt DEF Step, Refusable
      <4>2. \A u \in Tasks : task[u].at # "thumb"  BY <2>4, <4>1, StepTask
      <4> QED  BY <2>1, <2>4, <3>2, <4>2, StepPicture
    <3> QED  BY <3>1, <3>2
  <2> QED  BY <2>3, <2>4
<1> QED  BY <1>4, <1>6, <1>7 DEF Pictures

LEMMA OwnersStep ==
    ASSUME Types, Owners, NEW t \in Tasks, Step(t)
    PROVE  Owners'
<1>1. row' # NULL => row # NULL /\ row'.owner \in {row.owner, NULL}
  BY StepRow DEF Step, OffRow, Says
<1>2. task'[t].kind = task[t].kind  BY StepTask DEF Same
<1>3. ASSUME NEW u \in Tasks, u # t, row' # NULL, task'[u].at \in Informed,
             task'[u].kind = "overwrite" \/ task'[u].at = "publish"
      PROVE  row'.owner \in {task'[u].owner, NULL}
  BY <1>1, <1>3, StepTask DEF Owners
<1>4. ASSUME row' # NULL, task'[t].at \in Informed,
             task'[t].kind = "overwrite" \/ task'[t].at = "publish"
      PROVE  row'.owner \in {task'[t].owner, NULL}
  <2>1. CASE OverwriteRead(t) \/ (Save(t) /\ task[t].kind = "put")
    BY <1>1, <1>4, <2>1, StepOwner
  <2>2. CASE ~(OverwriteRead(t) \/ (Save(t) /\ task[t].kind = "put"))
    <3>1. task'[t].owner = task[t].owner  BY <2>2, StepOwner
    <3>2. task[t].kind = "overwrite"
      <4>1. task'[t].at = "publish" => Save(t)  BY StepAt DEF Step
      <4>2. Save(t) => task[t].kind \in Writers  BY StepAt DEF Types, KindsOK
      <4> QED  BY <1>2, <1>4, <2>2, <4>1, <4>2 DEF Writers
    <3>3. task[t].at \in Informed  BY <1>4, <2>2, StepAt DEF Step, Informed
    <3> QED  BY <1>1, <1>4, <3>1, <3>2, <3>3 DEF Owners
  <2> QED  BY <2>1, <2>2
<1> QED  BY <1>3, <1>4 DEF Owners

LEMMA TaggingStep ==
    ASSUME Types, Tagging, NEW t \in Tasks, Step(t)
    PROVE  Tagging'
<1> SUFFICES ASSUME history' \cap {"tags", "crash"} = {}
             PROVE  /\ \A x, u \in Tasks :
                           (/\ Busy(x)' /\ task'[x].kind \in Writers
                            /\ Busy(u)' /\ task'[u].kind \in Writers) => x = u
                    /\ row' # NULL =>
                         /\ (\A u \in Tasks : task'[u].at = "save" => ~task'[u].tags)
                                => file'.tags \in {row'.tags} \cup Lapsed'
                         /\ \A u \in Tasks :
                                /\ task'[u].at = "save" /\ task'[u].tags => file'.tags = u
                                /\ task'[u].at = "tagging" => u \in file'.taggers
                                /\ task'[u].at \in Swapping /\ tmp' # NULL
                                       => tmp'.tags \in {row'.tags} \cup Lapsed'
  BY DEF Tagging
<1>1. /\ \A x, u \in Tasks : (/\ Busy(x) /\ task[x].kind \in Writers
                              /\ Busy(u) /\ task[u].kind \in Writers) => x = u
      /\ row # NULL =>
           /\ (\A u \in Tasks : task[u].at = "save" => ~task[u].tags)
                  => file.tags \in {row.tags} \cup Lapsed
           /\ \A u \in Tasks :
                  /\ task[u].at = "save" /\ task[u].tags => file.tags = u
                  /\ task[u].at = "tagging" => u \in file.taggers
                  /\ task[u].at \in Swapping /\ tmp # NULL => tmp.tags \in {row.tags} \cup Lapsed
  BY StepHistory DEF Tagging
<1>2. \A x, u \in Tasks : (/\ Busy(x)' /\ task'[x].kind \in Writers
                           /\ Busy(u)' /\ task'[u].kind \in Writers) => x = u
  BY <1>1, BusyStep
<1>3. row' # NULL => row # NULL /\ file # NULL
  BY StepRow DEF Step, OffRow, Says, Types, FileThere
<1>4. Busy(t) /\ (\A u \in Tasks : u # t => task'[u] = task[u]) /\ task'[t].tags = task[t].tags
  BY StepFollows, StepTask DEF Follows, Refusable, Busy, Same
<1>5. ASSUME NEW u \in Tasks, u # t, task[t].kind \in Writers
      PROVE  task[u].at \notin {"save", "tagging"} \cup Swapping
  <2>1. task[u].at \in {"save", "tagging"} \cup Swapping => Busy(u) /\ task[u].kind \in Writers
    BY DEF Types, KindsOK, Busy, Swapping, Writers
  <2> QED  BY <1>1, <1>4, <1>5, <2>1
<1>8. Lapsed \subseteq Lapsed'
  <2>1. task[t].at # "refused"  BY <1>4 DEF Busy
  <2> QED  BY <1>4, <2>1 DEF Lapsed
<1>6. ASSUME row' # NULL,
             OverwriteRead(t) \/ Render(t) \/ RenderDone(t) \/ RenderFailed(t) \/ Swap(t)
             \/ RenderMissing(t) \/ SwapMissing(t) \/ Tag(t) \/ Tagged(t) \/ TagFailed(t)
             \/ Save(t) \/ SaveMissing(t) \/ Publish(t)
             \/ (Refused(t) /\ task[t].kind \in Writers)
      PROVE  /\ (\A u \in Tasks : task'[u].at = "save" => ~task'[u].tags)
                    => file'.tags \in {row'.tags} \cup Lapsed'
             /\ \A u \in Tasks :
                    /\ task'[u].at = "save" /\ task'[u].tags => file'.tags = u
                    /\ task'[u].at = "tagging" => u \in file'.taggers
                    /\ task'[u].at \in Swapping /\ tmp' # NULL
                           => tmp'.tags \in {row'.tags} \cup Lapsed'
  <2>1. task[t].kind \in Writers
    BY <1>6, StepAt DEF Types, KindsOK, Writers
  <2>2. \A u \in Tasks : u # t => task'[u].at \notin {"save", "tagging"} \cup Swapping
    BY <1>4, <1>5, <2>1
  <2>3. task[t].at # "save" => file.tags \in {row.tags} \cup Lapsed
    BY <1>1, <1>3, <1>5, <1>6, <2>1
  <2>4. /\ task[t].at = "save" => IF task[t].tags THEN file.tags = t
                                  ELSE file.tags \in {row.tags} \cup Lapsed
        /\ task[t].at = "tagging" => t \in file.taggers /\ task[t].tags
        /\ task[t].at \in Swapping /\ tmp # NULL => tmp.tags \in {row.tags} \cup Lapsed
    BY <1>1, <1>3, <1>5, <1>6, <2>1 DEF Types, KindsOK
  <2>5. /\ task'[t].at = "save" /\ ~task'[t].tags => file'.tags \in {row'.tags} \cup Lapsed'
        /\ task'[t].at # "save" => file'.tags \in {row'.tags} \cup Lapsed'
        /\ task'[t].at = "save" /\ task'[t].tags => file'.tags = t
        /\ task'[t].at = "tagging" => t \in file'.taggers
        /\ task'[t].at \in Swapping /\ tmp' # NULL => tmp'.tags \in {row'.tags} \cup Lapsed'
    <3>0. row # NULL /\ file # NULL /\ task'[t].tags = task[t].tags  BY <1>3, <1>4, <1>6
    <3>1. CASE OverwriteRead(t) \/ RenderMissing(t) \/ SwapMissing(t)
      <4>1. row' = row /\ file' = file /\ tmp' \in {tmp, NULL}
        BY <3>1, StepRow, StepFiles DEF OffRow, OffDisk
      <4>2. task[t].at # "save" /\ task'[t].at \notin {"save", "tagging"} \cup Swapping
        BY <3>1, StepAt DEF Swapping
      <4> QED  BY <1>8, <2>3, <4>1, <4>2
    <3>2. CASE Render(t)
      <4>1. row' = row /\ file' = file /\ tmp'.tags = file.tags
        BY <3>2, StepRow, StepFiles DEF OffRow, Holds
      <4>2. task[t].at = "render" /\ task'[t].at = "rendering"  BY <3>2, StepAt
      <4> QED  BY <1>8, <2>3, <4>1, <4>2
    <3>3. CASE RenderDone(t) \/ RenderFailed(t)
      <4>1. /\ row' = row /\ file'.tags = file.tags
            /\ tmp' # NULL => tmp # NULL /\ tmp'.tags = tmp.tags
        BY <3>0, <3>3, StepRow, StepFiles DEF OffRow, Holds
      <4>2. task[t].at = "rendering" /\ task'[t].at \in {"swap", "end"}  BY <3>3, StepAt
      <4> QED  BY <1>8, <2>3, <2>4, <4>1, <4>2 DEF Swapping
    <3>4. CASE Swap(t)
      <4>1. row' = row /\ file' = tmp /\ tmp # NULL  BY <3>4, StepRow, StepFiles DEF OffRow
      <4>2. task[t].at = "swap" /\ task'[t].at = IF task[t].tags THEN "tag" ELSE "save"
        BY <3>4, StepAt
      <4>3. file'.tags \in {row'.tags} \cup Lapsed'  BY <1>8, <2>4, <4>1, <4>2 DEF Swapping
      <4> QED  BY <3>0, <4>2, <4>3 DEF Swapping
    <3>5. CASE Tag(t)
      <4>1. task[t].at = "tag" /\ task'[t].at = "tagging"  BY <3>5, StepAt
      <4>2. row' = row  BY <3>5, StepRow DEF OffRow
      <4>3. t \in file'.taggers /\ file'.tags = file.tags  BY <3>5, StepFiles DEF Holds
      <4> QED  BY <1>8, <2>3, <4>1, <4>2, <4>3 DEF Swapping
    <3>6. CASE Tagged(t)
      <4>1. task[t].at = "tagging" /\ task'[t].at = "save"  BY <3>6, StepAt
      <4>2. t \in file.taggers /\ task'[t].tags  BY <2>4, <3>0, <4>1
      <4>3. file'.tags = t  BY <3>0, <3>6, <4>2, StepFiles DEF Holds
      <4> QED  BY <4>1, <4>2, <4>3 DEF Swapping
    <3>7. CASE TagFailed(t)
      <4>1. task[t].at # "save" /\ task'[t].at = "end"  BY <3>7, StepAt
      <4>2. row' = row /\ file'.tags = file.tags
        BY <3>0, <3>7, StepRow, StepFiles DEF OffRow, Holds
      <4> QED  BY <1>8, <2>3, <4>1, <4>2 DEF Swapping
    <3>8. CASE Save(t)
      <4>1. task[t].at = "save" /\ task'[t].at = "publish"  BY <3>8, StepAt
      <4>2. file' = file  BY <3>8, StepFiles DEF OffDisk
      <4>3. row'.tags = IF task[t].tags THEN t ELSE row.tags  BY <3>0, <3>8, StepRow DEF Says
      <4> QED  BY <1>8, <2>4, <4>1, <4>2, <4>3 DEF Swapping
    <3>9. CASE SaveMissing(t)  BY <3>0, <3>9 DEF SaveMissing
    <3>10. CASE Publish(t)
      <4>1. task[t].at = "publish" /\ task'[t].at \in {"fetch", "end"}  BY <3>10, StepAt
      <4>2. file' = file  BY <3>10, StepFiles DEF OffDisk
      <4>3. row'.tags = row.tags  BY <3>0, <3>10, StepRow DEF Says
      <4> QED  BY <1>8, <2>3, <4>1, <4>2, <4>3 DEF Swapping
    <3>11. CASE Refused(t)
      <4>1. task[t].at \in Refusable /\ task'[t].at = IF task[t].at = "save" THEN "refused"
                                                                              ELSE "end"
        BY <3>11, StepAt
      <4>2. file' = file  BY <3>11, StepFiles
      <4>3. row'.tags = row.tags  BY <3>0, <3>11, StepRow DEF Says
      <4>4. task[t].at = "save" => t \in Lapsed'  BY <4>1 DEF Lapsed
      <4> QED  BY <1>8, <2>3, <2>4, <4>1, <4>2, <4>3, <4>4 DEF Swapping
    <3> QED  BY <1>6, <3>1, <3>2, <3>3, <3>4, <3>5, <3>6, <3>7, <3>8, <3>9, <3>10, <3>11
  <2> QED  BY <2>2, <2>5
<1>7. ASSUME row' # NULL,
             ~(OverwriteRead(t) \/ Render(t) \/ RenderDone(t) \/ RenderFailed(t) \/ Swap(t)
               \/ RenderMissing(t) \/ SwapMissing(t) \/ Tag(t) \/ Tagged(t) \/ TagFailed(t)
               \/ Save(t) \/ SaveMissing(t) \/ Publish(t)
               \/ (Refused(t) /\ task[t].kind \in Writers))
      PROVE  /\ (\A u \in Tasks : task'[u].at = "save" => ~task'[u].tags)
                    => file'.tags \in {row'.tags} \cup Lapsed'
             /\ \A u \in Tasks :
                    /\ task'[u].at = "save" /\ task'[u].tags => file'.tags = u
                    /\ task'[u].at = "tagging" => u \in file'.taggers
                    /\ task'[u].at \in Swapping /\ tmp' # NULL
                           => tmp'.tags \in {row'.tags} \cup Lapsed'
  <2>1. ~DeleteUnlink(t)
    <3>1. DeleteUnlink(t) => row' = NULL
      BY StepAt, StepRow DEF OffRow, Types, FileThere
    <3> QED  BY <1>7, <3>1
  <2>2. file' = file /\ tmp' = tmp  BY <1>7, <2>1, StepFiles DEF Step, OffDisk, Writers
  <2>3. row'.tags = row.tags  BY <1>3, <1>7, <2>1, StepRow DEF Step, OffRow, Says
  <2>4. /\ task[t].at \notin {"save", "tagging"} \cup Swapping
        /\ task'[t].at \notin {"save", "tagging"} \cup Swapping
    <3>1. Refused(t) => task[t].at \notin {"save", "tagging"} \cup Swapping
      BY <1>7, StepAt DEF Types, KindsOK, Refusable, Swapping
    <3> QED  BY <1>7, <3>1, StepAt DEF Step, Swapping
  <2> QED  BY <1>1, <1>3, <1>4, <1>7, <1>8, <2>2, <2>3, <2>4
<1> QED  BY <1>2, <1>6, <1>7

LEMMA AppliedStep ==
    ASSUME Types, Rendering, Applied, NEW t \in Tasks, Step(t)
    PROVE  Applied'
<1> DEFINE Early == {"idle", "read", "render"}
<1> DEFINE Late == {"tag", "tagging", "save", "publish"}
<1> SUFFICES ASSUME history' \cap {"render", "delete"} = {}, NEW u \in Tasks
             PROVE  /\ (file' # NULL /\ u \in file'.edits) => task'[u].at \notin Early \cup Swapping
                    /\ (tmp' # NULL /\ u \in tmp'.edits) => task'[u].at \notin Early
                    /\ (task'[u].at \in Swapping /\ tmp' # NULL) =>
                           u \in tmp'.edits /\ (file' # NULL => file'.edits \subseteq tmp'.edits)
                    /\ (/\ task'[u].kind = "overwrite" /\ row' # NULL
                        /\ task'[u].at \in Late) => u \in file'.edits
  BY DEF Applied
<1>1. ASSUME NEW x \in Tasks
      PROVE  /\ (file # NULL /\ x \in file.edits) => task[x].at \notin Early \cup Swapping
             /\ (tmp # NULL /\ x \in tmp.edits) => task[x].at \notin Early
             /\ (task[x].at \in Swapping /\ tmp # NULL) =>
                    x \in tmp.edits /\ (file # NULL => file.edits \subseteq tmp.edits)
             /\ (/\ task[x].kind = "overwrite" /\ row # NULL
                 /\ task[x].at \in Late) => x \in file.edits
  BY StepHistory DEF Applied
<1> HIDE DEF Early, Late
<1>2. row' # NULL => row # NULL /\ file # NULL
  BY StepRow DEF Step, OffRow, Says, Types, FileThere
<1>3. \A x, y \in Tasks : task[x].at \in Swapping /\ task[y].at \in Swapping => x = y
  BY StepHistory DEF Rendering
<1>4. task'[u].kind = task[u].kind /\ (u # t => task'[u] = task[u])  BY StepTask DEF Same
<1>5. CASE Render(t)
  <2>1. \A x \in Tasks : task[x].at \notin Swapping  BY <1>5, StepHistory
  <2>2. /\ file' = file /\ file # NULL /\ tmp' # NULL /\ tmp'.edits = file.edits \cup {t}
        /\ row' = row
    BY <1>5, StepFiles, StepRow DEF Holds, OffRow
  <2>3. task[t].at = "render" /\ task'[t].at = "rendering"  BY <1>5, StepAt
  <2>4. CASE u = t  BY <1>1, <2>2, <2>3, <2>4 DEF Early, Late, Swapping
  <2>5. CASE u # t  BY <1>1, <1>4, <2>1, <2>2, <2>5 DEF Early, Late, Swapping
  <2> QED  BY <2>4, <2>5
<1>6. CASE Swap(t)
  <2>1. task[t].at = "swap" /\ task'[t].at \in {"tag", "save"}  BY <1>6, StepAt
  <2>2. tmp # NULL /\ file' = tmp /\ tmp' = NULL /\ row' = row
    BY <1>6, StepFiles, StepRow DEF OffRow
  <2>3. t \in tmp.edits /\ (file # NULL => file.edits \subseteq tmp.edits)
    BY <1>1, <2>1, <2>2 DEF Swapping
  <2>4. CASE u = t  BY <2>1, <2>2, <2>3, <2>4 DEF Early, Swapping
  <2>5. CASE u # t
    <3>1. task[u].at \notin Swapping  BY <1>3, <2>1, <2>5 DEF Swapping
    <3> QED  BY <1>1, <1>2, <1>4, <2>2, <2>3, <2>5, <3>1
  <2> QED  BY <2>4, <2>5
<1>7. CASE ~Render(t) /\ ~Swap(t)
  <2>1. /\ file' # NULL => file # NULL /\ file'.edits = file.edits
        /\ tmp' # NULL => tmp # NULL /\ tmp'.edits = tmp.edits
    BY <1>7, StepFiles DEF Step, OffDisk, Holds
  <2>2. row' # NULL => file' # NULL
    BY FileThereStep DEF FileThere
  <2>3. CASE u # t  BY <1>1, <1>2, <1>4, <2>1, <2>2, <2>3
  <2>4. CASE u = t
    <3>1. task'[t].at \in Early \cup Swapping => task[t].at \in Early \cup Swapping
      BY <1>7, StepAt DEF Step, Early, Swapping
    <3>2. task'[t].at \in Early => task[t].at \in Early
      BY <1>7, StepAt DEF Step, Early
    <3>3. task'[t].at \in Swapping => task[t].at \in Swapping
      BY <1>7, StepAt DEF Step, Swapping
    <3>4. task'[t].at \in Late => task[t].at \in Late
      BY <1>7, StepAt DEF Step, Late
    <3> QED  BY <1>1, <1>2, <1>4, <2>1, <2>2, <2>4, <3>1, <3>2, <3>3, <3>4
  <2> QED  BY <2>3, <2>4
<1> QED  BY <1>5, <1>6, <1>7

-----------------------------------------------------------------------------
(* The start of a task, the end of the process, and the whole *)

LEMMA StartsPreserve ==
    ASSUME Inv, NEW t \in Tasks, Starts(t)
    PROVE  Inv'
<1>1. Started(t)  BY StartsMove DEF Inv, Types
<1>2. /\ UNCHANGED <<row, file, tmp, picture, outcome>>
      /\ \A u \in Tasks : u # t => task'[u] = task[u]
      /\ task[t].at = "idle" /\ task'[t].at \in {"read", "tag", "store", "commit"}
      /\ row # NULL /\ history \subseteq history'
  BY <1>1 DEF Started
<1>3. Types'
  <2>1. VarTypes'  BY <1>1 DEF Started, Inv, Types, VarTypes
  <2>2. KindsOK'
    <3>1. /\ task'[t].at = "read" => task'[t].kind = "overwrite"
          /\ task'[t].at = "tag" => task'[t].kind = "put"
          /\ task'[t].at = "store" => task'[t].kind = "upload"
          /\ task'[t].at = "commit" => task'[t].kind = "delete"
          /\ task'[t].kind = "put" => task'[t].tags
          /\ task'[t].art => task'[t].kind = "put"
          /\ task'[t].original => task'[t].user \in Admins
      BY <1>1 DEF Started
    <3> QED  BY <1>2, <3>1 DEF Inv, Types, KindsOK, Writers
  <2>3. OpenOK'
    <3>1. /\ file # NULL => file.renderers \subseteq Tasks /\ file.taggers \subseteq Tasks
          /\ tmp # NULL => tmp.renderers \subseteq Tasks
      BY ContentsParts DEF Inv, Types, VarTypes
    <3> QED  BY <1>2, <3>1 DEF Inv, Types, OpenOK
  <2>4. FileThere'  BY <1>2 DEF Inv, Types, FileThere
  <2> QED  BY <2>1, <2>2, <2>3, <2>4 DEF Types
<1>4. Rendering'  BY <1>2 DEF Inv, Rendering, Swapping
<1>5. TmpOwned'  BY <1>2 DEF Inv, TmpOwned, Swapping
<1>6. ASSUME NEW u \in Tasks, u # t
      PROVE  (Busy(u)' <=> Busy(u)) /\ task'[u].kind = task[u].kind
  BY <1>2, <1>6 DEF Busy
<1>7. Deletion'
  <2> SUFFICES ASSUME "delete" \notin history' PROVE Deletion'  BY DEF Deletion
  <2>1. /\ task'[t].kind = "delete" =>
               \A u \in Tasks : ~(Busy(u) /\ task[u].kind = "overwrite")
        /\ task'[t].kind = "overwrite" =>
               \A u \in Tasks : ~(Busy(u) /\ task[u].kind = "delete")
    BY <1>1 DEF Started
  <2>2. \A x, u \in Tasks : ~(/\ Busy(x) /\ task[x].kind = "overwrite"
                              /\ Busy(u) /\ task[u].kind = "delete")
    BY <1>2 DEF Inv, Deletion
  <2>3. \A x, u \in Tasks : ~(/\ Busy(x)' /\ task'[x].kind = "overwrite"
                              /\ Busy(u)' /\ task'[u].kind = "delete")
    BY <1>6, <2>1, <2>2
  <2> QED  BY <1>2, <2>3 DEF Deletion
<1>8. Pictures'  BY <1>2 DEF Inv, Pictures
<1>9. Tagging'
  <2> SUFFICES ASSUME history' \cap {"tags", "crash"} = {} PROVE Tagging'  BY DEF Tagging
  <2>1. task'[t].kind \in Writers => \A u \in Tasks : ~(Busy(u) /\ task[u].kind \in Writers)
    BY <1>1 DEF Started
  <2>2. \A x, u \in Tasks : (/\ Busy(x) /\ task[x].kind \in Writers
                             /\ Busy(u) /\ task[u].kind \in Writers) => x = u
    BY <1>2 DEF Inv, Tagging
  <2>3. \A x, u \in Tasks : (/\ Busy(x)' /\ task'[x].kind \in Writers
                             /\ Busy(u)' /\ task'[u].kind \in Writers) => x = u
    BY <1>6, <2>1, <2>2
  <2> QED  BY <1>2, <2>3 DEF Inv, Tagging, Lapsed, Swapping
<1>10. Applied'
  <2>1. task'[t].kind = "overwrite" => task'[t].at = "read"  BY <1>1 DEF Started
  <2> QED  BY <1>2, <2>1 DEF Inv, Applied, Swapping
<1>11. Owners'
  <2>1. task'[t].kind = "overwrite" => task'[t].at = "read"  BY <1>1 DEF Started
  <2> QED  BY <1>2, <2>1 DEF Inv, Owners, Informed
<1> QED  BY <1>3, <1>4, <1>5, <1>7, <1>8, <1>9, <1>10, <1>11 DEF Inv

LEMMA CutFields ==
    ASSUME NEW f \in Contents
    PROVE  /\ Cut(f) # NULL /\ Cut(f).edits = f.edits
           /\ Cut(f).renderers = {} /\ Cut(f).taggers = {}
           /\ f.renderers = {} /\ "render" \notin f.torn => "render" \notin Cut(f).torn
<1> DEFINE n == f.torn \cup (IF f.renderers # {} THEN {"render"} ELSE {})
                       \cup (IF f.taggers # {} THEN {"tag"} ELSE {})
<1>1. n \in SUBSET {"render", "tag"}  BY ContentsParts
<1>2. Cut(f) = [f EXCEPT !.renderers = {}, !.taggers = {}, !.torn = n]
  BY ContentsParts DEF Cut
<1>3. f.renderers = {} /\ "render" \notin f.torn => "render" \notin n  OBVIOUS
<1> HIDE DEF n
<1>4. Cut(f) \in Contents  BY <1>1, <1>2 DEF Contents
<1>5. Cut(f) # NULL  BY <1>4, ContentsParts
<1> QED  BY <1>2, <1>3, <1>5 DEF Contents

LEMMA CrashPreserves ==
    ASSUME Inv, Crash
    PROVE  Inv'
<1>1. Stopped  BY CrashStops DEF Inv, Types
<1>2. /\ row' = row /\ picture' = picture /\ outcome' = outcome
      /\ file' = Cut(file) /\ tmp' = Cut(tmp) /\ history' = history \cup {"crash"}
  BY DEF Crash, Remember
<1>3. /\ file = NULL => file' = NULL
      /\ tmp = NULL => tmp' = NULL
      /\ file # NULL => /\ file' # NULL /\ file'.edits = file.edits
                        /\ file'.renderers = {} /\ file'.taggers = {}
                        /\ file.renderers = {} /\ "render" \notin file.torn
                               => "render" \notin file'.torn
      /\ tmp # NULL => /\ tmp' # NULL /\ tmp'.edits = tmp.edits
                       /\ tmp'.renderers = {} /\ tmp'.taggers = {}
  <2>1. Cut(NULL) = NULL  BY DEF Cut
  <2>2. file \in Contents \cup {NULL} /\ tmp \in Contents \cup {NULL}
    BY DEF Inv, Types, VarTypes
  <2> QED  BY <1>2, <2>1, <2>2, CutFields
<1>4. ASSUME NEW u \in Tasks
      PROVE  /\ task'[u].at \in {"idle", "end", "refused"} /\ ~Busy(u)'
             /\ task'[u].kind = task[u].kind
             /\ task'[u].at = "idle" => task'[u] = task[u]
  <2>1. task'[u].at \in {"idle", "end", "refused"} /\ task'[u].kind = task[u].kind
    BY <1>1 DEF Stopped, Same
  <2>2. task'[u].at = "idle" => task'[u] = task[u]  BY <1>1 DEF Stopped
  <2> QED  BY <2>1, <2>2 DEF Busy
<1>5. Types'
  <2>1. file' \in Contents \cup {NULL} /\ tmp' \in Contents \cup {NULL}
    BY <1>2, CutType DEF Inv, Types, VarTypes
  <2>2. VarTypes'  BY <1>1, <1>2, <2>1 DEF Stopped, Inv, Types, VarTypes
  <2>3. KindsOK'
    <3>1. \A u \in Tasks : Same(u)  BY <1>1 DEF Stopped
    <3>2. ASSUME NEW u \in Tasks
          PROVE  /\ task'[u].kind = "put" => task'[u].tags
                 /\ task'[u].art => task'[u].kind = "put"
                 /\ task'[u].original => task'[u].user \in Admins
      BY <3>1 DEF Same, Inv, Types, KindsOK
    <3> QED  BY <1>4, <3>2 DEF KindsOK
  <2>4. OpenOK'  BY <1>3 DEF OpenOK
  <2>5. FileThere'  BY <1>2, <1>3, <1>4 DEF Inv, Types, FileThere
  <2> QED  BY <2>2, <2>3, <2>4, <2>5 DEF Types
<1>6. Rendering'  BY <1>2, <1>3, <1>4 DEF Inv, Rendering, Swapping
<1>7. TmpOwned'  BY <1>2 DEF TmpOwned
<1>8. Deletion'  BY <1>2, <1>4 DEF Deletion
<1>9. Pictures'  BY <1>2, <1>4 DEF Inv, Pictures
<1>10. Tagging'  BY <1>2 DEF Tagging
<1>11. Applied'  BY <1>2, <1>3, <1>4 DEF Inv, Applied, Swapping
<1>12. Owners'  BY <1>2, <1>4 DEF Owners, Informed
<1> QED  BY <1>5, <1>6, <1>7, <1>8, <1>9, <1>10, <1>11, <1>12 DEF Inv

LEMMA InvInit == Init => Inv
<1> SUFFICES ASSUME Init PROVE Inv  OBVIOUS
<1>1. /\ file = [edits |-> {}, tags |-> NULL, renderers |-> {}, taggers |-> {}, torn |-> {}]
      /\ tmp = NULL /\ picture = [thumb |-> NULL, full |-> NULL]
      /\ task = [t \in Tasks |-> Idle] /\ outcome = [t \in Tasks |-> NULL] /\ history = {}
  BY DEF Init
<1>2. row \in Row /\ row # NULL /\ row.tags = NULL /\ ~row.art
  <2>1. PICK o \in Users \cup {NULL} :
            row = [tags |-> NULL, owner |-> o, source |-> "community", art |-> FALSE]
    BY DEF Init
  <2>2. row \in Row  BY <2>1 DEF Row
  <2> QED  BY <2>1, <2>2, SongFilesAssumption
<1>3. file \in Contents /\ file # NULL
  <2>1. file \in Contents  BY <1>1 DEF Contents
  <2> QED  BY <2>1, ContentsParts
<1>4. ASSUME NEW t \in Tasks PROVE task[t] = Idle  BY <1>1
<1>5. ASSUME NEW t \in Tasks
      PROVE  task[t].at = "idle" /\ ~task[t].art /\ ~task[t].original /\ task[t].kind = NULL
  BY <1>4 DEF Idle
<1>6. Types
  <2>1. Idle \in Task  BY DEF Idle, Task, StepNames
  <2>2. VarTypes  BY <1>1, <1>2, <1>3, <2>1 DEF VarTypes
  <2>3. KindsOK  BY <1>5, SongFilesAssumption DEF KindsOK
  <2>4. OpenOK  BY <1>1 DEF OpenOK
  <2>5. FileThere  BY <1>3, <1>5 DEF FileThere
  <2> QED  BY <2>2, <2>3, <2>4, <2>5 DEF Types
<1>7. Rendering  BY <1>1, <1>5 DEF Rendering, Swapping
<1>8. TmpOwned  BY <1>1 DEF TmpOwned
<1>9. Deletion  BY <1>2, <1>5 DEF Deletion, Busy
<1>10. Pictures  BY <1>1, <1>2, <1>5 DEF Pictures
<1>11. Tagging  BY <1>1, <1>2, <1>5 DEF Tagging, Busy, Swapping
<1>12. Applied  BY <1>1, <1>5 DEF Applied, Swapping
<1>13. Owners  BY <1>5 DEF Owners, Informed
<1> QED  BY <1>6, <1>7, <1>8, <1>9, <1>10, <1>11, <1>12, <1>13 DEF Inv

LEMMA Stutter == Inv /\ UNCHANGED vars => Inv'
<1> SUFFICES ASSUME Inv, UNCHANGED vars PROVE Inv'  OBVIOUS
<1>1. UNCHANGED <<row, file, tmp, picture, task, outcome, history>>  BY DEF vars
<1>2. Types'  BY <1>1 DEF Inv, Types, VarTypes, KindsOK, OpenOK, FileThere
<1>3. Rendering' /\ TmpOwned'  BY <1>1 DEF Inv, Rendering, TmpOwned
<1>4. Deletion' /\ Tagging'  BY <1>1 DEF Inv, Deletion, Tagging, Lapsed, Busy
<1>5. Pictures' /\ Applied' /\ Owners'  BY <1>1 DEF Inv, Pictures, Applied, Owners
<1> QED  BY <1>2, <1>3, <1>4, <1>5 DEF Inv

LEMMA InvNext == Inv /\ [Next]_vars => Inv'
<1> SUFFICES ASSUME Inv, [Next]_vars PROVE Inv'  OBVIOUS
<1>1. ASSUME NEW t \in Tasks, Step(t) PROVE Inv'
  BY <1>1, TypesStep, RenderingStep, TmpOwnedStep, DeletionStep, PicturesStep, TaggingStep,
     AppliedStep, OwnersStep DEF Inv
<1>2. ASSUME NEW t \in Tasks, Starts(t) PROVE Inv'  BY <1>2, StartsPreserve
<1>3. CASE Crash  BY <1>3, CrashPreserves
<1>4. CASE UNCHANGED vars  BY <1>4, Stutter
<1> QED  BY <1>1, <1>2, <1>3, <1>4 DEF Next, Starts

\* However its steps interleave, and wherever the process stops, what the tasks at
\* work have done so far is what the invariant says.
THEOREM InvHolds == Spec => []Inv
BY InvInit, InvNext, PTL DEF Spec

-----------------------------------------------------------------------------
(* The properties *)

\* What is in the songs directory is whole, wanted and named by the row: the file
\* is never half rendered unless two edits rendered at once, no edit leaves its
\* temporary file behind, and a deletion leaves no audio unless an edit ran beside it or
\* the system refused to remove it.
THEOREM DiskStaysInOrder == Spec => []DiskInOrder
<1>1. ASSUME Inv PROVE DiskInOrder
  <2>1. TypeOK
    <3>1. \A f \in {file, tmp} \ {NULL} : /\ \A t \in f.renderers : task[t].at = "rendering"
                                          /\ \A t \in f.taggers : task[t].at = "tagging"
      BY <1>1 DEF Inv, Types, OpenOK
    <3> QED  BY <1>1, <3>1 DEF Inv, Types, VarTypes, TypeOK
  <2>2. NeverHalfRendered  BY <1>1 DEF Inv, Rendering, NeverHalfRendered
  <2>3. TmpIsRemoved
    <3>1. ASSUME NEW t \in Tasks, task[t].at \in Swapping PROVE t \in BusyWith({"overwrite"})
      BY <1>1, <3>1 DEF Inv, Types, KindsOK, BusyWith, Busy, Swapping
    <3> QED  BY <1>1, <3>1 DEF Inv, TmpOwned, TmpIsRemoved
  <2>4. NothingOrphaned
    <3>1. ASSUME NEW t \in Tasks, task[t].at = "unlink" PROVE ~Quiet
      BY <3>1 DEF Quiet, Busy
    <3> QED  BY <1>1, <3>1 DEF Inv, Deletion, NothingOrphaned
  <2> QED  BY <2>1, <2>2, <2>3, <2>4 DEF DiskInOrder
<1> QED  BY <1>1, InvHolds, PTL

\* The two sizes of the artwork are one picture when nothing goes on, unless two
\* were drawn at once or the process stopped, and a row that says artwork is
\* cached can be served it whatever happened.
THEOREM ArtworkStaysAgreed == Spec => []ArtworkAgrees
<1>1. ASSUME Inv PROVE ArtworkAgrees
  <2>1. Quiet => \A t \in Tasks : task[t].at # "thumb"  BY DEF Quiet, Busy
  <2>2. PicturesMatch  BY <1>1, <2>1 DEF Inv, Pictures, PicturesMatch
  <2>3. ArtworkCanBeServed  BY <1>1 DEF Inv, Pictures, ArtworkCanBeServed
  <2> QED  BY <2>2, <2>3 DEF ArtworkAgrees
<1> QED  BY <1>1, InvHolds, PTL

\* The row and the tags in the file agree when nothing goes on, unless two writers
\* of tags overlapped, the process stopped between the file and the row, or the tags
\* are those of a task whose save was refused.
THEOREM TagsStayAgreed == Spec => []TagsAgree
<1>1. ASSUME Inv PROVE TagsAgree
  <2>1. Quiet => \A t \in Tasks : task[t].at # "save"  BY DEF Quiet, Busy
  <2> QED  BY <1>1, <2>1 DEF Inv, Tagging, TagsAgree, Lapsed, Unsaved
<1> QED  BY <1>1, InvHolds, PTL

LEMMA PublishRight ==
    ASSUME Inv, Next, row # NULL, row' # NULL, row'.owner # row.owner
    PROVE  \E t \in Tasks : /\ task'[t] # task[t] /\ task[t].user = row.owner
                            /\ row'.source = "original" => task[t].user \in Admins
<1>1. ~Crash  BY DEF Crash
<1>2. ASSUME NEW t \in Tasks PROVE ~Starts(t)
  <2>1. Starts(t) => row' = row  BY StartsMove DEF Inv, Types, Started
  <2> QED  BY <2>1
<1>3. PICK t \in Tasks : Step(t)  BY <1>1, <1>2 DEF Next, Starts
<1>4. Types  BY DEF Inv
<1>5. PublishSong(t) /\ task[t].at = "publish"
  <2>1. Publish(t) \/ Refused(t)  BY <1>3, <1>4, StepRow DEF Step, OffRow, Says
  <2> QED  BY <2>1 DEF Publish, Refused, Go
<1>6. task'[t].at # "publish"
  <2>1. Publish(t) \/ Refused(t)  BY <1>3, <1>4, StepRow DEF Step, OffRow, Says
  <2> QED  BY <1>3, <1>4, <2>1, StepAt
<1>7. /\ task[t].owner = task[t].user
      /\ row' = [row EXCEPT !.owner = NULL,
                            !.source = IF task[t].original THEN "original" ELSE "community"]
  BY <1>5 DEF PublishSong, MayPublish
<1>8. row \in Row  BY <1>4 DEF Types, VarTypes
<1>9. row'.owner = NULL /\ row'.source = IF task[t].original THEN "original" ELSE "community"
  BY <1>7, <1>8 DEF Row
<1>10. task[t].user = row.owner
  <2>1. row.owner \in {task[t].owner, NULL}  BY <1>5 DEF Inv, Owners, Informed
  <2> QED  BY <1>7, <1>9, <2>1
<1>11. row'.source = "original" => task[t].user \in Admins
  BY <1>4, <1>9 DEF Types, KindsOK
<1> QED  BY <1>5, <1>6, <1>10, <1>11

\* Only a task of the song's owner publishes it, and as an original only an
\* admin's, though the owner an edit goes by was read seconds before.
THEOREM PublishesByRight == Spec => PublishedByRight
<1>1. Inv /\ [Next]_vars =>
        [ (row # NULL /\ row' # NULL /\ row'.owner # row.owner) =>
            \E t \in Tasks : /\ task'[t] # task[t] /\ task[t].user = row.owner
                             /\ row'.source = "original" => task[t].user \in Admins ]_vars
  BY PublishRight DEF vars
<1> QED  BY <1>1, InvHolds, PTL DEF Spec, PublishedByRight

LEMMA DoneApplied ==
    ASSUME Inv, Next, NEW t \in Tasks, outcome'[t] # outcome[t], row # NULL,
           history' \cap {"render", "delete"} = {}
    PROVE  /\ outcome'[t] = "done" => file # NULL /\ t \in file.edits
           /\ outcome'[t] = "failed" /\ task[t].at \in {"render", "rendering", "swap"}
                  => t \notin file'.edits
<1>0. Types /\ outcome \in [Tasks -> {NULL, "done", "failed"}] /\ file # NULL
  BY DEF Inv, Types, VarTypes, FileThere
<1>1. ~Crash  BY DEF Crash
<1>2. ASSUME NEW u \in Tasks PROVE ~Starts(u)
  <2>1. Starts(u) => outcome' = outcome  BY StartsMove, <1>0 DEF Types, Started
  <2> QED  BY <2>1
<1>3. PICK u \in Tasks : Step(u)  BY <1>1, <1>2 DEF Next, Starts
<1>4. u = t /\ \/ OverwriteRead(t) /\ outcome'[t] \in {NULL, "failed"}
               \/ /\ outcome'[t] = "failed"
                  /\ \/ RenderMissing(t) \/ RenderFailed(t) \/ SwapMissing(t) \/ TagFailed(t)
                     \/ Refused(t)
               \/ Publish(t) /\ task[t].kind = "overwrite" /\ outcome'[t] = "done"
  BY <1>0, <1>3 DEF Step, OverwriteRead, Render, RenderMissing, RenderDone, RenderFailed, Swap,
         SwapMissing, Tag, Tagged, TagFailed, Save, SaveMissing, Publish, Fetch, FetchThumb,
         Store, SaveArtwork, DeleteCommit, DeleteUnlink, Refused, PublishSong, Except, Fail
<1>5. history \cap {"render", "delete"} = {}  BY <1>3, StepHistory
<1>6. ASSUME outcome'[t] = "done" PROVE t \in file.edits
  <2>1. Publish(t) /\ task[t].kind = "overwrite"  BY <1>4, <1>6, SongFilesAssumption
  <2>2. task[t].at = "publish"  BY <1>0, <1>3, <1>4, <2>1, StepAt
  <2> QED  BY <1>5, <2>1, <2>2 DEF Inv, Applied
<1>7. ASSUME outcome'[t] = "failed", task[t].at \in {"render", "rendering", "swap"}
      PROVE  t \notin file'.edits
  <2>1. t \notin file.edits  BY <1>0, <1>5, <1>7 DEF Inv, Applied, Swapping
  <2>2. RenderMissing(t) \/ RenderFailed(t) \/ SwapMissing(t)
    <3>1. ~OverwriteRead(t) /\ ~TagFailed(t) /\ ~Refused(t)
      BY <1>0, <1>3, <1>4, <1>7, StepAt DEF Refusable
    <3> QED  BY <1>4, <1>7, <3>1
  <2>3. file'.edits = file.edits
    BY <1>0, <1>3, <1>4, <2>2, StepFiles DEF Holds
  <2> QED  BY <2>1, <2>3
<1> QED  BY <1>0, <1>6, <1>7

\* An overwriting edit that is reported done is in the file, and one that fails
\* before its rename is not, unless it met another or a deletion.
THEOREM EditsAreApplied == Spec => DoneMeansApplied
<1>1. Inv /\ [Next]_vars =>
        [ \A t \in Tasks :
            (outcome'[t] # outcome[t] /\ row # NULL /\ history' \cap {"render", "delete"} = {}) =>
                /\ outcome'[t] = "done" => file # NULL /\ t \in file.edits
                /\ outcome'[t] = "failed" /\ task[t].at \in {"render", "rendering", "swap"}
                       => t \notin file'.edits ]_vars
  BY DoneApplied DEF vars
<1> QED  BY <1>1, InvHolds, PTL DEF Spec, DoneMeansApplied

=============================================================================
