-------------------------- MODULE EditChains_proofs --------------------------
(* Theorems about EditChains, for every value of its constants.             *)
EXTENDS EditChains, WellFoundedInduction, TLAPS

LEMMA GotoTasks ==
  ASSUME TasksOK, NEW t \in Tasks, NEW pc \in Steps, Goto(t, pc),
         pc \in Reclaiming => task[t].kind \in Kinds /\ task[t].cur \in Songs,
         pc \in Listing => task[t].kind \in {"edit", "restore"}
  PROVE  TasksOK'
<1>1. task' \in [Tasks -> TaskState]
  BY DEF TasksOK, Goto, TaskState
<1>2. ASSUME NEW x \in Tasks PROVE HasFields(task'[x])
  BY <1>1 DEF TasksOK, Goto, HasFields, TaskState
<1> QED  BY <1>1, <1>2 DEF TasksOK

LEMMA SetTasks ==
  ASSUME TasksOK, NEW t \in Tasks, NEW k \in TaskState, HasFields(k),
         task' = [task EXCEPT ![t] = k]
  PROVE  TasksOK'
BY DEF TasksOK

LEMMA UpdateJobs ==
  ASSUME JobsOK, NEW t \in Tasks, NEW result \in Maybe(Songs),
         NEW status \in {"pending", "processing", "done", "failed"},
         UpdateJob(t, status, result)
  PROVE  JobsOK'
<1>1. CASE job[t] = NULL
  BY <1>1 DEF JobsOK, UpdateJob
<1>2. CASE job[t] # NULL
  <2>1. job[t] \in JobRow
    BY <1>2 DEF JobsOK, Maybe
  <2> DEFINE r == IF result = NULL THEN job[t].result ELSE result
  <2>2. [job[t] EXCEPT !.status = status, !.result = r] \in JobRow
    BY <2>1 DEF JobRow, Maybe
  <2>3. job' = [job EXCEPT ![t] = [job[t] EXCEPT !.status = status, !.result = r]]
    BY <1>2 DEF UpdateJob, JobsOK
  <2> QED  BY <2>2, <2>3 DEF JobsOK, Maybe
<1> QED  BY <1>1, <1>2

LEMMA IdleTask == Idle \in TaskState /\ HasFields(Idle)
BY DEF Idle, Task, TaskState, HasFields, Maybe, Steps, Reclaiming, Listing

LEMMA EndTasks ==
  ASSUME TasksOK, NEW t \in Tasks, End(t)
  PROVE  TasksOK'
BY IdleTask, SetTasks DEF End

LEMMA DropRowType ==
  ASSUME RowsOK, library \subseteq Users \X Songs, JobsOK, NEW s \in Songs, DropRow(s)
  PROVE  RowsOK' /\ library' \subseteq Users \X Songs /\ JobsOK'
BY DEF RowsOK, DropRow, JobsOK, Maybe

-----------------------------------------------------------------------------
(* Every step keeps the types. *)

LEMMA EditTypes ==
  ASSUME TypeOK, NEW t \in Tasks, EditStep(t)
  PROVE  TypeOK'
<1> USE StoreAssumption
<1> DEFINE k == task[t]
<1>0. /\ RowsOK /\ files \subseteq Songs /\ library \subseteq Users \X Songs
      /\ users \subseteq Users /\ JobsOK /\ TasksOK /\ next \in 1..(MaxSong + 1)
  BY DEF TypeOK
<1>k. k \in TaskState /\ HasFields(k)
  BY <1>0 DEF TasksOK
<1>1. CASE EditBegin(t)
  <2>1. TasksOK'
    BY <1>0, <1>1, GotoTasks DEF EditBegin, Steps, Reclaiming, Listing
  <2> QED  BY <1>0, <1>1, <2>1 DEF EditBegin, TypeOK, RowsOK, JobsOK, rows
<1>12. CASE EditMark(t)
  <2>1. JobsOK'
    BY <1>0, <1>12, UpdateJobs DEF EditMark, Maybe
  <2>2. TasksOK'
    BY <1>0, <1>12, GotoTasks, EndTasks DEF EditMark, Steps, Reclaiming, Listing
  <2> QED  BY <1>0, <1>12, <2>1, <2>2 DEF EditMark, TypeOK, RowsOK, rows
<1>2. CASE EditRead(t)
  <2> DEFINE s == k.src
             r == IF root[s] = NULL THEN s ELSE root[s]
  <2>0. s \in Songs /\ r \in Songs /\ parent[s] \in Maybe(Songs)
    BY <1>0, <1>2, <1>k DEF EditRead, At, HasFields, RowsOK, Maybe
  <2>1. JobsOK'
    <3>1. CASE s \in songs
      BY <1>0, <1>2, <3>1 DEF EditRead, JobsOK
    <3>2. CASE s \notin songs
      BY <1>0, <1>2, <3>2, UpdateJobs DEF EditRead, Maybe
    <3> QED  BY <3>1, <3>2
  <2>2. TasksOK'
    <3>1. CASE s \in songs
      <4> DEFINE n == [k EXCEPT !.root = r, !.par = parent[s], !.input = s,
                                !.pc = IF r = s THEN "render" ELSE "read_root"]
      <4>1. n \in TaskState /\ HasFields(n)
        <5>1. k.kind = "edit" /\ n.pc \in {"render", "read_root"}
          BY <1>2, <1>k DEF EditRead, At, TaskState
        <5>2. n.pc \in Steps /\ n.pc \notin Reclaiming
          BY <5>1 DEF Steps, Reclaiming, Listing
        <5>3. n \in TaskState
          <6> DEFINE p == n.pc
                     q == parent[s]
          <6>1. s \in Maybe(Songs) /\ r \in Maybe(Songs) /\ q \in Maybe(Songs) /\ p \in Steps
            BY <2>0, <5>2 DEF Maybe
          <6>2. n = [k EXCEPT !.root = r, !.par = q, !.input = s, !.pc = p]
            BY <1>k DEF TaskState
          <6> HIDE DEF p, q, r, n
          <6> QED  BY <1>k, <6>1, <6>2 DEF TaskState
        <5> QED  BY <1>k, <5>1, <5>2, <5>3 DEF HasFields, TaskState
      <4>2. task' = [task EXCEPT ![t] = n]
        BY <1>0, <1>2, <3>1 DEF EditRead, TasksOK
      <4> QED  BY <1>0, <4>1, <4>2, SetTasks
    <3>2. CASE s \notin songs
      BY <1>0, <1>2, <3>2, EndTasks DEF EditRead
    <3> QED  BY <3>1, <3>2
  <2> QED  BY <1>0, <1>2, <2>1, <2>2 DEF EditRead, TypeOK, RowsOK, rows
<1>3. CASE EditReadRoot(t)
  <2> DEFINE n == [k EXCEPT !.input = IF k.root \in songs THEN k.root ELSE @,
                            !.pc = "render"]
  <2>1. n \in TaskState /\ HasFields(n)
    <3>1. n \in TaskState
      BY <1>k DEF TaskState, Steps
    <3> QED  BY <1>k, <3>1 DEF TaskState, HasFields, Reclaiming, Listing
  <2>2. TasksOK'
    BY <1>0, <1>3, <2>1, SetTasks DEF EditReadRoot, TasksOK
  <2> QED  BY <1>0, <1>3, <2>2 DEF EditReadRoot, TypeOK, RowsOK, JobsOK, rows
<1>4. CASE EditRender(t)
  <2>1. files' \subseteq Songs
    BY <1>0, <1>4, <1>k DEF EditRender, At, HasFields
  <2>2. TasksOK'
    <3> DEFINE n == [k EXCEPT !.pc = "insert", !.input = NULL]
    <3>1. n \in TaskState /\ HasFields(n)
      BY <1>4, <1>k DEF EditRender, At, TaskState, HasFields, Maybe, Steps, Reclaiming, Listing
    <3>2. CASE task' = [task EXCEPT ![t].pc = "insert", ![t].input = NULL]
      <4>1. task' = [task EXCEPT ![t] = n]
        BY <1>0, <3>2 DEF TasksOK
      <4> QED  BY <1>0, <3>1, <4>1, SetTasks
    <3>3. CASE Goto(t, "fail")
      BY <1>0, <3>3, GotoTasks DEF Steps, Reclaiming, Listing
    <3> QED  BY <1>4, <3>2, <3>3 DEF EditRender
  <2> QED  BY <1>0, <1>4, <2>1, <2>2 DEF EditRender, TypeOK, RowsOK, JobsOK, rows
<1>5. CASE EditInsert(t)
  <2>1. RowsOK'
    BY <1>0, <1>5, <1>k DEF EditInsert, At, HasFields, RowsOK, rows, Maybe, TaskState
  <2>2. TasksOK'
    BY <1>0, <1>5, GotoTasks DEF EditInsert, Steps, Reclaiming, Listing
  <2> QED  BY <1>0, <1>5, <2>1, <2>2 DEF EditInsert, TypeOK, JobsOK
<1>6. CASE EditUnlist(t)
  <2> DEFINE n == [k EXCEPT
                     !.cur = k.par,
                     !.pc = IF k.par # NULL /\ k.par # k.root THEN "count_library"
                                                              ELSE "list"]
  <2>1. n \in TaskState /\ HasFields(n)
    <3>1. n.pc \in Steps /\ (n.pc \in Reclaiming => k.par # NULL)
      BY <1>k DEF TaskState, Steps, Reclaiming, Listing
    <3>2. n \in TaskState
      BY <1>k, <3>1 DEF TaskState
    <3>3. n.pc \in Reclaiming => n.cur \in Songs
      BY <1>k, <3>1 DEF TaskState, Maybe
    <3>4. k.kind = "edit"
      BY <1>6 DEF EditUnlist, At
    <3> QED  BY <1>k, <3>2, <3>3, <3>4 DEF TaskState, HasFields, Kinds
  <2>2. task' = [task EXCEPT ![t] = n]
    BY <1>0, <1>6 DEF EditUnlist, TasksOK
  <2>3. TasksOK'
    BY <1>0, <2>1, <2>2, SetTasks
  <2> QED  BY <1>0, <1>6, <2>3 DEF EditUnlist, TypeOK, RowsOK, JobsOK, rows
<1>7. CASE EditReparent(t)
  <2>1. TasksOK'
    BY <1>0, <1>7, GotoTasks DEF EditReparent, At, Steps, Reclaiming, Listing
  <2> QED  BY <1>0, <1>7, <2>1 DEF EditReparent, TypeOK, RowsOK, JobsOK, rows
<1>8. CASE EditAttach(t)
  <2>1. RowsOK'
    BY <1>0, <1>8, <1>k DEF EditAttach, RowsOK, Maybe, TaskState
  <2>2. TasksOK'
    BY <1>0, <1>8, GotoTasks DEF EditAttach, At, Steps, Reclaiming, Listing
  <2> QED  BY <1>0, <1>8, <2>1, <2>2 DEF EditAttach, TypeOK, JobsOK
<1>9. CASE EditFinish(t)
  <2>1. TasksOK'
    BY <1>0, <1>9, GotoTasks, EndTasks DEF EditFinish, Steps, Reclaiming, Listing
  <2> QED  BY <1>0, <1>9, <2>1 DEF EditFinish, TypeOK, RowsOK, JobsOK, rows
<1>13. CASE EditReport(t)
  <2>1. JobsOK'
    BY <1>0, <1>13, <1>k, UpdateJobs DEF EditReport, At, HasFields, Maybe
  <2>2. TasksOK'
    BY <1>0, <1>13, GotoTasks, EndTasks DEF EditReport, Steps, Reclaiming, Listing
  <2> QED  BY <1>0, <1>13, <2>1, <2>2 DEF EditReport, TypeOK, RowsOK, rows
<1>10. CASE EditFail(t)
  <2>1. TasksOK'
    BY <1>0, <1>10, GotoTasks DEF EditFail, Steps, Reclaiming, Listing
  <2> QED  BY <1>0, <1>10, <2>1 DEF EditFail, TypeOK, RowsOK, JobsOK, rows
<1>11. CASE EditFailed(t)
  <2>1. JobsOK'
    BY <1>0, <1>11, UpdateJobs DEF EditFailed, Maybe
  <2>2. TasksOK'
    BY <1>0, <1>11, EndTasks DEF EditFailed
  <2> QED  BY <1>0, <1>11, <2>1, <2>2 DEF EditFailed, TypeOK, RowsOK, rows
<1> QED
  BY <1>1, <1>2, <1>3, <1>4, <1>5, <1>6, <1>7, <1>8, <1>9, <1>10, <1>11, <1>12, <1>13
     DEF EditStep

\* Where add_to_library leaves a task, and what it changes.
LEMMA ListIs ==
  ASSUME TypeOK, NEW t \in Tasks, List(t)
  PROVE  LET k == task[t] IN
         /\ k.pc \in Listing /\ k.kind \in {"edit", "restore"}
         /\ Entry(k) \in Users \X Songs
         /\ \/ Listed(t) /\ Entry(k) \in library
            \/ NotListed(t)
            \/ Goto(t, "enlist")
            \/ Goto(t, "refresh") /\ Entry(k) \in library'
         /\ library' \in {library, library \cup {Entry(k)}}
         /\ UNCHANGED <<rows, files, users, job, next>>
<1> DEFINE k == task[t]
<1>1. k.pc \in Listing /\ HasFields(k)
  BY DEF List, ListSelect, ListInsert, ListRefresh, Listing, TypeOK, TasksOK
<1>2. k.kind \in {"edit", "restore"} /\ Entry(k) \in Users \X Songs
  BY <1>1 DEF HasFields, Entry
<1> QED  BY <1>1, <1>2 DEF List, ListSelect, ListInsert, ListRefresh

LEMMA ListTypes ==
  ASSUME TypeOK, NEW t \in Tasks, List(t)
  PROVE  TypeOK'
<1> DEFINE k == task[t]
<1>0. /\ RowsOK /\ files \subseteq Songs /\ library \subseteq Users \X Songs
      /\ users \subseteq Users /\ JobsOK /\ TasksOK /\ next \in 1..(MaxSong + 1)
  BY DEF TypeOK
<1>k. k \in TaskState /\ HasFields(k)
  BY <1>0 DEF TasksOK
<1>1. library' \subseteq Users \X Songs
  BY <1>0, ListIs
<1>2. ASSUME Listed(t) PROVE TasksOK'
  <2> DEFINE n == [k EXCEPT !.cur = k.src, !.pc = "walk"]
  <2>1. CASE k.kind = "edit"
    BY <1>0, <1>2, <2>1, GotoTasks DEF Listed, Steps, Reclaiming, Listing
  <2>2. CASE k.kind # "edit"
    <3>1. n \in TaskState
      BY <1>k DEF TaskState, Steps
    <3>2. HasFields(n)
      BY <1>k, <3>1 DEF TaskState, HasFields, Reclaiming, Listing
    <3>3. task' = [task EXCEPT ![t] = n]
      BY <1>0, <1>2, <2>2 DEF Listed, TasksOK
    <3> QED  BY <1>0, <3>1, <3>2, <3>3, SetTasks
  <2> QED  BY <2>1, <2>2
<1>3. ASSUME NotListed(t) PROVE TasksOK'
  BY <1>0, <1>3, GotoTasks, EndTasks DEF NotListed, Steps, Reclaiming, Listing
<1>4. ASSUME Goto(t, "enlist") \/ Goto(t, "refresh") PROVE TasksOK'
  BY <1>0, <1>4, ListIs, GotoTasks DEF Steps, Reclaiming, Listing
<1>5. TasksOK'
  BY <1>2, <1>3, <1>4, ListIs
<1> QED  BY <1>0, <1>1, <1>5, ListIs DEF TypeOK, RowsOK, JobsOK, rows

LEMMA ResumeTypes ==
  ASSUME TasksOK, NEW t \in Tasks, task[t].kind \in Kinds, NEW d \in BOOLEAN, Resume(t, d)
  PROVE  TasksOK'
<1> DEFINE k == task[t]
           n == [k EXCEPT !.cur = k.nxt, !.nxt = NULL, !.pc = "walk"]
<1>k. k \in TaskState /\ HasFields(k)
  BY DEF TasksOK
<1>1. CASE k.kind = "edit"
  <2>1. Goto(t, IF d THEN "reparent" ELSE "list")
    BY <1>1 DEF Resume
  <2> QED  BY <1>1, <2>1, GotoTasks DEF Steps, Reclaiming, Listing
<1>2. CASE k.kind = "delete"
  BY <1>2, EndTasks DEF Resume
<1>3. CASE k.kind \in {"restore", "publish"}
  <2>1. n \in TaskState /\ HasFields(n)
    <3>1. n \in TaskState
      BY <1>k DEF TaskState, Maybe, Steps
    <3> QED  BY <1>k, <3>1 DEF TaskState, HasFields, Reclaiming, Listing
  <2>2. task' = [task EXCEPT ![t] = n]
    BY <1>3 DEF Resume, TasksOK
  <2> QED  BY <2>1, <2>2, SetTasks
<1> QED  BY <1>1, <1>2, <1>3 DEF Kinds

LEMMA ReclaimTypes ==
  ASSUME TypeOK, NEW t \in Tasks, Reclaim(t)
  PROVE  TypeOK'
<1> DEFINE k == task[t]
<1>0. /\ RowsOK /\ files \subseteq Songs /\ library \subseteq Users \X Songs
      /\ users \subseteq Users /\ JobsOK /\ TasksOK /\ next \in 1..(MaxSong + 1)
  BY DEF TypeOK
<1>k. k \in TaskState /\ k.kind \in Kinds /\ k.cur \in Songs
  BY <1>0 DEF TasksOK, HasFields, Reclaim, CountLibrary, CountChildren, DeleteRow, Unlink,
              Reclaiming
<1>r. ASSUME NEW d \in BOOLEAN, Resume(t, d) PROVE TasksOK'
  BY <1>0, <1>k, <1>r, ResumeTypes
<1>1. CASE CountLibrary(t)
  <2>1. TasksOK'
    <3>1. CASE LibraryRefs(k.cur) = {}
      BY <1>0, <1>1, <1>k, <3>1, GotoTasks DEF CountLibrary, Steps, Reclaiming, Listing
    <3>2. CASE LibraryRefs(k.cur) # {}
      BY <1>1, <1>r, <3>2 DEF CountLibrary
    <3> QED  BY <3>1, <3>2
  <2> QED  BY <1>0, <1>1, <2>1 DEF CountLibrary, TypeOK, RowsOK, JobsOK, rows
<1>2. CASE CountChildren(t)
  <2>1. TasksOK'
    <3>1. CASE ChildRefs(k.cur) \subseteq Excluded(k)
      BY <1>0, <1>2, <1>k, <3>1, GotoTasks DEF CountChildren, Steps, Reclaiming, Listing
    <3>2. CASE ~(ChildRefs(k.cur) \subseteq Excluded(k))
      BY <1>2, <1>r, <3>2 DEF CountChildren
    <3> QED  BY <3>1, <3>2
  <2> QED  BY <1>0, <1>2, <2>1 DEF CountChildren, TypeOK, RowsOK, JobsOK, rows
<1>3. CASE DeleteRow(t)
  <2>1. CASE k.cur \in songs
    <3>1. RowsOK' /\ library' \subseteq Users \X Songs /\ JobsOK'
      BY <1>0, <1>3, <1>k, <2>1, DropRowType DEF DeleteRow
    <3>2. TasksOK'
      BY <1>0, <1>3, <1>k, <2>1, GotoTasks DEF DeleteRow, Steps, Reclaiming, Listing
    <3> QED  BY <1>0, <1>3, <3>1, <3>2 DEF DeleteRow, TypeOK
  <2>2. CASE k.cur \notin songs
    <3>1. TasksOK'
      BY <1>3, <1>r, <2>2 DEF DeleteRow
    <3> QED  BY <1>0, <1>3, <2>2, <3>1 DEF DeleteRow, TypeOK, RowsOK, JobsOK, rows
  <2> QED  BY <2>1, <2>2
<1>4. CASE Unlink(t)
  <2>1. TasksOK'
    BY <1>4, <1>r DEF Unlink
  <2> QED  BY <1>0, <1>4, <2>1 DEF Unlink, TypeOK, RowsOK, JobsOK, rows
<1> QED  BY <1>1, <1>2, <1>3, <1>4 DEF Reclaim

LEMMA RequestStepTypes ==
  ASSUME TypeOK, NEW t \in Tasks, RequestStep(t)
  PROVE  TypeOK'
<1> DEFINE k == task[t]
<1>0. /\ RowsOK /\ files \subseteq Songs /\ library \subseteq Users \X Songs
      /\ users \subseteq Users /\ JobsOK /\ TasksOK /\ next \in 1..(MaxSong + 1)
  BY DEF TypeOK
<1>k. k \in TaskState /\ HasFields(k)
  BY <1>0 DEF TasksOK
<1>1. CASE RestoreUnlist(t)
  <2>1. TasksOK'
    BY <1>0, <1>1, GotoTasks DEF RestoreUnlist, At, Steps, Reclaiming, Listing
  <2> QED  BY <1>0, <1>1, <2>1 DEF RestoreUnlist, TypeOK, RowsOK, JobsOK, rows
<1>3. CASE RestoreWalk(t)
  <2> DEFINE q == IF k.cur = k.src THEN k.par ELSE parent[k.cur]
             n == [k EXCEPT !.nxt = q, !.pc = "count_library"]
  <2>1. TasksOK'
    <3>1. CASE k.cur \in songs \ {k.tgt}
      <4>1. q \in Maybe(Songs) /\ k.cur \in Songs /\ k.kind = "restore"
        BY <1>0, <1>3, <1>k, <3>1 DEF RowsOK, TaskState, RestoreWalk, At
      <4>2. n \in TaskState /\ HasFields(n)
        <5> HIDE DEF q
        <5>1. n \in TaskState
          BY <1>k, <4>1 DEF TaskState, Steps, Reclaiming, Listing
        <5> QED  BY <1>k, <4>1, <5>1 DEF TaskState, HasFields, Kinds
      <4>3. task' = [task EXCEPT ![t] = n]
        BY <1>0, <1>3, <3>1 DEF RestoreWalk, TasksOK
      <4> QED  BY <1>0, <4>2, <4>3, SetTasks
    <3>2. CASE k.cur \notin songs \ {k.tgt}
      BY <1>0, <1>3, <3>2, EndTasks DEF RestoreWalk
    <3> QED  BY <3>1, <3>2
  <2> QED  BY <1>0, <1>3, <2>1 DEF RestoreWalk, TypeOK, RowsOK, JobsOK, rows
<1>4. CASE PublishWalk(t)
  <2> DEFINE m == [k EXCEPT !.nxt = parent[k.cur], !.pc = "count_library"]
             n == [k EXCEPT !.pc = "publish", !.cur = NULL]
  <2>1. TasksOK'
    <3>1. CASE k.cur \in songs \ {k.root}
      <4>1. parent[k.cur] \in Maybe(Songs) /\ k.cur \in Songs /\ k.kind = "publish"
        BY <1>0, <1>4, <1>k, <3>1 DEF RowsOK, TaskState, PublishWalk, At
      <4>2. m \in TaskState
        BY <1>k, <4>1 DEF TaskState, Steps, Reclaiming, Listing
      <4>3. HasFields(m)
        BY <1>k, <4>1, <4>2 DEF TaskState, HasFields, Kinds, Listing
      <4>4. task' = [task EXCEPT ![t] = m]
        BY <1>0, <1>4, <3>1 DEF PublishWalk, TasksOK
      <4> QED  BY <1>0, <4>2, <4>3, <4>4, SetTasks
    <3>2. CASE k.cur \notin songs \ {k.root}
      <4>1. n \in TaskState
        BY <1>k DEF TaskState, Steps, Maybe
      <4>2. HasFields(n)
        BY <1>k, <4>1 DEF TaskState, HasFields, Reclaiming, Listing
      <4>3. task' = [task EXCEPT ![t] = n]
        BY <1>0, <1>4, <3>2 DEF PublishWalk, TasksOK
      <4> QED  BY <1>0, <4>1, <4>2, <4>3, SetTasks
    <3> QED  BY <3>1, <3>2
  <2> QED  BY <1>0, <1>4, <2>1 DEF PublishWalk, TypeOK, RowsOK, JobsOK, rows
<1>5. CASE PublishUpdate(t)
  <2>1. RowsOK'
    BY <1>0, <1>5 DEF PublishUpdate, RowsOK, Maybe
  <2>2. TasksOK'
    BY <1>0, <1>5, EndTasks DEF PublishUpdate
  <2> QED  BY <1>0, <1>5, <2>1, <2>2 DEF PublishUpdate, TypeOK, JobsOK
<1> QED  BY <1>1, <1>3, <1>4, <1>5 DEF RequestStep

LEMMA RequestTypes ==
  ASSUME TypeOK, NEW t \in Tasks, Request(t)
  PROVE  TypeOK'
<1>0. /\ RowsOK /\ files \subseteq Songs /\ library \subseteq Users \X Songs
      /\ users \subseteq Users /\ JobsOK /\ TasksOK /\ next \in 1..(MaxSong + 1)
  BY DEF TypeOK
<1>1. ASSUME NEW u \in Users, NEW s \in Songs, CreateEditJob(t, u, s) PROVE TypeOK'
  <2> DEFINE n == Task("edit", "begin", u, s, next)
             j == [status |-> "pending", source |-> s, user |-> u, result |-> NULL]
  <2>1. next \in Songs /\ next' \in 1..(MaxSong + 1)
    BY <1>0, <1>1, StoreAssumption DEF CreateEditJob, Songs
  <2>2. n \in TaskState /\ HasFields(n)
    BY <2>1 DEF Task, TaskState, HasFields, Kinds, Steps, Maybe, Reclaiming, Listing
  <2>3. TasksOK'
    BY <1>0, <1>1, <2>2, SetTasks DEF CreateEditJob
  <2>4. j \in JobRow
    BY DEF JobRow, Maybe
  <2>5. JobsOK'
    BY <1>0, <1>1, <2>4 DEF CreateEditJob, JobsOK, Maybe
  <2> QED  BY <1>0, <1>1, <2>1, <2>3, <2>5 DEF CreateEditJob, TypeOK, RowsOK, rows
<1>2. ASSUME NEW u \in Users, NEW s \in Songs, Publish(t, u, s) PROVE TypeOK'
  <2> DEFINE c == IF root[s] = NULL THEN NULL ELSE parent[s]
             n == [Task("publish", "walk", u, s, NULL) EXCEPT
                     !.par = parent[s], !.root = root[s], !.cur = c]
  <2>1. parent[s] \in Maybe(Songs) /\ root[s] \in Maybe(Songs) /\ c \in Maybe(Songs)
    BY <1>0 DEF RowsOK, Maybe
  <2>4. n \in TaskState /\ HasFields(n)
    <3> DEFINE k == Task("publish", "walk", u, s, NULL)
    <3>1. k \in TaskState /\ k.kind = "publish" /\ k.pc = "walk" /\ k.user = u /\ k.src = s
      BY DEF Task, TaskState, Kinds, Steps, Maybe
    <3> HIDE DEF k
    <3>2. ASSUME NEW p \in Maybe(Songs), NEW r \in Maybe(Songs), NEW x \in Maybe(Songs)
          PROVE  LET m == [k EXCEPT !.par = p, !.root = r, !.cur = x]
                 IN  m \in TaskState /\ HasFields(m)
      BY <3>1 DEF TaskState, HasFields, Reclaiming, Listing
    <3> HIDE DEF c
    <3> QED  BY <2>1, <3>2 DEF k
  <2>5. TasksOK'
    BY <1>0, <1>2, <2>4, SetTasks DEF Publish
  <2> QED  BY <1>0, <1>2, <2>5 DEF Publish, TypeOK, RowsOK, JobsOK, rows
<1>3. ASSUME NEW s \in Songs, DeleteDownload(t, s) PROVE TypeOK'
  <2> DEFINE n == [Task("delete", "count_children", NULL, s, NULL) EXCEPT !.cur = s]
  <2>1. n = [kind |-> "delete", pc |-> "count_children", user |-> NULL, src |-> s,
             tgt |-> NULL, root |-> NULL, par |-> NULL, input |-> NULL, cur |-> s,
             nxt |-> NULL]
    BY DEF Task
  <2>2. n \in TaskState /\ HasFields(n)
    BY <2>1 DEF TaskState, HasFields, Kinds, Steps, Maybe, Reclaiming, Listing
  <2>3. TasksOK'
    BY <1>0, <1>3, <2>2, SetTasks DEF DeleteDownload
  <2> QED  BY <1>0, <1>3, <2>3 DEF DeleteDownload, TypeOK, RowsOK, JobsOK, rows
<1>4. ASSUME NEW u \in Users, NEW s \in Songs, NEW g \in Songs, Restore(t, u, s, g)
      PROVE  TypeOK'
  <2> DEFINE n == [Task("restore", "unlist", u, s, g) EXCEPT !.par = parent[s]]
  <2>1. parent[s] \in Maybe(Songs)
    BY <1>0 DEF RowsOK
  <2>2. n = [kind |-> "restore", pc |-> "unlist", user |-> u, src |-> s, tgt |-> g,
             root |-> NULL, par |-> parent[s], input |-> NULL, cur |-> NULL, nxt |-> NULL]
    BY DEF Task
  <2>3. n \in TaskState /\ HasFields(n)
    BY <2>1, <2>2 DEF TaskState, HasFields, Kinds, Steps, Maybe, Reclaiming, Listing
  <2>4. TasksOK'
    BY <1>0, <1>4, <2>3, SetTasks DEF Restore
  <2> QED  BY <1>0, <1>4, <2>4 DEF Restore, TypeOK, RowsOK, JobsOK, rows
<1> QED  BY <1>1, <1>2, <1>3, <1>4 DEF Request

LEMMA EnvironmentTypes ==
  ASSUME TypeOK,
         \/ \E u \in Users, s \in Songs : AddToLibrary(u, s) \/ RemoveFromLibrary(u, s)
         \/ \E u \in Users : DeleteUser(u)
         \/ Crash
  PROVE  TypeOK'
<1>0. /\ RowsOK /\ files \subseteq Songs /\ library \subseteq Users \X Songs
      /\ users \subseteq Users /\ JobsOK /\ TasksOK /\ next \in 1..(MaxSong + 1)
  BY DEF TypeOK
<1>1. ASSUME NEW u \in Users, NEW s \in Songs, AddToLibrary(u, s) \/ RemoveFromLibrary(u, s)
      PROVE  TypeOK'
  BY <1>0, <1>1 DEF AddToLibrary, RemoveFromLibrary, TypeOK, RowsOK, JobsOK, TasksOK, rows
<1>2. ASSUME NEW u \in Users, DeleteUser(u) PROVE TypeOK'
  <2>1. JobsOK'
    BY <1>0, <1>2 DEF DeleteUser, JobsOK, Maybe
  <2> QED  BY <1>0, <1>2, <2>1 DEF DeleteUser, TypeOK, RowsOK, TasksOK, rows
<1>3. CASE Crash
  <2>1. TasksOK'
    BY <1>3, IdleTask DEF Crash, TasksOK
  <2> QED  BY <1>0, <1>3, <2>1 DEF Crash, TypeOK, RowsOK, JobsOK, rows
<1> QED  BY <1>1, <1>2, <1>3

LEMMA TypeInit == Init => TypeOK
<1> SUFFICES ASSUME Init PROVE TypeOK
  OBVIOUS
<1> USE StoreAssumption
<1>1. RowsOK
  BY DEF Init, RowsOK, Songs, Maybe
<1>2. JobsOK /\ TasksOK
  BY IdleTask DEF Init, JobsOK, TasksOK, Maybe
<1>3. files \subseteq Songs /\ library \subseteq Users \X Songs /\ users \subseteq Users
  BY DEF Init, Songs
<1>4. next \in 1..(MaxSong + 1)
  BY DEF Init
<1> QED  BY <1>1, <1>2, <1>3, <1>4 DEF TypeOK

LEMMA RefusedTypes ==
  ASSUME TypeOK, NEW t \in Tasks, Refused(t)
  PROVE  TypeOK'
<1>0. /\ RowsOK /\ files \subseteq Songs /\ library \subseteq Users \X Songs
      /\ users \subseteq Users /\ JobsOK /\ TasksOK /\ next \in 1..(MaxSong + 1)
  BY DEF TypeOK
<1>1. TasksOK'
  BY <1>0, GotoTasks, EndTasks DEF Refused, Steps, Reclaiming, Listing
<1> QED  BY <1>0, <1>1 DEF Refused, TypeOK, RowsOK, JobsOK, rows

LEMMA TypeStep == TypeOK /\ [Next]_vars => TypeOK'
<1>1. CASE UNCHANGED vars
  BY <1>1 DEF vars, TypeOK, RowsOK, JobsOK, TasksOK
<1>2. ASSUME TypeOK, Next PROVE TypeOK'
  BY <1>2, EditTypes, ListTypes, ReclaimTypes, RequestStepTypes, RequestTypes,
     RefusedTypes, EnvironmentTypes DEF Next, TaskStep
<1> QED  BY <1>1, <1>2

\* Whatever requests arrive, in whatever order their handlers and the background
\* jobs interleave, and whenever the process dies, every row, job and task keeps
\* its shape; in particular a handler never goes on without the song it needs.
THEOREM TypeCorrect == Spec => []TypeOK
BY TypeInit, TypeStep, PTL DEF Spec

-----------------------------------------------------------------------------
(* Files.  A step of one task leaves what the others handle alone, so it is  *)
(* enough to look at the files that task handles, or adds, or whose row it   *)
(* deletes.                                                                  *)

OnlyTask(t) == \A x \in Tasks \ {t} : task'[x] = task[x]

LEMMA FilesStep ==
  ASSUME FilesAccounted, NEW t \in Tasks, OnlyTask(t),
         \A s \in files' \ songs' :
            \/ Handles(task'[t], s)
            \/ s \in files \ songs /\ ~Handles(task[t], s)
  PROVE  FilesAccounted'
<1> SUFFICES ASSUME NEW s \in files' \ songs' PROVE \E x \in Tasks : Handles(task'[x], s)
  BY DEF FilesAccounted, Handles
<1>1. CASE Handles(task'[t], s)
  BY <1>1
<1>2. CASE s \in files \ songs /\ ~Handles(task[t], s)
  <2>1. PICK x \in Tasks : Handles(task[x], s)
    BY <1>2 DEF FilesAccounted
  <2> QED  BY <1>2, <2>1 DEF OnlyTask
<1> QED  BY <1>1, <1>2

\* A step that moves no file, deletes no row and takes no task out of a step
\* where it handles a file.
LEMMA FilesQuiet ==
  ASSUME FilesAccounted, NEW t \in Tasks, OnlyTask(t), files' = files,
         songs \subseteq songs', task[t].pc \notin {"insert", "fail", "unlink"}
  PROVE  FilesAccounted'
BY FilesStep DEF Handles

LEMMA OneTask ==
  ASSUME TypeOK, NEW t \in Tasks, TaskStep(t) \/ Request(t) \/ Refused(t)
  PROVE  OnlyTask(t)
<1>1. task \in [Tasks -> TaskState]
  BY DEF TypeOK, TasksOK
<1>2. ASSUME NEW d \in BOOLEAN, Resume(t, d) PROVE OnlyTask(t)
  BY <1>1, <1>2 DEF Resume, Goto, End, OnlyTask
<1>3. CASE EditStep(t)
  BY <1>1, <1>3 DEF EditStep, EditBegin, EditMark, EditRead, EditReadRoot, EditRender,
     EditInsert, EditUnlist, EditReparent, EditAttach, EditFinish, EditReport, EditFail,
     EditFailed, Goto, End, OnlyTask
<1>4. CASE Reclaim(t)
  BY <1>1, <1>2, <1>4 DEF Reclaim, CountLibrary, CountChildren, DeleteRow, Unlink, Goto, OnlyTask
<1>5. CASE RequestStep(t)
  BY <1>1, <1>5 DEF RequestStep, RestoreUnlist, RestoreWalk, PublishWalk,
     PublishUpdate, Goto, End, OnlyTask
<1>6. CASE Request(t)
  BY <1>1, <1>6 DEF Request, CreateEditJob, Publish, DeleteDownload, Restore, OnlyTask
<1>7. CASE List(t)
  BY <1>1, <1>7 DEF List, ListSelect, ListInsert, ListRefresh, Listed, NotListed, Goto, End,
     OnlyTask
<1>8. CASE Refused(t)
  BY <1>1, <1>8 DEF Refused, Goto, End, OnlyTask
<1> QED  BY <1>3, <1>4, <1>5, <1>6, <1>7, <1>8 DEF TaskStep

LEMMA FilesNext ==
  ASSUME "crash" \notin Ops, TypeOK, FilesAccounted, [Next]_vars
  PROVE  FilesAccounted'
<1> USE DEF At
<1>0. task \in [Tasks -> TaskState] /\ \A t \in Tasks : HasFields(task[t])
  BY DEF TypeOK, TasksOK
<1>1. CASE UNCHANGED vars
  BY <1>1 DEF vars, FilesAccounted, Handles
<1>2. ASSUME NEW t \in Tasks, TaskStep(t) \/ Request(t) PROVE FilesAccounted'
  <2>0. OnlyTask(t)
    BY <1>2, OneTask
  <2>q. ASSUME files' = files, songs \subseteq songs',
               task[t].pc \notin {"insert", "fail", "unlink"}
        PROVE  FilesAccounted'
    BY <2>0, <2>q, FilesQuiet
  <2>1. CASE EditRender(t)
    <3>1. CASE /\ files' = files \cup {task[t].tgt}
               /\ task' = [task EXCEPT ![t].pc = "insert", ![t].input = NULL]
      <4>1. task'[t].kind = "edit" /\ task'[t].tgt = task[t].tgt /\ task'[t].pc = "insert"
        BY <1>0, <2>1, <3>1 DEF EditRender, TaskState
      <4>2. songs' = songs /\ task[t].pc = "render"
        BY <2>1 DEF EditRender, rows
      <4> QED  BY <2>0, <3>1, <4>1, <4>2, FilesStep DEF Handles
    <3>2. CASE Goto(t, "fail") /\ UNCHANGED files
      BY <2>1, <2>q, <3>2 DEF EditRender, rows
    <3> QED  BY <2>1, <3>1, <3>2 DEF EditRender
  <2>2. CASE EditInsert(t)
    <3>1. CASE songs' = songs \cup {task[t].tgt}
      <4>1. files' = files /\ task[t].kind = "edit" /\ task[t].pc = "insert"
        BY <2>2 DEF EditInsert
      <4> QED  BY <2>0, <3>1, <4>1, FilesStep DEF Handles
    <3>2. CASE Goto(t, "fail") /\ UNCHANGED rows
      <4>1. task'[t].kind = "edit" /\ task'[t].tgt = task[t].tgt /\ task'[t].pc = "fail"
        BY <1>0, <2>2, <3>2 DEF EditInsert, Goto, TaskState
      <4>2. files' = files /\ songs' = songs /\ task[t].pc = "insert"
        BY <2>2, <3>2 DEF EditInsert, rows
      <4>3. \A s \in files' \ songs' : \/ Handles(task'[t], s)
                                       \/ s \in files \ songs /\ ~Handles(task[t], s)
        <5> SUFFICES ASSUME NEW s \in files' \ songs'
                     PROVE  \/ Handles(task'[t], s)
                            \/ s \in files \ songs /\ ~Handles(task[t], s)
          OBVIOUS
        <5>1. CASE s = task[t].tgt
          BY <4>1, <5>1 DEF Handles
        <5>2. CASE s # task[t].tgt
          BY <4>2, <5>2 DEF Handles
        <5> QED  BY <5>1, <5>2
      <4> QED  BY <2>0, <4>3, FilesStep
    <3> QED  BY <2>2, <3>1, <3>2 DEF EditInsert
  <2>3. CASE EditFail(t)
    <3>1. files' = files \ {task[t].tgt} /\ songs' = songs /\ task[t].pc = "fail"
      BY <2>3 DEF EditFail, rows
    <3> QED  BY <2>0, <3>1, FilesStep DEF Handles
  <2>4. CASE DeleteRow(t)
    <3>1. CASE task[t].cur \in songs
      <4>1. task'[t].pc = "unlink" /\ task'[t].cur = task[t].cur
        BY <1>0, <2>4, <3>1 DEF DeleteRow, Goto, TaskState
      <4>2. files' = files /\ songs' = songs \ {task[t].cur} /\ task[t].pc = "delete_row"
        BY <2>4, <3>1 DEF DeleteRow, DropRow
      <4> QED  BY <2>0, <4>1, <4>2, FilesStep DEF Handles
    <3>2. CASE task[t].cur \notin songs
      BY <2>4, <2>q, <3>2 DEF DeleteRow, rows
    <3> QED  BY <3>1, <3>2
  <2>5. CASE Unlink(t)
    <3>1. files' = files \ {task[t].cur} /\ songs' = songs /\ task[t].pc = "unlink"
      BY <2>5 DEF Unlink, rows
    <3> QED  BY <2>0, <3>1, FilesStep DEF Handles
  <2>6. CASE \/ EditBegin(t) \/ EditMark(t) \/ EditRead(t) \/ EditReadRoot(t)
             \/ EditUnlist(t) \/ EditReparent(t) \/ EditAttach(t) \/ EditFinish(t)
             \/ EditReport(t) \/ EditFailed(t)
    BY <2>6, <2>q DEF EditBegin, EditMark, EditRead, EditReadRoot, EditUnlist, EditReparent,
                      EditAttach, EditFinish, EditReport, EditFailed, rows
  <2>7. CASE CountLibrary(t) \/ CountChildren(t)
    BY <2>7, <2>q DEF CountLibrary, CountChildren, rows
  <2>8. CASE RequestStep(t)
    BY <2>8, <2>q DEF RequestStep, RestoreUnlist, RestoreWalk, PublishWalk,
                      PublishUpdate, rows
  <2>9. CASE Request(t)
    BY <2>9, <2>q DEF Request, CreateEditJob, Publish, DeleteDownload, Restore, Accept, rows
  <2>10. CASE List(t)
    BY <2>10, <2>q, ListIs DEF Listing, rows
  <2> QED
    BY <1>2, <2>1, <2>2, <2>3, <2>4, <2>5, <2>6, <2>7, <2>8, <2>9, <2>10
       DEF TaskStep, EditStep, Reclaim
<1>3. CASE \/ \E u \in Users, s \in Songs : AddToLibrary(u, s) \/ RemoveFromLibrary(u, s)
           \/ \E u \in Users : DeleteUser(u)
  BY <1>3 DEF AddToLibrary, RemoveFromLibrary, DeleteUser, rows, FilesAccounted, Handles
<1>4. ~Crash
  BY DEF Crash
<1>5. ASSUME NEW t \in Tasks, Refused(t) PROVE FilesAccounted'
  <2>0. OnlyTask(t) /\ files' = files /\ songs' = songs
    BY <1>5, OneTask DEF Refused, rows
  <2>1. task[t].pc \notin {"fail", "unlink"}
    BY <1>5 DEF Refused
  <2>2. CASE task[t].kind = "edit" /\ task[t].pc = "insert"
    <3>1. Goto(t, "fail")
      BY <1>5, <2>2 DEF Refused, Trying
    <3>2. task'[t].kind = "edit" /\ task'[t].tgt = task[t].tgt /\ task'[t].pc = "fail"
      BY <1>0, <2>2, <3>1 DEF Goto, TaskState
    <3>3. \A s : Handles(task[t], s) => Handles(task'[t], s)
      BY <2>2, <3>2 DEF Handles
    <3> QED  BY <2>0, <3>3, FilesStep
  <2>3. CASE ~(task[t].kind = "edit" /\ task[t].pc = "insert")
    <3>1. \A s : ~Handles(task[t], s)
      BY <2>1, <2>3 DEF Handles
    <3> QED  BY <2>0, <3>1, FilesStep
  <2> QED  BY <2>2, <2>3
<1> QED  BY <1>1, <1>2, <1>3, <1>4, <1>5 DEF Next

\* As long as the process does not die, no interleaving of edits, restores,
\* publications, deletions and account removals leaks a file, whichever statement
\* the database refuses: each one belongs to a row, or the task that is going to
\* insert or remove it is still there.
THEOREM NoFileLeaks ==
  ASSUME "crash" \notin Ops
  PROVE  Spec => []FilesAccounted
<1>1. Init => FilesAccounted
  BY DEF Init, FilesAccounted
<1>2. TypeOK /\ FilesAccounted /\ [Next]_vars => FilesAccounted'
  BY FilesNext
<1> QED  BY <1>1, <1>2, TypeCorrect, PTL DEF Spec

-----------------------------------------------------------------------------
(* Refinement.  What clients see of the job rows is a behaviour of           *)
(* JobLifecycle.  The rows alone do not say so: that EditMark finds a job    *)
(* pending, and EditReport one in progress, is known of the task.            *)

\* Steps before the job is marked.
Opening == {"begin", "mark"}

\* The row of a job, if it is still there, is as far as the task is.
InStep(t) ==
    /\ task[t].kind = "edit" /\ task[t].pc \in Opening =>
          job[t] = NULL \/ job[t].status = "pending"
    /\ task[t].kind = "edit" /\ task[t].pc \notin Opening =>
          job[t] = NULL \/ job[t].status = "processing"

JobsInStep == \A t \in Tasks : InStep(t)

StatusOf(t) == IF job[t] = NULL THEN "none" ELSE job[t].status

\* The status update_edit_job leaves behind.
LEMMA UpdateJobStatus ==
  ASSUME JobsOK, NEW t \in Tasks, NEW result \in Maybe(Songs),
         NEW s \in {"pending", "processing", "done", "failed"}, UpdateJob(t, s, result)
  PROVE  /\ job[t] = NULL => job' = job
         /\ job[t] # NULL => job'[t] # NULL /\ job'[t].status = s
         /\ \A x \in Tasks \ {t} : job'[x] = job[x]
<1>1. CASE job[t] = NULL
  BY <1>1 DEF UpdateJob
<1>2. CASE job[t] # NULL
  <2> DEFINE r == [job[t] EXCEPT !.status = s,
                                 !.result = IF result = NULL THEN @ ELSE result]
  <2>1. job[t] \in JobRow
    BY <1>2 DEF JobsOK, Maybe
  <2>2. job' = [job EXCEPT ![t] = r]
    BY <1>2 DEF UpdateJob, JobsOK
  <2>3. r.status = s /\ r # NULL
    <3>1. r.status = s
      BY <2>1 DEF JobRow
    <3>2. r \in JobRow
      BY <2>1 DEF JobRow, Maybe
    <3> QED  BY <3>1, <3>2, JobRowAssumption
  <2>4. job'[t] = r /\ \A x \in Tasks \ {t} : job'[x] = job[x]
    BY <2>2 DEF JobsOK
  <2> QED  BY <1>2, <2>3, <2>4
<1> QED  BY <1>1, <1>2

\* Steps that leave jobs alone, and take no task to or from the start of an edit.
LEMMA InStepQuiet ==
  ASSUME JobsInStep, job' = job, NEW t \in Tasks, OnlyTask(t),
         \/ task'[t].kind # "edit"
         \/ /\ task[t].kind = "edit" /\ task[t].pc \notin Opening
            /\ task'[t].pc \notin Opening
  PROVE  JobsInStep'
BY DEF JobsInStep, InStep, OnlyTask, At

\* What the mapping makes of a step that changes one row at most.
LEMMA OneStatus ==
  ASSUME NEW t \in Tasks, \A x \in Tasks \ {t} : job'[x] = job[x]
  PROVE  jobStatus' = [jobStatus EXCEPT ![t] = StatusOf(t)']
BY DEF jobStatus, StatusOf

LEMMA BeginRefines ==
  ASSUME TypeOK, JobsInStep, NEW t \in Tasks, EditBegin(t)
  PROVE  JobsInStep' /\ [Lifecycle!Next]_jobStatus
<1>0. TasksOK /\ At(t, "edit", "begin") /\ job' = job
  BY DEF TypeOK, EditBegin
<1>1. /\ OnlyTask(t) /\ task'[t].kind = "edit"
      /\ \/ job[t] = NULL
         \/ task'[t].pc = "mark"
  BY <1>0 DEF EditBegin, Goto, OnlyTask, TasksOK, TaskState, At
<1>2. job[t] = NULL \/ job[t].status = "pending"
  BY <1>0 DEF JobsInStep, InStep, Opening, At
<1>3. JobsInStep'
  BY <1>0, <1>1, <1>2 DEF JobsInStep, InStep, OnlyTask, Opening
<1> QED  BY <1>0, <1>3 DEF jobStatus

LEMMA MarkRefines ==
  ASSUME TypeOK, JobsInStep, NEW t \in Tasks, EditMark(t)
  PROVE  JobsInStep' /\ [Lifecycle!Next]_jobStatus
<1>0. JobsOK /\ TasksOK /\ At(t, "edit", "mark") /\ UpdateJob(t, "processing", NULL)
  BY DEF TypeOK, EditMark
<1>1. /\ job[t] = NULL => job' = job
      /\ job[t] # NULL => job'[t] # NULL /\ job'[t].status = "processing"
      /\ \A x \in Tasks \ {t} : job'[x] = job[x]
  BY <1>0, UpdateJobStatus DEF Maybe
<1>2. /\ OnlyTask(t)
      /\ job[t] = NULL => task'[t].kind = "none"
      /\ job[t] # NULL => task'[t].pc = "read" /\ task'[t].kind = "edit"
  BY <1>0 DEF EditMark, Goto, End, Idle, Task, OnlyTask, TasksOK, TaskState, At
<1>3. job[t] = NULL \/ job[t].status = "pending"
  BY <1>0 DEF JobsInStep, InStep, Opening, At
<1>4. JobsInStep'
  BY <1>1, <1>2 DEF JobsInStep, InStep, OnlyTask, Opening
<1>5. CASE job[t] = NULL
  BY <1>1, <1>4, <1>5 DEF jobStatus
<1>6. CASE job[t] # NULL
  <2>1. jobStatus[t] = "pending"
    BY <1>3, <1>6 DEF jobStatus
  <2>2. jobStatus' = [jobStatus EXCEPT ![t] = "processing"]
    BY <1>1, <1>6, OneStatus DEF StatusOf
  <2> QED  BY <1>4, <2>1, <2>2 DEF Lifecycle!Next, Lifecycle!Begin
<1> QED  BY <1>4, <1>5, <1>6

\* An edit that is not at its start ends, and says how.
LEMMA EndRefines ==
  ASSUME TypeOK, JobsInStep, NEW t \in Tasks, task[t].kind = "edit", task[t].pc \notin Opening,
         NEW s \in {"done", "failed"}, NEW result \in Maybe(Songs),
         UpdateJob(t, s, result), End(t)
  PROVE  JobsInStep' /\ [Lifecycle!Next]_jobStatus
<1>0. JobsOK /\ TasksOK
  BY DEF TypeOK
<1>1. /\ job[t] = NULL => job' = job
      /\ job[t] # NULL => job'[t] # NULL /\ job'[t].status = s
      /\ \A x \in Tasks \ {t} : job'[x] = job[x]
  BY <1>0, UpdateJobStatus
<1>2. OnlyTask(t) /\ task'[t].kind = "none"
  BY <1>0 DEF End, OnlyTask, TasksOK, Idle, Task
<1>3. job[t] = NULL \/ job[t].status = "processing"
  BY DEF JobsInStep, InStep, Opening
<1>4. JobsInStep'
  BY <1>1, <1>2 DEF JobsInStep, InStep, OnlyTask
<1>5. CASE job[t] = NULL
  BY <1>1, <1>4, <1>5 DEF jobStatus
<1>6. CASE job[t] # NULL
  <2>1. jobStatus[t] = "processing"
    BY <1>3, <1>6 DEF jobStatus
  <2>2. jobStatus' = [jobStatus EXCEPT ![t] = s]
    BY <1>1, <1>6, OneStatus DEF StatusOf
  <2> QED  BY <1>4, <2>1, <2>2 DEF Lifecycle!Next, Lifecycle!Settle, Lifecycle!Settled
<1> QED  BY <1>4, <1>5, <1>6

LEMMA CreateRefines ==
  ASSUME TypeOK, JobsInStep, NEW t \in Tasks, NEW u \in Users, NEW s \in Songs,
         CreateEditJob(t, u, s)
  PROVE  JobsInStep' /\ [Lifecycle!Next]_jobStatus
<1> DEFINE r == [status |-> "pending", source |-> s, user |-> u, result |-> NULL]
<1>0. JobsOK /\ TasksOK /\ job' = [job EXCEPT ![t] = r]
  BY DEF TypeOK, CreateEditJob
<1>1. r \in JobRow /\ r.status = "pending"
  BY DEF JobRow, Maybe
<1>2. job'[t] = r /\ r # NULL /\ \A x \in Tasks \ {t} : job'[x] = job[x]
  BY <1>0, <1>1, JobRowAssumption DEF JobsOK
<1>3. OnlyTask(t) /\ task'[t].pc = "begin"
  BY <1>0 DEF CreateEditJob, OnlyTask, TasksOK, Task
<1>4. JobsInStep'
  <2> HIDE DEF r
  <2> QED  BY <1>1, <1>2, <1>3 DEF JobsInStep, InStep, OnlyTask, Opening
<1>5. jobStatus[t] \notin Lifecycle!Open
  BY DEF CreateEditJob, jobStatus, Lifecycle!Open
<1>6. jobStatus' = [jobStatus EXCEPT ![t] = "pending"]
  <2> HIDE DEF r
  <2> QED  BY <1>1, <1>2, OneStatus DEF StatusOf
<1> QED  BY <1>4, <1>5, <1>6 DEF Lifecycle!Next, Lifecycle!Submit

\* Rows that go with a song or a user.
LEMMA CascadeRefines ==
  ASSUME JobsInStep, NEW gone \in SUBSET Tasks,
         job' = [t \in Tasks |-> IF t \in gone THEN NULL ELSE job[t]],
         \A t \in Tasks : \/ task'[t] = task[t]
                          \/ task'[t].kind # "edit"
                          \/ /\ task[t].kind = "edit" /\ task[t].pc \notin Opening
                             /\ task'[t].pc \notin Opening
  PROVE  JobsInStep' /\ [Lifecycle!Next]_jobStatus
<1>1. JobsInStep'
  BY DEF JobsInStep, InStep, At
<1>2. jobStatus' = [t \in Tasks |-> IF t \in gone THEN "none" ELSE jobStatus[t]]
  BY DEF jobStatus
<1> QED  BY <1>1, <1>2 DEF Lifecycle!Next, Lifecycle!Cascade

\* Only a new edit job comes to the first steps of an edit.
KeepsOffBegin(t) ==
    \/ task'[t].kind # "edit"
    \/ task[t].kind = "edit" /\ task[t].pc \notin Opening /\ task'[t].pc \notin Opening

LEMMA OffBegin ==
  ASSUME TypeOK, NEW t \in Tasks, TaskStep(t) \/ Refused(t), ~EditBegin(t),
         ~EditMark(t)
  PROVE  KeepsOffBegin(t)
<1> USE DEF Opening
<1>0. task \in [Tasks -> TaskState]
  BY DEF TypeOK, TasksOK
<1>1. ASSUME NEW d \in BOOLEAN, Resume(t, d), task[t].pc \in Reclaiming
      PROVE  KeepsOffBegin(t)
  <2>1. CASE task[t].kind = "edit"
    <3>1. Goto(t, IF d THEN "reparent" ELSE "list")
      BY <1>1, <2>1 DEF Resume
    <3> QED  BY <1>0, <1>1, <2>1, <3>1 DEF Goto, KeepsOffBegin, Reclaiming, TaskState
  <2>2. CASE task[t].kind = "delete"
    BY <1>0, <1>1, <2>2 DEF Resume, End, Idle, Task, KeepsOffBegin
  <2>3. CASE task[t].kind \notin {"edit", "delete"}
    <3>1. task' = [task EXCEPT ![t].cur = task[t].nxt, ![t].nxt = NULL, ![t].pc = "walk"]
      BY <1>1, <2>3 DEF Resume
    <3>2. task'[t].kind = task[t].kind
      BY <1>0, <3>1 DEF TaskState
    <3> QED  BY <2>3, <3>2 DEF KeepsOffBegin
  <2> QED  BY <2>1, <2>2, <2>3
<1>2. ASSUME NEW pc \in Steps \ Opening, Goto(t, pc), task[t].pc \notin Opening
      PROVE  KeepsOffBegin(t)
  BY <1>0, <1>2 DEF Goto, KeepsOffBegin, TaskState
<1>3. CASE Reclaim(t)
  BY <1>1, <1>2, <1>3 DEF Reclaim, CountLibrary, CountChildren, DeleteRow, Unlink, Steps,
                          Reclaiming
<1>4. CASE RequestStep(t)
  BY <1>0, <1>4 DEF RequestStep, RestoreUnlist, RestoreWalk, PublishWalk,
                    PublishUpdate, At, Goto, End, Idle, Task, KeepsOffBegin, TaskState
<1>5. CASE EditStep(t)
  <2>1. CASE End(t)
    BY <1>0, <2>1 DEF End, Idle, Task, KeepsOffBegin
  <2>2. CASE EditRead(t) /\ ~End(t)
    BY <1>0, <2>2 DEF EditRead, At, KeepsOffBegin, TaskState
  <2>3. CASE EditReadRoot(t)
    BY <1>0, <2>3 DEF EditReadRoot, At, KeepsOffBegin, TaskState
  <2>4. CASE EditRender(t) /\ ~Goto(t, "fail")
    BY <1>0, <2>4 DEF EditRender, At, KeepsOffBegin, TaskState
  <2>5. CASE EditUnlist(t)
    BY <1>0, <2>5 DEF EditUnlist, At, KeepsOffBegin, TaskState
  <2>6. CASE \/ EditRender(t) /\ Goto(t, "fail")
             \/ EditInsert(t) \/ EditReparent(t) \/ EditAttach(t) \/ EditFail(t)
    BY <1>2, <2>6 DEF EditRender, EditInsert, EditReparent, EditAttach, EditFail, At, Steps,
                      Listing
  <2>7. CASE (EditFinish(t) \/ EditReport(t)) /\ ~End(t)
    BY <1>2, <2>7 DEF EditFinish, EditReport, At, Steps
  <2> QED
    BY <1>5, <2>1, <2>2, <2>3, <2>4, <2>5, <2>6, <2>7 DEF EditStep, EditFailed
<1>6. CASE List(t)
  <2>1. task[t].pc \notin Opening
    BY <1>6, ListIs DEF Listing
  <2>2. CASE Listed(t)
    BY <1>0, <1>2, <2>1, <2>2 DEF Listed, KeepsOffBegin, TaskState, Steps
  <2>3. CASE NotListed(t)
    BY <1>0, <1>2, <2>1, <2>3 DEF NotListed, End, Idle, Task, KeepsOffBegin, Steps
  <2>4. CASE Goto(t, "enlist") \/ Goto(t, "refresh")
    BY <1>2, <2>1, <2>4 DEF Steps, Listing
  <2> QED  BY <1>6, <2>2, <2>3, <2>4, ListIs
<1>7. CASE Refused(t)
  <2>1. CASE Goto(t, "fail") /\ task[t].pc \in Trying
    BY <1>2, <2>1 DEF Trying, Listing, Steps
  <2>2. CASE End(t)
    BY <1>0, <2>2 DEF End, Idle, Task, KeepsOffBegin
  <2> QED  BY <1>7, <2>1, <2>2 DEF Refused
<1> QED  BY <1>3, <1>4, <1>5, <1>6, <1>7 DEF TaskStep

LEMMA LifecycleStep ==
  ASSUME TypeOK, JobsInStep, [Next]_vars
  PROVE  JobsInStep' /\ [Lifecycle!Next]_jobStatus
<1> DEFINE Kept == JobsInStep' /\ [Lifecycle!Next]_jobStatus
<1>1. ASSUME NEW t \in Tasks, job' = job, TaskStep(t) \/ Request(t) \/ Refused(t),
             KeepsOffBegin(t)
      PROVE  Kept
  BY <1>1, InStepQuiet, OneTask DEF KeepsOffBegin, jobStatus
<1>2. ASSUME NEW t \in Tasks, TaskStep(t) PROVE Kept
  <2>1. CASE EditBegin(t) \/ EditMark(t)
    BY <2>1, BeginRefines, MarkRefines
  <2>2. CASE EditRead(t) /\ task[t].src \notin songs
    BY <2>2, EndRefines DEF EditRead, At, Maybe, Opening
  <2>3. CASE EditReport(t) /\ job[t] # NULL
    <3>1. task[t].tgt \in Maybe(Songs)
      BY DEF TypeOK, TasksOK, TaskState
    <3> QED  BY <2>3, <3>1, EndRefines DEF EditReport, At, Opening
  <2>4. CASE EditFailed(t)
    BY <2>4, EndRefines DEF EditFailed, At, Maybe, Opening
  <2>5. CASE DeleteRow(t) /\ task[t].cur \in songs
    <3> DEFINE gone == {x \in Tasks : job[x] # NULL /\ job[x].source = task[t].cur}
    <3>1. job' = [x \in Tasks |-> IF x \in gone THEN NULL ELSE job[x]]
      BY <2>5 DEF DeleteRow, DropRow
    <3>2. ~EditBegin(t) /\ ~EditMark(t)
      BY <2>5 DEF DeleteRow, EditBegin, EditMark, At
    <3>3. KeepsOffBegin(t) /\ OnlyTask(t)
      BY <1>2, <3>2, OffBegin, OneTask
    <3>4. \A x \in Tasks : \/ task'[x] = task[x]
                           \/ task'[x].kind # "edit"
                           \/ /\ task[x].kind = "edit" /\ task[x].pc \notin Opening
                              /\ task'[x].pc \notin Opening
      BY <3>3 DEF KeepsOffBegin, OnlyTask
    <3> HIDE DEF gone
    <3>5. gone \in SUBSET Tasks
      BY DEF gone
    <3> QED  BY <3>1, <3>4, <3>5, CascadeRefines
  <2>6. CASE /\ ~EditBegin(t) /\ ~EditMark(t) /\ ~EditFailed(t)
             /\ ~(EditReport(t) /\ job[t] # NULL)
             /\ ~(EditRead(t) /\ task[t].src \notin songs)
             /\ ~(DeleteRow(t) /\ task[t].cur \in songs)
    <3>1. job' = job
      <4>1. CASE EditStep(t)
        BY <2>6, <4>1 DEF EditStep, EditRead, EditReadRoot, EditRender, EditInsert,
                          EditUnlist, EditReparent, EditAttach, EditFinish, EditReport,
                          EditFail, UpdateJob
      <4>2. CASE Reclaim(t)
        BY <2>6, <4>2 DEF Reclaim, CountLibrary, CountChildren, DeleteRow, Unlink
      <4>3. CASE RequestStep(t)
        BY <4>3 DEF RequestStep, RestoreUnlist, RestoreWalk, PublishWalk,
                    PublishUpdate
      <4> QED  BY <1>2, <4>1, <4>2, <4>3, ListIs DEF TaskStep
    <3> QED  BY <1>1, <1>2, <2>6, <3>1, OffBegin
  <2> QED  BY <2>1, <2>2, <2>3, <2>4, <2>5, <2>6
<1>3. ASSUME NEW t \in Tasks, Request(t) PROVE Kept
  <2>0. task \in [Tasks -> TaskState]
    BY DEF TypeOK, TasksOK
  <2>1. ASSUME NEW u \in Users, NEW s \in Songs, CreateEditJob(t, u, s) PROVE Kept
    BY <2>1, CreateRefines
  <2>2. ASSUME NEW u \in Users, NEW s \in Songs, Publish(t, u, s) PROVE Kept
    BY <1>1, <1>3, <2>0, <2>2 DEF Publish, Task, KeepsOffBegin
  <2>3. ASSUME NEW s \in Songs, DeleteDownload(t, s) PROVE Kept
    BY <1>1, <1>3, <2>0, <2>3 DEF DeleteDownload, Task, KeepsOffBegin
  <2>4. ASSUME NEW u \in Users, NEW s \in Songs, NEW g \in Songs, Restore(t, u, s, g)
        PROVE  Kept
    BY <1>1, <1>3, <2>0, <2>4 DEF Restore, Task, KeepsOffBegin
  <2> QED  BY <1>3, <2>1, <2>2, <2>3, <2>4 DEF Request
<1>4. ASSUME job' = job, task' = task PROVE Kept
  BY <1>4 DEF JobsInStep, InStep, At, jobStatus
<1>5. ASSUME NEW u \in Users, DeleteUser(u) PROVE Kept
  <2> DEFINE gone == {x \in Tasks : job[x] # NULL /\ job[x].user = u}
  <2>1. job' = [x \in Tasks |-> IF x \in gone THEN NULL ELSE job[x]]
    BY <1>5 DEF DeleteUser
  <2>2. task' = task
    BY <1>5 DEF DeleteUser
  <2> HIDE DEF gone
  <2>3. gone \in SUBSET Tasks
    BY DEF gone
  <2> QED  BY <2>1, <2>2, <2>3, CascadeRefines
<1>6. CASE Crash
  <2>1. job' = job /\ \A x \in Tasks : task'[x].kind = "none"
    BY <1>6 DEF Crash, Idle, Task
  <2> QED  BY <2>1 DEF JobsInStep, InStep, At, jobStatus
<1>7. CASE UNCHANGED vars
  BY <1>4, <1>7 DEF vars
<1>8. ASSUME NEW u \in Users, NEW s \in Songs, AddToLibrary(u, s) \/ RemoveFromLibrary(u, s)
      PROVE  Kept
  BY <1>4, <1>8 DEF AddToLibrary, RemoveFromLibrary
<1>9. ASSUME NEW t \in Tasks, Refused(t) PROVE Kept
  <2>1. job' = job
    BY <1>9 DEF Refused
  <2>2. CASE task[t].kind = "edit" /\ task[t].pc \in Opening
    <3>1. OnlyTask(t) /\ task'[t].kind # "edit"
      BY <1>9, <2>2, OneTask DEF Refused, Trying, Listing, Opening, End, Idle, Task, TypeOK, TasksOK
    <3> QED  BY <2>1, <3>1, InStepQuiet DEF jobStatus
  <2>3. CASE ~(task[t].kind = "edit" /\ task[t].pc \in Opening)
    <3>1. ~EditBegin(t) /\ ~EditMark(t)
      BY <2>3 DEF EditBegin, EditMark, At, Opening
    <3> QED  BY <1>1, <1>9, <2>1, <3>1, OffBegin
  <2> QED  BY <2>2, <2>3
<1> QED  BY <1>2, <1>3, <1>5, <1>6, <1>7, <1>8, <1>9 DEF Next

\* What a client that polls an edit job sees: it is accepted, taken up once and
\* settled at most once, and a settled one never changes again - for any number of
\* jobs, whatever else runs, whoever is deleted and whenever the process dies.
THEOREM JobsKeepLifecycle == Spec => ImplementsLifecycle
<1>1. Init => JobsInStep /\ Lifecycle!Init
  BY DEF Init, JobsInStep, InStep, At, Idle, Task, Lifecycle!Init, jobStatus
<1>2. TypeOK /\ JobsInStep /\ [Next]_vars => JobsInStep' /\ [Lifecycle!Next]_jobStatus
  BY LifecycleStep
<1> QED
  BY <1>1, <1>2, TypeCorrect, PTL DEF Spec, ImplementsLifecycle, Lifecycle!Spec

-----------------------------------------------------------------------------
(* Lineage.  With edits, library changes, account removals, crashes and      *)
(* outages only, originals stay: the two-edit cap deletes edits, never a     *)
(* song that heads a chain.  So what an edit job read about its source stays *)
(* true across every await, however many jobs rewrite the chain meanwhile.   *)
(*                                                                           *)
(* The invariant is stated with operators of constant level, to be applied   *)
(* to the state before a step and to the state after it.                     *)

EditsOnly == Ops \cap {"restore", "publish", "delete"} = {}

RootOf(r, s) == IF r[s] = NULL THEN s ELSE r[s]

\* Rows: a song without a root heads a chain; any other names an older head as
\* its root, the one its parent names.
SoundRows(S, p, r, n) ==
    /\ \A s \in S : s < n
    /\ \A s \in S : r[s] # NULL => r[s] \in S /\ r[s] < s /\ r[r[s]] = NULL
    /\ \A s \in S : p[s] # NULL => p[s] \in S /\ p[s] < s /\ r[s] = RootOf(r, p[s])

\* Steps before the new song has a row, and steps after the source was read.
Pending == {"begin", "mark", "read", "read_root", "render", "insert"}
Informed == Steps \ {"idle", "begin", "mark", "read"}

\* Steps of the two-edit cap.
Capping == Reclaiming \cup {"reparent", "attach"}

\* Tasks: what an edit knows of its source still holds if the source is there,
\* and what the cap looks at is an edit.
SoundTask(k, S, r, n) ==
    /\ k.kind \in {"none", "edit"}
    /\ k.kind = "none" => k.pc = "idle"
    /\ k.kind = "edit" =>
          /\ k.src < k.tgt /\ k.tgt < n
          /\ k.pc \in Pending => k.tgt \notin S
          /\ k.pc \in Informed =>
                /\ k.root \in S /\ r[k.root] = NULL
                /\ k.src \in S => k.root = RootOf(r, k.src)
                /\ k.par # NULL /\ k.src \in S => r[k.src] # NULL
                /\ k.par \in S => k.par = k.root \/ r[k.par] # NULL
          /\ k.pc \in Capping =>
                k.par # NULL /\ k.par # k.root /\ k.cur = k.par

\* No two edits create the same song, and none starts from a song to come.
FreshTargets ==
    \A x, y \in Tasks :
        x # y /\ task[x].kind = "edit" /\ task[y].kind = "edit" =>
            /\ task[x].tgt # task[y].tgt
            /\ task[y].pc \in Pending => task[x].src # task[y].tgt

LineageInv ==
    /\ SoundRows(songs, parent, root, next)
    /\ \A t \in Tasks : SoundTask(task[t], songs, root, next)
    /\ FreshTargets

LEMMA NullNotSong == NULL \notin Songs
BY StoreAssumption DEF Songs

LEMMA SongsNat == Songs \subseteq Nat
BY StoreAssumption DEF Songs

-----------------------------------------------------------------------------
(* What a task knows outlives the steps of the others: they delete no song   *)
(* without a root, change no root, and add a song that is neither the task's *)
(* source nor the song it has yet to insert.                                 *)

LEMMA Bystander ==
  ASSUME NEW S, NEW S2, NEW r, NEW r2, NEW n \in Nat, NEW n2 \in Nat, n <= n2,
         NEW k \in TaskState, HasFields(k), SoundTask(k, S, r, n),
         \A s \in S : r[s] = NULL => s \in S2,
         \A s \in S \cap S2 : r2[s] = r[s],
         \A s \in S2 \ S : /\ r2[s] # NULL
                           /\ k.kind = "edit" => s # k.src /\ (k.pc \in Pending => s # k.tgt)
  PROVE  SoundTask(k, S2, r2, n2)
<1>1. CASE k.kind = "edit"
  <2>1. k.src \in Nat /\ k.tgt \in Nat
    BY <1>1, StoreAssumption DEF HasFields, Songs
  <2>2. k.src < k.tgt /\ k.tgt < n2
    BY <1>1, <2>1 DEF SoundTask
  <2>3. k.pc \in Pending => k.tgt \notin S2
    BY <1>1 DEF SoundTask
  <2>4. ASSUME k.pc \in Informed
        PROVE  /\ k.root \in S2 /\ r2[k.root] = NULL
               /\ k.src \in S2 => k.root = RootOf(r2, k.src)
               /\ k.par # NULL /\ k.src \in S2 => r2[k.src] # NULL
               /\ k.par \in S2 => k.par = k.root \/ r2[k.par] # NULL
    <3>1. /\ k.root \in S /\ r[k.root] = NULL
          /\ k.src \in S => k.root = RootOf(r, k.src)
          /\ k.par # NULL /\ k.src \in S => r[k.src] # NULL
          /\ k.par \in S => k.par = k.root \/ r[k.par] # NULL
      BY <1>1, <2>4 DEF SoundTask
    <3>2. k.src \in S2 => k.src \in S /\ r2[k.src] = r[k.src]
      BY <1>1
    <3>3. k.root \in S2 /\ r2[k.root] = NULL
      BY <3>1
    <3>4. k.par \in S2 => k.par = k.root \/ r2[k.par] # NULL
      BY <3>1
    <3> QED  BY <3>1, <3>2, <3>3, <3>4 DEF RootOf
  <2>5. k.pc \in Capping => k.par # NULL /\ k.par # k.root /\ k.cur = k.par
    BY <1>1 DEF SoundTask
  <2> QED  BY <1>1, <2>2, <2>3, <2>4, <2>5 DEF SoundTask
<1>2. CASE k.kind # "edit"
  BY <1>2 DEF SoundTask
<1> QED  BY <1>1, <1>2

\* A step of task t keeps the invariant when it keeps the rows sound, leaves t
\* itself sound and is harmless to the others.
LEMMA OneTaskStep ==
  ASSUME TypeOK, TypeOK', LineageInv, NEW t \in Tasks, OnlyTask(t),
         SoundRows(songs', parent', root', next'), next <= next',
         SoundTask(task'[t], songs', root', next'),
         \A s \in songs : root[s] = NULL => s \in songs',
         \A s \in songs \cap songs' : root'[s] = root[s],
         \A s \in songs' \ songs : /\ root'[s] # NULL
                                   /\ s = task[t].tgt
                                   /\ task[t].kind = "edit" /\ task[t].pc \in Pending,
         \/ task'[t].kind # "edit"
         \/ /\ task[t].kind = "edit" /\ task'[t].kind = "edit"
            /\ task'[t].src = task[t].src /\ task'[t].tgt = task[t].tgt
            /\ task'[t].pc \in Pending => task[t].pc \in Pending
  PROVE  LineageInv'
<1>0. /\ task \in [Tasks -> TaskState] /\ \A x \in Tasks : HasFields(task[x])
      /\ next \in Nat /\ next' \in Nat
      /\ \A x \in Tasks : SoundTask(task[x], songs, root, next)
      /\ FreshTargets
  BY StoreAssumption DEF TypeOK, TasksOK, LineageInv
<1>1. ASSUME NEW x \in Tasks PROVE SoundTask(task'[x], songs', root', next')
  <2>1. CASE x # t
    <3>1. task'[x] = task[x]
      BY <2>1 DEF OnlyTask
    <3>2. ASSUME NEW s \in songs' \ songs
          PROVE  /\ root'[s] # NULL
                 /\ task[x].kind = "edit" =>
                       s # task[x].src /\ (task[x].pc \in Pending => s # task[x].tgt)
      BY <1>0, <2>1 DEF FreshTargets
    <3>3. SoundTask(task[x], songs, root, next) /\ HasFields(task[x]) /\ task[x] \in TaskState
      BY <1>0
    <3> HIDE DEF OnlyTask
    <3> QED  BY <1>0, <3>1, <3>2, <3>3, Bystander
  <2> QED  BY <2>1
<1>2. FreshTargets'
  BY <1>0 DEF FreshTargets, OnlyTask
<1> QED  BY <1>1, <1>2 DEF LineageInv

\* The case of most steps: no row of songs changes.
LEMMA RowsUntouched ==
  ASSUME TypeOK, TypeOK', LineageInv, NEW t \in Tasks, OnlyTask(t),
         UNCHANGED rows, next' = next,
         SoundTask(task'[t], songs, root, next),
         \/ task'[t].kind # "edit"
         \/ /\ task[t].kind = "edit" /\ task'[t].kind = "edit"
            /\ task'[t].src = task[t].src /\ task'[t].tgt = task[t].tgt
            /\ task'[t].pc \in Pending => task[t].pc \in Pending
  PROVE  LineageInv'
<1>1. songs' = songs /\ parent' = parent /\ root' = root
  BY DEF rows
<1>2. SoundRows(songs', parent', root', next')
  BY <1>1 DEF LineageInv
<1>3. next \in Nat
  BY StoreAssumption DEF TypeOK
<1> QED  BY <1>1, <1>2, <1>3, OneTaskStep

-----------------------------------------------------------------------------
(* Steps of an edit that change no row.                                     *)

\* The task moves on with what it knows.
LEMMA SameKnowledge ==
  ASSUME NEW S, NEW r, NEW n, NEW k, NEW m, SoundTask(k, S, r, n),
         k.kind = "edit", m.kind = "edit", m.src = k.src, m.tgt = k.tgt,
         m.root = k.root, m.par = k.par,
         m.pc \in Pending => k.pc \in Pending,
         m.pc \in Informed => k.pc \in Informed,
         m.pc \in Capping =>
            m.par # NULL /\ m.par # m.root /\ m.cur = m.par
  PROVE  SoundTask(m, S, r, n)
BY DEF SoundTask

LEMMA EndSound ==
  ASSUME NEW S, NEW r, NEW n PROVE SoundTask(Idle, S, r, n)
BY DEF SoundTask, Idle, Task

\* An edit goes on with what it knows, or ends.
LEMMA GotoEdits ==
  ASSUME TypeOK, TypeOK', LineageInv, NEW t \in Tasks, OnlyTask(t), task[t].kind = "edit",
         UNCHANGED rows, next' = next, NEW pc, Goto(t, pc),
         pc \in Pending => task[t].pc \in Pending,
         pc \in Informed => task[t].pc \in Informed,
         pc \in Capping => task[t].pc \in Capping
  PROVE  LineageInv'
<1> DEFINE k == task[t]
           m == task'[t]
<1>0. /\ task \in [Tasks -> TaskState] /\ SoundTask(k, songs, root, next)
  BY DEF TypeOK, TasksOK, LineageInv
<1>1. /\ m.kind = "edit" /\ m.src = k.src /\ m.tgt = k.tgt
      /\ m.root = k.root /\ m.par = k.par /\ m.cur = k.cur /\ m.pc = pc
  BY <1>0 DEF Goto, TaskState
<1>2. m.pc \in Capping => m.par # NULL /\ m.par # m.root /\ m.cur = m.par
  BY <1>0, <1>1 DEF SoundTask
<1>3. SoundTask(m, songs, root, next)
  BY <1>0, <1>1, <1>2, SameKnowledge
<1> QED  BY <1>1, <1>3, RowsUntouched

LEMMA EndEdits ==
  ASSUME TypeOK, TypeOK', LineageInv, NEW t \in Tasks, OnlyTask(t), End(t),
         UNCHANGED rows, next' = next
  PROVE  LineageInv'
<1>1. task'[t] = Idle /\ task'[t].kind = "none"
  BY DEF TypeOK, TasksOK, End, Idle, Task
<1> QED  BY <1>1, EndSound, RowsUntouched DEF LineageInv

LEMMA QuietEdits ==
  ASSUME TypeOK, TypeOK', LineageInv, NEW t \in Tasks, OnlyTask(t),
         \/ EditBegin(t) \/ EditMark(t) \/ EditReadRoot(t) \/ EditRender(t) \/ EditUnlist(t)
         \/ EditReparent(t) \/ EditFinish(t) \/ EditReport(t) \/ EditFail(t) \/ EditFailed(t)
  PROVE  LineageInv'
<1> DEFINE k == task[t]
           m == task'[t]
<1> USE DEF At
<1>0. /\ task \in [Tasks -> TaskState] /\ task' \in [Tasks -> TaskState]
      /\ SoundTask(k, songs, root, next)
  BY DEF TypeOK, TasksOK, LineageInv
<1>1. /\ UNCHANGED rows /\ next' = next
      /\ k.kind = "edit"
  BY DEF EditBegin, EditMark, EditReadRoot, EditRender, EditUnlist, EditReparent, EditFinish,
     EditReport, EditFail, EditFailed
<1>2. CASE EditUnlist(t)
  <2>1. /\ m.kind = "edit" /\ m.src = k.src /\ m.tgt = k.tgt
        /\ m.root = k.root /\ m.par = k.par
    BY <1>0, <1>1, <1>2 DEF EditUnlist, TaskState
  <2>2. k.pc = "unlist" /\ m.cur = k.par
        /\ m.pc = IF k.par # NULL /\ k.par # k.root THEN "count_library" ELSE "list"
    BY <1>0, <1>2 DEF EditUnlist, TaskState
  <2>3. /\ m.pc \notin Pending /\ k.pc \in Informed
        /\ m.pc \in Capping => m.par # NULL /\ m.par # m.root /\ m.cur = m.par
    BY <2>1, <2>2 DEF Pending, Informed, Steps, Reclaiming, Capping
  <2>4. SoundTask(m, songs, root, next)
    BY <1>0, <1>1, <2>1, <2>3, SameKnowledge
  <2> QED  BY <1>1, <2>1, <2>3, <2>4, RowsUntouched
<1>3. CASE EditReadRoot(t) \/ EditRender(t)
  <2>1. /\ m.kind = "edit" /\ m.src = k.src /\ m.tgt = k.tgt
        /\ m.root = k.root /\ m.par = k.par
        /\ \/ k.pc = "read_root" /\ m.pc = "render"
           \/ k.pc = "render" /\ m.pc \in {"insert", "fail"}
    BY <1>0, <1>1, <1>3 DEF EditReadRoot, EditRender, Goto, TaskState
  <2>2. /\ m.pc \in Pending => k.pc \in Pending
        /\ m.pc \in Informed => k.pc \in Informed
        /\ m.pc \notin Capping
    BY <2>1 DEF Pending, Informed, Steps, Reclaiming, Capping
  <2>3. SoundTask(m, songs, root, next)
    BY <1>0, <1>1, <2>1, <2>2, SameKnowledge
  <2> QED  BY <1>1, <2>1, <2>2, <2>3, RowsUntouched
<1>4. ASSUME NEW pc, Goto(t, pc),
             \/ k.pc = "begin" /\ pc \in {"mark", "read"}
             \/ k.pc = "mark" /\ pc = "read"
             \/ k.pc = "reparent" /\ pc \in {"list", "attach"}
             \/ k.pc = "finish" /\ pc = "report"
             \/ k.pc = "report" /\ pc = "fail"
             \/ k.pc = "fail" /\ pc = "failed"
      PROVE  LineageInv'
  <2>1. /\ pc \in Pending => k.pc \in Pending
        /\ pc \in Informed => k.pc \in Informed
        /\ pc \in Capping => k.pc \in Capping
    BY <1>4 DEF Pending, Informed, Steps, Reclaiming, Capping
  <2> QED  BY <1>1, <1>4, <2>1, GotoEdits
<1>5. CASE End(t)
  BY <1>1, <1>5, EndEdits
<1> QED  BY <1>2, <1>3, <1>4, <1>5 DEF EditBegin, EditMark, EditReparent, EditFinish, EditReport,
                                        EditFail, EditFailed

LEMMA ListEdits ==
  ASSUME TypeOK, TypeOK', LineageInv, NEW t \in Tasks, OnlyTask(t), List(t)
  PROVE  LineageInv'
<1>1. task[t].kind = "edit" /\ task[t].pc \in Listing /\ UNCHANGED rows /\ next' = next
  BY ListIs DEF LineageInv, SoundTask
<1>2. PICK pc \in {"finish", "fail", "enlist", "refresh"} : Goto(t, pc)
  BY <1>1, ListIs DEF Listed, NotListed
<1>3. /\ pc \notin Pending /\ pc \notin Capping /\ task[t].pc \in Informed
  BY <1>1, <1>2 DEF Pending, Capping, Reclaiming, Informed, Listing, Steps
<1> QED  BY <1>1, <1>2, <1>3, GotoEdits

LEMMA RefusedEdits ==
  ASSUME TypeOK, TypeOK', LineageInv, NEW t \in Tasks, OnlyTask(t), Refused(t)
  PROVE  LineageInv'
<1>1. UNCHANGED rows /\ next' = next
  BY DEF Refused
<1>2. CASE End(t)
  BY <1>1, <1>2, EndEdits
<1>3. CASE ~End(t)
  <2>1. task[t].kind = "edit" /\ task[t].pc \in Trying /\ Goto(t, "fail")
    BY <1>3 DEF Refused
  <2>2. task[t].pc \in Informed /\ "fail" \notin Pending /\ "fail" \notin Capping
    BY <2>1 DEF Trying, Listing, Pending, Capping, Reclaiming, Informed, Steps
  <2> QED  BY <1>1, <2>1, <2>2, GotoEdits
<1> QED  BY <1>2, <1>3

\* Reading the source: the rows are sound, so what the task now knows is.
LEMMA ReadEdits ==
  ASSUME TypeOK, TypeOK', LineageInv, NEW t \in Tasks, OnlyTask(t), EditRead(t)
  PROVE  LineageInv'
<1> DEFINE k == task[t]
           m == task'[t]
           s == task[t].src
           R == RootOf(root, s)
<1> USE DEF At
<1>0. /\ task \in [Tasks -> TaskState] /\ task' \in [Tasks -> TaskState]
      /\ SoundTask(k, songs, root, next)
      /\ SoundRows(songs, parent, root, next)
      /\ UNCHANGED rows /\ next' = next
      /\ k.kind = "edit" /\ k.pc = "read"
  BY DEF TypeOK, TasksOK, LineageInv, EditRead
<1>1. CASE s \in songs
  <2>1. /\ m.kind = "edit" /\ m.src = k.src /\ m.tgt = k.tgt
        /\ m.root = R /\ m.par = parent[s] /\ m.pc \in {"render", "read_root"}
    BY <1>0, <1>1 DEF EditRead, TaskState, RootOf
  <2>2. root \in [Songs -> Maybe(Songs)] /\ s \in Songs /\ NULL \notin Songs
    <3>1. RowsOK
      BY DEF TypeOK
    <3> QED  BY <1>1, <3>1, NullNotSong DEF RowsOK
  <2>3. R \in songs /\ root[R] = NULL
    BY <1>0, <1>1, <2>2 DEF SoundRows, RootOf
  <2>4. parent[s] # NULL => root[s] # NULL
    BY <1>0, <1>1, <2>2, StoreAssumption DEF SoundRows, RootOf, Songs, TypeOK, RowsOK
  <2>5. parent[s] \in songs => parent[s] = R \/ root[parent[s]] # NULL
    BY <1>0, <1>1, <2>2, StoreAssumption DEF SoundRows, RootOf, Songs, TypeOK, RowsOK
  <2>6. k.src < k.tgt /\ k.tgt < next /\ k.tgt \notin songs
    BY <1>0 DEF SoundTask, Pending
  <2>7. SoundTask(m, songs, root, next)
    BY <2>1, <2>3, <2>4, <2>5, <2>6 DEF SoundTask, Reclaiming, Capping
  <2>8. k.pc \in Pending
    BY <1>0 DEF Pending
  <2> QED  BY <1>0, <2>1, <2>7, <2>8, RowsUntouched
<1>2. CASE s \notin songs
  <2>1. m = Idle /\ m.kind = "none"
    BY <1>0, <1>2 DEF EditRead, End, Idle, Task
  <2> QED  BY <1>0, <2>1, EndSound, RowsUntouched
<1> QED  BY <1>1, <1>2

-----------------------------------------------------------------------------
(* Steps that change rows.                                                  *)

LEMMA InsertEdits ==
  ASSUME TypeOK, TypeOK', LineageInv, NEW t \in Tasks, OnlyTask(t), EditInsert(t)
  PROVE  LineageInv'
<1> DEFINE k == task[t]
           m == task'[t]
<1> USE DEF At
<1>0. /\ task \in [Tasks -> TaskState] /\ task' \in [Tasks -> TaskState]
      /\ SoundTask(k, songs, root, next)
      /\ SoundRows(songs, parent, root, next)
      /\ next' = next /\ next \in Nat
      /\ k.kind = "edit" /\ k.pc = "insert"
      /\ k.src \in Songs /\ k.tgt \in Songs
      /\ RowsOK
  BY StoreAssumption DEF TypeOK, TasksOK, LineageInv, EditInsert, HasFields
<1>1. /\ k.src < k.tgt /\ k.tgt < next /\ k.tgt \notin songs
      /\ k.root \in songs /\ root[k.root] = NULL
      /\ k.src \in songs => k.root = RootOf(root, k.src)
      /\ k.par # NULL /\ k.src \in songs => root[k.src] # NULL
      /\ k.par \in songs => k.par = k.root \/ root[k.par] # NULL
  BY <1>0 DEF SoundTask, Pending, Informed, Steps
<1>2. k.pc \in Pending
  BY <1>0 DEF Pending
<1>3. CASE k.src \in songs
  <2>1. /\ songs' = songs \cup {k.tgt}
        /\ parent' = [parent EXCEPT ![k.tgt] = k.src]
        /\ root' = [root EXCEPT ![k.tgt] = k.root]
    BY <1>1, <1>3 DEF EditInsert
  <2>2. /\ m.kind = "edit" /\ m.src = k.src /\ m.tgt = k.tgt
        /\ m.root = k.root /\ m.par = k.par /\ m.pc = "unlist"
    BY <1>0, <1>1, <1>3 DEF EditInsert, Goto, TaskState
  <2>3. /\ parent'[k.tgt] = k.src /\ root'[k.tgt] = k.root
        /\ \A s \in songs : parent'[s] = parent[s] /\ root'[s] = root[s]
    <3>1. /\ DOMAIN parent = Songs /\ DOMAIN root = Songs
          /\ songs \subseteq Songs /\ k.tgt \in Songs /\ k.tgt \notin songs
      BY <1>0, <1>1 DEF RowsOK
    <3> HIDE DEF k
    <3> QED  BY <2>1, <3>1
  <2>4. k.root # NULL /\ k.root < k.tgt
    <3>1. k.root \in Songs /\ k.root # NULL
      BY <1>0, <1>1, NullNotSong DEF RowsOK
    <3>2. k.root = k.src \/ k.root < k.src
      BY <1>0, <1>1, <1>3 DEF RootOf, SoundRows
    <3>3. k.root \in Nat /\ k.src \in Nat /\ k.tgt \in Nat
      BY <1>0, <3>1, StoreAssumption DEF Songs
    <3> QED  BY <1>1, <3>1, <3>2, <3>3
  <2>5. SoundRows(songs', parent', root', next')
    <3>1. \A s \in songs' : s < next'
      BY <1>0, <1>1, <2>1 DEF SoundRows
    <3>2. ASSUME NEW s \in songs', root'[s] # NULL
          PROVE  root'[s] \in songs' /\ root'[s] < s /\ root'[root'[s]] = NULL
      <4>1. CASE s = k.tgt
        BY <1>1, <2>1, <2>3, <2>4, <4>1
      <4>2. CASE s \in songs
        BY <1>0, <2>1, <2>3, <3>2, <4>2 DEF SoundRows
      <4> QED  BY <2>1, <4>1, <4>2
    <3>3. ASSUME NEW s \in songs', parent'[s] # NULL
          PROVE  /\ parent'[s] \in songs' /\ parent'[s] < s
                 /\ root'[s] = RootOf(root', parent'[s])
      <4>1. CASE s = k.tgt
        BY <1>1, <1>3, <2>1, <2>3, <4>1 DEF RootOf
      <4>2. CASE s \in songs
        BY <1>0, <2>1, <2>3, <3>3, <4>2 DEF SoundRows, RootOf
      <4> QED  BY <2>1, <4>1, <4>2
    <3> QED  BY <3>1, <3>2, <3>3 DEF SoundRows
  <2>6. SoundTask(m, songs', root', next')
    <3>1. k.root \in songs' /\ root'[k.root] = NULL
      BY <1>1, <2>1, <2>3
    <3>2. k.src \in songs' => k.root = RootOf(root', k.src)
      BY <1>1, <1>3, <2>3 DEF RootOf
    <3>3. k.par # NULL /\ k.src \in songs' => root'[k.src] # NULL
      BY <1>1, <1>3, <2>3
    <3>4. k.par \in songs' => k.par = k.root \/ root'[k.par] # NULL
      BY <1>1, <2>1, <2>3, <2>4
    <3> QED  BY <1>0, <1>1, <2>2, <3>1, <3>2, <3>3, <3>4
             DEF SoundTask, Pending, Reclaiming, Capping
  <2>7. \A s \in songs' \ songs : root'[s] # NULL /\ s = k.tgt
    BY <2>1, <2>3, <2>4
  <2>8. m.pc \notin Pending
    BY <2>2 DEF Pending
  <2> HIDE DEF k, m
  <2>9. /\ \A s \in songs : root[s] = NULL => s \in songs'
        /\ \A s \in songs \cap songs' : root'[s] = root[s]
        /\ next <= next'
    BY <1>0, <2>1, <2>3
  <2> QED  BY <1>0, <1>2, <2>2, <2>5, <2>6, <2>7, <2>8, <2>9, OneTaskStep DEF k, m
<1>4. CASE k.src \notin songs
  <2>1. UNCHANGED rows /\ Goto(t, "fail")
    BY <1>4 DEF EditInsert
  <2>2. "fail" \notin Pending /\ k.pc \in Informed /\ "fail" \notin Capping
    BY <1>0 DEF Pending, Informed, Steps, Reclaiming, Capping
  <2> QED  BY <1>0, <2>1, <2>2, GotoEdits
<1> QED  BY <1>3, <1>4

LEMMA AttachEdits ==
  ASSUME TypeOK, TypeOK', LineageInv, NEW t \in Tasks, OnlyTask(t), EditAttach(t)
  PROVE  LineageInv'
<1> DEFINE k == task[t]
           m == task'[t]
<1> USE DEF At
<1>0. /\ task \in [Tasks -> TaskState] /\ task' \in [Tasks -> TaskState]
      /\ SoundTask(k, songs, root, next)
      /\ SoundRows(songs, parent, root, next)
      /\ songs' = songs /\ root' = root /\ next' = next /\ next \in Nat
      /\ k.kind = "edit" /\ k.pc = "attach"
      /\ RowsOK
  BY StoreAssumption DEF TypeOK, TasksOK, LineageInv, EditAttach
<1>1. /\ k.root \in songs /\ root[k.root] = NULL
      /\ k.src \in songs => k.root = RootOf(root, k.src)
      /\ k.par # NULL /\ k.src \in songs => root[k.src] # NULL
      /\ k.par # NULL
  BY <1>0 DEF SoundTask, Informed, Steps, Capping
<1>2. /\ m.kind = "edit" /\ m.src = k.src /\ m.tgt = k.tgt
      /\ m.root = k.root /\ m.par = k.par /\ m.pc \in {"list", "fail"}
  BY <1>0, <1>1 DEF EditAttach, Goto, TaskState
<1>3. m.pc \notin Pending /\ k.pc \in Informed /\ m.pc \notin Capping
  BY <1>0, <1>2 DEF Pending, Informed, Steps, Reclaiming, Capping
<1>4. SoundTask(m, songs', root', next')
  BY <1>0, <1>2, <1>3, SameKnowledge
<1>5. SoundRows(songs', parent', root', next')
  <2>1. CASE k.src \notin songs
    BY <1>0, <2>1 DEF EditAttach
  <2>2. CASE k.src \in songs
    <3>1. parent' = [parent EXCEPT ![k.src] = k.root]
      BY <1>1, <2>2 DEF EditAttach
    <3>2. k.root < k.src /\ root[k.src] = k.root
      BY <1>0, <1>1, <2>2 DEF SoundRows, RootOf
    <3> QED  BY <1>0, <1>1, <3>1, <3>2 DEF SoundRows, RootOf, RowsOK
  <2> QED  BY <2>1, <2>2
<1> QED  BY <1>0, <1>2, <1>3, <1>4, <1>5, OneTaskStep

\* The song the cap looks at, if it is still there, is an edit.
LEMMA CapTarget ==
  ASSUME TypeOK, LineageInv, NEW t \in Tasks, task[t].pc \in Reclaiming
  PROVE  /\ task[t].kind = "edit" /\ task[t].cur = task[t].par
         /\ task[t].par # NULL /\ task[t].par # task[t].root
         /\ task[t].cur \in songs => root[task[t].cur] # NULL
BY DEF LineageInv, SoundTask, Capping, Reclaiming, Informed, Steps

LEMMA ReclaimQuiet ==
  ASSUME TypeOK, TypeOK', LineageInv, NEW t \in Tasks, OnlyTask(t),
         task[t].pc \in Reclaiming, UNCHANGED rows, next' = next,
         \/ Goto(t, "count_children") \/ Goto(t, "delete_row") \/ Goto(t, "unlink")
         \/ Resume(t, TRUE) \/ Resume(t, FALSE)
  PROVE  LineageInv'
<1>1. task[t].kind = "edit"
  BY CapTarget
<1>2. PICK pc \in {"count_children", "delete_row", "unlink", "reparent", "list"} : Goto(t, pc)
  BY <1>1 DEF Resume
<1>3. pc \notin Pending /\ task[t].pc \in Informed /\ task[t].pc \in Capping
  BY <1>2 DEF Pending, Informed, Steps, Reclaiming, Capping
<1> QED  BY <1>1, <1>2, <1>3, GotoEdits

\* The cap deletes an edit: no song has it as its root, and those it is the
\* parent of lose that parent.
LEMMA CapDeletes ==
  ASSUME TypeOK, TypeOK', LineageInv, NEW t \in Tasks, OnlyTask(t), DeleteRow(t),
         task[t].cur \in songs
  PROVE  LineageInv'
<1> DEFINE k == task[t]
           m == task'[t]
           d == task[t].cur
<1>0. /\ task \in [Tasks -> TaskState]
      /\ SoundTask(k, songs, root, next)
      /\ SoundRows(songs, parent, root, next)
      /\ next' = next /\ next \in Nat
      /\ k.pc = "delete_row" /\ k.pc \in Reclaiming
      /\ RowsOK
  BY StoreAssumption DEF TypeOK, TasksOK, LineageInv, DeleteRow, Reclaiming
<1>1. k.kind = "edit" /\ k.cur = k.par /\ k.par # NULL /\ k.par # k.root /\ root[d] # NULL
  BY <1>0, CapTarget
<1>2. /\ songs' = songs \ {d}
      /\ parent' = [x \in Songs |-> IF d \in {x, parent[x]} THEN NULL ELSE parent[x]]
      /\ root' = [x \in Songs |-> IF d \in {x, root[x]} THEN NULL ELSE root[x]]
      /\ Goto(t, "unlink")
  BY DEF DeleteRow, DropRow
<1>3. /\ m.kind = "edit" /\ m.src = k.src /\ m.tgt = k.tgt
      /\ m.root = k.root /\ m.par = k.par /\ m.cur = k.cur /\ m.pc = "unlink"
  BY <1>0, <1>1, <1>2 DEF Goto, TaskState
<1>4. m.pc \notin Pending /\ k.pc \in Informed /\ m.pc \in Reclaiming
  BY <1>0, <1>3 DEF Pending, Informed, Steps, Reclaiming, Capping
<1>5. /\ \A s \in songs : root[s] = NULL => s \in songs'
      /\ \A s \in songs \cap songs' : root'[s] = root[s]
  <2>1. \A s \in songs : root[s] # d
    BY <1>0, <1>1, NullNotSong DEF SoundRows, RowsOK
  <2>2. songs \subseteq Songs
    BY <1>0 DEF RowsOK
  <2> HIDE DEF d
  <2> QED  BY <1>1, <1>2, <2>1, <2>2
<1>6. /\ \A s \in songs' : parent'[s] # NULL => parent'[s] = parent[s] /\ parent[s] \in songs'
      /\ songs' \subseteq songs
  <2>1. \A s \in songs : parent[s] # NULL => parent[s] \in songs
    BY <1>0 DEF SoundRows
  <2>2. songs \subseteq Songs
    BY <1>0 DEF RowsOK
  <2> HIDE DEF d
  <2> QED  BY <1>2, <2>1, <2>2
<1>7. SoundRows(songs', parent', root', next')
  <2>1. \A s \in songs' : s < next'
    BY <1>0, <1>6 DEF SoundRows
  <2>2. ASSUME NEW s \in songs', root'[s] # NULL
        PROVE  root'[s] \in songs' /\ root'[s] < s /\ root'[root'[s]] = NULL
    <3>1. root'[s] = root[s] /\ root[s] \in songs /\ root[s] < s /\ root[root[s]] = NULL
      BY <1>0, <1>5, <1>6, <2>2 DEF SoundRows
    <3> QED  BY <1>5, <3>1
  <2>3. ASSUME NEW s \in songs', parent'[s] # NULL
        PROVE  /\ parent'[s] \in songs' /\ parent'[s] < s
               /\ root'[s] = RootOf(root', parent'[s])
    <3>1. /\ parent'[s] = parent[s] /\ parent[s] \in songs' /\ parent[s] < s
          /\ root[s] = RootOf(root, parent[s])
      BY <1>0, <1>6, <2>3 DEF SoundRows
    <3> QED  BY <1>5, <1>6, <3>1 DEF RootOf
  <2> QED  BY <2>1, <2>2, <2>3 DEF SoundRows
<1>8. SoundTask(m, songs', root', next')
  <2>1. SoundTask(m, songs, root, next)
    BY <1>0, <1>1, <1>3, <1>4, SameKnowledge
  <2>2. m \in TaskState /\ HasFields(m)
    BY DEF TypeOK, TasksOK
  <2>3. \A s \in songs' \ songs : FALSE
    BY <1>6
  <2>4. next <= next'
    BY <1>0
  <2> HIDE DEF m
  <2> QED  BY <1>0, <1>5, <2>1, <2>2, <2>3, <2>4, Bystander
<1>9. next <= next' /\ \A s \in songs' \ songs : FALSE
  BY <1>0, <1>6
<1> HIDE DEF d
<1> QED  BY <1>1, <1>3, <1>4, <1>5, <1>7, <1>8, <1>9, OneTaskStep

LEMMA ReclaimEdits ==
  ASSUME TypeOK, TypeOK', LineageInv, NEW t \in Tasks, OnlyTask(t), Reclaim(t)
  PROVE  LineageInv'
<1>1. CASE CountLibrary(t) \/ CountChildren(t) \/ Unlink(t)
  <2>1. task[t].pc \in Reclaiming /\ UNCHANGED rows /\ next' = next
    BY <1>1 DEF CountLibrary, CountChildren, Unlink, Reclaiming
  <2> QED  BY <1>1, <2>1, ReclaimQuiet DEF CountLibrary, CountChildren, Unlink
<1>2. CASE DeleteRow(t)
  <2>1. CASE task[t].cur \in songs
    BY <1>2, <2>1, CapDeletes
  <2>2. CASE task[t].cur \notin songs
    <3>1. task[t].pc \in Reclaiming /\ UNCHANGED rows /\ next' = next /\ Resume(t, TRUE)
      BY <1>2, <2>2 DEF DeleteRow, Reclaiming
    <3> QED  BY <3>1, ReclaimQuiet
  <2> QED  BY <2>1, <2>2
<1> QED  BY <1>1, <1>2 DEF Reclaim

-----------------------------------------------------------------------------
(* Requests, the other actions, and the theorems.                           *)

\* A new edit creates a song no other task knows of.
LEMMA CreateEdits ==
  ASSUME TypeOK, TypeOK', LineageInv, NEW t \in Tasks,
         NEW u \in Users, NEW s \in Songs, CreateEditJob(t, u, s)
  PROVE  LineageInv'
<1> DEFINE m == Task("edit", "begin", u, s, next)
<1>0. /\ task \in [Tasks -> TaskState] /\ \A x \in Tasks : HasFields(task[x])
      /\ \A x \in Tasks : SoundTask(task[x], songs, root, next)
      /\ SoundRows(songs, parent, root, next) /\ FreshTargets
      /\ songs' = songs /\ parent' = parent /\ root' = root
      /\ next' = next + 1 /\ next \in Nat /\ next' \in Nat
      /\ task' = [task EXCEPT ![t] = m]
      /\ s \in songs /\ songs \subseteq Songs /\ Songs \subseteq Nat
  BY StoreAssumption DEF TypeOK, TasksOK, RowsOK, LineageInv, CreateEditJob, rows, Songs
<1>1. m.kind = "edit" /\ m.pc = "begin" /\ m.src = s /\ m.tgt = next
  BY DEF Task
<1>2. s < next /\ next \notin songs /\ \A x \in songs : x < next + 1
  BY <1>0 DEF SoundRows
<1> HIDE DEF m
<1>3. SoundRows(songs', parent', root', next')
  <2>1. \A x \in songs' : x < next'
    BY <1>0, <1>2
  <2> QED  BY <1>0, <2>1 DEF SoundRows
<1>4. ASSUME NEW x \in Tasks PROVE SoundTask(task'[x], songs', root', next')
  <2>1. CASE x = t
    <3>1. SoundTask(m, songs', root', next')
      BY <1>0, <1>1, <1>2 DEF SoundTask, Informed, Reclaiming, Capping
    <3> QED  BY <1>0, <2>1, <3>1
  <2>2. CASE x # t
    <3>1. task'[x] = task[x]
      BY <1>0, <2>2
    <3>2. next <= next'
      BY <1>0
    <3> QED  BY <1>0, <3>1, <3>2, Bystander
  <2> QED  BY <2>1, <2>2
<1>5. FreshTargets'
  <2> SUFFICES ASSUME NEW x \in Tasks, NEW y \in Tasks, x # y,
                      task'[x].kind = "edit", task'[y].kind = "edit"
               PROVE  /\ task'[x].tgt # task'[y].tgt
                      /\ task'[y].pc \in Pending => task'[x].src # task'[y].tgt
    BY DEF FreshTargets
  <2>1. \A z \in Tasks : task[z].kind = "edit" =>
           /\ task[z].src \in Nat /\ task[z].tgt \in Nat
           /\ task[z].src < task[z].tgt /\ task[z].tgt < next
           /\ task[z].pc \in Pending => task[z].tgt \notin songs
    BY <1>0 DEF SoundTask, HasFields
  <2>2. CASE x = t
    <3>1. task'[x] = m /\ task'[y] = task[y]
      BY <1>0, <2>2
    <3> QED  BY <1>0, <1>1, <2>1, <3>1
  <2>3. CASE y = t
    <3>1. task'[y] = m /\ task'[x] = task[x]
      BY <1>0, <2>3
    <3> QED  BY <1>0, <1>1, <2>1, <3>1
  <2>4. CASE x # t /\ y # t
    BY <1>0, <2>4 DEF FreshTargets
  <2> QED  BY <2>2, <2>3, <2>4
<1> QED  BY <1>3, <1>4, <1>5 DEF LineageInv

LEMMA LineageInit == Init => LineageInv
<1> SUFFICES ASSUME Init PROVE LineageInv
  OBVIOUS
<1>1. songs \subseteq Songs /\ \A s \in Songs : parent[s] = NULL /\ root[s] = NULL
  BY StoreAssumption DEF Init, Songs
<1>2. SoundRows(songs, parent, root, next)
  BY <1>1, StoreAssumption DEF Init, SoundRows
<1>3. \A t \in Tasks : task[t] = Idle /\ task[t].kind = "none"
  BY DEF Init, Idle, Task
<1> QED  BY <1>2, <1>3, EndSound DEF LineageInv, FreshTargets

LEMMA LineageStep ==
  ASSUME EditsOnly, TypeOK, LineageInv, [Next]_vars
  PROVE  LineageInv'
<1>0. TypeOK'
  BY TypeStep
<1>1. CASE UNCHANGED vars
  BY <1>1 DEF vars, LineageInv, FreshTargets
<1>2. ASSUME NEW t \in Tasks, TaskStep(t) PROVE LineageInv'
  <2>0. OnlyTask(t)
    BY <1>2, OneTask
  <2>1. CASE EditStep(t)
    BY <1>0, <2>0, <2>1, QuietEdits, ReadEdits, InsertEdits, AttachEdits DEF EditStep
  <2>2. CASE Reclaim(t)
    BY <1>0, <2>0, <2>2, ReclaimEdits
  <2>3. ~RequestStep(t)
    BY DEF RequestStep, RestoreUnlist, RestoreWalk, PublishWalk, PublishUpdate, At,
           LineageInv, SoundTask
  <2>4. CASE List(t)
    BY <1>0, <2>0, <2>4, ListEdits
  <2> QED  BY <1>2, <2>1, <2>2, <2>3, <2>4 DEF TaskStep
<1>3. ASSUME NEW t \in Tasks, Request(t) PROVE LineageInv'
  <2>1. PICK u \in Users, s \in Songs : CreateEditJob(t, u, s)
    BY <1>3 DEF Request, Publish, Restore, DeleteDownload, EditsOnly
  <2> QED  BY <1>0, <2>1, CreateEdits
<1>4. CASE \/ \E u \in Users, s \in Songs : AddToLibrary(u, s) \/ RemoveFromLibrary(u, s)
           \/ \E u \in Users : DeleteUser(u)
  BY <1>4 DEF AddToLibrary, RemoveFromLibrary, DeleteUser, rows, LineageInv, FreshTargets
<1>5. CASE Crash
  <2>1. /\ UNCHANGED <<rows, next>>
        /\ \A t \in Tasks : task'[t] = Idle /\ task'[t].kind = "none"
    BY <1>5 DEF Crash, Idle, Task
  <2>2. \A t \in Tasks : SoundTask(task'[t], songs', root', next')
    BY <2>1, EndSound
  <2>3. SoundRows(songs', parent', root', next')
    BY <2>1 DEF rows, LineageInv
  <2> QED  BY <2>1, <2>2, <2>3 DEF LineageInv, FreshTargets
<1>6. ASSUME NEW t \in Tasks, Refused(t) PROVE LineageInv'
  BY <1>0, <1>6, OneTask, RefusedEdits
<1> QED  BY <1>1, <1>2, <1>3, <1>4, <1>5, <1>6 DEF Next

\* The invariant implies that lineages are sound.
LEMMA LineageInvSound == TypeOK /\ LineageInv => LineageSound
<1> SUFFICES ASSUME TypeOK, LineageInv, NEW s \in songs, parent[s] # NULL
             PROVE  parent[s] < s /\ root[s] # NULL /\ root[s] <= parent[s]
  BY DEF LineageSound
<1>1. /\ parent[s] \in songs /\ parent[s] < s /\ root[s] = RootOf(root, parent[s])
      /\ \A x \in songs : root[x] # NULL => root[x] \in songs /\ root[x] < x
  BY DEF LineageInv, SoundRows
<1>2. songs \subseteq Nat /\ NULL \notin songs
  <2>1. RowsOK
    BY DEF TypeOK
  <2>2. songs \subseteq Songs
    BY <2>1 DEF RowsOK
  <2>3. Songs \subseteq Nat
    BY StoreAssumption DEF Songs
  <2> QED  BY <2>2, <2>3, NullNotSong
<1> DEFINE p == parent[s]
<1>3. p \in songs /\ p \in Nat /\ p < s
  BY <1>1, <1>2
<1>4. root[s] = p \/ (root[s] \in songs /\ root[s] < p)
  BY <1>1 DEF RootOf
<1> HIDE DEF p
<1>5. root[s] \in songs
  BY <1>3, <1>4
<1>6. root[s] \in Nat /\ root[s] # NULL
  BY <1>2, <1>5
<1>7. root[s] <= p
  BY <1>3, <1>4, <1>6
<1> QED  BY <1>3, <1>6, <1>7 DEF p

\* Any number of edit jobs on the same chains, interleaved at every await, with
\* libraries and accounts changing, statements refused by the database and the
\* process dying at any moment: an edit always knows the original it goes back to,
\* and its lineage leads to older songs.
THEOREM LineageIsSound ==
  ASSUME EditsOnly
  PROVE  Spec => []LineageSound
<1>1. TypeOK /\ LineageInv /\ [Next]_vars => LineageInv'
  BY LineageStep
<1>2. Init => LineageInv
  BY LineageInit
<1>3. TypeOK /\ LineageInv => LineageSound
  BY LineageInvSound
<1> QED  BY <1>1, <1>2, <1>3, TypeCorrect, PTL DEF Spec

LEMMA SparesOriginals ==
  ASSUME EditsOnly, TypeOK, LineageInv, [Next]_vars, NEW s \in songs \ songs'
  PROVE  root[s] # NULL
<1>1. PICK t \in Tasks : TaskStep(t) \/ Request(t)
  BY DEF Next, AddToLibrary, RemoveFromLibrary, DeleteUser, Crash, Refused, rows, vars
<1>2. EditStep(t) => songs \subseteq songs'
  BY DEF EditStep, EditBegin, EditMark, EditRead, EditReadRoot, EditRender, EditInsert,
         EditUnlist, EditReparent, EditAttach, EditFinish, EditReport, EditFail, EditFailed, rows
<1>3. RequestStep(t) \/ List(t) => songs \subseteq songs'
  BY DEF RequestStep, RestoreUnlist, RestoreWalk, PublishWalk, PublishUpdate, List, ListSelect,
         ListInsert, ListRefresh, rows
<1>4. Request(t) => songs \subseteq songs'
  BY DEF Request, CreateEditJob, Publish, DeleteDownload, Restore, rows
<1>5. DeleteRow(t) /\ s = task[t].cur
  BY <1>1, <1>2, <1>3, <1>4
     DEF TaskStep, Reclaim, CountLibrary, CountChildren, DeleteRow, DropRow, Unlink, rows
<1>6. task[t].pc \in Reclaiming
  BY <1>5 DEF DeleteRow, Reclaiming
<1> QED  BY <1>5, <1>6, CapTarget

\* Under the same assumption no clean-up deletes an original, whatever the jobs
\* in flight know of the chain: the song the two-edit cap reclaims is an edit.
THEOREM OriginalsStay ==
  ASSUME EditsOnly
  PROVE  Spec => CleanupSparesOriginals
<1>1. TypeOK /\ LineageInv /\ [Next]_vars => LineageInv'
  BY LineageStep
<1>2. Init => LineageInv
  BY LineageInit
<1>3. TypeOK /\ LineageInv /\ [Next]_vars =>
        [\A s \in songs \ songs' :
            parent[s] = NULL /\ root[s] = NULL =>
               \E t \in Tasks : At(t, "delete", "delete_row") /\ task[t].cur = s]_vars
  BY SparesOriginals
<1> QED  BY <1>1, <1>2, <1>3, TypeCorrect, PTL DEF Spec, CleanupSparesOriginals

-----------------------------------------------------------------------------
(* Files under overlap.  A committed song loses its file only in the except  *)
(* branch of the edit that made it, and an edit that took that branch is     *)
(* never reported done.  The invariant says what each task knows of the file *)
(* it is to insert, to report or to remove, and keeps apart the songs that   *)
(* two tasks, or a task and a job's row, speak of.                           *)

\* Steps of an edit at which the new song may have a row and no file.
Failing == {"fail", "failed"}

\* What a task knows of songs, files and the uuids drawn.
KnowsFile(k, S, F, n) ==
    /\ k.kind = "edit" =>
          /\ k.tgt > Roots
          /\ k.pc = "insert" => k.tgt \in F
          /\ k.pc \notin Pending \cup Failing => k.tgt \notin S \/ k.tgt \in F
    /\ k.pc = "unlink" => k.cur < n /\ k.cur \notin S

\* No clean-up is about to remove a file another edit has yet to insert.
UnlinksApart ==
    \A x, y \in Tasks :
        task[x].pc = "unlink" /\ task[y].kind = "edit" /\ task[y].pc \in Pending =>
            task[x].cur # task[y].tgt

\* No job was reported done with the song of an edit in flight, or of one to come.
ResultsApart ==
    \A x \in Tasks : job[x] # NULL =>
        /\ job[x].result # NULL => job[x].result < next
        /\ \A y \in Tasks : task[y].kind = "edit" => job[x].result # task[y].tgt

FilesKnown ==
    /\ OnlyFailedEditsLackFiles
    /\ next > Roots
    /\ \A t \in Tasks : KnowsFile(task[t], songs, files, next)
    /\ UnlinksApart
    /\ ResultsApart

\* update_edit_job changes the result of one row, to what it is given.
LEMMA UpdateResult ==
  ASSUME JobsOK, NEW t \in Tasks, NEW status, NEW result, UpdateJob(t, status, result)
  PROVE  \A x \in Tasks : job'[x] # NULL =>
            /\ job[x] # NULL
            /\ \/ job'[x].result = job[x].result
               \/ x = t /\ result # NULL /\ job'[x].result = result
<1>1. CASE job[t] = NULL
  BY <1>1 DEF UpdateJob
<1>2. CASE job[t] # NULL
  <2> DEFINE r == IF result = NULL THEN job[t].result ELSE result
             n == [job[t] EXCEPT !.status = status, !.result = r]
  <2>1. job \in [Tasks -> Maybe(JobRow)] /\ job[t] \in JobRow
    BY <1>2 DEF JobsOK, Maybe
  <2>2. job' = [job EXCEPT ![t] = n]
    BY <1>2, <2>1 DEF UpdateJob
  <2>3. n.result = r
    BY <2>1 DEF JobRow
  <2> HIDE DEF n
  <2>4. job'[t] = n /\ \A x \in Tasks \ {t} : job'[x] = job[x]
    BY <2>1, <2>2
  <2> QED  BY <1>2, <2>3, <2>4
<1> QED  BY <1>1, <1>2

\* A step of task t that inserts no song but its own, takes no file but its own,
\* reports no song but its own, and leaves t with the knowledge it needs, keeps
\* the invariant.
LEMMA KnownOneTask ==
  ASSUME TypeOK, LineageInv, FilesKnown, NEW t \in Tasks, OnlyTask(t), next' = next,
         \A s \in songs' \ songs : /\ task[t].kind = "edit" /\ task[t].pc = "insert"
                                   /\ s = task[t].tgt /\ s \in files',
         \A s \in files \ files' :
            \/ task[t].pc = "unlink" /\ s = task[t].cur
            \/ task[t].kind = "edit" /\ task[t].pc = "fail" /\ s = task[t].tgt,
         \A x \in Tasks : job'[x] # NULL =>
            /\ job[x] # NULL
            /\ \/ job'[x].result = job[x].result
               \/ /\ task[t].kind = "edit" /\ task'[t].kind # "edit"
                  /\ job'[x].result = task[t].tgt
                  /\ task[t].tgt \notin songs' \/ task[t].tgt \in files',
         KnowsFile(task'[t], songs', files', next),
         task'[t].pc = "unlink" => task'[t].cur \in songs,
         task'[t].kind = "edit" =>
            /\ task[t].kind = "edit" /\ task'[t].tgt = task[t].tgt
            /\ task'[t].pc \in Pending => task[t].pc \in Pending
  PROVE  FilesKnown'
<1>0. /\ \A x \in Tasks : SoundTask(task[x], songs, root, next) /\ HasFields(task[x])
      /\ \A x \in Tasks : KnowsFile(task[x], songs, files, next)
      /\ FreshTargets /\ UnlinksApart /\ ResultsApart
      /\ OnlyFailedEditsLackFiles /\ next > Roots
      /\ \A x \in Tasks \ {t} : task'[x] = task[x]
  BY DEF LineageInv, FilesKnown, TypeOK, TasksOK, OnlyTask
<1>p. "insert" \in Pending /\ "fail" \notin Pending
  BY DEF Pending
<1>1. OnlyFailedEditsLackFiles'
  <2> SUFFICES ASSUME NEW s \in songs', s \notin files'
               PROVE  /\ s > Roots
                      /\ \A x \in Tasks : job'[x] # NULL => job'[x].result # s
    BY DEF OnlyFailedEditsLackFiles
  <2>1. s \in songs
    OBVIOUS
  <2>2. s > Roots /\ \A x \in Tasks : job[x] # NULL => job[x].result # s
    <3>1. CASE s \notin files
      BY <1>0, <2>1, <3>1 DEF OnlyFailedEditsLackFiles
    <3>2. CASE s \in files
      <4>1. ~(task[t].pc = "unlink" /\ s = task[t].cur)
        BY <1>0, <2>1 DEF KnowsFile
      <4>2. task[t].kind = "edit" /\ s = task[t].tgt
        BY <3>2, <4>1
      <4> QED  BY <1>0, <4>2 DEF KnowsFile, ResultsApart
    <3> QED  BY <3>1, <3>2
  <2> QED  BY <2>2
<1>2. ASSUME NEW x \in Tasks PROVE KnowsFile(task'[x], songs', files', next')
  <2>1. CASE x = t
    BY <2>1
  <2>2. CASE x # t
    <3> DEFINE k == task[x]
    <3>1. task'[x] = k /\ KnowsFile(k, songs, files, next)
      BY <1>0, <2>2
    <3>2. ASSUME k.kind = "edit", k.pc = "insert" PROVE k.tgt \in files'
      <4>1. k.tgt \in files /\ k.pc \in Pending
        BY <1>p, <3>1, <3>2 DEF KnowsFile
      <4>2. task[t].pc = "unlink" => k.tgt # task[t].cur
        BY <1>0, <3>2, <4>1 DEF UnlinksApart
      <4>3. task[t].kind = "edit" => k.tgt # task[t].tgt
        BY <1>0, <2>2, <3>2 DEF FreshTargets
      <4> QED  BY <4>1, <4>2, <4>3
    <3>3. ASSUME k.kind = "edit", k.pc \notin Pending \cup Failing, k.tgt \in songs'
          PROVE  k.tgt \in files'
      <4>1. task[t].kind = "edit" => k.tgt # task[t].tgt
        BY <1>0, <2>2, <3>3 DEF FreshTargets
      <4>2. k.tgt \in songs /\ k.tgt \in files
        BY <3>1, <3>3, <4>1 DEF KnowsFile
      <4>3. task[t].pc = "unlink" => k.tgt # task[t].cur
        BY <1>0, <4>2 DEF KnowsFile
      <4> QED  BY <4>1, <4>2, <4>3
    <3>4. ASSUME k.pc = "unlink" PROVE k.cur \notin songs'
      <4>1. k.cur \notin songs
        BY <3>1, <3>4 DEF KnowsFile
      <4>2. task[t].kind = "edit" /\ task[t].pc = "insert" => k.cur # task[t].tgt
        BY <1>0, <1>p, <3>4 DEF UnlinksApart
      <4> QED  BY <4>1, <4>2
    <3> HIDE DEF k
    <3> QED  BY <3>1, <3>2, <3>3, <3>4 DEF KnowsFile
  <2> QED  BY <2>1, <2>2
<1>3. UnlinksApart'
  <2> SUFFICES ASSUME NEW x \in Tasks, NEW y \in Tasks, task'[x].pc = "unlink",
                      task'[y].kind = "edit", task'[y].pc \in Pending
               PROVE  task'[x].cur # task'[y].tgt
    BY DEF UnlinksApart
  <2>1. task[y].kind = "edit" /\ task[y].pc \in Pending /\ task'[y].tgt = task[y].tgt
    BY <1>0
  <2>2. task[y].tgt \notin songs
    BY <1>0, <2>1 DEF SoundTask
  <2>3. CASE x = t
    BY <2>1, <2>2, <2>3
  <2>4. CASE x # t
    BY <1>0, <2>1, <2>4 DEF UnlinksApart
  <2> QED  BY <2>3, <2>4
<1>4. ResultsApart'
  <2> SUFFICES ASSUME NEW x \in Tasks, job'[x] # NULL
               PROVE  /\ job'[x].result # NULL => job'[x].result < next
                      /\ \A y \in Tasks : task'[y].kind = "edit" =>
                            job'[x].result # task'[y].tgt
    BY DEF ResultsApart
  <2>1. \A y \in Tasks : task'[y].kind = "edit" =>
           task[y].kind = "edit" /\ task'[y].tgt = task[y].tgt
    BY <1>0
  <2>2. CASE job'[x].result = job[x].result
    BY <1>0, <2>1, <2>2 DEF ResultsApart
  <2>3. CASE /\ task[t].kind = "edit" /\ task'[t].kind # "edit"
             /\ job'[x].result = task[t].tgt
    <3>1. task[t].tgt < next
      BY <1>0, <2>3 DEF SoundTask
    <3>2. \A y \in Tasks : task'[y].kind = "edit" => y # t /\ task[y].tgt # task[t].tgt
      BY <1>0, <2>1, <2>3 DEF FreshTargets
    <3> QED  BY <2>1, <2>3, <3>1, <3>2
  <2> QED  BY <2>2, <2>3
<1> QED  BY <1>0, <1>1, <1>2, <1>3, <1>4 DEF FilesKnown

LEMMA IdleKnowsFile ==
  ASSUME NEW S, NEW F, NEW n PROVE KnowsFile(Idle, S, F, n)
BY DEF KnowsFile, Idle, Task

\* Steps that change neither a row of songs nor a file.
LEMMA KnownQuiet ==
  ASSUME TypeOK, LineageInv, FilesKnown, NEW t \in Tasks, OnlyTask(t), next' = next,
         songs' = songs, files' = files,
         \A x \in Tasks : job'[x] # NULL => job[x] # NULL /\ job'[x].result = job[x].result,
         \/ task'[t] = Idle
         \/ /\ task[t].kind = "edit" /\ task'[t].kind = "edit" /\ task'[t].tgt = task[t].tgt
            /\ task'[t].pc \notin {"insert", "unlink"}
            /\ task'[t].pc \in Pending => task[t].pc \in Pending
            /\ task'[t].pc \in Pending \cup Failing \/ task[t].pc \notin Pending \cup Failing
  PROVE  FilesKnown'
<1>1. KnowsFile(task[t], songs, files, next)
  BY DEF FilesKnown
<1>2. CASE task'[t] = Idle
  <2>1. task'[t].kind = "none" /\ task'[t].pc = "idle"
    BY <1>2 DEF Idle, Task
  <2> QED  BY <1>2, <2>1, IdleKnowsFile, KnownOneTask
<1>3. CASE task'[t] # Idle
  <2>1. KnowsFile(task'[t], songs', files', next)
    BY <1>1, <1>3 DEF KnowsFile
  <2> QED  BY <1>3, <2>1, KnownOneTask
<1> QED  BY <1>2, <1>3

LEMMA KnownGoto ==
  ASSUME TypeOK, LineageInv, FilesKnown, NEW t \in Tasks, OnlyTask(t), next' = next,
         songs' = songs, files' = files, task[t].kind = "edit",
         \A x \in Tasks : job'[x] # NULL => job[x] # NULL /\ job'[x].result = job[x].result,
         NEW pc, pc \notin {"insert", "unlink"}, Goto(t, pc),
         pc \in Pending => task[t].pc \in Pending,
         pc \in Pending \cup Failing \/ task[t].pc \notin Pending \cup Failing
  PROVE  FilesKnown'
<1>1. task'[t].kind = "edit" /\ task'[t].tgt = task[t].tgt /\ task'[t].pc = pc
  BY DEF TypeOK, TasksOK, TaskState, Goto
<1> QED  BY <1>1, KnownQuiet

LEMMA KnownEnd ==
  ASSUME TypeOK, LineageInv, FilesKnown, NEW t \in Tasks, OnlyTask(t), next' = next,
         songs' = songs, files' = files, End(t),
         \A x \in Tasks : job'[x] # NULL => job[x] # NULL /\ job'[x].result = job[x].result
  PROVE  FilesKnown'
<1>1. task'[t] = Idle
  BY DEF TypeOK, TasksOK, End
<1> QED  BY <1>1, KnownQuiet

LEMMA KnownEdits ==
  ASSUME TypeOK, LineageInv, FilesKnown, NEW t \in Tasks, OnlyTask(t), EditStep(t)
  PROVE  FilesKnown'
<1> DEFINE k == task[t]
           m == task'[t]
           Same == \A x \in Tasks :
                      job'[x] # NULL => job[x] # NULL /\ job'[x].result = job[x].result
<1> USE DEF At
<1>0. /\ task \in [Tasks -> TaskState] /\ HasFields(k)
      /\ SoundTask(k, songs, root, next)
      /\ KnowsFile(k, songs, files, next)
      /\ next' = next /\ k.kind = "edit" /\ JobsOK
  BY DEF TypeOK, TasksOK, LineageInv, FilesKnown, EditStep, EditBegin, EditMark, EditRead,
         EditReadRoot, EditRender, EditInsert, EditUnlist, EditReparent, EditAttach, EditFinish,
         EditReport, EditFail, EditFailed
<1>j. ASSUME NEW status, UpdateJob(t, status, NULL) PROVE Same
  BY <1>0, <1>j, UpdateResult
<1>s. ASSUME UNCHANGED job PROVE Same
  BY <1>s
<1>e. CASE EditRead(t) \/ EditReadRoot(t)
  <2>1. songs' = songs /\ files' = files /\ Same
    BY <1>e, <1>j, <1>s DEF EditRead, EditReadRoot, rows
  <2>2. \/ m = Idle
        \/ /\ m.kind = "edit" /\ m.tgt = k.tgt /\ k.pc \in Pending
           /\ m.pc \in {"render", "read_root"}
    BY <1>0, <1>e DEF EditRead, EditReadRoot, End, TaskState, Pending
  <2>3. m.pc \in {"render", "read_root"} => m.pc \in Pending /\ m.pc \notin {"insert", "unlink"}
    BY DEF Pending
  <2> HIDE DEF k, m, Same
  <2> QED  BY <1>0, <2>1, <2>2, <2>3, KnownQuiet DEF k, m, Same
<1>r. CASE EditRender(t)
  <2>1. songs' = songs /\ UNCHANGED job /\ k.pc = "render" /\ k.pc \in Pending
    BY <1>r DEF EditRender, rows, Pending
  <2>2. /\ m.kind = "edit" /\ m.tgt = k.tgt
        /\ \/ m.pc = "insert" /\ files' = files \cup {k.tgt}
           \/ m.pc = "fail" /\ files' = files
    BY <1>0, <1>r DEF EditRender, Goto, TaskState
  <2>3. KnowsFile(m, songs', files', next)
    BY <1>0, <2>1, <2>2 DEF KnowsFile, Pending, Failing
  <2> QED  BY <1>0, <2>1, <2>2, <2>3, KnownOneTask
<1>i. CASE EditInsert(t)
  <2>1. files' = files /\ UNCHANGED job /\ k.pc = "insert" /\ k.pc \in Pending
    BY <1>i DEF EditInsert, Pending
  <2>2. k.tgt \in files
    BY <1>0, <2>1 DEF KnowsFile
  <2>3. /\ m.kind = "edit" /\ m.tgt = k.tgt
        /\ \/ m.pc = "unlist" /\ songs' = songs \cup {k.tgt}
           \/ m.pc = "fail" /\ songs' = songs
    BY <1>0, <1>i DEF EditInsert, Goto, TaskState, rows
  <2>4. m.pc \notin Pending /\ m.pc # "unlink"
    BY <2>3 DEF Pending
  <2>5. KnowsFile(m, songs', files', next)
    BY <1>0, <2>1, <2>2, <2>3, <2>4 DEF KnowsFile, Failing
  <2> QED  BY <1>0, <2>1, <2>2, <2>3, <2>4, <2>5, KnownOneTask
<1>u. CASE EditUnlist(t)
  <2>1. songs' = songs /\ files' = files /\ Same /\ k.pc = "unlist"
    BY <1>u, <1>s DEF EditUnlist, rows
  <2>2. m.kind = "edit" /\ m.tgt = k.tgt /\ m.pc \in {"count_library", "list"}
    BY <1>0, <1>u DEF EditUnlist, TaskState
  <2>3. /\ m.pc \notin Pending /\ m.pc \notin {"insert", "unlink"}
        /\ k.pc \notin Pending \cup Failing
    BY <2>1, <2>2 DEF Pending, Failing
  <2> HIDE DEF k, m, Same
  <2> QED  BY <1>0, <2>1, <2>2, <2>3, KnownQuiet DEF k, m, Same
<1>g. ASSUME songs' = songs, files' = files, Same, NEW pc, Goto(t, pc),
             \/ k.pc = "begin" /\ pc \in {"mark", "read"}
             \/ k.pc = "mark" /\ pc = "read"
             \/ k.pc = "reparent" /\ pc \in {"list", "attach"}
             \/ k.pc = "attach" /\ pc \in {"list", "fail"}
             \/ k.pc = "finish" /\ pc = "report"
             \/ k.pc = "report" /\ pc = "fail"
      PROVE  FilesKnown'
  <2>1. /\ pc \notin {"insert", "unlink"}
        /\ pc \in Pending => k.pc \in Pending
        /\ pc \in Pending \cup Failing \/ k.pc \notin Pending \cup Failing
    BY <1>g DEF Pending, Failing
  <2> QED  BY <1>0, <1>g, <2>1, KnownGoto
<1>d. ASSUME songs' = songs, files' = files, Same, End(t) PROVE FilesKnown'
  BY <1>0, <1>d, KnownEnd
<1>b. CASE EditBegin(t) \/ EditMark(t)
  <2>1. songs' = songs /\ files' = files /\ Same
    BY <1>b, <1>j, <1>s DEF EditBegin, EditMark, rows
  <2> HIDE DEF Same
  <2> QED  BY <1>b, <1>g, <1>d, <2>1 DEF EditBegin, EditMark
<1>a. CASE EditReparent(t) \/ EditAttach(t) \/ EditFinish(t)
  <2>1. songs' = songs /\ files' = files /\ Same
    BY <1>a, <1>s DEF EditReparent, EditAttach, EditFinish, rows
  <2> HIDE DEF Same
  <2> QED  BY <1>a, <1>g, <1>d, <2>1 DEF EditReparent, EditAttach, EditFinish
<1>p. CASE EditReport(t)
  <2>1. /\ songs' = songs /\ files' = files /\ k.pc = "report"
        /\ UpdateJob(t, "done", k.tgt)
    BY <1>p DEF EditReport, rows
  <2>2. CASE job[t] = NULL
    <3>1. Same
      BY <2>1, <2>2, <1>s DEF UpdateJob
    <3> HIDE DEF Same
    <3> QED  BY <1>p, <1>g, <2>1, <2>2, <3>1 DEF EditReport
  <2>3. CASE job[t] # NULL
    <3>1. m = Idle /\ m.kind = "none" /\ m.pc = "idle"
      BY <1>0, <1>p, <2>3 DEF EditReport, End, Idle, Task
    <3>2. k.tgt \notin songs \/ k.tgt \in files
      BY <1>0, <2>1 DEF KnowsFile, Pending, Failing
    <3>3. \A x \in Tasks : job'[x] # NULL =>
             job[x] # NULL /\ (job'[x].result = job[x].result \/ job'[x].result = k.tgt)
      BY <1>0, <2>1, UpdateResult
    <3>4. KnowsFile(m, songs', files', next)
      BY <3>1, IdleKnowsFile
    <3> QED  BY <1>0, <2>1, <3>1, <3>2, <3>3, <3>4, KnownOneTask
  <2> QED  BY <2>2, <2>3
<1>f. CASE EditFail(t)
  <2>1. /\ songs' = songs /\ UNCHANGED job /\ k.pc = "fail" /\ files' = files \ {k.tgt}
        /\ m.kind = "edit" /\ m.tgt = k.tgt /\ m.pc = "failed"
    BY <1>0, <1>f DEF EditFail, Goto, TaskState, rows
  <2>2. KnowsFile(m, songs', files', next) /\ m.pc \notin Pending /\ m.pc # "unlink"
    BY <1>0, <2>1 DEF KnowsFile, Pending, Failing
  <2> QED  BY <1>0, <2>1, <2>2, KnownOneTask
<1>x. CASE EditFailed(t)
  <2>1. songs' = songs /\ files' = files /\ Same
    BY <1>x, <1>j DEF EditFailed, rows
  <2> HIDE DEF Same
  <2> QED  BY <1>x, <1>d, <2>1 DEF EditFailed
<1> QED  BY <1>e, <1>r, <1>i, <1>u, <1>b, <1>a, <1>p, <1>f, <1>x DEF EditStep

LEMMA KnownLists ==
  ASSUME TypeOK, LineageInv, FilesKnown, NEW t \in Tasks, OnlyTask(t),
         List(t) \/ Refused(t)
  PROVE  FilesKnown'
<1>0. /\ songs' = songs /\ files' = files /\ next' = next
      /\ \A x \in Tasks : job'[x] # NULL => job[x] # NULL /\ job'[x].result = job[x].result
  BY DEF List, ListSelect, ListInsert, ListRefresh, Refused, rows
<1>1. CASE End(t)
  BY <1>0, <1>1, KnownEnd
<1>2. ASSUME task[t].kind = "edit", task[t].pc \in Trying,
             NEW pc \in {"finish", "fail", "enlist", "refresh"}, Goto(t, pc),
             task[t].pc \in Listing \/ pc = "fail"
      PROVE  FilesKnown'
  <2>1. /\ pc \notin {"insert", "unlink"} /\ pc \notin Pending
        /\ pc \in Failing \/ task[t].pc \notin Pending \cup Failing
    BY <1>2 DEF Pending, Failing, Listing
  <2> QED  BY <1>0, <1>2, <2>1, KnownGoto
<1>3. CASE List(t)
  <2>1. task[t].kind = "edit" /\ task[t].pc \in Listing /\ task[t].pc \in Trying
    BY <1>3, ListIs DEF LineageInv, SoundTask, Trying
  <2>2. PICK pc \in {"finish", "fail", "enlist", "refresh"} : Goto(t, pc)
    BY <1>3, <2>1, ListIs DEF Listed, NotListed
  <2> QED  BY <1>2, <2>1, <2>2
<1>4. CASE Refused(t)
  <2>1. End(t) \/ (task[t].kind = "edit" /\ task[t].pc \in Trying /\ Goto(t, "fail"))
    BY <1>4 DEF Refused
  <2> QED  BY <1>1, <1>2, <2>1
<1> QED  BY <1>3, <1>4

LEMMA KnownReclaims ==
  ASSUME TypeOK, LineageInv, FilesKnown, NEW t \in Tasks, OnlyTask(t), Reclaim(t)
  PROVE  FilesKnown'
<1> DEFINE k == task[t]
           m == task'[t]
<1>0. /\ task \in [Tasks -> TaskState] /\ HasFields(k)
      /\ KnowsFile(k, songs, files, next)
      /\ next' = next /\ k.pc \in Reclaiming
      /\ \A x \in Tasks : job'[x] # NULL => job[x] # NULL /\ job'[x].result = job[x].result
  BY DEF TypeOK, TasksOK, FilesKnown, Reclaim, CountLibrary, CountChildren, DeleteRow, Unlink,
         Reclaiming, DropRow
<1>1. k.kind = "edit" /\ k.pc \notin Pending \cup Failing
  BY <1>0, CapTarget DEF Reclaiming, Pending, Failing
<1>2. /\ m.kind = "edit" /\ m.tgt = k.tgt /\ m.cur = k.cur
      /\ m.pc \in {"count_children", "delete_row", "unlink", "reparent", "list"}
  BY <1>0, <1>1 DEF Reclaim, CountLibrary, CountChildren, DeleteRow, Unlink, Resume, Goto, TaskState
<1>3. m.pc \notin Pending \cup Failing /\ m.pc # "insert"
  BY <1>2 DEF Pending, Failing
<1>4. CASE DeleteRow(t) /\ k.cur \in songs
  <2>1. songs' = songs \ {k.cur} /\ files' = files
    BY <1>4 DEF DeleteRow, DropRow
  <2>2. k.cur < next
    BY <1>4 DEF LineageInv, SoundRows
  <2>3. KnowsFile(m, songs', files', next)
    BY <1>0, <1>1, <1>2, <1>3, <2>1, <2>2 DEF KnowsFile
  <2> QED  BY <1>0, <1>1, <1>2, <1>3, <1>4, <2>1, <2>3, KnownOneTask
<1>5. CASE ~(DeleteRow(t) /\ k.cur \in songs)
  <2>1. songs' = songs /\ m.pc # "unlink"
    BY <1>0, <1>1, <1>5
       DEF Reclaim, CountLibrary, CountChildren, DeleteRow, Unlink, Resume, Goto, TaskState, rows
  <2>2. files' = files \/ (k.pc = "unlink" /\ files' = files \ {k.cur})
    BY DEF Reclaim, CountLibrary, CountChildren, DeleteRow, Unlink
  <2>3. KnowsFile(m, songs', files', next)
    BY <1>0, <1>1, <1>2, <1>3, <2>1, <2>2 DEF KnowsFile
  <2> QED  BY <1>0, <1>1, <1>2, <1>3, <2>1, <2>2, <2>3, KnownOneTask
<1> QED  BY <1>4, <1>5

LEMMA KnownCreate ==
  ASSUME TypeOK, LineageInv, FilesKnown, NEW t \in Tasks,
         NEW u \in Users, NEW s \in Songs, CreateEditJob(t, u, s)
  PROVE  FilesKnown'
<1> DEFINE m == Task("edit", "begin", u, s, next)
           j == [status |-> "pending", source |-> s, user |-> u, result |-> NULL]
<1>0. /\ task \in [Tasks -> TaskState] /\ \A x \in Tasks : HasFields(task[x])
      /\ songs' = songs /\ files' = files /\ songs \subseteq Songs
      /\ next' = next + 1 /\ next \in Nat /\ Songs \subseteq Nat /\ Roots \in Nat
      /\ task' = [task EXCEPT ![t] = m]
      /\ job' = [job EXCEPT ![t] = j] /\ job \in [Tasks -> Maybe(JobRow)]
      /\ \A x \in Tasks : KnowsFile(task[x], songs, files, next)
      /\ \A x \in Tasks : SoundTask(task[x], songs, root, next)
      /\ UnlinksApart /\ ResultsApart /\ OnlyFailedEditsLackFiles /\ next > Roots
      /\ NULL \notin Nat
  BY StoreAssumption
     DEF TypeOK, TasksOK, RowsOK, JobsOK, LineageInv, FilesKnown, CreateEditJob, rows, Songs
<1>1. m.kind = "edit" /\ m.pc = "begin" /\ m.tgt = next /\ m.pc \in Pending
  BY DEF Task, Pending
<1>j. j.result = NULL
  OBVIOUS
<1> HIDE DEF m, j
<1>2. \A x \in Tasks : task'[x] = IF x = t THEN m ELSE task[x]
  BY <1>0
<1>3. \A x \in Tasks : job'[x] # NULL => \/ job[x] # NULL /\ job'[x] = job[x]
                                         \/ job'[x].result = NULL
  BY <1>0, <1>j
<1>4. OnlyFailedEditsLackFiles'
  <2>1. NULL \notin songs
    BY <1>0
  <2> QED  BY <1>0, <1>3, <2>1 DEF OnlyFailedEditsLackFiles
<1>u. \A x \in Tasks : task[x].pc = "unlink" => task[x].cur \in Nat /\ task[x].cur < next
  <2>1. "unlink" \in Reclaiming
    BY DEF Reclaiming
  <2> QED  BY <1>0, <2>1 DEF KnowsFile, HasFields
<1>5. ASSUME NEW x \in Tasks PROVE KnowsFile(task'[x], songs', files', next')
  <2>1. CASE x = t
    BY <1>0, <1>1, <1>2, <2>1 DEF KnowsFile, Pending
  <2>2. CASE x # t
    BY <1>0, <1>2, <1>u, <2>2 DEF KnowsFile
  <2> QED  BY <2>1, <2>2
<1>6. UnlinksApart'
  <2> SUFFICES ASSUME NEW x \in Tasks, NEW y \in Tasks, task'[x].pc = "unlink",
                      task'[y].kind = "edit", task'[y].pc \in Pending
               PROVE  task'[x].cur # task'[y].tgt
    BY DEF UnlinksApart
  <2>1. x # t /\ task'[x] = task[x]
    BY <1>1, <1>2
  <2>2. CASE y = t
    BY <1>0, <1>1, <1>2, <1>u, <2>1, <2>2
  <2>3. CASE y # t
    BY <1>0, <1>2, <2>1, <2>3 DEF UnlinksApart
  <2> QED  BY <2>2, <2>3
<1>7. ResultsApart'
  <2> SUFFICES ASSUME NEW x \in Tasks, job'[x] # NULL
               PROVE  /\ job'[x].result # NULL => job'[x].result < next'
                      /\ \A y \in Tasks : task'[y].kind = "edit" =>
                            job'[x].result # task'[y].tgt
    BY DEF ResultsApart
  <2>1. \A y \in Tasks : task[y].kind = "edit" => task[y].tgt \in Nat
    BY <1>0 DEF HasFields
  <2>2. CASE job'[x].result = NULL
    BY <1>0, <1>1, <1>2, <2>1, <2>2
  <2>3. CASE job'[x].result # NULL
    <3>1. job[x] # NULL /\ job'[x] = job[x] /\ job[x] \in JobRow
      BY <1>0, <1>3, <2>3 DEF Maybe
    <3>2. job[x].result \in Nat
      BY <1>0, <2>3, <3>1 DEF JobRow, Maybe
    <3>3. job[x].result < next /\ \A y \in Tasks : task[y].kind = "edit" => job[x].result # task[y].tgt
      BY <1>0, <2>3, <3>1 DEF ResultsApart
    <3>4. job[x].result < next + 1 /\ job[x].result # next
      BY <1>0, <3>2, <3>3
    <3> QED  BY <1>0, <1>1, <1>2, <3>1, <3>3, <3>4
  <2> QED  BY <2>2, <2>3
<1>8. next' > Roots
  BY <1>0
<1> QED  BY <1>4, <1>5, <1>6, <1>7, <1>8 DEF FilesKnown

LEMMA KnownInit == Init => FilesKnown
<1> SUFFICES ASSUME Init PROVE FilesKnown
  OBVIOUS
<1>1. \A t \in Tasks : task[t] = Idle /\ task[t].pc = "idle" /\ job[t] = NULL
  BY DEF Init, Idle, Task
<1>2. next > Roots
  BY StoreAssumption DEF Init
<1> QED  BY <1>1, <1>2, IdleKnowsFile
            DEF Init, FilesKnown, OnlyFailedEditsLackFiles, UnlinksApart, ResultsApart, Idle, Task

LEMMA KnownStep ==
  ASSUME EditsOnly, TypeOK, LineageInv, FilesKnown, [Next]_vars
  PROVE  FilesKnown'
<1> USE DEF FilesKnown
<1>1. CASE UNCHANGED vars
  BY <1>1 DEF vars, rows, OnlyFailedEditsLackFiles, UnlinksApart, ResultsApart
<1>2. ASSUME NEW t \in Tasks, TaskStep(t) PROVE FilesKnown'
  <2>0. OnlyTask(t)
    BY <1>2, OneTask
  <2>1. ~RequestStep(t)
    BY DEF RequestStep, RestoreUnlist, RestoreWalk, PublishWalk, PublishUpdate, At,
           LineageInv, SoundTask
  <2> HIDE DEF FilesKnown
  <2> QED  BY <1>2, <2>0, <2>1, KnownEdits, KnownLists, KnownReclaims DEF TaskStep
<1>3. ASSUME NEW t \in Tasks, Request(t) PROVE FilesKnown'
  <2>1. "publish" \notin Ops /\ "restore" \notin Ops /\ "delete" \notin Ops
    BY DEF EditsOnly
  <2>2. PICK u \in Users, s \in Songs : CreateEditJob(t, u, s)
    BY <1>3, <2>1 DEF Request, Publish, Restore, DeleteDownload
  <2> HIDE DEF FilesKnown
  <2> QED  BY <2>2, KnownCreate
<1>4. CASE \E u \in Users, s \in Songs : AddToLibrary(u, s) \/ RemoveFromLibrary(u, s)
  BY <1>4 DEF AddToLibrary, RemoveFromLibrary, rows, OnlyFailedEditsLackFiles, UnlinksApart,
              ResultsApart
<1>5. CASE \E u \in Users : DeleteUser(u)
  <2>1. /\ UNCHANGED <<songs, files, task, next>>
        /\ \A x \in Tasks : job'[x] # NULL => job[x] # NULL /\ job'[x] = job[x]
    BY <1>5 DEF DeleteUser, rows
  <2>2. OnlyFailedEditsLackFiles' /\ ResultsApart'
    BY <2>1 DEF OnlyFailedEditsLackFiles, ResultsApart
  <2>3. UnlinksApart' /\ \A t \in Tasks : KnowsFile(task'[t], songs', files', next')
    BY <2>1 DEF UnlinksApart
  <2> QED  BY <2>1, <2>2, <2>3
<1>6. CASE Crash
  <2>1. /\ UNCHANGED <<songs, files, job, next>>
        /\ \A t \in Tasks : task'[t] = Idle /\ task'[t].pc = "idle" /\ task'[t].kind = "none"
    BY <1>6 DEF Crash, rows, Idle, Task
  <2>2. OnlyFailedEditsLackFiles' /\ ResultsApart'
    BY <2>1 DEF OnlyFailedEditsLackFiles, ResultsApart
  <2>3. UnlinksApart' /\ \A t \in Tasks : KnowsFile(task'[t], songs', files', next')
    BY <2>1, IdleKnowsFile DEF UnlinksApart
  <2> QED  BY <2>1, <2>2, <2>3
<1>7. ASSUME NEW t \in Tasks, Refused(t) PROVE FilesKnown'
  <2> HIDE DEF FilesKnown
  <2> QED  BY <1>7, OneTask, KnownLists
<1> QED  BY <1>1, <1>2, <1>3, <1>4, <1>5, <1>6, <1>7 DEF Next

\* With edits, library changes, account removals, crashes and outages only, in any
\* order: a download or an import never loses its file, nor does a song a job was
\* reported done with.  What the except branch of routers/edit.py takes is the file
\* of the song its own edit made, also when the row had been committed.
THEOREM OnlyFailedEditsLoseFiles ==
  ASSUME EditsOnly
  PROVE  Spec => []OnlyFailedEditsLackFiles
<1>1. TypeOK /\ LineageInv /\ FilesKnown /\ [Next]_vars => LineageInv' /\ FilesKnown'
  BY LineageStep, KnownStep
<1>2. Init => LineageInv /\ FilesKnown
  BY LineageInit, KnownInit
<1>3. FilesKnown => OnlyFailedEditsLackFiles
  BY DEF FilesKnown
<1> QED  BY <1>1, <1>2, <1>3, TypeCorrect, PTL DEF Spec

-----------------------------------------------------------------------------
(* One handler at a time.  When no request starts while another is under     *)
(* way, what a task read holds until the task itself changes it: nobody else *)
(* deletes a song, fills a library or deletes the user.  Nothing is assumed  *)
(* of the operations, nor of the songs they are applied to; the process may  *)
(* die, but the database takes every statement.                              *)

Undisturbed == ~Overlap /\ "outage" \notin Ops

OneAtATime ==
    \A x, y \in Tasks : task[x].pc # "idle" /\ task[y].pc # "idle" => x = y

\* The foreign keys, and no uuid is drawn twice.
RefsLive ==
    /\ \A s \in Songs : parent[s] \in Maybe(songs) /\ root[s] \in Maybe(songs)
    /\ \A s \in songs : s < next

\* Steps of an edit while it has its source, and while the cap has yet to act.
HasSource == {"render", "read_root", "insert"}
BeforeCap == {"unlist", "count_library", "count_children", "delete_row"}
Inserted  == Capping \cup Listing \cup {"unlist", "finish", "report"}

\* The cap has done its work on the source of an edit.
Capped(k) ==
    k.src \in songs =>
       \/ parent[k.src] \in {NULL, k.root}
       \/ LibraryRefs(parent[k.src]) # {}
       \/ ChildRefs(parent[k.src]) # {k.src}

\* What an edit knows, if nothing else runs.
EditAlone(k) ==
    /\ k.user \in users
    /\ k.pc \in Pending => k.tgt < next
    /\ k.pc \in Pending \cup {"fail"} => k.tgt \notin songs
    /\ k.pc \in Pending \cup BeforeCap \cup {"attach"} => k.src \in songs
    /\ k.pc \in HasSource \cup Inserted => k.root \in songs
    /\ k.pc \in HasSource \cup BeforeCap => k.par = parent[k.src]
    /\ k.pc = "insert" => k.tgt \in files
    /\ k.pc \in Inserted => k.tgt \in songs /\ k.tgt \notin {k.src, k.par}
    /\ k.pc \in Capping => k.cur = k.par /\ k.par \notin {NULL, k.root}
    /\ k.pc \in Listing \cup {"finish"} => Capped(k)
    /\ k.pc = "enlist" => Entry(k) \notin library
    /\ k.pc \in {"refresh", "finish", "report"} => Entry(k) \in library

\* What any task knows: the song whose file it removes has no row.
Alone(k) ==
    /\ k.kind = "none" <=> k.pc = "idle"
    /\ k.kind = "edit" => EditAlone(k)
    /\ k.pc = "unlink" => k.cur \notin songs

\* The row of an edit's job is the same user's, and there when the edit reports.
JobAlone(t) ==
    /\ task[t].kind = "edit" /\ job[t] # NULL => job[t].user = task[t].user
    /\ task[t].pc = "report" => job[t] # NULL

SerialInv ==
    /\ OneAtATime
    /\ RefsLive
    /\ SongHasFile
    /\ \A t \in Tasks : Alone(task[t]) /\ JobAlone(t)

\* A step of the only task: what it leaves behind must be right for itself.
LEMMA AloneStep ==
  ASSUME TypeOK, SerialInv, NEW t \in Tasks, OnlyTask(t), task[t].pc # "idle" \/ AllIdle,
         RefsLive', SongHasFile', Alone(task[t])', JobAlone(t)'
  PROVE  SerialInv'
<1>1. \A x \in Tasks \ {t} : task[x].pc = "idle" /\ task[x].kind = "none"
  BY DEF SerialInv, OneAtATime, AllIdle, Alone
<1>2. \A x \in Tasks \ {t} : task'[x].pc = "idle" /\ task'[x].kind = "none"
  BY <1>1 DEF OnlyTask
<1>3. OneAtATime'
  BY <1>2 DEF OneAtATime
<1>4. \A x \in Tasks \ {t} : Alone(task[x])' /\ JobAlone(x)'
  BY <1>2 DEF Alone, JobAlone
<1> QED  BY <1>3, <1>4 DEF SerialInv

\* The row of the task's job, if there is one, is still the same user's.
JobKept(t) == job'[t] # NULL => job[t] # NULL /\ job'[t].user = job[t].user

LEMMA UpdateKeepsUser ==
  ASSUME JobsOK, NEW t \in Tasks, NEW status, NEW result, UpdateJob(t, status, result)
  PROVE  JobKept(t)
<1>1. CASE job[t] = NULL
  BY <1>1 DEF UpdateJob, JobKept
<1>2. CASE job[t] # NULL
  <2> DEFINE r == IF result = NULL THEN job[t].result ELSE result
             n == [job[t] EXCEPT !.status = status, !.result = r]
  <2>1. job[t] \in JobRow
    BY <1>2 DEF JobsOK, Maybe
  <2>2. n.user = job[t].user
    BY <2>1 DEF JobRow
  <2>3. job' = [job EXCEPT ![t] = n]
    BY <1>2 DEF UpdateJob, JobsOK
  <2>4. job'[t] = n
    <3> HIDE DEF n
    <3> QED  BY <2>3 DEF JobsOK
  <2> QED  BY <1>2, <2>2, <2>4 DEF JobKept
<1> QED  BY <1>1, <1>2

\* The user and the kind of a task do not change before it ends.
LEMMA AloneContinues ==
  ASSUME TypeOK, SerialInv, NEW t \in Tasks, OnlyTask(t), task[t].pc # "idle",
         RefsLive', SongHasFile', Alone(task[t])', JobKept(t), task'[t].pc # "report",
         task'[t].kind = "edit" => task[t].kind = "edit" /\ task'[t].user = task[t].user
  PROVE  SerialInv'
<1>1. JobAlone(t)'
  BY DEF SerialInv, JobKept, JobAlone
<1> QED  BY <1>1, AloneStep

\* What a task knows is about rows, libraries and users; the file of a new song
\* matters to an edit that is about to insert its row.
LEMMA SameStore ==
  ASSUME NEW t \in Tasks, UNCHANGED <<rows, library, users, next>>, Alone(task'[t]),
         files' = files \/ task'[t].pc # "insert"
  PROVE  Alone(task[t])'
BY DEF Alone, EditAlone, Capped, LibraryRefs, ChildRefs, Entry, rows

\* The store as the next step finds it is the one this step found.
LEMMA AloneQuiet ==
  ASSUME TypeOK, SerialInv, NEW t \in Tasks, OnlyTask(t), task[t].pc # "idle",
         UNCHANGED <<rows, files, library, users, next>>, Alone(task'[t]), JobKept(t),
         task'[t].pc # "report",
         task'[t].kind = "edit" => task[t].kind = "edit" /\ task'[t].user = task[t].user
  PROVE  SerialInv'
<1>1. RefsLive' /\ SongHasFile'
  BY DEF SerialInv, RefsLive, SongHasFile, rows
<1>2. Alone(task[t])'
  BY SameStore
<1> QED  BY <1>1, <1>2, AloneContinues

LEMMA AloneIdle == Alone(Idle)
BY DEF Alone, Idle, Task

LEMMA SerialEdits ==
  ASSUME TypeOK, TypeOK', SerialInv, NEW t \in Tasks, OnlyTask(t), EditStep(t)
  PROVE  SerialInv'
<1> USE DEF At
<1> DEFINE k == task[t]
           m == task'[t]
<1>0. /\ task \in [Tasks -> TaskState] /\ m \in TaskState /\ k \in TaskState /\ HasFields(k)
      /\ JobsOK /\ RowsOK
      /\ RefsLive /\ SongHasFile
  BY DEF TypeOK, TasksOK, SerialInv
<1>1. k.kind = "edit" /\ k.pc # "idle" /\ EditAlone(k)
      /\ k.src \in Songs /\ k.tgt \in Songs
  BY <1>0 DEF EditStep, EditBegin, EditMark, EditRead, EditReadRoot, EditRender, EditInsert,
              EditUnlist, EditReparent, EditAttach, EditFinish, EditReport, EditFail, EditFailed,
              SerialInv, Alone, HasFields
<1> USE DEF Pending, BeforeCap, HasSource, Inserted, Reclaiming, Capping, Listing
<1>2. CASE EditBegin(t) \/ EditMark(t)
  <2>1. /\ k.pc \in {"begin", "mark"} /\ JobKept(t)
        /\ UNCHANGED <<rows, files, library, users, next>>
    BY <1>0, <1>2, UpdateKeepsUser DEF EditBegin, EditMark, JobKept
  <2>2. CASE m = Idle
    <3>1. m.kind = "none" /\ m.pc = "idle"
      BY <2>2 DEF Idle, Task
    <3> QED  BY <1>1, <2>1, <2>2, <3>1, AloneIdle, AloneQuiet
  <2>3. CASE m # Idle
    <3>1. /\ m.kind = "edit" /\ m.pc \in {"mark", "read"}
          /\ m.user = k.user /\ m.src = k.src /\ m.tgt = k.tgt
      BY <1>0, <1>2, <2>3 DEF EditBegin, EditMark, Goto, End, TaskState
    <3>2. Alone(m)
      BY <1>1, <2>1, <3>1 DEF Alone, EditAlone
    <3> QED  BY <1>1, <2>1, <3>1, <3>2, AloneQuiet
  <2> QED  BY <2>2, <2>3
<1>3. CASE EditRead(t)
  <2> DEFINE s == k.src
             r == IF root[s] = NULL THEN s ELSE root[s]
  <2>0. k.pc = "read" /\ s \in songs
    BY <1>1, <1>3 DEF EditRead, EditAlone
  <2>1. /\ m.kind = "edit" /\ m.user = k.user /\ m.src = s /\ m.tgt = k.tgt
        /\ m.root = r /\ m.par = parent[s] /\ m.pc \in {"render", "read_root"}
    BY <1>0, <1>3, <2>0 DEF EditRead, TaskState
  <2>2. r \in songs
    BY <1>0, <1>1, <2>0 DEF RefsLive, Maybe
  <2>3. Alone(m)
    <3> HIDE DEF r
    <3> QED  BY <1>1, <2>0, <2>1, <2>2
                DEF Alone, EditAlone
  <2>4. UNCHANGED <<rows, files, library, users, job, next>>
    BY <1>3, <2>0 DEF EditRead
  <2> QED  BY <1>1, <2>1, <2>3, <2>4, AloneQuiet DEF JobKept
<1>4. CASE EditReadRoot(t)
  <2>1. /\ m.kind = "edit" /\ m.user = k.user /\ m.src = k.src /\ m.tgt = k.tgt
        /\ m.root = k.root /\ m.par = k.par /\ m.pc = "render" /\ k.pc = "read_root"
    BY <1>0, <1>4 DEF EditReadRoot, TaskState
  <2>2. Alone(m)
    BY <1>1, <2>1 DEF Alone, EditAlone
  <2> QED  BY <1>1, <1>4, <2>1, <2>2, AloneQuiet DEF EditReadRoot, JobKept
<1>5. CASE EditRender(t)
  <2>0. k.pc = "render" /\ UNCHANGED <<rows, library, users, job, next>>
    BY <1>5 DEF EditRender
  <2>1. CASE Goto(t, "fail") /\ UNCHANGED files
    <3>1. m.kind = "edit" /\ m.user = k.user /\ m.tgt = k.tgt /\ m.pc = "fail"
      BY <1>0, <1>1, <2>1 DEF Goto, TaskState
    <3>2. Alone(m)
      BY <1>1, <2>0, <3>1 DEF Alone, EditAlone
    <3> QED  BY <1>1, <2>0, <2>1, <3>1, <3>2, AloneQuiet DEF JobKept
  <2>2. CASE /\ files' = files \cup {k.tgt}
             /\ task' = [task EXCEPT ![t].pc = "insert", ![t].input = NULL]
    <3>1. /\ m.kind = "edit" /\ m.user = k.user /\ m.src = k.src /\ m.tgt = k.tgt
          /\ m.root = k.root /\ m.par = k.par /\ m.pc = "insert"
      BY <1>0, <1>1, <2>2 DEF TaskState
    <3>2. RefsLive' /\ SongHasFile'
      BY <1>0, <2>0, <2>2 DEF RefsLive, SongHasFile, rows
    <3>3. Alone(task[t])'
      BY <1>1, <2>0, <2>2, <3>1 DEF Alone, EditAlone, rows
    <3> QED  BY <1>1, <2>0, <3>1, <3>2, <3>3, AloneContinues DEF JobKept
  <2> QED  BY <1>5, <2>1, <2>2 DEF EditRender
<1>6. CASE EditInsert(t)
  <2>0. /\ k.pc = "insert" /\ k.src \in songs /\ k.root \in songs /\ k.tgt \notin songs
        /\ k.tgt < next /\ k.par = parent[k.src] /\ k.tgt \in files /\ k.user \in users
    BY <1>1, <1>6 DEF EditInsert, EditAlone
  <2>1. /\ songs' = songs \cup {k.tgt}
        /\ parent' = [parent EXCEPT ![k.tgt] = k.src]
        /\ root' = [root EXCEPT ![k.tgt] = k.root]
        /\ Goto(t, "unlist") /\ UNCHANGED <<files, library, users, job, next>>
    BY <1>6, <2>0 DEF EditInsert
  <2>2. /\ m.kind = "edit" /\ m.user = k.user /\ m.src = k.src /\ m.tgt = k.tgt
        /\ m.root = k.root /\ m.par = k.par /\ m.pc = "unlist"
    BY <1>0, <1>1, <2>1 DEF Goto, TaskState
  <2>3. k.tgt # k.src /\ k.par # k.tgt
    BY <1>0, <1>1, <2>0, NullNotSong DEF RefsLive, Maybe
  <2>4. RefsLive' /\ SongHasFile'
    BY <1>0, <1>1, <2>0, <2>1 DEF RefsLive, SongHasFile, Maybe, RowsOK
  <2>5. parent'[k.src] = k.par
    BY <1>0, <1>1, <2>0, <2>1, <2>3 DEF RowsOK
  <2>6. Alone(task[t])'
    <3> HIDE DEF k
    <3> QED  BY <2>0, <2>1, <2>2, <2>3, <2>5
                DEF Alone, EditAlone
  <2> QED  BY <1>1, <2>0, <2>1, <2>2, <2>4, <2>6, AloneContinues DEF JobKept
<1>7. CASE EditUnlist(t)
  <2>0. /\ k.pc = "unlist" /\ k.src \in songs /\ k.root \in songs /\ k.tgt \in songs
        /\ k.par = parent[k.src] /\ k.tgt \notin {k.src, k.par} /\ k.user \in users
    BY <1>1, <1>7 DEF EditUnlist, EditAlone
  <2>1. /\ m.kind = "edit" /\ m.user = k.user /\ m.src = k.src /\ m.tgt = k.tgt
        /\ m.root = k.root /\ m.par = k.par /\ m.cur = k.par
        /\ m.pc = IF k.par # NULL /\ k.par # k.root THEN "count_library" ELSE "list"
    BY <1>0, <1>7 DEF EditUnlist, TaskState
  <2>2. UNCHANGED <<rows, files, users, job, next>>
    BY <1>7 DEF EditUnlist
  <2>3. RefsLive' /\ SongHasFile'
    BY <1>0, <2>2 DEF RefsLive, SongHasFile, rows
  <2>4. Alone(task[t])'
    BY <2>0, <2>1, <2>2 DEF Alone, EditAlone, Capped, rows
  <2> QED  BY <1>1, <2>1, <2>2, <2>3, <2>4, AloneContinues DEF JobKept
<1>8. CASE EditReparent(t)
  <2>0. /\ k.pc = "reparent" /\ k.root \in songs /\ k.tgt \in songs
        /\ k.tgt \notin {k.src, k.par} /\ k.user \in users
        /\ k.cur = k.par /\ k.par \notin {NULL, k.root}
    BY <1>1, <1>8 DEF EditReparent, EditAlone
  <2>1. UNCHANGED <<rows, files, library, users, job, next>>
    BY <1>8 DEF EditReparent
  <2>2. /\ m.kind = "edit" /\ m.user = k.user /\ m.src = k.src /\ m.tgt = k.tgt
        /\ m.root = k.root /\ m.par = k.par /\ m.cur = k.cur
        /\ m.pc = IF k.src \notin songs \/ parent[k.src] = k.root THEN "list" ELSE "attach"
    BY <1>0, <1>1, <1>8 DEF EditReparent, Goto, TaskState
  <2>3. m.pc = "list" => Capped(m)
    BY <2>2 DEF Capped
  <2>4. Alone(m)
    BY <2>0, <2>2, <2>3 DEF Alone, EditAlone
  <2> QED  BY <1>1, <2>1, <2>2, <2>4, AloneQuiet DEF JobKept
<1>9. CASE EditAttach(t)
  <2>0. /\ k.pc = "attach" /\ k.src \in songs /\ k.root \in songs /\ k.tgt \in songs
        /\ k.tgt \notin {k.src, k.par} /\ k.user \in users
    BY <1>1, <1>9 DEF EditAttach, EditAlone
  <2>1. /\ Goto(t, "list") /\ UNCHANGED <<songs, root, owner, files, library, users, job, next>>
        /\ parent' = [parent EXCEPT ![k.src] = k.root]
    BY <1>9, <2>0 DEF EditAttach
  <2>2. /\ m.kind = "edit" /\ m.user = k.user /\ m.src = k.src /\ m.tgt = k.tgt
        /\ m.root = k.root /\ m.par = k.par /\ m.pc = "list"
    BY <1>0, <1>1, <2>1 DEF Goto, TaskState
  <2>3. RefsLive' /\ SongHasFile'
    <3>1. \A s \in Songs : parent'[s] \in {parent[s], k.root}
      BY <1>0, <1>1, <2>1 DEF RowsOK
    <3> QED  BY <1>0, <2>0, <2>1, <3>1 DEF RefsLive, SongHasFile, Maybe
  <2>4. Capped(task[t])'
    BY <1>0, <1>1, <2>1, <2>2 DEF Capped, RowsOK
  <2>5. Alone(task[t])'
    BY <2>0, <2>1, <2>2, <2>4 DEF Alone, EditAlone
  <2> QED  BY <1>1, <2>1, <2>2, <2>3, <2>5, AloneContinues DEF JobKept
<1>f. CASE EditFinish(t) /\ job[t] # NULL
  <2>1. /\ k.pc = "finish" /\ k.root \in songs /\ k.tgt \in songs
        /\ k.tgt \notin {k.src, k.par} /\ k.user \in users /\ Entry(k) \in library
    BY <1>1, <1>f DEF EditFinish, EditAlone
  <2>2. Goto(t, "report") /\ UNCHANGED <<rows, files, library, users, job, next>>
    BY <1>f DEF EditFinish
  <2>3. /\ m.kind = "edit" /\ m.user = k.user /\ m.src = k.src /\ m.tgt = k.tgt
        /\ m.root = k.root /\ m.par = k.par /\ m.pc = "report"
    BY <1>0, <1>1, <2>2 DEF Goto, TaskState
  <2>4. Alone(m)
    BY <2>1, <2>3 DEF Alone, EditAlone, Entry
  <2>5. RefsLive' /\ SongHasFile' /\ Alone(task[t])'
    BY <1>0, <2>2, <2>4, SameStore DEF RefsLive, SongHasFile, rows
  <2>6. JobAlone(t)'
    BY <1>1, <1>f, <2>2, <2>3 DEF SerialInv, JobAlone
  <2> QED  BY <1>1, <2>5, <2>6, AloneStep
<1>10. CASE (EditFinish(t) /\ job[t] = NULL) \/ EditReport(t) \/ EditFailed(t)
  <2>0. EditReport(t) => job[t] # NULL
    BY DEF EditReport, SerialInv, JobAlone
  <2>1. m = Idle /\ m.kind = "none" /\ m.pc = "idle"
    BY <1>0, <1>10, <2>0 DEF EditFinish, EditReport, EditFailed, End, Idle, Task
  <2>2. JobKept(t)
    <3>1. EditFinish(t) => UNCHANGED job
      BY DEF EditFinish
    <3> QED  BY <1>0, <1>10, <3>1, UpdateKeepsUser DEF EditReport, EditFailed, JobKept
  <2>3. UNCHANGED <<rows, files, library, users, next>>
    BY <1>10 DEF EditFinish, EditReport, EditFailed
  <2> QED  BY <1>1, <2>1, <2>2, <2>3, AloneIdle, AloneQuiet
<1>11. CASE EditFail(t)
  <2>1. /\ k.pc = "fail" /\ k.tgt \notin songs /\ k.user \in users
    BY <1>1, <1>11 DEF EditFail, EditAlone
  <2>2. files' = files \ {k.tgt} /\ Goto(t, "failed") /\ UNCHANGED <<rows, library, users, job, next>>
    BY <1>11 DEF EditFail
  <2>3. m.kind = "edit" /\ m.user = k.user /\ m.pc = "failed"
    BY <1>0, <1>1, <2>2 DEF Goto, TaskState
  <2>4. RefsLive' /\ SongHasFile'
    BY <1>0, <2>1, <2>2 DEF RefsLive, SongHasFile, rows
  <2>5. Alone(task[t])'
    BY <2>1, <2>2, <2>3 DEF Alone, EditAlone
  <2> QED  BY <1>1, <2>2, <2>3, <2>4, <2>5, AloneContinues DEF JobKept
<1> QED
  BY <1>2, <1>3, <1>4, <1>5, <1>6, <1>7, <1>8, <1>9, <1>f, <1>10, <1>11 DEF EditStep

\* add_to_library finds nothing changed between its three statements.
LEMMA SerialLists ==
  ASSUME TypeOK, TypeOK', SerialInv, NEW t \in Tasks, OnlyTask(t), List(t)
  PROVE  SerialInv'
<1> DEFINE k == task[t]
           m == task'[t]
<1>0. /\ task \in [Tasks -> TaskState] /\ k \in TaskState /\ k.pc \in Listing
      /\ k.kind \in {"edit", "restore"} /\ RefsLive /\ SongHasFile
      /\ library' \in {library, library \cup {Entry(k)}}
      /\ UNCHANGED <<rows, files, users, job, next>>
  BY ListIs DEF TypeOK, TasksOK, SerialInv
<1>1. RefsLive' /\ SongHasFile' /\ JobKept(t) /\ k.pc # "idle"
  BY <1>0 DEF RefsLive, SongHasFile, JobKept, Listing, rows
<1>2. CASE k.kind = "restore"
  <2>1. \/ m = Idle
        \/ m.kind = "restore" /\ m.pc \in {"enlist", "refresh", "walk"}
    <3>1. \/ task' = [task EXCEPT ![t].cur = k.src, ![t].pc = "walk"]
          \/ End(t) \/ Goto(t, "enlist") \/ Goto(t, "refresh")
      BY <1>2, ListIs DEF Listed, NotListed
    <3> QED  BY <1>0, <1>2, <3>1 DEF Goto, End, TaskState
  <2>2. CASE m = Idle
    <3>1. m.kind = "none" /\ m.pc = "idle"
      BY <2>2 DEF Idle, Task
    <3> QED  BY <1>1, <2>2, <3>1, AloneContinues DEF Alone
  <2>3. CASE m.kind = "restore" /\ m.pc \in {"enlist", "refresh", "walk"}
    BY <1>1, <2>3, AloneContinues DEF Alone
  <2> QED  BY <2>1, <2>2, <2>3
<1>3. CASE k.kind = "edit"
  <2>1. /\ k.root \in songs /\ k.tgt \in songs /\ Capped(k) /\ k.tgt \notin {k.src, k.par}
        /\ k.user \in users
        /\ k.pc = "enlist" => Entry(k) \notin library
        /\ k.pc = "refresh" => Entry(k) \in library
    BY <1>0, <1>3 DEF SerialInv, Alone, EditAlone, Inserted
  <2>2. PICK pc \in {"finish", "enlist", "refresh"} :
           /\ Goto(t, pc)
           /\ pc = "enlist" => Entry(k) \notin library'
           /\ pc \in {"finish", "refresh"} => Entry(k) \in library'
    BY <1>0, <1>3, <2>1 DEF List, ListSelect, ListInsert, ListRefresh, Listed
  <2>3. /\ m.kind = "edit" /\ m.user = k.user /\ m.src = k.src /\ m.tgt = k.tgt
        /\ m.root = k.root /\ m.par = k.par /\ m.pc = pc /\ Entry(m) = Entry(k)
    BY <1>0, <1>3, <2>2 DEF Goto, TaskState, Entry
  <2>4. Capped(task[t])'
    <3>1. \A s \in Songs : LibraryRefs(s) # {} => LibraryRefs(s)' # {}
      BY <1>0 DEF LibraryRefs
    <3>2. k.src \in songs /\ parent[k.src] # NULL => parent[k.src] \in Songs
      BY DEF TypeOK, RowsOK, Maybe
    <3> QED  BY <1>0, <2>1, <2>3, <3>1, <3>2 DEF Capped, ChildRefs, rows
  <2>5. Alone(task[t])'
    BY <1>0, <2>1, <2>2, <2>3, <2>4
       DEF Alone, EditAlone, Pending, BeforeCap, HasSource, Inserted, Reclaiming, Capping, Listing,
           Entry, rows
  <2> QED  BY <1>1, <1>3, <2>2, <2>3, <2>5, AloneContinues
<1> QED  BY <1>0, <1>2, <1>3

\* Where a clean-up leaves its task.
LEMMA ResumeTo ==
  ASSUME TasksOK, NEW t \in Tasks, task[t].kind \in Kinds, NEW d \in BOOLEAN, Resume(t, d)
  PROVE  \/ /\ task[t].kind = "edit" /\ task'[t].kind = "edit"
            /\ task'[t].user = task[t].user /\ task'[t].src = task[t].src
            /\ task'[t].tgt = task[t].tgt /\ task'[t].root = task[t].root
            /\ task'[t].par = task[t].par /\ task'[t].cur = task[t].cur
            /\ task'[t].pc = IF d THEN "reparent" ELSE "list"
         \/ task'[t] = Idle
         \/ task'[t].kind \in {"restore", "publish"} /\ task'[t].pc = "walk"
<1>0. task[t] \in TaskState /\ task \in [Tasks -> TaskState]
  BY DEF TasksOK
<1>1. CASE task[t].kind = "edit"
  BY <1>0, <1>1 DEF Resume, Goto, TaskState
<1>2. CASE task[t].kind = "delete"
  BY <1>0, <1>2 DEF Resume, End
<1>3. CASE task[t].kind \in {"restore", "publish"}
  BY <1>0, <1>3 DEF Resume, TaskState
<1> QED  BY <1>1, <1>2, <1>3 DEF Kinds

\* A clean-up that stops or is through keeps what its task knows: either the cap
\* had nothing to do, or the source is about to be given another parent.
LEMMA ResumeAlone ==
  ASSUME TypeOK, SerialInv, NEW t \in Tasks, task[t].pc \in Reclaiming,
         NEW d \in BOOLEAN, Resume(t, d),
         task[t].kind = "edit" /\ ~d => Capped(task[t])
  PROVE  /\ Alone(task'[t]) /\ task'[t].pc # "report"
         /\ task'[t].kind = "edit" => task[t].kind = "edit" /\ task'[t].user = task[t].user
<1> DEFINE k == task[t]
           m == task'[t]
<1>0. TasksOK /\ k.kind \in Kinds /\ k.kind # "none" /\ Alone(k)
  BY DEF TypeOK, TasksOK, HasFields, Kinds, SerialInv
<1>1. CASE /\ k.kind = "edit" /\ m.kind = "edit" /\ m.user = k.user /\ m.src = k.src
           /\ m.tgt = k.tgt /\ m.root = k.root /\ m.par = k.par /\ m.cur = k.cur
           /\ m.pc = IF d THEN "reparent" ELSE "list"
  <2>1. Capped(k) => Capped(m)
    BY <1>1 DEF Capped
  <2>2. /\ k.user \in users /\ k.root \in songs /\ k.tgt \in songs
        /\ k.tgt \notin {k.src, k.par} /\ k.cur = k.par /\ k.par \notin {NULL, k.root}
    BY <1>0, <1>1 DEF Alone, EditAlone, Inserted, Capping
  <2> HIDE DEF k, m
  <2>3. Alone(m)
    BY <1>1, <2>1, <2>2 DEF Alone, EditAlone, Pending, BeforeCap, HasSource, Inserted,
                            Reclaiming, Capping, Listing, k, m
  <2> QED  BY <1>1, <2>3 DEF k, m
<1>2. CASE m = Idle
  <2>1. m.kind = "none" /\ m.pc = "idle"
    BY <1>2 DEF Idle, Task
  <2> QED  BY <1>2, <2>1, AloneIdle
<1>3. CASE m.kind \in {"restore", "publish"} /\ m.pc = "walk"
  BY <1>3 DEF Alone
<1> QED  BY <1>0, <1>1, <1>2, <1>3, ResumeTo

LEMMA SerialReclaims ==
  ASSUME TypeOK, TypeOK', SerialInv, NEW t \in Tasks, OnlyTask(t), Reclaim(t)
  PROVE  SerialInv'
<1> DEFINE k == task[t]
           m == task'[t]
<1>0. /\ task \in [Tasks -> TaskState] /\ k \in TaskState /\ HasFields(k)
      /\ JobsOK /\ RowsOK /\ RefsLive /\ SongHasFile /\ Alone(k)
  BY DEF TypeOK, TasksOK, SerialInv
<1>1. k.pc \in Reclaiming /\ k.pc # "idle" /\ k.kind \in Kinds /\ k.cur \in Songs
  BY <1>0 DEF Reclaim, CountLibrary, CountChildren, DeleteRow, Unlink, Reclaiming, HasFields
<1>2. k.kind = "edit" => EditAlone(k) /\ k.cur = k.par
  BY <1>0, <1>1 DEF Alone, EditAlone, Capping
<1>3. ASSUME NEW pc \in {"count_children", "delete_row", "unlink"}, Goto(t, pc)
      PROVE  /\ m.kind = k.kind /\ m.user = k.user /\ m.src = k.src /\ m.tgt = k.tgt
             /\ m.root = k.root /\ m.par = k.par /\ m.cur = k.cur /\ m.pc = pc
  BY <1>0, <1>3 DEF Goto, TaskState
<1>4. ASSUME UNCHANGED <<rows, files, library, users, job, next>>,
             NEW d \in BOOLEAN, Resume(t, d), k.kind = "edit" /\ ~d => Capped(k)
      PROVE  SerialInv'
  BY <1>1, <1>4, ResumeAlone, AloneQuiet DEF JobKept
<1>5. ASSUME UNCHANGED <<rows, files, library, users, job, next>>,
             NEW pc \in {"count_children", "delete_row"}, Goto(t, pc),
             k.pc \in {"count_library", "count_children"}
      PROVE  SerialInv'
  <2>1. /\ m.kind = k.kind /\ m.user = k.user /\ m.src = k.src /\ m.tgt = k.tgt
        /\ m.root = k.root /\ m.par = k.par /\ m.cur = k.cur /\ m.pc = pc
    BY <1>3, <1>5
  <2>2. k.kind = "edit" => EditAlone(m)
    BY <1>2, <1>5, <2>1
       DEF EditAlone, Pending, BeforeCap, HasSource, Inserted, Reclaiming, Capping, Listing
  <2>3. Alone(m)
    BY <1>1, <1>5, <2>1, <2>2 DEF Alone, Kinds
  <2> QED  BY <1>1, <1>5, <2>1, <2>3, AloneQuiet DEF JobKept
<1>6. CASE CountLibrary(t)
  <2>0. k.pc = "count_library" /\ UNCHANGED <<rows, files, library, users, job, next>>
    BY <1>6 DEF CountLibrary
  <2>1. CASE LibraryRefs(k.cur) = {}
    BY <1>5, <1>6, <2>0, <2>1 DEF CountLibrary
  <2>2. CASE LibraryRefs(k.cur) # {}
    <3>1. k.kind = "edit" => Capped(k)
      BY <1>2, <2>0, <2>2 DEF EditAlone, BeforeCap, Capped
    <3> QED  BY <1>4, <1>6, <2>0, <2>2, <3>1 DEF CountLibrary
  <2> QED  BY <2>1, <2>2
<1>7. CASE CountChildren(t)
  <2>0. k.pc = "count_children" /\ UNCHANGED <<rows, files, library, users, job, next>>
    BY <1>7 DEF CountChildren
  <2>1. CASE ChildRefs(k.cur) \subseteq Excluded(k)
    BY <1>5, <1>7, <2>0, <2>1 DEF CountChildren
  <2>2. CASE ~(ChildRefs(k.cur) \subseteq Excluded(k))
    <3>1. k.kind = "edit" => Capped(k)
      BY <1>2, <2>0, <2>2 DEF EditAlone, BeforeCap, Capped, Excluded
    <3> QED  BY <1>4, <1>7, <2>0, <2>2, <3>1 DEF CountChildren
  <2> QED  BY <2>1, <2>2
<1>8. CASE DeleteRow(t)
  <2>1. CASE k.cur \in songs
    <3> DEFINE s == k.cur
    <3>1. /\ DropRow(s) /\ Goto(t, "unlink") /\ UNCHANGED <<files, users, next>>
          /\ k.pc = "delete_row"
      BY <1>8, <2>1 DEF DeleteRow
    <3>2. /\ m.kind = k.kind /\ m.user = k.user /\ m.src = k.src /\ m.tgt = k.tgt
          /\ m.root = k.root /\ m.par = k.par /\ m.cur = k.cur /\ m.pc = "unlink"
      BY <1>3, <3>1
    <3>3. RefsLive' /\ SongHasFile'
      BY <1>0, <1>1, <3>1 DEF RefsLive, SongHasFile, DropRow, Maybe, RowsOK
    <3>4. k.kind = "edit" => EditAlone(task[t])'
      BY <1>2, <3>1, <3>2 DEF EditAlone, Pending, BeforeCap, HasSource, Inserted, Reclaiming, Capping,
                              Listing, DropRow
    <3>5. Alone(task[t])'
      BY <1>1, <3>1, <3>2, <3>4 DEF Alone, Kinds, DropRow
    <3>6. JobKept(t)
      BY <3>1 DEF DropRow, JobKept
    <3> QED  BY <1>1, <3>2, <3>3, <3>5, <3>6, AloneContinues
  <2>2. CASE k.cur \notin songs
    BY <1>4, <1>8, <2>2 DEF DeleteRow
  <2> QED  BY <2>1, <2>2
<1>9. CASE Unlink(t)
  <2>1. /\ files' = files \ {k.cur} /\ Resume(t, TRUE)
        /\ UNCHANGED <<rows, library, users, job, next>> /\ k.cur \notin songs
    BY <1>0, <1>9 DEF Unlink, Alone
  <2>2. RefsLive' /\ SongHasFile'
    BY <1>0, <2>1 DEF RefsLive, SongHasFile, rows
  <2>3. /\ Alone(m) /\ m.pc # "report"
        /\ m.kind = "edit" => k.kind = "edit" /\ m.user = k.user
    BY <1>1, <2>1, ResumeAlone
  <2>4. m.pc # "insert"
    BY <1>0, <1>1, <2>1 DEF Resume, Goto, End, Idle, Task, Kinds, TaskState
  <2>5. Alone(task[t])'
    BY <2>1, <2>3, <2>4, SameStore
  <2> QED  BY <1>1, <2>1, <2>2, <2>3, <2>5, AloneContinues DEF JobKept
<1> QED  BY <1>6, <1>7, <1>8, <1>9 DEF Reclaim

LEMMA SerialRequestSteps ==
  ASSUME TypeOK, TypeOK', SerialInv, NEW t \in Tasks, OnlyTask(t), RequestStep(t)
  PROVE  SerialInv'
<1> USE DEF At
<1> DEFINE k == task[t]
           m == task'[t]
<1>0. /\ task \in [Tasks -> TaskState] /\ k \in TaskState
      /\ RowsOK /\ RefsLive /\ SongHasFile
  BY DEF TypeOK, TasksOK, SerialInv
<1>1. k.kind \in {"restore", "publish"} /\ k.pc # "idle"
  BY DEF RequestStep, RestoreUnlist, RestoreWalk, PublishWalk, PublishUpdate
<1>2. \/ m = Idle
      \/ m.kind = k.kind /\ m.pc \in {"list", "walk", "count_library", "publish"}
  BY <1>0 DEF RequestStep, RestoreUnlist, RestoreWalk, PublishWalk, PublishUpdate,
              Goto, End, TaskState
<1>3. m.kind # "edit" /\ m.pc # "report" /\ Alone(task[t])'
  <2>1. CASE m = Idle
    BY <2>1 DEF Idle, Task, Alone
  <2>2. CASE m.kind = k.kind /\ m.pc \in {"list", "walk", "count_library", "publish"}
    BY <1>1, <2>2 DEF Alone
  <2> QED  BY <1>2, <2>1, <2>2
<1>4. RefsLive' /\ SongHasFile'
  <2>1. /\ songs' = songs /\ files' = files /\ next' = next
        /\ \A s \in Songs : parent'[s] \in {parent[s], NULL} /\ root'[s] \in {root[s], NULL}
    BY <1>0 DEF RequestStep, RestoreUnlist, RestoreWalk, PublishWalk, PublishUpdate,
                rows, RowsOK
  <2> QED  BY <1>0, <2>1 DEF RefsLive, SongHasFile, Maybe
<1>5. JobKept(t)
  BY DEF RequestStep, RestoreUnlist, RestoreWalk, PublishWalk, PublishUpdate, JobKept
<1> QED  BY <1>1, <1>3, <1>4, <1>5, AloneContinues

\* A request finds nothing under way.
LEMMA SerialRequests ==
  ASSUME ~Overlap, TypeOK, TypeOK', SerialInv, NEW t \in Tasks, OnlyTask(t), Request(t)
  PROVE  SerialInv'
<1>0. /\ task \in [Tasks -> TaskState] /\ JobsOK /\ RowsOK /\ RefsLive /\ SongHasFile
  BY DEF TypeOK, TasksOK, SerialInv
<1>1. AllIdle
  <2>1. Accept(t)
    BY DEF Request, CreateEditJob, Publish, DeleteDownload, Restore
  <2> QED  BY <2>1, Zenon DEF Accept
<1>2. ASSUME NEW u \in Users, NEW s \in Songs, CreateEditJob(t, u, s) PROVE SerialInv'
  <2> DEFINE n == Task("edit", "begin", u, s, next)
             j == [status |-> "pending", source |-> s, user |-> u, result |-> NULL]
  <2>1. /\ n.kind = "edit" /\ n.pc = "begin" /\ n.user = u /\ n.src = s /\ n.tgt = next
        /\ j.user = u
    BY DEF Task
  <2>2. /\ task'[t] = n /\ job'[t] = j /\ next' = next + 1
        /\ u \in users /\ s \in songs /\ UNCHANGED <<rows, files, library, users>>
    BY <1>0, <1>2 DEF CreateEditJob, JobsOK
  <2>3. next \in Nat /\ next \notin songs /\ songs \subseteq Nat
    <3>1. next \in Nat /\ songs \subseteq Nat
      BY <1>0, StoreAssumption DEF TypeOK, RowsOK, Songs
    <3> QED  BY <1>0, <3>1 DEF RefsLive
  <2> HIDE DEF n, j
  <2>4. RefsLive' /\ SongHasFile'
    <3>1. \A x \in songs : x < next + 1
      BY <1>0, <2>3 DEF RefsLive
    <3> QED  BY <1>0, <2>2, <3>1 DEF RefsLive, SongHasFile, rows
  <2>5. Alone(task[t])'
    BY <2>1, <2>2, <2>3 DEF Alone, EditAlone, Pending, BeforeCap, HasSource, Inserted, Reclaiming,
                            Capping, Listing, rows
  <2>6. JobAlone(t)'
    BY <2>1, <2>2 DEF JobAlone
  <2> QED  BY <1>1, <2>4, <2>5, <2>6, AloneStep
<1>3. ASSUME UNCHANGED <<rows, files, library, users, job, next>>,
             task'[t].kind \in {"publish", "delete", "restore"},
             \/ task'[t].pc \in {"walk", "unlist"}
             \/ task'[t].pc = "count_children" /\ task'[t].kind = "delete"
      PROVE  SerialInv'
  <2>1. RefsLive' /\ SongHasFile'
    BY <1>0, <1>3 DEF RefsLive, SongHasFile, rows
  <2>2. Alone(task[t])'
    BY <1>3 DEF Alone
  <2>3. JobAlone(t)'
    BY <1>3 DEF JobAlone
  <2> QED  BY <1>1, <2>1, <2>2, <2>3, AloneStep
<1>4. ASSUME NEW u \in Users, NEW s \in Songs, Publish(t, u, s) PROVE SerialInv'
  BY <1>0, <1>3, <1>4 DEF Publish, Task
<1>5. ASSUME NEW s \in Songs, DeleteDownload(t, s) PROVE SerialInv'
  BY <1>0, <1>3, <1>5 DEF DeleteDownload, Task
<1>6. ASSUME NEW u \in Users, NEW s \in Songs, NEW g \in Songs, Restore(t, u, s, g)
      PROVE  SerialInv'
  BY <1>0, <1>3, <1>6 DEF Restore, Task
<1> QED  BY <1>2, <1>4, <1>5, <1>6 DEF Request

\* Steps after which no task is under way.
LEMMA SerialAtRest ==
  ASSUME SerialInv, \A t \in Tasks : task'[t].pc = "idle" /\ task'[t].kind = "none",
         UNCHANGED <<rows, files, next>>
  PROVE  SerialInv'
<1>1. RefsLive' /\ SongHasFile'
  BY DEF SerialInv, RefsLive, SongHasFile, rows
<1>2. OneAtATime' /\ \A t \in Tasks : Alone(task[t])' /\ JobAlone(t)'
  BY DEF OneAtATime, Alone, JobAlone
<1> QED  BY <1>1, <1>2 DEF SerialInv

LEMMA SerialInit == Init => SerialInv
<1> SUFFICES ASSUME Init PROVE SerialInv
  OBVIOUS
<1>1. \A t \in Tasks : task[t].kind = "none" /\ task[t].pc = "idle"
  BY DEF Init, Idle, Task
<1>2. RefsLive /\ SongHasFile
  BY StoreAssumption DEF Init, RefsLive, SongHasFile, Songs, Maybe
<1>3. OneAtATime /\ \A t \in Tasks : Alone(task[t]) /\ JobAlone(t)
  BY <1>1 DEF OneAtATime, Alone, JobAlone
<1> QED  BY <1>1, <1>2, <1>3 DEF SerialInv

LEMMA SerialStep ==
  ASSUME Undisturbed, TypeOK, SerialInv, [Next]_vars
  PROVE  SerialInv'
<1>0. TypeOK'
  BY TypeStep
<1>1. CASE UNCHANGED vars
  BY <1>1 DEF vars, SerialInv, OneAtATime, RefsLive, SongHasFile, Alone, EditAlone, Capped,
              LibraryRefs, ChildRefs, JobAlone
<1>2. ASSUME NEW t \in Tasks, TaskStep(t) \/ Request(t) PROVE SerialInv'
  <2>1. OnlyTask(t)
    BY <1>2, OneTask
  <2> QED  BY <1>0, <1>2, <2>1, SerialEdits, SerialLists, SerialReclaims, SerialRequestSteps,
              SerialRequests DEF TaskStep, Undisturbed
<1>3. CASE \/ \E u \in Users, s \in Songs : AddToLibrary(u, s) \/ RemoveFromLibrary(u, s)
           \/ \E u \in Users : DeleteUser(u)
  <2>1. AllIdle /\ task' = task /\ UNCHANGED <<rows, files, next>>
    BY <1>3 DEF AddToLibrary, RemoveFromLibrary, DeleteUser, Undisturbed
  <2>2. \A t \in Tasks : task'[t].pc = "idle" /\ task'[t].kind = "none"
    BY <2>1 DEF AllIdle, SerialInv, Alone
  <2> QED  BY <2>1, <2>2, SerialAtRest
<1>4. CASE Crash
  <2>1. \A t \in Tasks : task'[t].pc = "idle" /\ task'[t].kind = "none"
    BY <1>4 DEF Crash, Idle, Task
  <2> QED  BY <1>4, <2>1, SerialAtRest DEF Crash
<1>5. \A t \in Tasks : ~Refused(t)
  BY DEF Refused, Undisturbed
<1> QED  BY <1>1, <1>2, <1>3, <1>4, <1>5 DEF Next

LEMMA SerialCorrect ==
  ASSUME Undisturbed
  PROVE  Spec => [](TypeOK /\ SerialInv)
<1>1. TypeOK /\ SerialInv /\ [Next]_vars => TypeOK' /\ SerialInv'
  BY SerialStep, TypeStep
<1>2. Init => TypeOK /\ SerialInv
  BY SerialInit, TypeInit
<1> QED  BY <1>1, <1>2, PTL DEF Spec

\* As long as handlers do not overlap and the database takes their statements, every
\* song has its file: no clean-up, no deletion and no failed edit removes the file of
\* a song that has a row, for all operations, on any songs, with users deleted and the
\* process dying meanwhile.
THEOREM SongsKeepFiles ==
  ASSUME Undisturbed
  PROVE  Spec => []SongHasFile
<1>1. TypeOK /\ SerialInv => SongHasFile
  BY DEF SerialInv
<1> QED  BY <1>1, SerialCorrect, PTL

\* And the two-edit cap is kept: an edit that finishes leaves its source right
\* under the root, unless another library or another edit needs the one between.
THEOREM CapIsKept ==
  ASSUME Undisturbed
  PROVE  Spec => TwoEditCap
<1>1. TypeOK /\ SerialInv =>
        \A t \in Tasks : At(t, "edit", "finish") => Capped(task[t])
  BY DEF SerialInv, Alone, EditAlone, At, Listing
<1>2. TypeOK /\ SerialInv /\ [Next]_vars =>
        [\A t \in Tasks :
            At(t, "edit", "finish") /\ task[t].src \in songs =>
               LET p == parent[task[t].src] IN
               \/ p \in {NULL, task[t].root}
               \/ LibraryRefs(p) # {}
               \/ ChildRefs(p) # {task[t].src}]_vars
  BY <1>1 DEF Capped
<1> QED  BY <1>2, SerialCorrect, PTL DEF Spec, TwoEditCap

\* Only the last step of an edit makes its job done.
LEMMA DoneByReport ==
  ASSUME TypeOK, Next, NEW t \in Tasks, ~Done(t), Done(t)'
  PROVE  EditReport(t)
<1>0. JobsOK
  BY DEF TypeOK
<1>1. job'[t] # job[t] /\ job'[t] # NULL /\ job'[t].status = "done"
  BY DEF Done
<1>2. ASSUME NEW x \in Tasks, NEW s \in {"pending", "processing", "failed"},
             UpdateJob(x, s, NULL)
      PROVE  FALSE
  <2>1. /\ job[x] = NULL => job' = job
        /\ job[x] # NULL => job'[x] # NULL /\ job'[x].status = s
        /\ \A y \in Tasks \ {x} : job'[y] = job[y]
    BY <1>0, <1>2, UpdateJobStatus DEF Maybe
  <2> QED  BY <1>1, <2>1
<1>3. ASSUME NEW x \in Tasks, EditStep(x) PROVE EditReport(t)
  <2>1. CASE EditReport(x)
    <3>1. \A y \in Tasks \ {x} : job'[y] = job[y]
      BY <1>0, <2>1 DEF EditReport, UpdateJob, JobsOK
    <3> QED  BY <1>1, <2>1, <3>1
  <2>2. CASE EditMark(x) \/ EditRead(x) \/ EditFailed(x)
    BY <1>1, <1>2, <2>2 DEF EditMark, EditRead, EditFailed
  <2>3. CASE \/ EditBegin(x) \/ EditReadRoot(x) \/ EditRender(x) \/ EditInsert(x)
             \/ EditUnlist(x) \/ EditReparent(x) \/ EditAttach(x) \/ EditFinish(x) \/ EditFail(x)
    BY <1>1, <2>3 DEF EditBegin, EditReadRoot, EditRender, EditInsert, EditUnlist, EditReparent,
                      EditAttach, EditFinish, EditFail
  <2> QED  BY <1>3, <2>1, <2>2, <2>3 DEF EditStep
<1>4. ASSUME NEW x \in Tasks, Reclaim(x) PROVE FALSE
  BY <1>1, <1>4 DEF Reclaim, CountLibrary, CountChildren, DeleteRow, DropRow, Unlink
<1>5. ASSUME NEW x \in Tasks, RequestStep(x) \/ List(x) \/ Refused(x) PROVE FALSE
  BY <1>1, <1>5 DEF RequestStep, RestoreUnlist, RestoreWalk, PublishWalk, PublishUpdate, List,
                    ListSelect, ListInsert, ListRefresh, Refused
<1>6. ASSUME NEW x \in Tasks, Request(x) PROVE FALSE
  <2>1. ASSUME NEW u \in Users, NEW s \in Songs, CreateEditJob(x, u, s) PROVE FALSE
    BY <1>0, <1>1, <2>1 DEF CreateEditJob, JobsOK
  <2> QED  BY <1>1, <1>6, <2>1 DEF Request, Publish, DeleteDownload, Restore
<1>7. ASSUME \/ \E u \in Users, s \in Songs : AddToLibrary(u, s) \/ RemoveFromLibrary(u, s)
             \/ \E u \in Users : DeleteUser(u)
             \/ Crash
      PROVE  FALSE
  BY <1>1, <1>7 DEF AddToLibrary, RemoveFromLibrary, DeleteUser, Crash
<1> QED  BY <1>3, <1>4, <1>5, <1>6, <1>7 DEF Next, TaskStep

LEMMA DoneIsListed ==
  ASSUME TypeOK, SerialInv, Next, NEW t \in Tasks, ~Done(t), Done(t)'
  PROVE  /\ job'[t].result \in songs' \cap files'
         /\ <<job'[t].user, job'[t].result>> \in library'
<1> DEFINE k == task[t]
<1>1. EditReport(t)
  BY DoneByReport
<1>2. /\ k.tgt \in songs /\ k.tgt # NULL /\ <<k.user, k.tgt>> \in library
      /\ job[t] # NULL => job[t].user = k.user
      /\ songs \subseteq files
  BY <1>1, NullNotSong DEF EditReport, At, SerialInv, Alone, EditAlone, JobAlone, Inserted, Entry,
                           SongHasFile, TypeOK, RowsOK
<1>3. UNCHANGED <<rows, files, library>> /\ UpdateJob(t, "done", k.tgt)
  BY <1>1 DEF EditReport
<1>4. job[t] # NULL
  BY <1>3 DEF UpdateJob, Done
<1>5. job'[t] = [job[t] EXCEPT !.status = "done", !.result = k.tgt]
  BY <1>2, <1>3, <1>4 DEF UpdateJob, TypeOK, JobsOK
<1>6. job[t] \in JobRow
  BY <1>4 DEF TypeOK, JobsOK, Maybe
<1>7. job'[t].result = k.tgt /\ job'[t].user = job[t].user
  BY <1>5, <1>6 DEF JobRow
<1> QED  BY <1>2, <1>3, <1>4, <1>7 DEF rows

\* A job that becomes done has its result in the library of its user, with a row
\* and a file: the clean-up in between deletes neither.
THEOREM DoneJobsAreListed ==
  ASSUME Undisturbed
  PROVE  Spec => DoneMeansListed
<1>1. TypeOK /\ SerialInv /\ [Next]_vars =>
        [\A t \in Tasks :
            ~Done(t) /\ Done(t)' =>
               LET r == job'[t].result IN
               r \in songs' \cap files' /\ <<job'[t].user, r>> \in library']_vars
  BY DoneIsListed
<1> QED  BY <1>1, SerialCorrect, PTL DEF Spec, DoneMeansListed

-----------------------------------------------------------------------------
(* Restores.  With one handler at a time nobody takes the target away        *)
(* between the two commits of a restore, and the walk that follows looks at  *)
(* every song but the target.                                                *)

RestoreAlone(k) ==
    k.kind = "restore" =>
       /\ k.user \in users /\ k.tgt \in songs
       /\ k.pc = "enlist" => Entry(k) \notin library
       /\ k.pc \in Reclaiming \cup {"refresh", "walk"} => Entry(k) \in library
       /\ k.pc \in Reclaiming => k.cur # k.tgt
       /\ k.pc \in Reclaiming \cup Listing \cup {"unlist", "walk"}

RestoresInv == \A t \in Tasks : RestoreAlone(task[t])

\* A step of the only task: what it leaves behind must be right for itself.
LEMMA RestoreOneTask ==
  ASSUME SerialInv, SerialInv', NEW t \in Tasks, OnlyTask(t),
         task[t].pc # "idle" \/ AllIdle, RestoreAlone(task[t])'
  PROVE  RestoresInv'
<1>1. \A x \in Tasks \ {t} : task'[x].kind = "none"
  BY DEF SerialInv, OneAtATime, AllIdle, Alone, OnlyTask
<1> QED  BY <1>1 DEF RestoresInv, RestoreAlone

LEMMA RestoreReclaims ==
  ASSUME TypeOK, RestoresInv, NEW t \in Tasks, Reclaim(t)
  PROVE  RestoreAlone(task[t])'
<1> DEFINE k == task[t]
           m == task'[t]
<1>1. k \in TaskState /\ task \in [Tasks -> TaskState] /\ users' = users /\ k.pc \in Reclaiming
  BY DEF TypeOK, TasksOK, Reclaim, CountLibrary, CountChildren, DeleteRow, Unlink, Reclaiming
<1>2. SUFFICES ASSUME m.kind = "restore" PROVE RestoreAlone(task[t])'
  BY DEF RestoreAlone
<1>3. /\ k.kind = "restore" /\ m.user = k.user /\ m.tgt = k.tgt
      /\ \/ m.pc \in Reclaiming /\ m.cur = k.cur
         \/ m.pc = "walk"
  BY <1>1, <1>2
     DEF Reclaim, CountLibrary, CountChildren, DeleteRow, Unlink, Resume, Goto, End, Idle, Task,
         TaskState, Reclaiming
<1>4. /\ k.user \in users /\ k.tgt \in songs /\ <<k.user, k.tgt>> \in library
      /\ k.cur # k.tgt
  BY <1>1, <1>3 DEF RestoresInv, RestoreAlone, Entry
<1>5. k.tgt \in songs' /\ <<k.user, k.tgt>> \in library'
  <2>1. CASE songs' = songs /\ library' = library
    BY <1>4, <2>1
  <2>2. CASE /\ songs' = songs \ {k.cur}
             /\ library' = {e \in library : e[2] # k.cur}
    BY <1>4, <2>2
  <2> QED
    BY <2>1, <2>2 DEF Reclaim, CountLibrary, CountChildren, DeleteRow, DropRow, Unlink, rows
<1> QED  BY <1>1, <1>3, <1>4, <1>5 DEF RestoreAlone, Reclaiming, Entry

\* add_to_library finds the user and the target there, and no other request between
\* its statements.
LEMMA RestoreLists ==
  ASSUME TypeOK, RestoresInv, NEW t \in Tasks, List(t)
  PROVE  RestoreAlone(task[t])'
<1> DEFINE k == task[t]
           m == task'[t]
<1>1. /\ k \in TaskState /\ task \in [Tasks -> TaskState] /\ k.pc \in Listing
      /\ songs' = songs /\ users' = users
  BY ListIs DEF TypeOK, TasksOK, rows
<1>2. SUFFICES ASSUME k.kind = "restore" PROVE RestoreAlone(task[t])'
  <2>1. k.kind = "edit" => \E pc \in {"finish", "fail", "enlist", "refresh"} : Goto(t, pc)
    BY ListIs DEF Listed, NotListed
  <2>2. k.kind = "edit" => m.kind = "edit"
    BY <1>1, <2>1 DEF Goto, TaskState
  <2>3. k.kind \in {"edit", "restore"}
    BY ListIs
  <2> QED  BY <2>2, <2>3 DEF RestoreAlone
<1>3. /\ k.user \in users /\ k.tgt \in songs
      /\ k.pc = "enlist" => Entry(k) \notin library
      /\ k.pc = "refresh" => Entry(k) \in library
  BY <1>2 DEF RestoresInv, RestoreAlone
<1>4. PICK pc \in {"enlist", "refresh", "walk"} :
         /\ \/ Goto(t, pc)
            \/ task' = [task EXCEPT ![t].cur = k.src, ![t].pc = pc]
         /\ pc = "enlist" => Entry(k) \notin library'
         /\ pc # "enlist" => Entry(k) \in library'
  BY <1>1, <1>2, <1>3 DEF List, ListSelect, ListInsert, ListRefresh, Listed
<1>5. m.kind = "restore" /\ m.user = k.user /\ m.tgt = k.tgt /\ m.pc = pc
  BY <1>1, <1>2, <1>4 DEF Goto, TaskState
<1> QED  BY <1>1, <1>3, <1>4, <1>5 DEF RestoreAlone, Reclaiming, Listing, Entry

LEMMA RestoreRequestSteps ==
  ASSUME TypeOK, RestoresInv, NEW t \in Tasks, RequestStep(t)
  PROVE  RestoreAlone(task[t])'
<1> USE DEF At
<1> DEFINE k == task[t]
           m == task'[t]
<1>1. k \in TaskState /\ task \in [Tasks -> TaskState]
  BY DEF TypeOK, TasksOK
<1>2. songs' = songs /\ users' = users
  BY DEF RequestStep, RestoreUnlist, RestoreWalk, PublishWalk, PublishUpdate, rows
<1>3. SUFFICES ASSUME m.kind = "restore" PROVE RestoreAlone(task[t])'
  BY DEF RestoreAlone
<1>4. /\ RestoreUnlist(t) \/ RestoreWalk(t)
      /\ k.kind = "restore" /\ m.user = k.user /\ m.tgt = k.tgt
  BY <1>1, <1>3 DEF RequestStep, RestoreUnlist, RestoreWalk, PublishWalk,
                    PublishUpdate, Goto, End, Idle, Task, TaskState
<1>5. k.user \in users /\ k.tgt \in songs
  BY <1>4 DEF RestoresInv, RestoreAlone
<1>6. CASE RestoreUnlist(t)
  <2>1. m.pc = "list"
    BY <1>1, <1>6 DEF RestoreUnlist, Goto, TaskState
  <2> QED  BY <1>2, <1>4, <1>5, <2>1 DEF RestoreAlone, Reclaiming, Listing
<1>7. CASE RestoreWalk(t)
  <2>1. Entry(k) \in library /\ library' = library
    BY <1>4, <1>7 DEF RestoreWalk, RestoresInv, RestoreAlone
  <2>2. m.pc = "count_library" /\ m.cur = k.cur /\ k.cur # k.tgt
    BY <1>1, <1>3, <1>7 DEF RestoreWalk, End, Idle, Task, TaskState
  <2> QED  BY <1>2, <1>4, <1>5, <2>1, <2>2 DEF RestoreAlone, Reclaiming, Entry
<1> QED  BY <1>4, <1>6, <1>7

LEMMA RestoreStep ==
  ASSUME Undisturbed, TypeOK, SerialInv, RestoresInv, [Next]_vars
  PROVE  RestoresInv'
<1>0. SerialInv' /\ task \in [Tasks -> TaskState]
  BY SerialStep DEF TypeOK, TasksOK
<1>1. CASE UNCHANGED vars
  BY <1>1 DEF vars, rows, RestoresInv, RestoreAlone
<1>2. ASSUME NEW t \in Tasks, TaskStep(t) PROVE RestoresInv'
  <2>1. OnlyTask(t) /\ task[t].pc # "idle"
    <3>1. OnlyTask(t)
      BY <1>2, OneTask
    <3>2. task[t].pc # "idle"
      BY <1>2 DEF TaskStep, EditStep, EditBegin, EditMark, EditRead, EditReadRoot, EditRender,
         EditInsert, EditUnlist, EditReparent, EditAttach, EditFinish, EditReport, EditFail,
         EditFailed, List, ListSelect, ListInsert, ListRefresh, Reclaim, CountLibrary,
         CountChildren, DeleteRow, Unlink, RequestStep, RestoreUnlist, RestoreWalk, PublishWalk,
         PublishUpdate, At
    <3> QED  BY <3>1, <3>2
  <2>2. RestoreAlone(task[t])'
    <3>1. CASE EditStep(t)
      <4>1. task'[t].kind # "restore"
        BY <1>0, <3>1 DEF EditStep, EditBegin, EditMark, EditRead, EditReadRoot, EditRender,
           EditInsert, EditUnlist, EditReparent, EditAttach, EditFinish, EditReport, EditFail,
           EditFailed, At, Goto, End, Idle, Task, TaskState
      <4> QED  BY <4>1 DEF RestoreAlone
    <3> QED  BY <1>2, <3>1, RestoreLists, RestoreReclaims, RestoreRequestSteps DEF TaskStep
  <2> QED  BY <1>0, <2>1, <2>2, RestoreOneTask
<1>3. ASSUME NEW t \in Tasks, Request(t) PROVE RestoresInv'
  <2>1. OnlyTask(t)
    BY <1>3, OneTask
  <2>2. AllIdle
    <3>1. Accept(t)
      BY <1>3 DEF Request, CreateEditJob, Publish, DeleteDownload, Restore
    <3> QED  BY <3>1, Zenon DEF Accept, Undisturbed
  <2>3. RestoreAlone(task[t])'
    <3>1. CASE \E u \in Users, s \in Songs, g \in Songs : Restore(t, u, s, g)
      BY <1>0, <3>1 DEF Restore, Task, RestoreAlone, Reclaiming, Listing, rows
    <3>2. ASSUME NEW u \in Users, NEW s \in Songs,
                 CreateEditJob(t, u, s) \/ Publish(t, u, s)
          PROVE  RestoreAlone(task[t])'
      <4>1. task'[t].kind # "restore"
        <5>1. CASE CreateEditJob(t, u, s)  BY <1>0, <5>1 DEF CreateEditJob, Task
        <5>2. CASE Publish(t, u, s)  BY <1>0, <5>2 DEF Publish, Task
        <5> QED  BY <3>2, <5>1, <5>2
      <4> QED  BY <4>1 DEF RestoreAlone
    <3>3. ASSUME NEW s \in Songs, DeleteDownload(t, s) PROVE RestoreAlone(task[t])'
      <4>1. task'[t].kind # "restore"
        BY <1>0, <3>3 DEF DeleteDownload, Task
      <4> QED  BY <4>1 DEF RestoreAlone
    <3> QED  BY <1>3, <3>1, <3>2, <3>3 DEF Request
  <2> QED  BY <1>0, <2>1, <2>2, <2>3, RestoreOneTask
<1>4. CASE \/ \E u \in Users, s \in Songs : AddToLibrary(u, s) \/ RemoveFromLibrary(u, s)
           \/ \E u \in Users : DeleteUser(u)
  <2>1. AllIdle /\ task' = task
    BY <1>4 DEF AddToLibrary, RemoveFromLibrary, DeleteUser, Undisturbed
  <2>2. \A t \in Tasks : task'[t].kind = "none"
    BY <2>1 DEF AllIdle, SerialInv, Alone
  <2> QED  BY <2>2 DEF RestoresInv, RestoreAlone
<1>5. CASE Crash
  BY <1>5 DEF Crash, Idle, Task, RestoresInv, RestoreAlone
<1>6. \A t \in Tasks : ~Refused(t)
  BY DEF Refused, Undisturbed
<1> QED  BY <1>1, <1>2, <1>3, <1>4, <1>5, <1>6 DEF Next

\* Where a restore ends while the process lives: at the end of its walk.
LEMMA RestoreEnds ==
  ASSUME Ops \cap {"crash", "outage"} = {}, TypeOK, RestoresInv, Next, NEW t \in Tasks,
         task[t].kind = "restore", task'[t].kind # "restore"
  PROVE  RestoreWalk(t)
<1>0. task \in [Tasks -> TaskState] /\ task'[t] # task[t]
  BY DEF TypeOK, TasksOK
<1>1. TaskStep(t) \/ Request(t)
  <2>1. PICK x \in Tasks : TaskStep(x) \/ Request(x)
    BY <1>0 DEF Next, AddToLibrary, RemoveFromLibrary, DeleteUser, Crash, Refused
  <2>2. x = t
    BY <1>0, <2>1, OneTask DEF OnlyTask
  <2> QED  BY <2>1, <2>2
<1>2. task[t].pc # "idle" /\ task[t].user \in users /\ task[t].tgt \in songs
  BY DEF RestoresInv, RestoreAlone, Reclaiming, Listing
<1>3. ~Request(t)
  BY <1>2 DEF Request, CreateEditJob, Publish, DeleteDownload, Restore, Accept
<1>4. ~EditStep(t)
  BY DEF EditStep, EditBegin, EditMark, EditRead, EditReadRoot, EditRender, EditInsert, EditUnlist,
         EditReparent, EditAttach, EditFinish, EditReport, EditFail, EditFailed, At
<1>5. ~Reclaim(t)
  BY <1>0 DEF Reclaim, CountLibrary, CountChildren, DeleteRow, Unlink, Resume, Goto, TaskState
<1>6. ~RestoreUnlist(t) /\ ~PublishWalk(t) /\ ~PublishUpdate(t)
  BY <1>0, <1>2 DEF RestoreUnlist, PublishWalk, PublishUpdate, Goto, At, TaskState
<1>7. ~List(t)
  <2>1. RestoreAlone(task[t]) /\ task[t] \in TaskState
    BY DEF RestoresInv, TypeOK, TasksOK
  <2>2. List(t) => task'[t].kind = "restore"
    BY <1>0, <2>1 DEF List, ListSelect, ListInsert, ListRefresh, Listed, RestoreAlone, Goto, TaskState
  <2> QED  BY <2>2
<1> QED  BY <1>1, <1>3, <1>4, <1>5, <1>6, <1>7 DEF TaskStep, RequestStep

\* A restore leaves its target in the library of its user, with a row and a file,
\* whatever songs it is applied to: the library entry it takes out first, and the
\* songs its walk reclaims, are never those of the target.
THEOREM RestoresAreListed ==
  ASSUME ~Overlap, Ops \cap {"crash", "outage"} = {}
  PROVE  Spec => RestoreMeansListed
<1>0. Undisturbed
  BY DEF Undisturbed
<1>1. Init => RestoresInv
  BY DEF Init, Idle, Task, RestoresInv, RestoreAlone
<1>2. TypeOK /\ SerialInv /\ RestoresInv /\ [Next]_vars => RestoresInv'
  BY <1>0, RestoreStep
<1>3. TypeOK /\ SerialInv /\ RestoresInv /\ [Next]_vars =>
        [\A t \in Tasks :
            task[t].kind = "restore" /\ task'[t].kind # "restore" =>
               LET k == task[t] IN
               k.tgt \in songs' \cap files' /\ <<k.user, k.tgt>> \in library']_vars
  <2> SUFFICES ASSUME TypeOK, SerialInv, RestoresInv, Next, NEW t \in Tasks,
                      task[t].kind = "restore", task'[t].kind # "restore"
               PROVE  LET k == task[t] IN
                      k.tgt \in songs' \cap files' /\ <<k.user, k.tgt>> \in library'
    OBVIOUS
  <2>1. RestoreWalk(t)
    BY RestoreEnds
  <2>2. UNCHANGED <<rows, files, library>> /\ task[t].pc = "walk"
    BY <2>1 DEF RestoreWalk, At
  <2>3. songs' = songs /\ songs \subseteq files
    BY <2>2 DEF rows, SerialInv, SongHasFile
  <2> QED  BY <2>2, <2>3 DEF RestoresInv, RestoreAlone, Entry
<1> QED  BY <1>0, <1>1, <1>2, <1>3, SerialCorrect, PTL DEF Spec, RestoreMeansListed

\* Edits and restores alike end with what they promised in the library.
THEOREM WorkStaysListed ==
  ASSUME ~Overlap, Ops \cap {"crash", "outage"} = {}
  PROVE  Spec => WorkIsListed
BY DoneJobsAreListed, RestoresAreListed DEF WorkIsListed, Undisturbed

-----------------------------------------------------------------------------
(* The way to the root.  Without publish, crash and outage, a chain of edits *)
(* always leads to its root: what a restore or a deletion takes away has no  *)
(* children, and the cap's own gap is closed before it ends.                 *)

Unharmed == ~Overlap /\ Ops \cap {"publish", "crash", "outage"} = {}

\* The cap has deleted the parent of s and is about to give it another one.
Gap(k, s) == k.kind = "edit" /\ k.pc \in {"unlink", "reparent", "attach"} /\ k.src = s

RootedRows ==
    \A s \in songs :
       /\ root[s] # NULL => root[s] < s /\ root[root[s]] = NULL
       /\ parent[s] # NULL => parent[s] < s /\ root[s] = RootOf(root, parent[s])
       /\ parent[s] = NULL => root[s] = NULL \/ \E t \in Tasks : Gap(task[t], s)

\* What a task knows of the chain it works on.
InChain(k) ==
    /\ k.kind # "publish"
    /\ k.kind = "edit" =>
          /\ k.pc \in Pending => k.src < k.tgt
          /\ k.pc \in HasSource \cup BeforeCap \cup Capping =>
                k.src \in songs /\ k.root = RootOf(root, k.src)
          /\ k.pc \in Capping => root[k.src] # NULL
    /\ k.pc = "delete_row" => ChildRefs(k.cur) \subseteq Excluded(k)

RootedInv == RootedRows /\ \A t \in Tasks : InChain(task[t])

\* A set of numbers has a least one.
LEMMA Least ==
  ASSUME NEW T \in SUBSET Nat, T # {}
  PROVE  \E x \in T : \A y \in T : x =< y
<1> DEFINE R == OpToRel(<, Nat)
<1>1. IsWellFoundedOn(R, Nat)
  BY NatLessThanWellFounded
<1>2. \A x, y \in T : y < x => <<y, x>> \in R
  BY DEF OpToRel
<1> HIDE DEF R
<1>3. PICK x \in T : \A y \in T : ~ (<<y, x>> \in R)
  BY <1>1, WFMin
<1>4. \A y \in T : ~(y < x)
  BY <1>2, <1>3
<1> QED  BY <1>4

LEMMA OthersIdle ==
  ASSUME SerialInv, NEW t \in Tasks, task[t].pc # "idle" \/ AllIdle
  PROVE  \A x \in Tasks \ {t} : task[x].pc = "idle" /\ task[x].kind = "none"
BY DEF SerialInv, OneAtATime, AllIdle, Alone

LEMMA RootedStep ==
  ASSUME SerialInv, NEW t \in Tasks, OnlyTask(t), task[t].pc # "idle" \/ AllIdle,
         RootedRows', InChain(task[t])'
  PROVE  RootedInv'
<1>1. \A x \in Tasks \ {t} : task'[x].pc = "idle" /\ task'[x].kind = "none"
  BY OthersIdle DEF OnlyTask
<1>2. \A x \in Tasks \ {t} : InChain(task[x])'
  BY <1>1 DEF InChain
<1> QED  BY <1>2 DEF RootedInv

\* Most steps change no row of songs.
LEMMA RootedQuiet ==
  ASSUME SerialInv, RootedInv, NEW t \in Tasks, OnlyTask(t), task[t].pc # "idle" \/ AllIdle,
         UNCHANGED rows, InChain(task'[t]),
         \A s \in songs : Gap(task[t], s) => Gap(task'[t], s)
  PROVE  RootedInv'
<1>1. songs' = songs /\ parent' = parent /\ root' = root
  BY DEF rows
<1>2. InChain(task[t])'
  BY <1>1 DEF InChain, ChildRefs
<1>3. \A s \in songs : (\E x \in Tasks : Gap(task[x], s)) => \E x \in Tasks : Gap(task'[x], s)
  BY DEF OnlyTask
<1>4. RootedRows'
  <2> SUFFICES ASSUME NEW s \in songs
               PROVE  /\ root[s] # NULL => root[s] < s /\ root[root[s]] = NULL
                      /\ parent[s] # NULL => parent[s] < s /\ root[s] = RootOf(root, parent[s])
                      /\ parent[s] = NULL => root[s] = NULL \/ \E x \in Tasks : Gap(task'[x], s)
    BY <1>1 DEF RootedRows
  <2> QED  BY <1>3 DEF RootedInv, RootedRows
<1> QED  BY <1>2, <1>4, RootedStep

\* An edit enters below its source.
LEMMA RootedInsert ==
  ASSUME TypeOK, SerialInv, RootedInv, NEW t \in Tasks, OnlyTask(t), EditInsert(t)
  PROVE  RootedInv'
<1> DEFINE k == task[t]
           m == task'[t]
<1> USE DEF At
<1>0. /\ task \in [Tasks -> TaskState] /\ k \in TaskState /\ HasFields(k)
      /\ RowsOK /\ RefsLive /\ k.kind = "edit" /\ k.pc = "insert" /\ EditAlone(k) /\ InChain(k)
      /\ RootedRows
  BY DEF TypeOK, TasksOK, SerialInv, EditInsert, Alone, RootedInv
<1>1. /\ k.src \in songs /\ k.root \in songs /\ k.tgt \notin songs /\ k.src < k.tgt
      /\ k.root = RootOf(root, k.src) /\ k.tgt \in Songs /\ k.src \in Songs
  BY <1>0 DEF EditAlone, InChain, Pending, HasSource, HasFields
<1>2. /\ songs' = songs \cup {k.tgt}
      /\ parent' = [parent EXCEPT ![k.tgt] = k.src]
      /\ root' = [root EXCEPT ![k.tgt] = k.root]
      /\ Goto(t, "unlist")
  BY <1>1 DEF EditInsert
<1>3. /\ m.kind = "edit" /\ m.src = k.src /\ m.root = k.root /\ m.pc = "unlist"
  BY <1>0, <1>2 DEF Goto, TaskState
<1>4. /\ parent'[k.tgt] = k.src /\ root'[k.tgt] = k.root
      /\ \A s \in songs : parent'[s] = parent[s] /\ root'[s] = root[s]
      /\ NULL \notin songs
  <2> HIDE DEF k
  <2> QED  BY <1>0, <1>1, <1>2, NullNotSong DEF RowsOK
<1>5. /\ k.root < k.tgt /\ root[k.root] = NULL
  <2>1. root[k.src] # NULL => k.root = root[k.src]
    BY <1>1 DEF RootOf
  <2>2. root[k.src] = NULL => k.root = k.src
    BY <1>1 DEF RootOf
  <2>3. root[k.src] # NULL => root[k.src] < k.src /\ root[root[k.src]] = NULL
    BY <1>0, <1>1 DEF RootedRows
  <2>4. k.root \in Nat /\ k.src \in Nat /\ k.tgt \in Nat
    <3>1. k.root \in Songs
      BY <1>0, <1>1 DEF RowsOK
    <3> QED  BY <1>1, <3>1, SongsNat
  <2> QED  BY <1>1, <2>1, <2>2, <2>3, <2>4
<1>6. \A s \in songs, x \in Tasks : ~Gap(task[x], s)
  BY <1>0, OthersIdle DEF Gap
<1>7. ASSUME NEW s \in songs'
      PROVE  /\ root'[s] # NULL => root'[s] < s /\ root'[root'[s]] = NULL
             /\ parent'[s] # NULL => parent'[s] < s /\ root'[s] = RootOf(root', parent'[s])
             /\ parent'[s] = NULL => root'[s] = NULL
  <2>1. CASE s = k.tgt
    BY <1>1, <1>4, <1>5, <2>1 DEF RootOf
  <2>2. CASE s \in songs
    <3>1. parent[s] # NULL => parent[s] \in songs
      BY <1>0, <2>2 DEF RefsLive, Maybe, RowsOK
    <3>2. root[s] # NULL => root[s] \in songs
      BY <1>0, <2>2 DEF RefsLive, Maybe, RowsOK
    <3>3. /\ root[s] # NULL => root[s] < s /\ root[root[s]] = NULL
          /\ parent[s] # NULL => parent[s] < s /\ root[s] = RootOf(root, parent[s])
          /\ parent[s] = NULL => root[s] = NULL
      BY <1>0, <1>6, <2>2 DEF RootedRows
    <3> QED  BY <1>4, <2>2, <3>1, <3>2, <3>3 DEF RootOf
  <2> QED  BY <1>2, <2>1, <2>2
<1>8. RootedRows'
  BY <1>7 DEF RootedRows
<1>9. InChain(task[t])'
  <2>1. k.root = RootOf(root', k.src)
    BY <1>1, <1>4 DEF RootOf
  <2> QED  BY <1>1, <1>2, <1>3, <2>1 DEF InChain, Pending, HasSource, BeforeCap, Reclaiming, Capping
<1> QED  BY <1>0, <1>8, <1>9, RootedStep

\* The source gets its root for a parent: the gap is closed.
LEMMA RootedAttach ==
  ASSUME TypeOK, SerialInv, RootedInv, NEW t \in Tasks, OnlyTask(t), EditAttach(t)
  PROVE  RootedInv'
<1> DEFINE k == task[t]
           m == task'[t]
<1> USE DEF At
<1>0. /\ task \in [Tasks -> TaskState] /\ k \in TaskState
      /\ RowsOK /\ RefsLive /\ k.kind = "edit" /\ k.pc = "attach" /\ EditAlone(k) /\ InChain(k)
      /\ RootedRows
  BY DEF TypeOK, TasksOK, SerialInv, EditAttach, Alone, RootedInv
<1>1. /\ k.src \in songs /\ k.root \in songs /\ k.root = RootOf(root, k.src)
      /\ root[k.src] # NULL /\ k.src \in Songs
  BY <1>0 DEF EditAlone, InChain, Inserted, Capping, RowsOK
<1>2. /\ songs' = songs /\ root' = root /\ Goto(t, "list")
      /\ parent' = [parent EXCEPT ![k.src] = k.root]
  BY <1>1 DEF EditAttach
<1>3. m.kind = "edit" /\ m.pc = "list"
  BY <1>0, <1>2 DEF Goto, TaskState
<1>4. /\ root[k.src] = k.root /\ k.root < k.src /\ root[k.root] = NULL /\ k.root # NULL
  BY <1>0, <1>1 DEF RootOf, RootedRows
<1>5. parent'[k.src] = k.root /\ \A s \in songs \ {k.src} : parent'[s] = parent[s]
  BY <1>0, <1>1, <1>2 DEF RowsOK
<1>6. \A s \in songs \ {k.src}, x \in Tasks : ~Gap(task[x], s)
  BY <1>0, OthersIdle DEF Gap
<1>7. ASSUME NEW s \in songs
      PROVE  /\ root[s] # NULL => root[s] < s /\ root[root[s]] = NULL
             /\ parent'[s] # NULL => parent'[s] < s /\ root[s] = RootOf(root, parent'[s])
             /\ parent'[s] = NULL => root[s] = NULL
  <2>1. CASE s = k.src
    BY <1>4, <1>5, <2>1 DEF RootOf
  <2>2. CASE s # k.src
    BY <1>0, <1>5, <1>6, <2>2 DEF RootedRows
  <2> QED  BY <2>1, <2>2
<1>8. RootedRows'
  BY <1>2, <1>7 DEF RootedRows
<1>9. InChain(task[t])'
  BY <1>3 DEF InChain, Pending, HasSource, BeforeCap, Reclaiming, Capping
<1> QED  BY <1>0, <1>8, <1>9, RootedStep

LEMMA RootedEdits ==
  ASSUME TypeOK, SerialInv, RootedInv, NEW t \in Tasks, OnlyTask(t), EditStep(t)
  PROVE  RootedInv'
<1> USE DEF At
<1> DEFINE k == task[t]
           m == task'[t]
<1>0. /\ task \in [Tasks -> TaskState] /\ k \in TaskState /\ RowsOK
      /\ k.kind = "edit" => EditAlone(k)
      /\ InChain(k) /\ RootedRows
  BY DEF TypeOK, TasksOK, SerialInv, Alone, RootedInv
<1>1. ASSUME UNCHANGED rows, k.pc \notin {"idle", "unlink", "reparent", "attach"}, InChain(m)
      PROVE  RootedInv'
  BY <1>1, RootedQuiet DEF Gap
<1>2. CASE (EditBegin(t) \/ EditMark(t) \/ EditReadRoot(t)) /\ m # Idle
  <2>1. /\ k.kind = "edit" /\ m.kind = "edit" /\ m.src = k.src /\ m.tgt = k.tgt
        /\ m.root = k.root /\ UNCHANGED rows
        /\ \/ k.pc \in {"begin", "mark"} /\ m.pc \in {"mark", "read"}
           \/ k.pc = "read_root" /\ m.pc = "render"
    BY <1>0, <1>2 DEF EditBegin, EditMark, EditReadRoot, Goto, End, TaskState
  <2>2. InChain(m)
    BY <1>0, <2>1 DEF InChain, Pending, HasSource, BeforeCap, Reclaiming, Capping
  <2> QED  BY <1>1, <2>1, <2>2
<1>3. CASE EditRead(t)
  <2>1. k.kind = "edit" /\ k.pc = "read" /\ k.src \in songs /\ UNCHANGED rows /\ k.src < k.tgt
    BY <1>0, <1>3 DEF EditRead, EditAlone, InChain, Pending
  <2>2. /\ m.kind = "edit" /\ m.src = k.src /\ m.tgt = k.tgt
        /\ m.root = RootOf(root, k.src) /\ m.pc \in {"render", "read_root"}
    BY <1>0, <1>3, <2>1 DEF EditRead, TaskState, RootOf
  <2>3. InChain(m)
    BY <2>1, <2>2 DEF InChain, Pending, HasSource, BeforeCap, Reclaiming, Capping
  <2> QED  BY <1>1, <2>1, <2>3
<1>4. CASE EditRender(t)
  <2>1. /\ k.kind = "edit" /\ m.kind = "edit" /\ m.src = k.src /\ m.tgt = k.tgt
        /\ m.root = k.root /\ UNCHANGED rows
        /\ k.pc = "render" /\ m.pc \in {"insert", "fail"}
    BY <1>0, <1>4 DEF EditRender, Goto, TaskState
  <2>2. InChain(m)
    BY <1>0, <2>1 DEF InChain, Pending, HasSource, BeforeCap, Reclaiming, Capping
  <2> QED  BY <1>1, <2>1, <2>2
<1>5. CASE EditUnlist(t)
  <2>1. /\ k.kind = "edit" /\ k.pc = "unlist" /\ UNCHANGED rows
        /\ k.src \in songs /\ k.par = parent[k.src] /\ k.root = RootOf(root, k.src)
    BY <1>0, <1>5 DEF EditUnlist, EditAlone, BeforeCap, InChain
  <2>2. /\ m.kind = "edit" /\ m.src = k.src /\ m.tgt = k.tgt
        /\ m.root = k.root
        /\ m.pc = IF k.par # NULL /\ k.par # k.root THEN "count_library" ELSE "list"
    BY <1>0, <1>5 DEF EditUnlist, TaskState
  <2>3. k.par # NULL => root[k.src] # NULL
    BY <1>0, <2>1 DEF RootedRows, RootOf
  <2>4. InChain(m)
    BY <2>1, <2>2, <2>3 DEF InChain, Pending, HasSource, BeforeCap, Reclaiming, Capping
  <2> QED  BY <1>1, <2>1, <2>4
<1>6. CASE EditReparent(t)
  <2>1. /\ k.kind = "edit" /\ k.pc = "reparent" /\ UNCHANGED rows /\ k.pc # "idle"
        /\ k.src \in songs /\ k.root = RootOf(root, k.src) /\ root[k.src] # NULL
        /\ k.root \in songs
    BY <1>0, <1>6 DEF EditReparent, EditAlone, InChain, Inserted, Capping
  <2>2. /\ m.kind = "edit" /\ m.src = k.src /\ m.tgt = k.tgt /\ m.root = k.root
        /\ m.pc = IF parent[k.src] = k.root THEN "list" ELSE "attach"
    BY <1>0, <1>6, <2>1 DEF EditReparent, Goto, TaskState
  <2>3. InChain(m)
    BY <2>1, <2>2 DEF InChain, Pending, HasSource, BeforeCap, Reclaiming, Capping
  <2>4. CASE m.pc = "attach"
    <3>1. \A s \in songs : Gap(k, s) => Gap(m, s)
      BY <2>1, <2>2, <2>4 DEF Gap
    <3> QED  BY <2>1, <2>3, <3>1, RootedQuiet
  <2>5. CASE m.pc = "list"
    <3>1. parent[k.src] \in songs /\ NULL \notin songs
      BY <1>0, <2>1, <2>2, <2>5, NullNotSong DEF RowsOK
    <3>2. \A s \in songs \ {k.src}, x \in Tasks : ~Gap(task[x], s)
      BY <2>1, OthersIdle DEF Gap
    <3>3. RootedRows'
      BY <1>0, <2>1, <3>1, <3>2 DEF RootedRows, rows
    <3>4. InChain(task[t])'
      BY <2>2, <2>5 DEF InChain, Pending, HasSource, BeforeCap, Reclaiming, Capping
    <3> QED  BY <2>1, <3>3, <3>4, RootedStep
  <2> QED  BY <2>2, <2>4, <2>5
<1>7. CASE EditFail(t) \/ (EditFinish(t) /\ m # Idle) \/ (EditReport(t) /\ m # Idle)
  <2>1. /\ k.kind = "edit" /\ m.kind = "edit" /\ k.pc \in {"finish", "report", "fail"}
        /\ UNCHANGED rows /\ m.pc \in {"report", "fail", "failed"}
    BY <1>0, <1>7 DEF EditFail, EditFinish, EditReport, Goto, End, TaskState
  <2>2. InChain(m)
    BY <2>1 DEF InChain, Pending, HasSource, BeforeCap, Reclaiming, Capping
  <2> QED  BY <1>1, <2>1, <2>2
<1>8. CASE /\ EditBegin(t) \/ EditMark(t) \/ EditReadRoot(t) \/ EditFinish(t) \/ EditReport(t)
              \/ EditFailed(t)
           /\ m = Idle \/ EditFailed(t)
  <2>1. /\ m = Idle /\ UNCHANGED rows
        /\ k.pc \in {"begin", "mark", "read_root", "finish", "report", "failed"}
    BY <1>0, <1>8 DEF EditBegin, EditMark, EditReadRoot, EditFinish, EditReport, EditFailed, End
  <2>2. InChain(m)
    BY <2>1 DEF InChain, Idle, Task
  <2> QED  BY <1>1, <2>1, <2>2
<1> QED
  BY <1>2, <1>3, <1>4, <1>5, <1>6, <1>7, <1>8, RootedInsert, RootedAttach DEF EditStep

\* A song that is somebody's root has a child: the oldest song below it.
LEMMA RootHasChild ==
  ASSUME TypeOK, SerialInv, RootedInv, \A s \in songs, x \in Tasks : ~Gap(task[x], s),
         NEW d \in songs, NEW y \in songs, root[y] = d
  PROVE  ChildRefs(d) # {}
<1> DEFINE T == {x \in songs : root[x] = d}
<1>1. T \in SUBSET Nat /\ T # {} /\ NULL \notin songs
  BY SongsNat, NullNotSong DEF TypeOK, RowsOK
<1>2. PICK x \in T : \A z \in T : x =< z
  BY <1>1, Least
<1>3. x \in songs /\ root[x] = d /\ root[x] # NULL
  BY <1>1, <1>2
<1>4. parent[x] # NULL /\ parent[x] < x /\ root[x] = RootOf(root, parent[x])
  BY <1>3 DEF RootedInv, RootedRows
<1>5. parent[x] \in songs
  BY <1>3, <1>4 DEF SerialInv, RefsLive, Maybe, TypeOK, RowsOK
<1>6. root[parent[x]] = NULL
  <2> SUFFICES ASSUME root[parent[x]] # NULL PROVE FALSE
    OBVIOUS
  <2>1. parent[x] \in T
    BY <1>3, <1>4, <1>5 DEF RootOf
  <2>2. x =< parent[x] /\ x \in Nat /\ parent[x] \in Nat
    BY <1>1, <1>2, <2>1
  <2> QED  BY <1>4, <2>2
<1>7. parent[x] = d
  BY <1>3, <1>4, <1>6 DEF RootOf
<1> QED  BY <1>3, <1>7 DEF ChildRefs

LEMMA RootedDelete ==
  ASSUME TypeOK, SerialInv, RootedInv, NEW t \in Tasks, OnlyTask(t), DeleteRow(t),
         task[t].cur \in songs
  PROVE  RootedInv'
<1> DEFINE k == task[t]
           m == task'[t]
           d == task[t].cur
<1>0. /\ task \in [Tasks -> TaskState] /\ k \in TaskState
      /\ RowsOK /\ RefsLive /\ k.pc = "delete_row" /\ Alone(k) /\ InChain(k) /\ RootedRows
      /\ k.kind \in Kinds
  BY DEF TypeOK, TasksOK, SerialInv, DeleteRow, RootedInv, HasFields, Reclaiming
<1>1. /\ DropRow(d) /\ Goto(t, "unlink")
  BY DEF DeleteRow
<1>2. /\ m.kind = k.kind /\ m.src = k.src /\ m.root = k.root /\ m.pc = "unlink"
  BY <1>0, <1>1 DEF Goto, TaskState
<1>3. \A s \in songs, x \in Tasks : ~Gap(task[x], s)
  BY <1>0, OthersIdle DEF Gap
<1>4. d \in Songs /\ songs \subseteq Songs /\ NULL \notin songs
  BY <1>0, NullNotSong DEF RowsOK
<1>5. k.kind = "edit" =>
         /\ k.src \in songs /\ d = parent[k.src] /\ d # k.root /\ d # NULL
         /\ k.root = RootOf(root, k.src) /\ root[k.src] # NULL
  BY <1>0 DEF Alone, EditAlone, InChain, BeforeCap, Reclaiming, Capping
<1>6. \A x \in songs : root[x] # d
  <2>1. CASE k.kind = "edit"
    <3>1. root[k.src] = k.root /\ root[k.src] = RootOf(root, d)
      BY <1>0, <1>5, <2>1 DEF RootOf, RootedRows
    <3>2. root[d] # NULL
      BY <1>5, <2>1, <3>1 DEF RootOf
    <3> QED  BY <1>0, <1>4, <3>2 DEF RootedRows
  <2>2. CASE k.kind # "edit"
    <3>1. ChildRefs(d) = {}
      BY <1>0, <2>2 DEF InChain, Excluded
    <3> QED  BY <1>3, <3>1, RootHasChild
  <2> QED  BY <2>1, <2>2
<1>7. \A x \in songs : parent[x] = d => k.kind = "edit" /\ x = k.src
  BY <1>0 DEF InChain, Excluded, ChildRefs
<1>8. /\ songs' = songs \ {d}
      /\ \A x \in songs' : /\ root'[x] = root[x]
                           /\ parent[x] = d => parent'[x] = NULL
                           /\ parent[x] # d => parent'[x] = parent[x]
  <2> HIDE DEF d
  <2> QED  BY <1>1, <1>4, <1>6 DEF DropRow
<1>9. ASSUME NEW s \in songs'
      PROVE  /\ root'[s] # NULL => root'[s] < s /\ root'[root'[s]] = NULL
             /\ parent'[s] # NULL => parent'[s] < s /\ root'[s] = RootOf(root', parent'[s])
             /\ parent'[s] = NULL => root'[s] = NULL \/ \E x \in Tasks : Gap(task'[x], s)
  <2>1. s \in songs /\ s # d
    BY <1>8
  <2>2. /\ root[s] # NULL => root[s] < s /\ root[root[s]] = NULL
        /\ parent[s] # NULL => parent[s] < s /\ root[s] = RootOf(root, parent[s])
        /\ parent[s] = NULL => root[s] = NULL
    BY <1>0, <1>3, <2>1 DEF RootedRows
  <2>3. /\ parent[s] # NULL => parent[s] \in songs
        /\ root[s] # NULL => root[s] \in songs'
    BY <1>0, <1>4, <1>6, <1>8, <2>1 DEF RefsLive, Maybe
  <2>4. root'[s] # NULL => root'[s] < s /\ root'[root'[s]] = NULL
    BY <1>8, <2>2, <2>3
  <2>5. CASE parent[s] # d
    <3>1. parent[s] # NULL => parent[s] \in songs'
      BY <1>8, <2>3, <2>5
    <3> QED  BY <1>8, <2>2, <2>4, <2>5, <3>1 DEF RootOf
  <2>6. CASE parent[s] = d
    <3>1. Gap(task'[t], s)
      BY <1>2, <1>7, <2>1, <2>6 DEF Gap
    <3> QED  BY <1>8, <2>4, <2>6, <3>1
  <2> QED  BY <2>5, <2>6
<1>10. RootedRows'
  BY <1>9 DEF RootedRows
<1>11. InChain(task[t])'
  <2>1. CASE k.kind = "edit"
    <3>1. d < k.src /\ d \in Nat /\ k.src \in Nat
      BY <1>0, <1>4, <1>5, <2>1, SongsNat DEF RootedRows
    <3>2. k.src \in songs' /\ root'[k.src] = root[k.src]
      BY <1>5, <1>8, <2>1, <3>1
    <3>3. k.root = RootOf(root', k.src) /\ root'[k.src] # NULL
      BY <1>5, <2>1, <3>2 DEF RootOf
    <3> QED  BY <1>2, <2>1, <3>2, <3>3 DEF InChain, Pending
  <2>2. CASE k.kind # "edit"
    BY <1>0, <1>2, <2>2 DEF InChain
  <2> QED  BY <2>1, <2>2
<1> QED  BY <1>0, <1>10, <1>11, RootedStep

LEMMA RootedReclaims ==
  ASSUME TypeOK, SerialInv, RootedInv, NEW t \in Tasks, OnlyTask(t), Reclaim(t)
  PROVE  RootedInv'
<1> DEFINE k == task[t]
           m == task'[t]
<1>0. /\ task \in [Tasks -> TaskState] /\ k \in TaskState /\ TasksOK
      /\ InChain(k) /\ k.pc \in Reclaiming /\ k.pc # "idle" /\ k.kind \in Kinds
  BY DEF TypeOK, TasksOK, RootedInv, HasFields, Reclaim, CountLibrary, CountChildren, DeleteRow,
         Unlink, Reclaiming
<1>1. ASSUME UNCHANGED rows, NEW d \in BOOLEAN, Resume(t, d),
             k.pc \in {"unlink", "delete_row"} <=> d
      PROVE  RootedInv'
  <2>1. CASE /\ k.kind = "edit" /\ m.kind = "edit" /\ m.src = k.src /\ m.tgt = k.tgt
             /\ m.root = k.root /\ m.pc = IF d THEN "reparent" ELSE "list"
    <3>1. InChain(m)
      BY <1>0, <1>1, <2>1 DEF InChain, Pending, HasSource, BeforeCap, Reclaiming, Capping
    <3>2. \A s \in songs : Gap(k, s) => Gap(m, s)
      BY <1>0, <1>1, <2>1 DEF Gap, Reclaiming
    <3> QED  BY <1>0, <1>1, <3>1, <3>2, RootedQuiet
  <2>2. CASE /\ m.kind \in {"none", "restore"} /\ m.pc \in {"idle", "walk"} /\ k.kind # "edit"
    <3>1. InChain(m)
      BY <2>2 DEF InChain
    <3> QED  BY <1>0, <1>1, <2>2, <3>1, RootedQuiet DEF Gap
  <2>3. k.kind # "publish"
    BY <1>0 DEF InChain
  <2>4. CASE k.kind = "delete"
    <3>1. m.kind = "none" /\ m.pc = "idle"
      BY <1>0, <1>1, <2>4 DEF Resume, End, Idle, Task
    <3> QED  BY <2>2, <2>4, <3>1
  <2>5. CASE k.kind = "restore"
    <3>1. task' = [task EXCEPT ![t].cur = k.nxt, ![t].nxt = NULL, ![t].pc = "walk"]
      BY <1>1, <2>5 DEF Resume
    <3>2. m.kind = "restore" /\ m.pc = "walk"
      BY <1>0, <2>5, <3>1 DEF TaskState
    <3> QED  BY <2>2, <2>5, <3>2
  <2>6. CASE k.kind = "edit"
    <3>1. Goto(t, IF d THEN "reparent" ELSE "list")
      BY <1>1, <2>6 DEF Resume
    <3> QED  BY <1>0, <2>1, <2>6, <3>1 DEF Goto, TaskState
  <2> QED  BY <1>0, <2>3, <2>4, <2>5, <2>6 DEF Kinds
<1>2. ASSUME UNCHANGED rows, NEW pc \in {"count_children", "delete_row"}, Goto(t, pc),
             k.pc \in {"count_library", "count_children"},
             pc = "delete_row" => ChildRefs(k.cur) \subseteq Excluded(k)
      PROVE  RootedInv'
  <2>1. /\ m.kind = k.kind /\ m.src = k.src /\ m.tgt = k.tgt
        /\ m.root = k.root /\ m.cur = k.cur /\ m.pc = pc
    BY <1>0, <1>2 DEF Goto, TaskState
  <2>2. Excluded(m) = Excluded(k)
    BY <2>1 DEF Excluded
  <2>3. InChain(m)
    BY <1>0, <1>2, <2>1, <2>2 DEF InChain, Pending, HasSource, BeforeCap, Reclaiming, Capping
  <2> QED  BY <1>0, <1>2, <2>3, RootedQuiet DEF Gap
<1>3. CASE CountLibrary(t)
  BY <1>1, <1>2, <1>3 DEF CountLibrary
<1>4. CASE CountChildren(t)
  BY <1>1, <1>2, <1>4 DEF CountChildren
<1>5. CASE DeleteRow(t) /\ k.cur \notin songs
  BY <1>1, <1>5 DEF DeleteRow, rows
<1>6. CASE Unlink(t)
  BY <1>1, <1>6 DEF Unlink
<1> QED  BY <1>3, <1>4, <1>5, <1>6, RootedDelete DEF Reclaim

LEMMA RootedNext ==
  ASSUME Unharmed, TypeOK, SerialInv, RootedInv, [Next]_vars
  PROVE  RootedInv'
<1> USE DEF At
<1>0. task \in [Tasks -> TaskState] /\ RowsOK /\ RefsLive
  BY DEF TypeOK, TasksOK, SerialInv
<1>1. CASE UNCHANGED vars
  BY <1>1 DEF vars, RootedInv, RootedRows, Gap, InChain, ChildRefs
<1>2. ASSUME NEW t \in Tasks, EditStep(t) \/ Reclaim(t) PROVE RootedInv'
  BY <1>2, OneTask, RootedEdits, RootedReclaims DEF TaskStep
<1>r. ASSUME NEW t \in Tasks, List(t) PROVE RootedInv'
  <2>1. OnlyTask(t) /\ UNCHANGED rows /\ task[t].pc \in Listing
    BY <1>r, OneTask, ListIs DEF TaskStep
  <2>2. /\ task[t].pc \notin {"idle", "unlink", "reparent", "attach"}
        /\ task'[t].pc \in Listing \cup {"finish", "fail", "walk", "idle"}
        /\ task'[t].kind \in {"edit", "restore", "none"}
    BY <1>0, <1>r, <2>1, ListIs
       DEF List, ListSelect, ListInsert, ListRefresh, Listed, NotListed, Goto, End, Idle, Task,
           TaskState, Listing
  <2>3. InChain(task'[t])
    BY <2>2 DEF InChain, Pending, HasSource, BeforeCap, Reclaiming, Capping, Listing
  <2> QED  BY <2>1, <2>2, <2>3, RootedQuiet DEF Gap
<1>3. ASSUME NEW t \in Tasks, RequestStep(t) PROVE RootedInv'
  <2>1. OnlyTask(t)
    BY <1>3, OneTask DEF TaskStep
  <2>2. InChain(task[t])
    BY DEF RootedInv
  <2>3. /\ task[t].kind = "restore" /\ task[t].pc # "idle" /\ UNCHANGED rows
        /\ task'[t].pc \in {"list", "walk", "count_library", "idle"}
        /\ task'[t].kind \in {"restore", "none"}
    BY <1>0, <1>3, <2>2
       DEF RequestStep, RestoreUnlist, RestoreWalk, PublishWalk, PublishUpdate, InChain, Goto, End, Idle, Task, TaskState
  <2>4. InChain(task'[t])
    BY <2>3 DEF InChain
  <2> QED  BY <2>1, <2>3, <2>4, RootedQuiet DEF Gap
<1>4. ASSUME NEW t \in Tasks, Request(t) PROVE RootedInv'
  <2>1. OnlyTask(t)
    BY <1>4, OneTask
  <2>2. AllIdle
    <3>1. Accept(t)
      BY <1>4 DEF Request, CreateEditJob, Publish, DeleteDownload, Restore
    <3> QED  BY <3>1, Zenon DEF Accept, Unharmed
  <2>3. ASSUME UNCHANGED rows, InChain(task'[t]) PROVE RootedInv'
    BY <2>1, <2>2, <2>3, RootedQuiet DEF AllIdle, Gap
  <2>4. ASSUME NEW u \in Users, NEW s \in Songs, CreateEditJob(t, u, s) PROVE RootedInv'
    <3>1. /\ task'[t].kind = "edit" /\ task'[t].pc = "begin"
          /\ task'[t].src = s /\ task'[t].tgt = next /\ UNCHANGED rows /\ s \in songs
      BY <1>0, <2>4 DEF CreateEditJob, Task
    <3>2. s < next
      BY <1>0, <3>1 DEF RefsLive
    <3>3. InChain(task'[t])
      BY <3>1, <3>2 DEF InChain, HasSource, BeforeCap, Reclaiming, Capping
    <3> QED  BY <2>3, <3>1, <3>3
  <2>5. ASSUME NEW s \in Songs, DeleteDownload(t, s) PROVE RootedInv'
    <3>1. task'[t].kind = "delete" /\ task'[t].pc = "count_children" /\ UNCHANGED rows
      BY <1>0, <2>5 DEF DeleteDownload, Task
    <3> QED  BY <2>3, <3>1 DEF InChain
  <2>6. ASSUME NEW u \in Users, NEW s \in Songs, NEW g \in Songs, Restore(t, u, s, g)
        PROVE  RootedInv'
    <3>1. task'[t].kind = "restore" /\ task'[t].pc = "unlist" /\ UNCHANGED rows
      BY <1>0, <2>6 DEF Restore, Task
    <3> QED  BY <2>3, <3>1 DEF InChain
  <2> QED  BY <1>4, <2>4, <2>5, <2>6 DEF Request, Publish, Unharmed
<1>5. CASE \/ \E u \in Users, s \in Songs : AddToLibrary(u, s) \/ RemoveFromLibrary(u, s)
           \/ \E u \in Users : DeleteUser(u)
  <2>1. task' = task /\ songs' = songs /\ parent' = parent /\ root' = root
    BY <1>5 DEF AddToLibrary, RemoveFromLibrary, DeleteUser, rows
  <2> QED  BY <2>1 DEF RootedInv, RootedRows, Gap, InChain, ChildRefs
<1>6. ~Crash /\ \A t \in Tasks : ~Refused(t)
  BY DEF Crash, Refused, Unharmed
<1> QED  BY <1>1, <1>2, <1>r, <1>3, <1>4, <1>5, <1>6 DEF Next, TaskStep

\* What holds at zero, and one further up as long as it holds, holds up to n.
LEMMA Climb ==
  ASSUME NEW n \in Nat, NEW T, 0 \in T, \A i \in 0..(n - 1) : i \in T => i + 1 \in T
  PROVE  n \in T
<1> SUFFICES ASSUME n \notin T PROVE FALSE
  OBVIOUS
<1> DEFINE F == {i \in 0..n : i \notin T}
<1>1. F \in SUBSET Nat /\ F # {}
  OBVIOUS
<1>2. PICK x \in F : \A y \in F : x =< y
  BY <1>1, Least
<1>3. x # 0 /\ x \in 0..n /\ x \notin T
  BY <1>2
<1>4. x - 1 \in 0..(n - 1) /\ x - 1 \notin F
  BY <1>2, <1>3
<1>5. x - 1 \in T /\ (x - 1) + 1 = x
  BY <1>3, <1>4
<1> QED  BY <1>3, <1>4, <1>5

\* One step up from x.
Up(x) == IF x = NULL THEN NULL ELSE parent[x]

\* The recursion in Ancestors has a solution.
LEMMA ChainExists ==
  ASSUME NEW s, NEW n \in Nat
  PROVE  \E g : g = [i \in 0..n |-> IF i = 0 THEN s ELSE Up(g[i - 1])]
<1> DEFINE Sol(g, j) == g = [i \in 0..j |-> IF i = 0 THEN s ELSE Up(g[i - 1])]
           T == {j \in Nat : \E g : Sol(g, j)}
<1>1. 0 \in T
  <2>1. Sol([i \in 0..0 |-> s], 0)
    OBVIOUS
  <2> QED  BY <2>1
<1>2. ASSUME NEW j \in 0..(n - 1), j \in T PROVE j + 1 \in T
  <2>1. PICK g : Sol(g, j)
    BY <1>2
  <2> DEFINE h == [i \in 0..(j + 1) |-> IF i \in 0..j THEN g[i] ELSE Up(g[j])]
  <2>2. \A i \in 0..j : g[i] = IF i = 0 THEN s ELSE Up(g[i - 1])
    BY <2>1
  <2>3. \A i \in 0..(j + 1) : h[i] = IF i = 0 THEN s ELSE Up(h[i - 1])
    BY <2>2
  <2>4. Sol(h, j + 1)
    BY <2>3
  <2>5. j + 1 \in Nat
    OBVIOUS
  <2> HIDE DEF Sol, h
  <2> QED  BY <2>4, <2>5
<1> HIDE DEF T
<1>3. n \in T
  BY <1>1, <1>2, Climb
<1> QED  BY <1>3 DEF T

LEMMA AncestorsChain ==
  ASSUME NEW s
  PROVE  \E up : /\ up[0] = s
                 /\ \A i \in 1..MaxSong : up[i] = Up(up[i - 1])
                 /\ Ancestors(s) = {up[i] : i \in 1..MaxSong} \ {NULL}
<1> DEFINE up == CHOOSE g : g = [i \in 0..MaxSong |-> IF i = 0 THEN s ELSE Up(g[i - 1])]
<1>0. MaxSong \in Nat
  BY StoreAssumption
<1>1. up = [i \in 0..MaxSong |-> IF i = 0 THEN s ELSE Up(up[i - 1])]
  BY <1>0, ChainExists
<1>2. Ancestors(s) = {up[i] : i \in 1..MaxSong} \ {NULL}
  BY DEF Ancestors, Up
<1> HIDE DEF up
<1>3. up[0] = s /\ \A i \in 1..MaxSong : up[i] = Up(up[i - 1])
  BY <1>0, <1>1
<1> QED  BY <1>2, <1>3

\* With no gap, the way up from a song meets the song it names as its root: each
\* step leads to an older song of the same chain, until that one is there.
LEMMA RootOnTheWay ==
  ASSUME TypeOK, SerialInv, RootedInv, AllIdle, NEW s \in songs, root[s] # NULL
  PROVE  root[s] \in Ancestors(s)
<1>0. MaxSong \in Nat /\ s \in Nat /\ s =< MaxSong
  BY StoreAssumption DEF TypeOK, RowsOK, Songs
<1>1. PICK up : /\ up[0] = s
                /\ \A i \in 1..MaxSong : up[i] = Up(up[i - 1])
                /\ Ancestors(s) = {up[i] : i \in 1..MaxSong} \ {NULL}
  BY AncestorsChain
<1>2. ASSUME NEW x \in songs
      PROVE  /\ x \in Nat /\ x >= 1 /\ x # NULL
             /\ root[x] # NULL => /\ root[x] < x /\ parent[x] # NULL /\ parent[x] \in songs
                                  /\ parent[x] < x /\ root[x] = RootOf(root, parent[x])
  <2>1. x \in Nat /\ x >= 1 /\ x # NULL
    BY StoreAssumption, NullNotSong DEF TypeOK, RowsOK, Songs
  <2>2. \A t \in Tasks : ~Gap(task[t], x)
    BY DEF AllIdle, Gap
  <2>3. parent[x] # NULL => parent[x] \in songs
    BY DEF SerialInv, RefsLive, Maybe, TypeOK, RowsOK
  <2> QED  BY <2>1, <2>2, <2>3 DEF RootedInv, RootedRows
<1> DEFINE Met(i) == \E j \in 1..i : up[j] = root[s]
           OnTheWay(i) == up[i] \in songs /\ up[i] + i =< s /\ RootOf(root, up[i]) = root[s]
           T == {i \in 0..MaxSong : Met(i) \/ OnTheWay(i)}
<1>3. 0 \in T
  BY <1>0, <1>1 DEF RootOf
<1>4. ASSUME NEW i \in 0..(MaxSong - 1), i \in T PROVE i + 1 \in T
  <2>0. i \in Nat /\ i + 1 \in 1..MaxSong /\ i + 1 \in 0..MaxSong
    BY <1>0
  <2>1. CASE Met(i)
    BY <2>0, <2>1
  <2>2. CASE OnTheWay(i) /\ ~Met(i)
    <3>1. root[up[i]] # NULL
      <4> SUFFICES ASSUME root[up[i]] = NULL PROVE FALSE
        OBVIOUS
      <4>1. up[i] = root[s]
        BY <2>2 DEF RootOf
      <4>2. i # 0
        BY <1>0, <1>1, <1>2, <4>1
      <4> QED  BY <2>0, <2>2, <4>1, <4>2
    <3>2. up[i + 1] = parent[up[i]]
      <4>1. up[i + 1] = Up(up[(i + 1) - 1]) /\ (i + 1) - 1 = i
        BY <1>1, <2>0
      <4> QED  BY <1>2, <2>2, <4>1 DEF Up
    <3>3. /\ parent[up[i]] \in songs /\ parent[up[i]] < up[i]
          /\ RootOf(root, parent[up[i]]) = root[s]
      BY <1>2, <2>2, <3>1 DEF RootOf
    <3>4. up[i + 1] + (i + 1) =< s
      <4>1. up[i + 1] \in Nat /\ up[i] \in Nat
        BY <1>2, <2>2, <3>2, <3>3
      <4> QED  BY <1>0, <2>0, <2>2, <3>2, <3>3, <4>1
    <3> QED  BY <2>0, <3>2, <3>3, <3>4
  <2> QED  BY <1>4, <2>1, <2>2
<1> HIDE DEF T
<1>5. MaxSong \in T
  BY <1>0, <1>3, <1>4, Climb
<1>6. ~OnTheWay(MaxSong)
  <2> SUFFICES ASSUME OnTheWay(MaxSong) PROVE FALSE
    OBVIOUS
  <2>1. up[MaxSong] \in Nat /\ up[MaxSong] >= 1
    BY <1>2
  <2>2. up[MaxSong] + MaxSong =< s
    OBVIOUS
  <2> HIDE DEF OnTheWay
  <2> QED  BY <1>0, <2>1, <2>2
<1>7. PICK j \in 1..MaxSong : up[j] = root[s]
  BY <1>5, <1>6 DEF T
<1> QED  BY <1>1, <1>7

\* Serial edits, restores to any song, deletions and account removals keep every
\* chain whole: when nothing is under way, the way up from an edit leads to the
\* song it names as its root.
THEOREM RootsAreReached ==
  ASSUME Unharmed
  PROVE  Spec => []LineageReachesRoot
<1>0. Undisturbed
  BY DEF Undisturbed, Unharmed
<1>1. Init => RootedInv
  <2> SUFFICES ASSUME Init PROVE RootedInv
    OBVIOUS
  <2>1. songs \subseteq Songs /\ \A s \in Songs : parent[s] = NULL /\ root[s] = NULL
    BY StoreAssumption DEF Init, Songs
  <2>2. \A t \in Tasks : task[t].kind = "none" /\ task[t].pc = "idle"
    BY DEF Init, Idle, Task
  <2> QED  BY <2>1, <2>2 DEF RootedInv, RootedRows, InChain
<1>2. TypeOK /\ SerialInv /\ RootedInv /\ [Next]_vars => RootedInv'
  BY RootedNext
<1>3. TypeOK /\ SerialInv /\ RootedInv => LineageReachesRoot
  BY RootOnTheWay DEF LineageReachesRoot
<1> QED  BY <1>0, <1>1, <1>2, <1>3, SerialCorrect, PTL DEF Spec

=============================================================================
