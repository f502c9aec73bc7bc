-------------------------- MODULE ImportJobs_proofs --------------------------
(* Theorems about ImportJobs and DbPool, for every value of their constants.  *)
EXTENDS ImportJobs, DbPool, FiniteSetTheorems, TLAPS

Holders(p) == {j \in Jobs : p[j] \in Running}

\* The part of the types that counting slots needs, and the count.
SlotsInv ==
    /\ pc \in [Jobs -> Running \cup {"idle", "create", "wait"}]
    /\ free \in Int
    /\ SlotsKept

LEMMA HoldersFinite == ASSUME NEW p PROVE IsFiniteSet(Holders(p))
BY FS_Subset, ImportAssumption DEF Holders

\* A step between two steps of the same kind moves no slot.
LEMMA SameHolders ==
  ASSUME SlotsInv, NEW j \in Jobs, NEW step \in Running \cup {"idle", "create", "wait"},
         Goto(j, step), pc[j] \in Running <=> step \in Running, free' = free
  PROVE  SlotsInv'
<1>1. pc' \in [Jobs -> Running \cup {"idle", "create", "wait"}]
  BY DEF SlotsInv, Goto
<1>2. \A x \in Jobs : pc'[x] \in Running <=> pc[x] \in Running
  BY DEF SlotsInv, Goto
<1>3. {x \in Jobs : pc'[x] \in Running} = {x \in Jobs : pc[x] \in Running}
  BY <1>2
<1> QED
  BY <1>1, <1>3 DEF SlotsInv, SlotsKept

\* Releasing gives back the slot that is held.
LEMMA ReleaseSlots ==
  ASSUME SlotsInv, NEW j \in Jobs, pc[j] \in Running, Release(j)
  PROVE  SlotsInv'
<1>1. pc' = [pc EXCEPT ![j] = "idle"] /\ free' = free + 1
  BY DEF Release, Goto
<1>2. pc' \in [Jobs -> Running \cup {"idle", "create", "wait"}] /\ free' \in Int
  BY <1>1 DEF SlotsInv
<1>3. Holders(pc') = Holders(pc) \ {j} /\ j \in Holders(pc)
  BY <1>1 DEF SlotsInv, Holders, Running
<1>4. Cardinality(Holders(pc')) = Cardinality(Holders(pc)) - 1
  BY <1>3, HoldersFinite, FS_RemoveElement
<1>5. Cardinality(Holders(pc)) \in Nat
  BY HoldersFinite, FS_CardinalityType
<1>6. free >= 0 /\ free + Cardinality(Holders(pc)) = Slots
  BY DEF SlotsInv, SlotsKept, Holders
<1>7. free' >= 0 /\ free' + Cardinality(Holders(pc')) = Slots
  BY <1>1, <1>4, <1>5, <1>6 DEF SlotsInv
<1> QED
  BY <1>2, <1>7 DEF SlotsInv, SlotsKept, Holders

LEMMA AcquireSlots ==
  ASSUME SlotsInv, NEW j \in Jobs, Acquire(j)
  PROVE  SlotsInv'
<1>1. pc' = [pc EXCEPT ![j] = "begin"] /\ free' = free - 1 /\ pc[j] = "wait" /\ free > 0
  BY DEF Acquire, Goto
<1>2. pc' \in [Jobs -> Running \cup {"idle", "create", "wait"}] /\ free' \in Int
  BY <1>1 DEF SlotsInv, Running
<1>3. Holders(pc') = Holders(pc) \cup {j} /\ j \notin Holders(pc)
  BY <1>1 DEF SlotsInv, Holders, Running
<1>4. Cardinality(Holders(pc')) = Cardinality(Holders(pc)) + 1
  BY <1>3, HoldersFinite, FS_AddElement
<1>5. Cardinality(Holders(pc)) \in Nat
  BY HoldersFinite, FS_CardinalityType
<1>6. free + Cardinality(Holders(pc)) = Slots
  BY DEF SlotsInv, SlotsKept, Holders
<1>7. free' >= 0 /\ free' + Cardinality(Holders(pc')) = Slots
  BY <1>1, <1>4, <1>5, <1>6 DEF SlotsInv
<1> QED
  BY <1>2, <1>7 DEF SlotsInv, SlotsKept, Holders

LEMMA SlotsInit == Init => SlotsInv
<1> SUFFICES ASSUME Init PROVE SlotsInv
  OBVIOUS
<1>1. pc \in [Jobs -> Running \cup {"idle", "create", "wait"}] /\ free = Slots
  BY DEF Init
<1>2. {j \in Jobs : pc[j] \in Running} = {}
  BY DEF Init, Running
<1>3. Cardinality({j \in Jobs : pc[j] \in Running}) = 0
  BY <1>2, FS_EmptySet
<1>4. Slots \in Nat \ {0}
  BY ImportAssumption, Zenon
<1>5. SlotsKept
  BY <1>1, <1>3, <1>4 DEF SlotsKept
<1> QED
  BY <1>1, <1>4, <1>5 DEF SlotsInv

\* One step per action: requests that run no job leave slots alone.
LEMMA SlotsStep == SlotsInv /\ [Next]_vars => SlotsInv'
<1> SUFFICES ASSUME SlotsInv, [Next]_vars PROVE SlotsInv'
  OBVIOUS
<1>q. ASSUME UNCHANGED <<pc, free>> PROVE SlotsInv'
  BY <1>q DEF SlotsInv, SlotsKept
<1>1. ASSUME NEW j \in Jobs, Upload(j) PROVE SlotsInv'
  <2>1. Goto(j, "create") /\ free' = free /\ pc[j] = "idle"
    BY <1>1 DEF Upload
  <2> QED
    BY <2>1, SameHolders DEF Running
<1>2. ASSUME NEW j \in Jobs, CreateImportJob(j) PROVE SlotsInv'
  <2>1. (Goto(j, "wait") \/ Goto(j, "idle")) /\ free' = free /\ pc[j] = "create"
    BY <1>2 DEF CreateImportJob
  <2> QED
    BY <2>1, SameHolders DEF Running
<1>3. ASSUME NEW j \in Jobs, Begin(j) PROVE SlotsInv'
  <2>1. Goto(j, "read") /\ free' = free /\ pc[j] = "begin"
    BY <1>3 DEF Begin
  <2> QED
    BY <2>1, SameHolders DEF Running
<1>4. ASSUME NEW j \in Jobs, Read(j) PROVE SlotsInv'
  <2>1. /\ Goto(j, "fail") \/ Goto(j, "duplicate") \/ Goto(j, "insert")
        /\ free' = free /\ pc[j] = "read"
    BY <1>4 DEF Read
  <2> QED
    BY <2>1, SameHolders DEF Running
<1>5. ASSUME NEW j \in Jobs, Fail(j) \/ Duplicate(j) \/ Finish(j) PROVE SlotsInv'
  <2>1. Release(j) /\ pc[j] \in Running
    BY <1>5 DEF Fail, Duplicate, Finish, Running
  <2> QED
    BY <2>1, ReleaseSlots
<1>6. ASSUME NEW j \in Jobs, Insert(j) PROVE SlotsInv'
  <2>1. Goto(j, "look") /\ free' = free /\ pc[j] = "insert"
    BY <1>6 DEF Insert
  <2> QED
    BY <2>1, SameHolders DEF Running
<1>7. ASSUME NEW j \in Jobs, Look(j) PROVE SlotsInv'
  <2>1. (Goto(j, "finish") \/ Goto(j, "list")) /\ free' = free /\ pc[j] = "look"
    BY <1>7 DEF Look
  <2> QED
    BY <2>1, SameHolders DEF Running
<1>8. ASSUME NEW j \in Jobs, List(j) PROVE SlotsInv'
  <2>1. pc[j] = "list" /\ ((Goto(j, "refresh") /\ free' = free) \/ Release(j))
    BY <1>8 DEF List
  <2> QED
    BY <2>1, SameHolders, ReleaseSlots DEF Running
<1>9. ASSUME NEW j \in Jobs, Refresh(j) PROVE SlotsInv'
  <2>1. (Goto(j, "finish") \/ Goto(j, "fail")) /\ free' = free /\ pc[j] = "refresh"
    BY <1>9 DEF Refresh
  <2> QED
    BY <2>1, SameHolders DEF Running
<1>10. CASE \E j \in Jobs : AddToLibrary(j) \/ RemoveFromLibrary(j) \/ DeleteDownload(j)
  BY <1>10, <1>q DEF AddToLibrary, RemoveFromLibrary, DeleteDownload
<1>11. CASE DeleteUser
  BY <1>11, <1>q DEF DeleteUser
<1>12. CASE UNCHANGED vars
  BY <1>12, <1>q DEF vars
<1> QED
  BY <1>1, <1>2, <1>3, <1>4, <1>5, <1>6, <1>7, <1>8, <1>9, <1>10, <1>11, <1>12,
     AcquireSlots
  DEF Next, JobStep

\* No slot of the semaphore is ever lost or held twice, for any number of jobs and
\* slots, whatever happens to songs, libraries and users meanwhile.
THEOREM SlotsNeverLost == Spec => []SlotsKept
<1>1. SlotsInv => SlotsKept
  BY DEF SlotsInv
<1> QED
  BY <1>1, SlotsInit, SlotsStep, PTL DEF Spec

-----------------------------------------------------------------------------
(* What imports leave behind, and what their rows show a client.             *)

PcOK == pc \in [Jobs -> Running \cup {"idle", "create", "wait"}]

\* Who waits is in the queue; that it is there once is what Acquire needs.
QueueOK ==
    /\ queue \in Seq(Jobs)
    /\ \A i, k \in DOMAIN queue : queue[i] = queue[k] => i = k
    /\ \A j \in Jobs : pc[j] = "wait" <=> \E i \in DOMAIN queue : queue[i] = j

\* A job that was never uploaded has left no trace.
FreshOK(j) ==
    tags[j] = NULL => j \notin songs \cup files /\ pc[j] = "idle" /\ status[j] = "none"

\* The row is as far as the job is, or gone with the user.
InStep(j) ==
    /\ pc[j] = "create" => status[j] = "none"
    /\ pc[j] \in {"wait", "begin"} => status[j] \in {"pending", "none"}
    /\ pc[j] \in Running \ {"begin"} => status[j] \in {"processing", "none"}
    /\ present /\ pc[j] \in Running \cup {"wait"} => status[j] # "none"

\* No song before the insert, and what the file is waiting for.
FilesOK(j) ==
    /\ pc[j] \in {"create", "wait", "begin", "read", "duplicate", "insert"} => j \notin songs
    /\ present /\ j \in files \ songs => pc[j] \in Unsettled \/ status[j] = "failed"

DuplicateOK(j) ==
    pc[j] = "duplicate" \/ status[j] = "duplicate" =>
        /\ j \notin songs \cup files
        /\ duplicate[j] \in Jobs \ {j} /\ tags[duplicate[j]] = tags[j] /\ tags[j] # NULL

JobOK(j) == FreshOK(j) /\ InStep(j) /\ FilesOK(j) /\ DuplicateOK(j)

LeftOverInv == TypeOK /\ QueueOK /\ \A j \in Jobs : JobOK(j)

LEMMA QueueAppend ==
  ASSUME PcOK, QueueOK, NEW j \in Jobs, pc[j] # "wait", Goto(j, "wait"),
         queue' = Append(queue, j)
  PROVE  QueueOK'
<1>1. queue' \in Seq(Jobs) /\ DOMAIN queue' = 1..(Len(queue) + 1)
  BY DEF QueueOK
<1>2. /\ DOMAIN queue = 1..Len(queue) /\ Len(queue) \in Nat
      /\ queue'[Len(queue) + 1] = j /\ \A i \in DOMAIN queue : queue'[i] = queue[i]
  BY DEF QueueOK
<1>3. \A i \in DOMAIN queue : queue[i] # j
  BY DEF QueueOK
<1>4. \A i \in DOMAIN queue' : i \in DOMAIN queue \/ i = Len(queue) + 1
  BY <1>1, <1>2
<1>5. \A i, k \in DOMAIN queue' : queue'[i] = queue'[k] => i = k
  BY <1>2, <1>3, <1>4 DEF QueueOK
<1>6. ASSUME NEW x \in Jobs
      PROVE  pc'[x] = "wait" <=> \E i \in DOMAIN queue' : queue'[i] = x
  <2>1. CASE x = j
    <3>1. pc'[x] = "wait" /\ Len(queue) + 1 \in DOMAIN queue'
      BY <1>1, <1>2, <2>1 DEF Goto, PcOK
    <3> QED  BY <1>2, <2>1, <3>1
  <2>2. CASE x # j
    <3>1. pc'[x] = pc[x]
      BY <2>2 DEF Goto, PcOK
    <3>2. DOMAIN queue \subseteq DOMAIN queue'
      BY <1>1, <1>2
    <3>3. (\E i \in DOMAIN queue' : queue'[i] = x) <=> (\E i \in DOMAIN queue : queue[i] = x)
      BY <1>2, <1>4, <2>2, <3>2
    <3> QED  BY <3>1, <3>3 DEF QueueOK
  <2> QED  BY <2>1, <2>2
<1> QED  BY <1>1, <1>5, <1>6 DEF QueueOK

LEMMA QueueTail ==
  ASSUME PcOK, QueueOK, NEW j \in Jobs, pc[j] = "wait", Goto(j, "begin"),
         j = Head(queue), queue' = Tail(queue)
  PROVE  QueueOK'
<1>1. queue # <<>> /\ Len(queue) \in Nat \ {0} /\ DOMAIN queue = 1..Len(queue)
  BY DEF QueueOK
<1>2. /\ queue' \in Seq(Jobs) /\ DOMAIN queue' = 1..(Len(queue) - 1)
      /\ \A i \in DOMAIN queue' : queue'[i] = queue[i + 1] /\ i + 1 \in DOMAIN queue
  BY <1>1 DEF QueueOK
<1>3. queue[1] = j /\ 1 \in DOMAIN queue
  BY <1>1 DEF QueueOK
<1>4. \A i, k \in DOMAIN queue' : queue'[i] = queue'[k] => i = k
  <2> SUFFICES ASSUME NEW i \in DOMAIN queue', NEW k \in DOMAIN queue', queue'[i] = queue'[k]
               PROVE  i = k
    OBVIOUS
  <2>1. i + 1 = k + 1
    BY <1>2 DEF QueueOK
  <2> QED  BY <1>1, <1>2, <2>1
<1>5. ASSUME NEW x \in Jobs
      PROVE  pc'[x] = "wait" <=> \E i \in DOMAIN queue' : queue'[i] = x
  <2>1. CASE x = j
    <3>1. pc'[x] # "wait"
      BY <2>1 DEF Goto, PcOK
    <3>2. ASSUME NEW i \in DOMAIN queue', queue'[i] = j PROVE FALSE
      <4>1. i + 1 = 1
        BY <1>2, <1>3, <3>2 DEF QueueOK
      <4> QED  BY <1>1, <1>2, <4>1
    <3> QED  BY <2>1, <3>1, <3>2
  <2>2. CASE x # j
    <3>1. pc'[x] = pc[x]
      BY <2>2 DEF Goto, PcOK
    <3>2. ASSUME NEW i \in DOMAIN queue, queue[i] = x
          PROVE  \E k \in DOMAIN queue' : queue'[k] = x
      <4>1. i # 1 /\ i \in Nat
        BY <1>1, <1>3, <2>2, <3>2
      <4>2. i - 1 \in DOMAIN queue'
        BY <1>1, <1>2, <4>1
      <4>3. queue'[i - 1] = queue[(i - 1) + 1] /\ (i - 1) + 1 = i
        BY <1>2, <4>1, <4>2
      <4> QED  BY <3>2, <4>2, <4>3
    <3>3. ASSUME NEW i \in DOMAIN queue', queue'[i] = x
          PROVE  \E k \in DOMAIN queue : queue[k] = x
      BY <1>2, <3>3
    <3> QED  BY <3>1, <3>2, <3>3 DEF QueueOK
  <2> QED  BY <2>1, <2>2
<1> QED  BY <1>2, <1>4, <1>5 DEF QueueOK

LEMMA QueueSame ==
  ASSUME PcOK, QueueOK, NEW j \in Jobs, pc[j] # "wait",
         NEW step \in Running \cup {"idle", "create"}, Goto(j, step), queue' = queue
  PROVE  QueueOK'
BY DEF PcOK, QueueOK, Goto, Running

\* A step of job j touches nothing of the others.
OnlyJob(j) ==
    /\ present' = present
    /\ \A x \in Jobs \ {j} :
          /\ pc'[x] = pc[x] /\ status'[x] = status[x]
          /\ duplicate'[x] = duplicate[x] /\ tags'[x] = tags[x]
          /\ x \in songs' <=> x \in songs
          /\ x \in files' <=> x \in files
    /\ tags[j] # NULL => tags'[j] = tags[j]

LEMMA JobKeeps ==
  ASSUME LeftOverInv, NEW j \in Jobs, OnlyJob(j), JobOK(j)', TypeOK', QueueOK'
  PROVE  LeftOverInv'
<1>1. ASSUME NEW x \in Jobs \ {j} PROVE JobOK(x)'
  <2>0. FreshOK(x) /\ InStep(x) /\ FilesOK(x) /\ DuplicateOK(x)
    BY DEF LeftOverInv, JobOK
  <2>1. FreshOK(x)' /\ InStep(x)' /\ FilesOK(x)'
    BY <2>0 DEF OnlyJob, FreshOK, InStep, FilesOK
  <2>2. DuplicateOK(x)'
    BY <2>0 DEF OnlyJob, DuplicateOK
  <2> QED  BY <2>1, <2>2 DEF JobOK
<1> QED  BY <1>1 DEF LeftOverInv

\* update_import_job.
LEMMA UpdateRow ==
  ASSUME TypeOK, NEW j \in Jobs,
         NEW s \in {"pending", "processing", "done", "failed", "duplicate"},
         UpdateImportJob(j, s)
  PROVE  /\ status' \in [Jobs -> {"none", "pending", "processing", "done", "failed", "duplicate"}]
         /\ status'[j] = IF status[j] = "none" THEN "none" ELSE s
         /\ \A x \in Jobs \ {j} : status'[x] = status[x]
BY DEF TypeOK, UpdateImportJob

\* A step of job j that leaves its queue and tags alone goes to another step.
Moves(j, step) == pc[j] # "wait" /\ Goto(j, step) /\ UNCHANGED <<queue, tags, present>>

LEMMA MoveTypes ==
  ASSUME LeftOverInv, NEW j \in Jobs, NEW step \in Running \cup {"idle", "create"},
         Moves(j, step), free' \in {free, free + 1},
         songs' \subseteq Jobs, files' \subseteq Jobs, library' \subseteq songs',
         status' \in [Jobs -> {"none", "pending", "processing", "done", "failed", "duplicate"}],
         duplicate' \in [Jobs -> Jobs \cup {NULL}]
  PROVE  /\ TypeOK' /\ QueueOK' /\ pc'[j] = step
         /\ \A x \in Jobs \ {j} : pc'[x] = pc[x]
<1>0. TypeOK /\ QueueOK /\ PcOK
  BY DEF LeftOverInv, TypeOK, PcOK
<1>1. QueueOK'
  BY <1>0, QueueSame DEF Moves
<1>2. pc' \in [Jobs -> Running \cup {"idle", "create", "wait"}] /\ pc'[j] = step
      /\ \A x \in Jobs \ {j} : pc'[x] = pc[x]
  BY <1>0 DEF Moves, Goto, PcOK
<1>3. free' \in Int
  BY <1>0 DEF TypeOK
<1> QED  BY <1>0, <1>1, <1>2, <1>3 DEF Moves, TypeOK, QueueOK

\* What is known of a job at a step.
LEMMA AtStep ==
  ASSUME LeftOverInv, NEW j \in Jobs
  PROVE  /\ TypeOK /\ QueueOK /\ PcOK /\ FreshOK(j) /\ InStep(j) /\ FilesOK(j) /\ DuplicateOK(j)
         /\ pc[j] # "idle" => tags[j] # NULL
BY DEF LeftOverInv, JobOK, TypeOK, PcOK, FreshOK

LEMMA UploadKeeps ==
  ASSUME LeftOverInv, NEW j \in Jobs, Upload(j)
  PROVE  LeftOverInv'
<1>0. TypeOK /\ QueueOK /\ PcOK /\ FreshOK(j) /\ InStep(j) /\ FilesOK(j) /\ DuplicateOK(j)
  BY AtStep
<1>1. /\ pc[j] = "idle" /\ status[j] = "none" /\ tags[j] = NULL /\ j \notin songs
      /\ Goto(j, "create") /\ files' = files \cup {j}
      /\ UNCHANGED <<songs, library, present, status, duplicate, queue, free>>
  BY <1>0 DEF Upload, FreshOK
<1>2. PICK tag \in Tags : tags' = [tags EXCEPT ![j] = tag]
  BY DEF Upload
<1>3. tags' \in [Jobs -> Tags \cup {NULL}] /\ tags'[j] = tag
      /\ \A x \in Jobs \ {j} : tags'[x] = tags[x]
  BY <1>0, <1>2 DEF TypeOK
<1>4. QueueOK'
  BY <1>0, <1>1, QueueSame
<1>5. pc' \in [Jobs -> Running \cup {"idle", "create", "wait"}] /\ pc'[j] = "create"
      /\ \A x \in Jobs \ {j} : pc'[x] = pc[x]
  BY <1>0, <1>1 DEF Goto, PcOK
<1>6. TypeOK'
  BY <1>0, <1>1, <1>3, <1>4, <1>5 DEF TypeOK, QueueOK
<1>7. OnlyJob(j)
  BY <1>1, <1>3, <1>5 DEF OnlyJob
<1>8. tag # NULL
  BY ImportAssumption DEF Tags
<1>9. JobOK(j)'
  BY <1>1, <1>3, <1>5, <1>8 DEF JobOK, FreshOK, InStep, FilesOK, DuplicateOK, Running, Unsettled
<1> QED  BY <1>4, <1>6, <1>7, <1>9, JobKeeps

LEMMA CreateKeeps ==
  ASSUME LeftOverInv, NEW j \in Jobs, CreateImportJob(j)
  PROVE  LeftOverInv'
<1>0. /\ TypeOK /\ QueueOK /\ PcOK /\ FreshOK(j) /\ InStep(j) /\ FilesOK(j) /\ DuplicateOK(j)
      /\ tags[j] # NULL
  BY AtStep DEF CreateImportJob
<1>1. /\ pc[j] = "create" /\ status[j] = "none" /\ j \notin songs
      /\ UNCHANGED <<store, present, duplicate, tags, free>>
  BY <1>0 DEF CreateImportJob, InStep, FilesOK
<1>2. CASE present
  <2>1. /\ status' = [status EXCEPT ![j] = "pending"]
        /\ queue' = Append(queue, j) /\ Goto(j, "wait")
    BY <1>2 DEF CreateImportJob
  <2>2. QueueOK'
    BY <1>0, <1>1, <2>1, QueueAppend
  <2>3. /\ pc' \in [Jobs -> Running \cup {"idle", "create", "wait"}] /\ pc'[j] = "wait"
        /\ \A x \in Jobs \ {j} : pc'[x] = pc[x]
    BY <1>0, <2>1 DEF Goto, PcOK
  <2>4. /\ status' \in [Jobs -> {"none", "pending", "processing", "done", "failed", "duplicate"}]
        /\ status'[j] = "pending" /\ \A x \in Jobs \ {j} : status'[x] = status[x]
    BY <1>0, <2>1 DEF TypeOK
  <2>5. TypeOK'
    BY <1>0, <1>1, <2>2, <2>3, <2>4 DEF TypeOK, QueueOK, store
  <2>6. OnlyJob(j)
    BY <1>1, <2>3, <2>4 DEF OnlyJob, store
  <2>7. JobOK(j)'
    BY <1>0, <1>1, <2>3, <2>4
       DEF JobOK, FreshOK, InStep, FilesOK, DuplicateOK, Running, Unsettled, store
  <2> QED  BY <2>2, <2>5, <2>6, <2>7, JobKeeps
<1>3. CASE ~present
  <2>1. Moves(j, "idle") /\ UNCHANGED status
    BY <1>1, <1>3 DEF CreateImportJob, Moves
  <2>2. /\ TypeOK' /\ QueueOK' /\ pc'[j] = "idle"
        /\ \A x \in Jobs \ {j} : pc'[x] = pc[x]
    BY <1>0, <1>1, <2>1, MoveTypes DEF TypeOK, store
  <2>3. OnlyJob(j)
    BY <1>1, <2>1, <2>2 DEF OnlyJob, store
  <2>4. JobOK(j)'
    BY <1>0, <1>1, <1>3, <2>1, <2>2
       DEF JobOK, FreshOK, InStep, FilesOK, DuplicateOK, Running, store
  <2> QED  BY <2>2, <2>3, <2>4, JobKeeps
<1> QED  BY <1>2, <1>3

LEMMA AcquireKeeps ==
  ASSUME LeftOverInv, NEW j \in Jobs, Acquire(j)
  PROVE  LeftOverInv'
<1>0. /\ TypeOK /\ QueueOK /\ PcOK /\ FreshOK(j) /\ InStep(j) /\ FilesOK(j) /\ DuplicateOK(j)
      /\ tags[j] # NULL
  BY AtStep DEF Acquire
<1>1. /\ pc[j] = "wait" /\ Goto(j, "begin") /\ queue' = Tail(queue) /\ j = Head(queue)
      /\ free' = free - 1 /\ UNCHANGED <<store, jobs>>
  BY DEF Acquire
<1>2. QueueOK'
  BY <1>0, <1>1, QueueTail
<1>3. /\ pc' \in [Jobs -> Running \cup {"idle", "create", "wait"}] /\ pc'[j] = "begin"
      /\ \A x \in Jobs \ {j} : pc'[x] = pc[x]
  BY <1>0, <1>1 DEF Goto, PcOK, Running
<1>4. TypeOK'
  BY <1>0, <1>1, <1>2, <1>3 DEF TypeOK, QueueOK, store, jobs
<1>5. OnlyJob(j)
  BY <1>1, <1>3 DEF OnlyJob, store, jobs
<1>6. JobOK(j)'
  BY <1>0, <1>1, <1>3
     DEF JobOK, FreshOK, InStep, FilesOK, DuplicateOK, Running, Unsettled, store, jobs
<1> QED  BY <1>2, <1>4, <1>5, <1>6, JobKeeps

LEMMA BeginKeeps ==
  ASSUME LeftOverInv, NEW j \in Jobs, Begin(j)
  PROVE  LeftOverInv'
<1>0. /\ TypeOK /\ QueueOK /\ PcOK /\ FreshOK(j) /\ InStep(j) /\ FilesOK(j) /\ DuplicateOK(j)
      /\ tags[j] # NULL
  BY AtStep DEF Begin
<1>1. pc[j] = "begin" /\ Moves(j, "read") /\ UNCHANGED <<store, duplicate, free>>
  BY DEF Begin, Moves
<1>2. /\ status' \in [Jobs -> {"none", "pending", "processing", "done", "failed", "duplicate"}]
      /\ status'[j] = IF status[j] = "none" THEN "none" ELSE "processing"
      /\ \A x \in Jobs \ {j} : status'[x] = status[x]
  BY <1>0, UpdateRow DEF Begin
<1>3. TypeOK' /\ QueueOK' /\ pc'[j] = "read" /\ \A x \in Jobs \ {j} : pc'[x] = pc[x]
  BY <1>0, <1>1, <1>2, MoveTypes DEF TypeOK, store, Running
<1>4. OnlyJob(j)
  BY <1>1, <1>2, <1>3 DEF OnlyJob, store, Moves
<1>5. JobOK(j)'
  BY <1>0, <1>1, <1>2, <1>3
     DEF JobOK, FreshOK, InStep, FilesOK, DuplicateOK, Running, Unsettled, store, Moves
<1> QED  BY <1>3, <1>4, <1>5, JobKeeps

LEMMA ReadKeeps ==
  ASSUME LeftOverInv, NEW j \in Jobs, Read(j)
  PROVE  LeftOverInv'
<1>0. /\ TypeOK /\ QueueOK /\ PcOK /\ FreshOK(j) /\ InStep(j) /\ FilesOK(j) /\ DuplicateOK(j)
      /\ tags[j] # NULL
  BY AtStep DEF Read
<1>1. /\ pc[j] = "read" /\ j \notin songs
      /\ UNCHANGED <<songs, library, present, status, tags, queue, free>>
  BY <1>0 DEF Read, FilesOK
<1>2. CASE /\ Goto(j, "fail") \/ Goto(j, "insert")
           /\ UNCHANGED <<files, duplicate>>
  <2>1. PICK step \in {"fail", "insert"} : Moves(j, step)
    BY <1>1, <1>2 DEF Moves
  <2>2. TypeOK' /\ QueueOK' /\ pc'[j] = step /\ \A x \in Jobs \ {j} : pc'[x] = pc[x]
    BY <1>0, <1>1, <1>2, <2>1, MoveTypes DEF TypeOK, Running
  <2>3. OnlyJob(j)
    BY <1>1, <1>2, <2>2 DEF OnlyJob
  <2>4. JobOK(j)'
    BY <1>0, <1>1, <1>2, <2>2
       DEF JobOK, FreshOK, InStep, FilesOK, DuplicateOK, Running, Unsettled
  <2> QED  BY <2>2, <2>3, <2>4, JobKeeps
<1>3. ASSUME NEW o \in Same(j), duplicate' = [duplicate EXCEPT ![j] = o],
             Discard(j), Goto(j, "duplicate")
      PROVE  LeftOverInv'
  <2>1. o \in Jobs \ {j} /\ tags[o] = tags[j]
    BY <1>0, <1>1, <1>3 DEF Same, TypeOK
  <2>2. /\ duplicate' \in [Jobs -> Jobs \cup {NULL}] /\ duplicate'[j] = o
        /\ \A x \in Jobs \ {j} : duplicate'[x] = duplicate[x]
    BY <1>0, <1>3, <2>1 DEF TypeOK
  <2>3. files' = files \ {j} /\ Moves(j, "duplicate")
    BY <1>1, <1>3 DEF Discard, Moves
  <2>4. TypeOK' /\ QueueOK' /\ pc'[j] = "duplicate" /\ \A x \in Jobs \ {j} : pc'[x] = pc[x]
    BY <1>0, <1>1, <2>2, <2>3, MoveTypes DEF TypeOK, Running
  <2>5. OnlyJob(j)
    BY <1>1, <2>2, <2>3, <2>4 DEF OnlyJob
  <2>6. JobOK(j)'
    BY <1>0, <1>1, <2>1, <2>2, <2>3, <2>4
       DEF JobOK, FreshOK, InStep, FilesOK, DuplicateOK, Running, Unsettled
  <2> QED  BY <2>4, <2>5, <2>6, JobKeeps
<1> QED  BY <1>2, <1>3 DEF Read

\* The three ways a job settles.
LEMMA SettleKeeps ==
  ASSUME LeftOverInv, NEW j \in Jobs, Fail(j) \/ Duplicate(j) \/ Finish(j)
  PROVE  LeftOverInv'
<1>0. /\ TypeOK /\ QueueOK /\ PcOK /\ FreshOK(j) /\ InStep(j) /\ FilesOK(j) /\ DuplicateOK(j)
      /\ tags[j] # NULL
  BY AtStep DEF Fail, Duplicate, Finish
<1>1. PICK s \in {"failed", "duplicate", "done"} :
         /\ UpdateImportJob(j, s)
         /\ s = "failed" => pc[j] = "fail"
         /\ s = "duplicate" => pc[j] = "duplicate"
         /\ s = "done" => pc[j] = "finish"
  BY DEF Fail, Duplicate, Finish
<1>2. /\ pc[j] \in {"fail", "duplicate", "finish"} /\ Moves(j, "idle")
      /\ free' = free + 1 /\ UNCHANGED <<store, duplicate>>
  BY DEF Fail, Duplicate, Finish, Release, Moves
<1>3. /\ status' \in [Jobs -> {"none", "pending", "processing", "done", "failed", "duplicate"}]
      /\ status'[j] = IF status[j] = "none" THEN "none" ELSE s
      /\ \A x \in Jobs \ {j} : status'[x] = status[x]
  BY <1>0, <1>1, UpdateRow
<1>4. TypeOK' /\ QueueOK' /\ pc'[j] = "idle" /\ \A x \in Jobs \ {j} : pc'[x] = pc[x]
  BY <1>0, <1>2, <1>3, MoveTypes DEF TypeOK, store
<1>5. OnlyJob(j)
  BY <1>2, <1>3, <1>4 DEF OnlyJob, store, Moves
<1>6. JobOK(j)'
  BY <1>0, <1>1, <1>2, <1>3, <1>4
     DEF JobOK, FreshOK, InStep, FilesOK, DuplicateOK, Running, Unsettled, store, Moves
<1> QED  BY <1>4, <1>5, <1>6, JobKeeps

LEMMA InsertKeeps ==
  ASSUME LeftOverInv, NEW j \in Jobs, Insert(j) \/ Look(j)
  PROVE  LeftOverInv'
<1>0. /\ TypeOK /\ QueueOK /\ PcOK /\ FreshOK(j) /\ InStep(j) /\ FilesOK(j) /\ DuplicateOK(j)
      /\ tags[j] # NULL
  BY AtStep DEF Insert, Look
<1>1. PICK step \in {"look", "finish", "list"} : Moves(j, step)
  BY DEF Insert, Look, Moves, jobs
<1>2. /\ pc[j] \in {"insert", "look"}
      /\ songs' = IF pc[j] = "insert" THEN songs \cup {j} ELSE songs
      /\ UNCHANGED <<files, library, jobs, free>>
  BY DEF Insert, Look, store
<1>s. songs' \subseteq Jobs /\ library' \subseteq songs'
  BY <1>0, <1>2 DEF TypeOK
<1>3. TypeOK' /\ QueueOK' /\ pc'[j] = step /\ \A x \in Jobs \ {j} : pc'[x] = pc[x]
  BY <1>0, <1>1, <1>2, <1>s, MoveTypes DEF TypeOK, jobs, Running
<1>4. OnlyJob(j)
  BY <1>2, <1>3 DEF OnlyJob, jobs
<1>5. JobOK(j)'
  BY <1>0, <1>2, <1>3
     DEF JobOK, FreshOK, InStep, FilesOK, DuplicateOK, Running, Unsettled, jobs
<1> QED  BY <1>3, <1>4, <1>5, JobKeeps

\* The library entry, and what happens when it cannot be made or read back.
LEMMA ListKeeps ==
  ASSUME LeftOverInv, NEW j \in Jobs, List(j) \/ Refresh(j)
  PROVE  LeftOverInv'
<1>0. /\ TypeOK /\ QueueOK /\ PcOK /\ FreshOK(j) /\ InStep(j) /\ FilesOK(j) /\ DuplicateOK(j)
      /\ tags[j] # NULL
  BY AtStep DEF List, Refresh
<1>1. PICK step \in {"refresh", "idle", "finish", "fail"} :
         /\ Moves(j, step)
         /\ files' = IF step \in {"idle", "fail"} THEN files \ {j} ELSE files
  <2>1. CASE List(j) /\ Goto(j, "refresh") /\ UNCHANGED <<files, queue>>
    BY <2>1 DEF List, Moves, jobs
  <2>2. CASE List(j) /\ Discard(j) /\ Release(j)
    BY <2>2 DEF List, Moves, Release, Discard, jobs
  <2>3. CASE Refresh(j) /\ Goto(j, "finish") /\ UNCHANGED files
    BY <2>3 DEF Refresh, Moves, jobs
  <2>4. CASE Refresh(j) /\ Goto(j, "fail") /\ Discard(j)
    BY <2>4 DEF Refresh, Moves, Discard, jobs
  <2> QED  BY <2>1, <2>2, <2>3, <2>4 DEF List, Refresh
<1>2. /\ pc[j] \in {"list", "refresh"}
      /\ songs' = songs /\ library' \subseteq songs' /\ free' \in {free, free + 1}
      /\ UNCHANGED jobs
  BY <1>0 DEF List, Refresh, Release, TypeOK
<1>3. TypeOK' /\ QueueOK' /\ pc'[j] = step /\ \A x \in Jobs \ {j} : pc'[x] = pc[x]
  BY <1>0, <1>1, <1>2, MoveTypes DEF TypeOK, jobs, Running
<1>4. OnlyJob(j)
  BY <1>1, <1>2, <1>3 DEF OnlyJob, jobs
<1>5. JobOK(j)'
  BY <1>0, <1>1, <1>2, <1>3
     DEF JobOK, FreshOK, InStep, FilesOK, DuplicateOK, Running, Unsettled, jobs
<1> QED  BY <1>3, <1>4, <1>5, JobKeeps

LEMMA OthersKeep ==
  ASSUME LeftOverInv,
         \/ \E s \in Jobs : AddToLibrary(s) \/ RemoveFromLibrary(s) \/ DeleteDownload(s)
         \/ DeleteUser
         \/ UNCHANGED vars
  PROVE  LeftOverInv'
<1>0. TypeOK /\ QueueOK
  BY DEF LeftOverInv
<1>1. CASE \/ \E s \in Jobs : AddToLibrary(s) \/ RemoveFromLibrary(s)
           \/ UNCHANGED vars
  <2>1. UNCHANGED <<songs, files, jobs, pc, queue, free>> /\ library' \subseteq songs
    BY <1>0, <1>1 DEF AddToLibrary, RemoveFromLibrary, vars, store, TypeOK
  <2>2. TypeOK' /\ QueueOK'
    BY <1>0, <2>1 DEF TypeOK, QueueOK, jobs
  <2>3. \A j \in Jobs : JobOK(j)'
    BY <2>1 DEF LeftOverInv, JobOK, FreshOK, InStep, FilesOK, DuplicateOK, jobs
  <2> QED  BY <2>2, <2>3 DEF LeftOverInv
<1>2. ASSUME NEW s \in Jobs, DeleteDownload(s) PROVE LeftOverInv'
  <2>1. TypeOK' /\ QueueOK'
    BY <1>0, <1>2 DEF DeleteDownload, TypeOK, QueueOK, jobs
  <2>2. ASSUME NEW j \in Jobs PROVE JobOK(j)'
    BY <1>2 DEF DeleteDownload, LeftOverInv, JobOK, FreshOK, InStep, FilesOK, DuplicateOK, jobs
  <2> QED  BY <2>1, <2>2 DEF LeftOverInv
<1>3. CASE DeleteUser
  <2>1. TypeOK' /\ QueueOK'
    BY <1>0, <1>3 DEF DeleteUser, TypeOK, QueueOK
  <2>2. ASSUME NEW j \in Jobs PROVE JobOK(j)'
    BY <1>3 DEF DeleteUser, LeftOverInv, JobOK, FreshOK, InStep, FilesOK, DuplicateOK
  <2> QED  BY <2>1, <2>2 DEF LeftOverInv
<1> QED  BY <1>1, <1>2, <1>3

LEMMA LeftOverStep == LeftOverInv /\ [Next]_vars => LeftOverInv'
BY UploadKeeps, CreateKeeps, AcquireKeeps, BeginKeeps, ReadKeeps, SettleKeeps, InsertKeeps,
   ListKeeps, OthersKeep
   DEF Next, JobStep

LEMMA LeftOverInit == Init => LeftOverInv
<1> SUFFICES ASSUME Init PROVE LeftOverInv
  OBVIOUS
<1>1. QueueOK
  BY DEF Init, QueueOK
<1>2. Slots \in Nat \ {0}
  BY ImportAssumption, Zenon
<1>3. TypeOK
  BY <1>1, <1>2 DEF Init, TypeOK, QueueOK
<1>4. \A j \in Jobs : JobOK(j)
  BY DEF Init, JobOK, FreshOK, InStep, FilesOK, DuplicateOK, Running
<1> QED  BY <1>1, <1>3, <1>4 DEF LeftOverInv

\* Whichever way imports end and whoever interferes, a file without a song waits for
\* its import or is one that had no title, and a duplicate is named and gone, for any
\* number of jobs, recordings and slots.
THEOREM NothingStays == Spec => []NothingLeftOver
<1>1. ASSUME LeftOverInv PROVE NothingLeftOver
  <2>1. TypeOK /\ \A j \in Jobs : FilesOK(j) /\ DuplicateOK(j)
    BY <1>1 DEF LeftOverInv, JobOK
  <2>2. UploadsAccounted
    BY <2>1 DEF UploadsAccounted, FilesOK, TypeOK
  <2>3. DuplicatesLeaveNothing
    BY <2>1 DEF DuplicatesLeaveNothing, DuplicateOK
  <2> QED  BY <2>1, <2>2, <2>3 DEF NothingLeftOver
<1>2. LeftOverInv => NothingLeftOver
  BY <1>1
<1> QED  BY <1>2, LeftOverInit, LeftOverStep, PTL DEF Spec

LEMMA ImportLifecycleStep ==
  ASSUME LeftOverInv, [Next]_vars
  PROVE  [Lifecycle!Next]_status
<1>0. TypeOK /\ \A j \in Jobs : InStep(j)
  BY DEF LeftOverInv, JobOK
<1>1. ASSUME NEW j \in Jobs, CreateImportJob(j) PROVE [Lifecycle!Next]_status
  <2>1. status[j] \notin Lifecycle!Open
    BY <1>0, <1>1 DEF CreateImportJob, InStep, Lifecycle!Open
  <2> QED  BY <1>1, <2>1 DEF CreateImportJob, Lifecycle!Next, Lifecycle!Submit
<1>2. ASSUME NEW j \in Jobs, Begin(j) PROVE [Lifecycle!Next]_status
  <2>1. status[j] \in {"pending", "none"}
    BY <1>0, <1>2 DEF Begin, InStep
  <2> QED  BY <1>2, <2>1 DEF Begin, UpdateImportJob, Lifecycle!Next, Lifecycle!Begin
<1>3. ASSUME NEW j \in Jobs, Fail(j) \/ Duplicate(j) \/ Finish(j)
      PROVE  [Lifecycle!Next]_status
  <2>1. status[j] \in {"processing", "none"}
    BY <1>0, <1>3 DEF Fail, Duplicate, Finish, InStep, Running
  <2>2. PICK s \in Lifecycle!Settled : UpdateImportJob(j, s)
    BY <1>3 DEF Fail, Duplicate, Finish, Lifecycle!Settled
  <2> QED  BY <2>1, <2>2 DEF UpdateImportJob, Lifecycle!Next, Lifecycle!Settle
<1>4. CASE DeleteUser
  <2>1. status' = [j \in Jobs |-> IF j \in Jobs THEN "none" ELSE status[j]]
    BY <1>4 DEF DeleteUser
  <2>2. Jobs \in SUBSET Jobs
    OBVIOUS
  <2> QED  BY <2>1, <2>2 DEF Lifecycle!Next, Lifecycle!Cascade
<1>5. CASE \/ \E j \in Jobs : \/ Upload(j) \/ Acquire(j) \/ Read(j) \/ Insert(j) \/ Look(j)
                              \/ List(j) \/ Refresh(j)
                              \/ AddToLibrary(j) \/ RemoveFromLibrary(j) \/ DeleteDownload(j)
           \/ UNCHANGED vars
  <2>1. status' = status
    BY <1>5 DEF Upload, Acquire, Read, Insert, Look, List, Refresh, AddToLibrary,
                RemoveFromLibrary, DeleteDownload, vars, jobs
  <2> QED  BY <2>1
<1> QED  BY <1>1, <1>2, <1>3, <1>4, <1>5 DEF Next, JobStep

\* A client that polls an import sees it accepted, taken up once and settled at most
\* once; what it was settled as never changes again.
THEOREM ImportsKeepLifecycle == Spec => ImplementsLifecycle
<1>1. Init => Lifecycle!Init
  BY DEF Init, Lifecycle!Init
<1>2. LeftOverInv /\ [Next]_vars => [Lifecycle!Next]_status
  BY ImportLifecycleStep
<1> QED
  BY <1>1, <1>2, LeftOverInit, LeftOverStep, PTL DEF Spec, ImplementsLifecycle, Lifecycle!Spec

-----------------------------------------------------------------------------
(***************************************************************************)
(* The pool of connections, DbPool: the semaphore of imports is one of its *)
(* steps.  The pool keeps its connections: type correctness of DbPool, and *)
(* that every connection is in exactly one place, for any number of        *)
(* connections, tasks and slots.  The two together are inductive.          *)
(***************************************************************************)

PoolInv == PoolTypeOK /\ EveryConnectionHasOnePlace

\* What a step does to the places of connections, by itself.
Places == <<pool, leaked, outer, inner>>

\* Every handler is a sequence of steps.
LEMMA HandlersAreSteps == Handlers \subseteq Seq(StepNames)
BY DEF Handlers, StepNames, GetLibrary, Login, Download, GetDownload, DownloadShared,
       PutProperties, CreateEditJob, UploadImport

\* What is left of a handler after a step is a sequence of steps.
LEMMA AdvanceType ==
    ASSUME PoolTypeOK, NEW t \in Tasks, todo[t] # <<>>, Advance(t)
    PROVE  todo' \in [Tasks -> Seq(StepNames)]
<1>1. todo[t] \in Seq(StepNames)  BY DEF PoolTypeOK
<1>2. Tail(todo[t]) \in Seq(StepNames)  BY <1>1
<1> QED  BY <1>2 DEF PoolTypeOK, Advance

\* The end of a handler moves its connections into the pool, but for one that leaks.
Ends(t) ==
    /\ inner' = [inner EXCEPT ![t] = None] /\ outer' = [outer EXCEPT ![t] = None]
    /\ inSlot' = inSlot \ {t}
    /\ \/ /\ pool' = pool \cup ({inner[t], outer[t]} \ {None})
          /\ leaked' = leaked
       \/ /\ pool' = pool \cup ({inner[t]} \ {None})
          /\ leaked' = leaked \cup ({outer[t]} \ {None})

LEMMA ClosingKeeps ==
    ASSUME PoolInv, NEW t \in Tasks, Ends(t),
           \A u \in Tasks \ {t} : fate'[u] = fate[u]
    PROVE  /\ pool' \subseteq Connections /\ leaked' \subseteq Connections
           /\ inSlot' \subseteq Tasks
           /\ outer' \in [Tasks -> Connections \cup {None}]
           /\ inner' \in [Tasks -> Connections \cup {None}]
           /\ EveryConnectionHasOnePlace'
<1> USE DbPoolAssumption DEF PoolInv, PoolTypeOK
<1>1. /\ outer'[t] = None /\ inner'[t] = None
      /\ \A u \in Tasks \ {t} : outer'[u] = outer[u] /\ inner'[u] = inner[u]
      /\ pool' \cup leaked' = pool \cup leaked \cup ({inner[t], outer[t]} \ {None})
  BY DEF Ends
<1>2. /\ pool' \subseteq Connections /\ leaked' \subseteq Connections /\ inSlot' \subseteq Tasks
      /\ outer' \in [Tasks -> Connections \cup {None}]
      /\ inner' \in [Tasks -> Connections \cup {None}]
  BY DEF Ends
<1>3. ASSUME NEW c \in Connections
      PROVE  c \in pool' \cup leaked' \/ \E u \in Tasks : c \in {outer'[u], inner'[u]}
  BY <1>1 DEF EveryConnectionHasOnePlace
<1>4. ASSUME NEW u \in Tasks PROVE (pool' \cup leaked') \cap {outer'[u], inner'[u]} = {}
  <2>1. CASE u = t  BY <1>1, <1>2, <2>1
  <2>2. CASE u # t
    <3>1. outer'[u] = outer[u] /\ inner'[u] = inner[u]
      BY <1>1, <2>2
    <3>2. {outer[u], inner[u]} \cap {outer[t], inner[t]} \subseteq {None}
      BY <2>2 DEF EveryConnectionHasOnePlace
    <3>3. (pool \cup leaked) \cap {outer[u], inner[u]} = {}
      BY DEF EveryConnectionHasOnePlace
    <3> QED  BY <1>1, <3>1, <3>2, <3>3
  <2> QED  BY <2>1, <2>2
<1>5. ASSUME NEW u \in Tasks
      PROVE  /\ outer'[u] = inner'[u] => outer'[u] = None
             /\ fate'[u] \notin Underway => outer'[u] = None /\ inner'[u] = None
  <2>1. CASE u = t  BY <1>1, <2>1
  <2>2. CASE u # t
    <3>1. outer'[u] = outer[u] /\ inner'[u] = inner[u] /\ fate'[u] = fate[u]
      BY <1>1, <2>2
    <3> QED  BY <3>1 DEF EveryConnectionHasOnePlace
  <2> QED  BY <2>1, <2>2
<1>6. ASSUME NEW u \in Tasks, NEW v \in Tasks, u # v
      PROVE  {outer'[u], inner'[u]} \cap {outer'[v], inner'[v]} \subseteq {None}
  BY <1>1, <1>6 DEF EveryConnectionHasOnePlace
<1>7. pool' \cap leaked' = {}
  <2>1. /\ pool \cap leaked = {} /\ (pool \cup leaked) \cap {outer[t], inner[t]} = {}
        /\ outer[t] = inner[t] => outer[t] = None
    BY DEF EveryConnectionHasOnePlace
  <2> QED  BY <2>1 DEF Ends
<1> QED  BY <1>2, <1>3, <1>4, <1>5, <1>6, <1>7 DEF EveryConnectionHasOnePlace

\* One session takes a connection out of the pool: it is with that session then.
LEMMA TakingKeeps ==
    ASSUME PoolInv, NEW t \in Tasks, NEW c \in pool, fate[t] \in Underway, fate' = fate,
           pool' = pool \ {c}, leaked' = leaked,
           \/ outer[t] = None /\ outer' = [outer EXCEPT ![t] = c] /\ inner' = inner
           \/ inner[t] = None /\ inner' = [inner EXCEPT ![t] = c] /\ outer' = outer
    PROVE  /\ pool' \subseteq Connections
           /\ outer' \in [Tasks -> Connections \cup {None}]
           /\ inner' \in [Tasks -> Connections \cup {None}]
           /\ EveryConnectionHasOnePlace'
<1> USE DbPoolAssumption DEF PoolInv, PoolTypeOK
<1>1. /\ \/ outer[t] = None /\ outer'[t] = c /\ inner'[t] = inner[t]
         \/ inner[t] = None /\ inner'[t] = c /\ outer'[t] = outer[t]
      /\ \A u \in Tasks \ {t} : outer'[u] = outer[u] /\ inner'[u] = inner[u]
  OBVIOUS
<1>2. /\ pool' \subseteq Connections
      /\ outer' \in [Tasks -> Connections \cup {None}]
      /\ inner' \in [Tasks -> Connections \cup {None}]
  OBVIOUS
<1>3. c # None /\ c \notin leaked /\ \A u \in Tasks : c \notin {outer[u], inner[u]}
  BY DEF EveryConnectionHasOnePlace
<1>4. ASSUME NEW d \in Connections
      PROVE  d \in pool' \cup leaked' \/ \E u \in Tasks : d \in {outer'[u], inner'[u]}
  BY <1>1 DEF EveryConnectionHasOnePlace
<1>5. ASSUME NEW u \in Tasks
      PROVE  /\ (pool' \cup leaked') \cap {outer'[u], inner'[u]} = {}
             /\ outer'[u] = inner'[u] => outer'[u] = None
             /\ fate'[u] \notin Underway => outer'[u] = None /\ inner'[u] = None
  <2>1. CASE u = t  BY <1>1, <1>3, <2>1 DEF EveryConnectionHasOnePlace
  <2>2. CASE u # t
    <3>1. outer'[u] = outer[u] /\ inner'[u] = inner[u] /\ fate'[u] = fate[u]
      BY <1>1, <2>2
    <3> QED  BY <3>1 DEF EveryConnectionHasOnePlace
  <2> QED  BY <2>1, <2>2
<1>6. ASSUME NEW u \in Tasks, NEW v \in Tasks, u # v
      PROVE  {outer'[u], inner'[u]} \cap {outer'[v], inner'[v]} \subseteq {None}
  <2>1. {outer[u], inner[u]} \cap {outer[v], inner[v]} \subseteq {None}
    BY <1>6 DEF EveryConnectionHasOnePlace
  <2> QED  BY <1>1, <1>3, <1>6, <2>1
<1>7. pool' \cap leaked' = {}  BY DEF EveryConnectionHasOnePlace
<1> QED  BY <1>2, <1>4, <1>5, <1>6, <1>7 DEF EveryConnectionHasOnePlace

\* A session gives its connection back.
LEMMA ReturningKeeps ==
    ASSUME PoolInv, NEW t \in Tasks, Return(t)
    PROVE  /\ pool' \subseteq Connections
           /\ outer' \in [Tasks -> Connections \cup {None}]
           /\ inner' \in [Tasks -> Connections \cup {None}]
           /\ EveryConnectionHasOnePlace'
<1> USE DbPoolAssumption DEF PoolInv, PoolTypeOK
<1>1. /\ \/ /\ inner'[t] = None /\ outer'[t] = outer[t]
            /\ pool' = pool \cup {inner[t]} /\ inner[t] # None
         \/ /\ outer'[t] = None /\ inner'[t] = inner[t] /\ inner[t] = None
            /\ pool' = pool \cup ({outer[t]} \ {None})
      /\ \A u \in Tasks \ {t} : outer'[u] = outer[u] /\ inner'[u] = inner[u]
      /\ fate' = fate /\ leaked' = leaked
  BY DEF Return
<1>2. /\ pool' \subseteq Connections
      /\ outer' \in [Tasks -> Connections \cup {None}]
      /\ inner' \in [Tasks -> Connections \cup {None}]
  <2>1. outer[t] \in Connections \cup {None} /\ inner[t] \in Connections \cup {None}
    OBVIOUS
  <2>2. pool' \subseteq Connections  BY <1>1, <2>1
  <2>3. outer' = outer \/ outer' = [outer EXCEPT ![t] = None]  BY DEF Return
  <2>4. inner' = inner \/ inner' = [inner EXCEPT ![t] = None]  BY DEF Return
  <2> QED  BY <2>2, <2>3, <2>4
<1>3. ASSUME NEW d \in Connections
      PROVE  d \in pool' \cup leaked' \/ \E u \in Tasks : d \in {outer'[u], inner'[u]}
  <2>1. CASE d \in pool \cup leaked  BY <1>1, <2>1
  <2>2. ASSUME NEW u \in Tasks, d \in {outer[u], inner[u]}
        PROVE  d \in pool' \cup leaked' \/ \E v \in Tasks : d \in {outer'[v], inner'[v]}
    <3>1. d # None  OBVIOUS
    <3>2. CASE u = t
      <4>1. d \in pool' \/ d \in {outer'[t], inner'[t]}  BY <1>1, <2>2, <3>1, <3>2
      <4> QED  BY <4>1
    <3>3. CASE u # t
      <4>1. d \in {outer'[u], inner'[u]}  BY <1>1, <2>2, <3>3
      <4> QED  BY <4>1
    <3> QED  BY <3>2, <3>3
  <2> QED  BY <2>1, <2>2 DEF EveryConnectionHasOnePlace
<1>4. ASSUME NEW u \in Tasks
      PROVE  /\ (pool' \cup leaked') \cap {outer'[u], inner'[u]} = {}
             /\ outer'[u] = inner'[u] => outer'[u] = None
             /\ fate'[u] \notin Underway => outer'[u] = None /\ inner'[u] = None
  <2>1. CASE u = t  BY <1>1, <1>2, <2>1 DEF EveryConnectionHasOnePlace
  <2>2. CASE u # t
    <3>1. outer'[u] = outer[u] /\ inner'[u] = inner[u]
      BY <1>1, <2>2
    <3>2. {outer[u], inner[u]} \cap {outer[t], inner[t]} \subseteq {None}
      BY <2>2 DEF EveryConnectionHasOnePlace
    <3>3. (pool \cup leaked) \cap {outer[u], inner[u]} = {}
      BY DEF EveryConnectionHasOnePlace
    <3>4. (pool' \cup leaked') \cap {outer'[u], inner'[u]} = {}
      BY <1>1, <3>1, <3>2, <3>3
    <3> QED  BY <1>1, <3>1, <3>4 DEF EveryConnectionHasOnePlace
  <2> QED  BY <2>1, <2>2
<1>5. ASSUME NEW u \in Tasks, NEW v \in Tasks, u # v
      PROVE  {outer'[u], inner'[u]} \cap {outer'[v], inner'[v]} \subseteq {None}
  <2>1. {outer[u], inner[u]} \cap {outer[v], inner[v]} \subseteq {None}
    BY <1>5 DEF EveryConnectionHasOnePlace
  <2> QED  BY <1>1, <1>5, <2>1
<1>6. pool' \cap leaked' = {}
  <2>1. /\ pool \cap leaked = {} /\ leaked \cap {outer[t], inner[t]} = {}
    BY DEF EveryConnectionHasOnePlace
  <2> QED  BY <1>1, <2>1
<1> QED  BY <1>2, <1>3, <1>4, <1>5, <1>6 DEF EveryConnectionHasOnePlace

\* A step that moves no connection and lets no task end moves none out of its place.
LEMMA StayingKeeps ==
    ASSUME PoolInv, UNCHANGED Places,
           \A t \in Tasks : fate'[t] \in Underway \/ fate'[t] = fate[t]
    PROVE  /\ pool' \subseteq Connections
           /\ outer' \in [Tasks -> Connections \cup {None}]
           /\ inner' \in [Tasks -> Connections \cup {None}]
           /\ EveryConnectionHasOnePlace'
BY DEF PoolInv, PoolTypeOK, EveryConnectionHasOnePlace, Places

LEMMA PoolInvInit == PoolInit => PoolInv
BY DbPoolAssumption DEF PoolInit, PoolInv, PoolTypeOK, EveryConnectionHasOnePlace, Underway

LEMMA PoolInvStep == PoolInv /\ [PoolNext]_poolVars => PoolInv'
<1> SUFFICES ASSUME PoolInv, [PoolNext]_poolVars PROVE PoolInv'  OBVIOUS
<1> USE DEF PoolInv
<1>0. CASE UNCHANGED poolVars
  BY <1>0 DEF poolVars, PoolTypeOK, EveryConnectionHasOnePlace
<1>1. ASSUME NEW t \in Tasks, Start(t) PROVE PoolInv'
  <2>1. /\ todo' \in [Tasks -> Seq(StepNames)]
        /\ fate' \in [Tasks -> Underway \cup {"new", "done", "error"}]
    BY <1>1, HandlersAreSteps DEF Start, PoolTypeOK, Underway
  <2>2. \A u \in Tasks : fate'[u] \in Underway \/ fate'[u] = fate[u]
    BY <1>1 DEF Start, PoolTypeOK, Underway
  <2> QED  BY <1>1, <2>1, <2>2, StayingKeeps DEF Start, PoolTypeOK, Places
<1>2. ASSUME NEW t \in Tasks, Outer(t) PROVE PoolInv'
  <2>1. todo' \in [Tasks -> Seq(StepNames)]
    BY <1>2, AdvanceType DEF Outer, NextIs
  <2>2. CASE UNCHANGED <<pool, outer>>
    BY <1>2, <2>1, <2>2, StayingKeeps DEF Outer, PoolTypeOK, Places
  <2>3. CASE \E c \in pool : /\ outer[t] = None /\ pool' = pool \ {c}
                             /\ outer' = [outer EXCEPT ![t] = c]
    BY <1>2, <2>1, <2>3, TakingKeeps DEF Outer, NextIs, PoolTypeOK
  <2> QED  BY <1>2, <2>2, <2>3 DEF Outer
<1>3. ASSUME NEW t \in Tasks, Inner(t) PROVE PoolInv'
  <2>1. todo' \in [Tasks -> Seq(StepNames)]
    BY <1>3, AdvanceType DEF Inner, NextIs
  <2>2. CASE UNCHANGED <<pool, inner>>
    BY <1>3, <2>1, <2>2, StayingKeeps DEF Inner, PoolTypeOK, Places
  <2>3. CASE \E c \in pool : /\ inner[t] = None /\ pool' = pool \ {c}
                             /\ inner' = [inner EXCEPT ![t] = c]
    BY <1>3, <2>1, <2>3, TakingKeeps DEF Inner, NextIs, PoolTypeOK
  <2> QED  BY <1>3, <2>2, <2>3 DEF Inner
<1>4. ASSUME NEW t \in Tasks, Return(t) PROVE PoolInv'
  <2>1. todo' \in [Tasks -> Seq(StepNames)]
    BY <1>4, AdvanceType DEF Return, NextIs
  <2> QED  BY <1>4, <2>1, ReturningKeeps DEF Return, PoolTypeOK
<1>5. ASSUME NEW t \in Tasks, Work(t) \/ EnterSlot(t) PROVE PoolInv'
  <2>1. todo' \in [Tasks -> Seq(StepNames)]
    BY <1>5, AdvanceType DEF Work, EnterSlot, NextIs
  <2> QED  BY <1>5, <2>1, StayingKeeps DEF Work, EnterSlot, PoolTypeOK, Places
<1>6. ASSUME NEW t \in Tasks, Answer(t) PROVE PoolInv'
  <2>1. todo' \in [Tasks -> Seq(StepNames)]
    BY <1>6, AdvanceType DEF Answer, NextIs
  <2>2. /\ fate' \in [Tasks -> Underway \cup {"new", "done", "error"}]
        /\ \A u \in Tasks : fate'[u] \in Underway \/ fate'[u] = fate[u]
    BY <1>6 DEF Answer, PoolTypeOK, Underway
  <2> QED  BY <1>6, <2>1, <2>2, StayingKeeps DEF Answer, PoolTypeOK, Places
<1>7. ASSUME NEW t \in Tasks, Ends(t),
             todo' \in [Tasks -> Seq(StepNames)],
             fate' \in [Tasks -> Underway \cup {"new", "done", "error"}],
             \A u \in Tasks \ {t} : fate'[u] = fate[u]
      PROVE PoolInv'
  BY <1>7, ClosingKeeps DEF PoolTypeOK
<1>8. ASSUME NEW t \in Tasks, EndTask(t) \/ Refuse(t) \/ Disconnect(t) PROVE PoolInv'
  <2>1. todo' \in [Tasks -> Seq(StepNames)]
    <3>1. <<>> \in Seq(StepNames)  OBVIOUS
    <3> QED  BY <1>8, <3>1 DEF EndTask, Refuse, Disconnect, PoolTypeOK
  <2>2. /\ fate' \in [Tasks -> Underway \cup {"new", "done", "error"}]
        /\ \A u \in Tasks \ {t} : fate'[u] = fate[u]
    BY <1>8 DEF EndTask, Refuse, Disconnect, PoolTypeOK, Underway
  <2>3. CASE CloseAll(t)  BY <1>7, <2>1, <2>2, <2>3 DEF Ends, CloseAll
  <2>4. CASE Disconnect(t)  BY <1>7, <2>1, <2>2, <2>4 DEF Ends, Disconnect
  <2> QED  BY <1>8, <2>3, <2>4 DEF EndTask, Refuse
<1>9. ASSUME NEW t \in Tasks, TimeOut(t) \/ Refused(t) PROVE PoolInv'
  <2>1. /\ <<>> \in Seq(StepNames) /\ <<"inner">> \in Seq(StepNames)
        /\ <<"inner", "return">> \in Seq(StepNames)
    BY DEF StepNames
  <2>2. FailTask(t) /\ fate[t] \in Underway
    BY <1>9 DEF TimeOut, Refused, Waits, Statement, NextIs
  <2>3. todo' \in [Tasks -> Seq(StepNames)]
    BY <2>1, <2>2 DEF FailTask, PoolTypeOK
  <2>4. CASE NextIs(t, "final")
    BY <2>2, <2>3, <2>4, StayingKeeps DEF FailTask, PoolTypeOK, Places
  <2>5. CASE ~NextIs(t, "final")
    <3>1. /\ fate' \in [Tasks -> Underway \cup {"new", "done", "error"}]
          /\ \A u \in Tasks \ {t} : fate'[u] = fate[u]
      BY <2>2, <2>5 DEF FailTask, PoolTypeOK, Underway
    <3> QED  BY <1>7, <2>2, <2>3, <2>5, <3>1 DEF FailTask, Ends, CloseAll
  <2> QED  BY <2>4, <2>5
<1>10. CASE Heal
  <2>1. PICK c \in leaked : leaked' = leaked \ {c} /\ pool' = pool \cup {c}
    BY <1>10 DEF Heal
  <2>2. UNCHANGED <<outer, inner, inSlot, todo, fate>>  BY <1>10 DEF Heal
  <2>3. EveryConnectionHasOnePlace'
    <3>1. pool' \cup leaked' = pool \cup leaked /\ pool' \cap leaked' = {}
      BY <2>1 DEF EveryConnectionHasOnePlace
    <3> QED  BY <2>2, <3>1 DEF EveryConnectionHasOnePlace
  <2> QED  BY <2>1, <2>2, <2>3 DEF PoolTypeOK
<1> QED
  BY <1>0, <1>1, <1>2, <1>3, <1>4, <1>5, <1>6, <1>8, <1>9, <1>10 DEF PoolNext, Go

LEMMA PoolInvAlways == PoolSpec => []PoolInv
<1>1. PoolInit => PoolInv  BY PoolInvInit
<1>2. PoolInv /\ [PoolNext]_poolVars => PoolInv'  BY PoolInvStep
<1> QED  BY <1>1, <1>2, PTL DEF PoolSpec

\* Every variable of the pool keeps its type.
THEOREM PoolTypes == PoolSpec => []PoolTypeOK
<1>1. PoolInv => PoolTypeOK  BY DEF PoolInv
<1> QED  BY <1>1, PoolInvAlways, PTL

\* No request, job, refusal, failure or timeout loses a connection or lets two
\* sessions have one: session_scope and the dependencies give back what they took,
\* but for what a client that disconnects leaves behind.
THEOREM PoolKeepsConnections == PoolSpec => []EveryConnectionHasOnePlace
<1>1. PoolInv => EveryConnectionHasOnePlace  BY DEF PoolInv
<1> QED  BY <1>1, PoolInvAlways, PTL
=============================================================================
