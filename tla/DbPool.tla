------------------------------- MODULE DbPool -------------------------------
(***************************************************************************)
(* The pool of database connections in database.py, and the requests and   *)
(* background jobs that take connections from it.                          *)
(*                                                                         *)
(* A session takes a connection with its first statement and gives it back *)
(* when it commits, rolls back or is closed.  The session of               *)
(* get_current_user is a dependency: it is closed once the response is     *)
(* sent and the background tasks of the request are over, so that a        *)
(* handler which opens a session_scope of its own holds one connection     *)
(* while it waits for a second.  Whoever waits for thirty seconds gives up.*)
(* A client that disconnects may leave the dependency unfinished: its      *)
(* connection has leaked until the pool's recycling or postgres ends it.   *)
(*                                                                         *)
(* A handler is the sequence of what it does to the pool:                  *)
(*   outer   a statement in the session of the dependencies                *)
(*   inner   a statement in a session_scope, or in the logger's session    *)
(*   final   the same, where a failure marks the job failed in another one *)
(*   return  a commit, or the end of the session_scope                     *)
(*   work    a thread, a subprocess, a download or a streamed body         *)
(*   slot    the semaphore of imports                                      *)
(*   answer  the response: what follows is a background task               *)
(*                                                                         *)
(* Names such as PoolSpec tell the definitions here from those of          *)
(* ImportJobs: ImportJobs_proofs extends both.                             *)
(*                                                                         *)
(* A definition whose name ends in a word after an underscore, such as     *)
(* TimeOut_Never, is a plausible bug in the definition after it: put in    *)
(* its place, it makes a property below fail.  No specification uses it.   *)
(***************************************************************************)
EXTENDS Integers, Sequences, FiniteSets

CONSTANTS Connections,  \* pool_size and max_overflow: thirty of them
          Tasks,        \* requests, each with its background task
          ImportSlots,  \* the imports that may run at once
          None          \* no connection

ASSUME DbPoolAssumption ==
    /\ ImportSlots \in Nat /\ None \notin Connections

VARIABLES pool,   \* connections in the pool
          leaked, \* the connections of sessions that nobody will close
          outer,  \* the connection of each request's own session
          inner,  \* the connection of its session_scope
          inSlot, \* the tasks that have a slot of the semaphore
          todo,   \* what is left of each handler
          fate    \* what becomes of it

poolVars == <<pool, leaked, outer, inner, inSlot, todo, fate>>

StepNames == {"outer", "inner", "final", "return", "work", "slot", "answer"}

\* run: before the response; job: after it; logging: a failure is being logged.
Underway == {"run", "job", "logging"}

-----------------------------------------------------------------------------
(* Handlers *)

\* Most of them only use the session they depend on: GET /library, for one.
GetLibrary == <<"outer", "answer">>

\* login looks the account up and verifies the password in a thread.
Login == <<"outer", "work", "answer">>

\* download keeps the connection of its first look while yt-dlp runs.
Download == <<"outer", "work", "outer", "return", "work", "outer", "return", "answer">>

\* get_download: the router requires get_current_user; the body is streamed after
\* the session_scope is closed.
GetDownload == <<"outer", "inner", "return", "work", "answer">>

\* Shared songs, and artwork, are served to anybody.
DownloadShared == <<"inner", "return", "work", "answer">>

\* put_properties reads, tags, writes; _cache_artwork follows the response.
PutProperties == <<"outer", "inner", "return", "work", "inner", "return",
                   "answer", "work", "inner", "return">>

\* create_edit_job commits and refreshes the job; _run_edit_job reads, renders, writes.
CreateEditJob == <<"outer", "return", "outer",
                   "answer", "inner", "return", "work", "final", "return">>

\* upload_import; _run_import keeps its session_scope while it reads tags.
UploadImport == <<"outer", "inner", "return",
                  "answer", "slot", "inner", "return", "inner", "work", "return">>

Handlers == {GetLibrary, Login, Download, GetDownload, DownloadShared,
             PutProperties, CreateEditJob, UploadImport}

-----------------------------------------------------------------------------
(* Steps *)

NextIs(t, step) == fate[t] \in Underway /\ todo[t] # <<>> /\ Head(todo[t]) = step

Advance(t) == todo' = [todo EXCEPT ![t] = Tail(@)]

Start(t) ==
    /\ fate[t] = "new"
    /\ \E h \in Handlers : todo' = [todo EXCEPT ![t] = h]
    /\ fate' = [fate EXCEPT ![t] = "run"]
    /\ UNCHANGED <<pool, leaked, outer, inner, inSlot>>

\* A session that has a connection goes on with it.
Outer(t) ==
    /\ NextIs(t, "outer") /\ Advance(t)
    /\ \/ outer[t] # None /\ UNCHANGED <<pool, outer>>
       \/ /\ outer[t] = None
          /\ \E c \in pool : outer' = [outer EXCEPT ![t] = c] /\ pool' = pool \ {c}
    /\ UNCHANGED <<leaked, inner, inSlot, fate>>

Inner(t) ==
    /\ NextIs(t, "inner") \/ NextIs(t, "final")
    /\ Advance(t)
    /\ \/ inner[t] # None /\ UNCHANGED <<pool, inner>>
       \/ /\ inner[t] = None
          /\ \E c \in pool : inner' = [inner EXCEPT ![t] = c] /\ pool' = pool \ {c}
    /\ UNCHANGED <<leaked, outer, inSlot, fate>>

\* Where a session_scope is open, it is the one that commits.
Return(t) ==
    /\ NextIs(t, "return") /\ Advance(t)
    /\ IF inner[t] # None
       THEN /\ pool' = pool \cup {inner[t]}
            /\ inner' = [inner EXCEPT ![t] = None] /\ UNCHANGED outer
       ELSE /\ pool' = pool \cup ({outer[t]} \ {None})
            /\ outer' = [outer EXCEPT ![t] = None] /\ UNCHANGED inner
    /\ UNCHANGED <<leaked, inSlot, fate>>

Work(t) ==
    /\ NextIs(t, "work") /\ Advance(t)
    /\ UNCHANGED <<pool, leaked, outer, inner, inSlot, fate>>

Answer(t) ==
    /\ NextIs(t, "answer") /\ Advance(t)
    /\ fate' = [fate EXCEPT ![t] = "job"]
    /\ UNCHANGED <<pool, leaked, outer, inner, inSlot>>

EnterSlot(t) ==
    /\ NextIs(t, "slot") /\ Advance(t)
    /\ Cardinality(inSlot) < ImportSlots
    /\ inSlot' = inSlot \cup {t}
    /\ UNCHANGED <<pool, leaked, outer, inner, fate>>

CloseAll_KeepOuter(t) ==
    /\ pool' = pool \cup ({inner[t]} \ {None})
    /\ inner' = [inner EXCEPT ![t] = None]
    /\ inSlot' = inSlot \ {t}
    /\ UNCHANGED <<leaked, outer>>

\* Leaving a session_scope, the semaphore and the dependencies of the request rolls
\* back and gives back, however the handler ends.
CloseAll(t) ==
    /\ pool' = pool \cup ({inner[t], outer[t]} \ {None})
    /\ inner' = [inner EXCEPT ![t] = None]
    /\ outer' = [outer EXCEPT ![t] = None]
    /\ inSlot' = inSlot \ {t}
    /\ UNCHANGED leaked

EndTask(t) ==
    /\ fate[t] \in Underway /\ todo[t] = <<>>
    /\ CloseAll(t)
    /\ fate' = [fate EXCEPT ![t] = IF @ = "logging" THEN "error" ELSE "done"]
    /\ UNCHANGED todo

\* A handler may refuse what it read: 404, 403, a tagger that fails.
Refuse(t) ==
    /\ fate[t] = "run" /\ todo[t] # <<>> /\ Head(todo[t]) \in {"return", "work", "answer"}
    /\ CloseAll(t)
    /\ todo' = [todo EXCEPT ![t] = <<>>]
    /\ fate' = [fate EXCEPT ![t] = "done"]

\* The browser closes: the handler is over, and get_db is not advanced past its yield.
Disconnect(t) ==
    /\ fate[t] = "run" /\ outer[t] # None
    /\ leaked' = leaked \cup {outer[t]}
    /\ pool' = pool \cup ({inner[t]} \ {None})
    /\ inner' = [inner EXCEPT ![t] = None]
    /\ outer' = [outer EXCEPT ![t] = None]
    /\ inSlot' = inSlot \ {t}
    /\ todo' = [todo EXCEPT ![t] = <<>>]
    /\ fate' = [fate EXCEPT ![t] = "done"]

\* pool_recycle, or postgres for a transaction that is idle for two minutes.
Heal ==
    /\ \E c \in leaked : leaked' = leaked \ {c} /\ pool' = pool \cup {c}
    /\ UNCHANGED <<outer, inner, inSlot, todo, fate>>

Statement(t) == NextIs(t, "outer") \/ NextIs(t, "inner") \/ NextIs(t, "final")

Waits(t) == pool = {} /\ \/ NextIs(t, "outer") /\ outer[t] = None
                         \/ (NextIs(t, "inner") \/ NextIs(t, "final")) /\ inner[t] = None

\* unhandled_exception_handler logs what nobody caught in a session of its own, also
\* for a background task; the row of the job such a task was for stays as it is.
FailTask(t) ==
    IF NextIs(t, "final")
    THEN /\ todo' = [todo EXCEPT ![t] = <<"inner", "return">>]
         /\ UNCHANGED <<pool, leaked, outer, inner, inSlot, fate>>
    ELSE /\ CloseAll(t)
         /\ todo' = [todo EXCEPT ![t] = IF fate[t] = "logging" THEN <<>> ELSE <<"inner">>]
         /\ fate' = [fate EXCEPT ![t] = IF @ = "logging" THEN "error" ELSE "logging"]

TimeOut_Never(t) == FALSE /\ UNCHANGED poolVars

\* Thirty seconds in the queue.
TimeOut(t) == Waits(t) /\ FailTask(t)

\* The database refuses the statement, as it does on a connection it has closed.
Refused(t) == Statement(t) /\ FailTask(t)

-----------------------------------------------------------------------------
(* The specification *)

PoolInit ==
    /\ pool = Connections /\ leaked = {}
    /\ outer = [t \in Tasks |-> None] /\ inner = [t \in Tasks |-> None]
    /\ inSlot = {}
    /\ todo = [t \in Tasks |-> <<>>]
    /\ fate = [t \in Tasks |-> "new"]

Go(t) == \/ Outer(t) \/ Inner(t) \/ Return(t) \/ Work(t) \/ Answer(t) \/ EnterSlot(t)
         \/ EndTask(t) \/ TimeOut(t)

PoolNext == \/ \E t \in Tasks : Start(t) \/ Go(t) \/ Refuse(t) \/ Refused(t) \/ Disconnect(t)
            \/ Heal

\* Threads, subprocesses and clients come to an end, and whoever waits for a
\* connection gets one or has waited for thirty seconds; nobody relies on Heal.
PoolSpec == PoolInit /\ [][PoolNext]_poolVars /\ \A t \in Tasks : WF_poolVars(Go(t))

-----------------------------------------------------------------------------
(* Properties *)

\* Every variable keeps its type.
PoolTypeOK ==
    /\ pool \subseteq Connections /\ leaked \subseteq Connections
    /\ outer \in [Tasks -> Connections \cup {None}]
    /\ inner \in [Tasks -> Connections \cup {None}]
    /\ inSlot \subseteq Tasks
    /\ todo \in [Tasks -> Seq(StepNames)]
    /\ fate \in [Tasks -> Underway \cup {"new", "done", "error"}]

\* No connection is lost and none is shared, however tasks fail: each is in the pool,
\* with one session of one task that is still running, or leaked by a disconnect.
EveryConnectionHasOnePlace ==
    /\ \A c \in Connections :
           c \in pool \cup leaked \/ \E t \in Tasks : c \in {outer[t], inner[t]}
    /\ pool \cap leaked = {}
    /\ \A t \in Tasks : (pool \cup leaked) \cap {outer[t], inner[t]} = {}
    /\ \A t \in Tasks : outer[t] = inner[t] => outer[t] = None
    /\ \A t, u \in Tasks : t # u => {outer[t], inner[t]} \cap {outer[u], inner[u]} \subseteq {None}
    /\ \A t \in Tasks : fate[t] \notin Underway => outer[t] = None /\ inner[t] = None

\* Requests that each hold a connection and wait for another never block the server
\* for good: every request and job ends, even if every connection has leaked.
RequestsEnd == \A t \in Tasks : fate[t] = "run" ~> fate[t] \notin Underway
=============================================================================
