---------------------------- MODULE JobLifecycle ----------------------------
(***************************************************************************)
(* What the rows of edit_jobs and import_jobs promise a client that polls  *)
(* GET /edit/jobs/{id} or GET /import/jobs/{id}: a job is accepted, is     *)
(* taken up once, and is settled at most once.  A settled job never        *)
(* changes again; its row can only go away with its song or its user.      *)
(***************************************************************************)

CONSTANT Jobs

VARIABLE status   \* "none": there is no such row

Open == {"pending", "processing"}

Settled == {"done", "failed", "duplicate"}

Init == status = [j \in Jobs |-> "none"]

\* A new row.  The name of a settled job may be used again for another one.
Submit(j) ==
    /\ status[j] \notin Open
    /\ status' = [status EXCEPT ![j] = "pending"]

Begin(j) ==
    /\ status[j] = "pending"
    /\ status' = [status EXCEPT ![j] = "processing"]

Settle(j) ==
    /\ status[j] = "processing"
    /\ \E s \in Settled : status' = [status EXCEPT ![j] = s]

\* ON DELETE CASCADE takes all the rows of a song, or of a user, at once.
Cascade(gone) == status' = [j \in Jobs |-> IF j \in gone THEN "none" ELSE status[j]]

Next == \/ \E j \in Jobs : Submit(j) \/ Begin(j) \/ Settle(j)
        \/ \E gone \in SUBSET Jobs : Cascade(gone)

Spec == Init /\ [][Next]_status

=============================================================================
