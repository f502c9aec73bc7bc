----------------------------- MODULE MCAccounts -----------------------------
(* Accounts on small instances.                                            *)
EXTENDS Accounts

\* Requests are interchangeable, and so are the ids of accounts.
Symmetry == Permutations(Ids) \cup Permutations(Requests)

CONSTANTS n1, n2, e1, e2

\* The seeded account again, and two more that collide by name or e-mail.
RegistersHere == [name : {n1}, email : {e1, e2}, role : {"user"}]
                   \cup [name : {n2}, email : {e2}, role : {"user"}]

\* Each column by itself.
UpdatesHere == [role : Roles, active : {NULL}] \cup [role : {NULL}, active : BOOLEAN]

=============================================================================
