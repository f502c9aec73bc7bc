------------------------------ MODULE Accounts ------------------------------
(***************************************************************************)
(* The rows of users, the tokens in cookies, and the requests that use     *)
(* both: routers/auth.py, dependencies.py, security.py, the users of       *)
(* routers/admin.py and crud.py, and the seeding of database.py.           *)
(*                                                                         *)
(* A request reads, hashes a password in a thread for a quarter of a       *)
(* second, and commits: between the two others commit, accounts disappear  *)
(* and the process may stop.  A password is known or the request ends      *)
(* without effect, so a request here knows the one it has read.  A client  *)
(* may keep and present any token it was given: logging out only asks the  *)
(* browser to forget its cookies.                                          *)
(*                                                                         *)
(* A definition whose name ends in a word after an underscore, such as     *)
(* Refresh_Rotate, is a plausible bug in the definition after it: put in   *)
(* its place, it makes a property below fail.  No specification uses it.   *)
(***************************************************************************)
EXTENDS Integers, FiniteSets, TLC

CONSTANTS Ids,         \* bound: the uuids there are to give to accounts
          Names, Emails, Passwords,
          SeedName, SeedEmail, SeedPassword,   \* admin_username and so on
          Registers,   \* the bodies of POST /auth/register: name, email, role
          Updates,     \* the bodies of PATCH /admin/users: role and active, NULL to leave one
          Requests,    \* slots for requests in flight
          AccessLife,  \* ACCESS_TOKEN_EXPIRE_MINUTES
          RefreshLife, \* REFRESH_TOKEN_EXPIRE_DAYS
          MaxTime,     \* bound: the clock stops there
          MaxTokens,   \* bound: nobody logs in with that many tokens in use, nor refreshes with more
          NULL,        \* no account with this id yet, no request
          Deleted      \* the account with this id is gone

ASSUME AccountsAssumption ==
    /\ SeedName \in Names /\ SeedEmail \in Emails /\ SeedPassword \in Passwords
    /\ AccessLife \in Nat \ {0} /\ RefreshLife \in Nat \ {0} /\ MaxTime \in Nat
    /\ MaxTokens \in Nat
    /\ Registers \subseteq [name : Names, email : Emails, role : {"admin", "user"}]
    /\ Updates \subseteq [role : {"admin", "user", NULL}, active : BOOLEAN \cup {NULL}]
    /\ NULL # Deleted

VARIABLES up,       \* is the server up?
          account,  \* users
          tokens,   \* every token that was given out and is not over
          now,      \* the clock
          req       \* the request in each slot, NULL when there is none

vars == <<up, account, tokens, now, req>>

Roles == {"admin", "user"}

User == [name : Names, email : Emails, password : Passwords, role : Roles, active : BOOLEAN]

Live  == {a \in Ids : account[a] \notin {NULL, Deleted}}
Fresh == {a \in Ids : account[a] = NULL}

Token(type, sub, role, life, proof) ==
    [type |-> type, sub |-> sub, role |-> role, exp |-> now + life, proof |-> proof]

-----------------------------------------------------------------------------
(* Rows *)

\* username and email are unique in the database.
Insertable(u) == \A a \in Live : account[a].name # u.name /\ account[a].email # u.email

Insert(u) ==
    /\ Insertable(u)
    /\ \E a \in Fresh : account' = [account EXCEPT ![a] = u]

SeedAdmin == [name |-> SeedName, email |-> SeedEmail, password |-> SeedPassword,
              role |-> "admin", active |-> TRUE]

SeedTaken_Admin == \E a \in Live : account[a].name = SeedName /\ account[a].role = "admin"

SeedTaken == \E a \in Live : account[a].name = SeedName

\* seed_admin: an account with the name is left alone; where the e-mail belongs
\* to another account, the insert fails and the server does not come up.
Startup ==
    /\ ~up /\ up' = TRUE
    /\ \/ SeedTaken /\ UNCHANGED account
       \/ ~SeedTaken /\ Insert(SeedAdmin)
    /\ UNCHANGED <<tokens, now, req>>

-----------------------------------------------------------------------------
(* Sessions *)

Begin(r, c) == up /\ req[r] = NULL /\ req' = [req EXCEPT ![r] = c]
End(r)      == req' = [req EXCEPT ![r] = NULL]

\* login looks the account up, and then verifies the password against it.
Login(r) ==
    \E a \in Live :
        /\ Cardinality(tokens) < MaxTokens
        /\ Begin(r, [op |-> "login", by |-> a,
                    role |-> account[a].role, active |-> account[a].active])
        /\ UNCHANGED <<up, account, tokens, now>>

\* The account may be disabled, or gone, by now: what was read decides.
LoginDone(r) ==
    /\ req[r] # NULL /\ req[r].op = "login"
    /\ LET c == req[r] IN
       tokens' = IF ~c.active THEN tokens
                 ELSE tokens \cup {Token("access", c.by, c.role, AccessLife, now),
                                   Token("refresh", c.by, NULL, RefreshLife, now)}
    /\ End(r)
    /\ UNCHANGED <<up, account, now>>

Valid(t, type) == t.type = type /\ now < t.exp

Usable(t) == t.sub \in Live /\ account[t.sub].active

Refresh_Rotate ==
    /\ up
    /\ \E t \in tokens :
        /\ Valid(t, "refresh") /\ Usable(t)
        /\ tokens' = tokens \cup
             {Token("access", t.sub, account[t.sub].role, AccessLife, t.proof),
              Token("refresh", t.sub, NULL, RefreshLife, t.proof)}
    /\ UNCHANGED <<up, account, now, req>>

\* refresh: a new access token; the refresh token stays what it is.
Refresh ==
    /\ up
    /\ \E t \in tokens :
        /\ Valid(t, "refresh") /\ Usable(t)
        /\ tokens' = tokens \cup
             {Token("access", t.sub, account[t.sub].role, AccessLife, t.proof)}
        /\ Cardinality(tokens) <= MaxTokens
    /\ UNCHANGED <<up, account, now, req>>

\* require_admin: the role is the account's now, not the one in the token.
Qualifies(t, role) == account[t.sub].role \in {role, "admin"}

\* get_current_user lets the bearer of an access token begin a request.
Admit(r, role, c) ==
    \E t \in tokens :
        /\ Valid(t, "access") /\ Usable(t) /\ Qualifies(t, role)
        /\ Begin(r, [c EXCEPT !.by = t.sub])
        /\ UNCHANGED <<up, account, tokens, now>>

-----------------------------------------------------------------------------
(* Requests *)

\* change_password verifies the password it has loaded, and hashes the new one.
ChangePassword(r) ==
    \E p \in Passwords : Admit(r, "user", [op |-> "password", by |-> NULL, password |-> p])

\* register: neither the name nor the e-mail is taken yet.
Register(r) ==
    \E b \in Registers :
        /\ Insertable(b)
        /\ Admit(r, "admin", [op |-> "register", by |-> NULL, body |-> b])

\* update_user loads the account.
UpdateUser(r) ==
    \E a \in Live, b \in Updates :
        Admit(r, "admin", [op |-> "update", by |-> NULL, target |-> a, body |-> b,
                           role |-> account[a].role, active |-> account[a].active])

\* delete_user verifies the admin's password.
DeleteUser(r) ==
    \E a \in Live : Admit(r, "admin", [op |-> "delete", by |-> NULL, target |-> a])

At(r, op) == req[r] # NULL /\ req[r].op = op

\* An UPDATE of a row that is gone fails, and the request with it.
PasswordCommit(r) ==
    /\ At(r, "password")
    /\ account' = IF req[r].by \in Live
                  THEN [account EXCEPT ![req[r].by].password = req[r].password] ELSE account
    /\ End(r)
    /\ UNCHANGED <<up, tokens, now>>

\* One password stands for all a new account may get.
Registered(b) == [name |-> b.name, email |-> b.email, password |-> SeedPassword,
                  role |-> b.role, active |-> TRUE]

RegisterCommit_Trusts(r) ==
    /\ At(r, "register")
    /\ \/ \E a \in Fresh :
            account' = [account EXCEPT ![a] = Registered(req[r].body)]
       \/ Fresh = {} /\ UNCHANGED account
    /\ End(r)
    /\ UNCHANGED <<up, tokens, now>>

\* The insert of another request with the name may have come first: it fails.
RegisterCommit(r) ==
    /\ At(r, "register")
    /\ \/ Insert(Registered(req[r].body))
       \/ ~Insertable(req[r].body) /\ UNCHANGED account
       \/ Fresh = {} /\ UNCHANGED account
    /\ End(r)
    /\ UNCHANGED <<up, tokens, now>>

Changed_Row(asked, seen, current) == IF asked = NULL THEN seen ELSE asked

\* Only a column that was asked for, and differs from what was loaded, is written.
Changed(asked, seen, current) ==
    IF asked = NULL \/ asked = seen THEN current ELSE asked

UpdateCommit(r) ==
    /\ At(r, "update")
    /\ LET c == req[r] IN
       account' = IF c.target \notin Live THEN account
                  ELSE [account EXCEPT ![c.target].role = Changed(c.body.role, c.role, @),
                                       ![c.target].active = Changed(c.body.active, c.active, @)]
    /\ End(r)
    /\ UNCHANGED <<up, tokens, now>>

DeleteCommit(r) ==
    /\ At(r, "delete")
    /\ account' = IF req[r].target \in Live THEN [account EXCEPT ![req[r].target] = Deleted]
                  ELSE account
    /\ End(r)
    /\ UNCHANGED <<up, tokens, now>>

\* Time passes; a token that is over is of no use to anybody.
Tick ==
    /\ now < MaxTime
    /\ now' = now + 1
    /\ tokens' = {t \in tokens : now' < t.exp}
    /\ UNCHANGED <<up, account, req>>

\* The process stops; tokens and rows outlive it.
Crash ==
    /\ up /\ up' = FALSE
    /\ req' = [r \in Requests |-> NULL]
    /\ UNCHANGED <<account, tokens, now>>

-----------------------------------------------------------------------------
(* The specification *)

Init ==
    /\ up = FALSE
    /\ account = [a \in Ids |-> NULL]
    /\ tokens = {} /\ now = 0
    /\ req = [r \in Requests |-> NULL]

Commit(r) == PasswordCommit(r) \/ RegisterCommit(r) \/ UpdateCommit(r) \/ DeleteCommit(r)

Next ==
    \/ Startup \/ Refresh \/ Tick \/ Crash
    \/ \E r \in Requests : \/ Login(r) \/ LoginDone(r)
                           \/ ChangePassword(r) \/ Register(r) \/ UpdateUser(r) \/ DeleteUser(r)
                           \/ Commit(r)

Spec == Init /\ [][Next]_vars

-----------------------------------------------------------------------------
(* Properties *)

\* Every variable keeps its type.
TypeOK ==
    /\ up \in BOOLEAN /\ now \in Nat
    /\ \A a \in Ids : account[a] \in User \cup {NULL, Deleted}
    /\ \A t \in tokens :
           /\ t.type \in {"access", "refresh"} /\ t.sub \in Ids /\ t.role \in Roles \cup {NULL}
           /\ t.exp \in Nat /\ t.proof \in Nat /\ now < t.exp
    /\ \A r \in Requests : req[r] # NULL => up

\* However often a session is refreshed, it is over once the refresh token and
\* one access token have run out since the password was last verified: 7 days
\* and 15 minutes bound a session that a logout or a new password does not end.
SessionsEnd ==
    \A t \in tokens :
        t.exp <= t.proof + RefreshLife + (IF t.type = "access" THEN AccessLife ELSE 0)

\* Two accounts never share a name or an e-mail, though register looks for them
\* a quarter of a second before it inserts.
NamesAreUnique ==
    \A a, b \in Live :
        a # b => account[a].name # account[b].name /\ account[a].email # account[b].email

\* Two admins who update one account at once do not undo each other: a role or a
\* status changes only where the request that commits asked for that value.
OnlyWhatWasAsked ==
    [][ \A a \in Live, r \in Requests :
          (At(r, "update") /\ req'[r] = NULL /\ up' /\ account'[a] # account[a]) =>
              LET b == req[r].body IN
              /\ account'[a].role # account[a].role => account'[a].role = b.role
              /\ account'[a].active # account[a].active => account'[a].active = b.active ]_vars

\* A restart seeds an admin that is missing, and changes no account there is: a
\* changed password does not go back to the configured one.
RestartKeepsAccounts ==
    [][ ~up /\ up' => \A a \in Live : account'[a] = account[a] ]_vars

\* Accounts change only as some request asked.
ChangesWereAsked == OnlyWhatWasAsked /\ RestartKeepsAccounts

\* Nobody is registered with the seeded e-mail under another name.
SeedEmailKept == \A b \in Registers : b.email = SeedEmail => b.name = SeedName

\* Whenever the server stops it can be started again: a seeded account that was
\* demoted, disabled, deleted, given another password or registered anew is no
\* obstacle to seed_admin; only the seeded e-mail in the hands of somebody else is.
ServerCanStart == SeedEmailKept => SeedTaken \/ Insertable(SeedAdmin)

\* The users table stays such that requests and restarts find what they expect.
AccountsConsistent == TypeOK /\ NamesAreUnique /\ ServerCanStart

=============================================================================
