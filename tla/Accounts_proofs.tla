--------------------------- MODULE Accounts_proofs ---------------------------
(***************************************************************************)
(* Accounts and sessions: names stay unique, sessions end, and accounts    *)
(* change only as asked, for any number of accounts, tokens and requests   *)
(* and any lifetimes.                                                      *)
(*                                                                         *)
(* Four inductive invariants: one about what requests carry and accounts   *)
(* are, one about tokens, one about names, one about the seeded e-mail;    *)
(* each uses those before it.                                              *)
(***************************************************************************)
EXTENDS Accounts, TLAPS

\* What a request carries from its first step to its commit.
Carried ==
    [op : {"login"}, by : Ids, role : Roles, active : BOOLEAN]
      \cup [op : {"password"}, by : Ids, password : Passwords]
      \cup [op : {"register"}, by : Ids, body : Registers]
      \cup [op : {"update"}, by : Ids, target : Ids, body : Updates,
            role : Roles, active : BOOLEAN]
      \cup [op : {"delete"}, by : Ids, target : Ids]

RowsOK ==
    /\ up \in BOOLEAN /\ now \in Nat
    /\ account \in [Ids -> User \cup {NULL, Deleted}]
    /\ req \in [Requests -> Carried \cup {NULL}]
    /\ \A r \in Requests : req[r] # NULL => up

TokenType == [type : {"access", "refresh"}, sub : Ids, role : Roles \cup {NULL},
              exp : Nat, proof : Nat]

TokensOK ==
    /\ tokens \subseteq TokenType
    /\ \A t \in tokens : now < t.exp

\* A request that was begun by the bearer of a token.
LEMMA AdmitType ==
    ASSUME RowsOK, TokensOK, NEW r \in Requests, NEW role, NEW c, Admit(r, role, c),
           \A a \in Ids : [c EXCEPT !.by = a] \in Carried
    PROVE  req' \in [Requests -> Carried \cup {NULL}] /\ up
BY DEF RowsOK, TokensOK, TokenType, Admit, Begin, Usable, Live

\* The account a new row makes.
LEMMA SeedType == SeedAdmin \in User
BY AccountsAssumption DEF SeedAdmin, User, Roles

LEMMA RegisteredType == \A b \in Registers : Registered(b) \in User
BY AccountsAssumption DEF Registered, User, Roles

LEMMA InsertType ==
    ASSUME RowsOK, NEW u \in User, Insert(u)
    PROVE  account' \in [Ids -> User \cup {NULL, Deleted}]
BY DEF RowsOK, Insert, Fresh

\* What a commit of an update writes.
LEMMA ChangedType ==
    ASSUME NEW b \in Updates, NEW seenRole \in Roles, NEW seenActive \in BOOLEAN,
           NEW u \in User
    PROVE  /\ Changed(b.role, seenRole, u.role) \in Roles
           /\ Changed(b.active, seenActive, u.active) \in BOOLEAN
<1>1. b.role \in {"admin", "user", NULL} /\ b.active \in BOOLEAN \cup {NULL}
  BY AccountsAssumption
<1>2. u.role \in Roles /\ u.active \in BOOLEAN  BY DEF User
<1> QED  BY <1>1, <1>2 DEF Changed, Roles

LEMMA RowsInit == Init => RowsOK
<1> SUFFICES ASSUME Init PROVE RowsOK  OBVIOUS
<1>1. account \in [Ids -> User \cup {NULL, Deleted}]  BY DEF Init
<1>2. req \in [Requests -> Carried \cup {NULL}]  BY DEF Init
<1>3. \A r \in Requests : req[r] # NULL => up  BY DEF Init
<1> QED  BY <1>1, <1>2, <1>3 DEF Init, RowsOK

LEMMA RowsNext == RowsOK /\ TokensOK /\ [Next]_vars => RowsOK'
<1> SUFFICES ASSUME RowsOK, TokensOK, [Next]_vars PROVE RowsOK'  OBVIOUS
<1>0. CASE UNCHANGED vars  BY <1>0 DEF vars, RowsOK
<1>1. CASE Startup
  <2>1. account' \in [Ids -> User \cup {NULL, Deleted}]
    <3>1. CASE Insert(SeedAdmin)  BY <3>1, SeedType, InsertType
    <3>2. CASE UNCHANGED account  BY <3>2 DEF RowsOK
    <3> QED  BY <1>1, <3>1, <3>2 DEF Startup
  <2> QED  BY <1>1, <2>1 DEF Startup, RowsOK
<1>2. CASE Refresh \/ Tick \/ Crash
  <2>1. CASE Refresh  BY <2>1 DEF Refresh, RowsOK
  <2>2. CASE Tick  BY <2>2 DEF Tick, RowsOK
  <2>3. CASE Crash
    <3>1. req' \in [Requests -> Carried \cup {NULL}]  BY <2>3 DEF Crash
    <3>2. \A r \in Requests : req'[r] = NULL  BY <2>3 DEF Crash
    <3> QED  BY <2>3, <3>1, <3>2 DEF Crash, RowsOK
  <2> QED  BY <1>2, <2>1, <2>2, <2>3
<1>3. ASSUME NEW r \in Requests, Login(r) PROVE RowsOK'
  <2>1. PICK a \in Live : Begin(r, [op |-> "login", by |-> a, role |-> account[a].role,
                                    active |-> account[a].active])
    BY <1>3 DEF Login
  <2>2. a \in Ids /\ account[a] \in User  BY <2>1 DEF Live, RowsOK
  <2>3. [op |-> "login", by |-> a, role |-> account[a].role,
         active |-> account[a].active] \in Carried
    BY <2>2 DEF Carried, User
  <2> QED  BY <1>3, <2>1, <2>3 DEF Login, Begin, RowsOK
<1>4. ASSUME NEW r \in Requests, LoginDone(r) PROVE RowsOK'
  BY <1>4 DEF LoginDone, End, RowsOK
<1>5. ASSUME NEW r \in Requests, ChangePassword(r) PROVE RowsOK'
  <2>1. PICK p \in Passwords : Admit(r, "user", [op |-> "password", by |-> NULL, password |-> p])
    BY <1>5 DEF ChangePassword
  <2>2. \A a \in Ids : [[op |-> "password", by |-> NULL, password |-> p] EXCEPT !.by = a] \in Carried
    BY DEF Carried
  <2>3. req' \in [Requests -> Carried \cup {NULL}] /\ up  BY <2>1, <2>2, AdmitType
  <2> QED  BY <2>1, <2>3 DEF Admit, RowsOK
<1>6. ASSUME NEW r \in Requests, Register(r) PROVE RowsOK'
  <2>1. PICK b \in Registers : Admit(r, "admin", [op |-> "register", by |-> NULL, body |-> b])
    BY <1>6 DEF Register
  <2>2. \A a \in Ids : [[op |-> "register", by |-> NULL, body |-> b] EXCEPT !.by = a] \in Carried
    BY DEF Carried
  <2>3. req' \in [Requests -> Carried \cup {NULL}] /\ up  BY <2>1, <2>2, AdmitType
  <2> QED  BY <2>1, <2>3 DEF Admit, RowsOK
<1>7. ASSUME NEW r \in Requests, UpdateUser(r) PROVE RowsOK'
  <2>1. PICK a \in Live, b \in Updates :
           Admit(r, "admin", [op |-> "update", by |-> NULL, target |-> a, body |-> b,
                              role |-> account[a].role, active |-> account[a].active])
    BY <1>7 DEF UpdateUser
  <2>2. a \in Ids /\ account[a] \in User  BY <2>1 DEF Live, RowsOK
  <2>3. \A d \in Ids : [[op |-> "update", by |-> NULL, target |-> a, body |-> b,
                         role |-> account[a].role, active |-> account[a].active]
                           EXCEPT !.by = d] \in Carried
    BY <2>2 DEF Carried, User
  <2>4. req' \in [Requests -> Carried \cup {NULL}] /\ up  BY <2>1, <2>3, AdmitType
  <2> QED  BY <2>1, <2>4 DEF Admit, RowsOK
<1>8. ASSUME NEW r \in Requests, DeleteUser(r) PROVE RowsOK'
  <2>1. PICK a \in Live : Admit(r, "admin", [op |-> "delete", by |-> NULL, target |-> a])
    BY <1>8 DEF DeleteUser
  <2>2. \A d \in Ids : [[op |-> "delete", by |-> NULL, target |-> a] EXCEPT !.by = d] \in Carried
    BY DEF Carried, Live
  <2>3. req' \in [Requests -> Carried \cup {NULL}] /\ up  BY <2>1, <2>2, AdmitType
  <2> QED  BY <2>1, <2>3 DEF Admit, RowsOK
<1>9. ASSUME NEW r \in Requests, Commit(r) PROVE RowsOK'
  <2>1. account' \in [Ids -> User \cup {NULL, Deleted}]
    <3>1. CASE PasswordCommit(r)
      <4>1. req[r].password \in Passwords  BY <3>1 DEF PasswordCommit, At, RowsOK, Carried
      <4> QED  BY <3>1, <4>1 DEF PasswordCommit, RowsOK, Live, User
    <3>2. CASE RegisterCommit(r)
      <4>1. req[r].body \in Registers  BY <3>2 DEF RegisterCommit, At, RowsOK, Carried
      <4>2. Registered(req[r].body) \in User  BY <4>1, RegisteredType
      <4> QED  BY <3>2, <4>2, InsertType DEF RegisterCommit, RowsOK
    <3>3. CASE UpdateCommit(r)
      <4> DEFINE c == req[r]
      <4>1. /\ c.body \in Updates /\ c.role \in Roles /\ c.active \in BOOLEAN
            /\ c.target \in Ids
        BY <3>3 DEF UpdateCommit, At, RowsOK, Carried
      <4>2. CASE c.target \notin Live  BY <3>3, <4>2 DEF UpdateCommit, RowsOK
      <4>3. CASE c.target \in Live
        <5>1. account[c.target] \in User  BY <4>3 DEF Live, RowsOK
        <5> QED  BY <3>3, <4>1, <4>3, <5>1, ChangedType DEF UpdateCommit, RowsOK, User
      <4> QED  BY <4>2, <4>3
    <3>4. CASE DeleteCommit(r)  BY <3>4 DEF DeleteCommit, RowsOK
    <3> QED  BY <1>9, <3>1, <3>2, <3>3, <3>4 DEF Commit
  <2> QED
    BY <1>9, <2>1 DEF Commit, PasswordCommit, RegisterCommit, UpdateCommit, DeleteCommit,
                      End, RowsOK
<1> QED
  BY <1>0, <1>1, <1>2, <1>3, <1>4, <1>5, <1>6, <1>7, <1>8, <1>9 DEF Next

-----------------------------------------------------------------------------
(* Tokens *)

\* A token carries when the password behind it was verified.
TokensInv == TokensOK /\ SessionsEnd

\* What login and refresh add.
LEMMA TokenOK ==
    ASSUME RowsOK, NEW type \in {"access", "refresh"}, NEW sub \in Ids,
           NEW role \in Roles \cup {NULL}, NEW life \in Nat \ {0}, NEW proof \in Nat
    PROVE  /\ Token(type, sub, role, life, proof) \in TokenType
           /\ now < Token(type, sub, role, life, proof).exp
BY DEF RowsOK, Token, TokenType

LEMMA TokensInit == Init => TokensInv
BY DEF Init, TokensInv, TokensOK, SessionsEnd

LEMMA TokensNext == RowsOK /\ TokensInv /\ [Next]_vars => TokensInv'
<1> SUFFICES ASSUME RowsOK, TokensInv, [Next]_vars PROVE TokensInv'  OBVIOUS
<1> USE AccountsAssumption DEF TokensInv
<1>1. CASE UNCHANGED <<tokens, now>>
  BY <1>1 DEF TokensOK, SessionsEnd
<1>2. ASSUME NEW r \in Requests, LoginDone(r) PROVE TokensInv'
  <2>1. CASE UNCHANGED tokens  BY <1>1, <1>2, <2>1 DEF LoginDone
  <2>2. CASE tokens' # tokens
    <3> DEFINE c == req[r]
               a == Token("access", c.by, c.role, AccessLife, now)
               f == Token("refresh", c.by, NULL, RefreshLife, now)
    <3>1. tokens' = tokens \cup {a, f} /\ now' = now  BY <1>2, <2>2 DEF LoginDone
    <3>2. c.by \in Ids /\ c.role \in Roles /\ now \in Nat
      BY <1>2 DEF LoginDone, RowsOK, Carried
    <3>3. a \in TokenType /\ now < a.exp /\ f \in TokenType /\ now < f.exp
      BY <3>2, TokenOK
    <3>4. /\ a.type = "access" /\ a.exp = now + AccessLife /\ a.proof = now
          /\ f.type = "refresh" /\ f.exp = now + RefreshLife /\ f.proof = now
      BY DEF Token
    <3> HIDE DEF a, f
    <3>5. TokensOK'  BY <3>1, <3>3 DEF TokensOK
    <3>6. SessionsEnd'  BY <3>1, <3>2, <3>4 DEF SessionsEnd
    <3> QED  BY <3>5, <3>6
  <2> QED  BY <2>1, <2>2
<1>3. CASE Refresh
  <2>1. PICK t \in tokens :
          /\ Valid(t, "refresh") /\ Usable(t)
          /\ tokens' = tokens \cup
               {Token("access", t.sub, account[t.sub].role, AccessLife, t.proof)}
    BY <1>3 DEF Refresh
  <2> DEFINE a == Token("access", t.sub, account[t.sub].role, AccessLife, t.proof)
  <2>2. /\ t \in TokenType /\ t.type = "refresh" /\ now < t.exp
        /\ t.exp <= t.proof + RefreshLife /\ now \in Nat /\ now' = now
    <3>1. t \in TokenType /\ t.type = "refresh" /\ now < t.exp  BY <2>1 DEF TokensOK, Valid
    <3>2. t.exp <= t.proof + RefreshLife + 0  BY <3>1 DEF SessionsEnd
    <3>3. t.proof \in Nat  BY <3>1 DEF TokenType
    <3>4. now \in Nat /\ now' = now  BY <1>3 DEF RowsOK, Refresh
    <3> QED  BY <3>1, <3>2, <3>3, <3>4
  <2>3. t.sub \in Ids /\ account[t.sub].role \in Roles /\ t.proof \in Nat /\ t.exp \in Nat
    BY <2>1, <2>2 DEF Usable, Live, RowsOK, User, TokenType
  <2>4. a \in TokenType /\ now < a.exp  BY <2>3, TokenOK
  <2>5. a.type = "access" /\ a.exp = now + AccessLife /\ a.proof = t.proof  BY DEF Token
  <2> HIDE DEF a
  <2>6. a.exp <= a.proof + RefreshLife + AccessLife  BY <2>2, <2>3, <2>5
  <2>7. TokensOK'  BY <2>1, <2>2, <2>4 DEF TokensOK, a
  <2>8. SessionsEnd'  BY <2>1, <2>2, <2>5, <2>6 DEF SessionsEnd, a
  <2> QED  BY <2>7, <2>8
<1>4. CASE Tick
  BY <1>4 DEF Tick, TokensOK, SessionsEnd
<1>5. ASSUME NEW r \in Requests,
             \/ Login(r) \/ ChangePassword(r) \/ Register(r) \/ UpdateUser(r)
             \/ DeleteUser(r) \/ Commit(r)
      PROVE  UNCHANGED <<tokens, now>>
  BY <1>5 DEF Login, ChangePassword, Register, UpdateUser, DeleteUser, Admit,
              Commit, PasswordCommit, RegisterCommit, UpdateCommit, DeleteCommit
<1>6. CASE Startup \/ Crash \/ UNCHANGED vars
  BY <1>1, <1>6 DEF Startup, Crash, vars
<1> QED  BY <1>1, <1>2, <1>3, <1>4, <1>5, <1>6 DEF Next

LEMMA Always == Spec => [](RowsOK /\ TokensInv)
<1>1. Init => RowsOK /\ TokensInv  BY RowsInit, TokensInit
<1>2. RowsOK /\ TokensInv /\ [Next]_vars => (RowsOK /\ TokensInv)'
  BY RowsNext, TokensNext DEF TokensInv
<1> QED  BY <1>1, <1>2, PTL DEF Spec

\* Rows, tokens and requests keep their types; no token is kept past its end, and no
\* request outlives the server that serves it.
THEOREM TypesHold == Spec => []TypeOK
<1>1. RowsOK /\ TokensInv => TypeOK
  BY DEF TypeOK, RowsOK, TokensInv, TokensOK, TokenType
<1> QED  BY <1>1, Always, PTL

\* However a session is refreshed, and whatever requests and restarts run beside it,
\* its last token is over RefreshLife and AccessLife after the password was verified.
THEOREM SessionsAreOver == Spec => []SessionsEnd
<1>1. RowsOK /\ TokensInv => SessionsEnd  BY DEF TokensInv
<1> QED  BY <1>1, Always, PTL

-----------------------------------------------------------------------------
(* Names *)

\* A step that inserts nothing, and leaves names alone.
LEMMA LeavingNames ==
    ASSUME NamesAreUnique, Live' \subseteq Live,
           \A a \in Live' : account'[a].name = account[a].name
                          /\ account'[a].email = account[a].email
    PROVE  NamesAreUnique'
BY DEF NamesAreUnique

LEMMA InsertKeepsNames ==
    ASSUME RowsOK, NamesAreUnique, NEW u \in User, Insert(u)
    PROVE  NamesAreUnique'
<1>1. PICK a \in Fresh : account' = [account EXCEPT ![a] = u]  BY DEF Insert
<1>2. a \in Ids /\ account'[a] = u /\ \A b \in Ids \ {a} : account'[b] = account[b]
  BY <1>1 DEF Fresh, RowsOK
<1>3. Live' \subseteq Live \cup {a}  BY <1>2 DEF Live
<1> QED  BY <1>2, <1>3 DEF NamesAreUnique, Insert, Insertable, Live

LEMMA NamesNext == RowsOK /\ NamesAreUnique /\ [Next]_vars => NamesAreUnique'
<1> SUFFICES ASSUME RowsOK, NamesAreUnique, [Next]_vars PROVE NamesAreUnique'  OBVIOUS
<1>1. CASE UNCHANGED account  BY <1>1 DEF NamesAreUnique, Live
<1>2. CASE Startup  BY <1>1, <1>2, SeedType, InsertKeepsNames DEF Startup
<1>3. ASSUME NEW r \in Requests, PasswordCommit(r) PROVE NamesAreUnique'
  <2>1. Live' \subseteq Live /\ \A a \in Live' : account'[a].name = account[a].name
                                              /\ account'[a].email = account[a].email
    BY <1>3 DEF PasswordCommit, RowsOK, Live, User
  <2> QED  BY <2>1, LeavingNames
<1>4. ASSUME NEW r \in Requests, RegisterCommit(r) PROVE NamesAreUnique'
  <2>1. req[r].body \in Registers  BY <1>4 DEF RegisterCommit, At, RowsOK, Carried
  <2>2. Registered(req[r].body) \in User  BY <2>1, RegisteredType
  <2> QED  BY <1>1, <1>4, <2>2, InsertKeepsNames DEF RegisterCommit
<1>5. ASSUME NEW r \in Requests, UpdateCommit(r) PROVE NamesAreUnique'
  <2>1. Live' \subseteq Live /\ \A a \in Live' : account'[a].name = account[a].name
                                              /\ account'[a].email = account[a].email
    BY <1>5 DEF UpdateCommit, RowsOK, Live, User
  <2> QED  BY <2>1, LeavingNames
<1>6. ASSUME NEW r \in Requests, DeleteCommit(r) PROVE NamesAreUnique'
  <2>1. Live' \subseteq Live /\ \A a \in Live' : account'[a].name = account[a].name
                                              /\ account'[a].email = account[a].email
    BY <1>6 DEF DeleteCommit, RowsOK, Live
  <2> QED  BY <2>1, LeavingNames
<1>7. ASSUME NEW r \in Requests,
             \/ Login(r) \/ LoginDone(r) \/ ChangePassword(r) \/ Register(r)
             \/ UpdateUser(r) \/ DeleteUser(r)
      PROVE  UNCHANGED account
  BY <1>7 DEF Login, LoginDone, ChangePassword, Register, UpdateUser, DeleteUser, Admit
<1>8. CASE Refresh \/ Tick \/ Crash \/ UNCHANGED vars
  BY <1>1, <1>8 DEF Refresh, Tick, Crash, vars
<1> QED
  BY <1>1, <1>2, <1>3, <1>4, <1>5, <1>6, <1>7, <1>8 DEF Next, Commit

\* The unique constraints hold the line between register's look and its insert, and
\* no other request touches a name.
THEOREM NamesStayUnique == Spec => []NamesAreUnique
<1>1. Init => NamesAreUnique  BY DEF Init, NamesAreUnique, Live
<1>2. RowsOK /\ NamesAreUnique /\ [Next]_vars => NamesAreUnique'  BY NamesNext
<1> QED  BY <1>1, <1>2, Always, PTL DEF Spec

-----------------------------------------------------------------------------
(* The seeded account *)

\* The seeded e-mail goes with the seeded name.
SeedEmailHeld == \A a \in Live : account[a].email = SeedEmail => account[a].name = SeedName

\* A step that inserts nothing, and leaves names alone.
LEMMA LeavingSeedEmail ==
    ASSUME SeedEmailHeld, Live' \subseteq Live,
           \A a \in Live' : account'[a].name = account[a].name
                          /\ account'[a].email = account[a].email
    PROVE  SeedEmailHeld'
BY DEF SeedEmailHeld

LEMMA InsertKeepsSeedEmail ==
    ASSUME RowsOK, SeedEmailHeld, NEW u \in User, Insert(u),
           u.email = SeedEmail => u.name = SeedName
    PROVE  SeedEmailHeld'
<1>1. PICK a \in Fresh : account' = [account EXCEPT ![a] = u]  BY DEF Insert
<1>2. a \in Ids /\ account'[a] = u /\ \A b \in Ids \ {a} : account'[b] = account[b]
  BY <1>1 DEF Fresh, RowsOK
<1>3. Live' \subseteq Live \cup {a}  BY <1>2 DEF Live
<1> QED  BY <1>2, <1>3 DEF SeedEmailHeld, Live

LEMMA SeedEmailNext ==
    ASSUME SeedEmailKept
    PROVE  RowsOK /\ SeedEmailHeld /\ [Next]_vars => SeedEmailHeld'
<1> SUFFICES ASSUME RowsOK, SeedEmailHeld, [Next]_vars PROVE SeedEmailHeld'  OBVIOUS
<1>1. CASE UNCHANGED account  BY <1>1 DEF SeedEmailHeld, Live
<1>2. CASE Startup
  <2>1. SeedAdmin.name = SeedName  BY DEF SeedAdmin
  <2> QED  BY <1>1, <1>2, <2>1, SeedType, InsertKeepsSeedEmail DEF Startup
<1>3. ASSUME NEW r \in Requests, RegisterCommit(r) PROVE SeedEmailHeld'
  <2>1. req[r].body \in Registers  BY <1>3 DEF RegisterCommit, At, RowsOK, Carried
  <2> DEFINE u == Registered(req[r].body)
  <2>2. u \in User  BY <2>1, RegisteredType
  <2>3. u.email = SeedEmail => u.name = SeedName  BY <2>1 DEF Registered, SeedEmailKept
  <2> QED  BY <1>1, <1>3, <2>2, <2>3, InsertKeepsSeedEmail DEF RegisterCommit
<1>4. ASSUME NEW r \in Requests, PasswordCommit(r) \/ UpdateCommit(r) \/ DeleteCommit(r)
      PROVE  SeedEmailHeld'
  <2>1. Live' \subseteq Live /\ \A a \in Live' : account'[a].name = account[a].name
                                              /\ account'[a].email = account[a].email
    <3>1. CASE PasswordCommit(r)  BY <3>1 DEF PasswordCommit, RowsOK, Live, User
    <3>2. CASE UpdateCommit(r)  BY <3>2 DEF UpdateCommit, RowsOK, Live, User
    <3>3. CASE DeleteCommit(r)  BY <3>3 DEF DeleteCommit, RowsOK, Live
    <3> QED  BY <1>4, <3>1, <3>2, <3>3
  <2> QED  BY <2>1, LeavingSeedEmail
<1>5. ASSUME NEW r \in Requests,
             \/ Login(r) \/ LoginDone(r) \/ ChangePassword(r) \/ Register(r)
             \/ UpdateUser(r) \/ DeleteUser(r)
      PROVE  UNCHANGED account
  BY <1>5 DEF Login, LoginDone, ChangePassword, Register, UpdateUser, DeleteUser, Admit
<1>6. CASE Refresh \/ Tick \/ Crash \/ UNCHANGED vars
  BY <1>1, <1>6 DEF Refresh, Tick, Crash, vars
<1> QED  BY <1>1, <1>2, <1>3, <1>4, <1>5, <1>6 DEF Next, Commit

\* Whatever admins do to the seeded account, and whoever registers beside it, a
\* restart finds it or can insert it again, unless the seeded e-mail is given away.
THEOREM ServerStartsAgain == Spec => []ServerCanStart
<1>1. CASE SeedEmailKept
  <2>1. Init => SeedEmailHeld  BY DEF Init, SeedEmailHeld, Live
  <2>2. RowsOK /\ SeedEmailHeld /\ [Next]_vars => SeedEmailHeld'  BY <1>1, SeedEmailNext
  <2>3. SeedEmailHeld => ServerCanStart
    BY DEF SeedEmailHeld, ServerCanStart, SeedTaken, Insertable, SeedAdmin
  <2> QED  BY <2>1, <2>2, <2>3, Always, PTL DEF Spec
<1>2. CASE ~SeedEmailKept
  <2>1. ServerCanStart  BY <1>2 DEF ServerCanStart
  <2> QED  BY <2>1, PTL
<1> QED  BY <1>1, <1>2

\* Rows, names and the seeded account stay as requests and restarts expect them, through
\* any interleaving of registrations, updates, deletions and restarts.
THEOREM AccountsStayConsistent == Spec => []AccountsConsistent
BY TypesHold, NamesStayUnique, ServerStartsAgain, PTL DEF AccountsConsistent

-----------------------------------------------------------------------------
(* What a step may do *)

AskedStep ==
    \A a \in Live, r \in Requests :
        (At(r, "update") /\ req'[r] = NULL /\ up' /\ account'[a] # account[a]) =>
            LET b == req[r].body IN
            /\ account'[a].role # account[a].role => account'[a].role = b.role
            /\ account'[a].active # account[a].active => account'[a].active = b.active

RestartStep == ~up /\ up' => \A a \in Live : account'[a] = account[a]

\* Only the commit of an update ends an update while the server stays up.
LEMMA AskedNext == RowsOK /\ [Next]_vars => [AskedStep]_vars
<1> SUFFICES ASSUME RowsOK, Next, NEW a \in Live, NEW r \in Requests,
                    At(r, "update"), req'[r] = NULL, up', account'[a] # account[a]
             PROVE  LET b == req[r].body IN
                    /\ account'[a].role # account[a].role => account'[a].role = b.role
                    /\ account'[a].active # account[a].active => account'[a].active = b.active
  BY DEF AskedStep
<1>1. UpdateCommit(r)
  <2>1. PICK q \in Requests : Commit(q)
    BY DEF Next, Startup, Refresh, Tick, Crash, Login, LoginDone, ChangePassword, Register,
           UpdateUser, DeleteUser, Admit, At
  <2>2. req' = [req EXCEPT ![q] = NULL]
    BY <2>1 DEF Commit, PasswordCommit, RegisterCommit, UpdateCommit, DeleteCommit, End
  <2>3. q = r  BY <2>2 DEF RowsOK, At
  <2> QED  BY <2>1, <2>3 DEF Commit, PasswordCommit, RegisterCommit, DeleteCommit, At
<1> DEFINE c == req[r]
<1>2. /\ c.target = a
      /\ account'[a] = [account[a] EXCEPT !.role = Changed(c.body.role, c.role, @),
                                          !.active = Changed(c.body.active, c.active, @)]
  BY <1>1 DEF UpdateCommit, RowsOK, Live
<1>3. account[a] \in User  BY DEF RowsOK, Live
<1> QED  BY <1>2, <1>3 DEF User, Changed

LEMMA RestartNext == RowsOK /\ [Next]_vars => [RestartStep]_vars
<1> SUFFICES ASSUME RowsOK, Next, ~up, up', NEW a \in Live PROVE account'[a] = account[a]
  BY DEF RestartStep
<1>1. Startup
  BY DEF Next, Refresh, Tick, Crash, Login, LoginDone, ChangePassword, Register, UpdateUser,
         DeleteUser, Admit, Commit, PasswordCommit, RegisterCommit, UpdateCommit, DeleteCommit
<1> QED  BY <1>1 DEF Startup, Insert, Fresh, Live, RowsOK

\* Two updates of one account at once each write only the columns they were asked to,
\* and a restart leaves every account as it was.
THEOREM AccountsChangeAsAsked == Spec => ChangesWereAsked
<1>1. RowsOK /\ [Next]_vars => [AskedStep]_vars  BY AskedNext
<1>2. RowsOK /\ [Next]_vars => [RestartStep]_vars  BY RestartNext
<1>3. Spec => OnlyWhatWasAsked  BY <1>1, Always, PTL DEF Spec, OnlyWhatWasAsked, AskedStep
<1>4. Spec => RestartKeepsAccounts
  BY <1>2, Always, PTL DEF Spec, RestartKeepsAccounts, RestartStep
<1> QED  BY <1>3, <1>4 DEF ChangesWereAsked
=============================================================================
