------------------------------ MODULE Accounts ------------------------------
(***************************************************************************)
(* The accounts and the roles of account_manager.cpp, the requests of      *)
(* login_servlet.cpp and role_servlet.cpp that add to them, and the tables *)
(* they are loaded from, all over the one connection DBConnectionPool      *)
(* hands out.                                                              *)
(*                                                                         *)
(* An account is named by its row: two registrations of one name differ in *)
(* password, token and row.  Between the look at the maps, the insert and  *)
(* mysql_insert_id, and between a select and the reading of its rows, a    *)
(* request of another worker may run, and the process may die.             *)
(* The values a row of roles holds are named by the role they were made    *)
(* for, and so are the items; ValidataName and ValidataNick only look at   *)
(* the maps, as RegisterCheck and CreateCheck do.                          *)
(***************************************************************************)
EXTENDS Integers, Sequences, FiniteSets, FiniteSetsExt

CONSTANTS
  Workers,      \* worker threads
  Names,        \* names of accounts
  Nicks,        \* names of roles
  Outcomes,     \* what an insert may come to: "done", "refused" by the database,
                \* "lost" (the row is there, the answer is not)
  NoJob,
  MaxAccounts,  \* bound on the rows of accounts
  MaxRoles,     \* bound on the rows of roles
  MaxRaces      \* bound on the requests that start while another runs

\* The values of a row of roles, and the job of a worker at a step of a request.
Values == [name : Nicks, of : Nat]
Job == [do : {"insertAccount"}, name : Names]
  \union [do : {"keepAccount"}, name : Names, row : Nat]
  \union [do : {"insertRole", "keepRole"}, account : Nat, name : Nicks]
  \union [do : {"readRole"}, role : Nat] \union [do : {"readItems"}, role : Nat, values : Values]

ASSUME AccountsAssumption ==
  /\ NoJob \notin Job
  /\ MaxAccounts \in Nat /\ MaxRoles \in Nat /\ MaxRaces \in Nat
  /\ Outcomes \subseteq {"done", "refused", "lost"}

VARIABLES
  accounts,  \* the accounts table
  roles,     \* the roles table; of: the role whose values the row holds
  home,      \* role_id in the items table, by the role that got the items
  insertId,  \* what mysql_insert_id returns on the one connection
  result,    \* m_result: the rows of the last select, if it is still there
  acct,      \* the AccountInfo objects, by row
  byId,      \* m_idMap
  byName,    \* m_nameMap
  byToken,   \* m_tokenAccountMap: the accounts its tokens lead to
  nicks,     \* m_roleNameMap: the role id a nick leads to
  copy,      \* the Role objects of the sessions: the role and the items in each
  known,     \* what clients remember of their logins: the account and the UserId
  job,       \* what each worker is about to do
  up,        \* the process is up
  told,      \* history: the requests that were answered with Success
  raced,     \* history: how many requests have started while another ran
  lost,      \* history: an answer was lost since the process started
  harm       \* history: what requests had done up to the first race

tables  == <<accounts, roles, home>>
answer  == <<insertId, result>>
maps    == <<acct, byId, byName, byToken, nicks>>
client  == <<known, told>>
history == <<raced, lost, harm>>
vars    == <<accounts, roles, home, insertId, result, acct, byId, byName, byToken, nicks,
             copy, known, job, up, told, raced, lost, harm>>

Nothing == [x \in {} |-> x]

\* A std::map after m[k] = v, and after insert, which keeps an entry it has.
Put(m, k, v)  == [x \in DOMAIN m \union {k} |-> IF x = k THEN v ELSE m[x]]
Keep(m, k, v) == IF k \in DOMAIN m THEN m ELSE Put(m, k, v)

NoRows  == [select |-> "none"]

\* Nothing in memory outlives the process.
Forget ==
  /\ acct' = Nothing /\ byId' = Nothing /\ byName' = Nothing /\ byToken' = {} /\ nicks' = Nothing
  /\ copy' = Nothing /\ job' = [w \in Workers |-> NoJob]
  /\ insertId' = 0 /\ result' = NoRows

Init ==
  /\ accounts = <<>> /\ roles = <<>> /\ home = <<>>
  /\ insertId = 0 /\ result = NoRows
  /\ acct = Nothing /\ byId = Nothing /\ byName = Nothing /\ byToken = {} /\ nicks = Nothing
  /\ copy = Nothing /\ job = [w \in Workers |-> NoJob]
  /\ up = TRUE /\ known = {} /\ told = {} /\ raced = 0 /\ lost = FALSE /\ harm = {}

Does(w, j) == job' = [job EXCEPT ![w] = j]
Tell(what, row, name) == told' = told \union {[what |-> what, row |-> row, name |-> name]}
Hurts(what) == harm' = IF raced > 0 THEN harm ELSE harm \union what

Races(w) ==
  LET others == \E x \in Workers \ {w} : job[x] # NoJob
  IN  (others => raced < MaxRaces) /\ raced' = raced + IF others THEN 1 ELSE 0

\* execute: the result of the statement before is freed, whoever reads it.
Execute(id, rows) == insertId' = id /\ result' = rows

\* execute: an insert into the table t; TRUE is returned after "done" only.
Insert(t, r, outcome) ==
  /\ IF outcome = "refused" THEN t' = t /\ Execute(0, NoRows)
     ELSE t' = Append(t, r) /\ Execute(Len(t) + 1, NoRows)
  /\ lost' = (lost \/ outcome = "lost")

-----------------------------------------------------------------------------
(* Register.                                                               *)

\* Mutant of RegisterCheck: the name is not looked up.
RegisterUnchecked(w, n) ==
  /\ up /\ job[w] = NoJob
  /\ Does(w, [do |-> "insertAccount", name |-> n])
  /\ UNCHANGED <<tables, answer, maps, copy, client, up, lost, harm>> /\ Races(w)

\* doRegister: a name that is taken is answered with an error.
RegisterCheck(w, n) ==
  /\ up /\ job[w] = NoJob /\ n \notin DOMAIN byName
  /\ Does(w, [do |-> "insertAccount", name |-> n])
  /\ UNCHANGED <<tables, answer, maps, copy, client, up, lost, harm>> /\ Races(w)

\* registerAccount: the row.
RegisterInsert(w, outcome) ==
  /\ up /\ job[w] # NoJob /\ job[w].do = "insertAccount" /\ Len(accounts) < MaxAccounts
  /\ Insert(accounts, [name |-> job[w].name], outcome)
  /\ Does(w, IF outcome = "done"
             THEN [do |-> "keepAccount", name |-> job[w].name, row |-> Len(accounts) + 1]
             ELSE NoJob)
  /\ UNCHANGED <<roles, home, maps, copy, client, up, raced, harm>>

\* Mutant of RegisterKeep: the map of tokens is left out.
RegisterKeepNoToken(w) ==
  /\ up /\ job[w] # NoJob /\ job[w].do = "keepAccount"
  /\ LET r == job[w].row  n == job[w].name IN
       /\ acct'    = Put(acct, r, [id |-> insertId, open |-> TRUE, roles |-> Nothing])
       /\ byId'    = Put(byId, insertId, r)
       /\ byName'  = Put(byName, n, r)
       /\ Tell("account", r, n)
  /\ Does(w, NoJob)
  /\ UNCHANGED <<tables, answer, byToken, nicks, copy, known, up, history>>

\* registerAccount: the id is what the connection inserted last; the maps take
\* the account over whatever they held, and the client is told of its success.
RegisterKeep(w) ==
  /\ up /\ job[w] # NoJob /\ job[w].do = "keepAccount"
  /\ LET r == job[w].row  n == job[w].name IN
       /\ acct'    = Put(acct, r, [id |-> insertId, open |-> TRUE, roles |-> Nothing])
       /\ byId'    = Put(byId, insertId, r)
       /\ byName'  = Put(byName, n, r)
       /\ byToken' = byToken \union {r}
       /\ Tell("account", r, n)
  /\ Does(w, NoJob)
  /\ UNCHANGED <<tables, answer, nicks, copy, known, up, history>>

-----------------------------------------------------------------------------
(* CreateRole.                                                             *)

\* doCreateRole by the holder of the token of account a: a nick that is taken
\* is answered with Success, and nothing is done.
CreateCheck(w, a, n) ==
  /\ up /\ job[w] = NoJob /\ a \in byToken
  /\ n \notin DOMAIN nicks
  /\ Does(w, [do |-> "insertRole", account |-> a, name |-> n])
  /\ UNCHANGED <<tables, answer, maps, copy, client, up, lost, harm>> /\ Races(w)

\* createRole: the row, under the id the account believes it has.
CreateInsert(w, outcome) ==
  /\ up /\ job[w] # NoJob /\ job[w].do = "insertRole" /\ Len(roles) < MaxRoles
  /\ Insert(roles, [account |-> acct[job[w].account].id, name |-> job[w].name,
                    of |-> Len(roles) + 1], outcome)
  /\ home' = [i \in DOMAIN roles' |-> IF i \in DOMAIN home THEN home[i] ELSE i]
  /\ Does(w, IF outcome = "done" THEN [job[w] EXCEPT !.do = "keepRole"] ELSE NoJob)
  /\ UNCHANGED <<accounts, maps, copy, client, up, raced, harm>>

\* Mutant of CreateKeep: the role does not enter the account.
CreateKeepNowhere(w) ==
  /\ up /\ job[w] # NoJob /\ job[w].do = "keepRole"
  /\ nicks' = Keep(nicks, job[w].name, insertId)
  /\ Tell("role", job[w].account, job[w].name)
  /\ Does(w, NoJob)
  /\ UNCHANGED <<tables, answer, acct, byId, byName, byToken, copy, known, up, history>>

\* createRole: the maps keep an entry they have.
CreateKeep(w) ==
  /\ up /\ job[w] # NoJob /\ job[w].do = "keepRole"
  /\ LET a == job[w].account  n == job[w].name IN
       /\ acct'  = [acct EXCEPT ![a].roles = Keep(@, insertId, n)]
       /\ nicks' = Keep(nicks, n, insertId)
       /\ Tell("role", a, n)
  /\ Does(w, NoJob)
  /\ UNCHANGED <<tables, answer, byId, byName, byToken, copy, known, up, history>>

-----------------------------------------------------------------------------
(* Login and LoadRoles only read the maps.                                 *)

\* The client that registered account r has logged in.
LoggedIn(r) ==
  /\ up /\ byName[accounts[r].name] = r
  /\ known' = known \union {[row |-> r, id |-> acct[r].id]}
  /\ UNCHANGED <<tables, answer, maps, copy, job, up, told, history>>

\* doLogin: the password is that of the account the name leads to.
Login(r) == r \in byToken /\ accounts[r].name \in DOMAIN byName /\ LoggedIn(r)

\* doAutoLogin: a SysOpenId that was lost at a restart matches nothing.
AutoLogin(r) == r \in byToken /\ acct[r].open /\ accounts[r].name \in DOMAIN byName /\ LoggedIn(r)

\* The end of the process by a request.
Kill == up' = FALSE /\ Forget /\ Hurts({"killed"})

\* doLoadRoles: no account for the id is noticed and then read all the same; the
\* roles of another account are listed whatever the token.
LoadRoles(k) ==
  /\ up
  /\ \/ k.id \notin DOMAIN byId /\ Kill
     \/ /\ k.id \in DOMAIN byId
        /\ Hurts(IF byId[k.id] = k.row THEN {} ELSE {"misled"})
        /\ UNCHANGED <<answer, maps, copy, job, up>>
  /\ UNCHANGED <<tables, client, raced, lost>>

-----------------------------------------------------------------------------
(* ChooseRole and what is saved of a role later.                           *)

\* Role::loadFromDB, its select; the id is one in the account of the token.
ChooseRole(w, a, i) ==
  /\ up /\ job[w] = NoJob
  /\ Execute(0, IF i \in DOMAIN roles
                THEN [select |-> "role", row |-> [name |-> roles[i].name, of |-> roles[i].of]]
                ELSE NoRows)
  /\ Does(w, [do |-> "readRole", role |-> i])
  /\ UNCHANGED <<tables, maps, copy, client, up, lost, harm>> /\ Races(w)

\* Mutant of ReadRole: the items are selected before the row of the role is read.
ReadRoleLate(w) ==
  /\ up /\ job[w] # NoJob /\ job[w].do = "readRole"
  /\ Kill /\ UNCHANGED <<tables, client, raced, lost>>

\* Role::loadFromDB, its reading: without a row of roles in the result the role gets
\* no attributes, and the process ends, here or over the answer that reads them.
\* ItemBag::loadFromDB, its select.
ReadRole(w) ==
  /\ up /\ job[w] # NoJob /\ job[w].do = "readRole"
  /\ \/ result.select # "role" /\ Kill
     \/ /\ result.select = "role"
        /\ Execute(0, [select |-> "items",
                       items |-> {j \in DOMAIN home : home[j] = job[w].role}])
        /\ Does(w, [do |-> "readItems", role |-> job[w].role, values |-> result.row])
        /\ UNCHANGED <<maps, copy, up, harm>>
  /\ UNCHANGED <<tables, client, raced, lost>>

\* ItemBag::loadFromDB, its reading: rows that are not items have no template and
\* are passed over.  The souls follow in the same way and are left out.
ReadItems(w) ==
  /\ up /\ job[w] # NoJob /\ job[w].do = "readItems"
  /\ copy' = Put(copy, job[w].role,
                 [row |-> job[w].values,
                  items |-> IF result.select = "items" THEN result.items ELSE {}])
  /\ Execute(0, NoRows) /\ Does(w, NoJob)
  /\ UNCHANGED <<tables, maps, client, up, history>>

\* A request that saves the role of a session and its items: Role::flushToDB and
\* Item::flushToDB write what the objects hold under the id of the role.
Save(w, i) ==
  /\ up /\ job[w] = NoJob
  /\ Execute(0, NoRows)
  /\ roles' = [j \in DOMAIN roles |->
                 IF j = i THEN [roles[j] EXCEPT !.name = copy[i].row.name, !.of = copy[i].row.of]
                 ELSE roles[j]]
  /\ home' = [j \in DOMAIN home |-> IF j \in copy[i].items THEN i ELSE home[j]]
  /\ Hurts(IF roles' # roles \/ home' # home THEN {"mixed"} ELSE {})
  /\ UNCHANGED <<accounts, maps, copy, client, job, up, lost>> /\ Races(w)

-----------------------------------------------------------------------------
(* Death and start of the process.                                         *)

\* loadFromDB: of two rows with one name the later one gets the name, of two
\* roles with one nick the earlier one gets the nick; a role whose account has
\* no row is dropped.  SysOpenId is read from a column that does not exist.
Rows(t) == DOMAIN t
Owned(a) == {i \in Rows(roles) : roles[i].account = a}
LoadedAcct ==
  [r \in Rows(accounts) |->
     [id |-> r, open |-> FALSE, roles |-> [i \in Owned(r) |-> roles[i].name]]]
LoadedById   == [r \in Rows(accounts) |-> r]
LoadedByName ==
  [n \in {accounts[r].name : r \in Rows(accounts)} |->
     Max({r \in Rows(accounts) : accounts[r].name = n})]
Housed == {i \in Rows(roles) : roles[i].account \in Rows(accounts)}
LoadedNicks ==
  [n \in {roles[i].name : i \in Housed} |-> Min({i \in Housed : roles[i].name = n})]

Die ==
  /\ up /\ up' = FALSE /\ Forget
  /\ UNCHANGED <<tables, client, history>>

Restart ==
  /\ ~up /\ up' = TRUE
  /\ acct' = LoadedAcct /\ byId' = LoadedById /\ byName' = LoadedByName
  /\ byToken' = Rows(accounts) /\ nicks' = LoadedNicks
  /\ lost' = FALSE /\ UNCHANGED <<tables, answer, copy, client, job, raced, harm>>

Next ==
  \/ \E w \in Workers :
       \/ \E n \in Names : RegisterCheck(w, n)
       \/ \E a \in byToken, n \in Nicks : CreateCheck(w, a, n)
       \/ \E outcome \in Outcomes : RegisterInsert(w, outcome) \/ CreateInsert(w, outcome)
       \/ RegisterKeep(w) \/ CreateKeep(w)
       \/ \E a \in byToken : \E i \in DOMAIN acct[a].roles : ChooseRole(w, a, i)
       \/ ReadRole(w) \/ ReadItems(w) \/ \E i \in DOMAIN copy : Save(w, i)
  \/ \E r \in byToken : Login(r) \/ AutoLogin(r)
  \/ \E k \in known : LoadRoles(k)
  \/ Die \/ Restart

Spec == Init /\ [][Next]_vars

-----------------------------------------------------------------------------
(* Properties.                                                             *)

Quiet == \A w \in Workers : job[w] = NoJob

\* The type of every variable; every map leads to an account object, and every
\* job is about one.
TypeOK ==
  /\ accounts \in Seq([name : Names]) /\ roles \in Seq([account : Nat, name : Nicks, of : Nat])
  /\ home \in [Rows(roles) -> Nat] /\ DOMAIN copy \subseteq Nat
  /\ \A i \in DOMAIN copy : copy[i] \in [row : Values, items : SUBSET Rows(roles)]
  /\ \A k \in known : k.row \in Rows(accounts)
  /\ insertId \in 0..MaxAccounts + MaxRoles
  /\ DOMAIN acct = byToken /\ byToken \subseteq Rows(accounts)
  /\ \A a \in byToken :
       /\ acct[a].id \in Nat /\ acct[a].open \in BOOLEAN
       /\ \A i \in DOMAIN acct[a].roles : acct[a].roles[i] \in Nicks
  /\ \A i \in DOMAIN byId : byId[i] \in byToken
  /\ DOMAIN byName \subseteq Names /\ \A n \in DOMAIN byName : byName[n] \in byToken
  /\ DOMAIN nicks \subseteq Nicks
  /\ job \in [Workers -> Job \union {NoJob}] /\ {up, lost} \subseteq BOOLEAN /\ raced \in 0..MaxRaces
  /\ \A w \in Workers :
       job[w] # NoJob /\ job[w].do \in {"insertRole", "keepRole"} => job[w].account \in byToken

\* As long as no request ran between the steps of another (one worker) and no
\* answer of the database was lost since the start, a restart between two
\* requests changes nothing a client can see but SysOpenId: the maps hold what
\* loadFromDB would build from the tables.
MemoryIsTables ==
  raced = 0 /\ ~lost /\ up /\ Quiet =>
    /\ [r \in byToken |-> [acct[r] EXCEPT !.open = FALSE]] = LoadedAcct
    /\ byId = LoadedById /\ byName = LoadedByName /\ nicks = LoadedNicks

\* However many workers race on the one connection, the token of an account
\* whose registration was answered with Success stays good, across restarts.  And
\* as long as no request ran between the steps of another, also when the database
\* inserts a row and the answer is lost, such an account can be logged into by its
\* name and password ever after, LoadRoles with the id and the token of that login
\* lists this account, and a role that was created is in its account.
AnsweredIsServed ==
  up => \A t \in told :
    /\ t.what = "account" => t.row \in byToken
    /\ raced = 0 =>
         /\ t.what = "account" => byName[t.name] = t.row /\ byId[acct[t.row].id] = t.row
         /\ t.what = "role" => \E i \in DOMAIN acct[t.row].roles : acct[t.row].roles[i] = t.name

\* As long as no request ran between the steps of another, whatever the database
\* refuses and whenever the process dies: no client that logged in is shown the
\* roles of another account, nobody's request ends the process, and no row gets
\* the values, no role the items, of another role.
HonestAreSafe == raced = 0 => harm = {}
=============================================================================
