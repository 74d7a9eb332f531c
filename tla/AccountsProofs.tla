--------------------------- MODULE AccountsProofs ---------------------------
(***************************************************************************)
(* Theorems about Accounts, for every set of workers, names and nicks, and *)
(* every bound on the rows and on the races.                               *)
(*                                                                         *)
(* The invariant has what holds however the workers race, what holds until *)
(* the first race (one worker), and what holds besides until an answer of  *)
(* the database is lost.                                                   *)
(***************************************************************************)
EXTENDS Accounts, CommonLemmas

Account == [name : Names]
Role    == [account : Nat, name : Nicks, of : Nat]
Busy(w) == job[w] # NoJob

\* A map with keys in S and values in T, and an AccountInfo.
MapOf(m, S, T) == DOMAIN m \subseteq S /\ m \in [DOMAIN m -> T]
IsObject(o)    == o \in [id : Nat, open : BOOLEAN, roles : {o.roles}] /\ MapOf(o.roles, Nat, Nicks)

-----------------------------------------------------------------------------
(* However the workers race.                                               *)

TypedTables ==
  /\ accounts \in Seq(Account) /\ Len(accounts) <= MaxAccounts
  /\ roles \in Seq(Role) /\ Len(roles) <= MaxRoles /\ home \in [Rows(roles) -> Nat]
TypedAnswer ==
  /\ insertId \in 0..MaxAccounts + MaxRoles
  /\ result \in {NoRows} \union [select : {"role"}, row : Values]
                  \union [select : {"items"}, items : SUBSET Rows(roles)]
TypedMaps ==
  /\ byToken \subseteq Rows(accounts) /\ DOMAIN acct = byToken /\ \A a \in byToken : IsObject(acct[a])
  /\ MapOf(byId, Nat, byToken) /\ MapOf(byName, Names, byToken) /\ MapOf(nicks, Nicks, Nat)
TypedJobs ==
  /\ job \in [Workers -> Job \union {NoJob}]
  /\ \A w \in Workers : Busy(w) =>
       /\ job[w].do = "keepAccount" => job[w].row \in Rows(accounts)
       /\ job[w].do \in {"insertRole", "keepRole"} => job[w].account \in byToken
TypedCopies ==
  DOMAIN copy \subseteq Nat /\ \A i \in DOMAIN copy : copy[i] \in [row : Values, items : SUBSET Rows(roles)]
TypedRest == {up, lost} \subseteq BOOLEAN /\ raced \in 0..MaxRaces

\* Tokens are never forgotten while the process is up.
Tokens ==
  /\ \A k \in known : k.row \in Rows(accounts) /\ (up => k.row \in byToken)
  /\ \A t \in told : t.what = "account" => t.row \in Rows(accounts) /\ (up => t.row \in byToken)

\* Nothing is in memory while the process is down.
Down == ~up => byToken = {} /\ DOMAIN copy = {} /\ \A w \in Workers : ~Busy(w)

Typed == TypedTables /\ TypedAnswer /\ TypedMaps /\ TypedJobs /\ TypedCopies /\ TypedRest /\ Tokens /\ Down

-----------------------------------------------------------------------------
(* Until the first race.                                                   *)

OneJob == \A w, x \in Workers : Busy(w) /\ Busy(x) => w = x

\* Every row has its own values and its own items, and its account is in memory.
OwnRows ==
  \A i \in Rows(roles) :
    /\ roles[i].of = i /\ home[i] = i
    /\ roles[i].account \in Rows(accounts) /\ (up => roles[i].account \in byToken)
Value(i) == [name |-> roles[i].name, of |-> roles[i].of]
OwnCopies ==
  \A i \in DOMAIN copy : i \in Rows(roles) /\ copy[i].row = Value(i) /\ copy[i].items \subseteq {i}

\* The maps lead to the rows they seem to lead to.
OwnObjects ==
  /\ DOMAIN byId = byToken /\ \A a \in byToken : byId[a] = a /\ acct[a].id = a
  /\ \A a \in byToken : \A i \in DOMAIN acct[a].roles :
       i \in Rows(roles) /\ roles[i].account = a /\ roles[i].name = acct[a].roles[i]
  /\ \A n \in DOMAIN byName : accounts[byName[n]].name = n
  /\ \A n \in DOMAIN nicks : nicks[n] \in Rows(roles) /\ roles[nicks[n]].name = n

\* The one request under way finds what its step before left.
Prepared(j) ==
  /\ j.do = "insertAccount" => j.name \notin DOMAIN byName
  /\ j.do = "keepAccount" =>
       /\ insertId = Len(accounts) /\ j.row = Len(accounts) /\ accounts[j.row].name = j.name
       /\ j.row \notin byToken /\ j.name \notin DOMAIN byName
  /\ j.do \in {"insertRole", "keepRole"} => j.name \notin DOMAIN nicks
  /\ j.do = "keepRole" =>
       /\ insertId = Len(roles) /\ insertId \in Rows(roles) /\ insertId \notin DOMAIN acct[j.account].roles
       /\ roles[insertId].account = j.account /\ roles[insertId].name = j.name
  /\ j.do = "readRole" => j.role \in Rows(roles) /\ result = [select |-> "role", row |-> Value(j.role)]
  /\ j.do = "readItems" =>
       j.role \in Rows(roles) /\ j.values = Value(j.role) /\ result = [select |-> "items", items |-> {j.role}]
AllPrepared == \A w \in Workers : Busy(w) => Prepared(job[w])

\* What was answered is in the tables, where a start will find it, and in the maps.
Answered ==
  \A t \in told :
    /\ t.what = "account" =>
         /\ accounts[t.row].name = t.name /\ \A r \in Rows(accounts) : accounts[r].name = t.name => r <= t.row
         /\ up => t.name \in DOMAIN byName /\ byName[t.name] = t.row
    /\ t.what = "role" =>
         \E i \in Rows(roles) : /\ roles[i].account = t.row /\ roles[i].name = t.name
                                /\ up => i \in DOMAIN acct[t.row].roles
LoginsOwn == \A k \in known : k.id = k.row

Alone == OneJob /\ OwnRows /\ OwnCopies /\ OwnObjects /\ AllPrepared /\ Answered /\ LoginsOwn /\ harm = {}

-----------------------------------------------------------------------------
(* Until an answer is lost.                                                *)

\* A row that is not in the maps is the one a request is about to put there.
AccountsKept ==
  /\ \A r \in Rows(accounts) : r \in byToken \/ \E w \in Workers : Busy(w) /\ job[w].do = "keepAccount" /\ job[w].row = r
  /\ \A r \in byToken : accounts[r].name \in DOMAIN byName /\ r <= byName[accounts[r].name]
RolesKept ==
  \A i \in Rows(roles) :
    \/ /\ i \in DOMAIN acct[roles[i].account].roles
       /\ roles[i].name \in DOMAIN nicks /\ nicks[roles[i].name] <= i
    \/ i = Len(roles) /\ \E w \in Workers : Busy(w) /\ job[w].do = "keepRole"

AccInv ==
  /\ Typed
  /\ raced = 0 => Alone
  /\ raced = 0 /\ ~lost /\ up => AccountsKept /\ RolesKept

-----------------------------------------------------------------------------
(* Maps, rows and jobs.                                                    *)

\* A map after an assignment is a map.
LEMMA PutMap ==
  ASSUME NEW m, NEW S, NEW T, NEW k \in S, NEW v \in T, MapOf(m, S, T)
  PROVE  MapOf(Put(m, k, v), S, T)
<1> DEFINE D == DOMAIN m \union {k}
           f(x) == IF x = k THEN v ELSE m[x]
<1>1. DOMAIN m \subseteq S /\ m \in [DOMAIN m -> T]
  BY DEF MapOf
<1>2. Put(m, k, v) = [x \in D |-> f(x)]
  BY DEF Put
<1>3. \A x \in D : f(x) \in T
  BY <1>1
<1> HIDE DEF f
<1> QED
  BY <1>1, <1>2, <1>3 DEF MapOf

\* So does one after insert.
LEMMA KeepMap ==
  ASSUME NEW m, NEW S, NEW T, NEW k \in S, NEW v \in T, MapOf(m, S, T)
  PROVE  MapOf(Keep(m, k, v), S, T)
BY PutMap DEF Keep

\* Its values are of any larger set.
LEMMA MapWider ==
  ASSUME NEW m, NEW S, NEW T, NEW U, MapOf(m, S, T), T \subseteq U
  PROVE  MapOf(m, S, U)
BY DEF MapOf

\* The empty map.
LEMMA NoMap ==
  ASSUME NEW S, NEW T
  PROVE  MapOf(Nothing, S, T) /\ DOMAIN Nothing = {}
BY DEF MapOf, Nothing

\* A table after an insert.
LEMMA RowAdded ==
  ASSUME NEW S, NEW t \in Seq(S), NEW r \in S
  PROVE  /\ Append(t, r) \in Seq(S) /\ Len(Append(t, r)) = Len(t) + 1 /\ Len(t) \in Nat
         /\ Rows(Append(t, r)) = Rows(t) \union {Len(t) + 1} /\ Len(t) + 1 \notin Rows(t)
         /\ Append(t, r)[Len(t) + 1] = r /\ \A i \in Rows(t) : Append(t, r)[i] = t[i]
<1>1. DOMAIN t = 1..Len(t) /\ Len(t) \in Nat
  OBVIOUS
<1>2. Append(t, r) \in Seq(S) /\ Len(Append(t, r)) = Len(t) + 1
  OBVIOUS
<1>3. DOMAIN Append(t, r) = 1..Len(t) + 1
  BY <1>2
<1>4. Append(t, r)[Len(t) + 1] = r /\ \A i \in 1..Len(t) : Append(t, r)[i] = t[i]
  OBVIOUS
<1> QED
  BY <1>1, <1>2, <1>3, <1>4 DEF Rows

\* Row numbers are numbers up to the length.
LEMMA RowNumbers ==
  ASSUME NEW S, NEW t \in Seq(S)
  PROVE  Rows(t) = 1..Len(t) /\ Len(t) \in Nat /\ \A i \in Rows(t) : t[i] \in S
BY DEF Rows

\* A worker turns to the job j, or to none.
LEMMA JobTurns ==
  ASSUME TypedJobs, NEW w \in Workers, NEW j \in Job \union {NoJob}, Does(w, j),
         Rows(accounts) \subseteq Rows(accounts)', byToken \subseteq byToken',
         j # NoJob /\ j.do = "keepAccount" => j.row \in Rows(accounts)',
         j # NoJob /\ j.do \in {"insertRole", "keepRole"} => j.account \in byToken'
  PROVE  TypedJobs' /\ job'[w] = j /\ \A x \in Workers \ {w} : job'[x] = job[x]
<1>1. job \in [Workers -> Job \union {NoJob}] /\ job' = [job EXCEPT ![w] = j]
  BY DEF TypedJobs, Does
<1>2. job' \in [Workers -> Job \union {NoJob}] /\ job'[w] = j /\ \A x \in Workers \ {w} : job'[x] = job[x]
  BY <1>1
<1>3. ASSUME NEW x \in Workers, job'[x] # NoJob
      PROVE  /\ job'[x].do = "keepAccount" => job'[x].row \in Rows(accounts)'
             /\ job'[x].do \in {"insertRole", "keepRole"} => job'[x].account \in byToken'
  <2>1. CASE x = w
    BY <1>2, <1>3, <2>1
  <2>2. CASE x # w
    <3>1. job'[x] = job[x] /\ job[x] # NoJob
      BY <1>2, <1>3, <2>2
    <3> QED
      BY <3>1 DEF TypedJobs, Busy
  <2> QED
    BY <2>1, <2>2
<1> QED
  BY <1>2, <1>3 DEF TypedJobs, Busy

\* And it is the only one, as long as nobody races.
LEMMA OnlyOne ==
  ASSUME NEW w \in Workers, NEW j, job'[w] = j, \A x \in Workers \ {w} : job'[x] = job[x] /\ ~Busy(x),
         j # NoJob => Prepared(j)'
  PROVE  OneJob' /\ AllPrepared'
<1>1. \A x \in Workers : Busy(x)' => x = w
  BY DEF Busy
<1>2. OneJob'
  BY <1>1 DEF OneJob
<1>3. AllPrepared'
  BY <1>1 DEF AllPrepared, Busy, Prepared
<1> QED
  BY <1>2, <1>3

\* A request that starts while no other runs starts alone.
LEMMA StartsAlone ==
  ASSUME NEW w \in Workers, TypedRest, Races(w)
  PROVE  raced' \in 0..MaxRaces /\ (raced' = 0 => raced = 0 /\ \A x \in Workers \ {w} : ~Busy(x))
<1> DEFINE others == \E x \in Workers \ {w} : job[x] # NoJob
<1>1. raced \in 0..MaxRaces /\ MaxRaces \in Nat
  BY AccountsAssumption DEF TypedRest
<1>2. (others => raced < MaxRaces) /\ raced' = raced + IF others THEN 1 ELSE 0
  BY DEF Races
<1>3. CASE others
  <2>1. raced < MaxRaces /\ raced' = raced + 1
    BY <1>2, <1>3
  <2> QED
    BY <1>1, <2>1
<1>4. CASE ~others
  <2>1. raced' = raced + 0
    BY <1>2, <1>4
  <2> QED
    BY <1>1, <1>4, <2>1 DEF Busy
<1> QED
  BY <1>3, <1>4

\* The first step of a request only notes what is to be done, and may select.
LEMMA StartKeeps ==
  ASSUME AccInv, NEW w \in Workers, NEW j \in Job, up, ~Busy(w), Does(w, j), Races(w),
         UNCHANGED <<accounts, roles, home, acct, byId, byName, byToken, nicks, copy, known, told, up, lost, harm>>,
         TypedAnswer', j.do \notin {"keepAccount", "keepRole"},
         j.do = "insertRole" => j.account \in byToken,
         raced' = 0 /\ Alone => Prepared(j)'
  PROVE  AccInv'
<1>1. /\ TypedTables /\ TypedAnswer /\ TypedMaps /\ TypedJobs /\ TypedCopies /\ TypedRest /\ Tokens /\ Down
      /\ raced = 0 => Alone
      /\ raced = 0 /\ ~lost /\ up => AccountsKept /\ RolesKept
  BY DEF AccInv, Typed
<1>2. raced' \in 0..MaxRaces /\ (raced' = 0 => raced = 0 /\ \A x \in Workers \ {w} : ~Busy(x))
  BY <1>1, StartsAlone
<1>3. TypedJobs' /\ job'[w] = j /\ \A x \in Workers \ {w} : job'[x] = job[x]
  <2>1. Rows(accounts) \subseteq Rows(accounts)' /\ byToken \subseteq byToken'
    BY DEF Rows
  <2> QED
    BY <1>1, <2>1, JobTurns
<1>4. Typed'
  <2>1. TypedTables' /\ TypedMaps' /\ TypedCopies' /\ Tokens'
    BY <1>1 DEF TypedTables, TypedMaps, TypedCopies, Tokens, Rows
  <2>2. TypedRest'
    BY <1>1, <1>2 DEF TypedRest
  <2>3. Down'
    BY DEF Down
  <2> QED
    BY <1>3, <2>1, <2>2, <2>3 DEF Typed
<1>5. ASSUME raced' = 0 PROVE Alone'
  <2>1. Alone /\ \A x \in Workers \ {w} : ~Busy(x)
    BY <1>1, <1>2, <1>5
  <2>2. OneJob' /\ AllPrepared'
    BY <1>3, <1>5, <2>1, OnlyOne
  <2>3. OwnRows' /\ OwnCopies'
    BY <2>1 DEF Alone, OwnRows, OwnCopies, Rows, Value
  <2>4. OwnObjects' /\ Answered'
    BY <2>1 DEF Alone, OwnObjects, Answered, Rows
  <2>5. LoginsOwn' /\ harm' = {}
    BY <2>1 DEF Alone, LoginsOwn
  <2> QED
    BY <2>2, <2>3, <2>4, <2>5 DEF Alone
<1>6. ASSUME raced' = 0, ~lost' PROVE AccountsKept' /\ RolesKept'
  <2>1. AccountsKept /\ RolesKept /\ \A x \in Workers : ~Busy(x)
    BY <1>1, <1>2, <1>6
  <2>2. \A r \in Rows(accounts) : r \in byToken
    BY <2>1 DEF AccountsKept
  <2>3. AccountsKept'
    BY <2>1, <2>2 DEF AccountsKept, Rows
  <2>4. \A i \in Rows(roles) : /\ i \in DOMAIN acct[roles[i].account].roles
                               /\ roles[i].name \in DOMAIN nicks /\ nicks[roles[i].name] <= i
    BY <2>1 DEF RolesKept
  <2>5. RolesKept'
    BY <2>4 DEF RolesKept, Rows
  <2> QED
    BY <2>3, <2>5
<1> QED
  BY <1>4, <1>5, <1>6 DEF AccInv

\* doRegister has found the name free.
LEMMA RegisterCheckKeeps ==
  ASSUME AccInv, NEW w \in Workers, NEW n \in Names, RegisterCheck(w, n)
  PROVE  AccInv'
<1> DEFINE j == [do |-> "insertAccount", name |-> n]
<1>1. /\ up /\ ~Busy(w) /\ n \notin DOMAIN byName /\ Does(w, j) /\ Races(w)
      /\ UNCHANGED <<accounts, roles, home, acct, byId, byName, byToken, nicks, copy, known, told, up, lost, harm>>
      /\ UNCHANGED <<insertId, result>>
  BY DEF RegisterCheck, Busy, tables, answer, maps, client
<1>2. j \in Job
  BY DEF Job
<1>3. j.do = "insertAccount" /\ j.name = n
  OBVIOUS
<1> HIDE DEF j
<1>4. TypedAnswer'
  BY <1>1 DEF AccInv, Typed, TypedAnswer, Rows
<1>5. Prepared(j)'
  BY <1>1, <1>3 DEF Prepared
<1> QED
  BY <1>1, <1>2, <1>3, <1>4, <1>5, StartKeeps

\* doCreateRole has found the nick free.
LEMMA CreateCheckKeeps ==
  ASSUME AccInv, NEW w \in Workers, NEW a \in byToken, NEW n \in Nicks, CreateCheck(w, a, n)
  PROVE  AccInv'
<1> DEFINE j == [do |-> "insertRole", account |-> a, name |-> n]
<1>1. /\ up /\ ~Busy(w) /\ n \notin DOMAIN nicks /\ Does(w, j) /\ Races(w)
      /\ UNCHANGED <<accounts, roles, home, acct, byId, byName, byToken, nicks, copy, known, told, up, lost, harm>>
      /\ UNCHANGED <<insertId, result>>
  BY DEF CreateCheck, Busy, tables, answer, maps, client
<1>2. a \in Nat
  <2>1. accounts \in Seq(Account) /\ a \in Rows(accounts)
    BY DEF AccInv, Typed, TypedTables, TypedMaps
  <2> QED
    BY <2>1, RowNumbers
<1>3. j \in Job
  BY <1>2 DEF Job
<1>4. j.do = "insertRole" /\ j.name = n /\ j.account = a
  OBVIOUS
<1> HIDE DEF j
<1>5. TypedAnswer'
  BY <1>1 DEF AccInv, Typed, TypedAnswer, Rows
<1>6. Prepared(j)'
  BY <1>1, <1>4 DEF Prepared
<1> QED
  BY <1>1, <1>3, <1>4, <1>5, <1>6, StartKeeps

\* Role::loadFromDB has selected the row of the role.
LEMMA ChooseRoleKeeps ==
  ASSUME AccInv, NEW w \in Workers, NEW a \in byToken, NEW i \in DOMAIN acct[a].roles, ChooseRole(w, a, i)
  PROVE  AccInv'
<1> DEFINE j    == [do |-> "readRole", role |-> i]
           rows == IF i \in Rows(roles) THEN [select |-> "role", row |-> Value(i)] ELSE NoRows
<1>1. /\ up /\ ~Busy(w) /\ Does(w, j) /\ Races(w)
      /\ UNCHANGED <<accounts, roles, home, acct, byId, byName, byToken, nicks, copy, known, told, up, lost, harm>>
      /\ insertId' = 0 /\ result' = rows
  BY DEF ChooseRole, Busy, tables, maps, client, Execute, Rows, Value
<1>2. i \in Nat
  BY DEF AccInv, Typed, TypedMaps, IsObject, MapOf
<1>3. j \in Job /\ j.do = "readRole" /\ j.role = i
  BY <1>2 DEF Job
<1> HIDE DEF j
<1>4. TypedAnswer'
  <2>1. roles \in Seq(Role)
    BY DEF AccInv, Typed, TypedTables
  <2>2. ASSUME i \in Rows(roles) PROVE Value(i) \in Values
    <3>1. roles[i] \in Role
      BY <2>1, <2>2, RowNumbers
    <3> QED
      BY <3>1 DEF Role, Value, Values
  <2>3. rows \in {NoRows} \union [select : {"role"}, row : Values]
    BY <2>2
  <2>4. 0 \in 0..MaxAccounts + MaxRoles
    BY AccountsAssumption
  <2> HIDE DEF rows
  <2> QED
    BY <1>1, <2>3, <2>4 DEF TypedAnswer
<1>5. ASSUME Alone PROVE Prepared(j)'
  <2>1. i \in Rows(roles)
    BY <1>5 DEF Alone, OwnObjects
  <2>2. result' = [select |-> "role", row |-> Value(i)]
    BY <1>1, <2>1
  <2>3. Value(i)' = Value(i) /\ Rows(roles)' = Rows(roles)
    BY <1>1 DEF Value, Rows
  <2> QED
    BY <1>3, <2>1, <2>2, <2>3 DEF Prepared
<1> QED
  BY <1>1, <1>3, <1>4, <1>5, StartKeeps

-----------------------------------------------------------------------------
(* The later steps of Register and CreateRole.                             *)

\* A worker at a step of a request; as long as nobody races it is the only one.
LEMMA AtWork ==
  ASSUME AccInv, NEW w \in Workers, Busy(w)
  PROVE  /\ job[w] \in Job
         /\ raced = 0 => Alone /\ Prepared(job[w]) /\ \A x \in Workers \ {w} : ~Busy(x)
<1>1. job[w] \in Job
  BY DEF AccInv, Typed, TypedJobs, Busy
<1>2. ASSUME raced = 0 PROVE Alone /\ Prepared(job[w]) /\ \A x \in Workers \ {w} : ~Busy(x)
  <2>1. Alone
    BY <1>2 DEF AccInv
  <2>2. OneJob /\ AllPrepared
    BY <2>1 DEF Alone
  <2>3. \A x \in Workers \ {w} : ~Busy(x)
    BY <2>2 DEF OneJob
  <2>4. Prepared(job[w])
    BY <2>2 DEF AllPrepared
  <2> QED
    BY <2>1, <2>3, <2>4
<1> QED
  BY <1>1, <1>2

\* A step that changes neither tables nor maps, and ends the request or passes on
\* to reading: a refused insert, a select, or the reading of its rows.
LEMMA QuietStepKeeps ==
  ASSUME AccInv, NEW w \in Workers, NEW j \in Job \union {NoJob}, Busy(w), up, Does(w, j),
         UNCHANGED <<accounts, roles, home, acct, byId, byName, byToken, nicks, known, told, up, raced, harm>>,
         TypedAnswer', TypedCopies', raced = 0 => OwnCopies', lost' \in BOOLEAN, ~lost' => ~lost,
         job[w].do \notin {"keepAccount", "keepRole"},
         j # NoJob => j.do \in {"readRole", "readItems"} /\ (raced = 0 => Prepared(j)')
  PROVE  AccInv'
<1>1. /\ TypedTables /\ TypedAnswer /\ TypedMaps /\ TypedJobs /\ TypedCopies /\ TypedRest /\ Tokens /\ Down
      /\ raced = 0 /\ ~lost /\ up => AccountsKept /\ RolesKept
  BY DEF AccInv, Typed
<1>2. raced = 0 => Alone /\ \A x \in Workers \ {w} : ~Busy(x)
  BY AtWork
<1>3. TypedJobs' /\ job'[w] = j /\ \A x \in Workers \ {w} : job'[x] = job[x]
  <2>1. Rows(accounts) \subseteq Rows(accounts)' /\ byToken \subseteq byToken'
    BY DEF Rows
  <2> QED
    BY <1>1, <2>1, JobTurns
<1>4. Typed'
  <2>1. TypedTables' /\ TypedMaps' /\ Tokens'
    BY <1>1 DEF TypedTables, TypedMaps, Tokens, Rows
  <2>2. TypedRest' /\ Down'
    BY <1>1 DEF TypedRest, Down
  <2> QED
    BY <1>3, <2>1, <2>2 DEF Typed
<1>5. ASSUME raced' = 0 PROVE Alone'
  <2>1. raced = 0 /\ Alone /\ \A x \in Workers \ {w} : ~Busy(x)
    BY <1>2, <1>5
  <2>2. OneJob' /\ AllPrepared'
    BY <1>3, <2>1, OnlyOne
  <2>3. OwnRows' /\ OwnCopies' /\ OwnObjects' /\ Answered' /\ LoginsOwn' /\ harm' = {}
    BY <2>1 DEF Alone, OwnRows, OwnObjects, Answered, LoginsOwn, Rows
  <2> QED
    BY <2>2, <2>3 DEF Alone
<1>6. ASSUME raced' = 0, ~lost' PROVE AccountsKept' /\ RolesKept'
  <2>1. AccountsKept /\ RolesKept /\ \A x \in Workers : Busy(x) => job[x].do \notin {"keepAccount", "keepRole"}
    BY <1>1, <1>2, <1>6
  <2>2. \A r \in Rows(accounts) : r \in byToken
    BY <2>1 DEF AccountsKept
  <2>3. AccountsKept'
    BY <2>1, <2>2 DEF AccountsKept, Rows
  <2>4. \A i \in Rows(roles) : /\ i \in DOMAIN acct[roles[i].account].roles
                               /\ roles[i].name \in DOMAIN nicks /\ nicks[roles[i].name] <= i
    BY <2>1 DEF RolesKept
  <2>5. RolesKept'
    BY <2>4 DEF RolesKept, Rows
  <2> QED
    BY <2>3, <2>5
<1> QED
  BY <1>4, <1>5, <1>6 DEF AccInv

\* registerAccount has inserted the row, or has not.
LEMMA RegisterInsertKeeps ==
  ASSUME AccInv, NEW w \in Workers, NEW outcome \in Outcomes, RegisterInsert(w, outcome)
  PROVE  AccInv'
<1> DEFINE n == job[w].name
           r == Len(accounts) + 1
           j == IF outcome = "done" THEN [do |-> "keepAccount", name |-> n, row |-> r] ELSE NoJob
<1>1. /\ TypedTables /\ TypedAnswer /\ TypedMaps /\ TypedJobs /\ TypedCopies /\ TypedRest /\ Tokens /\ Down
      /\ raced = 0 /\ ~lost /\ up => AccountsKept /\ RolesKept
  BY DEF AccInv, Typed
<1>2. /\ up /\ Busy(w) /\ job[w].do = "insertAccount" /\ Len(accounts) < MaxAccounts
      /\ Does(w, j) /\ Insert(accounts, [name |-> n], outcome)
      /\ UNCHANGED <<roles, home, acct, byId, byName, byToken, nicks, copy, known, told, up, raced, harm>>
  BY DEF RegisterInsert, Busy, maps, client
<1>3. /\ job[w] \in Job
      /\ raced = 0 => Alone /\ Prepared(job[w]) /\ \A x \in Workers \ {w} : ~Busy(x)
  BY <1>2, AtWork
<1>4. n \in Names
  BY <1>2, <1>3 DEF Job
<1>5. accounts \in Seq(Account) /\ Rows(accounts) = 1..Len(accounts) /\ Len(accounts) \in Nat /\ byToken \subseteq Rows(accounts)
  BY <1>1, RowNumbers DEF TypedTables, TypedMaps
<1>6. lost' = (lost \/ outcome = "lost") /\ result' = NoRows
  BY <1>2 DEF Insert, Execute
<1>7. CASE outcome = "refused"
  <2>1. accounts' = accounts /\ insertId' = 0 /\ j = NoJob
    BY <1>2, <1>7 DEF Insert, Execute
  <2>2. TypedAnswer'
    BY <1>6, <2>1, AccountsAssumption DEF TypedAnswer
  <2>3. lost' \in BOOLEAN /\ (~lost' => ~lost)
    BY <1>1, <1>6 DEF TypedRest
  <2>5. TypedCopies' /\ (raced = 0 => OwnCopies')
    BY <1>1, <1>2, <1>3, <2>1 DEF TypedCopies, OwnCopies, Alone, Rows, Value
  <2> HIDE DEF j
  <2> QED
    BY <1>2, <2>1, <2>2, <2>3, <2>5, QuietStepKeeps
<1>8. CASE outcome # "refused"
  <2>1. accounts' = Append(accounts, [name |-> n]) /\ insertId' = r
    BY <1>2, <1>8 DEF Insert, Execute
  <2>2. [name |-> n] \in Account
    BY <1>4 DEF Account
  <2>3. /\ accounts' \in Seq(Account) /\ Len(accounts') = r /\ Rows(accounts)' = Rows(accounts) \union {r}
        /\ r \notin Rows(accounts) /\ accounts'[r] = [name |-> n] /\ \A i \in Rows(accounts) : accounts'[i] = accounts[i]
    BY <1>5, <2>1, <2>2, RowAdded DEF Rows
  <2>4. r \in Nat /\ r <= MaxAccounts
    BY <1>2, <1>5, AccountsAssumption
  <2>5. j \in Job \union {NoJob} /\ (j # NoJob => j.do = "keepAccount" /\ j.row = r /\ j.name = n)
    BY <1>4, <2>4 DEF Job
  <2>6. ~lost' => j # NoJob /\ ~lost
    <3>1. outcome # "lost" => outcome = "done"
      BY <1>8, AccountsAssumption
    <3>2. outcome = "done" => j \in Job
      BY <1>4, <2>4 DEF Job
    <3> QED
      BY <1>6, <3>1, <3>2, AccountsAssumption
  <2> HIDE DEF j, n, r
  <2>7. TypedJobs' /\ job'[w] = j /\ \A x \in Workers \ {w} : job'[x] = job[x]
    BY <1>1, <1>2, <2>3, <2>5, JobTurns
  <2>8. Typed'
    <3>1. TypedTables'
      BY <1>1, <1>2, <2>3, <2>4 DEF TypedTables, Rows
    <3>2. TypedAnswer'
      <4>1. r \in 0..MaxAccounts + MaxRoles
        BY <2>4, AccountsAssumption
      <4> QED
        BY <1>6, <2>1, <4>1 DEF TypedAnswer
    <3>3. TypedMaps'
      BY <1>1, <1>2, <2>3 DEF TypedMaps
    <3>4. TypedCopies'
      BY <1>1, <1>2 DEF TypedCopies, Rows
    <3>5. TypedRest' /\ Down'
      BY <1>1, <1>2, <1>6 DEF TypedRest, Down
    <3>6. Tokens'
      BY <1>1, <1>2, <2>3 DEF Tokens
    <3> QED
      BY <2>7, <3>1, <3>2, <3>3, <3>4, <3>5, <3>6 DEF Typed
  <2>9. ASSUME raced' = 0 PROVE Alone'
    <3>1. raced = 0 /\ Alone /\ Prepared(job[w]) /\ \A x \in Workers \ {w} : ~Busy(x)
      BY <1>2, <1>3, <2>9
    <3>2. n \notin DOMAIN byName
      BY <1>2, <3>1 DEF Prepared, n
    <3>3. PICK J : J = j
      OBVIOUS
    <3>4. OneJob' /\ AllPrepared'
      <4>1. r \notin byToken /\ accounts'[r].name = n
        BY <1>5, <2>3
      <4>2. J # NoJob => Prepared(J)'
        BY <1>2, <2>1, <2>3, <2>5, <3>2, <3>3, <4>1 DEF Prepared
      <4> QED
        BY <2>7, <3>1, <3>3, <4>2, OnlyOne
    <3>5. OwnRows'
      BY <1>2, <2>3, <3>1 DEF Alone, OwnRows, Rows
    <3>6. OwnCopies' /\ LoginsOwn' /\ harm' = {}
      BY <1>2, <3>1 DEF Alone, OwnCopies, LoginsOwn, Rows, Value
    <3>7. OwnObjects'
      <4>1. \A m \in DOMAIN byName : byName[m] \in Rows(accounts)
        BY <1>1, <1>5 DEF TypedMaps, MapOf
      <4> QED
        BY <1>2, <2>3, <3>1, <4>1 DEF Alone, OwnObjects, Rows
    <3>8. Answered'
      <4> SUFFICES ASSUME NEW t \in told
                   PROVE  /\ t.what = "account" =>
                               /\ accounts'[t.row].name = t.name
                               /\ \A i \in Rows(accounts)' : accounts'[i].name = t.name => i <= t.row
                               /\ up => t.name \in DOMAIN byName /\ byName[t.name] = t.row
                          /\ t.what = "role" =>
                               \E i \in Rows(roles) : /\ roles[i].account = t.row /\ roles[i].name = t.name
                                                      /\ up => i \in DOMAIN acct[t.row].roles
        BY <1>2 DEF Answered, Rows
      <4>1. Answered
        BY <3>1 DEF Alone
      <4>2. ASSUME t.what = "account" PROVE t.row \in Rows(accounts) /\ t.name # n
        BY <1>1, <1>2, <3>2, <4>1, <4>2 DEF Tokens, Answered
      <4> QED
        BY <2>3, <4>1, <4>2 DEF Answered
    <3> QED
      BY <3>4, <3>5, <3>6, <3>7, <3>8 DEF Alone
  <2>10. ASSUME raced' = 0, ~lost' PROVE AccountsKept' /\ RolesKept'
    <3>1. /\ AccountsKept /\ RolesKept /\ j # NoJob
          /\ \A x \in Workers : Busy(x) => job[x].do \notin {"keepAccount", "keepRole"}
      BY <1>1, <1>2, <1>3, <2>6, <2>10
    <3>2. \A i \in Rows(accounts) : i \in byToken
      BY <3>1 DEF AccountsKept
    <3>3. Busy(w)' /\ job'[w].do = "keepAccount" /\ job'[w].row = r
      BY <2>5, <2>7, <3>1 DEF Busy
    <3>4. AccountsKept'
      BY <1>2, <1>5, <2>3, <3>1, <3>2, <3>3 DEF AccountsKept
    <3>5. \A i \in Rows(roles) : /\ i \in DOMAIN acct[roles[i].account].roles
                                 /\ roles[i].name \in DOMAIN nicks /\ nicks[roles[i].name] <= i
      BY <3>1 DEF RolesKept
    <3>6. RolesKept'
      BY <1>2, <3>5 DEF RolesKept, Rows
    <3> QED
      BY <3>4, <3>6
  <2> QED
    BY <2>8, <2>9, <2>10 DEF AccInv
<1> QED
  BY <1>7, <1>8

\* registerAccount has put the account into the maps.
LEMMA RegisterKeepKeeps ==
  ASSUME AccInv, NEW w \in Workers, RegisterKeep(w)
  PROVE  AccInv'
<1> DEFINE n == job[w].name
           r == job[w].row
           t0 == [what |-> "account", row |-> r, name |-> n]
           o == [id |-> insertId, open |-> TRUE, roles |-> Nothing]
<1>1. /\ TypedTables /\ TypedAnswer /\ TypedMaps /\ TypedJobs /\ TypedCopies /\ TypedRest /\ Tokens /\ Down
      /\ raced = 0 /\ ~lost /\ up => AccountsKept /\ RolesKept
  BY DEF AccInv, Typed
<1>2. /\ up /\ Busy(w) /\ job[w].do = "keepAccount" /\ Does(w, NoJob)
      /\ acct' = Put(acct, r, o) /\ byId' = Put(byId, insertId, r) /\ byName' = Put(byName, n, r)
      /\ byToken' = byToken \union {r} /\ told' = told \union {t0}
      /\ UNCHANGED <<accounts, roles, home, insertId, result, nicks, copy, known, up, raced, lost, harm>>
  BY DEF RegisterKeep, Busy, tables, answer, history, Tell
<1>3. /\ job[w] \in Job
      /\ raced = 0 => Alone /\ Prepared(job[w]) /\ \A x \in Workers \ {w} : ~Busy(x)
  BY <1>2, AtWork
<1>4. n \in Names /\ r \in Rows(accounts)
  BY <1>1, <1>2, <1>3 DEF Job, TypedJobs
<1>5. insertId \in Nat
  BY <1>1, AccountsAssumption DEF TypedAnswer
<1>6. IsObject(o) /\ o.id = insertId /\ DOMAIN o.roles = {}
  BY <1>5, NoMap DEF IsObject
<1>7. t0.what = "account" /\ t0.row = r /\ t0.name = n
  OBVIOUS
<1> HIDE DEF o, t0
<1>8. /\ DOMAIN acct' = byToken' /\ acct'[r] = o /\ \A a \in byToken : a # r => acct'[a] = acct[a]
      /\ DOMAIN byId' = DOMAIN byId \union {insertId} /\ byId'[insertId] = r
      /\ \A x \in DOMAIN byId : x # insertId => byId'[x] = byId[x]
      /\ DOMAIN byName' = DOMAIN byName \union {n} /\ byName'[n] = r
      /\ \A x \in DOMAIN byName : x # n => byName'[x] = byName[x]
  <2>1. DOMAIN acct = byToken
    BY <1>1 DEF TypedMaps
  <2>2. DOMAIN acct' = byToken' /\ acct'[r] = o /\ \A a \in byToken : a # r => acct'[a] = acct[a]
    BY <1>2, <2>1 DEF Put
  <2>3. /\ DOMAIN byId' = DOMAIN byId \union {insertId} /\ byId'[insertId] = r
        /\ \A x \in DOMAIN byId : x # insertId => byId'[x] = byId[x]
    BY <1>2 DEF Put
  <2>4. /\ DOMAIN byName' = DOMAIN byName \union {n} /\ byName'[n] = r
        /\ \A x \in DOMAIN byName : x # n => byName'[x] = byName[x]
    BY <1>2 DEF Put
  <2> QED
    BY <2>2, <2>3, <2>4
<1>9. TypedJobs' /\ job'[w] = NoJob /\ \A x \in Workers \ {w} : job'[x] = job[x]
  <2>1. Rows(accounts) \subseteq Rows(accounts)' /\ byToken \subseteq byToken'
    BY <1>2 DEF Rows
  <2> QED
    BY <1>1, <1>2, <2>1, JobTurns
<1>10. Typed'
  <2>1. TypedTables' /\ TypedAnswer' /\ TypedCopies'
    BY <1>1, <1>2 DEF TypedTables, TypedAnswer, TypedCopies, Rows
  <2>2. TypedMaps'
    <3>1. byToken' \subseteq Rows(accounts)'
      BY <1>1, <1>2, <1>4 DEF TypedMaps, Rows
    <3>2. \A a \in byToken' : IsObject(acct'[a])
      BY <1>1, <1>2, <1>6, <1>8 DEF TypedMaps
    <3>3. MapOf(byId, Nat, byToken') /\ MapOf(byName, Names, byToken')
      <4>1. byToken \subseteq byToken'
        BY <1>2
      <4> QED
        BY <1>1, <4>1, MapWider DEF TypedMaps
    <3>4. MapOf(byId', Nat, byToken')
      <4>1. r \in byToken'
        BY <1>2
      <4>2. MapOf(Put(byId, insertId, r), Nat, byToken')
        BY <1>5, <3>3, <4>1, PutMap
      <4> QED
        BY <1>2, <4>2
    <3>5. MapOf(byName', Names, byToken')
      <4>1. r \in byToken'
        BY <1>2
      <4>2. MapOf(Put(byName, n, r), Names, byToken')
        BY <1>4, <3>3, <4>1, PutMap
      <4> QED
        BY <1>2, <4>2
    <3>6. MapOf(nicks', Nicks, Nat)
      BY <1>1, <1>2 DEF TypedMaps
    <3> QED
      BY <1>8, <3>1, <3>2, <3>4, <3>5, <3>6 DEF TypedMaps, IsObject, MapOf
  <2>3. TypedRest' /\ Down'
    BY <1>1, <1>2 DEF TypedRest, Down
  <2>4. Tokens'
    BY <1>1, <1>2, <1>4, <1>7 DEF Tokens, Rows
  <2> QED
    BY <1>9, <2>1, <2>2, <2>3, <2>4 DEF Typed
<1>11. ASSUME raced' = 0 PROVE Alone'
  <2>1. raced = 0 /\ Alone /\ Prepared(job[w]) /\ \A x \in Workers \ {w} : ~Busy(x)
    BY <1>2, <1>3, <1>11
  <2>2. /\ insertId = r /\ r = Len(accounts) /\ accounts[r].name = n
        /\ r \notin byToken /\ n \notin DOMAIN byName
    BY <1>2, <2>1 DEF Prepared
  <2>3. OneJob' /\ AllPrepared'
    BY <1>9, <2>1, OnlyOne
  <2>4. OwnRows' /\ OwnCopies' /\ LoginsOwn' /\ harm' = {}
    BY <1>2, <2>1 DEF Alone, OwnRows, OwnCopies, LoginsOwn, Rows, Value
  <2> HIDE DEF n, r
  <2>5. OwnObjects'
    <3>1. OwnObjects
      BY <2>1 DEF Alone
    <3>2. DOMAIN byId' = byToken' /\ \A a \in byToken' : byId'[a] = a /\ acct'[a].id = a
      BY <1>2, <1>6, <1>8, <2>2, <3>1 DEF OwnObjects
    <3>3. \A a \in byToken' : \A i \in DOMAIN acct'[a].roles :
            i \in Rows(roles) /\ roles[i].account = a /\ roles[i].name = acct'[a].roles[i]
      BY <1>2, <1>6, <1>8, <3>1 DEF OwnObjects
    <3>4. \A m \in DOMAIN byName' : accounts[byName'[m]].name = m
      BY <1>8, <2>2, <3>1 DEF OwnObjects
    <3>5. \A m \in DOMAIN nicks : nicks[m] \in Rows(roles) /\ roles[nicks[m]].name = m
      BY <3>1 DEF OwnObjects
    <3> QED
      BY <1>2, <3>2, <3>3, <3>4, <3>5 DEF OwnObjects, Rows
  <2>6. Answered'
    <3>1. Answered /\ OwnRows
      BY <2>1 DEF Alone
    <3>2. \A i \in Rows(accounts) : i <= r
      <4>1. Rows(accounts) = 1..Len(accounts)
        BY <1>1, RowNumbers DEF TypedTables
      <4> QED
        BY <2>2, <4>1
    <3>3. ASSUME NEW t \in told', t.what = "account"
          PROVE  /\ accounts[t.row].name = t.name
                 /\ \A i \in Rows(accounts) : accounts[i].name = t.name => i <= t.row
                 /\ t.name \in DOMAIN byName' /\ byName'[t.name] = t.row
      <4>1. CASE t = t0
        BY <1>7, <1>8, <2>2, <3>2, <4>1
      <4>2. CASE t \in told
        <5>1. /\ accounts[t.row].name = t.name
              /\ \A i \in Rows(accounts) : accounts[i].name = t.name => i <= t.row
              /\ t.name \in DOMAIN byName /\ byName[t.name] = t.row
          BY <1>2, <3>1, <3>3, <4>2 DEF Answered
        <5> QED
          BY <1>8, <2>2, <5>1
      <4> QED
        BY <1>2, <4>1, <4>2
    <3>4. ASSUME NEW t \in told', t.what = "role"
          PROVE  \E i \in Rows(roles) : /\ roles[i].account = t.row /\ roles[i].name = t.name
                                        /\ i \in DOMAIN acct'[t.row].roles
      <4>1. t \in told
        BY <1>2, <1>7, <3>4
      <4>2. PICK i \in Rows(roles) : /\ roles[i].account = t.row /\ roles[i].name = t.name
                                     /\ i \in DOMAIN acct[t.row].roles
        BY <1>2, <3>1, <3>4, <4>1 DEF Answered
      <4>3. t.row \in byToken /\ t.row # r
        BY <1>2, <2>2, <3>1, <4>2 DEF OwnRows
      <4> QED
        BY <1>8, <4>2, <4>3
    <3> QED
      BY <1>2, <3>3, <3>4 DEF Answered, Rows
  <2> QED
    BY <2>3, <2>4, <2>5, <2>6 DEF Alone
<1>12. ASSUME raced' = 0, ~lost' PROVE AccountsKept' /\ RolesKept'
  <2>1. AccountsKept /\ RolesKept /\ OwnRows /\ Prepared(job[w]) /\ \A x \in Workers \ {w} : ~Busy(x)
    BY <1>1, <1>2, <1>3, <1>12 DEF Alone
  <2>2. r \notin byToken /\ n \notin DOMAIN byName /\ accounts[r].name = n
    BY <1>2, <2>1 DEF Prepared
  <2>3. \A i \in Rows(accounts) : i \in byToken'
    BY <1>2, <2>1 DEF AccountsKept
  <2>4. \A x \in Workers : Busy(x) => job[x].do # "keepRole"
    BY <1>2, <2>1
  <2> HIDE DEF n, r
  <2>5. AccountsKept'
    <3>1. r \in Nat
      BY <1>1, <1>4, RowNumbers DEF TypedTables
    <3>2. \A i \in byToken' : accounts[i].name \in DOMAIN byName' /\ i <= byName'[accounts[i].name]
      BY <1>2, <1>8, <2>1, <2>2, <3>1 DEF AccountsKept
    <3> QED
      BY <1>2, <2>3, <3>2 DEF AccountsKept, Rows
  <2>6. ASSUME NEW i \in Rows(roles)
        PROVE  /\ i \in DOMAIN acct'[roles[i].account].roles
               /\ roles[i].name \in DOMAIN nicks /\ nicks[roles[i].name] <= i
    <3>1. /\ i \in DOMAIN acct[roles[i].account].roles
          /\ roles[i].name \in DOMAIN nicks /\ nicks[roles[i].name] <= i
      BY <2>1, <2>4 DEF RolesKept
    <3>2. roles[i].account \in byToken /\ roles[i].account # r
      BY <1>2, <2>1, <2>2 DEF OwnRows
    <3> QED
      BY <1>8, <3>1, <3>2
  <2>7. RolesKept'
    BY <1>2, <2>6 DEF RolesKept, Rows
  <2> QED
    BY <2>5, <2>7
<1> QED
  BY <1>10, <1>11, <1>12, <1>2 DEF AccInv

\* createRole has inserted the row, or has not.
LEMMA CreateInsertKeeps ==
  ASSUME AccInv, NEW w \in Workers, NEW outcome \in Outcomes, CreateInsert(w, outcome)
  PROVE  AccInv'
<1> DEFINE n == job[w].name
           a == job[w].account
           k == Len(roles) + 1
           row == [account |-> acct[a].id, name |-> n, of |-> k]
           j == IF outcome = "done" THEN [job[w] EXCEPT !.do = "keepRole"] ELSE NoJob
<1>1. /\ TypedTables /\ TypedAnswer /\ TypedMaps /\ TypedJobs /\ TypedCopies /\ TypedRest /\ Tokens /\ Down
      /\ raced = 0 /\ ~lost /\ up => AccountsKept /\ RolesKept
  BY DEF AccInv, Typed
<1>2. /\ up /\ Busy(w) /\ job[w].do = "insertRole" /\ Len(roles) < MaxRoles
      /\ Does(w, j) /\ Insert(roles, row, outcome)
      /\ home' = [i \in Rows(roles') |-> IF i \in Rows(roles) THEN home[i] ELSE i]
      /\ UNCHANGED <<accounts, acct, byId, byName, byToken, nicks, copy, known, told, up, raced, harm>>
  <2>1. DOMAIN home = Rows(roles)
    BY <1>1 DEF TypedTables
  <2> QED
    BY <2>1 DEF CreateInsert, Busy, maps, client, Rows
<1>3. /\ job[w] \in Job
      /\ raced = 0 => Alone /\ Prepared(job[w]) /\ \A x \in Workers \ {w} : ~Busy(x)
  BY <1>2, AtWork
<1>4. n \in Nicks /\ a \in byToken
  BY <1>1, <1>2, <1>3 DEF Job, TypedJobs
<1>5. /\ accounts \in Seq(Account) /\ Rows(accounts) = 1..Len(accounts) /\ byToken \subseteq Rows(accounts)
      /\ roles \in Seq(Role) /\ Rows(roles) = 1..Len(roles) /\ Len(roles) \in Nat
      /\ home \in [Rows(roles) -> Nat]
  BY <1>1, RowNumbers DEF TypedTables, TypedMaps
<1>6. lost' = (lost \/ outcome = "lost") /\ result' = NoRows
  BY <1>2 DEF Insert, Execute
<1>7. CASE outcome = "refused"
  <2>1. roles' = roles /\ insertId' = 0 /\ j = NoJob
    BY <1>2, <1>7 DEF Insert, Execute
  <2>2. TypedAnswer'
    BY <1>6, <2>1, AccountsAssumption DEF TypedAnswer
  <2>3. lost' \in BOOLEAN /\ (~lost' => ~lost)
    BY <1>1, <1>6 DEF TypedRest
  <2>5. TypedCopies' /\ (raced = 0 => OwnCopies')
    BY <1>1, <1>2, <1>3, <2>1 DEF TypedCopies, OwnCopies, Alone, Rows, Value
  <2>4. home' = home
    BY <1>2, <1>5, <2>1
  <2> HIDE DEF j
  <2> QED
    BY <1>2, <2>1, <2>2, <2>3, <2>4, <2>5, QuietStepKeeps
<1>8. CASE outcome # "refused"
  <2>1. roles' = Append(roles, row) /\ insertId' = k
    BY <1>2, <1>8 DEF Insert, Execute
  <2>2. k \in Nat /\ k <= MaxRoles /\ k >= 1
    BY <1>2, <1>5, AccountsAssumption
  <2>3. row \in Role /\ row.name = n /\ row.of = k /\ row.account = acct[a].id
    <3>1. acct[a].id \in Nat
      BY <1>1, <1>4 DEF TypedMaps, IsObject
    <3> QED
      BY <1>4, <2>2, <3>1 DEF Role
  <2> HIDE DEF row
  <2>4. /\ roles' \in Seq(Role) /\ Len(roles') = k /\ Rows(roles)' = Rows(roles) \union {k}
        /\ k \notin Rows(roles) /\ roles'[k] = row /\ \A i \in Rows(roles) : roles'[i] = roles[i]
    BY <1>5, <2>1, <2>3, RowAdded DEF Rows
  <2>5. home' \in [Rows(roles)' -> Nat] /\ home'[k] = k /\ \A i \in Rows(roles) : home'[i] = home[i]
    <3>1. home' = [i \in Rows(roles)' |-> IF i \in Rows(roles) THEN home[i] ELSE i]
      BY <1>2 DEF Rows
    <3> HIDE DEF k
    <3> QED
      BY <1>5, <2>2, <2>4, <3>1
  <2>6. j \in Job \union {NoJob} /\ (j # NoJob => j.do = "keepRole" /\ j.account = a /\ j.name = n)
    BY <1>2, <1>3 DEF Job
  <2>7. ~lost' => j # NoJob /\ ~lost
    <3>1. outcome # "lost" => outcome = "done"
      BY <1>8, AccountsAssumption
    <3>2. outcome = "done" => j \in Job
      BY <1>2, <1>3 DEF Job
    <3> QED
      BY <1>6, <3>1, <3>2, AccountsAssumption
  <2> HIDE DEF j, n, k, a
  <2>8. TypedJobs' /\ job'[w] = j /\ \A x \in Workers \ {w} : job'[x] = job[x]
    <3>1. Rows(accounts) \subseteq Rows(accounts)' /\ byToken \subseteq byToken'
      BY <1>2 DEF Rows
    <3> QED
      BY <1>1, <1>2, <1>4, <2>6, <3>1, JobTurns
  <2>9. Typed'
    <3>1. TypedTables'
      BY <1>1, <1>2, <2>2, <2>4, <2>5 DEF TypedTables
    <3>2. TypedAnswer'
      <4>1. k \in 0..MaxAccounts + MaxRoles
        BY <2>2, AccountsAssumption
      <4> QED
        BY <1>6, <2>1, <4>1 DEF TypedAnswer
    <3>3. TypedMaps' /\ Tokens'
      BY <1>1, <1>2 DEF TypedMaps, Tokens, Rows
    <3>4. TypedCopies'
      <4>1. ASSUME NEW i \in DOMAIN copy PROVE copy[i] \in [row : Values, items : SUBSET Rows(roles)']
        <5>1. copy[i] \in [row : Values, items : SUBSET Rows(roles)]
          BY <1>1 DEF TypedCopies
        <5> QED
          BY <2>4, <5>1
      <4> QED
        BY <1>1, <1>2, <4>1 DEF TypedCopies
    <3>5. TypedRest' /\ Down'
      BY <1>1, <1>2, <1>6 DEF TypedRest, Down
    <3> QED
      BY <2>8, <3>1, <3>2, <3>3, <3>4, <3>5 DEF Typed
  <2>10. ASSUME raced' = 0 PROVE Alone'
    <3>1. raced = 0 /\ Alone /\ Prepared(job[w]) /\ \A x \in Workers \ {w} : ~Busy(x)
      BY <1>2, <1>3, <2>10
    <3>2. n \notin DOMAIN nicks
      BY <1>2, <3>1 DEF Prepared, n
    <3>3. acct[a].id = a /\ \A i \in DOMAIN acct[a].roles : i \in Rows(roles)
      BY <1>4, <3>1 DEF Alone, OwnObjects
    <3>4. PICK J : J = j
      OBVIOUS
    <3>5. OneJob' /\ AllPrepared'
      <4>1. k \in Rows(roles)' /\ k \notin DOMAIN acct[a].roles /\ roles'[k].account = a /\ roles'[k].name = n
        BY <2>3, <2>4, <3>3
      <4>2. J # NoJob => Prepared(J)'
        BY <1>2, <2>1, <2>4, <2>6, <3>2, <3>4, <4>1 DEF Prepared
      <4> QED
        BY <2>8, <3>1, <3>4, <4>2, OnlyOne
    <3>6. OwnRows'
      <4>1. OwnRows
        BY <3>1 DEF Alone
      <4>2. ASSUME NEW i \in Rows(roles)'
            PROVE  roles'[i].of = i /\ home'[i] = i /\ roles'[i].account \in Rows(accounts) /\ (up => roles'[i].account \in byToken)
        <5>1. CASE i = k
          BY <1>4, <1>5, <2>3, <2>4, <2>5, <3>3, <5>1
        <5>2. CASE i \in Rows(roles)
          BY <2>4, <2>5, <4>1, <5>2 DEF OwnRows
        <5> QED
          BY <2>4, <5>1, <5>2
      <4> QED
        BY <1>2, <4>2 DEF OwnRows, Rows
    <3>7. OwnCopies'
      BY <1>2, <2>4, <3>1 DEF Alone, OwnCopies, Value
    <3>8. OwnObjects'
      BY <1>2, <2>4, <3>1 DEF Alone, OwnObjects
    <3>9. Answered'
      <4>1. Answered
        BY <3>1 DEF Alone
      <4>2. ASSUME NEW t \in told, t.what = "role"
            PROVE  \E i \in Rows(roles)' : /\ roles'[i].account = t.row /\ roles'[i].name = t.name
                                           /\ up => i \in DOMAIN acct[t.row].roles
        <5>1. PICK i \in Rows(roles) : /\ roles[i].account = t.row /\ roles[i].name = t.name
                                       /\ up => i \in DOMAIN acct[t.row].roles
          BY <4>1, <4>2 DEF Answered
        <5> QED
          BY <2>4, <5>1
      <4>3. \A t \in told : t.what = "account" =>
               /\ accounts[t.row].name = t.name /\ \A r \in Rows(accounts) : accounts[r].name = t.name => r <= t.row
               /\ up => t.name \in DOMAIN byName /\ byName[t.name] = t.row
        BY <4>1 DEF Answered
      <4>4. Rows(accounts)' = Rows(accounts)
        BY <1>2 DEF Rows
      <4> QED
        BY <1>2, <4>2, <4>3, <4>4 DEF Answered
    <3>10. LoginsOwn' /\ harm' = {}
      BY <1>2, <3>1 DEF Alone, LoginsOwn
    <3> QED
      BY <3>5, <3>6, <3>7, <3>8, <3>9, <3>10 DEF Alone
  <2>11. ASSUME raced' = 0, ~lost' PROVE AccountsKept' /\ RolesKept'
    <3>1. /\ AccountsKept /\ RolesKept /\ j # NoJob
          /\ \A x \in Workers : Busy(x) => job[x].do \notin {"keepAccount", "keepRole"}
      BY <1>1, <1>2, <1>3, <2>7, <2>11
    <3>2. \A r \in Rows(accounts) : r \in byToken
      BY <3>1 DEF AccountsKept
    <3>3. Busy(w)' /\ job'[w].do = "keepRole"
      BY <2>6, <2>8, <3>1 DEF Busy
    <3>4. AccountsKept'
      BY <1>2, <3>1, <3>2 DEF AccountsKept, Rows
    <3>5. \A i \in Rows(roles) : /\ i \in DOMAIN acct[roles[i].account].roles
                                 /\ roles[i].name \in DOMAIN nicks /\ nicks[roles[i].name] <= i
      BY <3>1 DEF RolesKept
    <3>6. RolesKept'
      BY <1>2, <2>4, <3>3, <3>5 DEF RolesKept
    <3> QED
      BY <3>4, <3>6
  <2> QED
    BY <2>9, <2>10, <2>11 DEF AccInv
<1> QED
  BY <1>7, <1>8

\* createRole has put the role into the maps.
LEMMA CreateKeepKeeps ==
  ASSUME AccInv, NEW w \in Workers, CreateKeep(w)
  PROVE  AccInv'
<1> DEFINE n == job[w].name
           a == job[w].account
           k == insertId
           old == acct[a].roles
           new == Keep(old, k, n)
           o == [acct[a] EXCEPT !.roles = new]
           t0 == [what |-> "role", row |-> a, name |-> n]
<1>1. /\ TypedTables /\ TypedAnswer /\ TypedMaps /\ TypedJobs /\ TypedCopies /\ TypedRest /\ Tokens /\ Down
      /\ raced = 0 /\ ~lost /\ up => AccountsKept /\ RolesKept
  BY DEF AccInv, Typed
<1>2. /\ up /\ Busy(w) /\ job[w].do = "keepRole" /\ Does(w, NoJob)
      /\ acct' = [acct EXCEPT ![a] = o] /\ nicks' = Keep(nicks, n, k) /\ told' = told \union {t0}
      /\ UNCHANGED <<accounts, roles, home, insertId, result, byId, byName, byToken, copy, known, up, raced, lost, harm>>
  BY DEF CreateKeep, Busy, tables, answer, history, Tell
<1>3. /\ job[w] \in Job
      /\ raced = 0 => Alone /\ Prepared(job[w]) /\ \A x \in Workers \ {w} : ~Busy(x)
  BY <1>2, AtWork
<1>4. n \in Nicks /\ a \in byToken /\ k \in Nat
  BY <1>1, <1>2, <1>3, AccountsAssumption DEF Job, TypedJobs, TypedAnswer
<1>5. t0.what = "role" /\ t0.row = a /\ t0.name = n
  OBVIOUS
<1>6. MapOf(new, Nat, Nicks)
  <2>1. MapOf(old, Nat, Nicks)
    BY <1>1, <1>4 DEF TypedMaps, IsObject
  <2> QED
    BY <1>4, <2>1, KeepMap
<1> HIDE DEF new, t0
<1>7. IsObject(o) /\ o.id = acct[a].id /\ o.roles = new
  <2>1. acct[a] \in [id : Nat, open : BOOLEAN, roles : {old}]
    BY <1>1, <1>4 DEF TypedMaps, IsObject
  <2> HIDE DEF old
  <2>2. o \in [id : Nat, open : BOOLEAN, roles : {new}] /\ o.roles = new /\ o.id = acct[a].id
    BY <2>1
  <2> HIDE DEF o
  <2> QED
    BY <1>6, <2>2 DEF IsObject
<1> HIDE DEF o
<1>8. DOMAIN acct' = byToken /\ acct'[a] = o /\ \A b \in byToken : b # a => acct'[b] = acct[b]
  BY <1>1, <1>2, <1>4 DEF TypedMaps
<1>9. TypedJobs' /\ job'[w] = NoJob /\ \A x \in Workers \ {w} : job'[x] = job[x]
  <2>1. Rows(accounts) \subseteq Rows(accounts)' /\ byToken \subseteq byToken'
    BY <1>2 DEF Rows
  <2> QED
    BY <1>1, <1>2, <2>1, JobTurns
<1>10. Typed'
  <2>1. TypedTables' /\ TypedAnswer' /\ TypedCopies'
    BY <1>1, <1>2 DEF TypedTables, TypedAnswer, TypedCopies, Rows
  <2>2. TypedMaps'
    <3>1. \A b \in byToken : IsObject(acct'[b])
      BY <1>1, <1>7, <1>8 DEF TypedMaps
    <3>2. MapOf(nicks', Nicks, Nat)
      <4>1. MapOf(nicks, Nicks, Nat)
        BY <1>1 DEF TypedMaps
      <4>2. MapOf(Keep(nicks, n, k), Nicks, Nat)
        BY <1>4, <4>1, KeepMap
      <4> QED
        BY <1>2, <4>2
    <3>3. byToken \subseteq Rows(accounts) /\ MapOf(byId, Nat, byToken) /\ MapOf(byName, Names, byToken)
      BY <1>1 DEF TypedMaps
    <3> QED
      BY <1>2, <1>8, <3>1, <3>2, <3>3 DEF TypedMaps, IsObject, MapOf, Rows
  <2>3. TypedRest' /\ Down'
    BY <1>1, <1>2 DEF TypedRest, Down
  <2>4. Tokens'
    BY <1>1, <1>2, <1>5 DEF Tokens, Rows
  <2> QED
    BY <1>9, <2>1, <2>2, <2>3, <2>4 DEF Typed
<1>11. ASSUME raced = 0
       PROVE  /\ Alone /\ \A x \in Workers \ {w} : ~Busy(x)
              /\ k = Len(roles) /\ k \in Rows(roles) /\ k \notin DOMAIN old /\ n \notin DOMAIN nicks
              /\ roles[k].account = a /\ roles[k].name = n
              /\ DOMAIN new = DOMAIN old \union {k} /\ new[k] = n /\ \A x \in DOMAIN old : new[x] = old[x]
              /\ DOMAIN nicks' = DOMAIN nicks \union {n} /\ nicks'[n] = k /\ \A m \in DOMAIN nicks : nicks'[m] = nicks[m]
  <2>1. Alone /\ Prepared(job[w]) /\ \A x \in Workers \ {w} : ~Busy(x)
    BY <1>3, <1>11
  <2>2. /\ k = Len(roles) /\ k \in Rows(roles) /\ k \notin DOMAIN old /\ n \notin DOMAIN nicks
        /\ roles[k].account = a /\ roles[k].name = n
    BY <1>2, <2>1 DEF Prepared
  <2>3. new = Put(old, k, n) /\ nicks' = Put(nicks, n, k)
    BY <1>2, <2>2 DEF new, Keep
  <2> HIDE DEF old, k, n
  <2>4. DOMAIN new = DOMAIN old \union {k} /\ new[k] = n /\ \A x \in DOMAIN old : x # k => new[x] = old[x]
    BY <2>3 DEF Put
  <2>5. /\ DOMAIN nicks' = DOMAIN nicks \union {n} /\ nicks'[n] = k
        /\ \A m \in DOMAIN nicks : m # n => nicks'[m] = nicks[m]
    BY <2>3 DEF Put
  <2>6. (\A x \in DOMAIN old : x # k) /\ \A m \in DOMAIN nicks : m # n
    BY <2>2
  <2> QED
    BY <2>1, <2>2, <2>4, <2>5, <2>6
<1>12. ASSUME raced' = 0 PROVE Alone'
  <2>1. raced = 0 /\ Alone
    BY <1>2, <1>11, <1>12
  <2>2. OneJob' /\ AllPrepared'
    BY <1>9, <1>11, <2>1, OnlyOne
  <2>3. OwnRows' /\ OwnCopies' /\ LoginsOwn' /\ harm' = {}
    BY <1>2, <2>1 DEF Alone, OwnRows, OwnCopies, LoginsOwn, Rows, Value
  <2>4. OwnObjects'
    <3>1. OwnObjects
      BY <2>1 DEF Alone
    <3>2. \A b \in byToken : acct'[b].id = acct[b].id
      BY <1>7, <1>8
    <3>3. \A i \in DOMAIN new : i \in Rows(roles) /\ roles[i].account = a /\ roles[i].name = new[i]
      BY <1>4, <1>11, <2>1, <3>1 DEF OwnObjects
    <3>4. ASSUME NEW b \in byToken, NEW i \in DOMAIN acct'[b].roles
          PROVE  i \in Rows(roles) /\ roles[i].account = b /\ roles[i].name = acct'[b].roles[i]
      <4>1. CASE b = a
        BY <1>7, <1>8, <3>3, <4>1
      <4>2. CASE b # a
        BY <1>8, <3>1, <4>2 DEF OwnObjects
      <4> QED
        BY <4>1, <4>2
    <3>5. \A m \in DOMAIN nicks' : nicks'[m] \in Rows(roles) /\ roles[nicks'[m]].name = m
      BY <1>11, <2>1, <3>1 DEF OwnObjects
    <3> HIDE DEF k, n, a, old
    <3> QED
      BY <1>2, <3>1, <3>2, <3>4, <3>5 DEF OwnObjects, Rows
  <2>5. Answered'
    <3>1. Answered
      BY <2>1 DEF Alone
    <3>2. \A b : DOMAIN acct[b].roles \subseteq DOMAIN acct'[b].roles \/ b \notin byToken
      BY <1>7, <1>8, <1>11, <2>1
    <3>3. ASSUME NEW t \in told', t.what = "role"
          PROVE  \E i \in Rows(roles) : /\ roles[i].account = t.row /\ roles[i].name = t.name
                                        /\ i \in DOMAIN acct'[t.row].roles
      <4>1. CASE t = t0
        BY <1>5, <1>7, <1>8, <1>11, <2>1, <4>1
      <4>2. CASE t \in told
        <5>1. PICK i \in Rows(roles) : /\ roles[i].account = t.row /\ roles[i].name = t.name
                                       /\ i \in DOMAIN acct[t.row].roles
          BY <1>2, <3>1, <3>3, <4>2 DEF Answered
        <5>2. t.row \in byToken
          BY <1>2, <2>1, <5>1 DEF Alone, OwnRows
        <5> QED
          BY <3>2, <5>1, <5>2
      <4> QED
        BY <1>2, <4>1, <4>2
    <3>4. ASSUME NEW t \in told', t.what = "account"
          PROVE  /\ accounts[t.row].name = t.name
                 /\ \A r \in Rows(accounts) : accounts[r].name = t.name => r <= t.row
                 /\ t.name \in DOMAIN byName /\ byName[t.name] = t.row
      <4>1. t \in told
        BY <1>2, <1>5, <3>4
      <4> QED
        BY <1>2, <3>1, <3>4, <4>1 DEF Answered
    <3> QED
      BY <1>2, <3>3, <3>4 DEF Answered, Rows
  <2> QED
    BY <2>2, <2>3, <2>4, <2>5 DEF Alone
<1>13. ASSUME raced' = 0, ~lost' PROVE AccountsKept' /\ RolesKept'
  <2>1. AccountsKept /\ RolesKept /\ raced = 0
    BY <1>1, <1>2, <1>13
  <2>2. \A r \in Rows(accounts) : r \in byToken
    BY <1>2, <1>11, <2>1 DEF AccountsKept
  <2>3. AccountsKept'
    BY <1>2, <2>1, <2>2 DEF AccountsKept, Rows
  <2>4. ASSUME NEW i \in Rows(roles)
        PROVE  /\ i \in DOMAIN acct'[roles[i].account].roles
               /\ roles[i].name \in DOMAIN nicks' /\ nicks'[roles[i].name] <= i
    <3>1. CASE i = k
      BY <1>4, <1>7, <1>8, <1>11, <2>1, <3>1
    <3>2. CASE i # k
      <4>1. /\ i \in DOMAIN acct[roles[i].account].roles
            /\ roles[i].name \in DOMAIN nicks /\ nicks[roles[i].name] <= i
        BY <1>11, <2>1, <3>2 DEF RolesKept
      <4>2. i \in DOMAIN acct'[roles[i].account].roles
        <5>1. roles[i].account \in byToken
          BY <1>2, <1>11, <2>1 DEF Alone, OwnRows
        <5> QED
          BY <1>7, <1>8, <1>11, <2>1, <4>1, <5>1
      <4> QED
        BY <1>11, <2>1, <4>1, <4>2
    <3> QED
      BY <3>1, <3>2
  <2>5. RolesKept'
    BY <1>2, <2>4 DEF RolesKept, Rows
  <2> QED
    BY <2>3, <2>5
<1> QED
  BY <1>2, <1>10, <1>12, <1>13 DEF AccInv

-----------------------------------------------------------------------------
(* Logins, the choice of a role, and what is saved of it.                  *)

\* Login and AutoLogin give the client the id of its account.
LEMMA LoginKeeps ==
  ASSUME AccInv, NEW r \in byToken, LoggedIn(r)
  PROVE  AccInv'
<1> DEFINE k == [row |-> r, id |-> acct[r].id]
<1>1. /\ up /\ known' = known \union {k}
      /\ UNCHANGED <<accounts, roles, home, insertId, result, acct, byId, byName, byToken, nicks, copy, job, up, told,
                     raced, lost, harm>>
  BY DEF LoggedIn, tables, answer, maps, history
<1>2. k.row = r /\ k.id = acct[r].id
  OBVIOUS
<1> HIDE DEF k
<1>3. /\ TypedTables /\ TypedAnswer /\ TypedMaps /\ TypedJobs /\ TypedCopies /\ TypedRest /\ Tokens /\ Down
      /\ raced = 0 /\ ~lost /\ up => AccountsKept /\ RolesKept
  BY DEF AccInv, Typed
<1>4. TypedTables' /\ TypedAnswer' /\ TypedMaps' /\ TypedJobs' /\ TypedCopies' /\ TypedRest' /\ Down'
  BY <1>1, <1>3 DEF TypedTables, TypedAnswer, TypedMaps, TypedJobs, TypedCopies, TypedRest, Down, Rows, Busy
<1>5. Tokens'
  BY <1>1, <1>2, <1>3 DEF Tokens, TypedMaps, Rows
<1>6. ASSUME raced' = 0 PROVE Alone'
  <2>1. Alone
    BY <1>1, <1>6 DEF AccInv
  <2>2. OneJob' /\ OwnRows' /\ OwnCopies' /\ harm' = {}
    BY <1>1, <2>1 DEF Alone, OneJob, OwnRows, OwnCopies, Rows, Value, Busy
  <2>3. AllPrepared'
    BY <1>1, <2>1 DEF Alone, AllPrepared, Prepared, Rows, Value, Busy
  <2>4. LoginsOwn'
    BY <1>1, <1>2, <2>1 DEF Alone, LoginsOwn, OwnObjects
  <2>5. OwnObjects' /\ Answered'
    BY <1>1, <2>1 DEF Alone, OwnObjects, Answered, Rows
  <2> QED
    BY <2>2, <2>3, <2>4, <2>5 DEF Alone
<1>7. ASSUME raced' = 0, ~lost' PROVE AccountsKept' /\ RolesKept'
  BY <1>1, <1>3, <1>7 DEF AccountsKept, RolesKept, Rows, Busy
<1> QED
  BY <1>4, <1>5, <1>6, <1>7 DEF AccInv, Typed

\* The process ends; the tables stay, and what the clients know.
LEMMA ForgetKeeps ==
  ASSUME AccInv, Forget, ~up', up' \in BOOLEAN,
         UNCHANGED <<accounts, roles, home, known, told, raced, lost>>, raced = 0 => harm' = {}
  PROVE  AccInv'
<1>1. /\ acct' = Nothing /\ byId' = Nothing /\ byName' = Nothing /\ byToken' = {} /\ nicks' = Nothing
      /\ copy' = Nothing /\ job' = [w \in Workers |-> NoJob] /\ insertId' = 0 /\ result' = NoRows
  BY DEF Forget
<1>2. DOMAIN Nothing = {} /\ \A S, T : MapOf(Nothing, S, T)
  BY NoMap
<1>3. TypedTables /\ TypedRest /\ Tokens
  BY DEF AccInv, Typed
<1>4. \A w \in Workers : ~Busy(w)'
  BY <1>1 DEF Busy
<1>5. Typed'
  <2>1. TypedTables' /\ TypedRest' /\ Tokens'
    BY <1>1, <1>3 DEF TypedTables, TypedRest, Tokens, Rows
  <2>2. TypedAnswer'
    BY <1>1, AccountsAssumption DEF TypedAnswer
  <2>3. TypedMaps'
    BY <1>1, <1>2 DEF TypedMaps
  <2>4. TypedJobs'
    BY <1>1, <1>4 DEF TypedJobs
  <2>5. TypedCopies' /\ Down'
    BY <1>1, <1>2, <1>4 DEF TypedCopies, Down
  <2> QED
    BY <2>1, <2>2, <2>3, <2>4, <2>5 DEF Typed
<1>6. ASSUME raced' = 0 PROVE Alone'
  <2>1. Alone
    BY <1>6 DEF AccInv
  <2>2. OneJob' /\ AllPrepared'
    BY <1>4 DEF OneJob, AllPrepared
  <2>3. OwnRows' /\ LoginsOwn'
    BY <2>1 DEF Alone, OwnRows, LoginsOwn, Rows
  <2>4. OwnCopies'
    BY <1>1, <1>2 DEF OwnCopies
  <2>5. OwnObjects'
    BY <1>1, <1>2 DEF OwnObjects
  <2>6. Answered'
    BY <2>1 DEF Alone, Answered, Rows
  <2> QED
    BY <1>6, <2>2, <2>3, <2>4, <2>5, <2>6 DEF Alone
<1> QED
  BY <1>5, <1>6 DEF AccInv

\* doLoadRoles finds the account of the client, as long as nobody races.
LEMMA LoadRolesKeeps ==
  ASSUME AccInv, NEW k \in known, LoadRoles(k)
  PROVE  AccInv'
<1>1. up /\ UNCHANGED <<accounts, roles, home, known, told, raced, lost>>
  BY DEF LoadRoles, tables, client
<1>2. ASSUME raced = 0
      PROVE  k.id \in DOMAIN byId /\ byId[k.id] = k.row /\ harm = {}
  <2>1. Alone /\ Tokens
    BY <1>2 DEF AccInv, Typed
  <2>2. k.id = k.row /\ k.row \in byToken
    BY <1>1, <2>1 DEF Alone, LoginsOwn, Tokens
  <2> QED
    BY <2>1, <2>2 DEF Alone, OwnObjects
<1>3. CASE k.id \notin DOMAIN byId /\ Kill
  <2>1. Forget /\ ~up' /\ up' \in BOOLEAN
    BY <1>3 DEF Kill
  <2> QED
    BY <1>1, <1>2, <1>3, <2>1, ForgetKeeps
<1>4. CASE /\ k.id \in DOMAIN byId /\ Hurts(IF byId[k.id] = k.row THEN {} ELSE {"misled"})
           /\ UNCHANGED <<answer, maps, copy, job, up>>
  <2>1. UNCHANGED <<accounts, roles, home, insertId, result, acct, byId, byName, byToken, nicks, copy, known, job, up,
                    told, raced, lost>>
    BY <1>1, <1>4 DEF answer, maps
  <2>2. raced = 0 => harm' = {}
    BY <1>2, <1>4 DEF Hurts
  <2>3. /\ TypedTables /\ TypedAnswer /\ TypedMaps /\ TypedJobs /\ TypedCopies /\ TypedRest /\ Tokens /\ Down
        /\ raced = 0 /\ ~lost /\ up => AccountsKept /\ RolesKept
    BY DEF AccInv, Typed
  <2>4. TypedTables' /\ TypedAnswer' /\ TypedMaps' /\ TypedJobs' /\ TypedCopies' /\ TypedRest' /\ Tokens' /\ Down'
    BY <2>1, <2>3
       DEF TypedTables, TypedAnswer, TypedMaps, TypedJobs, TypedCopies, TypedRest, Tokens, Down, Rows, Busy
  <2>5. ASSUME raced' = 0 PROVE Alone'
    <3>1. Alone
      BY <2>1, <2>5 DEF AccInv
    <3>2. OneJob' /\ OwnRows' /\ OwnCopies' /\ LoginsOwn'
      BY <2>1, <3>1 DEF Alone, OneJob, OwnRows, OwnCopies, LoginsOwn, Rows, Value, Busy
    <3>3. AllPrepared'
      BY <2>1, <3>1 DEF Alone, AllPrepared, Prepared, Rows, Value, Busy
    <3>4. OwnObjects' /\ Answered'
      BY <2>1, <3>1 DEF Alone, OwnObjects, Answered, Rows
    <3> QED
      BY <2>1, <2>2, <2>5, <3>2, <3>3, <3>4 DEF Alone
  <2>6. ASSUME raced' = 0, ~lost' PROVE AccountsKept' /\ RolesKept'
    BY <1>1, <2>1, <2>3, <2>6 DEF AccountsKept, RolesKept, Rows, Busy
  <2> QED
    BY <2>4, <2>5, <2>6 DEF AccInv, Typed
<1> QED
  BY <1>3, <1>4 DEF LoadRoles

\* Role::loadFromDB has read its row, and the items are selected.
LEMMA ReadRoleKeeps ==
  ASSUME AccInv, NEW w \in Workers, ReadRole(w)
  PROVE  AccInv'
<1> DEFINE i == job[w].role
           items == {x \in Rows(roles) : home[x] = i}
           j == [do |-> "readItems", role |-> i, values |-> result.row]
<1>1. /\ TypedTables /\ TypedAnswer /\ TypedJobs /\ TypedCopies /\ TypedRest
      /\ up /\ Busy(w) /\ job[w].do = "readRole"
      /\ UNCHANGED <<accounts, roles, home, known, told, raced, lost>>
  BY DEF ReadRole, AccInv, Typed, Busy, tables, client
<1>2. /\ job[w] \in Job
      /\ raced = 0 => Alone /\ Prepared(job[w]) /\ \A x \in Workers \ {w} : ~Busy(x)
  BY <1>1, AtWork
<1>3. ASSUME raced = 0
      PROVE  Alone /\ i \in Rows(roles) /\ result = [select |-> "role", row |-> Value(i)]
  BY <1>1, <1>2, <1>3 DEF Prepared
<1>4. CASE result.select # "role" /\ Kill
  <2>1. Forget /\ ~up' /\ up' \in BOOLEAN
    BY <1>4 DEF Kill
  <2>2. raced # 0
    BY <1>3, <1>4
  <2> QED
    BY <1>1, <2>1, <2>2, ForgetKeeps
<1>5. CASE result.select = "role"
  <2>1. /\ insertId' = 0 /\ result' = [select |-> "items", items |-> items] /\ Does(w, j)
        /\ UNCHANGED <<acct, byId, byName, byToken, nicks, copy, up, harm>>
    <3>1. DOMAIN home = Rows(roles)
      BY <1>1 DEF TypedTables
    <3> QED
      BY <1>5, <3>1 DEF ReadRole, Execute, maps
  <2>2. i \in Nat /\ result.row \in Values
    <3>1. i \in Nat
      BY <1>1, <1>2 DEF Job
    <3>2. result.row \in Values
      BY <1>1, <1>5 DEF TypedAnswer, NoRows
    <3> QED
      BY <3>1, <3>2
  <2>3. j \in Job /\ j.do = "readItems" /\ j.role = i /\ j.values = result.row
    BY <2>2 DEF Job
  <2> HIDE DEF j, i
  <2>8. PICK I, J : I = i /\ J = j
    OBVIOUS
  <2>4. TypedAnswer'
    <3>1. items \subseteq Rows(roles)'
      BY <1>1 DEF Rows
    <3>2. 0 \in 0..MaxAccounts + MaxRoles
      BY AccountsAssumption
    <3> HIDE DEF items
    <3> QED
      BY <2>1, <3>1, <3>2 DEF TypedAnswer
  <2>5. TypedCopies' /\ (raced = 0 => OwnCopies')
    BY <1>1, <1>3, <2>1 DEF TypedCopies, OwnCopies, Alone, Rows, Value
  <2>6. ASSUME raced = 0 PROVE Prepared(J)'
    <3>1. items = {i}
      BY <1>3, <2>6 DEF Alone, OwnRows
    <3>2. result.row = Value(I) /\ I \in Rows(roles)
      BY <1>3, <2>6, <2>8
    <3>3. Value(I)' = Value(I) /\ Rows(roles)' = Rows(roles)
      BY <1>1 DEF Value, Rows
    <3>4. result' = [select |-> "items", items |-> {I}] /\ J.do = "readItems" /\ J.role = I /\ J.values = result.row
      BY <2>1, <2>3, <2>8, <3>1
    <3> QED
      BY <3>2, <3>3, <3>4 DEF Prepared
  <2>7. lost' \in BOOLEAN /\ (~lost' => ~lost)
    BY <1>1 DEF TypedRest
  <2> QED
    BY <1>1, <2>1, <2>3, <2>4, <2>5, <2>6, <2>7, <2>8, QuietStepKeeps
<1> QED
  BY <1>4, <1>5 DEF ReadRole

\* ItemBag::loadFromDB has read its rows, and the role is with its session.
LEMMA ReadItemsKeeps ==
  ASSUME AccInv, NEW w \in Workers, ReadItems(w)
  PROVE  AccInv'
<1> DEFINE i == job[w].role
           items == IF result.select = "items" THEN result.items ELSE {}
           c == [row |-> job[w].values, items |-> items]
<1>1. /\ TypedTables /\ TypedAnswer /\ TypedJobs /\ TypedCopies /\ TypedRest
      /\ up /\ Busy(w) /\ job[w].do = "readItems" /\ Does(w, NoJob)
      /\ copy' = Put(copy, i, c) /\ insertId' = 0 /\ result' = NoRows
      /\ UNCHANGED <<accounts, roles, home, acct, byId, byName, byToken, nicks, known, told, up, raced, lost, harm>>
  BY DEF ReadItems, Execute, AccInv, Typed, Busy, tables, maps, client, history
<1>2. /\ job[w] \in Job
      /\ raced = 0 => Alone /\ Prepared(job[w]) /\ \A x \in Workers \ {w} : ~Busy(x)
  BY <1>1, AtWork
<1>3. i \in Nat /\ job[w].values \in Values
  BY <1>1, <1>2 DEF Job
<1>4. items \subseteq Rows(roles)
  BY <1>1 DEF TypedAnswer, NoRows
<1>5. c \in [row : Values, items : SUBSET Rows(roles)] /\ c.row = job[w].values /\ c.items = items
  BY <1>3, <1>4
<1>6. DOMAIN copy' = DOMAIN copy \union {i} /\ copy'[i] = c /\ \A x \in DOMAIN copy : x # i => copy'[x] = copy[x]
  BY <1>1 DEF Put
<1>7. ASSUME raced = 0 PROVE i \in Rows(roles) /\ c.row = Value(i) /\ c.items = {i}
  <2>1. i \in Rows(roles) /\ job[w].values = Value(i) /\ result = [select |-> "items", items |-> {i}]
    BY <1>1, <1>2, <1>7 DEF Prepared
  <2> QED
    BY <1>5, <2>1
<1> HIDE DEF c, i, items
<1>8. TypedCopies'
  <2>1. Rows(roles)' = Rows(roles)
    BY <1>1 DEF Rows
  <2>2. \A x \in DOMAIN copy' : copy'[x] \in [row : Values, items : SUBSET Rows(roles)]
    BY <1>1, <1>5, <1>6 DEF TypedCopies
  <2> QED
    BY <1>1, <1>3, <1>6, <2>1, <2>2 DEF TypedCopies
<1>9. raced = 0 => OwnCopies'
  BY <1>1, <1>2, <1>6, <1>7 DEF Alone, OwnCopies, Rows, Value
<1>10. TypedAnswer'
  BY <1>1, AccountsAssumption DEF TypedAnswer
<1>11. lost' \in BOOLEAN /\ (~lost' => ~lost)
  BY <1>1 DEF TypedRest
<1> QED
  BY <1>1, <1>8, <1>9, <1>10, <1>11, QuietStepKeeps


\* Role::flushToDB and Item::flushToDB write what the session has read, and as
\* long as nobody races that is what the tables hold.
LEMMA SaveKeeps ==
  ASSUME AccInv, NEW w \in Workers, NEW i \in DOMAIN copy, Save(w, i)
  PROVE  AccInv'
<1> DEFINE row(j) == IF j = i THEN [roles[j] EXCEPT !.name = copy[i].row.name, !.of = copy[i].row.of] ELSE roles[j]
           at(j) == IF j \in copy[i].items THEN i ELSE home[j]
<1>1. /\ up /\ ~Busy(w) /\ insertId' = 0 /\ result' = NoRows
      /\ roles' = [j \in DOMAIN roles |-> row(j)] /\ home' = [j \in DOMAIN home |-> at(j)]
      /\ Hurts(IF roles' # roles \/ home' # home THEN {"mixed"} ELSE {}) /\ Races(w)
      /\ UNCHANGED <<accounts, acct, byId, byName, byToken, nicks, copy, known, told, job, up, lost>>
  BY DEF Save, Execute, Busy, maps, client
<1>2. /\ TypedTables /\ TypedAnswer /\ TypedMaps /\ TypedJobs /\ TypedCopies /\ TypedRest /\ Tokens /\ Down
      /\ raced = 0 => Alone
      /\ raced = 0 /\ ~lost /\ up => AccountsKept /\ RolesKept
  BY DEF AccInv, Typed
<1>3. raced' \in 0..MaxRaces /\ (raced' = 0 => raced = 0 /\ \A x \in Workers \ {w} : ~Busy(x))
  BY <1>1, <1>2, StartsAlone
<1>4. i \in Nat /\ copy[i].row \in Values /\ copy[i].items \subseteq Rows(roles)
  BY <1>2 DEF TypedCopies
<1>5. copy[i].row.name \in Nicks /\ copy[i].row.of \in Nat
  BY <1>4 DEF Values
<1>6. \A j \in DOMAIN roles : row(j) \in Role
  <2>1. \A j \in DOMAIN roles : roles[j] \in Role
    BY <1>2, RowNumbers DEF TypedTables, Rows
  <2> QED
    BY <1>5, <2>1 DEF Role
<1>7. DOMAIN home = Rows(roles) /\ \A j \in DOMAIN home : at(j) \in Nat
  BY <1>2, <1>4 DEF TypedTables
<1>8. ASSUME raced' = 0 PROVE roles' = roles /\ home' = home
  <2>1. Alone
    BY <1>2, <1>3, <1>8
  <2>2. i \in Rows(roles) /\ copy[i].row = Value(i) /\ copy[i].items \subseteq {i}
    BY <2>1 DEF Alone, OwnCopies
  <2>3. \A j \in DOMAIN home : at(j) = home[j]
    BY <1>7, <2>1, <2>2 DEF Alone, OwnRows
  <2>4. \A j \in DOMAIN roles : roles[j] \in Role
    BY <1>2, RowNumbers DEF TypedTables, Rows
  <2>5. \A j \in DOMAIN roles : row(j) = roles[j]
    <3>1. copy[i].row.name = roles[i].name /\ copy[i].row.of = roles[i].of
      BY <2>2 DEF Value
    <3>2. ASSUME NEW r \in Role PROVE [r EXCEPT !.name = r.name, !.of = r.of] = r
      BY DEF Role
    <3>3. i \in DOMAIN roles
      BY <2>2 DEF Rows
    <3>4. row(i) = roles[i]
      BY <2>4, <3>1, <3>2, <3>3
    <3> QED
      BY <3>4
  <2>6. roles \in [DOMAIN roles -> Role] /\ home \in [DOMAIN home -> Nat]
    BY <1>2, <2>4 DEF TypedTables
  <2> HIDE DEF row, at
  <2> QED
    BY <1>1, <2>3, <2>5, <2>6
<1> HIDE DEF row, at
<1>9. roles' \in Seq(Role) /\ Len(roles') = Len(roles) /\ Rows(roles)' = Rows(roles)
  <2>1. roles \in Seq(Role)
    BY <1>2 DEF TypedTables
  <2>2. DOMAIN roles = 1..Len(roles) /\ Len(roles) \in Nat
    BY <2>1
  <2>3. roles' \in [1..Len(roles) -> Role]
    BY <1>1, <1>6, <2>2
  <2>4. roles' \in Seq(Role) /\ Len(roles') = Len(roles) /\ DOMAIN roles' = DOMAIN roles
    BY <2>2, <2>3
  <2> QED
    BY <2>4 DEF Rows
<1>10. home' \in [Rows(roles) -> Nat]
  BY <1>1, <1>7
<1>11. Typed'
  <2>1. TypedTables'
    BY <1>1, <1>2, <1>9, <1>10 DEF TypedTables
  <2>2. TypedAnswer'
    BY <1>1, AccountsAssumption DEF TypedAnswer
  <2>3. TypedMaps' /\ TypedJobs' /\ TypedCopies' /\ Tokens' /\ Down'
    <3>1. Rows(accounts)' = Rows(accounts)
      BY <1>1 DEF Rows
    <3> QED
      BY <1>1, <1>2, <1>9, <3>1 DEF TypedMaps, TypedJobs, TypedCopies, Tokens, Down, Busy
  <2>4. TypedRest'
    BY <1>1, <1>2, <1>3 DEF TypedRest
  <2> QED
    BY <2>1, <2>2, <2>3, <2>4 DEF Typed
<1>12. ASSUME raced' = 0 PROVE Alone'
  <2>1. Alone /\ roles' = roles /\ home' = home /\ raced = 0 /\ \A x \in Workers : ~Busy(x)
    BY <1>1, <1>2, <1>3, <1>8, <1>12
  <2>2. harm' = {}
    BY <1>1, <2>1 DEF Hurts, Alone
  <2>3. OwnRows' /\ OwnCopies' /\ LoginsOwn'
    BY <1>1, <2>1 DEF Alone, OwnRows, OwnCopies, LoginsOwn, Rows, Value
  <2>4. OneJob' /\ AllPrepared'
    BY <1>1, <2>1 DEF OneJob, AllPrepared, Busy
  <2>5. OwnObjects' /\ Answered'
    BY <1>1, <2>1 DEF Alone, OwnObjects, Answered, Rows
  <2> QED
    BY <2>2, <2>3, <2>4, <2>5 DEF Alone
<1>13. ASSUME raced' = 0, ~lost' PROVE AccountsKept' /\ RolesKept'
  <2>1. AccountsKept /\ RolesKept /\ roles' = roles
    BY <1>1, <1>2, <1>3, <1>8, <1>13
  <2> QED
    BY <1>1, <2>1 DEF AccountsKept, RolesKept, Rows, Busy
<1> QED
  BY <1>11, <1>12, <1>13 DEF AccInv

-----------------------------------------------------------------------------
(* Death and start of the process.                                         *)

\* The process dies.
LEMMA DieKeeps ==
  ASSUME AccInv, Die
  PROVE  AccInv'
<1>1. /\ Forget /\ ~up' /\ up' \in BOOLEAN /\ harm' = harm
      /\ UNCHANGED <<accounts, roles, home, known, told, raced, lost>>
  BY DEF Die, tables, client, history
<1>2. raced = 0 => harm = {}
  BY DEF AccInv, Alone
<1> QED
  BY <1>1, <1>2, ForgetKeeps


\* loadFromDB makes an account with its roles of every row of accounts.
LEMMA LoadsObjects ==
  ASSUME TypedTables
  PROVE  /\ DOMAIN LoadedAcct = Rows(accounts) /\ \A r \in Rows(accounts) : IsObject(LoadedAcct[r])
         /\ \A r \in Rows(accounts) : LoadedAcct[r].id = r /\ LoadedAcct[r].roles = [i \in Owned(r) |-> roles[i].name]
         /\ MapOf(LoadedById, Nat, Rows(accounts)) /\ DOMAIN LoadedById = Rows(accounts)
         /\ \A r \in Rows(accounts) : LoadedById[r] = r
<1> DEFINE own(r) == [i \in Owned(r) |-> roles[i].name]
           o(r) == [id |-> r, open |-> FALSE, roles |-> own(r)]
<1>1. Rows(accounts) \subseteq Nat /\ Rows(roles) \subseteq Nat
  BY RowNumbers DEF TypedTables
<1>2. \A i \in Rows(roles) : roles[i].name \in Nicks
  <2>1. \A i \in Rows(roles) : roles[i] \in Role
    BY RowNumbers DEF TypedTables
  <2> QED
    BY <2>1 DEF Role
<1>3. ASSUME NEW r \in Rows(accounts) PROVE MapOf(own(r), Nat, Nicks)
  <2>1. Owned(r) \subseteq Rows(roles)
    BY DEF Owned
  <2> QED
    BY <1>1, <1>2, <2>1 DEF MapOf
<1> HIDE DEF own
<1>4. LoadedAcct = [r \in Rows(accounts) |-> o(r)]
  BY DEF LoadedAcct, own
<1>5. ASSUME NEW r \in Rows(accounts) PROVE IsObject(o(r)) /\ o(r).id = r /\ o(r).roles = own(r)
  <2>1. o(r).id = r /\ o(r).roles = own(r) /\ o(r) \in [id : Nat, open : BOOLEAN, roles : {own(r)}]
    BY <1>1
  <2> HIDE DEF o
  <2> QED
    BY <1>3, <2>1 DEF IsObject
<1> HIDE DEF o
<1>6. DOMAIN LoadedAcct = Rows(accounts) /\ \A r \in Rows(accounts) : LoadedAcct[r] = o(r)
  BY <1>4
<1>7. MapOf(LoadedById, Nat, Rows(accounts)) /\ DOMAIN LoadedById = Rows(accounts)
      /\ \A r \in Rows(accounts) : LoadedById[r] = r
  BY <1>1 DEF LoadedById, MapOf
<1> QED
  BY <1>5, <1>6, <1>7 DEF own

\* The name of a row leads to the last row that has it.
LEMMA LoadsNames ==
  ASSUME TypedTables
  PROVE  /\ MapOf(LoadedByName, Names, Rows(accounts))
         /\ \A n \in DOMAIN LoadedByName : accounts[LoadedByName[n]].name = n
         /\ \A r \in Rows(accounts) : accounts[r].name \in DOMAIN LoadedByName /\ r <= LoadedByName[accounts[r].name]
<1> DEFINE at(n) == {r \in Rows(accounts) : accounts[r].name = n}
           D == {accounts[r].name : r \in Rows(accounts)}
<1>1. /\ Len(accounts) \in Nat /\ Rows(accounts) = 1..Len(accounts)
      /\ \A r \in Rows(accounts) : accounts[r] \in Account
  BY RowNumbers DEF TypedTables
<1>2. D \subseteq Names
  BY <1>1 DEF Account
<1>3. ASSUME NEW n \in D PROVE Max(at(n)) \in at(n) /\ \A r \in at(n) : r <= Max(at(n))
  <2>1. at(n) # {} /\ at(n) \subseteq Nat /\ \A r \in at(n) : r <= Len(accounts)
    BY <1>1
  <2> HIDE DEF at
  <2> QED
    BY <1>1, <2>1, MaxIsGreatest
<1>4. LoadedByName = [n \in D |-> Max(at(n))]
  BY DEF LoadedByName
<1>5. \A n \in D : at(n) \subseteq Rows(accounts)
  OBVIOUS
<1>6. MapOf(LoadedByName, Names, Rows(accounts))
  <2> HIDE DEF at, D
  <2> QED
    BY <1>2, <1>3, <1>4, <1>5 DEF MapOf
<1>7. \A n \in D : LoadedByName[n] \in at(n) /\ \A r \in at(n) : r <= LoadedByName[n]
  <2> HIDE DEF at, D
  <2> QED
    BY <1>3, <1>4
<1>8. DOMAIN LoadedByName = D
  BY <1>4
<1> QED
  BY <1>6, <1>7, <1>8

\* The nick of a role whose account has a row leads to the first row that has it.
LEMMA LoadsNicks ==
  ASSUME TypedTables
  PROVE  /\ MapOf(LoadedNicks, Nicks, Nat)
         /\ \A n \in DOMAIN LoadedNicks : LoadedNicks[n] \in Rows(roles) /\ roles[LoadedNicks[n]].name = n
         /\ \A i \in Housed : roles[i].name \in DOMAIN LoadedNicks /\ LoadedNicks[roles[i].name] <= i
<1> DEFINE at(n) == {i \in Housed : roles[i].name = n}
           D == {roles[i].name : i \in Housed}
<1>1. Rows(roles) \subseteq Nat /\ \A i \in Rows(roles) : roles[i] \in Role
  BY RowNumbers DEF TypedTables
<1>2. Housed \subseteq Rows(roles)
  BY DEF Housed
<1>3. D \subseteq Nicks
  BY <1>1, <1>2 DEF Role
<1>4. ASSUME NEW n \in D PROVE Min(at(n)) \in at(n) /\ \A i \in at(n) : Min(at(n)) <= i
  <2>1. at(n) # {} /\ at(n) \subseteq Nat
    BY <1>1, <1>2
  <2> HIDE DEF at
  <2> QED
    BY <2>1, MinIsLeast
<1>5. LoadedNicks = [n \in D |-> Min(at(n))]
  BY DEF LoadedNicks
<1>6. \A n \in D : at(n) \subseteq Nat
  BY <1>1, <1>2
<1>7. MapOf(LoadedNicks, Nicks, Nat)
  <2> HIDE DEF at, D
  <2> QED
    BY <1>3, <1>4, <1>5, <1>6 DEF MapOf
<1>8. \A n \in D : LoadedNicks[n] \in at(n) /\ \A i \in at(n) : LoadedNicks[n] <= i
  <2> HIDE DEF at, D
  <2> QED
    BY <1>4, <1>5
<1>9. DOMAIN LoadedNicks = D
  BY <1>5
<1> QED
  BY <1>2, <1>7, <1>8, <1>9


\* The process starts and loads the tables.
LEMMA RestartKeeps ==
  ASSUME AccInv, Restart
  PROVE  AccInv'
<1>1. /\ ~up /\ up' = TRUE /\ acct' = LoadedAcct /\ byId' = LoadedById /\ byName' = LoadedByName
      /\ byToken' = Rows(accounts) /\ nicks' = LoadedNicks /\ lost' = FALSE
      /\ UNCHANGED <<accounts, roles, home, insertId, result, copy, known, told, job, raced, harm>>
  BY DEF Restart, tables, answer, client
<1>2. /\ TypedTables /\ TypedAnswer /\ TypedRest /\ Tokens /\ Down /\ (raced = 0 => Alone)
      /\ job \in [Workers -> Job \union {NoJob}]
  BY DEF AccInv, Typed, TypedJobs
<1>3. DOMAIN copy' = {} /\ \A w \in Workers : ~Busy(w)'
  BY <1>1, <1>2 DEF Down, Busy
<1>4. Rows(accounts)' = Rows(accounts) /\ Rows(roles)' = Rows(roles)
  BY <1>1 DEF Rows
<1>5. /\ DOMAIN acct' = Rows(accounts) /\ \A r \in Rows(accounts) : IsObject(acct'[r])
      /\ \A r \in Rows(accounts) : acct'[r].id = r /\ acct'[r].roles = [i \in Owned(r) |-> roles[i].name]
      /\ MapOf(byId', Nat, Rows(accounts)) /\ DOMAIN byId' = Rows(accounts) /\ \A r \in Rows(accounts) : byId'[r] = r
  BY <1>1, <1>2, LoadsObjects
<1>6. /\ MapOf(byName', Names, Rows(accounts)) /\ \A n \in DOMAIN byName' : accounts[byName'[n]].name = n
      /\ \A r \in Rows(accounts) : accounts[r].name \in DOMAIN byName' /\ r <= byName'[accounts[r].name]
  BY <1>1, <1>2, LoadsNames
<1>7. /\ MapOf(nicks', Nicks, Nat) /\ \A n \in DOMAIN nicks' : nicks'[n] \in Rows(roles) /\ roles[nicks'[n]].name = n
      /\ \A i \in Housed : roles[i].name \in DOMAIN nicks' /\ nicks'[roles[i].name] <= i
  BY <1>1, <1>2, LoadsNicks
<1>8. \A r \in Rows(accounts) : DOMAIN acct'[r].roles = Owned(r) /\ \A i \in Owned(r) : acct'[r].roles[i] = roles[i].name
  <2> TAKE r \in Rows(accounts)
  <2>1. acct'[r].roles = [i \in Owned(r) |-> roles[i].name]
    BY <1>5
  <2> QED
    BY <2>1
<1>9. \A n \in DOMAIN byName' : byName'[n] \in Rows(accounts)
  BY <1>6 DEF MapOf
<1>10. Typed'
  <2>1. TypedTables' /\ TypedAnswer' /\ TypedRest'
    BY <1>1, <1>2, <1>4 DEF TypedTables, TypedAnswer, TypedRest
  <2>2. TypedMaps'
    BY <1>1, <1>4, <1>5, <1>6, <1>7 DEF TypedMaps
  <2>3. TypedJobs' /\ TypedCopies' /\ Down'
    BY <1>1, <1>2, <1>3 DEF TypedJobs, TypedCopies, Down
  <2>4. Tokens'
    BY <1>1, <1>2, <1>4 DEF Tokens
  <2> QED
    BY <2>1, <2>2, <2>3, <2>4 DEF Typed
<1>11. ASSUME raced = 0 PROVE \A i \in Rows(roles) : roles[i].account \in Rows(accounts)
  BY <1>2, <1>11 DEF Alone, OwnRows
<1>12. ASSUME raced' = 0 PROVE Alone'
  <2>1. raced = 0 /\ OwnRows /\ Answered /\ LoginsOwn /\ harm' = {}
    BY <1>1, <1>2, <1>12 DEF Alone
  <2>2. OneJob' /\ AllPrepared' /\ OwnCopies'
    BY <1>3 DEF OneJob, AllPrepared, OwnCopies
  <2>3. OwnRows' /\ LoginsOwn'
    BY <1>1, <1>4, <2>1 DEF OwnRows, LoginsOwn
  <2>4. OwnObjects'
    <3>1. DOMAIN byId' = byToken' /\ \A a \in byToken' : byId'[a] = a /\ acct'[a].id = a
      BY <1>1, <1>5
    <3>2. \A a \in byToken' : \A i \in DOMAIN acct'[a].roles :
            i \in Rows(roles) /\ roles[i].account = a /\ roles[i].name = acct'[a].roles[i]
      BY <1>1, <1>8 DEF Owned
    <3> QED
      BY <1>1, <1>4, <1>6, <1>7, <3>1, <3>2 DEF OwnObjects
  <2>5. Answered'
    <3>1. ASSUME NEW t \in told, t.what = "account"
          PROVE  /\ accounts[t.row].name = t.name /\ \A r \in Rows(accounts) : accounts[r].name = t.name => r <= t.row
                 /\ t.name \in DOMAIN byName' /\ byName'[t.name] = t.row
      <4>1. /\ t.row \in Rows(accounts) /\ accounts[t.row].name = t.name
            /\ \A r \in Rows(accounts) : accounts[r].name = t.name => r <= t.row
        BY <1>2, <2>1, <3>1 DEF Answered, Tokens
      <4>2. /\ t.name \in DOMAIN byName' /\ t.row <= byName'[t.name] /\ byName'[t.name] \in Rows(accounts)
            /\ byName'[t.name] <= t.row
        BY <1>6, <1>9, <4>1
      <4>3. Rows(accounts) \subseteq Nat
        BY <1>2, RowNumbers DEF TypedTables
      <4> QED
        BY <4>1, <4>2, <4>3
    <3>2. ASSUME NEW t \in told, t.what = "role"
          PROVE  \E i \in Rows(roles) : /\ roles[i].account = t.row /\ roles[i].name = t.name
                                        /\ i \in DOMAIN acct'[t.row].roles
      <4>1. PICK i \in Rows(roles) : roles[i].account = t.row /\ roles[i].name = t.name
        BY <2>1, <3>2 DEF Answered
      <4>2. t.row \in Rows(accounts) /\ i \in Owned(t.row)
        BY <1>11, <2>1, <4>1 DEF Owned
      <4> QED
        BY <1>8, <4>1, <4>2
    <3> QED
      BY <1>1, <1>4, <3>1, <3>2 DEF Answered
  <2> QED
    BY <2>1, <2>2, <2>3, <2>4, <2>5 DEF Alone
<1>13. ASSUME raced' = 0 PROVE AccountsKept' /\ RolesKept'
  <2>1. AccountsKept'
    BY <1>1, <1>4, <1>6 DEF AccountsKept
  <2>2. \A i \in Rows(roles) : roles[i].account \in Rows(accounts) /\ i \in Owned(roles[i].account) /\ i \in Housed
    BY <1>1, <1>11, <1>13 DEF Owned, Housed
  <2>3. RolesKept'
    BY <1>1, <1>4, <1>7, <1>8, <2>2 DEF RolesKept
  <2> QED
    BY <2>1, <2>3
<1> QED
  BY <1>10, <1>12, <1>13 DEF AccInv

-----------------------------------------------------------------------------
(* The theorems.                                                           *)

\* An empty database, and a process that has just started.
LEMMA InitHolds ==
  ASSUME Init
  PROVE  AccInv
<1>1. DOMAIN Nothing = {} /\ \A S, T : MapOf(Nothing, S, T)
  BY NoMap
<1>2. Rows(accounts) = {} /\ Rows(roles) = {} /\ Len(accounts) = 0 /\ Len(roles) = 0
  BY DEF Init, Rows
<1>3. accounts \in Seq(Account) /\ roles \in Seq(Role) /\ home \in [Rows(roles) -> Nat]
  BY <1>2 DEF Init
<1>4. \A w \in Workers : ~Busy(w)
  BY DEF Init, Busy
<1>5. TypedTables /\ TypedAnswer /\ TypedRest
  <2>1. MaxAccounts \in Nat /\ MaxRoles \in Nat /\ MaxRaces \in Nat
    BY AccountsAssumption
  <2>2. TypedTables
    BY <1>2, <1>3, <2>1 DEF TypedTables
  <2>3. TypedAnswer
    BY <2>1 DEF TypedAnswer, Init
  <2>4. TypedRest
    <3>1. up = TRUE /\ lost = FALSE /\ raced = 0
      BY DEF Init
    <3>2. {up, lost} \subseteq BOOLEAN
      BY ONLY <3>1, Zenon
    <3>3. raced \in 0..MaxRaces
      BY <2>1, <3>1
    <3> QED
      BY ONLY <3>2, <3>3 DEF TypedRest
  <2> QED
    BY <2>2, <2>3, <2>4
<1>6. TypedMaps /\ TypedJobs /\ TypedCopies
  BY <1>1, <1>4 DEF TypedMaps, TypedJobs, TypedCopies, Init
<1>7. Tokens /\ Down
  BY DEF Tokens, Down, Init
<1>8. OneJob /\ AllPrepared /\ OwnRows
  BY <1>2, <1>4 DEF OneJob, AllPrepared, OwnRows
<1>9. OwnCopies /\ OwnObjects /\ Answered /\ LoginsOwn /\ harm = {}
  BY <1>1 DEF OwnCopies, OwnObjects, Answered, LoginsOwn, Init
<1>10. AccountsKept /\ RolesKept
  BY <1>2 DEF AccountsKept, RolesKept, Init
<1> QED
  BY <1>5, <1>6, <1>7, <1>8, <1>9, <1>10 DEF AccInv, Typed, Alone

\* Every step of a worker keeps the invariant.
LEMMA WorkerKeeps ==
  ASSUME AccInv, NEW w \in Workers,
         \/ \E n \in Names : RegisterCheck(w, n)
         \/ \E a \in byToken, n \in Nicks : CreateCheck(w, a, n)
         \/ \E outcome \in Outcomes : RegisterInsert(w, outcome) \/ CreateInsert(w, outcome)
         \/ RegisterKeep(w) \/ CreateKeep(w)
         \/ \E a \in byToken : \E i \in DOMAIN acct[a].roles : ChooseRole(w, a, i)
         \/ ReadRole(w) \/ ReadItems(w) \/ \E i \in DOMAIN copy : Save(w, i)
  PROVE  AccInv'
<1>1. ASSUME NEW n \in Names, RegisterCheck(w, n) PROVE AccInv'
  BY <1>1, RegisterCheckKeeps
<1>2. ASSUME NEW a \in byToken, NEW n \in Nicks, CreateCheck(w, a, n) PROVE AccInv'
  BY <1>2, CreateCheckKeeps
<1>3. ASSUME NEW outcome \in Outcomes, RegisterInsert(w, outcome) PROVE AccInv'
  BY <1>3, RegisterInsertKeeps
<1>4. ASSUME NEW outcome \in Outcomes, CreateInsert(w, outcome) PROVE AccInv'
  BY <1>4, CreateInsertKeeps
<1>5. ASSUME RegisterKeep(w) PROVE AccInv'
  BY <1>5, RegisterKeepKeeps
<1>6. ASSUME CreateKeep(w) PROVE AccInv'
  BY <1>6, CreateKeepKeeps
<1>7. ASSUME NEW a \in byToken, NEW i \in DOMAIN acct[a].roles, ChooseRole(w, a, i) PROVE AccInv'
  BY <1>7, ChooseRoleKeeps
<1>8. ASSUME ReadRole(w) PROVE AccInv'
  BY <1>8, ReadRoleKeeps
<1>9. ASSUME ReadItems(w) PROVE AccInv'
  BY <1>9, ReadItemsKeeps
<1>10. ASSUME NEW i \in DOMAIN copy, Save(w, i) PROVE AccInv'
  BY <1>10, SaveKeeps
<1> QED
  BY <1>1, <1>2, <1>3, <1>4, <1>5, <1>6, <1>7, <1>8, <1>9, <1>10

\* Every step keeps the invariant.
LEMMA StepKeeps ==
  ASSUME AccInv, [Next]_vars
  PROVE  AccInv'
<1>1. ASSUME NEW w \in Workers,
             \/ \E n \in Names : RegisterCheck(w, n)
             \/ \E a \in byToken, n \in Nicks : CreateCheck(w, a, n)
             \/ \E outcome \in Outcomes : RegisterInsert(w, outcome) \/ CreateInsert(w, outcome)
             \/ RegisterKeep(w) \/ CreateKeep(w)
             \/ \E a \in byToken : \E i \in DOMAIN acct[a].roles : ChooseRole(w, a, i)
             \/ ReadRole(w) \/ ReadItems(w) \/ \E i \in DOMAIN copy : Save(w, i)
      PROVE  AccInv'
  BY <1>1, WorkerKeeps
<1>2. ASSUME NEW r \in byToken, Login(r) \/ AutoLogin(r) PROVE AccInv'
  <2>1. LoggedIn(r)
    BY <1>2 DEF Login, AutoLogin
  <2> QED
    BY <2>1, LoginKeeps
<1>3. ASSUME NEW k \in known, LoadRoles(k) PROVE AccInv'
  BY <1>3, LoadRolesKeeps
<1>4. CASE Die
  BY <1>4, DieKeeps
<1>5. CASE Restart
  BY <1>5, RestartKeeps
<1>6. CASE UNCHANGED vars
  <2>1. UNCHANGED <<accounts, roles, home, insertId, result, acct, byId, byName, byToken, nicks,
                    copy, known, job, up, told, raced, lost, harm>>
    BY <1>6 DEF vars
  <2>2. Typed' = Typed
    BY <2>1 DEF Typed, TypedTables, TypedAnswer, TypedMaps, TypedJobs, TypedCopies, TypedRest, Tokens, Down, Rows, Busy
  <2>3. Alone' = Alone
    BY <2>1 DEF Alone, OneJob, OwnRows, OwnCopies, OwnObjects, AllPrepared, Prepared, Answered, LoginsOwn, Rows, Value, Busy
  <2>4. AccountsKept' = AccountsKept /\ RolesKept' = RolesKept
    BY <2>1 DEF AccountsKept, RolesKept, Rows, Busy
  <2> QED
    BY <2>1, <2>2, <2>3, <2>4 DEF AccInv
<1> QED
  BY <1>1, <1>2, <1>3, <1>4, <1>5, <1>6 DEF Next


\* Whatever the interleaving of the workers over the one connection, whatever the
\* database refuses or loses the answer of, and wherever the process dies: the
\* types and the tokens hold; the rows, the maps and the Role objects agree until
\* the first race, and nothing is missing from the maps until an answer is lost.
THEOREM Invariance == Spec => []AccInv
<1>1. Init => AccInv
  BY InitHolds
<1>2. AccInv /\ [Next]_vars => AccInv'
  BY StepKeeps
<1> QED
  BY <1>1, <1>2, PTL DEF Spec

\* Every map of AccountManager leads to an account object, and the token a
\* CreateRole under way was asked with stays that of one.
THEOREM TypeCorrect == Spec => []TypeOK
<1>1. AccInv => TypeOK
  <2> SUFFICES ASSUME AccInv PROVE TypeOK
    OBVIOUS
  <2>1. TypedTables /\ TypedAnswer /\ TypedMaps /\ TypedJobs /\ TypedCopies /\ TypedRest /\ Tokens
    BY DEF AccInv, Typed
  <2>2. accounts \in Seq([name : Names]) /\ roles \in Seq([account : Nat, name : Nicks, of : Nat])
        /\ home \in [Rows(roles) -> Nat]
    BY <2>1 DEF TypedTables, Account, Role
  <2>3. DOMAIN copy \subseteq Nat /\ \A i \in DOMAIN copy : copy[i] \in [row : Values, items : SUBSET Rows(roles)]
    BY <2>1 DEF TypedCopies
  <2>4. (\A k \in known : k.row \in Rows(accounts)) /\ insertId \in 0..MaxAccounts + MaxRoles
    BY <2>1 DEF Tokens, TypedAnswer
  <2>5. DOMAIN acct = byToken /\ byToken \subseteq Rows(accounts)
    BY <2>1 DEF TypedMaps
  <2>6. ASSUME NEW a \in byToken
        PROVE  acct[a].id \in Nat /\ acct[a].open \in BOOLEAN /\ \A i \in DOMAIN acct[a].roles : acct[a].roles[i] \in Nicks
    <3>1. IsObject(acct[a])
      BY <2>1 DEF TypedMaps
    <3> QED
      BY <3>1 DEF IsObject, MapOf
  <2>7. /\ \A i \in DOMAIN byId : byId[i] \in byToken
        /\ DOMAIN byName \subseteq Names /\ \A n \in DOMAIN byName : byName[n] \in byToken
        /\ DOMAIN nicks \subseteq Nicks
    BY <2>1 DEF TypedMaps, MapOf
  <2>8. /\ job \in [Workers -> Job \union {NoJob}]
        /\ \A w \in Workers :
             job[w] # NoJob /\ job[w].do \in {"insertRole", "keepRole"} => job[w].account \in byToken
    BY <2>1 DEF TypedJobs, Busy
  <2>9. {up, lost} \subseteq BOOLEAN /\ raced \in 0..MaxRaces
    BY <2>1 DEF TypedRest
  <2> QED
    BY <2>2, <2>3, <2>4, <2>5, <2>6, <2>7, <2>8, <2>9 DEF TypeOK
<1> QED
  BY <1>1, Invariance, PTL

\* With one worker, and as long as the answer of no insert is lost, the maps
\* registerAccount and createRole keep up are the ones loadFromDB would build.
THEOREM MemoryMirrorsTables == Spec => []MemoryIsTables
<1>1. AccInv => MemoryIsTables
  <2> SUFFICES ASSUME AccInv, raced = 0, ~lost, up, Quiet
               PROVE  /\ [r \in byToken |-> [acct[r] EXCEPT !.open = FALSE]] = LoadedAcct
                      /\ byId = LoadedById /\ byName = LoadedByName /\ nicks = LoadedNicks
    BY DEF MemoryIsTables
  <2>1. TypedTables /\ TypedMaps /\ OwnRows /\ OwnObjects /\ AccountsKept /\ RolesKept /\ \A w \in Workers : ~Busy(w)
    BY DEF AccInv, Typed, Alone, Quiet, Busy
  <2>2. byToken = Rows(accounts)
    BY <2>1 DEF TypedMaps, AccountsKept
  <2>3. \A i \in Rows(roles) : /\ i \in DOMAIN acct[roles[i].account].roles
                               /\ roles[i].name \in DOMAIN nicks /\ nicks[roles[i].name] <= i
    BY <2>1 DEF RolesKept
  <2>4. Housed = Rows(roles)
    BY <2>1 DEF Housed, OwnRows
  <2>5. /\ Rows(accounts) \subseteq Nat /\ Rows(roles) \subseteq Nat
    BY <2>1, RowNumbers DEF TypedTables
  <2>6. [r \in byToken |-> [acct[r] EXCEPT !.open = FALSE]] = LoadedAcct
    <3> DEFINE own(r) == [i \in Owned(r) |-> roles[i].name]
               o(r) == [id |-> r, open |-> FALSE, roles |-> own(r)]
               c(r) == [acct[r] EXCEPT !.open = FALSE]
    <3>1. ASSUME NEW r \in Rows(accounts) PROVE c(r) = o(r)
      <4>1. IsObject(acct[r]) /\ acct[r].id = r
        BY <2>1, <2>2 DEF TypedMaps, OwnObjects
      <4>2. acct[r] \in [id : Nat, open : BOOLEAN, roles : {acct[r].roles}] /\ MapOf(acct[r].roles, Nat, Nicks)
        BY <4>1 DEF IsObject
      <4>3. \A i \in DOMAIN acct[r].roles : i \in Owned(r) /\ acct[r].roles[i] = roles[i].name
        BY <2>1, <2>2 DEF OwnObjects, Owned
      <4>4. \A i \in Owned(r) : i \in DOMAIN acct[r].roles
        BY <2>3 DEF Owned
      <4>5. DOMAIN acct[r].roles = Owned(r)
        BY <4>3, <4>4
      <4>6. acct[r].roles = own(r)
        BY <4>2, <4>3, <4>5 DEF MapOf
      <4> HIDE DEF own
      <4>7. c(r) = [id |-> acct[r].id, open |-> FALSE, roles |-> acct[r].roles]
        <5>1. ASSUME NEW S, NEW T, NEW x \in [id : Nat, open : T, roles : S], NEW v
              PROVE  [x EXCEPT !.open = v] = [id |-> x.id, open |-> v, roles |-> x.roles]
          OBVIOUS
        <5> QED
          BY <4>2, <5>1
      <4> QED
        BY <4>1, <4>6, <4>7
    <3>2. LoadedAcct = [r \in Rows(accounts) |-> o(r)]
      BY DEF LoadedAcct
    <3> HIDE DEF o, c
    <3>3. [r \in byToken |-> c(r)] = LoadedAcct
      BY <2>2, <3>1, <3>2
    <3> QED
      BY <3>3 DEF c
  <2>7. byId = LoadedById
    BY <2>1, <2>2 DEF LoadedById, OwnObjects, TypedMaps, MapOf
  <2>8. byName = LoadedByName
    <3>1. /\ MapOf(LoadedByName, Names, Rows(accounts))
          /\ \A n \in DOMAIN LoadedByName : accounts[LoadedByName[n]].name = n
          /\ \A r \in Rows(accounts) : accounts[r].name \in DOMAIN LoadedByName /\ r <= LoadedByName[accounts[r].name]
      BY <2>1, LoadsNames
    <3>2. /\ MapOf(byName, Names, Rows(accounts)) /\ \A n \in DOMAIN byName : accounts[byName[n]].name = n
          /\ \A r \in Rows(accounts) : accounts[r].name \in DOMAIN byName /\ r <= byName[accounts[r].name]
      BY <2>1, <2>2 DEF TypedMaps, OwnObjects, AccountsKept
    <3>3. \A n \in DOMAIN byName : n \in DOMAIN LoadedByName /\ byName[n] <= LoadedByName[n] /\ byName[n] \in Rows(accounts)
      BY <3>1, <3>2 DEF MapOf
    <3>4. \A n \in DOMAIN LoadedByName : n \in DOMAIN byName /\ LoadedByName[n] <= byName[n] /\ LoadedByName[n] \in Rows(accounts)
      BY <3>1, <3>2 DEF MapOf
    <3>5. DOMAIN byName = DOMAIN LoadedByName /\ \A n \in DOMAIN byName : byName[n] = LoadedByName[n]
      BY <2>5, <3>3, <3>4
    <3> QED
      BY <3>1, <3>2, <3>5 DEF MapOf
  <2>9. nicks = LoadedNicks
    <3>1. /\ MapOf(LoadedNicks, Nicks, Nat)
          /\ \A n \in DOMAIN LoadedNicks : LoadedNicks[n] \in Rows(roles) /\ roles[LoadedNicks[n]].name = n
          /\ \A i \in Rows(roles) : roles[i].name \in DOMAIN LoadedNicks /\ LoadedNicks[roles[i].name] <= i
      BY <2>1, <2>4, LoadsNicks
    <3>2. /\ MapOf(nicks, Nicks, Nat) /\ \A n \in DOMAIN nicks : nicks[n] \in Rows(roles) /\ roles[nicks[n]].name = n
      BY <2>1 DEF TypedMaps, OwnObjects
    <3>3. \A n \in DOMAIN nicks : n \in DOMAIN LoadedNicks /\ LoadedNicks[n] <= nicks[n] /\ nicks[n] \in Nat
      BY <2>5, <3>1, <3>2
    <3>4. \A n \in DOMAIN LoadedNicks : n \in DOMAIN nicks /\ nicks[n] <= LoadedNicks[n] /\ LoadedNicks[n] \in Nat
      BY <2>3, <2>5, <3>1
    <3>5. DOMAIN nicks = DOMAIN LoadedNicks /\ \A n \in DOMAIN nicks : nicks[n] = LoadedNicks[n]
      BY <3>3, <3>4
    <3> QED
      BY <3>1, <3>2, <3>5 DEF MapOf
  <2> QED
    BY <2>6, <2>7, <2>8, <2>9
<1> QED
  BY <1>1, Invariance, PTL

\* A registration that was answered with Success has a good token ever after,
\* however the workers race; and with one worker it leads by name and password to
\* its account, with the roles that were created in it, also after a restart.
THEOREM AnswersServed == Spec => []AnsweredIsServed
<1>1. AccInv => AnsweredIsServed
  <2> SUFFICES ASSUME AccInv, up, NEW t \in told
               PROVE  /\ t.what = "account" => t.row \in byToken
                      /\ raced = 0 =>
                           /\ t.what = "account" => byName[t.name] = t.row /\ byId[acct[t.row].id] = t.row
                           /\ t.what = "role" => \E i \in DOMAIN acct[t.row].roles : acct[t.row].roles[i] = t.name
    BY DEF AnsweredIsServed
  <2>1. t.what = "account" => t.row \in byToken
    BY DEF AccInv, Typed, Tokens
  <2>2. ASSUME raced = 0, t.what = "account" PROVE byName[t.name] = t.row /\ byId[acct[t.row].id] = t.row
    BY <2>1, <2>2 DEF AccInv, Alone, Answered, OwnObjects
  <2>3. ASSUME raced = 0, t.what = "role" PROVE \E i \in DOMAIN acct[t.row].roles : acct[t.row].roles[i] = t.name
    <3>1. Answered /\ OwnRows /\ OwnObjects
      BY <2>3 DEF AccInv, Alone
    <3>2. PICK i \in Rows(roles) : roles[i].account = t.row /\ roles[i].name = t.name /\ i \in DOMAIN acct[t.row].roles
      BY <2>3, <3>1 DEF Answered
    <3>3. t.row \in byToken
      BY <3>1, <3>2 DEF OwnRows
    <3> QED
      BY <3>1, <3>2, <3>3 DEF OwnObjects
  <2> QED
    BY <2>1, <2>2, <2>3
<1> QED
  BY <1>1, Invariance, PTL

\* With one worker, whatever the database refuses and wherever the process dies:
\* no client is shown the roles of another account by doLoadRoles, no request ends
\* the process, and no row gets the values or the items of another role.
THEOREM HonestSafe == Spec => []HonestAreSafe
<1>1. AccInv => HonestAreSafe
  BY DEF AccInv, Alone, HonestAreSafe
<1> QED
  BY <1>1, Invariance, PTL
=============================================================================
