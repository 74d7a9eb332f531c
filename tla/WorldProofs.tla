----------------------------- MODULE WorldProofs -----------------------------
(***************************************************************************)
(* Theorems about World, for every number of sessions, accounts, roles and *)
(* workers, every assignment of roles to accounts, and every bound.        *)
(***************************************************************************)
EXTENDS World, CommonLemmas

Requests == UNION {Request(s) : s \in Sessions}
Jobs ==
  [m : Requests, at : {"start", "use", "surround"}] \union [m : Requests, at : {"send"}, seen : SUBSET Sessions]
Busy(w) == job[w] # NoJob

\* The type of every variable, and at which step each request can be.
Typed ==
  /\ setting \in Settings
  /\ conn \in [Sessions -> {"new", "open", "closed"}] /\ role \in [Sessions -> Roles \union {NoRole}]
  /\ freed \subseteq Sessions /\ here \subseteq Sessions /\ \A s \in freed \union here : role[s] # NoRole
  /\ current \in [Accounts -> Roles \union {NoRole}]
  /\ \A a \in Accounts : current[a] # NoRole => Owner[current[a]] = a
  /\ players \in [DOMAIN players -> Sessions] /\ DOMAIN players \subseteq Roles
  /\ queue \in Seq(Requests) /\ job \in [Workers -> Jobs \union {NoJob}]
  /\ ending \in [ses : Sessions \union {NoSession}, at : {"idle", "delete", "leftover"}]
  /\ ending = Idle <=> ending.ses = NoSession
  /\ ending.at = "delete" => role[ending.ses] # NoRole
  /\ alive \in BOOLEAN /\ misused \in BOOLEAN /\ lostSave \in BOOLEAN /\ stale \subseteq Sessions

\* A polite client has one request under way at a time.
OneEach ==
  /\ \A i, j \in DOMAIN queue : i # j => queue[i].ses # queue[j].ses
  /\ \A w, x \in Workers : Busy(w) /\ Busy(x) /\ w # x => job[w].m.ses # job[x].m.ses
  /\ \A w \in Workers, i \in DOMAIN queue : Busy(w) => job[w].m.ses # queue[i].ses

\* What it asks fits the role its session has, or is about to get.
Fits(m, chosen) ==
  /\ conn[m.ses] = "open"
  /\ m.do = "choose" => role[m.ses] = IF chosen THEN m.role ELSE NoRole
  /\ m.do # "choose" => role[m.ses] # NoRole
  /\ m.do \in {"enter", "walk"} => m.account = Owner[role[m.ses]]
AllFit ==
  /\ \A i \in DOMAIN queue : Fits(queue[i], FALSE)
  /\ \A w \in Workers : Busy(w) => Fits(job[w].m, job[w].at = "use")

\* No two open connections play, or are about to play, the same account.
Apart == \A s, t \in Sessions : conn[s] = "open" /\ conn[t] = "open" /\ s # t => Held(s) \intersect Held(t) = {}

\* The account's role is the one its connection plays; who is deleted, or being
\* deleted, or has an old copy, is not connected any more.
Sessional ==
  /\ \A s \in Sessions : conn[s] = "open" /\ role[s] # NoRole => current[Owner[role[s]]] = role[s]
  /\ \A s \in Sessions : conn[s] = "new" => role[s] = NoRole
  /\ \A s \in freed \union stale : conn[s] = "closed"
  /\ ending.ses # NoSession => conn[ending.ses] = "closed"
  /\ ending.at = "delete" => ending.ses \notin freed

Live ==
  /\ \A r \in DOMAIN players :
       role[players[r]] = r /\ players[r] \in here \ freed /\ conn[players[r]] = "open"
  /\ \A s \in here : conn[s] = "open" => role[s] \in DOMAIN players /\ players[role[s]] = s

\* Those a worker sends a player as its surrounding have roles; with quiet clients
\* none of them has hung up.
Surrounding ==
  \A w \in Workers : Busy(w) /\ job[w].at = "send" => \A s \in job[w].seen :
    role[s] # NoRole /\ (setting.clients = "quiet" => conn[s] = "open")

Polite == OneEach /\ AllFit /\ Apart /\ Sessional /\ Live /\ Surrounding /\ lostSave = FALSE
WorldInv == Typed /\ (setting.clients # "any" => Polite)


-----------------------------------------------------------------------------
(* Requests and the players.                                               *)

\* What a request is (the messages of role_servlet.cpp and scene_servlet.cpp).
LEMMA RequestType ==
  ASSUME setting \in Settings, NEW m \in Requests
  PROVE  /\ m.ses \in Sessions /\ m \in Request(m.ses)
         /\ m.do \in {"choose", "enter", "walk", "use", "gem"}
         /\ m.do = "choose" => m.role \in Roles
         /\ m.do \in {"enter", "walk"} => m.account \in Accounts
<1>1. PICK s \in Sessions : m \in Request(s)
  BY DEF Requests
<1>2. setting.roles \subseteq Roles
  BY WorldAssumption
<1>3. m.ses = s
  BY <1>1 DEF Request
<1>4. CASE m \in [ses : {s}, do : {"choose"}, role : setting.roles]
  BY <1>1, <1>2, <1>3, <1>4
<1>5. CASE m \in [ses : {s}, do : {"enter", "walk"}, account : {Owner[r] : r \in setting.roles}]
  BY <1>1, <1>2, <1>3, <1>5, WorldAssumption
<1>6. CASE m \in [ses : {s}, do : {"use", "gem"}]
  BY <1>1, <1>3, <1>6
<1> QED
  BY <1>1, <1>4, <1>5, <1>6 DEF Request

\* What a worker is at.
LEMMA JobType ==
  ASSUME Typed, NEW w \in Workers, Busy(w)
  PROVE  /\ job[w] \in Jobs /\ job[w].m \in Requests /\ job[w].at \in {"start", "use", "surround", "send"}
         /\ job[w].m \in UnderWay
         /\ job[w].at = "send" => job[w].seen \subseteq Sessions
<1>1. job[w] \in Jobs
  BY DEF Typed, Busy
<1>2. job[w].m \in UnderWay
  BY DEF UnderWay, Busy
<1>3. CASE job[w] \in [m : Requests, at : {"start", "use", "surround"}]
  BY <1>1, <1>2, <1>3
<1>4. CASE job[w] \in [m : Requests, at : {"send"}, seen : SUBSET Sessions]
  BY <1>1, <1>2, <1>4
<1> QED
  BY <1>1, <1>3, <1>4 DEF Jobs

\* The requests under way are those of the queue and those the workers are at.
LEMMA UnderWayIs ==
  ASSUME Typed
  PROVE  /\ UnderWay \subseteq Requests
         /\ \A i \in DOMAIN queue : queue[i] \in UnderWay
         /\ \A w \in Workers : Busy(w) => job[w].m \in UnderWay
         /\ \A m \in UnderWay : (\E i \in DOMAIN queue : m = queue[i]) \/ (\E w \in Workers : Busy(w) /\ m = job[w].m)
<1>1. \A i \in DOMAIN queue : queue[i] \in Requests
  BY DEF Typed
<1>2. \A w \in Workers : Busy(w) => job[w].m \in Requests
  BY JobType
<1> QED
  BY <1>1, <1>2 DEF UnderWay, Busy, ToSet

\* The player who leaves the scene takes the id of its own role from it.
LEMMA PlayersLeave ==
  ASSUME Typed, NEW s \in Sessions
  PROVE  LET p == LeaveScene(s) IN
         /\ p \in [DOMAIN p -> Sessions]
         /\ DOMAIN p = IF s \in here THEN DOMAIN players \ {role[s]} ELSE DOMAIN players
         /\ \A x \in DOMAIN p : p[x] = players[x]
BY DEF Typed, LeaveScene


-----------------------------------------------------------------------------
(* The type of every variable.                                             *)

\* At the start nobody is connected and nothing is under way.
LEMMA TypedInit == Init => Typed
<1> SUFFICES ASSUME Init PROVE Typed
  OBVIOUS
<1>1. <<>> \in Seq(Requests)
  OBVIOUS
<1>2. ending \in [ses : Sessions \union {NoSession}, at : {"idle", "delete", "leftover"}] /\ ending = Idle
      /\ ending.ses = NoSession /\ ending.at = "idle"
  BY DEF Init, Idle
<1>3. /\ players \in [DOMAIN players -> Sessions] /\ DOMAIN players \subseteq Roles
  BY DEF Init
<1> QED
  BY <1>1, <1>2, <1>3, WorldAssumption DEF Init, Typed

\* A use of roles leaves the flags what they are.
LEMMA TouchType ==
  ASSUME Typed, NEW S, Touch(S)
  PROVE  alive' \in BOOLEAN /\ misused' \in BOOLEAN
BY DEF Touch, Typed

\* A step of a worker that has a request leaves the queue and every other worker alone;
\* it goes on with the request or is done with it.
LEMMA WorkerMoves ==
  ASSUME Typed, NEW w \in Workers, Work(w), ~Pop(w)
  PROVE  /\ Busy(w) /\ UNCHANGED <<setting, conn, queue, ending>>
         /\ \/ job' = [job EXCEPT ![w] = NoJob]
            \/ \E j \in Jobs : job' = [job EXCEPT ![w] = j] /\ j.m = job[w].m
                               /\ \/ ChooseRole(w) /\ j.at = "use"
                                  \/ EnterScene(w) /\ j.at = "surround"
                                  \/ LookAround(w) /\ j.at = "send" /\ j.seen = {players[x] : x \in DOMAIN players \ {current[job[w].m.account]}}
<1>1. Busy(w) /\ UNCHANGED <<setting, conn, queue, ending>>
  BY DEF Work, ChooseRole, UseRole, EnterScene, LookAround, SendSurrounding, Walk, At, Busy
<1>2. CASE Finish(w)
  BY <1>1, <1>2 DEF Finish
<1>3. job[w].m \in Requests
  BY <1>1, JobType
<1>4. CASE ChooseRole(w)
  <2> DEFINE j == [job[w] EXCEPT !.at = "use"]
  <2>1. job[w].at = "start"
    BY <1>4 DEF ChooseRole, At
  <2>2. j \in Jobs /\ j.m = job[w].m /\ j.at = "use"
    BY <1>1, <1>3, <2>1, JobType DEF Jobs
  <2>3. job' = [job EXCEPT ![w] = j]
    BY <1>4 DEF ChooseRole, Goto
  <2> QED
    BY <1>1, <1>4, <2>2, <2>3
<1>5. CASE EnterScene(w)
  <2> DEFINE j == [job[w] EXCEPT !.at = "surround"]
  <2>1. job[w].at = "start"
    BY <1>5 DEF EnterScene, At
  <2>2. j \in Jobs /\ j.m = job[w].m /\ j.at = "surround"
    BY <1>1, <1>3, <2>1, JobType DEF Jobs
  <2>3. job' = [job EXCEPT ![w] = j] \/ Finish(w)
    BY <1>5 DEF EnterScene, Goto
  <2> QED
    BY <1>1, <1>2, <1>5, <2>2, <2>3
<1>6. CASE LookAround(w)
  <2> DEFINE S == {players[x] : x \in DOMAIN players \ {current[job[w].m.account]}}
             j == [m |-> job[w].m, at |-> "send", seen |-> S]
  <2>1. S \subseteq Sessions
    BY DEF Typed
  <2>2. j \in Jobs /\ j.m = job[w].m /\ j.at = "send" /\ j.seen = S
    BY <1>3, <2>1 DEF Jobs
  <2>3. job' = [job EXCEPT ![w] = j]
    BY <1>6 DEF LookAround
  <2> QED
    BY <1>1, <1>6, <2>2, <2>3
<1> QED
  BY <1>2, <1>4, <1>5, <1>6 DEF Work, UseRole, SendSurrounding, Walk

\* A role a session has is never taken from it, and the setting stays.
LEMMA RoleStays ==
  ASSUME Typed, [Next]_vars
  PROVE  setting' = setting /\ Requests' = Requests /\ Jobs' = Jobs
         /\ \A s \in Sessions : role[s] # NoRole => role'[s] = role[s]
<1>1. setting' = setting
  BY DEF Next, Epoll, Work, Accept, Hangup, Receive, DeleteRole, Leftover, Pop, ChooseRole, UseRole, EnterScene,
         LookAround, SendSurrounding, Walk, vars
<1>2. Requests' = Requests
  BY <1>1 DEF Requests, Request
<1>3. ASSUME NEW w \in Workers, ChooseRole(w), NEW s \in Sessions, role[s] # NoRole PROVE role'[s] = role[s]
  BY <1>3 DEF ChooseRole, Typed
<1>4. (\E w \in Workers : ChooseRole(w)) \/ role' = role
  BY DEF Next, Epoll, Work, Accept, Hangup, Receive, DeleteRole, Leftover, Pop, UseRole, EnterScene,
         LookAround, SendSurrounding, Walk, vars
<1> QED
  BY <1>1, <1>2, <1>3, <1>4 DEF Jobs

\* The worker.
LEMMA TypedOfWorkers ==
  ASSUME Typed, [Next]_vars, NEW w \in Workers, Work(w)
  PROVE  Typed'
<1>0. setting' = setting /\ Requests' = Requests /\ Jobs' = Jobs
      /\ \A s \in Sessions : role[s] # NoRole => role'[s] = role[s]
  BY RoleStays
<1>1. CASE Pop(w)
  <2>1. Head(queue) \in Requests /\ Tail(queue) \in Seq(Requests)
    BY <1>1, HeldAfterTail DEF Pop, Typed
  <2>2. [m |-> Head(queue), at |-> "start"] \in Jobs
    BY <2>1 DEF Jobs
  <2>3. queue' \in Seq(Requests) /\ job' \in [Workers -> Jobs \union {NoJob}]
    BY <1>1, <2>1, <2>2 DEF Pop, Typed
  <2> QED
    BY <1>0, <1>1, <2>3 DEF Pop, Typed, copies, Idle
<1>2. CASE ~Pop(w)
  <2>1. UNCHANGED <<conn, queue, ending>> /\ job' \in [Workers -> Jobs \union {NoJob}] /\ Busy(w)
    BY <1>2, WorkerMoves DEF Typed
  <2>2. job[w].m.ses \in Sessions /\ (job[w].m.do = "choose" => job[w].m.role \in Roles)
        /\ (job[w].m.do \in {"enter", "walk"} => job[w].m.account \in Accounts)
    BY <2>1, JobType, RequestType DEF Typed
  <2>3. ending.at = "delete" => role'[ending.ses] # NoRole
    BY <1>0, WorldAssumption DEF Typed, Idle
  <2>4. CASE ChooseRole(w)
    <3>1. job[w].m.role \in Roles /\ Owner[job[w].m.role] \in Accounts /\ job[w].m.role # NoRole
      BY <2>2, <2>4, WorldAssumption DEF ChooseRole, At
    <3>2. role' \in [Sessions -> Roles \union {NoRole}]
      BY <2>4, <3>1 DEF ChooseRole, Typed
    <3>3. current' \in [Accounts -> Roles \union {NoRole}]
          /\ \A a \in Accounts : current'[a] # NoRole => Owner[current'[a]] = a
      BY <2>4, <3>1 DEF ChooseRole, Typed
    <3> QED
      BY <1>0, <2>1, <2>3, <2>4, <3>2, <3>3 DEF ChooseRole, Typed, copies, Idle
  <2>5. CASE UseRole(w)
    <3>1. alive' \in BOOLEAN /\ misused' \in BOOLEAN
      BY <2>5, TouchType DEF UseRole, Typed
    <3>2. stale' \subseteq Sessions /\ lostSave' \in BOOLEAN
      BY <2>5 DEF UseRole, Save, copies, Typed
    <3> QED
      BY <1>0, <2>1, <2>5, <3>1, <3>2 DEF UseRole, Typed, Idle
  <2>6. CASE EnterScene(w)
    <3> DEFINE r == current[job[w].m.account]
    <3>1. r \in Roles \union {NoRole}
      BY <2>2, <2>6 DEF EnterScene, At, Typed
    <3>2. alive' \in BOOLEAN /\ misused' \in BOOLEAN
      BY <2>6, TouchType DEF EnterScene, Typed
    <3>3. players' \in [DOMAIN players' -> Sessions] /\ DOMAIN players' \subseteq Roles
      <4>1. UNCHANGED players \/ (r \in Roles /\ players' = AddPlayer(r, job[w].m.ses))
        BY <2>6, <3>1 DEF EnterScene
      <4> HIDE DEF r
      <4> QED
        BY <2>2, <4>1 DEF Typed, AddPlayer
    <3>4. here' \subseteq Sessions /\ \A s \in here' : role[s] # NoRole
      BY <2>2, <2>6 DEF EnterScene, Typed
    <3> QED
      BY <1>0, <2>1, <2>6, <3>2, <3>3, <3>4 DEF EnterScene, Typed, copies, Idle
  <2>7. CASE LookAround(w)
    BY <1>0, <2>1, <2>7 DEF LookAround, Typed, copies, Idle
  <2>8. CASE SendSurrounding(w)
    <3>1. alive' \in BOOLEAN /\ misused' \in BOOLEAN
      BY <2>8, TouchType DEF SendSurrounding
    <3> QED
      BY <1>0, <2>1, <2>8, <3>1 DEF SendSurrounding, Typed, copies, Idle
  <2>9. CASE Walk(w)
    <3>1. alive' \in BOOLEAN /\ misused' \in BOOLEAN
      BY <2>9, TouchType DEF Walk, Typed
    <3> QED
      BY <1>0, <2>1, <2>9, <3>1 DEF Walk, Typed, copies, Idle
  <2> QED
    BY <1>2, <2>4, <2>5, <2>6, <2>7, <2>8, <2>9 DEF Work
<1> QED
  BY <1>1, <1>2

\* The epoll thread.
LEMMA TypedOfEpoll ==
  ASSUME Typed, [Next]_vars, Epoll
  PROVE  Typed'
<1>0. setting' = setting /\ Requests' = Requests /\ Jobs' = Jobs
  BY RoleStays
<1>1. ASSUME NEW s \in Sessions, Accept(s) PROVE Typed'
  BY <1>0, <1>1 DEF Accept, Typed, copies, Idle
<1>2. ASSUME NEW s \in Sessions, NEW m \in Request(s), Receive(s, m) PROVE Typed'
  <2>1. m \in Requests
    BY DEF Requests
  <2>2. queue' \in Seq(Requests)
    BY <1>2, <2>1 DEF Receive, Push, Typed
  <2> QED
    BY <1>0, <1>2, <2>2 DEF Receive, Typed, copies, Idle
<1>3. ASSUME NEW s \in Sessions, Hangup(s) PROVE Typed'
  <2>1. players' \in [DOMAIN players' -> Sessions] /\ DOMAIN players' \subseteq Roles
    <3>1. LET p == LeaveScene(s) IN p \in [DOMAIN p -> Sessions] /\ DOMAIN p \subseteq Roles
      BY PlayersLeave DEF Typed
    <3>2. UNCHANGED players \/ players' = LeaveScene(s)
      BY <1>3 DEF Hangup
    <3> QED
      BY <3>1, <3>2 DEF Typed
  <2>2. /\ ending' \in [ses : Sessions \union {NoSession}, at : {"idle", "delete", "leftover"}]
        /\ ending'.ses = s /\ ending'.at # "idle" /\ (ending'.at = "delete" => role[s] # NoRole)
    BY <1>3 DEF Hangup
  <2> QED
    BY <1>0, <1>3, <2>1, <2>2, WorldAssumption DEF Hangup, Typed, copies, Idle
<1>4. CASE DeleteRole
  <2>1. alive' \in BOOLEAN /\ misused' \in BOOLEAN
    BY <1>4, TouchType DEF DeleteRole
  <2>2. ending.ses \in Sessions /\ ending.ses # NoSession /\ role[ending.ses] # NoRole
    BY <1>4, WorldAssumption DEF DeleteRole, Typed, Idle
  <2>3. /\ ending' \in [ses : Sessions \union {NoSession}, at : {"idle", "delete", "leftover"}]
        /\ ending'.ses = ending.ses /\ ending'.at = "leftover"
    BY <1>4, <2>2 DEF DeleteRole, Typed
  <2> QED
    BY <1>0, <1>4, <2>1, <2>2, <2>3 DEF DeleteRole, Typed, copies, Idle
<1>5. CASE Leftover
  <2>1. ending' = Idle /\ ending.ses \in Sessions
    BY <1>5 DEF Leftover, Typed, Idle
  <2>2. /\ ending' \in [ses : Sessions \union {NoSession}, at : {"idle", "delete", "leftover"}]
        /\ ending'.ses = NoSession /\ ending'.at = "idle"
    BY <2>1 DEF Idle
  <2>3. alive' \in BOOLEAN /\ misused' \in BOOLEAN
    BY <1>5, TouchType DEF Leftover, Typed
  <2>4. queue' \in Seq(Requests)
    <3>1. \A m \in Request(ending.ses) : m \in Requests
      BY <2>1 DEF Requests
    <3>2. UNCHANGED queue \/ \E m \in Request(ending.ses) : queue' = Append(queue, m)
      BY <1>5 DEF Leftover, Push
    <3> QED
      BY <3>1, <3>2 DEF Typed
  <2>5. players' \in [DOMAIN players' -> Sessions] /\ DOMAIN players' \subseteq Roles
    <3>1. UNCHANGED players \/ players' = LeaveScene(ending.ses)
      BY <1>5 DEF Leftover
    <3> QED
      BY <2>1, <3>1, PlayersLeave, ZenonT(30) DEF Typed
  <2> QED
    BY <1>0, <1>5, <2>1, <2>2, <2>3, <2>4, <2>5 DEF Leftover, Typed, copies, Idle
<1> QED
  BY <1>1, <1>2, <1>3, <1>4, <1>5 DEF Epoll

\* So every step keeps the type.
LEMMA TypedStep == Typed /\ [Next]_vars => Typed'
<1> SUFFICES ASSUME Typed, [Next]_vars PROVE Typed'
  OBVIOUS
<1>1. CASE UNCHANGED vars
  BY <1>1, RoleStays DEF vars, Typed, Idle
<1> QED
  BY <1>1, TypedOfEpoll, TypedOfWorkers DEF Next

\* A role in the scene or deleted is one its session has, an account's role is one
\* of its own, and a request is one its sender may make: whatever the clients do
\* and however the threads overlap (player_session.cpp, role_servlet.cpp).
THEOREM TypeCorrect == Spec => []TypeOK
<1>1. Spec => []Typed
  BY TypedInit, TypedStep, PTL DEF Spec
<1>2. ASSUME Typed PROVE TypeOK
  <2>1. \A m \in UnderWay : m \in Request(m.ses)
    BY <1>2, UnderWayIs, RequestType DEF Typed
  <2>2. ending.at \in {"idle", "delete", "leftover"} /\ (ending = Idle <=> ending.ses = NoSession)
    BY <1>2 DEF Typed
  <2> QED
    BY <1>2, <2>1, <2>2 DEF Typed, TypeOK
<1> QED
  BY <1>1, <1>2, PTL


-----------------------------------------------------------------------------
(* Polite clients: requests.                                               *)

\* What a step does to the requests under way when the clients are polite.
LEMMA RequestMoves ==
  ASSUME Typed, [Next]_vars, setting.clients # "any"
  PROVE  \/ UNCHANGED <<queue, job>> /\ \A w \in Workers : ~Work(w)
         \/ \E s \in Sessions : \E m \in Request(s) : Receive(s, m) /\ m.ses = s /\ m \in Requests
                                                  /\ queue' = Append(queue, m) /\ job' = job
         \/ \E w \in Workers : /\ Pop(w) /\ Head(queue) \in Requests /\ queue' = Tail(queue) /\ queue # <<>>
                               /\ ~Busy(w) /\ job' = [job EXCEPT ![w] = [m |-> Head(queue), at |-> "start"]]
         \/ \E w \in Workers : Work(w) /\ ~Pop(w) /\ Busy(w) /\ queue' = queue
<1>1. CASE \E w \in Workers : Work(w)
  <2>1. PICK w \in Workers : Work(w)
    BY <1>1
  <2>2. CASE Pop(w)
    BY <2>2, HeldAfterTail DEF Pop, Busy, Typed
  <2> QED
    BY <2>1, <2>2, WorkerMoves
<1>2. CASE \E s \in Sessions : \E m \in Request(s) : Receive(s, m)
  <2>1. \A s \in Sessions : \A m \in Request(s) : m.ses = s /\ m \in Requests
    BY DEF Request, Requests
  <2> QED
    BY <1>2, <2>1 DEF Receive, Push
<1>3. CASE ~(\E w \in Workers : Work(w)) /\ UNCHANGED <<queue, job>>
  BY <1>3
<1>4. \A s \in Sessions : Accept(s) \/ Hangup(s) => UNCHANGED <<queue, job>>
  BY DEF Accept, Hangup
<1>5. DeleteRole \/ Leftover \/ UNCHANGED vars => UNCHANGED <<queue, job>>
  BY DEF DeleteRole, Leftover, vars
<1> QED
  BY <1>1, <1>2, <1>3, <1>4, <1>5 DEF Next, Epoll

\* A polite client that has a request under way sends no other.
LEMMA OneEachStep ==
  ASSUME Typed, OneEach, [Next]_vars, setting.clients # "any"
  PROVE  OneEach'
<1>0. queue \in Seq(Requests) /\ job \in [Workers -> Jobs \union {NoJob}] /\ Len(queue) \in Nat /\ DOMAIN queue = 1..Len(queue)
  BY DEF Typed
<1>1. CASE UNCHANGED <<queue, job>>
  BY <1>1 DEF OneEach, Busy
<1>2. ASSUME NEW s \in Sessions, NEW m \in Request(s), Receive(s, m), m.ses = s, m \in Requests,
             queue' = Append(queue, m), job' = job
      PROVE  OneEach'
  <2>1. ~Waits(s)
    BY <1>2 DEF Receive, Proper
  <2>2. /\ \A i \in DOMAIN queue : queue[i].ses # s
        /\ \A w \in Workers : Busy(w) => job[w].m.ses # s
    BY <2>1, UnderWayIs DEF Waits
  <2>3. /\ DOMAIN queue' = 1..Len(queue) + 1 /\ queue'[Len(queue) + 1] = m
        /\ \A i \in 1..Len(queue) : queue'[i] = queue[i]
    BY <1>0, <1>2
  <2>4. \A i \in DOMAIN queue' : (i \in DOMAIN queue /\ queue'[i] = queue[i]) \/ (i = Len(queue) + 1 /\ queue'[i].ses = s)
    BY <1>0, <1>2, <2>3
  <2>5. \A w \in Workers : (Busy(w))' <=> Busy(w)
    BY <1>2 DEF Busy
  <2> QED
    BY <1>0, <1>2, <2>2, <2>4, <2>5 DEF OneEach
<1>3. ASSUME NEW w \in Workers, Head(queue) \in Requests, queue' = Tail(queue), queue # <<>>, ~Busy(w),
             job' = [job EXCEPT ![w] = [m |-> Head(queue), at |-> "start"]]
      PROVE  OneEach'
  <2>1. Head(queue) = queue[1] /\ 1 \in DOMAIN queue
    BY <1>0, <1>3
  <2>2. \A i \in DOMAIN queue' : i + 1 \in DOMAIN queue /\ queue'[i] = queue[i + 1] /\ i \in Nat /\ i # 0
    BY <1>0, <1>3
  <2>3. \A x \in Workers : x # w => ((Busy(x))' <=> Busy(x)) /\ job'[x] = job[x]
    BY <1>0, <1>3 DEF Busy
  <2>4. job'[w].m = queue[1]
    BY <1>0, <1>3, <2>1
  <2>5. \A i, j \in DOMAIN queue' : i # j => queue'[i].ses # queue'[j].ses
    BY <2>2 DEF OneEach
  <2>6. \A x \in Workers, i \in DOMAIN queue' : (Busy(x))' => job'[x].m.ses # queue'[i].ses
    BY <2>1, <2>2, <2>3, <2>4 DEF OneEach
  <2>7. \A x, y \in Workers : (Busy(x))' /\ (Busy(y))' /\ x # y => job'[x].m.ses # job'[y].m.ses
    BY <2>1, <2>3, <2>4 DEF OneEach
  <2> QED
    BY <2>5, <2>6, <2>7 DEF OneEach
<1>4. ASSUME NEW w \in Workers, Work(w), ~Pop(w) PROVE OneEach'
  <2>1. queue' = queue /\ \A x \in Workers : (Busy(x))' => Busy(x) /\ job'[x].m = job[x].m
    BY <1>0, <1>4, WorkerMoves DEF Busy
  <2> QED
    BY <2>1 DEF OneEach
<1> QED
  BY <1>1, <1>2, <1>3, <1>4, RequestMoves

\* Only what a client sends comes to be under way.
LEMMA UnderWayStep ==
  ASSUME Typed, Typed', [Next]_vars, setting.clients # "any"
  PROVE  \/ UnderWay' \subseteq UnderWay
         \/ \E s \in Sessions : \E m \in Request(s) : Receive(s, m) /\ m.ses = s /\ UnderWay' \subseteq UnderWay \union {m}
<1>0. queue \in Seq(Requests) /\ job \in [Workers -> Jobs \union {NoJob}]
  BY DEF Typed
<1>1. CASE UNCHANGED <<queue, job>>
  BY <1>1 DEF UnderWay
<1>2. ASSUME NEW s \in Sessions, NEW m \in Request(s), m \in Requests, queue' = Append(queue, m), job' = job
      PROVE  UnderWay' \subseteq UnderWay \union {m}
  <2>1. ToSet(queue') = ToSet(queue) \union {m}
    BY <1>0, <1>2, HeldAfterAppend
  <2> QED
    BY <1>2, <2>1 DEF UnderWay
<1>3. ASSUME NEW w \in Workers, queue' = Tail(queue), queue # <<>>,
             job' = [job EXCEPT ![w] = [m |-> Head(queue), at |-> "start"]]
      PROVE  UnderWay' \subseteq UnderWay
  <2>1. ToSet(queue) = ToSet(queue') \union {Head(queue)}
    BY <1>0, <1>3, HeldAfterTail
  <2>2. \A x \in Workers : job'[x] # NoJob => job'[x].m \in UnderWay
    BY <1>0, <1>3, <2>1 DEF UnderWay
  <2> QED
    BY <2>1, <2>2 DEF UnderWay
<1>4. ASSUME NEW w \in Workers, Work(w), ~Pop(w) PROVE UnderWay' \subseteq UnderWay
  <2>1. queue' = queue /\ \A x \in Workers : job'[x] # NoJob => job[x] # NoJob /\ job'[x].m = job[x].m
    BY <1>0, <1>4, WorkerMoves DEF Busy
  <2> QED
    BY <2>1 DEF UnderWay
<1> QED
  BY <1>1, <1>2, <1>3, <1>4, RequestMoves


\* What is under way fits the session it is of.
LEMMA FitsUnderWay ==
  ASSUME Typed, AllFit, NEW m \in UnderWay
  PROVE  /\ m \in Requests /\ m.ses \in Sessions /\ conn[m.ses] = "open"
         /\ m.do = "choose" => m.role \in Roles /\ role[m.ses] \in {NoRole, m.role}
<1>1. m \in Requests
  BY UnderWayIs
<1>2. m.ses \in Sessions /\ (m.do = "choose" => m.role \in Roles)
  BY <1>1, RequestType DEF Typed
<1>3. Fits(m, TRUE) \/ Fits(m, FALSE)
  <2>1. CASE \E i \in DOMAIN queue : m = queue[i]
    BY <2>1 DEF AllFit
  <2>2. CASE \E w \in Workers : Busy(w) /\ m = job[w].m
    <3>1. PICK w \in Workers : Busy(w) /\ m = job[w].m
      BY <2>2
    <3>2. Fits(m, job[w].at = "use")
      BY <3>1 DEF AllFit
    <3> QED
      BY <3>2 DEF Fits
  <2> QED
    BY <2>1, <2>2, UnderWayIs
<1> QED
  BY <1>1, <1>2, <1>3 DEF Fits

\* A polite client does not hang up while a request of its own is under way, a
\* quiet one while any is.
LEMMA HangupAlone ==
  ASSUME Typed, setting.clients # "any", NEW s \in Sessions, Hangup(s)
  PROVE  /\ \A m \in UnderWay : m.ses # s
         /\ setting.clients = "quiet" => UnderWay = {}
<1>1. setting.clients \in {"any", "polite", "quiet"}
  BY WorldAssumption DEF Typed
<1> QED
  BY <1>1 DEF Hangup, MayHangup, Waits

\* A request goes on fitting until it is done.
LEMMA AllFitStep ==
  ASSUME Typed, Typed', OneEach, AllFit, [Next]_vars, setting.clients # "any"
  PROVE  AllFit'
<1>0. /\ queue \in Seq(Requests) /\ job \in [Workers -> Jobs \union {NoJob}] /\ Len(queue) \in Nat
      /\ DOMAIN queue = 1..Len(queue)
      /\ conn \in [Sessions -> {"new", "open", "closed"}] /\ role \in [Sessions -> Roles \union {NoRole}]
  BY DEF Typed
<1>1. CASE UNCHANGED <<queue, job, conn, role>>
  BY <1>1 DEF AllFit, Fits, Busy
<1>2. ASSUME NEW s \in Sessions, Accept(s) \/ Hangup(s) PROVE AllFit'
  <2>1. UNCHANGED <<queue, job, role>>
    BY <1>2 DEF Accept, Hangup
  <2>2. \A m \in UnderWay : conn'[m.ses] = "open"
    <3> TAKE m \in UnderWay
    <3>1. m.ses \in Sessions /\ conn[m.ses] = "open"
      BY FitsUnderWay
    <3>2. Hangup(s) => m.ses # s
      BY HangupAlone
    <3>3. conn' = [conn EXCEPT ![s] = "open"] \/ (Hangup(s) /\ conn' = [conn EXCEPT ![s] = "closed"])
      BY <1>2 DEF Accept, Hangup
    <3> QED
      BY <1>0, <3>1, <3>2, <3>3
  <2>3. /\ \A i \in DOMAIN queue : conn'[queue[i].ses] = "open"
        /\ \A w \in Workers : Busy(w) => conn'[job[w].m.ses] = "open"
    BY <2>2, UnderWayIs
  <2> QED
    BY <2>1, <2>3 DEF AllFit, Fits, Busy
<1>3. ASSUME NEW s \in Sessions, NEW m \in Request(s), Receive(s, m), m.ses = s, m \in Requests,
             queue' = Append(queue, m), job' = job
      PROVE  AllFit'
  <2>1. UNCHANGED <<conn, role>>
    BY <1>3 DEF Receive
  <2>2. Fits(m, FALSE)
    BY <1>3 DEF Receive, Proper, Fits
  <2>3. \A i \in DOMAIN queue' : (i \in DOMAIN queue /\ queue'[i] = queue[i]) \/ queue'[i] = m
    BY <1>0, <1>3
  <2> QED
    BY <1>3, <2>1, <2>2, <2>3 DEF AllFit, Fits, Busy
<1>4. ASSUME NEW w \in Workers, Pop(w), queue' = Tail(queue), queue # <<>>,
             job' = [job EXCEPT ![w] = [m |-> Head(queue), at |-> "start"]]
      PROVE  AllFit'
  <2>1. UNCHANGED <<conn, role>>
    BY <1>4 DEF Pop
  <2>2. Head(queue) = queue[1] /\ 1 \in DOMAIN queue
    BY <1>0, <1>4
  <2>3. \A i \in DOMAIN queue' : i + 1 \in DOMAIN queue /\ queue'[i] = queue[i + 1]
    BY <1>0, <1>4
  <2>4. \A x \in Workers : x # w => ((Busy(x))' <=> Busy(x)) /\ job'[x] = job[x]
    BY <1>0, <1>4 DEF Busy
  <2>5. job'[w].m = queue[1] /\ job'[w].at = "start"
    BY <1>0, <1>4, <2>2
  <2>6. \A i \in DOMAIN queue' : Fits(queue'[i], FALSE)
    BY <2>3 DEF AllFit
  <2>7. \A x \in Workers : (Busy(x))' => Fits(job'[x].m, job'[x].at = "use")
    BY <2>2, <2>4, <2>5 DEF AllFit, Fits
  <2> QED
    BY <2>1, <2>6, <2>7 DEF AllFit, Fits
<1>5. ASSUME NEW w \in Workers, Work(w), ~Pop(w) PROVE AllFit'
  <2> DEFINE s == job[w].m.ses
  <2>1. Busy(w) /\ queue' = queue /\ conn' = conn
    BY <1>5, WorkerMoves
  <2>2. /\ \A x \in Workers : x # w => job'[x] = job[x] /\ ((Busy(x))' <=> Busy(x))
        /\ (Busy(w))' => job'[w].m = job[w].m
    BY <1>0, <1>5, WorkerMoves DEF Busy
  <2>3. /\ \A x \in Workers : x # w /\ Busy(x) => job[x].m.ses # s
        /\ \A i \in DOMAIN queue : queue[i].ses # s
    BY <2>1 DEF OneEach
  <2>4. s \in Sessions
    BY <2>1, JobType, RequestType DEF Typed
  <2>5. \A t \in Sessions : t # s => role'[t] = role[t]
    BY <1>0, <1>5, <2>4 DEF Work, ChooseRole, UseRole, EnterScene, LookAround, SendSurrounding, Walk, Pop
  <2>6. /\ \A i \in DOMAIN queue : queue[i].ses \in Sessions
        /\ \A x \in Workers : Busy(x) => job[x].m.ses \in Sessions
    BY UnderWayIs, RequestType DEF Typed
  <2>7. \A i \in DOMAIN queue : Fits(queue[i], FALSE)'
    BY <2>1, <2>3, <2>5, <2>6 DEF AllFit, Fits
  <2>8. \A x \in Workers : x # w /\ Busy(x) => Fits(job[x].m, job[x].at = "use")'
    BY <2>1, <2>2, <2>3, <2>5, <2>6 DEF AllFit, Fits
  <2>9. (Busy(w))' => Fits(job[w].m, job[w].at = "use")'
    <3>1. Fits(job[w].m, job[w].at = "use")
      BY <2>1 DEF AllFit
    <3>2. CASE ChooseRole(w)
      <4>1. job[w].m.do = "choose" /\ job[w].at = "start" /\ role[s] = NoRole
        BY <3>1, <3>2 DEF ChooseRole, At, Fits
      <4>2. role'[s] = job[w].m.role
        BY <1>0, <2>4, <3>2, <4>1 DEF ChooseRole
      <4>3. job'[w].at = "use"
        BY <1>0, <3>2 DEF ChooseRole, Goto, Typed, Jobs
      <4> QED
        BY <2>1, <2>2, <3>1, <4>1, <4>2, <4>3 DEF Fits
    <3>3. CASE ~ChooseRole(w)
      <4>1. role' = role
        BY <1>5, <3>3 DEF Work, UseRole, EnterScene, LookAround, SendSurrounding, Walk, Pop
      <4>2. (Busy(w))' => job[w].m.do = "enter"
        BY <1>0, <1>5, <3>3 DEF Work, Pop, UseRole, EnterScene, LookAround, SendSurrounding, Walk, Finish, Busy, At
      <4> QED
        BY <2>1, <2>2, <3>1, <4>1, <4>2 DEF Fits
    <3> QED
      BY <3>2, <3>3
  <2>10. \A x \in Workers : (Busy(x))' => Fits(job[x].m, job[x].at = "use")'
    BY <2>2, <2>8, <2>9
  <2> QED
    BY <2>1, <2>7, <2>10 DEF AllFit
<1>6. CASE UNCHANGED <<queue, job>> /\ \A w \in Workers : ~Work(w)
  <2>1. UNCHANGED <<conn, role>> \/ \E s \in Sessions : Accept(s) \/ Hangup(s)
    BY <1>6 DEF Next, Epoll, Receive, DeleteRole, Leftover, vars
  <2> QED
    BY <1>1, <1>2, <1>6, <2>1
<1> QED
  BY <1>3, <1>4, <1>5, <1>6, RequestMoves


-----------------------------------------------------------------------------
(* Polite clients: sessions and the scene.                                 *)

\* What a session holds: the account of its role and of the role it asks for.
LEMMA HeldIs ==
  ASSUME NEW s, NEW a
  PROVE  a \in Held(s) <=> \/ role[s] # NoRole /\ a = Owner[role[s]]
                           \/ \E m \in UnderWay : m.ses = s /\ m.do = "choose" /\ a = Owner[m.role]
BY DEF Held

\* A session whose request a worker is at is connected, keeps its role while it is,
\* and shares its account with no other that is.
LEMMA SessionOfJob ==
  ASSUME Typed, AllFit, Apart, Sessional, NEW w \in Workers, Busy(w)
  PROVE  LET s == job[w].m.ses IN
         /\ s \in Sessions /\ conn[s] = "open" /\ s \notin freed /\ s \notin stale /\ s # ending.ses
         /\ job[w].m.do # "choose" \/ job[w].at = "use" => role[s] # NoRole
         /\ job[w].m.do \in {"enter", "walk"} => job[w].m.account = Owner[role[s]] /\ current[job[w].m.account] = role[s]
         /\ job[w].m.do = "choose" => job[w].m.role \in Roles /\ Owner[job[w].m.role] \in Held(s)
         /\ \A t \in Sessions : t # s /\ role[t] # NoRole /\ role[s] # NoRole /\ Owner[role[t]] = Owner[role[s]] => conn[t] = "closed"
<1> DEFINE m == job[w].m
           s == m.ses
<1>1. m \in UnderWay /\ Fits(m, job[w].at = "use")
  BY JobType DEF AllFit
<1>2. s \in Sessions /\ conn[s] = "open" /\ (m.do = "choose" => m.role \in Roles) /\ m.do \in {"choose", "enter", "walk", "use", "gem"}
  BY <1>1, FitsUnderWay, RequestType DEF Typed
<1>3. s \notin freed /\ s \notin stale /\ s # ending.ses
  BY <1>2, WorldAssumption DEF Sessional
<1>4. m.do # "choose" \/ job[w].at = "use" => role[s] # NoRole
  BY <1>1, <1>2, WorldAssumption DEF Fits
<1>5. m.do \in {"enter", "walk"} => m.account = Owner[role[s]] /\ current[m.account] = role[s]
  BY <1>1, <1>2, <1>4 DEF Fits, Sessional
<1>6. m.do = "choose" => Owner[m.role] \in Held(s)
  BY <1>1, HeldIs
<1>7. ASSUME NEW t \in Sessions, t # s, role[t] # NoRole, role[s] # NoRole, Owner[role[t]] = Owner[role[s]]
      PROVE  conn[t] = "closed"
  <2>1. Owner[role[s]] \in Held(s) /\ Owner[role[s]] \in Held(t)
    BY <1>7, HeldIs
  <2>2. conn[t] # "open"
    BY <1>2, <1>7, <2>1 DEF Apart
  <2>3. conn[t] # "new"
    BY <1>7 DEF Sessional
  <2> QED
    BY <1>7, <2>2, <2>3 DEF Typed
<1> QED
  BY <1>2, <1>3, <1>4, <1>5, <1>6, <1>7

\* What is not held, and whose role stays, comes to hold no more while nothing is sent.
LEMMA HeldShrinks ==
  ASSUME NEW s, UnderWay' \subseteq UnderWay, role'[s] = role[s]
  PROVE  Held(s)' \subseteq Held(s)
BY DEF Held

\* No two connections come to play one account: a client asks for none that another
\* holds, and doChooseRole gives a session what it asked for.
LEMMA ApartStep ==
  ASSUME Typed, Typed', OneEach, AllFit, Apart, Sessional, [Next]_vars, setting.clients # "any"
  PROVE  Apart'
<1>0. conn \in [Sessions -> {"new", "open", "closed"}] /\ role \in [Sessions -> Roles \union {NoRole}]
  BY DEF Typed
<1>1. CASE UnderWay' \subseteq UnderWay /\ role' = role /\ \A t \in Sessions : conn'[t] = "open" => conn[t] = "open"
  BY <1>1, HeldShrinks DEF Apart
<1>2. ASSUME NEW s \in Sessions, Accept(s) PROVE Apart'
  <2>1. role' = role /\ conn' = [conn EXCEPT ![s] = "open"] /\ conn[s] = "new" /\ UnderWay' = UnderWay
    BY <1>2 DEF Accept, UnderWay
  <2>2. Held(s) = {}
    <3>1. role[s] = NoRole
      BY <2>1 DEF Sessional
    <3>2. \A m \in UnderWay : m.ses # s
      BY <2>1, FitsUnderWay
    <3> QED
      BY <3>1, <3>2 DEF Held
  <2>3. \A t \in Sessions : Held(t)' \subseteq Held(t)
    BY <2>1, HeldShrinks
  <2>4. \A t \in Sessions : t # s => conn'[t] = conn[t]
    BY <1>0, <2>1
  <2> QED
    BY <2>2, <2>3, <2>4 DEF Apart
<1>3. ASSUME NEW s \in Sessions, NEW m \in Request(s), Receive(s, m), m.ses = s,
             UnderWay' \subseteq UnderWay \union {m}
      PROVE  Apart'
  <2>1. UNCHANGED <<conn, role>> /\ Proper(s, m)
    BY <1>3 DEF Receive
  <2>2. \A t \in Sessions : t # s => Held(t)' \subseteq Held(t)
    BY <1>3, <2>1 DEF Held
  <2>3. ASSUME NEW a \in Held(s)', a \notin Held(s)
        PROVE  \A x \in Sessions : conn[x] = "open" => a \notin Held(x)
    <3>1. m.do = "choose" /\ a = Owner[m.role]
      BY <1>3, <2>1, <2>3 DEF Held
    <3>2. role[s] = NoRole
      BY <2>1, <3>1 DEF Proper
    <3> QED
      BY <2>1, <3>1, <3>2 DEF Proper
  <2> QED
    BY <2>1, <2>2, <2>3 DEF Apart
<1>4. ASSUME NEW w \in Workers, ChooseRole(w), UnderWay' \subseteq UnderWay PROVE Apart'
  <2> DEFINE s == job[w].m.ses
             r == job[w].m.role
  <2>1. Busy(w) /\ conn' = conn /\ role' = [role EXCEPT ![s] = IF role[s] = NoRole THEN r ELSE role[s]]
        /\ job[w].m.do = "choose"
    BY <1>4 DEF ChooseRole, At, Busy
  <2>2. s \in Sessions /\ r \in Roles /\ Owner[r] \in Held(s)
    BY <2>1, SessionOfJob
  <2> HIDE DEF s, r
  <2>3. \A t \in Sessions : t # s => role'[t] = role[t]
    BY <1>0, <2>1, <2>2
  <2>4. role'[s] = role[s] \/ role'[s] = r
    BY <1>0, <2>1, <2>2
  <2>5. ASSUME NEW t \in Sessions, t = s PROVE Held(t)' \subseteq Held(t)
    <3>1. role'[t] = role[t] \/ role'[t] = r
      BY <2>4, <2>5
    <3>2. Owner[r] \in Held(t)
      BY <2>2, <2>5
    <3> QED
      BY <1>4, <3>1, <3>2 DEF Held
  <2>6. \A t \in Sessions : Held(t)' \subseteq Held(t)
    BY <1>4, <2>3, <2>5, HeldShrinks
  <2> QED
    BY <2>1, <2>6 DEF Apart
<1>5. CASE UnderWay' \subseteq UnderWay
  <2>1. CASE \A w \in Workers : ~ChooseRole(w)
    <3>1. \/ \E s \in Sessions : Accept(s)
          \/ role' = role /\ \A t \in Sessions : conn'[t] = "open" => conn[t] = "open"
      BY <1>0, <2>1 DEF Next, Epoll, Work, Hangup, Receive, DeleteRole, Leftover, Pop, UseRole, EnterScene, LookAround,
             SendSurrounding, Walk, vars
    <3> QED
      BY <1>1, <1>2, <1>5, <3>1
  <2> QED
    BY <1>4, <1>5, <2>1
<1> QED
  BY <1>3, <1>5, UnderWayStep

\* The account's role stays the one its connection plays, and only who is not
\* connected any more is deleted or has an old copy.
LEMMA SessionalStep ==
  ASSUME Typed, Typed', OneEach, AllFit, Apart, Sessional, [Next]_vars, setting.clients # "any"
  PROVE  Sessional'
<1>0. conn \in [Sessions -> {"new", "open", "closed"}] /\ role \in [Sessions -> Roles \union {NoRole}]
      /\ current \in [Accounts -> Roles \union {NoRole}] /\ freed \subseteq Sessions /\ stale \subseteq Sessions
  BY DEF Typed
<1>1. CASE UNCHANGED <<conn, role, freed, current, stale, ending>>
  BY <1>1 DEF Sessional
<1>2. ASSUME NEW s \in Sessions, Accept(s) PROVE Sessional'
  <2>1. UNCHANGED <<role, freed, current, stale, ending>> /\ conn' = [conn EXCEPT ![s] = "open"] /\ conn[s] = "new"
    BY <1>2 DEF Accept, copies
  <2> QED
    BY <1>0, <2>1, WorldAssumption DEF Sessional, Typed
<1>3. ASSUME NEW s \in Sessions, Hangup(s) PROVE Sessional'
  <2>1. UNCHANGED <<role, freed, current, stale>> /\ conn' = [conn EXCEPT ![s] = "closed"] /\ conn[s] = "open"
        /\ ending'.ses = s
    BY <1>3 DEF Hangup, copies
  <2>2. s \notin freed
    BY <2>1 DEF Sessional
  <2> QED
    BY <1>0, <2>1, <2>2 DEF Sessional
<1>4. CASE DeleteRole
  <2>1. UNCHANGED <<conn, role, current, stale>> /\ freed' = freed \union {ending.ses} /\ ending.at = "delete"
        /\ ending'.ses = ending.ses /\ ending'.at = "leftover" /\ ending.ses # NoSession
    BY <1>4, WorldAssumption DEF DeleteRole, copies, Typed, Idle
  <2> QED
    BY <2>1 DEF Sessional
<1>5. CASE Leftover
  <2>1. UNCHANGED <<conn, role, freed, current, stale>> /\ ending'.ses = NoSession /\ ending'.at = "idle"
    BY <1>5 DEF Leftover, copies, Idle
  <2> QED
    BY <2>1 DEF Sessional
<1>6. ASSUME NEW w \in Workers, ChooseRole(w) PROVE Sessional'
  <2> DEFINE s == job[w].m.ses
             r == job[w].m.role
  <2>1. Busy(w) /\ UNCHANGED <<conn, freed, stale, ending>> /\ job[w].m.do = "choose" /\ job[w].at = "start"
        /\ role' = [role EXCEPT ![s] = IF role[s] = NoRole THEN r ELSE role[s]]
        /\ current' = [current EXCEPT ![Owner[r]] = r]
    BY <1>6 DEF ChooseRole, At, Busy, copies
  <2>2. s \in Sessions /\ conn[s] = "open" /\ r \in Roles /\ Owner[r] \in Held(s) /\ s # ending.ses
    BY <2>1, SessionOfJob
  <2>3. role[s] = NoRole
    BY <2>1 DEF AllFit, Fits
  <2>4. Owner[r] \in Accounts
    BY <2>2, WorldAssumption
  <2> HIDE DEF s, r
  <2>5. role'[s] = r /\ \A t \in Sessions : t # s => role'[t] = role[t]
    BY <1>0, <2>1, <2>2, <2>3
  <2>6. current'[Owner[r]] = r /\ \A a \in Accounts : a # Owner[r] => current'[a] = current[a]
    BY <1>0, <2>1, <2>4
  <2>7. ASSUME NEW t \in Sessions, t # s, conn[t] = "open", role[t] # NoRole
        PROVE  current'[Owner[role[t]]] = role[t]
    <3>1. Owner[role[t]] \in Held(t)
      BY <2>7, HeldIs
    <3>2. Owner[role[t]] # Owner[r]
      BY <2>2, <2>7, <3>1 DEF Apart
    <3>3. Owner[role[t]] \in Accounts
      BY <1>0, <2>7, WorldAssumption
    <3> QED
      BY <2>6, <2>7, <3>2, <3>3 DEF Sessional
  <2>8. \A t \in Sessions : conn'[t] = "open" /\ role'[t] # NoRole => current'[Owner[role'[t]]] = role'[t]
    BY <2>1, <2>5, <2>6, <2>7
  <2>9. \A t \in Sessions : conn'[t] = "new" => role'[t] = NoRole
    BY <2>1, <2>2, <2>5 DEF Sessional
  <2> QED
    BY <2>1, <2>8, <2>9 DEF Sessional
<1>7. ASSUME NEW w \in Workers, UseRole(w) PROVE Sessional'
  <2>1. Busy(w) /\ UNCHANGED <<conn, role, freed, current, ending>>
    BY <1>7 DEF UseRole, At, Busy
  <2>2. \A t \in stale' : conn[t] = "closed"
    <3> DEFINE s == job[w].m.ses
    <3>1. CASE job[w].m.do = "choose" \/ role[s] = NoRole
      BY <1>7, <3>1 DEF UseRole, copies, Sessional
    <3>2. CASE role[s] # NoRole
      <4>1. \A t \in Sessions : t # s /\ role[t] = role[s] => conn[t] = "closed"
        BY <2>1, <3>2, SessionOfJob
      <4>2. stale' \subseteq stale \union {t \in Sessions \ {s} : role[t] = role[s]}
        BY <1>7 DEF UseRole, Save, copies
      <4> QED
        BY <4>1, <4>2 DEF Sessional
    <3> QED
      BY <3>1, <3>2
  <2> QED
    BY <2>1, <2>2 DEF Sessional
<1> QED
  BY <1>1, <1>2, <1>3, <1>4, <1>5, <1>6, <1>7
     DEF Next, Epoll, Receive, Work, Pop, EnterScene, LookAround, SendSurrounding, Walk, vars, copies


\* The scene goes on showing who is there: who enters finds the place under its own
\* role free or its own, and who hangs up leaves its own (Scene::addPlayer, leaveScene).
LEMMA LiveStep ==
  ASSUME Typed, Typed', OneEach, AllFit, Apart, Sessional, Live, [Next]_vars, setting.clients # "any"
  PROVE  Live'
<1>0. conn \in [Sessions -> {"new", "open", "closed"}] /\ role \in [Sessions -> Roles \union {NoRole}]
      /\ here \subseteq Sessions /\ (\A r \in DOMAIN players : players[r] \in Sessions)
      /\ \A s \in here : role[s] # NoRole
  BY DEF Typed
<1>1. CASE UNCHANGED <<conn, role, freed, here, players>>
  BY <1>1 DEF Live
<1>2. ASSUME NEW s \in Sessions, Accept(s) PROVE Live'
  <2>1. UNCHANGED <<role, freed, here, players>> /\ conn' = [conn EXCEPT ![s] = "open"] /\ role[s] = NoRole
    BY <1>2 DEF Accept, Sessional
  <2> QED
    BY <1>0, <2>1 DEF Live
<1>3. ASSUME NEW s \in Sessions, Hangup(s) PROVE Live'
  <2>1. UNCHANGED <<role, freed, here>> /\ conn' = [conn EXCEPT ![s] = "closed"] /\ conn[s] = "open"
    BY <1>3 DEF Hangup
  <2>2. /\ DOMAIN players' = IF s \in here THEN DOMAIN players \ {role[s]} ELSE DOMAIN players
        /\ \A x \in DOMAIN players' : players'[x] = players[x]
    <3>1. CASE players' = LeaveScene(s)
      BY <3>1, PlayersLeave
    <3>2. CASE UNCHANGED players /\ role[s] = NoRole
      BY <1>0, <3>2
    <3> QED
      BY <1>3, <3>1, <3>2 DEF Hangup
  <2>3. \A x \in DOMAIN players' : x \in DOMAIN players /\ players[x] # s
    BY <2>2 DEF Live
  <2>4. \A t \in here : t # s /\ conn[t] = "open" => role[t] \in DOMAIN players'
    <3> TAKE t \in here
    <3>1. SUFFICES ASSUME t # s, conn[t] = "open", s \in here, role[t] = role[s] PROVE FALSE
      BY <2>2 DEF Live
    <3> QED
      BY <2>1, <3>1 DEF Live
  <2> QED
    BY <1>0, <2>1, <2>2, <2>3, <2>4 DEF Live
<1>4. CASE DeleteRole
  <2>1. UNCHANGED <<conn, role, here, players>> /\ freed' = freed \union {ending.ses} /\ ending.ses # NoSession
    BY <1>4, WorldAssumption DEF DeleteRole, Typed, Idle
  <2> QED
    BY <2>1 DEF Live, Sessional
<1>5. ASSUME NEW w \in Workers, ChooseRole(w) PROVE Live'
  <2> DEFINE s == job[w].m.ses
  <2>1. Busy(w) /\ UNCHANGED <<conn, freed, here, players>> /\ job[w].m.do = "choose" /\ job[w].at = "start"
        /\ role' = [role EXCEPT ![s] = IF role[s] = NoRole THEN job[w].m.role ELSE role[s]]
    BY <1>5 DEF ChooseRole, At, Busy
  <2>2. role[s] = NoRole
    BY <2>1 DEF AllFit, Fits
  <2> HIDE DEF s
  <2>3. \A t \in here : role'[t] = role[t]
    BY <1>0, <2>1, <2>2
  <2> QED
    BY <2>1, <2>3 DEF Live
<1>6. ASSUME NEW w \in Workers, EnterScene(w) PROVE Live'
  <2> DEFINE s == job[w].m.ses
             r == current[job[w].m.account]
  <2>1. Busy(w) /\ UNCHANGED <<conn, role, freed>> /\ job[w].m.do = "enter"
    BY <1>6 DEF EnterScene, At, Busy
  <2>2. s \in Sessions /\ conn[s] = "open" /\ s \notin freed /\ role[s] # NoRole /\ r = role[s]
    BY <2>1, SessionOfJob
  <2>3. here' = here \union {s} /\ players' = AddPlayer(r, s)
    BY <1>6, <2>2 DEF EnterScene
  <2>4. r \in DOMAIN players => players[r] = s
    <3>1. ASSUME r \in DOMAIN players, players[r] # s PROVE FALSE
      <4>1. role[players[r]] = role[s] /\ conn[players[r]] = "open" /\ players[r] \in Sessions
        BY <1>0, <2>2, <3>1 DEF Live
      <4>2. Owner[role[s]] \in Held(s) /\ Owner[role[s]] \in Held(players[r])
        BY <2>2, <4>1, HeldIs
      <4> QED
        BY <2>2, <3>1, <4>1, <4>2 DEF Apart
    <3> QED
      BY <3>1
  <2> HIDE DEF s, r
  <2>5. DOMAIN players' = DOMAIN players \union {r} /\ players'[r] = s
        /\ \A x \in DOMAIN players : players'[x] = players[x]
    BY <2>3, <2>4 DEF AddPlayer
  <2> QED
    BY <2>1, <2>2, <2>3, <2>5 DEF Live
<1>7. CASE Leftover
  BY <1>1, <1>7 DEF Leftover
<1> QED
  BY <1>1, <1>2, <1>3, <1>4, <1>5, <1>6, <1>7
     DEF Next, Epoll, Receive, Work, Pop, UseRole, LookAround, SendSurrounding, Walk, vars

\* Who is sent as somebody's surrounding has a role, and stays while quiet clients
\* have a request under way.
LEMMA SurroundingStep ==
  ASSUME Typed, Typed', Live, Surrounding, [Next]_vars, setting.clients # "any"
  PROVE  Surrounding'
<1>0. conn \in [Sessions -> {"new", "open", "closed"}] /\ job \in [Workers -> Jobs \union {NoJob}] /\ setting' = setting
      /\ \A s \in Sessions : role[s] # NoRole => role'[s] = role[s]
  BY RoleStays DEF Typed
<1>1. \A w \in Workers : Busy(w) /\ job[w].at = "send" => job[w].seen \subseteq Sessions
  BY JobType
<1>2. CASE UNCHANGED <<job, conn>>
  BY <1>0, <1>1, <1>2 DEF Surrounding, Busy
<1>3. ASSUME NEW s \in Sessions, Accept(s) PROVE Surrounding'
  <2>1. UNCHANGED job /\ conn' = [conn EXCEPT ![s] = "open"]
    BY <1>3 DEF Accept
  <2> QED
    BY <1>0, <1>1, <2>1 DEF Surrounding, Busy
<1>4. ASSUME NEW s \in Sessions, Hangup(s) PROVE Surrounding'
  <2>1. UNCHANGED job /\ conn' = [conn EXCEPT ![s] = "closed"]
    BY <1>4 DEF Hangup
  <2>2. setting.clients = "quiet" => \A w \in Workers : ~Busy(w)
    BY <1>4, HangupAlone, UnderWayIs
  <2> QED
    BY <1>0, <1>1, <2>1, <2>2 DEF Surrounding, Busy
<1>5. ASSUME NEW w \in Workers, Pop(w) PROVE Surrounding'
  <2>1. UNCHANGED conn /\ job' = [job EXCEPT ![w] = [m |-> Head(queue), at |-> "start"]]
    BY <1>5 DEF Pop
  <2>2. \A x \in Workers : x = w \/ job'[x] = job[x]
    BY <1>0, <2>1
  <2>3. job'[w].at = "start"
    BY <1>0, <2>1
  <2> QED
    BY <1>0, <1>1, <2>1, <2>2, <2>3 DEF Surrounding, Busy
<1>6. ASSUME NEW w \in Workers, Work(w), ~Pop(w) PROVE Surrounding'
  <2>1. UNCHANGED conn /\ \A x \in Workers : x = w \/ job'[x] = job[x]
    BY <1>0, <1>6, WorkerMoves
  <2>2. ASSUME (Busy(w))', job'[w].at = "send"
        PROVE  job'[w].seen \subseteq {players[x] : x \in DOMAIN players}
    BY <1>0, <1>6, <2>2, WorkerMoves DEF Busy
  <2>3. \A x \in DOMAIN players : players[x] \in Sessions /\ role[players[x]] # NoRole /\ conn[players[x]] = "open"
    BY WorldAssumption DEF Live, Typed
  <2>4. ASSUME (Busy(w))', job'[w].at = "send", NEW s \in job'[w].seen
        PROVE  role'[s] # NoRole /\ (setting'.clients = "quiet" => conn'[s] = "open")
    BY <1>0, <2>1, <2>2, <2>3, <2>4
  <2>5. ASSUME NEW x \in Workers, x # w, (Busy(x))', job'[x].at = "send", NEW s \in job'[x].seen
        PROVE  role'[s] # NoRole /\ (setting'.clients = "quiet" => conn'[s] = "open")
    BY <1>0, <1>1, <2>1, <2>5 DEF Surrounding, Busy
  <2> QED
    BY <2>4, <2>5 DEF Surrounding
<1> QED
  BY <1>2, <1>3, <1>4, <1>5, <1>6 DEF Next, Epoll, Receive, DeleteRole, Leftover, Work, vars

\* The copy a session saves is not an old one.
LEMMA SaveStep ==
  ASSUME Typed, OneEach, AllFit, Apart, Sessional, [Next]_vars, setting.clients # "any", lostSave = FALSE
  PROVE  lostSave' = FALSE
<1>1. ASSUME NEW w \in Workers, UseRole(w) PROVE lostSave' = FALSE
  <2>1. Busy(w)
    BY <1>1 DEF UseRole, At, Busy
  <2>2. job[w].m.ses \notin stale
    BY <2>1, SessionOfJob
  <2> QED
    BY <1>1, <2>2 DEF UseRole, Save, copies
<1> QED
  BY <1>1 DEF Next, Epoll, Accept, Receive, Hangup, DeleteRole, Leftover, Work, Pop, ChooseRole, EnterScene, LookAround,
              SendSurrounding, Walk, vars, copies

\* At the start no client has done anything.
LEMMA PoliteInit == Init => Polite
<1> SUFFICES ASSUME Init PROVE Polite
  OBVIOUS
<1>1. Apart
  BY DEF Init, Apart
<1> QED
  BY <1>1, WorldAssumption DEF Init, Polite, OneEach, AllFit, Sessional, Live, Surrounding, Busy, Idle

\* The type of every variable, and what polite clients add to it, are an invariant.
LEMMA WorldInvHolds == Spec => []WorldInv
<1>1. Init => WorldInv
  BY TypedInit, PoliteInit DEF WorldInv
<1>2. ASSUME WorldInv, [Next]_vars PROVE WorldInv'
  <2>1. Typed /\ Typed' /\ setting' = setting
    BY <1>2, TypedStep, RoleStays DEF WorldInv
  <2>2. ASSUME setting.clients # "any" PROVE Polite'
    BY <1>2, <2>1, <2>2, OneEachStep, AllFitStep, ApartStep, SessionalStep, LiveStep, SurroundingStep, SaveStep
       DEF WorldInv, Polite
  <2> QED
    BY <2>1, <2>2 DEF WorldInv
<1> QED
  BY <1>1, <1>2, PTL DEF Spec

\* With polite clients the scene shows who is there and no save undoes another,
\* however the workers and the epoll thread overlap (scene.cpp, player_session.cpp,
\* Role::flushToDB).
THEOREM ScenesAreLive == Spec => []SceneIsLive
<1>1. WorldInv => SceneIsLive
  BY DEF WorldInv, Polite, Live, SceneIsLive
<1> QED
  BY <1>1, WorldInvHolds, PTL

\* No copy of a role that is older than its row is saved over it.
THEOREM SavesAreKept == Spec => []NoLostSave
<1>1. WorldInv => NoLostSave
  BY DEF WorldInv, Polite, NoLostSave
<1> QED
  BY <1>1, WorldInvHolds, PTL

-----------------------------------------------------------------------------
(* Uses of a role that is not there.                                       *)

\* Roles that are there are used without harm.
LEMMA TouchLive ==
  ASSUME Typed, NEW S, Touch(S), \A s \in S : role[s] # NoRole /\ s \notin freed
  PROVE  misused' = misused
<1>1. Null(S) = {} /\ S \intersect freed = {}
  BY DEF Null
<1> QED
  BY <1>1 DEF Touch, Typed

\* With polite clients a role is misused only by a worker that sends it as part of a
\* player's surrounding, after its session was closed and left the scene
\* (Scene::sendSurrounding against PlayerSession::close).
LEMMA MisuseStep ==
  ASSUME WorldInv, [Next]_vars, setting.clients # "any", ~misused, misused'
  PROVE  /\ setting.clients # "quiet"
         /\ \E w \in Workers :
              /\ SendSurrounding(w)
              /\ \E s \in job[w].seen : conn[s] = "closed" /\ \A r \in DOMAIN players : players[r] # s
<1>0. Typed /\ AllFit /\ Apart /\ Sessional /\ Live /\ Surrounding
  BY DEF WorldInv, Polite
<1>1. ASSUME NEW w \in Workers, SendSurrounding(w)
      PROVE  /\ setting.clients # "quiet"
             /\ \E s \in job[w].seen : conn[s] = "closed" /\ \A r \in DOMAIN players : players[r] # s
  <2>1. Busy(w) /\ job[w].at = "send" /\ Touch(job[w].seen)
    BY <1>1 DEF SendSurrounding, At, Busy, Touch
  <2>2. \A s \in job[w].seen : role[s] # NoRole /\ (setting.clients = "quiet" => conn[s] = "open")
    BY <1>0, <2>1 DEF Surrounding
  <2>3. PICK s \in job[w].seen : s \in freed
    BY <1>0, <2>1, <2>2, TouchLive
  <2>4. conn[s] = "closed"
    BY <1>0, <2>3 DEF Sessional
  <2>5. \A r \in DOMAIN players : players[r] # s
    BY <1>0, <2>3 DEF Live
  <2> QED
    BY <2>2, <2>4, <2>5
<1>2. ASSUME NEW w \in Workers, UseRole(w) \/ EnterScene(w) \/ Walk(w) PROVE FALSE
  <2> DEFINE s == job[w].m.ses
  <2>1. Busy(w) /\ (job[w].m.do # "choose" \/ job[w].at = "use")
    BY <1>2 DEF UseRole, EnterScene, Walk, At, Busy
  <2>2. \A t \in {s} : role[t] # NoRole /\ t \notin freed
    BY <1>0, <2>1, SessionOfJob
  <2>3. Touch({s}) \/ misused' = misused
    BY <1>2 DEF UseRole, EnterScene, Walk
  <2> HIDE DEF s
  <2> QED
    BY <1>0, <2>2, <2>3, TouchLive
<1>3. CASE DeleteRole
  <2>1. Touch({ending.ses}) /\ ending.at = "delete"
    BY <1>3 DEF DeleteRole
  <2>2. \A t \in {ending.ses} : role[t] # NoRole /\ t \notin freed
    BY <1>0, <2>1 DEF Typed, Sessional
  <2> QED
    BY <1>0, <2>1, <2>2, TouchLive
<1> QED
  BY <1>1, <1>2, <1>3
     DEF Next, Epoll, Accept, Receive, Hangup, Leftover, Work, Pop, ChooseRole, LookAround, vars

\* A deleted role is used in one overlap only, and in none when clients hang up
\* while nothing is under way.
THEOREM MisuseNeedsOverlap == Spec => MisuseByOverlap
<1>1. WorldInv /\ [Next]_vars =>
        (setting.clients # "any" /\ ~misused /\ misused' =>
           /\ setting.clients # "quiet"
           /\ \E w \in Workers :
                /\ SendSurrounding(w)
                /\ \E s \in job[w].seen : conn[s] = "closed" /\ \A r \in DOMAIN players : players[r] # s)
  BY MisuseStep
<1> QED
  BY <1>1, WorldInvHolds, PTL DEF Spec, MisuseByOverlap
=============================================================================
