-------------------------------- MODULE World --------------------------------
(***************************************************************************)
(* Connections, the roles they play and the scene they play in:            *)
(* player_session.cpp, scene.cpp, the requests of role_servlet.cpp and     *)
(* scene_servlet.cpp that change them, and the end of a connection in      *)
(* epoll_server.cpp.                                                       *)
(*                                                                         *)
(* The epoll thread ends a connection, with all of PlayerSession::close,   *)
(* while the workers run requests of the same connection and of others.    *)
(* Every step that another thread may come between is an action.  The      *)
(* queue is the FIFO channel RingQueue is in its first lap.  Nothing fills *)
(* the maps of PlayerSessionManager, so a session only ever gets the Role  *)
(* it loads itself, once, and role objects are named by their session.     *)
(***************************************************************************)
EXTENDS Naturals, Sequences, FiniteSets, SequencesExt

CONSTANTS
  Sessions,   \* connections
  Accounts,   \* accounts
  Roles,      \* roles
  Owner,      \* [Roles -> Accounts]
  Workers,    \* worker threads
  NoRole, NoSession, NoJob,
  Settings    \* what is known of the clients, the roles they ask for, and bounds on
              \* the connections, the threads that work at once and the messages

ASSUME WorldAssumption ==
  /\ Owner \in [Roles -> Accounts] /\ NoRole \notin Roles /\ NoSession \notin Sessions
  /\ \A x \in Settings :
       /\ x.clients \in {"any", "polite", "quiet"} /\ x.roles \subseteq Roles
       /\ {x.conns, x.threads, x.queue} \subseteq Nat

VARIABLES
  setting,  \* one of Settings, for good
  conn,     \* "new", "open" or "closed"
  role,     \* m_role: the role id in it, or NoRole for NULL
  freed,    \* sessions whose m_role was deleted (the pointer stays)
  here,     \* sessions whose role has its m_scene set
  current,  \* AccountInfo::current, by account
  players,  \* Scene::m_players: role id -> session
  queue,    \* messages
  job,      \* what each worker is at: a request and the step it is about to do
  ending,   \* the connection the epoll thread is ending, and the step it is at
  alive,    \* FALSE once the process has died
  misused,  \* history: a deleted or a NULL role was used
  stale,    \* sessions whose copy of the role is not what its row says
  lostSave  \* history: a stale copy was saved over the row

vars == <<setting, conn, role, freed, here, current, players, queue, job, ending, alive, misused,
          stale, lostSave>>
copies == <<stale, lostSave>>

Idle == [ses |-> NoSession, at |-> "idle"]

Init ==
  /\ setting \in Settings
  /\ conn = [s \in Sessions |-> "new"] /\ role = [s \in Sessions |-> NoRole]
  /\ freed = {} /\ here = {} /\ current = [a \in Accounts |-> NoRole]
  /\ players = [r \in {} |-> NoSession] /\ queue = <<>>
  /\ job = [w \in Workers |-> NoJob] /\ ending = Idle /\ alive = TRUE /\ misused = FALSE
  /\ stale = {} /\ lostSave = FALSE

Request(s) ==
  [ses : {s}, do : {"choose"}, role : setting.roles]
    \union [ses : {s}, do : {"enter", "walk"}, account : {Owner[r] : r \in setting.roles}]
    \union [ses : {s}, do : {"use", "gem"}]

\* A use of the roles of the sessions in S: of a deleted one anything may come,
\* of a NULL one the death of the process.
Null(S) == {s \in S : role[s] = NoRole}
Touch(S) ==
  /\ misused' = (misused \/ Null(S) \union (S \intersect freed) # {})
  /\ alive' \in IF Null(S) # {} THEN {FALSE} ELSE IF S \intersect freed # {} THEN BOOLEAN ELSE {TRUE}

-----------------------------------------------------------------------------
(* What the clients keep to.                                               *)

UnderWay == ToSet(queue) \union {job[w].m : w \in {x \in Workers : job[x] # NoJob}}
Waits(s) == \E m \in UnderWay : m.ses = s

\* The accounts an open connection plays or asks to play.
Held(s) ==
  {Owner[role[s]] : x \in {y \in {s} : role[y] # NoRole}}
    \union {Owner[m.role] : m \in {x \in UnderWay : x.ses = s /\ x.do = "choose"}}

\* Polite clients and quiet ones send one request at a time; first the choice of a
\* role of an account that no other open connection plays, then requests for that
\* account.
Proper(s, m) ==
  \/ setting.clients = "any"
  \/ /\ ~Waits(s)
     /\ IF role[s] = NoRole
        THEN m.do = "choose" /\ \A x \in Sessions : conn[x] = "open" => Owner[m.role] \notin Held(x)
        ELSE \/ m.do \in {"use", "gem"}
             \/ m.do \in {"enter", "walk"} /\ m.account = Owner[role[s]]

\* Polite clients hang up when no request of their own is under way, quiet ones
\* when none at all is.
MayHangup(s) == setting.clients = "any" \/ (setting.clients = "polite" /\ ~Waits(s)) \/ UnderWay = {}

-----------------------------------------------------------------------------
(* The epoll thread.                                                       *)

Accept(s) ==
  /\ alive /\ conn[s] = "new" /\ Cardinality({t \in Sessions : conn[t] # "new"}) < setting.conns
  /\ conn' = [conn EXCEPT ![s] = "open"]
  /\ UNCHANGED <<setting, copies, role, freed, here, current, players, queue, job, ending, alive, misused>>

Push(m) == Len(queue) < setting.queue /\ queue' = Append(queue, m)

Receive(s, m) ==
  /\ alive /\ ending = Idle /\ conn[s] = "open" /\ Proper(s, m) /\ Push(m)
  /\ UNCHANGED <<setting, copies, conn, role, freed, here, current, players, job, ending, alive, misused>>

\* PlayerSession::close, first half: the descriptor, then the scene.  The role
\* leaves under its own id.
LeaveScene(s) == IF s \in here THEN [r \in DOMAIN players \ {role[s]} |-> players[r]] ELSE players

\* The peer closed the connection or the read failed.
Hangup(s) ==
  /\ alive /\ ending = Idle /\ conn[s] = "open" /\ MayHangup(s)
  /\ conn' = [conn EXCEPT ![s] = "closed"]
  /\ IF role[s] = NoRole THEN ending' = [ses |-> s, at |-> "leftover"] /\ UNCHANGED players
     ELSE ending' = [ses |-> s, at |-> "delete"] /\ players' = LeaveScene(s)
  /\ UNCHANGED <<setting, copies, role, freed, here, current, queue, job, alive, misused>>

\* PlayerSession::playerOffline, second half; the pointer is not reset.
DeleteRole ==
  /\ alive /\ ending.at = "delete"
  /\ Touch({ending.ses}) /\ freed' = freed \union {ending.ses}
  /\ ending' = [ending EXCEPT !.at = "leftover"]
  /\ UNCHANGED <<setting, copies, conn, role, here, current, players, queue, job>>

\* epollRoutine goes on with the buffer of the connection it has just closed: a
\* request in it is pushed, and bytes that do not parse close it once more, with
\* whatever is left of its role.  Only clients of any kind leave something there.
Leftover ==
  LET s == ending.ses IN
  /\ alive /\ ending.at = "leftover" /\ ending' = Idle
  /\ \/ UNCHANGED <<players, queue, alive, misused>>
     \/ /\ setting.clients = "any" /\ \E m \in Request(s) : Push(m)
        /\ UNCHANGED <<players, alive, misused>>
     \/ /\ setting.clients = "any" /\ UNCHANGED queue
        /\ IF role[s] = NoRole THEN UNCHANGED <<players, alive, misused>>
           ELSE Touch({s}) /\ players' \in {players, LeaveScene(s)}
  /\ UNCHANGED <<setting, copies, conn, role, freed, here, current, job>>

-----------------------------------------------------------------------------
(* The workers.                                                            *)

Pop(w) ==
  /\ alive /\ job[w] = NoJob /\ queue # <<>>
  /\ Cardinality({x \in Workers : job[x] # NoJob}) < setting.threads
  /\ job' = [job EXCEPT ![w] = [m |-> Head(queue), at |-> "start"]] /\ queue' = Tail(queue)
  /\ UNCHANGED <<setting, copies, conn, role, freed, here, current, players, ending, alive, misused>>

At(w, do, at) == alive /\ job[w] # NoJob /\ job[w].m.do = do /\ job[w].at = at
Goto(w, at) == job' = [job EXCEPT ![w].at = at]
Finish(w) == job' = [job EXCEPT ![w] = NoJob]

\* Mutant of ChooseRole: the copy of an earlier session is taken from a cache.
ChooseRoleCached(w) ==
  LET s == job[w].m.ses  r == job[w].m.role IN
  /\ At(w, "choose", "start")
  /\ current' = [current EXCEPT ![Owner[r]] = r]
  /\ role' = [role EXCEPT ![s] = IF @ = NoRole THEN r ELSE @]
  /\ stale' = IF \E t \in stale : role[t] = r THEN stale \union {s} ELSE stale
  /\ Goto(w, "use")
  /\ UNCHANGED <<setting, lostSave, conn, freed, here, players, queue, ending, alive, misused>>

\* doChooseRole: the account's role changes; the session's only if it has none.
\* Then the role is read for the answer.
ChooseRole(w) ==
  LET s == job[w].m.ses  r == job[w].m.role IN
  /\ At(w, "choose", "start")
  /\ current' = [current EXCEPT ![Owner[r]] = r]
  /\ role' = [role EXCEPT ![s] = IF @ = NoRole THEN r ELSE @]
  /\ Goto(w, "use")
  /\ UNCHANGED <<setting, copies, conn, freed, here, players, queue, ending, alive, misused>>

\* Role::flushToDB writes the whole of the session's copy over the row, and every
\* other session that has loaded the role has an old copy from then on.
Save(s) ==
  /\ stale' = (stale \ {s}) \union {t \in Sessions \ {s} : role[t] = role[s]}
  /\ lostSave' = (lostSave \/ s \in stale)

\* A request for the bags asks first whether there is a role, one for gems or
\* tasks does not.
UseRole(w) ==
  /\ At(w, "choose", "use") \/ At(w, "use", "start") \/ At(w, "gem", "start")
  /\ IF job[w].m.do = "use" /\ role[job[w].m.ses] = NoRole THEN UNCHANGED <<alive, misused>>
     ELSE Touch({job[w].m.ses})
  /\ IF job[w].m.do = "choose" \/ role[job[w].m.ses] = NoRole THEN UNCHANGED copies
     ELSE Save(job[w].m.ses)
  /\ Finish(w)
  /\ UNCHANGED <<setting, conn, role, freed, here, current, players, queue, ending>>

\* Scene::addPlayer: over no other session.
AddPlayer(r, s) == [x \in DOMAIN players \union {r} |-> IF x \in DOMAIN players THEN players[x] ELSE s]

\* Mutants of EnterScene: the scene is not told to the role; it is told to a role
\* that is not there.
EnterSceneUntold(w) ==
  LET s == job[w].m.ses  r == current[job[w].m.account] IN
  /\ At(w, "enter", "start")
  /\ IF r = NoRole THEN Finish(w) /\ UNCHANGED <<players, alive, misused>>
     ELSE /\ Touch({s}) /\ players' = AddPlayer(r, s) /\ Goto(w, "surround")
  /\ UNCHANGED <<setting, copies, conn, role, freed, here, current, queue, ending>>

EnterSceneNull(w) ==
  LET s == job[w].m.ses  r == current[job[w].m.account] IN
  /\ At(w, "enter", "start")
  /\ IF r = NoRole THEN Finish(w) /\ UNCHANGED <<here, players, alive, misused>>
     ELSE /\ UNCHANGED <<alive, misused>> /\ here' = here \union {s}
          /\ players' = AddPlayer(r, s) /\ Goto(w, "surround")
  /\ UNCHANGED <<setting, copies, conn, role, freed, current, queue, ending>>

\* doEnterScene: the role of the session is put in the scene, the session is
\* put there under the id of the account's role.
EnterScene(w) ==
  LET s == job[w].m.ses  r == current[job[w].m.account] IN
  /\ At(w, "enter", "start")
  /\ IF r = NoRole THEN Finish(w) /\ UNCHANGED <<here, players, alive, misused>>
     ELSE /\ Touch({s}) /\ here' = IF role[s] = NoRole THEN here ELSE here \union {s}
          /\ players' = AddPlayer(r, s) /\ Goto(w, "surround")
  /\ UNCHANGED <<setting, copies, conn, role, freed, current, queue, ending>>

\* sendSurrounding walks over the other players of the scene ...
LookAround(w) ==
  LET r == current[job[w].m.account] IN
  /\ At(w, "enter", "surround")
  /\ job' = [job EXCEPT ![w] = [m |-> @.m, at |-> "send",
                                seen |-> {players[x] : x \in DOMAIN players \ {r}}]]
  /\ UNCHANGED <<setting, copies, conn, role, freed, here, current, players, queue, ending, alive, misused>>

\* ... and reads the role of each.
SendSurrounding(w) ==
  /\ At(w, "enter", "send") /\ Touch(job[w].seen) /\ Finish(w)
  /\ UNCHANGED <<setting, copies, conn, role, freed, here, current, players, queue, ending>>

\* doAvatarWalk reads the scene of the session's role.
Walk(w) ==
  /\ At(w, "walk", "start")
  /\ IF current[job[w].m.account] = NoRole THEN UNCHANGED <<alive, misused>>
     ELSE Touch({job[w].m.ses})
  /\ Finish(w)
  /\ UNCHANGED <<setting, copies, conn, role, freed, here, current, players, queue, ending>>

Work(w) ==
  \/ Pop(w) \/ ChooseRole(w) \/ UseRole(w) \/ EnterScene(w)
  \/ LookAround(w) \/ SendSurrounding(w) \/ Walk(w)
Epoll ==
  \/ \E s \in Sessions : Accept(s) \/ Hangup(s) \/ \E m \in Request(s) : Receive(s, m)
  \/ DeleteRole \/ Leftover

Next == Epoll \/ \E w \in Workers : Work(w)
Spec == Init /\ [][Next]_vars

-----------------------------------------------------------------------------
(* Properties.                                                             *)

\* The type of every variable.
TypeOK ==
  /\ setting \in Settings
  /\ conn \in [Sessions -> {"new", "open", "closed"}]
  /\ role \in [Sessions -> Roles \union {NoRole}]
  /\ {freed, here} \subseteq SUBSET {s \in Sessions : role[s] # NoRole}
  /\ current \in [Accounts -> Roles \union {NoRole}]
  /\ \A a \in Accounts : current[a] # NoRole => Owner[current[a]] = a
  /\ DOMAIN players \subseteq Roles /\ \A r \in DOMAIN players : players[r] \in Sessions
  /\ \A m \in UnderWay : m \in Request(m.ses)
  /\ ending.at \in {"idle", "delete", "leftover"} /\ (ending = Idle <=> ending.ses = NoSession)
  /\ {alive, misused, lostSave} \subseteq BOOLEAN /\ stale \subseteq Sessions

\* With polite clients the scene shows who is there: the player under a role's
\* id is the one session that plays that role, and it has not been deleted; and
\* a session whose role is in the scene is found there under that role until
\* its connection ends (addPlayer never overwrites, leaveScene takes the role's
\* own id).
SceneIsLive ==
  alive /\ setting.clients # "any" =>
    /\ \A r \in DOMAIN players :
         role[players[r]] = r /\ players[r] \in here \ freed /\ conn[players[r]] = "open"
    /\ \A s \in here : conn[s] = "open" => role[s] \in DOMAIN players /\ players[role[s]] = s

\* With polite clients a deleted role is only ever used by a worker that was
\* sending a player its surrounding: the role of one of those around, who has
\* hung up and left the scene since.  When clients moreover hang up only while no
\* request at all is under way, none is ever used, nor left behind in the scene.
MisuseByOverlap ==
  [][setting.clients # "any" /\ ~misused /\ misused' =>
       /\ setting.clients # "quiet"
       /\ \E w \in Workers :
            /\ SendSurrounding(w)
            /\ \E s \in job[w].seen :
                 conn[s] = "closed" /\ \A r \in DOMAIN players : players[r] # s]_vars

\* With polite clients no save undoes another: the role of an account is played by
\* one open connection, whose requests are over before it ends, so what it loads
\* is what the one before it saved, whatever the two workers are at.
NoLostSave == setting.clients # "any" => ~lostSave
=============================================================================
