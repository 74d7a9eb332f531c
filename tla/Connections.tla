---------------------------- MODULE Connections ----------------------------
(***************************************************************************)
(* Descriptors: socket_server.cpp accepts, epoll_server.cpp reads and      *)
(* closes, the workers write through socket.cpp.                           *)
(*                                                                         *)
(* A PlayerSession keeps its m_fd after the descriptor was closed, and the *)
(* kernel gives the least free number to the next connection.  Accept      *)
(* threads, the epoll thread and the workers share those numbers without a *)
(* lock.  A session is named by the connection it was made for.            *)
(***************************************************************************)
EXTENDS Naturals, Sequences, FiniteSets, SequencesExt, FiniteSetsExt

CONSTANTS
  Conns,     \* connections, and the PlayerSession made for each
  Fds,       \* descriptors the process may open
  Workers,   \* worker threads
  Nobody, NoFd, NoJob,
  Settings   \* what is known of the clients, what they send, and bounds on the connections, the threads
             \* that work at once, the messages and what a connection has sent unparsed

ASSUME ConnectionsAssumption ==
  /\ Fds \subseteq Nat /\ NoFd \notin Fds /\ Nobody \notin Conns
  /\ \A x \in Settings : x.clients \in {"any", "polite", "quiet"} /\ x.sends \subseteq {"ask", "join", "enter", "garbage"}
                         /\ {x.conns, x.threads, x.queue, x.wire} \subseteq Nat

VARIABLES
  setting,    \* one of Settings, for good
  listening,  \* the accept thread has not returned
  fd,         \* m_fd of each session, NoFd before it is made
  adding,     \* sessions accepted and not yet given to epoll_ctl
  owner,      \* which connection a descriptor is
  watch,      \* the session the epoll set names for a connection
  gone,       \* connections whose peer has closed
  wire,       \* what a connection has received and nobody read
  edge,       \* connections with an event epoll_wait has not reported
  buffer,     \* m_readBuffer of each session
  epoll,      \* the session the epoll thread is at, and its next step
  players,    \* sessions in the scene
  queue, job, \* messages, and what each worker is at
  alive,      \* FALSE once the process has died
  misheard    \* history: something was written to another session's connection

sock == <<fd, adding, owner, watch>>
vars == <<setting, listening, fd, adding, owner, watch, gone, wire, edge, buffer, epoll, players,
          queue, job, alive, misheard>>

Idle == [ses |-> Nobody, at |-> "idle"]

Init ==
  /\ setting \in Settings /\ listening = TRUE
  /\ fd = [c \in Conns |-> NoFd] /\ adding = {} /\ owner = [n \in Fds |-> Nobody]
  /\ watch = [c \in Conns |-> Nobody] /\ gone = {} /\ wire = [c \in Conns |-> <<>>] /\ edge = {}
  /\ buffer = [c \in Conns |-> <<>>] /\ epoll = Idle /\ players = {}
  /\ queue = <<>> /\ job = [w \in Workers |-> NoJob] /\ alive = TRUE /\ misheard = FALSE

Behind(s) == owner[fd[s]]             \* the connection that is now s's descriptor
Made(c) == fd[c] # NoFd
Open(c) == Made(c) /\ Behind(c) = c

-----------------------------------------------------------------------------
(* The clients.                                                            *)

UnderWay == {m.ses : m \in ToSet(queue)} \union {job[w].ses : w \in {x \in Workers : job[x] # NoJob}}
Waits(c) == wire[c] # <<>> \/ buffer[c] # <<>> \/ c \in UnderWay \/ epoll.ses = c

\* Nobody is leaving: every peer that has closed has been closed here too.
Settled == epoll.at \in {"idle", "read", "parse"} /\ \A c \in gone : ~Open(c)

\* Polite clients send a request that parses and wait for the answer; quiet ones
\* moreover keep still, and do not connect, while another is leaving.
MaySend(c, what) ==
  /\ Len(wire[c] \o buffer[c]) < setting.wire
  /\ setting.clients # "any" => what # "garbage" /\ ~Waits(c)
  /\ setting.clients = "quiet" => Settled

Send(c, what) ==
  /\ alive /\ Open(c) /\ c \notin gone /\ MaySend(c, what)
  /\ wire' = [wire EXCEPT ![c] = Append(@, what)] /\ edge' = edge \union {c}
  /\ UNCHANGED <<setting, listening, sock, gone, buffer, epoll, players, queue, job, alive, misheard>>

Leave(c) ==
  /\ alive /\ Open(c) /\ c \notin gone
  /\ setting.clients # "any" => ~Waits(c)
  /\ setting.clients = "quiet" => Settled /\ \A d \in Conns : ~Waits(d)
  /\ gone' = gone \union {c} /\ edge' = edge \union {c}
  /\ UNCHANGED <<setting, listening, sock, wire, buffer, epoll, players, queue, job, alive, misheard>>

-----------------------------------------------------------------------------
(* The accept thread.                                                      *)

Free == {n \in Fds : owner[n] = Nobody}

\* Somebody connects: the least free descriptor, and none of them ends the thread.
Accept(c) ==
  /\ alive /\ listening /\ ~Made(c) /\ Cardinality({d \in Conns : Made(d)}) < setting.conns
  /\ setting.clients = "quiet" => Settled
  /\ IF Free = {} THEN listening' = FALSE /\ UNCHANGED sock
     ELSE /\ fd' = [fd EXCEPT ![c] = Min(Free)] /\ owner' = [owner EXCEPT ![Min(Free)] = c]
          /\ adding' = adding \union {c} /\ UNCHANGED <<listening, watch>>
  /\ UNCHANGED <<setting, gone, wire, edge, buffer, epoll, players, queue, job, alive, misheard>>

\* Mutant of Watch: whatever the descriptor is by then.
WatchUnchecked(c) ==
  /\ alive /\ c \in adding /\ adding' = adding \ {c} /\ watch' = [watch EXCEPT ![c] = c]
  /\ UNCHANGED <<setting, listening, fd, owner, gone, wire, edge, buffer, epoll, players, queue, job, alive, misheard>>

\* addEvent: refused when the descriptor is closed or watched already.  What has
\* arrived by then is an event.
Watch(c) ==
  LET o == Behind(c) IN
  /\ alive /\ c \in adding /\ adding' = adding \ {c}
  /\ watch' = IF o = Nobody \/ watch[o] # Nobody THEN watch ELSE [watch EXCEPT ![o] = c]
  /\ UNCHANGED <<setting, listening, fd, owner, gone, wire, edge, buffer, epoll, players, queue, job, alive, misheard>>

-----------------------------------------------------------------------------
(* The epoll thread.                                                       *)

Goto(s, at) == epoll' = [ses |-> s, at |-> at]

\* An edge is reported once, and only for what is watched.
Wait(c) ==
  /\ alive /\ epoll = Idle /\ c \in edge /\ watch[c] # Nobody
  /\ edge' = edge \ {c} /\ Goto(watch[c], "read")
  /\ UNCHANGED <<setting, listening, sock, gone, wire, buffer, players, queue, job, alive, misheard>>

\* Mutant of Read: the end of the stream is taken for nothing to read.
ReadNoEnd ==
  LET s == epoll.ses  o == Behind(s) IN
  /\ alive /\ epoll.at = "read"
  /\ IF o # Nobody /\ wire[o] # <<>>
     THEN /\ buffer' = [buffer EXCEPT ![s] = @ \o wire[o]] /\ wire' = [wire EXCEPT ![o] = <<>>]
          /\ Goto(s, "parse")
     ELSE (o = Nobody \/ o \in gone) /\ Goto(s, "parse") /\ UNCHANGED <<wire, buffer>>
  /\ UNCHANGED <<setting, listening, sock, gone, edge, players, queue, job, alive, misheard>>

\* Socket::read: what is there is less than a chunk and ends the loop, so the end
\* of the stream behind it is not seen; with nothing there, the end of the stream
\* or a closed descriptor gives -1, and anything else blocks.
Read ==
  LET s == epoll.ses  o == Behind(s) IN
  /\ alive /\ epoll.at = "read"
  /\ IF o # Nobody /\ wire[o] # <<>>
     THEN /\ buffer' = [buffer EXCEPT ![s] = @ \o wire[o]] /\ wire' = [wire EXCEPT ![o] = <<>>]
          /\ Goto(s, "parse")
     ELSE (o = Nobody \/ o \in gone) /\ Goto(s, "close") /\ UNCHANGED <<wire, buffer>>
  /\ UNCHANGED <<setting, listening, sock, gone, edge, players, queue, job, alive, misheard>>

\* Socket::close on whatever the number stands for by now; the kernel drops what
\* it watched with it.
ShutDown(s) ==
  LET o == Behind(s) IN
  IF o = Nobody THEN UNCHANGED <<owner, watch, edge>>
  ELSE /\ owner' = [owner EXCEPT ![fd[s]] = Nobody] /\ watch' = [watch EXCEPT ![o] = Nobody]
       /\ edge' = edge \ {o}

Close ==
  /\ alive /\ epoll.at \in {"close", "reclose"} /\ ShutDown(epoll.ses)
  /\ Goto(epoll.ses, IF epoll.at = "close" THEN "offline" ELSE "reoffline")
  /\ UNCHANGED <<setting, listening, fd, adding, gone, wire, buffer, players, queue, job, alive, misheard>>

\* Socket::write for the sessions in S: to a closed descriptor it fails, to a peer
\* that has gone it may raise SIGPIPE, which nobody handles.
Write(S) ==
  LET heard == {s \in S : Behind(s) # Nobody} IN
  /\ alive' \in IF \E s \in heard : Behind(s) \in gone THEN BOOLEAN ELSE {TRUE}
  /\ misheard' = (misheard \/ \E s \in heard : Behind(s) # s)

\* Mutant of Offline: the player stays in the scene.
OfflineStays ==
  LET s == epoll.ses IN
  /\ alive /\ epoll.at \in {"offline", "reoffline"}
  /\ IF s \in players THEN Write(players \ {s}) ELSE UNCHANGED <<alive, misheard>>
  /\ IF epoll.at = "offline" THEN Goto(s, "remove") ELSE epoll' = Idle
  /\ UNCHANGED <<setting, listening, sock, gone, wire, edge, buffer, players, queue, job>>

\* playerOffline: out of the scene first, and the others are told.
Offline ==
  LET s == epoll.ses IN
  /\ alive /\ epoll.at \in {"offline", "reoffline"} /\ players' = players \ {s}
  /\ IF s \in players THEN Write(players') ELSE UNCHANGED <<alive, misheard>>
  /\ IF epoll.at = "offline" THEN Goto(s, "remove") ELSE epoll' = Idle
  /\ UNCHANGED <<setting, listening, sock, gone, wire, edge, buffer, queue, job>>

\* Mutant of Unwatch: every descriptor is dropped from the epoll set.
UnwatchAll ==
  /\ alive /\ epoll.at = "remove" /\ watch' = [c \in Conns |-> Nobody] /\ Goto(epoll.ses, "parse")
  /\ UNCHANGED <<setting, listening, fd, adding, owner, gone, wire, edge, buffer, players, queue, job, alive, misheard>>

\* EPOLL_CTL_DEL with the number of the closed descriptor: an error, or the end of
\* the watch over the connection that has it now.
Unwatch ==
  LET o == Behind(epoll.ses) IN
  /\ alive /\ epoll.at = "remove" /\ Goto(epoll.ses, "parse")
  /\ watch' = IF o = Nobody THEN watch ELSE [watch EXCEPT ![o] = Nobody]
  /\ UNCHANGED <<setting, listening, fd, adding, owner, gone, wire, edge, buffer, players, queue, job, alive, misheard>>

\* One frame of the buffer, also of a session just closed: a request is pushed,
\* anything else closes the session, a second time perhaps.
Parse ==
  LET s == epoll.ses  b == buffer[s] IN
  /\ alive /\ epoll.at = "parse"
  /\ \/ b = <<>> /\ epoll' = Idle /\ UNCHANGED <<buffer, queue>>
     \/ /\ b # <<>> /\ Head(b) # "garbage" /\ Len(queue) < setting.queue
        /\ queue' = Append(queue, [ses |-> s, do |-> Head(b)])
        /\ buffer' = [buffer EXCEPT ![s] = Tail(@)] /\ epoll' = Idle
     \/ b # <<>> /\ Head(b) = "garbage" /\ Goto(s, "reclose") /\ UNCHANGED <<buffer, queue>>
  /\ UNCHANGED <<setting, listening, sock, gone, wire, edge, players, job, alive, misheard>>

-----------------------------------------------------------------------------
(* The workers.                                                            *)

Pop(w) ==
  /\ alive /\ job[w] = NoJob /\ queue # <<>>
  /\ Cardinality({x \in Workers : job[x] # NoJob}) < setting.threads
  /\ job' = [job EXCEPT ![w] = Head(queue)] /\ queue' = Tail(queue)
  /\ UNCHANGED <<setting, listening, sock, gone, wire, edge, buffer, epoll, players, alive, misheard>>

\* A request that answers the one who asked: always, or only in the scene.
Answer(w) ==
  LET s == job[w].ses IN
  /\ alive /\ job[w] # NoJob /\ job[w].do \in {"ask", "join"} /\ job' = [job EXCEPT ![w] = NoJob]
  /\ IF job[w].do = "join" /\ s \notin players THEN UNCHANGED <<alive, misheard>> ELSE Write({s})
  /\ UNCHANGED <<setting, listening, sock, gone, wire, edge, buffer, epoll, players, queue>>

\* doEnterScene: the scene takes the session in ...
Enter(w) ==
  /\ alive /\ job[w] # NoJob /\ job[w].do = "enter"
  /\ players' = players \union {job[w].ses}
  /\ job' = [job EXCEPT ![w] = [ses |-> @.ses, do |-> "tell", seen |-> players]]
  /\ UNCHANGED <<setting, listening, sock, gone, wire, edge, buffer, epoll, queue, alive, misheard>>

\* ... and the others in it are told, and the session its surroundings.
Broadcast(w) ==
  /\ alive /\ job[w] # NoJob /\ job[w].do = "tell"
  /\ Write(job[w].seen \union {job[w].ses}) /\ job' = [job EXCEPT ![w] = NoJob]
  /\ UNCHANGED <<setting, listening, sock, gone, wire, edge, buffer, epoll, players, queue>>

Epoll == (\E c \in Conns : Wait(c)) \/ Read \/ Close \/ Offline \/ Unwatch \/ Parse
Work(w) == Pop(w) \/ Answer(w) \/ Enter(w) \/ Broadcast(w)
Client(c) == Leave(c) \/ \E what \in setting.sends : Send(c, what)

Next ==
  \/ Epoll
  \/ \E w \in Workers : Work(w)
  \/ \E c \in Conns : Client(c) \/ Accept(c) \/ Watch(c)
Spec == Init /\ [][Next]_vars

-----------------------------------------------------------------------------
(* Properties.                                                             *)

\* The type of the descriptors, and what the kernel guarantees of them: a
\* descriptor that is a connection is the number that connection's session keeps.
TypeOK ==
  /\ fd \in [Conns -> Fds \union {NoFd}] /\ owner \in [Fds -> Conns \union {Nobody}]
  /\ watch \in [Conns -> Conns \union {Nobody}]
  /\ \A n \in Fds : owner[n] # Nobody => fd[owner[n]] = n
  /\ \A c \in Conns : watch[c] # Nobody => Open(c)

\* With polite clients nobody hears what was meant for another, and the process
\* is not killed by a write, but in a broadcast: to a player who has left the
\* scene between the worker's look at it and its write, or is leaving it, or whose
\* end the epoll thread has not come to.
HeardByOverlap ==
  setting.clients # "any" /\ (misheard' # misheard \/ alive' # alive) =>
    \/ \E w \in Workers : Broadcast(w) /\ \E s \in job[w].seen :
         IF Open(s) THEN s \in gone ELSE s \notin players \/ epoll.ses = s
    \/ Offline /\ \E s \in players : s \in gone

\* A connection is served by its own session for as long as it is open, but when
\* it got the descriptor of a connection whose removal from the epoll set was
\* still to come, or, with clients of any kind, a second close.  With quiet ones
\* there is no exception.
WatchIsLostByReuse ==
  \A c \in Conns : watch[c] = c /\ watch'[c] # c =>
    \/ Close /\ epoll.ses = c
    \/ /\ epoll.ses # c /\ fd[epoll.ses] = fd[c]
       /\ \/ setting.clients # "quiet" /\ Unwatch
          \/ setting.clients = "any" /\ Close /\ epoll.at = "reclose"

\* What one connection suffers from another comes by these two ways only: a write of a
\* worker overlaps the close of its connection, or a descriptor is reused while the
\* epoll thread still has a call to make on it (epoll_server.cpp 64-75).
DamageByOverlap == [][HeardByOverlap /\ WatchIsLostByReuse]_vars

\* With polite clients no hang-up goes unnoticed: the connection of a peer that
\* left is closed, or its event is still to come, or it is being closed, or its
\* watch was lost to the reuse above.
HangupIsNoticed ==
  alive /\ setting.clients # "any" =>
    \A c \in gone : Open(c) /\ watch[c] = c => c \in edge \/ (epoll.ses = c /\ epoll.at \in {"read", "close"})

\* With quiet clients all is well: everyone is watched by their own session, and
\* what was written was heard by the one it was meant for.
QuietIsRight ==
  setting.clients = "quiet" =>
    /\ alive /\ ~misheard
    /\ \A c \in Conns : Open(c) => watch[c] = IF c \in adding THEN Nobody ELSE c
    /\ \A s \in players : Open(s) \/ epoll.ses = s
=============================================================================
