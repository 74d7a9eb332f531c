--------------------------- MODULE ConnectionsProofs ---------------------------
(***************************************************************************)
(* Theorems about Connections, for every number of connections,            *)
(* descriptors and workers, and every bound; and about Builder, which      *)
(* makes what is sent over them, for every set of names and texts, every   *)
(* room and every bound.                                                   *)
(*                                                                         *)
(* The invariant of Connections has four layers, each proved with the ones *)
(* below it: what every variable is, whom the epoll thread is at, what     *)
(* polite clients add to that, and what quiet ones do. That of Builder     *)
(* says what every operation of bson.c leaves of a builder, whatever the   *)
(* one before it answered.                                                 *)
(***************************************************************************)
EXTENDS Connections, Builder, CommonLemmas, SequenceTheorems

Asked   == {"ask", "join", "enter", "garbage"}
Request == [ses : Conns, do : Asked]
Telling == [ses : Conns, do : {"tell"}, seen : SUBSET Conns]
Steps   == {"idle", "read", "parse", "close", "reclose", "offline", "reoffline", "remove"}

\* The type of the variables TypeOK says nothing of.
Typed ==
  /\ setting \in Settings /\ listening \in BOOLEAN /\ alive \in BOOLEAN /\ misheard \in BOOLEAN
  /\ adding \subseteq Conns /\ gone \subseteq Conns /\ edge \subseteq Conns /\ players \subseteq Conns
  /\ wire \in [Conns -> Seq(Asked)] /\ buffer \in [Conns -> Seq(Asked)]
  /\ epoll \in [ses : Conns \union {Nobody}, at : Steps]
  /\ epoll.at = "idle" <=> epoll.ses = Nobody
  /\ queue \in Seq(Request) /\ job \in [Workers -> Request \union Telling \union {NoJob}]

\* The worker has taken its session into the scene and is to tell the others.
Tells(w) == job[w] # NoJob /\ job[w].do = "tell"

\* A session that anything refers to has been made.
AllMade ==
  /\ \A c \in adding \union gone \union players \union UnderWay : Made(c)
  /\ epoll.ses # Nobody => Made(epoll.ses)
  /\ \A c \in Conns : watch[c] # Nobody => Made(watch[c])
  /\ \A w \in Workers : Tells(w) => \A s \in job[w].seen : Made(s)

Kernel == TypeOK /\ Typed /\ AllMade

\* A connection is watched through the number it has, and the one whose event the
\* epoll thread took is there until the thread closes it; afterwards the descriptor
\* of the session is nobody's or another's.
Follows ==
  /\ \A c \in Conns : watch[c] # Nobody => Behind(watch[c]) = c
  /\ epoll.at \in {"read", "close"} => Behind(epoll.ses) # Nobody /\ watch[Behind(epoll.ses)] = epoll.ses
  /\ epoll.at \in {"offline", "remove"} => Behind(epoll.ses) # epoll.ses

\* What polite clients keep to.
OwnWatch  == \A c \in Conns : watch[c] # Nobody => watch[c] = c /\ c \notin adding
OpenTill  == \A c \in Conns : (c \in adding \/ (Made(c) /\ c \notin gone)) => Open(c)
NoGarbage ==
  /\ wire \in [Conns -> Seq(Asked \ {"garbage"})] /\ buffer \in [Conns -> Seq(Asked \ {"garbage"})]
  /\ epoll.at \notin {"reclose", "reoffline"}
QuietWhenGone ==
  /\ \A c \in gone : wire[c] = <<>> /\ buffer[c] = <<>> /\ c \notin UnderWay
  /\ epoll.at = "close" => epoll.ses \in gone
PlayersOpen == \A s \in players : Open(s) \/ (epoll.ses = s /\ epoll.at = "offline")
Noticed ==
  /\ \A c \in gone : c \in adding => c \in edge
  /\ \A c \in gone : Open(c) /\ watch[c] = c =>
       c \in edge \/ (epoll.ses = c /\ epoll.at \in {"read", "close"})
Polite ==
  setting.clients # "any" => OwnWatch /\ OpenTill /\ NoGarbage /\ QuietWhenGone /\ PlayersOpen /\ Noticed

\* What quiet clients add.
OneLeaves ==
  /\ ~Settled => \A d \in Conns : wire[d] = <<>> /\ buffer[d] = <<>> /\ d \notin UnderWay
  /\ \A c, d \in gone : Open(c) /\ Open(d) => c = d
  /\ epoll.at \in {"offline", "remove"} => Behind(epoll.ses) = Nobody /\ \A c \in gone : ~Open(c)
SeenStay == \A w \in Workers : Tells(w) => \A s \in job[w].seen : Open(s) /\ s \notin gone
Watched  == \A c \in Conns : Open(c) => watch[c] = IF c \in adding THEN Nobody ELSE c
Quiet    == setting.clients = "quiet" => OneLeaves /\ SeenStay /\ Watched /\ alive /\ ~misheard

ConnInv == Kernel /\ Follows /\ Polite /\ Quiet

-----------------------------------------------------------------------------
(* What is under way.                                                      *)

\* A request under way is one of the queue or one a worker is at.
LEMMA WorkerIsUnderWay ==
  ASSUME NEW w \in Workers, job[w] # NoJob
  PROVE  job[w].ses \in UnderWay
BY DEF UnderWay

\* Only the epoll thread adds to what is under way, and only the session it is at,
\* whose buffer holds a request (the push of epollRoutine).
LEMMA UnderWayStep ==
  ASSUME Typed, [Next]_vars
  PROVE  \/ UnderWay' \subseteq UnderWay
         \/ /\ Parse /\ buffer[epoll.ses] # <<>> /\ Head(buffer[epoll.ses]) # "garbage"
            /\ UnderWay' \subseteq UnderWay \union {epoll.ses}
<1>1. CASE UNCHANGED <<queue, job>>
  BY <1>1 DEF UnderWay
<1>2. ASSUME NEW w \in Workers, job' = [job EXCEPT ![w] = NoJob], UNCHANGED queue
      PROVE  UnderWay' \subseteq UnderWay
  BY <1>2 DEF UnderWay, Typed
<1>3. ASSUME NEW w \in Workers, Pop(w) PROVE UnderWay' \subseteq UnderWay
  <2>1. /\ Head(queue) \in Request /\ Tail(queue) \in Seq(Request)
        /\ ToSet(queue) = ToSet(Tail(queue)) \union {Head(queue)}
    BY <1>3, HeldAfterTail DEF Pop, Typed
  <2>2. queue' = Tail(queue) /\ job' = [job EXCEPT ![w] = Head(queue)]
    BY <1>3 DEF Pop
  <2>3. {m.ses : m \in ToSet(queue')} \subseteq {m.ses : m \in ToSet(queue)}
    BY <2>1, <2>2
  <2>4. ASSUME NEW x \in Workers, job'[x] # NoJob
        PROVE  job'[x].ses \in UnderWay
    BY <2>1, <2>2, <2>4 DEF UnderWay, Typed
  <2> QED
    BY <2>3, <2>4 DEF UnderWay
<1>4. ASSUME NEW w \in Workers, Enter(w) PROVE UnderWay' \subseteq UnderWay
  BY <1>4 DEF Enter, UnderWay, Typed
<1>5. ASSUME Parse, ~UNCHANGED queue
      PROVE  /\ buffer[epoll.ses] # <<>> /\ Head(buffer[epoll.ses]) # "garbage"
             /\ UnderWay' \subseteq UnderWay \union {epoll.ses}
  <2>1. /\ buffer[epoll.ses] # <<>> /\ Head(buffer[epoll.ses]) # "garbage"
        /\ queue' = Append(queue, [ses |-> epoll.ses, do |-> Head(buffer[epoll.ses])]) /\ job' = job
    BY <1>5 DEF Parse
  <2> DEFINE m == [ses |-> epoll.ses, do |-> Head(buffer[epoll.ses])]
  <2>2. m.ses = epoll.ses
    OBVIOUS
  <2>3. epoll.ses \in Conns /\ buffer[epoll.ses] \in Seq(Asked)
    BY <1>5, ConnectionsAssumption DEF Parse, Typed, Steps
  <2>4. m \in Request
    BY <2>1, <2>3 DEF Request
  <2> HIDE DEF m
  <2>5. ToSet(queue') = ToSet(queue) \union {m}
    BY <2>1, <2>4, HeldAfterAppend DEF Typed, m
  <2> QED
    BY <2>1, <2>2, <2>5 DEF UnderWay
<1> QED
  BY <1>1, <1>2, <1>3, <1>4, <1>5
     DEF Next, Epoll, Work, Client, Wait, Read, Close, Offline, Unwatch, Parse, Answer, Broadcast,
         Leave, Send, Accept, Watch, vars

-----------------------------------------------------------------------------
(* What every variable is.                                                 *)

\* At the start nobody has a descriptor and nothing is under way.
LEMMA KernelInit == Init => Kernel
<1> SUFFICES ASSUME Init PROVE Kernel
  OBVIOUS
<1>1. TypeOK
  BY ConnectionsAssumption DEF Init, TypeOK
<1>2. Typed
  <2>1. <<>> \in Seq(Asked) /\ <<>> \in Seq(Request)
    OBVIOUS
  <2>2. epoll \in [ses : Conns \union {Nobody}, at : Steps] /\ (epoll.at = "idle" <=> epoll.ses = Nobody)
    BY DEF Init, Idle, Steps
  <2> QED
    BY <2>1, <2>2 DEF Init, Typed
<1>3. UnderWay = {}
  BY NothingHeld DEF Init, UnderWay
<1>4. AllMade
  BY <1>3 DEF Init, AllMade, Idle, Tells
<1> QED
  BY <1>1, <1>2, <1>4 DEF Kernel

\* The session the epoll thread is at has a descriptor, and what that is now is a
\* connection or nobody; so is that of a session to be watched.
LEMMA BehindType ==
  ASSUME Kernel
  PROVE  /\ epoll.at # "idle" => epoll.ses \in Conns
         /\ \A c \in Conns : Made(c) => fd[c] \in Fds /\ Behind(c) \in Conns \union {Nobody}
         /\ \A c \in Conns : Made(c) /\ Behind(c) # Nobody => fd[Behind(c)] = fd[c] /\ Open(Behind(c))
<1>1. epoll.at # "idle" => epoll.ses \in Conns
  BY DEF Kernel, Typed
<1>2. \A c \in Conns : Made(c) => fd[c] \in Fds /\ Behind(c) \in Conns \union {Nobody}
  BY DEF Kernel, TypeOK, Made, Behind
<1>3. \A c \in Conns : Made(c) /\ Behind(c) # Nobody => fd[Behind(c)] = fd[c] /\ Open(Behind(c))
  BY <1>2, ConnectionsAssumption DEF Kernel, TypeOK, Made, Behind, Open
<1> QED
  BY <1>1, <1>2, <1>3

\* What Close does to the sockets (Socket::close, on whatever has the number).
LEMMA CloseStep ==
  ASSUME Kernel, Close
  PROVE  LET s == epoll.ses  o == Behind(s) IN
         /\ s \in Conns /\ fd[s] \in Fds /\ Made(s)
         /\ \/ o = Nobody /\ UNCHANGED <<owner, watch, edge>>
            \/ /\ o \in Conns /\ o # Nobody /\ fd[o] = fd[s] /\ owner[fd[s]] = o /\ Open(o)
               /\ owner' = [owner EXCEPT ![fd[s]] = Nobody] /\ watch' = [watch EXCEPT ![o] = Nobody]
               /\ edge' = edge \ {o}
<1>1. epoll.at # "idle"
  BY DEF Close
<1>2. epoll.ses \in Conns /\ Made(epoll.ses)
  BY <1>1, BehindType DEF Kernel, Typed, AllMade
<1>3. owner[fd[epoll.ses]] = Behind(epoll.ses)
  BY DEF Behind
<1> QED
  BY <1>2, <1>3, BehindType DEF Close, ShutDown

\* What Read does to what was received (Socket::read).
LEMMA ReadStep ==
  ASSUME Kernel, Read
  PROVE  LET s == epoll.ses  o == Behind(s) IN
         /\ s \in Conns /\ o \in Conns \union {Nobody}
         /\ \/ /\ o \in Conns /\ o # Nobody /\ wire[o] # <<>> /\ epoll' = [ses |-> s, at |-> "parse"]
               /\ buffer' = [buffer EXCEPT ![s] = @ \o wire[o]] /\ wire' = [wire EXCEPT ![o] = <<>>]
            \/ (o = Nobody \/ (o \in gone /\ wire[o] = <<>>)) /\ epoll' = [ses |-> s, at |-> "close"] /\ UNCHANGED <<wire, buffer>>
<1>1. epoll.at # "idle"
  BY DEF Read
<1>2. epoll.ses \in Conns /\ Made(epoll.ses)
  BY <1>1, BehindType DEF Kernel, Typed, AllMade
<1>3. Behind(epoll.ses) \in Conns \union {Nobody}
  BY <1>2, BehindType
<1> QED
  BY <1>2, <1>3, ConnectionsAssumption DEF Read, Goto

\* What Parse does to the buffer (one frame, BsonBuffer::parseFromBuffer).
LEMMA ParseStep ==
  ASSUME Kernel, Parse
  PROVE  LET s == epoll.ses IN
         /\ s \in Conns
         /\ \/ epoll' = Idle /\ UNCHANGED <<buffer, queue>>
            \/ /\ buffer[s] # <<>> /\ Head(buffer[s]) # "garbage" /\ epoll' = Idle
               /\ Head(buffer[s]) \in Asked /\ Tail(buffer[s]) \in Seq(Asked)
               /\ queue' = Append(queue, [ses |-> s, do |-> Head(buffer[s])])
               /\ buffer' = [buffer EXCEPT ![s] = Tail(buffer[s])]
            \/ /\ buffer[s] # <<>> /\ Head(buffer[s]) = "garbage"
               /\ epoll' = [ses |-> s, at |-> "reclose"] /\ UNCHANGED <<buffer, queue>>
<1>1. epoll.ses \in Conns /\ buffer[epoll.ses] \in Seq(Asked)
  BY BehindType DEF Parse, Kernel, Typed
<1>2. buffer[epoll.ses] # <<>> => Head(buffer[epoll.ses]) \in Asked /\ Tail(buffer[epoll.ses]) \in Seq(Asked)
  BY <1>1, HeldAfterTail
<1> QED
  BY <1>1, <1>2 DEF Parse, Goto

\* The kernel and the clients.
LEMMA KernelOfClients ==
  ASSUME Kernel, [Next]_vars, NEW c \in Conns, Client(c) \/ Accept(c) \/ Watch(c)
  PROVE  Kernel'
<1> USE ConnectionsAssumption DEF Kernel, TypeOK, Typed, AllMade, Made, Open, Behind, sock, Tells
<1>0. /\ UnderWay' \subseteq UnderWay \union {epoll.ses}
      /\ Parse \/ UnderWay' \subseteq UnderWay
  BY UnderWayStep
<1>1. ASSUME NEW what \in setting.sends, Send(c, what) PROVE Kernel'
  <2>1. what \in Asked
    BY DEF Asked
  <2>2. UnderWay' = UnderWay
    BY <1>1 DEF Send, UnderWay
  <2> QED
    BY <1>1, <2>1, <2>2 DEF Send
<1>2. CASE Leave(c)
  <2>2. UnderWay' = UnderWay
    BY <1>2 DEF Leave, UnderWay
  <2> QED
    BY <1>2, <2>2 DEF Leave
<1>3. CASE Accept(c)
  <2>1. UnderWay' = UnderWay
    BY <1>3 DEF Accept, UnderWay
  <2>2. CASE Free = {}
    <3>1. /\ listening' = FALSE
          /\ UNCHANGED <<fd, owner, adding, watch, setting, gone, wire, edge, buffer, epoll, players, queue, job, alive,
                         misheard>>
      BY <1>3, <2>2 DEF Accept
    <3>2. TypeOK'
      BY ONLY TypeOK, <3>1 DEF TypeOK, Open, Behind
    <3>3. Typed'
      BY ONLY Typed, <3>1 DEF Typed
    <3>4. AllMade'
      BY ONLY AllMade, <2>1, <3>1 DEF AllMade, Made, Tells
    <3> QED
      BY ONLY <3>2, <3>3, <3>4, Zenon DEF Kernel
  <2>3. CASE Free # {}
    <3> DEFINE n == Min(Free)
    <3>1. n \in Fds /\ owner[n] = Nobody
      BY <2>3, MinIsLeast DEF Free
    <3> HIDE DEF n
    <3>2. /\ fd' = [fd EXCEPT ![c] = n] /\ owner' = [owner EXCEPT ![n] = c]
          /\ adding' = adding \union {c} /\ fd[c] = NoFd
          /\ UNCHANGED <<listening, watch, setting, gone, wire, edge, buffer, epoll, players, queue, job, alive, misheard>>
      BY <1>3, <2>3 DEF Accept, n
    <3>3. TypeOK'
      <4>1. TypeOK /\ NoFd \notin Fds /\ Nobody \notin Conns
        BY DEF ConnectionsAssumption
      <4>2. /\ fd' \in [Conns -> Fds \union {NoFd}] /\ owner' \in [Fds -> Conns \union {Nobody}]
            /\ watch' \in [Conns -> Conns \union {Nobody}]
        BY ONLY <3>1, <3>2, <4>1, c \in Conns DEF TypeOK
      <4>3. \A x \in Fds : owner'[x] # Nobody => fd'[owner'[x]] = x
        BY ONLY <3>1, <3>2, <4>1, c \in Conns DEF TypeOK
      <4>4. \A x \in Conns : Open(x) => Open(x)'
        BY ONLY <3>1, <3>2, <4>1, c \in Conns DEF TypeOK, Open, Behind
      <4> QED
        BY ONLY <3>2, <4>1, <4>2, <4>3, <4>4 DEF TypeOK
    <3>4. Typed'
      BY ONLY Typed, <3>2, c \in Conns DEF Typed
    <3>5. \A x \in Conns : Made(x) => Made(x)'
      BY <3>1, <3>2
    <3>6. AllMade'
      BY <3>1, <3>2, <3>5, <2>1
    <3> QED
      BY ONLY <3>3, <3>4, <3>6, Zenon DEF Kernel
  <2> QED
    BY <2>2, <2>3
<1>4. CASE Watch(c)
  <2> DEFINE o == Behind(c)
  <2>1. UnderWay' = UnderWay
    BY <1>4 DEF Watch, UnderWay
  <2>2. Made(c) /\ o \in Conns \union {Nobody} /\ (o # Nobody => Open(o))
    BY <1>4, BehindType DEF Watch
  <2>3. /\ adding' = adding \ {c} /\ c \in adding
        /\ watch' = IF o = Nobody \/ watch[o] # Nobody THEN watch ELSE [watch EXCEPT ![o] = c]
        /\ UNCHANGED <<setting, listening, fd, owner, gone, wire, edge, buffer, epoll, players, queue, job, alive,
                       misheard>>
    BY <1>4 DEF Watch
  <2> HIDE DEF o
  <2>4. watch' \in [Conns -> Conns \union {Nobody}]
        /\ \A x \in Conns : watch'[x] = watch[x] \/ (watch'[x] = c /\ x = o)
    BY ONLY TypeOK, c \in Conns, <2>2, <2>3 DEF TypeOK
  <2>5. TypeOK'
    BY ONLY TypeOK, c \in Conns, <2>2, <2>3, <2>4 DEF TypeOK, Open, Behind
  <2>6. Typed'
    BY ONLY Typed, <2>3 DEF Typed
  <2>7. AllMade'
    BY ONLY AllMade, c \in Conns, <2>1, <2>2, <2>3, <2>4 DEF AllMade, Made, Tells
  <2> QED
    BY ONLY <2>5, <2>6, <2>7, Zenon DEF Kernel
<1> QED
  BY <1>1, <1>2, <1>3, <1>4 DEF Client

\* The epoll thread.
LEMMA KernelOfEpoll ==
  ASSUME Kernel, [Next]_vars, Epoll
  PROVE  Kernel'
<1>0. TypeOK /\ Typed /\ AllMade
  BY DEF Kernel
<1>1. ASSUME NEW c \in Conns, Wait(c) PROVE Kernel'
  <2>1. UnderWay' = UnderWay
    BY <1>1 DEF Wait, UnderWay
  <2> QED
    BY <1>1, <2>1, <1>0, ConnectionsAssumption
       DEF Wait, Goto, sock, Kernel, TypeOK, Typed, AllMade, Tells, Made, Open, Behind, Steps
<1>2. CASE Read
  <2>1. UnderWay' = UnderWay
    BY <1>2 DEF Read, UnderWay
  <2>2. UNCHANGED <<setting, listening, sock, gone, edge, players, queue, job, alive, misheard>>
    BY <1>2 DEF Read
  <2> DEFINE s == epoll.ses
             o == Behind(s)
  <2>3. /\ s \in Conns
        /\ \/ /\ o \in Conns /\ epoll' = [ses |-> s, at |-> "parse"]
              /\ buffer' = [buffer EXCEPT ![s] = buffer[s] \o wire[o]] /\ wire' = [wire EXCEPT ![o] = <<>>]
           \/ epoll' = [ses |-> s, at |-> "close"] /\ UNCHANGED <<wire, buffer>>
    BY <1>2, ReadStep
  <2> HIDE DEF s, o
  <2>4. epoll' \in [ses : Conns \union {Nobody}, at : Steps] /\ epoll'.at # "idle" /\ epoll'.ses = s
    <3>1. epoll' = [ses |-> s, at |-> "parse"] \/ epoll' = [ses |-> s, at |-> "close"]
      BY <2>3
    <3> QED
      BY <2>3, <3>1 DEF Steps
  <2>5. wire' \in [Conns -> Seq(Asked)] /\ buffer' \in [Conns -> Seq(Asked)]
    <3>1. CASE UNCHANGED <<wire, buffer>>
      BY <1>0, <3>1 DEF Typed
    <3>2. CASE o \in Conns
      <4> DEFINE b == buffer[s] \o wire[o]
      <4>1. b \in Seq(Asked) /\ <<>> \in Seq(Asked)
        BY <2>3, <3>2, <1>0 DEF Typed
      <4>2. (buffer' = [buffer EXCEPT ![s] = b] /\ wire' = [wire EXCEPT ![o] = <<>>]) \/ UNCHANGED <<wire, buffer>>
        BY <2>3
      <4> HIDE DEF b
      <4>3. s \in Conns /\ buffer \in [Conns -> Seq(Asked)] /\ wire \in [Conns -> Seq(Asked)]
        BY <2>3, <1>0 DEF Typed
      <4> QED
        BY <3>2, <4>1, <4>2, <4>3
    <3> QED
      BY <2>3, <3>1, <3>2
  <2>6. TypeOK' /\ Typed'
    BY <1>0, <2>2, <2>3, <2>4, <2>5, ConnectionsAssumption DEF sock, TypeOK, Typed, Open, Made, Behind
  <2>7. AllMade'
    BY <1>0, <2>1, <2>2, <2>4 DEF sock, AllMade, Made, Tells, s
  <2> QED
    BY <2>6, <2>7 DEF Kernel
<1>3. CASE Close
  <2>1. UnderWay' = UnderWay
    BY <1>3 DEF Close, UnderWay
  <2>2. /\ UNCHANGED <<setting, listening, fd, adding, gone, wire, buffer, players, queue, job, alive, misheard>>
        /\ epoll' = [ses |-> epoll.ses, at |-> IF epoll.at = "close" THEN "offline" ELSE "reoffline"]
    BY <1>3 DEF Close, Goto
  <2> DEFINE s == epoll.ses
             o == Behind(s)
  <2>3. /\ s \in Conns /\ fd[s] \in Fds
        /\ \/ o = Nobody /\ UNCHANGED <<owner, watch, edge>>
           \/ /\ o \in Conns /\ fd[o] = fd[s] /\ owner[fd[s]] = o
              /\ owner' = [owner EXCEPT ![fd[s]] = Nobody] /\ watch' = [watch EXCEPT ![o] = Nobody]
              /\ edge' = edge \ {o}
    BY <1>3, CloseStep
  <2>4. epoll' \in [ses : Conns \union {Nobody}, at : Steps] /\ epoll'.at # "idle" /\ epoll'.ses = s
    BY <2>2, <2>3 DEF Steps
  <2> HIDE DEF s, o
  <2>5. TypeOK'
    <3>1. CASE UNCHANGED <<owner, watch>>
      BY <1>0, <2>2, <3>1 DEF TypeOK, Open, Made, Behind
    <3>2. CASE /\ o \in Conns /\ fd[o] = fd[s] /\ owner[fd[s]] = o
               /\ owner' = [owner EXCEPT ![fd[s]] = Nobody] /\ watch' = [watch EXCEPT ![o] = Nobody]
      <4>1. fd' = fd /\ owner' \in [Fds -> Conns \union {Nobody}] /\ watch' \in [Conns -> Conns \union {Nobody}]
        BY <1>0, <2>2, <3>2 DEF TypeOK
      <4>2. \A n \in Fds : owner'[n] # Nobody => fd'[owner'[n]] = n
        BY <1>0, <2>2, <2>3, <3>2 DEF TypeOK
      <4>3. ASSUME NEW c \in Conns, watch'[c] # Nobody PROVE Open(c)'
        <5>1. c # o /\ watch[c] # Nobody
          BY <1>0, <3>2, <4>3 DEF TypeOK
        <5>2. fd[c] # NoFd /\ owner[fd[c]] = c /\ fd[c] \in Fds
          BY <1>0, <5>1 DEF TypeOK, Open, Made, Behind
        <5>3. fd[c] # fd[s]
          BY <5>1, <5>2, <3>2
        <5> QED
          BY <1>0, <2>2, <2>3, <3>2, <5>2, <5>3 DEF TypeOK, Open, Made, Behind
      <4> QED
        BY <1>0, <4>1, <4>2, <4>3 DEF TypeOK
    <3> QED
      BY <2>3, <3>1, <3>2
  <2>6. Typed'
    BY <1>0, <2>2, <2>3, <2>4, ConnectionsAssumption DEF Typed
  <2>7. AllMade'
    <3>1. \A c \in Conns : watch'[c] # Nobody => watch'[c] = watch[c]
      BY <1>0, <2>3 DEF TypeOK
    <3> QED
      BY <1>0, <2>1, <2>2, <2>4, <3>1 DEF AllMade, Made, Tells, s
  <2> QED
    BY <2>5, <2>6, <2>7 DEF Kernel
<1>4. CASE Offline
  <2>1. UnderWay' = UnderWay
    BY <1>4 DEF Offline, UnderWay
  <2>2. /\ UNCHANGED <<setting, listening, sock, gone, wire, edge, buffer, queue, job>> /\ players' = players \ {epoll.ses}
        /\ epoll' \in {[ses |-> epoll.ses, at |-> "remove"], Idle} /\ epoll.ses \in Conns
    BY <1>4, BehindType DEF Offline, Goto
  <2>3. alive' \in BOOLEAN /\ misheard' \in BOOLEAN
    BY <1>4, <1>0 DEF Offline, Write, Typed
  <2>4. epoll' \in [ses : Conns \union {Nobody}, at : Steps] /\ (epoll'.at = "idle" <=> epoll'.ses = Nobody)
        /\ epoll'.ses \in {epoll.ses, Nobody}
    BY <2>2, ConnectionsAssumption DEF Idle, Steps
  <2>5. TypeOK' /\ Typed'
    BY <1>0, <2>2, <2>3, <2>4 DEF sock, TypeOK, Typed, Open, Made, Behind
  <2>6. AllMade'
    BY <1>0, <2>1, <2>2, <2>4 DEF sock, AllMade, Made, Tells
  <2> QED
    BY <2>5, <2>6 DEF Kernel
<1>5. CASE Unwatch
  <2>1. UnderWay' = UnderWay
    BY <1>5 DEF Unwatch, UnderWay
  <2>2. /\ UNCHANGED <<setting, listening, fd, adding, owner, gone, wire, edge, buffer, players, queue, job, alive, misheard>>
        /\ epoll' = [ses |-> epoll.ses, at |-> "parse"] /\ epoll.ses \in Conns
        /\ \/ watch' = watch
           \/ \E o \in Conns : watch' = [watch EXCEPT ![o] = Nobody]
    BY <1>5, <1>0, BehindType DEF Unwatch, Goto, Kernel, AllMade, Typed
  <2>3. \A c \in Conns : watch'[c] # Nobody => watch'[c] = watch[c]
    BY <1>0, <2>2 DEF TypeOK
  <2>4. TypeOK' /\ Typed'
    BY <1>0, <2>2, <2>3, ConnectionsAssumption DEF TypeOK, Typed, Open, Made, Behind, Steps
  <2>5. AllMade'
    BY <1>0, <2>1, <2>2, <2>3 DEF AllMade, Made, Tells
  <2> QED
    BY <2>4, <2>5 DEF Kernel
<1>6. CASE Parse
  <2>1. UnderWay' \subseteq UnderWay \union {epoll.ses}
    BY <1>0, UnderWayStep
  <2>2. UNCHANGED <<setting, listening, sock, gone, wire, edge, players, job, alive, misheard>>
    BY <1>6 DEF Parse
  <2> DEFINE s == epoll.ses
             m == [ses |-> s, do |-> Head(buffer[s])]
  <2>3. /\ s \in Conns
        /\ \/ epoll' = Idle /\ UNCHANGED <<buffer, queue>>
           \/ /\ epoll' = Idle /\ m \in Request /\ Tail(buffer[s]) \in Seq(Asked)
              /\ queue' = Append(queue, m) /\ buffer' = [buffer EXCEPT ![s] = Tail(buffer[s])]
           \/ epoll' = [ses |-> s, at |-> "reclose"] /\ UNCHANGED <<buffer, queue>>
    BY <1>6, ParseStep DEF Request
  <2>4. /\ epoll' \in [ses : Conns \union {Nobody}, at : Steps] /\ (epoll'.at = "idle" <=> epoll'.ses = Nobody)
        /\ epoll'.ses \in {s, Nobody}
    BY <2>3, ConnectionsAssumption DEF Idle, Steps
  <2>5. Made(s)
    BY <1>0, <2>3, ConnectionsAssumption DEF AllMade
  <2> HIDE DEF s, m
  <2>6. buffer' \in [Conns -> Seq(Asked)] /\ queue' \in Seq(Request)
    <3>1. buffer \in [Conns -> Seq(Asked)] /\ queue \in Seq(Request)
      BY <1>0 DEF Typed
    <3>2. m \in Request => Append(queue, m) \in Seq(Request)
      BY <3>1
    <3> QED
      BY <2>3, <3>1, <3>2
  <2>7. TypeOK' /\ Typed'
    BY <1>0, <2>2, <2>4, <2>6 DEF sock, TypeOK, Typed, Open, Made, Behind
  <2>8. AllMade'
    BY <1>0, <2>1, <2>2, <2>4, <2>5 DEF sock, AllMade, Made, Tells, s
  <2> QED
    BY <2>7, <2>8 DEF Kernel
<1> QED
  BY <1>1, <1>2, <1>3, <1>4, <1>5, <1>6 DEF Epoll

\* The workers.
LEMMA KernelOfWorkers ==
  ASSUME Kernel, [Next]_vars, NEW w \in Workers, Work(w)
  PROVE  Kernel'
<1>0. TypeOK /\ Typed /\ AllMade
  BY DEF Kernel
<1>1. UnderWay' \subseteq UnderWay
  <2>1. ~Parse
    BY <1>0 DEF Work, Pop, Answer, Enter, Broadcast, Parse, Typed, Goto
  <2> QED
    BY <1>0, <2>1, UnderWayStep
<1>2. job[w] # NoJob => job[w].ses \in UnderWay /\ Made(job[w].ses) /\ job[w] \in Request \union Telling
  BY <1>0, WorkerIsUnderWay DEF AllMade, Typed
<1>3. CASE Pop(w)
  <2>1. Head(queue) \in Request /\ Tail(queue) \in Seq(Request)
    BY <1>0, <1>3, HeldAfterTail DEF Pop, Typed
  <2>2. TypeOK' /\ Typed'
    BY <1>0, <1>3, <2>1 DEF Pop, sock, TypeOK, Typed, Open, Made, Behind
  <2>3. \A x \in Workers : Tells(x)' => Tells(x) /\ job'[x] = job[x]
    BY <1>0, <1>3, <2>1 DEF Pop, Tells, Typed, Request, Asked
  <2>4. AllMade'
    BY <1>0, <1>1, <1>3, <2>3 DEF Pop, sock, AllMade, Made
  <2> QED
    BY <2>2, <2>4 DEF Kernel
<1>4. CASE Answer(w)
  <2>1. alive' \in BOOLEAN /\ misheard' \in BOOLEAN
    BY <1>0, <1>4 DEF Answer, Write, Typed
  <2>2. TypeOK' /\ Typed'
    BY <1>0, <1>4, <2>1 DEF Answer, sock, TypeOK, Typed, Open, Made, Behind
  <2>3. AllMade'
    BY <1>0, <1>1, <1>4 DEF Answer, sock, AllMade, Made, Tells, Typed
  <2> QED
    BY <2>2, <2>3 DEF Kernel
<1>5. CASE Enter(w)
  <2>1. job[w].ses \in Conns /\ Made(job[w].ses)
    BY <1>2, <1>5 DEF Enter, Request, Telling
  <2>2. job' = [job EXCEPT ![w] = [ses |-> job[w].ses, do |-> "tell", seen |-> players]]
        /\ players' = players \union {job[w].ses}
    BY <1>5 DEF Enter
  <2>3. TypeOK' /\ Typed'
    BY <1>0, <1>5, <2>1, <2>2 DEF Enter, sock, TypeOK, Typed, Open, Made, Behind, Telling
  <2>4. AllMade'
    BY <1>0, <1>1, <1>5, <2>1, <2>2 DEF Enter, sock, AllMade, Made, Tells, Typed
  <2> QED
    BY <2>3, <2>4 DEF Kernel
<1>6. CASE Broadcast(w)
  <2>1. alive' \in BOOLEAN /\ misheard' \in BOOLEAN
    BY <1>0, <1>6 DEF Broadcast, Write, Typed
  <2>2. TypeOK' /\ Typed'
    BY <1>0, <1>6, <2>1 DEF Broadcast, sock, TypeOK, Typed, Open, Made, Behind
  <2>3. AllMade'
    BY <1>0, <1>1, <1>6 DEF Broadcast, sock, AllMade, Made, Tells, Typed
  <2> QED
    BY <2>2, <2>3 DEF Kernel
<1> QED
  BY <1>3, <1>4, <1>5, <1>6 DEF Work

\* So every step keeps it.
LEMMA KernelStep == Kernel /\ [Next]_vars => Kernel'
<1> SUFFICES ASSUME Kernel, [Next]_vars PROVE Kernel'
  OBVIOUS
<1>1. CASE UNCHANGED vars
  BY <1>1 DEF vars, Kernel, TypeOK, Typed, AllMade, UnderWay, Made, Open, Behind, Tells
<1> QED
  BY <1>1, KernelOfClients, KernelOfEpoll, KernelOfWorkers DEF Next

\* A connection's number is its session's, and only what is open is watched
\* (accept, Socket::close and epoll_ctl, whatever order the threads call them in).
THEOREM TypeCorrect == Spec => []TypeOK
<1>1. Spec => []Kernel
  BY KernelInit, KernelStep, PTL DEF Spec
<1>2. Kernel => TypeOK
  BY DEF Kernel
<1> QED
  BY <1>1, <1>2, PTL

-----------------------------------------------------------------------------
(* Whom the epoll thread is at.                                            *)

\* At the start nothing is watched and the epoll thread is at nobody.
LEMMA FollowsInit == Init => Follows
BY DEF Init, Follows, Idle

\* No thread changes the number of a session, or what is watched, behind the epoll
\* thread's back: whom it took an event for stays behind the session until it
\* closes it (epollRoutine and onSocketClose against accept).
LEMMA FollowsStep == Kernel /\ Follows /\ [Next]_vars => Follows'
<1> SUFFICES ASSUME Kernel, Follows, [Next]_vars PROVE Follows'
  OBVIOUS
<1>0. TypeOK /\ Typed /\ AllMade /\ Kernel'
  BY KernelStep DEF Kernel
<1>1. CASE UNCHANGED <<sock, epoll>>
  BY <1>1 DEF sock, Follows, Behind
<1>2. ASSUME NEW c \in Conns, Accept(c) PROVE Follows'
  <2>1. CASE Free = {}
    BY <1>2, <2>1, <1>1 DEF Accept
  <2>2. CASE Free # {}
    <3> DEFINE n == Min(Free)
    <3>1. n \in Fds /\ owner[n] = Nobody
      BY <2>2, MinIsLeast, ConnectionsAssumption DEF Free
    <3>2. /\ fd' = [fd EXCEPT ![c] = n] /\ owner' = [owner EXCEPT ![n] = c]
          /\ fd[c] = NoFd /\ watch' = watch /\ epoll' = epoll
      BY <1>2, <2>2 DEF Accept, Made
    <3> HIDE DEF n
    <3>3. \A x \in Conns : Made(x) => Behind(x)' = Behind(x) \/ (Behind(x) = Nobody /\ Behind(x)' = c /\ x # c)
      BY <1>0, <3>1, <3>2 DEF TypeOK, Made, Behind
    <3>4. epoll.at # "idle" => epoll.ses \in Conns /\ Made(epoll.ses)
      BY <1>0, BehindType DEF AllMade, Typed
    <3>5. \A x \in Conns : watch[x] # Nobody => watch[x] \in Conns /\ Made(watch[x]) /\ x # Nobody
      BY <1>0, ConnectionsAssumption DEF AllMade, TypeOK
    <3> QED
      BY <3>2, <3>3, <3>4, <3>5 DEF Follows
  <2> QED
    BY <2>1, <2>2
<1>3. ASSUME NEW c \in Conns, Watch(c) PROVE Follows'
  <2> DEFINE o == Behind(c)
  <2>1. /\ o \in Conns \union {Nobody} /\ owner[fd[c]] = o /\ UNCHANGED <<fd, owner, epoll>>
        /\ watch' = watch \/ (o # Nobody /\ watch[o] = Nobody /\ watch' = [watch EXCEPT ![o] = c])
    BY <1>0, <1>3, BehindType DEF Watch, AllMade, Behind
  <2> HIDE DEF o
  <2>2. \A x \in Conns : watch'[x] = watch[x] \/ (x = o /\ watch'[x] = c /\ watch[x] = Nobody)
    BY <1>0, <2>1 DEF TypeOK
  <2>3. epoll.at \in {"read", "close"} => epoll.ses \in Conns /\ Behind(epoll.ses) \in Conns
    <3>1. epoll.at \in {"read", "close"} => epoll.ses \in Conns /\ epoll.ses # Nobody
      BY <1>0, BehindType, ConnectionsAssumption
    <3>2. epoll.at \in {"read", "close"} => Behind(epoll.ses) \in Conns \union {Nobody}
      BY <1>0, <3>1, BehindType DEF AllMade
    <3> QED
      BY <3>1, <3>2 DEF Follows
  <2> QED
    BY <2>1, <2>2, <2>3, ConnectionsAssumption DEF Follows, Behind
<1>4. ASSUME NEW c \in Conns, Wait(c) PROVE Follows'
  BY <1>0, <1>4, ConnectionsAssumption DEF Wait, Goto, sock, Follows, Behind, TypeOK
<1>5. CASE Read
  <2>1. UNCHANGED sock /\ epoll.at = "read"
    BY <1>5 DEF Read
  <2>2. epoll' = [ses |-> epoll.ses, at |-> "parse"] \/ epoll' = [ses |-> epoll.ses, at |-> "close"]
    BY <1>5, ReadStep
  <2> QED
    BY <2>1, <2>2 DEF sock, Follows, Behind
<1>6. CASE Close
  <2> DEFINE s == epoll.ses
             o == Behind(s)
  <2>1. /\ s \in Conns /\ fd[s] \in Fds /\ fd' = fd /\ epoll'.ses = s /\ epoll'.at \notin {"read", "close"}
        /\ \/ o = Nobody /\ UNCHANGED <<owner, watch>>
           \/ /\ o \in Conns /\ owner[fd[s]] = o
              /\ owner' = [owner EXCEPT ![fd[s]] = Nobody] /\ watch' = [watch EXCEPT ![o] = Nobody]
    BY <1>6, CloseStep DEF Close, Goto
  <2>2. owner'[fd'[s]] = Nobody
    BY <1>0, <2>1 DEF Behind, TypeOK
  <2> HIDE DEF s, o
  <2>3. \A c \in Conns : watch'[c] # Nobody => watch'[c] = watch[c] /\ owner'[fd'[watch[c]]] = owner[fd[watch[c]]]
    <3> TAKE c \in Conns
    <3>1. SUFFICES ASSUME watch'[c] # Nobody
                   PROVE  watch'[c] = watch[c] /\ owner'[fd'[watch[c]]] = owner[fd[watch[c]]]
      OBVIOUS
    <3>2. watch'[c] = watch[c] /\ (c # o \/ UNCHANGED <<owner, watch>>)
      BY <1>0, <2>1, <3>1 DEF TypeOK
    <3>3. owner[fd[watch[c]]] = c
      BY <3>1, <3>2 DEF Follows, Behind
    <3>4. fd[watch[c]] # fd[s] \/ UNCHANGED <<owner, watch>>
      BY <2>1, <3>2, <3>3
    <3>5. watch[c] \in Conns /\ fd[watch[c]] \in Fds
      BY <1>0, <3>1, <3>2, BehindType DEF TypeOK, AllMade
    <3> QED
      BY <1>0, <2>1, <3>2, <3>4, <3>5 DEF TypeOK
  <2> QED
    BY <2>1, <2>2, <2>3, ConnectionsAssumption DEF Follows, Behind, s
<1>7. CASE Offline
  BY <1>7 DEF Offline, Goto, Idle, sock, Follows, Behind
<1>8. CASE Unwatch
  BY <1>0, <1>8 DEF Unwatch, Goto, Follows, Behind, TypeOK
<1>9. CASE Parse
  BY <1>9 DEF Parse, Goto, Idle, sock, Follows, Behind
<1> QED
  BY <1>1, <1>2, <1>3, <1>4, <1>5, <1>6, <1>7, <1>8, <1>9
     DEF Next, Epoll, Work, Client, Pop, Answer, Enter, Broadcast, Leave, Send, vars, sock

-----------------------------------------------------------------------------
(* Polite clients.                                                         *)

PoliteParts == OwnWatch /\ OpenTill /\ NoGarbage /\ QuietWhenGone /\ PlayersOpen /\ Noticed

\* At the start no client has done anything.
LEMMA PoliteInit == Init => PoliteParts
<1> SUFFICES ASSUME Init PROVE PoliteParts
  OBVIOUS
<1>1. <<>> \in Seq(Asked \ {"garbage"})
  OBVIOUS
<1> QED
  BY <1>1 DEF Init, PoliteParts, OwnWatch, OpenTill, NoGarbage, QuietWhenGone, PlayersOpen, Noticed, Idle, Made

\* The clients and the accept threads: a session watched is the connection's own, for a
\* polite client's connection stays open until it is in the epoll set.
LEMMA PoliteOfClients ==
  ASSUME Kernel, Kernel', Follows, PoliteParts, [Next]_vars, setting.clients # "any",
         NEW c \in Conns, Client(c) \/ Accept(c) \/ Watch(c)
  PROVE  PoliteParts'
<1>0. TypeOK /\ Typed /\ AllMade /\ setting' = setting
  BY DEF Kernel, Client, Leave, Send, Accept, Watch
<1> USE DEF PoliteParts, OwnWatch, OpenTill, NoGarbage, QuietWhenGone, PlayersOpen, Noticed, Open, Made, Behind, sock
<1>1. ASSUME NEW what \in setting.sends, Send(c, what) PROVE PoliteParts'
  <2>1. what \in Asked \ {"garbage"}
    BY <1>0, <1>1, ConnectionsAssumption DEF Send, MaySend, Typed, Asked
  <2>2. UnderWay' = UnderWay
    BY <1>1 DEF Send, UnderWay
  <2>3. wire' \in [Conns -> Seq(Asked \ {"garbage"})]
    BY <1>1, <2>1 DEF Send
  <2> QED
    BY <1>0, <1>1, <2>2, <2>3 DEF Send
<1>2. CASE Leave(c)
  <2>2. UnderWay' = UnderWay
    BY <1>2 DEF Leave, UnderWay
  <2>3. wire[c] = <<>> /\ buffer[c] = <<>> /\ c \notin UnderWay /\ epoll.ses # c
    BY <1>0, <1>2 DEF Leave, Waits
  <2> QED
    BY <1>0, <1>2, <2>2, <2>3 DEF Leave
<1>3. CASE Accept(c)
  <2>1. UnderWay' = UnderWay
    BY <1>3 DEF Accept, UnderWay
  <2>2. CASE Free = {}
    BY <1>3, <2>1, <2>2 DEF Accept
  <2>3. CASE Free # {}
    <3> DEFINE n == Min(Free)
    <3>1. n \in Fds /\ owner[n] = Nobody
      BY <2>3, MinIsLeast, ConnectionsAssumption DEF Free
    <3> HIDE DEF n
    <3>2. /\ fd' = [fd EXCEPT ![c] = n] /\ owner' = [owner EXCEPT ![n] = c]
          /\ adding' = adding \union {c} /\ fd[c] = NoFd
          /\ UNCHANGED <<watch, gone, wire, edge, buffer, epoll, players>>
      BY <1>3, <2>3 DEF Accept, n
    <3>3. Open(c)' /\ ~Open(c) /\ \A x \in Conns : x # c => (Open(x) <=> Open(x)')
      BY <1>0, <3>1, <3>2, ConnectionsAssumption DEF TypeOK
    <3>4. /\ c \notin gone /\ c \notin players /\ c \notin UnderWay /\ watch[c] = Nobody /\ epoll.ses # c
      BY <1>0, <3>2, ConnectionsAssumption DEF AllMade, TypeOK
    <3>5. OwnWatch' /\ OpenTill'
      BY <3>2, <3>3, <3>4, <1>0 DEF TypeOK
    <3>6. NoGarbage' /\ QuietWhenGone'
      BY <3>2, <3>4, <2>1
    <3>7. PlayersOpen'
      BY <3>2, <3>3, <3>4, <1>0 DEF Typed
    <3>8. Noticed'
      BY <3>2, <3>3, <3>4, <1>0 DEF Typed
    <3> QED
      BY <3>5, <3>6, <3>7, <3>8
  <2> QED
    BY <2>2, <2>3
<1>4. CASE Watch(c)
  <2>1. UnderWay' = UnderWay
    BY <1>4 DEF Watch, UnderWay
  <2> QED
    BY <1>0, <1>4, <2>1 DEF Watch, TypeOK
<1> QED
  BY <1>1, <1>2, <1>3, <1>4 DEF Client

\* The epoll thread: what it takes for a session is the session's own, so it closes
\* nobody but one whose peer has gone.
LEMMA PoliteOfEpoll ==
  ASSUME Kernel, Kernel', Follows, PoliteParts, [Next]_vars, setting.clients # "any", Epoll
  PROVE  PoliteParts'
<1>0. TypeOK /\ Typed /\ AllMade
  BY DEF Kernel
<1> DEFINE s == epoll.ses
           o == Behind(s)
<1>1. epoll.at \in {"read", "close"} => s \in Conns /\ o = s /\ Open(s) /\ watch[s] = s /\ s \notin adding
  <2>1. epoll.at \in {"read", "close"} => s \in Conns /\ Made(s) /\ o # Nobody /\ watch[o] = s
    BY <1>0, BehindType, ConnectionsAssumption DEF Follows, AllMade
  <2>2. epoll.at \in {"read", "close"} => o \in Conns /\ s # Nobody
    BY <2>1, BehindType, ConnectionsAssumption
  <2> QED
    BY <2>1, <2>2 DEF PoliteParts, OwnWatch, Open
<1>2. ASSUME NEW c \in Conns, Wait(c) PROVE PoliteParts'
  <2>1. UnderWay' = UnderWay
    BY <1>2 DEF Wait, UnderWay
  <2>2. watch[c] = c /\ c \notin adding /\ epoll = Idle /\ epoll' = [ses |-> c, at |-> "read"] /\ edge' = edge \ {c}
        /\ UNCHANGED <<sock, gone, wire, buffer, players>>
    BY <1>2 DEF Wait, Goto, PoliteParts, OwnWatch
  <2> QED
    BY <2>1, <2>2 DEF PoliteParts, OwnWatch, OpenTill, NoGarbage, QuietWhenGone, PlayersOpen, Noticed,
                      Open, Made, Behind, sock, Idle
<1>3. CASE Read
  <2>1. UnderWay' = UnderWay
    BY <1>3 DEF Read, UnderWay
  <2>2. UNCHANGED <<sock, gone, edge, players>> /\ epoll.at = "read"
    BY <1>3 DEF Read
  <2>3. s \in Conns /\ o = s /\ Open(s) /\ s # Nobody
    BY <1>1, <2>2, ConnectionsAssumption
  <2>4. \/ /\ wire[s] # <<>> /\ epoll' = [ses |-> s, at |-> "parse"]
           /\ buffer' = [buffer EXCEPT ![s] = buffer[s] \o wire[s]] /\ wire' = [wire EXCEPT ![s] = <<>>]
        \/ s \in gone /\ epoll' = [ses |-> s, at |-> "close"] /\ UNCHANGED <<wire, buffer>>
    BY <1>3, <2>3, ReadStep
  <2> HIDE DEF s, o
  <2>5. CASE wire[s] # <<>>
    <3>1. s \notin gone
      BY <2>5 DEF PoliteParts, QuietWhenGone
    <3> DEFINE b == buffer[s] \o wire[s]
    <3>2. b \in Seq(Asked \ {"garbage"}) /\ <<>> \in Seq(Asked \ {"garbage"})
      BY <2>3 DEF PoliteParts, NoGarbage
    <3>3. epoll' = [ses |-> s, at |-> "parse"] /\ buffer' = [buffer EXCEPT ![s] = b] /\ wire' = [wire EXCEPT ![s] = <<>>]
      BY <2>4, <3>1
    <3> HIDE DEF b
    <3>4. NoGarbage'
      BY <2>3, <3>2, <3>3 DEF PoliteParts, NoGarbage
    <3>5. QuietWhenGone'
      BY <1>0, <2>1, <2>2, <3>1, <3>3 DEF PoliteParts, QuietWhenGone, Typed
    <3>6. OwnWatch' /\ OpenTill'
      BY <2>2 DEF PoliteParts, OwnWatch, OpenTill, Open, Made, Behind, sock
    <3>7. PlayersOpen' /\ Noticed'
      BY <2>2, <3>1, <3>3 DEF PoliteParts, PlayersOpen, Noticed, Open, Made, Behind, sock, s
    <3> QED
      BY <3>4, <3>5, <3>6, <3>7 DEF PoliteParts
  <2>6. CASE s \in gone /\ epoll' = [ses |-> s, at |-> "close"] /\ UNCHANGED <<wire, buffer>>
    BY <2>1, <2>2, <2>6 DEF PoliteParts, OwnWatch, OpenTill, NoGarbage, QuietWhenGone, PlayersOpen, Noticed,
                      Open, Made, Behind, sock, s
  <2> QED
    BY <2>4, <2>5, <2>6
<1>4. CASE Close
  <2>1. UnderWay' = UnderWay
    BY <1>4 DEF Close, UnderWay
  <2>2. epoll.at = "close" /\ epoll' = [ses |-> s, at |-> "offline"]
        /\ UNCHANGED <<fd, adding, gone, wire, buffer, players>>
    BY <1>4 DEF Close, Goto, PoliteParts, NoGarbage
  <2>3. s \in Conns /\ o = s /\ Open(s) /\ s # Nobody /\ watch[s] = s /\ s \notin adding
    BY <1>1, <2>2, ConnectionsAssumption
  <2>4. s \in gone
    BY <2>2 DEF PoliteParts, QuietWhenGone
  <2>5. fd[s] \in Fds /\ owner' = [owner EXCEPT ![fd[s]] = Nobody] /\ watch' = [watch EXCEPT ![s] = Nobody]
        /\ edge' = edge \ {s}
    BY <1>4, <2>3, CloseStep
  <2> HIDE DEF s, o
  <2>6. \A c \in Conns : c # s => (Open(c) <=> Open(c)')
    <3> TAKE c \in Conns
    <3>1. SUFFICES ASSUME c # s, Made(c) PROVE owner[fd[c]] = c <=> owner'[fd[c]] = c
      BY <2>2 DEF Open, Made, Behind
    <3>2. fd[c] \in Fds /\ owner[fd[s]] = s /\ c # Nobody
      BY <1>0, <2>3, <3>1, ConnectionsAssumption DEF TypeOK, Open, Made, Behind
    <3> QED
      BY <1>0, <2>3, <2>5, <3>1, <3>2 DEF TypeOK
  <2>7. watch'[s] = Nobody /\ \A c \in Conns : c # s => watch'[c] = watch[c]
    BY <1>0, <2>3, <2>5 DEF TypeOK
  <2>8. OwnWatch' /\ OpenTill'
    BY <1>0, <2>2, <2>3, <2>4, <2>6, <2>7 DEF PoliteParts, OwnWatch, OpenTill, Made
  <2>9. NoGarbage' /\ QuietWhenGone'
    BY <2>1, <2>2, <2>4 DEF PoliteParts, NoGarbage, QuietWhenGone
  <2>10. PlayersOpen'
    BY <1>0, <2>2, <2>6 DEF PoliteParts, PlayersOpen, Typed
  <2>11. Noticed'
    BY <1>0, <2>2, <2>3, <2>5, <2>6, <2>7 DEF PoliteParts, Noticed, Typed, s
  <2> QED
    BY <2>8, <2>9, <2>10, <2>11 DEF PoliteParts
<1>5. CASE Offline
  <2>1. UnderWay' = UnderWay
    BY <1>5 DEF Offline, UnderWay
  <2>2. epoll.at = "offline" /\ epoll' = [ses |-> s, at |-> "remove"] /\ players' = players \ {s}
        /\ UNCHANGED <<sock, gone, wire, buffer, edge>>
    BY <1>5 DEF Offline, Goto, PoliteParts, NoGarbage
  <2> QED
    BY <2>1, <2>2 DEF PoliteParts, OwnWatch, OpenTill, NoGarbage, QuietWhenGone, PlayersOpen, Noticed,
                      Open, Made, Behind, sock
<1>6. CASE Unwatch
  <2>1. UnderWay' = UnderWay
    BY <1>6 DEF Unwatch, UnderWay
  <2>2. epoll.at = "remove" /\ epoll' = [ses |-> s, at |-> "parse"]
        /\ UNCHANGED <<fd, adding, owner, gone, wire, buffer, edge, players>>
    BY <1>6 DEF Unwatch, Goto
  <2>3. \A c \in Conns : watch'[c] # Nobody => watch'[c] = watch[c]
    BY <1>0, <1>6 DEF Unwatch, TypeOK
  <2>4. OwnWatch' /\ OpenTill' /\ NoGarbage' /\ QuietWhenGone' /\ PlayersOpen'
    BY <1>0, <2>1, <2>2, <2>3 DEF PoliteParts, OwnWatch, OpenTill, NoGarbage, QuietWhenGone, PlayersOpen,
                      Open, Made, Behind
  <2>5. Noticed'
    <3>1. \A c \in gone : watch'[c] = c => watch[c] = c
      BY <1>0, <2>3, ConnectionsAssumption DEF Typed
    <3> QED
      BY <1>0, <2>2, <3>1 DEF PoliteParts, Noticed, Open, Made, Behind
  <2> QED
    BY <2>4, <2>5 DEF PoliteParts
<1>7. CASE Parse
  <2>1. epoll.at = "parse" /\ UNCHANGED <<sock, gone, wire, edge, players>>
    BY <1>7 DEF Parse
  <2>2. /\ s \in Conns
        /\ \/ epoll' = Idle /\ UNCHANGED <<buffer, queue>>
           \/ /\ buffer[s] # <<>> /\ epoll' = Idle
              /\ buffer' = [buffer EXCEPT ![s] = Tail(buffer[s])]
    <3>1. s \in Conns /\ buffer[s] \in Seq(Asked \ {"garbage"})
      BY <1>7, ParseStep DEF PoliteParts, NoGarbage
    <3>2. buffer[s] # <<>> => Head(buffer[s]) # "garbage"
      BY <3>1, HeldAfterTail
    <3> QED
      BY <1>7, <3>1, <3>2, ParseStep
  <2>3. UnderWay' \subseteq UnderWay \/ (buffer[s] # <<>> /\ UnderWay' \subseteq UnderWay \union {s})
    BY <1>0, UnderWayStep
  <2>4. buffer[s] # <<>> => s \notin gone
    BY DEF PoliteParts, QuietWhenGone
  <2>5. buffer[s] # <<>> => Tail(buffer[s]) \in Seq(Asked \ {"garbage"})
    BY <2>2, HeldAfterTail DEF PoliteParts, NoGarbage
  <2> HIDE DEF s
  <2>6. NoGarbage'
    <3>1. buffer' \in [Conns -> Seq(Asked \ {"garbage"})]
      BY <2>2, <2>5 DEF PoliteParts, NoGarbage
    <3>2. epoll'.at = "idle"
      BY <2>2 DEF Idle
    <3> QED
      BY <2>1, <3>1, <3>2 DEF PoliteParts, NoGarbage
  <2>7. QuietWhenGone'
    BY <1>0, <2>1, <2>2, <2>3, <2>4 DEF PoliteParts, QuietWhenGone, Idle, Typed
  <2>8. OwnWatch' /\ OpenTill' /\ PlayersOpen' /\ Noticed'
    BY <2>1, <2>2 DEF PoliteParts, OwnWatch, OpenTill, PlayersOpen, Noticed, Idle, Open, Made, Behind, sock
  <2> QED
    BY <2>6, <2>7, <2>8 DEF PoliteParts
<1> QED
  BY <1>2, <1>3, <1>4, <1>5, <1>6, <1>7 DEF Epoll

\* The workers: who enters the scene has asked to, and so is open.
LEMMA PoliteOfWorkers ==
  ASSUME Kernel, Kernel', PoliteParts, [Next]_vars, setting.clients # "any",
         NEW w \in Workers, Work(w)
  PROVE  PoliteParts'
<1>0. TypeOK /\ Typed /\ AllMade
  BY DEF Kernel
<1>1. UnderWay' \subseteq UnderWay /\ UNCHANGED <<sock, gone, wire, edge, buffer, epoll>>
  <2>1. ~Parse
    BY <1>0 DEF Work, Pop, Answer, Enter, Broadcast, Parse, Typed, Goto
  <2> QED
    BY <1>0, <2>1, UnderWayStep DEF Work, Pop, Answer, Enter, Broadcast
<1>2. players' \subseteq players \union (UnderWay \ gone)
  <2>1. CASE Enter(w)
    BY <2>1, WorkerIsUnderWay DEF Enter, PoliteParts, QuietWhenGone
  <2> QED
    BY <2>1 DEF Work, Pop, Answer, Broadcast
<1>3. \A c \in UnderWay \ gone : Open(c)
  <2> TAKE c \in UnderWay \ gone
  <2>1. c \in Conns
    <3>1. CASE \E m \in ToSet(queue) : c = m.ses
      <4>1. ToSet(queue) \subseteq Request
        BY <1>0 DEF ToSet, Typed
      <4> QED
        BY <3>1, <4>1 DEF Request
    <3>2. CASE \E x \in Workers : job[x] # NoJob /\ c = job[x].ses
      <4>1. PICK x \in Workers : job[x] # NoJob /\ c = job[x].ses
        BY <3>2
      <4>2. job[x] \in Request \union Telling
        BY <1>0, <4>1 DEF Typed
      <4> QED
        BY <4>1, <4>2 DEF Request, Telling
    <3> QED
      BY <3>1, <3>2 DEF UnderWay
  <2> QED
    BY <1>0, <2>1 DEF AllMade, PoliteParts, OpenTill
<1>4. PlayersOpen'
  BY <1>1, <1>2, <1>3 DEF PoliteParts, PlayersOpen, Open, Made, Behind, sock
<1>5. OwnWatch' /\ OpenTill' /\ NoGarbage' /\ QuietWhenGone' /\ Noticed'
  BY <1>0, <1>1 DEF PoliteParts, OwnWatch, OpenTill, NoGarbage, QuietWhenGone, Noticed, Open, Made, Behind, sock, Typed
<1> QED
  BY <1>4, <1>5 DEF PoliteParts

\* So every step keeps it when the clients are polite.
LEMMA PoliteStep == Kernel /\ Follows /\ Polite /\ [Next]_vars => Polite'
<1> SUFFICES ASSUME Kernel, Follows, Polite, [Next]_vars, (setting.clients # "any")' PROVE PoliteParts'
  BY ZenonT(30) DEF Polite, PoliteParts
<1>1. setting' = setting /\ Kernel'
  BY KernelStep DEF Next, Epoll, Work, Client, Wait, Read, Close, Offline, Unwatch, Parse, Pop, Answer, Enter,
        Broadcast, Leave, Send, Accept, Watch, vars
<1>2. setting.clients # "any" /\ PoliteParts
  BY <1>1 DEF Polite, PoliteParts
<1>3. CASE UNCHANGED vars
  BY <1>2, <1>3 DEF vars, PoliteParts, OwnWatch, OpenTill, NoGarbage, QuietWhenGone, PlayersOpen, Noticed,
        UnderWay, Made, Open, Behind
<1> QED
  BY <1>1, <1>2, <1>3, PoliteOfClients, PoliteOfEpoll, PoliteOfWorkers DEF Next

\* With polite clients no hang-up goes unnoticed, whatever the accept threads and
\* the workers do meanwhile (epoll_server.cpp 64-75).
THEOREM HangupNoticed == Spec => []HangupIsNoticed
<1>1. Init => Kernel /\ Follows /\ Polite
  BY KernelInit, FollowsInit, PoliteInit DEF Polite, PoliteParts
<1>2. Kernel /\ Follows /\ Polite /\ [Next]_vars => (Kernel /\ Follows /\ Polite)'
  BY KernelStep, FollowsStep, PoliteStep
<1>3. Kernel /\ Follows /\ Polite => HangupIsNoticed
  BY DEF Kernel, Typed, Polite, Noticed, HangupIsNoticed
<1> QED
  BY <1>1, <1>2, <1>3, PTL DEF Spec

-----------------------------------------------------------------------------
(* Quiet clients.                                                          *)

QuietParts == OneLeaves /\ SeenStay /\ Watched /\ alive = TRUE /\ misheard = FALSE

\* Who asked and was not answered is a connection with a number of its own, and one
\* whose peer is there when clients are polite.
LEMMA UnderWayIsOpen ==
  ASSUME Kernel, NEW c \in UnderWay
  PROVE  c \in Conns /\ (PoliteParts => Open(c) /\ c \notin gone)
<1>0. TypeOK /\ Typed /\ AllMade
  BY DEF Kernel
<1>1. c \in Conns
  <2>1. CASE \E m \in ToSet(queue) : c = m.ses
    <3>1. ToSet(queue) \subseteq Request
      BY <1>0 DEF ToSet, Typed
    <3> QED
      BY <2>1, <3>1 DEF Request
  <2>2. CASE \E x \in Workers : job[x] # NoJob /\ c = job[x].ses
    <3>1. PICK x \in Workers : job[x] # NoJob /\ c = job[x].ses
      BY <2>2
    <3>2. job[x] \in Request \union Telling
      BY <1>0, <3>1 DEF Typed
    <3> QED
      BY <3>1, <3>2 DEF Request, Telling
  <2> QED
    BY <2>1, <2>2 DEF UnderWay
<1> QED
  BY <1>0, <1>1 DEF AllMade, PoliteParts, OpenTill, QuietWhenGone

\* What is written to open connections whose peer is there does no harm (Socket::write).
LEMMA WriteIsHeard ==
  ASSUME NEW S, Write(S), alive = TRUE, misheard \in BOOLEAN, \A s \in S : Open(s) /\ s \notin gone
  PROVE  UNCHANGED <<alive, misheard>>
BY DEF Write, Open

\* With polite clients the event the epoll thread is at is its session's own.
LEMMA OwnEvent ==
  ASSUME Kernel, Follows, PoliteParts, epoll.at \in {"read", "close"}
  PROVE  LET s == epoll.ses IN
         s \in Conns /\ Behind(s) = s /\ Open(s) /\ watch[s] = s /\ s \notin adding /\ s # Nobody
<1>1. epoll.ses \in Conns /\ Made(epoll.ses) /\ Behind(epoll.ses) # Nobody /\ watch[Behind(epoll.ses)] = epoll.ses
  BY BehindType, ConnectionsAssumption DEF Follows, AllMade, Kernel
<1>2. Behind(epoll.ses) \in Conns /\ epoll.ses # Nobody
  BY <1>1, BehindType, ConnectionsAssumption
<1> QED
  BY <1>1, <1>2 DEF PoliteParts, OwnWatch, Open

\* At the start nobody is leaving.
LEMMA QuietInit == Init => QuietParts
<1> SUFFICES ASSUME Init PROVE QuietParts
  OBVIOUS
<1>1. Settled /\ epoll.at = "idle"
  BY DEF Init, Settled, Idle
<1> QED
  BY <1>1 DEF Init, QuietParts, OneLeaves, SeenStay, Watched, Tells, Open, Made

\* The clients: one leaves only when all is still, and nobody sends or connects until
\* its connection is closed.
LEMMA QuietOfClients ==
  ASSUME Kernel, Kernel', Follows, PoliteParts, QuietParts, [Next]_vars, setting.clients = "quiet",
         NEW c \in Conns, Client(c) \/ Accept(c) \/ Watch(c)
  PROVE  QuietParts'
<1>0. TypeOK /\ Typed /\ AllMade
  BY DEF Kernel
<1>1. ASSUME NEW what \in setting.sends, Send(c, what) PROVE QuietParts'
  <2>1. Settled
    BY <1>1 DEF Send, MaySend
  <2>2. UNCHANGED <<sock, gone, epoll, job, alive, misheard>>
    BY <1>1 DEF Send
  <2>3. Settled'
    BY <2>1, <2>2 DEF Settled, Open, Made, Behind, sock
  <2> QED
    BY <2>2, <2>3 DEF QuietParts, OneLeaves, SeenStay, Watched, Tells, Open, Made, Behind, sock
<1>2. CASE Leave(c)
  <2>1. Settled /\ \A d \in Conns : wire[d] = <<>> /\ buffer[d] = <<>> /\ d \notin UnderWay
    BY <1>2 DEF Leave, Waits
  <2>2. UnderWay' = UnderWay
    BY <1>2 DEF Leave, UnderWay
  <2>3. UNCHANGED <<sock, wire, buffer, epoll, job, alive, misheard>> /\ gone' = gone \union {c}
    BY <1>2 DEF Leave
  <2>4. \A w \in Workers : ~Tells(w)
    BY <2>1, WorkerIsUnderWay, UnderWayIsOpen DEF Tells
  <2>5. OneLeaves'
    BY <2>1, <2>2, <2>3 DEF Settled, OneLeaves, Open, Made, Behind, sock
  <2> QED
    BY <2>3, <2>4, <2>5 DEF QuietParts, SeenStay, Watched, Tells, Open, Made, Behind, sock
<1>3. CASE Accept(c)
  <2>1. UNCHANGED <<watch, gone, wire, buffer, epoll, job, alive, misheard>> /\ Settled
    BY <1>3 DEF Accept, sock
  <2>2. CASE Free = {}
    <3>1. UNCHANGED <<sock, queue>>
      BY <1>3, <2>2 DEF Accept
    <3>2. Settled'
      BY <2>1, <3>1 DEF Settled, Open, Made, Behind, sock
    <3> QED
      BY <2>1, <3>1, <3>2 DEF QuietParts, OneLeaves, SeenStay, Watched, Tells, Open, Made, Behind, sock
  <2>3. CASE Free # {}
    <3> DEFINE n == Min(Free)
    <3>1. n \in Fds /\ owner[n] = Nobody
      BY <2>3, MinIsLeast, ConnectionsAssumption DEF Free
    <3>2. /\ fd' = [fd EXCEPT ![c] = n] /\ owner' = [owner EXCEPT ![n] = c]
          /\ adding' = adding \union {c} /\ fd[c] = NoFd
      BY <1>3, <2>3 DEF Accept, Made
    <3> HIDE DEF n
    <3>3. \A x \in Conns : x # c => (Open(x) <=> Open(x)')
      BY <1>0, <3>1, <3>2, ConnectionsAssumption DEF TypeOK, Open, Made, Behind
    <3>4. c \notin gone /\ ~Open(c) /\ watch[c] = Nobody
      BY <1>0, <3>2, ConnectionsAssumption DEF AllMade, TypeOK, Open, Made
    <3>5. Settled'
      BY <1>0, <2>1, <3>3, <3>4 DEF Settled, Typed
    <3>6. OneLeaves'
      BY <1>0, <2>1, <3>3, <3>4, <3>5 DEF Settled, OneLeaves, Typed, QuietParts
    <3>7. SeenStay'
      <4>1. \A w \in Workers : Tells(w) => job[w].seen \subseteq Conns
        BY <1>0 DEF Typed, Tells, Request, Telling, Asked
      <4> QED
        BY <2>1, <3>3, <3>4, <4>1 DEF SeenStay, QuietParts, Tells
    <3>8. Watched'
      BY <2>1, <3>2, <3>3, <3>4 DEF Watched, QuietParts
    <3> QED
      BY <2>1, <3>6, <3>7, <3>8 DEF QuietParts
  <2> QED
    BY <2>2, <2>3
<1>4. CASE Watch(c)
  <2>1. UNCHANGED <<fd, owner, gone, wire, buffer, epoll, queue, job, alive, misheard>>
    BY <1>4 DEF Watch
  <2>2. c \in adding /\ Open(c)
    BY <1>4 DEF Watch, PoliteParts, OpenTill
  <2>3. watch[c] = Nobody /\ Behind(c) = c /\ c # Nobody
    BY <2>2, ConnectionsAssumption DEF QuietParts, Watched, Open
  <2>4. adding' = adding \ {c} /\ watch' = [watch EXCEPT ![c] = c]
    BY <1>4, <2>3 DEF Watch
  <2>5. Watched'
    BY <1>0, <2>1, <2>4 DEF QuietParts, Watched, Open, Made, Behind, TypeOK
  <2>6. UnderWay' = UnderWay /\ (Settled <=> Settled')
    BY <2>1 DEF UnderWay, Settled, Open, Made, Behind
  <2> QED
    BY <2>1, <2>5, <2>6 DEF QuietParts, OneLeaves, SeenStay, Tells, Open, Made, Behind
<1> QED
  BY <1>1, <1>2, <1>3, <1>4 DEF Client

\* The epoll thread: while it closes the one who left nothing else is under way, so
\* its number is still nobody's when it is taken from the epoll set.
LEMMA QuietOfEpoll ==
  ASSUME Kernel, Kernel', Follows, PoliteParts, QuietParts, [Next]_vars, setting.clients = "quiet", Epoll
  PROVE  QuietParts'
<1>0. TypeOK /\ Typed /\ AllMade
  BY DEF Kernel
<1> DEFINE s == epoll.ses
<1>1. ASSUME NEW c \in Conns, Wait(c) PROVE QuietParts'
  <2>1. UNCHANGED <<sock, gone, wire, buffer, queue, job, alive, misheard>> /\ epoll.at = "idle" /\ epoll'.at = "read"
    BY <1>1 DEF Wait, Goto, Idle
  <2>2. UnderWay' = UnderWay /\ (Settled <=> Settled')
    BY <2>1 DEF UnderWay, Settled, Open, Made, Behind, sock
  <2> QED
    BY <2>1, <2>2 DEF QuietParts, OneLeaves, SeenStay, Watched, Tells, Open, Made, Behind, sock
<1>2. CASE Read
  <2>1. UNCHANGED <<sock, gone, queue, job, alive, misheard>> /\ epoll.at = "read"
    BY <1>2 DEF Read
  <2>2. s \in Conns /\ Behind(s) = s /\ Open(s) /\ s # Nobody
    BY <2>1, OwnEvent
  <2>3. \/ wire[s] # <<>> /\ epoll' = [ses |-> s, at |-> "parse"]
        \/ s \in gone /\ epoll' = [ses |-> s, at |-> "close"] /\ UNCHANGED <<wire, buffer>>
    BY <1>2, <2>2, ReadStep
  <2> HIDE DEF s
  <2>4. UnderWay' = UnderWay
    BY <2>1 DEF UnderWay
  <2>5. OneLeaves'
    <3>1. CASE wire[s] # <<>> /\ epoll'.at = "parse"
      <4>1. Settled
        BY <2>2, <3>1 DEF QuietParts, OneLeaves
      <4>2. Settled'
        BY <2>1, <3>1, <4>1 DEF Settled, Open, Made, Behind, sock
      <4> QED
        BY <2>1, <3>1, <4>2 DEF QuietParts, OneLeaves, Open, Made, Behind, sock
    <3>2. CASE s \in gone /\ epoll'.at = "close" /\ UNCHANGED <<wire, buffer>>
      <4>1. ~Settled
        BY <2>2, <3>2 DEF Settled
      <4> QED
        BY <2>1, <2>4, <3>2, <4>1 DEF QuietParts, OneLeaves, Open, Made, Behind, sock
    <3> QED
      BY <2>3, <3>1, <3>2
  <2> QED
    BY <2>1, <2>5 DEF QuietParts, SeenStay, Watched, Tells, Open, Made, Behind, sock
<1>3. CASE Close
  <2>1. epoll.at = "close" /\ epoll' = [ses |-> s, at |-> "offline"]
        /\ UNCHANGED <<fd, adding, gone, wire, buffer, queue, job, alive, misheard>>
    BY <1>3 DEF Close, Goto, PoliteParts, NoGarbage
  <2>2. s \in Conns /\ Behind(s) = s /\ Open(s) /\ s # Nobody
    BY <2>1, OwnEvent
  <2>3. s \in gone
    BY <2>1 DEF PoliteParts, QuietWhenGone
  <2>4. fd[s] \in Fds /\ owner' = [owner EXCEPT ![fd[s]] = Nobody] /\ watch' = [watch EXCEPT ![s] = Nobody]
    BY <1>3, <2>2, CloseStep
  <2> HIDE DEF s
  <2>5. \A c \in Conns : c # s => (Open(c) <=> Open(c)')
    <3> TAKE c \in Conns
    <3>1. SUFFICES ASSUME c # s, Made(c) PROVE owner[fd[c]] = c <=> owner'[fd[c]] = c
      BY <2>1 DEF Open, Made, Behind
    <3>2. fd[c] \in Fds /\ owner[fd[s]] = s /\ c # Nobody
      BY <1>0, <2>2, <3>1, ConnectionsAssumption DEF TypeOK, Open, Made, Behind
    <3> QED
      BY <1>0, <2>2, <2>4, <3>1, <3>2 DEF TypeOK
  <2>6. owner'[fd'[s]] = Nobody /\ epoll'.ses = s
    BY <1>0, <2>1, <2>4 DEF TypeOK
  <2>7. \A c \in Conns : c = s => ~Open(c)'
    BY <2>2, <2>6 DEF Open, Behind
  <2>8. UnderWay' = UnderWay /\ ~Settled
    BY <2>1 DEF UnderWay, Settled
  <2>9. \A c \in gone : ~Open(c)'
    BY <1>0, <2>2, <2>3, <2>5, <2>7 DEF QuietParts, OneLeaves, Typed
  <2>10. OneLeaves'
    BY <2>1, <2>6, <2>8, <2>9 DEF QuietParts, OneLeaves, Behind
  <2>11. SeenStay'
    <3>1. \A w \in Workers : Tells(w) => job[w].seen \subseteq Conns
      BY <1>0 DEF Typed, Tells, Request, Telling, Asked
    <3> QED
      BY <2>1, <2>3, <2>5, <3>1 DEF SeenStay, QuietParts, Tells
  <2>12. Watched'
    BY <1>0, <2>1, <2>4, <2>5, <2>7 DEF Watched, QuietParts, TypeOK
  <2> QED
    BY <2>1, <2>10, <2>11, <2>12 DEF QuietParts
<1>4. CASE Offline
  <2>1. epoll.at = "offline" /\ epoll' = [ses |-> s, at |-> "remove"]
        /\ UNCHANGED <<sock, gone, wire, buffer, queue, job>>
    BY <1>4 DEF Offline, Goto, PoliteParts, NoGarbage
  <2>2. \A c \in players \ {s} : Open(c) /\ c \notin gone
    BY <2>1 DEF PoliteParts, PlayersOpen, QuietParts, OneLeaves
  <2>3. UNCHANGED <<alive, misheard>>
    <3>1. CASE s \in players
      <4>1. Write(players \ {s})
        BY <1>4, <3>1 DEF Offline, Write
      <4> QED
        BY <1>0, <2>2, <4>1, WriteIsHeard DEF QuietParts, Typed
    <3> QED
      BY <1>4, <3>1 DEF Offline
  <2>4. UnderWay' = UnderWay /\ ~Settled
    BY <2>1 DEF UnderWay, Settled
  <2>5. OneLeaves'
    BY <2>1, <2>4 DEF QuietParts, OneLeaves, Open, Made, Behind, sock
  <2> QED
    BY <2>1, <2>3, <2>5 DEF QuietParts, SeenStay, Watched, Tells, Open, Made, Behind, sock
<1>5. CASE Unwatch
  <2>1. epoll.at = "remove" /\ epoll' = [ses |-> s, at |-> "parse"]
        /\ UNCHANGED <<fd, adding, owner, gone, wire, buffer, queue, job, alive, misheard>>
    BY <1>5 DEF Unwatch, Goto
  <2>2. Behind(s) = Nobody /\ \A c \in gone : ~Open(c)
    BY <2>1 DEF QuietParts, OneLeaves
  <2>3. watch' = watch
    BY <1>5, <2>2 DEF Unwatch
  <2>4. Settled'
    BY <2>1, <2>2 DEF Settled, Open, Made, Behind
  <2> QED
    BY <2>1, <2>3, <2>4 DEF QuietParts, OneLeaves, SeenStay, Watched, Tells, Open, Made, Behind
<1>6. CASE Parse
  <2>1. epoll.at = "parse" /\ UNCHANGED <<sock, gone, wire, job, alive, misheard>>
    BY <1>6 DEF Parse
  <2>2. s \in Conns /\ (buffer[s] # <<>> => Head(buffer[s]) # "garbage")
    <3>1. s \in Conns /\ buffer[s] \in Seq(Asked \ {"garbage"})
      BY <1>6, ParseStep DEF PoliteParts, NoGarbage
    <3> QED
      BY <3>1, HeldAfterTail
  <2>3. epoll' = Idle /\ (UNCHANGED <<buffer, queue>> \/ buffer[s] # <<>>)
    BY <1>6, <2>2, ParseStep
  <2>4. Settled <=> Settled'
    BY <2>1, <2>3 DEF Settled, Idle, Open, Made, Behind, sock
  <2>5. OneLeaves'
    <3>1. CASE UNCHANGED <<buffer, queue>>
      <4>1. UnderWay' = UnderWay
        BY <2>1, <3>1 DEF UnderWay
      <4> QED
        BY <2>1, <2>3, <2>4, <3>1, <4>1 DEF QuietParts, OneLeaves, Open, Made, Behind, sock, Idle
    <3>2. CASE buffer[s] # <<>>
      <4>1. Settled
        BY <2>2, <3>2 DEF QuietParts, OneLeaves
      <4> QED
        BY <2>1, <2>3, <2>4, <4>1 DEF QuietParts, OneLeaves, Open, Made, Behind, sock, Idle
    <3> QED
      BY <2>3, <3>1, <3>2
  <2> QED
    BY <2>1, <2>5 DEF QuietParts, SeenStay, Watched, Tells, Open, Made, Behind, sock
<1> QED
  BY <1>1, <1>2, <1>3, <1>4, <1>5, <1>6 DEF Epoll

\* With polite clients an answer is heard by who asked (Socket::write of a handler).
LEMMA AnswerIsHeard ==
  ASSUME Kernel, PoliteParts, alive = TRUE, NEW w \in Workers, Answer(w)
  PROVE  UNCHANGED <<alive, misheard>>
<1>1. job[w].ses \in UnderWay
  BY WorkerIsUnderWay DEF Answer
<1>2. Open(job[w].ses) /\ job[w].ses \notin gone
  BY <1>1, UnderWayIsOpen
<1>3. CASE Write({job[w].ses})
  <2>1. \A s \in {job[w].ses} : Open(s) /\ s \notin gone
    BY <1>2
  <2>2. misheard \in BOOLEAN
    BY DEF Kernel, Typed
  <2> QED
    BY <1>3, <2>1, <2>2, WriteIsHeard
<1> QED
  BY <1>3 DEF Answer, Write

\* So is a broadcast when everyone it goes to is there.
LEMMA BroadcastIsHeard ==
  ASSUME Kernel, PoliteParts, alive = TRUE, NEW w \in Workers, Broadcast(w),
         \A s \in job[w].seen : Open(s) /\ s \notin gone
  PROVE  UNCHANGED <<alive, misheard>>
<1>1. job[w].ses \in UnderWay
  BY WorkerIsUnderWay DEF Broadcast
<1>2. Open(job[w].ses) /\ job[w].ses \notin gone
  BY <1>1, UnderWayIsOpen
<1> DEFINE S == job[w].seen \union {job[w].ses}
<1>3. Write(S) /\ \A s \in S : Open(s) /\ s \notin gone
  BY <1>2 DEF Broadcast, Write
<1>4. misheard \in BOOLEAN
  BY DEF Kernel, Typed
<1> HIDE DEF S
<1> QED
  BY <1>3, <1>4, WriteIsHeard

\* The workers: whoever they write to is there, for none leaves while they are at it.
LEMMA QuietOfWorkers ==
  ASSUME Kernel, Kernel', PoliteParts, QuietParts, [Next]_vars, setting.clients = "quiet",
         NEW w \in Workers, Work(w)
  PROVE  QuietParts'
<1>0. TypeOK /\ Typed /\ AllMade
  BY DEF Kernel
<1>1. UnderWay' \subseteq UnderWay /\ UNCHANGED <<sock, gone, wire, buffer, epoll>>
  <2>1. ~Parse
    BY <1>0 DEF Work, Pop, Answer, Enter, Broadcast, Parse, Typed, Goto
  <2> QED
    BY <1>0, <2>1, UnderWayStep DEF Work, Pop, Answer, Enter, Broadcast
<1>2. Settled <=> Settled'
  BY <1>1 DEF Settled, Open, Made, Behind, sock
<1>3. OneLeaves' /\ Watched'
  BY <1>1, <1>2 DEF QuietParts, OneLeaves, Watched, Open, Made, Behind, sock
<1>4. \A s : Open(s) <=> Open(s)'
  BY <1>1 DEF Open, Made, Behind, sock
<1>5. UNCHANGED <<alive, misheard>>
  <2>1. CASE Answer(w)
    BY <2>1, AnswerIsHeard DEF QuietParts
  <2>2. CASE Broadcast(w)
    <3>1. Tells(w)
      BY <2>2 DEF Broadcast, Tells
    <3>2. \A s \in job[w].seen : Open(s) /\ s \notin gone
      BY <3>1 DEF QuietParts, SeenStay
    <3> QED
      BY <2>2, <3>2, BroadcastIsHeard DEF QuietParts
  <2> QED
    BY <2>1, <2>2 DEF Work, Pop, Enter
<1>6. SeenStay'
  <2>1. CASE Pop(w)
    <3>1. Head(queue) \in Request
      BY <1>0, <2>1, HeldAfterTail DEF Pop, Typed
    <3>2. \A x \in Workers : Tells(x)' => Tells(x) /\ job'[x] = job[x]
      BY <1>0, <2>1, <3>1 DEF Pop, Tells, Typed, Request, Asked
    <3> QED
      BY <1>1, <1>4, <3>2 DEF QuietParts, SeenStay
  <2>2. CASE Answer(w) \/ Broadcast(w)
    <3>1. \A x \in Workers : Tells(x)' => Tells(x) /\ job'[x] = job[x]
      BY <1>0, <2>2 DEF Answer, Broadcast, Tells, Typed
    <3> QED
      BY <1>1, <1>4, <3>1 DEF QuietParts, SeenStay
  <2>3. CASE Enter(w)
    <3>1. job[w].ses \in UnderWay /\ job[w].ses \in Conns
      BY <2>3, WorkerIsUnderWay, UnderWayIsOpen DEF Enter
    <3>2. Settled
      BY <3>1 DEF QuietParts, OneLeaves
    <3>3. \A s \in players : Open(s) /\ s \notin gone
      BY <3>2 DEF PoliteParts, PlayersOpen, Settled
    <3>4. \A x \in Workers : Tells(x)' => (Tells(x) /\ job'[x] = job[x]) \/ job'[x].seen = players
      BY <1>0, <2>3 DEF Enter, Tells, Typed
    <3> QED
      BY <1>1, <1>4, <3>3, <3>4 DEF QuietParts, SeenStay
  <2> QED
    BY <2>1, <2>2, <2>3 DEF Work
<1> QED
  BY <1>3, <1>5, <1>6 DEF QuietParts

\* So every step keeps it when the clients are quiet.
LEMMA QuietStep == Kernel /\ Follows /\ Polite /\ Quiet /\ [Next]_vars => Quiet'
<1> SUFFICES ASSUME Kernel, Follows, Polite, Quiet, [Next]_vars, (setting.clients = "quiet")' PROVE QuietParts'
  BY KernelStep DEF Quiet, QuietParts, Kernel, Typed
<1>1. setting' = setting /\ Kernel'
  BY KernelStep DEF Next, Epoll, Work, Client, Wait, Read, Close, Offline, Unwatch, Parse, Pop, Answer, Enter,
        Broadcast, Leave, Send, Accept, Watch, vars
<1>2. setting.clients = "quiet" /\ PoliteParts /\ QuietParts
  BY <1>1 DEF Polite, PoliteParts, Quiet, QuietParts, Kernel, Typed
<1>3. CASE UNCHANGED vars
  BY <1>2, <1>3 DEF vars, QuietParts, OneLeaves, Settled, SeenStay, Watched, Tells, UnderWay, Made, Open, Behind
<1> QED
  BY <1>1, <1>2, <1>3, QuietOfClients, QuietOfEpoll, QuietOfWorkers DEF Next

\* The four layers together are an invariant of the specification.
LEMMA ConnInvHolds == Spec => []ConnInv
<1>1. Init => ConnInv
  BY KernelInit, FollowsInit, PoliteInit, QuietInit DEF ConnInv, Polite, PoliteParts, Quiet, QuietParts
<1>2. ConnInv /\ [Next]_vars => ConnInv'
  BY KernelStep, FollowsStep, PoliteStep, QuietStep DEF ConnInv
<1> QED
  BY <1>1, <1>2, PTL DEF Spec

\* Clients that keep still while another leaves meet none of the races of the
\* descriptors: nothing is misheard, nothing kills the process, and everyone is
\* watched through their own session (epoll_server.cpp 64-75, socket.cpp).
THEOREM QuietAreRight == Spec => []QuietIsRight
<1>1. ConnInv => QuietIsRight
  BY DEF ConnInv, Kernel, Polite, PlayersOpen, Quiet, Watched, QuietIsRight
<1> QED
  BY <1>1, ConnInvHolds, PTL

-----------------------------------------------------------------------------
(* What one connection suffers from another.                               *)

\* With polite clients only a broadcast, or what the others are told of the one who
\* goes, reaches the wrong one or kills the process.
LEMMA HeardStep == ConnInv /\ [Next]_vars => HeardByOverlap
<1> SUFFICES ASSUME ConnInv, [Next]_vars, setting.clients # "any", misheard' # misheard \/ alive' # alive
             PROVE  \/ \E w \in Workers : Broadcast(w) /\ \E s \in job[w].seen :
                         IF Open(s) THEN s \in gone ELSE s \notin players \/ epoll.ses = s
                    \/ Offline /\ \E s \in players : s \in gone
  BY DEF HeardByOverlap
<1>1. Kernel /\ PoliteParts
  BY DEF ConnInv, Polite, PoliteParts
<1>2. CASE Offline
  <2>1. alive = TRUE /\ misheard \in BOOLEAN
    BY <1>1, <1>2 DEF Offline, Kernel, Typed
  <2>2. epoll.at = "offline" /\ epoll.ses \in players /\ Write(players \ {epoll.ses})
    BY <1>1, <1>2 DEF Offline, Write, PoliteParts, NoGarbage
  <2>3. \A s \in players \ {epoll.ses} : Open(s)
    BY <1>1 DEF PoliteParts, PlayersOpen
  <2>4. \E s \in players \ {epoll.ses} : s \in gone
    BY <2>1, <2>2, <2>3, WriteIsHeard
  <2> QED
    BY <1>2, <2>4
<1>3. ASSUME NEW w \in Workers, Broadcast(w)
      PROVE  \E s \in job[w].seen : IF Open(s) THEN s \in gone ELSE s \notin players \/ epoll.ses = s
  <2>1. alive = TRUE
    BY <1>1, <1>3 DEF Broadcast, Kernel, Typed
  <2>2. PICK s \in job[w].seen : ~(Open(s) /\ s \notin gone)
    BY <1>1, <1>3, <2>1, BroadcastIsHeard
  <2> QED
    BY <1>1, <2>2 DEF PoliteParts, PlayersOpen
<1>4. ASSUME NEW w \in Workers, Answer(w) PROVE FALSE
  <2>1. alive = TRUE
    BY <1>1, <1>4 DEF Answer, Kernel, Typed
  <2> QED
    BY <1>1, <1>4, <2>1, AnswerIsHeard
<1> QED
  BY <1>2, <1>3, <1>4
     DEF Next, Epoll, Work, Client, Wait, Read, Close, Unwatch, Parse, Pop, Enter, Leave, Send, Accept, Watch, vars

\* Only a close or a removal from the epoll set made with the number of another
\* session takes a connection's own watch from it.
LEMMA WatchStep == ConnInv /\ [Next]_vars => WatchIsLostByReuse
<1> SUFFICES ASSUME ConnInv, [Next]_vars, NEW c \in Conns, watch[c] = c, watch'[c] # c
             PROVE  \/ Close /\ epoll.ses = c
                    \/ /\ epoll.ses # c /\ fd[epoll.ses] = fd[c]
                       /\ \/ setting.clients # "quiet" /\ Unwatch
                          \/ setting.clients = "any" /\ Close /\ epoll.at = "reclose"
  BY DEF WatchIsLostByReuse
<1>1. Kernel /\ TypeOK /\ Follows /\ c # Nobody
  BY ConnectionsAssumption DEF ConnInv, Kernel
<1>2. CASE Close
  <2>1. \/ UNCHANGED watch
        \/ /\ fd[Behind(epoll.ses)] = fd[epoll.ses] /\ Behind(epoll.ses) \in Conns
           /\ watch' = [watch EXCEPT ![Behind(epoll.ses)] = Nobody]
    BY <1>1, <1>2, CloseStep
  <2>2. c = Behind(epoll.ses) /\ fd[c] = fd[epoll.ses]
    BY <1>1, <2>1 DEF TypeOK
  <2>3. epoll.at = "close" => epoll.ses = c
    BY <1>1, <2>2 DEF Follows
  <2>4. epoll.at = "reclose" => setting.clients = "any"
    BY DEF ConnInv, Polite, NoGarbage
  <2> QED
    BY <1>2, <2>2, <2>3, <2>4 DEF Close
<1>3. CASE Unwatch
  <2>1. epoll.at = "remove" /\ epoll.ses \in Conns /\ Made(epoll.ses)
    BY <1>1, <1>3, BehindType, ConnectionsAssumption DEF Unwatch, Kernel, AllMade
  <2>2. Behind(epoll.ses) # Nobody /\ c = Behind(epoll.ses)
    BY <1>1, <1>3 DEF Unwatch, TypeOK
  <2>3. fd[c] = fd[epoll.ses] /\ epoll.ses # c
    BY <1>1, <2>1, <2>2, BehindType DEF Follows
  <2>4. setting.clients # "quiet"
    BY <2>1, <2>2 DEF ConnInv, Quiet, OneLeaves
  <2> QED
    BY <1>3, <2>3, <2>4
<1>4. ASSUME NEW d \in Conns, Watch(d) PROVE FALSE
  BY <1>1, <1>4 DEF Watch, TypeOK
<1> QED
  BY <1>2, <1>3, <1>4
     DEF Next, Epoll, Work, Client, Wait, Read, Offline, Parse, Pop, Answer, Enter, Broadcast, Leave, Send,
         Accept, vars, sock

\* Connections do each other no harm but in these two ways: a write that overlaps
\* the close of its connection, and a descriptor reused before the epoll thread has
\* made its last call on it (epoll_server.cpp 64-75).
THEOREM OnlyOverlapDamages == Spec => DamageByOverlap
<1>1. ConnInv /\ [Next]_vars => (HeardByOverlap /\ WatchIsLostByReuse)
  BY HeardStep, WatchStep
<1> QED
  BY <1>1, ConnInvHolds, PTL DEF Spec, DamageByOverlap

-----------------------------------------------------------------------------
(* The builder of BSON documents: Builder.                                 *)

\* What an error of the builder may say.
Errors == {"FIELD_HAS_DOT", "FIELD_INIT_DOLLAR", "NOT_UTF8", "ALREADY_FINISHED", "NOT_IN_SUBOBJECT", "SIZE_OVERFLOW",
           "DOES_NOT_OWN_DATA"}

Slips == {"half", "headless", "behind", "unmatched", "full", "copied", "finished"}

Cell == (0..255) \union {Unset}

\* The document begins with its size, which is no more than what is there.
Headed(d) == \E n \in 5..IntMax - 1 : n <= Len(d) /\ \A i \in 1..4 : d[i] = Word(n)[i]

\* A builder as its operations leave it.
Builders ==
  [data : Seq(Cell), back : Nat, dataSize : 0..IntMax, ownsData : BOOLEAN, finished : BOOLEAN, stack : Seq(Nat),
   stackSize : Nat, err : SUBSET Errors, ok : BOOLEAN, dead : BOOLEAN]

Sound(b) ==
  /\ b \in Builders
  /\ Len(b.stack) <= b.stackSize
  /\ \A i \in 1..Len(b.stack) : b.stack[i] + 4 <= Len(b.data)
  /\ b.finished => b.stack = <<>>
  /\ ~b.finished => b.ownsData /\ Len(b.data) >= 4 /\ b.back = 0
  /\ b.back = Len(b.data) \/ b.back + 4 <= Len(b.data)
  /\ b.finished /\ b.data # <<>> => Headed(b.data)

Fits(b) == Len(b.data) <= b.dataSize

Refused(b) == "NOT_UTF8" \in b.err

\* What every operation but the last does to a builder: b becomes c, and an unfinished one
\* keeps the note of a text that is no UTF-8 or has it replaced by a lack of room.
Becomes(b, c) ==
  /\ Sound(c) /\ c.finished = b.finished
  /\ Fits(b) => Fits(c)
  /\ ~b.finished /\ Refused(b) => Refused(c) \/ "SIZE_OVERFLOW" \in c.err

\* The bounds of the constants, one by one.
LEMMA Bounds ==
  /\ IntMax \in Nat /\ IntMax >= 16 /\ IntMax <= GreatestInt /\ GreatestInt \in Nat
  /\ StackCells \in Nat /\ StackCells > 0
  /\ \A s \in Names \union Texts : s \in Seq(0..255)
  /\ RoomSizes \subseteq 4..IntMax
<1>1. GreatestInt \in Nat
  BY SMT DEF GreatestInt
<1>2. IntMax \in 16..GreatestInt /\ StackCells \in Nat \ {0} /\ RoomSizes \subseteq 4..IntMax
  BY ONLY RoomAssumption DEF BuilderAssumption
<1>3. \A s \in Names \union Texts : s \in Seq(0..255)
  BY ONLY RoomAssumption DEF BuilderAssumption
<1> QED
  BY <1>1, <1>2, <1>3

\* The four bytes of an int.
LEMMA WordIs ==
  ASSUME NEW i \in Int
  PROVE  Word(i) \in Seq(0..255) /\ Len(Word(i)) = 4
BY SMT DEF Word

\* An int that is not negative is read back from its four bytes.
LEMMA WordIsRead ==
  ASSUME NEW i \in Nat, i <= GreatestInt, NEW w, \A k \in 1..4 : w[k] = Word(i)[k]
  PROVE  UnWord(w) = i
<1> DEFINE a == i \div 256
           b == i \div 65536
           c == i \div 16777216
<1>1. w[1] = i % 256 /\ w[2] = a % 256 /\ w[3] = b % 256 /\ w[4] = c % 256
  BY SMT DEF Word
<1>2. i = 256 * a + (i % 256) /\ a \in Nat /\ i % 256 \in 0..255
  BY SMT
<1>3. a = 256 * b + (a % 256) /\ b \in Nat /\ a % 256 \in 0..255
  BY SMT
<1>4. b = 256 * c + (b % 256) /\ c \in Nat /\ b % 256 \in 0..255 /\ c <= 127
  BY SMT DEF GreatestInt
<1>5. c % 256 = c
  BY SMT, <1>4
<1> HIDE DEF a, b, c
<1>6. UnWord(w) = w[1] + 256 * w[2] + 65536 * w[3] + 16777216 * c
  BY SMT, <1>1, <1>4, <1>5 DEF UnWord
<1> QED
  BY SMT, <1>1, <1>2, <1>3, <1>4, <1>6

\* Behind the first byte of a character come five others at most.
LEMMA TrailingBytes ==
  ASSUME NEW c
  PROVE  trailingBytesForUTF8(c) \in 0..5
BY DEF trailingBytesForUTF8

\* What can be wrong with a text.
LEMMA WrongsAre ==
  ASSUME NEW s \in Seq(0..255), NEW dot \in BOOLEAN
  PROVE  Wrongs(s, dot) \subseteq {"FIELD_HAS_DOT", "NOT_UTF8"}
<1> DEFINE N == Len(s)
           V == [at : Nat \ {0}, wrong : SUBSET {"FIELD_HAS_DOT", "NOT_UTF8"}]
           base == [at |-> 1, wrong |-> {}]
           Piece(t) == trailingBytesForUTF8(s[t.at]) + 1
           Dots(t) == t.wrong \union IF dot /\ s[t.at] = 46 THEN {"FIELD_HAS_DOT"} ELSE {}
           Turn(t) == IF t.at > N \/ "NOT_UTF8" \in t.wrong THEN t
                      ELSE IF t.at + Piece(t) - 1 <= N /\ isLegalUTF8(SubSeq(s, t.at, t.at + Piece(t) - 1))
                      THEN [at |-> t.at + Piece(t), wrong |-> Dots(t)]
                      ELSE [t EXCEPT !.wrong = Dots(t) \union {"NOT_UTF8"}]
           m[k \in 0..N] == IF k = 0 THEN base ELSE Turn(m[k - 1])
           step == [k \in 1..N |-> [t \in V |-> Turn(t)]]
<1>1. Wrongs(s, dot) = m[N].wrong
  BY DEF Wrongs, Turned
<1>2. N \in Nat /\ base \in V
  OBVIOUS
<1>3. ASSUME NEW t \in V PROVE Turn(t) \in V
  <2>1. Piece(t) \in Nat /\ Piece(t) > 0
    BY TrailingBytes
  <2>2. Dots(t) \in SUBSET {"FIELD_HAS_DOT", "NOT_UTF8"} /\ t.at + Piece(t) \in Nat \ {0}
    BY <2>1
  <2> HIDE DEF Piece, Dots
  <2> QED
    BY <2>2
<1> HIDE DEF N, V, base, Turn
<1>4. step \in [1..N -> [V -> V]]
  BY <1>3
<1>5. PICK h : IsLoop(h, N, V, base, step)
  <2> HIDE DEF step
  <2> QED
    BY <1>2, <1>4, LoopExists
<1>6. h \in [0..N -> V] /\ h[0] = base
  BY <1>5 DEF IsLoop
<1>7. ASSUME NEW k \in 1..N PROVE h[k] = Turn(h[k - 1]) /\ h[k - 1] \in V
  <2>1. k - 1 \in 0..N
    BY <1>2
  <2>2. h[k] = step[k][h[k - 1]] /\ h[k - 1] \in V
    BY <1>5, <1>6, <2>1 DEF IsLoop
  <2> QED
    BY <2>2
<1>8. h = [k \in 0..N |-> IF k = 0 THEN base ELSE Turn(h[k - 1])]
  <2>1. \A k \in 0..N : k # 0 => k \in 1..N
    BY <1>2
  <2> HIDE DEF step
  <2> QED
    BY <1>6, <1>7, <2>1
<1>9. m = [k \in 0..N |-> IF k = 0 THEN base ELSE Turn(m[k - 1])]
  BY <1>8
<1> HIDE DEF m, step
<1>10. N \in 0..N /\ 0 \in 0..N /\ \A k \in 1..N : k \in 0..N /\ k # 0
  BY <1>2
<1>11. m[0] = base /\ \A k \in 1..N : m[k] = Turn(m[k - 1])
  BY <1>9, <1>10
<1> DEFINE C == {k \in 0..N : m[k] \in V}
<1>12. 0..N \subseteq C
  <2>1. 0 \in C
    BY <1>2, <1>10, <1>11
  <2>2. \A k \in 1..N : k - 1 \in C => k \in C
    <3> TAKE k \in 1..N
    <3> HAVE k - 1 \in C
    <3>1. m[k] = Turn(m[k - 1]) /\ m[k - 1] \in V
      BY <1>11
    <3> QED
      BY <1>3, <1>10, <3>1
  <2> HIDE DEF C
  <2> QED
    BY <1>2, <2>1, <2>2, RoundInduction
<1>13. m[N] \in V
  BY <1>10, <1>12
<1> QED
  BY <1>1, <1>13 DEF V

\* A text is checked: the errors grow, and a text that is refused is noted.
LEMMA TextChecked ==
  ASSUME NEW b, Sound(b), NEW s \in Seq(0..255)
  PROVE  /\ Becomes(b, bson_check_string(b, s))
         /\ bson_check_string(b, s).data = b.data /\ bson_check_string(b, s).dataSize = b.dataSize
         /\ bson_check_string(b, s).ok \/ Refused(bson_check_string(b, s))
<1> DEFINE w == Wrongs(s, FALSE)
           c == bson_check_string(b, s)
<1>1. w \subseteq Errors
  BY WrongsAre DEF Errors
<1>2. c = [b EXCEPT !.err = b.err \union w, !.ok = "NOT_UTF8" \notin w]
  BY DEF bson_check_string, bson_validate_string, Noted
<1> HIDE DEF w, c
<1>3. Sound(c) /\ c.finished = b.finished /\ c.data = b.data /\ c.dataSize = b.dataSize
      /\ b.err \subseteq c.err /\ (c.ok \/ "NOT_UTF8" \in c.err)
  BY <1>1, <1>2 DEF Sound, Builders
<1> QED
  BY <1>3 DEF Becomes, Fits, Refused, c

\* So is the name of an element.
LEMMA NameChecked ==
  ASSUME NEW b, Sound(b), NEW s \in Seq(0..255)
  PROVE  /\ Becomes(b, bson_check_field_name(b, s))
         /\ bson_check_field_name(b, s).data = b.data /\ bson_check_field_name(b, s).dataSize = b.dataSize
<1> DEFINE w == Wrongs(s, TRUE)
           dollar == IF s # << >> /\ s[1] = 36 /\ ~bson_string_is_db_ref(s) THEN {"FIELD_INIT_DOLLAR"} ELSE {}
           c == bson_check_field_name(b, s)
<1>1. w \subseteq Errors /\ dollar \subseteq Errors
  BY WrongsAre DEF Errors
<1>2. c = [b EXCEPT !.err = (b.err \union dollar) \union w, !.ok = "NOT_UTF8" \notin w]
  <2>1. b \in Builders
    BY DEF Sound
  <2> QED
    BY <2>1 DEF bson_check_field_name, bson_validate_string, Noted, Builders
<1> HIDE DEF w, c, dollar
<1>3. Sound(c) /\ c.finished = b.finished /\ c.data = b.data /\ c.dataSize = b.dataSize
      /\ b.err \subseteq c.err
  BY <1>1, <1>2 DEF Sound, Builders
<1> QED
  BY <1>3 DEF Becomes, Fits, Refused, c

\* Room is asked for: where it is granted, there is as much.
LEMMA SpaceEnsured ==
  ASSUME NEW b, Sound(b), NEW n \in Nat
  PROVE  LET e == bson_ensure_space(b, n) IN
         /\ Becomes(b, e) /\ e.data = b.data /\ e.back = b.back /\ e.stack = b.stack
         /\ e.ok /\ Fits(b) => (Len(b.data) - b.back) + n <= e.dataSize
         /\ e.ok /\ Fits(b) /\ ~b.finished => Len(b.data) + n <= e.dataSize
         /\ e.ok => e.err = b.err
<1> DEFINE e == bson_ensure_space(b, n)
           pos == bson_position(b)
           room == pos # 0 /\ pos + n <= b.dataSize
           sum == b.dataSize + n
           wanted == (3 * sum) \div 2
           least == Min({wanted, IntMax})
<1>1. b \in Builders /\ b.dataSize \in Nat /\ b.dataSize <= IntMax /\ IntMax \in Nat /\ Len(b.data) \in Nat
      /\ b.back \in Nat
  BY Bounds DEF Sound, Builders
<1>0. pos = Len(b.data) - b.back /\ pos \in Int /\ pos <= Len(b.data) /\ (~b.finished => pos = Len(b.data))
  BY <1>1 DEF bson_position, Sound
<1>e. e = IF room THEN [b EXCEPT !.ok = TRUE]
          ELSE IF wanted > IntMax /\ sum >= IntMax THEN [b EXCEPT !.err = {"SIZE_OVERFLOW"}, !.ok = FALSE]
          ELSE IF ~b.ownsData THEN [b EXCEPT !.err = {"DOES_NOT_OWN_DATA"}, !.ok = FALSE]
          ELSE [b EXCEPT !.dataSize = least, !.ok = TRUE]
  BY DEF bson_ensure_space
<1>r. room => pos + n <= b.dataSize
  OBVIOUS
<1> HIDE DEF e, pos, room
<1>2. sum \in Nat /\ wanted \in Nat /\ sum <= wanted
  BY <1>1, SMTT(30)
<1>3. least = IF wanted <= IntMax THEN wanted ELSE IntMax
  <2> HIDE DEF wanted
  <2>1. wanted \in Int /\ IntMax \in Int
    BY <1>1, <1>2
  <2> QED
    BY <2>1, MinOfTwo
<1>4. least \in 0..IntMax
  BY <1>1, <1>2, <1>3
<1>5. CASE room
  <2>1. e = [b EXCEPT !.ok = TRUE]
    BY <1>e, <1>5
  <2>2. Sound(e) /\ e.finished = b.finished /\ e.data = b.data /\ e.back = b.back /\ e.stack = b.stack /\ e.dataSize = b.dataSize
        /\ e.err = b.err
    BY <2>1 DEF Sound, Builders
  <2> HIDE DEF e
  <2> QED
    BY <1>0, <1>1, <1>5, <1>r, <2>2 DEF Becomes, Fits, Refused, e
<1>6. CASE ~room /\ wanted > IntMax /\ sum >= IntMax
  <2>1. e = [b EXCEPT !.err = {"SIZE_OVERFLOW"}, !.ok = FALSE]
    BY <1>e, <1>6
  <2>2. Sound(e) /\ e.finished = b.finished /\ e.data = b.data /\ e.back = b.back /\ e.stack = b.stack /\ e.dataSize = b.dataSize
        /\ e.err = {"SIZE_OVERFLOW"} /\ e.ok = FALSE
    BY <2>1 DEF Sound, Builders, Errors
  <2> HIDE DEF e
  <2> QED
    BY <1>0, <1>1, <2>2 DEF Becomes, Fits, Refused, e
<1>7. CASE ~room /\ ~(wanted > IntMax /\ sum >= IntMax) /\ ~b.ownsData
  <2>1. e = [b EXCEPT !.err = {"DOES_NOT_OWN_DATA"}, !.ok = FALSE]
    BY <1>e, <1>7
  <2>2. Sound(e) /\ e.finished = b.finished /\ e.data = b.data /\ e.back = b.back /\ e.stack = b.stack /\ e.dataSize = b.dataSize
        /\ e.ok = FALSE
    BY <2>1 DEF Sound, Builders, Errors
  <2>3. b.finished
    BY <1>7 DEF Sound
  <2> HIDE DEF e
  <2> QED
    BY <1>0, <1>1, <2>2, <2>3 DEF Becomes, Fits, Refused, e
<1>8. CASE ~room /\ ~(wanted > IntMax /\ sum >= IntMax) /\ b.ownsData
  <2>1. e = [b EXCEPT !.dataSize = least, !.ok = TRUE]
    BY <1>e, <1>8
  <2>2. Sound(e) /\ e.finished = b.finished /\ e.data = b.data /\ e.back = b.back /\ e.stack = b.stack /\ e.dataSize = least
        /\ e.err = b.err
    <3> HIDE DEF least
    <3> QED
      BY <1>4, <2>1 DEF Sound, Builders
  <2>3. Fits(b) => Len(b.data) + n <= least
    <3> HIDE DEF wanted, least
    <3> QED
      BY <1>1, <1>2, <1>3, <1>8 DEF Fits
  <2>5. Fits(b) => pos + n <= least
    <3> HIDE DEF least
    <3> QED
      BY <1>0, <1>1, <1>4, <2>3
  <2> HIDE DEF e, least
  <2>4. Fits(b) => Len(b.data) <= least
    BY <1>1, <1>4, <2>3
  <2> QED
    BY <1>0, <2>2, <2>4, <2>5 DEF Becomes, Fits, Refused, e
<1> QED
  BY <1>5, <1>6, <1>7, <1>8

\* Bytes are put behind what is there.
LEMMA BytesAppended ==
  ASSUME NEW b, Sound(b), ~b.finished \/ (b.data # <<>> /\ b.back = 0), NEW bytes \in Seq(0..255)
  PROVE  LET c == bson_append(b, bytes) IN
         /\ Sound(c) /\ c.finished = b.finished /\ c.err = b.err /\ c.dataSize = b.dataSize /\ c.ok
         /\ c.stack = b.stack /\ c.stackSize = b.stackSize
         /\ c.data = b.data \o bytes /\ Len(c.data) = Len(b.data) + Len(bytes)
<1> DEFINE c == bson_append(b, bytes)
           d == b.data \o bytes
<1>1. b \in Builders /\ b.data \in Seq(Cell) /\ bytes \in Seq(Cell)
  BY DEF Sound, Builders, Cell
<1>2. d \in Seq(Cell) /\ Len(d) = Len(b.data) + Len(bytes) /\ Len(bytes) \in Nat /\ Len(b.data) \in Nat
      /\ \A i \in 1..Len(b.data) : d[i] = b.data[i]
  BY <1>1
<1>0. b.back = 0
  BY DEF Sound
<1>3. c = [b EXCEPT !.data = d, !.ok = TRUE]
  BY <1>0 DEF bson_append
<1> HIDE DEF d, c
<1>4. /\ c \in Builders /\ c.data = d /\ c.back = 0 /\ c.ok /\ c.dataSize = b.dataSize /\ c.finished = b.finished
      /\ c.err = b.err /\ c.stack = b.stack /\ c.stackSize = b.stackSize /\ c.ownsData = b.ownsData
  BY <1>0, <1>1, <1>2, <1>3 DEF Builders
<1>5. b.finished => Headed(d)
  <2> SUFFICES ASSUME b.finished PROVE Headed(d)
    OBVIOUS
  <2>1. Headed(b.data)
    BY DEF Sound
  <2>2. PICK n \in 5..IntMax - 1 : n <= Len(b.data) /\ \A i \in 1..4 : b.data[i] = Word(n)[i]
    BY <2>1 DEF Headed
  <2>3. n <= Len(d) /\ \A i \in 1..4 : i \in 1..Len(b.data)
    BY <1>2, <2>2
  <2> QED
    BY <1>2, <2>2, <2>3 DEF Headed
<1>6. \A i \in 1..Len(b.stack) : b.stack[i] + 4 <= Len(d)
  <2> TAKE i \in 1..Len(b.stack)
  <2>1. b.stack[i] + 4 <= Len(b.data) /\ b.stack[i] \in Nat
    BY DEF Sound, Builders
  <2> QED
    BY <1>2, <2>1
<1>7. (~b.finished => Len(d) >= 4) /\ (0 = Len(d) \/ 0 + 4 <= Len(d))
  BY <1>0, <1>2 DEF Sound
<1>8. Sound(c)
  BY <1>4, <1>5, <1>6, <1>7 DEF Sound
<1> QED
  BY <1>2, <1>4, <1>8 DEF c, d

\* Bytes are written into a finished document, behind it, over what is there, or
\* through NULL: the four size bytes stay.
LEMMA BytesWritten ==
  ASSUME NEW b, Sound(b), b.finished, b.data # <<>>, NEW bytes \in Seq(0..255)
  PROVE  LET c == bson_append(b, bytes) IN
         /\ Sound(c) /\ c.finished = b.finished /\ c.err = b.err /\ c.dataSize = b.dataSize
         /\ Len(c.data) = Len(b.data) \/ Len(c.data) = (Len(b.data) - b.back) + Len(bytes)
<1> DEFINE c == bson_append(b, bytes)
           pos == bson_position(b)
           more == b.back - Len(bytes)
           least == Max({0, more})
           u == SubSeq(b.data, 1, pos)
           v == SubSeq(b.data, pos + Len(bytes) + 1, Len(b.data))
           d == u \o bytes \o v
<1>1. b \in Builders /\ b.data \in Seq(Cell) /\ Len(b.data) \in Nat /\ bytes \in Seq(Cell) /\ Len(bytes) \in Nat
      /\ b.back \in Nat /\ (b.back = Len(b.data) \/ b.back + 4 <= Len(b.data))
  BY DEF Sound, Builders, Cell
<1>2. pos = Len(b.data) - b.back /\ (pos = 0 \/ pos \in 4..Len(b.data)) /\ b.back = Len(b.data) - pos
  BY <1>1 DEF bson_position
<1>3. CASE b.back = 0
  <2>1. /\ Sound(c) /\ c.finished = b.finished /\ c.err = b.err /\ c.dataSize = b.dataSize
        /\ Len(c.data) = Len(b.data) + Len(bytes)
    BY <1>3, BytesAppended
  <2> HIDE DEF c
  <2> QED
    BY <1>1, <1>3, <2>1 DEF c
<1>4. CASE b.back # 0 /\ pos = 0
  <2>1. c = [b EXCEPT !.dead = TRUE, !.ok = FALSE]
    BY <1>4 DEF bson_append, Overwritten
  <2> HIDE DEF c
  <2>2. Sound(c) /\ c.finished = b.finished /\ c.err = b.err /\ c.dataSize = b.dataSize /\ c.data = b.data
    BY <1>1, <2>1 DEF Sound, Builders
  <2> QED
    BY <2>2 DEF c
<1>5. CASE b.back # 0 /\ pos # 0
  <2>1. c = [b EXCEPT !.data = d, !.back = least, !.ok = TRUE]
    BY <1>5 DEF bson_append, Overwritten
  <2>2. least = IF 0 <= more THEN more ELSE 0
    <3>1. 0 \in Int /\ more \in Int
      BY <1>1
    <3> HIDE DEF more
    <3> QED
      BY <3>1, MaxOfTwo
  <2> HIDE DEF c, pos, least
  <2>3. u \in Seq(Cell) /\ Len(u) = pos /\ \A i \in 1..4 : u[i] = b.data[i]
    <3> DEFINE s == b.data
    <3>1. s \in Seq(Cell) /\ pos \in 4..Len(s) /\ Len(s) \in Nat
      BY <1>1, <1>2, <1>5
    <3> HIDE DEF s
    <3>2. SubSeq(s, 1, pos) \in Seq(Cell) /\ Len(SubSeq(s, 1, pos)) = pos /\ \A i \in 1..4 : SubSeq(s, 1, pos)[i] = s[i]
      BY <3>1
    <3> QED
      BY <3>2 DEF s
  <2>4. v \in Seq(Cell) /\ Len(v) = IF pos + Len(bytes) < Len(b.data) THEN Len(b.data) - (pos + Len(bytes)) ELSE 0
    <3> DEFINE s == b.data
               k == pos + Len(bytes)
    <3>1. s \in Seq(Cell) /\ k \in Nat /\ Len(s) \in Nat /\ \A i \in k + 1..Len(s) : s[i] \in Cell
      BY <1>1, <1>2, <1>5
    <3> HIDE DEF s, k
    <3> DEFINE l == Len(s)
               x == SubSeq(s, k + 1, l)
    <3>2. l \in Nat /\ k + 1 \in Int /\ l \in Int /\ (\A i \in k + 1..l : i \in 1..l)
      BY <3>1
    <3>3. x \in Seq(Cell) /\ Len(x) = IF k + 1 <= l THEN (l - (k + 1)) + 1 ELSE 0
      <4>1. \A i \in k + 1..l : s[i] \in Cell
        BY <3>1
      <4> QED
        BY ONLY <3>1, <3>2, <4>1, SubSeqProperties, ZenonT(30)
    <3> HIDE DEF l, x
    <3>4. Len(x) = IF k < l THEN l - k ELSE 0
      BY <3>1, <3>2, <3>3
    <3> QED
      BY <3>3, <3>4 DEF s, k, l, x
  <2> HIDE DEF u, v
  <2>5. /\ d \in Seq(Cell) /\ Len(d) = (pos + Len(bytes)) + Len(v)
        /\ \A i \in 1..4 : d[i] = u[i]
    <3> DEFINE t == u \o bytes
               x == t \o v
               l == Len(bytes)
               m == Len(v)
    <3>1. l \in Nat /\ m \in Nat /\ pos \in Nat /\ pos >= 4
      <4> DEFINE n == Len(b.data)
      <4>1. n \in Nat /\ l \in Nat /\ pos \in 4..n
        BY <1>1, <1>2, <1>5
      <4>2. m = IF pos + l < n THEN n - (pos + l) ELSE 0
        BY <2>4
      <4> HIDE DEF n, l, m
      <4> QED
        BY <4>1, <4>2
    <3>2. t \in Seq(Cell) /\ Len(t) = Len(u) + l /\ \A i \in 1..Len(u) + l : i <= Len(u) => t[i] = u[i]
      <4>1. u \in Seq(Cell) /\ bytes \in Seq(Cell)
        BY <1>1, <2>3
      <4> QED
        BY ONLY <4>1, ConcatProperties, ZenonT(30)
    <3> HIDE DEF t
    <3>3. x \in Seq(Cell) /\ Len(x) = Len(t) + m /\ \A i \in 1..Len(t) + m : i <= Len(t) => x[i] = t[i]
      BY <2>4, <3>2, ConcatProperties
    <3> HIDE DEF l, m, x
    <3>4. x \in Seq(Cell) /\ Len(x) = (pos + l) + m
      BY <2>3, <3>2, <3>3
    <3>5. \A i \in 1..4 : /\ i \in 1..pos + l /\ i <= pos
                         /\ i \in 1..(pos + l) + m /\ i <= pos + l
      BY <3>1
    <3>6. \A i \in 1..4 : x[i] = u[i]
      BY <2>3, <3>2, <3>3, <3>5
    <3> QED
      BY <3>4, <3>6 DEF t, x, l, m
  <2> HIDE DEF d
  <2>6. /\ c \in Builders /\ c.data = d /\ c.back = least /\ c.dataSize = b.dataSize /\ c.finished = b.finished
        /\ c.err = b.err /\ c.stack = b.stack /\ c.stackSize = b.stackSize /\ c.ownsData = b.ownsData
    <3>1. least \in Nat
      BY <1>1, <2>2
    <3> QED
      BY <1>1, <2>1, <2>5, <3>1 DEF Builders
  <2>7. /\ Len(d) >= Len(b.data) /\ least + 4 <= Len(d)
        /\ Len(d) = Len(b.data) \/ Len(d) = pos + Len(bytes)
    <3> DEFINE n == Len(b.data)
               l == Len(bytes)
               m == Len(v)
               k == Len(d)
               y == b.back
    <3>1. n \in Nat /\ l \in Nat /\ y \in Nat /\ pos \in 4..n /\ y = n - pos
      BY <1>1, <1>2, <1>5
    <3>2. m = (IF pos + l < n THEN n - (pos + l) ELSE 0) /\ k = (pos + l) + m
      BY <2>4, <2>5
    <3>3. least = IF 0 <= y - l THEN y - l ELSE 0
      BY <2>2
    <3> HIDE DEF n, l, m, k, y, more
    <3>4. k >= n /\ least + 4 <= k /\ (k = n \/ k = pos + l)
      BY <3>1, <3>2, <3>3
    <3> QED
      BY <3>4 DEF n, l, k
  <2>8. Headed(d)
    <3>1. PICK n \in 5..IntMax - 1 : n <= Len(b.data) /\ \A i \in 1..4 : b.data[i] = Word(n)[i]
      BY DEF Sound, Headed
    <3>2. Len(d) \in Nat /\ IntMax \in Nat
      BY <2>5, Bounds
    <3>3. n <= Len(d)
      BY <1>1, <2>7, <3>1, <3>2
    <3> QED
      BY <2>3, <2>5, <3>1, <3>3 DEF Headed
  <2>9. Sound(c)
    <3>1. b.stack = <<>> /\ Len(b.stack) <= b.stackSize
      BY DEF Sound
    <3> QED
      BY <2>6, <2>7, <2>8, <3>1 DEF Sound
  <2> QED
    BY <1>2, <2>6, <2>7, <2>9 DEF c
<1> QED
  BY <1>3, <1>4, <1>5

\* What an operation on an unfinished builder leaves out is what it was refused for.
Started(b, e, n) ==
  /\ Becomes(b, e) /\ e.stack = b.stack
  /\ e.ok => ~b.finished
  /\ e.ok /\ Fits(b) => Len(e.data) + n <= e.dataSize
  /\ ~e.ok => e.data = b.data

\* The head of an element, with room for the n bytes of its value.
LEMMA ElementStarted ==
  ASSUME NEW b, Sound(b), NEW type \in 0..255, NEW name \in Seq(0..255), NEW n \in Nat
  PROVE  Started(b, bson_append_estart(b, type, name, n), n)
<1> DEFINE r == bson_append_estart(b, type, name, n)
           room == Len(name) + 2 + n
           e == bson_ensure_space(b, room)
           c == bson_check_field_name(e, name)
           head == << type >> \o name \o << 0 >>
           a == bson_append(c, head)
<1>1. CASE b.finished
  <2>1. r = [b EXCEPT !.err = b.err \union {"ALREADY_FINISHED"}, !.ok = FALSE]
    BY <1>1 DEF bson_append_estart, Followed, Sound, Builders
  <2>2. Sound(r) /\ r.finished = b.finished /\ r.data = b.data /\ r.stack = b.stack
        /\ r.dataSize = b.dataSize /\ r.ok = FALSE
    BY <2>1 DEF Sound, Builders, Errors
  <2> HIDE DEF r
  <2> QED
    BY <1>1, <2>2 DEF Started, Becomes, Fits, r
<1>2. CASE ~b.finished
  <2>1. r = IF ~e.ok THEN e ELSE IF ~c.ok THEN c ELSE a
    BY <1>2 DEF bson_append_estart, Followed
  <2>2. room \in Nat /\ Len(name) \in Nat /\ room = Len(name) + 2 + n
    OBVIOUS
  <2>3. head \in Seq(0..255) /\ Len(head) = Len(name) + 2
    OBVIOUS
  <2> HIDE DEF room, head
  <2>4. Becomes(b, e) /\ e.data = b.data /\ e.stack = b.stack
        /\ (e.ok /\ Fits(b) => Len(b.data) + room <= e.dataSize) /\ (e.ok => e.err = b.err)
    BY <1>2, <2>2, SpaceEnsured
  <2> HIDE DEF e
  <2>5. Sound(e) /\ e.finished = b.finished
    BY <2>4 DEF Becomes
  <2>6. Becomes(e, c) /\ c.data = b.data /\ c.dataSize = e.dataSize /\ c.stack = b.stack
    <3>1. Becomes(e, c) /\ c.data = e.data /\ c.dataSize = e.dataSize
      BY <2>5, NameChecked
    <3>2. c.stack = e.stack
      BY <2>5 DEF bson_check_field_name, bson_validate_string, Noted, Sound, Builders
    <3> QED
      BY <2>4, <3>1, <3>2
  <2> HIDE DEF c
  <2>7. Sound(c) /\ c.finished = b.finished /\ ~c.finished
    BY <1>2, <2>5, <2>6 DEF Becomes
  <2>8. Sound(a) /\ a.finished = c.finished /\ a.err = c.err /\ a.dataSize = c.dataSize /\ a.ok
        /\ a.stack = c.stack /\ Len(a.data) = Len(c.data) + Len(head)
    BY <2>3, <2>7, BytesAppended, ZenonT(30)
  <2> HIDE DEF a
  <2>9. CASE ~e.ok
    BY <2>1, <2>4, <2>9 DEF Started
  <2>10. CASE e.ok /\ ~c.ok
    <3>1. r = c /\ r.ok = FALSE
      BY <2>1, <2>7, <2>10 DEF Sound, Builders
    <3>2. Becomes(b, c)
      <4>1. Fits(b) => Fits(c)
        BY <2>4, <2>6 DEF Becomes
      <4>2. ~b.finished /\ Refused(b) => Refused(c) \/ "SIZE_OVERFLOW" \in c.err
        BY <2>4, <2>5, <2>6, <2>10 DEF Becomes, Refused
      <4> QED
        BY <1>2, <2>7, <4>1, <4>2 DEF Becomes
    <3> QED
      BY <2>6, <2>10, <3>1, <3>2 DEF Started
  <2>11. CASE e.ok /\ c.ok
    <3>1. r = a /\ r.ok
      BY <2>1, <2>8, <2>11
    <3>2. Fits(b) => Len(a.data) + n <= a.dataSize
      <4>1. Len(b.data) \in Nat /\ Len(a.data) = Len(b.data) + (Len(name) + 2)
        BY <2>3, <2>6, <2>8 DEF Sound, Builders
      <4>2. a.dataSize \in Int
        BY <2>8 DEF Sound, Builders
      <4>3. Fits(b) => Len(b.data) + room <= a.dataSize
        BY <2>4, <2>6, <2>8, <2>11
      <4>4. \A x, y \in Nat : x + (y + 2 + n) = (x + (y + 2)) + n
        OBVIOUS
      <4>5. Len(b.data) + room = Len(a.data) + n
        BY ONLY <2>2, <4>1, <4>4
      <4> QED
        BY <4>3, <4>5
    <3>3. Fits(b) => Fits(a)
      <4>1. Len(a.data) \in Nat /\ a.dataSize \in Int
        BY <2>8 DEF Sound, Builders
      <4> QED
        BY <3>2, <4>1 DEF Fits
    <3>4. ~b.finished /\ Refused(b) => Refused(a) \/ "SIZE_OVERFLOW" \in a.err
      BY <2>4, <2>5, <2>6, <2>8, <2>11 DEF Becomes, Refused
    <3> QED
      BY <1>2, <2>5, <2>6, <2>7, <2>8, <3>1, <3>2, <3>3, <3>4 DEF Started, Becomes
  <2> QED
    BY <2>9, <2>10, <2>11
<1> QED
  BY <1>1, <1>2

\* An element is put in whole or not at all: nearly every append.
LEMMA ElementAppended ==
  ASSUME NEW b, Sound(b), NEW type \in 0..255, NEW name \in Seq(0..255), NEW bytes \in Seq(0..255)
  PROVE  Becomes(b, Appended(b, type, name, bytes))
<1> DEFINE n == Len(bytes)
           e == bson_append_estart(b, type, name, n)
           a == bson_append(e, bytes)
           r == Appended(b, type, name, bytes)
<1>1. r = IF e.ok THEN a ELSE e
  BY DEF Appended, Followed
<1>2. n \in Nat /\ n = Len(bytes)
  OBVIOUS
<1> HIDE DEF n
<1>3. Started(b, e, n)
  BY <1>2, ElementStarted
<1> HIDE DEF e
<1>4. Becomes(b, e) /\ Sound(e) /\ e.finished = b.finished
  BY <1>3 DEF Started, Becomes
<1>5. CASE ~e.ok
  BY <1>1, <1>4, <1>5
<1>6. CASE e.ok
  <2>1. ~b.finished /\ (Fits(b) => Len(e.data) + n <= e.dataSize)
    BY <1>3, <1>6 DEF Started
  <2>2. /\ Sound(a) /\ a.finished = e.finished /\ a.err = e.err /\ a.dataSize = e.dataSize
        /\ Len(a.data) = Len(e.data) + n
    BY <1>2, <1>4, <2>1, BytesAppended
  <2> HIDE DEF a
  <2>3. Fits(b) => Fits(a)
    BY <2>1, <2>2 DEF Fits
  <2>4. ~b.finished /\ Refused(b) => Refused(a) \/ "SIZE_OVERFLOW" \in a.err
    BY <1>4, <2>2 DEF Becomes, Refused
  <2> QED
    BY <1>1, <1>4, <1>6, <2>2, <2>3, <2>4 DEF Becomes
<1> QED
  BY <1>5, <1>6 DEF r

\* So is one that holds a text, once that is looked at.
LEMMA TextAppended ==
  ASSUME NEW b, Sound(b), NEW type \in 0..255, NEW name \in Seq(0..255), NEW s \in Seq(0..255)
  PROVE  Becomes(b, bson_append_string_base(b, name, s, type))
<1> DEFINE c == bson_check_string(b, s)
           bytes == Word(Len(s) + 1) \o s \o << 0 >>
           a == Appended(c, type, name, bytes)
           r == bson_append_string_base(b, name, s, type)
<1>1. r = IF Len(s) + 1 > IntMax THEN [b EXCEPT !.err = {"SIZE_OVERFLOW"}, !.ok = FALSE]
          ELSE IF ~c.ok THEN c ELSE a
  BY DEF bson_append_string_base
<1>2. bytes \in Seq(0..255)
  <2>1. Word(Len(s) + 1) \in Seq(0..255)
    BY WordIs
  <2> QED
    BY <2>1
<1> HIDE DEF bytes
<1>3. Becomes(b, c) /\ c.data = b.data /\ c.dataSize = b.dataSize
  BY TextChecked
<1>4. Refused(b) => Refused(c)
  BY DEF Sound, Builders, Refused, bson_check_string, bson_validate_string, Noted
<1> HIDE DEF c
<1>5. Sound(c) /\ c.finished = b.finished
  BY <1>3 DEF Becomes
<1>6. Becomes(c, a)
  BY <1>2, <1>5, ElementAppended
<1> HIDE DEF a
<1>7. Becomes(b, a)
  BY <1>3, <1>4, <1>6 DEF Becomes
<1>8. CASE Len(s) + 1 > IntMax
  <2>1. r = [b EXCEPT !.err = {"SIZE_OVERFLOW"}, !.ok = FALSE]
    BY <1>1, <1>8
  <2> HIDE DEF r
  <2>2. Sound(r) /\ r.finished = b.finished /\ r.data = b.data /\ r.dataSize = b.dataSize
        /\ "SIZE_OVERFLOW" \in r.err
    BY <2>1 DEF Sound, Builders, Errors
  <2> QED
    BY <2>2 DEF Becomes, Fits, r
<1>9. CASE ~(Len(s) + 1 > IntMax)
  BY <1>1, <1>3, <1>7, <1>9
<1> QED
  BY <1>8, <1>9

\* A regular expression: its text is looked at when the head of the element is there,
\* which stays if the text is refused.
LEMMA RegexAppended ==
  ASSUME NEW b, Sound(b), NEW name \in Seq(0..255), NEW s \in Seq(0..255), NEW opts \in Seq(0..255)
  PROVE  LET r == bson_append_regex(b, name, s, opts) IN
         /\ Becomes(b, r)
         /\ ~r.ok /\ Len(r.data) > Len(b.data) => ~b.finished /\ Refused(r)
<1> DEFINE n == Len(s) + Len(opts) + 2
           bytes == s \o << 0 >> \o opts \o << 0 >>
           e == bson_append_estart(b, T.regex, name, n)
           c == bson_check_string(e, s)
           a == bson_append(c, bytes)
           r == bson_append_regex(b, name, s, opts)
<1>1. r = IF ~e.ok THEN e ELSE IF ~c.ok THEN c ELSE a
  BY DEF bson_append_regex, Followed
<1>2. n \in Nat /\ bytes \in Seq(0..255) /\ Len(bytes) = n /\ T.regex \in 0..255
  BY DEF T
<1> HIDE DEF n, bytes
<1>3. Started(b, e, n)
  BY <1>2, ElementStarted
<1> HIDE DEF e
<1>4. Becomes(b, e) /\ Sound(e) /\ e.finished = b.finished
  BY <1>3 DEF Started, Becomes
<1>5. Becomes(e, c) /\ c.data = e.data /\ c.dataSize = e.dataSize /\ (c.ok \/ Refused(c))
  BY <1>4, TextChecked
<1>6. Refused(e) \/ "SIZE_OVERFLOW" \in e.err => Refused(c) \/ "SIZE_OVERFLOW" \in c.err
  BY <1>4 DEF Sound, Builders, Refused, bson_check_string, bson_validate_string, Noted
<1> HIDE DEF c
<1>7. Sound(c) /\ c.finished = b.finished
  BY <1>4, <1>5 DEF Becomes
<1>8. CASE ~e.ok
  <2>1. r = e /\ e.data = b.data
    BY <1>1, <1>3, <1>8 DEF Started
  <2> QED
    BY <1>4, <2>1 DEF Sound, Builders
<1>9. CASE e.ok /\ ~c.ok
  <2>1. r = c /\ ~b.finished
    BY <1>1, <1>3, <1>9 DEF Started
  <2>2. Becomes(b, c)
    BY <1>4, <1>5, <1>6, <1>7 DEF Becomes
  <2> QED
    BY <1>5, <1>9, <2>1, <2>2
<1>10. CASE e.ok /\ c.ok
  <2>1. ~b.finished /\ (Fits(b) => Len(e.data) + n <= e.dataSize)
    BY <1>3, <1>10 DEF Started
  <2>2. /\ Sound(a) /\ a.finished = c.finished /\ a.err = c.err /\ a.dataSize = c.dataSize /\ a.ok
        /\ Len(a.data) = Len(c.data) + n
    BY <1>2, <1>7, <2>1, BytesAppended, ZenonT(30)
  <2>3. r = a
    BY <1>1, <1>10
  <2> HIDE DEF a, r
  <2>4. Fits(b) => Fits(a)
    BY <1>5, <2>1, <2>2 DEF Fits
  <2>5. ~b.finished /\ Refused(b) => Refused(a) \/ "SIZE_OVERFLOW" \in a.err
    BY <1>4, <1>6, <2>2 DEF Becomes, Refused
  <2>6. Becomes(b, a)
    BY <1>7, <2>2, <2>4, <2>5 DEF Becomes
  <2> QED
    BY <2>2, <2>3, <2>6 DEF r
<1> QED
  BY <1>8, <1>9, <1>10

\* A sub-object is opened: its place is on the stack, which has room for it, and the
\* byte that will close it is reserved.
LEMMA SubOpened ==
  ASSUME NEW b, Sound(b), NEW type \in 0..255, NEW name \in Seq(0..255)
  PROVE  Becomes(b, OpenedAs(b, type, name))
<1> DEFINE e == bson_append_estart(b, type, name, 5)
           g == IF Len(e.stack) >= e.stackSize THEN bson_append_grow_stack(e) ELSE e
           p == [g EXCEPT !.stack = Append(g.stack, Len(g.data))]
           a == bson_append(p, Word(0))
           r == OpenedAs(b, type, name)
<1>1. Started(b, e, 5)
  BY ElementStarted
<1> HIDE DEF e
<1>2. Becomes(b, e) /\ Sound(e) /\ e.finished = b.finished
  BY <1>1 DEF Started, Becomes
<1>3. e \in Builders /\ Len(e.stack) \in Nat /\ Len(e.stack) <= e.stackSize /\ e.stackSize \in Nat
  BY <1>2 DEF Sound, Builders
<1>4. /\ g \in Builders /\ Len(g.stack) + 1 <= g.stackSize /\ g.stack = e.stack /\ g.data = e.data
      /\ g.dataSize = e.dataSize /\ g.finished = e.finished /\ g.err = e.err /\ g.ownsData = e.ownsData
      /\ g.back = e.back
  <2>1. CASE Len(e.stack) >= e.stackSize
    <3> DEFINE size == IF e.stackSize = 0 THEN StackCells ELSE 2 * e.stackSize
    <3>1. g = [e EXCEPT !.stackSize = size]
      BY <2>1 DEF bson_append_grow_stack
    <3>2. size \in Nat /\ Len(e.stack) + 1 <= size
      BY <1>3, <2>1, Bounds
    <3> HIDE DEF g, size
    <3> QED
      BY <1>3, <3>1, <3>2 DEF Builders
  <2>2. CASE ~(Len(e.stack) >= e.stackSize)
    <3>1. g = e
      BY <2>2
    <3> HIDE DEF g
    <3> QED
      BY <1>3, <2>2, <3>1
  <2> QED
    BY <2>1, <2>2
<1>5. r = IF ~e.ok THEN e ELSE a
  <2>1. p = [g EXCEPT !.stack = Append(@, Len(g.data))]
    <3> HIDE DEF g
    <3> QED
      BY <1>4 DEF Builders
  <2> QED
    BY <2>1 DEF OpenedAs, Opened, e
<1> HIDE DEF g
<1>6. CASE ~e.ok
  BY <1>2, <1>5, <1>6
<1>7. CASE e.ok
  <2>1. ~b.finished /\ (Fits(b) => Len(e.data) + 5 <= e.dataSize)
    BY <1>1, <1>7 DEF Started
  <2> DEFINE stack == Append(g.stack, Len(g.data))
  <2>2. g.stack \in Seq(Nat) /\ g.data \in Seq(Cell) /\ Len(g.data) \in Nat
    BY <1>4 DEF Builders
  <2>3. /\ stack \in Seq(Nat) /\ Len(stack) = Len(g.stack) + 1 /\ stack[Len(stack)] = Len(g.data)
        /\ \A i \in 1..Len(g.stack) : stack[i] = g.stack[i]
    BY <2>2
  <2>4. Word(0) \in Seq(Cell) /\ Len(Word(0)) = 4
    BY WordIs DEF Cell
  <2> DEFINE data == g.data \o Word(0)
  <2>5. data \in Seq(Cell) /\ Len(data) = Len(g.data) + 4
    <3>1. data \in Seq(Cell) /\ Len(data) = Len(g.data) + Len(Word(0))
      BY ONLY <2>2, <2>4, ConcatProperties, Zenon
    <3> QED
      BY ONLY <2>4, <3>1
  <2>13. g.back = 0
    BY <1>2, <1>4, <2>1 DEF Sound
  <2>6. a = [g EXCEPT !.stack = stack, !.data = data, !.ok = TRUE]
    BY <1>4, <2>13 DEF bson_append, Builders
  <2> HIDE DEF stack, data, a, r
  <2>7. /\ a \in Builders /\ a.stack = stack /\ a.data = data /\ a.dataSize = e.dataSize /\ a.finished = FALSE
        /\ a.err = e.err /\ a.stackSize = g.stackSize /\ a.ownsData = e.ownsData /\ a.back = 0
    <3>1. e.finished = FALSE
      BY <1>2, <1>3, <2>1 DEF Builders
    <3> QED
      BY <1>4, <2>3, <2>5, <2>6, <2>13, <3>1 DEF Builders
  <2>8. \A i \in 1..Len(stack) : stack[i] + 4 <= Len(data)
    <3> TAKE i \in 1..Len(stack)
    <3>1. CASE i = Len(stack)
      BY <2>2, <2>3, <2>5, <3>1
    <3>2. CASE i # Len(stack)
      <4>1. i \in 1..Len(g.stack)
        BY <2>2, <2>3, <3>2
      <4>2. e.stack[i] + 4 <= Len(e.data) /\ e.stack[i] \in Nat
        <5>1. i \in 1..Len(e.stack) /\ e.stack \in Seq(Nat)
          BY <1>3, <1>4, <4>1 DEF Builders
        <5> QED
          BY <1>2, <5>1 DEF Sound
      <4>3. stack[i] = e.stack[i] /\ Len(data) = Len(e.data) + 4 /\ Len(e.data) \in Nat
        BY <1>4, <2>2, <2>3, <2>5, <4>1
      <4> QED
        BY <4>2, <4>3
    <3> QED
      BY <3>1, <3>2
  <2>9. Sound(a)
    <3>1. Len(stack) <= a.stackSize /\ Len(data) >= 4 /\ 0 + 4 <= Len(data)
      BY <1>4, <2>2, <2>3, <2>5, <2>7
    <3>2. a.ownsData
      BY <1>2, <2>1, <2>7 DEF Sound
    <3> QED
      BY <2>7, <2>8, <3>1, <3>2 DEF Sound
  <2>10. Fits(b) => Fits(a)
    <3>1. e.dataSize \in Nat /\ Len(data) = Len(e.data) + 4 /\ Len(e.data) \in Nat
      BY <1>3, <1>4, <2>2, <2>5, Bounds DEF Builders
    <3>2. ASSUME Fits(b) PROVE Len(data) <= e.dataSize
      BY <2>1, <3>1, <3>2
    <3> QED
      BY <2>7, <3>2 DEF Fits
  <2>11. ~b.finished /\ Refused(b) => Refused(a) \/ "SIZE_OVERFLOW" \in a.err
    BY <1>2, <2>7 DEF Becomes, Refused
  <2>12. a.finished = b.finished
    BY <1>2, <1>3, <2>1, <2>7 DEF Builders
  <2> QED
    BY <1>5, <1>7, <2>9, <2>10, <2>11, <2>12 DEF Becomes, r
<1> QED
  BY <1>6, <1>7

\* The size of what was begun at a place inside the document is written there.
LEMMA SizeWritten ==
  ASSUME NEW d \in Seq(Cell), NEW start \in Nat, start + 4 <= Len(d), NEW size \in Int
  PROVE  LET w == SubSeq(d, 1, start) \o Word(size) \o SubSeq(d, start + 5, Len(d)) IN
         /\ w \in Seq(Cell) /\ Len(w) = Len(d)
         /\ start = 0 => \A i \in 1..4 : w[i] = Word(size)[i]
<1> DEFINE u == SubSeq(d, 1, start)
           v == SubSeq(d, start + 5, Len(d))
           h == Word(size)
<1>1. u \in Seq(Cell) /\ Len(u) = start
  BY SMT
<1>2. v \in Seq(Cell) /\ Len(v) = Len(d) - (start + 4)
  BY SMT
<1>3. h \in Seq(Cell) /\ Len(h) = 4
  BY WordIs DEF Cell
<1> HIDE DEF u, v, h
<1> DEFINE t == u \o h
           w == t \o v
<1>4. t \in Seq(Cell) /\ Len(t) = start + 4 /\ \A i \in 1..start + 4 : i > start => t[i] = h[i - start]
  <2>1. /\ t \in Seq(Cell) /\ Len(t) = Len(u) + Len(h)
        /\ \A i \in 1..Len(u) + Len(h) : t[i] = IF i <= Len(u) THEN u[i] ELSE h[i - Len(u)]
    BY ONLY <1>1, <1>3, ConcatProperties, Zenon
  <2> HIDE DEF t
  <2>2. Len(t) = start + 4 /\ \A i \in 1..start + 4 : t[i] = IF i <= start THEN u[i] ELSE h[i - start]
    BY <1>1, <1>3, <2>1
  <2> QED
    BY <2>1, <2>2
<1> HIDE DEF t
<1>5. w \in Seq(Cell) /\ Len(w) = Len(d) /\ \A i \in 1..start + 4 : w[i] = t[i]
  <2>1. Len(w) = Len(t) + Len(v) /\ w \in Seq(Cell)
    BY <1>2, <1>4, ConcatProperties
  <2>2. Len(v) \in Nat
    BY <1>2
  <2>3. \A i \in 1..Len(t) + Len(v) : i <= Len(t) => w[i] = t[i]
    BY <1>2, <1>4, ConcatProperties
  <2> QED
    BY <1>2, <1>4, <2>1, <2>2, <2>3
<1> HIDE DEF w
<1>6. start = 0 => \A i \in 1..4 : w[i] = h[i]
  BY <1>4, <1>5
<1> QED
  BY <1>5, <1>6 DEF u, v, h, t, w

\* An open sub-object is closed: its size is written inside the document.
LEMMA SubClosed ==
  ASSUME NEW b, Sound(b), b.stack # <<>>
  PROVE  Becomes(b, bson_append_finish_object(b))
<1> DEFINE e == bson_ensure_space(b, 1)
           start == Last(b.stack)
           a == bson_append(e, << 0 >>)
           c == [a EXCEPT !.stack = Front(a.stack)]
           o == [c EXCEPT !.err = {"SIZE_OVERFLOW"}, !.ok = FALSE]
           w == Sized(c, start)
           r == bson_append_finish_object(b)
<1>1. ~b.finished /\ b.stack \in Seq(Nat) /\ Len(b.stack) \in Nat \ {0}
  BY DEF Sound, Builders
<1>2. Becomes(b, e) /\ e.data = b.data /\ e.stack = b.stack /\ (e.ok => e.err = b.err)
      /\ (e.ok /\ Fits(b) => Len(b.data) + 1 <= e.dataSize)
  BY <1>1, SpaceEnsured
<1> HIDE DEF e
<1>3. Sound(e) /\ e.finished = b.finished
  BY <1>2 DEF Becomes
<1>4. << 0 >> \in Seq(0..255) /\ Len(<< 0 >>) = 1
  OBVIOUS
<1>5. Sound(a) /\ a.finished = e.finished /\ a.err = e.err /\ a.dataSize = e.dataSize
      /\ a.stack = e.stack /\ a.stackSize = e.stackSize /\ Len(a.data) = Len(e.data) + 1
  BY <1>1, <1>3, <1>4, BytesAppended, ZenonT(30)
<1> HIDE DEF a
<1>6. a \in Builders
  BY <1>5 DEF Sound
<1>7. r = IF ~e.ok THEN e ELSE IF Len(c.data) - start >= IntMax THEN o ELSE w
  <2>1. c = [a EXCEPT !.stack = Front(@)]
    BY <1>6 DEF Builders
  <2> QED
    BY <2>1 DEF bson_append_finish_object, a, e
<1>8. /\ start \in Nat /\ start + 4 <= Len(b.data)
      /\ Front(a.stack) \in Seq(Nat) /\ Len(Front(a.stack)) <= Len(a.stack)
      /\ \A i \in 1..Len(Front(a.stack)) : i \in 1..Len(a.stack) /\ Front(a.stack)[i] = a.stack[i]
  <2>1. start \in Nat /\ start + 4 <= Len(b.data)
    BY <1>1 DEF Last, Sound
  <2> DEFINE s == b.stack
             f == SubSeq(s, 1, Len(s) - 1)
  <2>2. s \in Seq(Nat) /\ Len(s) \in Nat \ {0}
    BY <1>1
  <2> HIDE DEF s
  <2>3. f \in Seq(Nat) /\ Len(f) = Len(s) - 1 /\ \A i \in 1..Len(s) - 1 : f[i] = s[i]
    BY <2>2, SMTT(30)
  <2> HIDE DEF f
  <2>4. Front(a.stack) = f
    BY <1>2, <1>5 DEF Front, f, s
  <2>5. a.stack = s
    BY <1>2, <1>5 DEF s
  <2> DEFINE n == Len(s)
             k == Len(f)
  <2>6. Len(f) <= Len(s) /\ \A i \in 1..Len(f) : i \in 1..Len(s) /\ f[i] = s[i]
    <3>1. n \in Nat \ {0} /\ k = n - 1 /\ \A i \in 1..n - 1 : f[i] = s[i]
      BY <2>2, <2>3
    <3> HIDE DEF n, k
    <3>2. k <= n /\ \A i \in 1..k : i \in 1..n /\ f[i] = s[i]
      BY <3>1
    <3> QED
      BY <3>2 DEF n, k
  <2> QED
    BY <2>1, <2>3, <2>4, <2>5, <2>6
<1> HIDE DEF start
<1>9. Sound(c) /\ c.finished = b.finished /\ c.err = e.err /\ c.dataSize = e.dataSize /\ c.data = a.data
  <2> DEFINE f == Front(a.stack)
  <2>1. c = [a EXCEPT !.stack = f] /\ f \in Seq(Nat) /\ Len(f) \in Nat
    BY <1>8
  <2> HIDE DEF f, c
  <2>2. /\ c \in Builders /\ c.stack = f /\ c.finished = a.finished /\ c.err = a.err /\ c.dataSize = a.dataSize
        /\ c.data = a.data /\ c.stackSize = a.stackSize /\ c.ownsData = a.ownsData /\ c.back = a.back
    BY <1>6, <2>1 DEF Builders
  <2>3. Len(f) <= c.stackSize
    <3>1. Len(a.stack) <= a.stackSize /\ Len(f) <= Len(a.stack)
      BY <1>5, <1>8 DEF Sound, f
    <3>2. Len(a.stack) \in Nat /\ a.stackSize \in Nat
      BY <1>6 DEF Builders
    <3> QED
      BY <2>1, <2>2, <3>1, <3>2
  <2>4. \A i \in 1..Len(f) : f[i] + 4 <= Len(c.data)
    BY <1>5, <1>8, <2>2 DEF Sound, f
  <2>5. ~c.finished /\ c.ownsData /\ Len(c.data) >= 4 /\ c.back = 0 /\ c.back + 4 <= Len(c.data)
    BY <1>1, <1>3, <1>5, <2>2 DEF Sound, Builders
  <2> QED
    BY <1>3, <1>5, <2>2, <2>3, <2>4, <2>5 DEF Sound
<1> HIDE DEF c
<1>10. e.ok /\ Fits(b) => Len(c.data) <= c.dataSize
  BY <1>2, <1>5, <1>9
<1>11. CASE ~e.ok
  BY <1>2, <1>7, <1>11
<1>12. CASE e.ok /\ Len(c.data) - start >= IntMax
  <2>1. r = o
    BY <1>7, <1>12
  <2>2. Sound(o) /\ o.finished = c.finished /\ o.data = c.data /\ o.dataSize = c.dataSize
        /\ "SIZE_OVERFLOW" \in o.err
    BY <1>9 DEF Sound, Builders, Errors
  <2> HIDE DEF o
  <2> QED
    BY <1>9, <1>10, <1>12, <2>1, <2>2 DEF Becomes, Fits
<1>13. CASE e.ok /\ ~(Len(c.data) - start >= IntMax)
  <2> DEFINE d == SubSeq(c.data, 1, start) \o Word(Len(c.data) - start) \o SubSeq(c.data, start + 5, Len(c.data))
  <2>1. r = w /\ w = [c EXCEPT !.data = d, !.ok = TRUE]
    BY <1>7, <1>9, <1>13 DEF Sized, Sound, Builders
  <2>2. c.data \in Seq(Cell) /\ Len(c.data) \in Int /\ start + 4 <= Len(c.data) /\ Len(b.data) \in Nat
    BY <1>2, <1>5, <1>8, <1>9 DEF Sound, Builders
  <2>3. d \in Seq(Cell) /\ Len(d) = Len(c.data)
    <3> DEFINE size == Len(c.data) - start
    <3>1. size \in Int
      BY <1>8, <2>2
    <3> HIDE DEF size
    <3>2. LET t == SubSeq(c.data, 1, start) \o Word(size) \o SubSeq(c.data, start + 5, Len(c.data))
          IN t \in Seq(Cell) /\ Len(t) = Len(c.data)
      BY <1>8, <2>2, <3>1, SizeWritten
    <3> QED
      BY <3>2 DEF size
  <2> HIDE DEF d, w
  <2>4. Sound(w) /\ w.finished = c.finished /\ Len(w.data) = Len(c.data) /\ w.dataSize = c.dataSize
        /\ w.err = c.err
    <3>1. c \in Builders
      BY <1>9 DEF Sound
    <3>2. w \in Builders /\ w.data = d /\ w.dataSize = c.dataSize /\ w.err = c.err /\ w.finished = c.finished
          /\ w.stack = c.stack /\ w.stackSize = c.stackSize /\ w.ownsData = c.ownsData /\ w.back = c.back
      BY <2>1, <2>3, <3>1 DEF Builders
    <3> QED
      BY <1>1, <1>9, <2>3, <3>2 DEF Sound
  <2> QED
    BY <1>2, <1>9, <1>10, <1>13, <2>1, <2>4 DEF Becomes, Fits, Refused
<1> QED
  BY <1>11, <1>12, <1>13

\* Nothing is open: the errors noted so far are replaced.
LEMMA NothingToClose ==
  ASSUME NEW b, Sound(b), b.stack = <<>>
  PROVE  LET r == bson_append_finish_object(b) IN
         Sound(r) /\ r.finished = b.finished /\ (Fits(b) => Fits(r))
<1> DEFINE r == bson_append_finish_object(b)
<1>1. r = [b EXCEPT !.err = {"NOT_IN_SUBOBJECT"}, !.ok = FALSE]
  BY DEF bson_append_finish_object
<1> HIDE DEF r
<1> QED
  BY <1>1 DEF Sound, Builders, Errors, Fits, r

\* The document that is put into others: its bytes, and those of its one element.
LEMMA SampleIs ==
  /\ SampleBytes \in Seq(0..255) /\ Len(SampleBytes) = 12 /\ Sample.data = SampleBytes
  /\ bson_iterator_value(SampleBytes, 5) = 8 /\ bson_iterator_next(SampleBytes, 5) = 12
  /\ bson_size(Sample) \in Int
<1>1. SampleBytes \in Seq(0..255) /\ Len(SampleBytes) = 12
  BY DEF SampleBytes
<1>2. Sample.data = SampleBytes
  BY DEF Sample, bson_init_size
<1>3. SampleBytes[5] = 16 /\ SampleBytes[6] = 115 /\ SampleBytes[7] = 0
  BY DEF SampleBytes
<1>4. TextEnd(SampleBytes, 6) = 7
  <2> DEFINE OK(q) == SampleBytes[q] = 0 /\ \A r \in 6..q - 1 : SampleBytes[r] # 0
  <2>1. OK(7) /\ 7 \in 6..Len(SampleBytes)
    BY <1>1, <1>3
  <2>2. ASSUME NEW q \in 6..Len(SampleBytes), OK(q) PROVE q = 7
    <3>1. q # 6
      BY <1>3, <2>2
    <3>2. ~(7 < q)
      <4>1. 7 < q => 7 \in 6..q - 1
        BY <2>2
      <4> QED
        BY <1>3, <2>2, <4>1
    <3> QED
      BY <1>1, <3>1, <3>2
  <2> HIDE DEF OK
  <2>3. (CHOOSE q \in 6..Len(SampleBytes) : OK(q)) = 7
    BY <2>1, <2>2
  <2> QED
    BY <2>3 DEF TextEnd, OK
<1>5. bson_iterator_value(SampleBytes, 5) = 8
  BY <1>4 DEF bson_iterator_value
<1>6. ValueSize(SampleBytes, 5) = 4
  <2>1. 16 \in DOMAIN FixedSize /\ FixedSize[16] = 4
    BY DEF FixedSize, T
  <2> QED
    <3>1. 16 \notin DOMAIN CountedSize /\ 16 # T.regex
      BY DEF CountedSize, T
    <3>2. SampleBytes[5] \in DOMAIN FixedSize /\ SampleBytes[5] \notin DOMAIN CountedSize
          /\ SampleBytes[5] # T.regex /\ FixedSize[SampleBytes[5]] = 4
      BY ONLY <1>3, <2>1, <3>1
    <3> QED
      BY ONLY <3>2, Zenon DEF ValueSize
<1>7. bson_iterator_next(SampleBytes, 5) = 12
  BY <1>3, <1>5, <1>6 DEF bson_iterator_next, T
<1>8. bson_size(Sample) \in Int
  <2>1. SampleBytes # <<>> /\ \A i \in 1..4 : SampleBytes[i] \in 0..255
    BY DEF SampleBytes
  <2>2. Unset \notin {SampleBytes[i] : i \in 1..4}
    <3>1. Unset \notin 0..255
      BY ONLY RoomAssumption DEF BuilderAssumption
    <3> QED
      BY <2>1, <3>1
  <2>3. UnWord(SampleBytes) \in Int
    <3>1. SampleBytes[1] \in Int /\ SampleBytes[2] \in Int /\ SampleBytes[3] \in Int /\ SampleBytes[4] = 0
      BY DEF SampleBytes
    <3>2. UnWord(SampleBytes) = SampleBytes[1] + 256 * SampleBytes[2] + 65536 * SampleBytes[3] + 16777216 * 0
      BY SMT, <3>1 DEF UnWord
    <3> QED
      BY SMT, <3>1, <3>2
  <2> QED
    BY <1>2, <2>1, <2>2, <2>3 DEF bson_size
<1> QED
  BY <1>1, <1>2, <1>5, <1>7, <1>8

\* What a call does to a builder, with what may have gone wrong.
Outcome(b, c, slip) ==
  /\ slip \subseteq {"half", "headless", "behind", "unmatched"}
  /\ Sound(c) /\ c.finished = b.finished
  /\ "headless" \notin slip /\ Fits(b) => Fits(c)
  /\ "half" \in slip => ~b.finished /\ Refused(c)
  /\ ~b.finished /\ Refused(b) => Refused(c) \/ "SIZE_OVERFLOW" \in c.err \/ "unmatched" \in slip

\* The inductive invariant: the builder is sound and keeps to its room, and as long as
\* half an element is in it and nothing replaced the note of that, it stays unfinished.
BuilderInv ==
  /\ Sound(build) /\ slips \subseteq Slips
  /\ "headless" \notin slips => Fits(build)
  /\ "finished" \in slips => build.finished
  /\ "half" \in slips /\ slips \intersect {"unmatched", "full"} = {} => Refused(build) /\ ~build.finished

\* It has what the run checks.
LEMMA InvIsSafe == BuilderInv => BuilderSafe
<1> SUFFICES ASSUME BuilderInv PROVE BuilderSafe
  OBVIOUS
<1>1. BuilderTypeOK
  <2>1. build \in Builders /\ slips \subseteq Slips
    BY DEF BuilderInv, Sound
  <2>2. build.dataSize \in 0..IntMax /\ build.err \subseteq Errors
    BY <2>1 DEF Builders
  <2>3. Len(build.stack) <= build.stackSize
        /\ \A i \in 1..Len(build.stack) : build.stack[i] + 4 <= Len(build.data)
    BY DEF BuilderInv, Sound
  <2>4. "headless" \notin slips => Len(build.data) <= build.dataSize
    BY DEF BuilderInv, Fits
  <2> QED
    BY <2>1, <2>2, <2>3, <2>4 DEF BuilderTypeOK, Errors, Slips
<1>2. HalfIsCovered
  BY DEF HalfIsCovered, BuilderInv
<1> QED
  BY <1>1, <1>2 DEF BuilderSafe

\* A call keeps it.
LEMMA CallKeeps ==
  ASSUME BuilderInv, NEW b, NEW tokens, NEW slip, Outcome(build, b, slip), Call(b, tokens, slip)
  PROVE  BuilderInv'
<1> DEFINE full == IF "SIZE_OVERFLOW" \in b.err THEN {"full"} ELSE {}
<1>1. build' = b /\ slips' = slips \union slip \union full
  BY DEF Call
<1>2. full \subseteq {"full"} /\ ("SIZE_OVERFLOW" \in b.err => "full" \in full)
  OBVIOUS
<1> HIDE DEF full
<1>3. slips' \subseteq Slips
  BY <1>1, <1>2 DEF BuilderInv, Outcome, Slips
<1>4. Sound(b) /\ b.finished = build.finished
  BY DEF Outcome
<1>5. "headless" \notin slips' => Fits(b)
  BY <1>1 DEF BuilderInv, Outcome
<1>6. "finished" \in slips' => b.finished
  <2>1. "finished" \in slips' => "finished" \in slips
    BY <1>1, <1>2 DEF Outcome
  <2> QED
    BY <1>4, <2>1 DEF BuilderInv
<1>7. "half" \in slips' /\ slips' \intersect {"unmatched", "full"} = {} => Refused(b) /\ ~b.finished
  <2> SUFFICES ASSUME "half" \in slips', "unmatched" \notin slips', "full" \notin slips'
               PROVE  Refused(b) /\ ~b.finished
    OBVIOUS
  <2>1. "unmatched" \notin slip /\ "SIZE_OVERFLOW" \notin b.err /\ "unmatched" \notin slips /\ "full" \notin slips
    BY <1>1, <1>2
  <2>2. CASE "half" \in slip
    BY <1>4, <2>2 DEF Outcome
  <2>3. CASE "half" \in slips
    <3>1. Refused(build) /\ ~build.finished
      BY <2>1, <2>3 DEF BuilderInv
    <3> QED
      BY <1>4, <2>1, <3>1 DEF Outcome
  <2> QED
    BY <1>1, <1>2, <2>2, <2>3
<1> QED
  BY <1>1, <1>3, <1>4, <1>5, <1>6, <1>7 DEF BuilderInv, Sound, Fits, Refused, Headed, Builders

\* A call after which the builder is as one of its operations leaves it.
LEMMA PutKeeps ==
  ASSUME BuilderInv, NEW b, Becomes(build, b), NEW tokens, Call(b, tokens, {})
  PROVE  BuilderInv'
<1>1. Outcome(build, b, {})
  BY DEF Outcome, Becomes
<1> QED
  BY <1>1, CallKeeps

\* The values that are put in are bytes.
LEMMA ValuesAreBytes ==
  /\ Word(-2) \in Seq(0..255)
  /\ Long(5) \in Seq(0..255) /\ Long(9) \in Seq(0..255) /\ Double(5) \in Seq(0..255)
  /\ Word(2) \o Word(1) \in Seq(0..255)
  /\ bson_oid_gen(1, 2, 3) \in Seq(0..255)
<1>1. \A i \in {-2, 1, 2, 3, 5, 9} : Word(i) \in Seq(0..255)
  BY WordIs
<1>2. << 0, 0, 0, 0 >> \in Seq(0..255) /\ << 0, 0, 240, 63 >> \in Seq(0..255)
  OBVIOUS
<1>5. /\ Word(-2) \in Seq(0..255) /\ Word(1) \in Seq(0..255) /\ Word(2) \in Seq(0..255)
      /\ Word(3) \in Seq(0..255) /\ Word(5) \in Seq(0..255) /\ Word(9) \in Seq(0..255)
  BY <1>1
<1>3. Long(5) \in Seq(0..255) /\ Long(9) \in Seq(0..255)
  <2>1. Long(5) = Word(5) \o << 0, 0, 0, 0 >> /\ Long(9) = Word(9) \o << 0, 0, 0, 0 >>
    BY DEF Long
  <2> QED
    <3>1. Word(5) \o << 0, 0, 0, 0 >> \in Seq(0..255)
      BY ONLY <1>5, <1>2, ConcatProperties, Zenon
    <3>2. Word(9) \o << 0, 0, 0, 0 >> \in Seq(0..255)
      BY ONLY <1>5, <1>2, ConcatProperties, Zenon
    <3> QED
      BY ONLY <2>1, <3>1, <3>2, Zenon
<1>4. Double(5) \in Seq(0..255)
  BY ONLY <1>5, <1>2, ConcatProperties, ZenonT(30) DEF Double
<1>6. Word(2) \o Word(1) \in Seq(0..255)
  BY ONLY <1>5, ConcatProperties, Zenon
<1>7. ASSUME NEW w \in Seq(0..255) PROVE Reverse(w) \in Seq(0..255)
  <2> DEFINE n == Len(w)
  <2>1. n \in Nat /\ \A i \in 1..n : (n - i) + 1 \in 1..n
    OBVIOUS
  <2>2. \A i \in 1..n : w[(n - i) + 1] \in 0..255
    <3>1. \A i \in 1..n : w[i] \in 0..255
      BY ElementOfSeq, Zenon
    <3> HIDE DEF n
    <3> QED
      BY ONLY <2>1, <3>1
  <2>3. Reverse(w) = [i \in 1..n |-> w[(n - i) + 1]]
    BY DEF Reverse
  <2> HIDE DEF n
  <2> QED
    BY <2>1, <2>2, <2>3
<1>8. bson_oid_gen(1, 2, 3) \in Seq(0..255)
  <2> DEFINE u == Reverse(Word(1))
             v == Reverse(Word(3))
  <2>1. u \in Seq(0..255) /\ v \in Seq(0..255) /\ Word(2) \in Seq(0..255)
    BY <1>5, <1>7
  <2>2. bson_oid_gen(1, 2, 3) = u \o Word(2) \o v
    BY DEF bson_oid_gen, bson_swap_endian32
  <2> HIDE DEF u, v
  <2>3. u \o Word(2) \in Seq(0..255)
    BY ONLY <2>1, ConcatProperties, Zenon
  <2>4. (u \o Word(2)) \o v \in Seq(0..255)
    BY ONLY <2>1, <2>3, ConcatProperties, Zenon
  <2> QED
    BY <2>2, <2>4
<1> QED
  BY <1>3, <1>4, <1>5, <1>6, <1>8

\* The numbers of the types, and the one-letter names.
LEMMA TypesAreBytes ==
  /\ \A t \in DOMAIN T : T[t] \in 0..255
  /\ << 97 >> \in Seq(0..255) /\ << 98 >> \in Seq(0..255) /\ << 105 >> \in Seq(0..255)
  /\ <<>> \in Seq(0..255) /\ << 0 >> \in Seq(0..255) /\ << 1 >> \in Seq(0..255) /\ << 0, 9 >> \in Seq(0..255)
BY DEF T

\* The types by name.
LEMMA TypeNames ==
  /\ T.int \in 0..255 /\ T.long \in 0..255 /\ T.double \in 0..255 /\ T.bool \in 0..255 /\ T.null \in 0..255
  /\ T.undefined \in 0..255 /\ T.timestamp \in 0..255 /\ T.date \in 0..255 /\ T.oid \in 0..255
  /\ T.bindata \in 0..255 /\ T.codewscope \in 0..255 /\ T.object \in 0..255 /\ T.array \in 0..255
  /\ T.string \in 0..255 /\ T.symbol \in 0..255 /\ T.code \in 0..255
BY DEF T

\* The put of an int keeps the invariant.
LEMMA PutIntKeeps == ASSUME BuilderInv, NEW name \in Names, PutInt(name) PROVE BuilderInv'
<1>1. name \in Seq(0..255)
  BY Bounds
<1>2. Becomes(build, bson_append_int(build, name, -2))
  BY ONLY <1>1, BuilderInv, ElementAppended, TypeNames, ValuesAreBytes, ZenonT(30) DEF BuilderInv, bson_append_int
<1> QED
  BY <1>2, PutKeeps DEF PutInt, Put

\* So does the put of a text.
LEMMA PutStringKeeps == ASSUME BuilderInv, NEW s \in Texts, PutString(s) PROVE BuilderInv'
<1>1. s \in Seq(0..255) /\ Sound(build) /\ << 97 >> \in Seq(0..255)
  BY Bounds, TypesAreBytes DEF BuilderInv
<1>2. /\ Becomes(build, bson_append_string(build, << 97 >>, s))
      /\ Becomes(build, bson_append_symbol(build, << 97 >>, s))
      /\ Becomes(build, bson_append_code(build, << 97 >>, s))
  BY ONLY <1>1, TextAppended, TypeNames, ZenonT(30) DEF bson_append_string, bson_append_symbol, bson_append_code
<1>3. PICK type \in {T.string, T.symbol, T.code} :
        Put(CASE type = T.string -> bson_append_string(build, << 97 >>, s)
              [] type = T.symbol -> bson_append_symbol(build, << 97 >>, s)
              [] OTHER -> bson_append_code(build, << 97 >>, s),
            type, << 97 >>, Word(Len(s) + 1) \o s \o << 0 >>)
  BY DEF PutString
<1> DEFINE b == CASE type = T.string -> bson_append_string(build, << 97 >>, s)
                  [] type = T.symbol -> bson_append_symbol(build, << 97 >>, s)
                  [] OTHER -> bson_append_code(build, << 97 >>, s)
<1>4. b \in {bson_append_string(build, << 97 >>, s), bson_append_symbol(build, << 97 >>, s),
             bson_append_code(build, << 97 >>, s)}
  BY Zenon
<1>5. Becomes(build, b)
  <2> HIDE DEF b
  <2> QED
    BY <1>2, <1>4
<1>6. Call(b, Leaf(type, << 97 >>, Word(Len(s) + 1) \o s \o << 0 >>), {})
  BY <1>3 DEF Put
<1> HIDE DEF b
<1> QED
  BY <1>5, <1>6, PutKeeps

\* So do the puts of a value of a fixed size.
LEMMA PutFixedKeeps == ASSUME BuilderInv, PutFixed PROVE BuilderInv'
<1>1. Sound(build) /\ << 97 >> \in Seq(0..255)
  BY TypesAreBytes DEF BuilderInv
<1>2. /\ Becomes(build, bson_append_long(build, << 97 >>, Long(5)))
      /\ Becomes(build, bson_append_double(build, << 97 >>, Double(5)))
      /\ Becomes(build, bson_append_date(build, << 97 >>, Long(9)))
      /\ Becomes(build, bson_append_oid(build, << 97 >>, bson_oid_gen(1, 2, 3)))
  BY ONLY <1>1, ElementAppended, TypeNames, ValuesAreBytes, ZenonT(30)
     DEF bson_append_long, bson_append_double, bson_append_date, bson_append_oid
<1>3. /\ Becomes(build, bson_append_null(build, << 97 >>))
      /\ Becomes(build, bson_append_undefined(build, << 97 >>))
      /\ Becomes(build, bson_append_timestamp(build, << 97 >>, 1, 2))
  BY ONLY <1>1, ElementAppended, TypeNames, TypesAreBytes, ValuesAreBytes, ZenonT(30)
     DEF bson_append_null, bson_append_undefined, bson_append_timestamp
<1>4. Becomes(build, bson_append_bool(build, << 97 >>, 3))
  <2>1. (IF 3 # 0 THEN << 1 >> ELSE << 0 >>) \in Seq(0..255)
    BY TypesAreBytes
  <2> QED
    BY ONLY <1>1, <2>1, ElementAppended, TypeNames, ZenonT(30) DEF bson_append_bool
<1> QED
  BY ONLY <1>2, <1>3, <1>4, BuilderInv, PutFixed, PutKeeps, Zenon DEF PutFixed, Put

\* So do the puts of bytes, by either kind.
LEMMA PutBinaryKeeps == ASSUME BuilderInv, PutBinary PROVE BuilderInv'
<1>1. Sound(build) /\ << 97 >> \in Seq(0..255)
  BY TypesAreBytes DEF BuilderInv
<1> DEFINE bytes == << 0, 9 >>
           old == Word(Len(bytes) + 4) \o << BinaryOld >> \o Word(Len(bytes)) \o bytes
           new == Word(Len(bytes)) \o << 0 >> \o bytes
<1>2. bytes \in Seq(0..255) /\ << BinaryOld >> \in Seq(0..255) /\ << 0 >> \in Seq(0..255) /\ Len(bytes) \in Int
      /\ Len(bytes) + 4 \in Int
  BY DEF BinaryOld
<1> HIDE DEF bytes
<1>3. Word(Len(bytes) + 4) \in Seq(0..255) /\ Word(Len(bytes)) \in Seq(0..255)
  BY ONLY <1>2, WordIs, Zenon
<1>4. new \in Seq(0..255)
  <2>1. Word(Len(bytes)) \o << 0 >> \in Seq(0..255)
    BY ONLY <1>2, <1>3, ConcatProperties, Zenon
  <2> QED
    BY ONLY <1>2, <2>1, ConcatProperties, Zenon
<1>5. old \in Seq(0..255)
  <2>1. Word(Len(bytes) + 4) \o << BinaryOld >> \in Seq(0..255)
    BY ONLY <1>2, <1>3, ConcatProperties, Zenon
  <2>2. Word(Len(bytes) + 4) \o << BinaryOld >> \o Word(Len(bytes)) \in Seq(0..255)
    BY ONLY <1>3, <2>1, ConcatProperties, Zenon
  <2> QED
    BY ONLY <1>2, <2>2, ConcatProperties, Zenon
<1> HIDE DEF old, new
<1>6. Becomes(build, Appended(build, T.bindata, << 97 >>, old))
      /\ Becomes(build, Appended(build, T.bindata, << 97 >>, new))
  BY ONLY <1>1, <1>4, <1>5, ElementAppended, TypeNames, ZenonT(30)
<1>7. 0 # BinaryOld
  BY DEF BinaryOld
<1>8. bson_append_binary(build, << 97 >>, 0, bytes) = Appended(build, T.bindata, << 97 >>, new)
      /\ bson_append_binary(build, << 97 >>, BinaryOld, bytes) = Appended(build, T.bindata, << 97 >>, old)
  BY ONLY <1>7, Zenon DEF bson_append_binary, old, new
<1>9. Becomes(build, bson_append_binary(build, << 97 >>, 0, << 0, 9 >>))
      /\ Becomes(build, bson_append_binary(build, << 97 >>, BinaryOld, << 0, 9 >>))
  BY ONLY <1>6, <1>8, Zenon DEF bytes
<1> QED
  BY ONLY <1>9, BuilderInv, PutBinary, PutKeeps, Zenon DEF PutBinary, Put

\* So does the put of a regular expression, of which half may stay.
LEMMA PutRegexKeeps == ASSUME BuilderInv, NEW s \in Texts, PutRegex(s) PROVE BuilderInv'
<1> DEFINE b == bson_append_regex(build, << 97 >>, s, << 105 >>)
           slip == IF ~b.ok /\ Len(b.data) > Len(build.data) THEN {"half"} ELSE {}
<1>1. s \in Seq(0..255) /\ Sound(build) /\ << 97 >> \in Seq(0..255) /\ << 105 >> \in Seq(0..255)
  BY Bounds, TypesAreBytes DEF BuilderInv
<1>2. Becomes(build, b) /\ (~b.ok /\ Len(b.data) > Len(build.data) => ~build.finished /\ Refused(b))
  BY ONLY <1>1, RegexAppended, Zenon
<1>3. Call(b, Leaf(T.regex, << 97 >>, s \o << 0, 105, 0 >>), slip)
  BY DEF PutRegex
<1> HIDE DEF b
<1>4. slip \subseteq {"half"} /\ ("half" \in slip => ~build.finished /\ Refused(b))
  BY <1>2
<1> HIDE DEF slip
<1>5. Outcome(build, b, slip)
  BY <1>2, <1>4 DEF Outcome, Becomes
<1> QED
  BY <1>3, <1>5, CallKeeps

\* So does the put of a code with its scope.
LEMMA PutScopedKeeps == ASSUME BuilderInv, PutScoped PROVE BuilderInv'
<1> DEFINE code == << 98 >>
           size == 9 + Len(code) + bson_size(Sample)
           bytes == Word(size) \o Word(Len(code) + 1) \o code \o << 0 >> \o Sample.data
           b == bson_append_code_w_scope(build, << 97 >>, code, Sample)
<1>1. Sound(build) /\ << 97 >> \in Seq(0..255) /\ code \in Seq(0..255) /\ << 0 >> \in Seq(0..255)
  BY TypesAreBytes DEF BuilderInv
<1>2. Sample.data \in Seq(0..255) /\ size \in Int /\ Len(code) + 1 \in Int
  BY SampleIs
<1>3. b = IF size > IntMax THEN [build EXCEPT !.err = {"SIZE_OVERFLOW"}, !.ok = FALSE]
          ELSE Appended(build, T.codewscope, << 97 >>, bytes)
  BY DEF bson_append_code_w_scope
<1> HIDE DEF size, code
<1>4. bytes \in Seq(0..255)
  <2>1. Word(size) \in Seq(0..255) /\ Word(Len(code) + 1) \in Seq(0..255)
    BY ONLY <1>2, WordIs, Zenon
  <2>2. Word(size) \o Word(Len(code) + 1) \in Seq(0..255)
    BY ONLY <2>1, ConcatProperties, Zenon
  <2>3. Word(size) \o Word(Len(code) + 1) \o code \in Seq(0..255)
    BY ONLY <1>1, <2>2, ConcatProperties, Zenon
  <2>4. Word(size) \o Word(Len(code) + 1) \o code \o << 0 >> \in Seq(0..255)
    BY ONLY <1>1, <2>3, ConcatProperties, Zenon
  <2> QED
    BY ONLY <1>2, <2>4, ConcatProperties, Zenon
<1> HIDE DEF bytes
<1>5. Becomes(build, Appended(build, T.codewscope, << 97 >>, bytes))
  BY ONLY <1>1, <1>4, ElementAppended, TypeNames, Zenon
<1>6. Call(b, Leaf(T.codewscope, << 97 >>, code \o Sample.data), {})
  BY DEF PutScoped, Put, code
<1> HIDE DEF b
<1>7. Becomes(build, b)
  <2>1. CASE size > IntMax
    <3>1. b = [build EXCEPT !.err = {"SIZE_OVERFLOW"}, !.ok = FALSE]
      BY <1>3, <2>1
    <3>2. Sound(b) /\ b.finished = build.finished /\ b.data = build.data /\ b.dataSize = build.dataSize
          /\ "SIZE_OVERFLOW" \in b.err
      BY <1>1, <3>1 DEF Sound, Builders, Errors
    <3> QED
      BY <3>2 DEF Becomes, Fits
  <2>2. CASE ~(size > IntMax)
    BY <1>3, <1>5, <2>2
  <2> QED
    BY <2>1, <2>2
<1> QED
  BY <1>6, <1>7, PutKeeps

\* So does the put of a whole document.
LEMMA PutBsonKeeps == ASSUME BuilderInv, PutBson PROVE BuilderInv'
<1>1. Sound(build) /\ << 97 >> \in Seq(0..255) /\ Sample.data \in Seq(0..255)
  BY TypesAreBytes, SampleIs DEF BuilderInv
<1>2. Becomes(build, bson_append_bson(build, << 97 >>, Sample))
  BY ONLY <1>1, ElementAppended, TypeNames, Zenon DEF bson_append_bson
<1> QED
  BY <1>2, PutKeeps DEF PutBson

\* A part of the document that is put into others.
LEMMA PartOfSample ==
  ASSUME NEW p \in 1..12, NEW q \in 1..12, p <= q
  PROVE  SubSeq(SampleBytes, p, q) \in Seq(0..255) /\ Len(SubSeq(SampleBytes, p, q)) = (q - p) + 1
<1>1. \A i \in p..q : SampleBytes[i] \in 0..255
  <2> TAKE i \in p..q
  <2>1. i \in 1..Len(SampleBytes)
    BY SampleIs
  <2> QED
    BY ONLY <2>1, SampleIs, ElementOfSeq, Zenon
<1>2. p \in Int /\ q \in Int
  OBVIOUS
<1>3. /\ SubSeq(SampleBytes, p, q) \in Seq(0..255)
      /\ Len(SubSeq(SampleBytes, p, q)) = IF p <= q THEN (q - p) + 1 ELSE 0
  BY ONLY <1>1, <1>2, SubSeqProperties, Zenon
<1> QED
  BY <1>3

\* An element that is copied in under a new name keeps the invariant; where its head is
\* refused its value comes all the same.
LEMMA PutElementKeeps == ASSUME BuilderInv, NEW name \in Names, PutElement(name) PROVE BuilderInv'
<1> DEFINE h == bson_append_estart(build, T.int, name, 4)
           value == SubSeq(SampleBytes, 8, 11)
           b == bson_append(h, value)
           slip == IF h.ok THEN {} ELSE {"headless"}
<1>1. value \in Seq(0..255) /\ Len(value) = 4
  <2>1. 8 \in 1..12 /\ 11 \in 1..12 /\ 8 <= 11 /\ (11 - 8) + 1 = 4
    OBVIOUS
  <2>2. value \in Seq(0..255) /\ Len(value) = (11 - 8) + 1
    BY ONLY <2>1, PartOfSample, Zenon
  <2> QED
    BY <2>1, <2>2
<1>2. bson_append_element(build, name, Sample.data, Start(Sample.data)) = b
  <2>1. SampleBytes[5] = T.int
    BY DEF SampleBytes, T
  <2>2. bson_iterator_value(Sample.data, Start(Sample.data)) = 8
        /\ bson_iterator_next(Sample.data, Start(Sample.data)) - 1 = 11 /\ Sample.data[Start(Sample.data)] = T.int
        /\ Sample.data = SampleBytes
    BY SampleIs, <2>1 DEF Start
  <2> QED
    BY ONLY <1>1, <2>2, Zenon DEF bson_append_element
<1>3. Call(b, Leaf(T.int, name, Word(7)), slip) /\ build.data # <<>>
  BY ONLY <1>2, PutElement(name), Zenon DEF PutElement, Call
<1>4. name \in Seq(0..255) /\ Sound(build)
  BY Bounds DEF BuilderInv
<1> HIDE DEF value
<1>5. Started(build, h, 4)
  BY ONLY <1>4, ElementStarted, TypeNames, 4 \in Nat, Zenon
<1> HIDE DEF h
<1>6. Becomes(build, h) /\ Sound(h) /\ h.finished = build.finished
  BY <1>5 DEF Started, Becomes
<1>7. h.data # <<>> \/ ~h.finished
  <2>1. CASE h.ok
    BY <1>5, <1>6, <2>1 DEF Started
  <2>2. CASE ~h.ok
    BY <1>3, <1>5, <2>2 DEF Started
  <2> QED
    BY <2>1, <2>2
<1>8. /\ Sound(b) /\ b.finished = h.finished /\ b.err = h.err /\ b.dataSize = h.dataSize
      /\ h.ok => Len(b.data) = Len(h.data) + 4
  <2>1. CASE ~h.finished
    <3>1. /\ Sound(b) /\ b.finished = h.finished /\ b.err = h.err /\ b.dataSize = h.dataSize
          /\ Len(b.data) = Len(h.data) + Len(value)
      BY ONLY <1>1, <1>6, <2>1, BytesAppended, ZenonT(30)
    <3> QED
      BY ONLY <1>1, <3>1, Zenon
  <2>2. CASE h.finished
    <3>1. Sound(b) /\ b.finished = h.finished /\ b.err = h.err /\ b.dataSize = h.dataSize
      BY ONLY <1>1, <1>6, <1>7, <2>2, BytesWritten, ZenonT(30)
    <3>2. ~h.ok
      BY <1>5, <1>6, <2>2 DEF Started
    <3> QED
      BY <3>1, <3>2
  <2> QED
    BY <2>1, <2>2
<1> HIDE DEF b
<1>9. slip \subseteq {"headless"} /\ ("headless" \notin slip => h.ok)
  OBVIOUS
<1> HIDE DEF slip
<1>10. "headless" \notin slip /\ Fits(build) => Fits(b)
  BY <1>5, <1>8, <1>9 DEF Started, Fits
<1>11. ~build.finished /\ Refused(build) => Refused(b) \/ "SIZE_OVERFLOW" \in b.err
  BY <1>6, <1>8 DEF Becomes, Refused
<1>12. Outcome(build, b, slip)
  BY <1>6, <1>8, <1>9, <1>10, <1>11 DEF Outcome
<1> QED
  BY <1>3, <1>12, CallKeeps

\* So does one that is copied in under its own name.
LEMMA PutOwnElementKeeps == ASSUME BuilderInv, PutOwnElement PROVE BuilderInv'
<1> DEFINE value == SubSeq(SampleBytes, 5, 11)
           e == bson_ensure_space(build, Len(value))
           a == bson_append(e, value)
           b == OwnElement(build, Sample.data, Start(Sample.data))
           slip == IF build.finished THEN {"behind"} ELSE {}
<1>1. value \in Seq(0..255) /\ Len(value) = 7
  <2>1. 5 \in 1..12 /\ 11 \in 1..12 /\ 5 <= 11 /\ (11 - 5) + 1 = 7
    OBVIOUS
  <2>2. value \in Seq(0..255) /\ Len(value) = (11 - 5) + 1
    BY ONLY <2>1, PartOfSample, Zenon
  <2> QED
    BY <2>1, <2>2
<1>2. b = IF e.ok THEN a ELSE e
  <2>1. bson_iterator_next(Sample.data, Start(Sample.data)) - 1 = 11 /\ Start(Sample.data) = 5
        /\ Sample.data = SampleBytes
    BY SampleIs DEF Start
  <2> QED
    BY ONLY <2>1, Zenon DEF OwnElement
<1>3. Call(b, Leaf(T.int, << 115 >>, Word(7)), slip) /\ build.data # <<>>
  BY DEF PutOwnElement, Call
<1> HIDE DEF value, b
<1>4. Sound(build) /\ Len(value) \in Nat
  BY <1>1 DEF BuilderInv
<1>5. /\ Becomes(build, e) /\ e.data = build.data /\ e.back = build.back /\ (e.ok => e.err = build.err)
      /\ e.ok /\ Fits(build) => (Len(build.data) - build.back) + Len(value) <= e.dataSize
      /\ e.ok /\ Fits(build) /\ ~build.finished => Len(build.data) + Len(value) <= e.dataSize
  BY ONLY <1>4, SpaceEnsured
<1> HIDE DEF e
<1>6. Sound(e) /\ e.finished = build.finished /\ e.data # <<>>
  BY <1>3, <1>5 DEF Becomes
<1>7. /\ Sound(a) /\ a.finished = e.finished /\ a.err = e.err /\ a.dataSize = e.dataSize
      /\ \/ Len(a.data) = Len(e.data)
         \/ Len(a.data) = (Len(e.data) - e.back) + Len(value)
         \/ ~e.finished /\ Len(a.data) = Len(e.data) + Len(value)
  <2>1. CASE e.finished
    BY ONLY <1>1, <1>6, <2>1, BytesWritten
  <2>2. CASE ~e.finished
    BY ONLY <1>1, <1>6, <2>2, BytesAppended
  <2> QED
    BY <2>1, <2>2
<1> HIDE DEF a
<1>8. Becomes(build, b)
  <2>1. CASE ~e.ok
    BY <1>2, <1>5, <2>1
  <2>2. CASE e.ok
    <3>1. Fits(build) => Fits(a)
      BY <1>5, <1>6, <1>7, <2>2 DEF Fits, Becomes
    <3>2. Refused(build) => Refused(a)
      BY <1>5, <1>7, <2>2 DEF Refused
    <3> QED
      BY <1>2, <1>6, <1>7, <2>2, <3>1, <3>2 DEF Becomes
  <2> QED
    BY <2>1, <2>2
<1>9. slip \subseteq {"behind"}
  OBVIOUS
<1> HIDE DEF slip
<1>10. Outcome(build, b, slip)
  BY <1>8, <1>9 DEF Outcome, Becomes
<1> QED
  BY <1>3, <1>10, CallKeeps

\* So do the openings of a sub-object.
LEMMA OpenSubKeeps == ASSUME BuilderInv, OpenSub PROVE BuilderInv'
<1>1. Sound(build) /\ << 97 >> \in Seq(0..255)
  BY TypesAreBytes DEF BuilderInv
<1>2. /\ Becomes(build, bson_append_start_object(build, << 97 >>))
      /\ Becomes(build, bson_append_start_array(build, << 97 >>))
  BY ONLY <1>1, SubOpened, TypeNames, Zenon DEF bson_append_start_object, bson_append_start_array
<1> QED
  BY ONLY <1>2, BuilderInv, OpenSub, PutKeeps, Zenon DEF OpenSub, Put

\* So does the closing of one, or of none.
LEMMA CloseSubKeeps == ASSUME BuilderInv, CloseSub PROVE BuilderInv'
<1> DEFINE b == bson_append_finish_object(build)
           slip == IF build.stack = <<>> THEN {"unmatched"} ELSE {}
<1>1. Call(b, EndMark, slip) /\ Sound(build)
  BY DEF CloseSub, BuilderInv
<1>2. CASE build.stack # <<>>
  <2>1. Becomes(build, b) /\ slip = {}
    BY ONLY <1>1, <1>2, SubClosed, Zenon
  <2> HIDE DEF b, slip
  <2> QED
    BY <1>1, <2>1, PutKeeps
<1>3. CASE build.stack = <<>>
  <2>1. Sound(b) /\ b.finished = build.finished /\ (Fits(build) => Fits(b)) /\ slip = {"unmatched"}
    BY ONLY <1>1, <1>3, NothingToClose, Zenon
  <2> HIDE DEF b, slip
  <2>2. Outcome(build, b, slip)
    BY <2>1 DEF Outcome
  <2> QED
    BY <1>1, <2>2, CallKeeps
<1> QED
  BY <1>2, <1>3

\* What the size bytes of a finished document say.
LEMMA HeadIsRead ==
  ASSUME NEW d \in Seq(Cell), Headed(d)
  PROVE  UnWord(d) \in 5..IntMax - 1 /\ UnWord(d) <= Len(d) /\ \A i \in 1..4 : d[i] = Word(UnWord(d))[i]
<1>1. PICK n \in 5..IntMax - 1 : n <= Len(d) /\ \A i \in 1..4 : d[i] = Word(n)[i]
  BY DEF Headed
<1>2. n \in Nat /\ n <= GreatestInt
  BY <1>1, Bounds
<1>3. UnWord(d) = n
  BY ONLY <1>1, <1>2, WordIsRead, Zenon
<1> QED
  BY <1>1, <1>3

\* A document that is taken over, copied or not.
LEMMA TakenOver ==
  ASSUME NEW b, Sound(b), b.finished, b.data # <<>>, NEW c,
         c = bson_init_finished_data_with_copy(b.data) \/ c = bson_init_finished_data(b.data, FALSE)
  PROVE  Sound(c) /\ Fits(c) /\ c.finished
<1> DEFINE n == UnWord(b.data)
           d == SubSeq(b.data, 1, n)
<1>1. b.data \in Seq(Cell) /\ Headed(b.data)
  BY DEF Sound, Builders
<1>2. n \in 5..IntMax - 1 /\ n <= Len(b.data) /\ \A i \in 1..4 : b.data[i] = Word(n)[i]
  BY ONLY <1>1, HeadIsRead, Zenon
<1>3. /\ c.data = d /\ c.dataSize = n /\ c.finished = TRUE /\ c.stack = <<>> /\ c.stackSize = 0 /\ c.err = {}
      /\ c.ok = TRUE /\ c.dead = FALSE /\ c.ownsData \in BOOLEAN /\ (c.back = n \/ c.back = n - 4)
      /\ c = [data |-> c.data, back |-> c.back, dataSize |-> c.dataSize, ownsData |-> c.ownsData, finished |-> c.finished,
              stack |-> c.stack, stackSize |-> c.stackSize, err |-> c.err, ok |-> c.ok, dead |-> c.dead]
  <2> HIDE DEF n
  <2> QED
    BY Zenon DEF bson_init_finished_data_with_copy, bson_init_finished_data, bson_init_size, n
<1> HIDE DEF n
<1>4. d \in Seq(Cell) /\ Len(d) = n /\ \A i \in 1..4 : d[i] = b.data[i]
  <2> DEFINE s == b.data
  <2>1. s \in Seq(Cell) /\ n \in 5..IntMax - 1 /\ n <= Len(s) /\ IntMax \in Nat
    BY <1>1, <1>2, Bounds
  <2> HIDE DEF s
  <2>2. SubSeq(s, 1, n) \in Seq(Cell) /\ Len(SubSeq(s, 1, n)) = n /\ \A i \in 1..4 : SubSeq(s, 1, n)[i] = s[i]
    BY <2>1
  <2> QED
    BY <2>2 DEF s
<1> HIDE DEF d
<1>5. n \in 0..IntMax /\ n - 4 \in Nat /\ 0 \in Nat /\ <<>> \in Seq(Nat) /\ {} \in SUBSET Errors
  BY <1>2, Bounds
<1>6. c \in Builders
  <2>1. c.back \in Nat
    BY ONLY <1>3, <1>5
  <2> QED
    BY ONLY <1>3, <1>4, <1>5, <2>1 DEF Builders
<1>8. c.back = Len(c.data) \/ c.back + 4 <= Len(c.data)
  BY <1>3, <1>4, <1>5
<1>7. Headed(d)
  BY <1>2, <1>4 DEF Headed
<1> QED
  BY <1>3, <1>4, <1>5, <1>6, <1>7, <1>8 DEF Sound, Fits

\* So does the taking over of a document.
LEMMA CopyKeeps == ASSUME BuilderInv, Copy PROVE BuilderInv'
<1>1. Sound(build) /\ build.finished /\ build.data # <<>>
  BY DEF BuilderInv, Copy
<1>2. build' = bson_init_finished_data_with_copy(build.data) \/ build' = bson_init_finished_data(build.data, FALSE)
  BY DEF Copy
<1>3. Sound(build') /\ Fits(build') /\ build'.finished
  BY ONLY <1>1, <1>2, TakenOver, Zenon
<1>4. slips' = slips \union {"copied"}
  BY DEF Copy
<1>5. ~("half" \in slips' /\ slips' \intersect {"unmatched", "full"} = {})
  BY <1>1, <1>4 DEF BuilderInv
<1>6. slips' \subseteq Slips
  BY <1>4 DEF BuilderInv, Slips
<1> QED
  BY <1>3, <1>5, <1>6 DEF BuilderInv, Sound, Fits, Refused, Headed, Builders

\* What bson_finish leaves: it finishes only what no text was refused for.
LEMMA Finished ==
  ASSUME NEW b, Sound(b)
  PROVE  LET r == bson_finish(b) IN
         /\ Sound(r) /\ (Fits(b) => Fits(r)) /\ (b.finished => r.finished)
         /\ Refused(b) => Refused(r) /\ r.finished = b.finished
         /\ r.ok => r.finished
<1> DEFINE e == bson_ensure_space(b, 1)
           c == bson_append(e, << 0 >>)
           o == [c EXCEPT !.err = {"SIZE_OVERFLOW"}, !.ok = FALSE]
           n == Len(c.data)
           d == SubSeq(c.data, 1, 0) \o Word(n - 0) \o SubSeq(c.data, 0 + 5, n)
           w == [c EXCEPT !.data = d, !.ok = TRUE, !.finished = TRUE]
           r == bson_finish(b)
<1>1. b \in Builders
  BY DEF Sound
<1>2. CASE Refused(b)
  <2>1. r = [b EXCEPT !.ok = FALSE]
    BY <1>2 DEF bson_finish, Refused
  <2> HIDE DEF r
  <2>2. Sound(r) /\ r.data = b.data /\ r.dataSize = b.dataSize /\ r.finished = b.finished /\ r.err = b.err
        /\ r.ok = FALSE
    BY <1>1, <2>1 DEF Sound, Builders
  <2> QED
    BY <2>2 DEF Fits, Refused, r
<1>3. CASE ~Refused(b) /\ b.finished
  <2>1. r = [b EXCEPT !.ok = TRUE]
    BY <1>3 DEF bson_finish, Refused
  <2> HIDE DEF r
  <2>2. Sound(r) /\ r.data = b.data /\ r.dataSize = b.dataSize /\ r.finished = b.finished
    BY <1>1, <2>1 DEF Sound, Builders
  <2> QED
    BY <1>3, <2>2 DEF Fits, r
<1>4. CASE ~Refused(b) /\ ~b.finished /\ b.stack # <<>>
  <2>1. r = [b EXCEPT !.dead = TRUE, !.ok = FALSE]
    BY <1>4 DEF bson_finish, Refused, bson_fatal_msg
  <2> HIDE DEF r
  <2>2. Sound(r) /\ r.data = b.data /\ r.dataSize = b.dataSize /\ r.finished = b.finished /\ r.ok = FALSE
    BY <1>1, <2>1 DEF Sound, Builders
  <2> QED
    BY <1>4, <2>2 DEF Fits, r
<1>5. CASE ~Refused(b) /\ ~b.finished /\ b.stack = <<>>
  <2>1. /\ Becomes(b, e) /\ e.data = b.data /\ e.stack = b.stack
        /\ (e.ok /\ Fits(b) => Len(b.data) + 1 <= e.dataSize)
    BY <1>5, SpaceEnsured
  <2>2. r = IF ~e.ok THEN e ELSE IF n >= IntMax THEN o
            ELSE [[c EXCEPT !.data = d, !.ok = TRUE] EXCEPT !.finished = TRUE]
    BY <1>5, Zenon DEF bson_finish, Refused, Sized
  <2> HIDE DEF e
  <2>3. Sound(e) /\ ~e.finished /\ e.finished = b.finished
    BY <1>5, <2>1 DEF Becomes
  <2>4. << 0 >> \in Seq(0..255) /\ Len(<< 0 >>) = 1
    OBVIOUS
  <2>5. /\ Sound(c) /\ c.finished = e.finished /\ c.err = e.err /\ c.dataSize = e.dataSize
        /\ c.stack = e.stack /\ Len(c.data) = Len(e.data) + 1
    BY <2>3, <2>4, BytesAppended, ZenonT(30)
  <2> HIDE DEF c
  <2>6. c \in Builders /\ c.data \in Seq(Cell) /\ n \in Nat /\ n >= 5
    <3>1. Len(b.data) \in Nat /\ Len(b.data) >= 4
      BY <1>1, <1>5 DEF Sound, Builders
    <3>2. n = Len(b.data) + 1
      BY <2>1, <2>5
    <3> QED
      BY <2>5, <3>1, <3>2 DEF Sound, Builders
  <2>7. r = IF ~e.ok THEN e ELSE IF n >= IntMax THEN o ELSE w
    BY <2>2, <2>6 DEF Builders
  <2>8. e.ok /\ Fits(b) => n <= c.dataSize
    BY <2>1, <2>5
  <2> HIDE DEF r
  <2>9. CASE ~e.ok
    <3>1. Fits(b) => Fits(e)
      BY <2>1 DEF Becomes
    <3> QED
      BY <1>5, <2>3, <2>7, <2>9, <3>1 DEF r
  <2>10. CASE e.ok /\ n >= IntMax
    <3>1. r = o
      BY <2>7, <2>10
    <3>2. Sound(o) /\ o.finished = c.finished /\ o.data = c.data /\ o.dataSize = c.dataSize /\ o.ok = FALSE
      BY <2>5, <2>6 DEF Sound, Builders, Errors
    <3> HIDE DEF o
    <3> QED
      BY <1>5, <2>8, <2>10, <3>1, <3>2 DEF r, Fits
  <2>11. CASE e.ok /\ ~(n >= IntMax)
    <3>1. r = w
      BY <2>7, <2>11
    <3>2. d \in Seq(Cell) /\ Len(d) = n /\ \A i \in 1..4 : d[i] = Word(n)[i]
      <4>1. n - 0 = n /\ 0 \in Nat /\ 0 + 4 <= n /\ n \in Int
        BY <2>6
      <4>2. d = SubSeq(c.data, 1, 0) \o Word(n) \o SubSeq(c.data, 0 + 5, n)
        BY <4>1
      <4> HIDE DEF d
      <4> QED
        BY ONLY <2>6, <4>1, <4>2, SizeWritten DEF n
    <3>3. Headed(d)
      <4>1. n \in 5..IntMax - 1
        BY <2>6, <2>11, Bounds
      <4> HIDE DEF d, n
      <4> QED
        BY <3>2, <4>1 DEF Headed
    <3> HIDE DEF d, n
    <3>4. w \in Builders /\ w.data = d /\ w.finished = TRUE /\ w.stack = c.stack /\ w.stackSize = c.stackSize
          /\ w.dataSize = c.dataSize /\ w.back = c.back
      BY <2>6, <3>2 DEF Builders
    <3>8. w.back + 4 <= Len(w.data)
      <4>1. c.back = 0
        BY <2>3, <2>5 DEF Sound
      <4> QED
        BY <2>6, <3>2, <3>4, <4>1
    <3> HIDE DEF w
    <3>5. w.stack = <<>> /\ Len(w.stack) <= w.stackSize /\ \A i \in 1..Len(w.stack) : w.stack[i] + 4 <= Len(w.data)
      <4>1. w.stack = <<>> /\ Len(<<>>) = 0 /\ w.stackSize \in Nat
        BY <1>5, <2>1, <2>5, <3>4 DEF Builders
      <4> QED
        BY <4>1
    <3>6. Sound(w)
      BY <3>3, <3>4, <3>5, <3>8 DEF Sound
    <3>7. Fits(b) => Fits(w)
      BY <2>8, <2>11, <3>2, <3>4 DEF Fits
    <3> QED
      BY <1>5, <3>1, <3>4, <3>6, <3>7 DEF r
  <2> QED
    BY <2>9, <2>10, <2>11
<1> QED
  BY <1>2, <1>3, <1>4, <1>5

\* So does the finishing.
LEMMA FinishKeeps == ASSUME BuilderInv, Finish PROVE BuilderInv'
<1> DEFINE r == bson_finish(build)
           more == IF r.ok /\ ~build.finished THEN {"finished"} ELSE {}
<1>1. build' = r /\ slips' = slips \union more /\ Sound(build)
  BY DEF Finish, BuilderInv
<1>2. /\ Sound(r) /\ (Fits(build) => Fits(r)) /\ (build.finished => r.finished)
      /\ Refused(build) => Refused(r) /\ r.finished = build.finished
      /\ r.ok => r.finished
  BY ONLY <1>1, Finished, Zenon
<1>3. more \subseteq {"finished"} /\ ("finished" \in more => r.finished)
  BY <1>2
<1> HIDE DEF r, more
<1>4. slips' \subseteq Slips
  BY <1>1, <1>3 DEF BuilderInv, Slips
<1>5. "headless" \notin slips' => Fits(r)
  BY <1>1, <1>2 DEF BuilderInv
<1>6. "finished" \in slips' => r.finished
  BY <1>1, <1>2, <1>3 DEF BuilderInv
<1>7. "half" \in slips' /\ slips' \intersect {"unmatched", "full"} = {} => Refused(r) /\ ~r.finished
  <2>1. "half" \in slips' /\ slips' \intersect {"unmatched", "full"} = {}
        => "half" \in slips /\ slips \intersect {"unmatched", "full"} = {}
    BY <1>1, <1>3
  <2> QED
    BY <1>2, <2>1 DEF BuilderInv
<1> QED
  BY <1>1, <1>2, <1>4, <1>5, <1>6, <1>7 DEF BuilderInv, Sound, Fits, Refused, Headed, Builders

\* So does bson_destroy: nothing is left.
LEMMA DestroyKeeps == ASSUME BuilderInv, Destroy PROVE BuilderInv'
<1> DEFINE r == bson_destroy(build)
<1>1. build' = r /\ slips' = {} /\ build \in Builders
  BY DEF Destroy, BuilderInv, Sound
<1>2. r \in Builders /\ r.data = <<>> /\ r.back = 0 /\ r.stack = <<>> /\ r.stackSize = 0 /\ r.finished = TRUE /\ r.dataSize = 0
  <2> DEFINE r1 == [build EXCEPT !.data = <<>>, !.back = 0, !.dataSize = 0, !.ownsData = FALSE]
             r2 == [r1 EXCEPT !.stack = <<>>, !.stackSize = 0, !.err = {}]
             r3 == [r2 EXCEPT !.finished = TRUE, !.ok = TRUE]
  <2>1. r = r3
    BY ONLY Zenon DEF bson_destroy
  <2> DEFINE e1 == <<>>
             e2 == <<>>
             e3 == {}
  <2>0. 0 \in 0..IntMax /\ e1 \in Seq(Cell) /\ e2 \in Seq(Nat) /\ e3 \in SUBSET Errors /\ 0 \in Nat
    BY Bounds
  <2> HIDE DEF e1, e2, e3
  <2>2. r1 \in Builders /\ r1.data = e1 /\ r1.back = 0 /\ r1.dataSize = 0
    <3>1. r1 = [build EXCEPT !.data = e1, !.back = 0, !.dataSize = 0, !.ownsData = FALSE]
      BY DEF e1
    <3> QED
      BY ONLY <1>1, <2>0, <3>1 DEF Builders
  <2> HIDE DEF r1
  <2>3. r2 \in Builders /\ r2.data = e1 /\ r2.back = 0 /\ r2.dataSize = 0 /\ r2.stack = e2 /\ r2.stackSize = 0
    <3>1. r2 = [r1 EXCEPT !.stack = e2, !.stackSize = 0, !.err = e3]
      BY DEF e2, e3
    <3> QED
      BY ONLY <2>0, <2>2, <3>1 DEF Builders
  <2> HIDE DEF r2
  <2>4. r3 \in Builders /\ r3.data = e1 /\ r3.back = 0 /\ r3.dataSize = 0 /\ r3.stack = e2 /\ r3.stackSize = 0
        /\ r3.finished = TRUE
    BY ONLY <2>3 DEF Builders
  <2> QED
    BY ONLY <2>1, <2>4 DEF e1, e2
<1> HIDE DEF r
<1>3. Sound(r) /\ Fits(r)
  BY <1>2 DEF Sound, Fits
<1> QED
  BY <1>1, <1>3 DEF BuilderInv, Slips, Sound, Fits, Refused, Headed, Builders

\* A builder starts with the room for the four bytes of the size.
LEMMA InitHasInv == BuilderInit => BuilderInv
<1> SUFFICES ASSUME BuilderInit PROVE BuilderInv
  OBVIOUS
<1>1. PICK n \in RoomSizes : build = bson_init_size(n)
  BY DEF BuilderInit
<1>2. n \in 0..IntMax /\ n >= 4
  BY Bounds
<1>3. build = [data |-> << Unset, Unset, Unset, Unset >>, back |-> 0, dataSize |-> n, ownsData |-> TRUE,
               finished |-> FALSE, stack |-> << >>, stackSize |-> 0, err |-> {}, ok |-> TRUE, dead |-> FALSE]
  BY <1>1 DEF bson_init_size
<1>4. << Unset, Unset, Unset, Unset >> \in Seq(Cell) /\ Len(<< Unset, Unset, Unset, Unset >>) = 4
  <2>1. Unset \in Cell
    BY DEF Cell
  <2> QED
    BY <2>1
<1>5. build \in Builders
  BY <1>2, <1>3, <1>4 DEF Builders
<1>6. Sound(build) /\ Fits(build)
  BY <1>2, <1>3, <1>4, <1>5 DEF Sound, Fits
<1> QED
  BY <1>6 DEF BuilderInv, BuilderInit, Slips

\* Every step keeps it.
LEMMA BuilderStep == BuilderInv /\ [BuilderNext]_builderVars => BuilderInv'
<1> SUFFICES ASSUME BuilderInv, [BuilderNext]_builderVars PROVE BuilderInv'
  OBVIOUS
<1>1. CASE \E name \in Names : PutInt(name) \/ PutElement(name)
  BY <1>1, PutIntKeeps, PutElementKeeps
<1>2. CASE \E s \in Texts : PutString(s) \/ PutRegex(s)
  BY <1>2, PutStringKeeps, PutRegexKeeps
<1>3. CASE PutFixed
  BY <1>3, PutFixedKeeps
<1>4. CASE PutBinary
  BY <1>4, PutBinaryKeeps
<1>5. CASE PutScoped
  BY <1>5, PutScopedKeeps
<1>6. CASE PutBson
  BY <1>6, PutBsonKeeps
<1>7. CASE PutOwnElement
  BY <1>7, PutOwnElementKeeps
<1>8. CASE OpenSub
  BY <1>8, OpenSubKeeps
<1>9. CASE CloseSub
  BY <1>9, CloseSubKeeps
<1>10. CASE Copy
  BY <1>10, CopyKeeps
<1>11. CASE Finish
  BY <1>11, FinishKeeps
<1>12. CASE Destroy
  BY <1>12, DestroyKeeps
<1>13. CASE UNCHANGED builderVars
  BY <1>13 DEF builderVars, BuilderInv, Sound, Fits, Refused, Headed, Builders
<1> QED
  BY <1>1, <1>2, <1>3, <1>4, <1>5, <1>6, <1>7, <1>8, <1>9, <1>10, <1>11, <1>12, <1>13 DEF BuilderNext

\* Whatever its caller puts in, in whatever order and without looking at a result, the
\* builder keeps to the room it allocated and to its stack of open sub-objects, unless an
\* element was copied in behind a head that was refused, and half a regular expression
\* gets into a finished document only where another error covered the refusal (bson.c
\* 604-1040): for every INT_MAX up to that of 32 bits, every start room, and all names
\* and texts.
THEOREM BuilderIsSafe == BuilderSpec => []BuilderSafe
<1>1. BuilderInit => BuilderInv
  BY InitHasInv
<1>2. BuilderInv /\ [BuilderNext]_builderVars => BuilderInv'
  BY BuilderStep
<1>3. BuilderInv => BuilderSafe
  BY InvIsSafe
<1> QED
  BY <1>1, <1>2, <1>3, PTL DEF BuilderSpec
=============================================================================
