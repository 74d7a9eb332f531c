------------------------------- MODULE Frames -------------------------------
(***************************************************************************)
(* From the bytes of a connection to the messages of the queue: the read   *)
(* loop of Socket::read, Buffer::add, BsonBuffer::parseFromBuffer and the  *)
(* epoll thread that drives them for all connections (epoll_server.cpp).   *)
(*                                                                         *)
(* A byte is its position in the stream of its connection; the client      *)
(* frames the stream, a frame is a head and a body.  The descriptors block *)
(* (nothing calls nonblocking() on an accepted one) and are watched edge   *)
(* triggered.                                                              *)
(***************************************************************************)
EXTENDS Naturals, Sequences, SequencesExt, FiniteSetsExt

CONSTANTS
  Conns,      \* connections
  NoConn,
  HeadLen,    \* Packet::sz()
  Chunk,      \* what one read() takes at most
  MaxBuffer,  \* MAX_BUFFER_SIZE
  Sizes,      \* sizes of frames, with their heads
  MaxFrames,  \* bound on the frames of a connection
  Kinds       \* what is known of the clients: "any", "whole" or "waiting"

ASSUME FramesAssumption ==
  /\ Kinds \subseteq {"any", "whole", "waiting"}
  /\ HeadLen \in Nat \ {0} /\ MaxBuffer \in Nat \ {0} /\ Chunk \in 1..MaxBuffer
  /\ Sizes \subseteq {z \in 0..MaxBuffer : z > HeadLen} /\ MaxFrames \in Nat

VARIABLES
  kind,   \* one of Kinds, for good
  conn,   \* per connection: the client's side, the kernel's and the buffer's
  thread  \* the epoll thread: the connection it handles and the step it is at

framesVars == <<kind, conn, thread>>

Garbled == MaxFrames + 1

Fresh == [ends |-> <<>>,      \* the position of the last byte of every frame sent
          arrived |-> 0,      \* bytes that have reached the socket
          taken |-> 0,        \* bytes that read() has returned
          eof |-> FALSE,      \* the client has closed
          edge |-> FALSE,     \* epoll has something to report
          open |-> TRUE,
          start |-> 0,        \* m_read
          bytes |-> <<>>,     \* m_buffer from m_read to m_write
          protocol |-> 0,     \* m_protocol: the frame in it, 0 before the first
          pushed |-> <<>>,    \* history: the messages pushed
          refused |-> FALSE]  \* history: an add() has failed

FramesInit ==
  /\ kind \in Kinds
  /\ conn = [s \in Conns |-> Fresh]
  /\ thread = [at |-> "wait", conn |-> NoConn]

Sent(c) == IF c.ends = <<>> THEN 0 ELSE Last(c.ends)
Begin(c, n) == IF n = 1 THEN 1 ELSE c.ends[n-1] + 1

-----------------------------------------------------------------------------
(* The client and the network.  The frames of a "whole" client arrive      *)
(* whole; a "waiting" one waits for the answer to a frame before it sends  *)
(* the next, and its frames are shorter than a chunk.                      *)

Answered(c) == c.ends = <<>> \/ c.protocol = Len(c.ends)

SendFrame(s, z) ==
  /\ ~conn[s].eof /\ Len(conn[s].ends) < MaxFrames
  /\ kind = "waiting" => Answered(conn[s]) /\ z < Chunk
  /\ conn' = [conn EXCEPT ![s].ends = Append(@, Sent(conn[s]) + z)]
  /\ UNCHANGED <<kind, thread>>

Arrive(s, p) ==
  /\ conn[s].open /\ conn[s].arrived < p /\ p <= Sent(conn[s])
  /\ kind = "whole" => p \in ToSet(conn[s].ends)
  /\ conn' = [conn EXCEPT ![s].arrived = p, ![s].edge = TRUE]
  /\ UNCHANGED <<kind, thread>>

Close(s) ==
  /\ conn[s].open /\ ~conn[s].eof /\ conn[s].arrived = Sent(conn[s])
  /\ conn' = [conn EXCEPT ![s].eof = TRUE, ![s].edge = TRUE]
  /\ UNCHANGED <<kind, thread>>

-----------------------------------------------------------------------------
(* The epoll thread.                                                       *)

Ready(c) == c.arrived > c.taken \/ c.eof

EpollWait(s) ==
  /\ thread.at = "wait" /\ conn[s].open /\ conn[s].edge /\ Ready(conn[s])
  /\ thread' = [at |-> "read", conn |-> s]
  /\ conn' = [conn EXCEPT ![s].edge = FALSE]

\* Mutant of Add: the room is not looked at again when the bytes have been moved.
AddUnchecked(c, new) ==
  IF c.start + Len(c.bytes) + Len(new) < MaxBuffer THEN [c EXCEPT !.bytes = @ \o new]
  ELSE IF c.start = 0 THEN [c EXCEPT !.refused = TRUE]
  ELSE [c EXCEPT !.bytes = @ \o new, !.start = 0]

\* Buffer::add: what was read makes room when the new bytes do not fit behind it;
\* what does not fit even so is dropped, and Socket::read does not look.
Add(c, new) ==
  LET fits(start) == start + Len(c.bytes) + Len(new) < MaxBuffer IN
  IF fits(c.start)  THEN [c EXCEPT !.bytes = @ \o new]
  ELSE IF fits(0) /\ c.start # 0 THEN [c EXCEPT !.bytes = @ \o new, !.start = 0]
  ELSE [c EXCEPT !.start = 0, !.refused = TRUE]

\* What one read() returned goes into the buffer.
TakenIn(c, n) == [Add(c, [i \in 1..n |-> c.taken + i]) EXCEPT !.taken = @ + n]

\* Mutant of Took: the loop goes on until nothing is left.
TookOn(s, n) ==
  /\ conn' = [conn EXCEPT ![s] = TakenIn(@, n)]
  /\ UNCHANGED thread

\* One turn of the loop of Socket::read.
Took(s, n) ==
  /\ conn' = [conn EXCEPT ![s] = TakenIn(@, n)]
  /\ thread' = IF n = Chunk THEN thread ELSE [thread EXCEPT !.at = "parse"]

\* With nothing to read and the peer still there, read() waits.
Read ==
  LET s == thread.conn  c == conn[s] IN
  /\ thread.at = "read"
  /\ IF c.arrived > c.taken THEN Took(s, Min({Chunk, c.arrived - c.taken}))
     ELSE /\ c.eof /\ conn' = [conn EXCEPT ![s].open = FALSE]
          /\ thread' = [thread EXCEPT !.at = "parse"]

\* The body a head announces: its own, or any when bytes of the head were dropped.
InARow(b, k) == \A i \in 1..k : b[i] = b[1] + i - 1
Announced(c, n) ==
  IF InARow(c.bytes, HeadLen) THEN {c.ends[n] - Begin(c, n) + 1 - HeadLen} ELSE 0..MaxBuffer

\* Mutant of Consumed: the rest of the buffer is thrown away with the frame.
ConsumedAll(c, len) == [c EXCEPT !.start = @ + Len(c.bytes), !.bytes = <<>>]

\* The bytes behind m_read once a frame of this length has been parsed.
Consumed(c, len) == [c EXCEPT !.start = @ + len, !.bytes = SubSeq(@, len + 1, Len(@))]

\* A body that is not whole leaves m_protocol alone or fills it with something.
Parsed(c, n, len) == IF InARow(c.bytes, len) /\ Begin(c, n) + len - 1 = c.ends[n]
                     THEN {n} ELSE {c.protocol, Garbled}
Pushed(c) == [c EXCEPT !.pushed = Append(@, c.protocol)]

\* A frame of this length leaves the buffer, and m_protocol, now p, is pushed.
TakenOut(c, len, p) == Pushed([Consumed(c, len) EXCEPT !.protocol = p])

\* Mutant of Short: a frame waits for one byte of the next.
ShortOfNext(c, body) == Len(c.bytes) - HeadLen <= body

\* "wait for buffer body"
Short(c, body) == Len(c.bytes) - HeadLen < body

\* parseFromBuffer, once, and the push of whatever m_protocol holds then.
Parse ==
  LET s == thread.conn  c == conn[s] IN
  /\ thread.at = "parse" /\ thread' = [at |-> "wait", conn |-> NoConn]
  /\ \/ Len(c.bytes) < HeadLen /\ UNCHANGED conn
     \/ /\ Len(c.bytes) >= HeadLen /\ \A n \in DOMAIN c.ends : Begin(c, n) # c.bytes[1]
        /\ conn' = [conn EXCEPT ![s].open = FALSE]
     \/ /\ Len(c.bytes) >= HeadLen
        /\ \E n \in DOMAIN c.ends : Begin(c, n) = c.bytes[1] /\ \E body \in Announced(c, n) :
             IF Short(c, body) THEN conn' = [conn EXCEPT ![s] = Pushed(@)]
             ELSE \E p \in Parsed(c, n, HeadLen + body) :
               conn' = [conn EXCEPT ![s] = TakenOut(@, HeadLen + body, p)]

Epoll == ((\E s \in Conns : EpollWait(s)) \/ Read \/ Parse) /\ UNCHANGED kind

FramesNext ==
  \/ \E s \in Conns : \/ \E z \in Sizes : SendFrame(s, z)
                      \/ \E p \in 1..Sent(conn[s]) : Arrive(s, p)
                      \/ Close(s)
  \/ Epoll

FramesSpec == FramesInit /\ [][FramesNext]_framesVars

\* The epoll thread runs while it can, and what was sent arrives.
FairFrames ==
  FramesSpec /\ WF_framesVars(Epoll)
       /\ \A s \in Conns : WF_framesVars(\E p \in 1..Sent(conn[s]) : Arrive(s, p))

-----------------------------------------------------------------------------
(* Properties.                                                             *)

\* The type of every variable.
FramesTypeOK ==
  /\ kind \in Kinds
  /\ \A s \in Conns : LET c == conn[s] IN
       /\ c.ends \in Seq(Nat) /\ c.taken <= c.arrived /\ c.arrived <= Sent(c)
       /\ c.start + Len(c.bytes) < MaxBuffer /\ ToSet(c.bytes) \subseteq 1..c.taken
       /\ c.protocol \in 0..Garbled /\ c.pushed \in Seq(0..Garbled)
       /\ {c.eof, c.edge, c.open, c.refused} \subseteq BOOLEAN
  /\ thread \in [at : {"wait"}, conn : {NoConn}] \union [at : {"read", "parse"}, conn : Conns]

\* As long as no add() has failed, the messages of a connection are pushed in
\* the order of its frames, none skipped, whatever the sizes of the frames and
\* however they arrive; only the last one may be pushed again.
InOrder ==
  \A s \in Conns : LET p == conn[s].pushed IN
    ~conn[s].refused =>
      \A i \in DOMAIN p : p[i] \in IF i = 1 THEN {0, 1} ELSE {p[i-1], p[i-1] + 1}

\* When frames arrive whole no message is pushed twice and none before it is
\* there, also for a client that does not wait, as long as no add() has failed;
\* and for one that waits for its answers none ever fails: Buffer::add makes room
\* for every frame shorter than the buffer, wherever the last one ended.
OnceEach ==
  \A s \in Conns :
    /\ kind = "whole" /\ ~conn[s].refused => conn[s].pushed = [i \in DOMAIN conn[s].pushed |-> i]
    /\ kind = "waiting" => ~conn[s].refused

\* When every client waits for its answers and its frames are shorter than one
\* chunk, no client stalls the thread in read(), and every frame is pushed in the
\* end, also when its client closes right behind it.
EventuallyPushed ==
  \A s \in Conns : \A n \in 1..MaxFrames :
    (kind = "waiting" /\ Len(conn[s].ends) >= n) ~> (conn[s].protocol >= n)

\* "wait for buffer body": a frame that is not there yet pushes no message.
WaitsForBody ==
  \A s \in Conns : \A i, j \in DOMAIN conn[s].pushed :
    conn[s].pushed[i] = conn[s].pushed[j] => i = j
=============================================================================
