----------------------------- MODULE RingQueue -----------------------------
(***************************************************************************)
(* The lock-free queue between the epoll thread and the worker threads     *)
(* (ring_queue.cpp), with the two loops that use it: the push at the end   *)
(* of EpollServer::epollRoutine and the pop / dispatch / delete loop of    *)
(* WorkThread::threadRoutine and ServletDispatch::dispatchMessage.         *)
(*                                                                         *)
(* Messages are named 1, 2, ... in the order the epoll thread creates      *)
(* them, so the message pushed at position p (the value m_tail had) is     *)
(* p + 1, and 0 stands for the NULL pointer.  Every access to memory that  *)
(* another thread can see is a step of its own.                            *)
(***************************************************************************)
EXTENDS Naturals, Sequences, FiniteSets

CONSTANTS Workers,    \* worker threads (main.cpp, "thread_num", default 1)
          Capacity,   \* m_queue.size(), 8096 in the code
          MaxPush,    \* bound on the messages ever created
          MaxPop      \* bound on m_head

ASSUME CapacityAssumption == Capacity \in Nat \ {0}
ASSUME BoundAssumption    == MaxPush \in Nat /\ MaxPop \in Nat
ASSUME WorkersAssumption  == IsFiniteSet(Workers)

VARIABLES
  head,     \* m_head
  tail,     \* m_tail
  slot,     \* m_queue: slot[i] is a message or 0
  pushing,  \* the message whose position is reserved but not yet stored, or 0
  wpc,      \* where each worker is in its loop
  wpos,     \* the m_head each worker read at the start of pop()
  wmsg,     \* the message each worker holds
  freed,    \* messages that were deleted
  takes,    \* history: what pop() returned, in the order it returned
  alive     \* FALSE once the process has died

vars == <<head, tail, slot, pushing, wpc, wpos, wmsg, freed, takes, alive>>
queueVars  == <<head, tail, slot, pushing>>
workerVars == <<wpc, wpos, wmsg, freed, takes, alive>>

Index(p) == p % Capacity
Messages == 1..MaxPush

Init ==
  /\ head = 0 /\ tail = 0 /\ pushing = 0
  /\ slot = [i \in 0..Capacity-1 |-> 0]
  /\ wpc  = [w \in Workers |-> "read"]
  /\ wpos = [w \in Workers |-> 0]
  /\ wmsg = [w \in Workers |-> 0]
  /\ freed = {} /\ takes = <<>> /\ alive = TRUE

\* push: the fetch-and-add that reserves a position for the new message.
\* Nothing compares m_tail with m_head.
PushReserve ==
  /\ alive /\ pushing = 0 /\ tail < MaxPush
  /\ tail' = tail + 1
  /\ pushing' = tail + 1
  /\ UNCHANGED <<head, slot>> /\ UNCHANGED workerVars

\* Mutant of PushStore: the store goes to the slot after the reserved one.
PushStoreOffByOne ==
  /\ alive /\ pushing # 0
  /\ slot' = [slot EXCEPT ![Index(pushing)] = pushing]
  /\ pushing' = 0
  /\ UNCHANGED <<head, tail>> /\ UNCHANGED workerVars

\* push: the store into the reserved slot, whatever it still holds.
PushStore ==
  /\ alive /\ pushing # 0
  /\ slot' = [slot EXCEPT ![Index(pushing - 1)] = pushing]
  /\ pushing' = 0
  /\ UNCHANGED <<head, tail>> /\ UNCHANGED workerVars

At(w, l) == alive /\ wpc[w] = l
Goto(w, l) == wpc' = [wpc EXCEPT ![w] = l]

\* pop: head = m_head % size
PopRead(w) ==
  /\ At(w, "read")
  /\ wpos' = [wpos EXCEPT ![w] = head]
  /\ Goto(w, "check")
  /\ UNCHANGED queueVars /\ UNCHANGED <<wmsg, freed, takes, alive>>

\* Mutants of PopCheck: the NULL check is gone; it looks one slot ahead.
PopCheckNothing(w) ==
  /\ At(w, "check") /\ Goto(w, "advance")
  /\ UNCHANGED queueVars /\ UNCHANGED <<wpos, wmsg, freed, takes, alive>>
PopCheckAhead(w) ==
  /\ At(w, "check")
  /\ Goto(w, IF slot[Index(wpos[w] + 1)] = 0 THEN "read" ELSE "advance")
  /\ UNCHANGED queueVars /\ UNCHANGED <<wpos, wmsg, freed, takes, alive>>

\* pop: an empty slot returns NULL (the caller sleeps and polls again).
PopCheck(w) ==
  /\ At(w, "check")
  /\ Goto(w, IF slot[Index(wpos[w])] = 0 THEN "read" ELSE "advance")
  /\ UNCHANGED queueVars /\ UNCHANGED <<wpos, wmsg, freed, takes, alive>>

\* Mutants of PopAdvance: a fetch-and-subtract; no advance at all; a plain store
\* of the position read plus one.
PopAdvanceTo(w, h) ==
  /\ At(w, "advance") /\ head < MaxPop
  /\ head' = h
  /\ Goto(w, "take")
  /\ UNCHANGED <<tail, slot, pushing>> /\ UNCHANGED <<wpos, wmsg, freed, takes, alive>>
PopAdvanceBack(w)  == PopAdvanceTo(w, head - 1)
PopAdvanceNot(w)   == PopAdvanceTo(w, head)
PopAdvanceStore(w) == PopAdvanceTo(w, wpos[w] + 1)

\* pop: the fetch-and-add on m_head, whatever its value is by now.
PopAdvance(w) ==
  /\ At(w, "advance") /\ head < MaxPop
  /\ head' = head + 1
  /\ Goto(w, "take")
  /\ UNCHANGED <<tail, slot, pushing>>
  /\ UNCHANGED <<wpos, wmsg, freed, takes, alive>>

\* pop: the second read of the slot, which stays filled.
PopTake(w) ==
  LET m == slot[Index(wpos[w])] IN
  /\ At(w, "take")
  /\ wmsg'  = [wmsg EXCEPT ![w] = m]
  /\ takes' = Append(takes, [worker |-> w, pos |-> wpos[w], msg |-> m])
  /\ Goto(w, "dispatch")
  /\ UNCHANGED queueVars /\ UNCHANGED <<wpos, freed, alive>>

\* dispatchMessage: a known protocol runs its servlet (an exception in it is
\* swallowed) and goes on to the delete; an unknown one returns early and the
\* message is never deleted.  The process may die on any message: on a deleted
\* one, on a "Command", "Token" or "Body" of another type, read outside the
\* try, and on the NULL role or account some servlets go on with.
Dispatch(w) ==
  /\ At(w, "dispatch")
  /\ \/ Goto(w, "delete") /\ UNCHANGED alive
     \/ Goto(w, "read") /\ UNCHANGED alive
     \/ alive' = FALSE /\ UNCHANGED wpc
  /\ UNCHANGED queueVars /\ UNCHANGED <<wpos, wmsg, freed, takes>>

\* dispatchMessage: delete msg; a second delete may go unnoticed or abort.
Delete(w) ==
  /\ At(w, "delete")
  /\ \/ Goto(w, "read") /\ UNCHANGED alive
     \/ wmsg[w] \in freed /\ alive' = FALSE /\ UNCHANGED wpc
  /\ freed' = freed \union {wmsg[w]}
  /\ UNCHANGED queueVars /\ UNCHANGED <<wpos, wmsg, takes>>

Worker(w) ==
  \/ PopRead(w) \/ PopCheck(w) \/ PopAdvance(w) \/ PopTake(w)
  \/ Dispatch(w) \/ Delete(w)

Next == PushReserve \/ PushStore \/ \E w \in Workers : Worker(w)

Spec == Init /\ [][Next]_vars

\* What a worker does without the socket: every step but Dispatch.
Unblocked(w) ==
  PopRead(w) \/ PopCheck(w) \/ PopAdvance(w) \/ PopTake(w) \/ Delete(w)

\* The epoll thread finishes a push it began, and a worker thread that is not
\* inside a servlet keeps being scheduled.  Nothing makes a servlet end: it
\* answers with a ::write on a blocking descriptor, which waits for as long as
\* the client does not read.  Whether another message arrives is up to the
\* clients.
Fairness == WF_vars(PushStore) /\ \A w \in Workers : WF_vars(Unblocked(w))
FairSpec == Spec /\ Fairness

-----------------------------------------------------------------------------
(* Properties.                                                             *)

WorkerPC == {"read", "check", "advance", "take", "dispatch", "delete"}
Take == [worker : Workers, pos : Nat, msg : Nat]

\* The type of every variable.
TypeOK ==
  /\ head \in Nat /\ tail \in Nat /\ pushing \in Nat
  /\ slot \in [0..Capacity-1 -> Nat]
  /\ wpc \in [Workers -> WorkerPC]
  /\ wpos \in [Workers -> Nat]
  /\ wmsg \in [Workers -> Nat]
  /\ freed \in SUBSET Nat
  /\ takes \in Seq(Take)
  /\ alive \in BOOLEAN

\* The number of messages whose store has happened.
Stored == IF pushing = 0 THEN tail ELSE tail - 1

\* A position is in the window when its message is stored and the producer
\* has not stored a whole lap past it.
InWindow(p) == p < Stored /\ Stored <= p + Capacity

\* Every position in the window is still in its slot: a lap of the ring is
\* never disturbed by a push that is under way, or by any number of pops
\* (RingQueue::push against RingQueue::pop).
WindowIntact ==
  \A p \in 0..MaxPush-1 : InWindow(p) => slot[Index(p)] = p + 1

\* pop() returns the message of the position it read, however many workers
\* race and however far m_head has moved since, as long as that position is
\* still in the window when the slot is read the second time.
WindowedPop ==
  [][\A w \in Workers :
       PopTake(w) /\ InWindow(wpos[w]) => wmsg'[w] = wpos[w] + 1]_vars

OneWorker == Cardinality(Workers) <= 1
FirstLap  == tail <= Capacity /\ Len(takes) <= Capacity

\* With the default single worker, the queue is a FIFO for the first lap:
\* the i-th message popped is the i-th message pushed, none lost, none twice
\* (after it, an emptied slot still looks full and is popped again).
FirstLapInOrder ==
  OneWorker /\ FirstLap => \A i \in 1..Len(takes) : takes[i].msg = i

\* ... and in that lap no servlet ever runs on a message that was deleted.
NoUseAfterDelete ==
  OneWorker /\ FirstLap =>
    \A w \in Workers :
      wpc[w] \in {"dispatch", "delete"} => wmsg[w] \notin freed

\* Several workers may pop the same message, but in the first lap one worker
\* never gets the same message twice, nor an older one after a newer one.
WorkerInOrder ==
  tail <= Capacity =>
    \A i, j \in 1..Len(takes) :
      /\ i < j /\ takes[i].worker = takes[j].worker
      /\ takes[j].pos < Capacity
      => takes[i].msg < takes[j].msg

Taken    == {takes[i].pos : i \in 1..Len(takes)}
InAState(l) == {w \in Workers : wpc[w] = l}

\* Every pop moves m_head by exactly one, also one that returns a message
\* another worker got too; so the positions m_head has passed without their
\* message being popped are exactly as many as the surplus copies popped.
LossIsDuplication ==
  InAState("take") = {} =>
    Cardinality((0..head-1) \ Taken) = Len(takes) - Cardinality(Taken)

\* With one worker, and for as many pushes and pops as the ring has slots, the
\* queue implements a FIFO channel: a message is sent when its store happens
\* and received when pop() returns it.
Channel == INSTANCE MessageChannel
             WITH sent <- Stored, received <- [i \in 1..Len(takes) |-> takes[i].msg]
IsChannel == Channel!Spec

\* No worker stays inside one servlet for ever (ServletDispatch::dispatchMessage).
WritesReturn == \A w \in Workers : []<>(~alive \/ wpc[w] # "dispatch")

\* With one worker, and as long as the clients read what is written to them and
\* the process lives, every message of the first lap is eventually popped: none
\* waits for a later message to arrive (RingQueue::pop in
\* WorkThread::threadRoutine).
EventuallyPopped ==
  WritesReturn =>
    \A m \in Messages :
      (OneWorker /\ m <= Capacity /\ slot[Index(m - 1)] = m)
        ~> (~alive \/ \E i \in 1..Len(takes) : takes[i].msg = m)
=============================================================================
